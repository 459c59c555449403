\* Expected to be violated.
SPECIFICATION Spec
CONSTANTS
    Instances = {i1}
    Bindings = {b1}
    Requests = {r1, r2}
    Services = {svc}
    Secrets = {sec}
    Brokers = {k1}
    Namespaces = {ns}
    Ops = {"provision", "deprovision"}
    Modes = {TRUE}
    Faults = {}
    Serial = FALSE
    None = None
SYMMETRY Symmetry
INVARIANTS
    PollsOwnOperation
