\* Expected to be violated.
SPECIFICATION Spec
CONSTANTS
    Instances = {i1}
    Bindings = {b1, b2}
    Requests = {r1, r2, r3}
    Services = {svc}
    Secrets = {sec}
    Brokers = {k1}
    Namespaces = {ns}
    Ops = {"provision", "bind"}
    Modes = {TRUE}
    Faults = {}
    Serial = FALSE
    None = None
SYMMETRY Symmetry
INVARIANTS
    BindResultReported
