\* Two instances share the broker and the namespaces; asynchronous calls overlap.
SPECIFICATION Spec
CONSTANTS
    Instances = {i1, i2}
    Bindings = {b1}
    Requests = {r1, r2, r3}
    Services = {svc}
    Secrets = {sec}
    Brokers = {k1}
    Namespaces = {ns1, ns2}
    Ops = {"provision", "deprovision", "bind"}
    Modes = {TRUE}
    Faults = {"helm"}
    Serial = FALSE
    None = None
SYMMETRY Symmetry
INVARIANTS
    OwnCredentials
    NothingLeftInProgress
