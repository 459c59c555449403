\* Two broker processes, as while a Deployment rolls over: three calls of any
\* kind interleave at every API call; updates conflict, fail or lose their reply.
SPECIFICATION Spec
CONSTANTS
    Instances = {i1}
    Bindings = {b1}
    Requests = {r1, r2, r3}
    Services = {svc}
    Secrets = {sec}
    Brokers = {k1, k2}
    Namespaces = {ns}
    Ops = {"provision", "deprovision", "bind", "unbind"}
    Modes = {TRUE, FALSE}
    Faults = {"kube", "crash"}
    Serial = FALSE
    None = None
SYMMETRY Symmetry
INVARIANTS
    TypeOK
PROPERTIES
    NoLostUpdate
    AnswersAreTrue
