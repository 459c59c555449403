\* A platform that waits for each call; every fault may strike each of them, and
\* a release has two secrets.
SPECIFICATION Spec
CONSTANTS
    Instances = {i1}
    Bindings = {b1}
    Requests = {r1, r2, r3, r4}
    Services = {svc}
    Secrets = {sec1, sec2}
    Brokers = {k1}
    Namespaces = {ns}
    Ops = {"provision", "deprovision", "bind", "unbind"}
    Modes = {TRUE, FALSE}
    Faults = {"kube", "helm", "provider", "crash"}
    Serial = TRUE
    None = None
SYMMETRY Symmetry
INVARIANTS
    SucceededMeansReady
    BoundMeansFetchable
    CompleteCredentials
