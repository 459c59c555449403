\* Four overlapping calls are enough for two incarnations of one instance ID:
\* provision, deprovision, provision, and one late or failing call beside them.
SPECIFICATION Spec
CONSTANTS
    Instances = {i1}
    Bindings = {b1}
    Requests = {r1, r2, r3, r4}
    Services = {svc}
    Secrets = {sec}
    Brokers = {k1}
    Namespaces = {ns}
    Ops = {"provision", "deprovision"}
    Modes = {TRUE}
    Faults = {"kube", "helm", "provider", "crash"}
    Serial = FALSE
    None = None
SYMMETRY Symmetry
INVARIANTS
    IInv
    OneReleasePerInstance
PROPERTIES
    StuckForGood
    LifecycleImplemented
