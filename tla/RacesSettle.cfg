\* Liveness without faults when calls of any kind race: arrivals in order
\* instead of symmetry.
SPECIFICATION FairSpec
CONSTANTS
    Instances = {i1}
    Bindings = {b1}
    Requests = {1, 2, 3}
    Services = {svc}
    Secrets = {sec}
    Brokers = {k1}
    Namespaces = {ns}
    Ops = {"provision", "deprovision", "bind", "unbind"}
    Modes = {TRUE, FALSE}
    Faults = {}
    Serial = FALSE
    None = None
ACTION_CONSTRAINT ArriveInOrder
PROPERTIES
    PollingSettles
    DeprovisionFinishes
