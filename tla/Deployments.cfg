\* Two instances of any charts with any parameters, over restarts with and
\* without overrides; two stamps, so that release names may collide.
SPECIFICATION Spec
CONSTANTS
    Requests = {r1, r2}
    Charts <- MCCharts
    NameLength <- MCNameLength
    Stamps = {t1, t2}
    Values <- MCValues
    Keys <- AllSecretKeys
    Files <- MCFiles
    Asked <- MCAsked
    Faults = {"helm", "kube", "exit"}
    None = None
SYMMETRY Symmetry
INVARIANTS
    DeploymentsTypeOK
    InstalledAsAsked
    CredentialsOpenAccount
PROPERTIES
    BindIsRepeatable
