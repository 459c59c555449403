\* Expected to be violated.
SPECIFICATION Spec
CONSTANTS
    Requests = {r1}
    Charts <- MCCharts
    NameLength <- MCNameLength
    Stamps = {t1}
    Values <- MCValues
    Keys <- AllSecretKeys
    Files <- MCFiles
    Asked <- MCAsked
    Faults = {}
    None = None
SYMMETRY Symmetry
INVARIANTS
    DocumentedSettingsStart
