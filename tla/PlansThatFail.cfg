\* A chart whose only version has a dash or a capital letter in its app version.
SPECIFICATION Spec
CONSTANTS
    Characters = {"a", "A", "1", ".", "-"}
    Plain = {"a", "1"}
    ToLower <- MCToLower
    Charts <- MCCharts
    Entries <- MCEntries
    MaxVersions = 1
    Curated <- MCCharts
    CuratedOnly = TRUE
    None = None
INVARIANTS
    EveryPlanDeploys
