\* Two charts, the name of one the prefix of the other's: processes restart with
\* another index between a catalog and its use.
SPECIFICATION Spec
CONSTANTS
    Characters = {"a", "A", "1", ".", "-"}
    Plain = {"a", "1"}
    ToLower <- MCToLower
    Charts <- MCTwoCharts
    Entries <- MCEntries
    MaxVersions = 2
    Curated <- MCCharts
    CuratedOnly = FALSE
    None = None
CONSTRAINT OneVersionElsewhere
INVARIANTS
    NeverAnotherPlan
    InstallsWhatIsListed
