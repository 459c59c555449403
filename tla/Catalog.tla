------------------------------ MODULE Catalog ------------------------------
(***************************************************************************)
(* From a chart repository to the catalog and back: which charts become    *)
(* services and plans, and which chart a plan ID installs.  The index is   *)
(* read once, when the process starts; platforms keep the catalog they     *)
(* fetched, and may use it after a restart has read another index.         *)
(***************************************************************************)
EXTENDS SequencesExt

CONSTANTS Characters,   \* what names and versions are spelled with
          Plain,        \* lower-case letters and digits
          ToLower,      \* the lower-case letter of each capital
          Charts,       \* chart names, sequences of characters
          Entries,      \* chart versions an index may list: the characters of the
                        \* app version, the rank among semantic versions (0 when
                        \* the version is not one) and the tags
          MaxVersions,  \* bound: versions of one chart
          Curated,      \* the charts with a provider
          CuratedOnly,  \* -service-catalog-enabled-only
          None

ASSUME CharactersAreKnown ==
    /\ Plain \cap DOMAIN ToLower = {}
    /\ (Plain \cup DOMAIN ToLower) \cap {"-", ".", "@"} = {}
ASSUME NamesAreSpelled == Charts \subseteq Seq(Characters)
ASSUME EntriesAreVersions ==
    \A e \in Entries : e.app \in Seq(Characters) /\ e.rank \in Nat
ASSUME BoundIsANumber == MaxVersions \in Nat

VARIABLES index,        \* the index this process loaded, None before it has
          offered,      \* the catalog the platform fetched last
          installed     \* what the last step installed: the offer asked for and
                        \* the chart found, None when it was no Provision

vars == <<index, offered, installed>>

Init == index = None /\ offered = {} /\ installed = None

-----------------------------------------------------------------------------
(* The catalog *)

\* ToLower, then every character but a lower-case letter or a digit is a dash.
Clean(k) ==
    LET lower == IF k \in DOMAIN ToLower THEN ToLower[k] ELSE k
    IN  IF lower \in Plain THEN lower ELSE "-"

Cleaned(s) == [n \in DOMAIN s |-> Clean(s[n])]

PlanID(chart, app) == Cleaned(chart \o <<"@">> \o app)

\* The tags all versions of a chart have, those that make no plan included.
TagIntersection(versions) ==
    {t \in UNION {v.tags : v \in Range(versions)} : \A v \in Range(versions) : t \in v.tags}

\* The versions that make plans have an app version and a valid version.
Plannable(versions) == {n \in DOMAIN versions : versions[n].app # <<>> /\ versions[n].rank > 0}

\* Faulty variant: the comparison of versions is the wrong way round.
OldestPlans(versions) ==
    {n \in Plannable(versions) : \A m \in Plannable(versions) :
        versions[m].app = versions[n].app =>
            \/ versions[n].rank < versions[m].rank
            \/ versions[n].rank = versions[m].rank /\ n <= m}

\* One plan for each app version: its newest chart, the first of equals.
NewestPlans(versions) ==
    {n \in Plannable(versions) : \A m \in Plannable(versions) :
        versions[m].app = versions[n].app =>
            \/ versions[m].rank < versions[n].rank
            \/ versions[m].rank = versions[n].rank /\ n <= m}

ListServices(charts) ==
    UNION {{[service |-> c, plan |-> PlanID(c, charts[c][n].app), chart |-> charts[c][n],
             tags |-> TagIntersection(charts[c])] : n \in NewestPlans(charts[c])} :
           c \in IF CuratedOnly THEN Charts \cap Curated ELSE Charts}

-----------------------------------------------------------------------------
(* From a plan ID to a chart *)

\* Faulty variant: the app version is what follows the last dash.
AfterLastDash(service, plan) ==
    LET dashes == {n \in DOMAIN plan : plan[n] = "-"}
    IN  SubSeq(plan, 1 + CHOOSE n \in dashes : \A m \in dashes : m <= n, Len(plan))

\* The first "service-" goes, every dash left becomes a dot.
AppVersionOf(service, plan) ==
    LET rest == ReplaceFirstSubSeq(<<>>, service \o <<"-">>, plan)
    IN  [n \in DOMAIN rest |-> IF rest[n] = "-" THEN "." ELSE rest[n]]

\* The first version in the index with the app version asked for; the filter
\* of ListServices plays no part in it.
GetChart(charts, c, app) ==
    LET found == {n \in DOMAIN charts[c] : charts[c][n].app = app}
    IN  IF found = {} THEN None
        ELSE charts[c][CHOOSE n \in found : \A m \in found : n <= m]

Resolve(charts, service, plan) == GetChart(charts, service, AppVersionOf(service, plan))

-----------------------------------------------------------------------------
(* Steps *)

\* repo.LoadIndexFile sorts the versions of a chart, newest first and invalid
\* ones last; the order of equal ones is the sort's own.
Sorted(versions) ==
    \A m, n \in DOMAIN versions : m < n => versions[m].rank >= versions[n].rank

\* Connect, download, load: whatever the repository publishes at this moment.
\* When one of them fails the process exits, and its successor tries again.
Initialize ==
    /\ index = None
    /\ index' \in [Charts -> {versions \in SeqOf(Entries, MaxVersions) : Sorted(versions)}]
    /\ installed' = None
    /\ UNCHANGED offered

\* The process exits and its successor starts without an index.
Restart ==
    /\ index # None
    /\ index' = None
    /\ installed' = None
    /\ UNCHANGED offered

GetCatalog ==
    /\ index # None
    /\ offered' = ListServices(index)
    /\ installed' = None
    /\ UNCHANGED index

\* The broker is asked for a plan of the catalog the platform has, which may be
\* that of an earlier process.
Provision(offer) ==
    /\ index # None
    /\ installed' = [offer |-> offer, chart |-> Resolve(index, offer.service, offer.plan)]
    /\ UNCHANGED <<index, offered>>

Next ==
    \/ Initialize \/ Restart \/ GetCatalog
    \/ \E offer \in offered : Provision(offer)

Spec == Init /\ [][Next]_vars

-----------------------------------------------------------------------------
(* Properties *)

\* App versions that a plan ID turns back into.
Survives(app) == \A n \in DOMAIN app : app[n] \in Plain \cup {"."}

\* A plan of an app version of lower-case letters, digits and dots installs that
\* very app version or nothing, though the index may not be the one the catalog
\* was made from.  Any other plan may install an app version it was not made for,
\* but only one that has the same plan ID, as 1-1 and 1.1 do (Provision's
\* chartVersion, Client.GetChart).
NeverAnotherPlan ==
    installed # None /\ installed.chart # None =>
        LET offer == installed.offer
            app == installed.chart.app
        IN  /\ PlanID(offer.service, app) = offer.plan
            /\ Survives(offer.chart.app) => app = offer.chart.app

\* ListServices and GetChart, which search the index each in its own way, pick
\* the same chart: a plan whose ID can be turned back installs the version the
\* catalog describes, with every tag the catalog gives its service.
InstallsWhatIsListed ==
    index # None =>
        \A offer \in ListServices(index) :
            AppVersionOf(offer.service, offer.plan) = offer.chart.app =>
                /\ Resolve(index, offer.service, offer.plan) = offer.chart
                /\ offer.tags \subseteq offer.chart.tags

\* Every plan in the catalog deploys the chart it describes, at least from the
\* index it was made from.
EveryPlanDeploys ==
    index # None =>
        \A offer \in ListServices(index) :
            Resolve(index, offer.service, offer.plan) = offer.chart
=============================================================================
