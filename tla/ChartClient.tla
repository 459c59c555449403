---------------------------- MODULE ChartClient ----------------------------
(***************************************************************************)
(* ChartClient.Install and Uninstall of pkg/helm, one action for each step *)
(* that can fail on its own: load the archive, generate a name, let Helm   *)
(* create the release, wait until it is ready.                             *)
(***************************************************************************)
EXTENDS Naturals

CONSTANTS Requests,     \* provisions, each of an instance of its own
          Charts,       \* chart names, which are the service IDs
          NameLength,   \* chart -> the length of its name
          Stamps,       \* the time stamps with random bytes that end a name; may repeat
          Values,       \* the values charts are installed with
          Keys,         \* the keys of the secrets charts make
          Faults,       \* the kinds of failure a run allows
          None

FaultKinds == {"helm", "kube", "exit"}

ASSUME FaultsAreKnown == Faults \subseteq FaultKinds
ASSUME LengthsAreNumbers == NameLength \in [Charts -> Nat]

VARIABLES stage,        \* request -> the next step of its provision
          chart,        \* request -> the chart being installed
          values,       \* request -> the values it is installed with
          name,         \* request -> the release name generated for it
          deployed      \* release name -> the release in the cluster, None when free

chartVars == <<stage, chart, values, name, deployed>>

Names == [chart : Charts, stamp : Stamps]

\* owner is the provision whose Helm run created the release, keys those of its
\* secrets, label the instance whose label its objects carry.
Releases == [owner : Requests, values : Values, keys : SUBSET Keys,
             label : Requests \cup {None}]

ASSUME NoneIsNew ==
    /\ None \notin Requests /\ None \notin Charts
    /\ None \notin Names /\ None \notin Releases

Stages == {"idle", "load", "name", "run", "wait", "label", "record", "ready", "failed", "dead"}

ChartTypeOK ==
    /\ stage \in [Requests -> Stages]
    /\ chart \in [Requests -> Charts \cup {None}]
    /\ values \in [Requests -> Values]
    /\ name \in [Requests -> Names \cup {None}]
    /\ deployed \in [Names -> Releases \cup {None}]

Goto(r, s) == stage' = [stage EXCEPT ![r] = s]

\* Any step may fail for reasons of its own, in Helm, the network or the system.
Fail(r) == "helm" \in Faults /\ Goto(r, "failed")

-----------------------------------------------------------------------------
(* Install *)

\* Install is called with a chart of the index and the parameters to install.
CallInstall(r, c, v) ==
    /\ stage[r] = "idle"
    /\ Goto(r, "load")
    /\ chart' = [chart EXCEPT ![r] = c]
    /\ values' = [values EXCEPT ![r] = v]
    /\ UNCHANGED <<name, deployed>>

\* The index gives no URL, the GET fails, or what it gets is no archive.
LoadChart(r) ==
    /\ stage[r] = "load"
    /\ Goto(r, "name") \/ Fail(r)
    /\ UNCHANGED <<chart, values, name, deployed>>

\* The chart's name, a dash and ten bytes in hexadecimal.
helmMaxNameLength == 53
NameFits(c) == NameLength[c] + 21 <= helmMaxNameLength

GenerateName(r) ==
    /\ stage[r] = "name"
    /\ \/ /\ NameFits(chart[r])
          /\ \E s \in Stamps : name' = [name EXCEPT ![r] = [chart |-> chart[r], stamp |-> s]]
          /\ Goto(r, "run")
       \/ /\ NameFits(chart[r]) => "helm" \in Faults
          /\ Goto(r, "failed")
          /\ UNCHANGED name
    /\ UNCHANGED <<chart, values, deployed>>

Deploy(r, keys) ==
    deployed' = [deployed EXCEPT ![name[r]] =
        [owner |-> r, values |-> values[r], keys |-> keys, label |-> None]]

\* Faulty variant: upgrade --install; a release of that name is taken over.
RunUpgrade(r, keys) ==
    /\ stage[r] = "run"
    /\ IF deployed[name[r]] = None THEN Deploy(r, keys) ELSE UNCHANGED deployed
    /\ Goto(r, "wait")
    /\ UNCHANGED <<chart, values, name>>

\* Helm refuses a name in use; the configuration or the manifests may fail.
RunInstall(r, keys) ==
    /\ stage[r] = "run"
    /\ \/ /\ deployed[name[r]] = None
          /\ Deploy(r, keys)
          /\ Goto(r, "wait")
       \/ /\ deployed[name[r]] # None \/ "helm" \in Faults
          /\ Goto(r, "failed")
          /\ UNCHANGED deployed
    /\ UNCHANGED <<chart, values, name>>

\* Wait is set: Install returns when everything is ready.  When that fails or
\* times out, the release stays.
WaitInstalled(r) ==
    /\ stage[r] = "wait"
    /\ Goto(r, "label") \/ Fail(r)
    /\ UNCHANGED <<chart, values, name, deployed>>

-----------------------------------------------------------------------------
(* Uninstall, and what the caller does to the objects of a release. *)

\* A release that is not there is an error.
Uninstall(n) ==
    /\ deployed[n] # None
    /\ deployed' = [deployed EXCEPT ![n] = None]
    /\ UNCHANGED <<stage, chart, values, name>>

\* The objects are listed by the release name; there may be none.
LabelObjects(r) ==
    deployed' = IF deployed[name[r]] = None THEN deployed
                ELSE [deployed EXCEPT ![name[r]].label = r]
=============================================================================
