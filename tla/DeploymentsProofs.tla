------------------------- MODULE DeploymentsProofs -------------------------
(***************************************************************************)
(* Proofs about Deployments, for any charts, parameters and settings and   *)
(* any number of instances: every release runs with what the process that  *)
(* accepted its provision had to install.                                  *)
(***************************************************************************)
EXTENDS Deployments, TLAPS

-----------------------------------------------------------------------------
(* The inductive invariant *)

\* A request that has not arrived has left nothing in the cluster.
IdleIsFresh ==
    \A r \in Requests : stage[r] = "idle" =>
        /\ config[r] = None
        /\ \A n \in Names : deployed[n] # None => deployed[n].owner # r

\* What a provision carries along: the chart and the values it was asked for,
\* and from a point on the name of its release.
CarriesItsValues ==
    \A r \in Requests :
        /\ stage[r] # "idle" => chart[r] \in Charts /\ values[r] = Effective(asked[r])
        /\ stage[r] \in {"run", "wait", "label", "record"} => name[r] \in Names

\* A provision under way has a ConfigMap that names no release, so that nothing
\* can be deprovisioned under it.
InstallingIsReserved ==
    \A r \in Requests : Installing(r) => config[r] \in Configs /\ config[r].release = None

DInv ==
    /\ DeploymentsTypeOK /\ IdleIsFresh /\ CarriesItsValues /\ InstallingIsReserved
    /\ InstalledAsAsked

\* The broker is first started with an empty cluster.
LEMMA DInit == Init => DInv
<1> SUFFICES ASSUME Init PROVE DInv
  OBVIOUS
<1>1. ChartTypeOK BY SettingsAreValues DEF Init, ChartTypeOK, Stages
<1>2. DeploymentsTypeOK BY <1>1 DEF Init, DeploymentsTypeOK
<1> QED BY <1>2 DEF Init, DInv, IdleIsFresh, CarriesItsValues, InstallingIsReserved,
      InstalledAsAsked, Installing

-----------------------------------------------------------------------------
(* Steps of the process *)

\* A file that is well formed gives every service an override or none.
LEMMA LoadYamlType ==
  ASSUME NEW f \in Files
  PROVE  LoadYaml(f) \in [KnownServices -> Values \cup {None}]
BY SettingsAreValues DEF LoadYaml

\* What the invariant says of requests and releases depends on these alone.
LEMMA SameRequests ==
  ASSUME DInv, DeploymentsTypeOK', UNCHANGED <<chartVars, asked, config>>
  PROVE  DInv'
BY DEF DInv, IdleIsFresh, CarriesItsValues, InstallingIsReserved, InstalledAsAsked,
   Installing, Effective, chartVars

\* Starting a process reads a file, or fails to.
LEMMA StartInv == ASSUME DInv, Start PROVE DInv'
<1>1. UNCHANGED <<chartVars, asked, config>> BY DEF Start
<1>2. PICK f \in Files :
         file' = f /\ settings' = (IF WellFormed(f) THEN LoadYaml(f) ELSE None)
  BY DEF Start
<1>3. /\ settings' \in [KnownServices -> Values \cup {None}] \cup {None}
      /\ settings' # None => file' # None /\ WellFormed(file')
  <2>1. f # None BY SettingsAreValues
  <2> QED BY <1>2, <2>1, LoadYamlType
<1>4. DeploymentsTypeOK'
  BY <1>1, <1>2, <1>3 DEF DInv, DeploymentsTypeOK, ChartTypeOK, chartVars
<1> QED BY <1>1, <1>4, SameRequests

\* The exit of a process ends its provisions where they are.
LEMMA ExitInv == ASSUME DInv, Exit PROVE DInv'
<1>1. /\ stage' = [r \in Requests |-> IF Installing(r) THEN "dead" ELSE stage[r]]
      /\ settings' = None /\ file' = None
      /\ UNCHANGED <<chart, values, name, deployed, asked, config>>
  BY DEF Exit
<1>2. \A r \in Requests : stage'[r] = IF Installing(r) THEN "dead" ELSE stage[r]
  BY <1>1
<1>3. DeploymentsTypeOK'
  <2>1. stage' \in [Requests -> Stages]
    BY <1>1 DEF DInv, DeploymentsTypeOK, ChartTypeOK, Stages
  <2> QED BY <1>1, <2>1 DEF DInv, DeploymentsTypeOK, ChartTypeOK
<1>4. \A r \in Requests : stage'[r] = "idle" <=> stage[r] = "idle"
  BY <1>2 DEF Installing
<1>5. \A r \in Requests : ~Installing(r)'
  BY <1>2 DEF Installing
<1> QED BY <1>1, <1>3, <1>4, <1>5
    DEF DInv, IdleIsFresh, CarriesItsValues, InstallingIsReserved, InstalledAsAsked,
        Installing, Effective

-----------------------------------------------------------------------------
(* Steps of a provision *)

\* The settings of a running process have an override, or none, for a service.
LEMMA ForServiceType ==
  ASSUME DeploymentsTypeOK, settings # None, NEW service \in Charts
  PROVE  ForService(service) \in Values \cup {None}
BY DEF DeploymentsTypeOK, ForService

\* The arrival of a provision fixes what it has to install.
LEMMA ProvisionInv == ASSUME DInv, NEW r \in Requests, Provision(r) PROVE DInv'
<1>1. settings # None /\ DeploymentsTypeOK BY DEF Provision, DInv
<1> PICK service \in Charts : \E given \in Asked[service] :
       LET override == ForService(service)
           params == IF override # None THEN override ELSE given
       IN  /\ CallInstall(r, service, params)
           /\ config' = [config EXCEPT ![r] =
                  [service |-> service, params |-> params, release |-> None]]
           /\ asked' = [asked EXCEPT ![r] =
                  [service |-> service, given |-> given, override |-> override]]
  BY DEF Provision
<1>2. PICK given \in Asked[service] :
         LET override == ForService(service)
             params == IF override # None THEN override ELSE given
         IN  /\ CallInstall(r, service, params)
             /\ config' = [config EXCEPT ![r] =
                    [service |-> service, params |-> params, release |-> None]]
             /\ asked' = [asked EXCEPT ![r] =
                    [service |-> service, given |-> given, override |-> override]]
  OBVIOUS
<1> DEFINE override == ForService(service)
           params == IF override # None THEN override ELSE given
           made == [service |-> service, params |-> params, release |-> None]
           question == [service |-> service, given |-> given, override |-> override]
<1>3. override \in Values \cup {None} /\ given \in Values /\ params \in Values
  BY <1>1, ForServiceType, SettingsAreValues
<1>4. made \in Configs /\ question \in Questions BY <1>3 DEF Configs, Questions
<1>5. Effective(question) = params /\ made.params = params /\ made.release = None
  BY DEF Effective
<1>6. /\ CallInstall(r, service, params)
      /\ config' = [config EXCEPT ![r] = made] /\ asked' = [asked EXCEPT ![r] = question]
      /\ UNCHANGED <<file, settings>>
  BY <1>2 DEF Provision
<1> HIDE DEF override, params, made, question
<1>7. /\ stage[r] = "idle" /\ stage' = [stage EXCEPT ![r] = "load"]
      /\ chart' = [chart EXCEPT ![r] = service] /\ values' = [values EXCEPT ![r] = params]
      /\ UNCHANGED <<name, deployed>>
  BY <1>6 DEF CallInstall, Goto
<1>8. DeploymentsTypeOK'
  BY <1>1, <1>3, <1>4, <1>6, <1>7 DEF DeploymentsTypeOK, ChartTypeOK, Stages
<1>9. \A q \in Requests : q # r =>
         /\ stage'[q] = stage[q] /\ chart'[q] = chart[q] /\ values'[q] = values[q]
         /\ config'[q] = config[q] /\ asked'[q] = asked[q]
  BY <1>1, <1>6, <1>7 DEF DeploymentsTypeOK, ChartTypeOK
<1>10. /\ stage'[r] = "load" /\ chart'[r] = service /\ values'[r] = params
       /\ config'[r] = made /\ asked'[r] = question
  BY <1>1, <1>6, <1>7 DEF DeploymentsTypeOK, ChartTypeOK
<1>11. \A q \in Requests : q # r => (Installing(q)' <=> Installing(q))
  BY <1>9 DEF Installing
<1>12. IdleIsFresh'
  BY <1>7, <1>9, <1>10 DEF DInv, IdleIsFresh
<1>13. CarriesItsValues'
  <2>1. Effective(question) = params BY <1>5
  <2>2. ASSUME NEW q \in Requests
        PROVE  /\ stage'[q] # "idle" => chart'[q] \in Charts /\ values'[q] = Effective(asked'[q])
               /\ stage'[q] \in {"run", "wait", "label", "record"} => name'[q] \in Names
    <3>1. CASE q = r BY <3>1, <2>1, <1>10
    <3>2. CASE q # r BY <3>2, <1>7, <1>9 DEF DInv, CarriesItsValues
    <3> QED BY <3>1, <3>2
  <2> QED BY <2>2 DEF CarriesItsValues, Effective
<1>14. InstallingIsReserved'
  <2>1. ASSUME NEW q \in Requests, Installing(q)'
        PROVE  config'[q] \in Configs /\ config'[q].release = None
    <3>1. CASE q = r BY <3>1, <1>4, <1>5, <1>10
    <3>2. CASE q # r BY <2>1, <3>2, <1>9, <1>11 DEF DInv, InstallingIsReserved
    <3> QED BY <3>1, <3>2
  <2> QED BY <2>1 DEF InstallingIsReserved, Installing
<1>15. InstalledAsAsked'
  <2>1. ASSUME NEW q \in Requests
        PROVE  /\ config'[q] # None => config'[q].params = Effective(asked'[q])
               /\ \A n \in Names : deployed'[n] # None /\ deployed'[n].owner = q =>
                     deployed'[n].values = Effective(asked'[q])
    <3>1. CASE q = r
      <4>1. \A n \in Names : deployed'[n] # None => deployed'[n].owner # r
        BY <1>7 DEF DInv, IdleIsFresh
      <4> QED BY <3>1, <4>1, <1>5, <1>10
    <3>2. CASE q # r BY <3>2, <1>7, <1>9 DEF DInv, InstalledAsAsked
    <3> QED BY <3>1, <3>2
  <2> QED BY <2>1 DEF InstalledAsAsked, Effective
<1> QED BY <1>8, <1>12, <1>13, <1>14, <1>15 DEF DInv

\* Whose a release is and what it runs with fit its request.
Fits(n) == stage[deployed[n].owner] # "idle" /\ deployed[n].values = Effective(asked[deployed[n].owner])

\* Every release in the cluster fits.
LEMMA ReleasesFit == ASSUME DInv, NEW n \in Names, deployed[n] # None PROVE Fits(n)
<1>1. deployed[n].owner \in Requests
  BY DEF DInv, DeploymentsTypeOK, ChartTypeOK, Releases
<1> QED BY <1>1 DEF DInv, IdleIsFresh, InstalledAsAsked, Fits

\* A provision that moves on, or gives up, may change its release name and the
\* releases of the cluster, as long as those fit.
LEMMA Moves ==
  ASSUME DInv, NEW r \in Requests, NEW s \in Stages \ {"idle"},
         Installing(r), stage' = [stage EXCEPT ![r] = s],
         UNCHANGED <<chart, values, file, settings, asked, config>>,
         name' \in [Requests -> Names \cup {None}],
         \A q \in Requests : q # r => name'[q] = name[q],
         s \in {"run", "wait", "label", "record"} => name'[r] \in Names,
         deployed' \in [Names -> Releases \cup {None}],
         \A n \in Names : deployed'[n] # None =>
             /\ stage[deployed'[n].owner] # "idle"
             /\ deployed'[n].values = Effective(asked[deployed'[n].owner])
  PROVE  DInv'
<1>1. /\ stage \in [Requests -> Stages] /\ stage' \in [Requests -> Stages]
      /\ DeploymentsTypeOK'
  BY DEF DInv, DeploymentsTypeOK, ChartTypeOK
<1>2. /\ stage'[r] = s /\ stage[r] # "idle" /\ s # "idle"
      /\ \A q \in Requests : q # r => stage'[q] = stage[q]
  BY <1>1 DEF Installing
<1>3. \A q \in Requests : stage'[q] = "idle" <=> stage[q] = "idle"
  BY <1>2
<1>4. \A q \in Requests : Installing(q)' => Installing(q)
  BY <1>2 DEF Installing
<1>5. IdleIsFresh'
  BY <1>3 DEF DInv, IdleIsFresh
<1>6. CarriesItsValues'
  <2>1. ASSUME NEW q \in Requests
        PROVE  /\ stage'[q] # "idle" => chart'[q] \in Charts /\ values'[q] = Effective(asked'[q])
               /\ stage'[q] \in {"run", "wait", "label", "record"} => name'[q] \in Names
    <3>1. stage'[q] # "idle" => chart'[q] \in Charts /\ values'[q] = Effective(asked'[q])
      BY <1>3 DEF DInv, CarriesItsValues
    <3>2. stage'[q] \in {"run", "wait", "label", "record"} => name'[q] \in Names
      <4>1. CASE q = r BY <4>1, <1>2
      <4>2. CASE q # r BY <4>2, <1>2 DEF DInv, CarriesItsValues
      <4> QED BY <4>1, <4>2
    <3> QED BY <3>1, <3>2
  <2> QED BY <2>1 DEF CarriesItsValues, Effective
<1>7. InstallingIsReserved'
  BY <1>4 DEF DInv, InstallingIsReserved
<1>8. InstalledAsAsked'
  BY DEF DInv, InstalledAsAsked, Effective
<1> QED BY <1>1, <1>5, <1>6, <1>7, <1>8 DEF DInv

\* A provision under way has a name for its release when Helm runs and after.
LEMMA Carried ==
  ASSUME DInv, NEW r \in Requests, Installing(r)
  PROVE  /\ chart[r] \in Charts /\ values[r] = Effective(asked[r]) /\ values[r] \in Values
         /\ stage[r] \in {"run", "wait", "label", "record"} => name[r] \in Names
BY DEF DInv, CarriesItsValues, Installing, DeploymentsTypeOK, ChartTypeOK

\* Loading, naming, running and waiting each move on, or give up.
LEMMA InstallInv == ASSUME DInv, NEW r \in Requests, Install(r) PROVE DInv'
<1>1. /\ UNCHANGED <<file, settings, asked, config>>
      /\ name \in [Requests -> Names \cup {None}]
      /\ deployed \in [Names -> Releases \cup {None}]
  BY DEF Install, DInv, DeploymentsTypeOK, ChartTypeOK
<1>2. \A n \in Names : deployed[n] # None => Fits(n)
  BY ReleasesFit
<1>3. ASSUME LoadChart(r) PROVE DInv'
  <2>1. /\ stage[r] = "load" /\ UNCHANGED <<chart, values, name, deployed>>
        /\ \E s \in {"name", "failed"} : stage' = [stage EXCEPT ![r] = s]
    BY <1>3 DEF LoadChart, Fail, Goto
  <2> QED BY <1>1, <1>2, <2>1, Moves DEF Installing, Stages, Fits
<1>4. ASSUME WaitInstalled(r) PROVE DInv'
  <2>1. /\ stage[r] = "wait" /\ UNCHANGED <<chart, values, name, deployed>>
        /\ \E s \in {"label", "failed"} : stage' = [stage EXCEPT ![r] = s]
    BY <1>4 DEF WaitInstalled, Fail, Goto
  <2>2. name[r] \in Names BY <2>1, Carried DEF Installing
  <2> QED BY <1>1, <1>2, <2>1, <2>2, Moves DEF Installing, Stages, Fits
<1>5. ASSUME GenerateName(r) PROVE DInv'
  <2>1. stage[r] = "name" /\ Installing(r) /\ UNCHANGED <<chart, values, deployed>>
    BY <1>5 DEF GenerateName, Installing
  <2>2. ASSUME NEW t \in Stamps, name' = [name EXCEPT ![r] = [chart |-> chart[r], stamp |-> t]],
               stage' = [stage EXCEPT ![r] = "run"]
        PROVE  DInv'
    <3>1. [chart |-> chart[r], stamp |-> t] \in Names BY <2>1, Carried DEF Names
    <3>2. /\ name' \in [Requests -> Names \cup {None}] /\ name'[r] \in Names
          /\ \A q \in Requests : q # r => name'[q] = name[q]
      BY <1>1, <2>2, <3>1
    <3> QED BY <1>1, <1>2, <2>1, <2>2, <3>2, Moves DEF Stages, Fits
  <2>3. ASSUME name' = name, stage' = [stage EXCEPT ![r] = "failed"] PROVE DInv'
    BY <1>1, <1>2, <2>1, <2>3, Moves DEF Stages, Fits
  <2> QED BY <1>5, <2>2, <2>3 DEF GenerateName, Goto
<1>6. ASSUME NEW keys \in SecretKeys(chart[r]), RunInstall(r, keys) PROVE DInv'
  <2>1. stage[r] = "run" /\ Installing(r) /\ UNCHANGED <<chart, values, name>>
    BY <1>6 DEF RunInstall, Installing
  <2>2. PICK n \in Names : name[r] = n BY <2>1, Carried
  <2>3. ASSUME Deploy(r, keys), stage' = [stage EXCEPT ![r] = "wait"] PROVE DInv'
    <3> DEFINE new == [owner |-> r, values |-> values[r], keys |-> keys, label |-> None]
    <3>1. keys \in SUBSET Keys /\ values[r] \in Values
      BY <2>1, Carried, SecretsAreKnown
    <3>2. new \in Releases BY <3>1 DEF Releases
    <3>3. new.owner = r /\ new.values = Effective(asked[r]) BY <2>1, Carried
    <3>4. deployed' = [deployed EXCEPT ![n] = new] BY <2>2, <2>3 DEF Deploy
    <3> HIDE DEF new
    <3>5. deployed' \in [Names -> Releases \cup {None}] BY <1>1, <3>2, <3>4
    <3>6. \A m \in Names : deployed'[m] = IF m = n THEN new ELSE deployed[m]
      BY <1>1, <3>4
    <3>7. \A m \in Names : deployed'[m] # None =>
             /\ stage[deployed'[m].owner] # "idle"
             /\ deployed'[m].values = Effective(asked[deployed'[m].owner])
      BY <1>2, <2>1, <3>3, <3>6 DEF Fits
    <3> QED BY <1>1, <2>1, <2>2, <2>3, <3>5, <3>7, Moves DEF Stages
  <2>4. ASSUME deployed' = deployed, stage' = [stage EXCEPT ![r] = "failed"] PROVE DInv'
    BY <1>1, <1>2, <2>1, <2>4, Moves DEF Stages, Fits
  <2> QED BY <1>6, <2>3, <2>4 DEF RunInstall, Goto
<1> QED BY <1>3, <1>4, <1>5, <1>6 DEF Install

\* A label changes neither whose a release is nor what it runs with.
LEMMA LabelInv == ASSUME DInv, NEW r \in Requests, Label(r) PROVE DInv'
<1>1. /\ stage[r] = "label" /\ Installing(r) /\ stage' = [stage EXCEPT ![r] = "record"]
      /\ UNCHANGED <<chart, values, name, file, settings, asked, config>>
  BY DEF Label, Installing, Goto
<1>2. /\ name \in [Requests -> Names \cup {None}]
      /\ deployed \in [Names -> Releases \cup {None}]
  BY DEF DInv, DeploymentsTypeOK, ChartTypeOK
<1>3. \A n \in Names : deployed[n] # None => Fits(n)
  BY ReleasesFit
<1>4. PICK n \in Names : name[r] = n BY <1>1, Carried
<1>5. CASE deployed[n] = None
  BY <1>1, <1>2, <1>3, <1>4, <1>5, Moves DEF Label, LabelObjects, Stages, Fits
<1>6. CASE deployed[n] # None
  <2> DEFINE new == [deployed[n] EXCEPT !.label = r]
  <2>1. deployed' = [deployed EXCEPT ![n] = new]
    BY <1>4, <1>6 DEF Label, LabelObjects
  <2>2. deployed[n] \in Releases BY <1>2, <1>6
  <2>3. new \in Releases /\ new.owner = deployed[n].owner /\ new.values = deployed[n].values
    BY <2>2 DEF Releases
  <2> HIDE DEF new
  <2>4. deployed' \in [Names -> Releases \cup {None}] BY <1>2, <2>1, <2>3
  <2>5. \A m \in Names : deployed'[m] = IF m = n THEN new ELSE deployed[m]
    BY <1>2, <2>1
  <2>6. \A m \in Names : deployed'[m] # None =>
           /\ stage[deployed'[m].owner] # "idle"
           /\ deployed'[m].values = Effective(asked[deployed'[m].owner])
    BY <1>3, <1>6, <2>3, <2>5 DEF Fits
  <2> QED BY <1>1, <1>2, <1>4, <2>4, <2>6, Moves DEF Stages
<1> QED BY <1>5, <1>6

\* The record keeps the parameters; when it fails the ConfigMap stays.
LEMMA RecordInv == ASSUME DInv, NEW r \in Requests, Record(r) PROVE DInv'
<1>1. /\ stage[r] = "record" /\ Installing(r)
      /\ UNCHANGED <<chart, values, name, deployed, file, settings, asked>>
  BY DEF Record, Installing
<1>2. /\ name \in [Requests -> Names \cup {None}]
      /\ deployed \in [Names -> Releases \cup {None}]
      /\ stage \in [Requests -> Stages] /\ config \in [Requests -> Configs \cup {None}]
  BY DEF DInv, DeploymentsTypeOK, ChartTypeOK
<1>3. \A n \in Names : deployed[n] # None => Fits(n)
  BY ReleasesFit
<1>4. PICK n \in Names : name[r] = n BY <1>1, Carried
<1>5. ASSUME stage' = [stage EXCEPT ![r] = "failed"], UNCHANGED config PROVE DInv'
  BY <1>1, <1>2, <1>3, <1>5, Moves DEF Stages, Fits
<1>6. ASSUME stage' = [stage EXCEPT ![r] = "ready"],
             config' = [config EXCEPT ![r].release = name[r]]
      PROVE  DInv'
  <2>1. config[r] \in Configs BY <1>1 DEF DInv, InstallingIsReserved
  <2> DEFINE new == [config[r] EXCEPT !.release = n]
  <2>2. config' = [config EXCEPT ![r] = new] BY <1>4, <1>6
  <2>3. new \in Configs /\ new.params = config[r].params
    BY <2>1 DEF Configs
  <2> HIDE DEF new
  <2>4. /\ config' \in [Requests -> Configs \cup {None}] /\ config'[r] = new
        /\ \A q \in Requests : q # r => config'[q] = config[q]
    BY <1>2, <2>2, <2>3
  <2>5. /\ stage' \in [Requests -> Stages] /\ stage'[r] = "ready"
        /\ \A q \in Requests : q # r => stage'[q] = stage[q]
    BY <1>2, <1>6 DEF Stages
  <2>6. DeploymentsTypeOK'
    BY <1>1, <2>4, <2>5 DEF DInv, DeploymentsTypeOK, ChartTypeOK
  <2>7. IdleIsFresh'
    <3>1. ASSUME NEW q \in Requests, stage'[q] = "idle"
          PROVE  config'[q] = None /\ \A m \in Names : deployed'[m] # None => deployed'[m].owner # q
      <4>1. q # r /\ stage[q] = "idle" BY <2>5, <3>1
      <4> QED BY <1>1, <2>4, <4>1 DEF DInv, IdleIsFresh
    <3> QED BY <3>1 DEF IdleIsFresh
  <2>8. CarriesItsValues'
    <3>1. ASSUME NEW q \in Requests
          PROVE  /\ stage'[q] # "idle" => chart'[q] \in Charts /\ values'[q] = Effective(asked'[q])
                 /\ stage'[q] \in {"run", "wait", "label", "record"} => name'[q] \in Names
      <4>1. CASE q = r BY <1>1, <2>5, <4>1, Carried DEF Effective
      <4>2. CASE q # r BY <1>1, <2>5, <4>2 DEF DInv, CarriesItsValues, Effective
      <4> QED BY <4>1, <4>2
    <3> QED BY <3>1 DEF CarriesItsValues, Effective
  <2>9. InstallingIsReserved'
    <3>1. ASSUME NEW q \in Requests, Installing(q)'
          PROVE  config'[q] \in Configs /\ config'[q].release = None
      <4>1. q # r /\ Installing(q) BY <2>5, <3>1 DEF Installing
      <4> QED BY <2>4, <4>1 DEF DInv, InstallingIsReserved
    <3> QED BY <3>1 DEF InstallingIsReserved
  <2>10. InstalledAsAsked'
    <3>1. ASSUME NEW q \in Requests, config'[q] # None
          PROVE  config'[q].params = Effective(asked'[q])
      <4>1. CASE q = r
        <5>1. config[r].params = Effective(asked[r])
          BY <2>1, ConfigsAreSome DEF DInv, InstalledAsAsked
        <5> QED BY <1>1, <2>3, <2>4, <4>1, <5>1 DEF Effective
      <4>2. CASE q # r BY <1>1, <2>4, <3>1, <4>2 DEF DInv, InstalledAsAsked, Effective
      <4> QED BY <4>1, <4>2
    <3> QED BY <1>1, <3>1 DEF DInv, InstalledAsAsked, Effective
  <2> QED BY <2>6, <2>7, <2>8, <2>9, <2>10 DEF DInv
<1> QED BY <1>5, <1>6 DEF Record, Goto

-----------------------------------------------------------------------------
(* Steps of an instance that is there *)

\* A deprovision that goes through needs a recorded release, so no provision of
\* the instance is under way.
LEMMA DeprovisionInv == ASSUME DInv, NEW r \in Requests, Deprovision(r) PROVE DInv'
<1>1. /\ config[r] # None /\ config[r].release # None
      /\ UNCHANGED <<stage, chart, values, name, file, settings, asked>>
  BY DEF Deprovision, Uninstall
<1>2. /\ deployed \in [Names -> Releases \cup {None}] /\ config \in [Requests -> Configs \cup {None}]
  BY DEF DInv, DeploymentsTypeOK, ChartTypeOK
<1>3. PICK n \in Names : config[r].release = n BY <1>1, <1>2 DEF Configs
<1>4. /\ deployed' \in [Names -> Releases \cup {None}]
      /\ \A m \in Names : deployed'[m] # None => deployed'[m] = deployed[m]
  BY <1>2, <1>3 DEF Deprovision, Uninstall
<1>5. /\ config' \in [Requests -> Configs \cup {None}]
      /\ \A q \in Requests : config'[q] # None => config'[q] = config[q]
      /\ \A q \in Requests : q # r => config'[q] = config[q]
  BY <1>2 DEF Deprovision
<1>6. DeploymentsTypeOK'
  BY <1>1, <1>4, <1>5 DEF DInv, DeploymentsTypeOK, ChartTypeOK
<1>7. IdleIsFresh' BY <1>1, <1>4, <1>5 DEF DInv, IdleIsFresh
<1>8. CarriesItsValues' BY <1>1 DEF DInv, CarriesItsValues, Effective
<1>9. InstallingIsReserved'
  <2>1. \A q \in Requests : Installing(q)' => Installing(q) /\ q # r
    BY <1>1 DEF DInv, InstallingIsReserved, Installing
  <2> QED BY <1>5, <2>1 DEF DInv, InstallingIsReserved
<1>10. InstalledAsAsked'
  BY <1>1, <1>4, <1>5 DEF DInv, InstalledAsAsked, Effective
<1> QED BY <1>6, <1>7, <1>8, <1>9, <1>10 DEF DInv

\* A bind changes the stored credentials only.
LEMMA BindInv == ASSUME DInv, NEW r \in Requests, Bind(r) PROVE DInv'
<1>1. UNCHANGED <<chartVars, file, settings, asked, config>> BY DEF Bind
<1>2. DeploymentsTypeOK'
  BY <1>1 DEF DInv, DeploymentsTypeOK, ChartTypeOK, chartVars
<1> QED BY <1>1, <1>2, SameRequests

-----------------------------------------------------------------------------
(* Theorems *)

\* The invariant holds from the first start of the broker, over any restarts.
LEMMA DeploymentsInvariance == Spec => []DInv
<1>1. ASSUME DInv, [Next]_vars PROVE DInv'
  <2>1. CASE UNCHANGED vars
    <3>1. UNCHANGED <<chartVars, file, settings, asked, config>> BY <2>1 DEF vars
    <3>2. DeploymentsTypeOK'
      BY <1>1, <3>1 DEF DInv, DeploymentsTypeOK, ChartTypeOK, chartVars
    <3> QED BY <1>1, <3>1, <3>2, SameRequests
  <2>2. CASE Next
    BY <1>1, <2>2, StartInv, ExitInv, ProvisionInv, InstallInv, LabelInv, RecordInv,
       BindInv, DeprovisionInv DEF Next
  <2> QED BY <1>1, <2>1, <2>2
<1> QED BY DInit, <1>1, PTL DEF Spec

\* Whatever the settings and the failures, every variable keeps its kind, and a
\* broker process runs only with settings it could decode (provisioning
\* settings of pkg/broker, Install of pkg/helm).
THEOREM DeploymentsTypeCorrect == Spec => []DeploymentsTypeOK
<1>1. DInv => DeploymentsTypeOK BY DEF DInv
<1> QED BY DeploymentsInvariance, <1>1, PTL

\* Every release runs with the override of the process that accepted its
\* provision or, when that had none, with the user's parameters, and the
\* ConfigMap remembers those values: for any charts and settings, any number of
\* instances and any restarts with other settings (Provision of pkg/broker and
\* provision of pkg/minibroker).
THEOREM ReleasesAreAsAsked == Spec => []InstalledAsAsked
<1>1. DInv => InstalledAsAsked BY DEF DInv
<1> QED BY DeploymentsInvariance, <1>1, PTL
=============================================================================
