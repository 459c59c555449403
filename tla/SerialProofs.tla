---------------------------- MODULE SerialProofs ----------------------------
(***************************************************************************)
(* What holds of platforms that wait for each call on an instance before   *)
(* they make the next, for every value of the other constants: whatever    *)
(* fails, "succeeded" means that what succeeded is there.                  *)
(***************************************************************************)
EXTENDS AnswerProofs

-----------------------------------------------------------------------------
(* Recorded releases are labelled, on any platform. *)

\* A release that a ConfigMap records, and that runs, is wholly labelled.
RecordedIsLabelled ==
    \A i \in Instances :
        /\ configMap[i] # None /\ configMap[i].release # None
        /\ configMap[i].release \in releases
        => labelled[configMap[i].release] = Resources

\* A step labels only a release whose provision is at its labels, or removes it.
LEMMA LabelsKept ==
  ASSUME IInv, [Next]_vars, NEW q \in releases'
  PROVE  labelled'[q] = labelled[q] \/ (q \in Requests /\ pc[q] = "label")
<1>1. /\ TypeOK /\ releases \subseteq Requests
      /\ labelled \in [Requests -> SUBSET Resources]
  BY DEF IInv, TypeOK, ClusterTypeOK
<1>2. ASSUME NEW r \in Requests, Step(r)
      PROVE  labelled'[q] = labelled[q] \/ (q \in Requests /\ pc[q] = "label")
  <2> DEFINE Kept == labelled'[q] = labelled[q] \/ (q \in Requests /\ pc[q] = "label")
  <2>1. CreateConfigMap(r) \/ LookUpRelease(r) \/ DeleteConfigMap(r) \/ Install(r) => Kept
    BY <1>1, CreateEffect, LookUpEffect, DeleteEffect, InstallEffect DEF clusterVars
  <2>2. MarkInProgress(r) \/ RecordRelease(r) \/ ReportSuccess(r) \/ ReportFailure(r) => Kept
    BY <1>1, MarkEffect, RecordEffect, SuccessEffect, FailureEffect
       DEF Updates, clusterVars, Becomes
  <2>3. FindInstance(r) \/ ListServices(r) \/ ListSecrets(r) \/ Acquire(r) => Kept
    BY <1>1, FindEffect, ListServicesEffect, ListSecretsEffect, AcquireEffect DEF clusterVars
  <2>4. StoreBinding(r) \/ RemoveBinding(r) \/ ReportBinding(r) => Kept
    BY <1>1, StoreEffect, RemoveEffect, ReportEffect DEF Updates, clusterVars, Becomes
  <2>5. CheckBindState(r) \/ FetchBinding(r) => Kept
    BY <1>1, CheckEffect, FetchEffect DEF clusterVars
  <2>6. ASSUME LabelResources(r) PROVE Kept
    <3>1. pc[r] = "label" BY <2>6 DEF LabelResources
    <3>2. CASE q = r BY <3>1, <3>2
    <3>3. CASE q # r
      <4>1. releases' = releases BY <1>1, <2>6, LabelEffect
      <4>2. labelled' = labelled \/ \E s : labelled' = [labelled EXCEPT ![r] = @ \cup {s}]
        BY <1>1, <2>6, LabelEffect
      <4> QED BY <1>1, <3>3, <4>1, <4>2
    <3> QED BY <3>2, <3>3
  <2>7. ASSUME Uninstall(r) PROVE Kept
    <3>1. \/ labelled' = labelled
          \/ /\ releases' = releases \ {target[r]}
             /\ labelled' = [labelled EXCEPT ![target[r]] = {}]
      BY <1>1, <2>7, UninstallEffect
    <3> QED BY <1>1, <3>1
  <2> HIDE DEF Kept
  <2>8. Kept
    BY <1>2, <2>1, <2>2, <2>3, <2>4, <2>5, <2>6, <2>7 DEF Step, InstanceStep, BindingStep
  <2> QED BY <2>8 DEF Kept
<1>3. ASSUME NEW r \in Requests, Receive(r) PROVE labelled' = labelled
  BY <1>3 DEF Receive, clusterVars
<1>4. ASSUME NEW k \in Brokers, Crash(k) PROVE labelled' = labelled
  BY <1>4 DEF Crash, clusterVars
<1>5. UNCHANGED vars => labelled' = labelled BY DEF vars, clusterVars
<1> QED BY <1>2, <1>3, <1>4, <1>5 DEF Next, Stop

\* Every step keeps recorded releases labelled.
LEMMA RecordedIsLabelledNext ==
  IInv /\ LabelledWhenRecorded /\ RecordedIsLabelled /\ [Next]_vars => RecordedIsLabelled'
<1> SUFFICES ASSUME IInv, LabelledWhenRecorded, RecordedIsLabelled, [Next]_vars,
                    NEW i \in Instances, NEW u, u = configMap'[i].release,
                    configMap'[i] # None, u # None, u \in releases'
             PROVE  labelled'[u] = Resources
  BY DEF RecordedIsLabelled
<1>1. labelled'[u] = labelled[u] \/ (u \in Requests /\ pc[u] = "label")
  BY LabelsKept
<1>2. ASSUME configMap[i] # None, configMap[i].release = u, u \in releases
      PROVE  labelled'[u] = Resources
  <2>1. u \in Requests /\ configMap[i].uid = u /\ Inst(u) = i
    BY <1>2, Creator
  <2>2. pc[u] # "label"
    BY <1>2, <2>1, OpOfLabel DEF IInv, CreatorIsAlone, Provisioning
  <2> QED BY <1>1, <1>2, <2>2 DEF RecordedIsLabelled
<1>3. ASSUME configMap'[i] = configMap[i], releases' \subseteq releases
      PROVE  labelled'[u] = Resources
  BY <1>2, <1>3
<1>4. ASSUME NEW r \in Requests, Steady(r) PROVE labelled'[u] = Resources
  <2>1. Inst(r) \in Instances /\ releases' = releases BY <1>4, SteadyProceeds DEF Steady
  <2>2. /\ configMap[i] # None
        /\ \/ configMap'[i].release = configMap[i].release
           \/ pc[r] = "record" /\ configMap'[i].release = r
    BY <1>4, <2>1, SteadyConfigMaps
  <2>3. CASE pc[r] = "record" /\ u = r
    BY <1>1, <2>3 DEF LabelledWhenRecorded
  <2> QED BY <1>2, <2>1, <2>2, <2>3
<1>5. ASSUME NEW r \in Requests, Reserves(r) PROVE labelled'[u] = Resources
  <2>1. i = Inst(r) => configMap'[i].release = None
    BY <1>5 DEF Reserves, NewConfigMap, IInv, TypeOK, ClusterTypeOK
  <2>2. i # Inst(r) => configMap'[i] = configMap[i]
    BY <1>5 DEF Reserves, IInv, TypeOK, ClusterTypeOK
  <2> QED BY <1>3, <1>5, <2>1, <2>2 DEF Reserves
<1>6. ASSUME NEW r \in Requests, Installs(r) PROVE labelled'[u] = Resources
  <2>1. configMap[i] # None /\ configMap[i].release = u BY <1>6 DEF Installs
  <2>2. configMap[i].uid = u /\ Inst(u) = i BY <2>1, Creator
  <2>3. u # r BY <1>6, <2>1, <2>2 DEF Installs, IInv, CreatorIsAlone
  <2> QED BY <1>2, <1>6, <2>1, <2>3 DEF Installs
<1>7. ASSUME NEW r \in Requests, Removes(r) PROVE labelled'[u] = Resources
  BY <1>3, <1>7 DEF Removes
<1>8. ASSUME NEW r \in Requests, Deletes(r) PROVE labelled'[u] = Resources
  BY <1>3, <1>8 DEF Deletes, IInv, TypeOK, ClusterTypeOK
<1> QED BY <1>3, <1>4, <1>5, <1>6, <1>7, <1>8, Kinds DEF Still

\* No Provision records a release before all of its objects carry the label.
THEOREM RecordedReleasesAreLabelled == Spec => []RecordedIsLabelled
<1>1. Init => RecordedIsLabelled BY DEF Init, ClusterInit, RecordedIsLabelled
<1>2. IInv /\ LabelledWhenRecorded /\ RecordedIsLabelled /\ [Next]_vars => RecordedIsLabelled'
  BY RecordedIsLabelledNext
<1>3. Spec => []AnswersInv
  <2>1. Init => AnswersInv BY AnswersInvInit
  <2>2. IInv /\ RecordsWhatRuns' /\ AnswersInv /\ [Next]_vars => AnswersInv'
    BY AnswersInvNext
  <2> QED BY <2>1, <2>2, Invariance, RecordedReleasesRan, PTL DEF Spec
<1>4. AnswersInv => LabelledWhenRecorded BY DEF AnswersInv
<1> QED BY <1>1, <1>2, <1>3, <1>4, Invariance, PTL DEF Spec

-----------------------------------------------------------------------------
(* The inductive invariant of serial platforms *)

\* Serial platforms have one call running on an instance at a time.
OneLive ==
    \A q, r \in Requests : Live(q) /\ Live(r) /\ Inst(q) = Inst(r) => q = r

\* What a ConfigMap never contradicts: its two binding keys agree, "succeeded"
\* is its creator's word, and credentials are those of its whole release.
Sound(c) ==
    /\ \A b \in Bindings :
          /\ c.bindState[b] = "succeeded" => c.binding[b] # {}
          /\ c.binding[b] # {} /\ c.release # None => c.binding[b] = {c.release} \X Secrets
    /\ c.opState = "succeeded" => c.opName = c.uid /\ c.release = c.uid

\* What the ConfigMap c is when request r, about to make the API call l, has
\* release t and credentials x in hand.
Fits(r, l, c, t, x) ==
    /\ l \in {"listServices", "listSecrets", "store"} => c # None /\ t = c.release
    /\ l = "store" => x # {} /\ (t # None => x = {t} \X Secrets)
    /\ l = "succeed" /\ call[r].op = "bind" => c # None /\ c.binding[Binding(r)] # {}
    /\ l \in {"install", "label", "record"} /\ call[r].async => c # None /\ c.opName = r
    /\ l = "succeed" /\ call[r].op = "provision" =>
          c # None /\ c.opName = r /\ c.uid = r /\ c.release = r
    /\ l \in {"mark", "install", "label", "record"} /\ call[r].op = "provision" =>
          c # None /\ \A b \in Bindings : c.binding[b] = {}

AllSound == \A i \in Instances : configMap[i] # None => Sound(configMap[i])

AllFit ==
    \A r \in Requests : pc[r] \notin {"idle", "done", "dead"} =>
        Fits(r, pc[r], configMap[Inst(r)], target[r], creds[r])

SerialInv == OneLive /\ AllSound /\ AllFit

-----------------------------------------------------------------------------
(* What each update writes is sound *)

\* Marks of an operation, "succeeded" only for one that is marked and recorded.
LEMMA SoundMark ==
  ASSUME NEW c, NEW d, Sound(c), d.release = c.release,
         d.binding = c.binding, d.bindState = c.bindState,
         d.opState = "succeeded" => d.opName = d.uid /\ d.release = d.uid
  PROVE  Sound(d)
BY DEF Sound

\* The record of a release, before anything is bound.
LEMMA SoundRecord ==
  ASSUME NEW c, NEW d, Sound(c), c.uid # None, c.release = None,
         \A b \in Bindings : c.binding[b] = {},
         d.opState = c.opState, d.binding = c.binding, d.bindState = c.bindState
  PROVE  Sound(d)
BY DEF Sound

\* The keys of one binding: credentials are none or all those of the recorded
\* release, and "succeeded" is there only with credentials.
LEMMA SoundBinding ==
  ASSUME NEW c, NEW d, NEW b \in Bindings, Sound(c),
         d.uid = c.uid, d.release = c.release, d.opName = c.opName, d.opState = c.opState,
         \A e \in Bindings \ {b} :
            d.binding[e] = c.binding[e] /\ d.bindState[e] = c.bindState[e],
         d.bindState[b] = "succeeded" => d.binding[b] # {},
         d.binding[b] # {} /\ d.release # None => d.binding[b] = {d.release} \X Secrets
  PROVE  Sound(d)
BY DEF Sound

\* A new ConfigMap binds nothing and says nothing.
LEMMA SoundNew ==
  ASSUME TypeOK, NEW r \in Requests
  PROVE  /\ Sound(NewConfigMap(r)) /\ NewConfigMap(r) # None
         /\ \A b \in Bindings : NewConfigMap(r).binding[b] = {}
<1>1. NewConfigMap(r) # None BY NewConfigMapType, NoneIsFresh DEF TypeOK
<1> QED BY <1>1, NoneIsNoState DEF Sound, NewConfigMap

-----------------------------------------------------------------------------
(* Each step keeps what it has to of its own instance and request *)

\* The step of r leaves a sound ConfigMap, and one that fits what r does next.
Leaves(r) ==
    /\ configMap'[Inst(r)] # None => Sound(configMap'[Inst(r)])
    /\ pc'[r] \notin {"done", "dead"} =>
          Fits(r, pc'[r], configMap'[Inst(r)], target'[r], creds'[r])

\* Whatever the ConfigMap, it fits a request that is at its failure, at its
\* check, or that only reads or removes the ConfigMap.
LEMMA Undemanding ==
  ASSUME NEW r, NEW c, NEW t, NEW x,
         NEW l \in {"lock", "create", "lookup", "find", "uninstall", "delete", "fail",
                    "check", "fetch", "remove"}
  PROVE  Fits(r, l, c, t, x)
BY DEF Fits

\* Other requests run on other instances, whose ConfigMaps stay.
LEMMA SerialFrame ==
  ASSUME IInv, SerialInv, NEW r \in Requests, Step(r), Leaves(r)
  PROVE  SerialInv'
<1>1. /\ Alone(r) /\ pc[r] \notin {"idle", "done", "dead"}
      /\ Inst(r) \in Instances /\ TypeOK
      /\ \A i \in Instances \ {Inst(r)} : configMap'[i] = configMap[i]
  BY StepOfOne DEF IInv
<1>2. \A q \in Requests : pc'[q] \notin {"idle", "done", "dead"} => Live(q)
  BY <1>1 DEF Alone, Live
<1>3. OneLive'
  BY <1>1, <1>2 DEF SerialInv, OneLive, Live, Alone, Inst
<1>4. AllSound'
  BY <1>1 DEF SerialInv, AllSound, Leaves, Sound
<1>5. ASSUME NEW q \in Requests, pc'[q] \notin {"idle", "done", "dead"}
      PROVE  Fits(q, pc'[q], configMap'[Inst(q)], target'[q], creds'[q])
  <2>1. CASE q = r BY <1>5, <2>1 DEF Leaves
  <2>2. CASE q # r
    <3>1. pc'[q] = pc[q] /\ target'[q] = target[q] /\ creds'[q] = creds[q]
      BY <1>1, <2>2 DEF Alone
    <3>2. pc[q] \notin {"idle", "done", "dead"} BY <1>5, <3>1
    <3>3. Inst(q) \in Instances BY <1>1, <3>2, CallFields
    <3>4. Inst(q) # Inst(r) BY <1>1, <2>2, <3>2 DEF SerialInv, OneLive, Live
    <3>5. configMap'[Inst(q)] = configMap[Inst(q)] BY <1>1, <3>3, <3>4
    <3> QED BY <3>1, <3>2, <3>5 DEF SerialInv, AllFit
  <2> QED BY <2>1, <2>2
<1>6. AllFit'
  BY <1>1, <1>5 DEF AllFit, Alone, Fits, Inst, Binding
<1> QED BY <1>3, <1>4, <1>6 DEF SerialInv

\* A step that leaves the ConfigMap alone.
LEMMA ReadLeaves ==
  ASSUME SerialInv, NEW r \in Requests, Inst(r) \in Instances, UNCHANGED configMap,
         \/ pc'[r] \in {"done", "dead"}
         \/ Fits(r, pc'[r], configMap[Inst(r)], target'[r], creds'[r])
  PROVE  Leaves(r)
BY DEF SerialInv, AllSound, Leaves

\* An update, whose failure leads to the request's own, or to its end.
LEMMA UpdateLeaves ==
  ASSUME IInv, SerialInv, NEW r \in Requests, Inst(r) \in Instances,
         pc[r] \notin {"idle", "done", "dead"},
         NEW new, NEW ACTION ok, NEW ACTION bad, Updates(r, new, ok, bad),
         bad => pc'[r] \in {"fail", "done"},
         ASSUME NEW v \in Nat, copy[r] \in ConfigMaps, copy[r] = configMap[Inst(r)]
         PROVE  /\ Sound([new EXCEPT !.version = v])
                /\ ok => \/ pc'[r] = "done"
                         \/ Fits(r, pc'[r], [new EXCEPT !.version = v], target[r], creds[r])
  PROVE  Leaves(r)
<1>1. /\ copy \in [Requests -> ConfigMaps \cup {None}]
      /\ configMap \in [Instances -> ConfigMaps \cup {None}]
  BY DEF IInv, TypeOK, CallTypeOK, ClusterTypeOK
<1>2. target'[r] = target[r] /\ creds'[r] = creds[r] BY DEF Updates
<1>3. CASE configMap' = configMap /\ pc'[r] = pc[r]
  BY <1>2, <1>3, ReadLeaves DEF SerialInv, AllFit
<1>4. CASE configMap' = configMap /\ bad
  BY <1>4, ReadLeaves, Undemanding
<1>5. CASE /\ ok \/ bad
           /\ copy[r] # None /\ copy[r] = configMap[Inst(r)]
           /\ Becomes(Inst(r), new)
  <2>1. PICK v \in Nat : configMap' = [configMap EXCEPT ![Inst(r)] = [new EXCEPT !.version = v]]
    BY <1>5 DEF Becomes
  <2>2. copy[r] \in ConfigMaps BY <1>1, <1>5
  <2> DEFINE d == [new EXCEPT !.version = v]
  <2>3. configMap'[Inst(r)] = d BY <1>1, <2>1
  <2>4. /\ Sound(d)
        /\ ok => pc'[r] = "done" \/ Fits(r, pc'[r], d, target[r], creds[r])
    BY <1>5, <2>2
  <2> HIDE DEF d
  <2>5. bad => pc'[r] = "done" \/ Fits(r, pc'[r], d, target[r], creds[r])
    BY Undemanding
  <2> QED BY <1>2, <1>5, <2>3, <2>4, <2>5 DEF Leaves
<1> QED BY <1>3, <1>4, <1>5 DEF Updates, clusterVars, Goes

\* A bind of a recorded release sees all of its secrets, and no others.
LEMMA VisibleAll ==
  ASSUME IInv, RecordedIsLabelled, NEW r \in Requests, Inst(r) \in Instances,
         configMap[Inst(r)] # None, target[r] = configMap[Inst(r)].release,
         target[r] # None, Visible(r, Secrets) # {}
  PROVE  Visible(r, Secrets) = {target[r]} \X Secrets
<1>1. PICK i \in Instances : i = Inst(r) OBVIOUS
<1>2. configMap[i].uid = target[r] /\ Inst(target[r]) = i
  BY <1>1, Creator
<1>3. \A x \in Visible(r, Secrets) : x[1] = target[r] /\ x[1] \in releases
  BY <1>1, <1>2 DEF Visible, IInv, NoOrphanRelease
<1>4. target[r] \in releases BY <1>3
<1>5. labelled[target[r]] = Resources
  BY <1>1, <1>4 DEF RecordedIsLabelled
<1>6. \A s \in Secrets : <<target[r], s>> \in Visible(r, Secrets)
  BY <1>1, <1>2, <1>4, <1>5 DEF Visible, Resources
<1>7. \A x \in Visible(r, Secrets) : x \in {target[r]} \X Secrets
  BY <1>3 DEF Visible
<1> QED BY <1>6, <1>7

\* Create starts with an empty ConfigMap.
LEMMA CreateLeaves ==
  ASSUME IInv, SerialInv, NEW r \in Requests, Inst(r) \in Instances, CreateConfigMap(r)
  PROVE  Leaves(r)
<1>1. TypeOK /\ configMap \in [Instances -> ConfigMaps \cup {None}]
      /\ call[r].op = "provision"
  BY OpOfLabel DEF IInv, TypeOK, ClusterTypeOK, CreateConfigMap
<1>2. CASE /\ configMap' = [configMap EXCEPT ![Inst(r)] = NewConfigMap(r)]
           /\ Goes(r, IF call[r].async THEN "mark" ELSE "install") \/ Ends(r, "error")
  <2> DEFINE d == NewConfigMap(r)
  <2>1. Sound(d) /\ d # None /\ \A b \in Bindings : d.binding[b] = {} BY <1>1, SoundNew
  <2>2. configMap'[Inst(r)] = d BY <1>1, <1>2
  <2> HIDE DEF d
  <2>3. pc'[r] # "done" => pc'[r] = IF call[r].async THEN "mark" ELSE "install"
    BY <1>2 DEF Goes, Ends
  <2> QED BY <1>1, <2>1, <2>2, <2>3 DEF Leaves, Fits
<1>3. CASE configMap' = configMap /\ pc'[r] = "done"
  BY <1>3, ReadLeaves
<1> QED BY <1>1, <1>2, <1>3, CreateEffect DEF clusterVars, Ends

\* The mark, and the way to Helm.
LEMMA MarkLeaves ==
  ASSUME IInv, SerialInv, NEW r \in Requests, Inst(r) \in Instances, MarkInProgress(r)
  PROVE  Leaves(r)
<1> DEFINE new == [copy[r] EXCEPT !.opState = "in progress", !.opName = r]
           ok == Parts(r, IF call[r].op = "provision" THEN "install" ELSE "uninstall")
           bad == Ends(r, "error")
<1>1. pc[r] = "mark" BY DEF MarkInProgress
<1>2. Updates(r, new, ok, bad) BY MarkEffect
<1>3. bad => pc'[r] \in {"fail", "done"} BY DEF Ends
<1>4. ASSUME NEW v \in Nat, copy[r] \in ConfigMaps, copy[r] = configMap[Inst(r)]
      PROVE  /\ Sound([new EXCEPT !.version = v])
             /\ ok => \/ pc'[r] = "done"
                      \/ Fits(r, pc'[r], [new EXCEPT !.version = v], target[r], creds[r])
  <2> DEFINE d == [new EXCEPT !.version = v]
  <2>1. Sound(copy[r]) BY <1>4, NoneIsFresh DEF SerialInv, AllSound
  <2>2. /\ d \in ConfigMaps /\ d.opState = "in progress" /\ d.opName = r
        /\ d.binding = copy[r].binding /\ d.bindState = copy[r].bindState
        /\ d.release = copy[r].release
    BY <1>4 DEF ConfigMaps, OpStates
  <2>3. call[r].op = "provision" => \A b \in Bindings : copy[r].binding[b] = {}
    BY <1>1, <1>4 DEF SerialInv, AllFit, Fits
  <2> HIDE DEF d
  <2>4. Sound(d) BY <2>1, <2>2, SoundMark
  <2>5. ok => Fits(r, pc'[r], d, target[r], creds[r])
    BY <2>2, <2>3, NoneIsFresh DEF Parts, Fits
  <2> QED BY <2>4, <2>5 DEF d
<1> HIDE DEF new, ok, bad
<1> QED BY <1>1, <1>2, <1>3, <1>4, UpdateLeaves

\* Helm and the labels leave the ConfigMap alone.
LEMMA InstallLeaves ==
  ASSUME IInv, SerialInv, NEW r \in Requests, Inst(r) \in Instances,
         Install(r) \/ LabelResources(r)
  PROVE  Leaves(r)
<1>1. TypeOK /\ pc[r] \in {"install", "label"} /\ configMap' = configMap
  BY InstallEffect, LabelEffect DEF IInv, Install, LabelResources
<1>2. Fits(r, pc[r], configMap[Inst(r)], target[r], creds[r])
      /\ target'[r] = target[r] /\ creds'[r] = creds[r]
  BY <1>1, InstallEffect, LabelEffect DEF SerialInv, AllFit, Keeps
<1>3. pc'[r] \in {"label", "record", "fail", "done"}
  BY <1>1, InstallEffect, LabelEffect DEF Goes, Ends, Fails
<1>4. call[r].op = "provision" BY <1>1, OpOfLabel
<1>5. pc'[r] \in {"label", "record"} =>
        Fits(r, pc'[r], configMap[Inst(r)], target'[r], creds'[r])
  BY <1>1, <1>2, <1>4 DEF Fits
<1> QED BY <1>1, <1>3, <1>5, ReadLeaves, Undemanding

\* The record is of the creator's own release, before anything is bound.
LEMMA RecordLeaves ==
  ASSUME IInv, SerialInv, NEW r \in Requests, Inst(r) \in Instances, RecordRelease(r)
  PROVE  Leaves(r)
<1> DEFINE new == [copy[r] EXCEPT !.release = r]
           ok == IF call[r].async THEN Goes(r, "succeed") ELSE Ends(r, "ok")
           bad == Fails(r)
<1>1. pc[r] = "record" /\ call[r].op = "provision"
  BY OpOfLabel DEF RecordRelease, IInv
<1>2. Updates(r, new, ok, bad) BY RecordEffect
<1>3. bad => pc'[r] \in {"fail", "done"} BY DEF Fails, Goes, Ends
<1>4. ASSUME NEW v \in Nat, copy[r] \in ConfigMaps, copy[r] = configMap[Inst(r)]
      PROVE  /\ Sound([new EXCEPT !.version = v])
             /\ ok => \/ pc'[r] = "done"
                      \/ Fits(r, pc'[r], [new EXCEPT !.version = v], target[r], creds[r])
  <2> DEFINE d == [new EXCEPT !.version = v]
  <2>1. Sound(copy[r]) BY <1>4, NoneIsFresh DEF SerialInv, AllSound
  <2>2. copy[r].uid = r /\ copy[r].release = None
    BY <1>1, <1>4 DEF IInv, CreatorIsAlone, Provisioning
  <2>3. /\ \A b \in Bindings : copy[r].binding[b] = {}
        /\ call[r].async => copy[r].opName = r
    BY <1>1, <1>4 DEF SerialInv, AllFit, Fits
  <2>4. /\ d \in ConfigMaps /\ d.uid = r /\ d.release = r
        /\ d.opName = copy[r].opName /\ d.opState = copy[r].opState
        /\ d.binding = copy[r].binding /\ d.bindState = copy[r].bindState
    BY <1>4, <2>2 DEF ConfigMaps
  <2> HIDE DEF d
  <2>5. ok => \/ pc'[r] = "done"
              \/ pc'[r] = "succeed" /\ call[r].async
    BY DEF Goes, Ends
  <2>6. pc'[r] = "succeed" /\ call[r].async => Fits(r, pc'[r], d, target[r], creds[r])
    BY <1>1, <2>3, <2>4, NoneIsFresh DEF Fits
  <2>7. Sound(d) BY <2>1, <2>2, <2>3, <2>4, NoneIsFresh, SoundRecord
  <2> QED BY <2>5, <2>6, <2>7 DEF d
<1> HIDE DEF new, ok, bad
<1> QED BY <1>1, <1>2, <1>3, <1>4, UpdateLeaves

\* Only the provision that is marked and recorded says "succeeded".
LEMMA SuccessLeaves ==
  ASSUME IInv, SerialInv, NEW r \in Requests, Inst(r) \in Instances, ReportSuccess(r)
  PROVE  Leaves(r)
<1> DEFINE new == [copy[r] EXCEPT !.opState = "succeeded"]
           ok == Ends(r, "ok")
           bad == Ends(r, "error")
<1>1. pc[r] = "succeed" /\ call[r].op = "provision" BY DEF ReportSuccess
<1>2. Updates(r, new, ok, bad) BY SuccessEffect
<1>3. bad => pc'[r] \in {"fail", "done"} BY DEF Ends
<1>4. ASSUME NEW v \in Nat, copy[r] \in ConfigMaps, copy[r] = configMap[Inst(r)]
      PROVE  /\ Sound([new EXCEPT !.version = v])
             /\ ok => \/ pc'[r] = "done"
                      \/ Fits(r, pc'[r], [new EXCEPT !.version = v], target[r], creds[r])
  <2> DEFINE d == [new EXCEPT !.version = v]
  <2>1. Sound(copy[r]) BY <1>4, NoneIsFresh DEF SerialInv, AllSound
  <2>2. copy[r].opName = r /\ copy[r].uid = r /\ copy[r].release = r
    BY <1>1, <1>4 DEF SerialInv, AllFit, Fits
  <2>3. /\ d.uid = copy[r].uid /\ d.opName = copy[r].opName /\ d.release = copy[r].release
        /\ d.binding = copy[r].binding /\ d.bindState = copy[r].bindState
    BY <1>4 DEF ConfigMaps
  <2> HIDE DEF d
  <2>4. Sound(d) BY <2>1, <2>2, <2>3, SoundMark
  <2> QED BY <2>4 DEF d, Ends
<1> HIDE DEF new, ok, bad
<1> QED BY <1>1, <1>2, <1>3, <1>4, UpdateLeaves

\* The "failed" of a provision or a deprovision.
LEMMA FailureLeaves ==
  ASSUME IInv, SerialInv, NEW r \in Requests, Inst(r) \in Instances, ReportFailure(r)
  PROVE  Leaves(r)
<1> DEFINE new == [copy[r] EXCEPT !.opState = "failed"]
           ok == Ends(r, "error")
           bad == Ends(r, "error")
<1>1. pc[r] = "fail" BY DEF ReportFailure
<1>2. Updates(r, new, ok, bad) BY FailureEffect
<1>3. bad => pc'[r] \in {"fail", "done"} BY DEF Ends
<1>4. ASSUME NEW v \in Nat, copy[r] \in ConfigMaps, copy[r] = configMap[Inst(r)]
      PROVE  /\ Sound([new EXCEPT !.version = v])
             /\ ok => \/ pc'[r] = "done"
                      \/ Fits(r, pc'[r], [new EXCEPT !.version = v], target[r], creds[r])
  <2> DEFINE d == [new EXCEPT !.version = v]
  <2>1. Sound(copy[r]) BY <1>4, NoneIsFresh DEF SerialInv, AllSound
  <2>2. /\ d.opState = "failed" /\ d.release = copy[r].release
        /\ d.binding = copy[r].binding /\ d.bindState = copy[r].bindState
    BY <1>4 DEF ConfigMaps
  <2> HIDE DEF d
  <2>3. Sound(d) BY <2>1, <2>2, SoundMark
  <2> QED BY <2>3 DEF d, Ends
<1> HIDE DEF new, ok, bad
<1> QED BY <1>1, <1>2, <1>3, <1>4, UpdateLeaves

\* A deprovision reads the ConfigMap, marks it, and deletes it.
LEMMA DeprovisionLeaves ==
  ASSUME IInv, SerialInv, NEW r \in Requests, Inst(r) \in Instances,
         LookUpRelease(r) \/ Uninstall(r) \/ DeleteConfigMap(r)
  PROVE  Leaves(r)
<1>1. /\ TypeOK /\ configMap \in [Instances -> ConfigMaps \cup {None}]
      /\ call[r].op = "deprovision"
  BY OpOfLabel DEF IInv, TypeOK, ClusterTypeOK, LookUpRelease, Uninstall, DeleteConfigMap
<1>2. pc'[r] \in {"mark", "uninstall", "delete", "fail", "done"}
  BY <1>1, LookUpEffect, UninstallEffect, DeleteEffect DEF Goes, Ends, Fails
<1>3. pc'[r] # "done" => Fits(r, pc'[r], configMap'[Inst(r)], target'[r], creds'[r])
  BY <1>1, <1>2 DEF Fits
<1>4. configMap' = configMap \/ configMap' = [configMap EXCEPT ![Inst(r)] = None]
  BY <1>1, LookUpEffect, UninstallEffect, DeleteEffect DEF clusterVars
<1>5. CASE configMap' = configMap BY <1>3, <1>5, ReadLeaves
<1>6. CASE configMap' = [configMap EXCEPT ![Inst(r)] = None]
  BY <1>1, <1>3, <1>6 DEF Leaves
<1> QED BY <1>4, <1>5, <1>6

\* The steps of a bind that read: what it found stays, and what it saw is whole.
LEMMA BindReadLeaves ==
  ASSUME IInv, RecordedIsLabelled, SerialInv, NEW r \in Requests, Inst(r) \in Instances,
         FindInstance(r) \/ ListServices(r) \/ ListSecrets(r)
  PROVE  Leaves(r)
<1>1. /\ TypeOK /\ call[r].op = "bind"
      /\ pc[r] \in {"find", "listServices", "listSecrets"}
  BY OpOfLabel DEF IInv, FindInstance, ListServices, ListSecrets
<1>2. configMap' = configMap
  BY <1>1, FindEffect, ListServicesEffect, ListSecretsEffect DEF clusterVars
<1>3. ASSUME FindInstance(r) PROVE Leaves(r)
  <2>1. \/ /\ configMap[Inst(r)] # None /\ target'[r] = configMap[Inst(r)].release
           /\ pc'[r] = "listServices"
        \/ pc'[r] = "done"
    BY <1>1, <1>3, FindEffect DEF Goes, Parts, Ends
  <2> QED BY <1>2, <2>1, ReadLeaves DEF Fits
<1>4. ASSUME ListServices(r) \/ ListSecrets(r) PROVE Leaves(r)
  <2>1. configMap[Inst(r)] # None /\ target[r] = configMap[Inst(r)].release
    BY <1>1, <1>4 DEF SerialInv, AllFit, Fits, ListServices, ListSecrets
  <2>2. target'[r] = target[r]
    BY <1>1, <1>4, ListServicesEffect, ListSecretsEffect DEF Keeps
  <2>3. \/ pc'[r] \in {"listSecrets", "fail"}
        \/ /\ pc'[r] = "store" /\ creds'[r] = Visible(r, Secrets)
           /\ Visible(r, Secrets) # {}
    BY <1>1, <1>4, ListServicesEffect, ListSecretsEffect DEF Goes
  <2>4. pc'[r] = "store" => creds'[r] # {} /\ (target[r] # None => creds'[r] = {target[r]} \X Secrets)
    BY <2>1, <2>3, VisibleAll
  <2>5. Fits(r, pc'[r], configMap[Inst(r)], target'[r], creds'[r])
    BY <2>1, <2>2, <2>3, <2>4 DEF Fits
  <2> QED BY <1>2, <2>5, ReadLeaves
<1> QED BY <1>3, <1>4

\* Bind's credentials, of the release it found recorded if there was one.
LEMMA StoreLeaves ==
  ASSUME IInv, SerialInv, NEW r \in Requests, Inst(r) \in Instances, StoreBinding(r)
  PROVE  Leaves(r)
<1> DEFINE b == Binding(r)
           new == [copy[r] EXCEPT !.binding[b] = creds[r]]
           ok == Goes(r, "succeed")
           bad == Goes(r, "fail")
<1>1. /\ pc[r] = "store" /\ call[r].op = "bind" /\ b \in Bindings
      /\ creds[r] \in Credentials
  BY OpOfLabel, CallFields DEF StoreBinding, IInv, TypeOK, CallTypeOK
<1>2. Updates(r, new, ok, bad) BY StoreEffect
<1>3. bad => pc'[r] \in {"fail", "done"} BY DEF Goes
<1>4. ASSUME NEW v \in Nat, copy[r] \in ConfigMaps, copy[r] = configMap[Inst(r)]
      PROVE  /\ Sound([new EXCEPT !.version = v])
             /\ ok => \/ pc'[r] = "done"
                      \/ Fits(r, pc'[r], [new EXCEPT !.version = v], target[r], creds[r])
  <2> DEFINE d == [new EXCEPT !.version = v]
             x == creds[r]
  <2>1. Sound(copy[r]) BY <1>4, NoneIsFresh DEF SerialInv, AllSound
  <2>2. x # {} /\ (copy[r].release # None => x = {copy[r].release} \X Secrets)
    BY <1>1, <1>4 DEF SerialInv, AllFit, Fits
  <2> HIDE DEF b, x
  <2>3. /\ d \in ConfigMaps
        /\ d.uid = copy[r].uid /\ d.opName = copy[r].opName /\ d.release = copy[r].release
        /\ d.opState = copy[r].opState /\ d.bindState = copy[r].bindState
        /\ \A e \in Bindings : d.binding[e] = IF e = b THEN x ELSE copy[r].binding[e]
    BY <1>1, <1>4 DEF ConfigMaps, x
  <2> HIDE DEF d
  <2>4. Sound(d) BY <1>1, <2>1, <2>2, <2>3, SoundBinding
  <2>5. d # None /\ d.binding[b] # {} BY <1>1, <2>2, <2>3, NoneIsFresh
  <2>6. ok => Fits(r, pc'[r], d, target[r], creds[r])
    BY <1>1, <2>5 DEF Goes, Fits, b
  <2> QED BY <2>4, <2>6 DEF d, b
<1> HIDE DEF new, ok, bad
<1> QED BY <1>1, <1>2, <1>3, <1>4, UpdateLeaves

\* Bind's result, "succeeded" only when its credentials were stored.
LEMMA ReportLeaves ==
  ASSUME IInv, SerialInv, NEW r \in Requests, Inst(r) \in Instances, ReportBinding(r)
  PROVE  Leaves(r)
<1> DEFINE ok == IF call[r].async THEN Ends(r, "ok") ELSE Goes(r, "check")
           bad == Ends(r, "error")
           b == Binding(r)
<1>1. PICK outcome \in {"succeed", "fail"} :
        /\ pc[r] = outcome /\ call[r].op = "bind"
        /\ Updates(r, [copy[r] EXCEPT !.bindState[b] =
                          IF outcome = "succeed" THEN "succeeded" ELSE "failed"], ok, bad)
  BY ReportEffect
<1> DEFINE s == IF outcome = "succeed" THEN "succeeded" ELSE "failed"
           new == [copy[r] EXCEPT !.bindState[b] = s]
<1>2. pc[r] = outcome /\ call[r].op = "bind" /\ b \in Bindings
  BY <1>1, CallFields DEF IInv
<1>3. bad => pc'[r] \in {"fail", "done"} BY DEF Ends
<1>4. ASSUME NEW v \in Nat, copy[r] \in ConfigMaps, copy[r] = configMap[Inst(r)]
      PROVE  /\ Sound([new EXCEPT !.version = v])
             /\ ok => \/ pc'[r] = "done"
                      \/ Fits(r, pc'[r], [new EXCEPT !.version = v], target[r], creds[r])
  <2> DEFINE d == [new EXCEPT !.version = v]
  <2>1. Sound(copy[r]) BY <1>4, NoneIsFresh DEF SerialInv, AllSound
  <2>2. s \in {"succeeded", "failed"} /\ (s = "succeeded" => copy[r].binding[b] # {})
    BY <1>2, <1>4 DEF SerialInv, AllFit, Fits
  <2> HIDE DEF s, b
  <2>3. /\ d.uid = copy[r].uid /\ d.opName = copy[r].opName /\ d.release = copy[r].release
        /\ d.opState = copy[r].opState /\ d.binding = copy[r].binding
        /\ \A e \in Bindings : d.bindState[e] = IF e = b THEN s ELSE copy[r].bindState[e]
    BY <1>2, <1>4 DEF ConfigMaps
  <2> HIDE DEF d
  <2>4. Sound(d)
    <3>1. d.binding[b] # {} /\ d.release # None => d.binding[b] = {d.release} \X Secrets
      BY <1>2, <2>1, <2>3 DEF Sound
    <3> QED BY <1>2, <2>1, <2>2, <2>3, <3>1, SoundBinding
  <2>5. ok => pc'[r] = "done" \/ Fits(r, pc'[r], d, target[r], creds[r])
    BY Undemanding DEF Goes, Ends
  <2> QED BY <2>4, <2>5 DEF d, s, b
<1>5. Updates(r, new, ok, bad) BY <1>1
<1> HIDE DEF new, ok, bad
<1> QED BY <1>2, <1>3, <1>4, <1>5, UpdateLeaves

\* Unbind removes both keys.
LEMMA RemoveLeaves ==
  ASSUME IInv, SerialInv, NEW r \in Requests, Inst(r) \in Instances, RemoveBinding(r)
  PROVE  Leaves(r)
<1> DEFINE b == Binding(r)
           new == [copy[r] EXCEPT !.binding[b] = {}, !.bindState[b] = None]
           ok == Ends(r, "ok")
           bad == Ends(r, "error")
<1>1. pc[r] = "remove" /\ b \in Bindings
  BY OpOfLabel, CallFields DEF RemoveBinding, IInv
<1>2. Updates(r, new, ok, bad) BY RemoveEffect
<1>3. bad => pc'[r] \in {"fail", "done"} BY DEF Ends
<1>4. ASSUME NEW v \in Nat, copy[r] \in ConfigMaps, copy[r] = configMap[Inst(r)]
      PROVE  /\ Sound([new EXCEPT !.version = v])
             /\ ok => \/ pc'[r] = "done"
                      \/ Fits(r, pc'[r], [new EXCEPT !.version = v], target[r], creds[r])
  <2> DEFINE d == [new EXCEPT !.version = v]
  <2>1. Sound(copy[r]) BY <1>4, NoneIsFresh DEF SerialInv, AllSound
  <2> HIDE DEF b
  <2>2. /\ d.uid = copy[r].uid /\ d.opName = copy[r].opName /\ d.release = copy[r].release
        /\ d.opState = copy[r].opState
        /\ \A e \in Bindings : d.binding[e] = IF e = b THEN {} ELSE copy[r].binding[e]
        /\ \A e \in Bindings : d.bindState[e] = IF e = b THEN None ELSE copy[r].bindState[e]
    BY <1>1, <1>4 DEF ConfigMaps
  <2> HIDE DEF d
  <2>3. d.binding[b] = {} /\ d.bindState[b] # "succeeded"
    BY <1>1, <2>2, NoneIsNoState
  <2>4. Sound(d) BY <1>1, <2>1, <2>2, <2>3, SoundBinding
  <2> QED BY <2>4 DEF d, b, Ends
<1> HIDE DEF new, ok, bad
<1> QED BY <1>1, <1>2, <1>3, <1>4, UpdateLeaves

\* The tail of a synchronous bind, and the lock, only read.
LEMMA QuietLeaves ==
  ASSUME IInv, SerialInv, NEW r \in Requests, Inst(r) \in Instances,
         CheckBindState(r) \/ FetchBinding(r) \/ Acquire(r)
  PROVE  Leaves(r)
<1>1. TypeOK BY DEF IInv
<1>2. configMap' = configMap
  BY <1>1, CheckEffect, FetchEffect, AcquireEffect DEF clusterVars
<1>3. pc'[r] \in {"fetch", "done", "create", "lookup", "find"}
  BY <1>1, CheckEffect, FetchEffect, AcquireEffect, OpOfLabel
     DEF Goes, Ends, Acquire, FirstStep
<1> QED BY <1>2, <1>3, ReadLeaves, Undemanding

-----------------------------------------------------------------------------
(* The theorems about serial platforms *)

\* Every action of a request keeps the invariant.
LEMMA SerialStep ==
  ASSUME IInv, RecordedIsLabelled, SerialInv, NEW r \in Requests, Step(r)
  PROVE  SerialInv'
<1>1. Inst(r) \in Instances BY StepOfOne
<1>2. CreateConfigMap(r) \/ MarkInProgress(r) \/ Install(r) \/ LabelResources(r) => Leaves(r)
  BY <1>1, CreateLeaves, MarkLeaves, InstallLeaves
<1>3. RecordRelease(r) \/ ReportSuccess(r) \/ ReportFailure(r) => Leaves(r)
  BY <1>1, RecordLeaves, SuccessLeaves, FailureLeaves
<1>4. LookUpRelease(r) \/ Uninstall(r) \/ DeleteConfigMap(r) => Leaves(r)
  BY <1>1, DeprovisionLeaves
<1>5. FindInstance(r) \/ ListServices(r) \/ ListSecrets(r) => Leaves(r)
  BY <1>1, BindReadLeaves
<1>6. StoreBinding(r) \/ ReportBinding(r) \/ RemoveBinding(r) => Leaves(r)
  BY <1>1, StoreLeaves, ReportLeaves, RemoveLeaves
<1>7. CheckBindState(r) \/ FetchBinding(r) \/ Acquire(r) => Leaves(r)
  BY <1>1, QuietLeaves
<1>8. Leaves(r)
  <2> HIDE DEF Leaves
  <2> QED BY <1>2, <1>3, <1>4, <1>5, <1>6, <1>7 DEF Step, InstanceStep, BindingStep
<1> QED BY <1>8, SerialFrame

\* A serial platform keeps one call live on an instance.
LEMMA SerialReceive ==
  ASSUME Serial, IInv, SerialInv, NEW r \in Requests, Receive(r)
  PROVE  SerialInv'
<1>1. /\ UNCHANGED <<target, creds, configMap>>
      /\ \A q \in Requests \ {r} : pc'[q] = pc[q] /\ call'[q] = call[q]
      /\ pc'[r] \in {"lock", "remove"} /\ Quiet(r, call'[r].instance)
  BY ReceiveEffect DEF IInv, clusterVars
<1>2. \A q \in Requests \ {r} : Live(q) => Inst(q) # call'[r].instance
  BY <1>1 DEF Quiet
<1>3. OneLive'
  BY <1>1, <1>2 DEF SerialInv, OneLive, Live, Inst
<1>4. AllSound' BY <1>1 DEF SerialInv, AllSound, Sound
<1>5. AllFit'
  <2> SUFFICES ASSUME NEW q \in Requests, pc'[q] \notin {"idle", "done", "dead"}
               PROVE  Fits(q, pc[q], configMap[Inst(q)], target[q], creds[q])'
    BY DEF AllFit
  <2>1. CASE q = r BY <1>1, <2>1 DEF Fits
  <2>2. CASE q # r
    <3>1. pc'[q] = pc[q] /\ call'[q] = call[q] BY <1>1, <2>2
    <3> QED BY <1>1, <3>1 DEF SerialInv, AllFit, Fits, Inst, Binding
  <2> QED BY <2>1, <2>2
<1> QED BY <1>3, <1>4, <1>5 DEF SerialInv

\* The end of a process only ends calls.
LEMMA SerialCrash ==
  ASSUME IInv, SerialInv, NEW k \in Brokers, Crash(k)
  PROVE  SerialInv'
<1>1. /\ UNCHANGED <<call, target, creds, configMap>>
      /\ \A q \in Requests : pc'[q] = pc[q] \/ pc'[q] = "dead"
  BY CrashEffect DEF IInv, clusterVars
<1>2. OneLive' BY <1>1 DEF SerialInv, OneLive, Live, Inst
<1>3. AllSound' BY <1>1 DEF SerialInv, AllSound, Sound
<1>4. AllFit' BY <1>1 DEF SerialInv, AllFit, Fits, Inst, Binding
<1> QED BY <1>2, <1>3, <1>4 DEF SerialInv

\* Every step of a serial platform keeps the invariant.
LEMMA SerialNext ==
  ASSUME Serial
  PROVE  IInv /\ RecordedIsLabelled /\ SerialInv /\ [Next]_vars => SerialInv'
<1> SUFFICES ASSUME IInv, RecordedIsLabelled, SerialInv, [Next]_vars PROVE SerialInv'
  OBVIOUS
<1>1. ASSUME UNCHANGED vars PROVE SerialInv'
  BY <1>1 DEF vars, clusterVars, callVars, SerialInv, OneLive, AllSound, AllFit,
              Live, Inst, Sound, Fits, Binding
<1> QED BY <1>1, SerialReceive, SerialStep, SerialCrash DEF Next, Stop

\* On a serial platform the invariant always holds.
LEMMA SerialHolds == ASSUME Serial PROVE Spec => []SerialInv
<1>1. Init => SerialInv
  BY DEF Init, ClusterInit, CallInit, SerialInv, OneLive, AllSound, AllFit, Live
<1>2. IInv /\ RecordedIsLabelled /\ SerialInv /\ [Next]_vars => SerialInv'
  BY SerialNext
<1> QED BY <1>1, <1>2, Invariance, RecordedReleasesAreLabelled, PTL DEF Spec

\* A platform told that a bind succeeded finds its credentials, although
\* Bind writes the two keys by separate updates and may fail between them.
THEOREM BoundIsFetchable == ASSUME Serial PROVE Spec => []BoundMeansFetchable
<1>1. SerialInv => BoundMeansFetchable
  BY DEF SerialInv, AllSound, Sound, BoundMeansFetchable, GetBinding, LastBindingOperationState
<1> QED BY <1>1, SerialHolds, PTL

\* "succeeded" is the word of the provision that made the ConfigMap, and means
\* that its release is recorded and, if it runs, wholly labelled.
THEOREM SucceededIsReady == ASSUME Serial PROVE Spec => []SucceededMeansReady
<1>1. IInv /\ SerialInv /\ RecordedIsLabelled => SucceededMeansReady
  <2> SUFFICES ASSUME IInv, SerialInv, RecordedIsLabelled, NEW i \in Instances,
                      NEW r, r = configMap[i].uid,
                      configMap[i] # None, configMap[i].opState = "succeeded"
               PROVE  /\ configMap[i].opName = r
                      /\ configMap[i].release = r
                      /\ r \in releases => labelled[r] = Resources
    BY DEF SucceededMeansReady
  <2>1. configMap[i].opName = r /\ configMap[i].release = r
    BY DEF SerialInv, AllSound, Sound
  <2>2. r \in releases => r # None
    BY NoneIsFresh DEF IInv, TypeOK, ClusterTypeOK
  <2> QED BY <2>1, <2>2 DEF RecordedIsLabelled
<1> QED BY <1>1, Invariance, SerialHolds, RecordedReleasesAreLabelled, PTL

\* Credentials stored for an instance whose provision is recorded are all the
\* secrets of that very release.
THEOREM CredentialsAreComplete == ASSUME Serial PROVE Spec => []CompleteCredentials
<1>1. SerialInv => CompleteCredentials
  BY DEF SerialInv, AllSound, Sound, CompleteCredentials, GetBinding
<1> QED BY <1>1, SerialHolds, PTL
=============================================================================
