---------------------------- MODULE AnswerProofs ----------------------------
(***************************************************************************)
(* What platforms are told is true, for every value of the constants:      *)
(* a positive answer when it is given, and, without faults of the API      *)
(* server, the end of every "in progress".                                 *)
(***************************************************************************)
EXTENDS StepProofs

-----------------------------------------------------------------------------
(* Positive answers *)

\* A goroutine that outlives its handler has been answered for.
Detached(r) ==
    \/ pc[r] \in {"install", "label", "record"} /\ call[r].async
    \/ pc[r] = "succeed" /\ call[r].op = "provision"
    \/ /\ pc[r] \in {"listServices", "listSecrets", "store", "succeed", "fail"}
       /\ call[r].op = "bind" /\ call[r].async

Answered == \A r \in Requests : Detached(r) => answer[r] # None

\* The loop over the objects of a release ends only when all are labelled.
LabelledWhenRecorded == \A r \in Requests : pc[r] = "record" => labelled[r] = Resources

AnswersInv == Answered /\ LabelledWhenRecorded

\* A step other than those that part from the handler stays on its side.
LEMMA AnsweredStep ==
  ASSUME IInv, Answered, NEW r \in Requests, Step(r)
  PROVE  Answered'
<1>1. TypeOK BY DEF IInv
<1>2. ASSUME Alone(r), Detached(r)' => answer'[r] # None PROVE Answered'
  BY <1>2 DEF Alone, Answered, Detached
<1> DEFINE Kept == Alone(r) /\ (Detached(r)' => answer'[r] # None)
           answered == Detached(r) => answer[r] # None
<1>3. answered BY DEF Answered
<1> HIDE DEF Kept, answered
<1>4. CreateConfigMap(r) => Kept
  BY <1>1, CreateEffect DEF Kept, Keeps, Alone, Goes, Ends, Detached
<1>5. MarkInProgress(r) => Kept
  BY <1>1, MarkEffect, NoneIsNoAnswer
     DEF Kept, Updates, Alone, Goes, Ends, Parts, Detached, MarkInProgress
<1>6. Install(r) => Kept
  BY <1>1, <1>3, InstallEffect, OpOfLabel
     DEF Kept, Keeps, Alone, Goes, Ends, Fails, Detached, Install, answered
<1>7. LabelResources(r) => Kept
  BY <1>1, <1>3, LabelEffect, OpOfLabel
     DEF Kept, Keeps, Alone, Goes, Ends, Fails, Detached, LabelResources, answered
<1>8. RecordRelease(r) => Kept
  BY <1>1, <1>3, RecordEffect, OpOfLabel
     DEF Kept, Updates, Alone, Goes, Ends, Fails, Detached, RecordRelease, answered
<1>9. ReportSuccess(r) => Kept
  BY <1>1, <1>3, SuccessEffect
     DEF Kept, Updates, Alone, Goes, Ends, Detached, ReportSuccess, answered
<1>10. ReportFailure(r) => Kept
  BY <1>1, <1>3, FailureEffect
     DEF Kept, Updates, Alone, Goes, Ends, Detached, ReportFailure, answered
<1>11. LookUpRelease(r) => Kept
  BY <1>1, LookUpEffect DEF Kept, Alone, Goes, Ends, Detached
<1>12. Uninstall(r) => Kept
  BY <1>1, UninstallEffect, OpOfLabel
     DEF Kept, Keeps, Alone, Goes, Ends, Fails, Detached, Uninstall
<1>13. DeleteConfigMap(r) => Kept
  BY <1>1, DeleteEffect, OpOfLabel
     DEF Kept, Keeps, Alone, Goes, Ends, Fails, Detached, DeleteConfigMap
<1>14. FindInstance(r) => Kept
  BY <1>1, FindEffect, NoneIsNoAnswer
     DEF Kept, Alone, Goes, Ends, Parts, Detached
<1>15. ListServices(r) => Kept
  BY <1>1, <1>3, ListServicesEffect, OpOfLabel
     DEF Kept, Keeps, Alone, Goes, Detached, ListServices, answered
<1>16. ListSecrets(r) => Kept
  BY <1>1, <1>3, ListSecretsEffect, OpOfLabel
     DEF Kept, Alone, Goes, Detached, ListSecrets, answered
<1>17. StoreBinding(r) => Kept
  BY <1>1, <1>3, StoreEffect, OpOfLabel
     DEF Kept, Updates, Alone, Goes, Detached, StoreBinding, answered
<1>18. ReportBinding(r) => Kept
  BY <1>1, <1>3, ReportEffect
     DEF Kept, Updates, Alone, Goes, Ends, Detached, answered
<1>19. CheckBindState(r) => Kept
  BY <1>1, CheckEffect DEF Kept, Keeps, Alone, Goes, Ends, Detached
<1>20. FetchBinding(r) => Kept
  BY <1>1, FetchEffect DEF Kept, Alone, Ends, Detached
<1>21. RemoveBinding(r) => Kept
  BY <1>1, RemoveEffect DEF Kept, Updates, Alone, Goes, Ends, Detached, RemoveBinding
<1>22. Acquire(r) => Kept
  BY <1>1, AcquireEffect, OpOfLabel
     DEF Kept, Keeps, Alone, Goes, FirstStep, Detached, Acquire
<1>23. Kept
  BY <1>4, <1>5, <1>6, <1>7, <1>8, <1>9, <1>10, <1>11, <1>12, <1>13, <1>14, <1>15,
     <1>16, <1>17, <1>18, <1>19, <1>20, <1>21, <1>22 DEF Step, InstanceStep, BindingStep
<1> QED BY <1>2, <1>23 DEF Kept

\* Labels, too, stay on a release for as long as its provision may record it.
LEMMA LabelledStep ==
  ASSUME IInv, RecordsWhatRuns', LabelledWhenRecorded, NEW r \in Requests, Step(r)
  PROVE  LabelledWhenRecorded'
<1>1. TypeOK BY DEF IInv
<1>2. labelled \in [Requests -> SUBSET Resources] BY <1>1 DEF TypeOK, ClusterTypeOK
<1> DEFINE Kept == Alone(r) /\ labelled' = labelled /\ (pc'[r] = "record" => pc[r] = "record")
<1>3. Kept => LabelledWhenRecorded' BY DEF Alone, LabelledWhenRecorded
<1> HIDE DEF Kept
<1>4. CreateConfigMap(r) \/ LookUpRelease(r) \/ DeleteConfigMap(r) => Kept
  BY <1>1, CreateEffect, LookUpEffect, DeleteEffect
     DEF Kept, Keeps, Alone, Goes, Ends, Fails, clusterVars
<1>5. MarkInProgress(r) \/ RecordRelease(r) \/ ReportSuccess(r) \/ ReportFailure(r) => Kept
  BY <1>1, MarkEffect, RecordEffect, SuccessEffect, FailureEffect
     DEF Kept, Updates, Alone, Goes, Ends, Parts, Fails, clusterVars, Becomes
<1>6. Install(r) => Kept
  BY <1>1, InstallEffect DEF Kept, Keeps, Alone, Goes, Ends, Fails
<1>7. FindInstance(r) \/ ListServices(r) \/ ListSecrets(r) => Kept
  BY <1>1, FindEffect, ListServicesEffect, ListSecretsEffect
     DEF Kept, Keeps, Alone, Goes, Ends, Parts, clusterVars
<1>8. StoreBinding(r) \/ RemoveBinding(r) \/ ReportBinding(r) => Kept
  BY <1>1, StoreEffect, RemoveEffect, ReportEffect
     DEF Kept, Updates, Alone, Goes, Ends, clusterVars, Becomes
<1>9. CheckBindState(r) \/ FetchBinding(r) => Kept
  BY <1>1, CheckEffect, FetchEffect DEF Kept, Keeps, Alone, Goes, Ends, clusterVars
<1>10. Acquire(r) => Kept
  BY <1>1, AcquireEffect, OpOfLabel
     DEF Kept, Keeps, Alone, Goes, FirstStep, Acquire, clusterVars
<1>11. ASSUME LabelResources(r) PROVE LabelledWhenRecorded'
  <2>1. CASE Goes(r, "label") \/ Fails(r)
    <3>1. \A q \in Requests : q # r => labelled'[q] = labelled[q]
      BY <1>1, <1>2, <1>11, LabelEffect
    <3> QED BY <1>1, <1>11, <2>1, <3>1, LabelEffect
        DEF Keeps, Alone, Goes, Ends, Fails, LabelledWhenRecorded
  <2>2. CASE Goes(r, "record") /\ Unlabelled(r) = {} /\ labelled' = labelled
    <3>1. pc'[r] = "record" /\ r \in releases
      BY <1>1, <1>11, <2>2, LabelEffect DEF Goes, RecordsWhatRuns
    <3>2. labelled[r] = Resources BY <1>2, <2>2, <3>1 DEF Unlabelled
    <3> QED BY <1>1, <1>11, <2>2, <3>2, LabelEffect DEF Keeps, Alone, LabelledWhenRecorded
  <2> QED BY <1>1, <1>11, <2>1, <2>2, LabelEffect
<1>12. ASSUME Uninstall(r) PROVE LabelledWhenRecorded'
  <2>1. \A q \in Requests : pc'[q] = "record" => pc[q] = "record" /\ q \in releases'
    BY <1>1, <1>12, UninstallEffect
       DEF Keeps, Alone, Goes, Ends, Fails, RecordsWhatRuns
  <2>2. \A q \in releases' : labelled'[q] = labelled[q]
    BY <1>1, <1>2, <1>12, UninstallEffect DEF TypeOK, ClusterTypeOK
  <2> QED BY <2>1, <2>2 DEF LabelledWhenRecorded
<1> QED BY <1>3, <1>4, <1>5, <1>6, <1>7, <1>8, <1>9, <1>10, <1>11, <1>12
        DEF Step, InstanceStep, BindingStep

\* Both hold from the start.
LEMMA AnswersInvInit == Init => AnswersInv
BY DEF Init, CallInit, AnswersInv, Answered, Detached, LabelledWhenRecorded

\* Every step keeps both.
LEMMA AnswersInvNext ==
  IInv /\ RecordsWhatRuns' /\ AnswersInv /\ [Next]_vars => AnswersInv'
<1> SUFFICES ASSUME IInv, RecordsWhatRuns', AnswersInv, [Next]_vars PROVE AnswersInv'
  OBVIOUS
<1>1. TypeOK BY DEF IInv
<1>2. ASSUME NEW r \in Requests, Step(r) PROVE AnswersInv'
  BY <1>2, AnsweredStep, LabelledStep DEF AnswersInv
<1>3. ASSUME NEW r \in Requests, Receive(r) PROVE AnswersInv'
  BY <1>1, <1>3, ReceiveEffect
     DEF AnswersInv, Answered, Detached, LabelledWhenRecorded, clusterVars
<1>4. ASSUME NEW k \in Brokers, Crash(k) PROVE AnswersInv'
  BY <1>1, <1>4, CrashEffect
     DEF AnswersInv, Answered, Detached, LabelledWhenRecorded, clusterVars
<1>5. CASE UNCHANGED vars
  BY <1>5 DEF AnswersInv, Answered, Detached, LabelledWhenRecorded, vars, clusterVars, callVars
<1> QED BY <1>2, <1>3, <1>4, <1>5 DEF Next, Stop

\* Unbind removes the credentials of a binding and its state.
LEMMA RemovedKeys ==
  ASSUME NEW c \in ConfigMaps, NEW b \in Bindings
  PROVE  /\ [c EXCEPT !.binding[b] = {}, !.bindState[b] = None].binding[b] = {}
         /\ [c EXCEPT !.binding[b] = {}, !.bindState[b] = None].bindState[b] = None
BY DEF ConfigMaps

\* Six API calls may be followed by "ok"; the goroutines among them have
\* nobody left to tell.
LEMMA TruthStep ==
  ASSUME IInv, RecordsWhatRuns, AnswersInv, NEW r \in Requests, Step(r),
         answer[r] = None, answer'[r] = "ok"
  PROVE  Truth(r)
<1>1. /\ TypeOK /\ pc[r] \notin {"idle", "done", "dead"}
      /\ call[r].op \in OpNames /\ Inst(r) \in Instances
  BY StepOfOne DEF IInv
<1>2. configMap \in [Instances -> ConfigMaps \cup {None}] BY <1>1 DEF TypeOK, ClusterTypeOK
<1>3. ~(\/ CreateConfigMap(r) \/ MarkInProgress(r) \/ Install(r) \/ LabelResources(r)
        \/ ReportFailure(r) \/ LookUpRelease(r) \/ Uninstall(r) \/ Acquire(r))
  BY <1>1, NoneIsNoAnswer, CreateEffect, MarkEffect, InstallEffect, LabelEffect, FailureEffect,
     LookUpEffect, UninstallEffect, AcquireEffect
     DEF Updates, Goes, Ends, Parts, Fails
<1>4. ~(\/ FindInstance(r) \/ ListServices(r) \/ ListSecrets(r) \/ StoreBinding(r)
        \/ CheckBindState(r))
  BY <1>1, NoneIsNoAnswer, FindEffect, ListServicesEffect, ListSecretsEffect, StoreEffect,
     CheckEffect
     DEF Updates, Goes, Ends, Parts
<1>5. ~ReportSuccess(r)
  BY DEF ReportSuccess, AnswersInv, Answered, Detached
<1>6. ASSUME ReportBinding(r) PROVE FALSE
  <2>1. call[r].op = "bind" /\ pc[r] \in {"succeed", "fail"} BY <1>6 DEF ReportBinding
  <2>2. ~call[r].async BY <2>1 DEF AnswersInv, Answered, Detached
  <2> QED BY <1>6, <2>2, NoneIsNoAnswer, ReportEffect DEF Updates, Goes, Ends
<1>7. ASSUME RecordRelease(r) PROVE Truth(r)
  <2>1. pc[r] = "record" /\ call[r].op = "provision" BY <1>1, <1>7, OpOfLabel DEF RecordRelease
  <2>2. r \in releases /\ labelled[r] = Resources
    BY <2>1 DEF RecordsWhatRuns, AnswersInv, LabelledWhenRecorded
  <2>3. /\ copy[r] # None /\ copy[r] = configMap[Inst(r)]
        /\ Becomes(Inst(r), [copy[r] EXCEPT !.release = r])
    BY <1>7, RecordEffect, NoneIsNoAnswer DEF Updates, Goes, Ends, Fails
  <2>4. copy[r] \in ConfigMaps BY <1>1, <2>3, CopyType
  <2>5. PICK v \in Nat : configMap'[Inst(r)] = [[copy[r] EXCEPT !.release = r] EXCEPT !.version = v]
    BY <1>1, <1>2, <2>3 DEF Becomes
  <2>6. configMap'[Inst(r)] \in ConfigMaps /\ configMap'[Inst(r)].release = r
    BY <2>4, <2>5 DEF ConfigMaps
  <2> QED BY <2>1, <2>2, <2>3, <2>6, NoneIsFresh DEF Truth, Becomes
<1>8. ASSUME DeleteConfigMap(r) PROVE Truth(r)
  <2>1. pc[r] = "delete" /\ call[r].op = "deprovision"
    BY <1>1, <1>8, OpOfLabel DEF DeleteConfigMap
  <2>2. configMap'[Inst(r)] = None /\ releases' = releases /\ call' = call
    BY <1>1, <1>2, <1>8, DeleteEffect, NoneIsNoAnswer DEF Goes, Ends, Fails, Keeps, Alone
  <2>3. ASSUME NEW q \in releases, Inst(q) = Inst(r) PROVE FALSE
    <3>1. q \in Requests /\ configMap[Inst(r)] # None /\ configMap[Inst(r)].uid = q
      BY <1>1, <2>3 DEF IInv, NoOrphanRelease, TypeOK, ClusterTypeOK
    <3>2. target[r] = q
      BY <1>1, <2>1, <3>1 DEF IInv, DeleterIsAlone, ConfigMapHasCreator
    <3> QED BY <2>1, <2>3, <3>2 DEF IInv, DeleterIsAlone
  <2> QED BY <2>1, <2>2, <2>3 DEF Truth
<1>9. ASSUME FetchBinding(r) PROVE Truth(r)
  <2>1. call[r].op = "bind" BY <1>1, <1>9, OpOfLabel DEF FetchBinding
  <2>2. /\ GetBinding(Inst(r), Binding(r)) # {}
        /\ creds'[r] = GetBinding(Inst(r), Binding(r))
        /\ configMap' = configMap /\ call' = call
    BY <1>1, <1>9, FetchEffect, NoneIsNoAnswer DEF Ends, Alone, clusterVars
  <2> QED BY <2>1, <2>2 DEF Truth, GetBinding, Inst, Binding
<1>10. ASSUME RemoveBinding(r) PROVE Truth(r)
  <2> DEFINE new == [copy[r] EXCEPT !.binding[Binding(r)] = {}, !.bindState[Binding(r)] = None]
  <2>1. call[r].op = "unbind" /\ Binding(r) \in Bindings
    BY <1>1, <1>10, OpOfLabel, CallFields DEF RemoveBinding
  <2>2. /\ copy[r] # None /\ call' = call
        /\ Becomes(Inst(r), new)
    BY <1>10, RemoveEffect, NoneIsNoAnswer DEF Updates, Goes, Ends, Alone
  <2>3. copy[r] \in ConfigMaps BY <1>1, <2>2, CopyType
  <2>4. new.binding[Binding(r)] = {} /\ new.bindState[Binding(r)] = None /\ new \in ConfigMaps
    <3>1. new \in ConfigMaps BY <2>1, <2>3, RemovalChange
    <3>2. new.binding[Binding(r)] = {} /\ new.bindState[Binding(r)] = None
      BY <2>1, <2>3, RemovedKeys
    <3> QED BY <3>1, <3>2
  <2>5. PICK v \in Nat : configMap'[Inst(r)] = [new EXCEPT !.version = v]
    BY <1>1, <1>2, <2>2 DEF Becomes
  <2>6. /\ configMap'[Inst(r)].binding[Binding(r)] = {}
        /\ configMap'[Inst(r)].bindState[Binding(r)] = None
    <3> HIDE DEF new
    <3> QED BY <2>4, <2>5 DEF ConfigMaps
  <2> QED BY <2>1, <2>2, <2>6 DEF Truth, GetBinding, LastBindingOperationState, Inst, Binding
<1> QED BY <1>3, <1>4, <1>5, <1>6, <1>7, <1>8, <1>9, <1>10 DEF Step, InstanceStep, BindingStep

\* Only a step of the request itself answers it.
LEMMA TruthNext ==
  ASSUME IInv, RecordsWhatRuns, AnswersInv, [Next]_vars, NEW r \in Requests,
         answer[r] = None, answer'[r] = "ok"
  PROVE  Truth(r)
<1>1. TypeOK BY DEF IInv
<1>2. None # "ok" BY NoneIsNoAnswer
<1>3. ASSUME NEW q \in Requests, Step(q), q # r PROVE FALSE
  BY <1>2, <1>3, StepOfOne DEF Alone
<1>4. ASSUME NEW q \in Requests, Receive(q) PROVE FALSE
  BY <1>1, <1>2, <1>4, ReceiveEffect
<1>5. ASSUME NEW k \in Brokers, Crash(k) PROVE FALSE
  BY <1>1, <1>2, <1>5, CrashEffect
<1>6. CASE UNCHANGED vars BY <1>2, <1>6 DEF vars, callVars
<1> QED BY <1>3, <1>4, <1>5, <1>6, TruthStep DEF Next, Stop

\* A positive answer is true when it is given, whatever overlaps, fails or
\* crashes.
THEOREM PositiveAnswersAreTrue == Spec => AnswersAreTrue
<1>1. Init => AnswersInv BY AnswersInvInit
<1>2. IInv /\ RecordsWhatRuns' /\ AnswersInv /\ [Next]_vars => AnswersInv'
  BY AnswersInvNext
<1>3. IInv /\ RecordsWhatRuns /\ AnswersInv /\ [Next]_vars =>
         \A r \in Requests : answer[r] = None /\ answer'[r] = "ok" => Truth(r)
  BY TruthNext
<1> QED BY <1>1, <1>2, <1>3, Invariance, RecordedReleasesRan, PTL
        DEF Spec, AnswersAreTrue

-----------------------------------------------------------------------------
(* The end of "in progress" *)

\* No call on instance i is a bind or an unbind.
InstanceCallsOnly(i) ==
    \A r \in Requests : pc[r] # "idle" /\ Inst(r) = i =>
        call[r].op \in {"provision", "deprovision"}

\* Request r will still write a state into the ConfigMap of instance i, or
\* delete it, and the copy it may have read is not out of date.
Reporter(r, i) ==
    /\ Inst(r) = i
    /\ pc[r] \in {"install", "label", "record", "succeed", "uninstall", "delete", "fail"}
    /\ copy[r] \in {None, configMap[i]}

InProgress(i) == configMap[i] # None /\ configMap[i].opState = "in progress"

\* While an instance reads "in progress", somebody is about to report.
SomebodyReports ==
    \A i \in Instances : InstanceCallsOnly(i) /\ InProgress(i) =>
        \E r \in Requests : Reporter(r, i)

\* All of its calls are asynchronous.
AllAsync ==
    \A r \in Requests : pc[r] # "idle" /\ call[r].op # "unbind" => call[r].async = TRUE

ReportsInv == AllAsync /\ SomebodyReports

\* What the step of a request does to its own instance, when that has only
\* calls of Provision and Deprovision.
LEMMA ReporterStep ==
  ASSUME IInv, AllAsync, "kube" \notin Faults, NEW r \in Requests, Step(r),
         NEW i \in Instances, Inst(r) = i, call[r].op \in {"provision", "deprovision"}
  PROVE  \/ configMap' = configMap /\ (Reporter(r, i) => Reporter(r, i)')
         \/ Reporter(r, i)'
         \/ ~InProgress(i)'
<1>1. /\ TypeOK /\ Inst(r) \in Instances /\ Inst(r)' = i /\ call[r].async = TRUE
      /\ configMap \in [Instances -> ConfigMaps \cup {None}]
  BY StepOfOne DEF IInv, AllAsync, Alone, TypeOK, ClusterTypeOK, Inst
<1> DEFINE Kept == configMap' = configMap /\ (Reporter(r, i) => Reporter(r, i)')
           Done == Kept \/ Reporter(r, i)' \/ ~InProgress(i)'
<1>2. InstanceStep(r) \/ Acquire(r)
  BY <1>1, OpOfLabel
     DEF Step, BindingStep, FindInstance, ListServices, ListSecrets, StoreBinding,
         ReportBinding, CheckBindState, FetchBinding, RemoveBinding
<1>3. ASSUME CreateConfigMap(r) PROVE Done
  <2>1. NewConfigMap(r).opState # "in progress" BY NoneIsNoState DEF NewConfigMap
  <2>2. configMap' = configMap \/ configMap'[i] = NewConfigMap(r)
    BY <1>1, <1>3, CreateEffect DEF clusterVars
  <2>3. ~Reporter(r, i) BY <1>3 DEF CreateConfigMap, Reporter
  <2> QED BY <2>1, <2>2, <2>3 DEF InProgress
<1>4. LookUpRelease(r) \/ Acquire(r) => Done
  BY <1>1, LookUpEffect, AcquireEffect
     DEF LookUpRelease, Acquire, Reporter, clusterVars
<1>5. Install(r) \/ LabelResources(r) => Done
  BY <1>1, InstallEffect, LabelEffect DEF Keeps, Goes, Fails, Reporter
<1>6. Uninstall(r) => Done
  BY <1>1, UninstallEffect DEF Keeps, Goes, Fails, Reporter, Uninstall
<1>7. ASSUME DeleteConfigMap(r) PROVE Done
  <2>1. CASE configMap'[i] = None BY <2>1 DEF InProgress
  <2>2. CASE configMap' = configMap
    BY <1>1, <1>7, <2>2, DeleteEffect DEF Keeps, Goes, Fails, Reporter, DeleteConfigMap
  <2> QED BY <1>1, <1>7, <2>1, <2>2, DeleteEffect
<1>8. CASE configMap[i] = None
  BY <1>1, <1>8, MarkEffect, RecordEffect, SuccessEffect, FailureEffect, <1>2, <1>3, <1>4, <1>5, <1>6, <1>7
     DEF InstanceStep, Updates, clusterVars, InProgress
<1>9. ASSUME configMap[i] # None, MarkInProgress(r) PROVE Done
  <2>1. pc[r] = "mark" /\ ~Reporter(r, i) BY <1>9 DEF MarkInProgress, Reporter
  <2>2. \/ configMap' = configMap
        \/ /\ copy'[r] = None
           /\ Parts(r, IF call[r].op = "provision" THEN "install" ELSE "uninstall")
    BY <1>1, <1>9, MarkEffect DEF Updates, clusterVars
  <2> QED BY <1>1, <2>1, <2>2 DEF Parts, Reporter
<1>10. ASSUME configMap[i] # None, RecordRelease(r) PROVE Done
  <2>1. \/ configMap' = configMap /\ copy'[r] = configMap[i] /\ Goes(r, pc[r])
        \/ copy'[r] = None /\ (Goes(r, "succeed") \/ Goes(r, "fail"))
    BY <1>1, <1>10, RecordEffect DEF Updates, clusterVars, Fails
  <2> QED BY <1>1, <1>10, <2>1 DEF Goes, Reporter, RecordRelease
<1>11. ASSUME configMap[i] # None, NEW s \in {"succeeded", "failed"},
              Updates(r, [copy[r] EXCEPT !.opState = s], Ends(r, IF s = "succeeded" THEN "ok" ELSE "error"), Ends(r, "error")),
              pc[r] \in {"succeed", "fail"}
       PROVE  Done
  <2>1. \/ configMap' = configMap /\ copy'[r] = configMap[i] /\ Goes(r, pc[r])
        \/ configMap' = configMap /\ copy[r] # None /\ copy[r] # configMap[i]
        \/ copy[r] # None /\ Becomes(i, [copy[r] EXCEPT !.opState = s])
    BY <1>1, <1>11 DEF Updates, clusterVars, Current
  <2>2. CASE copy[r] # None /\ Becomes(i, [copy[r] EXCEPT !.opState = s])
    <3>1. copy[r] \in ConfigMaps BY <1>1, <2>2, CopyType
    <3>2. PICK v \in Nat : configMap'[i] = [[copy[r] EXCEPT !.opState = s] EXCEPT !.version = v]
      BY <1>1, <2>2 DEF Becomes
    <3>3. configMap'[i].opState = s BY <3>1, <3>2 DEF ConfigMaps
    <3> QED BY <3>3 DEF InProgress
  <2> QED BY <1>1, <1>11, <2>1, <2>2 DEF Goes, Reporter
<1>12. ASSUME configMap[i] # None, ReportSuccess(r) \/ ReportFailure(r) PROVE Done
  BY <1>11, <1>12, SuccessEffect, FailureEffect DEF ReportSuccess, ReportFailure
<1> QED
  BY <1>2, <1>3, <1>4, <1>5, <1>6, <1>7, <1>8, <1>9, <1>10, <1>12 DEF InstanceStep

\* Steps on other instances leave a reporter where it is.
LEMMA ReportsStep ==
  ASSUME IInv, AllAsync, SomebodyReports, "kube" \notin Faults, NEW r \in Requests, Step(r)
  PROVE  SomebodyReports'
<1>1. /\ TypeOK /\ Alone(r) /\ pc[r] # "idle" /\ pc'[r] # "idle" /\ Inst(r) \in Instances
      /\ \A j \in Instances \ {Inst(r)} : configMap'[j] = configMap[j]
  BY StepOfOne DEF IInv
<1>2. /\ call' = call /\ \A q \in Requests : Inst(q)' = Inst(q)
      /\ \A q \in Requests \ {r} : pc'[q] = pc[q] /\ copy'[q] = copy[q]
  BY <1>1 DEF Alone, Inst
<1> SUFFICES ASSUME NEW i \in Instances, InstanceCallsOnly(i)', InProgress(i)'
             PROVE  \E q \in Requests : Reporter(q, i)'
  BY DEF SomebodyReports
<1>3. InstanceCallsOnly(i) BY <1>1, <1>2 DEF InstanceCallsOnly
<1>4. ASSUME NEW q \in Requests \ {r}, Reporter(q, i), configMap'[i] = configMap[i]
      PROVE  Reporter(q, i)'
  BY <1>2, <1>4 DEF Reporter
<1>5. configMap'[i] = configMap[i] => \E q \in Requests : Reporter(q, i)
  BY <1>3 DEF SomebodyReports, InProgress
<1>6. CASE Inst(r) # i
  <2>1. configMap'[i] = configMap[i] /\ ~Reporter(r, i) BY <1>1, <1>6 DEF Reporter
  <2> QED BY <2>1, <1>4, <1>5
<1>7. CASE Inst(r) = i
  <2>1. call[r].op \in {"provision", "deprovision"} BY <1>1, <1>3, <1>7 DEF InstanceCallsOnly
  <2>2. \/ configMap' = configMap /\ (Reporter(r, i) => Reporter(r, i)')
        \/ Reporter(r, i)'
    BY <2>1, <1>7, ReporterStep
  <2> QED BY <2>2, <1>4, <1>5
<1> QED BY <1>6, <1>7

\* So do arrivals; without crashes and with asynchronous calls only, that is all.
LEMMA ReportsNext ==
  ASSUME Faults \cap {"kube", "crash"} = {}, Modes \subseteq {TRUE},
         IInv, ReportsInv, [Next]_vars
  PROVE  ReportsInv'
<1>1. TypeOK BY DEF IInv
<1>2. ASSUME NEW r \in Requests, Step(r) PROVE ReportsInv'
  <2>1. AllAsync'
    BY <1>2, StepOfOne DEF ReportsInv, AllAsync, Alone
  <2> QED BY <1>2, <2>1, ReportsStep DEF ReportsInv
<1>3. ASSUME NEW r \in Requests, Receive(r) PROVE ReportsInv'
  <2>1. /\ UNCHANGED <<copy, clusterVars>> /\ pc[r] = "idle"
        /\ \A q \in Requests \ {r} : pc'[q] = pc[q] /\ call'[q] = call[q]
        /\ pc'[r] \in {"lock", "remove"}
        /\ call'[r].async \in Modes \/ call'[r].op = "unbind"
    BY <1>1, <1>3, ReceiveEffect
  <2>2. AllAsync' BY <2>1 DEF ReportsInv, AllAsync
  <2>3. ASSUME NEW i \in Instances, InstanceCallsOnly(i)', InProgress(i)'
        PROVE  \E q \in Requests : Reporter(q, i)'
    <3>1. InstanceCallsOnly(i)
      BY <2>1, <2>3 DEF InstanceCallsOnly, Inst
    <3>2. PICK q \in Requests : Reporter(q, i)
      BY <2>1, <2>3, <3>1 DEF ReportsInv, SomebodyReports, InProgress, clusterVars
    <3>3. q # r BY <2>1, <3>2 DEF Reporter
    <3> QED BY <2>1, <3>2, <3>3 DEF Reporter, Inst, clusterVars
  <2> QED BY <2>2, <2>3 DEF ReportsInv, SomebodyReports
<1>4. ASSUME NEW k \in Brokers PROVE ~Crash(k) BY DEF Crash
<1>5. CASE UNCHANGED vars
  BY <1>5 DEF ReportsInv, AllAsync, SomebodyReports, InstanceCallsOnly, InProgress, Reporter,
     Inst, vars, clusterVars, callVars
<1> QED BY <1>2, <1>3, <1>4, <1>5 DEF Next, Stop

\* When the API server never fails, no process dies and calls are asynchronous,
\* an instance whose calls are over does not read "in progress": whichever
\* Provisions and Deprovisions of it overlapped, and whatever Helm did.
THEOREM InProgressEnds ==
  ASSUME Faults \cap {"kube", "crash"} = {}, Modes \subseteq {TRUE}
  PROVE  Spec => []NothingLeftInProgress
<1>1. Init => ReportsInv
  BY DEF Init, ClusterInit, CallInit, ReportsInv, AllAsync, SomebodyReports, InProgress
<1>2. IInv /\ ReportsInv /\ [Next]_vars => ReportsInv' BY ReportsNext
<1>3. IInv /\ ReportsInv => NothingLeftInProgress
  <2> SUFFICES ASSUME IInv, ReportsInv, NEW i \in Instances, NEW r \in Requests \cup {None},
                      \A q \in Requests : call[q] # None /\ Inst(q) = i =>
                         ~Live(q) /\ call[q].op \in {"provision", "deprovision"},
                      LastOperationState(i, r) = "in progress"
               PROVE  FALSE
    BY DEF NothingLeftInProgress
  <2>1. \A q \in Requests : pc[q] # "idle" => call[q] # None
    BY CallFields, NoneIsNoCall DEF IInv
  <2>2. InProgress(i) /\ InstanceCallsOnly(i)
    BY <2>1, NoneIsNoState DEF LastOperationState, InProgress, InstanceCallsOnly
  <2>3. PICK q \in Requests : Reporter(q, i) BY <2>2 DEF ReportsInv, SomebodyReports
  <2> QED BY <2>1, <2>3 DEF Reporter, Live
<1> QED BY <1>1, <1>2, <1>3, Invariance, PTL DEF Spec
=============================================================================
