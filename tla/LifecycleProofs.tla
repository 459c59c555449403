-------------------------- MODULE LifecycleProofs --------------------------
(***************************************************************************)
(* More about Minibroker for every value of its constants: it implements   *)
(* InstanceLifecycle, an instance that is stuck stays stuck, updates never *)
(* undo each other, and credentials stay with their own instance.          *)
(*                                                                         *)
(* Each step is first sorted into one of six kinds by what it does to      *)
(* ConfigMaps and releases; every property is then proved kind by kind.    *)
(***************************************************************************)
EXTENDS MinibrokerProofs

-----------------------------------------------------------------------------
(* The kinds of steps *)

\* What a step does to the control of a request that neither installs, removes
\* nor creates in it.
Proceeds(q) ==
    /\ pc[q] # "idle" => pc'[q] # "idle" /\ Inst(q)' = Inst(q)
    /\ Provisioning(q)' => Provisioning(q)
    /\ pc'[q] = "delete" => pc[q] = "delete"
    /\ pc'[q] \in {"label", "record"} => pc[q] \in {"label", "record"}

Others(r) == \A q \in Requests \ {r} : Proceeds(q)

\* A call arrives, a process ends, or nothing happens.
Still ==
    /\ UNCHANGED <<configMap, releases, creds>>
    /\ \A q \in Requests : Proceeds(q)

\* The step of request r past its lock, in whatever kind it is.
Acts(r) ==
    /\ pc[r] # "idle" /\ pc'[r] # "idle" /\ Inst(r) \in Instances /\ Inst(r)' = Inst(r)
    /\ Others(r) /\ UNCHANGED creds

Reserves(r) ==
    /\ Acts(r) /\ pc'[r] \notin {"delete", "label", "record"}
    /\ configMap[Inst(r)] = None /\ r \notin releases
    /\ configMap' = [configMap EXCEPT ![Inst(r)] = NewConfigMap(r)]
    /\ UNCHANGED releases

Installs(r) ==
    /\ Acts(r) /\ pc'[r] # "delete" /\ Provisioning(r)
    /\ r \notin releases /\ releases' = releases \cup {r}
    /\ UNCHANGED configMap

Removes(r) ==
    /\ Acts(r) /\ ~Provisioning(r)' /\ pc'[r] \notin {"label", "record"}
    /\ configMap[Inst(r)] # None /\ configMap[Inst(r)].release = target[r]
    /\ target[r] \in releases /\ releases' = releases \ {target[r]}
    /\ UNCHANGED configMap

Deletes(r) ==
    /\ Acts(r) /\ pc[r] = "delete" /\ Proceeds(r)
    /\ configMap[Inst(r)] # None
    /\ configMap' = [configMap EXCEPT ![Inst(r)] = None]
    /\ UNCHANGED releases

\* Past the lock, a step of r that follows the flow of r is r's alone.
LEMMA FlowActs ==
  ASSUME IInv, NEW r \in Requests, pc[r] # "idle",
         NEW l \in Labels \ {"idle"}, Flow(r, l), UNCHANGED creds
  PROVE  Acts(r) /\ pc'[r] = l
<1>1. Inst(r) \in Instances BY CallFields DEF IInv
<1>2. /\ pc'[r] = l /\ \A q \in Requests : q # r => pc'[q] = pc[q]
      /\ call' = call
  BY DEF Flow, IInv, TypeOK, CallTypeOK
<1> QED BY <1>1, <1>2 DEF Acts, Others, Proceeds, Inst, Provisioning

\* Create fails, or reserves the instance.
LEMMA CreateKind ==
  ASSUME IInv, NEW r \in Requests, CreateConfigMap(r)
  PROVE  Steady(r) \/ Reserves(r)
<1>1. /\ TypeOK /\ pc[r] = "create" /\ pc[r] # "idle"
      /\ call[r].op = "provision" /\ Inst(r) \in Instances
  BY OpOfLabel, CallFields DEF CreateConfigMap, IInv
<1>2. UNCHANGED <<call, copy, target, creds>> BY DEF CreateConfigMap
<1>3. CASE (Finish(r, "error") \/ Finish(r, "conflict")) /\ UNCHANGED clusterVars
  <2>1. Flow(r, "done") /\ Onward(r, "done")
    BY <1>1, <1>2, <1>3, FinishFlow DEF Answers, Onward, Labels, Installed
  <2>2. UNCHANGED <<configMap, revision, releases, copy>> /\ UNCHANGED target
    BY <1>2, <1>3 DEF clusterVars
  <2> QED BY <1>1, <1>2, <2>1, <2>2, SameCreds, LocalSteady
<1>4. CASE /\ configMap[Inst(r)] = None
           /\ Store(Inst(r), NewConfigMap(r))
           /\ \E l \in {"mark", "install", "done"} : Flow(r, l)
  <2>1. PICK l \in {"mark", "install", "done"} : Flow(r, l) BY <1>4
  <2>2. {"mark", "install", "done"} \subseteq Labels \ {"idle"}
    BY DEF Labels, LabelsOf, OpNames
  <2>3. Acts(r) /\ pc'[r] \notin {"delete", "label", "record"}
    BY <1>1, <1>2, <2>1, <2>2, FlowActs
  <2>4. r \notin releases BY <1>1 DEF IInv, CreatorIsAlone
  <2> QED BY <1>4, <2>3, <2>4 DEF Reserves, Store
<1>5. Store(Inst(r), NewConfigMap(r)) /\ Finish(r, "error") => Flow(r, "done")
  BY <1>1, <1>2, FinishFlow DEF Answers
<1>6. \A l \in {"mark", "install"} : Goto(r, l) => Flow(r, l)
  BY <1>1, <1>2, GotoFlow
<1> QED BY <1>3, <1>4, <1>5, <1>6 DEF CreateConfigMap

\* Helm's install fails without a trace, or installs the release.
LEMMA InstallKind ==
  ASSUME IInv, NEW r \in Requests, Install(r)
  PROVE  Steady(r) \/ Installs(r)
<1>1. /\ TypeOK /\ pc[r] = "install" /\ pc[r] # "idle"
      /\ call[r].op = "provision" /\ Inst(r) \in Instances
  BY OpOfLabel, CallFields DEF Install, IInv
<1>2. UNCHANGED <<call, copy, target, creds>> BY DEF Install
<1>3. CASE UNCHANGED clusterVars /\ OperationFailed(r)
  <2>1. UNCHANGED <<configMap, revision, releases, copy>> /\ UNCHANGED target
    BY <1>2, <1>3 DEF clusterVars
  <2>2. PICK m \in {"fail", "done"} : Flow(r, m) BY <1>1, <1>2, <1>3, FailedFlow
  <2>3. Onward(r, m)
    BY <1>1, <2>2 DEF Onward, Labels, LabelsOf, OpNames, Provisioning, Installed
  <2> QED BY <1>1, <1>2, <2>1, <2>2, <2>3, SameCreds, LocalSteady
<1>4. CASE AddRelease(r)
  <2>1. PICK l \in {"label", "fail", "done"} : Flow(r, l)
    BY <1>1, <1>2, GotoFlow, FailedFlow DEF Install
  <2>2. {"label", "fail", "done"} \subseteq Labels \ {"idle"}
    BY DEF Labels, LabelsOf, OpNames
  <2>3. Acts(r) /\ pc'[r] # "delete" BY <1>1, <1>2, <2>1, <2>2, FlowActs
  <2>4. r \notin releases BY <1>1 DEF IInv, CreatorIsAlone
  <2>5. Provisioning(r) BY <1>1 DEF Provisioning
  <2> QED BY <1>4, <2>3, <2>4, <2>5 DEF Installs, AddRelease
<1> QED BY <1>3, <1>4 DEF Install

\* Helm's uninstall fails without a trace, or removes the recorded release.
LEMMA UninstallKind ==
  ASSUME IInv, NEW r \in Requests, Uninstall(r)
  PROVE  Steady(r) \/ Removes(r)
<1>1. /\ TypeOK /\ pc[r] = "uninstall" /\ pc[r] # "idle"
      /\ call[r].op = "deprovision" /\ Inst(r) \in Instances
  BY OpOfLabel, CallFields DEF Uninstall, IInv
<1>2. UNCHANGED <<call, copy, target, creds>> BY DEF Uninstall
<1>3. {"delete", "fail", "done"} \subseteq Labels \ {"idle"}
  BY DEF Labels, LabelsOf, OpNames
<1>4. CASE UNCHANGED clusterVars /\ OperationFailed(r)
  <2>1. PICK l \in {"fail", "done"} : Flow(r, l) BY <1>1, <1>2, <1>4, FailedFlow
  <2>2. Onward(r, l) BY <1>1, <2>1 DEF Onward, Labels, LabelsOf, OpNames
  <2>3. UNCHANGED <<configMap, revision, releases, copy>> /\ UNCHANGED target
    BY <1>2, <1>4 DEF clusterVars
  <2> QED BY <1>1, <1>2, <2>1, <2>2, <2>3, SameCreds, LocalSteady
<1>5. CASE target[r] \in releases /\ DropRelease(target[r])
  <2>1. PICK l \in {"delete", "fail", "done"} : Flow(r, l)
    BY <1>1, <1>2, GotoFlow, FailedFlow DEF Uninstall
  <2>2. Acts(r) /\ pc'[r] = l BY <1>1, <1>2, <1>3, <2>1, FlowActs
  <2>3. ~Provisioning(r)' /\ pc'[r] \notin {"label", "record"}
    BY <2>1, <2>2 DEF Provisioning
  <2>4. configMap[Inst(r)] # None /\ configMap[Inst(r)].release = target[r]
    <3>1. target[r] \in Requests /\ target[r] # None
      BY <1>1, <1>5, NoneIsFresh DEF TypeOK, ClusterTypeOK
    <3>2. Inst(target[r]) = Inst(r)
      BY <3>1 DEF IInv, TargetIsRecorded
    <3>3. configMap[Inst(r)] # None /\ configMap[Inst(r)].uid = target[r]
      BY <3>2, <1>5 DEF IInv, NoOrphanRelease
    <3> QED BY <3>1, <3>3 DEF IInv, TargetIsRecorded
  <2> QED BY <1>5, <2>2, <2>3, <2>4 DEF Removes, DropRelease
<1> QED BY <1>4, <1>5 DEF Uninstall

\* Delete fails, or frees the instance.
LEMMA DeleteKind ==
  ASSUME IInv, NEW r \in Requests, DeleteConfigMap(r)
  PROVE  Steady(r) \/ Deletes(r)
<1>1. /\ TypeOK /\ pc[r] = "delete" /\ pc[r] # "idle"
      /\ call[r].op = "deprovision" /\ Inst(r) \in Instances
  BY OpOfLabel, CallFields DEF DeleteConfigMap, IInv
<1>2. UNCHANGED <<call, copy, target, creds>> BY DEF DeleteConfigMap
<1>3. PICK l \in {"fail", "done"} : Flow(r, l)
  BY <1>1, <1>2, FinishFlow, FailedFlow DEF DeleteConfigMap, Answers
<1>4. l \in Labels \ {"idle"} /\ Onward(r, l)
  BY <1>1, <1>3 DEF Labels, LabelsOf, OpNames, Onward
<1>5. CASE UNCHANGED clusterVars
  <2>1. UNCHANGED <<configMap, revision, releases, copy>> /\ UNCHANGED target
    BY <1>2, <1>5 DEF clusterVars
  <2> QED BY <1>1, <1>2, <1>3, <1>4, <2>1, SameCreds, LocalSteady
<1>6. CASE configMap[Inst(r)] # None /\ Remove(Inst(r))
  <2>1. Acts(r) /\ pc'[r] = l BY <1>1, <1>2, <1>3, <1>4, FlowActs
  <2>2. Proceeds(r) BY <1>1, <1>3, <2>1 DEF Acts, Proceeds, Provisioning
  <2> QED BY <1>1, <1>6, <2>1, <2>2 DEF Deletes, Remove
<1> QED BY <1>5, <1>6 DEF DeleteConfigMap

\* A step of the specification is one of these kinds, or steady.
LEMMA Kinds ==
  ASSUME IInv, [Next]_vars
  PROVE  \/ Still
         \/ \E r \in Requests :
               Steady(r) \/ Reserves(r) \/ Installs(r) \/ Removes(r) \/ Deletes(r)
<1>1. ASSUME NEW r \in Requests, Receive(r) PROVE Still
  <2>1. /\ pc[r] = "idle" /\ pc'[r] \in {"lock", "remove"}
        /\ \A q \in Requests : q # r => pc'[q] = pc[q] /\ call'[q] = call[q]
    BY <1>1 DEF Receive, IInv, TypeOK, CallTypeOK
  <2>2. UNCHANGED <<configMap, releases, creds>> BY <1>1 DEF Receive, clusterVars
  <2> QED BY <2>1, <2>2 DEF Still, Proceeds, Inst, Provisioning
<1>2. ASSUME NEW r \in Requests, InstanceStep(r)
      PROVE  Steady(r) \/ Reserves(r) \/ Installs(r) \/ Removes(r) \/ Deletes(r)
  BY <1>2, CreateKind, InstallKind, UninstallKind, DeleteKind, MarkSteady, LabelSteady,
     RecordSteady, SuccessSteady, FailureSteady, LookUpSteady DEF InstanceStep
<1>3. ASSUME NEW r \in Requests, BindingStep(r) PROVE Steady(r)
  BY <1>3, FindSteady, ListServicesSteady, ListSecretsSteady, StoreSteady,
     ReportBindingSteady, CheckSteady, FetchSteady, RemoveSteady DEF BindingStep
<1>4. ASSUME NEW k \in Brokers, Crash(k) PROVE Still
  <2>1. /\ \A q \in Requests : pc'[q] = pc[q] \/ (Live(q) /\ pc'[q] = "dead")
        /\ UNCHANGED <<call, configMap, releases, creds>>
    BY <1>4 DEF Crash, clusterVars
  <2> QED BY <2>1 DEF Still, Proceeds, Inst, Provisioning
<1>5. ASSUME UNCHANGED vars PROVE Still
  BY <1>5 DEF vars, clusterVars, callVars, Still, Proceeds, Inst, Provisioning
<1> QED BY <1>1, <1>2, <1>3, <1>4, <1>5, AcquireSteady DEF Next, Step, Stop

\* A steady step moves its own request and nothing else's.
LEMMA SteadyProceeds ==
  ASSUME IInv, NEW r \in Requests, Steady(r)
  PROVE  /\ pc[r] # "idle" /\ Inst(r) \in Instances
         /\ \A q \in Requests : Proceeds(q)
<1>1. pc[r] # "idle" /\ Inst(r) \in Instances
  BY CallFields DEF Steady, Forward, IInv
<1>2. /\ pc'[r] # "idle" /\ call' = call
      /\ \A q \in Requests : q # r => pc'[q] = pc[q]
  BY DEF Steady, Forward, IInv, TypeOK, CallTypeOK
<1> QED BY <1>1, <1>2 DEF Steady, Proceeds, Inst, Provisioning

\* What a ConfigMap says of its creator.
LEMMA Creator ==
  ASSUME IInv, NEW i \in Instances, configMap[i] # None
  PROVE  /\ configMap[i].uid \in Requests /\ configMap[i].uid # None
         /\ Arrived(configMap[i].uid) /\ Inst(configMap[i].uid) = i
         /\ configMap[i].release \in {None, configMap[i].uid}
<1>1. configMap[i].uid \in Requests
  BY DEF IInv, TypeOK, ClusterTypeOK, ConfigMaps
<1> QED BY <1>1, NoneIsFresh DEF IInv, ConfigMapHasCreator

-----------------------------------------------------------------------------
(* Records *)

\* A provision that labels or records has its release in the cluster.
RecordsWhatRuns == \A r \in Requests : pc[r] \in {"label", "record"} => r \in releases

\* Every kind of step keeps that: nobody removes a release before its record.
LEMMA RecordsNext == IInv /\ RecordsWhatRuns /\ [Next]_vars => RecordsWhatRuns'
<1> SUFFICES ASSUME IInv, RecordsWhatRuns, [Next]_vars,
                    NEW q \in Requests, pc'[q] \in {"label", "record"}
             PROVE  q \in releases'
  BY DEF RecordsWhatRuns
<1>1. CASE Still
  BY <1>1 DEF Still, Proceeds, RecordsWhatRuns
<1>2. ASSUME NEW r \in Requests, Steady(r) PROVE q \in releases'
  BY <1>2, SteadyProceeds DEF Steady, Proceeds, RecordsWhatRuns
<1>3. ASSUME NEW r \in Requests, Reserves(r) PROVE q \in releases'
  BY <1>3 DEF Reserves, Acts, Others, Proceeds, RecordsWhatRuns
<1>4. ASSUME NEW r \in Requests, Installs(r) PROVE q \in releases'
  BY <1>4 DEF Installs, Acts, Others, Proceeds, RecordsWhatRuns
<1>5. ASSUME NEW r \in Requests, Removes(r) PROVE q \in releases'
  <2>1. q # r /\ pc[q] \in {"label", "record"}
    BY <1>5 DEF Removes, Acts, Others, Proceeds
  <2>2. q # target[r]
    <3>1. pc[q] # "idle" /\ call[q].op = "provision" BY <2>1, OpOfLabel DEF IInv
    <3>2. configMap[Inst(q)].release = None
      BY <2>1, <3>1 DEF IInv, CreatorIsAlone, Provisioning
    <3>3. Inst(r) \in Instances /\ configMap[Inst(r)] # None
          /\ configMap[Inst(r)].release = target[r]
      BY <1>5 DEF Removes, Acts
    <3>4. target[r] \in Requests /\ target[r] # None
      BY <1>5, NoneIsFresh DEF Removes, IInv, TypeOK, ClusterTypeOK
    <3>5. Inst(target[r]) = Inst(r) BY <3>4 DEF IInv, TargetIsRecorded
    <3> QED BY <3>2, <3>3, <3>4, <3>5
  <2> QED BY <1>5, <2>1, <2>2 DEF Removes, RecordsWhatRuns
<1>6. ASSUME NEW r \in Requests, Deletes(r) PROVE q \in releases'
  BY <1>6 DEF Deletes, Acts, Others, Proceeds, RecordsWhatRuns
<1> QED BY <1>1, <1>2, <1>3, <1>4, <1>5, <1>6, Kinds

\* No release is gone before its provision has recorded it.
THEOREM RecordedReleasesRan == Spec => []RecordsWhatRuns
<1>1. Init => RecordsWhatRuns BY DEF Init, CallInit, RecordsWhatRuns
<1>2. IInv /\ RecordsWhatRuns /\ [Next]_vars => RecordsWhatRuns' BY RecordsNext
<1> QED BY <1>1, <1>2, Invariance, PTL DEF Spec

-----------------------------------------------------------------------------
(* Updates never undo each other. *)

\* What NoLostUpdate says of one step.
Preserves(i) ==
    configMap[i] # None /\ configMap'[i] # None =>
       /\ configMap'[i].uid = configMap[i].uid
       /\ configMap[i].release # None => configMap'[i].release = configMap[i].release
       /\ \A b \in Bindings :
              configMap'[i].binding[b] # configMap[i].binding[b] =>
                 \E r \in Requests :
                    /\ pc[r] \in {"store", "remove"} /\ pc'[r] # pc[r]
                    /\ Inst(r) = i /\ Binding(r) = b

\* Every kind of step preserves what it does not write itself.
LEMMA StepPreserves ==
  ASSUME IInv, [Next]_vars, NEW i \in Instances
  PROVE  Preserves(i)
<1>1. CASE configMap'[i] = configMap[i]
  BY <1>1 DEF Preserves
<1>2. ASSUME NEW r \in Requests, Steady(r) PROVE Preserves(i)
  <2>1. Inst(r) \in Instances BY <1>2, SteadyProceeds
  <2>2. configMap[i] # None =>
           /\ configMap'[i].uid = configMap[i].uid
           /\ \/ configMap'[i].release = configMap[i].release
              \/ i = Inst(r) /\ Provisioning(r)
           /\ \A b \in Bindings :
                 \/ configMap'[i].binding[b] = configMap[i].binding[b]
                 \/ i = Inst(r) /\ pc'[r] # pc[r] /\ Binds(r, b, configMap'[i].binding[b])
    BY <1>2, <2>1, SteadyConfigMaps
  <2>3. Provisioning(r) => configMap[Inst(r)].release = None
    BY DEF IInv, CreatorIsAlone
  <2> QED BY <2>2, <2>3 DEF Preserves, Binds
<1>3. ASSUME NEW r \in Requests, Reserves(r) PROVE Preserves(i)
  BY <1>3 DEF Reserves, Preserves, IInv, TypeOK, ClusterTypeOK
<1>4. ASSUME NEW r \in Requests, Deletes(r) PROVE Preserves(i)
  BY <1>4 DEF Deletes, Preserves, IInv, TypeOK, ClusterTypeOK
<1> QED BY <1>1, <1>2, <1>3, <1>4, Kinds DEF Still, Installs, Removes

\* Concurrent updates through updateConfigMap never undo each other, in any
\* number of processes.
THEOREM UpdatesAreKept == Spec => NoLostUpdate
<1>1. IInv /\ [Next]_vars => \A i \in Instances : Preserves(i)
  BY StepPreserves
<1> QED BY <1>1, Invariance, PTL DEF Spec, NoLostUpdate, Preserves

-----------------------------------------------------------------------------
(* A stuck instance stays stuck. *)

\* A stuck instance keeps its ConfigMap, with the creator and the release it had.
LEMMA StuckKeeps ==
  ASSUME IInv, [Next]_vars, NEW i \in Instances, Stuck(i)
  PROVE  /\ configMap'[i] # None
         /\ configMap'[i].uid = configMap[i].uid
         /\ configMap'[i].release = configMap[i].release
<1>1. configMap[i] # None BY DEF Stuck
<1>2. CASE configMap'[i] = configMap[i]
  BY <1>1, <1>2
<1>3. ASSUME NEW r \in Requests, Steady(r)
      PROVE  /\ configMap'[i] # None
             /\ configMap'[i].uid = configMap[i].uid
             /\ configMap'[i].release = configMap[i].release
  <2>1. Inst(r) \in Instances BY <1>3, SteadyProceeds
  <2>2. /\ configMap'[i] # None
        /\ configMap'[i].uid = configMap[i].uid
        /\ \/ configMap'[i].release = configMap[i].release
           \/ i = Inst(r) /\ Provisioning(r)
    BY <1>1, <1>3, <2>1, SteadyConfigMaps
  <2>3. i = Inst(r) => ~Provisioning(r)
    BY DEF Stuck, IInv, CreatorIsAlone
  <2> QED BY <2>2, <2>3
<1>4. ASSUME NEW r \in Requests, Reserves(r) PROVE configMap'[i] = configMap[i]
  BY <1>1, <1>4 DEF Reserves, IInv, TypeOK, ClusterTypeOK
<1>5. ASSUME NEW r \in Requests, Deletes(r) PROVE configMap'[i] = configMap[i]
  <2>1. pc[r] = "delete" /\ configMap[Inst(r)].release # None
    BY <1>5 DEF Deletes, IInv, DeleterIsAlone
  <2>2. i # Inst(r) BY <2>1 DEF Stuck
  <2> QED BY <1>5, <2>2 DEF Deletes, IInv, TypeOK, ClusterTypeOK
<1> QED BY <1>2, <1>3, <1>4, <1>5, Kinds DEF Still, Installs, Removes

\* So does whatever kept it from being finished.
LEMMA StuckNext ==
  ASSUME IInv, [Next]_vars, NEW i \in Instances, Stuck(i)
  PROVE  Stuck(i)'
<1>0. PICK u \in Requests : u = configMap[i].uid
  BY Creator DEF Stuck
<1>1. /\ configMap[i] # None /\ configMap'[i] # None
      /\ configMap'[i].uid = u /\ configMap'[i].release = configMap[i].release
  BY <1>0, StuckKeeps DEF Stuck
<1>2. /\ u # None /\ Arrived(u) /\ pc[u] # "idle" /\ Inst(u) = i
      /\ configMap[i].release \in {None, u}
  BY <1>0, <1>1, Creator DEF Arrived
<1>3. CASE configMap[i].release = None
  <2>1. ~Provisioning(u) BY <1>0, <1>3 DEF Stuck
  <2>2. ~Provisioning(u)'
    <3>1. CASE Still BY <3>1, <1>2, <2>1 DEF Still, Proceeds
    <3>2. ASSUME NEW r \in Requests, Steady(r) PROVE ~Provisioning(u)'
      BY <3>2, <1>2, <2>1, SteadyProceeds DEF Proceeds
    <3>3. ASSUME NEW r \in Requests, Reserves(r) \/ Installs(r) \/ Removes(r) \/ Deletes(r)
          PROVE  ~Provisioning(u)'
      <4>1. Reserves(r) => r # u BY <1>1, <1>2 DEF Reserves
      <4> QED BY <3>3, <4>1, <1>2, <2>1
          DEF Reserves, Installs, Removes, Deletes, Acts, Others, Proceeds
    <3> QED BY <3>1, <3>2, <3>3, Kinds
  <2> QED BY <1>1, <1>3, <2>2 DEF Stuck
<1>4. CASE configMap[i].release = u
  <2>1. /\ u \notin releases
        /\ \A q \in Requests : pc[q] = "delete" => Inst(q) # i
    BY <1>0, <1>2, <1>4 DEF Stuck
  <2>2. /\ u \notin releases'
        /\ \A q \in Requests : pc'[q] = "delete" => Inst(q)' # i
    <3>1. CASE Still BY <3>1, <2>1 DEF Still, Proceeds
    <3>2. ASSUME NEW r \in Requests, Steady(r)
          PROVE  /\ u \notin releases'
                 /\ \A q \in Requests : pc'[q] = "delete" => Inst(q)' # i
      BY <3>2, <2>1, SteadyProceeds DEF Steady, Proceeds
    <3>3. ASSUME NEW r \in Requests, Reserves(r) \/ Deletes(r)
          PROVE  /\ u \notin releases'
                 /\ \A q \in Requests : pc'[q] = "delete" => Inst(q)' # i
      BY <3>3, <2>1 DEF Reserves, Deletes, Acts, Others, Proceeds
    <3>4. ASSUME NEW r \in Requests, Installs(r)
          PROVE  /\ u \notin releases'
                 /\ \A q \in Requests : pc'[q] = "delete" => Inst(q)' # i
      <4>1. r # u BY <3>4, <1>2, <1>4 DEF Installs, IInv, CreatorIsAlone
      <4> QED BY <3>4, <4>1, <2>1 DEF Installs, Acts, Others, Proceeds
    <3>5. ASSUME NEW r \in Requests, Removes(r)
          PROVE  /\ u \notin releases'
                 /\ \A q \in Requests : pc'[q] = "delete" => Inst(q)' # i
      <4>1. Inst(r) # i BY <3>5, <1>4, <2>1 DEF Removes
      <4> QED BY <3>5, <4>1, <2>1 DEF Removes, Acts, Others, Proceeds
    <3> QED BY <3>1, <3>2, <3>3, <3>4, <3>5, Kinds
  <2> QED BY <1>1, <1>2, <1>4, <2>2 DEF Stuck
<1> QED BY <1>2, <1>3, <1>4

\* An instance nobody can finish stays for ever, whatever is called on it.
THEOREM StuckStaysStuck == Spec => StuckForGood
<1>1. IInv /\ [Next]_vars => \A i \in Instances : Stuck(i) => Stuck(i)'
  BY StuckNext
<1> QED BY <1>1, Invariance, PTL DEF Spec, StuckForGood

-----------------------------------------------------------------------------
(* Credentials stay with their instance. *)

\* A credential is of a release of instance i whose provision has arrived, so
\* that nothing about it changes any more.
OfInstance(x, i) == pc[x[1]] # "idle" /\ Inst(x[1]) = i

CredentialsAreOwn ==
    /\ \A i \in Instances, b \in Bindings : configMap[i] # None =>
          \A x \in configMap[i].binding[b] : OfInstance(x, i)
    /\ \A r \in Requests : \A x \in creds[r] : OfInstance(x, Inst(r))

\* The credentials in a ConfigMap, and in hand, are of requests.
LEMMA CredentialTypes ==
  ASSUME IInv
  PROVE  /\ \A i \in Instances, b \in Bindings : configMap[i] # None =>
               \A x \in configMap[i].binding[b] : x[1] \in Requests
         /\ \A r \in Requests : \A x \in creds[r] : x[1] \in Requests /\ pc[r] # "idle"
<1>1. \A c \in Credentials : \A x \in c : x[1] \in Requests
  BY DEF Credentials
<1>2. \A i \in Instances, b \in Bindings : configMap[i] # None =>
         configMap[i].binding[b] \in Credentials
  BY DEF IInv, TypeOK, ClusterTypeOK, ConfigMaps
<1>3. \A r \in Requests : creds[r] \in Credentials
  BY DEF IInv, TypeOK, CallTypeOK
<1> QED BY <1>1, <1>2, <1>3 DEF IInv, IdleIsClean

\* A credential stays what it is, in every step.
LEMMA SameInstance ==
  ASSUME IInv, [Next]_vars, NEW q \in Requests, pc[q] # "idle"
  PROVE  pc'[q] # "idle" /\ Inst(q)' = Inst(q)
<1>1. CASE Still BY <1>1 DEF Still, Proceeds
<1>2. ASSUME NEW r \in Requests, Steady(r) PROVE Proceeds(q)
  BY <1>2, SteadyProceeds
<1>3. ASSUME NEW r \in Requests, Reserves(r) \/ Installs(r) \/ Removes(r) \/ Deletes(r)
      PROVE  pc'[q] # "idle" /\ Inst(q)' = Inst(q)
  BY <1>3 DEF Reserves, Installs, Removes, Deletes, Acts, Others, Proceeds
<1> QED BY <1>1, <1>2, <1>3, Kinds DEF Proceeds

\* No step mixes the credentials of two instances.
LEMMA CredentialsNext == IInv /\ CredentialsAreOwn /\ [Next]_vars => CredentialsAreOwn'
<1> SUFFICES ASSUME IInv, CredentialsAreOwn, [Next]_vars PROVE CredentialsAreOwn'
  OBVIOUS
<1>1. ASSUME NEW i, NEW x, x[1] \in Requests, OfInstance(x, i) PROVE OfInstance(x, i)'
  BY <1>1, SameInstance DEF OfInstance
<1>2. ASSUME NEW i \in Instances, NEW b \in Bindings, configMap'[i] # None,
             NEW x \in configMap'[i].binding[b]
      PROVE  OfInstance(x, i)'
  <2>1. CASE configMap'[i] = configMap[i]
    BY <2>1, <1>1, <1>2, CredentialTypes DEF CredentialsAreOwn
  <2>2. ASSUME NEW r \in Requests, Steady(r) PROVE OfInstance(x, i)'
    <3>1. Inst(r) \in Instances BY <2>2, SteadyProceeds
    <3>2. /\ configMap[i] # None
          /\ \/ configMap'[i].binding[b] = configMap[i].binding[b]
             \/ i = Inst(r) /\ configMap'[i].binding[b] \in {{}, creds[r]}
      BY <1>2, <2>2, <3>1, SteadyConfigMaps DEF Binds
    <3>3. x[1] \in Requests /\ OfInstance(x, i)
      BY <1>2, <3>2, CredentialTypes DEF CredentialsAreOwn
    <3> QED BY <3>3, <1>1
  <2>3. ASSUME NEW r \in Requests, Reserves(r) PROVE OfInstance(x, i)'
    <3>1. i = Inst(r) => configMap'[i].binding[b] = {}
      BY <2>3 DEF Reserves, NewConfigMap, IInv, TypeOK, ClusterTypeOK
    <3>2. i # Inst(r) => configMap'[i] = configMap[i]
      BY <2>3 DEF Reserves, IInv, TypeOK, ClusterTypeOK
    <3> QED BY <1>2, <2>1, <3>1, <3>2
  <2>4. ASSUME NEW r \in Requests, Deletes(r) PROVE configMap'[i] = configMap[i]
    BY <1>2, <2>4 DEF Deletes, IInv, TypeOK, ClusterTypeOK
  <2> QED BY <2>1, <2>2, <2>3, <2>4, Kinds DEF Still, Installs, Removes
<1>3. ASSUME NEW q \in Requests, NEW x \in creds'[q] PROVE OfInstance(x, Inst(q))'
  <2>1. CASE creds'[q] = creds[q]
    <3>1. pc[q] # "idle" /\ x[1] \in Requests /\ OfInstance(x, Inst(q))
      BY <1>3, <2>1, CredentialTypes DEF CredentialsAreOwn
    <3>2. pc'[x[1]] # "idle" /\ Inst(x[1])' = Inst(x[1]) /\ Inst(q)' = Inst(q)
      BY <3>1, SameInstance DEF OfInstance
    <3> QED BY <3>1, <3>2 DEF OfInstance
  <2>2. ASSUME Steady(q) PROVE OfInstance(x, Inst(q))'
    <3>1. pc[q] # "idle" /\ Inst(q) \in Instances /\ Gathers(q)
      BY <2>2, SteadyProceeds DEF Steady, Forward
    <3>2. \/ x \in creds[q]
          \/ x[1] \in releases /\ Inst(x[1]) = Inst(q)
          \/ \E b \in Bindings : x \in GetBinding(Inst(q), b)
      BY <1>3, <3>1 DEF Gathers, IInv, TypeOK, CallTypeOK
    <3>3. ASSUME x \in creds[q] PROVE x[1] \in Requests /\ OfInstance(x, Inst(q))
      BY <3>3, CredentialTypes DEF CredentialsAreOwn
    <3>4. x[1] \in releases => x[1] \in Requests /\ pc[x[1]] # "idle"
      BY DEF IInv, CreatorIsAlone, TypeOK, ClusterTypeOK
    <3>5. ASSUME NEW b \in Bindings, x \in GetBinding(Inst(q), b)
          PROVE  x[1] \in Requests /\ OfInstance(x, Inst(q))
      BY <3>1, <3>5, CredentialTypes DEF GetBinding, CredentialsAreOwn
    <3>6. x[1] \in Requests /\ OfInstance(x, Inst(q))
      BY <3>2, <3>3, <3>4, <3>5 DEF OfInstance
    <3>7. pc'[x[1]] # "idle" /\ Inst(x[1])' = Inst(x[1]) /\ Inst(q)' = Inst(q)
      BY <3>1, <3>6, SameInstance DEF OfInstance
    <3> QED BY <3>6, <3>7 DEF OfInstance
  <2>3. ASSUME NEW r \in Requests, Steady(r), r # q PROVE creds'[q] = creds[q]
    BY <2>3 DEF Steady, Forward, Gathers, IInv, TypeOK, CallTypeOK
  <2> QED BY <2>1, <2>2, <2>3, Kinds
      DEF Still, Reserves, Installs, Removes, Deletes, Acts
<1> QED BY <1>2, <1>3 DEF CredentialsAreOwn

\* Credentials of one instance never show under another, whichever namespaces
\* they share and however their calls overlap.
THEOREM CredentialsStayOwn == Spec => []OwnCredentials
<1>1. Init => CredentialsAreOwn
  BY DEF Init, ClusterInit, CallInit, CredentialsAreOwn
<1>2. IInv /\ CredentialsAreOwn /\ [Next]_vars => CredentialsAreOwn' BY CredentialsNext
<1>3. CredentialsAreOwn => OwnCredentials
  BY DEF CredentialsAreOwn, OwnCredentials, OfInstance, GetBinding
<1> QED BY <1>1, <1>2, <1>3, Invariance, PTL DEF Spec

-----------------------------------------------------------------------------
(* The broker implements InstanceLifecycle. *)

OwnerOf(i) == IF configMap[i] = None THEN None ELSE configMap[i].uid

\* An instance whose ConfigMap keeps its creator and its release, and whose
\* creator's release comes or goes not, keeps its stage.
LEMMA SameStage ==
  ASSUME IInv, NEW i \in Instances,
         configMap'[i] = None <=> configMap[i] = None,
         configMap[i] # None =>
            /\ configMap'[i].uid = configMap[i].uid
            /\ configMap'[i].release = configMap[i].release
            /\ configMap[i].uid \in releases <=> configMap[i].uid \in releases'
  PROVE  OwnerOf(i)' = OwnerOf(i) /\ StageOf(i)' = StageOf(i)
BY Creator DEF OwnerOf, StageOf

\* What becomes of the stages when one instance alone changes.
OneChanges(i, from, to) ==
    /\ StageOf(i) = from /\ StageOf(i)' = to
    /\ \A j \in Instances \ {i} : OwnerOf(j)' = OwnerOf(j) /\ StageOf(j)' = StageOf(j)

\* A steady step leaves every stage, or records an installed release.
LEMMA SteadyStage ==
  ASSUME IInv, RecordsWhatRuns, NEW r \in Requests, Steady(r)
  PROVE  \/ \A i \in Instances : OwnerOf(i)' = OwnerOf(i) /\ StageOf(i)' = StageOf(i)
         \/ \E i \in Instances :
               OneChanges(i, "installed", "recorded") /\ OwnerOf(i)' = OwnerOf(i)
<1>1. Inst(r) \in Instances /\ releases' = releases
  BY SteadyProceeds DEF Steady
<1>2. \A i \in Instances :
         /\ configMap'[i] = None <=> configMap[i] = None
         /\ configMap[i] # None =>
               /\ configMap'[i].uid = configMap[i].uid
               /\ \/ configMap'[i].release = configMap[i].release
                  \/ /\ i = Inst(r) /\ pc[r] = "record" /\ Provisioning(r)
                     /\ configMap'[i].release = r
  BY <1>1, SteadyConfigMaps
<1>3. \A i \in Instances :
         (configMap[i] # None => configMap'[i].release = configMap[i].release) =>
            OwnerOf(i)' = OwnerOf(i) /\ StageOf(i)' = StageOf(i)
  BY <1>1, <1>2, SameStage
<1>4. PICK i \in Instances : i = Inst(r) BY <1>1
<1>5. CASE /\ configMap[i] # None /\ configMap'[i].release = r
           /\ pc[r] = "record" /\ Provisioning(r)
  <2>1. /\ configMap[i].uid = r /\ configMap[i].release = None
        /\ r \in releases /\ r # None
    BY <1>4, <1>5, NoneIsFresh DEF IInv, CreatorIsAlone, RecordsWhatRuns
  <2>2. StageOf(i) = "installed" BY <1>5, <2>1 DEF StageOf
  <2>3. configMap'[i] # None /\ configMap'[i].uid = r BY <1>2, <1>5, <2>1
  <2>4. StageOf(i)' = "recorded" BY <1>1, <1>5, <2>1, <2>3 DEF StageOf
  <2>5. OwnerOf(i)' = OwnerOf(i) BY <1>5, <2>1, <2>3 DEF OwnerOf
  <2>6. \A j \in Instances \ {i} : OwnerOf(j)' = OwnerOf(j) /\ StageOf(j)' = StageOf(j)
    BY <1>2, <1>3, <1>4
  <2> QED BY <2>2, <2>4, <2>5, <2>6 DEF OneChanges
<1> QED BY <1>2, <1>3, <1>4, <1>5

\* Create reserves an absent instance.
LEMMA ReserveStage ==
  ASSUME IInv, NEW r \in Requests, Reserves(r)
  PROVE  \E i \in Instances : OneChanges(i, "absent", "reserved") /\ OwnerOf(i)' = r
<1>1. PICK i \in Instances : i = Inst(r) BY DEF Reserves, Acts
<1>2. /\ configMap[i] = None /\ r \notin releases /\ releases' = releases
      /\ configMap'[i] = NewConfigMap(r)
      /\ \A j \in Instances \ {i} : configMap'[j] = configMap[j]
  BY <1>1 DEF Reserves, IInv, TypeOK, ClusterTypeOK
<1>3. NewConfigMap(r).uid = r /\ NewConfigMap(r).release = None /\ NewConfigMap(r) # None
  BY NewConfigMapType, NoneIsFresh DEF NewConfigMap, IInv, TypeOK
<1>4. \A j \in Instances \ {i} : OwnerOf(j)' = OwnerOf(j) /\ StageOf(j)' = StageOf(j)
  BY <1>2, SameStage
<1>5. StageOf(i) = "absent" /\ StageOf(i)' = "reserved" /\ OwnerOf(i)' = r
  BY <1>2, <1>3 DEF StageOf, OwnerOf
<1> QED BY <1>4, <1>5 DEF OneChanges

\* Helm's install takes a reserved instance on.
LEMMA InstallStage ==
  ASSUME IInv, NEW r \in Requests, Installs(r)
  PROVE  \E i \in Instances :
            OneChanges(i, "reserved", "installed") /\ OwnerOf(i)' = OwnerOf(i)
<1>1. PICK i \in Instances : i = Inst(r) BY DEF Installs, Acts
<1>2. /\ configMap[i] # None /\ configMap[i].uid = r /\ configMap[i].release = None
      /\ r \notin releases /\ releases' = releases \cup {r} /\ configMap' = configMap
  BY <1>1 DEF Installs, IInv, CreatorIsAlone
<1>3. \A j \in Instances \ {i} : OwnerOf(j)' = OwnerOf(j) /\ StageOf(j)' = StageOf(j)
  <2>1. \A j \in Instances \ {i} : configMap[j] # None => configMap[j].uid # r
    BY <1>1, Creator
  <2> QED BY <1>2, <2>1, SameStage
<1>4. StageOf(i) = "reserved" /\ StageOf(i)' = "installed" /\ OwnerOf(i)' = OwnerOf(i)
  BY <1>2 DEF StageOf, OwnerOf
<1> QED BY <1>3, <1>4 DEF OneChanges

\* Helm's uninstall takes a recorded instance on.
LEMMA RemoveStage ==
  ASSUME IInv, NEW r \in Requests, Removes(r)
  PROVE  \E i \in Instances :
            OneChanges(i, "recorded", "removed") /\ OwnerOf(i)' = OwnerOf(i)
<1>1. PICK i \in Instances : i = Inst(r) BY DEF Removes, Acts
<1>2. /\ configMap[i] # None /\ configMap[i].release = target[r] /\ target[r] \in releases
      /\ releases' = releases \ {target[r]} /\ configMap' = configMap
  BY <1>1 DEF Removes
<1>3. target[r] # None /\ configMap[i].uid = target[r]
  BY <1>2, NoneIsFresh, Creator DEF IInv, TypeOK, ClusterTypeOK
<1>4. \A j \in Instances \ {i} : OwnerOf(j)' = OwnerOf(j) /\ StageOf(j)' = StageOf(j)
  <2>1. \A j \in Instances \ {i} : configMap[j] # None => configMap[j].uid # target[r]
    BY <1>2, <1>3, Creator
  <2> QED BY <1>2, <2>1, SameStage
<1>5. StageOf(i) = "recorded" /\ StageOf(i)' = "removed" /\ OwnerOf(i)' = OwnerOf(i)
  BY <1>2, <1>3 DEF StageOf, OwnerOf
<1> QED BY <1>4, <1>5 DEF OneChanges

\* Delete frees an instance whose release is removed.
LEMMA DeleteStage ==
  ASSUME IInv, NEW r \in Requests, Deletes(r)
  PROVE  \E i \in Instances : OneChanges(i, "removed", "absent") /\ OwnerOf(i)' = None
<1>1. PICK i \in Instances : i = Inst(r) BY DEF Deletes, Acts
<1>2. /\ configMap[i] # None /\ configMap[i].release # None
      /\ configMap[i].release \notin releases
      /\ configMap'[i] = None /\ releases' = releases
      /\ \A j \in Instances \ {i} : configMap'[j] = configMap[j]
  BY <1>1 DEF Deletes, IInv, DeleterIsAlone, TypeOK, ClusterTypeOK
<1>3. \A j \in Instances \ {i} : OwnerOf(j)' = OwnerOf(j) /\ StageOf(j)' = StageOf(j)
  BY <1>2, SameStage
<1>4. StageOf(i) = "removed" /\ StageOf(i)' = "absent" /\ OwnerOf(i)' = None
  BY <1>2 DEF StageOf, OwnerOf
<1> QED BY <1>3, <1>4 DEF OneChanges

\* The variables of InstanceLifecycle.
owners == [i \in Instances |-> IF configMap[i] = None THEN None ELSE configMap[i].uid]
stages == [i \in Instances |-> StageOf(i)]

\* One instance that changes is one function value that does.
LEMMA ChangedStage ==
  ASSUME NEW i \in Instances, NEW from, NEW to, OneChanges(i, from, to)
  PROVE  /\ stages[i] = from
         /\ stages' = [stages EXCEPT ![i] = to]
         /\ owners' = [owners EXCEPT ![i] = OwnerOf(i)']
         /\ OwnerOf(i)' = OwnerOf(i) => owners' = owners
BY DEF OneChanges, stages, owners, OwnerOf

\* The step of one instance is the step of InstanceLifecycle.
LEMMA StageAdvances ==
  ASSUME NEW i \in Instances, NEW from, NEW to, OneChanges(i, from, to),
         OwnerOf(i)' = OwnerOf(i)
  PROVE  Lifecycle!Advance(i, from, to)
BY ChangedStage DEF Lifecycle!Advance, owners, stages

\* Every step of the broker is one of InstanceLifecycle, or none.
LEMMA StageNext ==
  ASSUME IInv, RecordsWhatRuns, [Next]_vars
  PROVE  [Lifecycle!LifecycleNext]_Lifecycle!lifecycleVars
<1>1. ASSUME \A i \in Instances : OwnerOf(i)' = OwnerOf(i) /\ StageOf(i)' = StageOf(i)
      PROVE  UNCHANGED Lifecycle!lifecycleVars
  BY <1>1 DEF OwnerOf, Lifecycle!lifecycleVars
<1>2. CASE Still
  <2>1. \A i \in Instances : OwnerOf(i)' = OwnerOf(i) /\ StageOf(i)' = StageOf(i)
    BY <1>2, SameStage DEF Still
  <2> QED BY <1>1, <2>1
<1>3. ASSUME NEW r \in Requests, Steady(r)
      PROVE  Lifecycle!LifecycleNext \/ UNCHANGED Lifecycle!lifecycleVars
  BY <1>1, <1>3, SteadyStage, StageAdvances DEF Lifecycle!LifecycleNext
<1>4. ASSUME NEW r \in Requests, Reserves(r) PROVE Lifecycle!LifecycleNext
  <2>1. PICK i \in Instances : OneChanges(i, "absent", "reserved") /\ OwnerOf(i)' = r
    BY <1>4, ReserveStage
  <2>2. Lifecycle!Reserve(i, r) BY <2>1, ChangedStage DEF Lifecycle!Reserve, owners, stages
  <2> QED BY <2>2 DEF Lifecycle!LifecycleNext
<1>5. ASSUME NEW r \in Requests, Installs(r) PROVE Lifecycle!LifecycleNext
  BY <1>5, InstallStage, StageAdvances DEF Lifecycle!LifecycleNext
<1>6. ASSUME NEW r \in Requests, Removes(r) PROVE Lifecycle!LifecycleNext
  BY <1>6, RemoveStage, StageAdvances DEF Lifecycle!LifecycleNext
<1>7. ASSUME NEW r \in Requests, Deletes(r) PROVE Lifecycle!LifecycleNext
  <2>1. PICK i \in Instances : OneChanges(i, "removed", "absent") /\ OwnerOf(i)' = None
    BY <1>7, DeleteStage
  <2>2. Lifecycle!Release(i) BY <2>1, ChangedStage DEF Lifecycle!Release, owners, stages
  <2> QED BY <2>2 DEF Lifecycle!LifecycleNext
<1> QED BY <1>2, <1>3, <1>4, <1>5, <1>6, <1>7, Kinds

\* The stages of every instance come in order, one at a time: reserved,
\* installed, recorded, removed, whatever overlaps, fails or crashes.
THEOREM ImplementsLifecycle == Spec => LifecycleImplemented
<1>1. Init => Lifecycle!LifecycleInit
  BY DEF Init, ClusterInit, Lifecycle!LifecycleInit, StageOf
<1>2. IInv /\ RecordsWhatRuns /\ [Next]_vars =>
         [Lifecycle!LifecycleNext]_Lifecycle!lifecycleVars
  BY StageNext
<1> QED BY <1>1, <1>2, Invariance, RecordedReleasesRan, PTL
    DEF Spec, LifecycleImplemented, Lifecycle!LifecycleSpec
=============================================================================
