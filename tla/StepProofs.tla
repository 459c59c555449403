----------------------------- MODULE StepProofs -----------------------------
(***************************************************************************)
(* What one step of a request does, action by action, in the form the      *)
(* proofs about answers, reports and serial platforms share: who is left   *)
(* alone, where the request goes, and what an update writes.               *)
(***************************************************************************)
EXTENDS LifecycleProofs

\* A step of request r, or one that moves no request at all.
Alone(r) ==
    /\ call' = call
    /\ \A q \in Requests \ {r} :
          /\ pc'[q] = pc[q] /\ copy'[q] = copy[q] /\ target'[q] = target[q]
          /\ creds'[q] = creds[q] /\ answer'[q] = answer[q]

\* The ways a call goes on, for the request alone: to a label of the same
\* goroutine, to its end, to the background.
Goes(r, l) == pc'[r] = l /\ answer'[r] = answer[r]
Ends(r, a) == pc'[r] = "done" /\ answer'[r] = (IF answer[r] = None THEN a ELSE answer[r])
Parts(r, l) == pc'[r] = l /\ answer'[r] = "accepted"

Fails(r) == IF call[r].async THEN Goes(r, "fail") ELSE Ends(r, "error")

\* Control of one request leaves the control of the others alone.
LEMMA ControlOfOne ==
  ASSUME TypeOK, NEW r \in Requests, NEW l, NEW a,
         Goto(r, l) \/ Finish(r, a) \/ Detach(r, l) \/ OperationFailed(r)
  PROVE  /\ \A q \in Requests \ {r} : pc'[q] = pc[q] /\ answer'[q] = answer[q]
         /\ Goto(r, l) => Goes(r, l)
         /\ Finish(r, a) => Ends(r, a)
         /\ Detach(r, l) => Parts(r, l)
         /\ OperationFailed(r) => Fails(r)
<1>1. pc \in [Requests -> Labels] /\ answer \in [Requests -> Answers]
  BY DEF TypeOK, CallTypeOK
<1>2. ASSUME NEW m, Goto(r, m)
      PROVE  /\ \A q \in Requests \ {r} : pc'[q] = pc[q] /\ answer'[q] = answer[q]
             /\ Goes(r, m)
  BY <1>1, <1>2 DEF Goto, Goes
<1>3. ASSUME NEW b, Finish(r, b)
      PROVE  /\ \A q \in Requests \ {r} : pc'[q] = pc[q] /\ answer'[q] = answer[q]
             /\ Ends(r, b)
  BY <1>1, <1>3 DEF Finish, Reply, Ends
<1>4. ASSUME Detach(r, l)
      PROVE  /\ \A q \in Requests \ {r} : pc'[q] = pc[q] /\ answer'[q] = answer[q]
             /\ Parts(r, l)
  BY <1>1, <1>4 DEF Detach, Reply, Parts
<1>5. ASSUME OperationFailed(r)
      PROVE  /\ \A q \in Requests \ {r} : pc'[q] = pc[q] /\ answer'[q] = answer[q]
             /\ Fails(r)
  BY <1>2, <1>3, <1>5 DEF OperationFailed, Fails
<1> QED BY <1>2, <1>3, <1>4, <1>5

-----------------------------------------------------------------------------
(* Updates *)

\* The ConfigMap of instance i becomes new, at some version.
Becomes(i, new) ==
    /\ \E v \in Nat : configMap' = [configMap EXCEPT ![i] = [new EXCEPT !.version = v]]
    /\ UNCHANGED <<releases, labelled>>

\* An update of request r, which goes on as ok or as bad: its Get; its end
\* without a write; or its end with one, whose copy was the ConfigMap itself.
Updates(r, new, ok, bad) ==
    /\ Alone(r) /\ target'[r] = target[r] /\ creds'[r] = creds[r]
    /\ \/ /\ copy[r] = None /\ configMap[Inst(r)] # None
          /\ copy'[r] = configMap[Inst(r)] /\ Goes(r, pc[r])
          /\ UNCHANGED clusterVars
       \/ /\ \/ "kube" \in Faults \/ configMap[Inst(r)] = None
             \/ copy[r] # None /\ ~Current(Inst(r), copy[r])
          /\ bad /\ copy'[r] = None /\ UNCHANGED clusterVars
       \/ /\ ok \/ ("kube" \in Faults /\ bad)
          /\ copy[r] # None /\ copy[r] = configMap[Inst(r)] /\ copy'[r] = None
          /\ Becomes(Inst(r), new)

\* What stays of the others is what UpdateConfigMap leaves of them.
LEMMA UpdateEffect ==
  ASSUME IInv, NEW r \in Requests, Inst(r) \in Instances, NEW new,
         copy[r] # None => new \in ConfigMaps,
         NEW ACTION ok, NEW ACTION bad, NEW ACTION good, NEW ACTION poor,
         UpdateConfigMap(r, new, ok, bad),
         ok => good, bad => poor,
         ok \/ bad => \A q \in Requests \ {r} : pc'[q] = pc[q] /\ answer'[q] = answer[q]
  PROVE  Updates(r, new, good, poor)
<1>1. /\ copy \in [Requests -> ConfigMaps \cup {None}]
      /\ configMap \in [Instances -> ConfigMaps \cup {None}] /\ revision \in Nat
  BY DEF IInv, TypeOK, CallTypeOK, ClusterTypeOK
<1>2. UNCHANGED <<call, target, creds>> BY DEF UpdateConfigMap
<1> DEFINE gets == copy[r] = None /\ ReadConfigMap(r)
           loses == /\ copy[r] = None
                    /\ configMap[Inst(r)] = None \/ "kube" \in Faults
                    /\ bad
                    /\ UNCHANGED <<copy, clusterVars>>
           writes == /\ copy[r] # None
                     /\ Current(Inst(r), copy[r])
                     /\ Replace(Inst(r), new)
                     /\ ok \/ ("kube" \in Faults /\ bad)
                     /\ copy' = [copy EXCEPT ![r] = None]
           misses == /\ copy[r] # None
                     /\ ~Current(Inst(r), copy[r]) \/ "kube" \in Faults
                     /\ bad
                     /\ copy' = [copy EXCEPT ![r] = None]
                     /\ UNCHANGED clusterVars
<1>0. gets \/ loses \/ writes \/ misses BY DEF UpdateConfigMap
<1>3. CASE gets
  BY <1>1, <1>2, <1>3 DEF ReadConfigMap, Updates, Alone, Goes
<1>4. CASE loses
  BY <1>1, <1>2, <1>4 DEF Updates, Alone
<1>5. CASE misses
  BY <1>1, <1>2, <1>5 DEF Updates, Alone
<1>6. CASE writes
  <2>1. copy[r] = configMap[Inst(r)] BY <1>6 DEF IInv, CopiesAreVersioned
  <2>2. Becomes(Inst(r), new)
    <3>1. CASE new = configMap[Inst(r)] /\ UNCHANGED clusterVars
      <4>1. new \in ConfigMaps BY <1>6
      <4>2. new.version \in Nat /\ [new EXCEPT !.version = new.version] = new
        BY <4>1 DEF ConfigMaps
      <4>3. configMap' = [configMap EXCEPT ![Inst(r)] = new]
        BY <1>1, <3>1 DEF clusterVars
      <4> QED BY <3>1, <4>2, <4>3 DEF Becomes, clusterVars
    <3>2. CASE Store(Inst(r), [new EXCEPT !.version = revision + 1])
      <4>1. revision + 1 \in Nat BY <1>1
      <4> QED BY <3>2, <4>1 DEF Becomes, Store
    <3> QED BY <1>6, <3>1, <3>2 DEF Replace
  <2>3. Alone(r) /\ copy'[r] = None BY <1>1, <1>2, <1>6 DEF Alone
  <2>4. good \/ ("kube" \in Faults /\ poor) BY <1>6
  <2>5. copy[r] # None BY <1>6
  <2>6. target'[r] = target[r] /\ creds'[r] = creds[r] BY <1>2
  <2> QED BY <2>1, <2>2, <2>3, <2>4, <2>5, <2>6 DEF Updates
<1> HIDE DEF gets, loses, writes, misses
<1> QED BY <1>0, <1>3, <1>4, <1>5, <1>6

\* The "in progress" mark.
LEMMA MarkEffect ==
  ASSUME IInv, NEW r \in Requests, MarkInProgress(r)
  PROVE  Updates(r, [copy[r] EXCEPT !.opState = "in progress", !.opName = r],
                 Parts(r, IF call[r].op = "provision" THEN "install" ELSE "uninstall"),
                 Ends(r, "error"))
<1> DEFINE next == IF call[r].op = "provision" THEN "install" ELSE "uninstall"
           new == [copy[r] EXCEPT !.opState = "in progress", !.opName = r]
<1>1. TypeOK /\ pc[r] = "mark" /\ Inst(r) \in Instances
  BY CallFields DEF MarkInProgress, IInv
<1>2. copy[r] # None => new \in ConfigMaps
  BY <1>1, CopyType, MarkChange DEF OpStates
<1>3. UpdateConfigMap(r, new, Detach(r, next), Finish(r, "error")) BY DEF MarkInProgress
<1> HIDE DEF new, next
<1>4. Detach(r, next) => Parts(r, next) BY <1>1, ControlOfOne
<1>5. Finish(r, "error") => Ends(r, "error") BY <1>1, ControlOfOne
<1>6. Detach(r, next) \/ Finish(r, "error") =>
         \A q \in Requests \ {r} : pc'[q] = pc[q] /\ answer'[q] = answer[q]
  BY <1>1, ControlOfOne
<1>7. Updates(r, new, Parts(r, next), Ends(r, "error"))
  BY <1>1, <1>2, <1>3, <1>4, <1>5, <1>6, UpdateEffect
<1> QED BY <1>7 DEF new, next

\* Provision's record of its release.
LEMMA RecordEffect ==
  ASSUME IInv, NEW r \in Requests, RecordRelease(r)
  PROVE  Updates(r, [copy[r] EXCEPT !.release = r],
                 IF call[r].async THEN Goes(r, "succeed") ELSE Ends(r, "ok"), Fails(r))
<1> DEFINE new == [copy[r] EXCEPT !.release = r]
           ok == IF call[r].async THEN Goto(r, "succeed") ELSE Finish(r, "ok")
           good == IF call[r].async THEN Goes(r, "succeed") ELSE Ends(r, "ok")
<1>1. TypeOK /\ pc[r] = "record" /\ Inst(r) \in Instances
  BY OpOfLabel, CallFields DEF RecordRelease, IInv
<1>2. copy[r] # None => new \in ConfigMaps
  BY <1>1, CopyType, ReleaseChange
<1>3. UpdateConfigMap(r, new, ok, OperationFailed(r)) BY DEF RecordRelease
<1>4. ok => good BY <1>1, ControlOfOne
<1>5. OperationFailed(r) => Fails(r) BY <1>1, ControlOfOne
<1>6. ok \/ OperationFailed(r) => \A q \in Requests \ {r} : pc'[q] = pc[q] /\ answer'[q] = answer[q]
  BY <1>1, ControlOfOne
<1>7. Updates(r, new, good, Fails(r))
  <2> HIDE DEF new, ok, good
  <2> QED BY <1>1, <1>2, <1>3, <1>4, <1>5, <1>6, UpdateEffect
<1> QED BY <1>7

\* Provision's "succeeded".
LEMMA SuccessEffect ==
  ASSUME IInv, NEW r \in Requests, ReportSuccess(r)
  PROVE  Updates(r, [copy[r] EXCEPT !.opState = "succeeded"],
                 Ends(r, "ok"), Ends(r, "error"))
<1> DEFINE new == [copy[r] EXCEPT !.opState = "succeeded"]
           ok == Finish(r, "ok")
           good == Ends(r, "ok")
<1>1. TypeOK /\ pc[r] = "succeed" /\ Inst(r) \in Instances
  BY OpOfLabel, CallFields DEF ReportSuccess, IInv
<1>2. copy[r] # None => new \in ConfigMaps
  BY <1>1, CopyType, StateChange DEF OpStates
<1>3. UpdateConfigMap(r, new, ok, Finish(r, "error")) BY DEF ReportSuccess
<1>4. ok => good BY <1>1, ControlOfOne
<1>5. Finish(r, "error") => Ends(r, "error") BY <1>1, ControlOfOne
<1>6. ok \/ Finish(r, "error") => \A q \in Requests \ {r} : pc'[q] = pc[q] /\ answer'[q] = answer[q]
  BY <1>1, ControlOfOne
<1>7. Updates(r, new, good, Ends(r, "error"))
  <2> HIDE DEF new, ok, good
  <2> QED BY <1>1, <1>2, <1>3, <1>4, <1>5, <1>6, UpdateEffect
<1> QED BY <1>7

\* The "failed" of Provision and Deprovision.
LEMMA FailureEffect ==
  ASSUME IInv, NEW r \in Requests, ReportFailure(r)
  PROVE  Updates(r, [copy[r] EXCEPT !.opState = "failed"],
                 Ends(r, "error"), Ends(r, "error"))
<1> DEFINE new == [copy[r] EXCEPT !.opState = "failed"]
           ok == Finish(r, "error")
           good == Ends(r, "error")
<1>1. TypeOK /\ pc[r] = "fail" /\ Inst(r) \in Instances
  BY OpOfLabel, CallFields DEF ReportFailure, IInv
<1>2. copy[r] # None => new \in ConfigMaps
  BY <1>1, CopyType, StateChange DEF OpStates
<1>3. UpdateConfigMap(r, new, ok, Finish(r, "error")) BY DEF ReportFailure
<1>4. ok => good BY <1>1, ControlOfOne
<1>5. Finish(r, "error") => Ends(r, "error") BY <1>1, ControlOfOne
<1>6. ok \/ Finish(r, "error") => \A q \in Requests \ {r} : pc'[q] = pc[q] /\ answer'[q] = answer[q]
  BY <1>1, ControlOfOne
<1>7. Updates(r, new, good, Ends(r, "error"))
  <2> HIDE DEF new, ok, good
  <2> QED BY <1>1, <1>2, <1>3, <1>4, <1>5, <1>6, UpdateEffect
<1> QED BY <1>7

\* Bind's credentials.
LEMMA StoreEffect ==
  ASSUME IInv, NEW r \in Requests, StoreBinding(r)
  PROVE  Updates(r, [copy[r] EXCEPT !.binding[Binding(r)] = creds[r]],
                 Goes(r, "succeed"), Goes(r, "fail"))
<1> DEFINE new == [copy[r] EXCEPT !.binding[Binding(r)] = creds[r]]
           ok == Goto(r, "succeed")
           good == Goes(r, "succeed")
<1>1. TypeOK /\ pc[r] = "store" /\ Binding(r) \in Bindings /\ Inst(r) \in Instances
  BY OpOfLabel, CallFields DEF StoreBinding, IInv
<1>2. copy[r] # None => new \in ConfigMaps
  BY <1>1, CopyType, BindingChange
<1>3. UpdateConfigMap(r, new, ok, Goto(r, "fail")) BY DEF StoreBinding
<1>4. ok => good BY <1>1, ControlOfOne
<1>5. Goto(r, "fail") => Goes(r, "fail") BY <1>1, ControlOfOne
<1>6. ok \/ Goto(r, "fail") => \A q \in Requests \ {r} : pc'[q] = pc[q] /\ answer'[q] = answer[q]
  BY <1>1, ControlOfOne
<1>7. Updates(r, new, good, Goes(r, "fail"))
  <2> HIDE DEF new, ok, good
  <2> QED BY <1>1, <1>2, <1>3, <1>4, <1>5, <1>6, UpdateEffect
<1> QED BY <1>7

\* Unbind's removal of both keys.
LEMMA RemoveEffect ==
  ASSUME IInv, NEW r \in Requests, RemoveBinding(r)
  PROVE  Updates(r, [copy[r] EXCEPT !.binding[Binding(r)] = {}, !.bindState[Binding(r)] = None],
                 Ends(r, "ok"), Ends(r, "error"))
<1> DEFINE new == [copy[r] EXCEPT !.binding[Binding(r)] = {}, !.bindState[Binding(r)] = None]
           ok == Finish(r, "ok")
           good == Ends(r, "ok")
<1>1. TypeOK /\ pc[r] = "remove" /\ Binding(r) \in Bindings /\ Inst(r) \in Instances
  BY OpOfLabel, CallFields DEF RemoveBinding, IInv
<1>2. copy[r] # None => new \in ConfigMaps
  BY <1>1, CopyType, RemovalChange
<1>3. UpdateConfigMap(r, new, ok, Finish(r, "error")) BY DEF RemoveBinding
<1>4. ok => good BY <1>1, ControlOfOne
<1>5. Finish(r, "error") => Ends(r, "error") BY <1>1, ControlOfOne
<1>6. ok \/ Finish(r, "error") => \A q \in Requests \ {r} : pc'[q] = pc[q] /\ answer'[q] = answer[q]
  BY <1>1, ControlOfOne
<1>7. Updates(r, new, good, Ends(r, "error"))
  <2> HIDE DEF new, ok, good
  <2> QED BY <1>1, <1>2, <1>3, <1>4, <1>5, <1>6, UpdateEffect
<1> QED BY <1>7

\* Bind's result, of either outcome.
LEMMA ReportEffect ==
  ASSUME IInv, NEW r \in Requests, ReportBinding(r)
  PROVE  \E outcome \in {"succeed", "fail"} :
            /\ pc[r] = outcome /\ call[r].op = "bind"
            /\ Updates(r, [copy[r] EXCEPT !.bindState[Binding(r)] =
                              IF outcome = "succeed" THEN "succeeded" ELSE "failed"],
                       IF call[r].async THEN Ends(r, "ok") ELSE Goes(r, "check"),
                       Ends(r, "error"))
<1> DEFINE new(outcome) == [copy[r] EXCEPT !.bindState[Binding(r)] =
                              IF outcome = "succeed" THEN "succeeded" ELSE "failed"]
           ok == IF call[r].async THEN Finish(r, "ok") ELSE Goto(r, "check")
           good == IF call[r].async THEN Ends(r, "ok") ELSE Goes(r, "check")
<1>1. PICK outcome \in {"succeed", "fail"} :
        /\ pc[r] = outcome /\ call[r].op = "bind"
        /\ UpdateConfigMap(r, new(outcome), ok, Finish(r, "error"))
  BY DEF ReportBinding
<1>2. TypeOK /\ Binding(r) \in Bindings /\ Inst(r) \in Instances
  BY <1>1, CallFields DEF IInv
<1> DEFINE patched == new(outcome)
<1>3. copy[r] # None => patched \in ConfigMaps
  BY <1>2, CopyType, BindStateChange DEF BindStates
<1>4. ok => good BY <1>2, ControlOfOne
<1>5. Finish(r, "error") => Ends(r, "error") BY <1>2, ControlOfOne
<1>6. ok \/ Finish(r, "error") =>
         \A q \in Requests \ {r} : pc'[q] = pc[q] /\ answer'[q] = answer[q]
  BY <1>2, ControlOfOne
<1>7. Updates(r, patched, good, Ends(r, "error"))
  <2>1. UpdateConfigMap(r, patched, ok, Finish(r, "error")) BY <1>1 DEF patched, ok
  <2> HIDE DEF patched, ok, good
  <2> QED BY <2>1, <1>2, <1>3, <1>4, <1>5, <1>6, UpdateEffect
<1> QED BY <1>1, <1>7

-----------------------------------------------------------------------------
(* Steps that make one API call and no update *)

\* Nothing but the control of request r changes in the call.
Keeps(r) == Alone(r) /\ copy'[r] = copy[r] /\ target'[r] = target[r] /\ creds'[r] = creds[r]

\* Provision's Create.
LEMMA CreateEffect ==
  ASSUME TypeOK, NEW r \in Requests, CreateConfigMap(r)
  PROVE  /\ Keeps(r)
         /\ \/ /\ configMap[Inst(r)] = None
               /\ configMap' = [configMap EXCEPT ![Inst(r)] = NewConfigMap(r)]
               /\ UNCHANGED <<releases, labelled>>
               /\ Goes(r, IF call[r].async THEN "mark" ELSE "install") \/ Ends(r, "error")
            \/ /\ UNCHANGED clusterVars
               /\ Ends(r, "conflict") \/ Ends(r, "error")
BY ControlOfOne DEF CreateConfigMap, Store, Keeps, Alone

\* Helm's install.
LEMMA InstallEffect ==
  ASSUME TypeOK, NEW r \in Requests, Install(r)
  PROVE  /\ Keeps(r) /\ UNCHANGED <<configMap, revision, labelled>>
         /\ \/ releases' = releases \cup {r} /\ (Goes(r, "label") \/ Fails(r))
            \/ releases' = releases /\ Fails(r)
BY ControlOfOne DEF Install, AddRelease, Keeps, Alone, clusterVars

\* The label of one object, or the end of the loop.
LEMMA LabelEffect ==
  ASSUME TypeOK, NEW r \in Requests, LabelResources(r)
  PROVE  /\ Keeps(r) /\ UNCHANGED <<configMap, revision, releases>>
         /\ \/ /\ Goes(r, "label")
               /\ \E s \in NextToLabel(r) : labelled' = [labelled EXCEPT ![r] = @ \cup {s}]
            \/ Goes(r, "record") /\ Unlabelled(r) = {} /\ labelled' = labelled
            \/ Fails(r) /\ labelled' = labelled
BY ControlOfOne DEF LabelResources, AddLabel, Keeps, Alone, clusterVars

\* Deprovision's Get.
LEMMA LookUpEffect ==
  ASSUME TypeOK, NEW r \in Requests, LookUpRelease(r)
  PROVE  /\ Alone(r) /\ copy'[r] = copy[r] /\ creds'[r] = creds[r] /\ UNCHANGED clusterVars
         /\ \/ /\ configMap[Inst(r)] # None /\ target'[r] = configMap[Inst(r)].release
               /\ Goes(r, IF call[r].async THEN "mark" ELSE "uninstall")
            \/ target'[r] = target[r] /\ (Ends(r, "gone") \/ Ends(r, "error"))
BY ControlOfOne DEF LookUpRelease, TypeOK, CallTypeOK, Alone

\* Helm's uninstall.
LEMMA UninstallEffect ==
  ASSUME TypeOK, NEW r \in Requests, Uninstall(r)
  PROVE  /\ Keeps(r) /\ UNCHANGED <<configMap, revision>>
         /\ \/ /\ target[r] \in releases /\ releases' = releases \ {target[r]}
               /\ labelled' = [labelled EXCEPT ![target[r]] = {}]
               /\ Goes(r, "delete") \/ Fails(r)
            \/ UNCHANGED <<releases, labelled>> /\ Fails(r)
BY ControlOfOne DEF Uninstall, DropRelease, Keeps, Alone, clusterVars

\* Deprovision's Delete.
LEMMA DeleteEffect ==
  ASSUME TypeOK, NEW r \in Requests, DeleteConfigMap(r)
  PROVE  /\ Keeps(r) /\ UNCHANGED <<revision, releases, labelled>>
         /\ \/ /\ configMap[Inst(r)] # None
               /\ configMap' = [configMap EXCEPT ![Inst(r)] = None]
               /\ Ends(r, "ok") \/ Fails(r)
            \/ configMap' = configMap /\ Fails(r)
BY ControlOfOne DEF DeleteConfigMap, Remove, Keeps, Alone, clusterVars

\* Bind's Get.
LEMMA FindEffect ==
  ASSUME TypeOK, NEW r \in Requests, FindInstance(r)
  PROVE  /\ Alone(r) /\ copy'[r] = copy[r] /\ creds'[r] = creds[r] /\ UNCHANGED clusterVars
         /\ \/ /\ configMap[Inst(r)] # None /\ target'[r] = configMap[Inst(r)].release
               /\ IF call[r].async THEN Parts(r, "listServices") ELSE Goes(r, "listServices")
            \/ target'[r] = target[r] /\ (Ends(r, "not found") \/ Ends(r, "error"))
BY ControlOfOne DEF FindInstance, TypeOK, CallTypeOK, Alone

\* Bind's list of services.
LEMMA ListServicesEffect ==
  ASSUME TypeOK, NEW r \in Requests, ListServices(r)
  PROVE  /\ Keeps(r) /\ UNCHANGED clusterVars
         /\ Goes(r, "listSecrets") \/ Goes(r, "fail")
BY ControlOfOne DEF ListServices, Keeps, Alone

\* Bind's list of secrets.
LEMMA ListSecretsEffect ==
  ASSUME TypeOK, NEW r \in Requests, ListSecrets(r)
  PROVE  /\ Alone(r) /\ copy'[r] = copy[r] /\ target'[r] = target[r] /\ UNCHANGED clusterVars
         /\ \/ /\ Visible(r, Secrets) # {} /\ creds'[r] = Visible(r, Secrets)
               /\ Goes(r, "store")
            \/ creds'[r] = creds[r] /\ Goes(r, "fail")
BY ControlOfOne DEF ListSecrets, TypeOK, CallTypeOK, Alone

\* The check of a synchronous bind.
LEMMA CheckEffect ==
  ASSUME TypeOK, NEW r \in Requests, CheckBindState(r)
  PROVE  /\ Keeps(r) /\ UNCHANGED clusterVars
         /\ \/ /\ Goes(r, "fetch")
               /\ LastBindingOperationState(Inst(r), Binding(r)) = "succeeded"
            \/ Ends(r, "gone") \/ Ends(r, "error")
BY ControlOfOne DEF CheckBindState, Keeps, Alone

\* The credentials a synchronous bind is answered with.
LEMMA FetchEffect ==
  ASSUME TypeOK, NEW r \in Requests, FetchBinding(r)
  PROVE  /\ Alone(r) /\ copy'[r] = copy[r] /\ target'[r] = target[r] /\ UNCHANGED clusterVars
         /\ \/ /\ GetBinding(Inst(r), Binding(r)) # {}
               /\ creds'[r] = GetBinding(Inst(r), Binding(r)) /\ Ends(r, "ok")
            \/ creds'[r] = creds[r] /\ (Ends(r, "not found") \/ Ends(r, "error"))
BY ControlOfOne DEF FetchBinding, TypeOK, CallTypeOK, Alone

\* Broker.Lock.
LEMMA AcquireEffect ==
  ASSUME TypeOK, NEW r \in Requests, Acquire(r)
  PROVE  Keeps(r) /\ UNCHANGED clusterVars /\ Goes(r, FirstStep(call[r].op))
BY DEF Acquire, Keeps, Alone, Goes, TypeOK, CallTypeOK

\* The arrival of a call.
LEMMA ReceiveEffect ==
  ASSUME TypeOK, NEW r \in Requests, Receive(r)
  PROVE  /\ UNCHANGED <<copy, target, creds, answer, clusterVars>>
         /\ \A q \in Requests \ {r} : pc'[q] = pc[q] /\ call'[q] = call[q]
         /\ pc[r] = "idle" /\ pc'[r] \in {"lock", "remove"} /\ call'[r] \in Calls
         /\ call'[r].async \in Modes \/ call'[r].op = "unbind"
         /\ Quiet(r, call'[r].instance)
BY DEF Receive, TypeOK, CallTypeOK

\* The end of a process.
LEMMA CrashEffect ==
  ASSUME TypeOK, NEW k \in Brokers, Crash(k)
  PROVE  /\ UNCHANGED <<call, copy, target, creds, answer, clusterVars>>
         /\ \A q \in Requests : pc'[q] = pc[q] \/ (Live(q) /\ pc'[q] = "dead")
BY DEF Crash

\* The step of a request changes nothing of another one, and no ConfigMap but
\* that of its instance.
LEMMA StepOfOne ==
  ASSUME IInv, NEW r \in Requests, Step(r)
  PROVE  /\ Alone(r) /\ pc[r] \notin {"idle", "done", "dead"} /\ pc'[r] # "idle"
         /\ call[r] \in Calls /\ call[r].op \in OpNames /\ Inst(r) \in Instances
         /\ \A i \in Instances \ {Inst(r)} : configMap'[i] = configMap[i]
<1>1. /\ TypeOK /\ configMap \in [Instances -> ConfigMaps \cup {None}]
  BY DEF IInv, TypeOK, ClusterTypeOK
<1>2. pc[r] \notin {"idle", "done", "dead"}
  BY DEF Step, InstanceStep, BindingStep, Acquire, CreateConfigMap, MarkInProgress,
     Install, LabelResources, RecordRelease, ReportSuccess, ReportFailure, LookUpRelease,
     Uninstall, DeleteConfigMap, FindInstance, ListServices, ListSecrets, StoreBinding,
     ReportBinding, CheckBindState, FetchBinding, RemoveBinding
<1>3. call[r] \in Calls /\ call[r].op \in OpNames /\ Inst(r) \in Instances
  BY <1>1, <1>2, CallFields
<1> DEFINE Kept == /\ Alone(r) /\ pc'[r] # "idle"
                   /\ \A i \in Instances \ {Inst(r)} : configMap'[i] = configMap[i]
<1>4. CreateConfigMap(r) \/ Install(r) \/ LabelResources(r) => Kept
  BY <1>1, <1>3, CreateEffect, InstallEffect, LabelEffect
     DEF Keeps, clusterVars, Goes, Ends, Fails
<1>5. LookUpRelease(r) \/ Uninstall(r) \/ DeleteConfigMap(r) => Kept
  BY <1>1, <1>3, LookUpEffect, UninstallEffect, DeleteEffect
     DEF Keeps, clusterVars, Goes, Ends, Fails
<1>6. FindInstance(r) \/ ListServices(r) \/ ListSecrets(r) => Kept
  BY <1>1, FindEffect, ListServicesEffect, ListSecretsEffect
     DEF Keeps, clusterVars, Goes, Ends, Parts
<1>7. CheckBindState(r) \/ FetchBinding(r) => Kept
  BY <1>1, CheckEffect, FetchEffect DEF Keeps, clusterVars, Goes, Ends, Parts
<1>8. Acquire(r) => Kept
  BY <1>1, <1>2, AcquireEffect, OpOfLabel DEF Acquire, FirstStep, Keeps, clusterVars, Goes
<1>9. MarkInProgress(r) \/ RecordRelease(r) => Kept
  BY <1>1, <1>2, <1>3, MarkEffect, RecordEffect
     DEF Updates, Becomes, clusterVars, Goes, Ends, Parts, Fails
<1>10. ReportSuccess(r) \/ ReportFailure(r) => Kept
  BY <1>1, <1>2, <1>3, SuccessEffect, FailureEffect
     DEF Updates, Becomes, clusterVars, Goes, Ends
<1>11. StoreBinding(r) \/ ReportBinding(r) => Kept
  BY <1>1, <1>2, <1>3, StoreEffect, ReportEffect
     DEF Updates, Becomes, clusterVars, Goes, Ends
<1>12. RemoveBinding(r) => Kept
  BY <1>1, <1>2, <1>3, RemoveEffect DEF Updates, Becomes, clusterVars, Goes, Ends
<1> HIDE DEF Kept
<1>13. Kept
  BY <1>4, <1>5, <1>6, <1>7, <1>8, <1>9, <1>10, <1>11, <1>12 DEF Step, InstanceStep, BindingStep
<1> QED BY <1>2, <1>3, <1>13 DEF Kept
=============================================================================
