-------------------------- MODULE MinibrokerProofs --------------------------
(***************************************************************************)
(* Proofs about Minibroker, for every value of its constants.              *)
(*                                                                         *)
(* The actions are first reduced to what they do to the state a proof      *)
(* looks at: Flow for the control part, Update for the read-then-write of  *)
(* updateConfigMap.  The invariants are then proved against those.         *)
(***************************************************************************)
EXTENDS Minibroker, TLAPS

-----------------------------------------------------------------------------
(* Control flow *)

\* Request r goes to label l, possibly with an answer and an unlock.
Flow(r, l) ==
    /\ pc' = [pc EXCEPT ![r] = l]
    /\ \E a \in Answers : answer' = [answer EXCEPT ![r] = a]
    /\ lock' \in [Brokers -> Requests \cup {None}]
    /\ UNCHANGED call

\* The instance, and the operation, of a request that has arrived.
LEMMA CallFields ==
  ASSUME TypeOK, NEW r \in Requests, pc[r] # "idle"
  PROVE  /\ call[r] \in Calls
         /\ Inst(r) \in Instances
         /\ call[r].op \in OpNames
         /\ call[r].op \in {"bind", "unbind"} => Binding(r) \in Bindings
BY DEF TypeOK, CallTypeOK, Calls, InstanceCalls, BindingCalls, Inst, OpNames, Binding

\* The three ways on: to another label, to the end, and to the background.
LEMMA GotoFlow ==
  ASSUME TypeOK, NEW r \in Requests, NEW l, Goto(r, l), UNCHANGED call
  PROVE  Flow(r, l)
<1>1. answer' = [answer EXCEPT ![r] = answer[r]]
  BY DEF TypeOK, CallTypeOK, Goto
<1>2. answer[r] \in Answers
  BY DEF TypeOK, CallTypeOK
<1> QED BY <1>1, <1>2 DEF TypeOK, CallTypeOK, Goto, Flow

\* A reply changes one answer and leaves locks of their type.
LEMMA ReplyFlow ==
  ASSUME TypeOK, NEW r \in Requests, NEW a \in Answers, Reply(r, a)
  PROVE  /\ \E b \in Answers : answer' = [answer EXCEPT ![r] = b]
         /\ lock' \in [Brokers -> Requests \cup {None}]
BY DEF TypeOK, CallTypeOK, Reply

\* A handler that returns, or a goroutine that ends, is done.
LEMMA FinishFlow ==
  ASSUME TypeOK, NEW r \in Requests, NEW a \in Answers, Finish(r, a), UNCHANGED call
  PROVE  Flow(r, "done")
<1>1. CASE answer[r] = None
  BY <1>1, ReplyFlow DEF Finish, Flow
<1>2. CASE answer[r] # None
  <2>1. answer' = [answer EXCEPT ![r] = answer[r]]
    BY <1>2 DEF TypeOK, CallTypeOK, Finish
  <2>2. answer[r] \in Answers
    BY DEF TypeOK, CallTypeOK
  <2> QED BY <1>2, <2>1, <2>2 DEF TypeOK, CallTypeOK, Finish, Flow
<1> QED BY <1>1, <1>2

\* `go func()`: the request goes on at the label of its goroutine.
LEMMA DetachFlow ==
  ASSUME TypeOK, NEW r \in Requests, NEW l, Detach(r, l), UNCHANGED call
  PROVE  Flow(r, l)
<1>1. "accepted" \in Answers BY DEF Answers
<1> QED BY <1>1, ReplyFlow DEF Detach, Flow

\* A failed operation goes on to report it, or is over.
LEMMA FailedFlow ==
  ASSUME TypeOK, NEW r \in Requests, OperationFailed(r), UNCHANGED call
  PROVE  Flow(r, "fail") \/ Flow(r, "done")
<1>1. "error" \in Answers BY DEF Answers
<1> QED BY <1>1, GotoFlow, FinishFlow DEF OperationFailed

-----------------------------------------------------------------------------
(* Updates *)

\* updateConfigMap at request r: its Get, or its end with or without a write,
\* after which r goes on at one of the labels.
Update(r, labels, new) ==
    /\ UNCHANGED <<target, creds>>
    /\ \/ /\ configMap[Inst(r)] # None
          /\ copy' = [copy EXCEPT ![r] = configMap[Inst(r)]]
          /\ UNCHANGED <<call, pc, answer, lock, clusterVars>>
       \/ /\ \E l \in labels : Flow(r, l)
          /\ copy' = [copy EXCEPT ![r] = None]
          /\ \/ UNCHANGED clusterVars
             \/ copy[r] # None /\ Current(Inst(r), copy[r]) /\ Replace(Inst(r), new)

\* Every use of UpdateConfigMap is an Update to the labels of its outcomes.
LEMMA AnyUpdate ==
  ASSUME TypeOK, NEW r \in Requests, NEW labels, NEW new,
         NEW ACTION ok, NEW ACTION bad,
         UpdateConfigMap(r, new, ok, bad),
         ok => \E l \in labels : Flow(r, l),
         bad => \E l \in labels : Flow(r, l)
  PROVE  Update(r, labels, new)
<1>1. copy[r] = None => copy = [copy EXCEPT ![r] = None]
  BY DEF TypeOK, CallTypeOK
<1> QED BY <1>1 DEF UpdateConfigMap, ReadConfigMap, Update

\* Both operations' "in progress" mark (Provision, Deprovision).
LEMMA MarkUpdate ==
  ASSUME TypeOK, NEW r \in Requests, MarkInProgress(r)
  PROVE  Update(r, {IF call[r].op = "provision" THEN "install" ELSE "uninstall", "done"},
                [copy[r] EXCEPT !.opState = "in progress", !.opName = r])
<1> DEFINE next == IF call[r].op = "provision" THEN "install" ELSE "uninstall"
<1>1. UNCHANGED call BY DEF MarkInProgress, UpdateConfigMap
<1>2. Detach(r, next) => \E l \in {next, "done"} : Flow(r, l) BY <1>1, DetachFlow
<1>3. Finish(r, "error") => \E l \in {next, "done"} : Flow(r, l) BY <1>1, FinishFlow DEF Answers
<1> QED BY <1>2, <1>3, AnyUpdate DEF MarkInProgress

\* Provision's record of its release.
LEMMA RecordUpdate ==
  ASSUME TypeOK, NEW r \in Requests, RecordRelease(r)
  PROVE  Update(r, {"succeed", "fail", "done"},
                [copy[r] EXCEPT !.release = r])
<1>1. UNCHANGED call BY DEF RecordRelease, UpdateConfigMap
<1>2. (IF call[r].async THEN Goto(r, "succeed") ELSE Finish(r, "ok")) => \E l \in {"succeed", "fail", "done"} : Flow(r, l)
  BY <1>1, GotoFlow, FinishFlow DEF Answers
<1>3. OperationFailed(r) => \E l \in {"succeed", "fail", "done"} : Flow(r, l)
  BY <1>1, FailedFlow
<1> QED BY <1>2, <1>3, AnyUpdate DEF RecordRelease

\* Provision's "succeeded".
LEMMA SuccessUpdate ==
  ASSUME TypeOK, NEW r \in Requests, ReportSuccess(r)
  PROVE  Update(r, {"done"},
                [copy[r] EXCEPT !.opState = "succeeded"])
<1>1. UNCHANGED call BY DEF ReportSuccess, UpdateConfigMap
<1>2. Finish(r, "ok") => \E l \in {"done"} : Flow(r, l)
  BY <1>1, FinishFlow DEF Answers
<1>3. Finish(r, "error") => \E l \in {"done"} : Flow(r, l)
  BY <1>1, FinishFlow DEF Answers
<1> QED BY <1>2, <1>3, AnyUpdate DEF ReportSuccess

\* The "failed" of Provision and Deprovision.
LEMMA FailureUpdate ==
  ASSUME TypeOK, NEW r \in Requests, ReportFailure(r)
  PROVE  Update(r, {"done"},
                [copy[r] EXCEPT !.opState = "failed"])
<1>1. UNCHANGED call BY DEF ReportFailure, UpdateConfigMap
<1>2. Finish(r, "error") => \E l \in {"done"} : Flow(r, l)
  BY <1>1, FinishFlow DEF Answers
<1>3. Finish(r, "error") => \E l \in {"done"} : Flow(r, l)
  BY <1>1, FinishFlow DEF Answers
<1> QED BY <1>2, <1>3, AnyUpdate DEF ReportFailure

\* Bind's credentials.
LEMMA StoreUpdate ==
  ASSUME TypeOK, NEW r \in Requests, StoreBinding(r)
  PROVE  Update(r, {"succeed", "fail"},
                [copy[r] EXCEPT !.binding[Binding(r)] = creds[r]])
<1>1. UNCHANGED call BY DEF StoreBinding, UpdateConfigMap
<1>2. Goto(r, "succeed") => \E l \in {"succeed", "fail"} : Flow(r, l)
  BY <1>1, GotoFlow
<1>3. Goto(r, "fail") => \E l \in {"succeed", "fail"} : Flow(r, l)
  BY <1>1, GotoFlow
<1> QED BY <1>2, <1>3, AnyUpdate DEF StoreBinding

\* Bind's result, of either outcome.
LEMMA BindingUpdate ==
  ASSUME TypeOK, NEW r \in Requests, ReportBinding(r)
  PROVE  \E state \in {"succeeded", "failed"} :
            Update(r, {"check", "done"}, [copy[r] EXCEPT !.bindState[Binding(r)] = state])
<1> DEFINE new(outcome) == [copy[r] EXCEPT !.bindState[Binding(r)] =
                              IF outcome = "succeed" THEN "succeeded" ELSE "failed"]
           ok == IF call[r].async THEN Finish(r, "ok") ELSE Goto(r, "check")
<1>1. PICK outcome \in {"succeed", "fail"} :
        UpdateConfigMap(r, new(outcome), ok, Finish(r, "error"))
  BY DEF ReportBinding
<1>2. UNCHANGED call BY <1>1 DEF UpdateConfigMap
<1>3. ok => \E l \in {"check", "done"} : Flow(r, l)
  BY <1>2, GotoFlow, FinishFlow DEF Answers
<1>4. Finish(r, "error") => \E l \in {"check", "done"} : Flow(r, l)
  BY <1>2, FinishFlow DEF Answers
<1>5. Update(r, {"check", "done"}, new(outcome))
  <2> HIDE DEF new, ok
  <2> QED BY <1>1, <1>3, <1>4, AnyUpdate
<1> QED BY <1>5

\* Unbind's removal of both keys.
LEMMA RemoveUpdate ==
  ASSUME TypeOK, NEW r \in Requests, RemoveBinding(r)
  PROVE  Update(r, {"done"},
                [copy[r] EXCEPT !.binding[Binding(r)] = {}, !.bindState[Binding(r)] = None])
<1>1. UNCHANGED call BY DEF RemoveBinding, UpdateConfigMap
<1>2. Finish(r, "ok") => \E l \in {"done"} : Flow(r, l)
  BY <1>1, FinishFlow DEF Answers
<1>3. Finish(r, "error") => \E l \in {"done"} : Flow(r, l)
  BY <1>1, FinishFlow DEF Answers
<1> QED BY <1>2, <1>3, AnyUpdate DEF RemoveBinding

-----------------------------------------------------------------------------
(* Types *)

\* Control moves within the labels of its operation.
LEMMA FlowType ==
  ASSUME TypeOK, NEW r \in Requests, pc[r] # "idle",
         NEW l \in LabelsOf(call[r].op) \cup {"done"}, Flow(r, l),
         copy' \in [Requests -> ConfigMaps \cup {None}],
         target' \in [Requests -> Requests \cup {None}],
         creds' \in [Requests -> Credentials]
  PROVE  CallTypeOK'
<1>1. l \in Labels BY CallFields DEF Labels
<1>2. pc' \in [Requests -> Labels] BY <1>1 DEF TypeOK, CallTypeOK, Flow
<1>3. answer' \in [Requests -> Answers] BY DEF TypeOK, CallTypeOK, Flow
<1>4. ASSUME NEW q \in Requests
      PROVE  /\ pc'[q] # "idle" => call'[q] \in Calls
             /\ Live(q)' => pc'[q] \in LabelsOf(call'[q].op)
  BY DEF TypeOK, CallTypeOK, Flow, Live
<1> QED BY <1>2, <1>3, <1>4 DEF TypeOK, CallTypeOK, Flow

\* A ConfigMap that is stored is one of its type.
LEMMA StoreType ==
  ASSUME ClusterTypeOK, NEW i \in Instances, NEW config \in ConfigMaps, Store(i, config)
  PROVE  ClusterTypeOK'
BY DEF ClusterTypeOK, Store

\* So is one that replaces another.
LEMMA ReplaceType ==
  ASSUME ClusterTypeOK, NEW i \in Instances, NEW config \in ConfigMaps, Replace(i, config)
  PROVE  ClusterTypeOK'
<1>1. [config EXCEPT !.version = revision + 1] \in ConfigMaps
  BY DEF ClusterTypeOK, ConfigMaps
<1> QED BY <1>1, StoreType DEF Replace, clusterVars, ClusterTypeOK

\* An update keeps every variable in its type.
LEMMA UpdateType ==
  ASSUME TypeOK, NEW r \in Requests, pc[r] # "idle",
         NEW labels \in SUBSET (LabelsOf(call[r].op) \cup {"done"}), NEW new,
         copy[r] # None => new \in ConfigMaps,
         Update(r, labels, new)
  PROVE  TypeOK'
<1>1. CASE /\ configMap[Inst(r)] # None
           /\ copy' = [copy EXCEPT ![r] = configMap[Inst(r)]]
           /\ UNCHANGED <<call, pc, answer, lock, clusterVars>>
  <2>1. configMap[Inst(r)] \in ConfigMaps
    BY <1>1, CallFields DEF TypeOK, ClusterTypeOK
  <2> QED BY <1>1, <2>1 DEF TypeOK, ClusterTypeOK, CallTypeOK, clusterVars, Update, Live
<1>2. CASE /\ \E l \in labels : Flow(r, l)
           /\ copy' = [copy EXCEPT ![r] = None]
           /\ \/ UNCHANGED clusterVars
              \/ copy[r] # None /\ Current(Inst(r), copy[r]) /\ Replace(Inst(r), new)
  <2>1. ClusterTypeOK'
    BY <1>2, ReplaceType, CallFields DEF TypeOK, ClusterTypeOK, clusterVars
  <2>2. PICK l \in labels : Flow(r, l) BY <1>2
  <2>3. /\ copy' \in [Requests -> ConfigMaps \cup {None}]
        /\ target' \in [Requests -> Requests \cup {None}]
        /\ creds' \in [Requests -> Credentials]
    BY <1>2 DEF TypeOK, CallTypeOK, Update
  <2>4. CallTypeOK' BY <2>2, <2>3, FlowType
  <2> QED BY <2>1, <2>4 DEF TypeOK
<1> QED BY <1>1, <1>2 DEF Update

\* The broker starts with every variable in its type.
LEMMA InitType == Init => TypeOK
BY DEF Init, ClusterInit, CallInit, TypeOK, ClusterTypeOK, CallTypeOK, Labels, Answers, Credentials, Live

\* Which operation makes an API call.
LEMMA OpOfLabel ==
  ASSUME TypeOK, NEW r \in Requests, pc[r] \notin {"idle", "done", "dead"}
  PROVE  /\ pc[r] \in {"create", "install", "label", "record"} => call[r].op = "provision"
         /\ pc[r] \in {"lookup", "uninstall", "delete"} => call[r].op = "deprovision"
         /\ pc[r] = "mark" => call[r].op \in {"provision", "deprovision"}
         /\ pc[r] \in {"find", "listServices", "listSecrets", "store", "check", "fetch"}
               => call[r].op = "bind"
         /\ pc[r] = "remove" => call[r].op = "unbind"
         /\ pc[r] = "lock" => call[r].op \in {"provision", "deprovision", "bind"}
<1>1. pc[r] \in LabelsOf(call[r].op) BY DEF TypeOK, CallTypeOK, Live
<1>2. call[r].op \in OpNames BY CallFields
<1> QED BY <1>1, <1>2 DEF LabelsOf, OpNames

\* The scratch variables, when an action leaves them alone.
LEMMA Scratch ==
  ASSUME TypeOK
  PROVE  /\ copy \in [Requests -> ConfigMaps \cup {None}]
         /\ target \in [Requests -> Requests \cup {None}]
         /\ creds \in [Requests -> Credentials]
BY DEF TypeOK, CallTypeOK

\* What updateConfigMap may do to a ConfigMap: each change gives a ConfigMap of
\* the same creator, and all but one keep its release.
LEMMA StateChange ==
  ASSUME NEW c \in ConfigMaps, NEW s \in OpStates
  PROVE  /\ [c EXCEPT !.opState = s] \in ConfigMaps
         /\ [c EXCEPT !.opState = s].uid = c.uid
         /\ [c EXCEPT !.opState = s].release = c.release
         /\ [c EXCEPT !.opState = s].binding = c.binding
BY DEF ConfigMaps

\* The mark of an operation.
LEMMA MarkChange ==
  ASSUME NEW c \in ConfigMaps, NEW s \in OpStates, NEW r \in Requests
  PROVE  /\ [c EXCEPT !.opState = s, !.opName = r] \in ConfigMaps
         /\ [c EXCEPT !.opState = s, !.opName = r].uid = c.uid
         /\ [c EXCEPT !.opState = s, !.opName = r].release = c.release
         /\ [c EXCEPT !.opState = s, !.opName = r].binding = c.binding
BY DEF ConfigMaps

\* The record of a release.
LEMMA ReleaseChange ==
  ASSUME NEW c \in ConfigMaps, NEW r \in Requests
  PROVE  /\ [c EXCEPT !.release = r] \in ConfigMaps
         /\ [c EXCEPT !.release = r].uid = c.uid
         /\ [c EXCEPT !.release = r].release = r
         /\ [c EXCEPT !.release = r].binding = c.binding
BY DEF ConfigMaps

\* Credentials under the key of a binding.
LEMMA BindingChange ==
  ASSUME NEW c \in ConfigMaps, NEW b \in Bindings, NEW x \in Credentials
  PROVE  /\ [c EXCEPT !.binding[b] = x] \in ConfigMaps
         /\ [c EXCEPT !.binding[b] = x].uid = c.uid
         /\ [c EXCEPT !.binding[b] = x].release = c.release
         /\ \A d \in Bindings :
               [c EXCEPT !.binding[b] = x].binding[d] = IF d = b THEN x ELSE c.binding[d]
BY DEF ConfigMaps

\* The state of a binding.
LEMMA BindStateChange ==
  ASSUME NEW c \in ConfigMaps, NEW b \in Bindings, NEW s \in BindStates
  PROVE  /\ [c EXCEPT !.bindState[b] = s] \in ConfigMaps
         /\ [c EXCEPT !.bindState[b] = s].uid = c.uid
         /\ [c EXCEPT !.bindState[b] = s].release = c.release
         /\ [c EXCEPT !.bindState[b] = s].binding = c.binding
BY DEF ConfigMaps

\* Both keys of a binding are removed.
LEMMA RemovalChange ==
  ASSUME NEW c \in ConfigMaps, NEW b \in Bindings
  PROVE  /\ [c EXCEPT !.binding[b] = {}, !.bindState[b] = None] \in ConfigMaps
         /\ [c EXCEPT !.binding[b] = {}, !.bindState[b] = None].uid = c.uid
         /\ [c EXCEPT !.binding[b] = {}, !.bindState[b] = None].release = c.release
         /\ \A d \in Bindings :
               [c EXCEPT !.binding[b] = {}, !.bindState[b] = None].binding[d] = IF d = b THEN {} ELSE c.binding[d]
<1>1. {} \in Credentials /\ None \in BindStates BY DEF Credentials, BindStates
<1> QED BY <1>1 DEF ConfigMaps

\* A copy in hand is a ConfigMap, and credentials in hand are credentials.
LEMMA CopyType ==
  ASSUME TypeOK, NEW r \in Requests
  PROVE  /\ copy[r] # None => copy[r] \in ConfigMaps
         /\ creds[r] \in Credentials
BY DEF TypeOK, CallTypeOK

\* An action of request r that makes one API call and no update.
LEMMA StepType ==
  ASSUME TypeOK, NEW r \in Requests, pc[r] # "idle",
         \E l \in LabelsOf(call[r].op) \cup {"done"} : Flow(r, l),
         ClusterTypeOK',
         copy' \in [Requests -> ConfigMaps \cup {None}],
         target' \in [Requests -> Requests \cup {None}],
         creds' \in [Requests -> Credentials]
  PROVE  TypeOK'
BY FlowType DEF TypeOK

\* What Provision creates is a ConfigMap.
LEMMA NewConfigMapType ==
  ASSUME ClusterTypeOK, NEW r \in Requests
  PROVE  NewConfigMap(r) \in ConfigMaps
<1>1. [b \in Bindings |-> {}] \in [Bindings -> Credentials] BY DEF Credentials
<1>2. [b \in Bindings |-> None] \in [Bindings -> BindStates] BY DEF BindStates
<1>3. revision + 1 \in Nat BY DEF ClusterTypeOK
<1>4. None \in OpStates BY DEF OpStates
<1> QED BY <1>1, <1>2, <1>3, <1>4 DEF NewConfigMap, ConfigMaps

\* Provision's Create keeps the types.
LEMMA CreateType ==
  ASSUME TypeOK, NEW r \in Requests, CreateConfigMap(r)
  PROVE  TypeOK'
<1>1. pc[r] = "create" /\ call[r].op = "provision" /\ Inst(r) \in Instances
  BY OpOfLabel, CallFields DEF CreateConfigMap
<1>2. \E l \in {"mark", "install", "done"} : Flow(r, l)
  BY GotoFlow, FinishFlow DEF CreateConfigMap, Answers
<1>3. ClusterTypeOK'
  BY <1>1, StoreType, NewConfigMapType DEF CreateConfigMap, TypeOK, ClusterTypeOK, clusterVars
<1>4. UNCHANGED <<copy, target, creds>> BY DEF CreateConfigMap
<1> QED BY <1>1, <1>2, <1>3, <1>4, Scratch, StepType DEF LabelsOf

\* Helm's install keeps the types.
LEMMA InstallType ==
  ASSUME TypeOK, NEW r \in Requests, Install(r)
  PROVE  TypeOK'
<1>1. pc[r] = "install" /\ call[r].op = "provision"
  BY OpOfLabel DEF Install
<1>2. \E l \in {"label", "fail", "done"} : Flow(r, l)
  BY GotoFlow, FailedFlow DEF Install
<1>3. ClusterTypeOK'
  BY DEF Install, AddRelease, TypeOK, ClusterTypeOK, clusterVars
<1>4. UNCHANGED <<copy, target, creds>> BY DEF Install
<1> QED BY <1>1, <1>2, <1>3, <1>4, Scratch, StepType DEF LabelsOf

\* Labelling an object keeps the types.
LEMMA LabelType ==
  ASSUME TypeOK, NEW r \in Requests, LabelResources(r)
  PROVE  TypeOK'
<1>1. pc[r] = "label" /\ call[r].op = "provision"
  BY OpOfLabel DEF LabelResources
<1>2. \E l \in {"label", "record", "fail", "done"} : Flow(r, l)
  BY GotoFlow, FailedFlow DEF LabelResources
<1>3. NextToLabel(r) \subseteq Resources
  BY DEF NextToLabel, Unlabelled
<1>4. ClusterTypeOK'
  BY <1>3 DEF LabelResources, AddLabel, TypeOK, ClusterTypeOK, clusterVars
<1>5. UNCHANGED <<copy, target, creds>> BY DEF LabelResources
<1> QED BY <1>1, <1>2, <1>4, <1>5, Scratch, StepType DEF LabelsOf

\* Deprovision's Get keeps the types.
LEMMA LookUpType ==
  ASSUME TypeOK, NEW r \in Requests, LookUpRelease(r)
  PROVE  TypeOK'
<1>1. pc[r] = "lookup" /\ call[r].op = "deprovision" /\ Inst(r) \in Instances
  BY OpOfLabel, CallFields DEF LookUpRelease
<1>2. \E l \in {"mark", "uninstall", "done"} : Flow(r, l)
  BY GotoFlow, FinishFlow DEF LookUpRelease, Answers
<1>3. UNCHANGED <<copy, creds, clusterVars>> BY DEF LookUpRelease
<1>4. target' \in [Requests -> Requests \cup {None}]
  BY <1>1 DEF LookUpRelease, TypeOK, ClusterTypeOK, CallTypeOK, ConfigMaps
<1>5. ClusterTypeOK' BY <1>3 DEF TypeOK, ClusterTypeOK, clusterVars
<1> QED BY <1>1, <1>2, <1>3, <1>4, <1>5, Scratch, StepType DEF LabelsOf

\* Helm's uninstall keeps the types.
LEMMA UninstallType ==
  ASSUME TypeOK, NEW r \in Requests, Uninstall(r)
  PROVE  TypeOK'
<1>1. pc[r] = "uninstall" /\ call[r].op = "deprovision"
  BY OpOfLabel DEF Uninstall
<1>2. \E l \in {"delete", "fail", "done"} : Flow(r, l)
  BY GotoFlow, FailedFlow DEF Uninstall
<1>3. ClusterTypeOK'
  BY DEF Uninstall, DropRelease, TypeOK, ClusterTypeOK, clusterVars
<1>4. UNCHANGED <<copy, target, creds>> BY DEF Uninstall
<1> QED BY <1>1, <1>2, <1>3, <1>4, Scratch, StepType DEF LabelsOf

\* Deprovision's Delete keeps the types.
LEMMA DeleteType ==
  ASSUME TypeOK, NEW r \in Requests, DeleteConfigMap(r)
  PROVE  TypeOK'
<1>1. pc[r] = "delete" /\ call[r].op = "deprovision"
  BY OpOfLabel DEF DeleteConfigMap
<1>2. \E l \in {"fail", "done"} : Flow(r, l)
  BY FinishFlow, FailedFlow DEF DeleteConfigMap, Answers
<1>3. ClusterTypeOK'
  BY DEF DeleteConfigMap, Remove, TypeOK, ClusterTypeOK, clusterVars
<1>4. UNCHANGED <<copy, target, creds>> BY DEF DeleteConfigMap
<1> QED BY <1>1, <1>2, <1>3, <1>4, Scratch, StepType DEF LabelsOf

\* Bind's Get keeps the types.
LEMMA FindType ==
  ASSUME TypeOK, NEW r \in Requests, FindInstance(r)
  PROVE  TypeOK'
<1>1. pc[r] = "find" /\ call[r].op = "bind" /\ Inst(r) \in Instances
  BY OpOfLabel, CallFields DEF FindInstance
<1>2. \E l \in {"listServices", "done"} : Flow(r, l)
  BY GotoFlow, FinishFlow, DetachFlow DEF FindInstance, Answers
<1>3. UNCHANGED <<copy, creds, clusterVars>> BY DEF FindInstance
<1>4. ClusterTypeOK' BY <1>3 DEF TypeOK, ClusterTypeOK, clusterVars
<1>5. target' \in [Requests -> Requests \cup {None}]
  BY <1>1 DEF FindInstance, TypeOK, ClusterTypeOK, CallTypeOK, ConfigMaps
<1> QED BY <1>1, <1>2, <1>3, <1>4, <1>5, Scratch, StepType DEF LabelsOf

\* Bind's list of services keeps the types.
LEMMA ListServicesType ==
  ASSUME TypeOK, NEW r \in Requests, ListServices(r)
  PROVE  TypeOK'
<1>1. pc[r] = "listServices" /\ call[r].op = "bind" /\ Inst(r) \in Instances
  BY OpOfLabel, CallFields DEF ListServices
<1>2. \E l \in {"listSecrets", "fail"} : Flow(r, l)
  BY GotoFlow DEF ListServices, Answers
<1>3. UNCHANGED <<copy, target, creds, clusterVars>> BY DEF ListServices
<1>4. ClusterTypeOK' BY <1>3 DEF TypeOK, ClusterTypeOK, clusterVars
<1> QED BY <1>1, <1>2, <1>3, <1>4, Scratch, StepType DEF LabelsOf

\* The secrets a bind gathers are credentials.
LEMMA ListSecretsType ==
  ASSUME TypeOK, NEW r \in Requests, ListSecrets(r)
  PROVE  TypeOK'
<1>1. pc[r] = "listSecrets" /\ call[r].op = "bind" /\ Inst(r) \in Instances
  BY OpOfLabel, CallFields DEF ListSecrets
<1>2. \E l \in {"store", "fail"} : Flow(r, l)
  BY GotoFlow DEF ListSecrets, Answers
<1>3. UNCHANGED <<copy, target, clusterVars>> BY DEF ListSecrets
<1>4. ClusterTypeOK' BY <1>3 DEF TypeOK, ClusterTypeOK, clusterVars
<1>5. Visible(r, Secrets) \in Credentials
  BY DEF Visible, Credentials, TypeOK, ClusterTypeOK
<1>6. creds' \in [Requests -> Credentials]
  BY <1>5, Scratch DEF ListSecrets
<1> QED BY <1>1, <1>2, <1>3, <1>4, <1>6, Scratch, StepType DEF LabelsOf

\* The check of a synchronous bind's state keeps the types.
LEMMA CheckType ==
  ASSUME TypeOK, NEW r \in Requests, CheckBindState(r)
  PROVE  TypeOK'
<1>1. pc[r] = "check" /\ call[r].op = "bind" /\ Inst(r) \in Instances
  BY OpOfLabel, CallFields DEF CheckBindState
<1>2. \E l \in {"fetch", "done"} : Flow(r, l)
  BY GotoFlow, FinishFlow DEF CheckBindState, Answers
<1>3. UNCHANGED <<copy, target, creds, clusterVars>> BY DEF CheckBindState
<1>4. ClusterTypeOK' BY <1>3 DEF TypeOK, ClusterTypeOK, clusterVars
<1> QED BY <1>1, <1>2, <1>3, <1>4, Scratch, StepType DEF LabelsOf

\* The credentials a synchronous bind is answered with are credentials.
LEMMA FetchType ==
  ASSUME TypeOK, NEW r \in Requests, FetchBinding(r)
  PROVE  TypeOK'
<1>1. pc[r] = "fetch" /\ call[r].op = "bind" /\ Inst(r) \in Instances
  BY OpOfLabel, CallFields DEF FetchBinding
<1>2. \E l \in {"done"} : Flow(r, l)
  BY FinishFlow DEF FetchBinding, Answers
<1>3. UNCHANGED <<copy, target, clusterVars>> BY DEF FetchBinding
<1>4. ClusterTypeOK' BY <1>3 DEF TypeOK, ClusterTypeOK, clusterVars
<1>5. Binding(r) \in Bindings BY <1>1, CallFields DEF FetchBinding
<1>6. GetBinding(Inst(r), Binding(r)) \in Credentials
  BY <1>1, <1>5 DEF GetBinding, TypeOK, ClusterTypeOK, ConfigMaps, Credentials
<1>7. creds' \in [Requests -> Credentials]
  BY <1>6, Scratch DEF FetchBinding
<1> QED BY <1>1, <1>2, <1>3, <1>4, <1>7, Scratch, StepType DEF LabelsOf

\* The "in progress" mark keeps the types.
LEMMA MarkType ==
  ASSUME TypeOK, NEW r \in Requests, MarkInProgress(r)
  PROVE  TypeOK'
<1>1. pc[r] = "mark" /\ call[r].op \in {"provision", "deprovision"}
  BY OpOfLabel, CallFields DEF MarkInProgress
<1>2. {IF call[r].op = "provision" THEN "install" ELSE "uninstall", "done"} \subseteq LabelsOf(call[r].op) \cup {"done"}
  BY <1>1 DEF LabelsOf
<1>3. copy[r] # None => [copy[r] EXCEPT !.opState = "in progress", !.opName = r] \in ConfigMaps
  BY <1>1, CopyType, MarkChange DEF OpStates
<1> QED BY <1>1, <1>2, <1>3, MarkUpdate, UpdateType

\* Recording the release keeps the types.
LEMMA RecordType ==
  ASSUME TypeOK, NEW r \in Requests, RecordRelease(r)
  PROVE  TypeOK'
<1>1. pc[r] = "record" /\ call[r].op = "provision"
  BY OpOfLabel, CallFields DEF RecordRelease
<1>2. {"succeed", "fail", "done"} \subseteq LabelsOf(call[r].op) \cup {"done"}
  BY <1>1 DEF LabelsOf
<1>3. copy[r] # None => [copy[r] EXCEPT !.release = r] \in ConfigMaps
  BY <1>1, CopyType, ReleaseChange
<1> QED BY <1>1, <1>2, <1>3, RecordUpdate, UpdateType

\* Reporting success keeps the types.
LEMMA SuccessType ==
  ASSUME TypeOK, NEW r \in Requests, ReportSuccess(r)
  PROVE  TypeOK'
<1>1. pc[r] = "succeed" /\ call[r].op = "provision"
  BY OpOfLabel, CallFields DEF ReportSuccess
<1>2. {"done"} \subseteq LabelsOf(call[r].op) \cup {"done"}
  BY <1>1 DEF LabelsOf
<1>3. copy[r] # None => [copy[r] EXCEPT !.opState = "succeeded"] \in ConfigMaps
  BY <1>1, CopyType, StateChange DEF OpStates
<1> QED BY <1>1, <1>2, <1>3, SuccessUpdate, UpdateType

\* Reporting failure keeps the types.
LEMMA FailureType ==
  ASSUME TypeOK, NEW r \in Requests, ReportFailure(r)
  PROVE  TypeOK'
<1>1. pc[r] = "fail" /\ call[r].op \in {"provision", "deprovision"}
  BY OpOfLabel, CallFields DEF ReportFailure
<1>2. {"done"} \subseteq LabelsOf(call[r].op) \cup {"done"}
  BY <1>1 DEF LabelsOf
<1>3. copy[r] # None => [copy[r] EXCEPT !.opState = "failed"] \in ConfigMaps
  BY <1>1, CopyType, StateChange DEF OpStates
<1> QED BY <1>1, <1>2, <1>3, FailureUpdate, UpdateType

\* Storing credentials keeps the types.
LEMMA StoreBindingType ==
  ASSUME TypeOK, NEW r \in Requests, StoreBinding(r)
  PROVE  TypeOK'
<1>1. pc[r] = "store" /\ call[r].op = "bind" /\ Binding(r) \in Bindings
  BY OpOfLabel, CallFields DEF StoreBinding
<1>2. {"succeed", "fail"} \subseteq LabelsOf(call[r].op) \cup {"done"}
  BY <1>1 DEF LabelsOf
<1>3. copy[r] # None => [copy[r] EXCEPT !.binding[Binding(r)] = creds[r]] \in ConfigMaps
  BY <1>1, CopyType, BindingChange
<1> QED BY <1>1, <1>2, <1>3, StoreUpdate, UpdateType

\* Unbind keeps the types.
LEMMA RemoveType ==
  ASSUME TypeOK, NEW r \in Requests, RemoveBinding(r)
  PROVE  TypeOK'
<1>1. pc[r] = "remove" /\ call[r].op = "unbind" /\ Binding(r) \in Bindings
  BY OpOfLabel, CallFields DEF RemoveBinding
<1>2. {"done"} \subseteq LabelsOf(call[r].op) \cup {"done"}
  BY <1>1 DEF LabelsOf
<1>3. copy[r] # None => [copy[r] EXCEPT !.binding[Binding(r)] = {}, !.bindState[Binding(r)] = None] \in ConfigMaps
  BY <1>1, CopyType, RemovalChange
<1> QED BY <1>1, <1>2, <1>3, RemoveUpdate, UpdateType

\* Reporting a bind keeps the types.
LEMMA ReportBindingType ==
  ASSUME TypeOK, NEW r \in Requests, ReportBinding(r)
  PROVE  TypeOK'
<1>1. pc[r] \in {"succeed", "fail"} /\ call[r].op = "bind" /\ Binding(r) \in Bindings
  BY CallFields DEF ReportBinding
<1>2. PICK state \in {"succeeded", "failed"} :
        Update(r, {"check", "done"}, [copy[r] EXCEPT !.bindState[Binding(r)] = state])
  BY BindingUpdate
<1>3. {"check", "done"} \subseteq LabelsOf(call[r].op) \cup {"done"}
  BY <1>1 DEF LabelsOf
<1>4. copy[r] # None => [copy[r] EXCEPT !.bindState[Binding(r)] = state] \in ConfigMaps
  BY <1>1, CopyType, BindStateChange DEF BindStates
<1> QED BY <1>1, <1>2, <1>3, <1>4, UpdateType

\* Taking Broker.Lock keeps the types.
LEMMA AcquireType ==
  ASSUME TypeOK, NEW r \in Requests, Acquire(r)
  PROVE  TypeOK'
<1>1. pc[r] = "lock" /\ call[r].op \in {"provision", "deprovision", "bind"}
  BY OpOfLabel DEF Acquire
<1>2. FirstStep(call[r].op) \in LabelsOf(call[r].op)
  BY <1>1 DEF FirstStep, LabelsOf
<1>3. Flow(r, FirstStep(call[r].op))
  <2>1. answer' = [answer EXCEPT ![r] = answer[r]] /\ answer[r] \in Answers
    BY DEF Acquire, TypeOK, CallTypeOK
  <2> QED BY <2>1 DEF Acquire, Flow, TypeOK, CallTypeOK
<1>4. ClusterTypeOK' BY DEF Acquire, TypeOK, ClusterTypeOK, clusterVars
<1>5. UNCHANGED <<copy, target, creds>> BY DEF Acquire
<1> QED BY <1>1, <1>2, <1>3, <1>4, <1>5, Scratch, StepType

\* The arrival of a call keeps the types.
LEMMA ReceiveType ==
  ASSUME TypeOK, NEW r \in Requests, Receive(r)
  PROVE  TypeOK'
<1>1. PICK c \in Calls :
        /\ call' = [call EXCEPT ![r] = c]
        /\ pc' = [pc EXCEPT ![r] = IF c.op = "unbind" THEN "remove" ELSE "lock"]
  BY DEF Receive
<1>2. c.op \in OpNames BY DEF Calls, InstanceCalls, BindingCalls, OpNames
<1>3. pc'[r] \in LabelsOf(c.op) /\ pc'[r] \in Labels
  BY <1>1, <1>2 DEF LabelsOf, Labels, OpNames, TypeOK, CallTypeOK
<1>4. pc' \in [Requests -> Labels] /\ call' \in [Requests -> Calls \cup {None}]
  BY <1>1, <1>3 DEF TypeOK, CallTypeOK
<1>5. ASSUME NEW q \in Requests
      PROVE  /\ pc'[q] # "idle" => call'[q] \in Calls
             /\ Live(q)' => pc'[q] \in LabelsOf(call'[q].op)
  BY <1>1, <1>3 DEF TypeOK, CallTypeOK, Live
<1>6. UNCHANGED <<copy, target, creds, answer, lock, clusterVars>> BY DEF Receive
<1> QED BY <1>4, <1>5, <1>6 DEF TypeOK, ClusterTypeOK, CallTypeOK, clusterVars

\* The end of a process keeps the types.
LEMMA CrashType ==
  ASSUME TypeOK, NEW k \in Brokers, Crash(k)
  PROVE  TypeOK'
<1>1. pc' \in [Requests -> Labels] BY DEF Crash, TypeOK, CallTypeOK, Labels
<1>2. ASSUME NEW q \in Requests
      PROVE  /\ pc'[q] # "idle" => call'[q] \in Calls
             /\ Live(q)' => pc'[q] \in LabelsOf(call'[q].op)
  BY DEF Crash, TypeOK, CallTypeOK, Live
<1>3. lock' \in [Brokers -> Requests \cup {None}] BY DEF Crash, TypeOK, CallTypeOK
<1>4. UNCHANGED <<call, copy, target, creds, answer, clusterVars>> BY DEF Crash
<1> QED BY <1>1, <1>2, <1>3, <1>4 DEF TypeOK, ClusterTypeOK, CallTypeOK, clusterVars

\* Doing nothing keeps the types.
LEMMA StutterType ==
  ASSUME TypeOK, UNCHANGED vars
  PROVE  TypeOK'
BY DEF TypeOK, ClusterTypeOK, CallTypeOK, vars, clusterVars, callVars, Live

\* Every step keeps the types.
LEMMA NextType == TypeOK /\ [Next]_vars => TypeOK'
<1> SUFFICES ASSUME TypeOK, [Next]_vars PROVE TypeOK'
  OBVIOUS
<1>1. ASSUME NEW r \in Requests, Receive(r) PROVE TypeOK'
  BY <1>1, ReceiveType
<1>2. ASSUME NEW r \in Requests, Acquire(r) PROVE TypeOK'
  BY <1>2, AcquireType
<1>3. ASSUME NEW r \in Requests, InstanceStep(r) PROVE TypeOK'
  BY <1>3, CreateType, MarkType, InstallType, LabelType, RecordType, SuccessType,
     FailureType, LookUpType, UninstallType, DeleteType DEF InstanceStep
<1>4. ASSUME NEW r \in Requests, BindingStep(r) PROVE TypeOK'
  BY <1>4, FindType, ListServicesType, ListSecretsType, StoreBindingType,
     ReportBindingType, CheckType, FetchType, RemoveType DEF BindingStep
<1>5. ASSUME NEW k \in Brokers, Crash(k) PROVE TypeOK'
  BY <1>5, CrashType
<1>6. CASE UNCHANGED vars
  BY <1>6, StutterType
<1> QED BY <1>1, <1>2, <1>3, <1>4, <1>5, <1>6 DEF Next, Step, Stop

\* Every variable keeps its type, a call its own operation's labels: for any
\* number of requests, instances and brokers, and any faults.
THEOREM TypeCorrect == Spec => []TypeOK
<1>1. Init => TypeOK BY InitType
<1>2. TypeOK /\ [Next]_vars => TypeOK' BY NextType
<1> QED BY <1>1, <1>2, PTL DEF Spec

-----------------------------------------------------------------------------
(* The inductive invariant.  Most steps are Steady: they leave the releases *)
(* alone and write, if at all, a changed copy of the current ConfigMap.     *)

Installed == {"label", "record", "succeed", "fail", "done", "dead"}

\* Credentials in hand stay, or come from a release of the same instance or from
\* its ConfigMap.
Gathers(r) ==
    \E c \in Credentials :
        /\ creds' = [creds EXCEPT ![r] = c]
        /\ \A x \in c : \/ x \in creds[r]
                        \/ x[1] \in releases /\ Inst(x[1]) = Inst(r)
                        \/ \E b \in Bindings : x \in GetBinding(Inst(r), b)

\* Where a step of r may take it.
Forward(r) ==
    /\ pc[r] # "idle"
    /\ \E l \in Labels \ {"idle"} : pc' = [pc EXCEPT ![r] = l]
    /\ \E a \in Answers : answer' = [answer EXCEPT ![r] = a]
    /\ Gathers(r)
    /\ UNCHANGED call
    /\ Arrived(r) => Arrived(r)'
    /\ call[r].op = "provision" /\ pc[r] \in Installed => pc'[r] \in Installed

LooksUp(r) ==
    /\ pc[r] # "delete"
    /\ configMap[Inst(r)] # None
    /\ target' = [target EXCEPT ![r] = configMap[Inst(r)].release]

Reads(r) ==
    /\ configMap[Inst(r)] # None
    /\ copy' = [copy EXCEPT ![r] = configMap[Inst(r)]]
    /\ UNCHANGED <<configMap, revision>>

\* Bind and Unbind write the key of their own binding.
Binds(r, b, x) ==
    pc[r] \in {"store", "remove"} /\ b = Binding(r) /\ x \in {{}, creds[r]}

Writes(r) ==
    /\ copy[r] # None /\ Current(Inst(r), copy[r])
    /\ \E new \in ConfigMaps :
          /\ new.uid = copy[r].uid
          /\ \/ new.release = copy[r].release
             \/ pc[r] = "record" /\ Provisioning(r) /\ ~Provisioning(r)' /\ new.release = r
          /\ \A b \in Bindings :
                \/ new.binding[b] = copy[r].binding[b]
                \/ Binds(r, b, new.binding[b]) /\ pc'[r] # pc[r]
          /\ new.version = revision + 1
          /\ configMap' = [configMap EXCEPT ![Inst(r)] = new]
    /\ revision' = revision + 1
    /\ copy' = [copy EXCEPT ![r] = None]

Steady(r) ==
    /\ Forward(r)
    /\ Provisioning(r)' => Provisioning(r)
    /\ pc'[r] = "delete" => pc[r] = "delete"
    /\ pc'[r] \in {"label", "record"} => pc[r] \in {"label", "record"}
    /\ UNCHANGED releases
    /\ UNCHANGED target \/ LooksUp(r)
    /\ \/ Reads(r)
       \/ Writes(r)
       \/ /\ copy' \in {copy, [copy EXCEPT ![r] = None]}
          /\ UNCHANGED <<configMap, revision>>

Untyped ==
    /\ IdleIsClean /\ ConfigMapHasCreator /\ CreatorIsAlone
    /\ CopiesAreVersioned /\ TargetIsRecorded /\ DeleterIsAlone /\ NoOrphanRelease

\* What a write leaves as it was.
LEMMA WriteKeeps ==
  ASSUME IInv, NEW r \in Requests, Inst(r) \in Instances, Writes(r)
  PROVE  /\ configMap[Inst(r)] = copy[r]
         /\ \A i \in Instances : i # Inst(r) => configMap'[i] = configMap[i]
         /\ configMap'[Inst(r)] \in ConfigMaps /\ configMap'[Inst(r)] # None
         /\ configMap'[Inst(r)].uid = configMap[Inst(r)].uid
         /\ configMap'[Inst(r)].version = revision + 1
         /\ \/ configMap'[Inst(r)].release = configMap[Inst(r)].release
            \/ /\ pc[r] = "record" /\ Provisioning(r) /\ ~Provisioning(r)'
               /\ configMap'[Inst(r)].release = r
         /\ \A b \in Bindings :
               \/ configMap'[Inst(r)].binding[b] = configMap[Inst(r)].binding[b]
               \/ Binds(r, b, configMap'[Inst(r)].binding[b]) /\ pc'[r] # pc[r]
BY NoneIsFresh DEF Writes, IInv, CopiesAreVersioned, TypeOK, ClusterTypeOK

\* What a steady step does to the ConfigMaps.
LEMMA SteadyConfigMaps ==
  ASSUME IInv, NEW r \in Requests, Inst(r) \in Instances, Steady(r)
  PROVE  \A i \in Instances :
            /\ configMap'[i] = None <=> configMap[i] = None
            /\ configMap[i] # None =>
                  /\ configMap'[i].uid = configMap[i].uid
                  /\ \/ configMap'[i].release = configMap[i].release
                     \/ /\ i = Inst(r) /\ pc[r] = "record" /\ Provisioning(r) /\ ~Provisioning(r)'
                        /\ configMap'[i].release = r
                  /\ configMap'[i].version <= revision'
                  /\ configMap'[i] # configMap[i] =>
                        i = Inst(r) /\ configMap'[i].version = revision'
                  /\ \A b \in Bindings :
                        \/ configMap'[i].binding[b] = configMap[i].binding[b]
                        \/ /\ i = Inst(r) /\ pc'[r] # pc[r]
                           /\ Binds(r, b, configMap'[i].binding[b])
<1>1. CASE Writes(r)
  <2>1. \A i \in Instances : configMap[i] # None =>
           configMap[i].version \in Nat /\ configMap[i].version <= revision
    BY DEF IInv, ConfigMapHasCreator, TypeOK, ClusterTypeOK, ConfigMaps
  <2>2. revision \in Nat /\ revision' = revision + 1
    BY <1>1 DEF Writes, IInv, TypeOK, ClusterTypeOK
  <2>3. configMap[Inst(r)] # None
    BY <1>1, WriteKeeps DEF Writes
  <2> QED BY <1>1, <2>1, <2>2, <2>3, WriteKeeps
<1>2. CASE UNCHANGED <<configMap, revision>>
  BY <1>2 DEF IInv, ConfigMapHasCreator
<1> QED BY <1>1, <1>2 DEF Steady, Reads

\* A steady step keeps every part of the invariant but the types.
LEMMA SteadyInv ==
  ASSUME IInv, TypeOK', NEW r \in Requests, Steady(r)
  PROVE  Untyped'
<1> DEFINE Maps == \A i \in Instances :
            /\ configMap'[i] = None <=> configMap[i] = None
            /\ configMap[i] # None =>
                  /\ configMap'[i].uid = configMap[i].uid
                  /\ \/ configMap'[i].release = configMap[i].release
                     \/ /\ i = Inst(r) /\ pc[r] = "record" /\ Provisioning(r) /\ ~Provisioning(r)'
                        /\ configMap'[i].release = r
                  /\ configMap'[i].version <= revision'
                  /\ configMap'[i] # configMap[i] =>
                        i = Inst(r) /\ configMap'[i].version = revision'
<1>1. /\ pc[r] # "idle" /\ pc'[r] # "idle" /\ call' = call
      /\ \A q \in Requests : q # r => pc'[q] = pc[q]
      /\ \A q \in Requests : Inst(q)' = Inst(q)
  BY DEF Steady, Forward, IInv, TypeOK, CallTypeOK, Inst
<1>2. \A q \in Requests : pc[q] # "idle" => Inst(q) \in Instances
  BY CallFields DEF IInv
<1>3. Maps BY <1>1, <1>2, SteadyConfigMaps
<1>4. \A q \in Requests : Arrived(q) => Arrived(q)'
  BY <1>1 DEF Steady, Forward, Arrived
<1>5. \A q \in Requests : Provisioning(q)' => Provisioning(q)
  BY <1>1 DEF Steady, Provisioning
<1> HIDE DEF Maps
<1>6. IdleIsClean'
  BY <1>1 DEF Steady, Forward, Gathers, LooksUp, Reads, Writes, IInv, IdleIsClean, TypeOK,
     CallTypeOK
<1>7. ConfigMapHasCreator'
  <2>1. ASSUME NEW i \in Instances, configMap'[i] # None
        PROVE  /\ configMap[i] # None
               /\ configMap'[i].uid \in Requests
               /\ configMap'[i].uid = configMap[i].uid
               /\ Arrived(configMap[i].uid) /\ call[configMap[i].uid].op = "provision"
               /\ Inst(configMap[i].uid) = i
    BY <2>1, <1>3 DEF Maps, IInv, ConfigMapHasCreator, TypeOK, ClusterTypeOK, ConfigMaps
  <2>2. ASSUME NEW i \in Instances, configMap'[i] # None
        PROVE  configMap'[i].release \in {None, configMap'[i].uid}
    BY <2>1, <2>2, <1>3 DEF Maps, IInv, ConfigMapHasCreator, CreatorIsAlone
  <2> QED BY <2>1, <2>2, <1>1, <1>3, <1>4 DEF Maps, ConfigMapHasCreator
<1>8. CreatorIsAlone'
  <2>1. ASSUME NEW q \in Requests, Provisioning(q)'
        PROVE  /\ configMap'[Inst(q)] # None
               /\ configMap'[Inst(q)].uid = q
               /\ configMap'[Inst(q)].release = None
    <3>1. Provisioning(q) BY <2>1, <1>5
    <3>2. Inst(q) \in Instances BY <3>1, <1>2 DEF Provisioning
    <3>3. /\ configMap[Inst(q)] # None
          /\ configMap[Inst(q)].uid = q
          /\ configMap[Inst(q)].release = None
      BY <3>1 DEF IInv, CreatorIsAlone
    <3>4. Provisioning(r) => configMap[Inst(r)].uid = r
      BY DEF IInv, CreatorIsAlone
    <3> QED BY <2>1, <3>2, <3>3, <3>4, <1>3 DEF Maps
  <2>2. ASSUME NEW q \in Requests, q \in releases'
        PROVE  pc'[q] \in Installed
    <3>1. q \in releases /\ pc[q] \in Installed /\ pc[q] # "idle"
      BY <2>2 DEF Steady, IInv, CreatorIsAlone, Installed
    <3>2. configMap[Inst(q)] # None /\ configMap[Inst(q)].uid = q /\ Inst(q) \in Instances
      BY <3>1, <1>2 DEF IInv, NoOrphanRelease
    <3>3. call[q].op = "provision" BY <3>2 DEF IInv, ConfigMapHasCreator
    <3> QED BY <3>1, <3>3, <1>1 DEF Steady, Forward
  <2> QED BY <2>1, <2>2, <1>1 DEF CreatorIsAlone, Installed
<1>9. CopiesAreVersioned'
  <2> SUFFICES ASSUME NEW q \in Requests, copy'[q] # None
               PROVE  /\ copy'[q].version <= revision'
                      /\ Current(Inst(q), copy[q])' => copy'[q] = configMap'[Inst(q)]
    BY <1>1 DEF CopiesAreVersioned
  <2>1. q # r => copy'[q] = copy[q]
    BY DEF Steady, Reads, Writes, IInv, TypeOK, CallTypeOK
  <2>2. pc[q] # "idle" /\ Inst(q) \in Instances
    BY <2>1, <1>1, <1>2 DEF IInv, IdleIsClean
  <2>3. revision \in Nat /\ revision' \in Nat /\ revision <= revision'
    BY DEF IInv, TypeOK, ClusterTypeOK, Steady, Reads, Writes
  <2>4. CASE copy'[q] = copy[q]
    <3>1. copy[q].version \in Nat /\ copy[q].version <= revision
      BY <2>4 DEF IInv, CopiesAreVersioned, TypeOK, CallTypeOK, ConfigMaps
    <3>2. Current(Inst(q), copy[q])' => configMap'[Inst(q)] = configMap[Inst(q)]
      BY <2>2, <2>3, <2>4, <3>1, <1>1, <1>3 DEF Maps, Current, Steady, Reads, Writes
    <3>3. Current(Inst(q), copy[q])' => Current(Inst(q), copy[q])
      BY <2>4, <3>2, <1>1 DEF Current
    <3> QED BY <2>3, <2>4, <3>1, <3>2, <3>3 DEF IInv, CopiesAreVersioned
  <2>5. CASE q = r /\ Reads(r)
    BY <2>2, <2>5 DEF Reads, IInv, TypeOK, CallTypeOK, ConfigMapHasCreator
  <2> QED BY <2>1, <2>4, <2>5 DEF Steady, Writes, IInv, TypeOK, CallTypeOK
<1>10. TargetIsRecorded'
  <2> SUFFICES ASSUME NEW q \in Requests, target'[q] # None
               PROVE  /\ pc'[target'[q]] \notin {"idle", "lock", "create"}
                      /\ call[target'[q]].op = "provision" /\ Inst(target'[q]) = Inst(q)
                      /\ configMap'[Inst(q)] # None /\ configMap'[Inst(q)].uid = target'[q] =>
                            configMap'[Inst(q)].release = target'[q]
    BY <1>1 DEF TargetIsRecorded, Arrived, Inst
  <2>1. target'[q] \in Requests BY DEF TypeOK, CallTypeOK
  <2>2. CASE target'[q] = target[q]
    <3>1. Inst(q) \in Instances BY <2>2, <1>2 DEF IInv, IdleIsClean
    <3>2. /\ Arrived(target[q]) /\ call[target[q]].op = "provision"
          /\ Inst(target[q]) = Inst(q)
          /\ configMap[Inst(q)] # None /\ configMap[Inst(q)].uid = target[q] =>
                configMap[Inst(q)].release = target[q]
      BY <2>2 DEF IInv, TargetIsRecorded
    <3>3. pc'[target'[q]] \notin {"idle", "lock", "create"}
      BY <2>1, <2>2, <3>2, <1>4 DEF Arrived
    <3> QED BY <2>1, <2>2, <3>1, <3>2, <3>3, <1>3 DEF Maps, IInv, CreatorIsAlone
  <2>3. CASE q = r /\ LooksUp(r)
    <3>1. Inst(r) \in Instances /\ configMap[Inst(r)] # None
          /\ target'[r] = configMap[Inst(r)].release
      BY <2>3, <1>1, <1>2 DEF LooksUp, IInv, TypeOK, CallTypeOK
    <3>2. /\ target'[r] = configMap[Inst(r)].uid
          /\ Arrived(configMap[Inst(r)].uid) /\ call[configMap[Inst(r)].uid].op = "provision"
          /\ Inst(configMap[Inst(r)].uid) = Inst(r)
      BY <2>3, <3>1 DEF IInv, ConfigMapHasCreator
    <3>3. pc'[target'[q]] \notin {"idle", "lock", "create"}
      BY <2>1, <2>3, <3>2, <1>4 DEF Arrived
    <3> QED BY <2>1, <2>3, <3>1, <3>2, <3>3, <1>3 DEF Maps, IInv, CreatorIsAlone
  <2> QED BY <2>2, <2>3 DEF Steady, LooksUp, IInv, TypeOK, CallTypeOK
<1>11. DeleterIsAlone'
  <2>1. \A q \in Requests : pc'[q] = "delete" => pc[q] = "delete" /\ target'[q] = target[q]
    BY <1>1 DEF Steady, LooksUp, IInv, TypeOK, CallTypeOK
  <2>2. ASSUME NEW q \in Requests, pc[q] = "delete"
        PROVE  /\ configMap'[Inst(q)] # None
               /\ configMap'[Inst(q)].release = target[q]
    <3>1. Inst(q) \in Instances BY <2>2, <1>2
    <3>2. /\ configMap[Inst(q)] # None /\ target[q] # None
          /\ configMap[Inst(q)].release = target[q]
      BY <2>2 DEF IInv, DeleterIsAlone
    <3> QED BY <3>1, <3>2, <1>3 DEF Maps, IInv, CreatorIsAlone
  <2> QED BY <2>1, <2>2, <1>1 DEF IInv, DeleterIsAlone, Steady
<1>12. NoOrphanRelease'
  <2>1. \A q \in releases : q \in Requests /\ pc[q] # "idle"
    BY DEF IInv, TypeOK, ClusterTypeOK, CreatorIsAlone
  <2> QED BY <2>1, <1>1, <1>2, <1>3 DEF Maps, IInv, NoOrphanRelease, Steady
<1> QED BY <1>6, <1>7, <1>8, <1>9, <1>10, <1>11, <1>12 DEF Untyped

-----------------------------------------------------------------------------
(* Which steps are steady *)

Onward(r, l) ==
    /\ l \in Labels \ {"idle", "lock", "create", "delete"}
    /\ l \in {"label", "record"} => pc[r] \in {"label", "record"}
    /\ call[r].op = "provision" /\ l \in {"mark", "install", "label", "record"}
          => Provisioning(r)
    /\ call[r].op = "provision" /\ pc[r] \in Installed => l \in Installed

\* Control that goes onward goes forward.
LEMMA OnwardFlow ==
  ASSUME TypeOK, NEW r \in Requests, pc[r] # "idle", NEW l, Onward(r, l), Flow(r, l),
         Gathers(r)
  PROVE  /\ Forward(r)
         /\ Provisioning(r)' => Provisioning(r)
         /\ pc'[r] = l
BY DEF TypeOK, CallTypeOK, Onward, Flow, Forward, Provisioning, Arrived

\* Credentials left alone are changed to themselves.
LEMMA SameCreds ==
  ASSUME TypeOK, NEW r \in Requests, UNCHANGED creds
  PROVE  Gathers(r)
<1>1. creds' = [creds EXCEPT ![r] = creds[r]] /\ creds[r] \in Credentials
  BY DEF TypeOK, CallTypeOK
<1> QED BY <1>1 DEF Gathers

\* A step that changes neither ConfigMaps nor releases.
LEMMA LocalSteady ==
  ASSUME TypeOK, NEW r \in Requests, pc[r] # "idle", NEW l, Onward(r, l), Flow(r, l),
         Gathers(r),
         UNCHANGED <<configMap, revision, releases, copy>>,
         UNCHANGED target \/ LooksUp(r)
  PROVE  Steady(r)
<1>1. /\ Forward(r) /\ (Provisioning(r)' => Provisioning(r)) /\ pc'[r] # "delete"
      /\ pc'[r] \in {"label", "record"} => pc[r] \in {"label", "record"}
  BY OnwardFlow DEF Onward
<1> QED BY <1>1 DEF Steady

\* An update is steady when what it writes keeps the creator and the release,
\* or is the record of a release.
LEMMA UpdateSteady ==
  ASSUME IInv, NEW r \in Requests, pc[r] # "idle", NEW labels, NEW new,
         Update(r, labels, new),
         pc[r] \notin labels, \A l \in labels : Onward(r, l),
         copy[r] # None =>
            /\ new \in ConfigMaps
            /\ new.uid = copy[r].uid
            /\ \/ new.release = copy[r].release
               \/ /\ pc[r] = "record" /\ Provisioning(r) /\ new.release = r
                  /\ labels \cap {"mark", "install", "label", "record"} = {}
            /\ \A b \in Bindings :
                  new.binding[b] = copy[r].binding[b] \/ Binds(r, b, new.binding[b])
  PROVE  Steady(r)
<1>1. UNCHANGED target /\ UNCHANGED creds BY DEF Update
<1>2. TypeOK /\ Inst(r) \in Instances BY CallFields DEF IInv
<1>3. CASE /\ configMap[Inst(r)] # None
           /\ copy' = [copy EXCEPT ![r] = configMap[Inst(r)]]
           /\ UNCHANGED <<call, pc, answer, lock, clusterVars>>
  <2>1. pc' = [pc EXCEPT ![r] = pc[r]] /\ pc[r] \in Labels \ {"idle"}
    BY <1>2, <1>3 DEF TypeOK, CallTypeOK
  <2>2. answer' = [answer EXCEPT ![r] = answer[r]] /\ answer[r] \in Answers
    BY <1>2, <1>3 DEF TypeOK, CallTypeOK
  <2>3. Forward(r) BY <2>1, <2>2, <1>1, <1>2, <1>3, SameCreds DEF Forward, Arrived
  <2>4. /\ Provisioning(r)' => Provisioning(r)
        /\ pc'[r] = pc[r]
    BY <1>3 DEF Provisioning
  <2> QED BY <2>3, <2>4, <1>1, <1>3 DEF Steady, Reads, clusterVars
<1>4. CASE /\ \E l \in labels : Flow(r, l)
           /\ copy' = [copy EXCEPT ![r] = None]
           /\ \/ UNCHANGED clusterVars
              \/ copy[r] # None /\ Current(Inst(r), copy[r]) /\ Replace(Inst(r), new)
  <2>1. PICK l \in labels : Flow(r, l) BY <1>4
  <2>2. /\ Forward(r) /\ (Provisioning(r)' => Provisioning(r)) /\ pc'[r] = l /\ l # "delete"
        /\ l \in {"label", "record"} => pc[r] \in {"label", "record"}
        /\ pc'[r] # pc[r]
    BY <2>1, <1>1, <1>2, SameCreds, OnwardFlow DEF Onward
  <2>3. CASE UNCHANGED clusterVars
    BY <2>2, <2>3, <1>1, <1>4 DEF Steady, clusterVars
  <2>4. CASE /\ copy[r] # None /\ Current(Inst(r), copy[r])
             /\ Store(Inst(r), [new EXCEPT !.version = revision + 1])
    <3> DEFINE stored == [new EXCEPT !.version = revision + 1]
    <3>1. /\ stored \in ConfigMaps /\ stored.uid = new.uid
          /\ stored.release = new.release /\ stored.version = revision + 1
          /\ stored.binding = new.binding
      BY <2>4, <1>2 DEF ConfigMaps, TypeOK, ClusterTypeOK
    <3>2. labels \cap {"mark", "install", "label", "record"} = {} => ~Provisioning(r)'
      BY <2>2 DEF Provisioning
    <3> HIDE DEF stored
    <3>3. Writes(r)
      BY <2>2, <2>4, <3>1, <3>2, <1>4 DEF Writes, Store, stored
    <3> QED BY <2>2, <2>4, <3>3, <1>1 DEF Steady, Store
  <2> QED BY <2>3, <2>4, <1>4 DEF Replace
<1> QED BY <1>3, <1>4 DEF Update

\* The "in progress" mark is steady.
LEMMA MarkSteady ==
  ASSUME IInv, NEW r \in Requests, MarkInProgress(r)
  PROVE  Steady(r)
<1> DEFINE new == [copy[r] EXCEPT !.opState = "in progress", !.opName = r]
           labels == {IF call[r].op = "provision" THEN "install" ELSE "uninstall", "done"}
<1>1. TypeOK /\ pc[r] # "idle" /\ pc[r] = "mark" /\ call[r].op \in {"provision", "deprovision"}
  BY OpOfLabel, CallFields DEF MarkInProgress, IInv
<1>2. Update(r, labels, new) BY <1>1, MarkUpdate
<1>3. copy[r] # None =>
         /\ new \in ConfigMaps /\ new.uid = copy[r].uid /\ new.release = copy[r].release
         /\ new.binding = copy[r].binding
  BY <1>1, CopyType, MarkChange DEF OpStates
<1>4. pc[r] \notin labels /\ \A l \in labels : Onward(r, l)
  BY <1>1 DEF Onward, Labels, LabelsOf, OpNames, Provisioning, Installed
<1> HIDE DEF new, labels
<1> QED BY <1>1, <1>2, <1>3, <1>4, UpdateSteady

\* Recording the release is steady: the provision ends there.
LEMMA RecordSteady ==
  ASSUME IInv, NEW r \in Requests, RecordRelease(r)
  PROVE  Steady(r)
<1> DEFINE new == [copy[r] EXCEPT !.release = r]
           labels == {"succeed", "fail", "done"}
<1>1. TypeOK /\ pc[r] # "idle" /\ pc[r] = "record" /\ call[r].op = "provision"
  BY OpOfLabel, CallFields DEF RecordRelease, IInv
<1>2. Update(r, labels, new) BY <1>1, RecordUpdate
<1>3. copy[r] # None =>
         /\ new \in ConfigMaps /\ new.uid = copy[r].uid /\ Provisioning(r) /\ new.release = r
         /\ new.binding = copy[r].binding
  BY <1>1, CopyType, ReleaseChange DEF Provisioning
<1>4. pc[r] \notin labels /\ \A l \in labels : Onward(r, l)
  BY <1>1 DEF Onward, Labels, LabelsOf, OpNames, Provisioning, Installed
<1>5. labels \cap {"mark", "install", "label", "record"} = {}
  OBVIOUS
<1> HIDE DEF new, labels
<1> QED BY <1>1, <1>2, <1>3, <1>4, <1>5, UpdateSteady

\* Reporting success is steady.
LEMMA SuccessSteady ==
  ASSUME IInv, NEW r \in Requests, ReportSuccess(r)
  PROVE  Steady(r)
<1> DEFINE new == [copy[r] EXCEPT !.opState = "succeeded"]
           labels == {"done"}
<1>1. TypeOK /\ pc[r] # "idle" /\ pc[r] = "succeed" /\ call[r].op = "provision"
  BY OpOfLabel, CallFields DEF ReportSuccess, IInv
<1>2. Update(r, labels, new) BY <1>1, SuccessUpdate
<1>3. copy[r] # None =>
         /\ new \in ConfigMaps /\ new.uid = copy[r].uid /\ new.release = copy[r].release
         /\ new.binding = copy[r].binding
  BY <1>1, CopyType, StateChange DEF OpStates
<1>4. pc[r] \notin labels /\ \A l \in labels : Onward(r, l)
  BY <1>1 DEF Onward, Labels, LabelsOf, OpNames, Provisioning, Installed
<1> HIDE DEF new, labels
<1> QED BY <1>1, <1>2, <1>3, <1>4, UpdateSteady

\* Reporting failure is steady.
LEMMA FailureSteady ==
  ASSUME IInv, NEW r \in Requests, ReportFailure(r)
  PROVE  Steady(r)
<1> DEFINE new == [copy[r] EXCEPT !.opState = "failed"]
           labels == {"done"}
<1>1. TypeOK /\ pc[r] # "idle" /\ pc[r] = "fail" /\ call[r].op \in {"provision", "deprovision"}
  BY OpOfLabel, CallFields DEF ReportFailure, IInv
<1>2. Update(r, labels, new) BY <1>1, FailureUpdate
<1>3. copy[r] # None =>
         /\ new \in ConfigMaps /\ new.uid = copy[r].uid /\ new.release = copy[r].release
         /\ new.binding = copy[r].binding
  BY <1>1, CopyType, StateChange DEF OpStates
<1>4. pc[r] \notin labels /\ \A l \in labels : Onward(r, l)
  BY <1>1 DEF Onward, Labels, LabelsOf, OpNames, Provisioning, Installed
<1> HIDE DEF new, labels
<1> QED BY <1>1, <1>2, <1>3, <1>4, UpdateSteady

\* Storing credentials is steady.
LEMMA StoreSteady ==
  ASSUME IInv, NEW r \in Requests, StoreBinding(r)
  PROVE  Steady(r)
<1> DEFINE new == [copy[r] EXCEPT !.binding[Binding(r)] = creds[r]]
           labels == {"succeed", "fail"}
<1>1. TypeOK /\ pc[r] # "idle" /\ pc[r] = "store" /\ call[r].op = "bind" /\ Binding(r) \in Bindings
  BY OpOfLabel, CallFields DEF StoreBinding, IInv
<1>2. Update(r, labels, new) BY <1>1, StoreUpdate
<1>3. copy[r] # None =>
         /\ new \in ConfigMaps /\ new.uid = copy[r].uid /\ new.release = copy[r].release
         /\ \A b \in Bindings : new.binding[b] = copy[r].binding[b] \/ Binds(r, b, new.binding[b])
  <2>1. copy[r] # None => copy[r] \in ConfigMaps /\ creds[r] \in Credentials BY <1>1, CopyType
  <2>2. copy[r] # None =>
           /\ new \in ConfigMaps /\ new.uid = copy[r].uid /\ new.release = copy[r].release
           /\ \A b \in Bindings :
                 new.binding[b] = IF b = Binding(r) THEN creds[r] ELSE copy[r].binding[b]
    BY <1>1, <2>1, BindingChange
  <2> QED BY <1>1, <2>2 DEF Binds
<1>4. pc[r] \notin labels /\ \A l \in labels : Onward(r, l)
  BY <1>1 DEF Onward, Labels, LabelsOf, OpNames, Provisioning, Installed
<1> HIDE DEF new, labels
<1> QED BY <1>1, <1>2, <1>3, <1>4, UpdateSteady

\* Unbind is steady, though it takes no lock.
LEMMA RemoveSteady ==
  ASSUME IInv, NEW r \in Requests, RemoveBinding(r)
  PROVE  Steady(r)
<1> DEFINE new == [copy[r] EXCEPT !.binding[Binding(r)] = {}, !.bindState[Binding(r)] = None]
           labels == {"done"}
<1>1. TypeOK /\ pc[r] # "idle" /\ pc[r] = "remove" /\ call[r].op = "unbind" /\ Binding(r) \in Bindings
  BY OpOfLabel, CallFields DEF RemoveBinding, IInv
<1>2. Update(r, labels, new) BY <1>1, RemoveUpdate
<1>3. copy[r] # None =>
         /\ new \in ConfigMaps /\ new.uid = copy[r].uid /\ new.release = copy[r].release
         /\ \A b \in Bindings : new.binding[b] = copy[r].binding[b] \/ Binds(r, b, new.binding[b])
  <2>1. copy[r] # None => copy[r] \in ConfigMaps BY <1>1, CopyType
  <2>2. copy[r] # None =>
           /\ new \in ConfigMaps /\ new.uid = copy[r].uid /\ new.release = copy[r].release
           /\ \A b \in Bindings :
                 new.binding[b] = IF b = Binding(r) THEN {} ELSE copy[r].binding[b]
    BY <1>1, <2>1, RemovalChange
  <2> QED BY <1>1, <2>2 DEF Binds
<1>4. pc[r] \notin labels /\ \A l \in labels : Onward(r, l)
  BY <1>1 DEF Onward, Labels, LabelsOf, OpNames, Provisioning, Installed
<1> HIDE DEF new, labels
<1> QED BY <1>1, <1>2, <1>3, <1>4, UpdateSteady

\* Reporting a bind is steady.
LEMMA ReportBindingSteady ==
  ASSUME IInv, NEW r \in Requests, ReportBinding(r)
  PROVE  Steady(r)
<1> DEFINE new(state) == [copy[r] EXCEPT !.bindState[Binding(r)] = state]
           labels == {"check", "done"}
<1>1. /\ TypeOK /\ pc[r] # "idle" /\ pc[r] \in {"succeed", "fail"} /\ call[r].op = "bind"
      /\ Binding(r) \in Bindings
  BY CallFields DEF ReportBinding, IInv
<1>2. PICK state \in {"succeeded", "failed"} : Update(r, labels, new(state))
  BY <1>1, BindingUpdate
<1>3. copy[r] # None =>
         /\ new(state) \in ConfigMaps /\ new(state).uid = copy[r].uid
         /\ new(state).release = copy[r].release
         /\ new(state).binding = copy[r].binding
  <2>1. state \in BindStates BY <1>2 DEF BindStates
  <2> QED BY <1>1, <2>1, CopyType, BindStateChange
<1>4. pc[r] \notin labels /\ \A l \in labels : Onward(r, l)
  BY <1>1 DEF Onward, Labels, LabelsOf, OpNames, Provisioning, Installed
<1> HIDE DEF new, labels
<1> QED BY <1>1, <1>2, <1>3, <1>4, UpdateSteady

\* Deprovision's Get is steady: it looks the release up.
LEMMA LookUpSteady ==
  ASSUME IInv, NEW r \in Requests, LookUpRelease(r)
  PROVE  Steady(r)
<1>1. TypeOK /\ pc[r] = "lookup" /\ call[r].op = "deprovision" /\ Inst(r) \in Instances
  BY OpOfLabel, CallFields DEF LookUpRelease, IInv
<1>2. PICK l \in {"mark", "uninstall", "done"} : Flow(r, l)
  BY <1>1, GotoFlow, FinishFlow DEF LookUpRelease, Answers
<1>3. Onward(r, l)
  BY <1>1 DEF Onward, Labels, LabelsOf, OpNames, Provisioning, Installed
<1>4. Gathers(r)
  BY <1>1, SameCreds DEF LookUpRelease
<1>5. UNCHANGED <<configMap, revision, releases, copy>> /\ (UNCHANGED target \/ LooksUp(r))
  BY <1>1 DEF LookUpRelease, LooksUp, clusterVars
<1>6. pc[r] # "idle" BY <1>1
<1> QED BY ONLY <1>1, <1>2, <1>3, <1>4, <1>5, <1>6, LocalSteady

\* Bind's Get is steady: it looks the release up.
LEMMA FindSteady ==
  ASSUME IInv, NEW r \in Requests, FindInstance(r)
  PROVE  Steady(r)
<1>1. TypeOK /\ pc[r] = "find" /\ call[r].op = "bind" /\ Inst(r) \in Instances
  BY OpOfLabel, CallFields DEF FindInstance, IInv
<1>2. PICK l \in {"listServices", "done"} : Flow(r, l)
  BY <1>1, GotoFlow, FinishFlow, DetachFlow DEF FindInstance, Answers
<1>3. Onward(r, l)
  BY <1>1 DEF Onward, Labels, LabelsOf, OpNames, Provisioning, Installed
<1>4. Gathers(r)
  BY <1>1, SameCreds DEF FindInstance
<1>5. UNCHANGED <<configMap, revision, releases, copy>> /\ (UNCHANGED target \/ LooksUp(r))
  BY <1>1 DEF FindInstance, LooksUp, clusterVars
<1>6. pc[r] # "idle" BY <1>1
<1> QED BY ONLY <1>1, <1>2, <1>3, <1>4, <1>5, <1>6, LocalSteady

\* Bind's list of services is steady.
LEMMA ListServicesSteady ==
  ASSUME IInv, NEW r \in Requests, ListServices(r)
  PROVE  Steady(r)
<1>1. TypeOK /\ pc[r] = "listServices" /\ call[r].op = "bind" /\ Inst(r) \in Instances
  BY OpOfLabel, CallFields DEF ListServices, IInv
<1>2. PICK l \in {"listSecrets", "fail"} : Flow(r, l)
  BY <1>1, GotoFlow DEF ListServices, Answers
<1>3. Onward(r, l)
  BY <1>1 DEF Onward, Labels, LabelsOf, OpNames, Provisioning, Installed
<1>4. Gathers(r)
  BY <1>1, SameCreds DEF ListServices
<1>5. UNCHANGED <<configMap, revision, releases, copy>> /\ (UNCHANGED target \/ LooksUp(r))
  BY <1>1 DEF ListServices, LooksUp, clusterVars
<1>6. pc[r] # "idle" BY <1>1
<1> QED BY ONLY <1>1, <1>2, <1>3, <1>4, <1>5, <1>6, LocalSteady

\* Bind's list of secrets is steady.
LEMMA ListSecretsSteady ==
  ASSUME IInv, NEW r \in Requests, ListSecrets(r)
  PROVE  Steady(r)
<1>1. TypeOK /\ pc[r] = "listSecrets" /\ call[r].op = "bind" /\ Inst(r) \in Instances
  BY OpOfLabel, CallFields DEF ListSecrets, IInv
<1>2. PICK l \in {"store", "fail"} : Flow(r, l)
  BY <1>1, GotoFlow DEF ListSecrets, Answers
<1>3. Onward(r, l)
  BY <1>1 DEF Onward, Labels, LabelsOf, OpNames, Provisioning, Installed
<1>4. Gathers(r)
  <2>1. Visible(r, Secrets) \in Credentials
    BY <1>1 DEF Visible, Credentials, TypeOK, ClusterTypeOK
  <2>2. \A x \in Visible(r, Secrets) : x[1] \in releases /\ Inst(x[1]) = Inst(r)
    BY DEF Visible
  <2> QED BY <2>1, <2>2, <1>1, SameCreds DEF ListSecrets, Gathers
<1>5. UNCHANGED <<configMap, revision, releases, copy>> /\ (UNCHANGED target \/ LooksUp(r))
  BY <1>1 DEF ListSecrets, LooksUp, clusterVars
<1>6. pc[r] # "idle" BY <1>1
<1> QED BY ONLY <1>1, <1>2, <1>3, <1>4, <1>5, <1>6, LocalSteady

\* The check of a synchronous bind's state is steady.
LEMMA CheckSteady ==
  ASSUME IInv, NEW r \in Requests, CheckBindState(r)
  PROVE  Steady(r)
<1>1. TypeOK /\ pc[r] = "check" /\ call[r].op = "bind" /\ Inst(r) \in Instances
  BY OpOfLabel, CallFields DEF CheckBindState, IInv
<1>2. PICK l \in {"fetch", "done"} : Flow(r, l)
  BY <1>1, GotoFlow, FinishFlow DEF CheckBindState, Answers
<1>3. Onward(r, l)
  BY <1>1 DEF Onward, Labels, LabelsOf, OpNames, Provisioning, Installed
<1>4. Gathers(r)
  BY <1>1, SameCreds DEF CheckBindState
<1>5. UNCHANGED <<configMap, revision, releases, copy>> /\ (UNCHANGED target \/ LooksUp(r))
  BY <1>1 DEF CheckBindState, LooksUp, clusterVars
<1>6. pc[r] # "idle" BY <1>1
<1> QED BY ONLY <1>1, <1>2, <1>3, <1>4, <1>5, <1>6, LocalSteady

\* The end of a synchronous bind is steady.
LEMMA FetchSteady ==
  ASSUME IInv, NEW r \in Requests, FetchBinding(r)
  PROVE  Steady(r)
<1>1. TypeOK /\ pc[r] = "fetch" /\ call[r].op = "bind" /\ Inst(r) \in Instances
  BY OpOfLabel, CallFields DEF FetchBinding, IInv
<1>2. PICK l \in {"done"} : Flow(r, l)
  BY <1>1, FinishFlow DEF FetchBinding, Answers
<1>3. Onward(r, l)
  BY <1>1 DEF Onward, Labels, LabelsOf, OpNames, Provisioning, Installed
<1>4. Gathers(r)
  <2>1. Binding(r) \in Bindings BY <1>1, CallFields
  <2>2. GetBinding(Inst(r), Binding(r)) \in Credentials
    BY <1>1, <2>1 DEF GetBinding, TypeOK, ClusterTypeOK, ConfigMaps, Credentials
  <2> QED BY <2>1, <2>2, <1>1, SameCreds DEF FetchBinding, Gathers
<1>5. UNCHANGED <<configMap, revision, releases, copy>> /\ (UNCHANGED target \/ LooksUp(r))
  BY <1>1 DEF FetchBinding, LooksUp, clusterVars
<1>6. pc[r] # "idle" BY <1>1
<1> QED BY ONLY <1>1, <1>2, <1>3, <1>4, <1>5, <1>6, LocalSteady

\* Labelling is steady.
LEMMA LabelSteady ==
  ASSUME IInv, NEW r \in Requests, LabelResources(r)
  PROVE  Steady(r)
<1>1. TypeOK /\ pc[r] = "label" /\ call[r].op = "provision" /\ Inst(r) \in Instances
  BY OpOfLabel, CallFields DEF LabelResources, IInv
<1>2. PICK l \in {"label", "record", "fail", "done"} : Flow(r, l)
  BY <1>1, GotoFlow, FailedFlow DEF LabelResources, Answers
<1>3. Onward(r, l)
  BY <1>1 DEF Onward, Labels, LabelsOf, OpNames, Provisioning, Installed
<1>4. Gathers(r)
  BY <1>1, SameCreds DEF LabelResources
<1>5. UNCHANGED <<configMap, revision, releases, copy>> /\ (UNCHANGED target \/ LooksUp(r))
  BY <1>1 DEF LabelResources, AddLabel, clusterVars
<1>6. pc[r] # "idle" BY <1>1
<1> QED BY ONLY <1>1, <1>2, <1>3, <1>4, <1>5, <1>6, LocalSteady

\* Taking Broker.Lock is steady.
LEMMA AcquireSteady ==
  ASSUME IInv, NEW r \in Requests, Acquire(r)
  PROVE  Steady(r)
<1>1. /\ TypeOK /\ pc[r] = "lock"
      /\ call[r].op \in {"provision", "deprovision", "bind"}
  BY OpOfLabel DEF Acquire, IInv
<1>2. FirstStep(call[r].op) \in {"create", "lookup", "find"}
  BY <1>1 DEF FirstStep
<1>3. pc' = [pc EXCEPT ![r] = FirstStep(call[r].op)] /\ pc'[r] \in {"create", "lookup", "find"}
  BY <1>1, <1>2 DEF Acquire, TypeOK, CallTypeOK
<1>4. {"create", "lookup", "find"} \subseteq Labels \ {"idle"}
  BY DEF Labels, LabelsOf, OpNames
<1>5. answer' = [answer EXCEPT ![r] = answer[r]] /\ answer[r] \in Answers
  BY <1>1 DEF Acquire, TypeOK, CallTypeOK
<1>6. Gathers(r)
  BY <1>1, SameCreds DEF Acquire
<1>7. UNCHANGED <<call, copy, target, configMap, revision, releases>>
  BY DEF Acquire, clusterVars
<1>8. Forward(r)
  BY <1>1, <1>2, <1>3, <1>4, <1>5, <1>6, <1>7 DEF Forward, Arrived, Installed
<1> QED BY <1>3, <1>7, <1>8 DEF Steady, Provisioning

-----------------------------------------------------------------------------
(* The four steps that create, install, uninstall and delete *)

\* Provision's Create keeps the invariant: it succeeds only where there is no
\* ConfigMap, and so no release.
LEMMA CreateInv ==
  ASSUME IInv, TypeOK', NEW r \in Requests, CreateConfigMap(r)
  PROVE  Untyped'
<1>1. /\ TypeOK /\ pc[r] = "create" /\ pc[r] # "idle"
      /\ call[r].op = "provision" /\ Inst(r) \in Instances
  BY OpOfLabel, CallFields DEF CreateConfigMap, IInv
<1>2. UNCHANGED <<call, copy, target, creds>> BY DEF CreateConfigMap
<1>3. CASE (Finish(r, "error") \/ Finish(r, "conflict")) /\ UNCHANGED clusterVars
  <2>1. Flow(r, "done") /\ Onward(r, "done")
    BY <1>1, <1>2, <1>3, FinishFlow DEF Answers, Onward, Labels, Installed
  <2>2. UNCHANGED <<configMap, revision, releases, copy>> /\ UNCHANGED target
    BY <1>2, <1>3 DEF clusterVars
  <2>3. Steady(r) BY <1>1, <1>2, <2>1, <2>2, SameCreds, LocalSteady
  <2> QED BY <2>3, SteadyInv
<1>4. CASE /\ configMap[Inst(r)] = None
           /\ Store(Inst(r), NewConfigMap(r))
           /\ \E l \in {"mark", "install", "done"} : Flow(r, l)
  <2>1. PICK l \in {"mark", "install", "done"} : Flow(r, l) BY <1>4
  <2>2. /\ pc'[r] = l /\ \A q \in Requests : q # r => pc'[q] = pc[q]
        /\ \A q \in Requests : Inst(q)' = Inst(q)
        /\ \A q \in Requests : Arrived(q) => Arrived(q)'
        /\ \A q \in Requests : q # r => answer'[q] = answer[q]
    BY <1>1, <2>1 DEF Flow, TypeOK, CallTypeOK, Inst, Arrived
  <2>3. \A q \in Requests : pc[q] # "idle" => Inst(q) \in Instances
    BY <1>1, CallFields
  <2>4. /\ \A i \in Instances : i # Inst(r) => configMap'[i] = configMap[i]
        /\ configMap'[Inst(r)] = NewConfigMap(r) /\ NewConfigMap(r) # None
        /\ revision' = revision + 1 /\ revision \in Nat
        /\ UNCHANGED releases
    BY <1>1, <1>4, NewConfigMapType, NoneIsFresh DEF Store, TypeOK, ClusterTypeOK
  <2>5. /\ NewConfigMap(r).uid = r /\ NewConfigMap(r).release = None
        /\ NewConfigMap(r).version = revision + 1
    BY DEF NewConfigMap
  <2>6. ~Arrived(r) /\ r \notin releases
    BY <1>1 DEF Arrived, IInv, CreatorIsAlone
  <2>7. \A q \in Requests : q # r /\ Provisioning(q) => Inst(q) # Inst(r)
    BY <1>4 DEF IInv, CreatorIsAlone
  <2>8. IdleIsClean' BY <1>1, <1>2, <2>2 DEF IInv, IdleIsClean
  <2>9. ConfigMapHasCreator'
    <3> SUFFICES ASSUME NEW i \in Instances, configMap'[i] # None
                 PROVE  /\ pc'[configMap'[i].uid] \notin {"idle", "lock", "create"}
                        /\ call'[configMap'[i].uid].op = "provision"
                        /\ call'[configMap'[i].uid].instance = i
                        /\ configMap'[i].release \in {None, configMap'[i].uid}
                        /\ configMap'[i].version <= revision'
      BY DEF ConfigMapHasCreator, Arrived, Inst
    <3>1. CASE i = Inst(r)
      BY <3>1, <1>1, <1>2, <2>1, <2>2, <2>4, <2>5 DEF Inst
    <3>2. CASE i # Inst(r)
      <4>1. configMap'[i] = configMap[i] /\ configMap[i] \in ConfigMaps
        BY <3>2, <1>1, <2>4 DEF TypeOK, ClusterTypeOK
      <4>2. configMap[i].uid \in Requests /\ configMap[i].version \in Nat
        BY <4>1 DEF ConfigMaps
      <4>3. Arrived(configMap[i].uid)' BY <4>1, <4>2, <2>2 DEF IInv, ConfigMapHasCreator
      <4> QED BY <4>1, <4>2, <4>3, <1>2, <2>4 DEF IInv, ConfigMapHasCreator, Arrived, Inst
    <3> QED BY <3>1, <3>2
  <2>10. CreatorIsAlone'
    <3>1. ASSUME NEW q \in Requests, Provisioning(q)'
          PROVE  /\ configMap'[Inst(q)] # None
                 /\ configMap'[Inst(q)].uid = q
                 /\ configMap'[Inst(q)].release = None
      <4>1. CASE q = r BY <4>1, <2>4, <2>5
      <4>2. CASE q # r
        <5>1. Provisioning(q) BY <3>1, <4>2, <1>2, <2>2 DEF Provisioning
        <5> QED BY <4>2, <5>1, <2>3, <2>4, <2>7 DEF IInv, CreatorIsAlone, Provisioning
      <4> QED BY <4>1, <4>2
    <3>2. \A q \in Requests : q \in releases' => pc'[q] \in Installed
      BY <2>2, <2>4, <2>6 DEF IInv, CreatorIsAlone, Installed
    <3> QED BY <3>1, <3>2, <2>2 DEF CreatorIsAlone, Installed
  <2>11. CopiesAreVersioned'
    <3> SUFFICES ASSUME NEW q \in Requests, copy[q] # None
                 PROVE  /\ copy[q].version <= revision'
                        /\ Current(Inst(q), copy[q])' => copy[q] = configMap'[Inst(q)]
      BY <1>2, <2>2 DEF CopiesAreVersioned, Current
    <3>1. Inst(q) \in Instances BY <2>3 DEF IInv, IdleIsClean
    <3>2. copy[q].version \in Nat /\ copy[q].version <= revision
      BY <1>1 DEF IInv, CopiesAreVersioned, TypeOK, CallTypeOK, ConfigMaps
    <3> QED BY <3>1, <3>2, <1>2, <2>2, <2>4, <2>5 DEF IInv, CopiesAreVersioned, Current
  <2>12. TargetIsRecorded'
    <3> SUFFICES ASSUME NEW q \in Requests, target[q] # None
                 PROVE  /\ pc'[target[q]] \notin {"idle", "lock", "create"}
                        /\ call[target[q]].op = "provision" /\ Inst(target[q]) = Inst(q)
                        /\ configMap'[Inst(q)] # None /\ configMap'[Inst(q)].uid = target[q] =>
                              configMap'[Inst(q)].release = target[q]
      BY <1>2, <2>2 DEF TargetIsRecorded, Arrived, Inst
    <3>1. Inst(q) \in Instances BY <2>3 DEF IInv, IdleIsClean
    <3>2. /\ target[q] \in Requests /\ Arrived(target[q])
          /\ call[target[q]].op = "provision" /\ Inst(target[q]) = Inst(q)
      BY <1>1 DEF IInv, TargetIsRecorded, TypeOK, CallTypeOK
    <3>3. Arrived(target[q])' /\ target[q] # r BY <3>2, <2>2, <2>6, <1>2
    <3>4. pc'[target[q]] \notin {"idle", "lock", "create"} BY <3>2, <3>3, <2>2 DEF Arrived
    <3> QED BY <3>1, <3>2, <3>3, <3>4, <2>4, <2>5 DEF IInv, TargetIsRecorded
  <2>13. DeleterIsAlone'
    <3>1. \A q \in Requests : pc'[q] = "delete" => pc[q] = "delete" /\ q # r /\ Inst(q) # Inst(r)
      BY <1>4, <2>1, <2>2 DEF IInv, DeleterIsAlone
    <3> QED BY <3>1, <1>2, <2>2, <2>3, <2>4 DEF IInv, DeleterIsAlone
  <2>14. NoOrphanRelease'
    <3>1. \A q \in releases : q \in Requests /\ pc[q] # "idle" /\ Inst(q) # Inst(r)
      BY <1>1, <1>4 DEF IInv, TypeOK, ClusterTypeOK, CreatorIsAlone, NoOrphanRelease
    <3> QED BY <3>1, <2>2, <2>3, <2>4 DEF IInv, NoOrphanRelease
  <2> QED BY <2>8, <2>9, <2>10, <2>11, <2>12, <2>13, <2>14 DEF Untyped
<1>5. Store(Inst(r), NewConfigMap(r)) /\ Finish(r, "error") => Flow(r, "done")
  BY <1>1, <1>2, FinishFlow DEF Answers
<1>6. \A l \in {"mark", "install"} : Goto(r, l) => Flow(r, l)
  BY <1>1, <1>2, GotoFlow
<1> QED BY <1>3, <1>4, <1>5, <1>6 DEF CreateConfigMap

\* A step past the lock moves r alone.
LEMMA FlowFacts ==
  ASSUME IInv, NEW r \in Requests, pc[r] # "idle",
         NEW l \in Labels \ {"idle", "lock", "create"}, Flow(r, l),
         UNCHANGED <<copy, target, creds>>
  PROVE  /\ pc'[r] = l /\ \A q \in Requests : q # r => pc'[q] = pc[q]
         /\ \A q \in Requests : Inst(q)' = Inst(q)
         /\ \A q \in Requests : Arrived(q) => Arrived(q)'
         /\ \A q \in Requests : pc[q] # "idle" => Inst(q) \in Instances
         /\ IdleIsClean'
<1>1. TypeOK BY DEF IInv
<1>2. /\ pc'[r] = l /\ \A q \in Requests : q # r => pc'[q] = pc[q]
      /\ \A q \in Requests : Inst(q)' = Inst(q)
      /\ \A q \in Requests : q # r => answer'[q] = answer[q]
  BY <1>1 DEF Flow, TypeOK, CallTypeOK, Inst
<1>3. \A q \in Requests : Arrived(q) => Arrived(q)' BY <1>2 DEF Arrived
<1>4. \A q \in Requests : pc[q] # "idle" => Inst(q) \in Instances BY <1>1, CallFields
<1>5. IdleIsClean' BY <1>2 DEF IInv, IdleIsClean
<1> QED BY <1>2, <1>3, <1>4, <1>5

\* The parts of the invariant that releases have no place in.
LEMMA SameConfigMaps ==
  ASSUME IInv, NEW r \in Requests, pc[r] # "idle",
         NEW l \in Labels \ {"idle", "lock", "create"}, Flow(r, l),
         UNCHANGED <<configMap, revision, copy, target, creds>>
  PROVE  /\ ConfigMapHasCreator' /\ CopiesAreVersioned' /\ TargetIsRecorded'
<1>1. TypeOK /\ call' = call BY DEF IInv, Flow
<1>2. /\ \A q \in Requests : Inst(q)' = Inst(q)
      /\ \A q \in Requests : Arrived(q) => Arrived(q)'
  BY FlowFacts
<1>3. ConfigMapHasCreator'
  <2> SUFFICES ASSUME NEW i \in Instances, configMap[i] # None
               PROVE  /\ pc'[configMap[i].uid] \notin {"idle", "lock", "create"}
                      /\ call[configMap[i].uid].op = "provision"
                      /\ call[configMap[i].uid].instance = i
                      /\ configMap[i].release \in {None, configMap[i].uid}
                      /\ configMap[i].version <= revision
    BY <1>1 DEF ConfigMapHasCreator, Arrived, Inst
  <2>1. configMap[i].uid \in Requests BY <1>1 DEF TypeOK, ClusterTypeOK, ConfigMaps
  <2>2. Arrived(configMap[i].uid)' BY <2>1, <1>2 DEF IInv, ConfigMapHasCreator
  <2> QED BY <2>1, <2>2 DEF IInv, ConfigMapHasCreator, Arrived, Inst
<1>4. CopiesAreVersioned'
  BY <1>1, <1>2 DEF IInv, CopiesAreVersioned, Current
<1>5. TargetIsRecorded'
  <2> SUFFICES ASSUME NEW q \in Requests, target[q] # None
               PROVE  /\ pc'[target[q]] \notin {"idle", "lock", "create"}
                      /\ call[target[q]].op = "provision" /\ Inst(target[q]) = Inst(q)
                      /\ configMap[Inst(q)] # None /\ configMap[Inst(q)].uid = target[q] =>
                            configMap[Inst(q)].release = target[q]
    BY <1>1, <1>2 DEF TargetIsRecorded, Arrived, Inst
  <2>1. target[q] \in Requests BY <1>1 DEF TypeOK, CallTypeOK
  <2>2. Arrived(target[q])' BY <2>1, <1>2 DEF IInv, TargetIsRecorded
  <2> QED BY <2>1, <2>2 DEF IInv, TargetIsRecorded, Arrived
<1> QED BY <1>3, <1>4, <1>5

\* Helm's install keeps the invariant: its provision still has its ConfigMap.
LEMMA InstallInv ==
  ASSUME IInv, TypeOK', NEW r \in Requests, Install(r)
  PROVE  Untyped'
<1>1. /\ TypeOK /\ pc[r] = "install" /\ pc[r] # "idle"
      /\ call[r].op = "provision" /\ Inst(r) \in Instances
  BY OpOfLabel, CallFields DEF Install, IInv
<1>2. UNCHANGED <<call, copy, target, creds>> BY DEF Install
<1>3. PICK l \in {"label", "fail", "done"} : Flow(r, l)
  BY <1>1, <1>2, GotoFlow, FailedFlow DEF Install
<1>4. l \in Labels \ {"idle", "lock", "create"}
  BY <1>3 DEF Labels, LabelsOf, OpNames
<1>5. CASE UNCHANGED clusterVars /\ OperationFailed(r)
  <2>1. UNCHANGED <<configMap, revision, releases, copy>> /\ UNCHANGED target
    BY <1>2, <1>5 DEF clusterVars
  <2>2. PICK m \in {"fail", "done"} : Flow(r, m) BY <1>1, <1>2, <1>5, FailedFlow
  <2>3. Onward(r, m)
    BY <1>1, <2>2 DEF Onward, Labels, LabelsOf, OpNames, Provisioning, Installed
  <2>4. Steady(r) BY <1>1, <1>2, <2>1, <2>2, <2>3, SameCreds, LocalSteady
  <2> QED BY <2>4, SteadyInv
<1>6. CASE AddRelease(r)
  <2>1. releases' = releases \cup {r} /\ UNCHANGED <<configMap, revision, copy, target, creds>>
    BY <1>2, <1>6 DEF AddRelease
  <2>2. /\ pc'[r] = l /\ \A q \in Requests : q # r => pc'[q] = pc[q]
        /\ \A q \in Requests : Inst(q)' = Inst(q)
        /\ \A q \in Requests : pc[q] # "idle" => Inst(q) \in Instances
        /\ IdleIsClean'
    BY <1>1, <1>3, <1>4, <2>1, FlowFacts
  <2>3. ConfigMapHasCreator' /\ CopiesAreVersioned' /\ TargetIsRecorded'
    BY <1>1, <1>3, <1>4, <2>1, SameConfigMaps
  <2>4. /\ configMap[Inst(r)] # None /\ configMap[Inst(r)].uid = r
        /\ configMap[Inst(r)].release = None
    BY <1>1 DEF IInv, CreatorIsAlone, Provisioning
  <2>5. CreatorIsAlone'
    <3>1. \A q \in Requests : Provisioning(q)' => Provisioning(q)
      BY <1>1, <1>2, <2>2 DEF Provisioning
    <3>2. \A q \in Requests : q \in releases' => pc'[q] \in Installed
      BY <1>3, <2>1, <2>2 DEF IInv, CreatorIsAlone, Installed
    <3> QED BY <3>1, <3>2, <2>1, <2>2 DEF IInv, CreatorIsAlone, Installed
  <2>6. DeleterIsAlone'
    <3>1. \A q \in Requests : pc'[q] = "delete" => pc[q] = "delete" /\ q # r
      BY <1>3, <2>2
    <3>2. ASSUME NEW q \in Requests, pc[q] = "delete"
          PROVE  target[q] # r
      <4>1. /\ configMap[Inst(q)] # None /\ target[q] # None
            /\ configMap[Inst(q)].release = target[q] /\ Inst(q) \in Instances
        BY <3>2, <2>2 DEF IInv, DeleterIsAlone
      <4>2. configMap[Inst(q)].uid = target[q] /\ Inst(configMap[Inst(q)].uid) = Inst(q)
        BY <4>1 DEF IInv, ConfigMapHasCreator
      <4> QED BY <4>1, <4>2, <2>4
    <3> QED BY <3>1, <3>2, <2>1, <2>2 DEF IInv, DeleterIsAlone
  <2>7. NoOrphanRelease'
    BY <2>1, <2>2, <2>4 DEF IInv, NoOrphanRelease, TypeOK, ClusterTypeOK
  <2> QED BY <2>2, <2>3, <2>5, <2>6, <2>7 DEF Untyped
<1> QED BY <1>5, <1>6 DEF Install

\* Helm's uninstall keeps the invariant: the release it removed is recorded, and
\* only one call can have removed it.
LEMMA UninstallInv ==
  ASSUME IInv, TypeOK', NEW r \in Requests, Uninstall(r)
  PROVE  Untyped'
<1>1. /\ TypeOK /\ pc[r] = "uninstall" /\ pc[r] # "idle"
      /\ call[r].op = "deprovision" /\ Inst(r) \in Instances
  BY OpOfLabel, CallFields DEF Uninstall, IInv
<1>2. UNCHANGED <<call, copy, target, creds>> BY DEF Uninstall
<1>3. {"delete", "fail", "done"} \subseteq Labels \ {"idle", "lock", "create"}
  BY DEF Labels, LabelsOf, OpNames
<1>4. CASE UNCHANGED clusterVars /\ OperationFailed(r)
  <2>1. PICK l \in {"fail", "done"} : Flow(r, l) BY <1>1, <1>2, <1>4, FailedFlow
  <2>2. Onward(r, l) BY <1>1, <1>3, <2>1 DEF Onward
  <2>3. UNCHANGED <<configMap, revision, releases, copy>> /\ UNCHANGED target
    BY <1>2, <1>4 DEF clusterVars
  <2>4. Steady(r) BY <1>1, <1>2, <2>1, <2>2, <2>3, SameCreds, LocalSteady
  <2> QED BY <2>4, SteadyInv
<1>5. CASE target[r] \in releases /\ DropRelease(target[r])
  <2>1. PICK l \in {"delete", "fail", "done"} : Flow(r, l)
    BY <1>1, <1>2, GotoFlow, FailedFlow DEF Uninstall
  <2>2. /\ releases' = releases \ {target[r]}
        /\ UNCHANGED <<configMap, revision, copy, target, creds>>
    BY <1>2, <1>5 DEF DropRelease
  <2>3. /\ pc'[r] = l /\ \A q \in Requests : q # r => pc'[q] = pc[q]
        /\ \A q \in Requests : Inst(q)' = Inst(q)
        /\ \A q \in Requests : pc[q] # "idle" => Inst(q) \in Instances
        /\ IdleIsClean'
    BY <1>1, <1>3, <2>1, <2>2, FlowFacts
  <2>4. ConfigMapHasCreator' /\ CopiesAreVersioned' /\ TargetIsRecorded'
    BY <1>1, <1>3, <2>1, <2>2, SameConfigMaps
  <2>5. /\ configMap[Inst(r)] # None /\ target[r] # None
        /\ configMap[Inst(r)].release = target[r]
    <3>1. target[r] \in Requests /\ target[r] # None
      BY <1>1, <1>5, NoneIsFresh DEF TypeOK, ClusterTypeOK
    <3>2. Inst(target[r]) = Inst(r)
      BY <3>1 DEF IInv, TargetIsRecorded
    <3>3. configMap[Inst(r)] # None /\ configMap[Inst(r)].uid = target[r]
      BY <3>2, <1>5 DEF IInv, NoOrphanRelease
    <3> QED BY <3>1, <3>3 DEF IInv, TargetIsRecorded
  <2>6. CreatorIsAlone'
    <3>1. \A q \in Requests : Provisioning(q)' => Provisioning(q)
      BY <1>1, <1>2, <2>1, <2>3 DEF Provisioning
    <3>2. r \notin releases
      BY <1>1 DEF IInv, CreatorIsAlone
    <3> QED BY <3>1, <3>2, <2>2, <2>3 DEF IInv, CreatorIsAlone
  <2>7. DeleterIsAlone'
    <3>1. ASSUME NEW q \in Requests, pc[q] = "delete", Inst(q) = Inst(r)
          PROVE  FALSE
      BY <3>1, <1>5, <2>5 DEF IInv, DeleterIsAlone
    <3>2. \A q \in Requests : pc'[q] = "delete" => q = r \/ (pc[q] = "delete" /\ q # r)
      BY <2>3
    <3> QED BY <3>1, <3>2, <2>2, <2>3, <2>5 DEF IInv, DeleterIsAlone
  <2>8. NoOrphanRelease'
    BY <1>1, <2>2, <2>3 DEF IInv, NoOrphanRelease, TypeOK, ClusterTypeOK
  <2> QED BY <2>3, <2>4, <2>6, <2>7, <2>8 DEF Untyped
<1> QED BY <1>4, <1>5 DEF Uninstall

\* Deprovision's Delete keeps the invariant: what it deletes by name is the
\* ConfigMap whose release it has removed.
LEMMA DeleteInv ==
  ASSUME IInv, TypeOK', NEW r \in Requests, DeleteConfigMap(r)
  PROVE  Untyped'
<1>1. /\ TypeOK /\ pc[r] = "delete" /\ pc[r] # "idle"
      /\ call[r].op = "deprovision" /\ Inst(r) \in Instances
  BY OpOfLabel, CallFields DEF DeleteConfigMap, IInv
<1>2. UNCHANGED <<call, copy, target, creds>> BY DEF DeleteConfigMap
<1>3. PICK l \in {"fail", "done"} : Flow(r, l)
  BY <1>1, <1>2, FinishFlow, FailedFlow DEF DeleteConfigMap, Answers
<1>4. l \in Labels \ {"idle", "lock", "create"} /\ Onward(r, l)
  BY <1>1, <1>3 DEF Labels, LabelsOf, OpNames, Onward
<1>5. CASE UNCHANGED clusterVars
  <2>1. UNCHANGED <<configMap, revision, releases, copy>> /\ UNCHANGED target
    BY <1>2, <1>5 DEF clusterVars
  <2>2. Steady(r) BY <1>1, <1>2, <1>3, <1>4, <2>1, SameCreds, LocalSteady
  <2> QED BY <2>2, SteadyInv
<1>6. CASE configMap[Inst(r)] # None /\ Remove(Inst(r))
  <2>1. /\ configMap'[Inst(r)] = None
        /\ \A i \in Instances : i # Inst(r) => configMap'[i] = configMap[i]
        /\ UNCHANGED <<revision, releases, copy, target, creds>>
    BY <1>1, <1>2, <1>6 DEF Remove, TypeOK, ClusterTypeOK
  <2>2. /\ pc'[r] = l /\ \A q \in Requests : q # r => pc'[q] = pc[q]
        /\ \A q \in Requests : Inst(q)' = Inst(q)
        /\ \A q \in Requests : Arrived(q) => Arrived(q)'
        /\ \A q \in Requests : pc[q] # "idle" => Inst(q) \in Instances
        /\ IdleIsClean'
    BY <1>1, <1>2, <1>3, <1>4, FlowFacts
  <2>3. /\ target[r] # None /\ configMap[Inst(r)].release = target[r]
        /\ target[r] \notin releases
        /\ configMap[Inst(r)].uid = target[r]
    BY <1>1, <1>6 DEF IInv, DeleterIsAlone, ConfigMapHasCreator
  <2>4. ConfigMapHasCreator'
    <3> SUFFICES ASSUME NEW i \in Instances, configMap'[i] # None
                 PROVE  /\ pc'[configMap[i].uid] \notin {"idle", "lock", "create"}
                        /\ call[configMap[i].uid].op = "provision"
                        /\ call[configMap[i].uid].instance = i
                        /\ configMap[i].release \in {None, configMap[i].uid}
                        /\ configMap[i].version <= revision
      BY <1>2, <2>1 DEF ConfigMapHasCreator, Arrived, Inst
    <3>1. configMap[i] # None BY <2>1
    <3>2. configMap[i].uid \in Requests
      BY <1>1, <3>1 DEF TypeOK, ClusterTypeOK, ConfigMaps
    <3>3. pc'[configMap[i].uid] \notin {"idle", "lock", "create"}
      BY <3>1, <3>2, <2>2 DEF IInv, ConfigMapHasCreator, Arrived
    <3> QED BY <3>1, <3>2, <3>3 DEF IInv, ConfigMapHasCreator, Arrived, Inst
  <2>5. CreatorIsAlone'
    <3>1. ASSUME NEW q \in Requests, Provisioning(q)'
          PROVE  Provisioning(q) /\ Inst(q) \in Instances /\ Inst(q) # Inst(r)
      <4>1. Provisioning(q) BY <1>1, <1>2, <1>3, <2>2, <3>1 DEF Provisioning
      <4>2. pc[q] # "idle" /\ configMap[Inst(q)].release = None
        BY <4>1 DEF IInv, CreatorIsAlone, Provisioning
      <4> QED BY <4>1, <4>2, <2>2, <2>3
    <3>2. r \notin releases BY <1>1 DEF IInv, CreatorIsAlone
    <3> QED BY <3>1, <3>2, <2>1, <2>2 DEF IInv, CreatorIsAlone
  <2>6. CopiesAreVersioned'
    <3> SUFFICES ASSUME NEW q \in Requests, copy[q] # None
                 PROVE  /\ copy[q].version <= revision
                        /\ Current(Inst(q), copy[q])' => copy[q] = configMap'[Inst(q)]
      BY <2>1, <2>2 DEF CopiesAreVersioned, Current
    <3>1. Inst(q) \in Instances BY <2>2 DEF IInv, IdleIsClean
    <3> QED BY <3>1, <2>1, <2>2 DEF IInv, CopiesAreVersioned, Current
  <2>7. TargetIsRecorded'
    <3> SUFFICES ASSUME NEW q \in Requests, target[q] # None
                 PROVE  /\ pc'[target[q]] \notin {"idle", "lock", "create"}
                        /\ call[target[q]].op = "provision" /\ Inst(target[q]) = Inst(q)
                        /\ configMap'[Inst(q)] # None /\ configMap'[Inst(q)].uid = target[q] =>
                              configMap'[Inst(q)].release = target[q]
      BY <1>2, <2>1, <2>2 DEF TargetIsRecorded, Arrived, Inst
    <3>1. target[q] \in Requests /\ Inst(q) \in Instances
      BY <1>1, <2>2 DEF TypeOK, CallTypeOK, IInv, IdleIsClean
    <3>2. pc'[target[q]] \notin {"idle", "lock", "create"}
      BY <3>1, <2>2 DEF IInv, TargetIsRecorded, Arrived
    <3> QED BY <3>1, <3>2, <2>1 DEF IInv, TargetIsRecorded, Arrived
  <2>8. DeleterIsAlone'
    <3>1. ASSUME NEW q \in Requests, pc'[q] = "delete"
          PROVE  pc[q] = "delete" /\ Inst(q) \in Instances /\ Inst(q) # Inst(r)
      <4>1. pc[q] = "delete" /\ q # r BY <3>1, <1>3, <2>2
      <4>2. Inst(q) # Inst(r) BY <4>1, <1>1 DEF IInv, DeleterIsAlone
      <4> QED BY <4>1, <4>2, <2>2
    <3> QED BY <3>1, <2>1, <2>2 DEF IInv, DeleterIsAlone
  <2>9. NoOrphanRelease'
    <3>1. ASSUME NEW q \in releases
          PROVE  q \in Requests /\ Inst(q) \in Instances /\ Inst(q) # Inst(r)
      <4>1. q \in Requests /\ pc[q] # "idle"
        BY <1>1 DEF IInv, CreatorIsAlone, TypeOK, ClusterTypeOK
      <4> QED BY <4>1, <2>2, <2>3 DEF IInv, NoOrphanRelease
    <3> QED BY <3>1, <2>1, <2>2 DEF IInv, NoOrphanRelease
  <2> QED BY <2>2, <2>4, <2>5, <2>6, <2>7, <2>8, <2>9 DEF Untyped
<1> QED BY <1>5, <1>6 DEF DeleteConfigMap

-----------------------------------------------------------------------------
(* Arrivals, crashes, and the theorem *)

\* The arrival of a call keeps the invariant.
LEMMA ReceiveInv ==
  ASSUME IInv, NEW r \in Requests, Receive(r)
  PROVE  Untyped'
<1>1. /\ pc[r] = "idle" /\ pc'[r] \in {"lock", "remove"}
      /\ \A q \in Requests : q # r => pc'[q] = pc[q] /\ call'[q] = call[q] /\ Inst(q)' = Inst(q)
  BY DEF Receive, IInv, TypeOK, CallTypeOK, Inst
<1>2. UNCHANGED <<copy, target, creds, answer, configMap, revision, releases>>
  BY DEF Receive, clusterVars
<1>3. copy[r] = None /\ target[r] = None /\ ~Arrived(r) /\ r \notin releases
  BY <1>1 DEF IInv, IdleIsClean, CreatorIsAlone, Arrived
<1>4. \A q \in Requests : Arrived(q) => Arrived(q)' /\ q # r
  BY <1>1 DEF Arrived
<1>5. IdleIsClean' BY <1>1, <1>2 DEF IInv, IdleIsClean
<1>6. ConfigMapHasCreator'
  <2> SUFFICES ASSUME NEW i \in Instances, configMap[i] # None
               PROVE  /\ pc'[configMap[i].uid] \notin {"idle", "lock", "create"}
                      /\ call'[configMap[i].uid].op = "provision"
                      /\ call'[configMap[i].uid].instance = i
                      /\ configMap[i].release \in {None, configMap[i].uid}
                      /\ configMap[i].version <= revision
    BY <1>2 DEF ConfigMapHasCreator, Arrived, Inst
  <2>1. configMap[i].uid \in Requests
    BY DEF IInv, TypeOK, ClusterTypeOK, ConfigMaps
  <2>2. pc'[configMap[i].uid] \notin {"idle", "lock", "create"} /\ configMap[i].uid # r
    BY <2>1, <1>4 DEF IInv, ConfigMapHasCreator, Arrived
  <2> QED BY <2>1, <2>2, <1>1 DEF IInv, ConfigMapHasCreator, Arrived, Inst
<1>7. CreatorIsAlone'
  <2>1. \A q \in Requests : Provisioning(q)' => Provisioning(q) /\ q # r
    BY <1>1 DEF Provisioning
  <2> QED BY <2>1, <1>1, <1>2, <1>3 DEF IInv, CreatorIsAlone
<1>8. CopiesAreVersioned'
  BY <1>1, <1>2, <1>3 DEF IInv, CopiesAreVersioned, Current
<1>9. TargetIsRecorded'
  <2> SUFFICES ASSUME NEW q \in Requests, target[q] # None
               PROVE  /\ pc'[target[q]] \notin {"idle", "lock", "create"}
                      /\ call'[target[q]].op = "provision"
                      /\ call'[target[q]].instance = call'[q].instance
                      /\ configMap[Inst(q)] # None /\ configMap[Inst(q)].uid = target[q] =>
                            configMap[Inst(q)].release = target[q]
    BY <1>1, <1>2, <1>3 DEF TargetIsRecorded, Arrived, Inst
  <2>1. target[q] \in Requests /\ q # r
    BY <1>3 DEF IInv, TypeOK, CallTypeOK
  <2>2. pc'[target[q]] \notin {"idle", "lock", "create"} /\ target[q] # r
    BY <2>1, <1>4 DEF IInv, TargetIsRecorded, Arrived
  <2> QED BY <2>1, <2>2, <1>1 DEF IInv, TargetIsRecorded, Arrived, Inst
<1>10. DeleterIsAlone'
  BY <1>1, <1>2 DEF IInv, DeleterIsAlone
<1>11. NoOrphanRelease'
  BY <1>1, <1>2, <1>3 DEF IInv, NoOrphanRelease, TypeOK, ClusterTypeOK
<1> QED BY <1>5, <1>6, <1>7, <1>8, <1>9, <1>10, <1>11 DEF Untyped

\* The end of a process keeps the invariant: nothing is undone.
LEMMA CrashInv ==
  ASSUME IInv, NEW k \in Brokers, Crash(k)
  PROVE  Untyped'
<1>1. /\ \A q \in Requests : pc'[q] = pc[q] \/ (Live(q) /\ pc'[q] = "dead")
      /\ \A q \in Requests : Inst(q)' = Inst(q)
  BY DEF Crash, Inst
<1>2. UNCHANGED <<call, copy, target, creds, answer, configMap, revision, releases>>
  BY DEF Crash, clusterVars
<1>3. \A q \in Requests : Arrived(q)' <=> (Arrived(q) \/ pc'[q] = "dead")
  BY <1>1 DEF Arrived
<1>4. IdleIsClean' BY <1>1, <1>2 DEF IInv, IdleIsClean
<1>5. ConfigMapHasCreator'
  <2> SUFFICES ASSUME NEW i \in Instances, configMap[i] # None
               PROVE  /\ pc'[configMap[i].uid] \notin {"idle", "lock", "create"}
                      /\ call[configMap[i].uid].op = "provision"
                      /\ call[configMap[i].uid].instance = i
                      /\ configMap[i].release \in {None, configMap[i].uid}
                      /\ configMap[i].version <= revision
    BY <1>2 DEF ConfigMapHasCreator, Arrived, Inst
  <2>1. configMap[i].uid \in Requests
    BY DEF IInv, TypeOK, ClusterTypeOK, ConfigMaps
  <2> QED BY <2>1, <1>3 DEF IInv, ConfigMapHasCreator, Arrived, Inst
<1>6. CreatorIsAlone'
  BY <1>1, <1>2 DEF IInv, CreatorIsAlone, Provisioning
<1>7. CopiesAreVersioned'
  BY <1>1, <1>2 DEF IInv, CopiesAreVersioned, Current
<1>8. TargetIsRecorded'
  <2> SUFFICES ASSUME NEW q \in Requests, target[q] # None
               PROVE  /\ pc'[target[q]] \notin {"idle", "lock", "create"}
                      /\ call[target[q]].op = "provision"
                      /\ call[target[q]].instance = call[q].instance
                      /\ configMap[Inst(q)] # None /\ configMap[Inst(q)].uid = target[q] =>
                            configMap[Inst(q)].release = target[q]
    BY <1>1, <1>2 DEF TargetIsRecorded, Arrived, Inst
  <2>1. target[q] \in Requests BY DEF IInv, TypeOK, CallTypeOK
  <2> QED BY <2>1, <1>3 DEF IInv, TargetIsRecorded, Arrived, Inst
<1>9. DeleterIsAlone'
  BY <1>1, <1>2 DEF IInv, DeleterIsAlone
<1>10. NoOrphanRelease'
  BY <1>1, <1>2 DEF IInv, NoOrphanRelease, TypeOK, ClusterTypeOK
<1> QED BY <1>4, <1>5, <1>6, <1>7, <1>8, <1>9, <1>10 DEF Untyped

\* Doing nothing keeps the invariant.
LEMMA StutterInv ==
  ASSUME IInv, UNCHANGED vars
  PROVE  Untyped'
BY DEF IInv, Untyped, vars, clusterVars, callVars, IdleIsClean, ConfigMapHasCreator,
   CreatorIsAlone, CopiesAreVersioned, TargetIsRecorded, DeleterIsAlone, NoOrphanRelease,
   Arrived, Provisioning, Current, Inst

\* The invariant holds when the broker starts.
LEMMA InitInv == Init => IInv
<1> SUFFICES ASSUME Init PROVE IInv
  OBVIOUS
<1>1. TypeOK BY InitType
<1> QED BY <1>1 DEF Init, ClusterInit, CallInit, IInv, IdleIsClean, ConfigMapHasCreator,
      CreatorIsAlone, CopiesAreVersioned, TargetIsRecorded, DeleterIsAlone, NoOrphanRelease,
      Provisioning

\* Every step keeps the invariant.
LEMMA NextInv == IInv /\ [Next]_vars => IInv'
<1> SUFFICES ASSUME IInv, [Next]_vars PROVE IInv'
  OBVIOUS
<1>1. TypeOK' BY NextType DEF IInv
<1>2. ASSUME NEW r \in Requests, Receive(r) PROVE Untyped'
  BY <1>2, ReceiveInv
<1>3. ASSUME NEW r \in Requests, Acquire(r) PROVE Untyped'
  BY <1>1, <1>3, AcquireSteady, SteadyInv
<1>4. ASSUME NEW r \in Requests, InstanceStep(r) PROVE Untyped'
  <2>1. CASE CreateConfigMap(r) BY <1>1, <2>1, CreateInv
  <2>2. CASE MarkInProgress(r) BY <1>1, <2>2, MarkSteady, SteadyInv
  <2>3. CASE Install(r) BY <1>1, <2>3, InstallInv
  <2>4. CASE LabelResources(r) BY <1>1, <2>4, LabelSteady, SteadyInv
  <2>5. CASE RecordRelease(r) BY <1>1, <2>5, RecordSteady, SteadyInv
  <2>6. CASE ReportSuccess(r) BY <1>1, <2>6, SuccessSteady, SteadyInv
  <2>7. CASE ReportFailure(r) BY <1>1, <2>7, FailureSteady, SteadyInv
  <2>8. CASE LookUpRelease(r) BY <1>1, <2>8, LookUpSteady, SteadyInv
  <2>9. CASE Uninstall(r) BY <1>1, <2>9, UninstallInv
  <2>10. CASE DeleteConfigMap(r) BY <1>1, <2>10, DeleteInv
  <2> QED BY <1>4, <2>1, <2>2, <2>3, <2>4, <2>5, <2>6, <2>7, <2>8, <2>9, <2>10
      DEF InstanceStep
<1>5. ASSUME NEW r \in Requests, BindingStep(r) PROVE Untyped'
  <2>1. Steady(r)
    BY <1>5, FindSteady, ListServicesSteady, ListSecretsSteady, StoreSteady,
       ReportBindingSteady, CheckSteady, FetchSteady, RemoveSteady DEF BindingStep
  <2> QED BY <1>1, <2>1, SteadyInv
<1>6. ASSUME NEW k \in Brokers, Crash(k) PROVE Untyped'
  BY <1>6, CrashInv
<1>7. ASSUME UNCHANGED vars PROVE Untyped'
  BY <1>7, StutterInv
<1>8. Untyped'
  BY <1>2, <1>3, <1>4, <1>5, <1>6, <1>7 DEF Next, Step, Stop
<1> QED BY <1>1, <1>8 DEF IInv, Untyped

\* The inductive invariant holds: with any number of calls, instances and
\* broker processes, whatever fails.
THEOREM Invariance == Spec => []IInv
<1>1. Init => IInv BY InitInv
<1>2. IInv /\ [Next]_vars => IInv' BY NextInv
<1> QED BY <1>1, <1>2, PTL DEF Spec

\* No release the broker installed is ever left without the ConfigMap that its
\* own provision call created.
THEOREM EveryReleaseIsAccountedFor == Spec => []NoOrphanRelease
<1>1. IInv => NoOrphanRelease BY DEF IInv
<1> QED BY <1>1, Invariance, PTL

\* No instance ever has two releases.
THEOREM ReleaseIsUnique == Spec => []OneReleasePerInstance
<1>1. IInv => OneReleasePerInstance
  BY DEF IInv, NoOrphanRelease, OneReleasePerInstance, TypeOK, ClusterTypeOK
<1> QED BY <1>1, Invariance, PTL
=============================================================================
