---------------------------- MODULE Minibroker ----------------------------
(***************************************************************************)
(* The broker: OSB calls that provision, deprovision, bind and unbind      *)
(* instances, in one or several broker processes that share the cluster.   *)
(***************************************************************************)
EXTENDS InstanceOps, BindingOps

vars == <<clusterVars, callVars>>

Init == ClusterInit /\ CallInit

\* What the broker itself does for request r once it has arrived.
Step(r) == Acquire(r) \/ InstanceStep(r) \/ BindingStep(r)

Finished == \A r \in Requests : pc[r] \in {"done", "dead"}

\* Nothing is left to do: the requests of the model are used up.
Stop == Finished /\ UNCHANGED vars

Next ==
    \/ \E r \in Requests : Receive(r) \/ Step(r)
    \/ \E k \in Brokers : Crash(k)
    \/ Stop

Spec == Init /\ [][Next]_vars

\* Where a call waits for Helm, which need not answer: an install waits for the
\* pods of the chart, both for its hooks, and the code sets no timeout.
HelmCalls == {"install", "uninstall"}

\* Any other goroutine that can run is run: the API server and the Go scheduler
\* answer in the end.  Platforms need not call, brokers need not crash.
FairSpec ==
    Spec /\ \A r \in Requests : WF_vars(pc[r] \notin HelmCalls /\ Step(r))

-----------------------------------------------------------------------------
(* Types *)

\* Every variable holds a value of its kind.
TypeOK == ClusterTypeOK /\ CallTypeOK

-----------------------------------------------------------------------------
(* Why it works: the parts of an inductive invariant. *)

Arrived(r) == pc[r] \notin {"idle", "lock", "create"}

\* Past creating the ConfigMap, not yet past recording the release in it.
Provisioning(r) ==
    pc[r] \in {"mark", "install", "label", "record"} /\ call[r].op = "provision"

\* A request that has not arrived has done nothing yet.
IdleIsClean ==
    \A r \in Requests : pc[r] = "idle" =>
        copy[r] = None /\ target[r] = None /\ answer[r] = None /\ creds[r] = {}

\* A ConfigMap names the provision call that created it, for this instance, and
\* records no release but that call's own.
ConfigMapHasCreator ==
    \A i \in Instances : configMap[i] # None =>
        LET config == configMap[i] IN
        /\ Arrived(config.uid)
        /\ call[config.uid].op = "provision" /\ Inst(config.uid) = i
        /\ config.release \in {None, config.uid}
        /\ config.version <= revision

\* A provision under way still has its ConfigMap, with no release in it; a
\* release exists only once its provision has installed it.
CreatorIsAlone ==
    \A r \in Requests :
        /\ Provisioning(r) =>
              /\ configMap[Inst(r)] # None
              /\ configMap[Inst(r)].uid = r
              /\ configMap[Inst(r)].release = None
        /\ r \in releases => pc[r] \in {"label", "record", "succeed", "fail", "done", "dead"}

\* An unstored copy with the stored resourceVersion is the stored ConfigMap.
CopiesAreVersioned ==
    \A r \in Requests : copy[r] # None =>
        /\ copy[r].version <= revision
        /\ Current(Inst(r), copy[r]) => copy[r] = configMap[Inst(r)]

\* A release read at the start of a call was this instance's, and for as long
\* as the ConfigMap it was read from exists, it is recorded there.
TargetIsRecorded ==
    \A r \in Requests : target[r] # None =>
        /\ Arrived(target[r])
        /\ call[target[r]].op = "provision" /\ Inst(target[r]) = Inst(r)
        /\ configMap[Inst(r)] # None /\ configMap[Inst(r)].uid = target[r] =>
              configMap[Inst(r)].release = target[r]

\* The deprovision that is about to delete a ConfigMap is the one that removed
\* the very release it records, and no other is about to.
DeleterIsAlone ==
    \A r \in Requests : pc[r] = "delete" =>
        /\ configMap[Inst(r)] # None
        /\ target[r] # None /\ configMap[Inst(r)].release = target[r]
        /\ target[r] \notin releases
        /\ \A q \in Requests : pc[q] = "delete" /\ Inst(q) = Inst(r) => q = r

-----------------------------------------------------------------------------
(* Safety on any platform: calls overlap at will, any fault may strike. *)

\* Every Helm release the broker installed belongs to the ConfigMap its own
\* provision call created: no ConfigMap is deleted, taken over or recreated
\* while a release it should account for is in the cluster, so every release
\* can still be found (Provision's Create, Deprovision's delete by name).
NoOrphanRelease ==
    \A r \in releases :
        configMap[Inst(r)] # None /\ configMap[Inst(r)].uid = r

\* The inductive invariant behind it.
IInv ==
    /\ TypeOK /\ IdleIsClean /\ ConfigMapHasCreator /\ CreatorIsAlone
    /\ CopiesAreVersioned /\ TargetIsRecorded /\ DeleterIsAlone /\ NoOrphanRelease

\* An instance never has two releases, though Provision, Deprovision and a
\* second Provision of the same ID may all be running at once.
OneReleasePerInstance ==
    \A r, s \in releases : Inst(r) = Inst(s) => r = s

\* Concurrent read-modify-writes through updateConfigMap never undo each other:
\* a recorded release stays recorded, and the credentials of a binding change
\* only in the write of a Bind or Unbind of that very binding.
NoLostUpdate ==
    [][\A i \in Instances :
          configMap[i] # None /\ configMap'[i] # None =>
             /\ configMap'[i].uid = configMap[i].uid
             /\ configMap[i].release # None =>
                    configMap'[i].release = configMap[i].release
             /\ \A b \in Bindings :
                    configMap'[i].binding[b] # configMap[i].binding[b] =>
                       \E r \in Requests :
                          /\ pc[r] \in {"store", "remove"} /\ pc'[r] # pc[r]
                          /\ Inst(r) = i /\ Binding(r) = b]_vars

\* What "ok" has to mean in the state it is given in.  Provision: the release
\* runs, wholly labelled, and is recorded.  Deprovision: ConfigMap and release
\* are gone.  Bind: the credentials handed out are the ones stored.  Unbind: no
\* trace of the binding is left.
Truth(r) ==
    LET i == Inst(r)
        b == Binding(r)
    IN  /\ call[r].op = "provision" =>
              /\ configMap'[i] # None /\ configMap'[i].release = r
              /\ r \in releases' /\ labelled'[r] = Resources
        /\ call[r].op = "deprovision" =>
              configMap'[i] = None /\ \A q \in releases' : Inst(q) # i
        /\ call[r].op = "bind" =>
              creds'[r] # {} /\ creds'[r] = GetBinding(i, b)'
        /\ call[r].op = "unbind" =>
              GetBinding(i, b)' = {} /\ LastBindingOperationState(i, b)' = "gone"

\* A positive answer is true when it is given, whatever overlaps or fails.
AnswersAreTrue ==
    [][\A r \in Requests : answer[r] = None /\ answer'[r] = "ok" => Truth(r)]_vars

\* Credentials of one instance are never stored under another, nor handed out
\* for it, whatever namespace the releases share.
OwnCredentials ==
    /\ \A i \in Instances, b \in Bindings :
          \A x \in GetBinding(i, b) : Inst(x[1]) = i
    /\ \A r \in Requests : \A x \in creds[r] : Inst(x[1]) = Inst(r)

\* An instance nobody can finish: its provision is over without a recorded
\* release, or its release is gone and no call is about to delete the ConfigMap.
Stuck(i) ==
    /\ configMap[i] # None
    /\ IF configMap[i].release = None
       THEN ~Provisioning(configMap[i].uid)
       ELSE /\ configMap[i].release \notin releases
            /\ \A r \in Requests : pc[r] = "delete" => Inst(r) # i

\* Such an instance stays for ever: every Deprovision of it fails at Uninstall
\* (no release, or one that is gone), and every Provision is a conflict.  This
\* is a limit of the code, stated so that a fix of it is noticed.
StuckForGood == [][\A i \in Instances : Stuck(i) => Stuck(i)']_vars

StageOf(i) ==
    IF configMap[i] = None THEN "absent"
    ELSE IF configMap[i].release = None
         THEN IF configMap[i].uid \in releases THEN "installed" ELSE "reserved"
         ELSE IF configMap[i].release \in releases THEN "recorded" ELSE "removed"

Lifecycle == INSTANCE InstanceLifecycle WITH
    owner <- [i \in Instances |-> IF configMap[i] = None THEN None ELSE configMap[i].uid],
    stage <- [i \in Instances |-> StageOf(i)]

\* The broker implements InstanceLifecycle: the stages of an instance come in
\* order, one at a time, whatever overlaps, fails or crashes.
LifecycleImplemented == Lifecycle!LifecycleSpec

-----------------------------------------------------------------------------
(* Safety on a serial platform, which waits for each call on an instance. *)

\* "succeeded" in the ConfigMap is the word of the provision that created it,
\* given once its release was recorded and wholly labelled: no failure or crash
\* along the way, and no failed deprovision later, ends up as "succeeded".
SucceededMeansReady ==
    \A i \in Instances :
        configMap[i] # None /\ configMap[i].opState = "succeeded" =>
            LET r == configMap[i].uid IN
            /\ configMap[i].opName = r
            /\ configMap[i].release = r
            /\ r \in releases => labelled[r] = Resources

\* Credentials stored for an instance whose provision is recorded are all the
\* secrets of that very release: none missing because it was still being
\* labelled, none of an earlier instance with the same ID.
CompleteCredentials ==
    \A i \in Instances, b \in Bindings :
        GetBinding(i, b) # {} /\ configMap[i].release # None =>
            GetBinding(i, b) = {configMap[i].release} \X Secrets

\* A platform told that a bind succeeded finds its credentials with GetBinding,
\* although the two keys are written by separate updates.
BoundMeansFetchable ==
    \A i \in Instances, b \in Bindings :
        LastBindingOperationState(i, b) = "succeeded" => GetBinding(i, b) # {}

-----------------------------------------------------------------------------
(* What polling an asynchronous operation tells. *)

Accepted(r, op) == answer[r] = "accepted" /\ call[r].op = op

\* With no fault of the API server and asynchronous calls, an instance that was
\* only provisioned and deprovisioned does not read "in progress" once none of
\* its calls is running, whichever overlapped and whichever key a poll gives: the
\* goroutines drop the error of their last update, yet a conflict means another
\* one still has to write.
NothingLeftInProgress ==
    \A i \in Instances :
        (\A r \in Requests : call[r] # None /\ Inst(r) = i =>
            ~Live(r) /\ call[r].op \in {"provision", "deprovision"}) =>
                \A r \in Requests \cup {None} : LastOperationState(i, r) # "in progress"

\* LastOperationState gives the status of the operation it is asked about: a
\* deprovision never reads "succeeded", since success removes the ConfigMap.
PollsOwnOperation ==
    \A r \in Requests : Accepted(r, "deprovision") =>
        LastOperationState(Inst(r), r) # "succeeded"

\* An asynchronous bind that is over has left its result in the ConfigMap, as
\* long as that is still there and nobody has unbound it.
BindResultReported ==
    \A r \in Requests :
        pc[r] = "done" /\ Accepted(r, "bind") =>
            LastBindingOperationState(Inst(r), Binding(r)) # "gone"

-----------------------------------------------------------------------------
(* Liveness *)

\* A call that waits for Helm, or for the lock of one that does.
WaitsForHelm(r) ==
    \/ pc[r] \in HelmCalls
    \/ /\ pc[r] = "lock"
       /\ \E q \in Requests : lock[call[r].broker] = q /\ pc[q] \in HelmCalls

\* Helm is all a call can wait for in vain: every call ends, or waits for ever
\* for an install or uninstall of its own or of the call that has Broker.Lock.
\* No update that fails, no lost reply and no panic of a handler that has the
\* lock (LastBindingOperationState after a failed Get) leaves a call behind.
EveryCallEnds == \A r \in Requests : []<>~Live(r) \/ <>[]WaitsForHelm(r)

HelmWorks(i) == \E q \in Requests : pc[q] \in HelmCalls /\ Inst(q) = i

Bound(i) ==
    \E q \in Requests : pc[q] # "idle" /\ call[q].op \in {"bind", "unbind"} /\ Inst(q) = i

\* An accepted operation at its Helm call that has the last mark on its instance
\* and is all that runs there.
LastToMark(r, op, i) ==
    /\ Accepted(r, op) /\ pc[r] \in HelmCalls /\ Inst(r) = i
    /\ LastOperationState(i, r) = "in progress"
    /\ \A q \in Requests \ {r} : Live(q) => Inst(q) # i

Disturbed(r, i) == \E q \in Requests \ {r} : Live(q) /\ Inst(q) = i

\* With no fault and one process polling settles, unless Helm never answers.
\* However Provisions and Deprovisions of an instance race, the last update of
\* each unretried, none reads "in progress" for ever; and while nothing else runs
\* on the instance the last one to put its mark comes to read "succeeded" when it
\* is a provision, "gone" when it is a deprovision of a release that is there.
PollingSettles ==
    \A r \in Requests, i \in Instances :
        \/ <>[]HelmWorks(i)
        \/ /\ (\E op \in {"provision", "deprovision"} : Accepted(r, op)) /\ Inst(r) = i
                 ~> LastOperationState(i, r) # "in progress" \/ Bound(i)
           /\ LastToMark(r, "provision", i)
                 ~> LastOperationState(i, r) = "succeeded" \/ Disturbed(r, i)
           /\ LastToMark(r, "deprovision", i) /\ target[r] \in releases
                 ~> LastOperationState(i, r) = "gone" \/ Disturbed(r, i)

\* With no fault, a deprovision that found a recorded release gets rid of it and
\* of its ConfigMap once Helm answers, even when several race for them.
DeprovisionFinishes ==
    \A q \in Requests :
        \/ <>[](pc[q] = "uninstall")
        \/ pc[q] = "uninstall" /\ target[q] # None ~>
              /\ target[q] \notin releases
              /\ \A i \in Instances : configMap[i] # None => configMap[i].uid # target[q]
=============================================================================
