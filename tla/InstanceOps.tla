---------------------------- MODULE InstanceOps ----------------------------
(***************************************************************************)
(* Client.Provision, Client.Deprovision and LastOperationState of          *)
(* pkg/minibroker, one action per call they make to the API server or to   *)
(* Helm.  An asynchronous operation detaches after its "in progress" mark. *)
(***************************************************************************)
EXTENDS BrokerCalls

\* provisionSynchronously or deprovisionSynchronously returned an error.
OperationFailed(r) ==
    IF call[r].async THEN Goto(r, "fail") ELSE Finish(r, "error")

-----------------------------------------------------------------------------
(* Provision *)

\* Faulty variant: Create-or-Update where the code has Create.
CreateOrTakeOver(r) ==
    /\ pc[r] = "create"
    /\ Store(Inst(r), NewConfigMap(r))
    /\ Goto(r, IF call[r].async THEN "mark" ELSE "install")
    /\ UNCHANGED <<call, copy, target, creds>>

CreateConfigMap(r) ==
    /\ pc[r] = "create"
    /\ \/ /\ configMap[Inst(r)] = None
          /\ Store(Inst(r), NewConfigMap(r))
          /\ \/ Goto(r, IF call[r].async THEN "mark" ELSE "install")
             \/ "kube" \in Faults /\ Finish(r, "error")     \* the reply is lost
       \/ /\ configMap[Inst(r)] # None
          /\ Finish(r, "conflict")
          /\ UNCHANGED clusterVars
       \/ /\ "kube" \in Faults
          /\ Finish(r, "error")
          /\ UNCHANGED clusterVars
    /\ UNCHANGED <<call, copy, target, creds>>

\* Faulty variant: a deprovision detaches the goroutine of a provision.
MarkThenInstall(r) ==
    /\ pc[r] = "mark"
    /\ UpdateConfigMap(r, [copy[r] EXCEPT !.opState = "in progress", !.opName = r],
           Detach(r, "install"), Finish(r, "error"))

\* Shared by both operations: the operation key goes into the ConfigMap, and
\* only then does the platform get it.
MarkInProgress(r) ==
    /\ pc[r] = "mark"
    /\ UpdateConfigMap(r, [copy[r] EXCEPT !.opState = "in progress", !.opName = r],
           Detach(r, IF call[r].op = "provision" THEN "install" ELSE "uninstall"),
           Finish(r, "error"))

\* GetChart, then helm install --wait.  A failed install may leave its release.
Install(r) ==
    /\ pc[r] = "install"
    /\ \/ AddRelease(r) /\ Goto(r, "label")
       \/ /\ "helm" \in Faults
          /\ AddRelease(r) \/ UNCHANGED clusterVars
          /\ OperationFailed(r)
    /\ UNCHANGED <<call, copy, target, creds>>

Unlabelled(r) == IF r \in releases THEN Resources \ labelled[r] ELSE {}

\* All services are labelled before the first secret.
NextToLabel(r) ==
    IF Unlabelled(r) \cap Services # {}
    THEN Unlabelled(r) \cap Services ELSE Unlabelled(r)

\* Faulty variant: the loop may end before everything is labelled.
LabelSome(r) ==
    /\ pc[r] = "label"
    /\ \/ /\ \E s \in NextToLabel(r) : AddLabel(r, s)
          /\ Goto(r, "label")
       \/ /\ Goto(r, "record")
          /\ UNCHANGED clusterVars
    /\ UNCHANGED <<call, copy, target, creds>>

LabelResources(r) ==
    /\ pc[r] = "label"
    /\ \/ /\ \E s \in NextToLabel(r) : AddLabel(r, s)
          /\ Goto(r, "label")
       \/ /\ Unlabelled(r) = {}
          /\ Goto(r, "record")
          /\ UNCHANGED clusterVars
       \/ /\ "kube" \in Faults
          /\ OperationFailed(r)
          /\ UNCHANGED clusterVars
    /\ UNCHANGED <<call, copy, target, creds>>

RecordRelease(r) ==
    /\ pc[r] = "record"
    /\ UpdateConfigMap(r, [copy[r] EXCEPT !.release = r],
           IF call[r].async THEN Goto(r, "succeed") ELSE Finish(r, "ok"),
           OperationFailed(r))

\* The goroutine's last word.  Its own failure is logged at most.
ReportSuccess(r) ==
    /\ pc[r] = "succeed"
    /\ call[r].op = "provision"
    /\ UpdateConfigMap(r, [copy[r] EXCEPT !.opState = "succeeded"],
           Finish(r, "ok"), Finish(r, "error"))

\* Faulty variant: the error of the operation is not looked at.
ReportSuccessAnyway(r) ==
    /\ pc[r] = "fail"
    /\ call[r].op \in {"provision", "deprovision"}
    /\ UpdateConfigMap(r, [copy[r] EXCEPT !.opState = "succeeded"],
           Finish(r, "error"), Finish(r, "error"))

\* Faulty variant: a failed operation is only logged.
LogFailure(r) ==
    /\ pc[r] = "fail"
    /\ call[r].op \in {"provision", "deprovision"}
    /\ Finish(r, "error")
    /\ UNCHANGED <<call, copy, target, creds, clusterVars>>

ReportFailure(r) ==
    /\ pc[r] = "fail"
    /\ call[r].op \in {"provision", "deprovision"}
    /\ UpdateConfigMap(r, [copy[r] EXCEPT !.opState = "failed"],
           Finish(r, "error"), Finish(r, "error"))

-----------------------------------------------------------------------------
(* Deprovision *)

LookUpRelease(r) ==
    /\ pc[r] = "lookup"
    /\ \/ /\ configMap[Inst(r)] # None
          /\ target' = [target EXCEPT ![r] = configMap[Inst(r)].release]
          /\ Goto(r, IF call[r].async THEN "mark" ELSE "uninstall")
       \/ /\ configMap[Inst(r)] = None
          /\ Finish(r, "gone")
          /\ UNCHANGED target
       \/ /\ "kube" \in Faults
          /\ Finish(r, "error")
          /\ UNCHANGED target
    /\ UNCHANGED <<call, copy, creds, clusterVars>>

\* Faulty variant: a release that is not there counts as uninstalled.
UninstallIfThere(r) ==
    /\ pc[r] = "uninstall"
    /\ IF target[r] \in releases THEN DropRelease(target[r]) ELSE UNCHANGED clusterVars
    /\ Goto(r, "delete")
    /\ UNCHANGED <<call, copy, target, creds>>

\* helm uninstall of the release read at the start: an error when there is none.
Uninstall(r) ==
    /\ pc[r] = "uninstall"
    /\ \/ /\ target[r] \in releases
          /\ DropRelease(target[r])
          /\ \/ Goto(r, "delete")
             \/ "helm" \in Faults /\ OperationFailed(r)
       \/ /\ target[r] \notin releases \/ "helm" \in Faults
          /\ OperationFailed(r)
          /\ UNCHANGED clusterVars
    /\ UNCHANGED <<call, copy, target, creds>>

\* Faulty variant: the ConfigMap is left behind.
DeleteNothing(r) ==
    /\ pc[r] = "delete"
    /\ Finish(r, "ok")
    /\ UNCHANGED <<call, copy, target, creds, clusterVars>>

\* The ConfigMap is deleted by its name, whichever request made it.
DeleteConfigMap(r) ==
    /\ pc[r] = "delete"
    /\ \/ /\ configMap[Inst(r)] # None
          /\ Remove(Inst(r))
          /\ \/ Finish(r, "ok")
             \/ "kube" \in Faults /\ OperationFailed(r)     \* the reply is lost
       \/ /\ configMap[Inst(r)] = None \/ "kube" \in Faults
          /\ OperationFailed(r)
          /\ UNCHANGED clusterVars
    /\ UNCHANGED <<call, copy, target, creds>>

InstanceStep(r) ==
    \/ CreateConfigMap(r) \/ MarkInProgress(r) \/ Install(r) \/ LabelResources(r)
    \/ RecordRelease(r) \/ ReportSuccess(r) \/ ReportFailure(r)
    \/ LookUpRelease(r) \/ Uninstall(r) \/ DeleteConfigMap(r)

-----------------------------------------------------------------------------
\* What LastOperationState answers to a poll of instance i with operation key r,
\* or with none.
LastOperationState(i, r) ==
    IF configMap[i] = None THEN "gone"
    ELSE IF r # None /\ configMap[i].opName # r THEN "conflict"
    ELSE configMap[i].opState
=============================================================================
