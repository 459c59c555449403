----------------------------- MODULE BindingOps -----------------------------
(***************************************************************************)
(* Client.Bind and Client.Unbind with the tail pkg/broker Bind runs for a  *)
(* synchronous call, and the two reads platforms poll bindings with.       *)
(***************************************************************************)
EXTENDS BrokerCalls

Binding(r) == call[r].binding

\* Faulty variant: the list goes by namespace alone, not by instance label.
VisibleInNamespace(r, kind) ==
    {x \in releases \X kind :
        /\ x[2] \in labelled[x[1]]
        /\ target[r] # None => call[x[1]].namespace = call[target[r]].namespace}

\* Labelled objects of the instance; no recorded release means no recorded
\* namespace, and an empty namespace lists all of them.
Visible(r, kind) ==
    {x \in releases \X kind :
        /\ x[2] \in labelled[x[1]]
        /\ Inst(x[1]) = Inst(r)
        /\ target[r] # None => call[x[1]].namespace = call[target[r]].namespace}

\* The instance's ConfigMap is all Bind asks for: an instance still being
\* provisioned, or one that failed to, is bound like any other.
FindInstance(r) ==
    /\ pc[r] = "find"
    /\ \/ /\ configMap[Inst(r)] # None
          /\ target' = [target EXCEPT ![r] = configMap[Inst(r)].release]
          /\ IF call[r].async THEN Detach(r, "listServices") ELSE Goto(r, "listServices")
       \/ /\ configMap[Inst(r)] = None
          /\ Finish(r, "not found")
          /\ UNCHANGED target
       \/ /\ "kube" \in Faults
          /\ Finish(r, "error")
          /\ UNCHANGED target
    /\ UNCHANGED <<call, copy, creds, clusterVars>>

ListServices(r) ==
    /\ pc[r] = "listServices"
    /\ \/ Visible(r, Services) # {} /\ Goto(r, "listSecrets")
       \/ Visible(r, Services) = {} /\ Goto(r, "fail")
       \/ "kube" \in Faults /\ Goto(r, "fail")
    /\ UNCHANGED <<call, copy, target, creds, clusterVars>>

\* The secrets, and the provider's Bind that turns them into credentials.
ListSecrets(r) ==
    /\ pc[r] = "listSecrets"
    /\ \/ /\ Visible(r, Secrets) # {}
          /\ creds' = [creds EXCEPT ![r] = Visible(r, Secrets)]
          /\ Goto(r, "store")
       \/ /\ Visible(r, Secrets) = {} \/ Faults \cap {"kube", "provider"} # {}
          /\ Goto(r, "fail")
          /\ UNCHANGED creds
    /\ UNCHANGED <<call, copy, target, clusterVars>>

\* Faulty variant: the error of the first update is ignored.
StoreBindingBlindly(r) ==
    /\ pc[r] = "store"
    /\ UpdateConfigMap(r, [copy[r] EXCEPT !.binding[Binding(r)] = creds[r]],
           Goto(r, "succeed"), Goto(r, "succeed"))

StoreBinding(r) ==
    /\ pc[r] = "store"
    /\ UpdateConfigMap(r, [copy[r] EXCEPT !.binding[Binding(r)] = creds[r]],
           Goto(r, "succeed"), Goto(r, "fail"))

\* bindSynchronously returns nil whenever this write works, even for a failure.
ReportBinding(r) ==
    /\ \E outcome \in {"succeed", "fail"} :
          /\ pc[r] = outcome
          /\ call[r].op = "bind"
          /\ UpdateConfigMap(r,
                 [copy[r] EXCEPT !.bindState[Binding(r)] =
                     IF outcome = "succeed" THEN "succeeded" ELSE "failed"],
                 IF call[r].async THEN Finish(r, "ok") ELSE Goto(r, "check"),
                 Finish(r, "error"))

\* LastBindingOperationState and GetBinding of pkg/minibroker, as the unlocked
\* polls and the tail of a synchronous bind call them.
LastBindingOperationState(i, b) ==
    IF configMap[i] = None \/ configMap[i].bindState[b] = None
    THEN "gone" ELSE configMap[i].bindState[b]

GetBinding(i, b) == IF configMap[i] = None THEN {} ELSE configMap[i].binding[b]

\* Faulty variant: no deferred Unlock runs when the handler panics.
PanicKeepsLock(r) ==
    /\ pc[r] = "check"
    /\ LET state == LastBindingOperationState(Inst(r), Binding(r)) IN
       \/ state = "succeeded" /\ Goto(r, "fetch")
       \/ state = "failed" /\ Finish(r, "error")
       \/ state = "gone" /\ Finish(r, "gone")
       \/ "kube" \in Faults /\ Goto(r, "done")
    /\ UNCHANGED <<call, copy, target, creds, clusterVars>>

\* A failed Get makes LastBindingOperationState dereference a nil ConfigMap;
\* net/http recovers the panic, the deferred Unlock has run.
CheckBindState(r) ==
    /\ pc[r] = "check"
    /\ LET state == LastBindingOperationState(Inst(r), Binding(r)) IN
       \/ state = "succeeded" /\ Goto(r, "fetch")
       \/ state = "failed" /\ Finish(r, "error")
       \/ state = "gone" /\ Finish(r, "gone")
       \/ "kube" \in Faults /\ Finish(r, "error")
    /\ UNCHANGED <<call, copy, target, creds, clusterVars>>

FetchBinding(r) ==
    /\ pc[r] = "fetch"
    /\ LET stored == GetBinding(Inst(r), Binding(r)) IN
       \/ /\ stored # {}
          /\ creds' = [creds EXCEPT ![r] = stored]
          /\ Finish(r, "ok")
       \/ stored = {} /\ Finish(r, "not found") /\ UNCHANGED creds
       \/ "kube" \in Faults /\ Finish(r, "error") /\ UNCHANGED creds
    /\ UNCHANGED <<call, copy, target, clusterVars>>

\* Faulty variant: the state of the binding is not removed.
RemoveCredentialsOnly(r) ==
    /\ pc[r] = "remove"
    /\ UpdateConfigMap(r, [copy[r] EXCEPT !.binding[Binding(r)] = {}],
           Finish(r, "ok"), Finish(r, "error"))

RemoveBinding(r) ==
    /\ pc[r] = "remove"
    /\ UpdateConfigMap(r,
           [copy[r] EXCEPT !.binding[Binding(r)] = {}, !.bindState[Binding(r)] = None],
           Finish(r, "ok"), Finish(r, "error"))

BindingStep(r) ==
    \/ FindInstance(r) \/ ListServices(r) \/ ListSecrets(r) \/ StoreBinding(r)
    \/ ReportBinding(r) \/ CheckBindState(r) \/ FetchBinding(r) \/ RemoveBinding(r)
=============================================================================
