---------------------------- MODULE BrokerCalls ----------------------------
(***************************************************************************)
(* How one OSB call runs in a broker process: the handler goroutine that   *)
(* net/http starts, the lock of pkg/broker Broker, the `go func()` that    *)
(* outlives the handler of an asynchronous call, and the read-then-write   *)
(* of Client.updateConfigMap that every operation shares.                  *)
(***************************************************************************)
EXTENDS Cluster

CONSTANTS Brokers,      \* broker processes; two while a Deployment rolls over
          Namespaces,   \* namespaces releases are installed in
          Ops,          \* the operations platforms call
          Modes,        \* the values of accepts_incomplete they send
          Serial        \* TRUE: no call starts while another one runs on its instance

OpNames == {"provision", "deprovision", "bind", "unbind"}

ASSUME OpsAreKnown == Ops \subseteq OpNames /\ Modes \subseteq BOOLEAN

VARIABLES call,         \* request -> what was asked, None before it arrives
          pc,           \* request -> the next API call its goroutine makes
          copy,         \* request -> the ConfigMap updateConfigMap is about to write back
          target,       \* request -> the release read from the ConfigMap at the start
          creds,        \* request -> the credentials a bind has in hand
          answer,       \* request -> what the platform was answered
          lock          \* broker -> the request that holds Broker.Lock

callVars == <<call, pc, copy, target, creds, answer, lock>>

InstanceCalls(op, namespaces) ==
    [op : {op}, instance : Instances, binding : {None},
     namespace : namespaces, async : BOOLEAN, broker : Brokers]

BindingCalls(op, modes) ==
    [op : {op}, instance : Instances, binding : Bindings,
     namespace : {None}, async : modes, broker : Brokers]

Calls == InstanceCalls("provision", Namespaces) \cup InstanceCalls("deprovision", {None})
         \cup BindingCalls("bind", BOOLEAN) \cup BindingCalls("unbind", {FALSE})

\* The API calls an operation makes, in the order the code makes them.
LabelsOf(op) ==
    CASE op = "provision" ->
            {"lock", "create", "mark", "install", "label", "record", "succeed", "fail"}
      [] op = "deprovision" -> {"lock", "lookup", "mark", "uninstall", "delete", "fail"}
      [] op = "bind" ->
            {"lock", "find", "listServices", "listSecrets", "store", "succeed", "fail",
             "check", "fetch"}
      [] op = "unbind" -> {"remove"}

Labels == {"idle", "done", "dead"} \cup UNION {LabelsOf(op) : op \in OpNames}

Answers == {None, "accepted", "ok", "conflict", "gone", "not found", "error"}

ASSUME NoneIsNoAnswer ==
    None \notin {"accepted", "ok", "conflict", "gone", "not found", "error"}
ASSUME NoneIsNoCall == None \notin Calls

Live(r) == pc[r] \notin {"idle", "done", "dead"}
Inst(r) == call[r].instance

CallTypeOK ==
    /\ call \in [Requests -> Calls \cup {None}]
    /\ pc \in [Requests -> Labels]
    /\ copy \in [Requests -> ConfigMaps \cup {None}]
    /\ target \in [Requests -> Requests \cup {None}]
    /\ creds \in [Requests -> Credentials]
    /\ answer \in [Requests -> Answers]
    /\ lock \in [Brokers -> Requests \cup {None}]
    /\ \A r \in Requests :
          /\ pc[r] # "idle" => call[r] \in Calls
          /\ Live(r) => pc[r] \in LabelsOf(call[r].op)

CallInit ==
    /\ call = [r \in Requests |-> None]
    /\ pc = [r \in Requests |-> "idle"]
    /\ copy = [r \in Requests |-> None]
    /\ target = [r \in Requests |-> None]
    /\ creds = [r \in Requests |-> {}]
    /\ answer = [r \in Requests |-> None]
    /\ lock = [k \in Brokers |-> None]

-----------------------------------------------------------------------------
(* Control flow inside a call. *)

Goto(r, l) ==
    /\ pc' = [pc EXCEPT ![r] = l]
    /\ UNCHANGED <<answer, lock>>

\* Faulty variant: the deferred Unlock is missing.
ReplyLocked(r, a) ==
    /\ answer' = [answer EXCEPT ![r] = a]
    /\ lock' = lock

\* The handler returns: its answer is sent and the deferred Unlock runs.
Reply(r, a) ==
    /\ answer' = [answer EXCEPT ![r] = a]
    /\ lock' = [k \in Brokers |-> IF lock[k] = r THEN None ELSE lock[k]]

\* `go func()`: the handler answers, the rest of the work goes on without it.
Detach(r, l) ==
    /\ pc' = [pc EXCEPT ![r] = l]
    /\ Reply(r, "accepted")

\* The goroutine is over; a detached one has nobody left to answer.
Finish(r, a) ==
    /\ pc' = [pc EXCEPT ![r] = "done"]
    /\ IF answer[r] = None THEN Reply(r, a) ELSE UNCHANGED <<answer, lock>>

-----------------------------------------------------------------------------
(* updateConfigMap: Get, change some keys, Update.  new is the patched     *)
(* copy; ok and bad are what the caller does with the outcome.             *)

ReadConfigMap(r) ==
    /\ configMap[Inst(r)] # None
    /\ copy' = [copy EXCEPT ![r] = configMap[Inst(r)]]
    /\ UNCHANGED <<pc, answer, lock, clusterVars>>

\* Faulty variant: the object written is a fresh one, without the
\* resourceVersion of the one that was read.
UpdateUnversioned(r, new, ok, bad) ==
    /\ \/ copy[r] = None /\ ReadConfigMap(r)
       \/ /\ copy[r] # None /\ configMap[Inst(r)] # None
          /\ Replace(Inst(r), new)
          /\ ok
          /\ copy' = [copy EXCEPT ![r] = None]
    /\ UNCHANGED <<call, target, creds>>

UpdateConfigMap(r, new, ok, bad) ==
    /\ \/ /\ copy[r] = None
          /\ ReadConfigMap(r)
       \/ /\ copy[r] = None                         \* the Get fails
          /\ configMap[Inst(r)] = None \/ "kube" \in Faults
          /\ bad
          /\ UNCHANGED <<copy, clusterVars>>
       \/ /\ copy[r] # None
          /\ Current(Inst(r), copy[r])
          /\ Replace(Inst(r), new)
          /\ \/ ok
             \/ "kube" \in Faults /\ bad            \* written, but the reply is lost
          /\ copy' = [copy EXCEPT ![r] = None]
       \/ /\ copy[r] # None                         \* the Update fails
          /\ ~Current(Inst(r), copy[r]) \/ "kube" \in Faults
          /\ bad
          /\ copy' = [copy EXCEPT ![r] = None]
          /\ UNCHANGED clusterVars
    /\ UNCHANGED <<call, target, creds>>

-----------------------------------------------------------------------------
(* A call arrives, takes the lock, or dies with its process. *)

Quiet(r, i) == ~Serial \/ \A q \in Requests \ {r} : Live(q) => Inst(q) # i

Receive(r) ==
    /\ pc[r] = "idle"
    /\ \E c \in Calls :
          /\ c.op \in Ops
          /\ c.async \in Modes \/ c.op = "unbind"
          /\ Quiet(r, c.instance)
          /\ call' = [call EXCEPT ![r] = c]
          /\ pc' = [pc EXCEPT ![r] = IF c.op = "unbind" THEN "remove" ELSE "lock"]
    /\ UNCHANGED <<copy, target, creds, answer, lock, clusterVars>>

FirstStep(op) == CASE op = "provision" -> "create"
                   [] op = "deprovision" -> "lookup"
                   [] op = "bind" -> "find"

\* Broker.Lock; Unbind is the one writer that never takes it.
Acquire(r) ==
    /\ pc[r] = "lock"
    /\ lock[call[r].broker] = None
    /\ lock' = [lock EXCEPT ![call[r].broker] = r]
    /\ pc' = [pc EXCEPT ![r] = FirstStep(call[r].op)]
    /\ UNCHANGED <<call, copy, target, creds, answer, clusterVars>>

\* The process exits (main's os.Exit on a signal, an eviction): handlers and
\* detached goroutines stop where they are, whatever they had half done.
Crash(k) ==
    /\ "crash" \in Faults
    /\ \E r \in Requests : Live(r) /\ call[r].broker = k
    /\ pc' = [r \in Requests |-> IF Live(r) /\ call[r].broker = k THEN "dead" ELSE pc[r]]
    /\ lock' = [lock EXCEPT ![k] = None]
    /\ UNCHANGED <<call, copy, target, creds, answer, clusterVars>>
=============================================================================
