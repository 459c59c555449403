------------------------------ MODULE Cluster ------------------------------
(***************************************************************************)
(* What minibroker keeps outside its own process: one ConfigMap per        *)
(* service instance in the Kubernetes API, and the Helm releases with the  *)
(* instance labels the broker puts on their services and secrets.  None of *)
(* it is code under src/; it is modelled from how pkg/minibroker and       *)
(* pkg/helm call it.                                                       *)
(*                                                                         *)
(* A request is the identity of one OSB call.  The ConfigMap it creates,   *)
(* the Helm release it installs and the operation key it is answered with  *)
(* are all named by the request that made them.                            *)
(***************************************************************************)
EXTENDS Naturals

CONSTANTS Instances,    \* service instance IDs
          Bindings,     \* binding IDs
          Requests,     \* every OSB call that is ever made
          Services,     \* the Service objects of one release
          Secrets,      \* the Secret objects of one release
          Faults,       \* the kinds of failure a run allows
          None          \* absence: no ConfigMap, no value under a key

FaultKinds == {"kube", "helm", "provider", "crash"}

ASSUME KindsOfResources == Services \cap Secrets = {}
ASSUME FaultsAreKnown == Faults \subseteq FaultKinds

VARIABLES configMap,    \* instance -> its ConfigMap, None when there is none
          revision,     \* the resourceVersion handed out last
          releases,     \* the Helm releases in the cluster
          labelled      \* release -> its objects that carry the instance label

clusterVars == <<configMap, revision, releases, labelled>>

Resources == Services \cup Secrets
OpStates == {None, "in progress", "succeeded", "failed"}
BindStates == {None, "succeeded", "failed"}

\* A credential is a secret of a release; {} stands for a key with no value.
Credentials == SUBSET (Requests \X Secrets)

ConfigMaps == [uid       : Requests,
               version   : Nat,
               release   : Requests \cup {None},
               opName    : Requests \cup {None},
               opState   : OpStates,
               binding   : [Bindings -> Credentials],
               bindState : [Bindings -> BindStates]]

ASSUME NoneIsFresh == None \notin Requests /\ None \notin ConfigMaps
ASSUME NoneIsNoState == None \notin {"in progress", "succeeded", "failed"}

ClusterTypeOK ==
    /\ configMap \in [Instances -> ConfigMaps \cup {None}]
    /\ revision \in Nat
    /\ releases \subseteq Requests
    /\ labelled \in [Requests -> SUBSET Resources]

ClusterInit ==
    /\ configMap = [i \in Instances |-> None]
    /\ revision = 0
    /\ releases = {}
    /\ labelled = [r \in Requests |-> {}]

-----------------------------------------------------------------------------
(* The ConfigMap store. *)

NewConfigMap(r) ==
    [uid |-> r, version |-> revision + 1, release |-> None,
     opName |-> None, opState |-> None,
     binding |-> [b \in Bindings |-> {}],
     bindState |-> [b \in Bindings |-> None]]

\* Every stored change gets a resourceVersion nothing else ever had.
Store(i, config) ==
    /\ configMap' = [configMap EXCEPT ![i] = config]
    /\ revision' = revision + 1
    /\ UNCHANGED <<releases, labelled>>

\* The API server refuses an Update whose resourceVersion is not the stored one.
Current(i, config) == configMap[i] # None /\ configMap[i].version = config.version

\* An Update that changes nothing leaves the resourceVersion alone.
Replace(i, config) ==
    IF config = configMap[i]
    THEN UNCHANGED clusterVars
    ELSE Store(i, [config EXCEPT !.version = revision + 1])

Remove(i) ==
    /\ configMap' = [configMap EXCEPT ![i] = None]
    /\ UNCHANGED <<revision, releases, labelled>>

-----------------------------------------------------------------------------
(* Helm releases and the labels on their objects. *)

AddRelease(r) ==
    /\ releases' = releases \cup {r}
    /\ UNCHANGED <<configMap, revision, labelled>>

\* The objects of a release go with it, and their labels with them.
DropRelease(r) ==
    /\ releases' = releases \ {r}
    /\ labelled' = [labelled EXCEPT ![r] = {}]
    /\ UNCHANGED <<configMap, revision>>

AddLabel(r, s) ==
    /\ labelled' = [labelled EXCEPT ![r] = @ \cup {s}]
    /\ UNCHANGED <<configMap, revision, releases>>
=============================================================================
