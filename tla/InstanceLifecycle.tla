------------------------- MODULE InstanceLifecycle -------------------------
(***************************************************************************)
(* What minibroker promises about one service instance: its ID is reserved *)
(* by one provision call, that call's Helm release is installed and then   *)
(* recorded, a recorded release may be removed, and only then is the ID    *)
(* free for another provision.  Any stage may last for ever: the promise   *)
(* is about the order, under any interleaving, failure or crash.           *)
(***************************************************************************)
CONSTANTS Instances, Requests, None

VARIABLES owner,    \* instance -> the provision call that holds its ID
          stage     \* instance -> how far that call's release has got

lifecycleVars == <<owner, stage>>

Stages == {"absent", "reserved", "installed", "recorded", "removed"}

LifecycleInit ==
    /\ owner = [i \in Instances |-> None]
    /\ stage = [i \in Instances |-> "absent"]

Reserve(i, r) ==
    /\ stage[i] = "absent"
    /\ owner' = [owner EXCEPT ![i] = r]
    /\ stage' = [stage EXCEPT ![i] = "reserved"]

Advance(i, from, to) ==
    /\ stage[i] = from
    /\ stage' = [stage EXCEPT ![i] = to]
    /\ UNCHANGED owner

Release(i) ==
    /\ stage[i] = "removed"
    /\ owner' = [owner EXCEPT ![i] = None]
    /\ stage' = [stage EXCEPT ![i] = "absent"]

LifecycleNext ==
    \E i \in Instances :
        \/ \E r \in Requests : Reserve(i, r)
        \/ Advance(i, "reserved", "installed")
        \/ Advance(i, "installed", "recorded")
        \/ Advance(i, "recorded", "removed")
        \/ Release(i)

LifecycleSpec == LifecycleInit /\ [][LifecycleNext]_lifecycleVars
=============================================================================
