---------------------------- MODULE MCMinibroker ----------------------------
(***************************************************************************)
(* Small instances of Minibroker for TLC.  Requests bounds how many calls  *)
(* are ever made, and with it every counter of the specification.          *)
(***************************************************************************)
EXTENDS Minibroker, TLC

\* No definition names a particular member of these sets.
Symmetry ==
    UNION {Permutations(S) : S \in {Requests, Instances, Bindings, Secrets, Brokers, Namespaces}}

\* For the runs that check liveness, where symmetry is unsound: requests are
\* numbers, and arrive in their order.
ArriveInOrder ==
    \A r, q \in Requests : r < q /\ pc[r] = "idle" => pc'[q] = "idle"
=============================================================================
