-------------------------- MODULE MCRestoreHandlers --------------------------
(* Small instances of RestoreHandlers for TLC.                              *)
EXTENDS RestoreHandlers, TLC

CONSTANTS p1, q1, q2, q3, c1

(* q1 and q2 want a node for a task of c1, q3 for the task that p1 makes.   *)
Ids == (p1 :> "a") @@ (q1 :> "b") @@ (q2 :> "b") @@ (q3 :> "a")

Alike == Permutations({q1, q2})

Bodies == c1 :> <<[id |-> "b", index |-> "x"], [id |-> "d", index |-> "y"]>>
=============================================================================
