-------------------------- MODULE MCRestoreWorkers --------------------------
(* Small instances of RestoreWorkers for TLC.                               *)
EXTENDS RestorePoolRefinement, TLC

CONSTANTS t1, t2, k1, k2, i1

(* Every task names the one key; t2 has no index. *)
OneKeyAndEmpty == (t1 :> k1) @@ (t2 :> NoIndices)
TwoKeys == (t1 :> k1) @@ (t2 :> k2)

(* Two tasks may name the same source index. *)
OneIndex == [k \in Keys |-> i1]

(* With TwoKeys a task and its key are as good as the other two.            *)
Swap == (t1 :> t2) @@ (t2 :> t1) @@ (k1 :> k2) @@ (k2 :> k1)

Symmetric == Permutations(Workers) \cup Permutations(Rows) \cup {Swap}
=============================================================================
