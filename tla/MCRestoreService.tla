-------------------------- MODULE MCRestoreService --------------------------
(* A small instance of RestoreService for TLC: one RestoreTask, whose node  *)
(* is not there yet.                                                        *)
EXTENDS RestoreService, TLC

CONSTANTS t1, k1, i1, n0, n1

OneOriginal == <<[name |-> n0, size |-> 1]>>

OneNode == t1 :> n1
OneSize == t1 :> 1
ThreeEvents == t1 :> 3
OneKey == t1 :> k1
OneIndex == k1 :> i1

NoNames == [q \in {} |-> n0]
NoSizes == [q \in {} |-> 0]
=============================================================================
