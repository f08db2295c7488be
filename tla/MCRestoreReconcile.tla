------------------------- MODULE MCRestoreReconcile -------------------------
(* Small instances of RestoreReconcile for TLC.                             *)
EXTENDS RestoreReconcile, TLC

CONSTANTS t1, t2, q1, q2, n0, n1, n2, n3

OneOriginal == <<[name |-> n0, size |-> 1]>>

(* Two RestoreTasks with a node of their own. *)
OwnNodes == (t1 :> n1) @@ (t2 :> n2)
OneGB == (t1 :> 1) @@ (t2 :> 1)

(* Two RestoreTasks of one request to RestoreViaCR: they share a node. *)
OneNode == (t1 :> n1) @@ (t2 :> n1)

NoNames == [q \in {} |-> n0]
NoSizes == [q \in {} |-> 0]

(* q1 creates a node nobody else names, q2 deletes the node of t1. *)
CreateAndDelete == (q1 :> n3) @@ (q2 :> n1)
CreateAndDeleteSizes == (q1 :> 1) @@ (q2 :> 0)

(* One RestoreTask beside two requests: it is created and then, twice,      *)
(* changed, deleted, created again or met by a restart. *)
AtN1 == t1 :> n1
OfOneGB == t1 :> 1
Thrice == t1 :> 3

OneEach == (t1 :> 1) @@ (t2 :> 1)

CreateOne == q1 :> n3
CreateOneSize == q1 :> 1
=============================================================================
