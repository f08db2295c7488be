-------------------------- MODULE MCSnapshotCatalog --------------------------
(***************************************************************************)
(* Instances of SnapshotCatalog.                                           *)
(***************************************************************************)
EXTENDS SnapshotCatalog

CONSTANTS i1, i2, r1, r2, s1, s2

OneRequest == {<<{i1}>>}
OneOrTwoNames == {<<{i1, i2}>>, <<{i1}, {i2}>>}
NoRequests == {}

=============================================================================
