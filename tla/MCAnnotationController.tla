----------------------- MODULE MCAnnotationController -----------------------
(* A small instance of AnnotationController for TLC.                        *)
EXTENDS AnnotationController, TLC

Symmetric == Permutations(Ids)
=============================================================================
