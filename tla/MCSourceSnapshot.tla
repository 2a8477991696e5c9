-------------------------- MODULE MCSourceSnapshot --------------------------
(***************************************************************************)
(* An instance of SourceSnapshot: HEAD holds anything at "a", and a file   *)
(* or nothing at "b".                                                      *)
(***************************************************************************)
EXTENDS SourceSnapshot

MCSnapHeads == {[p \in SnapPaths |-> IF p = "a" THEN v ELSE w] :
                    v \in SnapValues, w \in {Gone, RegularFile("x", "100644")}}

=============================================================================
