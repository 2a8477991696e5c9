--------------------------- MODULE MCActionCache ---------------------------
(***************************************************************************)
(* The instance of ActionCache for TLC.                                    *)
(***************************************************************************)
EXTENDS ActionCache

(* Two nodes: the first generates from `spec` the file `gen`, which is the *)
(* only file of the directory that the second reads.                       *)
MCItems == [spec |-> {"spec"}, dir |-> {"gen"}]
MCInputs == <<{"spec"}, {"dir"}>>
MCSource == <<"spec", "gen">>
MCOutput == <<"gen", "out">>

=============================================================================
