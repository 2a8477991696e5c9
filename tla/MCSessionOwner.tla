--------------------------- MODULE MCSessionOwner ---------------------------
(***************************************************************************)
(* Instances of SessionOwner for TLC.                                      *)
(***************************************************************************)
EXTENDS SessionOwner

(* Two runs of one cpu each, beside a budget for one of them.              *)
TwoEqual == <<1, 1>>

=============================================================================
