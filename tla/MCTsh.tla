-------------------------------- MODULE MCTsh ---------------------------------
(***************************************************************************)
(* Tsh for TLC: two children, enough for a background job beside a        *)
(* foreground one, and for fg of a stopped job while another runs.        *)
(***************************************************************************)
EXTENDS Tsh

CONSTANTS p1, p2

MC_Pids == {p1, p2}
=============================================================================
