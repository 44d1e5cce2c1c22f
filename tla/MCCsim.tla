------------------------------- MODULE MCCsim ---------------------------------
(* Csim for TLC: -s 1 -E 2 -b 1, so two sets of two lines of two-byte     *)
(* blocks.  Addresses 0 and 1 share a block; 0, 4 and 8 are three tags of *)
(* set 0, so it overflows; 2 is a block of set 1.                          *)
EXTENDS Csim

MC_Addresses == {0, 1, 2, 4, 8}
MC_Ops == {"L", "S", "I"}
MC_LineKinds == {"fits", "long", "blank"}
=============================================================================
