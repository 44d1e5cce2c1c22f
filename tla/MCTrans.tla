------------------------------- MODULE MCTrans --------------------------------
(* Trans for TLC.  32 x 32 is the size transpose_submit hands to           *)
(* smallTranspose; 8 x 16 and 16 x 8 are non-square multiples of the 8 x 8 *)
(* block; 3 x 5 and 1 x 1 are sizes no block divides.  1024 x 1024, the   *)
(* one size largeTranspose is picked for, is out of reach; largeTranspose *)
(* is registered on its own and runs on the sizes here.                    *)
EXTENDS Trans

MC_Sizes == {<<32, 32>>, <<8, 16>>, <<16, 8>>, <<3, 5>>, <<1, 1>>}
=============================================================================
