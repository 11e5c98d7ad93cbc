---------------------------- MODULE MCBlockBytes ----------------------------
(***************************************************************************)
(* Every file of at most MaxLen tokens the owner and the helper can reach. *)
(***************************************************************************)
EXTENDS BlockBytes

CONSTANT t1
=============================================================================
