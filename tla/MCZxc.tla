-------------------------------- MODULE MCZxc --------------------------------
(***************************************************************************)
(* A small instance of Zxc.                                                *)
(***************************************************************************)
EXTENDS Zxc
=============================================================================
