-------------------------------- MODULE MCTxt --------------------------------
(***************************************************************************)
(* Small instances of Txt.                                                 *)
(***************************************************************************)
EXTENDS Txt
=============================================================================
