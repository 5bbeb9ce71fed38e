------------------------------- MODULE MCRepl -------------------------------
(***************************************************************************)
(* A small tree: a directory with a file in it, and another file.          *)
(***************************************************************************)
EXTENDS Repl

MCPaths == {<<1>>, <<1, 1>>, <<2>>}
MCInitial == (<<1>> :> "d") @@ (<<1, 1>> :> "-") @@ (<<2>> :> "-")
=============================================================================
