------------------------------ MODULE MCConsole ------------------------------
(***************************************************************************)
(* A finite instance of Console for TLC: see the .cfg file.                *)
(***************************************************************************)
EXTENDS Console
==============================================================================
