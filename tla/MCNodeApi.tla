----------------------------- MODULE MCNodeApi -----------------------------
(***************************************************************************)
(* A finite instance of NodeApi for TLC: see the .cfg file.                *)
(***************************************************************************)
EXTENDS NodeApi, TLC

CONSTANTS r1, r2, a0, a1, a2

\* a1 and a2 sign up with one address.
Addresses == [a \in {a0, a1, a2} |-> IF a = a0 THEN "first" ELSE "second"]
==============================================================================
