------------------------------- MODULE MCCli -------------------------------
(***************************************************************************)
(* A finite instance of Cli for TLC: see the .cfg file.                    *)
(***************************************************************************)
EXTENDS Cli, TLC

CONSTANTS p1, p2, n1, n2

\* Processes and deployment names are interchangeable.
Symmetry == Permutations({p1, p2}) \cup Permutations({n1, n2})
==============================================================================
