---------------------------- MODULE MCManagedSql ----------------------------
(***************************************************************************)
(* Finite instances of ManagedSql for TLC: see the .cfg files.             *)
(***************************************************************************)
EXTENDS ManagedSql, TLC

CONSTANTS i1, i2, i3, n1, n2, n3, p1, p2

\* Two names that _safe_ident makes one, such as a-b and a_b, and another.
SafeIdent == [n \in {n1, n2, n3} |-> IF n = n3 THEN "c" ELSE "a_b"]

\* Documents, names of one ident and processes are interchangeable.
Symmetry ==
  Permutations({i1, i2, i3}) \cup Permutations({n1, n2}) \cup Permutations({p1, p2})
==============================================================================
