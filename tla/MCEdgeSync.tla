----------------------------- MODULE MCEdgeSync -----------------------------
(***************************************************************************)
(* Finite instances of EdgeSync for TLC: see the .cfg files.               *)
(***************************************************************************)
EXTENDS EdgeSync, TLC

CONSTANTS b1, b2, b3, api, netlify, worker

\* A PATCH names one field at most, or all of them to activate the balancer.
Given(r) == {f \in {"status", "name", "port"} : r[f] # None}
Bodies ==
  {r \in Updates : Cardinality(Given(r)) <= 1 \/ (Cardinality(Given(r)) = 3 /\ r.status = "active")}

\* Balancers are interchangeable: createdAt orders them, not their names.
Alike == Permutations({b1, b2, b3})
==============================================================================
