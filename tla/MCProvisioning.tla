--------------------------- MODULE MCProvisioning ---------------------------
(***************************************************************************)
(* Finite instances of Provisioning for TLC: see the .cfg files.           *)
(***************************************************************************)
EXTENDS Provisioning, TLC

CONSTANTS d1, d2, n1, n2, w1, w2, h1, h2

KedaCpu == {"ScaledObject"}
KedaBoth == {"ScaledObject", "HTTPScaledObject"}
Connected == {TRUE}

\* Deployments, workers and requests are interchangeable: Init and Next only
\* quantify over them, and their order is the order of createdAt.
Alike == Permutations({d1, d2}) \cup Permutations({w1, w2}) 
==============================================================================
