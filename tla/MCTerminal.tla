----------------------------- MODULE MCTerminal -----------------------------
(***************************************************************************)
(* A finite instance of Terminal for TLC: see the .cfg file.              *)
(***************************************************************************)
EXTENDS Terminal, TLC

CONSTANT n1

\* The row of a command that begins with these words.
RowOf(root, sub) == CHOOSE row \in Rows : row.root = root /\ row.sub = sub

\* A command that creates, one that looks up and changes, one that looks up and
\* deletes, one that asks by name, the short form of gateway, and clear.
Lines ==
  {Line(RowOf("vms", "create"), n1), Line(RowOf("vm", "stop"), n1),
   Line(RowOf("db", "delete"), n1), Line(RowOf("gw", "create"), n1),
   Line(RowOf("logs", "any"), n1), Clear}

\* Resources are interchangeable; of the projects, one is the default.
Alike == Permutations(Ids)
==============================================================================
