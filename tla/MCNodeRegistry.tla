--------------------------- MODULE MCNodeRegistry ---------------------------
(* Model-checking instances of NodeRegistry.                                *)
EXTENDS NodeRegistry, TLC

\* All processes run under one node ID.
OneNode(p) == "node"

\* The safety properties are about the time before faults end.
BeforeCalm == ~ calm
=============================================================================
