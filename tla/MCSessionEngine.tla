-------------------------- MODULE MCSessionEngine --------------------------
(***************************************************************************)
(* Small instances of SessionEngine.                                       *)
(***************************************************************************)
EXTENDS SessionEngine

CONSTANTS p1, p2

MCPairs == {p1, p2}
MCPolitiques == {0, 2, Illimite}
MCPolitiquesVivacite == {1, Illimite}

============================================================================
