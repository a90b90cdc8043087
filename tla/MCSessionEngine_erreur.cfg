SPECIFICATION Spec
CONSTANTS
  p1 = p1
  p2 = p2
  Aucun = Aucun
  Illimite = Illimite
  Plafond = 2
  Pairs <- MCPairs
  Politiques <- MCPolitiquesVivacite
  MaxEpoques = 2
PROPERTY ErreurReelleFatale
