SPECIFICATION Spec
CONSTANTS
  p1 = p1
  p2 = p2
  Aucun = Aucun
  Illimite = Illimite
  Plafond = 2
  Pairs <- MCPairs
  Politiques <- MCPolitiques
  MaxEpoques = 3
INVARIANTS
  TypeOK
  EpoqueIsolee
  FinJustifiee
  TentativesBornees
  ArretUneEpoque
PROPERTIES
  RefineLifecycle
  ArretHonore
  CoupureSignalee
  RepriseConclue
