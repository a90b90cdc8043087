SPECIFICATION Spec
CONSTANTS
  a = a
  b = b
  Rien = Rien
  Fichiers <- MCFichiers
  Taille <- MCTaille
  Inegaux <- MCInegaux
  Lots <- MCLots
  Restes <- MCRestes
  MaxEnvois = 2
  MaxIncidents = 1
INVARIANTS TypeOK Reprenable Integre ProgressionBornee
PROPERTY TransfertAboutit
CHECK_DEADLOCK FALSE
