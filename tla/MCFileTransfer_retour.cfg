SPECIFICATION Spec
CONSTANTS
  a = a
  b = b
  Rien = Rien
  Fichiers <- MCFichiers
  Taille <- MCTaille
  Inegaux <- MCInegaux
  Lots <- MCLots
  Restes <- MCFiables
  MaxEnvois = 2
  MaxIncidents = 0

PROPERTY EnvoiAboutit
CHECK_DEADLOCK FALSE
