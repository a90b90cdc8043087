SPECIFICATION Spec
CONSTANTS
  a = a
  b = b
  Rien = Rien
  Fichiers <- MCFichiers
  Taille <- MCTaille
  Inegaux <- MCInegaux
  Lots <- MCLots
  Restes <- MCFiables
  MaxEnvois = 2
  MaxIncidents = 1

PROPERTY FileTransferee
CHECK_DEADLOCK FALSE
