SPECIFICATION Spec
CONSTANTS
  a = a
  b = b
  Rien = Rien
  Fichiers <- MCFichiers
  Taille <- MCTaille
  Inegaux <- MCInegaux
  Lots <- MCLots
  Restes <- MCRestes
  MaxEnvois = 1
  MaxIncidents = 0

INVARIANT FichierVerifie
CHECK_DEADLOCK FALSE
