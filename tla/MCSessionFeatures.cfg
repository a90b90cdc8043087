CONSTANTS
  Usages = {"permissions", "listing", "telechargement", "pressePapiers", "entrees", "tunnels", "confidentialite", "cadre", "qualite", "enregistrement"}
  CapacitesDe <- MCCapacitesDe
  BasculablesDe <- MCBasculablesDe
  MaxEpoques = 2
  MaxChangements = 1
  Appelants = {a1, a2}
  Chemins = {p}
  Longueurs <- MCLongueurs
  MaxAppels = 2
  REPONSES_MAX = 1
  Rien = Rien
  Contenus = {x, y}
  MaxCopies = 2
  MaxEnvoyes = 2
  Vide = Vide
  Touches = {"CtrlG", "M", "R"}
  Boutons = {"B"}
  Bit <- MCBit
  Raccourcis <- MCRaccourcis
  MaxFile = 1
  MaxEvenements = 4
  Qualites = {d, q}
  Defaut = d
  Cadres = {d, k, r}
  CadresAcceptes = {d, k}
  Enregistrements = {h}
  Base = s
  MaxDemandes = 3
  Aucun = Aucun
  MaxConnexions = 2
  MaxSimultanees = 1
  MaxBlocs = 2
  MaxActes = 3
SPECIFICATION Spec
INVARIANTS TypeOK ListingFrais TelechargementFidele ClavierFidele OctetsEnOrdre
PROPERTIES PressePapiersConverge FluxConverge EnregistrementSauf TunnelFerme
CHECK_DEADLOCK FALSE
