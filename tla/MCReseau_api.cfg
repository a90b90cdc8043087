CONSTANTS
  Bancs = {"api"}
  Modes = {"etendu"}
  Lots <- MCLots
  MaxTrames = 3
  EnVol = 2
  Politiques = {2, Illimitee}
  Illimitee = Illimitee
  MaxCoupures = 2
  MaxConnexionsRelais = 4
  Ips = {ip1}
  Tickets = {t1}
  Invalide = Invalide
  MaxParIp = 2
  MaxPaires = 1
  Appelants = {a1, a2}
  Reglages <- MCReglages
  MaxDemandesCible = 1
  MaxTours = 2
  MaxEssais = 2
  MaxPannes = 1
  MaxRequetesApi = 3
  Ecritures <- MCEcritures
  MaxRedemarragesApi = 1
  Emails = {c1, c2}
  Inconnu = Inconnu
  Sujets = {s1}
  Profils <- MCProfils
  Seuil = 2
  DureeBlocage = 2
  DureeTransaction = 1
  MaxDemandes = 4
  MaxSimultanees = 2
  MaxHeure = 3
  MaxTransactions = 2
  MaxRedemarrages = 1
  MaxPonts = 3
  FileTrames = 1
  TailleTube = 1
  MaxMorts = 1
SPECIFICATION Spec
INVARIANT IdJamaisReattribue
CHECK_DEADLOCK FALSE
