SPECIFICATION Spec
CONSTANTS
  amie = amie
  connue = connue
  fausse = fausse
  invitee = invitee
  intruse = intruse
  discrete = discrete
  c1 = c1
  Appelants <- MCAppelants
  Personne = Personne
  Codes <- MCCodes
  Absente = Absente
  Confiance <- MCConfiance
  Preuve <- MCPreuve
  Menteurs <- MCMenteurs
  MaxConnexions = 2
  MaxHeure = 2
INVARIANTS
  TypeOK
  AdmissionFondee
  UsageUnique
  CodeNonBrule
  ComptesJustes
PROPERTIES
  ArretHonore
  RetourAttente
