---------------------------- MODULE Comptes_proofs ----------------------------
(***************************************************************************)
(* Proofs about Comptes, for every set of accounts, subjects and profiles, *)
(* every threshold and every bound.  Reseau_proofs makes theorems of the   *)
(* composition from the lemmas of this module.                             *)
(***************************************************************************)
EXTENDS Comptes, FiniteSetTheorems, TLAPS

Genres == {"inscription", "connexion", "connexion2fa", "activation", "rappel"}
Phases == Fini \cup {"recue", "verifie", "identifiee", "ratee", "efface", "ouvre",
                     "active", "repond", "echange", "lie", "federe"}
Etats == [comptes : SUBSET Emails, secrets : [Emails -> {0} \cup Demandes],
          liens : [Sujets -> Emails \cup {Inconnu}]]
Requetes == [genre : Genres, compte : Emails, bon : BOOLEAN, code : Nat, sujet : Sujets,
             etat : Nat]

(***************************************************************************)
(* Types.  A request that has been received is of a kind that may reach    *)
(* the point where it is.                                                  *)
(***************************************************************************)
Admis(p) ==
  CASE p \in {"verifie", "identifiee", "ratee"} -> {"connexion", "connexion2fa", "activation"}
    [] p = "efface" -> {"connexion", "connexion2fa"}
    [] p \in {"ouvre", "ouverte"} -> {"connexion", "connexion2fa", "rappel"}
    [] p = "active" -> {"activation"}
    [] p \in {"repond", "acquittee"} -> {"inscription", "activation"}
    [] p \in {"echange", "lie", "federe"} -> {"rappel"}
    [] OTHER -> Genres

TypeInd ==
  /\ profil \in Profils /\ heure \in 1..(MaxHeure + 1)
  /\ memoire \in Etats /\ base = memoire
  /\ echecs \in [Emails -> [n : Nat, dernier : Nat, jusqua : Nat]]
  /\ transactions \in [EtatsOidc -> Nat] /\ lancees \in 0..MaxTransactions
  /\ phase \in [Demandes -> Phases]
  /\ recue \in [Demandes -> Nat]
  /\ avant \in [Demandes -> SUBSET Demandes]
  /\ DOMAIN demande = Demandes
  /\ \A r \in Demandes : phase[r] # "libre" =>
       /\ demande[r] \in Requetes
       /\ demande[r].genre \in Admis(phase[r])
       /\ demande[r].genre = "rappel" => demande[r].etat \in EtatsOidc

\* The second factor and the links of the provider are never taken back.
ActiveesInd ==
  \A r \in Demandes :
    phase[r] \in {"repond", "acquittee"} /\ demande[r].genre = "activation"
    => memoire.secrets[demande[r].compte] # 0

\* What had been activated before a request came is known of its account, and a request
\* that goes on without it, or replaces it, had none before it.
AvantInd ==
  \A r \in Demandes : phase[r] # "libre" =>
    /\ demande[r].genre # "rappel" =>
         \A q \in avant[r] : /\ phase[q] = "acquittee" /\ demande[q].genre = "activation"
                             /\ demande[q].compte = demande[r].compte
    /\ \/ demande[r].genre = "connexion" /\ phase[r] \in {"efface", "ouvre", "ouverte"}
       \/ demande[r].genre = "activation" /\ phase[r] \in {"active", "repond", "acquittee"}
       => avant[r] = {}

\* A request that consumed its transaction is alone to have done so, and a subject that
\* is let in is that of its link.
EnRetour(r) ==
  demande[r].genre = "rappel" /\ phase[r] \in {"echange", "lie", "federe", "ouvre", "ouverte"}
OidcInd ==
  /\ \A e \in EtatsOidc : transactions[e] # 0 => e <= lancees
  /\ \A r \in Demandes : EnRetour(r) =>
       /\ demande[r].etat <= lancees /\ transactions[demande[r].etat] = 0
       /\ phase[r] = "federe" => memoire.liens[demande[r].sujet] # Inconnu
       /\ phase[r] \in {"ouvre", "ouverte"} =>
            memoire.liens[demande[r].sujet] = demande[r].compte
  /\ \A q, r \in Demandes : q # r /\ EnRetour(q) /\ EnRetour(r) =>
       demande[q].etat # demande[r].etat

\* The requests past the check of the block, and those under way.
Passees(c) ==
  {r \in Demandes : phase[r] \in {"verifie", "identifiee", "ratee"} /\ demande[r].compte = c}
EnCours == {r \in Demandes : phase[r] \notin Fini}
EchecsInd ==
  /\ Cardinality(EnCours) <= MaxSimultanees
  /\ \A c \in Emails : echecs[c].n >= Seuil =>
       /\ echecs[c].jusqua # 0
       /\ echecs[c].n + Cardinality(Passees(c)) <= Seuil + MaxSimultanees - 1

-----------------------------------------------------------------------------
\* The initial states, on every bench.
LEMMA ComptesInit == InitC => TypeInd /\ ActiveesInd /\ AvantInd /\ OidcInd
<1> SUFFICES ASSUME InitC PROVE TypeInd /\ ActiveesInd /\ AvantInd /\ OidcInd
  OBVIOUS
<1>1. profil \in Profils
  BY ComptesAssumption DEF InitC, Sur
<1>2. \A r \in Demandes : phase[r] = "libre"
  BY DEF InitC
<1>3. profil.inscrits \subseteq Emails
  BY <1>1, ComptesAssumption
<1>4. memoire \in Etats /\ base = memoire
  BY <1>3 DEF InitC, Etats
<1>5. TypeInd
  <2>1. heure \in 1..(MaxHeure + 1) /\ lancees \in 0..MaxTransactions
    BY ComptesAssumption DEF InitC
  <2>2. echecs \in [Emails -> [n : Nat, dernier : Nat, jusqua : Nat]]
    BY DEF InitC, AucunEchec
  <2>3. /\ transactions \in [EtatsOidc -> Nat] /\ phase \in [Demandes -> Phases]
        /\ recue \in [Demandes -> Nat] /\ avant \in [Demandes -> SUBSET Demandes]
        /\ DOMAIN demande = Demandes
    BY DEF InitC, Phases, Fini
  <2> QED
    BY <1>1, <1>2, <1>4, <2>1, <2>2, <2>3 DEF TypeInd
<1>6. ActiveesInd /\ AvantInd
  BY <1>2 DEF ActiveesInd, AvantInd
<1>7. OidcInd
  BY <1>2 DEF OidcInd, EnRetour, InitC
<1> QED
  BY <1>5, <1>6, <1>7

-----------------------------------------------------------------------------
\* What a request must be for its part of TypeInd.
Typee(r) ==
  phase[r] # "libre" =>
    /\ demande[r] \in Requetes
    /\ demande[r].genre \in Admis(phase[r])
    /\ demande[r].genre = "rappel" => demande[r].etat \in EtatsOidc

\* A request that goes to a point its kind may reach keeps its type and that of others.
LEMMA AllerLemma ==
  ASSUME TypeInd, NEW r \in Demandes, NEW p \in Phases, Aller(r, p), p # "libre",
         phase[r] # "libre", UNCHANGED demande, demande[r].genre \in Admis(p)
  PROVE  /\ phase' \in [Demandes -> Phases] /\ DOMAIN demande' = Demandes
         /\ \A q \in Demandes : Typee(q)'
  BY DEF TypeInd, Aller, Typee

\* Every step of the service keeps the types.
LEMMA ComptesType == TypeInd /\ OidcInd /\ NextC => TypeInd'
<1> SUFFICES ASSUME TypeInd, OidcInd, NextC PROVE TypeInd'
  OBVIOUS
<1> USE DEF horlogeC, SansMutation
<1>a. TypeInd' <=>
        /\ profil' \in Profils /\ heure' \in 1..(MaxHeure + 1)
        /\ memoire' \in Etats /\ base' = memoire'
        /\ echecs' \in [Emails -> [n : Nat, dernier : Nat, jusqua : Nat]]
        /\ transactions' \in [EtatsOidc -> Nat] /\ lancees' \in 0..MaxTransactions
        /\ phase' \in [Demandes -> Phases]
        /\ recue' \in [Demandes -> Nat]
        /\ avant' \in [Demandes -> SUBSET Demandes]
        /\ DOMAIN demande' = Demandes
        /\ \A r \in Demandes : Typee(r)'
  BY DEF TypeInd, Typee
<1>b. heure \in Nat /\ MaxHeure \in Nat /\ MaxTransactions \in Nat /\ DureeBlocage \in Nat
      /\ DureeTransaction \in Nat
  BY ComptesAssumption DEF TypeInd
<1>c. \A r \in Demandes : Typee(r)
  BY DEF TypeInd, Typee
<1>1. ASSUME NEW r \in Demandes, PasDemande(r) PROVE TypeInd'
  <2>a. phase[r] # "libre" => demande[r] \in Requetes /\ Compte(r) \in Emails
          /\ demande[r].sujet \in Sujets
    BY DEF TypeInd, Requetes, Compte
  <2>b. \A p \in Phases : Aller(r, p) /\ p # "libre" /\ phase[r] # "libre"
          /\ UNCHANGED demande /\ demande[r].genre \in Admis(p)
          => /\ phase' \in [Demandes -> Phases] /\ DOMAIN demande' = Demandes
             /\ \A q \in Demandes : Typee(q)'
    BY AllerLemma
  <2>c. \A p \in {"erreur", "verifie", "identifiee", "ratee", "efface", "ouvre", "active",
                   "repond", "echange", "lie", "federe", "ouverte", "acquittee"} :
          p \in Phases /\ p # "libre"
    BY DEF Phases, Fini
  <2>1. ASSUME NEW reussi \in BOOLEAN, Inscrire_(r, reussi) PROVE TypeInd'
    <3>1. memoire' \in Etats /\ base' = memoire'
      <4>1. Compte(r) \in Emails
        BY <2>1, <2>a DEF Inscrire_
      <4>2. [memoire EXCEPT !.comptes = @ \cup {Compte(r)}] \in Etats
        BY <4>1 DEF TypeInd, Etats
      <4>3. memoire \in Etats /\ base = memoire
        BY DEF TypeInd
      <4> QED
        BY <2>1, <4>2, <4>3 DEF Inscrire_, Persister
    <3>2. PICK p \in {"repond", "erreur"} : Aller(r, p)
      BY <2>1 DEF Inscrire_
    <3>3. demande[r].genre \in Admis(p)
      BY <2>1 DEF Inscrire_, Genre, Admis, Genres
    <3> QED
      BY <1>a, <2>1, <2>b, <2>c, <3>1, <3>2, <3>3 DEF Inscrire_, TypeInd
  <2>2. ASSUME NEW reussi \in BOOLEAN, Activer(r, reussi) PROVE TypeInd'
    <3>1. memoire' \in Etats /\ base' = memoire'
      <4>1. Compte(r) \in Emails
        BY <2>2, <2>a DEF Activer
      <4>2. [memoire EXCEPT !.secrets[Compte(r)] = r] \in Etats
        BY <4>1 DEF TypeInd, Etats
      <4>3. memoire \in Etats /\ base = memoire
        BY DEF TypeInd
      <4> QED
        BY <2>2, <4>2, <4>3 DEF Activer, Persister
    <3>2. PICK p \in {"repond", "erreur"} : Aller(r, p)
      BY <2>2 DEF Activer
    <3>3. demande[r].genre \in Admis(p)
      BY <1>c, <2>2 DEF Activer, Typee, Admis, Genres
    <3> QED
      BY <1>a, <2>2, <2>b, <2>c, <3>1, <3>2, <3>3 DEF Activer, TypeInd
  <2>3. ASSUME NEW reussi \in BOOLEAN, Echanger(r, reussi) PROVE TypeInd'
    <3>1. PICK p \in {"erreur", "lie", "federe"} : Aller(r, p)
      BY <2>3 DEF Echanger
    <3>2. demande[r].genre \in Admis(p)
      BY <1>c, <2>3 DEF Echanger, Typee, Admis, Genres
    <3> QED
      BY <1>a, <2>3, <2>b, <2>c, <3>1, <3>2 DEF Echanger, TypeInd
  <2>4. ASSUME NEW reussi \in BOOLEAN, Lier(r, reussi) PROVE TypeInd'
    <3>1. memoire' \in Etats /\ base' = memoire'
      BY <2>4, <2>a DEF Lier, Persister, TypeInd, Etats
    <3>2. PICK p \in {"federe", "erreur"} : Aller(r, p)
      BY <2>4 DEF Lier
    <3>3. demande[r].genre \in Admis(p)
      BY <1>c, <2>4 DEF Lier, Typee, Admis, Genres
    <3> QED
      BY <1>a, <2>4, <2>b, <2>c, <3>1, <3>2, <3>3 DEF Lier, TypeInd
  <2>5. CASE ExaminerBlocage(r)
    <3>1. echecs' \in [Emails -> [n : Nat, dernier : Nat, jusqua : Nat]]
      BY <2>5 DEF ExaminerBlocage, TypeInd, AucunEchec
    <3>2. PICK p \in {"erreur", "verifie"} : Aller(r, p)
      BY <2>5 DEF ExaminerBlocage
    <3>3. demande[r].genre \in Admis(p)
      BY <2>5 DEF ExaminerBlocage, Genre, Admis, Genres
    <3> QED
      BY <1>a, <2>5, <2>b, <2>c, <3>1, <3>2, <3>3 DEF ExaminerBlocage, TypeInd
  <2>6. CASE VerifierIdentifiants(r)
    <3>1. PICK p \in {"identifiee", "ratee"} : Aller(r, p)
      BY <2>6 DEF VerifierIdentifiants
    <3>2. demande[r].genre \in Admis(p)
      BY <1>c, <2>6 DEF VerifierIdentifiants, Typee, Admis
    <3> QED
      BY <1>a, <2>6, <2>b, <2>c, <3>1, <3>2 DEF VerifierIdentifiants, TypeInd
  <2>7. CASE Consigner(r)
    <3>0. phase[r] = "ratee"
      BY <2>7 DEF Consigner
    <3>1. recue[r] \in Nat /\ Compte(r) \in Emails
      BY <2>a, <3>0 DEF TypeInd
    <3>2. echecs[Compte(r)] \in [n : Nat, dernier : Nat, jusqua : Nat]
      BY <3>1 DEF TypeInd
    <3>3. PICK e \in [n : Nat, dernier : Nat, jusqua : Nat] :
            echecs' = [echecs EXCEPT ![Compte(r)] = e]
      <4> DEFINE e == echecs[Compte(r)]
                 garde == e.jusqua > recue[r] \/ recue[r] <= e.dernier + DureeBlocage
                 n == IF garde THEN e.n + 1 ELSE 1
                 jusqua == IF n >= Seuil THEN recue[r] + DureeBlocage
                           ELSE IF garde THEN e.jusqua ELSE 0
      <4>1. n \in Nat /\ jusqua \in Nat
        BY <1>b, <3>1, <3>2
      <4>2. echecs' = [echecs EXCEPT ![Compte(r)] =
                         [n |-> n, dernier |-> recue[r], jusqua |-> jusqua]]
        BY <2>7 DEF Consigner
      <4> HIDE DEF n, jusqua
      <4> QED
        BY <3>1, <4>1, <4>2
    <3>4. echecs' \in [Emails -> [n : Nat, dernier : Nat, jusqua : Nat]]
      BY <3>3 DEF TypeInd
    <3>5. Aller(r, "erreur") /\ demande[r].genre \in Admis("erreur")
      BY <1>c, <2>7 DEF Consigner, Typee, Admis, Genres
    <3> QED
      BY <1>a, <2>7, <2>b, <2>c, <3>0, <3>4, <3>5 DEF Consigner, TypeInd
  <2>8. CASE LireSecret(r)
    <3>1. \E p \in {"efface", "erreur", "active", "ratee"} :
             Aller(r, p) /\ demande[r].genre \in Admis(p)
      <4>1. CASE Genre(r) = "connexion"
        BY <2>8, <4>1 DEF LireSecret, Genre, Admis, Genres
      <4>2. CASE Genre(r) = "activation"
        BY <2>8, <4>2 DEF LireSecret, Genre, Admis, Genres
      <4>3. CASE Genre(r) = "connexion2fa"
        BY <2>8, <4>3 DEF LireSecret, Genre, Admis, Genres
      <4> QED
        BY <2>8, <4>1, <4>2, <4>3 DEF LireSecret
    <3> QED
      BY <1>a, <2>8, <2>b, <2>c, <3>1 DEF LireSecret, TypeInd
  <2>9. CASE Effacer(r)
    <3>1. echecs' \in [Emails -> [n : Nat, dernier : Nat, jusqua : Nat]]
      BY <2>9 DEF Effacer, TypeInd, AucunEchec
    <3>2. Aller(r, "ouvre") /\ demande[r].genre \in Admis("ouvre")
      BY <1>c, <2>9 DEF Effacer, Typee, Admis
    <3> QED
      BY <1>a, <2>9, <2>b, <2>c, <3>1, <3>2 DEF Effacer, TypeInd
  <2>10. CASE OuvrirSession(r)
    <3>1. Aller(r, "ouverte") /\ demande[r].genre \in Admis("ouverte")
      BY <1>c, <2>10 DEF OuvrirSession, Typee, Admis
    <3> QED
      BY <1>a, <2>10, <2>b, <2>c, <3>1 DEF OuvrirSession, TypeInd
  <2>11. CASE Repondre_(r)
    <3>1. Aller(r, "acquittee") /\ demande[r].genre \in Admis("acquittee")
      BY <1>c, <2>11 DEF Repondre_, Typee, Admis
    <3> QED
      BY <1>a, <2>11, <2>b, <2>c, <3>1 DEF Repondre_, TypeInd
  <2>12. CASE Consommer(r)
    <3>1. PICK p \in {"echange", "erreur"} : Aller(r, p)
      BY <2>12 DEF Consommer
    <3>2. demande[r].genre \in Admis(p)
      BY <2>12 DEF Consommer, Genre, Admis, Genres
    <3>3. transactions' \in [EtatsOidc -> Nat]
      BY <2>12 DEF Consommer, TypeInd
    <3> QED
      BY <1>a, <2>12, <2>b, <2>c, <3>1, <3>2, <3>3 DEF Consommer, TypeInd
  <2>13. CASE ConnecterFedere(r)
    <3>0. phase[r] = "federe" /\ demande[r].genre = "rappel"
      BY <1>c, <2>13 DEF ConnecterFedere, Typee, Admis
    <3>1. memoire.liens[demande[r].sujet] \in Emails
      BY <2>a, <3>0 DEF TypeInd, Etats, OidcInd, EnRetour
    <3>2. demande' = [demande EXCEPT ![r].compte = memoire.liens[demande[r].sujet]]
      BY <2>13 DEF ConnecterFedere
    <3>3. /\ phase' = [phase EXCEPT ![r] = "ouvre"] /\ phase' \in [Demandes -> Phases]
          /\ DOMAIN demande' = Demandes
      BY <2>13, <2>c, <3>2 DEF ConnecterFedere, Aller, TypeInd
    <3>4. ASSUME NEW q \in Demandes PROVE Typee(q)'
      <4>1. CASE q = r
        <5>1. demande'[r] = [demande[r] EXCEPT !.compte = memoire.liens[demande[r].sujet]]
          BY <3>2 DEF TypeInd
        <5>2. demande[r] \in Requetes
          BY <2>a, <3>0
        <5>3. demande'[r] \in Requetes /\ demande'[r].genre = demande[r].genre
              /\ demande'[r].etat = demande[r].etat
          BY <3>1, <5>1, <5>2 DEF Requetes
        <5>4. phase'[r] = "ouvre" /\ "rappel" \in Admis("ouvre")
          BY <3>3 DEF TypeInd, Admis
        <5> QED
          BY <1>c, <3>0, <4>1, <5>3, <5>4 DEF Typee
      <4>2. CASE q # r
        BY <1>c, <3>2, <3>3, <4>2 DEF Typee, TypeInd
      <4> QED
        BY <4>1, <4>2
    <3> QED
      BY <1>a, <2>13, <3>3, <3>4 DEF ConnecterFedere, TypeInd
  <2> QED
    BY <1>1, <2>1, <2>2, <2>3, <2>4, <2>5, <2>6, <2>7, <2>8, <2>9, <2>10, <2>11, <2>12, <2>13
       DEF PasDemande
<1>2. ASSUME NEW r \in Demandes, NEW f \in Formes, Accepter_(r, f) PROVE TypeInd'
  <2>1. f \in Requetes /\ (f.genre = "rappel" => f.etat \in EtatsOidc)
    <3>1. profil.emails \subseteq Emails
      BY ComptesAssumption DEF TypeInd
    <3>2. (CHOOSE s \in Sujets : TRUE) \in Sujets
      BY ComptesAssumption
    <3>3. Demandes \subseteq Nat /\ EtatsOidc \subseteq Nat
      BY ComptesAssumption DEF Demandes, EtatsOidc
    <3> QED
      <4> DEFINE s0 == CHOOSE s \in Sujets : TRUE
      <4> DEFINE connus == {q \in Demandes : phase[q] = "acquittee"
                                             /\ demande[q].genre = "activation"}
                 F(c) == {Forme("inscription", c, TRUE, 0, s0, 0),
                          Forme("connexion", c, TRUE, 0, s0, 0),
                          Forme("connexion", c, FALSE, 0, s0, 0),
                          Forme("activation", c, TRUE, 0, s0, 0),
                          Forme("activation", c, FALSE, 0, s0, 0)}
                         \cup {Forme("connexion2fa", c, TRUE, k, s0, 0) : k \in {0} \cup connus}
                         \cup {Forme("rappel", c, TRUE, 0, x[1], x[2]) : x \in Sujets \X EtatsOidc}
      <4>1. Formes = UNION {F(c) : c \in profil.emails}
        BY DEF Formes
      <4>2. PICK c \in Emails : f \in F(c)
        <5> HIDE DEF F
        <5> QED
          BY <3>1, <4>1
      <4>3. s0 \in Sujets /\ connus \subseteq Nat
        BY <3>2, <3>3
      <4>4. ASSUME NEW g \in Genres, NEW b \in BOOLEAN, NEW k \in Nat, NEW s \in Sujets,
                   NEW e \in Nat, f = Forme(g, c, b, k, s, e), g = "rappel" => e \in EtatsOidc
            PROVE  f \in Requetes /\ (f.genre = "rappel" => f.etat \in EtatsOidc)
        BY <4>4 DEF Forme, Requetes
      <4>5. \/ \E g \in {"inscription", "connexion", "activation"}, b \in BOOLEAN :
                 f = Forme(g, c, b, 0, s0, 0)
            \/ \E k \in {0} \cup connus : f = Forme("connexion2fa", c, TRUE, k, s0, 0)
            \/ \E x \in Sujets \X EtatsOidc : f = Forme("rappel", c, TRUE, 0, x[1], x[2])
        <5> HIDE DEF s0, connus
        <5> QED
          BY <4>2
      <4> HIDE DEF s0, connus
      <4>6. ASSUME NEW g \in {"inscription", "connexion", "activation"}, NEW b \in BOOLEAN,
                   f = Forme(g, c, b, 0, s0, 0)
            PROVE  f \in Requetes /\ (f.genre = "rappel" => f.etat \in EtatsOidc)
        BY <4>3, <4>4, <4>6 DEF Genres
      <4>7. ASSUME NEW k \in {0} \cup connus, f = Forme("connexion2fa", c, TRUE, k, s0, 0)
            PROVE  f \in Requetes /\ (f.genre = "rappel" => f.etat \in EtatsOidc)
        BY <4>3, <4>4, <4>7 DEF Genres
      <4>8. ASSUME NEW x \in Sujets \X EtatsOidc, f = Forme("rappel", c, TRUE, 0, x[1], x[2])
            PROVE  f \in Requetes /\ (f.genre = "rappel" => f.etat \in EtatsOidc)
        BY <3>3, <4>4, <4>8 DEF Genres
      <4> QED
        BY <4>5, <4>6, <4>7, <4>8
  <2>2. /\ demande' = [demande EXCEPT ![r] = f] /\ phase' = [phase EXCEPT ![r] = "recue"]
        /\ recue' = [recue EXCEPT ![r] = heure]
    BY <1>2 DEF Accepter_, Aller
  <2>3. /\ phase' \in [Demandes -> Phases] /\ DOMAIN demande' = Demandes
        /\ recue' \in [Demandes -> Nat]
    BY <1>b, <2>2 DEF TypeInd, Phases
  <2>4. avant' \in [Demandes -> SUBSET Demandes]
    BY <1>2 DEF Accepter_, TypeInd
  <2>5. f.genre \in Admis("recue")
    BY <2>1 DEF Admis, Requetes
  <2>6. \A q \in Demandes : Typee(q)'
    BY <1>c, <2>1, <2>2, <2>5 DEF Typee, TypeInd
  <2> QED
    BY <1>a, <1>2, <2>3, <2>4, <2>6 DEF Accepter_, TypeInd
<1>3. CASE DemarrerOidc
  <2>1. lancees' \in 0..MaxTransactions
    BY <1>3, <1>b DEF DemarrerOidc, TypeInd
  <2>2. transactions' \in [EtatsOidc -> Nat]
    BY <1>3, <1>b DEF DemarrerOidc, TypeInd
  <2> QED
    BY <1>a, <1>c, <1>3, <2>1, <2>2 DEF DemarrerOidc, TypeInd, Typee
<1>4. CASE PasserHeure
  <2>1. heure' \in 1..(MaxHeure + 1)
    BY <1>4, <1>b DEF PasserHeure, TypeInd
  <2> QED
    BY <1>a, <1>c, <1>4, <2>1 DEF PasserHeure, TypeInd, Typee
<1>5. CASE RedemarrerService
  <2>1. echecs' \in [Emails -> [n : Nat, dernier : Nat, jusqua : Nat]]
    BY <1>5 DEF RedemarrerService, AucunEchec
  <2>2. transactions' \in [EtatsOidc -> Nat]
    BY <1>5 DEF RedemarrerService
  <2>3. phase' \in [Demandes -> Phases]
    BY <1>5 DEF RedemarrerService, TypeInd, Phases, Fini
  <2>4. ASSUME NEW q \in Demandes PROVE Typee(q)'
    <3>1. phase'[q] \in {phase[q], "morte"} /\ (phase[q] = "libre" => phase'[q] = "libre")
      BY <1>5 DEF RedemarrerService, Fini
    <3>2. demande[q] \in Requetes => demande[q].genre \in Admis("morte")
      BY DEF Requetes, Admis
    <3> QED
      BY <1>c, <1>5, <3>1, <3>2 DEF Typee, RedemarrerService
  <2> QED
    BY <1>a, <1>5, <2>1, <2>2, <2>3, <2>4 DEF RedemarrerService, TypeInd
<1> QED
  BY <1>1, <1>2, <1>3, <1>4, <1>5 DEF NextC

-----------------------------------------------------------------------------
\* The second factor, once written, stays: nothing removes a secret.
LEMMA ComptesActivees == TypeInd /\ ActiveesInd /\ NextC => ActiveesInd'
<1> SUFFICES ASSUME TypeInd, ActiveesInd, NextC,
                    NEW q \in Demandes, phase'[q] \in {"repond", "acquittee"},
                    demande'[q].genre = "activation"
             PROVE  memoire'.secrets[demande'[q].compte] # 0
  BY DEF ActiveesInd
<1> USE DEF horlogeC, SansMutation
<1>a. /\ phase \in [Demandes -> Phases] /\ DOMAIN demande = Demandes /\ base = memoire
      /\ memoire \in Etats /\ 0 \notin Demandes
      /\ \A r \in Demandes : phase[r] # "libre" =>
           demande[r] \in Requetes /\ demande[r].genre \in Admis(phase[r])
  BY DEF TypeInd, Demandes
<1>b. phase[q] \in {"repond", "acquittee"} /\ demande[q].genre = "activation" =>
        memoire.secrets[demande[q].compte] # 0
  BY DEF ActiveesInd
<1>1. ASSUME NEW r \in Demandes, PasDemande(r)
      PROVE  memoire'.secrets[demande'[q].compte] # 0
  <2>1. ASSUME NEW reussi \in BOOLEAN, Inscrire_(r, reussi)
        PROVE  memoire'.secrets[demande'[q].compte] # 0
    <3>1. demande' = demande /\ memoire'.secrets = memoire.secrets /\ demande[r].genre = "inscription"
      BY <1>a, <2>1 DEF Inscrire_, Persister, Etats, Genre
    <3>2. q # r /\ phase'[q] = phase[q]
      BY <1>a, <2>1, <3>1 DEF Inscrire_, Aller
    <3> QED
      BY <1>b, <3>1, <3>2
  <2>2. ASSUME NEW reussi \in BOOLEAN, Activer(r, reussi)
        PROVE  memoire'.secrets[demande'[q].compte] # 0
    <3>1. /\ demande' = demande /\ phase[r] = "active" /\ Aller(r, IF reussi THEN "repond" ELSE "erreur")
          /\ demande[r].compte \in Emails
      BY <1>a, <2>2 DEF Activer, Requetes
    <3>2. CASE reussi
      <4>1. memoire'.secrets = [memoire.secrets EXCEPT ![demande[r].compte] = r]
        BY <1>a, <2>2, <3>2 DEF Activer, Persister, Compte, Etats
      <4>2. CASE q = r
        BY <1>a, <3>1, <4>1, <4>2 DEF Etats
      <4>3. CASE q # r
        <5>1. phase'[q] = phase[q] /\ demande[q].compte \in Emails
          BY <1>a, <3>1, <4>3 DEF Aller, Requetes
        <5> QED
          BY <1>a, <1>b, <3>1, <4>1, <5>1 DEF Etats
      <4> QED
        BY <4>2, <4>3
    <3>3. CASE ~reussi
      <4>1. memoire' = memoire
        BY <2>2, <3>3 DEF Activer, Persister
      <4>2. q # r /\ phase'[q] = phase[q]
        BY <1>a, <3>1, <3>3 DEF Aller
      <4> QED
        BY <1>b, <3>1, <4>1, <4>2
    <3> QED
      BY <3>2, <3>3
  <2>3. ASSUME NEW reussi \in BOOLEAN, Echanger(r, reussi)
        PROVE  memoire'.secrets[demande'[q].compte] # 0
    BY <1>a, <1>b, <2>3 DEF Echanger, Aller
  <2>4. ASSUME NEW reussi \in BOOLEAN, Lier(r, reussi)
        PROVE  memoire'.secrets[demande'[q].compte] # 0
    <3>1. demande' = demande /\ memoire'.secrets = memoire.secrets
      BY <1>a, <2>4 DEF Lier, Persister, Etats
    <3>2. q # r /\ phase'[q] = phase[q]
      BY <1>a, <2>4 DEF Lier, Aller
    <3> QED
      BY <1>b, <3>1, <3>2
  <2>5. CASE ExaminerBlocage(r)
    BY <1>a, <1>b, <2>5 DEF ExaminerBlocage, Aller
  <2>6. CASE VerifierIdentifiants(r)
    BY <1>a, <1>b, <2>6 DEF VerifierIdentifiants, Aller
  <2>7. CASE Consigner(r)
    BY <1>a, <1>b, <2>7 DEF Consigner, Aller
  <2>8. CASE LireSecret(r)
    BY <1>a, <1>b, <2>8 DEF LireSecret, Aller
  <2>9. CASE Effacer(r)
    BY <1>a, <1>b, <2>9 DEF Effacer, Aller
  <2>10. CASE OuvrirSession(r)
    BY <1>a, <1>b, <2>10 DEF OuvrirSession, Aller
  <2>11. CASE Repondre_(r)
    BY <1>a, <1>b, <2>11 DEF Repondre_, Aller
  <2>12. CASE Consommer(r)
    BY <1>a, <1>b, <2>12 DEF Consommer, Aller
  <2>13. CASE ConnecterFedere(r)
    BY <1>a, <1>b, <2>13 DEF ConnecterFedere, Aller
  <2> QED
    BY <1>1, <2>1, <2>2, <2>3, <2>4, <2>5, <2>6, <2>7, <2>8, <2>9, <2>10, <2>11, <2>12, <2>13
       DEF PasDemande
<1>2. ASSUME NEW r \in Demandes, NEW f \in Formes, Accepter_(r, f)
      PROVE  memoire'.secrets[demande'[q].compte] # 0
  BY <1>a, <1>b, <1>2 DEF Accepter_, Aller
<1>3. CASE DemarrerOidc
  BY <1>b, <1>3 DEF DemarrerOidc
<1>4. CASE PasserHeure
  BY <1>b, <1>4 DEF PasserHeure
<1>5. CASE RedemarrerService
  <2>1. memoire' = memoire /\ demande' = demande /\ phase'[q] \in {phase[q], "morte"}
    BY <1>a, <1>5 DEF RedemarrerService
  <2> QED
    BY <1>b, <2>1
<1> QED
  BY <1>1, <1>2, <1>3, <1>4, <1>5 DEF NextC

-----------------------------------------------------------------------------
\* AvantInd for one request.
AvantBon(q) ==
  /\ demande[q].genre # "rappel" =>
       \A x \in avant[q] : /\ phase[x] = "acquittee" /\ demande[x].genre = "activation"
                           /\ demande[x].compte = demande[q].compte
  /\ \/ demande[q].genre = "connexion" /\ phase[q] \in {"efface", "ouvre", "ouverte"}
     \/ demande[q].genre = "activation" /\ phase[q] \in {"active", "repond", "acquittee"}
     => avant[q] = {}

\* The secret is read between the reception of a request and what it opens or replaces, and
\* an activation answered before is still there.
LEMMA ComptesAvant == TypeInd /\ ActiveesInd /\ AvantInd /\ NextC => AvantInd'
<1> SUFFICES ASSUME TypeInd, ActiveesInd, AvantInd, NextC,
                    NEW q \in Demandes, phase'[q] # "libre"
             PROVE  AvantBon(q)'
  BY DEF AvantInd, AvantBon
<1> USE DEF horlogeC
<1>a. /\ phase \in [Demandes -> Phases] /\ DOMAIN demande = Demandes
      /\ avant \in [Demandes -> SUBSET Demandes]
      /\ \A r \in Demandes : phase[r] # "libre" =>
           demande[r] \in Requetes /\ demande[r].genre \in Admis(phase[r])
  BY DEF TypeInd
<1>b. phase[q] # "libre" => AvantBon(q)
  BY DEF AvantInd, AvantBon
<1>c. ASSUME phase[q] # "libre", demande' = demande, avant' = avant, phase'[q] = phase[q],
             \A x \in Demandes : phase[x] = "acquittee" => phase'[x] = "acquittee"
      PROVE  AvantBon(q)'
  BY <1>a, <1>b, <1>c DEF AvantBon
<1>1. ASSUME NEW r \in Demandes, PasDemande(r)
      PROVE  AvantBon(q)'
  <2>a. ASSUME NEW p, phase[r] \notin {"libre", "acquittee"}, Aller(r, p),
               demande' = demande, avant' = avant,
               r = q => \/ demande[q].genre = "rappel" \/ p \notin {"efface", "ouvre", "ouverte",
                                                     "active", "repond", "acquittee"}
                        \/ demande[q].genre \notin {"connexion", "activation"}
                        \/ avant[q] = {}
        PROVE  AvantBon(q)'
    <3>1. \A x \in Demandes : x # r => phase'[x] = phase[x]
      BY <1>a, <2>a DEF Aller
    <3>2. CASE q # r
      BY <1>a, <1>c, <2>a, <3>1, <3>2
    <3>3. CASE q = r
      <4>1. /\ phase'[q] = p /\ phase[q] # "libre" /\ demande'[q] = demande[q]
            /\ avant'[q] = avant[q]
        BY <1>a, <2>a, <3>3 DEF Aller
      <4>2. demande[q].genre # "rappel" => \A x \in avant[q] : x \in Demandes /\ x # q
        BY <1>a, <1>b, <2>a, <3>3, <4>1 DEF AvantBon
      <4> QED
        BY <1>b, <2>a, <3>1, <3>3, <4>1, <4>2 DEF AvantBon
    <3> QED
      BY <3>2, <3>3
  <2>1. ASSUME NEW reussi \in BOOLEAN, Inscrire_(r, reussi) PROVE AvantBon(q)'
    BY <2>a, <2>1 DEF Inscrire_, Genre
  <2>2. ASSUME NEW reussi \in BOOLEAN, Activer(r, reussi) PROVE AvantBon(q)'
    <3>1. r = q => avant[q] = {}
      BY <1>a, <1>b, <2>2 DEF Activer, AvantBon, Admis
    <3> QED
      BY <2>a, <2>2, <3>1 DEF Activer
  <2>3. ASSUME NEW reussi \in BOOLEAN, Echanger(r, reussi) PROVE AvantBon(q)'
    BY <2>a, <2>3 DEF Echanger
  <2>4. ASSUME NEW reussi \in BOOLEAN, Lier(r, reussi) PROVE AvantBon(q)'
    BY <2>a, <2>4 DEF Lier
  <2>5. CASE ExaminerBlocage(r)
    BY <2>a, <2>5 DEF ExaminerBlocage
  <2>6. CASE VerifierIdentifiants(r)
    BY <2>a, <2>6 DEF VerifierIdentifiants
  <2>7. CASE Consigner(r)
    BY <2>a, <2>7 DEF Consigner
  <2>8. CASE LireSecret(r)
    <3>0. phase[r] = "identifiee" /\ demande' = demande /\ avant' = avant
      BY <2>8 DEF LireSecret
    <3>1. CASE memoire.secrets[demande[r].compte] = 0
      <4>1. r = q /\ demande[q].genre # "rappel" => avant[q] = {}
        BY <1>a, <1>b, <3>0, <3>1 DEF AvantBon, ActiveesInd
      <4> QED
        BY <2>a, <2>8, <3>0, <4>1 DEF LireSecret
    <3>2. CASE memoire.secrets[demande[r].compte] # 0
      <4>1. \/ \E p \in {"erreur", "ratee"} : Aller(r, p)
            \/ demande[r].genre = "connexion2fa" /\ Aller(r, "efface")
        BY <2>8, <3>2 DEF LireSecret, Compte, Genre
      <4> QED
        BY <2>a, <3>0, <4>1
    <3> QED
      BY <3>1, <3>2
  <2>9. CASE Effacer(r)
    <3>1. r = q => avant[q] = {} \/ demande[q].genre = "connexion2fa"
      BY <1>a, <1>b, <2>9 DEF Effacer, AvantBon, Admis
    <3> QED
      BY <2>a, <2>9, <3>1 DEF Effacer
  <2>10. CASE OuvrirSession(r)
    <3>1. r = q => avant[q] = {} \/ demande[q].genre \in {"connexion2fa", "rappel"}
      BY <1>a, <1>b, <2>10 DEF OuvrirSession, AvantBon, Admis
    <3> QED
      BY <2>a, <2>10, <3>1 DEF OuvrirSession
  <2>11. CASE Repondre_(r)
    <3>1. r = q => avant[q] = {} \/ demande[q].genre = "inscription"
      BY <1>a, <1>b, <2>11 DEF Repondre_, AvantBon, Admis
    <3> QED
      BY <2>a, <2>11, <3>1 DEF Repondre_
  <2>12. CASE Consommer(r)
    BY <2>a, <2>12 DEF Consommer
  <2>13. CASE ConnecterFedere(r)
    <3>1. /\ \A x \in Demandes : x # r => phase'[x] = phase[x] /\ demande'[x] = demande[x]
          /\ phase[r] = "federe" /\ demande[r].genre = "rappel" /\ avant' = avant
          /\ demande'[r].genre = "rappel"
      BY <1>a, <2>13 DEF ConnecterFedere, Aller, Admis, Requetes
    <3>2. CASE q = r
      BY <3>1, <3>2 DEF AvantBon
    <3>3. CASE q # r
      BY <1>a, <1>b, <3>1, <3>3 DEF AvantBon
    <3> QED
      BY <3>2, <3>3
  <2> QED
    BY <1>1, <2>1, <2>2, <2>3, <2>4, <2>5, <2>6, <2>7, <2>8, <2>9, <2>10, <2>11, <2>12, <2>13
       DEF PasDemande
<1>2. ASSUME NEW r \in Demandes, NEW f \in Formes, Accepter_(r, f)
      PROVE  AvantBon(q)'
  <2>1. /\ \A x \in Demandes : x # r => phase'[x] = phase[x] /\ demande'[x] = demande[x]
                                        /\ avant'[x] = avant[x]
        /\ phase[r] = "libre" /\ phase'[r] = "recue" /\ demande'[r] = f
    BY <1>a, <1>2 DEF Accepter_, Aller
  <2>2. avant'[r] = {x \in Demandes : phase[x] = "acquittee"
                                       /\ demande[x].genre = "activation"
                                       /\ demande[x].compte = f.compte}
    BY <1>a, <1>2 DEF Accepter_, Genre, Compte
  <2>3. CASE q = r
    BY <2>1, <2>2, <2>3 DEF AvantBon
  <2>4. CASE q # r
    BY <1>a, <1>b, <2>1, <2>4 DEF AvantBon
  <2> QED
    BY <2>3, <2>4
<1>3. CASE DemarrerOidc
  BY <1>c, <1>3 DEF DemarrerOidc
<1>4. CASE PasserHeure
  BY <1>c, <1>4 DEF PasserHeure
<1>5. CASE RedemarrerService
  <2>1. /\ demande' = demande /\ avant' = avant /\ phase'[q] \in {phase[q], "morte"}
        /\ phase[q] # "libre"
        /\ \A x \in Demandes : phase[x] = "acquittee" => phase'[x] = "acquittee"
    BY <1>a, <1>5 DEF RedemarrerService, Fini
  <2> QED
    BY <1>a, <1>b, <2>1 DEF AvantBon
<1> QED
  BY <1>1, <1>2, <1>3, <1>4, <1>5 DEF NextC

-----------------------------------------------------------------------------
\* OidcInd for one request.
RetourBon(r) ==
  /\ demande[r].etat <= lancees /\ transactions[demande[r].etat] = 0
  /\ phase[r] = "federe" => memoire.liens[demande[r].sujet] # Inconnu
  /\ phase[r] \in {"ouvre", "ouverte"} =>
       memoire.liens[demande[r].sujet] = demande[r].compte

\* A transaction is consumed by the first return that names it, and a subject once linked
\* keeps its account.
LEMMA ComptesOidc == TypeInd /\ OidcInd /\ NextC => OidcInd'
<1> SUFFICES ASSUME TypeInd, OidcInd, NextC PROVE OidcInd'
  OBVIOUS
<1> USE DEF horlogeC, SansMutation
<1>a. /\ phase \in [Demandes -> Phases] /\ DOMAIN demande = Demandes /\ base = memoire
      /\ memoire \in Etats /\ transactions \in [EtatsOidc -> Nat] /\ lancees \in Nat
      /\ \A r \in Demandes : phase[r] # "libre" =>
           /\ demande[r] \in Requetes /\ demande[r].genre \in Admis(phase[r])
           /\ demande[r].genre = "rappel" => demande[r].etat \in EtatsOidc
  BY ComptesAssumption DEF TypeInd
<1>b. /\ \A e \in EtatsOidc : transactions[e] # 0 => e <= lancees
      /\ \A r \in Demandes : EnRetour(r) => RetourBon(r)
      /\ \A q, r \in Demandes : q # r /\ EnRetour(q) /\ EnRetour(r) =>
           demande[q].etat # demande[r].etat
  BY DEF OidcInd, RetourBon
<1>c. ASSUME /\ \A e \in EtatsOidc : transactions'[e] # 0 => e <= lancees'
             /\ \A r \in Demandes : EnRetour(r)' => RetourBon(r)'
             /\ \A q, r \in Demandes : q # r /\ EnRetour(q)' /\ EnRetour(r)' =>
                  demande'[q].etat # demande'[r].etat
      PROVE  OidcInd'
  BY <1>c DEF OidcInd, RetourBon
<1>1. ASSUME NEW r \in Demandes, PasDemande(r)
      PROVE  OidcInd'
  \* A request that is not on its way back, or does not move on it.
  <2>a. ASSUME NEW p, Aller(r, p), demande' = demande, transactions' = transactions,
               lancees' = lancees, memoire'.liens = memoire.liens,
               demande[r].genre # "rappel" \/ (p = "ouverte" /\ phase[r] = "ouvre")
                 \/ p = "erreur"
        PROVE  OidcInd'
    <3>1. \A q \in Demandes : EnRetour(q)' => EnRetour(q)
      BY <1>a, <2>a DEF EnRetour, Aller
    <3>2. \A q \in Demandes : EnRetour(q)' => RetourBon(q)'
      BY <1>a, <1>b, <2>a, <3>1 DEF EnRetour, RetourBon, Aller
    <3> QED
      BY <1>b, <1>c, <2>a, <3>1, <3>2
  <2>b. phase[r] # "libre" => demande[r].sujet \in Sujets /\ demande[r].compte \in Emails
    BY <1>a DEF Requetes
  <2>1. ASSUME NEW reussi \in BOOLEAN, Inscrire_(r, reussi) PROVE OidcInd'
    <3>1. memoire'.liens = memoire.liens
      BY <1>a, <2>1 DEF Inscrire_, Persister, Etats
    <3> QED
      BY <2>a, <2>1, <3>1 DEF Inscrire_, Genre
  <2>2. ASSUME NEW reussi \in BOOLEAN, Activer(r, reussi) PROVE OidcInd'
    <3>1. memoire'.liens = memoire.liens
      BY <1>a, <2>2 DEF Activer, Persister, Etats
    <3>2. demande[r].genre # "rappel"
      BY <1>a, <2>2 DEF Activer, Admis
    <3> QED
      BY <2>a, <2>2, <3>1, <3>2 DEF Activer
  <2>3. ASSUME NEW reussi \in BOOLEAN, Echanger(r, reussi) PROVE OidcInd'
    <3>1. /\ demande' = demande /\ transactions' = transactions /\ lancees' = lancees
          /\ memoire' = memoire /\ phase[r] = "echange"
      BY <2>3 DEF Echanger
    <3>2. PICK p \in {"erreur", "lie", "federe"} :
            /\ phase' = [phase EXCEPT ![r] = p]
            /\ p = "federe" => memoire.liens[demande[r].sujet] # Inconnu
      BY <2>3 DEF Echanger, Aller
    <3>3. demande[r].genre = "rappel"
      BY <1>a, <3>1 DEF Admis
    <3>4. \A q \in Demandes : EnRetour(q)' => EnRetour(q)
      BY <1>a, <3>1, <3>2, <3>3 DEF EnRetour
    <3>5. \A q \in Demandes : EnRetour(q)' => RetourBon(q)'
      BY <1>a, <1>b, <3>1, <3>2, <3>4 DEF EnRetour, RetourBon
    <3> QED
      BY <1>b, <1>c, <3>1, <3>4, <3>5
  <2>4. ASSUME NEW reussi \in BOOLEAN, Lier(r, reussi) PROVE OidcInd'
    <3> DEFINE lien == memoire.liens[demande[r].sujet]
    <3>1. /\ demande' = demande /\ transactions' = transactions /\ lancees' = lancees
          /\ phase[r] = "lie"
      BY <2>4 DEF Lier
    <3>2. demande[r].genre = "rappel"
      BY <1>a, <3>1 DEF Admis
    <3>3. CASE lien = Inconnu /\ demande[r].compte \in memoire.comptes /\ reussi
      <4>1. memoire'.liens = [memoire.liens EXCEPT ![demande[r].sujet] = demande[r].compte]
            /\ phase' = [phase EXCEPT ![r] = "federe"]
        BY <1>a, <2>4, <3>3 DEF Lier, Persister, Compte, Aller, Etats
      <4>2. demande[r].compte # Inconnu /\ demande[r].sujet \in Sujets
        BY <2>b, <3>1, ComptesAssumption
      <4>3. \A s \in Sujets : memoire.liens[s] # Inconnu => memoire'.liens[s] = memoire.liens[s]
        BY <1>a, <3>3, <4>1 DEF Etats
      <4>4. memoire'.liens[demande[r].sujet] # Inconnu
        BY <1>a, <4>1, <4>2 DEF Etats
      <4>5. \A q \in Demandes : EnRetour(q)' => EnRetour(q)
        BY <1>a, <3>1, <3>2, <4>1 DEF EnRetour
      <4>6. ASSUME NEW q \in Demandes, EnRetour(q)' PROVE RetourBon(q)'
        <5>1. RetourBon(q) /\ demande[q].sujet \in Sujets /\ demande[q].compte \in Emails
          BY <1>a, <1>b, <4>5, <4>6 DEF EnRetour, Requetes
        <5>2. q # r => phase'[q] = phase[q]
          BY <1>a, <4>1
        <5>3. phase'[r] = "federe"
          BY <1>a, <4>1
        <5>4. Inconnu \notin Emails
          BY ComptesAssumption
        <5> QED
          BY <3>1, <4>3, <4>4, <5>1, <5>2, <5>3, <5>4 DEF RetourBon
      <4> QED
        BY <1>b, <1>c, <3>1, <4>5, <4>6
    <3>4. CASE ~(lien = Inconnu /\ demande[r].compte \in memoire.comptes /\ reussi)
      <4>1. memoire' = memoire
            /\ phase' = [phase EXCEPT ![r] = IF lien = demande[r].compte THEN "federe" ELSE "erreur"]
        BY <1>a, <2>4, <3>4 DEF Lier, Persister, Compte, Aller
      <4>2. demande[r].compte # Inconnu
        BY <2>b, <3>1, ComptesAssumption
      <4>3. \A q \in Demandes : EnRetour(q)' => EnRetour(q)
        BY <1>a, <3>1, <3>2, <4>1 DEF EnRetour
      <4>4. \A q \in Demandes : EnRetour(q)' => RetourBon(q)'
        BY <1>a, <1>b, <3>1, <4>1, <4>2, <4>3 DEF EnRetour, RetourBon
      <4> QED
        BY <1>b, <1>c, <3>1, <4>3, <4>4
    <3> QED
      BY <3>3, <3>4
  <2>5. CASE ExaminerBlocage(r)
    BY <2>a, <2>5 DEF ExaminerBlocage, Genre
  <2>6. CASE VerifierIdentifiants(r)
    <3>1. demande[r].genre # "rappel"
      BY <1>a, <2>6 DEF VerifierIdentifiants, Admis
    <3> QED
      BY <2>a, <2>6, <3>1 DEF VerifierIdentifiants
  <2>7. CASE Consigner(r)
    BY <2>a, <2>7 DEF Consigner
  <2>8. CASE LireSecret(r)
    BY <2>a, <2>8 DEF LireSecret, Genre
  <2>9. CASE Effacer(r)
    <3>1. demande[r].genre # "rappel"
      BY <1>a, <2>9 DEF Effacer, Admis
    <3> QED
      BY <2>a, <2>9, <3>1 DEF Effacer
  <2>10. CASE OuvrirSession(r)
    BY <2>a, <2>10 DEF OuvrirSession
  <2>11. CASE Repondre_(r)
    <3>1. demande[r].genre # "rappel"
      BY <1>a, <2>11 DEF Repondre_, Admis
    <3> QED
      BY <2>a, <2>11, <3>1 DEF Repondre_
  <2>12. CASE Consommer(r)
    <3> DEFINE e == demande[r].etat
    <3>1. /\ demande' = demande /\ lancees' = lancees /\ memoire' = memoire
          /\ phase[r] = "recue" /\ demande[r].genre = "rappel"
          /\ transactions' = [transactions EXCEPT ![e] = 0]
          /\ phase' = [phase EXCEPT ![r] =
                          IF transactions[e] > recue[r] THEN "echange" ELSE "erreur"]
      BY <2>12 DEF Consommer, Genre, Aller
    <3>2. e \in EtatsOidc /\ EtatsOidc \subseteq Nat /\ recue[r] \in Nat
      BY <1>a, <3>1 DEF EtatsOidc, TypeInd
    <3>3. transactions[e] > recue[r] => transactions[e] # 0 /\ e <= lancees
      <4>1. transactions[e] \in Nat
        BY ONLY <1>a, <3>2
      <4>2. transactions[e] # 0 => e <= lancees
        BY <1>b, <3>2
      <4> QED
        BY <3>2, <4>1, <4>2
    <3>4. \A q \in Demandes : EnRetour(q)' /\ q # r => EnRetour(q) /\ RetourBon(q)
                                                       /\ demande[q].etat \in EtatsOidc
      BY <1>a, <1>b, <3>1 DEF EnRetour
    <3>5. EnRetour(r)' => transactions[e] > recue[r] /\ phase'[r] = "echange"
      BY <1>a, <3>1 DEF EnRetour
    <3>6. ASSUME NEW q \in Demandes, EnRetour(q)' PROVE RetourBon(q)'
      <4>1. CASE q = r
        BY <1>a, <3>1, <3>2, <3>3, <3>5, <3>6, <4>1 DEF RetourBon
      <4>2. CASE q # r
        <5>1. RetourBon(q) /\ demande[q].etat \in EtatsOidc /\ phase'[q] = phase[q]
          BY <1>a, <3>1, <3>4, <3>6, <4>2
        <5>2. transactions'[demande[q].etat] \in {0, transactions[demande[q].etat]}
          BY <1>a, <3>1, <3>2, <5>1
        <5> QED
          BY <3>1, <5>1, <5>2 DEF RetourBon
      <4> QED
        BY <4>1, <4>2
    <3>7. \A q \in Demandes : EnRetour(q)' /\ q # r /\ EnRetour(r)' => demande[q].etat # e
      BY <3>3, <3>4, <3>5 DEF RetourBon
    <3>8. \A x \in EtatsOidc : transactions'[x] # 0 => x <= lancees'
      BY <1>a, <1>b, <3>1, <3>2
    <3> QED
      BY <1>b, <1>c, <3>1, <3>4, <3>6, <3>7, <3>8
  <2>13. CASE ConnecterFedere(r)
    <3>1. /\ transactions' = transactions /\ lancees' = lancees /\ memoire' = memoire
          /\ phase[r] = "federe"
          /\ demande' = [demande EXCEPT ![r].compte = memoire.liens[demande[r].sujet]]
          /\ phase' = [phase EXCEPT ![r] = "ouvre"]
      BY <2>13 DEF ConnecterFedere, Aller
    <3>2. /\ demande[r] \in Requetes /\ EnRetour(r)
      BY <1>a, <3>1 DEF EnRetour, Admis
    <3>3. /\ demande'[r].genre = demande[r].genre /\ demande'[r].etat = demande[r].etat
          /\ demande'[r].sujet = demande[r].sujet
          /\ demande'[r].compte = memoire.liens[demande[r].sujet]
          /\ phase'[r] = "ouvre"
          /\ \A q \in Demandes : q # r => demande'[q] = demande[q] /\ phase'[q] = phase[q]
      BY <1>a, <3>1, <3>2 DEF Requetes
    <3>4. \A q \in Demandes : EnRetour(q)' => EnRetour(q)
      BY <3>2, <3>3 DEF EnRetour
    <3>5. \A q \in Demandes : EnRetour(q)' => RetourBon(q)'
      BY <1>b, <3>1, <3>3, <3>4 DEF RetourBon
    <3>6. \A q \in Demandes : demande'[q].etat = demande[q].etat
      BY <3>3
    <3> QED
      BY <1>b, <1>c, <3>1, <3>4, <3>5, <3>6
  <2> QED
    BY <1>1, <2>1, <2>2, <2>3, <2>4, <2>5, <2>6, <2>7, <2>8, <2>9, <2>10, <2>11, <2>12, <2>13
       DEF PasDemande
<1>2. ASSUME NEW r \in Demandes, NEW f \in Formes, Accepter_(r, f)
      PROVE  OidcInd'
  <2>1. /\ transactions' = transactions /\ lancees' = lancees /\ memoire' = memoire
        /\ phase[r] = "libre" /\ phase'[r] = "recue"
        /\ \A q \in Demandes : q # r => demande'[q] = demande[q] /\ phase'[q] = phase[q]
    BY <1>a, <1>2 DEF Accepter_, Aller
  <2>2. \A q \in Demandes : EnRetour(q)' => q # r /\ EnRetour(q)
    BY <2>1 DEF EnRetour
  <2>3. \A q \in Demandes : EnRetour(q)' => RetourBon(q)'
    BY <1>b, <2>1, <2>2 DEF RetourBon
  <2> QED
    BY <1>b, <1>c, <2>1, <2>2, <2>3
<1>3. CASE DemarrerOidc
  <2>1. /\ demande' = demande /\ phase' = phase /\ memoire' = memoire /\ lancees' = lancees + 1
        /\ \A e \in EtatsOidc : e # lancees + 1 => transactions'[e] \in {0, transactions[e]}
    <3>1. /\ demande' = demande /\ phase' = phase /\ memoire' = memoire /\ lancees' = lancees + 1
          /\ transactions' = [e \in EtatsOidc |->
               IF e = lancees + 1 THEN heure + DureeTransaction
               ELSE IF transactions[e] > heure THEN transactions[e] ELSE 0]
      BY <1>3 DEF DemarrerOidc
    <3> QED
      BY <3>1
  <2>2. EtatsOidc \subseteq Nat
    BY DEF EtatsOidc
  <2>3. ASSUME NEW e \in EtatsOidc, transactions'[e] # 0 PROVE e <= lancees'
    <3>1. e = lancees + 1 \/ e <= lancees
      BY <1>b, <2>1, <2>3
    <3> QED
      BY <1>a, <2>1, <2>2, <3>1
  <2>4. \A q \in Demandes : EnRetour(q)' => EnRetour(q) /\ demande[q].etat \in EtatsOidc
    BY <1>a, <2>1 DEF EnRetour
  <2>5. ASSUME NEW q \in Demandes, EnRetour(q)' PROVE RetourBon(q)'
    <3>1. /\ demande[q].etat \in Nat /\ demande[q].etat <= lancees
          /\ transactions[demande[q].etat] = 0 /\ demande[q].etat \in EtatsOidc
      BY <1>b, <2>2, <2>4, <2>5 DEF RetourBon
    <3>2. transactions'[demande[q].etat] = 0 /\ demande[q].etat <= lancees + 1
      BY <1>a, <2>1, <3>1
    <3> QED
      BY <1>b, <2>1, <2>4, <2>5, <3>2 DEF RetourBon
  <2> QED
    BY <1>b, <1>c, <2>1, <2>3, <2>4, <2>5
<1>4. CASE PasserHeure
  <2>1. UNCHANGED <<demande, phase, memoire, lancees, transactions>>
    BY <1>4 DEF PasserHeure
  <2> QED
    BY <1>b, <1>c, <2>1 DEF RetourBon, EnRetour
<1>5. CASE RedemarrerService
  <2>1. /\ demande' = demande /\ memoire' = memoire /\ lancees' = lancees
        /\ \A e \in EtatsOidc : transactions'[e] = 0
        /\ \A q \in Demandes : phase'[q] \in {phase[q], "morte"}
    BY <1>a, <1>5 DEF RedemarrerService
  <2>2. \A q \in Demandes : EnRetour(q)' => EnRetour(q) /\ phase'[q] = phase[q]
                                             /\ demande[q].etat \in EtatsOidc
    BY <1>a, <2>1 DEF EnRetour
  <2>3. \A q \in Demandes : EnRetour(q)' => RetourBon(q)'
    BY <1>b, <2>1, <2>2 DEF RetourBon
  <2> QED
    BY <1>b, <1>c, <2>1, <2>2, <2>3
<1> QED
  BY <1>1, <1>2, <1>3, <1>4, <1>5 DEF NextC

-----------------------------------------------------------------------------
\* The requests are finitely many, and those past the check of the block are under way.
LEMMA ComptesFinis ==
  /\ IsFiniteSet(EnCours) /\ Cardinality(EnCours) \in Nat
  /\ \A c : /\ IsFiniteSet(Passees(c)) /\ Cardinality(Passees(c)) \in Nat
            /\ Cardinality(Passees(c)) <= Cardinality(EnCours)
<1>1. IsFiniteSet(Demandes)
  BY ComptesAssumption, FS_Interval DEF Demandes
<1>2. EnCours \subseteq Demandes /\ \A c : Passees(c) \subseteq EnCours
  BY DEF EnCours, Passees, Fini
<1>3. IsFiniteSet(EnCours)
  BY <1>1, <1>2, FS_Subset
<1>4. \A c : IsFiniteSet(Passees(c)) /\ Cardinality(Passees(c)) <= Cardinality(EnCours)
  BY <1>2, <1>3, FS_Subset
<1> QED
  BY <1>3, <1>4, FS_CardinalityType

\* No more requests are under way than may be.
LEMMA ComptesEnCours ==
  TypeInd /\ NextC /\ Cardinality(EnCours) <= MaxSimultanees
  => Cardinality(EnCours') <= MaxSimultanees
<1> SUFFICES ASSUME TypeInd, NextC, Cardinality(EnCours) <= MaxSimultanees
             PROVE  Cardinality(EnCours') <= MaxSimultanees
  OBVIOUS
<1>a. phase \in [Demandes -> Phases] /\ MaxSimultanees \in Nat
  BY ComptesAssumption DEF TypeInd
<1>b. ASSUME EnCours' \subseteq EnCours PROVE Cardinality(EnCours') <= MaxSimultanees
  <2>1. Cardinality(EnCours') <= Cardinality(EnCours) /\ IsFiniteSet(EnCours')
    BY <1>b, ComptesFinis, FS_Subset
  <2>2. Cardinality(EnCours') \in Nat /\ Cardinality(EnCours) \in Nat
    BY <2>1, ComptesFinis, FS_CardinalityType
  <2> QED
    BY <1>a, <2>1, <2>2
<1>1. ASSUME NEW r \in Demandes, PasDemande(r) PROVE Cardinality(EnCours') <= MaxSimultanees
  <2>1. r \in EnCours /\ \E p : phase' = [phase EXCEPT ![r] = p]
    BY <1>1 DEF PasDemande, Inscrire_, Activer, Echanger, Lier, ExaminerBlocage,
                VerifierIdentifiants, Consigner, LireSecret, Effacer, OuvrirSession,
                Repondre_, Consommer, ConnecterFedere, Aller, EnCours, Fini
  <2>2. EnCours' \subseteq EnCours
    BY <1>a, <2>1 DEF EnCours
  <2> QED
    BY <1>b, <2>2
<1>2. ASSUME NEW r \in Demandes, NEW f \in Formes, Accepter_(r, f)
      PROVE  Cardinality(EnCours') <= MaxSimultanees
  <2>1. /\ phase' = [phase EXCEPT ![r] = "recue"] /\ phase[r] = "libre"
        /\ Cardinality(EnCours) < MaxSimultanees
    BY <1>2 DEF Accepter_, Aller, EnCours
  <2>2. r \notin EnCours /\ EnCours' = EnCours \cup {r}
    BY <1>a, <2>1 DEF EnCours, Fini
  <2>3. Cardinality(EnCours') = Cardinality(EnCours) + 1
    BY <2>2, ComptesFinis, FS_AddElement
  <2> QED
    BY <1>a, <2>1, <2>3, ComptesFinis
<1>3. CASE DemarrerOidc \/ PasserHeure
  <2>1. EnCours' \subseteq EnCours
    BY <1>3 DEF DemarrerOidc, PasserHeure, EnCours
  <2> QED
    BY <1>b, <2>1
<1>4. CASE RedemarrerService
  <2>1. EnCours' \subseteq EnCours
    BY <1>4 DEF RedemarrerService, EnCours, Fini
  <2> QED
    BY <1>b, <2>1
<1> QED
  BY <1>1, <1>2, <1>3, <1>4 DEF NextC

\* EchecsInd for one account.
EchecsBons(c) ==
  echecs[c].n >= Seuil =>
    /\ echecs[c].jusqua # 0
    /\ echecs[c].n + Cardinality(Passees(c)) <= Seuil + MaxSimultanees - 1

\* A block that is set lets no more requests of its account pass, and the failure of one
\* that had passed takes it out of those that may still fail.
LEMMA ComptesEchecs == TypeInd /\ EchecsInd /\ NextC => EchecsInd'
<1> SUFFICES ASSUME TypeInd, EchecsInd, NextC, NEW c \in Emails PROVE EchecsBons(c)'
  BY ComptesEnCours DEF EchecsInd, EchecsBons
<1> USE DEF horlogeC
<1>a. /\ phase \in [Demandes -> Phases] /\ DOMAIN demande = Demandes
      /\ echecs \in [Emails -> [n : Nat, dernier : Nat, jusqua : Nat]]
      /\ recue \in [Demandes -> Nat]
      /\ \A r \in Demandes : phase[r] # "libre" => demande[r].compte \in Emails
      /\ Seuil \in Nat \ {0} /\ MaxSimultanees \in Nat \ {0} /\ DureeBlocage \in Nat \ {0}
  BY ComptesAssumption DEF TypeInd, Requetes
<1>b. EchecsBons(c) /\ Cardinality(EnCours) <= MaxSimultanees
  BY DEF EchecsInd, EchecsBons
<1>c. ASSUME Passees(c)' \subseteq Passees(c),
             echecs'[c] = echecs[c] \/ echecs'[c].n = 0
      PROVE  EchecsBons(c)'
  <2>1. Cardinality(Passees(c)') <= Cardinality(Passees(c)) /\ IsFiniteSet(Passees(c)')
    BY <1>c, ComptesFinis, FS_Subset
  <2>2. Cardinality(Passees(c)') \in Nat /\ Cardinality(Passees(c)) \in Nat
    BY <2>1, ComptesFinis, FS_CardinalityType
  <2>3. CASE echecs'[c] = echecs[c]
    BY <1>a, <1>b, <2>1, <2>2, <2>3 DEF EchecsBons
  <2>4. CASE echecs'[c].n = 0
    BY <1>a, <2>4 DEF EchecsBons
  <2> QED
    BY <1>c, <2>3, <2>4
<1>1. ASSUME NEW r \in Demandes, PasDemande(r) PROVE EchecsBons(c)'
  <2>a. ASSUME NEW p, Aller(r, p), demande' = demande,
               p \in {"verifie", "identifiee", "ratee"} =>
                 phase[r] \in {"verifie", "identifiee", "ratee"}
        PROVE  Passees(c)' \subseteq Passees(c)
    BY <1>a, <2>a DEF Passees, Aller
  <2>1. ASSUME NEW reussi \in BOOLEAN,
               Inscrire_(r, reussi) \/ Activer(r, reussi) \/ Echanger(r, reussi) \/ Lier(r, reussi)
        PROVE  EchecsBons(c)'
    <3>1. /\ echecs' = echecs /\ demande' = demande
          /\ \E p \in {"repond", "erreur", "lie", "federe"} : Aller(r, p)
      BY <2>1 DEF Inscrire_, Activer, Echanger, Lier
    <3> QED
      BY <1>c, <2>a, <3>1
  <2>2. CASE ExaminerBlocage(r)
    <3> DEFINE d == demande[r].compte
    <3>1. /\ demande' = demande /\ phase[r] = "recue"
          /\ Aller(r, IF echecs[d].jusqua > recue[r] THEN "erreur" ELSE "verifie")
          /\ echecs' = IF ~(echecs[d].jusqua > recue[r]) /\ echecs[d].jusqua # 0
                       THEN [echecs EXCEPT ![d] = AucunEchec] ELSE echecs
      BY <2>2 DEF ExaminerBlocage, Compte
    <3>2. CASE echecs[d].jusqua > recue[r]
      BY <1>c, <2>a, <3>1, <3>2
    <3>3. CASE ~(echecs[d].jusqua > recue[r]) /\ c # d
      <4>1. Passees(c)' \subseteq Passees(c)
        BY <1>a, <3>1, <3>3 DEF Passees, Aller
      <4>2. echecs'[c] = echecs[c]
        BY <1>a, <3>1, <3>3
      <4> QED
        BY <1>c, <4>1, <4>2
    <3>4. CASE ~(echecs[d].jusqua > recue[r]) /\ c = d
      <4>1. CASE echecs[c].jusqua # 0
        <5>1. echecs'[c].n = 0
          BY <1>a, <3>1, <3>4, <4>1 DEF AucunEchec
        <5> QED
          BY <1>a, <5>1 DEF EchecsBons
      <4>2. CASE echecs[c].jusqua = 0
        <5>1. echecs' = echecs /\ ~(echecs[c].n >= Seuil)
          BY <1>b, <3>1, <3>4, <4>2 DEF EchecsBons
        <5> QED
          BY <5>1 DEF EchecsBons
      <4> QED
        BY <4>1, <4>2
    <3> QED
      BY <3>2, <3>3, <3>4
  <2>3. CASE VerifierIdentifiants(r) \/ LireSecret(r)
    <3>1. /\ echecs' = echecs /\ demande' = demande
          /\ phase[r] \in {"verifie", "identifiee"} /\ \E p : Aller(r, p)
      BY <2>3 DEF VerifierIdentifiants, LireSecret
    <3> QED
      BY <1>c, <2>a, <3>1
  <2>4. CASE Consigner(r)
    <3> DEFINE d == demande[r].compte
               garde == echecs[d].jusqua > recue[r] \/ recue[r] <= echecs[d].dernier + DureeBlocage
               n == IF garde THEN echecs[d].n + 1 ELSE 1
               j == IF n >= Seuil THEN recue[r] + DureeBlocage
                    ELSE IF garde THEN echecs[d].jusqua ELSE 0
    <3>1. /\ demande' = demande /\ phase[r] = "ratee" /\ Aller(r, "erreur")
          /\ echecs' = [echecs EXCEPT ![d] = [n |-> n, dernier |-> recue[r], jusqua |-> j]]
      BY <2>4 DEF Consigner, Compte
    <3>2. CASE c # d
      <4>1. echecs'[c] = echecs[c]
        BY <1>a, <3>1, <3>2
      <4> QED
        BY <1>c, <2>a, <3>1, <4>1
    <3>3. CASE c = d
      <4>1. r \in Passees(c) /\ Passees(c)' = Passees(c) \ {r}
        BY <1>a, <3>1, <3>3 DEF Passees, Aller
      <4>2. Cardinality(Passees(c)') = Cardinality(Passees(c)) - 1
        BY <4>1, ComptesFinis, FS_RemoveElement
      <4>3. /\ Cardinality(Passees(c)) \in Nat /\ Cardinality(EnCours) \in Nat
            /\ Cardinality(Passees(c)) <= MaxSimultanees
        BY <1>a, <1>b, ComptesFinis
      <4>4. echecs[c] \in [n : Nat, dernier : Nat, jusqua : Nat] /\ recue[r] \in Nat
        BY <1>a
      <4>5. echecs'[c].n = n /\ echecs'[c].jusqua = j
        BY <1>a, <3>1, <3>3
      <4>6. n \in Nat /\ (n = echecs[c].n + 1 \/ n = 1)
        BY <3>3, <4>4
      <4>7. n >= Seuil => j = recue[r] + DureeBlocage
        OBVIOUS
      <4> HIDE DEF n, j
      <4>8. n >= Seuil => j # 0
        BY <1>a, <4>4, <4>7
      <4>9. n >= Seuil => n + (Cardinality(Passees(c)) - 1) <= Seuil + MaxSimultanees - 1
        <5>1. CASE echecs[c].n >= Seuil
          BY <1>a, <1>b, <4>3, <4>4, <4>6, <5>1 DEF EchecsBons
        <5>2. CASE ~(echecs[c].n >= Seuil)
          BY <1>a, <4>3, <4>4, <4>6, <5>2
        <5> QED
          BY <5>1, <5>2
      <4> QED
        BY <4>2, <4>5, <4>8, <4>9 DEF EchecsBons
    <3> QED
      BY <3>2, <3>3
  <2>5. CASE Effacer(r)
    <3>1. demande' = demande /\ Aller(r, "ouvre")
          /\ echecs' = [echecs EXCEPT ![demande[r].compte] = AucunEchec]
      BY <2>5 DEF Effacer, Compte
    <3>2. echecs'[c] = echecs[c] \/ echecs'[c].n = 0
      BY <1>a, <3>1 DEF AucunEchec
    <3> QED
      BY <1>c, <2>a, <3>1, <3>2
  <2>6. CASE OuvrirSession(r) \/ Repondre_(r) \/ Consommer(r)
    <3>1. /\ echecs' = echecs /\ demande' = demande
          /\ \E p \in {"ouverte", "acquittee", "echange", "erreur"} : Aller(r, p)
      BY <2>6 DEF OuvrirSession, Repondre_, Consommer
    <3> QED
      BY <1>c, <2>a, <3>1
  <2>7. CASE ConnecterFedere(r)
    <3>1. /\ echecs' = echecs /\ phase' = [phase EXCEPT ![r] = "ouvre"]
          /\ \A q \in Demandes : q # r => demande'[q] = demande[q]
      BY <1>a, <2>7 DEF ConnecterFedere, Aller
    <3>2. Passees(c)' \subseteq Passees(c)
      BY <1>a, <3>1 DEF Passees
    <3> QED
      BY <1>c, <3>1, <3>2
  <2> QED
    BY <1>1, <2>1, <2>2, <2>3, <2>4, <2>5, <2>6, <2>7 DEF PasDemande
<1>2. ASSUME NEW r \in Demandes, NEW f \in Formes, Accepter_(r, f)
      PROVE  EchecsBons(c)'
  <2>1. /\ phase' = [phase EXCEPT ![r] = "recue"] /\ echecs' = echecs
        /\ \A q \in Demandes : q # r => demande'[q] = demande[q]
    BY <1>a, <1>2 DEF Accepter_, Aller
  <2>2. Passees(c)' \subseteq Passees(c)
    BY <1>a, <2>1 DEF Passees
  <2> QED
    BY <1>c, <2>1, <2>2
<1>3. CASE DemarrerOidc \/ PasserHeure
  <2>1. UNCHANGED <<phase, demande, echecs>>
    BY <1>3 DEF DemarrerOidc, PasserHeure
  <2>2. Passees(c)' = Passees(c)
    BY <2>1 DEF Passees
  <2> QED
    BY <1>c, <2>1, <2>2
<1>4. CASE RedemarrerService
  <2>1. /\ demande' = demande /\ \A q \in Demandes : phase'[q] \in {phase[q], "morte"}
        /\ echecs'[c].n = 0
    BY <1>4 DEF RedemarrerService, AucunEchec
  <2>2. Passees(c)' \subseteq Passees(c)
    BY <2>1 DEF Passees
  <2> QED
    BY <1>c, <2>1, <2>2
<1> QED
  BY <1>1, <1>2, <1>3, <1>4 DEF NextC

-----------------------------------------------------------------------------
\* The inductive invariant of the accounts service.
ComptesInd == TypeInd /\ ActiveesInd /\ AvantInd /\ OidcInd /\ EchecsInd

\* It holds at the start.
LEMMA ComptesDebut == InitC => ComptesInd
<1> SUFFICES ASSUME InitC PROVE EchecsInd
  BY ComptesInit DEF ComptesInd
<1>1. EnCours = {}
  BY DEF InitC, EnCours, Fini
<1>2. Cardinality(EnCours) = 0 /\ MaxSimultanees \in Nat /\ Seuil \in Nat \ {0}
  BY <1>1, FS_EmptySet, ComptesAssumption
<1>3. \A c \in Emails : echecs[c].n = 0
  BY DEF InitC, AucunEchec
<1> QED
  BY <1>2, <1>3 DEF EchecsInd

\* Every step of the service, or of another bench, keeps it.
LEMMA ComptesPas == ComptesInd /\ (NextC \/ UNCHANGED varsC) => ComptesInd'
<1>1. CASE NextC
  BY <1>1, ComptesType, ComptesActivees, ComptesAvant, ComptesOidc, ComptesEchecs
     DEF ComptesInd
<1>2. CASE UNCHANGED varsC
  BY <1>2 DEF ComptesInd, varsC, TypeInd, ActiveesInd, AvantInd, OidcInd, EchecsInd, EnCours,
              Passees, EnRetour
<1> QED
  BY <1>1, <1>2

\* It implies what the runs check.
LEMMA ComptesBilan == ComptesInd => TypeC /\ SessionsFondees /\ EchecsBornes
<1> SUFFICES ASSUME ComptesInd PROVE TypeC /\ SessionsFondees /\ EchecsBornes
  OBVIOUS
<1>1. TypeC
  BY DEF ComptesInd, TypeInd, TypeC, Etats, Phases
<1>2. SessionsFondees
  <2>2. ASSUME NEW r \in Demandes, \/ Genre(r) = "connexion" /\ phase[r] = "ouverte"
                                   \/ Genre(r) = "activation" /\ phase[r] = "acquittee"
        PROVE  avant[r] = {}
    BY <2>2 DEF ComptesInd, AvantInd, Genre
  <2>3. ASSUME NEW q \in Demandes, NEW r \in Demandes, Genre(q) = "rappel",
               Genre(r) = "rappel", q # r, phase[q] = "ouverte", phase[r] = "ouverte"
        PROVE  /\ demande[q].etat # demande[r].etat
               /\ demande[q].sujet = demande[r].sujet => Compte(q) = Compte(r)
    <3>1. EnRetour(q) /\ EnRetour(r)
      BY <2>3 DEF EnRetour, Genre
    <3> QED
      BY <2>3, <3>1 DEF ComptesInd, OidcInd, Compte
  <2> QED
    BY <2>2, <2>3 DEF SessionsFondees
<1>3. EchecsBornes
  <2>1. ASSUME NEW c \in Emails PROVE echecs[c].n <= Seuil + MaxSimultanees - 1
    <3>1. /\ echecs[c].n \in Nat /\ Seuil \in Nat /\ MaxSimultanees \in Nat \ {0}
          /\ Cardinality(Passees(c)) \in Nat
      BY ComptesAssumption, ComptesFinis DEF ComptesInd, TypeInd
    <3>2. echecs[c].n >= Seuil =>
            echecs[c].n + Cardinality(Passees(c)) <= Seuil + MaxSimultanees - 1
      BY DEF ComptesInd, EchecsInd
    <3> QED
      BY <3>1, <3>2
  <2> QED
    BY <2>1 DEF EchecsBornes
<1> QED
  BY <1>1, <1>2, <1>3

=============================================================================
