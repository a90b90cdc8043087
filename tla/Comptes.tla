------------------------------- MODULE Comptes -------------------------------
(***************************************************************************)
(* The accounts service (nd-accounts): one thread per request, a state     *)
(* under a lock that each request takes and drops several times, passwords *)
(* verified without it, and a database written before the memory.  What    *)
(* the requests ask for is `profil`, chosen at the start.  What a session  *)
(* is used for afterwards, and the licences, are left out.                 *)
(***************************************************************************)
EXTENDS Bancs

CONSTANTS
  Emails,               \* the e-mails of the accounts
  Inconnu,              \* no account
  Sujets,               \* the subjects of the identity provider
  Profils,              \* records: kinds of requests, their number, their e-mails, those with an account
  Seuil,                \* SEUIL_ECHECS_CONNEXION
  DureeBlocage,         \* DUREE_BLOCAGE_CONNEXION_S, in ticks of the clock
  DureeTransaction,     \* duree_transaction_s, in ticks of the clock
  MaxDemandes,          \* requests of any behaviour (bound)
  MaxSimultanees,       \* requests under way together (bound)
  MaxHeure,             \* clock (bound)
  MaxTransactions,      \* authorisations started at the provider (bound)
  MaxRedemarrages       \* stops of the server (bound)

ASSUME ComptesAssumption ==
  /\ {Seuil, DureeBlocage, DureeTransaction, MaxDemandes, MaxSimultanees} \subseteq Nat \ {0}
  /\ {MaxHeure, MaxTransactions, MaxRedemarrages} \subseteq Nat
  /\ Inconnu \notin Emails /\ Sujets # {} /\ Profils # {}
  /\ \A p \in Profils : p.inscrits \subseteq p.emails /\ p.emails \subseteq Emails
                         /\ p.demandes \in 0..MaxDemandes

Demandes == 1..MaxDemandes
EtatsOidc == 1..MaxTransactions

VARIABLES
  profil,       \* the kinds of requests of the behaviour
  heure,        \* the clock
  memoire,      \* Etat: accounts, secrets of the second factor, links of subjects
  base,         \* the same, in the database
  echecs,       \* Etat::echecs_connexion
  transactions, \* FluxOidc::en_attente: until when, or 0
  lancees,      \* authorisations started so far
  demande,      \* what each request asks for
  phase,        \* how far it is
  recue,        \* `maintenant`: when it was received
  avant,        \* auxiliary: the activations of its account answered before it was received
  arrets

varsC == <<profil, heure, memoire, base, echecs, transactions, lancees, demande, phase,
           recue, avant, arrets>>
horlogeC == <<profil, heure, lancees, arrets>>

\* What a request may ask for; only the fields its kind uses vary.  A code is that of the
\* secret of an answered activation, or of none (0).
Forme(g, c, b, k, s, e) ==
  [genre |-> g, compte |-> c, bon |-> b, code |-> k, sujet |-> s, etat |-> e]
Formes ==
  LET s0 == CHOOSE s \in Sujets : TRUE
      connus == {q \in Demandes : phase[q] = "acquittee" /\ demande[q].genre = "activation"} IN
    UNION {{Forme("inscription", c, TRUE, 0, s0, 0), Forme("connexion", c, TRUE, 0, s0, 0),
            Forme("connexion", c, FALSE, 0, s0, 0), Forme("activation", c, TRUE, 0, s0, 0),
            Forme("activation", c, FALSE, 0, s0, 0)}
           \cup {Forme("connexion2fa", c, TRUE, k, s0, 0) : k \in {0} \cup connus}
           \cup {Forme("rappel", c, TRUE, 0, x[1], x[2]) : x \in Sujets \X EtatsOidc} :
             c \in profil.emails}

AucunEchec == [n |-> 0, dernier |-> 0, jusqua |-> 0]
Fini == {"libre", "erreur", "morte", "ouverte", "acquittee"}

InitC ==
  /\ profil \in Sur({"comptes"}, Profils) /\ heure = 1 /\ lancees = 0 /\ arrets = 0
  /\ memoire = [comptes |-> profil.inscrits,
                secrets |-> [c \in Emails |-> 0],
                liens |-> [s \in Sujets |-> Inconnu]]
  /\ base = memoire
  /\ echecs = [c \in Emails |-> AucunEchec]
  /\ transactions = [e \in EtatsOidc |-> 0]
  /\ demande = [r \in Demandes |-> Forme("connexion", Inconnu, FALSE, 0, Inconnu, 0)]
  /\ phase = [r \in Demandes |-> "libre"]
  /\ recue = [r \in Demandes |-> 0]
  /\ avant = [r \in Demandes |-> {}]

Aller(r, p) == phase' = [phase EXCEPT ![r] = p]
Compte(r) == demande[r].compte
Genre(r) == demande[r].genre
SansMutation == UNCHANGED <<memoire, base>>

\* Durable or nothing: the database, then the memory, under the lock; or neither.
Persister(etat, reussi) ==
  IF reussi THEN memoire' = etat /\ base' = etat ELSE SansMutation

-----------------------------------------------------------------------------
\* serve, handle_conn: a thread of its own.
Accepter_(r, f) ==
  /\ r <= profil.demandes
  /\ phase[r] = "libre" /\ \A q \in 1..(r - 1) : phase[q] # "libre"
  /\ Cardinality({q \in Demandes : phase[q] \notin Fini}) < MaxSimultanees
  /\ demande' = [demande EXCEPT ![r] = f]
  /\ Aller(r, "recue")
  /\ recue' = [recue EXCEPT ![r] = heure]
  /\ avant' = [avant EXCEPT ![r] = {q \in Demandes :
       phase[q] = "acquittee" /\ Genre(q) = "activation" /\ Compte(q) = f.compte}]
  /\ SansMutation /\ UNCHANGED horlogeC /\ UNCHANGED <<echecs, transactions>>

\* register: the password is hashed first, without the lock.
Inscrire_(r, reussi) ==
  LET libre == Compte(r) \notin memoire.comptes IN
    /\ Genre(r) = "inscription" /\ phase[r] = "recue"
    /\ Persister([memoire EXCEPT !.comptes = @ \cup {Compte(r)}], libre /\ reussi)
    /\ Aller(r, IF libre /\ reussi THEN "repond" ELSE "erreur")
    /\ UNCHANGED horlogeC /\ UNCHANGED <<echecs, transactions, demande, recue, avant>>

\* connexion_bloquee: a block that is over is lifted.
ExaminerBlocage(r) ==
  LET e == echecs[Compte(r)]
      bloquee == e.jusqua > recue[r] IN
    /\ Genre(r) \in {"connexion", "connexion2fa", "activation"} /\ phase[r] = "recue"
    /\ Aller(r, IF bloquee THEN "erreur" ELSE "verifie")
    /\ echecs' = IF ~bloquee /\ e.jusqua # 0
                 THEN [echecs EXCEPT ![Compte(r)] = AucunEchec] ELSE echecs
    /\ SansMutation /\ UNCHANGED horlogeC /\ UNCHANGED <<transactions, demande, recue, avant>>

\* verifier_identifiants, without the lock.
VerifierIdentifiants(r) ==
  /\ phase[r] = "verifie"
  /\ Aller(r, IF demande[r].bon /\ Compte(r) \in memoire.comptes THEN "identifiee" ELSE "ratee")
  /\ SansMutation /\ UNCHANGED horlogeC
  /\ UNCHANGED <<echecs, transactions, demande, recue, avant>>

\* Mutated form of Consigner: no block is ever set.
ConsignerSansBloquer(r) ==
  /\ phase[r] = "ratee"
  /\ echecs' = [echecs EXCEPT ![Compte(r)].n = @ + 1]
  /\ Aller(r, "erreur")
  /\ SansMutation /\ UNCHANGED horlogeC /\ UNCHANGED <<transactions, demande, recue, avant>>

\* consigner_echec_connexion, which forgets what is dormant first.
Consigner(r) ==
  LET e == echecs[Compte(r)]
      garde == e.jusqua > recue[r] \/ recue[r] <= e.dernier + DureeBlocage
      n == IF garde THEN e.n + 1 ELSE 1
      jusqua == IF n >= Seuil THEN recue[r] + DureeBlocage ELSE IF garde THEN e.jusqua ELSE 0 IN
    /\ phase[r] = "ratee"
    /\ echecs' = [echecs EXCEPT ![Compte(r)] =
                    [n |-> n, dernier |-> recue[r], jusqua |-> jusqua]]
    /\ Aller(r, "erreur")
    /\ SansMutation /\ UNCHANGED horlogeC /\ UNCHANGED <<transactions, demande, recue, avant>>

\* login_a, login_2fa_a and activer_2fa_reseau read the secret under the lock, which they
\* drop.
LireSecret(r) ==
  LET secret == memoire.secrets[Compte(r)] IN
    /\ phase[r] = "identifiee"
    /\ \/ Genre(r) = "connexion" /\ Aller(r, IF secret = 0 THEN "efface" ELSE "erreur")
       \/ Genre(r) = "activation" /\ Aller(r, IF secret = 0 THEN "active" ELSE "erreur")
       \/ /\ Genre(r) = "connexion2fa"
          /\ Aller(r, IF secret = 0 THEN "erreur"
                      ELSE IF demande[r].code = secret THEN "efface" ELSE "ratee")
    /\ SansMutation /\ UNCHANGED horlogeC
    /\ UNCHANGED <<echecs, transactions, demande, recue, avant>>

\* effacer_echecs_connexion.
Effacer(r) ==
  /\ phase[r] = "efface"
  /\ echecs' = [echecs EXCEPT ![Compte(r)] = AucunEchec]
  /\ Aller(r, "ouvre")
  /\ SansMutation /\ UNCHANGED horlogeC /\ UNCHANGED <<transactions, demande, recue, avant>>

\* ouvrir_session.
OuvrirSession(r) ==
  /\ phase[r] = "ouvre"
  /\ Aller(r, "ouverte")
  /\ SansMutation /\ UNCHANGED horlogeC
  /\ UNCHANGED <<echecs, transactions, demande, recue, avant>>

\* Mutated form of Activer: the secret is kept in memory only.
ActiverEnMemoire(r, reussi) ==
  /\ phase[r] = "active"
  /\ memoire' = [memoire EXCEPT !.secrets[Compte(r)] = r] /\ UNCHANGED base
  /\ Aller(r, "repond")
  /\ UNCHANGED horlogeC /\ UNCHANGED <<echecs, transactions, demande, recue, avant>>

\* enable_2fa: the secret, numbered by its request, replaces any other.
Activer(r, reussi) ==
  /\ phase[r] = "active"
  /\ Persister([memoire EXCEPT !.secrets[Compte(r)] = r], reussi)
  /\ Aller(r, IF reussi THEN "repond" ELSE "erreur")
  /\ UNCHANGED horlogeC /\ UNCHANGED <<echecs, transactions, demande, recue, avant>>

\* The answer leaves.
Repondre_(r) ==
  /\ phase[r] = "repond"
  /\ Aller(r, "acquittee")
  /\ SansMutation /\ UNCHANGED horlogeC
  /\ UNCHANGED <<echecs, transactions, demande, recue, avant>>

-----------------------------------------------------------------------------
\* FluxOidc::demarrer: purges what is over, and adds a transaction.
DemarrerOidc ==
  /\ "rappel" \in profil.genres /\ lancees < MaxTransactions
  /\ lancees' = lancees + 1
  /\ transactions' = [e \in EtatsOidc |->
       IF e = lancees + 1 THEN heure + DureeTransaction
       ELSE IF transactions[e] > heure THEN transactions[e] ELSE 0]
  /\ SansMutation /\ UNCHANGED <<profil, heure, arrets, echecs, demande, phase, recue, avant>>

\* FluxOidc::rappel: the transaction is used once, whatever follows.
Consommer(r) ==
  LET e == demande[r].etat IN
    /\ Genre(r) = "rappel" /\ phase[r] = "recue"
    /\ Aller(r, IF transactions[e] > recue[r] THEN "echange" ELSE "erreur")
    /\ transactions' = [transactions EXCEPT ![e] = 0]
    /\ SansMutation /\ UNCHANGED horlogeC /\ UNCHANGED <<echecs, demande, recue, avant>>

\* echanger_code and valider: the provider answers with valid claims, or not; then
\* oidc_account.
Echanger(r, valides) ==
  /\ phase[r] = "echange"
  /\ Aller(r, IF ~valides THEN "erreur"
              ELSE IF memoire.liens[demande[r].sujet] = Inconnu THEN "lie" ELSE "federe")
  /\ SansMutation /\ UNCHANGED horlogeC
  /\ UNCHANGED <<echecs, transactions, demande, recue, avant>>

\* Mutated form of Lier: a link made meanwhile is replaced.
LierToujours(r, reussi) ==
  /\ phase[r] = "lie"
  /\ Persister([memoire EXCEPT !.liens[demande[r].sujet] = Compte(r)], reussi)
  /\ Aller(r, IF reussi THEN "federe" ELSE "erreur")
  /\ UNCHANGED horlogeC /\ UNCHANGED <<echecs, transactions, demande, recue, avant>>

\* link_oidc.
Lier(r, reussi) ==
  LET lien == memoire.liens[demande[r].sujet]
      ecrit == lien = Inconnu /\ Compte(r) \in memoire.comptes /\ reussi IN
    /\ phase[r] = "lie"
    /\ Persister([memoire EXCEPT !.liens[demande[r].sujet] = Compte(r)], ecrit)
    /\ Aller(r, IF ecrit \/ lien = Compte(r) THEN "federe" ELSE "erreur")
    /\ UNCHANGED horlogeC /\ UNCHANGED <<echecs, transactions, demande, recue, avant>>

\* login_oidc: the account of the subject; its second factor is not asked for.
ConnecterFedere(r) ==
  LET lien == memoire.liens[demande[r].sujet] IN
    /\ phase[r] = "federe"
    /\ demande' = [demande EXCEPT ![r].compte = lien]
    /\ Aller(r, "ouvre")
    /\ SansMutation /\ UNCHANGED horlogeC /\ UNCHANGED <<echecs, transactions, recue, avant>>

-----------------------------------------------------------------------------
\* The clock, when something depends on it.  A request lasts less than a tick: verifying a
\* password takes a moment, a block five minutes.
PasserHeure ==
  /\ heure < MaxHeure
  /\ \/ \E c \in Emails : echecs[c] # AucunEchec
     \/ \E e \in EtatsOidc : transactions[e] # 0
  /\ \A r \in Demandes : phase[r] \in Fini \/ recue[r] = heure
  /\ heure' = heure + 1
  /\ SansMutation
  /\ UNCHANGED <<profil, lancees, arrets, echecs, transactions, demande, phase, recue, avant>>

\* The service stops and starts again from the database (Etat::depuis_durable).
RedemarrerService ==
  /\ arrets < MaxRedemarrages
  /\ arrets' = arrets + 1
  /\ memoire' = base
  /\ echecs' = [c \in Emails |-> AucunEchec]
  /\ transactions' = [e \in EtatsOidc |-> 0]
  /\ phase' = [r \in Demandes |-> IF phase[r] \in Fini THEN phase[r] ELSE "morte"]
  /\ UNCHANGED <<profil, heure, lancees, base, demande, recue, avant>>

PasDemande(r) ==
  \/ \E reussi \in BOOLEAN :
       Inscrire_(r, reussi) \/ Activer(r, reussi) \/ Echanger(r, reussi) \/ Lier(r, reussi)
  \/ ExaminerBlocage(r) \/ VerifierIdentifiants(r) \/ Consigner(r) \/ LireSecret(r)
  \/ Effacer(r) \/ OuvrirSession(r) \/ Repondre_(r) \/ Consommer(r) \/ ConnecterFedere(r)

NextC ==
  /\ banc = "comptes"
  /\ \/ \E r \in Demandes :
          \/ PasDemande(r)
          \/ \E f \in Formes : f.genre \in profil.genres /\ Accepter_(r, f)
     \/ DemarrerOidc \/ PasserHeure \/ RedemarrerService
  /\ UNCHANGED bancs

TypeC ==
  /\ profil \in Profils /\ heure \in 1..(MaxHeure + 1)
  /\ \A etat \in {memoire, base} :
       /\ etat.comptes \subseteq Emails
       /\ etat.secrets \in [Emails -> {0} \cup Demandes]
       /\ etat.liens \in [Sujets -> Emails \cup {Inconnu}]
  /\ lancees \in 0..MaxTransactions
  /\ phase \in [Demandes -> Fini \cup {"recue", "verifie", "identifiee", "ratee", "efface",
                                       "ouvre", "active", "repond", "echange", "lie", "federe"}]

-----------------------------------------------------------------------------
(***************************************************************************)
(* Whatever requests run together, writes fail or stops occur: once an     *)
(* activation of the second factor has been answered, no login received    *)
(* later opens a session by the password alone, and no activation received *)
(* later replaces the secret (login, activer_2fa_reseau, enable_2fa); and  *)
(* the sessions of one subject of the provider are all of one account, at  *)
(* most one for each authorisation (FluxOidc::rappel, link_oidc).          *)
(***************************************************************************)
SessionsFondees ==
  /\ \A r \in Demandes :
       \/ Genre(r) = "connexion" /\ phase[r] = "ouverte"
       \/ Genre(r) = "activation" /\ phase[r] = "acquittee"
       => avant[r] = {}
  /\ \A q, r \in Demandes :
       /\ Genre(q) = "rappel" /\ Genre(r) = "rappel" /\ q # r
       /\ phase[q] = "ouverte" /\ phase[r] = "ouverte"
       => /\ demande[q].etat # demande[r].etat
          /\ demande[q].sujet = demande[r].sujet => Compte(q) = Compte(r)

(***************************************************************************)
(* An e-mail never has more failed attempts in a row than the threshold    *)
(* and the requests that had passed the check of the block, which is read  *)
(* and written under different locks (connexion_bloquee, then              *)
(* consigner_echec_connexion): a block that is set stops the next ones.    *)
(***************************************************************************)
EchecsBornes == \A c \in Emails : echecs[c].n <= Seuil + MaxSimultanees - 1

=============================================================================
