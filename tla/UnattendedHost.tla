--------------------------- MODULE UnattendedHost ---------------------------
(***************************************************************************)
(* The unattended host of nd-core (UnattendedHost, Service::boucle_attente *)
(* and vivre_epoque_hote_avec_admission): a service thread that waits for  *)
(* callers, one at a time, decides inside the encrypted channel whether to *)
(* serve them, streams, and waits again.  The callers are controllers by   *)
(* rendezvous (SessionEngine): they come back when their link is lost and  *)
(* send their proof again at each connection.                              *)
(***************************************************************************)
EXTENDS Invitations

CONSTANTS
  Appelants,      \* the NovaDesk identifiers that may call
  Personne,       \* no caller
  Confiance,      \* trusted devices (est_de_confiance)
  Preuve,         \* what each caller sends after the handshake
  Menteurs,       \* callers that declare another identifier than the punch's
  MaxConnexions,  \* bound: callers the host lets in
  MaxHeure        \* bound: the clock stops here

Preuves == {"rien", "illisible", "nom", "mdp", "mdpFaux"} \cup Codes

ASSUME AppelantsAssumption ==
  Personne \notin Appelants /\ Confiance \subseteq Appelants /\ Menteurs \subseteq Appelants
ASSUME PreuvesAssumption ==
  /\ Codes \cap {"rien", "illisible", "nom", "mdp", "mdpFaux"} = {}
  /\ Preuve \in [Appelants -> Preuves]
ASSUME BornesAssumption == MaxConnexions \in Nat /\ MaxHeure \in Nat

VARIABLES
  admission,    \* started with admission control, or with the accept hook only
  publie,       \* history: the identifier has been registered once
  heure,        \* the clock the invitations are compared with
  magasin,      \* the invitation store of the application
  emis,         \* codes issued so far (drawn at random, never twice)
  uniques,      \* history: those of them issued for one session
  pc,           \* where the service thread is
  appelant,     \* the caller being served
  lien,         \* the connection of the current epoch
  recue,        \* what the caller sent has reached the host
  arret,        \* arret_epoque of the epoch's guard
  stop,         \* the stop signal of the service
  profil,       \* permissions of the epoch: those of the service or of an invitation
  resultat,     \* the Result of the epoch's body
  servies,      \* sessions_servies
  refuses,      \* pairs_refuses
  erreur,       \* derniere_erreur has been written
  motif,        \* history: why the current caller was admitted
  parCode,      \* history: sessions opened by each code
  connexions,   \* history: callers the host let in or turned away
  perdues       \* history: callers lost before any decision

temps   == <<heure, magasin, emis, uniques>>
session == <<appelant, lien, recue, arret, profil, resultat, motif>>
comptes == <<servies, refuses, erreur, parCode, connexions, perdues>>
service == <<admission, publie>>
vars == <<service, temps, pc, session, stop, comptes>>

TypeOK ==
  /\ admission \in BOOLEAN /\ publie \in BOOLEAN
  /\ heure \in 0..MaxHeure
  /\ magasin \in Magasins /\ emis \subseteq Codes /\ uniques \subseteq emis
  /\ pc \in {"publier", "attente", "accepter", "poignee", "demande", "dialogue", "media",
             "conclure", "arrete"}
  /\ appelant \in IF pc \in {"publier", "attente", "arrete"} THEN {Personne} ELSE Appelants
  /\ lien \in {"absent", "ouvert", "ferme"}
  /\ recue \in BOOLEAN /\ arret \in BOOLEAN /\ stop \in BOOLEAN /\ erreur \in BOOLEAN
  /\ profil \in {"service", "invitation"}
  /\ resultat \in {"aucun", "Ok", "Err"}
  /\ motif \in {"aucun", "confiance", "mdp", "code", "accord"}
  /\ servies \in Nat /\ refuses \in Nat /\ connexions \in Nat /\ perdues \in Nat
  /\ parCode \in [Codes -> Nat]

Init ==
  /\ admission \in BOOLEAN /\ publie = FALSE
  /\ heure = 0 /\ magasin = Vide /\ emis = {} /\ uniques = {}
  /\ pc = "publier" /\ appelant = Personne /\ lien = "absent"
  /\ recue = FALSE /\ arret = FALSE /\ stop = FALSE
  /\ profil = "service" /\ resultat = "aucun" /\ motif = "aucun"
  /\ servies = 0 /\ refuses = 0 /\ erreur = FALSE
  /\ parCode = [c \in Codes |-> 0]
  /\ connexions = 0 /\ perdues = 0

-----------------------------------------------------------------------------
(***************************************************************************)
(* boucle_attente and accepter_par_rendezvous: read the stop, register the *)
(* identifier, wait for a caller until the window expires.                 *)
(***************************************************************************)
Publier ==
  /\ pc = "publier" /\ ~stop
  /\ publie' = TRUE
  /\ pc' = "attente"
  /\ UNCHANGED <<admission, temps, session, stop, comptes>>

\* The rendezvous cannot be reached: the error is noted and the loop goes round.
EchouerPublication ==
  /\ pc = "publier" /\ ~stop
  /\ erreur' = TRUE
  /\ UNCHANGED <<service, temps, pc, session, stop, servies, refuses, parCode, connexions,
                 perdues>>

\* The window expires without a caller: nothing is noted.
ExpirerFenetre ==
  /\ pc = "attente" /\ ~stop
  /\ pc' = "publier"
  /\ UNCHANGED <<service, temps, session, stop, comptes>>

\* The heartbeat and the registration that replaces it fail, or the stop is seen
\* inside the window: both are noted as errors.
QuitterAttente ==
  /\ pc = "attente"
  /\ erreur' = TRUE
  /\ pc' = "publier"
  /\ UNCHANGED <<service, temps, session, stop, servies, refuses, parCode, connexions,
                 perdues>>

\* A caller's punch (the filter of the admission mode lets everybody in).
Entrer(a) ==
  /\ pc = "attente"
  /\ connexions < MaxConnexions
  /\ appelant' = a
  /\ pc' = "accepter"
  /\ UNCHANGED <<service, temps, lien, recue, arret, profil, resultat, motif, stop, comptes>>

\* The historical mode asks the accept hook before any QUIC: a refused caller is
\* counted and the wait goes on.
RefuserAuPunch(a) ==
  /\ pc = "attente" /\ ~admission
  /\ connexions < MaxConnexions
  /\ refuses' = refuses + 1
  /\ connexions' = connexions + 1
  /\ UNCHANGED <<service, temps, pc, session, stop, servies, erreur, parCode, perdues>>

\* accept_quic_over_socket succeeds and the guard of the epoch is armed; the
\* historical mode counts the session right away.
AccepterQuic ==
  /\ pc = "accepter"
  /\ lien' = "ouvert" /\ arret' = FALSE /\ recue' = FALSE
  /\ profil' = "service"
  /\ connexions' = connexions + 1
  /\ servies' = IF admission THEN servies ELSE servies + 1
  /\ motif' = IF admission THEN "aucun" ELSE "accord"
  /\ pc' = "poignee"
  /\ UNCHANGED <<service, temps, appelant, resultat, stop, refuses, erreur, parCode, perdues>>

\* The connection of the caller fails: the error is noted, the wait goes on.
EchouerAccept ==
  /\ pc = "accepter"
  /\ erreur' = TRUE
  /\ appelant' = Personne
  /\ pc' = "publier"
  /\ UNCHANGED <<service, temps, lien, recue, arret, profil, resultat, motif, stop, servies,
                 refuses, parCode, connexions, perdues>>

-----------------------------------------------------------------------------
(***************************************************************************)
(* negocier_admission_hote and decider_selon_preuve.                       *)
(***************************************************************************)

\* The caller is admitted for the given reason and the media start.
Admettre(raison) ==
  /\ motif' = raison
  /\ servies' = servies + 1
  /\ profil' = IF raison = "code" THEN "invitation" ELSE profil
  /\ pc' = "media"
  /\ UNCHANGED <<resultat, refuses, perdues>>

\* The caller is refused: the transport is dropped, the epoch is Ok(()).
Refuser ==
  /\ refuses' = refuses + 1
  /\ resultat' = "Ok"
  /\ pc' = "conclure"
  /\ UNCHANGED <<motif, servies, profil, perdues>>

\* The handshake fails: in admission mode the caller was neither served nor refused.
EchouerPoignee ==
  /\ pc = "poignee"
  /\ resultat' = "Err"
  /\ perdues' = IF admission THEN perdues + 1 ELSE perdues
  /\ pc' = "conclure"
  /\ UNCHANGED <<service, temps, appelant, lien, recue, arret, profil, motif, stop, servies,
                 refuses, erreur, parCode, connexions>>

\* The handshake succeeds: a trusted device needs nothing else.
ReussirPoignee ==
  /\ pc = "poignee"
  /\ IF admission /\ appelant \in Confiance
     THEN Admettre("confiance")
     ELSE /\ pc' = IF admission THEN "demande" ELSE "media"
          /\ UNCHANGED <<motif, servies, profil, resultat, refuses, perdues>>
  /\ UNCHANGED <<service, temps, appelant, lien, recue, arret, stop, erreur, parCode, connexions>>

\* What the caller sent arrives on the Control channel.
Arriver ==
  /\ lien = "ouvert"
  /\ pc \in {"demande", "dialogue", "media"}
  /\ ~recue /\ Preuve[appelant] # "rien"
  /\ recue' = TRUE
  /\ UNCHANGED <<service, temps, pc, appelant, lien, arret, profil, resultat, motif, stop, comptes>>

\* Mutated form of Coherent: the declared identifier is not compared.
CoherentToujours == TRUE

\* The proof is bound to the identity of the punch.
Coherent == appelant \notin Menteurs

\* The password decides alone.
DeciderMotDePasse ==
  /\ Preuve[appelant] \in {"mdp", "mdpFaux"}
  /\ IF Coherent /\ Preuve[appelant] = "mdp" THEN Admettre("mdp") ELSE Refuser
  /\ UNCHANGED <<magasin, parCode>>

\* Mutated form of DeciderInvitation: the store is asked before the identity is
\* compared, so that a suspicious message burns the code.
DeciderInvitationAvantIdentite ==
  LET c == Preuve[appelant] IN
  /\ c \in Codes
  /\ magasin' = Redeem(magasin, c, heure)
  /\ IF Coherent /\ RedeemResult(magasin, c, heure) = "Valid"
     THEN Admettre("code") /\ parCode' = [parCode EXCEPT ![c] = @ + 1]
     ELSE Refuser /\ UNCHANGED parCode

\* A valid invitation is consumed; an invalid one is refused, without a dialogue.
DeciderInvitation ==
  LET c == Preuve[appelant] IN
  /\ c \in Codes
  /\ IF Coherent /\ RedeemResult(magasin, c, heure) = "Valid"
     THEN /\ Admettre("code")
          /\ magasin' = Redeem(magasin, c, heure)
          /\ parCode' = [parCode EXCEPT ![c] = @ + 1]
     ELSE Refuser /\ UNCHANGED <<magasin, parCode>>

\* No usable proof: the dialogue of the user decides.
SansPreuve ==
  /\ Preuve[appelant] \in {"illisible", "nom"}
  /\ pc' = "dialogue"
  /\ UNCHANGED <<magasin, parCode, motif, servies, profil, resultat, refuses, perdues>>

LireDemande ==
  /\ pc = "demande" /\ ~arret
  /\ recue
  /\ DeciderMotDePasse \/ DeciderInvitation \/ SansPreuve
  /\ UNCHANGED <<service, heure, emis, uniques, appelant, lien, recue, arret, stop, erreur,
                 connexions>>

\* DELAI_DEMANDE_ADMISSION expires: the caller is deemed without proof, even if
\* its message arrives a moment later.
ExpirerDemande ==
  /\ pc = "demande"
  /\ pc' = "dialogue"
  /\ UNCHANGED <<service, temps, session, stop, comptes>>

\* Mutated form of Interrompre: an interrupted caller is counted as refused too.
InterrompreRefuse ==
  /\ pc = "demande"
  /\ arret \/ lien = "ferme"
  /\ resultat' = "Ok"
  /\ perdues' = perdues + 1
  /\ refuses' = refuses + 1
  /\ pc' = "conclure"
  /\ UNCHANGED <<service, temps, appelant, lien, recue, arret, profil, motif, stop, servies,
                 erreur, parCode, connexions>>

\* The link is lost or the service stops during the wait: nothing is counted.
Interrompre ==
  /\ pc = "demande"
  /\ arret \/ lien = "ferme"
  /\ resultat' = "Ok"
  /\ perdues' = perdues + 1
  /\ pc' = "conclure"
  /\ UNCHANGED <<service, temps, appelant, lien, recue, arret, profil, motif, stop, servies,
                 refuses, erreur, parCode, connexions>>

\* The user answers, or the dialogue expires in a refusal; it watches neither the
\* link nor the stop.
Repondre(accord) ==
  /\ pc = "dialogue"
  /\ IF accord THEN Admettre("accord") ELSE Refuser
  /\ UNCHANGED <<service, temps, appelant, lien, recue, arret, stop, erreur, parCode, connexions>>

-----------------------------------------------------------------------------
(***************************************************************************)
(* The media of an admitted caller, and the end of the epoch.              *)
(***************************************************************************)

\* Mutated form of FinirMedia: the streaming loop watches the stop of the service
\* instead of the flag of the epoch, and never tries to send.
FinirMediaSurStop(r) ==
  /\ pc = "media"
  /\ r = "Ok" => stop
  /\ resultat' = r
  /\ pc' = "conclure"
  /\ UNCHANGED <<service, temps, appelant, lien, recue, arret, profil, motif, stop, comptes>>

\* executer_hote returns: it saw arret_epoque, a send was refused, or the
\* capturer (a factory of nd-service), the encoder... failed.
FinirMedia(r) ==
  /\ pc = "media"
  /\ r = "Ok" => arret \/ lien = "ferme"
  /\ resultat' = r
  /\ pc' = "conclure"
  /\ UNCHANGED <<service, temps, appelant, lien, recue, arret, profil, motif, stop, comptes>>

\* Mutated form of Conclure: sessions_servies taken for the sessions in progress.
ConclureDecompte(coupe) ==
  /\ pc = "conclure"
  /\ erreur' = (erreur \/ (resultat = "Err" /\ ~(coupe /\ ~stop)))
  /\ servies' = servies - 1
  /\ appelant' = Personne /\ lien' = "absent" /\ recue' = FALSE
  /\ motif' = "aucun" /\ resultat' = "aucun"
  /\ pc' = "publier"
  /\ UNCHANGED <<service, temps, arret, profil, stop, refuses, parCode, connexions,
                 perdues>>

\* GardeEpoque::conclure: an error is reported unless the link is seen cut without
\* a stop; whether it is seen cut is the race SessionEngine models in detail.
Conclure(coupe) ==
  /\ pc = "conclure"
  /\ erreur' = (erreur \/ (resultat = "Err" /\ ~(coupe /\ ~stop)))
  /\ appelant' = Personne /\ lien' = "absent" /\ recue' = FALSE
  /\ motif' = "aucun" /\ resultat' = "aucun"
  /\ pc' = "publier"
  /\ UNCHANGED <<service, temps, arret, profil, stop, servies, refuses, parCode, connexions,
                 perdues>>

\* The service leaves its loop when it is asked to.
Arreter ==
  /\ pc = "publier" /\ stop
  /\ pc' = "arrete"
  /\ UNCHANGED <<service, temps, session, stop, comptes>>

-----------------------------------------------------------------------------
(***************************************************************************)
(* The guard's bridge, the network, the owner of the handle, the           *)
(* application that issues invitations, the clock.                         *)
(***************************************************************************)

\* Mutated form of Pont: the bridge does not watch the stop.
PontSansStop ==
  /\ lien # "absent" /\ ~arret
  /\ lien = "ferme"
  /\ arret' = TRUE
  /\ UNCHANGED <<service, temps, pc, appelant, lien, recue, profil, resultat, motif, stop, comptes>>

\* GardeEpoque's bridge raises arret_epoque when the service stops or the link is lost.
Pont ==
  /\ lien # "absent" /\ ~arret
  /\ stop \/ lien = "ferme"
  /\ arret' = TRUE
  /\ UNCHANGED <<service, temps, pc, appelant, lien, recue, profil, resultat, motif, stop, comptes>>

\* The caller leaves, or its link dies.
Fermer ==
  /\ lien = "ouvert"
  /\ lien' = "ferme"
  /\ UNCHANGED <<service, temps, pc, appelant, recue, arret, profil, resultat, motif, stop, comptes>>

\* The Disconnect hotkey of the host ends the epoch, not the service.
RaccourciDeconnexion ==
  /\ pc = "media" /\ ~arret
  /\ arret' = TRUE
  /\ UNCHANGED <<service, temps, pc, appelant, lien, recue, profil, resultat, motif, stop, comptes>>

\* UnattendedHostHandle::stop, or the handle is dropped.
DemanderArret ==
  /\ ~stop
  /\ stop' = TRUE
  /\ UNCHANGED <<service, temps, pc, session, comptes>>

\* The application issues an invitation (InviteStore::issue draws the code).
Emettre(c, ttl, unique) ==
  /\ c \notin emis
  /\ emis' = emis \cup {c}
  /\ uniques' = IF unique THEN uniques \cup {c} ELSE uniques
  /\ magasin' = Register(magasin, c, heure + ttl, unique)
  /\ UNCHANGED <<service, heure, pc, session, stop, comptes>>

\* The application purges its store.
Purger ==
  /\ PurgeExpired(magasin, heure) # magasin
  /\ magasin' = PurgeExpired(magasin, heure)
  /\ UNCHANGED <<service, heure, emis, uniques, pc, session, stop, comptes>>

Avancer ==
  /\ heure < MaxHeure
  /\ heure' = heure + 1
  /\ UNCHANGED <<service, magasin, emis, uniques, pc, session, stop, comptes>>

-----------------------------------------------------------------------------
Service ==
  \/ Publier \/ EchouerPublication \/ ExpirerFenetre \/ QuitterAttente
  \/ \E a \in Appelants : Entrer(a) \/ RefuserAuPunch(a)
  \/ AccepterQuic \/ EchouerAccept
  \/ EchouerPoignee \/ ReussirPoignee
  \/ LireDemande \/ ExpirerDemande \/ Interrompre
  \/ \E accord \in BOOLEAN : Repondre(accord)
  \/ \E r \in {"Ok", "Err"} : FinirMedia(r)
  \/ \E coupe \in BOOLEAN : Conclure(coupe)
  \/ Arreter

Monde ==
  \/ Arriver \/ Pont \/ Fermer \/ RaccourciDeconnexion \/ DemanderArret
  \/ \E c \in Codes, ttl \in 1..2, unique \in BOOLEAN : Emettre(c, ttl, unique)
  \/ Purger \/ Avancer

Termine == pc = "arrete" /\ UNCHANGED vars

Next == Service \/ Monde \/ Termine

(***************************************************************************)
(* Fairness: the threads run, the handshake and the admission window are   *)
(* bounded, the application's dialogue expires in a refusal.  Nothing      *)
(* bounds accept_quic_over_socket.                                         *)
(***************************************************************************)
Fairness ==
  /\ WF_vars(pc = "poignee" /\ (EchouerPoignee \/ ReussirPoignee))
  /\ WF_vars(ExpirerDemande) /\ WF_vars(Repondre(FALSE))
  /\ WF_vars(FinirMedia("Ok"))
  /\ WF_vars(\E coupe \in BOOLEAN : Conclure(coupe))
  /\ WF_vars(stop /\ QuitterAttente) /\ WF_vars(Arreter) /\ WF_vars(Pont)

Spec == Init /\ [][Next]_vars /\ Fairness

-----------------------------------------------------------------------------
(***************************************************************************)
(* Properties.                                                             *)
(***************************************************************************)

DroitProuve ==
  pc = "media" =>
    \/ motif = "confiance" /\ appelant \in Confiance
    \/ motif = "mdp" /\ Preuve[appelant] = "mdp" /\ appelant \notin Menteurs
    \/ motif = "code" /\ appelant \notin Menteurs /\ parCode[Preuve[appelant]] > 0
    \/ motif = "accord"

ProfilLocal ==
  pc = "media" => (profil = "invitation" <=> motif = "code")

\* Media flow only to a caller that proved its right: a trusted device, the
\* password from the identity of the punch, an invitation that was valid, or the
\* consent of the user; and the profile of an invitation never reaches the session
\* of somebody else (negocier_admission_hote, in both modes).
AdmissionFondee == DroitProuve /\ ProfilLocal

\* An invitation for one session opens one session at most, however often its code
\* comes back and whatever is purged in between.
UsageUnique == \A c \in uniques : parCode[c] <= 1

\* A code is never burnt for nothing: one that is consumed has opened a session.
CodeNonBrule ==
  \A c \in Codes : magasin[c] # Absente /\ magasin[c].used => parCode[c] > 0

\* Every caller is counted once: served, refused, or lost before any decision.
ComptesJustes ==
  pc \in {"publier", "attente", "accepter", "media", "conclure", "arrete"} =>
    connexions = servies + refuses + perdues

\* The service ends when it is asked to, whatever its caller does, unless
\* accept_quic_over_socket waits for ever.
ArretHonore ==
  []<>(pc # "accepter") => (stop ~> pc = "arrete")

\* The service always comes back to its wait: whatever the caller, its link and
\* its proof do, an epoch whose link is lost ends.
RetourAttente ==
  lien = "ferme" ~> pc \in {"publier", "arrete"}

=============================================================================
