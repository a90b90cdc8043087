---------------------------- MODULE SessionEngine ----------------------------
(***************************************************************************)
(* One session of nd-core from SessionEngine::start to Closed: the pilot   *)
(* thread, the guard of the current epoch (its bridge thread and the       *)
(* disconnection callback of the QUIC connection), the epoch's auxiliary   *)
(* thread (input sender of a controller, input injector of a host), the    *)
(* application that may ask for the stop at any moment, and the network.   *)
(*                                                                         *)
(* An epoch is one connection lived from end to end.  Its flags lien_coupe *)
(* and arret_epoque are allocated afresh by GardeEpoque::armer, so a late  *)
(* callback of an earlier epoch writes a flag nobody reads any more: only  *)
(* the callback of the current epoch is modelled.                          *)
(***************************************************************************)
EXTENDS ReconnectController

CONSTANTS
  Pairs,        \* NovaDesk identifiers
  Aucun,        \* no identifier
  Politiques,   \* the values of max_attempts considered
  MaxEpoques    \* bound: connections a session may live

ASSUME PairsAssumption == Pairs # {} /\ Aucun \notin Pairs
ASSUME PolitiquesAssumption == Politiques \subseteq (Nat \cup {Illimite})
ASSUME MaxEpoquesAssumption == MaxEpoques \in Nat \ {0}

VARIABLES
  role,         \* SessionRole: "Controller" or "Controlled"
  contact,      \* SessionEndpoint: "Loopback", "Direct" or "ByRendezvous"
  impose,       \* config.peer_id
  max,          \* max_attempts of options.reconnect
  pc,           \* where the pilot thread is
  etat,         \* the last SessionState pushed
  stop,         \* the stop signal of the session
  demande,      \* history: the application or a host hotkey asked for the stop
  epoqueArret,  \* history: the epoch at the time of that request
  appelant,     \* the peer found by the rendezvous, not connected yet
  pair,         \* the peer of the session
  lien,         \* the QUIC connection of the epoch
  rappel,       \* the task spawned by QuicTransport::on_disconnect
  coupe,        \* GardeEpoque.lien_coupe
  arret,        \* GardeEpoque.arret_epoque
  pont,         \* the thread nd-session-garde
  aux,          \* the auxiliary thread of the epoch
  touche,       \* a key injected by the host is held down
  resultat,     \* the Result of the epoch's body
  cause,        \* history: the link at the time of that error
  lu,           \* arret_global as read by conclure
  rc,           \* the ReconnectController of the outage
  tentatives,   \* history: attempts started in the outage
  epoque,       \* connections lived
  erreur        \* an error has been noted in the statistics

config   == <<role, contact, impose, max>>
arrets   == <<stop, demande, epoqueArret>>
garde    == <<coupe, arret, pont, rappel>>
media    == <<aux, touche>>
issue    == <<resultat, cause, lu>>
reprise  == <<rc, tentatives>>
identite == <<appelant, pair>>
vars == <<config, pc, etat, arrets, identite, lien, garde, media, issue,
          reprise, epoque, erreur>>

Etablissement == {"chercher", "connecterQuic", "accepterQuic"}
CorpsEpoque   == {"poignee", "preparer", "media", "joindre", "attendreAux", "lacher"}
Conclusion    == {"conclure", "joindrePont", "lireStop", "lireCoupe"}
Points == {"debut", "resolution", "armer", "reconnecter", "boucle", "attente",
           "fin", "cloture", "termine"} \cup Etablissement \cup CorpsEpoque \cup Conclusion

SessionState == {"Idle", "Resolving", "Connecting", "Handshaking", "Active",
                 "Reconnecting", "Closed"}

TypeOK ==
  /\ role \in {"Controller", "Controlled"}
  /\ contact \in {"Loopback", "Direct", "ByRendezvous"}
  /\ impose \in Pairs \cup {Aucun}
  /\ max \in Politiques
  /\ pc \in Points
  /\ etat \in SessionState
  /\ stop \in BOOLEAN /\ demande \in BOOLEAN
  /\ epoqueArret \in Nat
  /\ appelant \in Pairs \cup {Aucun} /\ pair \in Pairs \cup {Aucun}
  /\ lien \in {"absent", "ouvert", "muet", "ferme"}
  /\ rappel \in {"absent", "arme", "tire"}
  /\ coupe \in BOOLEAN /\ arret \in BOOLEAN
  /\ pont \in {"absent", "court", "fini"}
  /\ aux \in {"absent", "court", "fini"}
  /\ touche \in BOOLEAN
  /\ resultat \in {"aucun", "Ok", "Err"}
  /\ cause \in {"aucune", "lienVif", "lienMort"}
  /\ lu \in BOOLEAN
  /\ rc \in Controleur
  /\ tentatives \in Nat
  /\ epoque \in Nat
  /\ erreur \in BOOLEAN

-----------------------------------------------------------------------------
(***************************************************************************)
(* SessionEngine::start refuses a controller by rendezvous without peer.   *)
(***************************************************************************)
Init ==
  /\ role \in {"Controller", "Controlled"}
  /\ contact \in {"Loopback", "Direct", "ByRendezvous"}
  /\ impose \in Pairs \cup {Aucun}
  /\ ~(role = "Controller" /\ contact = "ByRendezvous" /\ impose = Aucun)
  /\ max \in Politiques
  /\ pc = "debut" /\ etat = "Idle"
  /\ stop = FALSE /\ demande = FALSE /\ epoqueArret = 0
  /\ appelant = Aucun /\ pair = Aucun
  /\ lien = "absent" /\ rappel = "absent"
  /\ coupe = FALSE /\ arret = FALSE
  /\ pont = "absent" /\ aux = "absent" /\ touche = FALSE
  /\ resultat = "aucun" /\ cause = "aucune" /\ lu = FALSE
  /\ rc = Nouveau /\ tentatives = 0
  /\ epoque = 0 /\ erreur = FALSE

-----------------------------------------------------------------------------
(***************************************************************************)
(* Establishment.                                                          *)
(***************************************************************************)

\* derouler_session announces Resolving ...
Resoudre ==
  /\ pc = "debut"
  /\ etat' = "Resolving"
  /\ pc' = "resolution"
  /\ UNCHANGED <<config, arrets, identite, lien, garde, media, issue, reprise, epoque, erreur>>

\* ... then Connecting, and waits in the way its endpoint waits.  The option
\* transport_reconnect of a direct controller lives in the transport, elsewhere.
Connecter ==
  /\ pc = "resolution"
  /\ etat' = "Connecting"
  /\ pc' = CASE contact = "Loopback"     -> "accepterQuic"
             [] contact = "Direct"       -> "connecterQuic"
             [] contact = "ByRendezvous" -> "chercher"
  /\ UNCHANGED <<config, arrets, identite, lien, garde, media, issue, reprise, epoque, erreur>>

\* Mutated form of Admis: a reconnection admits whoever was admitted at first.
AdmisSansMemePair(p) == impose \in {Aucun, p}

(***************************************************************************)
(* The peers a session accepts: a controller calls the configured peer; a  *)
(* host admits the configured peer, or anyone at first when there is none, *)
(* and on a reconnection the peer of its last epoch only.                  *)
(***************************************************************************)
Admis(p) ==
  IF role = "Controlled" /\ epoque > 0 THEN p = pair
  ELSE impose \in {Aucun, p}

\* A path to the peer is found (punch or relay) and QUIC is about to be tried.
TrouverChemin(p) ==
  /\ pc = "chercher"
  /\ Admis(p)
  /\ appelant' = p
  /\ pc' = IF role = "Controller" THEN "connecterQuic" ELSE "accepterQuic"
  /\ UNCHANGED <<config, etat, arrets, pair, lien, garde, media, issue, reprise, epoque, erreur>>

\* The QUIC connection is up: a first epoch, or a reconnection that succeeded.
\* A peer reached by its address is the configured one, or nobody in particular.
EtablirQuic ==
  /\ pc \in {"connecterQuic", "accepterQuic"}
  /\ epoque < MaxEpoques
  /\ lien' = "ouvert"
  /\ pair' = IF contact = "ByRendezvous" THEN appelant ELSE impose
  /\ appelant' = Aucun
  /\ epoque' = epoque + 1
  /\ rc' = Reset(rc)
  /\ pc' = "armer"
  /\ UNCHANGED <<config, etat, arrets, garde, media, issue, tentatives, erreur>>

(***************************************************************************)
(* The establishment failed (deadline, refusal, stop seen by the loop).    *)
(* The first one ends the session, cleanly when the stop is the reason; a  *)
(* failed reconnection attempt returns to the reconnection loop.           *)
(***************************************************************************)
EchouerEtablissement ==
  /\ pc \in Etablissement
  /\ appelant' = Aucun
  /\ IF epoque = 0
     THEN /\ erreur' = (contact # "ByRendezvous" \/ ~stop)
          /\ pc' = "fin"
     ELSE /\ pc' = "boucle"
          /\ UNCHANGED erreur
  /\ UNCHANGED <<config, etat, arrets, pair, lien, garde, media, issue, reprise, epoque>>

-----------------------------------------------------------------------------
(***************************************************************************)
(* The body of an epoch, seen from the pilot.                              *)
(***************************************************************************)

\* Mutated form of Armer: the stop is cleared together with the epoch's flags.
ArmerEffaceStop ==
  /\ pc = "armer"
  /\ coupe' = FALSE /\ arret' = FALSE
  /\ rappel' = "arme" /\ pont' = "court"
  /\ aux' = "absent"
  /\ resultat' = "aucun" /\ cause' = "aucune"
  /\ etat' = "Handshaking"
  /\ pc' = "poignee"
  /\ stop' = FALSE
  /\ UNCHANGED <<config, demande, epoqueArret, identite, lien, touche, lu, reprise, epoque, erreur>>

\* GardeEpoque::armer, then Handshaking is announced.
Armer ==
  /\ pc = "armer"
  /\ coupe' = FALSE /\ arret' = FALSE
  /\ rappel' = "arme" /\ pont' = "court"
  /\ aux' = "absent"
  /\ resultat' = "aucun" /\ cause' = "aucune"
  /\ etat' = "Handshaking"
  /\ pc' = "poignee"
  /\ UNCHANGED <<config, arrets, identite, lien, touche, lu, reprise, epoque, erreur>>

\* establish returned the encrypted transport (its messages may have been
\* received before the link died).
ReussirPoignee ==
  /\ pc = "poignee"
  /\ etat' = "Active"
  /\ pc' = "preparer"
  /\ UNCHANGED <<config, arrets, identite, lien, garde, media, issue, reprise, epoque, erreur>>

\* Decoder, or injector, capturer and encoder; the admission frame; the purge
\* of stale inputs; then the auxiliary thread starts.
Preparer ==
  /\ pc = "preparer"
  /\ aux' = "court"
  /\ pc' = "media"
  /\ UNCHANGED <<config, etat, arrets, identite, lien, garde, touche, issue, reprise, epoque, erreur>>

(***************************************************************************)
(* The body of the epoch fails with an error: handshake refused or timed   *)
(* out, missing encoder, capture failure, corrupt frame...  On a live link *)
(* it says something about this program or its peer; on a dead one it may  *)
(* be nothing but the death of the link made visible.                      *)
(***************************************************************************)
Echouer ==
  /\ pc \in {"poignee", "preparer", "media"}
  /\ resultat' = "Err"
  /\ cause' = IF lien = "ouvert" THEN "lienVif" ELSE "lienMort"
  /\ pc' = IF pc = "media" THEN "joindre" ELSE "lacher"
  /\ UNCHANGED <<config, etat, arrets, identite, lien, garde, media, lu, reprise, epoque, erreur>>

(***************************************************************************)
(* The media loop ends without an error: it saw arret_epoque, or the host  *)
(* was refused a send because the connection is closed, or the extended    *)
(* controller could not decrypt a frame.                                   *)
(***************************************************************************)
FinirMedia ==
  /\ pc = "media"
  /\ arret \/ lien = "ferme" \/ role = "Controller"
  /\ resultat' = "Ok"
  /\ pc' = "joindre"
  /\ UNCHANGED <<config, etat, arrets, identite, lien, garde, media, cause, lu, reprise, epoque, erreur>>

\* The pilot raises arret_epoque for the auxiliary thread ...
Joindre ==
  /\ pc = "joindre"
  /\ arret' = TRUE
  /\ pc' = "attendreAux"
  /\ UNCHANGED <<config, etat, arrets, identite, lien, coupe, pont, rappel, media, issue,
                 reprise, epoque, erreur>>

\* Mutated form of AttendreAux: the auxiliary thread is not joined.
AttendreAuxSansJoindre ==
  /\ pc = "attendreAux"
  /\ pc' = "lacher"
  /\ UNCHANGED <<config, etat, arrets, identite, lien, garde, media, issue, reprise, epoque, erreur>>

\* ... and joins it.
AttendreAux ==
  /\ pc = "attendreAux"
  /\ aux = "fini"
  /\ pc' = "lacher"
  /\ UNCHANGED <<config, etat, arrets, identite, lien, garde, media, issue, reprise, epoque, erreur>>

\* The body returns: the last owner of the transport is dropped, and
\* QuicTransport::drop closes the connection on this side.
Lacher ==
  /\ pc = "lacher"
  /\ lien' = "ferme"
  /\ pc' = "conclure"
  /\ UNCHANGED <<config, etat, arrets, identite, garde, media, issue, reprise, epoque, erreur>>

-----------------------------------------------------------------------------
(***************************************************************************)
(* GardeEpoque::conclure: end the bridge, read the two flags one after the *)
(* other, classify.                                                        *)
(***************************************************************************)
Conclure ==
  /\ pc = "conclure"
  /\ arret' = TRUE
  /\ pc' = "joindrePont"
  /\ UNCHANGED <<config, etat, arrets, identite, lien, coupe, pont, rappel, media, issue,
                 reprise, epoque, erreur>>

JoindrePont ==
  /\ pc = "joindrePont"
  /\ pont = "fini"
  /\ pc' = "lireStop"
  /\ UNCHANGED <<config, etat, arrets, identite, lien, garde, media, issue, reprise, epoque, erreur>>

LireStop ==
  /\ pc = "lireStop"
  /\ lu' = stop
  /\ pc' = "lireCoupe"
  /\ UNCHANGED <<config, etat, arrets, identite, lien, garde, media, resultat, cause,
                 reprise, epoque, erreur>>

\* FinEpoque, or the error that ends the session.
Classement ==
  CASE resultat = "Ok"  /\ lu                 -> "Arret"
    [] resultat = "Ok"  /\ ~lu                -> "LienPerdu"
    [] resultat = "Err" /\ coupe /\ ~lu       -> "LienPerdu"
    [] resultat = "Err" /\ ~(coupe /\ ~lu)    -> "Erreur"

\* A lost link is retried by rendezvous only; the other endpoints live one epoch.
Classer ==
  /\ pc = "lireCoupe"
  /\ erreur' = (Classement = "Erreur")
  /\ pc' = IF Classement = "LienPerdu" /\ contact = "ByRendezvous"
           THEN "reconnecter" ELSE "fin"
  /\ UNCHANGED <<config, etat, arrets, identite, lien, garde, media, issue, reprise, epoque>>

-----------------------------------------------------------------------------
(***************************************************************************)
(* se_reconnecter.                                                         *)
(***************************************************************************)
SeReconnecter ==
  /\ pc = "reconnecter"
  /\ etat' = "Reconnecting"
  /\ rc' = OnDisconnect(max, Nouveau)
  /\ tentatives' = 0
  /\ pc' = "boucle"
  /\ UNCHANGED <<config, arrets, identite, lien, garde, media, issue, epoque, erreur>>

\* The head of the loop: the stop, then the policy.
Boucler ==
  /\ pc = "boucle"
  /\ IF stop
     THEN /\ pc' = "fin"
          /\ UNCHANGED rc
     ELSE /\ rc' = NextDelay(max, rc)
          /\ pc' = IF DelaiRendu(max, rc) THEN "attente" ELSE "fin"
  /\ UNCHANGED <<config, etat, arrets, identite, lien, garde, media, issue, tentatives,
                 epoque, erreur>>

\* attendre_interruptible is over (delay or stop); the stop is read again.
Tenter ==
  /\ pc = "attente"
  /\ IF stop
     THEN /\ pc' = "fin"
          /\ UNCHANGED tentatives
     ELSE /\ pc' = "chercher"
          /\ tentatives' = Suivante(max, tentatives)
  /\ UNCHANGED <<config, etat, arrets, identite, lien, garde, media, issue, rc, epoque, erreur>>

\* executer_pilote: the error is noted, the stop raised for every thread ...
Finir ==
  /\ pc = "fin"
  /\ stop' = TRUE
  /\ pc' = "cloture"
  /\ UNCHANGED <<config, etat, demande, epoqueArret, identite, lien, garde, media, issue,
                 reprise, epoque, erreur>>

\* ... and Closed is pushed.
Clore ==
  /\ pc = "cloture"
  /\ etat' = "Closed"
  /\ pc' = "termine"
  /\ UNCHANGED <<config, arrets, identite, lien, garde, media, issue, reprise, epoque, erreur>>

-----------------------------------------------------------------------------
(***************************************************************************)
(* The other threads.                                                      *)
(***************************************************************************)

\* Mutated form of Pont: the bridge does not watch the stop of the session.
PontSansStop ==
  /\ pont = "court"
  /\ arret \/ coupe
  /\ pont' = "fini"
  /\ arret' = TRUE
  /\ UNCHANGED <<config, pc, etat, arrets, identite, lien, coupe, rappel, media, issue,
                 reprise, epoque, erreur>>

\* The bridge: arret_epoque, stop or lien_coupe ends it, and it raises arret_epoque.
Pont ==
  /\ pont = "court"
  /\ arret \/ stop \/ coupe
  /\ pont' = "fini"
  /\ arret' = TRUE
  /\ UNCHANGED <<config, pc, etat, arrets, identite, lien, coupe, rappel, media, issue,
                 reprise, epoque, erreur>>

\* Mutated form of Rappeler: the callback raises a flag nobody watches.
RappelerPerdu ==
  /\ rappel = "arme"
  /\ lien = "ferme"
  /\ rappel' = "tire"
  /\ UNCHANGED <<config, pc, etat, arrets, identite, lien, coupe, arret, pont, media, issue,
                 reprise, epoque, erreur>>

\* The callback task: Connection::closed resolved, by the peer, by the idle
\* timeout or by this side's own close.
Rappeler ==
  /\ rappel = "arme"
  /\ lien = "ferme"
  /\ coupe' = TRUE
  /\ rappel' = "tire"
  /\ UNCHANGED <<config, pc, etat, arrets, identite, lien, arret, pont, media, issue,
                 reprise, epoque, erreur>>

\* The host injects a press or a release.
Injecter ==
  /\ role = "Controlled"
  /\ aux = "court"
  /\ touche' = ~touche
  /\ UNCHANGED <<config, pc, etat, arrets, identite, lien, garde, aux, issue,
                 reprise, epoque, erreur>>

\* The Disconnect hotkey of the host ends the whole session.
RaccourciDeconnexion ==
  /\ role = "Controlled"
  /\ aux = "court"
  /\ stop' = TRUE
  /\ arret' = TRUE
  /\ demande' = TRUE
  /\ epoqueArret' = IF demande THEN epoqueArret ELSE epoque
  /\ UNCHANGED <<config, pc, etat, identite, lien, coupe, pont, rappel, media, issue,
                 reprise, epoque, erreur>>

\* The auxiliary thread leaves its loop; a host releases every injected key.
FinirAux ==
  /\ aux = "court"
  /\ aux' = "fini"
  /\ touche' = FALSE
  /\ UNCHANGED <<config, pc, etat, arrets, identite, lien, garde, issue,
                 reprise, epoque, erreur>>

-----------------------------------------------------------------------------
(***************************************************************************)
(* The application and the network.                                        *)
(***************************************************************************)

\* SessionHandle::stop, or the handle is dropped.
DemanderArret ==
  /\ ~demande
  /\ stop' = TRUE
  /\ demande' = TRUE
  /\ epoqueArret' = epoque
  /\ UNCHANGED <<config, pc, etat, identite, lien, garde, media, issue, reprise, epoque, erreur>>

\* The path dies or comes back, silently: no endpoint knows yet.
Couper ==
  /\ lien = "ouvert"
  /\ lien' = "muet"
  /\ UNCHANGED <<config, pc, etat, arrets, identite, garde, media, issue, reprise, epoque, erreur>>

Retablir ==
  /\ lien = "muet"
  /\ lien' = "ouvert"
  /\ UNCHANGED <<config, pc, etat, arrets, identite, garde, media, issue, reprise, epoque, erreur>>

\* The peer closes the connection, or the idle timeout of a silent one expires.
Fermer ==
  /\ lien \in {"ouvert", "muet"}
  /\ lien' = "ferme"
  /\ UNCHANGED <<config, pc, etat, arrets, identite, garde, media, issue, reprise, epoque, erreur>>

-----------------------------------------------------------------------------
Pilote ==
  \/ Resoudre \/ Connecter
  \/ \E p \in Pairs : TrouverChemin(p)
  \/ EtablirQuic \/ EchouerEtablissement
  \/ Armer \/ ReussirPoignee \/ Preparer \/ Echouer
  \/ FinirMedia \/ Joindre \/ AttendreAux \/ Lacher
  \/ Conclure \/ JoindrePont \/ LireStop \/ Classer
  \/ SeReconnecter \/ Boucler \/ Tenter \/ Finir \/ Clore

Threads == Pont \/ Rappeler \/ Injecter \/ RaccourciDeconnexion \/ FinirAux

Monde == DemanderArret \/ Couper \/ Retablir \/ Fermer

Termine == pc = "termine" /\ UNCHANGED vars

Next == Pilote \/ Threads \/ Monde \/ Termine

(***************************************************************************)
(* Fairness: threads and tasks are scheduled; every wait the code bounds   *)
(* ends.  The handshake waits at most 6 s, a QUIC client at most the idle  *)
(* timeout, the rendezvous loop reads its deadline and the stop at every   *)
(* turn - but a host that waits for its first caller has no deadline, and  *)
(* accept_quic_over_socket neither a deadline nor the stop.                *)
(***************************************************************************)
AttenteBornee ==
  \/ pc = "connecterQuic"
  \/ pc = "chercher" /\ (stop \/ role = "Controller" \/ epoque > 0)

Fairness ==
  /\ WF_vars(Resoudre) /\ WF_vars(Connecter)
  /\ WF_vars(AttenteBornee /\ EchouerEtablissement)
  /\ WF_vars(Armer)
  /\ WF_vars(pc = "poignee" /\ (ReussirPoignee \/ Echouer))
  /\ WF_vars(Preparer)
  /\ WF_vars(arret /\ FinirMedia)
  /\ WF_vars(Joindre) /\ WF_vars(AttendreAux) /\ WF_vars(Lacher)
  /\ WF_vars(Conclure) /\ WF_vars(JoindrePont) /\ WF_vars(LireStop) /\ WF_vars(Classer)
  /\ WF_vars(SeReconnecter) /\ WF_vars(Boucler) /\ WF_vars(Tenter)
  /\ WF_vars(Finir) /\ WF_vars(Clore)
  /\ WF_vars(Pont) /\ WF_vars(Rappeler)
  /\ WF_vars(arret /\ FinirAux)

Spec == Init /\ [][Next]_vars /\ Fairness

-----------------------------------------------------------------------------
(***************************************************************************)
(* Safety.                                                                 *)
(***************************************************************************)

HorsEpoque == pc \in Etablissement \cup
                {"debut", "resolution", "reconnecter", "boucle", "attente",
                 "fin", "cloture", "termine"}

\* Nothing of an epoch outlives it.  Between two epochs, and once the pilot is
\* about to end, no bridge or injector runs on the old connection, the
\* connection is closed on this side and no injected key is left held down
\* (the joins of conclure and of executer_*, release_all, QuicTransport::drop).
EpoqueIsolee ==
  HorsEpoque => /\ pont # "court" /\ aux # "court"
                /\ ~touche
                /\ lien \in {"absent", "ferme"}

\* A session by rendezvous that ends without noting an error ends because it was
\* asked to, or because the policy is exhausted: every attempt it grants was
\* made, none was skipped (se_reconnecter, ReconnectController).
FinJustifiee ==
  pc \in {"fin", "cloture", "termine"} /\ ~erreur =>
    \/ demande
    \/ contact # "ByRendezvous"
    \/ HasGivenUp(rc) /\ tentatives = max

\* An outage never makes more attempts than max_attempts, however establishment
\* attempts fail and whenever the stop arrives (se_reconnecter).
TentativesBornees == max # Illimite => tentatives <= max

\* A stop lets at most one more connection begin: the one whose attempt had
\* already read the stop signal (se_reconnecter, conclure, the bridge).
ArretUneEpoque == demande => epoque <= epoqueArret + 1

\* What the application sees is a SessionLifecycle: the order of the states it
\* receives, the same peer from the first connection to the last, nothing after
\* Closed.  A connection counts from the moment Handshaking is announced.
PairVu    == IF pc = "armer" /\ epoque = 1 THEN Aucun ELSE pair
EpoqueVue == IF pc = "armer" THEN epoque - 1 ELSE epoque

Promesse == INSTANCE SessionLifecycle WITH pair <- PairVu, epoque <- EpoqueVue

RefineLifecycle == Promesse!Spec

-----------------------------------------------------------------------------
(***************************************************************************)
(* Liveness.                                                               *)
(***************************************************************************)

\* A stop ends the session, provided no accept() waits for ever for the
\* connection of a peer (SessionHandle::stop says that such a pilot is detached).
ArretHonore ==
  []<>(pc # "accepterQuic") => (demande ~> etat = "Closed")

\* A connection that closes while media flow is always noticed: the session
\* announces Reconnecting or Closed (on_disconnect, the bridge, the media loop).
CoupureSignalee ==
  pc = "media" /\ lien = "ferme" ~> etat \in {"Reconnecting", "Closed"}

\* A controller with a finite policy does not stay in Reconnecting: it connects
\* again or closes (se_reconnecter, ReconnectController::next_delay).
RepriseConclue ==
  role = "Controller" /\ max # Illimite /\ etat = "Reconnecting" ~> etat # "Reconnecting"

-----------------------------------------------------------------------------
(***************************************************************************)
(* What the documentation says and the code does not do.                   *)
(***************************************************************************)

\* The doc of conclure tells a real error from the symptom of a dead link: an
\* error met on a live link ends the session with that error.
ErreurReelleFatale ==
  [][pc = "lireCoupe" /\ cause = "lienVif" /\ pc' # pc => erreur']_vars

=============================================================================
