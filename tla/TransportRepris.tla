--------------------------- MODULE TransportRepris ---------------------------
(***************************************************************************)
(* The transparent reconnection of a controller (nd-transport,             *)
(* ReconnectingTransport; nd-core, vivre_direct_reconnectant): two threads *)
(* share one transport behind a mutex; whichever calls it first after a    *)
(* cut connects again, on its own thread and with the mutex held, and opens*)
(* the channels again so that the handles both threads keep stay valid.    *)
(***************************************************************************)
EXTENDS Bancs

CONSTANTS
  Politiques,      \* max_tentatives of the Backoff: a number, or `Illimitee`, the default
  Illimitee,
  MaxCoupures      \* bound: cuts of the connection

ASSUME TransportReprisAssumption ==
  /\ Politiques # {} /\ Politiques \subseteq Nat \cup {Illimitee}
  /\ MaxCoupures \in Nat

VARIABLES
  politique,   \* Backoff::max_tentatives of the session, which never changes
  connecte,    \* is_connected of the enclosed transport
  joignable,   \* the host accepts again
  inner,       \* the channels of the enclosed transport, by index
  canaux,      \* ReconnectingTransport::canaux: the channels opened by the caller
  poignees,    \* the handles each thread keeps: kind |-> index
  aOuvrir,     \* the channels each thread has still to open
  fil,         \* what each thread does
  verrou,      \* TransportPartage: who holds the mutex between two steps
  tentative,   \* of the reconnection under way
  arret,       \* the stop flag of the session
  coupures     \* cuts so far

varsR == <<politique, connecte, joignable, inner, canaux, poignees, aOuvrir, fil, verrou,
           tentative, arret, coupures>>

Fils == {"recepteur", "emetteur"}
Personne == "personne"
Kinds == {"Control", "Input", "Audio", "Files", "Video"}

\* construire_carte_reception and emetteur_features_controleur; without the
\* extended features the receiver opens nothing (run_streaming).
Ouvertures(f) ==
  CASE f = "recepteur" /\ mode = "etendu" -> <<"Control", "Input", "Audio", "Files", "Video">>
    [] f = "emetteur"  /\ mode = "etendu" -> <<"Input", "Files", "Control">>
    [] f = "recepteur" /\ mode = "simple" -> <<>>
    [] f = "emetteur"  /\ mode = "simple" -> <<"Input">>

\* What the host sends on one connection.
Recues == IF mode = "etendu" THEN {"Control", "Audio", "Files", "Video"} ELSE {"Video"}

\* The handshake uses the control channel of every new connection (establish), and
\* a proof of admission is sent on it before the threads start.
InitR ==
  /\ politique \in Sur({"reprise"}, Politiques)
  /\ connecte = TRUE /\ joignable = TRUE
  /\ inner = <<"Control">>
  /\ canaux \in Sur({"reprise"}, {<<>>, <<"Control">>})
  /\ poignees = [f \in Fils |-> <<>>]
  /\ aOuvrir = [f \in Fils |-> Ouvertures(f)]
  /\ fil = [f \in Fils |-> IF Ouvertures(f) = <<>> THEN "boucle" ELSE "ouvre"]
  /\ verrou = Personne /\ tentative = 0 /\ arret = FALSE /\ coupures = 0

-----------------------------------------------------------------------------
\* open_channel: one index per kind, in the order of the first openings.
Avec(s, kind) == IF Contains(s, kind) THEN s ELSE Append(s, kind)
Index(s, kind) == CHOOSE i \in DOMAIN s : s[i] = kind

Ouvrir_(f) ==
  LET kind == Head(aOuvrir[f]) IN
  /\ fil[f] = "ouvre" /\ verrou = Personne
  /\ inner' = Avec(inner, kind)
  /\ canaux' = Avec(canaux, kind)
  /\ poignees' = [poignees EXCEPT ![f] = [k \in DOMAIN @ \cup {kind} |->
                    IF k = kind THEN Index(inner', kind) ELSE @[k]]]
  /\ aOuvrir' = [aOuvrir EXCEPT ![f] = Tail(@)]
  /\ fil' = [fil EXCEPT ![f] = IF Len(aOuvrir[f]) = 1 THEN "boucle" ELSE "ouvre"]
  /\ UNCHANGED <<connecte, joignable, verrou, tentative, arret, coupures>>

\* The stop flag is read between two calls of the transport, never during one.
Appeler(f) ==
  /\ fil[f] = "boucle" /\ ~arret
  /\ fil' = [fil EXCEPT ![f] = "appelle"]
  /\ UNCHANGED <<connecte, joignable, inner, canaux, poignees, aOuvrir, verrou,
                 tentative, arret, coupures>>

Finir(f) ==
  /\ fil[f] = "boucle" /\ arret
  /\ fil' = [fil EXCEPT ![f] = "fini"]
  /\ UNCHANGED <<connecte, joignable, inner, canaux, poignees, aOuvrir, verrou,
                 tentative, arret, coupures>>

\* The call goes on with a connection that was found alive, or made anew.
PeutAgir(f) ==
  /\ fil[f] = "appelle"
  /\ verrou = f \/ (verrou = Personne /\ connecte)
Rendre(f, suite) ==
  /\ fil' = [fil EXCEPT ![f] = suite]
  /\ verrou' = Personne
  /\ UNCHANGED <<connecte, joignable, canaux, poignees, aOuvrir, tentative, coupures>>

\* poll_recv: a message of a kind unknown so far opens its channel, behind the back
\* of the reconnecting transport.  run_streaming drains the burst before it returns.
Recevoir(kind) ==
  /\ PeutAgir("recepteur") /\ connecte
  /\ inner' = Avec(inner, kind)
  /\ Rendre("recepteur", IF mode = "simple" THEN "appelle" ELSE "boucle")
  /\ UNCHANGED arret

RienRecu ==
  /\ PeutAgir("recepteur")
  /\ Rendre("recepteur", "boucle")
  /\ UNCHANGED <<inner, arret>>

\* send: a handle unknown to the enclosed transport is an error, which ends the
\* thread when it happens to an input; the other messages are sent and forgotten.
Envoyer_(kind) ==
  /\ PeutAgir("emetteur")
  /\ kind \in DOMAIN poignees["emetteur"]
  /\ Rendre("emetteur", IF poignees["emetteur"][kind] > Len(inner) /\ kind = "Input"
                        THEN "fini" ELSE "boucle")
  /\ UNCHANGED <<inner, arret>>

\* assurer_connexion: the connection is cut, the caller connects again.
Reprendre(f) ==
  /\ fil[f] = "appelle" /\ verrou = Personne /\ ~connecte
  /\ fil' = [fil EXCEPT ![f] = "reprend"]
  /\ verrou' = f /\ tentative' = 0
  /\ UNCHANGED <<connecte, joignable, inner, canaux, poignees, aOuvrir, arret, coupures>>

\* open_channel of each kind in turn, on a new transport, whose control channel is open.
OuvrirTous(kinds) ==
  LET ouverts[i \in 1..Len(kinds)] ==
        Avec(IF i = 1 THEN <<"Control">> ELSE ouverts[i - 1], kinds[i])
  IN IF kinds = <<>> THEN <<"Control">> ELSE ouverts[Len(kinds)]

\* rouvrir_canaux, in another order: the kinds move.
RouvrirALEnvers == OuvrirTous(Reverse(canaux))
Rouvrir == OuvrirTous(canaux)

Reussir(f) ==
  /\ fil[f] = "reprend" /\ joignable
  /\ connecte' = TRUE
  /\ inner' = Rouvrir
  /\ fil' = [fil EXCEPT ![f] = "appelle"]
  /\ UNCHANGED <<joignable, canaux, poignees, aOuvrir, verrou, tentative, arret, coupures>>

\* An attempt fails: nothing but the number of attempts makes the call give up.  Without a
\* limit they need not be counted.
CompterRien == tentative
Compter == IF politique = Illimitee THEN tentative ELSE tentative + 1

\* The last attempt allowed is an error of the call.  The receiver ends and stops the
\* session; the emitter ends if the call was the sending of an input.
Echouer(f) ==
  /\ fil[f] = "reprend" /\ ~joignable
  /\ tentative' = Compter
  /\ IF politique # Illimitee => tentative' < politique
     THEN UNCHANGED <<fil, verrou, arret>>
     ELSE /\ verrou' = Personne
          /\ \/ f = "emetteur" /\ mode = "etendu"
                /\ fil' = [fil EXCEPT ![f] = "boucle"] /\ UNCHANGED arret
             \/ fil' = [fil EXCEPT ![f] = "fini"] /\ arret' = (arret \/ f = "recepteur")
  /\ UNCHANGED <<connecte, joignable, inner, canaux, poignees, aOuvrir, coupures>>

\* The network and the host.
Couper ==
  /\ connecte /\ coupures < MaxCoupures
  /\ connecte' = FALSE /\ joignable' \in BOOLEAN /\ coupures' = coupures + 1
  /\ UNCHANGED <<inner, canaux, poignees, aOuvrir, fil, verrou, tentative, arret>>
Revenir ==
  /\ ~joignable /\ joignable' = TRUE
  /\ UNCHANGED <<connecte, inner, canaux, poignees, aOuvrir, fil, verrou, tentative,
                 arret, coupures>>

\* The user ends the session.
Arreter ==
  /\ ~arret /\ arret' = TRUE
  /\ UNCHANGED <<connecte, joignable, inner, canaux, poignees, aOuvrir, fil, verrou,
                 tentative, coupures>>

PasFil(f) == Ouvrir_(f) \/ Appeler(f) \/ Finir(f) \/ Reprendre(f) \/ Reussir(f) \/ Echouer(f)
PasEmetteur == \E kind \in Kinds : Envoyer_(kind)

NextR ==
  /\ banc = "reprise"
  /\ \/ \E f \in Fils : PasFil(f)
     \/ \E kind \in Recues : Recevoir(kind)
     \/ RienRecu \/ PasEmetteur
     \/ Couper \/ Revenir \/ Arreter
  /\ UNCHANGED <<bancs, politique>>

TypeR ==
  /\ fil \in [Fils -> {"ouvre", "boucle", "appelle", "reprend", "fini"}]
  /\ verrou \in Fils \cup {Personne}
  /\ inner \in Seq(Kinds) /\ canaux \in Seq(Kinds)
  /\ IsInjective(inner) /\ IsInjective(canaux)
  /\ \A f \in Fils : poignees[f] \in [DOMAIN poignees[f] -> 1..5]
  /\ politique \in Politiques
  /\ tentative \in Nat /\ coupures \in 0..MaxCoupures

\* The threads run; a burst of messages ends.
FairR ==
  /\ \A f \in Fils : WF_varsR(banc = "reprise" /\ PasFil(f) /\ UNCHANGED politique)
  /\ WF_varsR(banc = "reprise" /\ RienRecu /\ UNCHANGED politique)
  /\ WF_varsR(banc = "reprise" /\ PasEmetteur /\ UNCHANGED politique)

(***************************************************************************)
(* rouvrir_canaux: in an extended session the handles both threads keep    *)
(* designate the kinds they were opened for, before and after every        *)
(* reconnection, whatever the order in which the threads open them.        *)
(***************************************************************************)
PoigneesStables ==
  mode = "etendu" =>
    \A f \in Fils : \A kind \in DOMAIN poignees[f] :
      poignees[f][kind] \in DOMAIN inner /\ inner[poignees[f][kind]] = kind

(***************************************************************************)
(* The stop of a session ends both threads, even when it comes during a    *)
(* reconnection, which does not read it and holds the mutex, so that the   *)
(* other thread waits behind it: when the attempts are bounded, or when    *)
(* the host can be reached again.  ArretAnnulable says what is left.       *)
(***************************************************************************)
ArretTransparent ==
  /\ (banc = "reprise" /\ arret /\ politique # Illimitee) ~> \A f \in Fils : fil[f] = "fini"
  /\ []<>joignable => ((banc = "reprise" /\ arret) ~> \A f \in Fils : fil[f] = "fini")

(***************************************************************************)
(* Claim: the user may always give up a reconnection, also with the        *)
(* default policy, which sets no limit (ReconnectPolicy, "sans limite de   *)
(* tentatives (l'utilisateur peut toujours annuler)").                     *)
(***************************************************************************)
ArretAnnulable ==
  (banc = "reprise" /\ arret) ~> \A f \in Fils : fil[f] = "fini"
=============================================================================
