----------------------------- MODULE PontAssistant -----------------------------
(***************************************************************************)
(* The Windows service (nd-service): it runs in session 0, where there is  *)
(* no screen, and serves each epoch through an assistant, a process of the *)
(* session of the user.  A bridge joins them by two pipes: frames one way, *)
(* inputs the other.  GestionnairePont makes the bridges and hands out the *)
(* two ends of one, the injector and then the capturer, to the host loop.  *)
(***************************************************************************)
EXTENDS Bancs

CONSTANTS
  MaxPonts,      \* bound: the bridges of a behaviour
  FileTrames,    \* FILE_TRAMES: the frames kept for the capturer
  TailleTube,    \* what a pipe holds
  MaxMorts       \* bound: the assistants killed

ASSUME PontAssumption == {MaxPonts, FileTrames, TailleTube} \subseteq Nat \ {0} /\ MaxMorts \in Nat

Ponts == 1..MaxPonts
Bouts == {"injecteur", "capteur"}

VARIABLES
  pilote,      \* the host thread: where it is in an epoch
  bout,        \* the end it is asking for
  courant,     \* GestionnairePont::courant, 0 when there is none
  pris,        \* capteur_pris, injecteur_pris
  remis,       \* the bridges of the two ends the epoch holds
  injection,   \* the thread of the epoch that injects
  tubes,       \* the pipes of each bridge
  vivant,      \* the reading thread of the bridge runs: EtatPartage::vivant, and tx
  recepteur,   \* who holds rx_trames
  file,        \* the frames waiting in it
  a2s, s2a,    \* what is in the pipes: frames, inputs
  saisie, entrees, \* the two threads of the assistant: capture, inputs
  arretA,      \* its flag `arret`
  enfoncee,    \* a key it holds down in the session of the user
  tuees        \* the assistants that were killed

varsA == <<pilote, bout, courant, pris, remis, injection, tubes, vivant, recepteur, file,
           a2s, s2a, saisie, entrees, arretA, enfoncee, tuees>>
service   == <<pilote, bout, courant, pris, remis, injection>>
lecteurs  == <<vivant, recepteur, file>>
assistant == <<saisie, entrees, arretA, enfoncee, tuees>>

InitA ==
  /\ pilote = "repos" /\ bout = "injecteur" /\ courant = 0 /\ pris = {}
  /\ remis = [b \in Bouts |-> 0] /\ injection = "absente"
  /\ tubes = [p \in Ponts |-> "absents"]
  /\ vivant = [p \in Ponts |-> FALSE] /\ recepteur = [p \in Ponts |-> "pont"]
  /\ file = [p \in Ponts |-> 0] /\ a2s = [p \in Ponts |-> 0] /\ s2a = [p \in Ponts |-> <<>>]
  /\ saisie = [p \in Ponts |-> "absente"] /\ entrees = [p \in Ponts |-> "absente"]
  /\ arretA = [p \in Ponts |-> FALSE] /\ enfoncee = [p \in Ponts |-> FALSE] /\ tuees = {}

Lances == Cardinality({p \in Ponts : tubes[p] # "absents"})

-----------------------------------------------------------------------------
(***************************************************************************)
(* The bridge manager, called by the host thread.                          *)
(***************************************************************************)
\* arreter_interne: what is in the pipes is lost, and the reading thread ends.
ArreterPont(p) ==
  /\ tubes' = [tubes EXCEPT ![p] = "coupes"]
  /\ vivant' = [vivant EXCEPT ![p] = FALSE]
  /\ recepteur' = [recepteur EXCEPT ![p] = IF @ = "pont" THEN "libere" ELSE @]
  /\ a2s' = [a2s EXCEPT ![p] = 0] /\ s2a' = [s2a EXCEPT ![p] = <<>>]

ArreterCourant ==
  IF courant = 0 THEN UNCHANGED <<tubes, vivant, recepteur, a2s, s2a>> ELSE ArreterPont(courant)

\* GestionnairePont::capteur and injecteur: the end b of the bridge p.
Remettre(b, p) ==
  /\ remis' = [remis EXCEPT ![b] = p]
  /\ IF b = "injecteur" THEN pilote' = "demande" /\ bout' = "capteur"
     ELSE pilote' = "prepare" /\ UNCHANGED bout

\* An epoch begins (executer_hote, derouler_epoque_hote_ext).
ServirEpoque ==
  /\ pilote = "repos" /\ Lances + 2 <= MaxPonts
  /\ pilote' = "demande" /\ bout' = "injecteur"
  /\ UNCHANGED <<courant, pris, remis, injection, tubes, lecteurs, a2s, s2a, assistant>>

\* assurer_pont.
BesoinNeuf == IF courant = 0 THEN TRUE ELSE ~vivant[courant] \/ bout \in pris

ReutiliserPont ==
  /\ pilote = "demande" /\ ~BesoinNeuf
  /\ pris' = pris \cup {bout}
  /\ recepteur' = [recepteur EXCEPT ![courant] = IF bout = "capteur" THEN "capteur" ELSE @]
  /\ Remettre(bout, courant)
  /\ UNCHANGED <<courant, injection, tubes, vivant, file, a2s, s2a, assistant>>

RemplacerPont ==
  /\ pilote = "demande" /\ BesoinNeuf
  /\ ArreterCourant /\ courant' = 0 /\ pris' = {}
  /\ pilote' = "lance"
  /\ UNCHANGED <<bout, remis, injection, file, assistant>>

\* PontAssistant::demarrer: the pipes and the process; no session is open, or no right.
Lancer ==
  /\ pilote = "lance"
  /\ LET p == Lances + 1 IN
       /\ tubes' = [tubes EXCEPT ![p] = "attente"]
       /\ saisie' = [saisie EXCEPT ![p] = "lancee"]
  /\ pilote' = "attend"
  /\ UNCHANGED <<bout, courant, pris, remis, injection, lecteurs, a2s, s2a, entrees,
                 arretA, enfoncee, tuees>>

\* The ends the epoch holds are dropped.
Lacher ==
  /\ recepteur' = [p \in Ponts |-> IF recepteur[p] = "capteur" THEN "libere" ELSE recepteur[p]]
  /\ remis' = [b \in Bouts |-> 0] /\ pilote' = "repos"

EchouerLancement ==
  /\ pilote = "lance"
  /\ Lacher
  /\ UNCHANGED <<bout, courant, pris, injection, tubes, vivant, file, a2s, s2a, assistant>>

\* attendre_client: a client that connected and went away is an error; one that never
\* came is waited for without a deadline.
AbandonnerAttente ==
  /\ pilote = "attend" /\ saisie[Lances] = "finie"
  /\ tubes' = [tubes EXCEPT ![Lances] = "coupes"]
  /\ Lacher
  /\ UNCHANGED <<bout, courant, pris, injection, vivant, file, a2s, s2a, assistant>>

\* depuis_serveurs: the assistant has opened both pipes.
Connecter ==
  /\ pilote = "attend" /\ saisie[Lances] = "lancee"
  /\ tubes' = [tubes EXCEPT ![Lances] = "ouverts"]
  /\ vivant' = [vivant EXCEPT ![Lances] = TRUE]
  /\ recepteur' = [recepteur EXCEPT ![Lances] = IF bout = "capteur" THEN "capteur" ELSE "pont"]
  /\ saisie' = [saisie EXCEPT ![Lances] = "connectee"]
  /\ courant' = Lances /\ pris' = {bout}
  /\ Remettre(bout, Lances)
  /\ UNCHANGED <<injection, file, a2s, s2a, entrees, arretA, enfoncee, tuees>>

\* The encoder, then HostPipeline::new: the capturer sends its configuration, which a
\* closed pipe refuses.
Preparer ==
  /\ pilote = "prepare"
  /\ \/ /\ tubes[remis["capteur"]] = "ouverts" /\ entrees[remis["capteur"]] # "finie"
        /\ pilote' = "diffuse" /\ injection' = "tourne"
        /\ UNCHANGED <<remis, recepteur>>
     \/ Lacher /\ UNCHANGED injection
  /\ UNCHANGED <<bout, courant, pris, tubes, vivant, file, a2s, s2a, assistant>>

-----------------------------------------------------------------------------
(***************************************************************************)
(* The epoch: the streaming loop and the thread that injects.              *)
(***************************************************************************)
\* CapteurAssistant::next_frame; after DELAI_TRAME an empty frame, which changes nothing.
TrameSuivante ==
  /\ pilote = "diffuse"
  /\ LET p == remis["capteur"] IN
     \/ /\ file[p] > 0 /\ file' = [file EXCEPT ![p] = @ - 1] /\ UNCHANGED pilote
     \/ /\ file[p] = 0 /\ ~vivant[p] /\ pilote' = "joint" /\ UNCHANGED file
  /\ UNCHANGED <<bout, courant, pris, remis, injection, tubes, vivant, recepteur, a2s, s2a,
                 assistant>>

\* The peer leaves, or the session is stopped.
FinDiffusion ==
  /\ pilote = "diffuse" /\ pilote' = "joint"
  /\ UNCHANGED <<bout, courant, pris, remis, injection, tubes, lecteurs, a2s, s2a, assistant>>

\* InjecteurAssistant::envoyer: a full pipe blocks, a broken one is an error nobody reads.
Rompu(p) == tubes[p] = "coupes" \/ entrees[p] = "finie"
Transmettre(p, m) ==
  IF Rompu(p) THEN UNCHANGED s2a
  ELSE Len(s2a[p]) < TailleTube /\ s2a' = [s2a EXCEPT ![p] = Append(@, m)]

Appuyer ==
  /\ injection = "tourne"
  /\ Transmettre(remis["injecteur"], "touche")
  /\ UNCHANGED <<service, tubes, lecteurs, a2s, assistant>>

\* The epoch is over, or the connection is.
FinInjection ==
  /\ injection = "tourne"
  /\ Transmettre(remis["injecteur"], "relacher")
  /\ injection' = "finie"
  /\ UNCHANGED <<pilote, bout, courant, pris, remis, tubes, lecteurs, a2s, assistant>>

FinEpoque ==
  /\ pilote = "joint" /\ injection = "finie"
  /\ Lacher /\ injection' = "absente"
  /\ UNCHANGED <<bout, courant, pris, tubes, vivant, file, a2s, s2a, assistant>>

\* The service stops: the factories are dropped, and the manager with its bridge.
ArreterService ==
  /\ pilote = "repos" /\ pilote' = "arrete"
  /\ ArreterCourant /\ courant' = 0 /\ pris' = {}
  /\ UNCHANGED <<bout, remis, injection, file, assistant>>

-----------------------------------------------------------------------------
(***************************************************************************)
(* The reading thread of a bridge (boucle_lecture).                        *)
(***************************************************************************)
Lire(p) ==
  /\ vivant[p]
  /\ \/ /\ a2s[p] > 0 /\ a2s' = [a2s EXCEPT ![p] = @ - 1]
        /\ IF recepteur[p] = "libere" THEN vivant' = [vivant EXCEPT ![p] = FALSE] /\ UNCHANGED file
           ELSE /\ file' = [file EXCEPT ![p] = IF @ < FileTrames THEN @ + 1 ELSE @]
                /\ UNCHANGED vivant
     \/ /\ a2s[p] = 0 /\ saisie[p] = "finie"
        /\ vivant' = [vivant EXCEPT ![p] = FALSE] /\ UNCHANGED <<a2s, file>>
  /\ UNCHANGED <<service, tubes, recepteur, s2a, assistant>>

-----------------------------------------------------------------------------
(***************************************************************************)
(* The assistant (executer): a thread captures, another one injects.       *)
(***************************************************************************)
\* No injector: the process ends.  No capturer: the capture ends, and executer waits for
\* the inputs thread, which waits for a message.
Demarrer(p) ==
  /\ saisie[p] = "connectee"
  /\ \/ /\ saisie' = [saisie EXCEPT ![p] = "finie"] /\ entrees' = [entrees EXCEPT ![p] = "finie"]
        /\ UNCHANGED arretA
     \/ /\ saisie' = [saisie EXCEPT ![p] = "finie"] /\ entrees' = [entrees EXCEPT ![p] = "lit"]
        /\ arretA' = [arretA EXCEPT ![p] = TRUE]
     \/ /\ saisie' = [saisie EXCEPT ![p] = "tourne"] /\ entrees' = [entrees EXCEPT ![p] = "lit"]
        /\ UNCHANGED arretA
  /\ UNCHANGED <<service, tubes, lecteurs, a2s, s2a, enfoncee, tuees>>

FinCapture(p) ==
  /\ saisie' = [saisie EXCEPT ![p] = "finie"] /\ arretA' = [arretA EXCEPT ![p] = TRUE]
  /\ UNCHANGED a2s

\* boucle_capture: the flag is read, a frame captured and written.  A full pipe blocks
\* until the service reads or disconnects.
Capturer(p) ==
  /\ \/ /\ saisie[p] = "tourne" /\ arretA[p]
        /\ FinCapture(p)
     \/ /\ saisie[p] = "tourne" /\ ~arretA[p]
        /\ saisie' = [saisie EXCEPT ![p] = "ecrit"] /\ UNCHANGED <<a2s, arretA>>
     \/ /\ saisie[p] = "ecrit" /\ tubes[p] = "coupes"
        /\ FinCapture(p)
     \/ /\ saisie[p] = "ecrit" /\ tubes[p] # "coupes" /\ a2s[p] < TailleTube
        /\ a2s' = [a2s EXCEPT ![p] = @ + 1]
        /\ saisie' = [saisie EXCEPT ![p] = "tourne"] /\ UNCHANGED arretA
  /\ UNCHANGED <<service, tubes, lecteurs, s2a, entrees, enfoncee, tuees>>

\* Mutated form of FinEntrees: what is held down stays so.
FinEntreesSansRelacher(p) ==
  /\ entrees' = [entrees EXCEPT ![p] = "finie"] /\ arretA' = [arretA EXCEPT ![p] = TRUE]
  /\ UNCHANGED enfoncee

\* The end of boucle_entrees.
FinEntrees(p) ==
  /\ entrees' = [entrees EXCEPT ![p] = "finie"] /\ arretA' = [arretA EXCEPT ![p] = TRUE]
  /\ enfoncee' = [enfoncee EXCEPT ![p] = FALSE]

\* boucle_entrees.  The flag may be raised while it waits for the message: whatever that
\* does, the end of the thread undoes it.
LireEntree(p) ==
  /\ entrees[p] = "lit" /\ s2a[p] # <<>>
  /\ s2a' = [s2a EXCEPT ![p] = Tail(@)]
  /\ IF arretA[p] THEN FinEntrees(p)
     ELSE /\ enfoncee' = [enfoncee EXCEPT ![p] = Head(s2a[p]) = "touche"]
          /\ UNCHANGED <<entrees, arretA>>
  /\ UNCHANGED <<service, tubes, lecteurs, a2s, saisie, tuees>>

\* The flag is raised before the thread waits for a message.
VoirArret(p) ==
  /\ entrees[p] = "lit" /\ arretA[p]
  /\ FinEntrees(p)
  /\ UNCHANGED <<service, tubes, lecteurs, a2s, s2a, saisie, tuees>>

FinTube(p) ==
  /\ entrees[p] = "lit" /\ tubes[p] = "coupes"
  /\ FinEntrees(p)
  /\ UNCHANGED <<service, tubes, lecteurs, a2s, s2a, saisie, tuees>>

\* The process is killed, or its session is closed: nobody releases what it held.
Tuer(p) ==
  /\ saisie[p] # "absente" /\ (saisie[p] # "finie" \/ entrees[p] = "lit")
  /\ Cardinality(tuees) < MaxMorts
  /\ tuees' = tuees \cup {p}
  /\ saisie' = [saisie EXCEPT ![p] = "finie"] /\ entrees' = [entrees EXCEPT ![p] = "finie"]
  /\ UNCHANGED <<service, tubes, lecteurs, a2s, s2a, arretA, enfoncee>>

-----------------------------------------------------------------------------
PasPilote ==
  \/ ReutiliserPont \/ RemplacerPont \/ Lancer \/ EchouerLancement \/ Connecter
  \/ Preparer \/ FinEpoque
PasAssistant(p) == Demarrer(p) \/ Capturer(p) \/ LireEntree(p) \/ FinTube(p)

NextA ==
  /\ banc = "assistant"
  /\ \/ ServirEpoque \/ ArreterService \/ PasPilote \/ AbandonnerAttente
     \/ TrameSuivante \/ FinDiffusion \/ Appuyer \/ FinInjection
     \/ \E p \in Ponts : Lire(p) \/ PasAssistant(p) \/ VoirArret(p) \/ Tuer(p)
  /\ UNCHANGED bancs

\* The threads of the service and of the assistants run.  Nobody has to call or to stop.
FairA ==
  /\ WF_varsA(banc = "assistant" /\ PasPilote)
  /\ WF_varsA(banc = "assistant" /\ TrameSuivante)
  /\ WF_varsA(banc = "assistant" /\ pilote = "joint" /\ FinInjection)
  /\ \A p \in Ponts :
       /\ WF_varsA(banc = "assistant" /\ Lire(p)) /\ WF_varsA(banc = "assistant" /\ Demarrer(p))
       /\ WF_varsA(banc = "assistant" /\ Capturer(p))
       /\ WF_varsA(banc = "assistant" /\ (LireEntree(p) \/ FinTube(p)))

TypeA ==
  /\ pilote \in {"repos", "demande", "lance", "attend", "prepare", "diffuse", "joint", "arrete"}
  /\ bout \in Bouts /\ courant \in 0..MaxPonts /\ pris \subseteq Bouts
  /\ remis \in [Bouts -> 0..MaxPonts] /\ injection \in {"absente", "tourne", "finie"}
  /\ tubes \in [Ponts -> {"absents", "attente", "ouverts", "coupes"}]
  /\ vivant \in [Ponts -> BOOLEAN] /\ recepteur \in [Ponts -> {"pont", "capteur", "libere"}]
  /\ file \in [Ponts -> 0..FileTrames] /\ a2s \in [Ponts -> 0..TailleTube]
  /\ \A p \in Ponts : s2a[p] \in Seq({"touche", "relacher"}) /\ Len(s2a[p]) <= TailleTube
  /\ saisie \in [Ponts -> {"absente", "lancee", "connectee", "tourne", "ecrit", "finie"}]
  /\ entrees \in [Ponts -> {"absente", "lit", "finie"}]
  /\ arretA \in [Ponts -> BOOLEAN] /\ enfoncee \in [Ponts -> BOOLEAN] /\ tuees \subseteq Ponts

-----------------------------------------------------------------------------
UnPontOuvert ==
  /\ Cardinality({p \in Ponts : tubes[p] \in {"attente", "ouverts"}}) <= 1
  /\ pilote = "diffuse" =>
       tubes[remis["capteur"]] = "ouverts"
       /\ remis["injecteur"] \in {remis["capteur"]} \cup {p \in Ponts : tubes[p] = "coupes"}

\* What is owed, and must not stay so: the end of an epoch without a capture, the release
\* of a key of an epoch that is over, the end of the assistants of a stopped service.
Du ==
  \/ pilote = "diffuse" /\ saisie[remis["capteur"]] = "finie"
  \/ \E p \in Ponts \ tuees : enfoncee[p] /\ remis["injecteur"] # p
  \/ pilote = "arrete" /\ \E p \in Ponts : saisie[p] \notin {"absente", "finie"} \/ entrees[p] = "lit"

(***************************************************************************)
(* What the bridges promise the host, whoever dies when.  At most one is   *)
(* open, and an epoch that streams films through it: inputs never reach    *)
(* another assistant than the one filmed, though they may reach none (the  *)
(* assistant died between the two calls).  The end of the capture of the   *)
(* assistant ends the epoch.  When an epoch is over the keys it pressed    *)
(* come up, and when the service is stopped its assistants end; only the   *)
(* keys of an assistant that was killed stay down (assurer_pont,           *)
(* arreter_interne, next_frame, boucle_entrees).                           *)
(***************************************************************************)
PontFidele == []UnPontOuvert /\ (Du ~> ~Du)
=============================================================================
