---------------------------- MODULE FileTransfer ----------------------------
(***************************************************************************)
(* File transfers between the two peers of a session (nd-core session.rs). *)
(* Each peer has ONE slot, a sender or a receiver, shared by the thread    *)
(* that receives (traiter_fichiers) and the one that emits                 *)
(* (traiter_commandes, pomper_transfert).  The slot outlives the epochs:   *)
(* a cut loses what is in flight on the Files channels and nothing tells   *)
(* the slots.                                                              *)
(***************************************************************************)
EXTENDS TransferSession

CONSTANTS
  Lots,          \* the queues of files a user asks to send
  Restes,        \* what the directory of each peer may hold before the session
  MaxEnvois,     \* bound: batches sent
  MaxIncidents   \* bound: cuts, changes of the permissions, calls of cancel and pause

ASSUME LotsAssumption  == Lots \subseteq Seq(Fichiers)
ASSUME BornesAssumption == {MaxEnvois, MaxIncidents} \subseteq Nat

Pairs    == {"Controller", "Controlled"}
Autre(p) == CHOOSE q \in Pairs : q # p

\* A chunk of a file, or of another content under its name.
Morceaux == (Fichiers \X (Nat \ {0})) \cup {Rien}

\* A directory as anything may have left it: older versions of any length, transfers cut
\* by the end of a session.
ASSUME RestesAssumption ==
  /\ DOMAIN Restes = Pairs
  /\ \A p \in Pairs : Restes[p] \subseteq [Fichiers -> Seq(Morceaux)]

\* The frames of the Files channels.
Trames ==
     [type : {"Done"}, lot : SUBSET Fichiers]
  \cup [type : {"Offer"}, seq : Nat \ {0}, fichier : Fichiers]
  \cup [type : {"Resume"}, seq : Nat \ {0}, offset : Nat]
  \cup [type : {"Start"}, fichier : Fichiers, racine : Nat]
  \cup [type : {"Chunk"}, index : Nat, chunk : Fichiers \X (Nat \ {0})]
  \cup [type : {"End", "Cancel"}]

ASSUME TramesAssumption == Rien \notin Trames

Capacites == {"FileUpload", "FileDownload"}

VARIABLES
  slot,      \* EtatMedia.transfer of each peer
  pompe,     \* is the emitter inside pomper_transfert, the lock held
  canal,     \* the frames on the way to each peer on its Files channel
  disque,    \* the directory each peer receives into
  lien,      \* is the link of the current epoch alive
  perms,     \* the live permissions of each peer
  avis,      \* the permission updates on the way to the host
  envois, incidents,   \* what the bounds count
  livres,    \* history: the files each peer reported complete, and has not reopened since
  annonce,   \* history: the batches each peer reported finished
  offrePerdue,  \* history: was an offer to this peer lost, by a cut or by its guard
  reste,        \* history: what each directory held at the start
  troubles   \* history: what has disturbed the transfers

transfert == <<slot, pompe, canal, disque>>
droits    == <<perms, avis>>
compteurs == <<envois, incidents>>
histoire  == <<livres, annonce, offrePerdue, reste, troubles>>
vars == <<transfert, droits, lien, compteurs, histoire>>

Init ==
  /\ slot = [p \in Pairs |-> Vide]
  /\ pompe = [p \in Pairs |-> FALSE]
  /\ canal = [p \in Pairs |-> <<>>]
  /\ disque \in {d \in [Pairs -> UNION {Restes[p] : p \in Pairs}] : \A p \in Pairs : d[p] \in Restes[p]}
  /\ reste = disque
  /\ lien = TRUE
  /\ perms = [p \in Pairs |-> Capacites]
  /\ avis = <<>>
  /\ envois = 0 /\ incidents = 0
  /\ livres = [p \in Pairs |-> {}]
  /\ annonce = [p \in Pairs |-> {}]
  /\ offrePerdue = [p \in Pairs |-> FALSE]
  /\ troubles = {}

-----------------------------------------------------------------------------
\* Is a transfer under way, at either end or on the way.
EnCours ==
  \E p \in Pairs : (slot[p].role = "Sender" /\ ~IsFinished(slot[p])) \/ canal[p] # <<>>

\* What a new batch of p disturbs, or is disturbed by.
Derange(p) ==
     (IF EnCours THEN {"remplacement"} ELSE {})
  \cup (IF slot[Autre(p)].role = "Sender" THEN {"retour"} ELSE {})

\* traiter_commandes, EnvoyerFichiers: the new sender replaces whatever the slot held.
Envoyer(p) ==
  /\ lien /\ ~pompe[p]
  /\ "FileUpload" \in perms[p]
  /\ envois < MaxEnvois
  /\ \E lot \in Lots : slot' = [slot EXCEPT ![p] = Emetteur(lot)]
  /\ envois' = envois + 1
  /\ troubles' = troubles \cup Derange(p)
  /\ UNCHANGED <<pompe, canal, disque, droits, lien, incidents,
                 livres, annonce, offrePerdue, reste>>

\* pomper_transfert: emit until there is nothing left.
Pomper(p) ==
  LET x == PollOutgoing(slot[p]) IN
  /\ lien
  /\ slot[p] # Vide
  /\ slot' = [slot EXCEPT ![p] = x.s]
  /\ pompe' = [pompe EXCEPT ![p] = x.t # Rien]
  /\ canal' = IF x.t = Rien THEN canal ELSE [canal EXCEPT ![Autre(p)] = Append(@, x.t)]
  /\ UNCHANGED <<disque, droits, lien, compteurs, histoire>>

\* The same on a link that is already dead: the frame is lost, and the send may fail,
\* which leaves the pump.
PomperDansLeVide(p) ==
  LET x == PollOutgoing(slot[p]) IN
  /\ ~lien
  /\ slot[p] # Vide /\ x.t # Rien
  /\ slot' = [slot EXCEPT ![p] = x.s]
  /\ \E suite \in BOOLEAN : pompe' = [pompe EXCEPT ![p] = suite]
  /\ offrePerdue' = [offrePerdue EXCEPT ![Autre(p)] = @ \/ x.t.type = "Offer"]
  /\ UNCHANGED <<canal, disque, droits, lien, compteurs, livres, annonce, reste, troubles>>

\* The receiver of a peer, created by the first frame it hears.
Destinataire(p) == IF slot[p] = Vide THEN Recepteur ELSE slot[p]

\* traiter_fichiers, the permission granted: an error of the machine is ignored.
Recevoir(p) ==
  /\ "FileDownload" \in perms[p]
  /\ LET t == Head(canal[p])
         x == HandleIncoming(Destinataire(p), t, disque[p])
         complet == x.s.role = "Receiver" /\ x.s.completed # Destinataire(p).completed IN
     /\ slot' = [slot EXCEPT ![p] = x.s]
     /\ disque' = [disque EXCEPT ![p] = x.d]
     /\ livres' = [livres EXCEPT ![p] =
                     IF complet THEN @ \cup {Destinataire(p).cur.fichier}
                     ELSE IF x.d # disque[p] /\ t.type = "Start"
                          THEN @ \ {Destinataire(p).cur.fichier}
                          ELSE @]
     /\ annonce' = IF t.type = "Done" /\ x.s.role = "Receiver" /\ x.s.vie = "Active"
                   THEN [annonce EXCEPT ![p] = @ \cup {t.lot}]
                   ELSE annonce
  /\ UNCHANGED offrePerdue

\* traiter_fichiers, the permission refused: the frame is dropped without a word.
Ignorer(p) ==
  /\ "FileDownload" \notin perms[p]
  /\ offrePerdue' = [offrePerdue EXCEPT ![p] = @ \/ Head(canal[p]).type = "Offer"]
  /\ UNCHANGED <<slot, disque, livres, annonce>>

\* traiter_fichiers needs the lock of the slot.
TrameRecue(p) ==
  /\ ~pompe[p]
  /\ canal[p] # <<>>
  /\ canal' = [canal EXCEPT ![p] = Tail(@)]
  /\ Recevoir(p) \/ Ignorer(p)
  /\ UNCHANGED <<pompe, droits, lien, compteurs, reste, troubles>>

-----------------------------------------------------------------------------
\* traiter_commandes, MajPermissions: applied here, and sent to the host by the controller.
MajPermissions(p) ==
  /\ lien /\ ~pompe[p]
  /\ incidents < MaxIncidents
  /\ \E nouvelles \in SUBSET Capacites \ {perms[p]} :
       /\ perms' = [perms EXCEPT ![p] = nouvelles]
       /\ avis' = IF p = "Controller" THEN Append(avis, nouvelles) ELSE avis
  /\ incidents' = incidents + 1
  /\ troubles' = troubles \cup {"permission"}
  /\ UNCHANGED <<transfert, lien, envois, livres, annonce, offrePerdue, reste>>

\* traiter_controle, MajPermissions: the host applies what the controller asks.
MajRecue ==
  /\ avis # <<>>
  /\ perms' = [perms EXCEPT !["Controlled"] = Head(avis)]
  /\ avis' = Tail(avis)
  /\ UNCHANGED <<transfert, lien, compteurs, histoire>>

\* The link dies with all that is in flight on it; the slots stay.
Couper ==
  /\ lien
  /\ incidents < MaxIncidents
  /\ lien' = FALSE
  /\ canal' = [p \in Pairs |-> <<>>]
  /\ avis' = <<>>
  /\ incidents' = incidents + 1
  /\ troubles' = troubles \cup {"coupure"}
  /\ offrePerdue' = [p \in Pairs |-> offrePerdue[p] \/
                       \E i \in DOMAIN canal[p] : canal[p][i].type = "Offer"]
  /\ UNCHANGED <<slot, pompe, disque, perms, envois, livres, annonce, reste>>

\* A new epoch: new threads, new channels.
Retablir ==
  /\ ~lien
  /\ lien' = TRUE
  /\ pompe' = [p \in Pairs |-> FALSE]
  /\ UNCHANGED <<slot, canal, disque, droits, compteurs, histoire>>

\* TransferSession::cancel, pause and resume, which nd-files offers and nd-core does
\* not call yet.
Piloter(p) ==
  /\ slot[p] # Vide /\ ~pompe[p]
  /\ incidents < MaxIncidents
  /\ slot' \in {[slot EXCEPT ![p] = Cancel(@)], [slot EXCEPT ![p] = Pause(@)]}
  /\ incidents' = incidents + 1
  /\ troubles' = troubles \cup {"pilotage"}
  /\ UNCHANGED <<pompe, canal, disque, droits, lien, envois, livres, annonce, offrePerdue,
                 reste>>

Reprendre(p) ==
  /\ slot[p] # Vide /\ ~pompe[p]
  /\ slot[p].pause
  /\ slot' = [slot EXCEPT ![p] = Resume(@)]
  /\ UNCHANGED <<pompe, canal, disque, droits, lien, compteurs, histoire>>

Next ==
  \/ \E p \in Pairs :
       \/ Envoyer(p) \/ Pomper(p) \/ PomperDansLeVide(p) \/ TrameRecue(p)
       \/ MajPermissions(p) \/ Piloter(p) \/ Reprendre(p)
  \/ MajRecue \/ Couper \/ Retablir

(***************************************************************************)
(* The threads of an epoch keep turning: the emitter pumps, the receiver   *)
(* takes what arrives.  Nothing promises a new epoch, a command or a       *)
(* permission.                                                             *)
(***************************************************************************)
Fairness == \A p \in Pairs : WF_vars(Pomper(p)) /\ WF_vars(TrameRecue(p))

Spec == Init /\ [][Next]_vars /\ Fairness

-----------------------------------------------------------------------------
Vies == {"Active", "CancelPending", "Cancelled"}

Emetteurs ==
  [role : {"Sender"}, vie : Vies, pause : BOOLEAN, queue : Lots, current : Nat \ {0},
   stage : {"Offer", "AwaitResume", "Stream", "Finished"},
   etape : {"Start", "Chunks", "Fini"}, prochain : Nat, base : Nat, done : Nat]

Courants ==
  [fichier : Fichiers, etat : {"Attente", "Reception"}, plan : Fichiers,
   racine : Nat, reprise : Nat, base : Nat, written : Nat]

Recepteurs ==
  [role : {"Receiver"}, vie : Vies, pause : BOOLEAN, cur : Courants \cup {Rien},
   outbox : Seq([type : {"Resume"}, seq : Nat \ {0}, offset : Nat]), done : Nat,
   total : Nat, completed : Nat, next : Nat, finished : BOOLEAN]

\* Types, and what the places of the code imply: a sender that streams has a current
\* file, has not passed its end, and is past the offset it was told to resume from.
TypeOK ==
  /\ slot \in [Pairs -> {Vide} \cup Emetteurs \cup Recepteurs]
  /\ pompe \in [Pairs -> BOOLEAN]
  /\ canal \in [Pairs -> Seq(Trames)]
  /\ disque \in [Pairs -> [Fichiers -> Seq(Morceaux)]]
  /\ lien \in BOOLEAN
  /\ perms \in [Pairs -> SUBSET Capacites]
  /\ avis \in Seq(SUBSET Capacites)
  /\ livres \in [Pairs -> SUBSET Fichiers]
  /\ annonce \in [Pairs -> SUBSET SUBSET Fichiers]
  /\ offrePerdue \in [Pairs -> BOOLEAN]
  /\ reste \in [Pairs -> [Fichiers -> Seq(Morceaux)]]
  /\ \A p \in Pairs : slot[p] \in Emetteurs =>
       LET s == slot[p] IN
       /\ s.current <= Len(s.queue) + 1
       /\ s.stage \in {"AwaitResume", "Stream"} => s.current <= Len(s.queue)
       /\ s.stage = "Stream" =>
            s.base <= s.prochain /\ s.prochain <= Taille[s.queue[s.current]]

\* What transfers may make of a content c under the name f: the first chunks of c, some of
\* those a resumption keeps without reading them, then those of the source.
Repris(d, c, f) ==
  /\ Len(d) <= Taille[f]
  /\ \E k \in 0..OffsetReprise(c, f) :
       k <= Len(d) /\ \A i \in 1..Len(d) : d[i] = IF i <= k THEN c[i] ELSE <<f, i>>

(***************************************************************************)
(* What a transfer writes, it writes in its place: as long as no offer was *)
(* lost, by a cut or by the permission guard, a destination is what was    *)
(* there at the start, or a part of what a resumption keeps of it followed *)
(* by the chunks of the source.  The next transfer keeps what it finds     *)
(* WITHOUT reading it again (accepter_start), so that a chunk written out  *)
(* of place after a cut, a replaced batch or a stale Resume would stay in  *)
(* the file for ever.  The condition is needed: a Resume that answers a    *)
(* replaced batch makes the sender stream its new file, and if the Offer   *)
(* of that file is lost the receiver, which does not compare the name of   *)
(* Start, writes it under the name of the old one.                         *)
(***************************************************************************)
Reprenable ==
  \A p \in Pairs : ~offrePerdue[p] =>
    \A f \in Fichiers :
      disque[p][f] = reste[p][f] \/ Repris(disque[p][f], reste[p][f], f)

\* A content a resumption may start from: longer than the source, and discarded, or a
\* beginning of it.
Fiable(c, f) == Len(c) > Taille[f] \/ \A i \in 1..Len(c) : c[i] = <<f, i>>

(***************************************************************************)
(* A file reported complete (FileCompleted) is the source, whatever was    *)
(* cut or replaced on the way, when its name was free, or held a beginning *)
(* of the source or a longer content.  Another content that is not longer  *)
(* than the source is kept in part, and stays in the file: that is         *)
(* FichierVerifie, below.                                                  *)
(***************************************************************************)
Integre ==
  \A p \in Pairs : ~offrePerdue[p] =>
    \A f \in livres[p] : Fiable(reste[p][f], f) => disque[p][f] = Source(f)

\* The bytes of the first files of a queue, for each number of them.
Cumul(q) ==
  LET c[i \in 0..Len(q)] == IF i = 0 THEN 0 ELSE c[i - 1] + Taille[q[i]] IN c

\* The bytes of the queue, as far as the role knows it.
BytesTotal(s) == IF s.role = "Sender" THEN Cumul(s.queue)[Len(s.queue)] ELSE s.total

(***************************************************************************)
(* The progress shown (session_progress) never exceeds what it is a part   *)
(* of, with files resumed, restarted by a second offer or interrupted by a *)
(* new batch.  The estimated time left rests on it (rate_eta).             *)
(***************************************************************************)
ProgressionBornee ==
  \A p \in Pairs : slot[p].role # "None" /\ ~offrePerdue[p] =>
    BytesDone(slot[p]) <= BytesTotal(slot[p])

Fichiers_(lot) == {lot[i] : i \in DOMAIN lot}

\* The batch of p has reached the disk of the other peer, and both were told.
Abouti(p, lot) ==
  /\ Fichiers_(lot) \in annonce[Autre(p)]
  /\ \A f \in Fichiers_(lot) :
       /\ f \in livres[Autre(p)] /\ Len(disque[Autre(p)][f]) = Taille[f]
       /\ Fiable(reste[Autre(p)][f], f) => disque[Autre(p)][f] = Source(f)

Emet(p, lot) == slot[p].role = "Sender" /\ slot[p].queue = lot

(***************************************************************************)
(* A batch that nothing disturbs is delivered: no cut, no change of the    *)
(* permissions, no other batch under way.  Two machines that wait for each *)
(* other, each with a lock that its own emitter holds while it pumps, must *)
(* not stop half-way, and a second batch must not be hindered by what the  *)
(* first one left in the slots.                                            *)
(***************************************************************************)
TransfertAboutit ==
  \A p \in Pairs, lot \in Lots :
    (Emet(p, lot) /\ troubles = {}) ~> (Abouti(p, lot) \/ troubles # {})

(***************************************************************************)
(* What the code says and does not do.                                     *)
(***************************************************************************)

\* nd-files session.rs, TransferEvent::Finished: the whole queue has been transferred.
\* After a cut in the middle of a file the sender goes on from where it was, the
\* receiver refuses the rest without a word, and Done still announces the queue.
FileTransferee ==
  [][\A p \in Pairs : ~offrePerdue[p] =>
       \A lot \in annonce'[p] \ annonce[p] : \A f \in lot : disque'[p][f] = Source(f)]_vars

\* nd-files session.rs, TransferEvent::FileCompleted: the file is complete, and verified by
\* BLAKE3 at the receiver.  The hash covers what was received in this session: of an older
\* content that is not longer than the source the chunks are kept without being read.
FichierVerifie ==
  \A p \in Pairs : ~offrePerdue[p] => \A f \in livres[p] : disque[p][f] = Source(f)

\* nd-core session.rs, send_files: starts the transfer of a queue of files to the peer.
\* It never starts when the peer's slot still holds its own finished sender.
EnvoiAboutit ==
  \A p \in Pairs, lot \in Lots :
    (Emet(p, lot) /\ troubles \subseteq {"retour"})
      ~> (Abouti(p, lot) \/ ~(troubles \subseteq {"retour"}))

=============================================================================
