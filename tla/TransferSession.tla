--------------------------- MODULE TransferSession ---------------------------
(***************************************************************************)
(* The transfer machine of nd-files (TransferSession, FileSender,          *)
(* FileReceiver) as operators on records: a sender that walks a queue of   *)
(* files, a receiver that writes into a directory, and the frames they     *)
(* exchange.                                                               *)
(*                                                                         *)
(*   Offer(seq) -> Resume(seq, offset) -> Start Chunk* End -> ... -> Done   *)
(*                                                                         *)
(* Lengths and offsets are counted in chunks; a chunk is a pair of a file  *)
(* and an index, so that contents can be compared.  Comparing contents is  *)
(* what the BLAKE3 root hash does.                                         *)
(***************************************************************************)
EXTENDS Naturals, Sequences

CONSTANTS
  Fichiers,   \* the files of the peers, each with a name of its own
  Taille,     \* their lengths
  Inegaux,    \* those whose last chunk is shorter than the others
  Rien        \* no frame, no current file

ASSUME TailleAssumption == Taille \in [Fichiers -> Nat]
ASSUME InegauxAssumption == Inegaux \subseteq {f \in Fichiers : Taille[f] > 0}
ASSUME RienAssumption   == Rien \notin Fichiers

\* The content of the source of a file, and of a part of it.
Source(f)     == [i \in 1..Taille[f] |-> <<f, i>>]
Suffixe(f, n) == SubSeq(Source(f), n + 1, Taille[f])

Vide == [role |-> "None"]

\* TransferSession::send and TransferSession::receive.
Emetteur(queue) ==
  [ role |-> "Sender", vie |-> "Active", pause |-> FALSE,
    queue |-> queue, current |-> 1, stage |-> "Offer",
    etape |-> "Start", prochain |-> 0, base |-> 0, done |-> 0 ]

Recepteur ==
  [ role |-> "Receiver", vie |-> "Active", pause |-> FALSE,
    cur |-> Rien, outbox |-> <<>>, done |-> 0, total |-> 0,
    completed |-> 0, next |-> 0, finished |-> FALSE ]

-----------------------------------------------------------------------------
(***************************************************************************)
(* SenderSide::produce and FileSender::next_message: the next frame, and   *)
(* the sender afterwards.  prochain - base is what has been streamed of    *)
(* the current file.                                                       *)
(***************************************************************************)
Produit(s, t) == [s |-> s, t |-> t]

ProduireOffre(s) ==
  IF s.current > Len(s.queue)
  THEN Produit([s EXCEPT !.stage = "Finished"],
               [type |-> "Done", lot |-> {s.queue[i] : i \in 1..Len(s.queue)}])
  ELSE Produit([s EXCEPT !.stage = "AwaitResume"],
               [type |-> "Offer", seq |-> s.current, fichier |-> s.queue[s.current]])

\* Mutated form of Suivant: the counters of the file are not reset.
SuivantSansRaz(s) ==
  [s EXCEPT !.done = @ + Taille[s.queue[s.current]],
            !.current = @ + 1, !.stage = "Offer"]

\* The current file has been streamed: on to the next one.
Suivant(s) ==
  [s EXCEPT !.done = @ + Taille[s.queue[s.current]],
            !.current = @ + 1, !.base = 0, !.prochain = 0, !.stage = "Offer"]

\* Mutated form of ProduireFlux: one chunk too many.
ProduireFluxUnDeTrop(s) ==
  LET f == s.queue[s.current] IN
  CASE s.etape = "Start" ->
         Produit([s EXCEPT !.etape = "Chunks"],
                 [type |-> "Start", fichier |-> f, racine |-> s.base])
    [] s.etape = "Chunks" /\ s.prochain <= Taille[f] ->
         Produit([s EXCEPT !.prochain = @ + 1],
                 [type |-> "Chunk", index |-> s.prochain, chunk |-> <<f, s.prochain + 1>>])
    [] s.etape = "Chunks" /\ s.prochain > Taille[f] ->
         Produit([s EXCEPT !.etape = "Fini"], [type |-> "End"])
    [] s.etape = "Fini" ->
         ProduireOffre(Suivant(s))

ProduireFlux(s) ==
  LET f == s.queue[s.current] IN
  CASE s.etape = "Start" ->
         Produit([s EXCEPT !.etape = "Chunks"],
                 [type |-> "Start", fichier |-> f, racine |-> s.base])
    [] s.etape = "Chunks" /\ s.prochain < Taille[f] ->
         Produit([s EXCEPT !.prochain = @ + 1],
                 [type |-> "Chunk", index |-> s.prochain, chunk |-> <<f, s.prochain + 1>>])
    [] s.etape = "Chunks" /\ s.prochain >= Taille[f] ->
         Produit([s EXCEPT !.etape = "Fini"], [type |-> "End"])
    [] s.etape = "Fini" ->
         ProduireOffre(Suivant(s))

ProduireEmetteur(s) ==
  CASE s.stage = "Offer"                       -> ProduireOffre(s)
    [] s.stage \in {"AwaitResume", "Finished"} -> Produit(s, Rien)
    [] s.stage = "Stream"                      -> ProduireFlux(s)

\* ReceiverSide::produce.
ProduireRecepteur(r) ==
  IF r.outbox = <<>> THEN Produit(r, Rien)
  ELSE Produit([r EXCEPT !.outbox = Tail(@)], Head(r.outbox))

\* TransferSession::poll_outgoing.
PollOutgoing(s) ==
  CASE s.vie = "CancelPending" -> Produit([s EXCEPT !.vie = "Cancelled"], [type |-> "Cancel"])
    [] s.vie = "Cancelled" \/ (s.vie = "Active" /\ s.pause) -> Produit(s, Rien)
    [] s.vie = "Active" /\ ~s.pause /\ s.role = "Sender"    -> ProduireEmetteur(s)
    [] s.vie = "Active" /\ ~s.pause /\ s.role = "Receiver"  -> ProduireRecepteur(s)

-----------------------------------------------------------------------------
(***************************************************************************)
(* SenderSide::handle.  A frame out of place is an error that changes      *)
(* nothing; so is an offset beyond the end of the file.                    *)
(***************************************************************************)
TraiterEmetteur(s, t) ==
  IF /\ t.type = "Resume"
     /\ s.stage = "AwaitResume"
     /\ t.seq = s.current
     /\ t.offset <= Taille[s.queue[s.current]]
  THEN [s EXCEPT !.stage = "Stream", !.etape = "Start",
                 !.base = t.offset, !.prochain = t.offset]
  ELSE s

(***************************************************************************)
(* ReceiverSide::handle and FileReceiver::accept: the receiver and the     *)
(* directory (a function from names to contents) afterwards.               *)
(***************************************************************************)
Recu(r, d) == [s |-> r, d |-> d]

\* Mutated form of OffsetReprise: a longer destination is cut, not discarded.
OffsetReprisePrefixe(contenu, f) ==
  IF Len(contenu) > Taille[f] THEN Taille[f] ELSE Len(contenu)

\* What is kept of a destination (offset_reprise, accepter_start): its whole chunks.
\* A destination as long as the file ends with the file's own shorter chunk, if it
\* has one, which is not kept.
OffsetReprise(contenu, f) ==
  CASE Len(contenu) > Taille[f] -> 0
    [] Len(contenu) = Taille[f] /\ f \in Inegaux -> Len(contenu) - 1
    [] Len(contenu) < Taille[f] \/ (Len(contenu) = Taille[f] /\ f \notin Inegaux) -> Len(contenu)

\* Mutated form of TraiterOffre: the answer carries the receiver's own index.
TraiterOffreIndexLocal(r, t, d) ==
  LET base == OffsetReprise(d[t.fichier], t.fichier) IN
  Recu([r EXCEPT !.cur = [fichier |-> t.fichier, etat |-> "Attente", plan |-> t.fichier,
                          racine |-> 0, reprise |-> 0, base |-> base, written |-> 0],
                 !.outbox = Append(@, [type |-> "Resume", seq |-> r.next + 1, offset |-> base]),
                 !.next = @ + 1, !.total = @ + Taille[t.fichier]],
       d)

\* An offer makes the file current, even when another one was.
TraiterOffre(r, t, d) ==
  LET base == OffsetReprise(d[t.fichier], t.fichier) IN
  Recu([r EXCEPT !.cur = [fichier |-> t.fichier, etat |-> "Attente", plan |-> t.fichier,
                          racine |-> 0, reprise |-> 0, base |-> base, written |-> 0],
                 !.outbox = Append(@, [type |-> "Resume", seq |-> t.seq, offset |-> base]),
                 !.next = @ + 1, !.total = @ + Taille[t.fichier]],
       d)

\* The destination is opened and truncated to what is kept of it.
TraiterStart(r, t, d) ==
  LET f == r.cur.fichier
      reprise == OffsetReprise(d[f], t.fichier) IN
  IF r.cur.etat = "Attente"
  THEN Recu([r EXCEPT !.cur.etat = "Reception", !.cur.plan = t.fichier,
                      !.cur.racine = t.racine, !.cur.reprise = reprise],
            [d EXCEPT ![f] = SubSeq(@, 1, reprise)])
  ELSE Recu(r, d)

\* Mutated form of TraiterChunk: the index is not compared.
TraiterChunkSansIndex(r, t, d) ==
  LET f == r.cur.fichier IN
  IF r.cur.etat = "Reception" /\ Len(d[f]) < Taille[r.cur.plan]
  THEN Recu([r EXCEPT !.cur.written = @ + 1], [d EXCEPT ![f] = Append(@, t.chunk)])
  ELSE Recu(r, d)

\* A chunk is written when it is the one expected: the offset of the reception is
\* the length of the destination.
TraiterChunk(r, t, d) ==
  LET f == r.cur.fichier IN
  IF r.cur.etat = "Reception" /\ Len(d[f]) < Taille[r.cur.plan] /\ t.index = Len(d[f])
  THEN Recu([r EXCEPT !.cur.written = @ + 1], [d EXCEPT ![f] = Append(@, t.chunk)])
  ELSE Recu(r, d)

\* The hash of what was written is the root hash announced by Start.
EmpreinteJuste(r, d) ==
  SubSeq(d[r.cur.fichier], r.cur.reprise + 1, Len(d[r.cur.fichier]))
    = Suffixe(r.cur.plan, r.cur.racine)

\* End completes the file when every byte is there and the hash is right.
TraiterEnd(r, d) ==
  IF /\ r.cur.etat = "Reception"
     /\ Len(d[r.cur.fichier]) = Taille[r.cur.plan]
     /\ EmpreinteJuste(r, d)
  THEN Recu([r EXCEPT !.cur = Rien, !.completed = @ + 1,
                      !.done = @ + Taille[r.cur.fichier]], d)
  ELSE Recu(r, d)

TraiterRecepteur(r, t, d) ==
  CASE t.type = "Offer" -> TraiterOffre(r, t, d)
    [] t.type = "Start" /\ r.cur # Rien -> TraiterStart(r, t, d)
    [] t.type = "Chunk" /\ r.cur # Rien -> TraiterChunk(r, t, d)
    [] t.type = "End"   /\ r.cur # Rien -> TraiterEnd(r, d)
    [] t.type \in {"Start", "Chunk", "End"} /\ r.cur = Rien -> Recu(r, d)
    [] t.type = "Done"   -> Recu([r EXCEPT !.finished = TRUE], d)
    [] t.type = "Resume" -> Recu(r, d)

\* TransferSession::handle_incoming, one frame.
HandleIncoming(s, t, d) ==
  CASE s.vie # "Active" -> Recu(s, d)
    [] s.vie = "Active" /\ t.type = "Cancel" -> Recu([s EXCEPT !.vie = "Cancelled"], d)
    [] s.vie = "Active" /\ t.type # "Cancel" /\ s.role = "Sender" ->
         Recu(TraiterEmetteur(s, t), d)
    [] s.vie = "Active" /\ t.type # "Cancel" /\ s.role = "Receiver" ->
         TraiterRecepteur(s, t, d)

-----------------------------------------------------------------------------
\* TransferSession::cancel, pause, resume.
Cancel(s) == IF s.vie = "Active" THEN [s EXCEPT !.vie = "CancelPending"] ELSE s
Pause(s)  == [s EXCEPT !.pause = TRUE]
Resume(s) == [s EXCEPT !.pause = FALSE]

\* TransferSession::is_finished.
IsFinished(s) ==
  \/ s.vie = "Cancelled"
  \/ s.role = "Sender" /\ s.stage = "Finished"
  \/ s.role = "Receiver" /\ s.finished

\* session_progress: bytes present, and bytes known, of the whole queue.
BytesDone(s) ==
  CASE s.role = "Sender"   -> s.done + s.prochain
    [] s.role = "Receiver" -> s.done + (IF s.cur = Rien THEN 0 ELSE s.cur.base + s.cur.written)

=============================================================================
