------------------------- MODULE FileTransfer_proofs -------------------------
(***************************************************************************)
(* Proofs about FileTransfer, for all files, queues, directories and       *)
(* bounds: the types, the two properties of what lies on the disks, and    *)
(* the progress shown.                                                     *)
(***************************************************************************)
EXTENDS FileTransfer, WellFoundedInduction, TLAPS

(***************************************************************************)
(* The transfer machine on typed records.                                  *)
(***************************************************************************)
Repertoires == [Fichiers -> Seq(Morceaux)]

\* A sender as TypeOK has it.
Place(s) ==
  /\ s \in Emetteurs
  /\ s.current <= Len(s.queue) + 1
  /\ s.stage \in {"AwaitResume", "Stream"} => s.current <= Len(s.queue)
  /\ s.stage = "Stream" => s.base <= s.prochain /\ s.prochain <= Taille[s.queue[s.current]]

\* The file a Start or a Chunk is about.
Sujet(t) == IF t.type = "Start" THEN t.fichier ELSE t.chunk[1]

\* The current file of a sender, once offered.
Vise(s) == s.queue[s.current]
Offert(s) == s.role = "Sender" /\ s.stage \in {"AwaitResume", "Stream"}

\* The two peers.
LEMMA PairsLemma == \A p \in Pairs : Autre(p) \in Pairs /\ Autre(p) # p /\ Autre(Autre(p)) = p
<1>1. \A p \in Pairs : \E q \in Pairs : q # p
  BY DEF Pairs
<1>2. \A p \in Pairs : Autre(p) \in Pairs /\ Autre(p) # p
  BY <1>1 DEF Autre
<1> QED
  BY <1>2 DEF Pairs

\* The current file of a well-placed sender is one of the files.
LEMMA ViseLemma == ASSUME NEW s, Place(s), s.current <= Len(s.queue)
                   PROVE  /\ Vise(s) \in Fichiers /\ Taille[Vise(s)] \in Nat
                          /\ s.queue \in Seq(Fichiers) /\ s.current \in Nat \ {0}
BY LotsAssumption, TailleAssumption DEF Place, Emetteurs, Vise

\* The next offer, or the end of the queue.
LEMMA ProduireOffreLemma ==
  ASSUME NEW s \in Emetteurs, s.current <= Len(s.queue) + 1
  PROVE  LET x == ProduireOffre(s) IN
         /\ Place(x.s) /\ x.t \in Trames /\ x.t.type \in {"Offer", "Done"}
         /\ Offert(x.s) => x.t.type = "Offer" /\ x.t.fichier = Vise(x.s)
<1> DEFINE x == ProduireOffre(s)
<1>0. s.queue \in Seq(Fichiers) /\ s.current \in Nat \ {0} /\ Len(s.queue) \in Nat
  BY LotsAssumption DEF Emetteurs
<1>1. CASE s.current > Len(s.queue)
  <2>1. x.s = [s EXCEPT !.stage = "Finished"]
        /\ x.t = [type |-> "Done", lot |-> {s.queue[i] : i \in 1..Len(s.queue)}]
    BY <1>1 DEF ProduireOffre, Produit
  <2>2. {s.queue[i] : i \in 1..Len(s.queue)} \in SUBSET Fichiers
    BY <1>0
  <2>3. x.t \in Trames /\ x.t.type = "Done"
    BY <2>1, <2>2 DEF Trames
  <2>4. x.s \in Emetteurs /\ x.s.stage = "Finished" /\ x.s.current = s.current
        /\ x.s.queue = s.queue
    BY <2>1 DEF Emetteurs
  <2> QED
    BY <2>3, <2>4 DEF Place, Offert
<1>2. CASE s.current <= Len(s.queue)
  <2>1. x.s = [s EXCEPT !.stage = "AwaitResume"]
        /\ x.t = [type |-> "Offer", seq |-> s.current, fichier |-> s.queue[s.current]]
    BY <1>0, <1>2 DEF ProduireOffre, Produit
  <2>2. s.queue[s.current] \in Fichiers
    BY <1>0, <1>2
  <2>3. /\ x.t \in Trames /\ x.t.type = "Offer" /\ x.t.fichier = s.queue[s.current]
    BY <1>0, <2>1, <2>2 DEF Trames
  <2>4. x.s \in Emetteurs /\ x.s.stage = "AwaitResume" /\ x.s.current = s.current
        /\ x.s.queue = s.queue
    BY <2>1 DEF Emetteurs
  <2> QED
    BY <1>2, <2>3, <2>4 DEF Place, Offert, Vise
<1> QED
  BY <1>0, <1>1, <1>2

\* What a sender emits, and the sender afterwards.
Emis(s, x) ==
  /\ Place(x.s) /\ x.t \in Trames \cup {Rien}
  /\ x.t = Rien => x.s = s
  /\ x.t # Rien =>
       /\ x.t.type # "Resume"
       /\ x.t.type \in {"Start", "Chunk"} =>
            Offert(s) /\ Offert(x.s) /\ Vise(s) = Sujet(x.t) /\ Vise(x.s) = Sujet(x.t)
       /\ x.t.type = "Chunk" => x.t.chunk[2] = x.t.index + 1
       /\ Offert(x.s) => \/ x.t.type = "Offer" /\ x.t.fichier = Vise(x.s)
                         \/ x.t.type # "Offer" /\ Offert(s) /\ Vise(x.s) = Vise(s)

\* A sender that streams a file emits its Start, its chunks and its End, then the next offer.
LEMMA ProduireFluxLemma ==
  ASSUME NEW s, Place(s), s.stage = "Stream"
  PROVE  Emis(s, ProduireFlux(s))
<1> DEFINE x == ProduireFlux(s)
           f == s.queue[s.current]
<1>0. /\ f \in Fichiers /\ Taille[f] \in Nat /\ f = Vise(s) /\ s \in Emetteurs
      /\ s.prochain \in Nat /\ s.base \in Nat /\ s.current \in Nat \ {0} /\ s.done \in Nat
      /\ s.etape \in {"Start", "Chunks", "Fini"} /\ s.current <= Len(s.queue)
      /\ Len(s.queue) \in Nat /\ Offert(s) /\ s.prochain <= Taille[f] /\ s.base <= s.prochain
  BY ViseLemma, LotsAssumption DEF Place, Emetteurs, Vise, Offert
<1>1. CASE s.etape = "Start"
  <2>1. x.s = [s EXCEPT !.etape = "Chunks"]
        /\ x.t = [type |-> "Start", fichier |-> f, racine |-> s.base]
    BY <1>1 DEF ProduireFlux, Produit
  <2>2. x.t \in Trames /\ x.t.type = "Start" /\ Sujet(x.t) = f
    BY <1>0, <2>1 DEF Trames, Sujet
  <2>3. x.s \in Emetteurs /\ Place(x.s) /\ Offert(x.s) /\ Vise(x.s) = f
    BY <1>0, <2>1 DEF Emetteurs, Place, Offert, Vise
  <2> QED
    BY <1>0, <2>2, <2>3, TramesAssumption DEF Emis
<1>2. CASE s.etape = "Chunks" /\ s.prochain < Taille[f]
  <2>1. x.s = [s EXCEPT !.prochain = @ + 1]
        /\ x.t = [type |-> "Chunk", index |-> s.prochain, chunk |-> <<f, s.prochain + 1>>]
    BY <1>0, <1>2 DEF ProduireFlux, Produit
  <2>2. x.t \in Trames /\ x.t.type = "Chunk" /\ Sujet(x.t) = f /\ x.t.chunk[2] = x.t.index + 1
    BY <1>0, <2>1 DEF Trames, Sujet
  <2>3. x.s \in Emetteurs /\ Place(x.s) /\ Offert(x.s) /\ Vise(x.s) = f
    BY <1>0, <1>2, <2>1 DEF Emetteurs, Place, Offert, Vise
  <2> QED
    BY <1>0, <2>2, <2>3, TramesAssumption DEF Emis
<1>3. CASE s.etape = "Chunks" /\ s.prochain >= Taille[f]
  <2>1. x.s = [s EXCEPT !.etape = "Fini"] /\ x.t = [type |-> "End"]
    BY <1>0, <1>3 DEF ProduireFlux, Produit
  <2>2. x.t \in Trames /\ x.t.type = "End"
    BY <2>1 DEF Trames
  <2>3. x.s \in Emetteurs /\ Place(x.s) /\ Offert(x.s) /\ Vise(x.s) = f
    BY <1>0, <2>1 DEF Emetteurs, Place, Offert, Vise
  <2> QED
    BY <1>0, <2>2, <2>3, TramesAssumption DEF Emis
<1>4. CASE s.etape = "Fini"
  <2>1. x = ProduireOffre(Suivant(s))
    BY <1>4 DEF ProduireFlux
  <2>2. Suivant(s) \in Emetteurs /\ Suivant(s).current <= Len(Suivant(s).queue) + 1
    <3> DEFINE n == s.done + Taille[f]
    <3>1. n \in Nat /\ s.current + 1 \in Nat \ {0} /\ s.current + 1 <= Len(s.queue) + 1
      BY <1>0
    <3> DEFINE s1 == [s EXCEPT !.done = n, !.current = s.current + 1]
               s2 == [s1 EXCEPT !.base = 0, !.prochain = 0]
    <3>2. s1 \in Emetteurs /\ s1.current = s.current + 1 /\ s1.queue = s.queue
      <4> HIDE DEF n
      <4> QED
        BY <1>0, <3>1 DEF Emetteurs
    <3>3. s2 \in Emetteurs /\ s2.current = s.current + 1 /\ s2.queue = s.queue
      <4> HIDE DEF s1
      <4> QED
        BY <3>2 DEF Emetteurs
    <3>4. Suivant(s) = [s2 EXCEPT !.stage = "Offer"]
      BY <1>0 DEF Suivant
    <3>5. /\ Suivant(s) \in Emetteurs
          /\ Suivant(s).current = s.current + 1 /\ Suivant(s).queue = s.queue
      <4> HIDE DEF s2
      <4> QED
        BY <3>3, <3>4 DEF Emetteurs
    <3> QED
      BY <3>1, <3>5
  <2> QED
    BY <2>1, <2>2, ProduireOffreLemma, TramesAssumption DEF Emis
<1> QED
  BY <1>0, <1>1, <1>2, <1>3, <1>4

\* poll_outgoing of a sender.
LEMMA PollEmetteur ==
  ASSUME NEW s, Place(s)
  PROVE  Emis(s, PollOutgoing(s))
<1> DEFINE x == PollOutgoing(s)
<1>0. s \in Emetteurs /\ s.role = "Sender" /\ s.vie \in Vies /\ s.pause \in BOOLEAN
      /\ s.stage \in {"Offer", "AwaitResume", "Stream", "Finished"}
      /\ s.current <= Len(s.queue) + 1
  BY DEF Place, Emetteurs
<1>1. CASE s.vie = "CancelPending"
  <2>1. x.s = [s EXCEPT !.vie = "Cancelled"] /\ x.t = [type |-> "Cancel"]
    BY <1>1 DEF PollOutgoing, Produit
  <2>2. Place(x.s) /\ (Offert(x.s) => Offert(s) /\ Vise(x.s) = Vise(s))
    BY <1>0, <2>1 DEF Place, Emetteurs, Vies, Offert, Vise
  <2>3. x.t \in Trames /\ x.t.type = "Cancel"
    BY <2>1 DEF Trames
  <2> QED
    BY <2>2, <2>3, TramesAssumption DEF Emis
<1>2. CASE s.vie = "Cancelled" \/ (s.vie = "Active" /\ s.pause)
  BY <1>2 DEF PollOutgoing, Produit, Emis
<1>3. CASE s.vie = "Active" /\ ~s.pause
  <2>1. x = ProduireEmetteur(s)
    BY <1>0, <1>3 DEF PollOutgoing
  <2>2. CASE s.stage = "Offer"
    <3>1. x = ProduireOffre(s)
      BY <2>1, <2>2 DEF ProduireEmetteur
    <3> QED
      BY <1>0, <3>1, ProduireOffreLemma, TramesAssumption DEF Emis
  <2>3. CASE s.stage \in {"AwaitResume", "Finished"}
    BY <2>1, <2>3 DEF ProduireEmetteur, Produit, Emis
  <2>4. CASE s.stage = "Stream"
    BY <2>1, <2>4, ProduireFluxLemma DEF ProduireEmetteur
  <2> QED
    BY <1>0, <2>2, <2>3, <2>4
<1> QED
  BY <1>0, <1>1, <1>2, <1>3 DEF Vies

\* poll_outgoing of a receiver: an answer of its outbox, or the Cancel.
LEMMA PollRecepteur ==
  ASSUME NEW r \in Recepteurs
  PROVE  LET x == PollOutgoing(r) IN
         /\ x.s \in Recepteurs /\ x.s.cur = r.cur /\ (x.s.vie = "Active" => r.vie = "Active")
         /\ x.t \in Trames \cup {Rien}
         /\ x.t # Rien => x.t.type \in {"Resume", "Cancel"}
<1> DEFINE x == PollOutgoing(r)
           Reponses == [type : {"Resume"}, seq : Nat \ {0}, offset : Nat]
<1>0. /\ r.role = "Receiver" /\ r.vie \in Vies /\ r.pause \in BOOLEAN
      /\ r.outbox \in Seq(Reponses)
  BY DEF Recepteurs
<1>1. CASE r.vie = "CancelPending"
  <2>1. x.s = [r EXCEPT !.vie = "Cancelled"] /\ x.t = [type |-> "Cancel"]
    BY <1>1 DEF PollOutgoing, Produit
  <2>2. x.s \in Recepteurs /\ x.s.cur = r.cur /\ x.s.vie = "Cancelled"
    BY <2>1 DEF Recepteurs, Vies
  <2> QED
    BY <2>1, <2>2 DEF Trames
<1>2. CASE r.vie = "Cancelled" \/ (r.vie = "Active" /\ r.pause)
  BY <1>2 DEF PollOutgoing, Produit
<1>3. CASE r.vie = "Active" /\ ~r.pause
  <2>1. x = ProduireRecepteur(r)
    BY <1>0, <1>3 DEF PollOutgoing
  <2>2. CASE r.outbox = <<>>
    BY <2>1, <2>2 DEF ProduireRecepteur, Produit
  <2>3. CASE r.outbox # <<>>
    <3>1. x.s = [r EXCEPT !.outbox = Tail(@)] /\ x.t = Head(r.outbox)
      BY <2>1, <2>3 DEF ProduireRecepteur, Produit
    <3>2. Head(r.outbox) \in Reponses /\ Tail(r.outbox) \in Seq(Reponses)
      <4> HIDE DEF Reponses
      <4> QED
        BY <1>0, <2>3
    <3>3. x.s \in Recepteurs /\ x.s.cur = r.cur
      BY <3>1, <3>2 DEF Recepteurs
    <3> QED
      <4>1. x.t \in Trames /\ x.t.type = "Resume"
        <5>1. \A z \in Reponses : z \in Trames /\ z.type = "Resume"
          BY DEF Trames
        <5> HIDE DEF Reponses, x
        <5> QED
          BY <3>1, <3>2, <5>1
      <4>2. x.s.vie = "Active" => r.vie = "Active"
        BY <1>3
      <4> HIDE DEF x
      <4>3. /\ x.s \in Recepteurs /\ x.s.cur = r.cur /\ (x.s.vie = "Active" => r.vie = "Active")
            /\ x.t \in Trames \cup {Rien} /\ (x.t # Rien => x.t.type \in {"Resume", "Cancel"})
        BY <3>3, <4>1, <4>2
      <4> USE DEF x
      <4> QED
        BY <4>3
  <2> QED
    BY <2>2, <2>3
<1> QED
  BY <1>0, <1>1, <1>2, <1>3 DEF Vies

\* A sender that handles a frame streams the file it offered, or stays as it was.
LEMMA TraiterEmetteurLemma ==
  ASSUME NEW s, Place(s), NEW t \in Trames
  PROVE  LET y == TraiterEmetteur(s, t) IN
         Place(y) /\ (Offert(y) => Offert(s) /\ Vise(y) = Vise(s))
<1> DEFINE y == TraiterEmetteur(s, t)
<1>1. CASE y = s
  BY <1>1
<1>2. CASE y # s
  <2>1. /\ t.type = "Resume" /\ s.stage = "AwaitResume"
        /\ t.offset <= Taille[s.queue[s.current]]
        /\ y = [s EXCEPT !.stage = "Stream", !.etape = "Start",
                         !.base = t.offset, !.prochain = t.offset]
    BY <1>2 DEF TraiterEmetteur
  <2>2. t.offset \in Nat
    BY <2>1 DEF Trames
  <2> DEFINE s1 == [s EXCEPT !.stage = "Stream", !.etape = "Start"]
  <2>3. /\ s1 \in Emetteurs /\ s1.stage = "Stream" /\ s1.queue = s.queue
        /\ s1.current = s.current /\ s1.role = "Sender" /\ s.role = "Sender"
    BY DEF Place, Emetteurs
  <2>4. y = [s1 EXCEPT !.base = t.offset, !.prochain = t.offset]
    BY <2>1
  <2>5. /\ y \in Emetteurs /\ y.stage = "Stream" /\ y.queue = s.queue
        /\ y.current = s.current /\ y.base = t.offset /\ y.prochain = t.offset
    <3> HIDE DEF s1
    <3> QED
      BY <2>2, <2>3, <2>4 DEF Emetteurs
  <2>6. s.current <= Len(s.queue)
    BY <2>1 DEF Place
  <2>7. Place(y) /\ Offert(s) /\ Vise(y) = Vise(s)
    <3> HIDE DEF y, s1
    <3> QED
      BY <2>1, <2>2, <2>3, <2>5, <2>6 DEF Place, Offert, Vise
  <2> QED
    BY <2>7
<1> QED
  BY <1>1, <1>2

-----------------------------------------------------------------------------
(***************************************************************************)
(* The contents of the destinations.                                       *)
(***************************************************************************)

\* A content whose chunks are those of the source, all of them, is the source.
LEMMA PrefixeSource ==
  ASSUME NEW f \in Fichiers, NEW c \in Seq(Morceaux),
         Len(c) = Taille[f], \A i \in 1..Len(c) : c[i] = <<f, i>>
  PROVE  c = Source(f)
<1>1. Taille[f] \in Nat
  BY TailleAssumption
<1>2. /\ Source(f) \in Seq(Morceaux) /\ Len(Source(f)) = Taille[f]
      /\ \A i \in 1..Taille[f] : Source(f)[i] = <<f, i>>
  <2>1. PICK n : n = Taille[f]
    OBVIOUS
  <2> DEFINE g == [i \in 1..n |-> <<f, i>>]
  <2>2. n \in Nat /\ \A i \in 1..n : g[i] \in Morceaux /\ g[i] = <<f, i>>
    BY <1>1, <2>1 DEF Morceaux
  <2>3. g \in Seq(Morceaux) /\ Len(g) = n
    <3> HIDE DEF Morceaux
    <3> QED
      BY <2>2
  <2>4. Source(f) = g
    BY <2>1 DEF Source
  <2> HIDE DEF g
  <2> QED
    BY <2>1, <2>2, <2>3, <2>4
<1>3. ASSUME NEW e \in Seq(Morceaux), Len(e) = Len(c), \A i \in 1..Len(c) : e[i] = c[i]
      PROVE  c = e
  BY <1>3
<1>4. PICK e : e = Source(f)
  OBVIOUS
<1>5. e \in Seq(Morceaux) /\ Len(e) = Len(c) /\ \A i \in 1..Len(c) : e[i] = c[i]
  BY <1>2, <1>4
<1>6. c = e
  BY <1>3, <1>5
<1> QED
  BY <1>4, <1>6

\* The beginning of a content.
LEMMA Debut ==
  ASSUME NEW c \in Seq(Morceaux), NEW n \in 0..Len(c)
  PROVE  /\ SubSeq(c, 1, n) \in Seq(Morceaux) /\ Len(SubSeq(c, 1, n)) = n
         /\ \A i \in 1..n : SubSeq(c, 1, n)[i] = c[i]
OBVIOUS

\* What is kept of a destination is a part of it; of a longer one, nothing.
LEMMA OffsetLemma ==
  ASSUME NEW f \in Fichiers, NEW c \in Seq(Morceaux)
  PROVE  /\ OffsetReprise(c, f) \in 0..Len(c) /\ OffsetReprise(c, f) <= Taille[f]
         /\ Len(c) > Taille[f] => OffsetReprise(c, f) = 0
<1>1. Taille[f] \in Nat /\ Len(c) \in Nat /\ (f \in Inegaux => Taille[f] > 0)
  BY TailleAssumption, InegauxAssumption
<1>2. CASE Len(c) > Taille[f]
  BY <1>1, <1>2 DEF OffsetReprise
<1>3. CASE Len(c) = Taille[f] /\ f \in Inegaux
  BY <1>1, <1>3 DEF OffsetReprise
<1>4. CASE Len(c) < Taille[f] \/ (Len(c) = Taille[f] /\ f \notin Inegaux)
  BY <1>1, <1>4 DEF OffsetReprise
<1> QED
  BY <1>1, <1>2, <1>3, <1>4

\* What a resumption keeps is still made of the first content and of the source.
LEMMA ReprisDebut ==
  ASSUME NEW f \in Fichiers, NEW e \in Seq(Morceaux), NEW c \in Seq(Morceaux),
         c = e \/ Repris(c, e, f)
  PROVE  Repris(SubSeq(c, 1, OffsetReprise(c, f)), e, f)
<1>1. PICK m : m = OffsetReprise(c, f)
  OBVIOUS
<1>2. m \in 0..Len(c) /\ m <= Taille[f] /\ Taille[f] \in Nat /\ Len(c) \in Nat
  BY <1>1, OffsetLemma, TailleAssumption
<1>3. PICK n : n = SubSeq(c, 1, m)
  OBVIOUS
<1>4. Len(n) = m /\ \A i \in 1..m : n[i] = c[i]
  BY <1>2, <1>3, Debut
<1>5. CASE c = e
  <2>1. \A i \in 1..Len(n) : n[i] = IF i <= m THEN e[i] ELSE <<f, i>>
    BY <1>2, <1>4, <1>5
  <2> QED
    <3>1. Len(n) <= Taille[f] /\ m <= Len(n) /\ m \in 0..m
      BY <1>2, <1>4
    <3>2. Repris(n, e, f) <=>
            /\ Len(n) <= Taille[f]
            /\ \E k \in 0..m :
                 k <= Len(n) /\ \A i \in 1..Len(n) : n[i] = IF i <= k THEN e[i] ELSE <<f, i>>
      BY <1>1, <1>5 DEF Repris
    <3> QED
      BY <1>1, <1>3, <2>1, <3>1, <3>2
<1>6. CASE Repris(c, e, f)
  <2>1. PICK k \in 0..OffsetReprise(e, f) :
          k <= Len(c) /\ \A i \in 1..Len(c) : c[i] = IF i <= k THEN e[i] ELSE <<f, i>>
    BY <1>6 DEF Repris
  <2>2. PICK o : o = OffsetReprise(e, f)
    OBVIOUS
  <2>3. o \in Nat /\ k \in 0..o
    BY <2>1, <2>2, OffsetLemma
  <2>4. \A i \in 1..m : i \in 1..Len(c)
    BY <1>2
  <2>5. CASE k <= m
    <3>1. \A i \in 1..Len(n) : n[i] = IF i <= k THEN e[i] ELSE <<f, i>>
      BY <1>4, <2>1, <2>4
    <3>2. k \in 0..OffsetReprise(e, f) /\ k <= Len(n)
      BY <1>4, <2>1, <2>5
    <3> QED
      BY <1>1, <1>2, <1>3, <1>4, <3>1, <3>2 DEF Repris
  <2>6. CASE k > m
    <3>1. m \in 0..OffsetReprise(e, f) /\ m <= Len(n)
      BY <1>2, <1>4, <2>2, <2>3, <2>6
    <3>2. \A i \in 1..m : i <= k /\ i <= m
      BY <1>2, <2>3, <2>6
    <3>3. \A i \in 1..Len(n) : n[i] = IF i <= m THEN e[i] ELSE <<f, i>>
      BY <1>4, <2>1, <2>4, <3>2
    <3> QED
      BY <1>1, <1>2, <1>3, <1>4, <3>1, <3>3 DEF Repris
  <2> QED
    BY <1>2, <2>3, <2>5, <2>6
<1> QED
  BY <1>5, <1>6

\* So is what the next chunk of the source, in its place, makes of it.
LEMMA ReprisSuite ==
  ASSUME NEW f \in Fichiers, NEW e \in Seq(Morceaux), NEW c \in Seq(Morceaux),
         c = e \/ Repris(c, e, f), Len(c) < Taille[f]
  PROVE  Repris(Append(c, <<f, Len(c) + 1>>), e, f)
<1>1. PICK z : z = <<f, Len(c) + 1>>
  OBVIOUS
<1>2. z \in Morceaux /\ Len(c) \in Nat /\ Taille[f] \in Nat
  BY <1>1, TailleAssumption DEF Morceaux
<1>3. PICK n : n = Append(c, z)
  OBVIOUS
<1>4. /\ Len(n) = Len(c) + 1 /\ n[Len(c) + 1] = z
      /\ \A i \in 1..Len(c) : n[i] = c[i]
  BY <1>2, <1>3
<1>5. Len(n) <= Taille[f] /\ \A i \in 1..Len(n) : i \in 1..Len(c) \/ i = Len(c) + 1
  BY <1>2, <1>4
<1>6. ASSUME NEW k \in 0..OffsetReprise(e, f), k <= Len(c), k \in Nat,
             \A i \in 1..Len(c) : c[i] = IF i <= k THEN e[i] ELSE <<f, i>>
      PROVE  Repris(n, e, f)
  <2>1. ~(Len(c) + 1 <= k) /\ k <= Len(n)
    BY <1>2, <1>4, <1>6
  <2>2. \A i \in 1..Len(n) : n[i] = IF i <= k THEN e[i] ELSE <<f, i>>
    BY <1>1, <1>4, <1>5, <1>6, <2>1
  <2> QED
    BY <1>5, <1>6, <2>1, <2>2 DEF Repris
<1>7. CASE c = e
  <2>1. OffsetReprise(e, f) = Len(c)
    BY <1>2, <1>7 DEF OffsetReprise
  <2>2. Len(c) \in 0..OffsetReprise(e, f) /\ Len(c) <= Len(c)
    BY <1>2, <2>1
  <2>3. \A i \in 1..Len(c) : c[i] = IF i <= Len(c) THEN e[i] ELSE <<f, i>>
    BY <1>2, <1>7
  <2> QED
    BY <1>1, <1>2, <1>3, <1>6, <2>2, <2>3
<1>8. CASE Repris(c, e, f)
  <2>1. PICK k \in 0..OffsetReprise(e, f) :
          k <= Len(c) /\ \A i \in 1..Len(c) : c[i] = IF i <= k THEN e[i] ELSE <<f, i>>
    BY <1>8 DEF Repris
  <2>2. k \in Nat
    BY <2>1, OffsetLemma
  <2> QED
    BY <1>1, <1>3, <1>6, <2>1, <2>2
<1> QED
  BY <1>7, <1>8

-----------------------------------------------------------------------------
(***************************************************************************)
(* A receiver that handles a frame.                                        *)
(***************************************************************************)

\* What a directory holds is what it held at the start, or what transfers make of it.
Sain(e, d) == \A f \in Fichiers : d[f] = e[f] \/ Repris(d[f], e[f], f)

\* An active receiver that has a current file has this one.
Actuel(r, f) ==
  r.role = "Receiver" /\ r.vie = "Active" /\ r.cur # Rien => r.cur.fichier = f

\* A reception is of the file the sender announced, and does not pass its end.
Enreception(r) == r.role = "Receiver" /\ r.cur # Rien /\ r.cur.etat = "Reception"
Ouvert(r, d) ==
  Enreception(r) =>
    r.cur.plan = r.cur.fichier /\ Len(d[r.cur.fichier]) <= Taille[r.cur.fichier]

\* A frame that is about the current file, each chunk with its own index.
APropos(r, t) ==
  /\ t.type \in {"Start", "Chunk"} => Actuel(r, Sujet(t))
  /\ t.type = "Chunk" => t.chunk[2] = t.index + 1

\* Types and place of the receiver afterwards, whatever the frame.
Range_(r, t, y) ==
  /\ y.s \in Recepteurs /\ y.d \in Repertoires
  /\ y.s.vie = "Active" => r.vie = "Active"
  /\ t.type = "Offer" /\ y.s.vie = "Active" => y.s.cur.fichier = t.fichier
  /\ t.type # "Offer" => y.s.cur = Rien \/ (r.cur # Rien /\ y.s.cur.fichier = r.cur.fichier)

\* What changes on the disk, and when a file is complete.
Touche(r, t, d, y) ==
  /\ \A f \in Fichiers : y.d[f] # d[f] =>
       /\ r.cur # Rien /\ f = r.cur.fichier
       /\ \/ t.type = "Start"
          \/ Enreception(r) /\ Len(d[f]) < Taille[r.cur.plan]
  /\ y.s.completed # r.completed =>
       /\ y.d = d /\ Enreception(r) /\ Len(d[r.cur.fichier]) = Taille[r.cur.plan]

Juste_(r, t, d, y) ==
  Ouvert(r, d) /\ APropos(r, t) =>
    Ouvert(y.s, y.d) /\ \A e \in Repertoires : Sain(e, d) => Sain(e, y.d)

Bien(r, t, d, y) == Range_(r, t, y) /\ Touche(r, t, d, y) /\ Juste_(r, t, d, y)

\* Fields of a receiver.
LEMMA RecepteurLemma ==
  ASSUME NEW r \in Recepteurs
  PROVE  /\ r.role = "Receiver" /\ r.vie \in Vies /\ r.completed \in Nat /\ r.total \in Nat
         /\ r.done \in Nat /\ r.next \in Nat /\ r.cur \in Courants \cup {Rien}
         /\ r.outbox \in Seq([type : {"Resume"}, seq : Nat \ {0}, offset : Nat])
BY DEF Recepteurs

\* A frame that changes nothing, or nothing but the end of the batch.
LEMMA BienInchange ==
  ASSUME NEW r \in Recepteurs, NEW t \in Trames, NEW d \in Repertoires, NEW y,
         y.d = d, y.s \in Recepteurs, y.s.cur = r.cur, y.s.completed = r.completed,
         y.s.vie = "Active" => r.vie = "Active" /\ t.type # "Offer"
  PROVE  Bien(r, t, d, y)
<1>1. Range_(r, t, y)
  BY DEF Range_
<1>2. Touche(r, t, d, y)
  BY DEF Touche
<1>3. Juste_(r, t, d, y)
  BY RecepteurLemma DEF Juste_, Ouvert, Enreception
<1> QED
  BY <1>1, <1>2, <1>3 DEF Bien

\* An Offer makes its file the current one; the destination is not written.
LEMMA BienOffre ==
  ASSUME NEW r \in Recepteurs, NEW t \in Trames, NEW d \in Repertoires,
         t.type = "Offer", r.vie = "Active"
  PROVE  Bien(r, t, d, TraiterOffre(r, t, d))
<1> DEFINE y == TraiterOffre(r, t, d)
           base == OffsetReprise(d[t.fichier], t.fichier)
           cur == [fichier |-> t.fichier, etat |-> "Attente", plan |-> t.fichier,
                   racine |-> 0, reprise |-> 0, base |-> base, written |-> 0]
           rep == [type |-> "Resume", seq |-> t.seq, offset |-> base]
           Reponses == [type : {"Resume"}, seq : Nat \ {0}, offset : Nat]
<1>1. t.fichier \in Fichiers /\ t.seq \in Nat \ {0}
  BY DEF Trames
<1>2. base \in Nat /\ Taille[t.fichier] \in Nat
  <2>1. d[t.fichier] \in Seq(Morceaux)
    BY <1>1 DEF Repertoires
  <2> QED
    BY <1>1, <2>1, OffsetLemma, TailleAssumption
<1>3. cur \in Courants /\ cur.etat = "Attente" /\ cur.fichier = t.fichier
  <2> HIDE DEF base
  <2> QED
    BY <1>1, <1>2 DEF Courants
<1>4. rep \in Reponses
  <2> HIDE DEF base
  <2> QED
    BY <1>1, <1>2
<1>5. Append(r.outbox, rep) \in Seq(Reponses)
  <2>1. r.outbox \in Seq(Reponses)
    BY RecepteurLemma
  <2> HIDE DEF Reponses, rep
  <2> QED
    BY <1>4, <2>1
<1> DEFINE o == Append(r.outbox, rep)
           r1 == [r EXCEPT !.cur = cur, !.outbox = o]
           r2 == [r1 EXCEPT !.next = @ + 1, !.total = @ + Taille[t.fichier]]
<1>6. r1 \in Recepteurs /\ r1.cur = cur /\ r1.completed = r.completed
  <2> HIDE DEF cur, o
  <2> QED
    BY <1>3, <1>5 DEF Recepteurs, o
<1>7. r2 \in Recepteurs /\ r2.cur = cur /\ r2.completed = r.completed
  <2> HIDE DEF r1
  <2>1. r1.next + 1 \in Nat /\ r1.total + Taille[t.fichier] \in Nat
    BY <1>2, <1>6, RecepteurLemma
  <2> HIDE DEF cur
  <2> QED
    BY <1>6, <2>1 DEF Recepteurs
<1>8. y.s = r2 /\ y.d = d
  BY DEF TraiterOffre, Recu
<1> HIDE DEF y, r2, cur
<1>9. Range_(r, t, y)
  BY <1>3, <1>7, <1>8 DEF Range_
<1>10. Touche(r, t, d, y)
  BY <1>7, <1>8 DEF Touche
<1>11. Juste_(r, t, d, y)
  BY <1>3, <1>7, <1>8 DEF Juste_, Ouvert, Enreception
<1> USE DEF y
<1> QED
  BY <1>9, <1>10, <1>11 DEF Bien

\* A Start about the current file opens its destination on what is kept of it, or changes
\* nothing.
LEMMA BienStart ==
  ASSUME NEW r \in Recepteurs, NEW t \in Trames, NEW d \in Repertoires,
         t.type = "Start", r.vie = "Active", r.cur # Rien
  PROVE  Bien(r, t, d, TraiterStart(r, t, d))
<1> DEFINE y == TraiterStart(r, t, d)
           f == r.cur.fichier
           reprise == OffsetReprise(d[f], t.fichier)
<1>0. /\ r.cur \in Courants /\ r.cur \in Courants \cup {Rien} /\ r.role = "Receiver"
      /\ f \in Fichiers /\ t.fichier \in Fichiers /\ t.racine \in Nat
  <2>1. r.cur \in Courants /\ r.role = "Receiver"
    BY RecepteurLemma
  <2> QED
    BY <2>1 DEF Courants, Trames
<1>1. CASE r.cur.etat # "Attente"
  <2>1. y.s = r /\ y.d = d
    BY <1>1 DEF TraiterStart, Recu
  <2> QED
    BY <2>1, BienInchange
<1>2. CASE r.cur.etat = "Attente"
  <2>0. d[f] \in Seq(Morceaux) /\ DOMAIN d = Fichiers
    BY <1>0 DEF Repertoires
  <2>1. /\ y.s = [r EXCEPT !.cur.etat = "Reception", !.cur.plan = t.fichier,
                           !.cur.racine = t.racine, !.cur.reprise = reprise]
        /\ y.d = [d EXCEPT ![f] = SubSeq(@, 1, reprise)]
    BY <1>2 DEF TraiterStart, Recu
  <2>2. reprise \in 0..Len(d[f]) /\ reprise \in Nat
    BY <1>0, <2>0, OffsetLemma
  <2> DEFINE c1 == [r.cur EXCEPT !.etat = "Reception", !.plan = t.fichier]
             c2 == [c1 EXCEPT !.racine = t.racine, !.reprise = reprise]
  <2>3. c1 \in Courants /\ c1.fichier = f /\ c1.etat = "Reception" /\ c1.plan = t.fichier
    BY <1>0 DEF Courants
  <2>4. c2 \in Courants /\ c2.fichier = f /\ c2.etat = "Reception" /\ c2.plan = t.fichier
    <3> HIDE DEF c1, reprise
    <3> QED
      BY <1>0, <2>2, <2>3 DEF Courants
  <2>5. y.s = [r EXCEPT !.cur = c2]
    <3> HIDE DEF reprise
    <3> QED
      BY <2>1, RecepteurLemma DEF Recepteurs
  <2>6. y.s \in Recepteurs /\ y.s.cur = c2 /\ y.s.completed = r.completed
    <3> HIDE DEF c2
    <3> QED
      BY <2>4, <2>5 DEF Recepteurs
  <2> DEFINE n == SubSeq(d[f], 1, reprise)
  <2>7. n \in Seq(Morceaux) /\ Len(n) = reprise
    BY <2>0, <2>2, Debut
  <2>8. /\ y.d \in Repertoires /\ y.d[f] = n
        /\ \A g \in Fichiers : g # f => y.d[g] = d[g]
    <3> HIDE DEF n
    <3>1. y.d = [d EXCEPT ![f] = n]
      BY <2>1 DEF n
    <3> QED
      BY <1>0, <2>7, <3>1 DEF Repertoires
  <2> HIDE DEF y, c2
  <2>9. Range_(r, t, y)
    BY <2>4, <2>6, <2>8 DEF Range_
  <2>10. Touche(r, t, d, y)
    BY <2>6, <2>8 DEF Touche
  <2>11. Juste_(r, t, d, y)
    <3> SUFFICES ASSUME Ouvert(r, d), APropos(r, t)
                 PROVE  Ouvert(y.s, y.d) /\ \A e \in Repertoires : Sain(e, d) => Sain(e, y.d)
      BY DEF Juste_
    <3>1. t.fichier = f
      BY <1>0 DEF APropos, Actuel, Sujet
    <3>2. Len(n) <= Taille[f]
      BY <1>0, <2>0, <2>7, <3>1, OffsetLemma
    <3>3. Ouvert(y.s, y.d)
      <4> HIDE DEF n
      <4> QED
        BY <2>4, <2>6, <2>8, <3>1, <3>2 DEF Ouvert, Enreception
    <3>4. ASSUME NEW e \in Repertoires, Sain(e, d) PROVE Sain(e, y.d)
      <4>1. e[f] \in Seq(Morceaux) /\ (d[f] = e[f] \/ Repris(d[f], e[f], f))
        BY <1>0, <3>4 DEF Sain, Repertoires
      <4>2. Repris(n, e[f], f)
        BY <1>0, <2>0, <3>1, <4>1, ReprisDebut
      <4> HIDE DEF n
      <4> QED
        BY <2>8, <3>4, <4>2 DEF Sain
    <3> QED
      BY <3>3, <3>4
  <2> USE DEF y
  <2> QED
    BY <2>9, <2>10, <2>11 DEF Bien
<1> QED
  BY <1>1, <1>2

\* A Chunk about the current file is the next one of the source, in its place, or is dropped.
LEMMA BienChunk ==
  ASSUME NEW r \in Recepteurs, NEW t \in Trames, NEW d \in Repertoires,
         t.type = "Chunk", r.vie = "Active", r.cur # Rien
  PROVE  Bien(r, t, d, TraiterChunk(r, t, d))
<1> DEFINE y == TraiterChunk(r, t, d)
           f == r.cur.fichier
<1>0. /\ r.cur \in Courants /\ r.role = "Receiver" /\ f \in Fichiers
      /\ t.chunk \in Fichiers \X (Nat \ {0}) /\ t.index \in Nat /\ t.chunk \in Morceaux
  <2>1. r.cur \in Courants /\ r.role = "Receiver"
    BY RecepteurLemma
  <2>2. f \in Fichiers
    BY <2>1 DEF Courants
  <2>3. t.chunk \in Fichiers \X (Nat \ {0}) /\ t.index \in Nat
    BY DEF Trames
  <2> QED
    BY <2>1, <2>2, <2>3 DEF Morceaux
<1>1. CASE ~(r.cur.etat = "Reception" /\ Len(d[f]) < Taille[r.cur.plan] /\ t.index = Len(d[f]))
  <2>1. y.s = r /\ y.d = d
    BY <1>1 DEF TraiterChunk, Recu
  <2> QED
    BY <2>1, BienInchange
<1>2. CASE r.cur.etat = "Reception" /\ Len(d[f]) < Taille[r.cur.plan] /\ t.index = Len(d[f])
  <2>0. d[f] \in Seq(Morceaux) /\ DOMAIN d = Fichiers
    BY <1>0 DEF Repertoires
  <2> DEFINE n == Append(d[f], t.chunk)
             c == [r.cur EXCEPT !.written = @ + 1]
  <2>1. y.s = [r EXCEPT !.cur.written = @ + 1] /\ y.d = [d EXCEPT ![f] = Append(@, t.chunk)]
    BY <1>2 DEF TraiterChunk, Recu
  <2>2. c \in Courants /\ c.fichier = f /\ c.etat = r.cur.etat /\ c.plan = r.cur.plan
    BY <1>0 DEF Courants
  <2>3. y.s = [r EXCEPT !.cur = c]
    BY <2>1 DEF Recepteurs
  <2>4. y.s \in Recepteurs /\ y.s.cur = c /\ y.s.completed = r.completed
    <3> HIDE DEF c
    <3> QED
      BY <2>2, <2>3 DEF Recepteurs
  <2>5. n \in Seq(Morceaux)
    BY <1>0, <2>0
  <2>6. /\ y.d \in Repertoires /\ y.d[f] = n
        /\ \A g \in Fichiers : g # f => y.d[g] = d[g]
    <3>1. y.d = [d EXCEPT ![f] = n]
      BY <2>1
    <3> HIDE DEF n
    <3> QED
      BY <1>0, <2>5, <3>1 DEF Repertoires
  <2> HIDE DEF y, c
  <2>7. Range_(r, t, y)
    BY <2>2, <2>4, <2>6 DEF Range_
  <2>8. Touche(r, t, d, y)
    BY <1>0, <1>2, <2>4, <2>6 DEF Touche, Enreception
  <2>9. Juste_(r, t, d, y)
    <3> SUFFICES ASSUME Ouvert(r, d), APropos(r, t)
                 PROVE  Ouvert(y.s, y.d) /\ \A e \in Repertoires : Sain(e, d) => Sain(e, y.d)
      BY DEF Juste_
    <3>1. r.cur.plan = f /\ Len(d[f]) < Taille[f] /\ Len(d[f]) \in Nat /\ Taille[f] \in Nat
      BY <1>0, <1>2, <2>0, TailleAssumption DEF Ouvert, Enreception
    <3>2. t.chunk = <<f, Len(d[f]) + 1>>
      <4>1. t.chunk[1] = f /\ t.chunk[2] = Len(d[f]) + 1
        BY <1>0, <1>2 DEF APropos, Actuel, Sujet
      <4> QED
        BY <1>0, <4>1
    <3>3. Ouvert(y.s, y.d)
      <4>1. Len(n) = Len(d[f]) + 1
        BY <1>0, <2>0
      <4>2. Len(n) <= Taille[f]
        BY <3>1, <4>1
      <4> HIDE DEF n
      <4> QED
        BY <2>2, <2>4, <2>6, <3>1, <4>2 DEF Ouvert, Enreception
    <3>4. ASSUME NEW e \in Repertoires, Sain(e, d) PROVE Sain(e, y.d)
      <4>1. e[f] \in Seq(Morceaux) /\ (d[f] = e[f] \/ Repris(d[f], e[f], f))
        BY <1>0, <3>4 DEF Sain, Repertoires
      <4>2. Repris(n, e[f], f)
        BY <1>0, <2>0, <3>1, <3>2, <4>1, ReprisSuite
      <4> HIDE DEF n
      <4> QED
        BY <2>6, <3>4, <4>2 DEF Sain
    <3> QED
      BY <3>3, <3>4
  <2> USE DEF y
  <2> QED
    BY <2>7, <2>8, <2>9 DEF Bien
<1> QED
  BY <1>1, <1>2

\* An End closes the reception and leaves the destination as it is.
LEMMA BienEnd ==
  ASSUME NEW r \in Recepteurs, NEW t \in Trames, NEW d \in Repertoires,
         t.type = "End", r.vie = "Active", r.cur # Rien
  PROVE  Bien(r, t, d, TraiterEnd(r, d))
<1> DEFINE y == TraiterEnd(r, d)
           fini == /\ r.cur.etat = "Reception"
                   /\ Len(d[r.cur.fichier]) = Taille[r.cur.plan]
                   /\ EmpreinteJuste(r, d)
<1>1. CASE ~fini
  <2>1. y.s = r /\ y.d = d
    BY <1>1 DEF TraiterEnd, Recu
  <2> QED
    BY <2>1, BienInchange
<1>2. CASE fini
  <2> DEFINE n == Taille[r.cur.fichier]
             r1 == [r EXCEPT !.cur = Rien, !.completed = @ + 1]
  <2>1. y.s = [r1 EXCEPT !.done = @ + n] /\ y.d = d
    BY <1>2 DEF TraiterEnd, Recu, Recepteurs
  <2>2. n \in Nat /\ r.role = "Receiver"
    <3>1. r.cur \in Courants /\ r.role = "Receiver"
      BY RecepteurLemma
    <3> QED
      BY <3>1, TailleAssumption DEF Courants
  <2>3. r1 \in Recepteurs /\ r1.cur = Rien
    <3>1. r.completed + 1 \in Nat
      BY RecepteurLemma
    <3> QED
      BY <3>1 DEF Recepteurs
  <2>4. y.s \in Recepteurs /\ y.s.cur = Rien
    <3> HIDE DEF r1, n
    <3>1. r1.done + n \in Nat
      BY <2>2, <2>3, RecepteurLemma
    <3> QED
      BY <2>1, <2>3, <3>1 DEF Recepteurs
  <2> HIDE DEF y, r1
  <2>5. Range_(r, t, y)
    BY <2>1, <2>4 DEF Range_
  <2>6. Touche(r, t, d, y)
    BY <1>2, <2>1, <2>2 DEF Touche, Enreception
  <2>7. Juste_(r, t, d, y)
    BY <2>1, <2>4 DEF Juste_, Ouvert, Enreception
  <2> USE DEF y
  <2> QED
    BY <2>5, <2>6, <2>7 DEF Bien
<1> QED
  BY <1>1, <1>2

\* The types of the frames.
LEMMA TypesTrames ==
  \A t \in Trames : t.type \in {"Done", "Offer", "Resume", "Start", "Chunk", "End", "Cancel"}
BY DEF Trames

\* handle_incoming of a receiver, whatever the frame.
LEMMA HandleRecepteur ==
  ASSUME NEW r \in Recepteurs, NEW t \in Trames, NEW d \in Repertoires
  PROVE  Bien(r, t, d, HandleIncoming(r, t, d))
<1> DEFINE y == HandleIncoming(r, t, d)
<1>0. r.role = "Receiver" /\ r.vie \in Vies
  BY RecepteurLemma
<1>1. CASE r.vie # "Active"
  <2>1. y.s = r /\ y.d = d
    BY <1>1 DEF HandleIncoming, Recu
  <2> QED
    BY <1>1, <2>1, BienInchange
<1>2. CASE r.vie = "Active" /\ t.type = "Cancel"
  <2>1. y.s = [r EXCEPT !.vie = "Cancelled"] /\ y.d = d
    BY <1>2 DEF HandleIncoming, Recu
  <2>2. y.s \in Recepteurs /\ y.s.cur = r.cur /\ y.s.completed = r.completed
        /\ y.s.vie = "Cancelled"
    BY <2>1 DEF Recepteurs, Vies
  <2> HIDE DEF y
  <2>3. Bien(r, t, d, y)
    BY <2>1, <2>2, BienInchange
  <2> USE DEF y
  <2> QED
    BY <2>3
<1>3. CASE r.vie = "Active" /\ t.type # "Cancel"
  <2>1. y = TraiterRecepteur(r, t, d)
    BY <1>0, <1>3 DEF HandleIncoming
  <2>2. CASE t.type = "Offer"
    BY <1>3, <2>1, <2>2, BienOffre DEF TraiterRecepteur
  <2>3. CASE t.type = "Start" /\ r.cur # Rien
    BY <1>3, <2>1, <2>3, BienStart DEF TraiterRecepteur
  <2>4. CASE t.type = "Chunk" /\ r.cur # Rien
    BY <1>3, <2>1, <2>4, BienChunk DEF TraiterRecepteur
  <2>5. CASE t.type = "End" /\ r.cur # Rien
    BY <1>3, <2>1, <2>5, BienEnd DEF TraiterRecepteur
  <2>6. CASE (t.type \in {"Start", "Chunk", "End"} /\ r.cur = Rien) \/ t.type = "Resume"
    <3>1. y.s = r /\ y.d = d
      BY <2>1, <2>6 DEF TraiterRecepteur, Recu
    <3> QED
      BY <1>3, <2>6, <3>1, BienInchange
  <2>7. CASE t.type = "Done"
    <3> DEFINE fini == [r EXCEPT !.finished = TRUE]
    <3>0. TraiterRecepteur(r, t, d) = Recu(fini, d)
      <4> HIDE DEF fini
      <4>1. TraiterRecepteur(r, t, d) = Recu([r EXCEPT !.finished = TRUE], d)
        BY <2>7, Zenon DEF TraiterRecepteur
      <4> QED
        BY <4>1 DEF fini
    <3>1. y.s = [r EXCEPT !.finished = TRUE] /\ y.d = d
      BY <2>1, <3>0 DEF Recu
    <3>2. y.s \in Recepteurs /\ y.s.cur = r.cur /\ y.s.completed = r.completed
      BY <3>1 DEF Recepteurs
    <3> HIDE DEF y
    <3>3. Bien(r, t, d, y)
      BY <1>3, <2>7, <3>1, <3>2, BienInchange
    <3> USE DEF y
    <3> QED
      BY <3>3
  <2> QED
    BY <1>3, <2>2, <2>3, <2>4, <2>5, <2>6, <2>7, TypesTrames
<1> QED
  BY <1>1, <1>2, <1>3

-----------------------------------------------------------------------------
(***************************************************************************)
(* The frames on their way: what precedes a frame makes its file current.  *)
(***************************************************************************)

\* Where position i of the channel is reached, f is the current file of the receiver: it
\* is the last one offered before, or no other was and it is current now.
Suit(c, i, f, r) ==
  \/ \E j \in 1..(i - 1) : /\ c[j].type = "Offer" /\ c[j].fichier = f
                           /\ \A k \in (j + 1)..(i - 1) : c[k].type # "Offer"
  \/ (\A j \in 1..(i - 1) : c[j].type # "Offer") /\ Actuel(r, f)

\* It is so of every Start and Chunk of the channel, and of what the sender emits next.
Fil(c, s, r) ==
  /\ \A i \in 1..Len(c) :
       /\ c[i].type \in {"Start", "Chunk"} => Suit(c, i, Sujet(c[i]), r)
       /\ c[i].type = "Chunk" => c[i].chunk[2] = c[i].index + 1
  /\ Offert(s) => Suit(c, Len(c) + 1, Vise(s), r)

\* What a sender emits is about the file it has offered.
Enchaine(s, t, s2) ==
  /\ t.type \in {"Start", "Chunk"} => Offert(s) /\ Vise(s) = Sujet(t)
  /\ t.type = "Chunk" => t.chunk[2] = t.index + 1
  /\ Offert(s2) => \/ t.type = "Offer" /\ t.fichier = Vise(s2)
                   \/ t.type # "Offer" /\ Offert(s) /\ Vise(s2) = Vise(s)

\* A frame emitted at the end of the channel is about the last file offered before it.
LEMMA Empiler ==
  ASSUME NEW c \in Seq(Trames), NEW t \in Trames, NEW s, NEW s2, NEW r,
         Fil(c, s, r), Enchaine(s, t, s2)
  PROVE  Fil(Append(c, t), s2, r)
<1> DEFINE n == Append(c, t)
<1>1. /\ Len(c) \in Nat /\ Len(n) = Len(c) + 1 /\ n[Len(c) + 1] = t
      /\ \A i \in 1..Len(c) : n[i] = c[i]
  <2> HIDE DEF Trames
  <2> QED
    OBVIOUS
<1> HIDE DEF n
<1>2. ASSUME NEW i \in 1..(Len(c) + 1), NEW f, Suit(c, i, f, r) PROVE Suit(n, i, f, r)
  <2>1. \A j \in 1..(i - 1) : n[j] = c[j]
    BY <1>1
  <2>2. CASE \E j \in 1..(i - 1) : /\ c[j].type = "Offer" /\ c[j].fichier = f
                                   /\ \A k \in (j + 1)..(i - 1) : c[k].type # "Offer"
    <3>1. PICK j \in 1..(i - 1) : /\ c[j].type = "Offer" /\ c[j].fichier = f
                                  /\ \A k \in (j + 1)..(i - 1) : c[k].type # "Offer"
      BY <2>2
    <3>2. \A k \in (j + 1)..(i - 1) : k \in 1..(i - 1)
      BY <1>1
    <3> QED
      BY <2>1, <3>1, <3>2 DEF Suit
  <2>3. CASE (\A j \in 1..(i - 1) : c[j].type # "Offer") /\ Actuel(r, f)
    BY <2>1, <2>3 DEF Suit
  <2> QED
    BY <1>2, <2>2, <2>3 DEF Suit
<1>3. \A i \in 1..Len(n) : i \in 1..Len(c) \/ i = Len(c) + 1
  BY <1>1
<1>4. ASSUME NEW i \in 1..Len(n)
      PROVE  /\ n[i].type \in {"Start", "Chunk"} => Suit(n, i, Sujet(n[i]), r)
             /\ n[i].type = "Chunk" => n[i].chunk[2] = n[i].index + 1
  <2>1. CASE i \in 1..Len(c)
    <3>1. n[i] = c[i] /\ i \in 1..(Len(c) + 1)
      BY <1>1, <2>1
    <3> QED
      BY <1>2, <2>1, <3>1 DEF Fil
  <2>2. CASE i = Len(c) + 1
    <3>1. n[i] = t /\ i \in 1..(Len(c) + 1)
      BY <1>1, <2>2
    <3> QED
      BY <1>2, <2>2, <3>1 DEF Fil, Enchaine
  <2> QED
    BY <1>3, <2>1, <2>2
<1>5. ASSUME Offert(s2) PROVE Suit(n, Len(n) + 1, Vise(s2), r)
  <2>0. Len(n) + 1 - 1 = Len(c) + 1 /\ Len(c) + 1 \in 1..(Len(c) + 1)
    BY <1>1
  <2>1. CASE t.type = "Offer" /\ t.fichier = Vise(s2)
    <3>1. \A k \in (Len(c) + 2)..(Len(c) + 1) : FALSE
      BY <1>1
    <3> QED
      BY <1>1, <2>0, <2>1, <3>1 DEF Suit
  <2>2. CASE t.type # "Offer" /\ Offert(s) /\ Vise(s2) = Vise(s)
    <3> DEFINE f == Vise(s)
               m == Len(c) + 1
    <3>1. Suit(n, m, f, r) /\ m \in Nat /\ n[m].type # "Offer" /\ Len(n) + 1 - 1 = m
      BY <1>1, <1>2, <2>0, <2>2 DEF Fil
    <3> HIDE DEF f, m
    <3>2. \A k \in 1..m : k \in 1..(m - 1) \/ k = m
      BY <3>1
    <3>3. Suit(n, m + 1, f, r)
      <4>1. CASE \E j \in 1..(m - 1) : /\ n[j].type = "Offer" /\ n[j].fichier = f
                                       /\ \A k \in (j + 1)..(m - 1) : n[k].type # "Offer"
        <5>1. PICK j \in 1..(m - 1) : /\ n[j].type = "Offer" /\ n[j].fichier = f
                                      /\ \A k \in (j + 1)..(m - 1) : n[k].type # "Offer"
          BY <4>1
        <5>2. j \in 1..m /\ (m + 1) - 1 = m
              /\ \A k \in (j + 1)..m : k \in (j + 1)..(m - 1) \/ k = m
          BY <3>1
        <5> QED
          BY <3>1, <5>1, <5>2 DEF Suit
      <4>2. CASE (\A j \in 1..(m - 1) : n[j].type # "Offer") /\ Actuel(r, f)
        <5>1. (m + 1) - 1 = m
          BY <3>1
        <5> QED
          BY <3>1, <3>2, <4>2, <5>1 DEF Suit
      <4> QED
        BY <3>1, <4>1, <4>2 DEF Suit
    <3>4. Len(n) + 1 = m + 1
      BY <1>1 DEF m
    <3> QED
      BY <2>2, <3>3, <3>4 DEF f
  <2> QED
    BY <1>5, <2>1, <2>2 DEF Enchaine
<1>6. Fil(n, s2, r)
  BY <1>4, <1>5 DEF Fil
<1> USE DEF n
<1> QED
  BY <1>6

\* The first frame is handled: it is about the current file, and so are the others.
LEMMA Depiler ==
  ASSUME NEW c \in Seq(Trames), c # <<>>, NEW s, NEW r, NEW r2, Fil(c, s, r),
         Head(c).type = "Offer" => Actuel(r2, Head(c).fichier),
         Head(c).type # "Offer" => \A f : Actuel(r, f) => Actuel(r2, f)
  PROVE  APropos(r, Head(c)) /\ Fil(Tail(c), s, r2)
<1> DEFINE t == Head(c)
           n == Tail(c)
<1>1. /\ Len(c) \in Nat \ {0} /\ Len(n) = Len(c) - 1 /\ t = c[1]
      /\ \A i \in 1..(Len(c) - 1) : n[i] = c[i + 1]
  <2> HIDE DEF Trames
  <2> QED
    OBVIOUS
<1> HIDE DEF n, t
<1>2. APropos(r, t)
  <2>1. 1 \in 1..Len(c) /\ \A j \in 1..(1 - 1) : FALSE
    BY <1>1
  <2>2. \A f : Suit(c, 1, f, r) => Actuel(r, f)
    BY <2>1 DEF Suit
  <2> QED
    BY <1>1, <2>1, <2>2 DEF APropos, Fil
<1>a. t.type = "Offer" => Actuel(r2, t.fichier)
  BY DEF t
<1>b. t.type # "Offer" => \A f : Actuel(r, f) => Actuel(r2, f)
  BY DEF t
<1>3. ASSUME NEW i \in 1..Len(c), NEW f, Suit(c, i + 1, f, r) PROVE Suit(n, i, f, r2)
  <2>0. (i + 1) - 1 = i /\ i \in Nat /\ \A k \in 1..(i - 1) : n[k] = c[k + 1] /\ k + 1 \in 1..i
    BY <1>1
  <2>1. CASE \E j \in 1..i : /\ c[j].type = "Offer" /\ c[j].fichier = f
                             /\ \A k \in (j + 1)..i : c[k].type # "Offer"
    <3>1. PICK j \in 1..i : /\ c[j].type = "Offer" /\ c[j].fichier = f
                            /\ \A k \in (j + 1)..i : c[k].type # "Offer"
      BY <2>1
    <3>2. CASE j = 1
      <4>1. \A k \in 1..(i - 1) : k + 1 \in (j + 1)..i
        BY <1>1, <3>2
      <4>2. \A k \in 1..(i - 1) : n[k].type # "Offer"
        BY <2>0, <3>1, <4>1
      <4> QED
        BY <1>1, <1>a, <3>1, <3>2, <4>2 DEF Suit
    <3>3. CASE j # 1
      <4>1. /\ j - 1 \in 1..(i - 1) /\ (j - 1) + 1 = j
            /\ \A k \in ((j - 1) + 1)..(i - 1) : k \in 1..(i - 1) /\ k + 1 \in (j + 1)..i
        BY <1>1, <3>3
      <4>2. n[j - 1] = c[j] /\ \A k \in ((j - 1) + 1)..(i - 1) : n[k].type # "Offer"
        BY <2>0, <3>1, <4>1
      <4> QED
        BY <3>1, <4>1, <4>2 DEF Suit
    <3> QED
      BY <3>2, <3>3
  <2>2. CASE (\A j \in 1..i : c[j].type # "Offer") /\ Actuel(r, f)
    <3>1. 1 \in 1..i /\ t.type # "Offer"
      BY <1>1, <2>2
    <3> QED
      BY <1>b, <2>0, <2>2, <3>1 DEF Suit
  <2> QED
    BY <1>3, <2>0, <2>1, <2>2 DEF Suit
<1>4. ASSUME NEW i \in 1..Len(n)
      PROVE  /\ n[i].type \in {"Start", "Chunk"} => Suit(n, i, Sujet(n[i]), r2)
             /\ n[i].type = "Chunk" => n[i].chunk[2] = n[i].index + 1
  <2>1. i \in 1..Len(c) /\ i + 1 \in 1..Len(c) /\ n[i] = c[i + 1]
    BY <1>1
  <2> QED
    BY <1>3, <2>1 DEF Fil
<1>5. ASSUME Offert(s) PROVE Suit(n, Len(n) + 1, Vise(s), r2)
  <2>1. Len(n) + 1 = Len(c) /\ Len(c) \in 1..Len(c)
    BY <1>1
  <2> QED
    BY <1>3, <1>5, <2>1 DEF Fil
<1>6. Fil(n, s, r2)
  BY <1>4, <1>5 DEF Fil
<1> USE DEF n, t
<1> QED
  BY <1>2, <1>6

\* The channel loses frames that offer nothing.
LEMMA Vider ==
  ASSUME NEW c \in Seq(Trames), NEW s, NEW r, Fil(c, s, r),
         \A i \in DOMAIN c : c[i].type # "Offer"
  PROVE  Fil(<<>>, s, r)
<1>1. Len(c) \in Nat /\ (Len(c) + 1) - 1 = Len(c) /\ DOMAIN c = 1..Len(c)
  <2> HIDE DEF Trames
  <2> QED
    OBVIOUS
<1>2. ASSUME Offert(s) PROVE Actuel(r, Vise(s))
  BY <1>1, <1>2 DEF Fil, Suit
<1>3. Len(<<>>) = 0 /\ \A j \in 1..((0 + 1) - 1) : FALSE
  OBVIOUS
<1> QED
  BY <1>2, <1>3 DEF Fil, Suit

\* The sender or the receiver changes, not what it has offered or is current.
LEMMA Changer ==
  ASSUME NEW c, NEW s, NEW r, NEW s2, NEW r2, Fil(c, s, r),
         Offert(s2) => Offert(s) /\ Vise(s2) = Vise(s),
         \A f : Actuel(r, f) => Actuel(r2, f)
  PROVE  Fil(c, s2, r2)
<1>1. \A i, f : Suit(c, i, f, r) => Suit(c, i, f, r2)
  BY DEF Suit
<1> QED
  BY <1>1 DEF Fil

-----------------------------------------------------------------------------
(***************************************************************************)
(* The slots of the peers.                                                 *)
(***************************************************************************)
Bonne(x) == x = Vide \/ Place(x) \/ x \in Recepteurs

\* The role of each.
LEMMA Roles ==
  ASSUME NEW x, Bonne(x)
  PROVE  /\ x.role \in {"None", "Sender", "Receiver"}
         /\ x.role = "None" <=> x = Vide
         /\ x.role = "Sender" <=> Place(x)
         /\ x.role = "Receiver" <=> x \in Recepteurs
<1>1. Vide.role = "None"
  BY DEF Vide
<1>2. \A y : Place(y) => y.role = "Sender"
  BY DEF Place, Emetteurs
<1>3. \A y \in Recepteurs : y.role = "Receiver"
  BY RecepteurLemma
<1> QED
  BY <1>1, <1>2, <1>3 DEF Bonne

\* TypeOK, with the slots apart.
TypeReste ==
  /\ pompe \in [Pairs -> BOOLEAN]
  /\ canal \in [Pairs -> Seq(Trames)]
  /\ disque \in [Pairs -> Repertoires]
  /\ lien \in BOOLEAN
  /\ perms \in [Pairs -> SUBSET Capacites]
  /\ avis \in Seq(SUBSET Capacites)
  /\ livres \in [Pairs -> SUBSET Fichiers]
  /\ annonce \in [Pairs -> SUBSET SUBSET Fichiers]
  /\ offrePerdue \in [Pairs -> BOOLEAN]
  /\ reste \in [Pairs -> Repertoires]
TypeSlots == slot \in [Pairs -> {x \in {Vide} \cup Emetteurs \cup Recepteurs : Bonne(x)}]
Types == TypeSlots /\ TypeReste

\* Types is the type invariant, told slot by slot.
LEMMA TypesLemma == Types <=> TypeOK
<1>1. \A x : Bonne(x) => x \in {Vide} \cup Emetteurs \cup Recepteurs
  BY DEF Bonne, Place
<1>2. \A x : Bonne(x) /\ x \in Emetteurs => Place(x)
  <2>1. \A x \in Emetteurs : x.role = "Sender"
    BY DEF Emetteurs
  <2> QED
    BY <2>1, Roles
<1>3. ASSUME NEW x \in Emetteurs
      PROVE  Place(x) <=>
               /\ x.current <= Len(x.queue) + 1
               /\ x.stage \in {"AwaitResume", "Stream"} => x.current <= Len(x.queue)
               /\ x.stage = "Stream" =>
                    x.base <= x.prochain /\ x.prochain <= Taille[x.queue[x.current]]
  BY DEF Place
<1>4. ASSUME Types PROVE TypeOK
  BY <1>2, <1>3, <1>4 DEF Types, TypeSlots, TypeReste, TypeOK, Repertoires
<1>5. ASSUME TypeOK PROVE Types
  <2>1. ASSUME NEW p \in Pairs
        PROVE  slot[p] \in {Vide} \cup Emetteurs \cup Recepteurs /\ Bonne(slot[p])
    BY <1>3, <1>5 DEF TypeOK, Bonne
  <2>2. TypeSlots
    BY <1>5, <2>1 DEF TypeOK, TypeSlots
  <2> QED
    BY <1>5, <2>2 DEF TypeOK, Types, TypeReste, Repertoires
<1> QED
  BY <1>4, <1>5

\* The slots are as they should be when each of them is.
LEMMA SlotsLemma ==
  ASSUME NEW f, DOMAIN f = Pairs, f = [p \in Pairs |-> f[p]], \A p \in Pairs : Bonne(f[p])
  PROVE  f \in [Pairs -> {x \in {Vide} \cup Emetteurs \cup Recepteurs : Bonne(x)}]
<1>1. \A x : Bonne(x) => x \in {Vide} \cup Emetteurs \cup Recepteurs
  BY DEF Bonne, Place
<1> HIDE DEF Bonne
<1> QED
  BY <1>1

\* One of them changes.
LEMMA UnSlot ==
  ASSUME TypeSlots, NEW p \in Pairs, NEW x, Bonne(x), slot' = [slot EXCEPT ![p] = x]
  PROVE  /\ TypeSlots' /\ slot'[p] = x
         /\ \A q \in Pairs : q # p => slot'[q] = slot[q]
<1>1. x \in {Vide} \cup Emetteurs \cup Recepteurs
  BY DEF Bonne, Place
<1> DEFINE S == {y \in {Vide} \cup Emetteurs \cup Recepteurs : Bonne(y)}
<1>2. x \in S /\ slot \in [Pairs -> S]
  BY <1>1 DEF TypeSlots
<1> HIDE DEF S
<1>3. /\ slot' \in [Pairs -> S] /\ slot'[p] = x
      /\ \A q \in Pairs : q # p => slot'[q] = slot[q]
  BY <1>2
<1> USE DEF S
<1> QED
  BY <1>3 DEF TypeSlots

\* A slot that neither receives nor emits keeps its reception.
MemeReception(x, y) ==
  y.role = "Receiver" =>
    x.role = "Receiver" /\ y.cur = x.cur /\ (y.vie = "Active" => x.vie = "Active")

\* A slot with the same reception has the same current file and the same open destination.
LEMMA MemeReceptionLemma ==
  ASSUME NEW x, NEW y, MemeReception(x, y)
  PROVE  /\ \A f : Actuel(x, f) => Actuel(y, f)
         /\ \A d : Ouvert(x, d) => Ouvert(y, d)
BY DEF MemeReception, Actuel, Ouvert, Enreception

\* poll_outgoing of any slot.
Emission(x, y) ==
  /\ Bonne(y.s) /\ y.t \in Trames \cup {Rien}
  /\ MemeReception(x, y.s)
  /\ y.t = Rien => (Offert(y.s) => Offert(x) /\ Vise(y.s) = Vise(x))
  /\ y.t # Rien => Enchaine(x, y.t, y.s)

\* poll_outgoing of either role, as Pomper calls it.
LEMMA PollSlot ==
  ASSUME NEW x, Bonne(x), x # Vide
  PROVE  Emission(x, PollOutgoing(x))
<1> DEFINE y == PollOutgoing(x)
<1>1. CASE Place(x)
  <2>1. Emis(x, y)
    BY <1>1, PollEmetteur
  <2> HIDE DEF y
  <2>2. y.s.role = "Sender"
    BY <2>1, Roles DEF Emis, Bonne
  <2>3. Emission(x, y)
    BY <2>1, <2>2 DEF Emis, Emission, Bonne, MemeReception, Enchaine
  <2> USE DEF y
  <2> QED
    BY <2>3
<1>2. CASE x \in Recepteurs
  <2>1. /\ y.s \in Recepteurs /\ y.s.cur = x.cur /\ (y.s.vie = "Active" => x.vie = "Active")
        /\ y.t \in Trames \cup {Rien} /\ (y.t # Rien => y.t.type \in {"Resume", "Cancel"})
    BY <1>2, PollRecepteur
  <2> HIDE DEF y
  <2>2. y.s.role = "Receiver" /\ x.role = "Receiver"
    BY <1>2, <2>1, RecepteurLemma
  <2>3. Emission(x, y)
    BY <2>1, <2>2 DEF Emission, Bonne, MemeReception, Enchaine, Offert
  <2> USE DEF y
  <2> QED
    BY <2>3
<1> QED
  BY <1>1, <1>2 DEF Bonne

\* A fresh receiver.
LEMMA RecepteurNeuf == Recepteur \in Recepteurs /\ Recepteur.cur = Rien
BY DEF Recepteur, Recepteurs, Vies

\* handle_incoming of any slot, created if it was empty.
Accueil(x) == IF x = Vide THEN Recepteur ELSE x
Traitement(x, t, d, y) ==
  /\ Bonne(y.s) /\ y.d \in Repertoires
  /\ Offert(y.s) => Offert(x) /\ Vise(y.s) = Vise(x)
  /\ t.type = "Offer" => Actuel(y.s, t.fichier)
  /\ t.type # "Offer" => \A f : Actuel(x, f) => Actuel(y.s, f)
  /\ Ouvert(x, d) /\ APropos(x, t) =>
       Ouvert(y.s, y.d) /\ \A e \in Repertoires : Sain(e, d) => Sain(e, y.d)
  /\ \/ y.s.role = "Receiver" /\ Accueil(x) \in Recepteurs /\ Touche(Accueil(x), t, d, y)
     \/ y.s.role # "Receiver" /\ y.d = d

\* handle_incoming of either role, as Recevoir calls it.
LEMMA HandleSlot ==
  ASSUME NEW x, Bonne(x), NEW t \in Trames, NEW d \in Repertoires
  PROVE  Traitement(x, t, d, HandleIncoming(Accueil(x), t, d))
<1> DEFINE r == Accueil(x)
           y == HandleIncoming(r, t, d)
<1>1. CASE Place(x)
  <2>1. r = x /\ x.role = "Sender" /\ x.vie \in Vies
    BY <1>1, Roles DEF Accueil, Bonne, Place, Emetteurs, Vide
  <2>2. y.d = d /\ Place(y.s) /\ (Offert(y.s) => Offert(x) /\ Vise(y.s) = Vise(x))
    <3>1. CASE x.vie # "Active"
      BY <1>1, <2>1, <3>1 DEF HandleIncoming, Recu
    <3>2. CASE x.vie = "Active" /\ t.type = "Cancel"
      <4>1. y.s = [x EXCEPT !.vie = "Cancelled"] /\ y.d = d
        BY <2>1, <3>2 DEF HandleIncoming, Recu
      <4> QED
        BY <1>1, <4>1 DEF Place, Emetteurs, Vies, Offert, Vise
    <3>3. CASE x.vie = "Active" /\ t.type # "Cancel"
      <4>1. y.s = TraiterEmetteur(x, t) /\ y.d = d
        BY <2>1, <3>3 DEF HandleIncoming, Recu
      <4> QED
        BY <1>1, <4>1, TraiterEmetteurLemma
    <3> QED
      BY <3>1, <3>2, <3>3
  <2> HIDE DEF y
  <2>3. y.s.role = "Sender" /\ Bonne(y.s)
    BY <2>2, Roles DEF Bonne
  <2>4. Traitement(x, t, d, y)
    BY <2>2, <2>3 DEF Traitement, Actuel, Ouvert, Enreception
  <2> USE DEF y
  <2> QED
    BY <2>4
<1>2. CASE x \in Recepteurs \/ x = Vide
  <2>1. r \in Recepteurs /\ r.role = "Receiver"
    BY <1>2, RecepteurNeuf, RecepteurLemma DEF Accueil
  <2>2. Bien(r, t, d, y)
    BY <2>1, HandleRecepteur
  <2>3. /\ \A f : Actuel(x, f) => Actuel(r, f)
        /\ Ouvert(x, d) => Ouvert(r, d)
        /\ APropos(x, t) => APropos(r, t)
    <3>1. CASE x \in Recepteurs
      <4>1. x # Vide
        BY <3>1, RecepteurLemma DEF Vide
      <4> QED
        BY <4>1 DEF Accueil
    <3>2. CASE x = Vide
      BY <3>2, RecepteurNeuf DEF Accueil, Actuel, Ouvert, Enreception, APropos
    <3> QED
      BY <1>2, <3>1, <3>2
  <2> HIDE DEF y, r
  <2>4. y.s \in Recepteurs /\ y.s.role = "Receiver" /\ y.d \in Repertoires
    BY <2>2, RecepteurLemma DEF Bien, Range_
  <2>5. t.type = "Offer" => Actuel(y.s, t.fichier)
    BY <2>2 DEF Bien, Range_, Actuel
  <2>6. t.type # "Offer" => \A f : Actuel(x, f) => Actuel(y.s, f)
    BY <2>1, <2>2, <2>3, <2>4 DEF Bien, Range_, Actuel
  <2>7. Ouvert(x, d) /\ APropos(x, t) =>
          Ouvert(y.s, y.d) /\ \A e \in Repertoires : Sain(e, d) => Sain(e, y.d)
    BY <2>2, <2>3 DEF Bien, Juste_
  <2>8. r = Accueil(x)
    BY DEF r
  <2>9. Traitement(x, t, d, y)
    BY <2>1, <2>2, <2>4, <2>5, <2>6, <2>7, <2>8 DEF Traitement, Bien, Bonne, Offert
  <2> USE DEF y, r
  <2> QED
    BY <2>9
<1> QED
  BY <1>1, <1>2 DEF Bonne

-----------------------------------------------------------------------------
(***************************************************************************)
(* Types.                                                                  *)
(***************************************************************************)
LEMMA TypesInit == Init => Types
<1> SUFFICES ASSUME Init PROVE Types
  OBVIOUS
<1>1. TypeSlots
  BY SlotsLemma DEF Init, TypeSlots, Bonne
<1>2. disque \in [Pairs -> Repertoires]
  <2>1. disque \in [Pairs -> UNION {Restes[p] : p \in Pairs}] /\ \A p \in Pairs : disque[p] \in Restes[p]
    BY DEF Init
  <2> QED
    BY <2>1, RestesAssumption DEF Repertoires
<1>3. <<>> \in Seq(Trames) /\ <<>> \in Seq(SUBSET Capacites)
  OBVIOUS
<1> QED
  BY <1>1, <1>2, <1>3 DEF Init, Types, TypeReste, Capacites

\* A slot holds a new sender.
LEMMA EmetteurLemma ==
  ASSUME NEW lot \in Lots
  PROVE  Place(Emetteur(lot)) /\ ~Offert(Emetteur(lot))
<1> DEFINE s == Emetteur(lot)
<1>1. /\ s.current = 1 /\ s.stage = "Offer" /\ s.queue = lot /\ s \in Emetteurs
  BY DEF Emetteur, Emetteurs, Vies
<1>2. Len(lot) \in Nat
  BY LotsAssumption
<1> HIDE DEF s
<1>3. Place(s) /\ ~Offert(s)
  BY <1>1, <1>2 DEF Place, Offert
<1> USE DEF s
<1> QED
  BY <1>3

\* cancel, pause and resume.
LEMMA PilotageLemma ==
  ASSUME NEW x, Bonne(x), x # Vide, NEW y \in {Cancel(x), Pause(x), Resume(x)}
  PROVE  /\ Bonne(y) /\ MemeReception(x, y)
         /\ Offert(y) => Offert(x) /\ Vise(y) = Vise(x)
<1>1. \/ y = x \/ y = [x EXCEPT !.pause = TRUE] \/ y = [x EXCEPT !.pause = FALSE]
      \/ x.vie = "Active" /\ y = [x EXCEPT !.vie = "CancelPending"]
  BY DEF Cancel, Pause, Resume
<1>2. CASE Place(x)
  <2>1. Place(y) /\ (Offert(y) => Offert(x) /\ Vise(y) = Vise(x))
    BY <1>1, <1>2 DEF Place, Emetteurs, Vies, Offert, Vise
  <2>2. y.role = "Sender"
    BY <2>1, Roles DEF Bonne
  <2> QED
    BY <2>1, <2>2 DEF Bonne, MemeReception
<1>3. CASE x \in Recepteurs
  <2>1. y \in Recepteurs /\ y.cur = x.cur /\ (y.vie = "Active" => x.vie = "Active")
    BY <1>1, <1>3 DEF Recepteurs, Vies
  <2>2. x.role = "Receiver" /\ y.role = "Receiver"
    BY <1>3, <2>1, RecepteurLemma
  <2> QED
    BY <2>1, <2>2 DEF Bonne, MemeReception, Offert
<1> QED
  BY <1>2, <1>3 DEF Bonne

\* The frame a peer takes from its channel.
LEMMA PremiereTrame ==
  ASSUME Types, NEW p \in Pairs, canal[p] # <<>>
  PROVE  Head(canal[p]) \in Trames /\ Tail(canal[p]) \in Seq(Trames)
<1>1. canal[p] \in Seq(Trames)
  BY DEF Types, TypeReste
<1> HIDE DEF Trames
<1> QED
  BY <1>1

\* Recevoir as an equation on the slot and the disk.
LEMMA RecevoirLemma ==
  ASSUME Types, NEW p \in Pairs, TrameRecue(p), Recevoir(p)
  PROVE  LET x == slot[p]
             t == Head(canal[p])
             d == disque[p]
             y == HandleIncoming(Accueil(x), t, d) IN
         /\ t \in Trames /\ Bonne(x) /\ d \in Repertoires
         /\ slot' = [slot EXCEPT ![p] = y.s]
         /\ disque' = [disque EXCEPT ![p] = y.d]
         /\ Traitement(x, t, d, y)
<1>1. Head(canal[p]) \in Trames
  BY PremiereTrame DEF TrameRecue
<1>2. Bonne(slot[p]) /\ disque[p] \in Repertoires
  BY DEF Types, TypeSlots, TypeReste
<1>3. Destinataire(p) = Accueil(slot[p])
  BY DEF Destinataire, Accueil
<1>4. /\ slot' = [slot EXCEPT ![p] = HandleIncoming(Destinataire(p), Head(canal[p]), disque[p]).s]
      /\ disque' = [disque EXCEPT ![p] = HandleIncoming(Destinataire(p), Head(canal[p]), disque[p]).d]
  BY DEF Recevoir
<1> QED
  BY <1>1, <1>2, <1>3, <1>4, HandleSlot

\* What Recevoir records.
LEMMA LivresLemma ==
  ASSUME Types, NEW p \in Pairs, TrameRecue(p), Recevoir(p)
  PROVE  LET r == Accueil(slot[p])
             t == Head(canal[p])
             d == disque[p]
             y == HandleIncoming(r, t, d)
             complet == y.s.role = "Receiver" /\ y.s.completed # r.completed IN
         /\ livres' \in [Pairs -> SUBSET Fichiers]
         /\ \A q \in Pairs : q # p => livres'[q] = livres[q]
         /\ complet => Enreception(r) /\ livres'[p] = livres[p] \cup {r.cur.fichier}
         /\ ~complet /\ y.d # d /\ t.type = "Start" => livres'[p] = livres[p] \ {r.cur.fichier}
         /\ ~complet /\ ~(y.d # d /\ t.type = "Start") => livres'[p] = livres[p]
<1> DEFINE r == Accueil(slot[p])
           t == Head(canal[p])
           d == disque[p]
           y == HandleIncoming(r, t, d)
           complet == y.s.role = "Receiver" /\ y.s.completed # r.completed
           L == IF complet THEN livres[p] \cup {r.cur.fichier}
                ELSE IF y.d # d /\ t.type = "Start" THEN livres[p] \ {r.cur.fichier}
                ELSE livres[p]
<1>1. Destinataire(p) = r
  BY DEF Destinataire, Accueil
<1>2. livres' = [livres EXCEPT ![p] = L]
  BY <1>1 DEF Recevoir
<1>3. complet => Enreception(r) /\ r \in Recepteurs
  BY RecevoirLemma DEF Traitement, Touche
<1>4. livres \in [Pairs -> SUBSET Fichiers] /\ L \in SUBSET Fichiers
  <2>1. complet => r.cur.fichier \in Fichiers
    <3>1. \A c \in Courants : c.fichier \in Fichiers
      BY DEF Courants
    <3>2. complet => r.cur \in Courants
      BY <1>3, RecepteurLemma DEF Enreception
    <3> HIDE DEF complet, r
    <3> QED
      BY <3>1, <3>2
  <2> HIDE DEF complet, r, y, d, t
  <2> QED
    BY <2>1 DEF Types, TypeReste
<1> HIDE DEF r, y, d, t
<1> USE <1>2, <1>3, <1>4
<1>5. livres' \in [Pairs -> SUBSET Fichiers] /\ livres'[p] = L
      /\ \A q \in Pairs : q # p => livres'[q] = livres[q]
  <2> HIDE DEF L
  <2> QED
    OBVIOUS
<1>6. /\ complet => L = livres[p] \cup {r.cur.fichier}
      /\ ~complet /\ y.d # d /\ t.type = "Start" => L = livres[p] \ {r.cur.fichier}
      /\ ~complet /\ ~(y.d # d /\ t.type = "Start") => L = livres[p]
  OBVIOUS
<1> USE DEF r, y, d, t
<1> HIDE DEF L
<1> QED
  BY <1>3, <1>5, <1>6

\* Every step keeps the types.
LEMMA TypesPas == Types /\ [Next]_vars => Types'
<1> SUFFICES ASSUME Types, [Next]_vars PROVE Types'
  OBVIOUS
<1> USE DEF transfert, droits, compteurs, histoire
<1>a. TypeSlots /\ TypeReste
  BY DEF Types
<1>b. \A p \in Pairs : Autre(p) \in Pairs
  BY PairsLemma
<1>1. ASSUME NEW p \in Pairs, Envoyer(p) PROVE Types'
  <2>1. PICK lot \in Lots : slot' = [slot EXCEPT ![p] = Emetteur(lot)]
    BY <1>1 DEF Envoyer
  <2>2. TypeSlots'
    BY <1>a, <2>1, EmetteurLemma, UnSlot DEF Bonne
  <2>3. TypeReste'
    BY <1>a, <1>1 DEF Envoyer, TypeReste
  <2> QED
    BY <2>2, <2>3 DEF Types
<1>2. ASSUME NEW p \in Pairs, Pomper(p) PROVE Types'
  <2> DEFINE x == PollOutgoing(slot[p])
  <2>1. Emission(slot[p], x)
    BY <1>a, <1>2, PollSlot DEF Pomper, TypeSlots
  <2>2. /\ slot' = [slot EXCEPT ![p] = x.s] /\ pompe' = [pompe EXCEPT ![p] = x.t # Rien]
        /\ canal' = IF x.t = Rien THEN canal
                    ELSE [canal EXCEPT ![Autre(p)] = Append(@, x.t)]
    BY <1>2 DEF Pomper
  <2> HIDE DEF x
  <2>3. TypeSlots'
    BY <1>a, <2>1, <2>2, UnSlot DEF Emission
  <2>4. canal' \in [Pairs -> Seq(Trames)]
    <3>1. canal \in [Pairs -> Seq(Trames)] /\ x.t \in Trames \cup {Rien}
      BY <1>a, <2>1 DEF TypeReste, Emission
    <3> HIDE DEF Trames
    <3> QED
      BY <1>b, <2>2, <3>1
  <2>5. pompe' \in [Pairs -> BOOLEAN]
    BY <1>a, <2>2 DEF TypeReste
  <2>6. TypeReste'
    BY <1>a, <1>2, <2>4, <2>5 DEF Pomper, TypeReste
  <2> QED
    BY <2>3, <2>6 DEF Types
<1>3. ASSUME NEW p \in Pairs, PomperDansLeVide(p) PROVE Types'
  <2> DEFINE x == PollOutgoing(slot[p])
  <2>1. Emission(slot[p], x)
    BY <1>a, <1>3, PollSlot DEF PomperDansLeVide, TypeSlots
  <2>2. /\ slot' = [slot EXCEPT ![p] = x.s]
        /\ \E suite \in BOOLEAN : pompe' = [pompe EXCEPT ![p] = suite]
        /\ offrePerdue' = [offrePerdue EXCEPT ![Autre(p)] = @ \/ x.t.type = "Offer"]
        /\ UNCHANGED <<canal, disque, droits, lien, compteurs, livres, annonce, reste>>
    BY <1>3 DEF PomperDansLeVide
  <2> HIDE DEF x
  <2>3. TypeSlots'
    BY <1>a, <2>1, <2>2, UnSlot DEF Emission
  <2>4. offrePerdue' \in [Pairs -> BOOLEAN]
    BY <1>a, <1>b, <2>2 DEF TypeReste
  <2>5. TypeReste'
    BY <1>a, <2>2, <2>4 DEF TypeReste
  <2> QED
    BY <2>3, <2>5 DEF Types
<1>4. ASSUME NEW p \in Pairs, TrameRecue(p) PROVE Types'
  <2>1. /\ canal' = [canal EXCEPT ![p] = Tail(@)]
        /\ UNCHANGED <<pompe, droits, lien, reste>> /\ canal[p] # <<>>
    BY <1>4 DEF TrameRecue
  <2>2. canal' \in [Pairs -> Seq(Trames)]
    <3>1. Tail(canal[p]) \in Seq(Trames) /\ canal \in [Pairs -> Seq(Trames)]
      BY <1>a, <2>1, PremiereTrame DEF TypeReste
    <3> HIDE DEF Trames
    <3> QED
      BY <2>1, <3>1
  <2>3. CASE Recevoir(p)
    <3> DEFINE t == Head(canal[p])
               y == HandleIncoming(Accueil(slot[p]), t, disque[p])
    <3>1. /\ t \in Trames /\ slot' = [slot EXCEPT ![p] = y.s]
          /\ disque' = [disque EXCEPT ![p] = y.d]
          /\ Bonne(y.s) /\ y.d \in Repertoires
      BY <1>4, <2>3, RecevoirLemma DEF Traitement
    <3>2. livres' \in [Pairs -> SUBSET Fichiers]
      BY <1>4, <2>3, LivresLemma
    <3>3. annonce' \in [Pairs -> SUBSET SUBSET Fichiers] /\ offrePerdue' = offrePerdue
      <4>1. \/ annonce' = annonce
            \/ t.type = "Done" /\ annonce' = [annonce EXCEPT ![p] = @ \cup {t.lot}]
        BY <2>3 DEF Recevoir
      <4>2. \A z \in Trames : z.type = "Done" => z.lot \in SUBSET Fichiers
        BY DEF Trames
      <4>3. offrePerdue' = offrePerdue
        BY <2>3 DEF Recevoir
      <4> HIDE DEF t
      <4>4. CASE annonce' = annonce
        BY <1>a, <4>3, <4>4 DEF TypeReste
      <4>5. CASE t.type = "Done" /\ annonce' = [annonce EXCEPT ![p] = @ \cup {t.lot}]
        <5>1. t.lot \in SUBSET Fichiers /\ annonce \in [Pairs -> SUBSET SUBSET Fichiers]
          BY <1>a, <3>1, <4>2, <4>5 DEF TypeReste
        <5> QED
          BY <4>3, <4>5, <5>1
      <4> QED
        BY <4>1, <4>4, <4>5
    <3> HIDE DEF y, t
    <3>4. TypeSlots'
      BY <1>a, <3>1, UnSlot
    <3>5. TypeReste'
      BY <1>a, <2>1, <2>2, <3>1, <3>2, <3>3 DEF TypeReste
    <3> QED
      BY <3>4, <3>5 DEF Types
  <2>4. CASE Ignorer(p)
    <3>1. /\ UNCHANGED <<slot, disque, livres, annonce>>
          /\ \E b \in BOOLEAN : offrePerdue' = [offrePerdue EXCEPT ![p] = @ \/ b]
      BY <2>4 DEF Ignorer
    <3>2. offrePerdue' \in [Pairs -> BOOLEAN]
      BY <1>a, <3>1 DEF TypeReste
    <3>3. TypeSlots' /\ TypeReste'
      BY <1>a, <2>1, <2>2, <3>1, <3>2 DEF TypeReste, TypeSlots
    <3> QED
      BY <3>3 DEF Types
  <2> QED
    BY <1>4, <2>3, <2>4 DEF TrameRecue
<1>5. ASSUME NEW p \in Pairs, MajPermissions(p) PROVE Types'
  <2>1. PICK nouvelles \in SUBSET Capacites :
          /\ perms' = [perms EXCEPT ![p] = nouvelles]
          /\ avis' = IF p = "Controller" THEN Append(avis, nouvelles) ELSE avis
    BY <1>5 DEF MajPermissions
  <2>2. avis' \in Seq(SUBSET Capacites) /\ perms' \in [Pairs -> SUBSET Capacites]
    BY <1>a, <2>1 DEF TypeReste
  <2> QED
    BY <1>a, <1>5, <2>2 DEF MajPermissions, Types, TypeReste, TypeSlots
<1>6. ASSUME NEW p \in Pairs, Piloter(p) \/ Reprendre(p) PROVE Types'
  <2>1. slot[p] # Vide /\ \E y \in {Cancel(slot[p]), Pause(slot[p]), Resume(slot[p])} :
                            slot' = [slot EXCEPT ![p] = y]
    BY <1>6 DEF Piloter, Reprendre
  <2>2. Bonne(slot[p])
    BY <1>a DEF TypeSlots
  <2>3. TypeSlots'
    BY <1>a, <2>1, <2>2, PilotageLemma, UnSlot
  <2>4. TypeReste'
    BY <1>a, <1>6 DEF Piloter, Reprendre, TypeReste
  <2> QED
    BY <2>3, <2>4 DEF Types
<1>7. CASE MajRecue
  <2>1. avis # <<>> /\ perms' = [perms EXCEPT !["Controlled"] = Head(avis)]
        /\ avis' = Tail(avis)
    BY <1>7 DEF MajRecue
  <2>2. Head(avis) \in SUBSET Capacites /\ Tail(avis) \in Seq(SUBSET Capacites)
    BY <1>a, <2>1 DEF TypeReste
  <2>3. perms' \in [Pairs -> SUBSET Capacites]
    BY <1>a, <2>1, <2>2 DEF TypeReste
  <2> QED
    BY <1>a, <1>7, <2>1, <2>2, <2>3 DEF MajRecue, Types, TypeReste, TypeSlots
<1>8. CASE Couper
  <2>1. canal' \in [Pairs -> Seq(Trames)] /\ avis' \in Seq(SUBSET Capacites)
    BY <1>8 DEF Couper
  <2>2. offrePerdue' \in [Pairs -> BOOLEAN]
    BY <1>a, <1>8 DEF Couper, TypeReste
  <2> QED
    BY <1>a, <1>8, <2>1, <2>2 DEF Couper, Types, TypeReste, TypeSlots
<1>9. CASE Retablir
  BY <1>a, <1>9 DEF Retablir, Types, TypeReste, TypeSlots
<1>10. CASE UNCHANGED vars
  BY <1>a, <1>10 DEF vars, Types, TypeReste, TypeSlots
<1> QED
  BY <1>1, <1>2, <1>3, <1>4, <1>5, <1>6, <1>7, <1>8, <1>9, <1>10 DEF Next

\* The slots, the frames on their way, the directories and the histories keep their types,
\* and a sender is never past the end of its queue or of its file (nd-files, nd-core).
THEOREM TypeCorrect == Spec => []TypeOK
<1>1. Spec => []Types
  BY TypesInit, TypesPas, PTL DEF Spec
<1> QED
  BY <1>1, TypesLemma, PTL

-----------------------------------------------------------------------------
(***************************************************************************)
(* The disks.  As long as no offer to a peer was lost, what is on its way  *)
(* to it is about its current file: it writes what comes next.             *)
(***************************************************************************)
Complets(l, d) == \A f \in l : Len(d[f]) = Taille[f]

Recu_(q) ==
  /\ Fil(canal[q], slot[Autre(q)], slot[q])
  /\ Sain(reste[q], disque[q]) /\ Ouvert(slot[q], disque[q])
  /\ Complets(livres[q], disque[q])

DisqueInd == \A q \in Pairs : ~offrePerdue[q] => Recu_(q)

\* The state of the beginning.
LEMMA DisqueInit == Init => DisqueInd
<1> SUFFICES ASSUME Init, NEW q \in Pairs PROVE Recu_(q)
  BY DEF DisqueInd
<1>1. Sain(reste[q], disque[q])
  BY DEF Init, Sain
<1>2. slot[q] = Vide /\ slot[Autre(q)] = Vide /\ canal[q] = <<>> /\ livres[q] = {}
  BY PairsLemma DEF Init
<1>3. Ouvert(Vide, disque[q]) /\ Fil(<<>>, Vide, Vide)
  BY DEF Ouvert, Enreception, Fil, Offert, Vide
<1> QED
  BY <1>1, <1>2, <1>3 DEF Recu_, Complets

\* What the peers are, what they receive, and what is recorded of it.
LEMMA CompletsLemma ==
  ASSUME Types, NEW p \in Pairs, TrameRecue(p), Recevoir(p), Recu_(p)
  PROVE  Complets(livres'[p], disque'[p])
<1> DEFINE r == Accueil(slot[p])
           t == Head(canal[p])
           d == disque[p]
           y == HandleIncoming(r, t, d)
           complet == y.s.role = "Receiver" /\ y.s.completed # r.completed
<1>1. /\ complet => Enreception(r) /\ livres'[p] = livres[p] \cup {r.cur.fichier}
      /\ ~complet /\ y.d # d /\ t.type = "Start" => livres'[p] = livres[p] \ {r.cur.fichier}
      /\ ~complet /\ ~(y.d # d /\ t.type = "Start") => livres'[p] = livres[p]
      /\ livres'[p] \subseteq Fichiers
  BY LivresLemma
<1>2. /\ disque'[p] = y.d /\ y.d \in Repertoires /\ d \in Repertoires
      /\ \/ y.s.role = "Receiver" /\ r \in Recepteurs /\ Touche(r, t, d, y)
         \/ y.s.role # "Receiver" /\ y.d = d
  BY RecevoirLemma DEF Traitement, Types, TypeReste
<1>3. Enreception(r) => r.cur.plan = r.cur.fichier
  <2>1. CASE slot[p] = Vide
    BY <2>1, RecepteurNeuf DEF Accueil, Enreception
  <2>2. CASE slot[p] # Vide
    BY <2>2 DEF Accueil, Recu_, Ouvert
  <2> QED
    BY <2>1, <2>2
<1>4. Complets(livres[p], d) /\ livres[p] \subseteq Fichiers
  BY DEF Recu_, Types, TypeReste
<1> HIDE DEF r, t, d, y
<1>5. CASE complet
  <2>1. y.d = d /\ Enreception(r) /\ Len(d[r.cur.fichier]) = Taille[r.cur.plan]
    BY <1>2, <1>5 DEF Touche
  <2> QED
    BY <1>1, <1>2, <1>3, <1>4, <1>5, <2>1 DEF Complets
<1>6. CASE ~complet /\ y.d # d /\ t.type = "Start"
  <2>1. \A f \in Fichiers : f # r.cur.fichier => y.d[f] = d[f]
    BY <1>2, <1>6 DEF Touche
  <2> QED
    BY <1>1, <1>2, <1>4, <1>6, <2>1 DEF Complets
<1>7. CASE ~complet /\ ~(y.d # d /\ t.type = "Start")
  <2>1. ASSUME NEW f \in livres[p] PROVE y.d[f] = d[f]
    <3>1. CASE y.d = d
      BY <3>1
    <3>2. CASE y.d # d /\ t.type # "Start"
      <4>1. Len(d[f]) = Taille[f] /\ Taille[f] \in Nat /\ f \in Fichiers
        BY <1>4, TailleAssumption DEF Complets
      <4>2. y.d[f] # d[f] => f = r.cur.fichier /\ Enreception(r) /\ Len(d[f]) < Taille[r.cur.plan]
        BY <1>2, <3>2, <4>1 DEF Touche
      <4> QED
        BY <1>3, <4>1, <4>2
    <3> QED
      BY <1>7, <3>1, <3>2
  <2> QED
    BY <1>1, <1>2, <1>4, <1>7, <2>1 DEF Complets
<1> QED
  BY <1>5, <1>6, <1>7

\* A step that leaves a peer's channel, disk and history alone.
LEMMA RecuInchange ==
  ASSUME NEW q \in Pairs, Recu_(q), canal'[q] = canal[q], disque'[q] = disque[q],
         livres'[q] = livres[q], reste'[q] = reste[q], MemeReception(slot[q], slot'[q]),
         Offert(slot'[Autre(q)]) =>
           Offert(slot[Autre(q)]) /\ Vise(slot'[Autre(q)]) = Vise(slot[Autre(q)])
  PROVE  Recu_(q)'
<1>1. Fil(canal[q], slot'[Autre(q)], slot'[q])
  <2> DEFINE c == canal[q]
             s == slot[Autre(q)]
             s2 == slot'[Autre(q)]
             r == slot[q]
             r2 == slot'[q]
  <2>1. Fil(c, s, r) /\ (Offert(s2) => Offert(s) /\ Vise(s2) = Vise(s))
        /\ \A f : Actuel(r, f) => Actuel(r2, f)
    BY MemeReceptionLemma DEF Recu_
  <2> HIDE DEF c, s, s2, r, r2
  <2>2. Fil(c, s2, r2)
    BY <2>1, Changer
  <2> USE DEF c, s, s2, r, r2
  <2> QED
    BY <2>2
<1>2. Ouvert(slot'[q], disque[q])
  BY MemeReceptionLemma DEF Recu_
<1>3. Recu_(q)' <=> /\ Fil(canal'[q], slot'[Autre(q)], slot'[q])
                    /\ Sain(reste'[q], disque'[q]) /\ Ouvert(slot'[q], disque'[q])
                    /\ Complets(livres'[q], disque'[q])
  BY DEF Recu_
<1> QED
  BY <1>1, <1>2, <1>3 DEF Recu_

\* Every step keeps it.
LEMMA DisquePas == Types /\ DisqueInd /\ [Next]_vars => DisqueInd'
<1> SUFFICES ASSUME Types, DisqueInd, [Next]_vars PROVE DisqueInd'
  OBVIOUS
<1> USE DEF transfert, droits, compteurs, histoire
<1>a. TypeSlots /\ TypeReste /\ \A q \in Pairs : Bonne(slot[q])
  BY DEF Types, TypeSlots
<1>b. \A p \in Pairs : /\ Autre(p) \in Pairs /\ Autre(p) # p /\ Autre(Autre(p)) = p
                       /\ \A q \in Pairs : q = p \/ q = Autre(p)
  BY PairsLemma DEF Pairs
<1>c. \A x : MemeReception(x, x)
  BY DEF MemeReception
<1>r. \A q \in Pairs : ~offrePerdue[q] => Recu_(q)
  BY DEF DisqueInd
\* What leaves the channels, the disks and the histories alone, and the slots as they were.
<1>i. ASSUME UNCHANGED <<slot, canal, disque, livres, offrePerdue, reste>> PROVE DisqueInd'
  <2> SUFFICES ASSUME NEW q \in Pairs, ~offrePerdue'[q] PROVE Recu_(q)'
    BY DEF DisqueInd
  <2> QED
    BY <1>c, <1>i, <1>r, RecuInchange
<1>1. ASSUME NEW p \in Pairs, Envoyer(p) PROVE DisqueInd'
  <2>1. PICK lot \in Lots : slot' = [slot EXCEPT ![p] = Emetteur(lot)]
    BY <1>1 DEF Envoyer
  <2>2. slot'[p] = Emetteur(lot) /\ \A q \in Pairs : q # p => slot'[q] = slot[q]
    BY <1>a, <2>1, EmetteurLemma, UnSlot DEF Bonne
  <2>3. ~Offert(slot'[p]) /\ slot'[p].role = "Sender"
    BY <2>2, EmetteurLemma, Roles DEF Bonne
  <2>4. MemeReception(slot[p], slot'[p])
    BY <2>3 DEF MemeReception
  <2> SUFFICES ASSUME NEW q \in Pairs, ~offrePerdue'[q] PROVE Recu_(q)'
    BY DEF DisqueInd
  <2>5. UNCHANGED <<canal, disque, livres, offrePerdue, reste>>
    BY <1>1 DEF Envoyer
  <2>6. CASE q = p
    BY <1>b, <1>r, <2>2, <2>4, <2>5, <2>6, RecuInchange
  <2>7. CASE q = Autre(p)
    BY <1>b, <1>c, <1>r, <2>2, <2>3, <2>5, <2>7, RecuInchange
  <2> QED
    BY <1>b, <2>6, <2>7
<1>2. ASSUME NEW p \in Pairs, Pomper(p) PROVE DisqueInd'
  <2> DEFINE x == PollOutgoing(slot[p])
  <2>1. Emission(slot[p], x)
    BY <1>a, <1>2, PollSlot DEF Pomper
  <2>2. /\ slot' = [slot EXCEPT ![p] = x.s]
        /\ canal' = IF x.t = Rien THEN canal
                    ELSE [canal EXCEPT ![Autre(p)] = Append(@, x.t)]
        /\ UNCHANGED <<disque, livres, offrePerdue, reste>>
    BY <1>2 DEF Pomper
  <2> HIDE DEF x
  <2>3. slot'[p] = x.s /\ \A q \in Pairs : q # p => slot'[q] = slot[q]
    BY <1>a, <2>1, <2>2, UnSlot DEF Emission
  <2> SUFFICES ASSUME NEW q \in Pairs, ~offrePerdue'[q] PROVE Recu_(q)'
    BY DEF DisqueInd
  <2>4. CASE q = p
    <3>1. canal'[q] = canal[q]
      BY <1>a, <1>b, <2>2, <2>4 DEF TypeReste
    <3> QED
      BY <1>b, <1>r, <2>1, <2>2, <2>3, <2>4, <3>1, RecuInchange DEF Emission
  <2>5. CASE q = Autre(p) /\ x.t = Rien
    BY <1>b, <1>c, <1>r, <2>1, <2>2, <2>3, <2>5, RecuInchange DEF Emission
  <2>6. CASE q = Autre(p) /\ x.t # Rien
    <3>1. canal'[q] = Append(canal[q], x.t) /\ canal[q] \in Seq(Trames) /\ x.t \in Trames
      BY <1>a, <1>b, <2>1, <2>2, <2>6 DEF TypeReste, Emission
    <3>2. Fil(canal[q], slot[p], slot[q]) /\ Enchaine(slot[p], x.t, x.s)
      BY <1>b, <1>r, <2>1, <2>2, <2>6 DEF Recu_, Emission
    <3>3. Fil(canal'[q], slot'[Autre(q)], slot'[q])
      BY <1>b, <2>3, <2>6, <3>1, <3>2, Empiler
    <3>4. slot'[q] = slot[q]
      BY <1>b, <2>3, <2>6
    <3> QED
      BY <1>r, <2>2, <3>3, <3>4 DEF Recu_
  <2> QED
    BY <1>b, <2>4, <2>5, <2>6
<1>3. ASSUME NEW p \in Pairs, PomperDansLeVide(p) PROVE DisqueInd'
  <2> DEFINE x == PollOutgoing(slot[p])
  <2>1. Emission(slot[p], x) /\ x.t # Rien
    BY <1>a, <1>3, PollSlot DEF PomperDansLeVide
  <2>2. /\ slot' = [slot EXCEPT ![p] = x.s]
        /\ offrePerdue' = [offrePerdue EXCEPT ![Autre(p)] = @ \/ x.t.type = "Offer"]
        /\ UNCHANGED <<canal, disque, livres, reste>>
    BY <1>3 DEF PomperDansLeVide
  <2> HIDE DEF x
  <2>3. slot'[p] = x.s /\ \A q \in Pairs : q # p => slot'[q] = slot[q]
    BY <1>a, <2>1, <2>2, UnSlot DEF Emission
  <2> SUFFICES ASSUME NEW q \in Pairs, ~offrePerdue'[q] PROVE Recu_(q)'
    BY DEF DisqueInd
  <2>4. ~offrePerdue[q] /\ (q = Autre(p) => x.t.type # "Offer")
    BY <1>a, <1>b, <2>2 DEF TypeReste
  <2>5. CASE q = p
    BY <1>b, <1>r, <2>1, <2>2, <2>3, <2>4, <2>5, RecuInchange DEF Emission
  <2>6. CASE q = Autre(p)
    BY <1>b, <1>c, <1>r, <2>1, <2>2, <2>3, <2>4, <2>6, RecuInchange DEF Emission, Enchaine
  <2> QED
    BY <1>b, <2>5, <2>6
<1>4. ASSUME NEW p \in Pairs, TrameRecue(p) PROVE DisqueInd'
  <2> DEFINE t == Head(canal[p])
  <2>1. /\ canal[p] # <<>> /\ canal[p] \in Seq(Trames) /\ t \in Trames
        /\ canal'[p] = Tail(canal[p]) /\ \A q \in Pairs : q # p => canal'[q] = canal[q]
        /\ reste' = reste
    BY <1>4, <1>a, PremiereTrame DEF TrameRecue, TypeReste
  <2> SUFFICES ASSUME NEW q \in Pairs, ~offrePerdue'[q] PROVE Recu_(q)'
    BY DEF DisqueInd
  <2>2. CASE Recevoir(p)
    <3> DEFINE y == HandleIncoming(Accueil(slot[p]), t, disque[p])
    <3>1. /\ slot' = [slot EXCEPT ![p] = y.s] /\ disque' = [disque EXCEPT ![p] = y.d]
          /\ Traitement(slot[p], t, disque[p], y)
      BY <1>4, <2>2, RecevoirLemma
    <3>2. offrePerdue' = offrePerdue
      BY <2>2 DEF Recevoir
    <3>3. \A u \in Pairs : u # p => livres'[u] = livres[u]
      BY <1>4, <2>2, LivresLemma
    <3>c. Recu_(p) => Complets(livres'[p], disque'[p])
      BY <1>4, <2>2, CompletsLemma
    <3> HIDE DEF y, t
    <3>4. slot'[p] = y.s /\ \A u \in Pairs : u # p => slot'[u] = slot[u]
      BY <1>a, <3>1, UnSlot DEF Traitement
    <3>5. disque'[p] = y.d /\ \A u \in Pairs : u # p => disque'[u] = disque[u]
      BY <1>a, <3>1 DEF TypeReste
    <3>6. CASE q = p
      <4>1. Recu_(p)
        BY <1>r, <3>2, <3>6
      <4>2. /\ APropos(slot[p], t) /\ Fil(Tail(canal[p]), slot[Autre(p)], slot'[p])
        <5>1. Fil(canal[p], slot[Autre(p)], slot[p])
          BY <4>1 DEF Recu_
        <5>2. /\ t.type = "Offer" => Actuel(slot'[p], t.fichier)
              /\ t.type # "Offer" => \A f : Actuel(slot[p], f) => Actuel(slot'[p], f)
          BY <3>1, <3>4 DEF Traitement
        <5>3. t = Head(canal[p])
          BY DEF t
        <5> QED
          BY <2>1, <5>1, <5>2, <5>3, Depiler
      <4>3. Sain(reste'[p], disque'[p]) /\ Ouvert(slot'[p], disque'[p])
        BY <1>a, <1>4, <3>1, <3>4, <3>5, <4>1, <4>2 DEF Traitement, Recu_, TypeReste, TrameRecue
      <4>4. slot'[Autre(p)] = slot[Autre(p)]
        BY <1>b, <3>4
      <4> QED
        BY <2>1, <3>6, <3>c, <4>1, <4>2, <4>3, <4>4 DEF Recu_
    <3>7. CASE q = Autre(p)
      <4>1. Recu_(q) /\ q # p /\ Autre(q) = p
        BY <1>b, <1>r, <3>2, <3>7
      <4> QED
        BY <1>c, <2>1, <3>1, <3>3, <3>4, <3>5, <4>1, RecuInchange DEF Traitement
    <3> QED
      BY <1>b, <3>6, <3>7
  <2>3. CASE Ignorer(p)
    <3>1. /\ UNCHANGED <<slot, disque, livres>>
          /\ offrePerdue' = [offrePerdue EXCEPT ![p] = @ \/ t.type = "Offer"]
      BY <2>3 DEF Ignorer
    <3>2. ~offrePerdue[q] /\ (q = p => t.type # "Offer")
      BY <1>a, <3>1 DEF TypeReste
    <3>3. CASE q = p
      <4>1. Recu_(p) /\ t.type # "Offer"
        BY <1>r, <3>2, <3>3
      <4>2. Fil(Tail(canal[p]), slot[Autre(p)], slot[p])
        BY <2>1, <4>1, Depiler DEF Recu_
      <4> QED
        BY <2>1, <3>1, <3>3, <4>1, <4>2 DEF Recu_
    <3>4. CASE q # p
      BY <1>c, <1>r, <2>1, <3>1, <3>2, <3>4, RecuInchange
    <3> QED
      BY <3>3, <3>4
  <2> QED
    BY <1>4, <2>2, <2>3 DEF TrameRecue
<1>5. ASSUME NEW p \in Pairs, MajPermissions(p) PROVE DisqueInd'
  BY <1>5, <1>i DEF MajPermissions
<1>6. ASSUME NEW p \in Pairs, Piloter(p) \/ Reprendre(p) PROVE DisqueInd'
  <2>1. PICK y \in {Cancel(slot[p]), Pause(slot[p]), Resume(slot[p])} :
          slot[p] # Vide /\ slot' = [slot EXCEPT ![p] = y]
    BY <1>6 DEF Piloter, Reprendre
  <2>2. /\ Bonne(y) /\ MemeReception(slot[p], y)
        /\ Offert(y) => Offert(slot[p]) /\ Vise(y) = Vise(slot[p])
    BY <1>a, <2>1, PilotageLemma
  <2>3. slot'[p] = y /\ \A q \in Pairs : q # p => slot'[q] = slot[q]
    BY <1>a, <2>1, <2>2, UnSlot
  <2>4. UNCHANGED <<canal, disque, livres, offrePerdue, reste>>
    BY <1>6 DEF Piloter, Reprendre
  <2> SUFFICES ASSUME NEW q \in Pairs, ~offrePerdue'[q] PROVE Recu_(q)'
    BY DEF DisqueInd
  <2>5. CASE q = p
    BY <1>b, <1>r, <2>2, <2>3, <2>4, <2>5, RecuInchange
  <2>6. CASE q = Autre(p)
    BY <1>b, <1>c, <1>r, <2>2, <2>3, <2>4, <2>6, RecuInchange
  <2> QED
    BY <1>b, <2>5, <2>6
<1>7. CASE MajRecue \/ Retablir \/ UNCHANGED vars
  BY <1>7, <1>i DEF MajRecue, Retablir, vars
<1>8. CASE Couper
  <2> SUFFICES ASSUME NEW q \in Pairs, ~offrePerdue'[q] PROVE Recu_(q)'
    BY DEF DisqueInd
  <2>1. /\ canal' = [p \in Pairs |-> <<>>] /\ UNCHANGED <<slot, disque, livres, reste>>
        /\ offrePerdue' = [p \in Pairs |-> offrePerdue[p] \/
                             \E i \in DOMAIN canal[p] : canal[p][i].type = "Offer"]
    BY <1>8 DEF Couper
  <2>2. Recu_(q) /\ \A i \in DOMAIN canal[q] : canal[q][i].type # "Offer"
    BY <1>r, <2>1
  <2>3. Fil(<<>>, slot[Autre(q)], slot[q])
    BY <1>a, <2>2, Vider DEF Recu_, TypeReste
  <2> QED
    BY <2>1, <2>2, <2>3 DEF Recu_
<1> QED
  BY <1>1, <1>2, <1>3, <1>4, <1>5, <1>6, <1>7, <1>8 DEF Next

\* It holds all along.
LEMMA DisqueToujours == Spec => [](Types /\ DisqueInd)
BY TypesInit, TypesPas, DisqueInit, DisquePas, PTL DEF Spec

\* Whatever a directory held, and whatever was cut, replaced or answered late, a destination
\* is what was there at the start, or a part of what a resumption keeps of it followed by the
\* chunks of the source, each in its place, as long as no offer was lost (accepter_start keeps
\* what it finds without reading it).
THEOREM ToujoursReprenable == Spec => []Reprenable
<1>1. Types /\ DisqueInd => Reprenable
  BY DEF DisqueInd, Recu_, Sain, Reprenable
<1> QED
  BY <1>1, DisqueToujours, PTL

\* A file reported complete is the source, byte for byte, when its name was free, or held a
\* beginning of the source or a longer content: this rests on the order of the frames, the
\* hash is one more guard.  Nothing is assumed of the other directories (FileCompleted).
THEOREM ToujoursIntegre == Spec => []Integre
<1>1. Types /\ DisqueInd => Integre
  <2> SUFFICES ASSUME Types, DisqueInd, NEW p \in Pairs, ~offrePerdue[p], NEW f \in livres[p],
                      Fiable(reste[p][f], f)
               PROVE  disque[p][f] = Source(f)
    BY DEF Integre
  <2>1. f \in Fichiers /\ disque[p][f] \in Seq(Morceaux) /\ reste[p][f] \in Seq(Morceaux)
    BY DEF Types, TypeReste, Repertoires
  <2>2. PICK d, e : d = disque[p][f] /\ e = reste[p][f]
    OBVIOUS
  <2>3. /\ d \in Seq(Morceaux) /\ e \in Seq(Morceaux) /\ Taille[f] \in Nat
        /\ Len(d) = Taille[f] /\ (d = e \/ Repris(d, e, f)) /\ Fiable(e, f)
    BY <2>1, <2>2, TailleAssumption DEF DisqueInd, Recu_, Complets, Sain
  <2>4. \A i \in 1..Len(d) : d[i] = <<f, i>>
    <3>1. CASE d = e
      BY <2>3, <3>1 DEF Fiable
    <3>2. CASE Repris(d, e, f)
      <4>1. PICK k \in 0..OffsetReprise(e, f) :
              \A i \in 1..Len(d) : d[i] = IF i <= k THEN e[i] ELSE <<f, i>>
        BY <3>2 DEF Repris
      <4>2. PICK o : o = OffsetReprise(e, f)
        OBVIOUS
      <4>3. o \in 0..Len(e) /\ (Len(e) > Taille[f] => o = 0) /\ k \in 0..o
        BY <2>1, <2>3, <4>1, <4>2, OffsetLemma
      <4>4. CASE Len(e) > Taille[f]
        <5>1. \A i \in 1..Len(d) : ~(i <= k)
          BY <2>3, <4>3, <4>4
        <5> QED
          BY <4>1, <5>1
      <4>5. CASE \A i \in 1..Len(e) : e[i] = <<f, i>>
        <5>1. \A i \in 1..Len(d) : i <= k => i \in 1..Len(e)
          BY <2>3, <4>3
        <5> QED
          BY <4>1, <4>5, <5>1
      <4> QED
        BY <2>3, <4>4, <4>5 DEF Fiable
    <3> QED
      BY <2>3, <3>1, <3>2
  <2> QED
    BY <2>1, <2>2, <2>3, <2>4, PrefixeSource
<1> QED
  BY <1>1, DisqueToujours, PTL

-----------------------------------------------------------------------------
(***************************************************************************)
(* The progress.  A sender has counted the files before its current one; a *)
(* receiver has room left in its total for the file it receives.           *)
(***************************************************************************)

\* The least number principle.
LEMMA MoindreEntier ==
  ASSUME NEW S \in SUBSET Nat, S # {}
  PROVE  \E m \in S : \A k \in S : m <= k
<1>1. PICK m \in S : \A y \in S : <<y, m>> \notin OpToRel(<, Nat)
  BY WFMin, NatLessThanWellFounded, Zenon
<1>2. \A y \in S : y \in Nat /\ m \in Nat
  OBVIOUS
<1>3. \A y \in S : ~(y < m)
  BY <1>1, <1>2 DEF OpToRel
<1> QED
  BY <1>2, <1>3

\* What Cumul is, on the first n files of a queue.
Cumule(g, q, n) == g = [i \in 0..n |-> IF i = 0 THEN 0 ELSE g[i - 1] + Taille[q[i]]]

\* One more file.
LEMMA CumuleSuite ==
  ASSUME NEW q, NEW n \in Nat, NEW g, Cumule(g, q, n)
  PROVE  \E h : Cumule(h, q, n + 1)
<1>1. \A i \in 0..n : g[i] = IF i = 0 THEN 0 ELSE g[i - 1] + Taille[q[i]]
  BY Zenon DEF Cumule
<1>2. PICK v : v = g[n] + Taille[q[n + 1]]
  OBVIOUS
<1>3. PICK h : h = [i \in 0..(n + 1) |-> IF i = n + 1 THEN v ELSE g[i]]
  OBVIOUS
<1>4. ASSUME NEW i \in 0..(n + 1)
      PROVE  h[i] = IF i = 0 THEN 0 ELSE h[i - 1] + Taille[q[i]]
  <2>1. CASE i = n + 1
    <3>1. i # 0 /\ i - 1 = n /\ n \in 0..(n + 1) /\ n # n + 1
      BY <2>1
    <3> QED
      BY <1>2, <1>3, <2>1, <3>1
  <2>2. CASE i # n + 1 /\ i = 0
    BY <1>1, <1>3, <2>2
  <2>3. CASE i # n + 1 /\ i # 0
    <3>1. i \in 0..n /\ i - 1 \in 0..(n + 1) /\ i - 1 # n + 1
      BY <2>3
    <3> QED
      BY <1>1, <1>3, <2>3, <3>1
  <2> QED
    BY <2>1, <2>2, <2>3
<1>5. h = [i \in 0..(n + 1) |-> IF i = 0 THEN 0 ELSE h[i - 1] + Taille[q[i]]]
  BY <1>3, <1>4
<1> QED
  BY <1>5 DEF Cumule

\* There is such a function, for any number of files.
LEMMA CumuleExiste ==
  ASSUME NEW q, NEW n \in Nat
  PROVE  \E g : Cumule(g, q, n)
<1> DEFINE Manque == {m \in Nat : ~\E g : Cumule(g, q, m)}
<1>1. SUFFICES ASSUME Manque # {} PROVE FALSE
  OBVIOUS
<1>2. PICK m \in Manque : \A k \in Manque : m <= k
  <2>1. Manque \in SUBSET Nat
    OBVIOUS
  <2> HIDE DEF Manque
  <2> QED
    BY <1>1, <2>1, MoindreEntier
<1>3. m # 0
  <2>1. PICK z : z = [i \in 0..0 |-> 0]
    OBVIOUS
  <2>2. \A i \in 0..0 : i = 0
    OBVIOUS
  <2>3. z = [i \in 0..0 |-> IF i = 0 THEN 0 ELSE z[i - 1] + Taille[q[i]]]
    BY <2>1, <2>2
  <2>4. Cumule(z, q, 0)
    BY <2>3 DEF Cumule
  <2> QED
    BY <2>4
<1>4. m - 1 \in Nat /\ ~(m <= m - 1) /\ (m - 1) + 1 = m
  BY <1>3
<1>5. PICK g : Cumule(g, q, m - 1)
  BY <1>2, <1>4
<1> QED
  BY <1>4, <1>5, CumuleSuite

\* Cumul adds the lengths one by one, and never passes that of the whole queue.
LEMMA CumulLemma ==
  ASSUME NEW q \in Seq(Fichiers)
  PROVE  /\ Cumul(q)[0] = 0
         /\ \A i \in 1..Len(q) : Cumul(q)[i] = Cumul(q)[i - 1] + Taille[q[i]]
         /\ \A i \in 0..Len(q) : Cumul(q)[i] \in Nat /\ Cumul(q)[i] <= Cumul(q)[Len(q)]
<1>0. Len(q) \in Nat /\ \A i \in 1..Len(q) : Taille[q[i]] \in Nat
  BY TailleAssumption
<1>1. PICK n \in Nat : n = Len(q)
  BY <1>0
<1>2. PICK c : c = Cumul(q)
  OBVIOUS
<1>3. Cumule(c, q, n)
  <2>1. \E g : Cumule(g, q, n)
    BY CumuleExiste
  <2>2. Cumule(CHOOSE g : Cumule(g, q, n), q, n)
    BY <2>1, Zenon
  <2>3. Cumul(q) = CHOOSE g : Cumule(g, q, n)
    BY <1>1 DEF Cumul, Cumule
  <2> QED
    BY <1>2, <2>2, <2>3, Zenon
<1>4. \A i \in 0..n : c[i] = IF i = 0 THEN 0 ELSE c[i - 1] + Taille[q[i]]
  BY <1>3, Zenon DEF Cumule
<1>5. c[0] = 0 /\ \A i \in 1..n : c[i] = c[i - 1] + Taille[q[i]]
  BY <1>4
<1>6. \A i \in 0..n : c[i] \in Nat
  <2> DEFINE Faux == {i \in Nat : i \in 0..n /\ c[i] \notin Nat}
  <2>1. SUFFICES ASSUME Faux # {} PROVE FALSE
    OBVIOUS
  <2>2. PICK m \in Faux : \A k \in Faux : m <= k
    <3>1. Faux \in SUBSET Nat
      OBVIOUS
    <3> HIDE DEF Faux
    <3> QED
      BY <2>1, <3>1, MoindreEntier
  <2>3. m # 0
    BY <1>5
  <2>4. m - 1 \in 0..n /\ m - 1 \in Nat /\ ~(m <= m - 1) /\ m \in 1..n
    BY <2>3
  <2>5. c[m - 1] \in Nat
    BY <2>2, <2>4
  <2> QED
    BY <1>0, <1>1, <1>5, <2>4, <2>5
<1>7. \A i \in 0..n : c[i] <= c[n]
  <2> DEFINE Faux == {j \in Nat : j \in 0..n /\ ~(c[n - j] <= c[n])}
  <2>1. Faux = {}
    <3>1. SUFFICES ASSUME Faux # {} PROVE FALSE
      OBVIOUS
    <3>2. PICK m \in Faux : \A k \in Faux : m <= k
      <4>1. Faux \in SUBSET Nat
        OBVIOUS
      <4> HIDE DEF Faux
      <4> QED
        BY <3>1, <4>1, MoindreEntier
    <3>3. m # 0
      <4>1. n - 0 = n /\ c[n] \in Nat
        BY <1>6
      <4> QED
        BY <4>1
    <3>4. /\ m - 1 \in 0..n /\ m - 1 \in Nat /\ ~(m <= m - 1) /\ n - m \in 0..n
          /\ n - (m - 1) \in 1..n /\ n - (m - 1) - 1 = n - m
      BY <3>3
    <3>5. c[n - (m - 1)] <= c[n]
      BY <3>2, <3>4
    <3>6. c[n - (m - 1)] = c[n - m] + Taille[q[n - (m - 1)]]
      BY <1>5, <3>4
    <3>7. Taille[q[n - (m - 1)]] \in Nat /\ c[n - m] \in Nat /\ c[n] \in Nat
      BY <1>0, <1>1, <1>6, <3>4
    <3>8. c[n - m] <= c[n]
      BY <3>5, <3>6, <3>7
    <3> QED
      BY <3>8
  <2> SUFFICES ASSUME NEW i \in 0..n PROVE c[i] <= c[n]
    OBVIOUS
  <2>2. n - i \in Nat /\ n - i \in 0..n /\ n - (n - i) = i
    OBVIOUS
  <2> QED
    BY <2>1, <2>2
<1> QED
  BY <1>1, <1>2, <1>5, <1>6, <1>7

\* The sender has counted the files before its current one; prochain counts the current one.
Compte(s) ==
  s.role = "Sender" =>
    /\ s.done = Cumul(s.queue)[s.current - 1]
    /\ s.stage # "Stream" => s.prochain = 0

\* The total of the receiver covers its current file too, which counts for what its
\* destination holds: what an offer found there, then what a reception has written.
Reserve(r, d) ==
  r.role = "Receiver" =>
    IF r.cur = Rien THEN r.done <= r.total
    ELSE /\ r.done + Taille[r.cur.fichier] <= r.total
         /\ r.cur.etat = "Attente" =>
              r.cur.written = 0 /\ r.cur.base = OffsetReprise(d[r.cur.fichier], r.cur.fichier)
         /\ r.cur.etat = "Reception" => r.cur.base + r.cur.written = Len(d[r.cur.fichier])

\* Either role.
Avance(x, d) == Compte(x) /\ Reserve(x, d)

\* The inductive invariant of the progress, with Types and DisqueInd.
AvanceInd == \A p \in Pairs : ~offrePerdue[p] => Avance(slot[p], disque[p])

\* It bounds the progress.
LEMMA AvanceBorne ==
  ASSUME NEW x, Bonne(x), x.role # "None", NEW d \in Repertoires, Ouvert(x, d), Avance(x, d)
  PROVE  BytesDone(x) <= BytesTotal(x)
<1>1. CASE Place(x)
  <2>1. /\ x.role = "Sender" /\ x.queue \in Seq(Fichiers) /\ x.current \in Nat \ {0}
        /\ x.prochain \in Nat /\ x.current <= Len(x.queue) + 1 /\ Len(x.queue) \in Nat
        /\ x.stage = "Stream" => x.current <= Len(x.queue) /\ x.prochain <= Taille[Vise(x)]
    BY <1>1, LotsAssumption DEF Place, Emetteurs, Vise
  <2>2. x.done = Cumul(x.queue)[x.current - 1] /\ (x.stage # "Stream" => x.prochain = 0)
    BY <2>1 DEF Avance, Compte
  <2>3. /\ x.current - 1 \in 0..Len(x.queue)
        /\ x.current <= Len(x.queue) => x.current \in 1..Len(x.queue) /\ x.current \in 0..Len(x.queue)
    BY <2>1
  <2>4. BytesDone(x) = x.done + x.prochain /\ BytesTotal(x) = Cumul(x.queue)[Len(x.queue)]
    BY <2>1 DEF BytesDone, BytesTotal
  <2> DEFINE C == Cumul(x.queue)
  <2>5. /\ \A i \in 1..Len(x.queue) : C[i] = C[i - 1] + Taille[x.queue[i]]
        /\ \A i \in 0..Len(x.queue) : C[i] \in Nat /\ C[i] <= C[Len(x.queue)]
    BY <2>1, CumulLemma
  <2>6. Len(x.queue) \in 0..Len(x.queue)
    BY <2>1
  <2> HIDE DEF C
  <2>7. CASE x.stage = "Stream"
    <3>1. /\ C[x.current] = C[x.current - 1] + Taille[Vise(x)] /\ C[x.current] <= C[Len(x.queue)]
          /\ C[x.current] \in Nat /\ C[x.current - 1] \in Nat /\ C[Len(x.queue)] \in Nat
      BY <2>1, <2>3, <2>5, <2>6, <2>7 DEF Vise
    <3>2. Taille[Vise(x)] \in Nat
      BY <1>1, <2>1, <2>7, ViseLemma
    <3>3. x.done = C[x.current - 1] /\ BytesTotal(x) = C[Len(x.queue)]
      BY <2>2, <2>4 DEF C
    <3> QED
      BY <2>1, <2>4, <2>7, <3>1, <3>2, <3>3
  <2>8. CASE x.stage # "Stream"
    <3>1. x.done = C[x.current - 1] /\ BytesTotal(x) = C[Len(x.queue)]
      BY <2>2, <2>4 DEF C
    <3> QED
      BY <2>2, <2>3, <2>4, <2>5, <2>8, <3>1
  <2> QED
    BY <2>7, <2>8
<1>2. CASE x \in Recepteurs
  <2>1. x.role = "Receiver" /\ x.done \in Nat /\ x.total \in Nat /\ x.cur \in Courants \cup {Rien}
    BY <1>2, RecepteurLemma
  <2>2. BytesTotal(x) = x.total
    BY <2>1 DEF BytesTotal
  <2>3. CASE x.cur = Rien
    <3>1. BytesDone(x) = x.done + 0
      BY <2>1, <2>3 DEF BytesDone
    <3> QED
      BY <2>1, <2>2, <2>3, <3>1 DEF Avance, Reserve
  <2>4. CASE x.cur # Rien
    <3>1. /\ x.cur.fichier \in Fichiers /\ x.cur.etat \in {"Attente", "Reception"}
          /\ x.cur.base \in Nat /\ x.cur.written \in Nat
      BY <2>1, <2>4 DEF Courants
    <3>2. BytesDone(x) = x.done + (x.cur.base + x.cur.written)
      BY <2>1, <2>4 DEF BytesDone
    <3>3. d[x.cur.fichier] \in Seq(Morceaux) /\ Taille[x.cur.fichier] \in Nat
      BY <3>1, TailleAssumption DEF Repertoires
    <3>4. x.done + Taille[x.cur.fichier] <= x.total
      BY <2>1, <2>4 DEF Avance, Reserve
    <3>5. CASE x.cur.etat = "Attente"
      <4>1. x.cur.written = 0 /\ x.cur.base = OffsetReprise(d[x.cur.fichier], x.cur.fichier)
        BY <2>1, <2>4, <3>5 DEF Avance, Reserve
      <4>2. x.cur.base <= Taille[x.cur.fichier]
        BY <3>1, <3>3, <4>1, OffsetLemma
      <4> QED
        BY <2>1, <2>2, <3>1, <3>2, <3>3, <3>4, <4>1, <4>2
    <3>6. CASE x.cur.etat = "Reception"
      <4>1. x.cur.base + x.cur.written = Len(d[x.cur.fichier])
        BY <2>1, <2>4, <3>6 DEF Avance, Reserve
      <4>2. Len(d[x.cur.fichier]) <= Taille[x.cur.fichier]
        BY <2>1, <2>4, <3>6 DEF Ouvert, Enreception
      <4>3. Len(d[x.cur.fichier]) \in Nat
        BY <3>3
      <4> QED
        BY <2>1, <2>2, <3>1, <3>2, <3>3, <3>4, <4>1, <4>2, <4>3
    <3> QED
      BY <3>1, <3>5, <3>6
  <2> QED
    BY <2>3, <2>4
<1> QED
  BY <1>1, <1>2 DEF Bonne, Vide

\* A sender that streams counts a file when it leaves it for the next one.
LEMMA CompteFlux ==
  ASSUME NEW s, Place(s), s.stage = "Stream", Compte(s)
  PROVE  Compte(ProduireFlux(s).s)
<1> DEFINE f == s.queue[s.current]
<1>0. /\ f \in Fichiers /\ Taille[f] \in Nat /\ s \in Emetteurs /\ s.role = "Sender"
      /\ s.prochain \in Nat /\ s.current \in Nat \ {0} /\ s.done \in Nat
      /\ s.etape \in {"Start", "Chunks", "Fini"} /\ s.current <= Len(s.queue)
      /\ s.queue \in Seq(Fichiers) /\ Len(s.queue) \in Nat
      /\ s.done = Cumul(s.queue)[s.current - 1]
  BY ViseLemma, LotsAssumption DEF Place, Emetteurs, Vise, Compte
<1>1. CASE s.etape # "Fini"
  <2>1. \/ ProduireFlux(s).s = [s EXCEPT !.etape = "Chunks"]
        \/ ProduireFlux(s).s = [s EXCEPT !.prochain = @ + 1]
        \/ ProduireFlux(s).s = [s EXCEPT !.etape = "Fini"]
    BY <1>0, <1>1 DEF ProduireFlux, Produit
  <2>2. PICK y : y = ProduireFlux(s).s
    OBVIOUS
  <2>3. /\ y.role = s.role /\ y.done = s.done /\ y.queue = s.queue /\ y.current = s.current
        /\ y.stage = s.stage
    BY <1>0, <2>1, <2>2 DEF Emetteurs
  <2>4. Compte(y)
    BY <1>0, <2>3 DEF Compte
  <2> QED
    BY <2>2, <2>4
<1>2. CASE s.etape = "Fini"
  <2>1. ProduireFlux(s) = ProduireOffre(Suivant(s))
    BY <1>2 DEF ProduireFlux
  <2>2. PICK z : z = Suivant(s)
    OBVIOUS
  <2>3. /\ z.role = "Sender" /\ z.done = s.done + Taille[f] /\ z.queue = s.queue
        /\ z.current = s.current + 1 /\ z.prochain = 0 /\ z.stage = "Offer"
        /\ {"role", "done", "queue", "current", "prochain"} \subseteq DOMAIN z
    BY <1>0, <2>2 DEF Suivant, Emetteurs
  <2>4. z.done = Cumul(z.queue)[z.current - 1]
    <3>1. s.current \in 1..Len(s.queue)
      BY <1>0
    <3>2. Cumul(s.queue)[s.current] = Cumul(s.queue)[s.current - 1] + Taille[f]
      BY <1>0, <3>1, CumulLemma
    <3>3. z.current - 1 = s.current
      BY <1>0, <2>3
    <3> QED
      BY <1>0, <2>3, <3>2, <3>3
  <2>5. PICK y : y = ProduireOffre(z).s
    OBVIOUS
  <2>6. /\ y.role = "Sender" /\ y.done = z.done /\ y.queue = z.queue /\ y.current = z.current
        /\ y.prochain = 0
    <3>1. \/ y = [z EXCEPT !.stage = "Finished"] \/ y = [z EXCEPT !.stage = "AwaitResume"]
      BY <2>5 DEF ProduireOffre, Produit
    <3> QED
      BY <2>3, <3>1
  <2>7. Compte(y)
    BY <2>4, <2>6 DEF Compte
  <2> QED
    BY <2>1, <2>2, <2>5, <2>7
<1> QED
  BY <1>1, <1>2

\* A sender that does not stream only changes what Compte does not look at.
MemeCompte(s, y) ==
  /\ y.role = s.role /\ y.done = s.done /\ y.queue = s.queue /\ y.current = s.current
  /\ y.stage # "Stream" => s.stage # "Stream" /\ y.prochain = s.prochain

\* Such a step keeps the count.
LEMMA CompteInchange ==
  ASSUME NEW s, NEW y, MemeCompte(s, y), Compte(s) PROVE Compte(y)
BY DEF Compte, MemeCompte

\* poll_outgoing of a sender keeps the count.
LEMMA CompteEmis ==
  ASSUME NEW s, Place(s), Compte(s)
  PROVE  Compte(PollOutgoing(s).s)
<1>0. /\ s \in Emetteurs /\ s.role = "Sender" /\ s.vie \in Vies /\ s.pause \in BOOLEAN
      /\ s.stage \in {"Offer", "AwaitResume", "Stream", "Finished"}
  BY DEF Place, Emetteurs
<1>1. CASE ~(s.stage = "Stream" /\ s.vie = "Active" /\ ~s.pause)
  <2>1. \/ PollOutgoing(s).s = s
        \/ PollOutgoing(s).s = [s EXCEPT !.vie = "Cancelled"]
        \/ s.stage = "Offer" /\ PollOutgoing(s).s = [s EXCEPT !.stage = "Finished"]
        \/ s.stage = "Offer" /\ PollOutgoing(s).s = [s EXCEPT !.stage = "AwaitResume"]
    <3>1. CASE s.vie # "Active" \/ s.pause
      BY <1>0, <3>1 DEF PollOutgoing, Produit, Vies
    <3>2. CASE s.vie = "Active" /\ ~s.pause
      <4>1. PollOutgoing(s) = ProduireEmetteur(s)
        BY <1>0, <3>2 DEF PollOutgoing
      <4>2. CASE s.stage = "Offer"
        BY <4>1, <4>2 DEF ProduireEmetteur, ProduireOffre, Produit
      <4>3. CASE s.stage \in {"AwaitResume", "Finished"}
        BY <4>1, <4>3 DEF ProduireEmetteur, Produit
      <4> QED
        BY <1>0, <1>1, <3>2, <4>2, <4>3
    <3> QED
      BY <3>1, <3>2
  <2>2. PICK y : y = PollOutgoing(s).s
    OBVIOUS
  <2>3. MemeCompte(s, y)
    BY <1>0, <2>1, <2>2 DEF MemeCompte, Emetteurs
  <2> QED
    BY <2>2, <2>3, CompteInchange
<1>2. CASE s.stage = "Stream" /\ s.vie = "Active" /\ ~s.pause
  <2>1. PollOutgoing(s) = ProduireFlux(s)
    BY <1>0, <1>2 DEF PollOutgoing, ProduireEmetteur
  <2> QED
    BY <1>2, <2>1, CompteFlux
<1> QED
  BY <1>1, <1>2

\* poll_outgoing of either role.
LEMMA AvancePoll ==
  ASSUME NEW x, Bonne(x), x # Vide, NEW d, Avance(x, d)
  PROVE  Avance(PollOutgoing(x).s, d)
<1> DEFINE y == PollOutgoing(x).s
<1>1. CASE Place(x)
  <2>1. Compte(y) /\ Place(y)
    BY <1>1, CompteEmis, PollEmetteur DEF Avance, Emis
  <2> HIDE DEF y
  <2>2. y.role = "Sender"
    BY <2>1, Roles DEF Bonne
  <2>3. Avance(y, d)
    BY <2>1, <2>2 DEF Avance, Reserve
  <2> USE DEF y
  <2> QED
    BY <2>3
<1>2. CASE x \in Recepteurs
  <2>1. x.role = "Receiver" /\ x.vie \in Vies /\ x.pause \in BOOLEAN
    BY <1>2 DEF Recepteurs
  <2>2. \/ y = x \/ y = [x EXCEPT !.vie = "Cancelled"]
        \/ y = [x EXCEPT !.outbox = Tail(@)]
    BY <2>1 DEF PollOutgoing, ProduireRecepteur, Produit, Vies
  <2> HIDE DEF y
  <2>3. y.role = x.role /\ y.cur = x.cur /\ y.done = x.done /\ y.total = x.total
    BY <1>2, <2>2 DEF Recepteurs
  <2>4. Avance(y, d)
    BY <2>1, <2>3 DEF Avance, Compte, Reserve
  <2> USE DEF y
  <2> QED
    BY <2>4
<1> QED
  BY <1>1, <1>2 DEF Bonne

\* What the receiver makes of a frame keeps the reserve.
Reserve_(r, t, d, y) ==
  Ouvert(r, d) /\ APropos(r, t) /\ Reserve(r, d) => Reserve(y.s, y.d)

\* The fields of a receiver that has a current file.
LEMMA CourantLemma ==
  ASSUME NEW r \in Recepteurs, r.cur # Rien
  PROVE  /\ r.cur \in Courants /\ r.cur.fichier \in Fichiers /\ Taille[r.cur.fichier] \in Nat
         /\ r.cur.etat \in {"Attente", "Reception"} /\ r.cur.base \in Nat /\ r.cur.written \in Nat
<1>1. r.cur \in Courants
  BY RecepteurLemma
<1> QED
  BY <1>1, TailleAssumption DEF Courants

\* The reserve only looks at these fields, and at the current destination.
LEMMA ReserveInchangee ==
  ASSUME NEW r, NEW r2, NEW d, r2.role = r.role, r2.cur = r.cur, r2.done = r.done,
         r2.total = r.total, Reserve(r, d)
  PROVE  Reserve(r2, d)
BY DEF Reserve

\* An Offer adds its file to the total.
LEMMA ReserveOffre ==
  ASSUME NEW r \in Recepteurs, NEW t \in Trames, NEW d \in Repertoires,
         t.type = "Offer", r.vie = "Active"
  PROVE  Reserve_(r, t, d, TraiterOffre(r, t, d))
<1> SUFFICES ASSUME Reserve(r, d)
             PROVE  Reserve(TraiterOffre(r, t, d).s, TraiterOffre(r, t, d).d)
  BY DEF Reserve_
<1>1. t.fichier \in Fichiers /\ Taille[t.fichier] \in Nat
  BY TailleAssumption DEF Trames
<1>2. r.role = "Receiver" /\ r.done \in Nat /\ r.total \in Nat
  BY RecepteurLemma
<1>3. r.done <= r.total
  <2>1. CASE r.cur = Rien
    BY <1>2, <2>1 DEF Reserve
  <2>2. CASE r.cur # Rien
    BY <1>2, <2>2, CourantLemma DEF Reserve
  <2> QED
    BY <2>1, <2>2
<1>4. PICK y : y = TraiterOffre(r, t, d)
  OBVIOUS
<1>5. PICK base : base = OffsetReprise(d[t.fichier], t.fichier)
  OBVIOUS
<1>6. PICK cur : cur = [fichier |-> t.fichier, etat |-> "Attente", plan |-> t.fichier,
                        racine |-> 0, reprise |-> 0, base |-> base, written |-> 0]
  OBVIOUS
<1>7. /\ y.s.role = "Receiver" /\ y.s.cur = cur /\ y.s.done = r.done
      /\ y.s.total = r.total + Taille[t.fichier] /\ y.d = d
  BY <1>2, <1>4, <1>5, <1>6 DEF TraiterOffre, Recu, Recepteurs
<1>8. /\ cur.fichier = t.fichier /\ cur.etat = "Attente" /\ cur.written = 0
      /\ cur.base = OffsetReprise(d[t.fichier], t.fichier)
  BY <1>5, <1>6
<1>9. r.done <= r.total + Taille[t.fichier] /\ r.done + Taille[t.fichier] <= r.total + Taille[t.fichier]
  BY <1>1, <1>2, <1>3
<1>10. Reserve(y.s, y.d)
  BY <1>7, <1>8, <1>9 DEF Reserve
<1> QED
  BY <1>4, <1>10

\* A Start truncates the destination to what the offer had counted.
LEMMA ReserveStart ==
  ASSUME NEW r \in Recepteurs, NEW t \in Trames, NEW d \in Repertoires,
         t.type = "Start", r.vie = "Active", r.cur # Rien
  PROVE  Reserve_(r, t, d, TraiterStart(r, t, d))
<1> SUFFICES ASSUME APropos(r, t), Reserve(r, d)
             PROVE  Reserve(TraiterStart(r, t, d).s, TraiterStart(r, t, d).d)
  BY DEF Reserve_
<1>1. PICK y : y = TraiterStart(r, t, d)
  OBVIOUS
<1>2. PICK f : f = r.cur.fichier
  OBVIOUS
<1>3. /\ r.role = "Receiver" /\ r.done \in Nat /\ r.total \in Nat /\ r.cur \in Courants
      /\ f \in Fichiers /\ Taille[f] \in Nat /\ r.cur.base \in Nat /\ r.cur.written \in Nat
  BY <1>2, RecepteurLemma, CourantLemma
<1>4. t.fichier = f
  BY <1>2, <1>3 DEF APropos, Actuel, Sujet
<1>5. PICK reprise : reprise = OffsetReprise(d[f], f)
  OBVIOUS
<1>6. d[f] \in Seq(Morceaux) /\ DOMAIN d = Fichiers
  BY <1>3 DEF Repertoires
<1>7. reprise \in 0..Len(d[f])
  BY <1>3, <1>5, <1>6, OffsetLemma
<1>8. CASE r.cur.etat # "Attente"
  <2>1. y.s = r /\ y.d = d
    BY <1>1, <1>8 DEF TraiterStart, Recu
  <2> QED
    BY <1>1, <2>1
<1>9. CASE r.cur.etat = "Attente"
  <2>1. /\ y.s = [r EXCEPT !.cur.etat = "Reception", !.cur.plan = t.fichier,
                           !.cur.racine = t.racine, !.cur.reprise = reprise]
        /\ y.d = [d EXCEPT ![f] = SubSeq(@, 1, reprise)]
    BY <1>1, <1>2, <1>4, <1>5, <1>9 DEF TraiterStart, Recu
  <2>2. /\ y.s.role = "Receiver" /\ y.s.done = r.done /\ y.s.total = r.total
        /\ y.s.cur.fichier = f /\ y.s.cur.etat = "Reception"
        /\ y.s.cur.base = r.cur.base /\ y.s.cur.written = r.cur.written
    <3>1. PICK c : c = [r.cur EXCEPT !.etat = "Reception", !.plan = t.fichier,
                                     !.racine = t.racine, !.reprise = reprise]
      OBVIOUS
    <3>2. y.s = [r EXCEPT !.cur = c]
      BY <2>1, <3>1 DEF Recepteurs
    <3>3. /\ c.fichier = f /\ c.etat = "Reception"
          /\ c.base = r.cur.base /\ c.written = r.cur.written
      BY <1>2, <1>3, <3>1 DEF Courants
    <3> QED
      BY <1>3, <3>2, <3>3 DEF Recepteurs
  <2>3. /\ r.done + Taille[f] <= r.total /\ r.cur.written = 0 /\ r.cur.base = reprise
    BY <1>2, <1>3, <1>5, <1>9 DEF Reserve
  <2>4. Len(y.d[f]) = reprise
    <3>1. y.d[f] = SubSeq(d[f], 1, reprise)
      BY <1>3, <1>6, <2>1
    <3> QED
      BY <1>6, <1>7, <3>1, Debut
  <2>5. y.s.cur.base + y.s.cur.written = Len(y.d[f]) /\ r.done <= r.total
    BY <1>3, <2>2, <2>3, <2>4
  <2>6. Reserve(y.s, y.d)
    BY <2>2, <2>3, <2>5 DEF Reserve
  <2> QED
    BY <1>1, <2>6
<1> QED
  BY <1>8, <1>9

\* A Chunk that is written counts for one more.
LEMMA ReserveChunk ==
  ASSUME NEW r \in Recepteurs, NEW t \in Trames, NEW d \in Repertoires,
         t.type = "Chunk", r.vie = "Active", r.cur # Rien
  PROVE  Reserve_(r, t, d, TraiterChunk(r, t, d))
<1> SUFFICES ASSUME Reserve(r, d)
             PROVE  Reserve(TraiterChunk(r, t, d).s, TraiterChunk(r, t, d).d)
  BY DEF Reserve_
<1>1. PICK y : y = TraiterChunk(r, t, d)
  OBVIOUS
<1>2. PICK f : f = r.cur.fichier
  OBVIOUS
<1>3. /\ r.role = "Receiver" /\ r.done \in Nat /\ r.total \in Nat /\ r.cur \in Courants
      /\ f \in Fichiers /\ Taille[f] \in Nat /\ r.cur.base \in Nat /\ r.cur.written \in Nat
  BY <1>2, RecepteurLemma, CourantLemma
<1>4. d[f] \in Seq(Morceaux) /\ DOMAIN d = Fichiers
  BY <1>3 DEF Repertoires
<1>5. t.chunk \in Morceaux
  BY DEF Trames, Morceaux
<1>6. CASE ~(r.cur.etat = "Reception" /\ Len(d[f]) < Taille[r.cur.plan] /\ t.index = Len(d[f]))
  <2>1. y.s = r /\ y.d = d
    BY <1>1, <1>2, <1>6 DEF TraiterChunk, Recu
  <2> QED
    BY <1>1, <2>1
<1>7. CASE r.cur.etat = "Reception" /\ Len(d[f]) < Taille[r.cur.plan] /\ t.index = Len(d[f])
  <2>1. y.s = [r EXCEPT !.cur.written = @ + 1] /\ y.d = [d EXCEPT ![f] = Append(@, t.chunk)]
    BY <1>1, <1>2, <1>7 DEF TraiterChunk, Recu
  <2>2. /\ y.s.role = "Receiver" /\ y.s.done = r.done /\ y.s.total = r.total
        /\ y.s.cur.fichier = f /\ y.s.cur.etat = "Reception"
        /\ y.s.cur.base = r.cur.base /\ y.s.cur.written = r.cur.written + 1
    <3>1. PICK c : c = [r.cur EXCEPT !.written = @ + 1]
      OBVIOUS
    <3>2. y.s = [r EXCEPT !.cur = c]
      BY <2>1, <3>1 DEF Recepteurs
    <3>3. /\ c.fichier = f /\ c.etat = "Reception"
          /\ c.base = r.cur.base /\ c.written = r.cur.written + 1
      BY <1>2, <1>3, <1>7, <3>1 DEF Courants
    <3> QED
      BY <1>3, <3>2, <3>3 DEF Recepteurs
  <2>3. r.done + Taille[f] <= r.total /\ r.cur.base + r.cur.written = Len(d[f])
    BY <1>2, <1>3, <1>7 DEF Reserve
  <2>4. Len(y.d[f]) = Len(d[f]) + 1
    <3>1. y.d[f] = Append(d[f], t.chunk)
      BY <1>3, <1>4, <2>1
    <3>2. \A z \in Morceaux : \A c \in Seq(Morceaux) : Len(Append(c, z)) = Len(c) + 1
      <4> HIDE DEF Morceaux
      <4> QED
        OBVIOUS
    <3> QED
      BY <1>4, <1>5, <3>1, <3>2
  <2>5. y.s.cur.base + y.s.cur.written = Len(y.d[f]) /\ r.done <= r.total
    <3>1. r.done <= r.total
      BY <1>3, <2>3
    <3>2. r.cur.base + (r.cur.written + 1) = (r.cur.base + r.cur.written) + 1
      BY <1>3
    <3> QED
      BY <2>2, <2>3, <2>4, <3>1, <3>2
  <2>6. Reserve(y.s, y.d)
    BY <2>2, <2>3, <2>5 DEF Reserve
  <2> QED
    BY <1>1, <2>6
<1> QED
  BY <1>6, <1>7

\* An End moves the file from the reserve to what is done.
LEMMA ReserveEnd ==
  ASSUME NEW r \in Recepteurs, NEW t \in Trames, NEW d \in Repertoires,
         t.type = "End", r.vie = "Active", r.cur # Rien
  PROVE  Reserve_(r, t, d, TraiterEnd(r, d))
<1> SUFFICES ASSUME Reserve(r, d)
             PROVE  Reserve(TraiterEnd(r, d).s, TraiterEnd(r, d).d)
  BY DEF Reserve_
<1>1. PICK y : y = TraiterEnd(r, d)
  OBVIOUS
<1>2. PICK n : n = Taille[r.cur.fichier]
  OBVIOUS
<1>3. \/ y.s = r /\ y.d = d
      \/ /\ y.s = [r EXCEPT !.cur = Rien, !.completed = @ + 1, !.done = @ + n]
         /\ y.d = d
  BY <1>1, <1>2 DEF TraiterEnd, Recu
<1>4. CASE y.s = r /\ y.d = d
  BY <1>1, <1>4
<1>5. CASE y.s = [r EXCEPT !.cur = Rien, !.completed = @ + 1, !.done = @ + n]
  <2>1. y.s.role = r.role /\ y.s.cur = Rien /\ y.s.done = r.done + n /\ y.s.total = r.total
    BY <1>5 DEF Recepteurs
  <2>2. r.role = "Receiver" /\ r.done + n <= r.total
    BY <1>2, RecepteurLemma DEF Reserve
  <2>3. Reserve(y.s, y.d)
    BY <2>1, <2>2 DEF Reserve
  <2> QED
    BY <1>1, <2>3
<1> QED
  BY <1>3, <1>4, <1>5

\* handle_incoming of a receiver.
LEMMA ReserveHandle ==
  ASSUME NEW r \in Recepteurs, NEW t \in Trames, NEW d \in Repertoires
  PROVE  Reserve_(r, t, d, HandleIncoming(r, t, d))
<1> DEFINE y == HandleIncoming(r, t, d)
<1>0. r.role = "Receiver" /\ r.vie \in Vies
  BY RecepteurLemma
<1>1. CASE r.vie # "Active" \/ t.type \in {"Cancel", "Done", "Resume"}
              \/ (r.cur = Rien /\ t.type # "Offer")
  <2>1. /\ y.d = d
        /\ \/ y.s = r \/ y.s = [r EXCEPT !.vie = "Cancelled"]
           \/ y.s = [r EXCEPT !.finished = TRUE]
    <3>1. CASE r.vie # "Active"
      BY <3>1 DEF HandleIncoming, Recu
    <3>2. CASE r.vie = "Active" /\ t.type = "Cancel"
      BY <3>2 DEF HandleIncoming, Recu
    <3>3. CASE r.vie = "Active" /\ t.type # "Cancel"
      <4>1. y = TraiterRecepteur(r, t, d)
        BY <1>0, <3>3 DEF HandleIncoming
      <4>2. CASE t.type = "Done"
        <5>1. TraiterRecepteur(r, t, d) = Recu([r EXCEPT !.finished = TRUE], d)
          BY <4>2, Zenon DEF TraiterRecepteur
        <5> QED
          BY <4>1, <5>1 DEF Recu
      <4>3. CASE t.type = "Resume" \/ (t.type \in {"Start", "Chunk", "End"} /\ r.cur = Rien)
        BY <4>1, <4>3 DEF TraiterRecepteur, Recu
      <4> QED
        BY <1>1, <3>3, <4>2, <4>3, TypesTrames
    <3> QED
      BY <3>1, <3>2, <3>3
  <2> HIDE DEF y
  <2>2. y.s.role = r.role /\ y.s.cur = r.cur /\ y.s.done = r.done /\ y.s.total = r.total
    BY <2>1 DEF Recepteurs
  <2>3. Reserve_(r, t, d, y)
    BY <2>1, <2>2, ReserveInchangee DEF Reserve_
  <2> USE DEF y
  <2> QED
    BY <2>3
<1>2. CASE r.vie = "Active" /\ t.type \in {"Offer", "Start", "Chunk", "End"}
              /\ (r.cur # Rien \/ t.type = "Offer")
  <2>1. y = TraiterRecepteur(r, t, d)
    BY <1>0, <1>2 DEF HandleIncoming
  <2>2. CASE t.type = "Offer"
    BY <1>2, <2>1, <2>2, ReserveOffre DEF TraiterRecepteur
  <2>3. CASE t.type = "Start"
    BY <1>2, <2>1, <2>3, ReserveStart DEF TraiterRecepteur
  <2>4. CASE t.type = "Chunk"
    BY <1>2, <2>1, <2>4, ReserveChunk DEF TraiterRecepteur
  <2>5. CASE t.type = "End"
    BY <1>2, <2>1, <2>5, ReserveEnd DEF TraiterRecepteur
  <2> QED
    BY <1>2, <2>2, <2>3, <2>4, <2>5
<1> QED
  BY <1>1, <1>2, TypesTrames

\* A sender that handles a frame has counted as many files.
LEMMA CompteTraite ==
  ASSUME NEW s, Place(s), NEW t \in Trames, NEW d, Compte(s)
  PROVE  Compte(HandleIncoming(s, t, d).s)
<1>0. s \in Emetteurs /\ s.role = "Sender" /\ s.vie \in Vies
  BY DEF Place, Emetteurs
<1>1. PICK y : y = HandleIncoming(s, t, d).s
  OBVIOUS
<1>2. \/ y = s \/ y = [s EXCEPT !.vie = "Cancelled"] \/ y = TraiterEmetteur(s, t)
  BY <1>0, <1>1 DEF HandleIncoming, Recu
<1>3. \/ y = s \/ y = [s EXCEPT !.vie = "Cancelled"]
      \/ y = [s EXCEPT !.stage = "Stream", !.etape = "Start",
                       !.base = t.offset, !.prochain = t.offset]
  BY <1>2 DEF TraiterEmetteur
<1>4. MemeCompte(s, y)
  BY <1>0, <1>3 DEF MemeCompte, Emetteurs
<1> QED
  BY <1>1, <1>4, CompteInchange

\* handle_incoming of any slot.
LEMMA AvanceTraite ==
  ASSUME NEW x, Bonne(x), NEW t \in Trames, NEW d \in Repertoires,
         Avance(x, d), Ouvert(x, d), APropos(x, t)
  PROVE  LET y == HandleIncoming(Accueil(x), t, d) IN Avance(y.s, y.d)
<1> DEFINE y == HandleIncoming(Accueil(x), t, d)
<1>1. CASE Place(x)
  <2>1. Accueil(x) = x
    BY <1>1 DEF Accueil, Place, Emetteurs, Vide
  <2>2. Compte(y.s) /\ Traitement(x, t, d, y)
    BY <1>1, <2>1, CompteTraite, HandleSlot DEF Avance
  <2>3. y.s.role = "Sender"
    <3>1. x \in Emetteurs /\ x.role = "Sender" /\ x.vie \in Vies
      BY <1>1 DEF Place, Emetteurs
    <3>2. \/ y.s = x \/ y.s = [x EXCEPT !.vie = "Cancelled"] \/ y.s = TraiterEmetteur(x, t)
      BY <2>1, <3>1 DEF HandleIncoming, Recu
    <3>3. TraiterEmetteur(x, t).role = "Sender"
      BY <1>1, TraiterEmetteurLemma, Roles DEF Bonne
    <3> HIDE DEF y
    <3> QED
      BY <3>1, <3>2, <3>3 DEF Emetteurs
  <2> HIDE DEF y
  <2>4. Avance(y.s, y.d)
    BY <2>2, <2>3 DEF Avance, Reserve
  <2> USE DEF y
  <2> QED
    BY <2>4
<1>2. CASE x \in Recepteurs \/ x = Vide
  <2>1. PICK r : r = Accueil(x)
    OBVIOUS
  <2>2. r \in Recepteurs /\ Ouvert(r, d) /\ APropos(r, t) /\ Reserve(r, d)
    <3>1. CASE x = Vide
      <4>1. r = Recepteur /\ Recepteur.done = 0 /\ Recepteur.total = 0
        BY <2>1, <3>1 DEF Accueil, Recepteur
      <4>2. r \in Recepteurs /\ r.cur = Rien
        BY <4>1, RecepteurNeuf
      <4>3. APropos(r, t)
        BY <3>1, <4>2 DEF APropos, Actuel
      <4> QED
        BY <4>1, <4>2, <4>3 DEF Ouvert, Enreception, Reserve
    <3>2. CASE x \in Recepteurs
      <4>1. x # Vide
        BY <3>2, RecepteurLemma DEF Vide
      <4> QED
        BY <2>1, <3>2, <4>1 DEF Accueil, Avance
    <3> QED
      BY <1>2, <3>1, <3>2
  <2>3. Reserve_(r, t, d, y) /\ Bien(r, t, d, y)
    BY <2>1, <2>2, ReserveHandle, HandleRecepteur
  <2> HIDE DEF y
  <2>4. y.s.role = "Receiver"
    BY <2>3, RecepteurLemma DEF Bien, Range_
  <2>5. Avance(y.s, y.d)
    BY <2>2, <2>3, <2>4 DEF Reserve_, Avance, Compte
  <2> USE DEF y
  <2> QED
    BY <2>5
<1> QED
  BY <1>1, <1>2 DEF Bonne

\* cancel, pause and resume.
LEMMA AvancePilotage ==
  ASSUME NEW x, Bonne(x), x # Vide, NEW y \in {Cancel(x), Pause(x), Resume(x)},
         NEW d, Avance(x, d)
  PROVE  Avance(y, d)
<1>1. \/ y = x \/ y = [x EXCEPT !.pause = TRUE] \/ y = [x EXCEPT !.pause = FALSE]
      \/ y = [x EXCEPT !.vie = "CancelPending"]
  BY DEF Cancel, Pause, Resume
<1>2. CASE Place(x)
  <2>1. x \in Emetteurs /\ x.role = "Sender"
    BY <1>2 DEF Place, Emetteurs
  <2>2. MemeCompte(x, y)
    BY <1>1, <2>1 DEF MemeCompte, Emetteurs
  <2>3. Compte(y) /\ y.role = "Sender"
    BY <2>1, <2>2, CompteInchange DEF Avance, MemeCompte
  <2> QED
    BY <2>3 DEF Avance, Reserve
<1>3. CASE x \in Recepteurs
  <2>1. /\ y.role = x.role /\ y.cur = x.cur /\ y.done = x.done /\ y.total = x.total
        /\ x.role = "Receiver"
    BY <1>1, <1>3 DEF Recepteurs
  <2> QED
    BY <2>1, ReserveInchangee DEF Avance, Compte
<1> QED
  BY <1>2, <1>3 DEF Bonne

\* A new batch has nothing behind it.
LEMMA AvanceEmetteur ==
  ASSUME NEW lot \in Lots, NEW d
  PROVE  Avance(Emetteur(lot), d)
<1>1. Cumul(lot)[0] = 0
  BY LotsAssumption, CumulLemma
<1>2. PICK s : s = Emetteur(lot)
  OBVIOUS
<1>3. /\ s.role = "Sender" /\ s.queue = lot /\ s.current - 1 = 0 /\ s.done = 0
      /\ s.prochain = 0
  BY <1>2 DEF Emetteur
<1>4. Avance(s, d)
  BY <1>1, <1>3 DEF Avance, Compte, Reserve
<1> QED
  BY <1>2, <1>4

\* The empty slots of the beginning.
LEMMA AvanceInit == Init => AvanceInd
BY DEF Init, AvanceInd, Avance, Compte, Reserve, Vide

\* Every step keeps it.
LEMMA AvancePas == Types /\ DisqueInd /\ AvanceInd /\ [Next]_vars => AvanceInd'
<1> SUFFICES ASSUME Types, DisqueInd, AvanceInd, [Next]_vars PROVE AvanceInd'
  OBVIOUS
<1> USE DEF transfert, droits, compteurs, histoire
<1>a. TypeSlots /\ TypeReste /\ \A q \in Pairs : Bonne(slot[q])
  BY DEF Types, TypeSlots
<1>b. \A p \in Pairs : Autre(p) \in Pairs
  BY PairsLemma
<1>r. \A q \in Pairs : ~offrePerdue[q] => Avance(slot[q], disque[q])
  BY DEF AvanceInd
\* A step that changes one slot, no directory, and loses no history.
<1>s. ASSUME NEW p \in Pairs, NEW y, Bonne(y), slot' = [slot EXCEPT ![p] = y],
             disque' = disque, \A q \in Pairs : offrePerdue[q] => offrePerdue'[q],
             ~offrePerdue[p] => Avance(y, disque[p])
      PROVE  AvanceInd'
  <2>1. slot'[p] = y /\ \A q \in Pairs : q # p => slot'[q] = slot[q]
    BY <1>a, <1>s, UnSlot
  <2> QED
    BY <1>r, <1>s, <2>1 DEF AvanceInd
\* A step that changes no slot and no directory.
<1>i. ASSUME slot' = slot, disque' = disque,
             \A q \in Pairs : offrePerdue[q] => offrePerdue'[q]
      PROVE  AvanceInd'
  BY <1>i, <1>r DEF AvanceInd
<1>1. ASSUME NEW p \in Pairs, Envoyer(p) PROVE AvanceInd'
  <2>1. PICK lot \in Lots : slot' = [slot EXCEPT ![p] = Emetteur(lot)]
    BY <1>1 DEF Envoyer
  <2>2. disque' = disque /\ offrePerdue' = offrePerdue
    BY <1>1 DEF Envoyer
  <2>3. Bonne(Emetteur(lot)) /\ Avance(Emetteur(lot), disque[p])
    BY EmetteurLemma, AvanceEmetteur DEF Bonne
  <2> QED
    BY <1>s, <2>1, <2>2, <2>3
<1>2. ASSUME NEW p \in Pairs, Pomper(p) \/ PomperDansLeVide(p) PROVE AvanceInd'
  <2>1. PICK y : y = PollOutgoing(slot[p]).s
    OBVIOUS
  <2>2. slot[p] # Vide /\ slot' = [slot EXCEPT ![p] = y] /\ disque' = disque
    BY <1>2, <2>1 DEF Pomper, PomperDansLeVide
  <2>3. Bonne(y) /\ (~offrePerdue[p] => Avance(y, disque[p]))
    BY <1>a, <1>r, <2>1, <2>2, PollSlot, AvancePoll DEF Emission
  <2>4. \A q \in Pairs : offrePerdue[q] => offrePerdue'[q]
    <3>1. CASE Pomper(p)
      BY <3>1 DEF Pomper
    <3>2. CASE PomperDansLeVide(p)
      <4>1. PICK b \in BOOLEAN :
              offrePerdue' = [offrePerdue EXCEPT ![Autre(p)] = @ \/ b]
        BY <3>2 DEF PomperDansLeVide
      <4> QED
        BY <1>a, <1>b, <4>1 DEF TypeReste
    <3> QED
      BY <1>2, <3>1, <3>2
  <2> QED
    BY <1>s, <2>2, <2>3, <2>4
<1>3. ASSUME NEW p \in Pairs, TrameRecue(p) PROVE AvanceInd'
  <2> DEFINE t == Head(canal[p])
  <2>1. canal[p] # <<>> /\ canal[p] \in Seq(Trames) /\ t \in Trames
    BY <1>3, <1>a, PremiereTrame DEF TrameRecue, TypeReste
  <2>2. CASE Recevoir(p)
    <3> DEFINE y == HandleIncoming(Accueil(slot[p]), t, disque[p])
    <3>1. /\ slot' = [slot EXCEPT ![p] = y.s] /\ disque' = [disque EXCEPT ![p] = y.d]
          /\ Bonne(y.s) /\ disque[p] \in Repertoires /\ Traitement(slot[p], t, disque[p], y)
      BY <1>3, <2>2, RecevoirLemma DEF Traitement
    <3>2. offrePerdue' = offrePerdue
      BY <2>2 DEF Recevoir
    <3>3. ~offrePerdue[p] => Avance(y.s, y.d)
      <4> SUFFICES ASSUME ~offrePerdue[p] PROVE Avance(y.s, y.d)
        OBVIOUS
      <4>1. Fil(canal[p], slot[Autre(p)], slot[p]) /\ Ouvert(slot[p], disque[p])
        BY DEF DisqueInd, Recu_
      <4>2. APropos(slot[p], t)
        <5>1. /\ t.type = "Offer" => Actuel(y.s, t.fichier)
              /\ t.type # "Offer" => \A f : Actuel(slot[p], f) => Actuel(y.s, f)
          BY <3>1 DEF Traitement
        <5>2. PICK z : z = y.s
          OBVIOUS
        <5>3. t = Head(canal[p])
          OBVIOUS
        <5> HIDE DEF y, t
        <5> QED
          BY <2>1, <4>1, <5>1, <5>2, <5>3, Depiler
      <4> QED
        BY <1>a, <1>r, <2>1, <3>1, <4>1, <4>2, AvanceTraite
    <3> HIDE DEF y, t
    <3>4. slot'[p] = y.s /\ \A q \in Pairs : q # p => slot'[q] = slot[q]
      BY <1>a, <3>1, UnSlot
    <3>5. disque'[p] = y.d /\ \A q \in Pairs : q # p => disque'[q] = disque[q]
      BY <1>a, <3>1 DEF TypeReste
    <3> QED
      BY <1>r, <3>2, <3>3, <3>4, <3>5 DEF AvanceInd
  <2>3. CASE Ignorer(p)
    <3>1. PICK b \in BOOLEAN : /\ slot' = slot /\ disque' = disque
                               /\ offrePerdue' = [offrePerdue EXCEPT ![p] = @ \/ b]
      BY <2>3 DEF Ignorer
    <3>2. \A q \in Pairs : offrePerdue[q] => offrePerdue'[q]
      BY <1>a, <3>1 DEF TypeReste
    <3> QED
      BY <1>i, <3>1, <3>2
  <2> QED
    BY <1>3, <2>2, <2>3 DEF TrameRecue
<1>4. ASSUME NEW p \in Pairs, MajPermissions(p) PROVE AvanceInd'
  BY <1>4, <1>i DEF MajPermissions
<1>5. ASSUME NEW p \in Pairs, Piloter(p) \/ Reprendre(p) PROVE AvanceInd'
  <2>1. PICK y \in {Cancel(slot[p]), Pause(slot[p]), Resume(slot[p])} :
          slot[p] # Vide /\ slot' = [slot EXCEPT ![p] = y]
    BY <1>5 DEF Piloter, Reprendre
  <2>2. disque' = disque /\ offrePerdue' = offrePerdue
    BY <1>5 DEF Piloter, Reprendre
  <2>3. Bonne(y) /\ (~offrePerdue[p] => Avance(y, disque[p]))
    BY <1>a, <1>r, <2>1, PilotageLemma, AvancePilotage
  <2> QED
    BY <1>s, <2>1, <2>2, <2>3
<1>6. CASE MajRecue \/ Retablir \/ UNCHANGED vars
  BY <1>6, <1>i DEF MajRecue, Retablir, vars
<1>7. CASE Couper
  <2>1. /\ slot' = slot /\ disque' = disque
        /\ offrePerdue' = [p \in Pairs |-> offrePerdue[p] \/
                             \E i \in DOMAIN canal[p] : canal[p][i].type = "Offer"]
    BY <1>7 DEF Couper
  <2>2. \A q \in Pairs : offrePerdue[q] => offrePerdue'[q]
    BY <2>1
  <2> QED
    BY <1>i, <2>1, <2>2
<1> QED
  BY <1>1, <1>2, <1>3, <1>4, <1>5, <1>6, <1>7 DEF Next

\* The progress shown never exceeds its total, for any queue, with files resumed, offered
\* again or interrupted, as long as no offer to that peer was lost (session_progress).
THEOREM ProgressionToujoursBornee == Spec => []ProgressionBornee
<1>1. Types /\ DisqueInd /\ AvanceInd => ProgressionBornee
  <2> SUFFICES ASSUME Types, DisqueInd, AvanceInd, NEW p \in Pairs,
                      slot[p].role # "None", ~offrePerdue[p]
               PROVE  BytesDone(slot[p]) <= BytesTotal(slot[p])
    BY DEF ProgressionBornee
  <2>1. Bonne(slot[p]) /\ disque[p] \in Repertoires
    BY DEF Types, TypeSlots, TypeReste
  <2>2. Ouvert(slot[p], disque[p]) /\ Avance(slot[p], disque[p])
    BY DEF DisqueInd, Recu_, AvanceInd
  <2> QED
    BY <2>1, <2>2, AvanceBorne
<1>2. Init => AvanceInd
  BY AvanceInit
<1>3. Types /\ DisqueInd /\ AvanceInd /\ [Next]_vars => AvanceInd'
  BY AvancePas
<1> QED
  BY <1>1, <1>2, <1>3, DisqueToujours, PTL DEF Spec

=============================================================================
