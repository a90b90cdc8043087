---------------------------- MODULE Reseau_proofs ----------------------------
(***************************************************************************)
(* Theorems of the network and its servers.  Each bench has an inductive   *)
(* invariant, kept by the steps of the bench and untouched by those of the *)
(* others: DatInd (datagrams), RepInd (transparent reconnection), RelInd   *)
(* (relay), RvInd (meeting) and PontInd (bridges) are here, ComptesInd and *)
(* ApiInd in Comptes_proofs and ApiDurable_proofs.  The composition is at  *)
(* the end.                                                                *)
(***************************************************************************)
EXTENDS Reseau, Comptes_proofs, ApiDurable_proofs, SequenceTheorems, FiniteSetTheorems,
        WellFoundedInduction, TLAPS

-----------------------------------------------------------------------------
(* The datagrams. *)

\* Types of the direction, and what the fragments on their way are of.
DatTypes ==
  /\ envoyees \in Seq(Lots \cup {TropGrande}) /\ Len(envoyees) <= MaxTrames
  /\ reseau \subseteq [n : Nonces, index : Nat \ {0}]
  /\ \A f \in reseau : f.n <= Len(envoyees)
  /\ flux \in Seq(Nonces) /\ entrante \in Seq(Nonces)
  /\ nonce \in 1..(MaxTrames + 1) /\ rompu \in BOOLEAN

\* Types of the auxiliary variables.
DatAux ==
  /\ ouvertures \in Nat
  /\ premiere \in [Nonces -> Nat] /\ \A n \in Nonces : premiere[n] <= ouvertures
  /\ absorbes \in [Nonces -> SUBSET Nat] /\ \A n \in Nonces : IsFiniteSet(absorbes[n])
  /\ livraisons \in [Nonces -> Nat]

\* A reassembler t with its order o: the order names once each frame it holds.
OrdreDe(t, o) ==
  /\ o \in Seq(Nonces) /\ Len(o) <= EnVol
  /\ t \in [DOMAIN t -> [fragments : SUBSET Nat, livree : BOOLEAN]]
  /\ \A i \in 1..Len(o) : o[i] \in DOMAIN t
  /\ \A n \in DOMAIN t : \E i \in 1..Len(o) : o[i] = n
  /\ \A i, j \in 1..Len(o) : o[i] = o[j] => i = j

\* A frame never opened has nothing; one opened was sent.
Ouverte(n) ==
  /\ premiere[n] = 0 => n \notin DOMAIN trames /\ absorbes[n] = {} /\ livraisons[n] = 0
  /\ premiere[n] > 0 => n <= Len(envoyees)

\* The frames opened since the first fragment of n.
Depuis(n) == ouvertures - premiere[n]

\* Fewer than the reassembler holds.
Recente(n) == premiere[n] > 0 /\ Depuis(n) < EnVol

\* A recent frame is held, at the rank its opening gave it, with what arrived of it.
Tenue(n) ==
  /\ Depuis(n) < Len(ordre) /\ ordre[Len(ordre) - Depuis(n)] = n
  /\ trames[n].livree <=> Cardinality(absorbes[n]) >= envoyees[n].k
  /\ ~trames[n].livree => trames[n].fragments = absorbes[n]
  /\ livraisons[n] = IF trames[n].livree THEN 1 ELSE 0

\* The inductive invariant of the datagrams.
DatInd ==
  /\ DatTypes /\ DatAux /\ OrdreDe(trames, ordre)
  /\ \A n \in Nonces : Ouverte(n) /\ (Recente(n) => Tenue(n))

\* An order names each frame once: it has as many as there are.
LEMMA TramesComptees ==
  ASSUME NEW t, NEW o, OrdreDe(t, o)
  PROVE  /\ IsFiniteSet(DOMAIN t) /\ Cardinality(DOMAIN t) = Len(o)
         /\ DOMAIN t = Range(o)
<1>1. o \in [1..Len(o) -> DOMAIN t] /\ Len(o) \in Nat
  <2>1. o \in Seq(Nonces)
    BY DEF OrdreDe
  <2>2. Len(o) \in Nat /\ o \in [1..Len(o) -> Nonces]
    BY <2>1, LenProperties
  <2> QED
    BY <2>2 DEF OrdreDe
<1>2. o \in Bijection(1..Len(o), DOMAIN t)
  BY <1>1 DEF OrdreDe, Bijection, Injection, Surjection, IsInjective
<1>3. ExistsBijection(1..Len(o), DOMAIN t)
  BY <1>2 DEF ExistsBijection
<1>4. IsFiniteSet(DOMAIN t) /\ Cardinality(DOMAIN t) = Len(o)
  BY <1>1, <1>3, FS_NatBijection, FS_CountingElements
<1>5. DOMAIN t = Range(o)
  <2>1. DOMAIN o = 1..Len(o)
    BY <1>1
  <2>2. Range(o) = {o[i] : i \in 1..Len(o)}
    BY <2>1 DEF Range
  <2>3. \A i \in 1..Len(o) : o[i] \in DOMAIN t
    BY DEF OrdreDe
  <2>4. \A n \in DOMAIN t : \E i \in 1..Len(o) : o[i] = n
    BY DEF OrdreDe
  <2> QED
    BY <2>2, <2>3, <2>4, Zenon
<1> QED
  BY <1>4, <1>5

\* The numbers of the messages.
LEMMA NoncesEntiers == Nonces \subseteq Nat \ {0} /\ MaxTrames \in Nat /\ EnVol \in Nat \ {0}
BY DatagrammesAssumption DEF DatagrammesAssumption, Nonces

\* A lot of a frame has a number of fragments.
LEMMA LotsEntiers == \A l \in Lots \cup {TropGrande} : l.k \in Nat
BY DatagrammesAssumption DEF DatagrammesAssumption, TropGrande

\* The entry of a new frame.
EntreeNeuve(n, t, o) ==
  /\ OrdreDe(t, o) /\ n \in DOMAIN t /\ t[n] = Neuve
  /\ \A x \in DOMAIN t : x # n => x \in DOMAIN trames /\ t[x] = trames[x]
  /\ Len(o) > 0 /\ o[Len(o)] = n
  /\ \A d \in Nat : d < Len(ordre) /\ d + 1 < EnVol =>
        d + 1 < Len(o) /\ o[Len(o) - (d + 1)] = ordre[Len(ordre) - d]

\* A new frame enters at the end of the order, below saturation ...
LEMMA EntreeSansEviction ==
  ASSUME OrdreDe(trames, ordre), NEW n \in Nonces, n \notin DOMAIN trames, Len(ordre) < EnVol
  PROVE  EntreeNeuve(n, [x \in DOMAIN trames \cup {n} |-> IF x = n THEN Neuve ELSE trames[x]],
                        Append(ordre, n))
<1> DEFINE t == [x \in DOMAIN trames \cup {n} |-> IF x = n THEN Neuve ELSE trames[x]]
           o == Append(ordre, n)
<1>1. ordre \in Seq(Nonces) /\ Len(ordre) \in Nat
  BY LenProperties DEF OrdreDe
<1>2. o \in Seq(Nonces) /\ Len(o) = Len(ordre) + 1
      /\ \A i \in 1..Len(ordre) : o[i] = ordre[i]
  BY <1>1, AppendProperties
<1>3. o[Len(ordre) + 1] = n
  BY <1>1, AppendProperties
<1>4. DOMAIN t = DOMAIN trames \cup {n}
  OBVIOUS
<1>5. t \in [DOMAIN t -> [fragments : SUBSET Nat, livree : BOOLEAN]]
  BY DEF OrdreDe, Neuve
<1>6. t[n] = Neuve /\ \A x \in DOMAIN t : x # n => x \in DOMAIN trames /\ t[x] = trames[x]
  OBVIOUS
<1> HIDE DEF t, o
<1>7. OrdreDe(t, o)
  <2>1. Len(o) <= EnVol
    BY <1>1, <1>2, NoncesEntiers
  <2>2. \A i \in 1..Len(o) : o[i] \in DOMAIN t
    BY <1>1, <1>2, <1>3, <1>4 DEF OrdreDe
  <2>3. \A m \in DOMAIN t : \E i \in 1..Len(o) : o[i] = m
    <3> TAKE m \in DOMAIN t
    <3>1. CASE m = n
      BY <3>1, <1>1, <1>2, <1>3
    <3>2. CASE m # n
      <4>1. PICK i \in 1..Len(ordre) : ordre[i] = m
        BY <3>2, <1>4 DEF OrdreDe
      <4> QED
        BY <4>1, <1>1, <1>2
    <3> QED
      BY <3>1, <3>2
  <2>4. \A i, j \in 1..Len(o) : o[i] = o[j] => i = j
    <3>1. \A i \in 1..Len(ordre) : o[i] # n
      BY <1>2 DEF OrdreDe
    <3>2. \A i, j \in 1..Len(ordre) : o[i] = o[j] => i = j
      BY <1>2 DEF OrdreDe
    <3>3. \A i \in 1..Len(o) : i \in 1..Len(ordre) \/ i = Len(ordre) + 1
      BY <1>1, <1>2
    <3> QED
      BY <3>1, <3>2, <3>3, <1>3
  <2> QED
    BY <1>2, <1>5, <2>1, <2>2, <2>3, <2>4 DEF OrdreDe
<1>8. \A d \in Nat : d < Len(ordre) /\ d + 1 < EnVol =>
        d + 1 < Len(o) /\ o[Len(o) - (d + 1)] = ordre[Len(ordre) - d]
  BY <1>1, <1>2
<1>9. EntreeNeuve(n, t, o)
  BY <1>1, <1>2, <1>3, <1>4, <1>6, <1>7, <1>8 DEF EntreeNeuve
<1> QED
  BY <1>9 DEF t, o

\* ... and at saturation too, after the eviction of the oldest.
LEMMA EntreeAvecEviction ==
  ASSUME OrdreDe(trames, ordre), NEW n \in Nonces, n \notin DOMAIN trames, Len(ordre) >= EnVol
  PROVE  EntreeNeuve(n, [x \in (DOMAIN trames \ {Head(ordre)}) \cup {n} |->
                            IF x = n THEN Neuve ELSE trames[x]],
                        Append(Tail(ordre), n))
<1> DEFINE t == [x \in (DOMAIN trames \ {Head(ordre)}) \cup {n} |->
                   IF x = n THEN Neuve ELSE trames[x]]
           o == Append(Tail(ordre), n)
           l == Len(ordre)
<1>1. ordre \in Seq(Nonces) /\ l \in Nat /\ l = EnVol /\ ordre # <<>>
  <2>1. ordre \in Seq(Nonces) /\ l \in Nat
    BY LenProperties DEF OrdreDe
  <2>2. l = EnVol
    BY <2>1, NoncesEntiers DEF OrdreDe
  <2> QED
    BY <2>1, <2>2, NoncesEntiers, EmptySeq
<1>2. /\ Tail(ordre) \in Seq(Nonces) /\ Len(Tail(ordre)) = l - 1
      /\ \A i \in 1..(l - 1) : Tail(ordre)[i] = ordre[i + 1]
      /\ Head(ordre) = ordre[1]
  <2>1. Tail(ordre) \in Seq(Nonces) /\ Len(Tail(ordre)) = l - 1
    BY <1>1, HeadTailProperties
  <2>2. \A i \in 1..(l - 1) : Tail(ordre)[i] = ordre[i + 1]
    BY <1>1, HeadTailProperties, <2>1
  <2>3. Head(ordre) = ordre[1]
    BY <1>1
  <2> QED
    BY <2>1, <2>2, <2>3
<1>3. o \in Seq(Nonces) /\ Len(o) = l /\ o[l] = n /\ \A i \in 1..(l - 1) : o[i] = ordre[i + 1]
  <2>1. o \in Seq(Nonces) /\ Len(o) = Len(Tail(ordre)) + 1
    BY <1>2, AppendProperties
  <2>2. o[Len(Tail(ordre)) + 1] = n /\ \A i \in 1..Len(Tail(ordre)) : o[i] = Tail(ordre)[i]
    BY <1>2, AppendProperties
  <2> HIDE DEF o
  <2>3. Len(o) = l /\ o[l] = n
    BY <1>1, <1>2, <2>1, <2>2
  <2>4. \A i \in 1..(l - 1) : o[i] = ordre[i + 1]
    BY <1>1, <1>2, <2>2
  <2> QED
    BY <2>1, <2>3, <2>4
<1>4. DOMAIN t = (DOMAIN trames \ {ordre[1]}) \cup {n}
  BY <1>2
<1>5. t \in [DOMAIN t -> [fragments : SUBSET Nat, livree : BOOLEAN]]
  BY DEF OrdreDe, Neuve
<1>6. t[n] = Neuve /\ \A x \in DOMAIN t : x # n => x \in DOMAIN trames /\ t[x] = trames[x]
  OBVIOUS
<1> HIDE DEF t, o
<1>7. OrdreDe(t, o)
  <2>1. Len(o) <= EnVol
    BY <1>1, <1>3, NoncesEntiers
  <2>2. \A i \in 1..Len(o) : o[i] \in DOMAIN t
    <3> TAKE i \in 1..Len(o)
    <3>1. CASE i = l
      BY <3>1, <1>3, <1>4
    <3>2. CASE i # l
      <4>1. i \in 1..(l - 1) /\ i + 1 \in 1..l /\ i + 1 # 1 /\ 1 \in 1..l
        BY <3>2, <1>1, <1>3
      <4>2. o[i] = ordre[i + 1]
        BY <4>1, <1>3
      <4>3. ordre[i + 1] \in DOMAIN trames /\ ordre[i + 1] # ordre[1]
        BY <4>1 DEF OrdreDe
      <4> QED
        BY <4>2, <4>3, <1>4
    <3> QED
      BY <3>1, <3>2
  <2>3. \A m \in DOMAIN t : \E i \in 1..Len(o) : o[i] = m
    <3> TAKE m \in DOMAIN t
    <3>1. CASE m = n
      BY <3>1, <1>1, <1>3, NoncesEntiers
    <3>2. CASE m # n
      <4>1. PICK i \in 1..l : ordre[i] = m
        BY <3>2, <1>4 DEF OrdreDe
      <4>2. i # 1
        BY <4>1, <3>2, <1>4
      <4>3. i - 1 \in 1..(l - 1) /\ i - 1 \in 1..l /\ (i - 1) + 1 = i
        BY <4>2, <1>1
      <4> QED
        BY <4>1, <4>3, <1>3
    <3> QED
      BY <3>1, <3>2
  <2>4. \A i, j \in 1..Len(o) : o[i] = o[j] => i = j
    <3>1. \A i \in 1..(l - 1) : o[i] # n
      <4> TAKE i \in 1..(l - 1)
      <4>1. i + 1 \in 1..l
        BY <1>1
      <4> QED
        BY <4>1, <1>3 DEF OrdreDe
    <3>2. \A i, j \in 1..(l - 1) : o[i] = o[j] => i = j
      <4> TAKE i, j \in 1..(l - 1)
      <4>1. i + 1 \in 1..l /\ j + 1 \in 1..l /\ (i + 1 = j + 1 => i = j)
        BY <1>1
      <4>2. ordre[i + 1] = ordre[j + 1] => i + 1 = j + 1
        BY <4>1 DEF OrdreDe
      <4> QED
        BY <4>1, <4>2, <1>3
    <3>3. \A i \in 1..Len(o) : i = l \/ i \in 1..(l - 1)
      BY <1>1, <1>3
    <3> QED
      BY <3>1, <3>2, <3>3, <1>3
  <2> QED
    BY <1>3, <1>5, <2>1, <2>2, <2>3, <2>4 DEF OrdreDe
<1>8. \A d \in Nat : d < Len(ordre) /\ d + 1 < EnVol =>
        d + 1 < Len(o) /\ o[Len(o) - (d + 1)] = ordre[Len(ordre) - d]
  <2> TAKE d \in Nat
  <2> HAVE d < Len(ordre) /\ d + 1 < EnVol
  <2>1. l - (d + 1) \in 1..(l - 1) /\ (l - (d + 1)) + 1 = l - d /\ d + 1 < l
    BY <1>1, NoncesEntiers
  <2> QED
    BY <2>1, <1>3
<1>9. EntreeNeuve(n, t, o)
  BY <1>1, <1>3, <1>4, <1>6, <1>7, <1>8, NoncesEntiers DEF EntreeNeuve
<1> QED
  BY <1>9 DEF t, o

\* Reassembleur::absorber, the entry of a frame it does not hold.
LEMMA OuvrirEffet ==
  ASSUME OrdreDe(trames, ordre), NEW n \in Nonces, n \notin DOMAIN trames
  PROVE  EntreeNeuve(n, Ouvrir(n).t, Ouvrir(n).o)
<1>1. Cardinality(DOMAIN trames) = Len(ordre) /\ Len(ordre) \in Nat
  BY TramesComptees, LenProperties DEF OrdreDe
<1>2. CASE Len(ordre) >= EnVol
  <2>1. Ouvrir(n).t = [x \in (DOMAIN trames \ {Head(ordre)}) \cup {n} |->
                            IF x = n THEN Neuve ELSE trames[x]]
        /\ Ouvrir(n).o = Append(Tail(ordre), n)
    BY <1>1, <1>2 DEF Ouvrir
  <2> QED
    BY <2>1, <1>2, EntreeAvecEviction
<1>3. CASE Len(ordre) < EnVol
  <2>1. ~(Cardinality(DOMAIN trames) >= EnVol)
    BY <1>1, <1>3, NoncesEntiers
  <2>2. Ouvrir(n).t = [x \in DOMAIN trames \cup {n} |-> IF x = n THEN Neuve ELSE trames[x]]
        /\ Ouvrir(n).o = Append(ordre, n)
    BY <2>1 DEF Ouvrir
  <2> QED
    BY <2>2, <1>3, EntreeSansEviction
<1> QED
  BY <1>1, <1>2, <1>3, NoncesEntiers

\* What Reassembleur::absorber makes of the entry of a frame of k fragments.
EntreeApres(trame, index, k) ==
  IF Complete(trame, index, k) THEN [fragments |-> {}, livree |-> TRUE]
  ELSE IF trame.livree THEN trame
  ELSE [trame EXCEPT !.fragments = @ \cup {index}]

\* An entry that follows what arrived of its frame still does after one fragment more.
LEMMA EntreeSuit ==
  ASSUME NEW trame \in [fragments : SUBSET Nat, livree : BOOLEAN],
         NEW index \in Nat, NEW k \in Nat, NEW A, IsFiniteSet(A),
         trame.livree => Cardinality(A) >= k,
         ~trame.livree => trame.fragments = A
  PROVE  /\ EntreeApres(trame, index, k).livree <=> Cardinality(A \cup {index}) >= k
         /\ ~EntreeApres(trame, index, k).livree => EntreeApres(trame, index, k).fragments = A \cup {index}
         /\ Complete(trame, index, k) <=> EntreeApres(trame, index, k).livree /\ ~trame.livree
<1>1. Cardinality(A \cup {index}) \in Nat /\ Cardinality(A) \in Nat
      /\ Cardinality(A \cup {index}) >= Cardinality(A)
  <2>1. IsFiniteSet(A \cup {index}) /\ Cardinality(A) \in Nat
    BY FS_AddElement, FS_CardinalityType
  <2>2. Cardinality(A \cup {index}) = IF index \in A THEN Cardinality(A) ELSE Cardinality(A) + 1
    BY FS_AddElement
  <2> QED
    BY <2>1, <2>2
<1>2. CASE trame.livree
  <2>1. ~Complete(trame, index, k)
    BY <1>2 DEF Complete
  <2>2. EntreeApres(trame, index, k) = trame
    BY <2>1, <1>2 DEF EntreeApres
  <2>3. Cardinality(A \cup {index}) >= k
    BY <1>1, <1>2
  <2> QED
    BY <1>2, <2>1, <2>2, <2>3
<1>3. CASE ~trame.livree
  <2>1. Complete(trame, index, k) <=> Cardinality(A \cup {index}) >= k
    BY <1>3 DEF Complete
  <2>2. CASE Complete(trame, index, k)
    <3>1. EntreeApres(trame, index, k) = [fragments |-> {}, livree |-> TRUE]
      BY <2>2 DEF EntreeApres
    <3>2. EntreeApres(trame, index, k).livree
      BY <3>1
    <3> QED
      BY <2>1, <2>2, <3>2, <1>3
  <2>3. CASE ~Complete(trame, index, k)
    <3>1. EntreeApres(trame, index, k) = [trame EXCEPT !.fragments = @ \cup {index}]
      BY <1>3, <2>3 DEF EntreeApres
    <3>2. ~EntreeApres(trame, index, k).livree /\ EntreeApres(trame, index, k).fragments = A \cup {index}
      BY <3>1, <1>3
    <3> QED
      BY <2>1, <2>3, <3>2
  <2> QED
    BY <2>2, <2>3
<1> QED
  BY <1>2, <1>3

\* The entry stays one.
LEMMA EntreeTypee ==
  ASSUME NEW trame \in [fragments : SUBSET Nat, livree : BOOLEAN], NEW index \in Nat, NEW k
  PROVE  EntreeApres(trame, index, k) \in [fragments : SUBSET Nat, livree : BOOLEAN]
<1>1. [fragments |-> {}, livree |-> TRUE] \in [fragments : SUBSET Nat, livree : BOOLEAN]
  OBVIOUS
<1>2. trame.fragments \cup {index} \in SUBSET Nat
  OBVIOUS
<1>3. [trame EXCEPT !.fragments = @ \cup {index}] \in [fragments : SUBSET Nat, livree : BOOLEAN]
  BY <1>2
<1> QED
  BY <1>1, <1>3 DEF EntreeApres

\* One entry of a reassembler replaced.
LEMMA EntreeRemplacee ==
  ASSUME NEW t, NEW o, OrdreDe(t, o), NEW n \in DOMAIN t,
         NEW e \in [fragments : SUBSET Nat, livree : BOOLEAN]
  PROVE  OrdreDe([t EXCEPT ![n] = e], o)
<1>1. [t EXCEPT ![n] = e] \in [DOMAIN t -> [fragments : SUBSET Nat, livree : BOOLEAN]]
  BY DEF OrdreDe
<1>2. DOMAIN [t EXCEPT ![n] = e] = DOMAIN t
  OBVIOUS
<1> QED
  BY <1>1, <1>2 DEF OrdreDe

\* A recent frame is held.
LEMMA RecenteTenue ==
  ASSUME DatInd, NEW n \in Nonces, Recente(n)
  PROVE  /\ Tenue(n) /\ n \in DOMAIN trames
         /\ Depuis(n) \in Nat /\ Len(ordre) - Depuis(n) \in 1..Len(ordre)
<1>1. Tenue(n) /\ ordre \in Seq(Nonces) /\ Len(ordre) \in Nat
  BY LenProperties DEF DatInd, OrdreDe
<1>2. Depuis(n) \in Nat
  BY DEF DatInd, DatAux, Depuis
<1>3. Len(ordre) - Depuis(n) \in 1..Len(ordre)
  BY <1>1, <1>2 DEF Tenue
<1>4. n \in DOMAIN trames
  BY <1>1, <1>3 DEF DatInd, OrdreDe, Tenue
<1> QED
  BY <1>1, <1>2, <1>3, <1>4

\* The steps that leave the reassembler alone; messages are only added to those sent.
LEMMA ReassembleurIntact ==
  ASSUME DatInd, UNCHANGED <<trames, ordre, ouvertures, premiere, absorbes, livraisons>>,
         Len(envoyees) <= Len(envoyees)', Len(envoyees)' \in Nat,
         \A i \in 1..Len(envoyees) : envoyees'[i] = envoyees[i],
         DatTypes'
  PROVE  DatInd'
<1>1. DatAux' /\ OrdreDe(trames, ordre)'
  BY DEF DatInd, DatAux, OrdreDe
<1>2. ASSUME NEW n \in Nonces PROVE Ouverte(n)' /\ (Recente(n)' => Tenue(n)')
  <2>1. Ouverte(n) /\ (Recente(n) => Tenue(n)) /\ n \in Nat \ {0}
    BY NoncesEntiers DEF DatInd
  <2>2. Len(envoyees) \in Nat
    BY LenProperties DEF DatInd, DatTypes
  <2>3. Ouverte(n)'
    BY <2>1, <2>2 DEF Ouverte
  <2>4. ASSUME Recente(n)' PROVE Tenue(n)'
    <3>1. Recente(n)
      BY <2>4 DEF Recente, Depuis
    <3>2. Tenue(n)
      BY <3>1, <2>1
    <3>3. n \in 1..Len(envoyees)
      BY <2>1, <2>2, <3>1 DEF Ouverte, Recente
    <3> QED
      BY <3>2, <3>3 DEF Tenue, Depuis
  <2> QED
    BY <2>3, <2>4
<1> QED
  BY <1>1, <1>2 DEF DatInd

\* datagram_reader.
LEMMA AbsorberPas ==
  ASSUME DatInd, NEW f \in reseau, Absorber(f)
  PROVE  DatInd'
<1> DEFINE n == f.n
           index == f.index
           neuve == n \notin DOMAIN trames
           t == Ouvrir(n).t
           o == Ouvrir(n).o
           k == envoyees[n].k
           apres == EntreeApres(t[n], index, k)
           livre == Complete(t[n], index, k)
<1>1. /\ n \in Nonces /\ n \in Nat \ {0} /\ index \in Nat /\ n <= Len(envoyees)
      /\ envoyees \in Seq(Lots \cup {TropGrande}) /\ Len(envoyees) \in Nat
  BY NoncesEntiers, LenProperties DEF DatInd, DatTypes
<1>2. k \in Nat
  <2>1. n \in 1..Len(envoyees)
    BY <1>1
  <2>2. envoyees[n] \in Lots \cup {TropGrande}
    BY <2>1, <1>1, ElementOfSeq
  <2> QED
    BY <2>2, LotsEntiers
<1>3. /\ trames' = [t EXCEPT ![n] = apres] /\ ordre' = o
      /\ reseau' = reseau \ {f} /\ entrante' = IF livre THEN Append(entrante, n) ELSE entrante
      /\ ouvertures' = IF neuve THEN ouvertures + 1 ELSE ouvertures
      /\ premiere' = IF premiere[n] = 0 THEN [premiere EXCEPT ![n] = ouvertures'] ELSE premiere
      /\ absorbes' = [absorbes EXCEPT ![n] = @ \cup {index}]
      /\ livraisons' = IF livre THEN [livraisons EXCEPT ![n] = @ + 1] ELSE livraisons
      /\ UNCHANGED <<envoyees, flux, nonce, rompu>>
  BY DEF Absorber, EntreeApres
<1>4. neuve => EntreeNeuve(n, t, o)
  BY <1>1, OuvrirEffet DEF DatInd
<1>5. ~neuve => t = trames /\ o = ordre
  BY DEF Ouvrir
<1>6. OrdreDe(t, o) /\ n \in DOMAIN t
  BY <1>4, <1>5 DEF DatInd, EntreeNeuve
<1>7. \A m \in DOMAIN t : m # n => m \in DOMAIN trames /\ t[m] = trames[m]
  BY <1>4, <1>5 DEF EntreeNeuve
<1> HIDE DEF t, o, k
<1>8. t[n] \in [fragments : SUBSET Nat, livree : BOOLEAN]
  BY <1>6 DEF OrdreDe
<1>9. apres \in [fragments : SUBSET Nat, livree : BOOLEAN]
  BY <1>1, <1>8, EntreeTypee
<1> HIDE DEF apres
<1>10. OrdreDe(trames', ordre')
  BY <1>3, <1>6, <1>9, EntreeRemplacee
<1>11. /\ DOMAIN trames' = DOMAIN t /\ trames'[n] = apres
       /\ \A m \in DOMAIN t : m # n => trames'[m] = t[m]
  <2>1. t \in [DOMAIN t -> [fragments : SUBSET Nat, livree : BOOLEAN]]
    BY <1>6 DEF OrdreDe
  <2> QED
    BY <2>1, <1>3, <1>6
<1>12. DatTypes'
  <2>1. DatTypes
    BY DEF DatInd
  <2>2. entrante' \in Seq(Nonces)
    BY <2>1, <1>1, <1>3, AppendProperties DEF DatTypes
  <2> QED
    BY <2>1, <2>2, <1>3 DEF DatTypes, Nonces
<1>13. /\ ouvertures \in Nat /\ ouvertures' \in Nat /\ ouvertures <= ouvertures'
       /\ premiere \in [Nonces -> Nat] /\ \A m \in Nonces : premiere[m] <= ouvertures
  BY <1>3 DEF DatInd, DatAux
<1>14. \A m \in Nonces : premiere'[m] = IF m = n /\ premiere[n] = 0 THEN ouvertures' ELSE premiere[m]
  BY <1>1, <1>3, <1>13
<1>15. /\ absorbes \in [Nonces -> SUBSET Nat]
       /\ \A m \in Nonces : absorbes'[m] = IF m = n THEN absorbes[n] \cup {index} ELSE absorbes[m]
  BY <1>1, <1>3 DEF DatInd, DatAux
<1>16. /\ livraisons \in [Nonces -> Nat]
       /\ \A m \in Nonces : livraisons'[m] = IF m = n /\ livre THEN livraisons[n] + 1 ELSE livraisons[m]
  BY <1>1, <1>3 DEF DatInd, DatAux
<1>17. DatAux'
  <2>1. premiere' \in [Nonces -> Nat]
    BY <1>1, <1>3, <1>13
  <2>2. \A m \in Nonces : premiere'[m] <= ouvertures'
    BY <1>13, <1>14
  <2>3. absorbes' \in [Nonces -> SUBSET Nat]
    BY <1>1, <1>3, <1>15
  <2>4. \A m \in Nonces : IsFiniteSet(absorbes'[m])
    <3>1. \A m \in Nonces : IsFiniteSet(absorbes[m])
      BY DEF DatInd, DatAux
    <3>2. IsFiniteSet(absorbes[n] \cup {index})
      BY <1>1, <3>1, FS_AddElement
    <3> QED
      BY <3>1, <3>2, <1>15
  <2>5. livraisons' \in [Nonces -> Nat]
    BY <1>1, <1>3, <1>16
  <2> QED
    BY <1>13, <2>1, <2>2, <2>3, <2>4, <2>5 DEF DatAux, Nonces
<1>18. ordre \in Seq(Nonces) /\ Len(ordre) \in Nat /\ o \in Seq(Nonces) /\ Len(o) \in Nat
  BY <1>6, LenProperties DEF DatInd, OrdreDe
\* The other frames: one opening more moves them by one rank.
<1>19. ASSUME NEW m \in Nonces, m # n PROVE Ouverte(m)' /\ (Recente(m)' => Tenue(m)')
  <2>1. /\ premiere'[m] = premiere[m] /\ absorbes'[m] = absorbes[m]
        /\ livraisons'[m] = livraisons[m]
    BY <1>14, <1>15, <1>16, <1>19
  <2>2. Ouverte(m) /\ (Recente(m) => Tenue(m)) /\ premiere[m] \in Nat
        /\ premiere[m] <= ouvertures
    BY <1>13 DEF DatInd
  <2>3. Ouverte(m)'
    <3>1. m \in DOMAIN trames' => m \in DOMAIN trames
      BY <1>7, <1>11, <1>19
    <3> QED
      BY <3>1, <2>1, <2>2, <1>3 DEF Ouverte
  <2>4. ASSUME Recente(m)' PROVE Tenue(m)'
    <3>1. Recente(m) /\ Depuis(m)' = (IF neuve THEN Depuis(m) + 1 ELSE Depuis(m))
      BY <2>1, <2>2, <2>4, <1>3, <1>13, NoncesEntiers DEF Recente, Depuis
    <3>2. Tenue(m) /\ m \in DOMAIN trames /\ Depuis(m) \in Nat
          /\ Len(ordre) - Depuis(m) \in 1..Len(ordre)
      BY <3>1, RecenteTenue
    <3>3. Depuis(m)' < Len(o) /\ o[Len(o) - Depuis(m)'] = m
      <4>1. CASE neuve
        <5>1. Depuis(m) + 1 < EnVol
          BY <3>1, <2>4, <4>1 DEF Recente
        <5>2. Depuis(m) < Len(ordre) /\ ordre[Len(ordre) - Depuis(m)] = m
          BY <3>2 DEF Tenue
        <5>3. Depuis(m) + 1 < Len(o) /\ o[Len(o) - (Depuis(m) + 1)] = ordre[Len(ordre) - Depuis(m)]
          BY <4>1, <1>4, <3>2, <5>1, <5>2 DEF EntreeNeuve
        <5> QED
          BY <5>2, <5>3, <3>1, <4>1
      <4>2. CASE ~neuve
        BY <4>2, <1>5, <3>1, <3>2 DEF Tenue
      <4> QED
        BY <4>1, <4>2
    <3>4. m \in DOMAIN t
      <4>1. Depuis(m)' \in Nat
        BY <3>1, <3>2
      <4>2. Len(o) - Depuis(m)' \in 1..Len(o)
        BY <3>3, <4>1, <1>18
      <4> QED
        BY <3>3, <4>2, <1>6 DEF OrdreDe
    <3>5. trames'[m] = trames[m]
      BY <3>4, <1>7, <1>11, <1>19
    <3> QED
      BY <3>2, <3>3, <3>5, <2>1, <1>3 DEF Tenue
  <2> QED
    BY <2>3, <2>4
\* The frame of the fragment.
<1>20. Ouverte(n)'
  <2>1. premiere'[n] > 0
    <3>1. neuve => ouvertures' > 0
      BY <1>3, <1>13
    <3>2. ~neuve => premiere[n] # 0
      BY <1>1 DEF DatInd, Ouverte
    <3> QED
      BY <3>1, <3>2, <1>1, <1>13, <1>14
  <2> QED
    BY <2>1, <1>1, <1>3 DEF Ouverte
<1>21. ASSUME Recente(n)' PROVE Tenue(n)'
  <2>1. CASE premiere[n] = 0
    <3>1. neuve /\ absorbes[n] = {} /\ livraisons[n] = 0
      BY <2>1, <1>1 DEF DatInd, Ouverte
    <3>2. t[n] = Neuve /\ Len(o) > 0 /\ o[Len(o)] = n
      BY <3>1, <1>4 DEF EntreeNeuve
    <3>3. Depuis(n)' = 0
      BY <2>1, <1>1, <1>13, <1>14 DEF Depuis
    <3>4. Depuis(n)' < Len(o) /\ o[Len(o) - Depuis(n)'] = n
      BY <3>2, <3>3, <1>18
    <3>5. ~t[n].livree /\ t[n].fragments = absorbes[n] /\ IsFiniteSet(absorbes[n])
      BY <3>1, <3>2, FS_EmptySet DEF Neuve
    <3>6. /\ apres.livree <=> Cardinality(absorbes[n] \cup {index}) >= k
          /\ ~apres.livree => apres.fragments = absorbes[n] \cup {index}
          /\ livre <=> apres.livree /\ ~t[n].livree
      BY <1>1, <1>2, <1>8, <3>5, EntreeSuit DEF apres
    <3>7. livraisons'[n] = IF apres.livree THEN 1 ELSE 0
      BY <3>1, <3>5, <3>6, <1>1, <1>16
    <3> QED
      BY <3>4, <3>6, <3>7, <1>1, <1>3, <1>11, <1>15 DEF Tenue, k
  <2>2. CASE premiere[n] # 0
    <3>1. premiere'[n] = premiere[n] /\ premiere[n] > 0 /\ premiere[n] \in Nat
      BY <2>2, <1>1, <1>13, <1>14
    <3>2. Recente(n)
      BY <3>1, <1>21, <1>13, NoncesEntiers DEF Recente, Depuis
    <3>3. Tenue(n) /\ n \in DOMAIN trames
      BY <3>2, <1>1, RecenteTenue
    <3>4. t = trames /\ o = ordre /\ Depuis(n)' = Depuis(n)
      BY <3>1, <3>3, <1>3, <1>5 DEF Depuis
    <3>5. /\ t[n].livree => Cardinality(absorbes[n]) >= k
          /\ ~t[n].livree => t[n].fragments = absorbes[n]
          /\ IsFiniteSet(absorbes[n])
      BY <3>3, <3>4, <1>1 DEF Tenue, k, DatInd, DatAux
    <3>6. /\ apres.livree <=> Cardinality(absorbes[n] \cup {index}) >= k
          /\ ~apres.livree => apres.fragments = absorbes[n] \cup {index}
          /\ livre <=> apres.livree /\ ~t[n].livree
      BY <1>1, <1>2, <1>8, <3>5, EntreeSuit DEF apres
    <3>7. t[n].livree => apres.livree
      <4>1. ~Complete(t[n], index, k) \/ ~t[n].livree
        BY DEF Complete
      <4> QED
        BY <4>1 DEF apres, EntreeApres
    <3>8. livraisons'[n] = IF apres.livree THEN 1 ELSE 0
      <4>1. livraisons[n] = IF t[n].livree THEN 1 ELSE 0
        BY <3>3, <3>4 DEF Tenue
      <4> QED
        BY <4>1, <3>6, <3>7, <1>1, <1>16
    <3> QED
      BY <3>3, <3>4, <3>6, <3>8, <1>1, <1>3, <1>11, <1>15 DEF Tenue, k
  <2> QED
    BY <2>1, <2>2
<1>22. \A m \in Nonces : Ouverte(m)' /\ (Recente(m)' => Tenue(m)')
  BY <1>19, <1>20, <1>21
<1> QED
  BY <1>10, <1>12, <1>17, <1>22 DEF DatInd, Nonces

\* EncryptedTransport::send: the message is after all those sent.
LEMMA EnvoyerPas ==
  ASSUME DatInd, NEW lot \in Lots \cup {TropGrande}, Envoyer(lot)
  PROVE  DatInd'
<1> DEFINE suivant == Len(envoyees) + 1
<1>1. /\ envoyees \in Seq(Lots \cup {TropGrande}) /\ Len(envoyees) \in Nat
      /\ suivant \in Nonces /\ suivant <= MaxTrames
  BY LenProperties, NoncesEntiers DEF DatInd, DatTypes, Envoyer, Nonces
<1>2. /\ envoyees' \in Seq(Lots \cup {TropGrande}) /\ Len(envoyees') = suivant
      /\ \A i \in 1..Len(envoyees) : envoyees'[i] = envoyees[i]
  BY <1>1, AppendProperties DEF Envoyer
<1>3. \A f \in reseau' : f \in [n : Nonces, index : Nat \ {0}] /\ f.n <= suivant
  <2> TAKE f \in reseau'
  <2>1. CASE f \in reseau
    BY <2>1, <1>1 DEF DatInd, DatTypes, Nonces
  <2>2. CASE f \notin reseau
    <3>1. PICK i \in 1..(lot.k + lot.m) : f = [n |-> suivant, index |-> i]
      BY <2>2 DEF Envoyer
    <3>2. i \in Nat \ {0}
      <4>1. lot.k \in Nat /\ lot.m \in Nat
        BY DatagrammesAssumption DEF DatagrammesAssumption, TropGrande
      <4> QED
        BY <4>1
    <3> QED
      BY <3>1, <3>2, <1>1
  <2> QED
    BY <2>1, <2>2
<1>4. flux' \in Seq(Nonces)
  BY <1>1, AppendProperties DEF DatInd, DatTypes, Envoyer
<1>5. UNCHANGED <<trames, ordre, entrante, nonce, rompu, ouvertures, premiere,
                  absorbes, livraisons>>
  BY DEF Envoyer
<1>6. DatTypes'
  <2>1. entrante \in Seq(Nonces) /\ nonce \in 1..(MaxTrames + 1) /\ rompu \in BOOLEAN
    BY DEF DatInd, DatTypes
  <2> QED
    BY <1>1, <1>2, <1>3, <1>4, <1>5, <2>1 DEF DatTypes, Nonces
<1> QED
  BY <1>1, <1>2, <1>5, <1>6, ReassembleurIntact

\* reader.
LEMMA LireFluxPas ==
  ASSUME DatInd, LireFlux
  PROVE  DatInd'
<1>1. DatTypes /\ flux # <<>> /\ UNCHANGED <<envoyees, reseau, nonce, rompu>>
      /\ UNCHANGED <<trames, ordre, ouvertures, premiere, absorbes, livraisons>>
  BY DEF DatInd, LireFlux
<1>2. flux' \in Seq(Nonces) /\ entrante' \in Seq(Nonces)
  <2>1. Head(flux) \in Nonces /\ Tail(flux) \in Seq(Nonces)
    BY <1>1, HeadTailProperties DEF DatTypes
  <2> QED
    BY <2>1, <1>1, AppendProperties DEF DatTypes, LireFlux
<1>3. DatTypes'
  BY <1>1, <1>2 DEF DatTypes, Nonces
<1>4. Len(envoyees) \in Nat
  BY <1>1, LenProperties DEF DatTypes
<1> QED
  BY <1>1, <1>3, <1>4, ReassembleurIntact

\* poll_recv.
LEMMA DechiffrerPas ==
  ASSUME DatInd, Dechiffrer
  PROVE  DatInd'
<1>1. DatTypes /\ entrante # <<>> /\ UNCHANGED <<envoyees, reseau, flux>>
      /\ UNCHANGED <<trames, ordre, ouvertures, premiere, absorbes, livraisons>>
  BY DEF DatInd, Dechiffrer
<1>2. Head(entrante) \in Nonces /\ entrante' \in Seq(Nonces)
  BY <1>1, HeadTailProperties DEF DatTypes, Dechiffrer
<1>3. nonce' \in 1..(MaxTrames + 1) /\ rompu' \in BOOLEAN
  <2>1. CASE Head(entrante) = nonce
    <3>1. nonce' = nonce + 1 /\ rompu' = rompu
      BY <2>1 DEF Dechiffrer
    <3>2. nonce \in 1..MaxTrames
      BY <2>1, <1>2 DEF Nonces
    <3> QED
      BY <3>1, <3>2, <1>1, NoncesEntiers DEF DatTypes
  <2>2. CASE Head(entrante) # nonce
    BY <2>2, <1>1 DEF DatTypes, Dechiffrer
  <2> QED
    BY <2>1, <2>2
<1>4. DatTypes'
  BY <1>1, <1>2, <1>3 DEF DatTypes, Nonces
<1>5. Len(envoyees) \in Nat
  BY <1>1, LenProperties DEF DatTypes
<1> QED
  BY <1>1, <1>4, <1>5, ReassembleurIntact

\* Nothing was sent.
LEMMA DatDebut == InitD => DatInd
<1> SUFFICES ASSUME InitD PROVE DatInd
  OBVIOUS
<1>1. DatTypes
  <2>1. envoyees = <<>> /\ Len(envoyees) = 0 /\ flux = <<>> /\ entrante = <<>>
    BY DEF InitD
  <2>2. envoyees \in Seq(Lots \cup {TropGrande})
    BY <2>1, EmptySeq
  <2>3. flux \in Seq(Nonces) /\ entrante \in Seq(Nonces)
    BY <2>1, EmptySeq
  <2>4. nonce \in 1..(MaxTrames + 1) /\ Len(envoyees) <= MaxTrames
    BY <2>1, NoncesEntiers DEF InitD
  <2>5. reseau = {} /\ rompu = FALSE
    BY DEF InitD
  <2> QED
    BY <2>2, <2>3, <2>4, <2>5 DEF DatTypes
<1>2. DatAux
  BY FS_EmptySet DEF InitD, DatAux
<1>3. OrdreDe(trames, ordre)
  <2>1. ordre \in Seq(Nonces) /\ Len(ordre) = 0 /\ 1..Len(ordre) = {}
    BY EmptySeq DEF InitD
  <2>2. DOMAIN trames = {}
    BY DEF InitD
  <2>3. trames \in [DOMAIN trames -> [fragments : SUBSET Nat, livree : BOOLEAN]]
    BY <2>2 DEF InitD
  <2> QED
    BY <2>1, <2>2, <2>3, NoncesEntiers DEF OrdreDe
<1>4. \A n \in Nonces : Ouverte(n) /\ (Recente(n) => Tenue(n))
  <2>1. DOMAIN trames = {}
    BY DEF InitD
  <2>2. \A n \in Nonces : premiere[n] = 0 /\ absorbes[n] = {} /\ livraisons[n] = 0
    BY DEF InitD
  <2> QED
    BY <2>1, <2>2 DEF Ouverte, Recente
<1> QED
  BY <1>1, <1>2, <1>3, <1>4 DEF DatInd

\* Every step of the direction keeps its invariant.
LEMMA DatPas == DatInd /\ (NextD \/ UNCHANGED varsD) => DatInd'
<1> SUFFICES ASSUME DatInd, NextD \/ UNCHANGED varsD PROVE DatInd'
  OBVIOUS
<1>1. CASE UNCHANGED varsD
  <2>1. DatTypes' /\ Len(envoyees) \in Nat
    BY <1>1, LenProperties DEF DatInd, DatTypes, varsD, Nonces
  <2> QED
    BY <1>1, <2>1, ReassembleurIntact DEF varsD
<1>2. CASE NextD
  <2>1. ASSUME NEW lot \in Lots \cup {TropGrande}, Envoyer(lot) PROVE DatInd'
    BY <2>1, EnvoyerPas
  <2>2. ASSUME NEW f \in reseau, Absorber(f) PROVE DatInd'
    BY <2>2, AbsorberPas
  <2> QED
    BY <1>2, <2>1, <2>2, LireFluxPas, DechiffrerPas DEF NextD
<1> QED
  BY <1>1, <1>2

\* What the invariant says of the state a run checks.
LEMMA DatBilan == DatInd => TypeD /\ LivraisonExacte
<1> SUFFICES ASSUME DatInd PROVE TypeD /\ LivraisonExacte
  OBVIOUS
<1>1. TypeD
  <2>1. DOMAIN trames = Range(ordre) /\ Len(ordre) = Cardinality(DOMAIN trames)
        /\ Len(ordre) <= EnVol
    BY TramesComptees DEF DatInd, OrdreDe
  <2> QED
    BY <2>1 DEF DatInd, DatTypes, TypeD
<1>2. LivraisonExacte
  <2> SUFFICES ASSUME NEW n \in Nonces, premiere[n] > 0, ouvertures - premiere[n] < EnVol
               PROVE  livraisons[n] = IF Cardinality(absorbes[n]) >= envoyees[n].k THEN 1 ELSE 0
    BY DEF LivraisonExacte
  <2>1. Tenue(n)
    BY DEF DatInd, Recente, Depuis
  <2> QED
    BY <2>1 DEF Tenue
<1> QED
  BY <1>1, <1>2

-----------------------------------------------------------------------------
(* The transparent reconnection. *)

\* Channels of distinct kinds.
Voies(s) == s \in Seq(Kinds) /\ \A i, j \in 1..Len(s) : s[i] = s[j] => i = j

\* Handles on channels, by kind.
Cles == UNION {[S -> 1..5] : S \in SUBSET Kinds}

\* Types; a thread opens as long as it has channels to open; the one that connects again
\* holds the mutex.
RepTypes ==
  /\ mode \in {"etendu", "simple"}
  /\ fil \in [Fils -> {"ouvre", "boucle", "appelle", "reprend", "fini"}]
  /\ verrou \in Fils \cup {Personne}
  /\ Voies(inner) /\ Voies(canaux)
  /\ aOuvrir \in [Fils -> Seq(Kinds)] /\ poignees \in [Fils -> Cles]
  /\ tentative \in Nat /\ coupures \in 0..MaxCoupures
  /\ \A f \in Fils : fil[f] = "ouvre" <=> aOuvrir[f] # <<>>
  /\ \A f \in Fils : fil[f] = "reprend" => verrou = f

\* A handle designates its kind.
ClesJustes ==
  \A f \in Fils : \A kind \in DOMAIN poignees[f] :
    poignees[f][kind] \in 1..Len(inner) /\ inner[poignees[f][kind]] = kind

\* In an extended session the channels are those that opening again would give, the
\* handles are right, and no kind is left to a message to open.
RepEtendu ==
  mode = "etendu" =>
    /\ inner = OuvrirTous(canaux)
    /\ ClesJustes
    /\ \A kind \in Kinds : Contains(inner, kind) \/ Contains(aOuvrir["recepteur"], kind)

\* The inductive invariant of the transparent reconnection.
RepInd == RepTypes /\ RepEtendu

\* The least number principle.
LEMMA MoindreEntier ==
  ASSUME NEW S \in SUBSET Nat, S # {}
  PROVE  \E m \in S : \A k \in S : m <= k
<1>1. PICK m \in S : \A y \in S : <<y, m>> \notin OpToRel(<, Nat)
  BY WFMin, NatLessThanWellFounded, Zenon
<1>2. \A y \in S : y \in Nat /\ m \in Nat
  OBVIOUS
<1>3. \A y \in S : ~(y < m)
  BY <1>1, <1>2 DEF OpToRel
<1> QED
  BY <1>2, <1>3

\* A sequence knows its length.
LEMMA VoiesSuite ==
  ASSUME NEW s, Voies(s)
  PROVE  /\ s \in Seq(Kinds) /\ Len(s) \in Nat /\ DOMAIN s = 1..Len(s)
         /\ \A i \in 1..Len(s) : s[i] \in Kinds
BY LenProperties, ElementOfSeq DEF Voies

\* open_channel adds a kind that is not there, at the end.
LEMMA AvecVoie ==
  ASSUME NEW s, Voies(s), NEW kind \in Kinds
  PROVE  /\ Voies(Avec(s, kind)) /\ Contains(Avec(s, kind), kind)
         /\ Len(s) <= Len(Avec(s, kind))
         /\ \A i \in 1..Len(s) : Avec(s, kind)[i] = s[i]
         /\ \A k : Contains(s, k) => Contains(Avec(s, kind), k)
<1>1. s \in Seq(Kinds) /\ Len(s) \in Nat
  BY VoiesSuite
<1>2. CASE Contains(s, kind)
  BY <1>1, <1>2 DEF Avec
<1>3. CASE ~Contains(s, kind)
  <2>1. Avec(s, kind) = Append(s, kind)
    BY <1>3 DEF Avec
  <2>2. PICK t : t = Append(s, kind)
    OBVIOUS
  <2>3. /\ t \in Seq(Kinds) /\ Len(t) = Len(s) + 1 /\ t[Len(s) + 1] = kind
        /\ \A i \in 1..Len(s) : t[i] = s[i]
    BY <1>1, <2>2, AppendProperties
  <2>4. \A i \in 1..Len(s) : t[i] # kind
    BY <1>3, <2>3 DEF Contains
  <2>5. Voies(t)
    <3>1. \A i \in 1..Len(t) : i \in 1..Len(s) \/ i = Len(s) + 1
      BY <1>1, <2>3
    <3>2. \A i, j \in 1..Len(s) : s[i] = s[j] => i = j
      BY DEF Voies
    <3>3. \A i, j \in 1..Len(t) : t[i] = t[j] => i = j
      BY <2>3, <2>4, <3>1, <3>2
    <3> QED
      BY <2>3, <3>3 DEF Voies
  <2>6. Contains(t, kind)
    BY <1>1, <2>3 DEF Contains
  <2>7. \A k : Contains(s, k) => Contains(t, k)
    BY <1>1, <2>3 DEF Contains
  <2> QED
    BY <1>1, <2>1, <2>2, <2>3, <2>5, <2>6, <2>7
<1> QED
  BY <1>2, <1>3

\* There are five kinds.
LEMMA CinqVoies ==
  ASSUME NEW s, Voies(s)
  PROVE  Len(s) <= 5
<1>1. IsFiniteSet(Kinds) /\ Cardinality(Kinds) = 5
  <2>1. IsFiniteSet({"Control"}) /\ Cardinality({"Control"}) = 1
    BY FS_Singleton
  <2>2. PICK A : A = {"Control"} \cup {"Input"}
    OBVIOUS
  <2>3. IsFiniteSet(A) /\ Cardinality(A) = 2
    BY <2>1, <2>2, FS_AddElement
  <2>4. PICK B : B = A \cup {"Audio"}
    OBVIOUS
  <2>5. IsFiniteSet(B) /\ Cardinality(B) = 3
    <3>1. "Audio" \notin A
      BY <2>2
    <3> QED
      BY <2>3, <2>4, <3>1, FS_AddElement
  <2>6. PICK C : C = B \cup {"Files"}
    OBVIOUS
  <2>7. IsFiniteSet(C) /\ Cardinality(C) = 4
    <3>1. "Files" \notin B
      BY <2>2, <2>4
    <3> QED
      BY <2>5, <2>6, <3>1, FS_AddElement
  <2>8. PICK D : D = C \cup {"Video"}
    OBVIOUS
  <2>9. IsFiniteSet(D) /\ Cardinality(D) = 5
    <3>1. "Video" \notin C
      BY <2>2, <2>4, <2>6
    <3> QED
      BY <2>7, <2>8, <3>1, FS_AddElement
  <2>10. D = Kinds
    BY <2>2, <2>4, <2>6, <2>8 DEF Kinds
  <2> QED
    BY <2>9, <2>10
<1>2. Len(s) \in Nat /\ s \in [1..Len(s) -> Kinds]
  BY LenProperties DEF Voies
<1>3. s \in Injection(1..Len(s), Kinds)
  BY <1>2 DEF Voies, Injection, IsInjective
<1>4. Cardinality(1..Len(s)) <= 5
  BY <1>1, <1>3, FS_Injection
<1>5. Cardinality(1..Len(s)) = Len(s)
  BY <1>2, FS_Interval
<1> QED
  BY <1>4, <1>5

\* The index of a kind that is open.
LEMMA IndexDe ==
  ASSUME NEW s, Voies(s), NEW kind, Contains(s, kind)
  PROVE  Index(s, kind) \in 1..Len(s) /\ s[Index(s, kind)] = kind
<1>1. DOMAIN s = 1..Len(s)
  BY VoiesSuite
<1>2. \E i \in 1..Len(s) : s[i] = kind
  BY DEF Contains
<1> QED
  BY <1>1, <1>2 DEF Index

-----------------------------------------------------------------------------
\* What opening the channels kinds one after the other gives, after each.
Ouverts(g, kinds) ==
  g = [i \in 1..Len(kinds) |->
         Avec(IF i = 1 THEN <<"Control">> ELSE g[i - 1], kinds[i])]

\* One more channel to open is one more value.
LEMMA OuvertsSuite ==
  ASSUME NEW c \in Seq(Kinds), NEW k \in Kinds, NEW g, Ouverts(g, c)
  PROVE  \E h : /\ Ouverts(h, Append(c, k))
                /\ h[Len(c) + 1] = Avec(IF c = <<>> THEN <<"Control">> ELSE g[Len(c)], k)
                /\ \A i \in 1..Len(c) : h[i] = g[i]
<1> DEFINE n == Len(c)
<1>1. n \in Nat
  BY LenProperties
<1>2. PICK d : d = Append(c, k)
  OBVIOUS
<1>3. Len(d) = n + 1 /\ d[n + 1] = k /\ \A i \in 1..n : d[i] = c[i]
  BY <1>2, AppendProperties
<1>4. PICK a : a = IF c = <<>> THEN <<"Control">> ELSE g[n]
  OBVIOUS
<1>5. c = <<>> <=> n = 0
  BY EmptySeq
<1>6. PICK v : v = Avec(a, k)
  OBVIOUS
<1>7. PICK m \in Nat : m = n
  BY <1>1
<1>8. PICK h : h = [i \in 1..(m + 1) |-> IF i = m + 1 THEN v ELSE g[i]]
  OBVIOUS
<1>9. \A i \in 1..m : g[i] = Avec(IF i = 1 THEN <<"Control">> ELSE g[i - 1], c[i])
  <2>1. 1..m = 1..Len(c)
    BY <1>7
  <2>2. \A i \in 1..Len(c) : g[i] = Avec(IF i = 1 THEN <<"Control">> ELSE g[i - 1], c[i])
    BY Zenon DEF Ouverts
  <2> QED
    BY <2>1, <2>2, Zenon
<1>10. ASSUME NEW i \in 1..(m + 1)
       PROVE  h[i] = Avec(IF i = 1 THEN <<"Control">> ELSE h[i - 1], d[i])
  <2>1. CASE i = m + 1
    <3>1. (IF i = 1 THEN <<"Control">> ELSE h[i - 1]) = a
      <4>1. CASE m = 0
        BY <2>1, <4>1, <1>4, <1>5, <1>7
      <4>2. CASE m # 0
        <5>1. i - 1 = m /\ m \in 1..(m + 1) /\ m # m + 1 /\ i # 1
          BY <2>1, <4>2
        <5> QED
          BY <5>1, <4>2, <1>4, <1>5, <1>7, <1>8
      <4> QED
        BY <4>1, <4>2
    <3>2. h[i] = v /\ d[i] = k
      BY <2>1, <1>3, <1>7, <1>8
    <3> QED
      BY <3>1, <3>2, <1>6
  <2>2. CASE i # m + 1
    <3>1. i \in 1..m
      BY <2>2
    <3>2. h[i] = g[i] /\ d[i] = c[i]
      BY <3>1, <2>2, <1>3, <1>7, <1>8
    <3>3. (IF i = 1 THEN <<"Control">> ELSE h[i - 1]) = (IF i = 1 THEN <<"Control">> ELSE g[i - 1])
      <4>1. CASE i = 1
        BY <4>1
      <4>2. CASE i # 1
        <5>1. i - 1 \in 1..(m + 1) /\ i - 1 # m + 1
          BY <3>1, <4>2
        <5> QED
          BY <5>1, <4>2, <1>8
      <4> QED
        BY <4>1, <4>2
    <3> QED
      BY <3>1, <3>2, <3>3, <1>9
  <2> QED
    BY <2>1, <2>2
<1>11. h = [i \in 1..(m + 1) |-> Avec(IF i = 1 THEN <<"Control">> ELSE h[i - 1], d[i])]
  BY <1>8, <1>10
<1>12. Ouverts(h, d)
  <2>1. m + 1 = Len(d)
    BY <1>3, <1>7
  <2> QED
    BY <2>1, <1>11 DEF Ouverts
<1>13. h[n + 1] = v /\ \A i \in 1..n : h[i] = g[i]
  BY <1>7, <1>8
<1> QED
  BY <1>2, <1>4, <1>6, <1>12, <1>13

\* The values exist ...
LEMMA OuvertsExistent ==
  ASSUME NEW c \in Seq(Kinds)
  PROVE  \E g : Ouverts(g, c)
<1> DEFINE Manque == {n \in Nat : \E s \in Seq(Kinds) : Len(s) = n /\ ~\E g : Ouverts(g, s)}
<1>1. SUFFICES ASSUME Manque # {} PROVE FALSE
  BY LenProperties
<1>2. Manque \in SUBSET Nat
  OBVIOUS
<1>3. PICK n \in Manque : \A m \in Manque : n <= m
  <2> HIDE DEF Manque
  <2> QED
    BY <1>1, <1>2, MoindreEntier
<1>4. PICK s \in Seq(Kinds) : Len(s) = n /\ ~\E g : Ouverts(g, s)
  BY <1>3
<1>5. s # <<>>
  <2>1. SUFFICES ASSUME s = <<>> PROVE FALSE
    OBVIOUS
  <2>2. 1..Len(s) = {}
    BY <2>1, EmptySeq
  <2>3. Ouverts(<<>>, s)
    BY <2>2 DEF Ouverts
  <2> QED
    BY <1>4, <2>3
<1>6. PICK a \in Seq(Kinds), k \in Kinds : s = Append(a, k)
  BY <1>5, SequenceEmptyOrAppend
<1>7. Len(a) \in Nat /\ Len(a) < n
  BY <1>4, <1>6, AppendProperties, LenProperties
<1>8. Len(a) \notin Manque
  BY <1>3, <1>7
<1>9. PICK g : Ouverts(g, a)
  BY <1>7, <1>8
<1> QED
  BY <1>4, <1>6, <1>9, OuvertsSuite

\* ... and are the only ones.
LEMMA OuvertsUniques ==
  ASSUME NEW c \in Seq(Kinds), NEW f, NEW g, Ouverts(f, c), Ouverts(g, c)
  PROVE  \A i \in 1..Len(c) : f[i] = g[i]
<1>n. PICK n \in Nat : n = Len(c)
  BY LenProperties
<1>1. /\ \A i \in 1..n : f[i] = Avec(IF i = 1 THEN <<"Control">> ELSE f[i - 1], c[i])
      /\ \A i \in 1..n : g[i] = Avec(IF i = 1 THEN <<"Control">> ELSE g[i - 1], c[i])
  BY <1>n DEF Ouverts
<1> DEFINE Differe == {i \in 1..n : f[i] # g[i]}
<1>2. SUFFICES ASSUME Differe # {} PROVE FALSE
  BY <1>n
<1>3. Differe \in SUBSET Nat
  OBVIOUS
<1>4. PICK k \in Differe : \A j \in Differe : k <= j
  <2> HIDE DEF Differe
  <2> QED
    BY <1>2, <1>3, MoindreEntier
<1>5. k \in 1..n /\ f[k] # g[k]
  OBVIOUS
<1>6. (IF k = 1 THEN <<"Control">> ELSE f[k - 1]) = (IF k = 1 THEN <<"Control">> ELSE g[k - 1])
  <2>1. CASE k = 1
    BY <2>1
  <2>2. CASE k # 1
    <3>1. k - 1 \in 1..n /\ k - 1 < k
      BY <1>5, <2>2
    <3>2. k - 1 \notin Differe
      BY <1>4, <3>1
    <3> QED
      BY <2>2, <3>1, <3>2
  <2> QED
    BY <2>1, <2>2
<1> QED
  BY <1>1, <1>5, <1>6

\* OuvrirTous gives the last of them.
LEMMA OuvrirTousDernier ==
  ASSUME NEW c \in Seq(Kinds), NEW g, Ouverts(g, c)
  PROVE  OuvrirTous(c) = IF c = <<>> THEN <<"Control">> ELSE g[Len(c)]
<1> DEFINE f == CHOOSE x : x = [i \in 1..Len(c) |->
                               Avec(IF i = 1 THEN <<"Control">> ELSE x[i - 1], c[i])]
<1>1. Ouverts(f, c)
  BY DEF Ouverts
<1>2. OuvrirTous(c) = IF c = <<>> THEN <<"Control">> ELSE f[Len(c)]
  BY DEF OuvrirTous
<1> HIDE DEF f
<1>3. CASE c = <<>>
  BY <1>2, <1>3
<1>4. CASE c # <<>>
  <2>1. Len(c) \in 1..Len(c)
    BY <1>4, EmptySeq
  <2> QED
    BY <1>1, <1>2, <1>4, <2>1, OuvertsUniques
<1> QED
  BY <1>3, <1>4

\* Opening again, one channel more.
LEMMA OuvrirTousSuite ==
  ASSUME NEW c \in Seq(Kinds), NEW k \in Kinds
  PROVE  OuvrirTous(Append(c, k)) = Avec(OuvrirTous(c), k)
<1>1. PICK g : Ouverts(g, c)
  BY OuvertsExistent
<1>2. PICK h : /\ Ouverts(h, Append(c, k))
               /\ h[Len(c) + 1] = Avec(IF c = <<>> THEN <<"Control">> ELSE g[Len(c)], k)
  BY <1>1, OuvertsSuite
<1>3. Append(c, k) \in Seq(Kinds) /\ Append(c, k) # <<>> /\ Len(Append(c, k)) = Len(c) + 1
  BY AppendProperties
<1>4. OuvrirTous(Append(c, k)) = h[Len(Append(c, k))]
  BY <1>2, <1>3, OuvrirTousDernier
<1>5. OuvrirTous(c) = IF c = <<>> THEN <<"Control">> ELSE g[Len(c)]
  BY <1>1, OuvrirTousDernier
<1> QED
  BY <1>2, <1>3, <1>4, <1>5

\* A new transport has the control channel.
LEMMA OuvrirTousVide == OuvrirTous(<<>>) = <<"Control">>
<1>1. PICK g : Ouverts(g, <<>>)
  BY OuvertsExistent, EmptySeq
<1> QED
  BY <1>1, EmptySeq, OuvrirTousDernier

\* The control channel alone.
LEMMA VoieControle == Voies(<<"Control">>) /\ Contains(<<"Control">>, "Control")
BY DEF Voies, Kinds, Contains

\* Opening again gives distinct channels, those asked for among them.
LEMMA OuvrirTousVoies ==
  ASSUME NEW c \in Seq(Kinds)
  PROVE  Voies(OuvrirTous(c)) /\ \A k \in Kinds : Contains(c, k) => Contains(OuvrirTous(c), k)
<1> DEFINE Bon(s) == /\ Voies(OuvrirTous(s))
                     /\ \A k \in Kinds : Contains(s, k) => Contains(OuvrirTous(s), k)
           Manque == {n \in Nat : \E s \in Seq(Kinds) : Len(s) = n /\ ~Bon(s)}
<1>1. SUFFICES ASSUME Manque # {} PROVE FALSE
  BY LenProperties
<1>2. Manque \in SUBSET Nat
  OBVIOUS
<1>3. PICK n \in Manque : \A m \in Manque : n <= m
  <2> HIDE DEF Manque
  <2> QED
    BY <1>1, <1>2, MoindreEntier
<1>4. PICK s \in Seq(Kinds) : Len(s) = n /\ ~Bon(s)
  <2> HIDE DEF Bon
  <2> QED
    BY <1>3
<1>5. CASE s = <<>>
  <2>1. \A k \in Kinds : ~Contains(s, k)
    BY <1>5, EmptySeq DEF Contains
  <2> QED
    BY <1>4, <1>5, <2>1, OuvrirTousVide, VoieControle
<1>6. CASE s # <<>>
  <2>1. PICK a \in Seq(Kinds), k \in Kinds : s = Append(a, k)
    BY <1>6, SequenceEmptyOrAppend
  <2>2. Len(a) \in Nat /\ Len(a) < n
    BY <1>4, <2>1, AppendProperties, LenProperties
  <2>3. Bon(a)
    <3> HIDE DEF Bon
    <3>1. Len(a) \notin Manque
      BY <1>3, <2>2
    <3> QED
      BY <2>2, <3>1
  <2>4. OuvrirTous(s) = Avec(OuvrirTous(a), k)
    BY <2>1, OuvrirTousSuite
  <2>5. PICK o : o = OuvrirTous(a)
    OBVIOUS
  <2>6. /\ Voies(Avec(o, k)) /\ Contains(Avec(o, k), k)
        /\ \A x : Contains(o, x) => Contains(Avec(o, k), x)
    BY <2>3, <2>5, AvecVoie
  <2>7. ASSUME NEW x \in Kinds, Contains(s, x) PROVE x = k \/ Contains(a, x)
    <3>1. PICK i \in 1..Len(s) : s[i] = x
      BY <2>7 DEF Contains
    <3>2. Len(s) = Len(a) + 1 /\ s[Len(a) + 1] = k /\ \A j \in 1..Len(a) : s[j] = a[j]
      BY <2>1, AppendProperties
    <3> QED
      BY <2>2, <3>1, <3>2 DEF Contains
  <2>8. Bon(s)
    BY <2>3, <2>4, <2>5, <2>6, <2>7
  <2> QED
    BY <1>4, <2>8
<1> QED
  BY <1>5, <1>6

\* No handle.
LEMMA PasDeCle == <<>> \in Cles
<1>1. <<>> \in [{} -> 1..5] /\ {} \in SUBSET Kinds
  OBVIOUS
<1> QED
  BY <1>1 DEF Cles

\* One handle more.
LEMMA CleDePlus ==
  ASSUME NEW p \in Cles, NEW kind \in Kinds, NEW i \in 1..5
  PROVE  [k \in DOMAIN p \cup {kind} |-> IF k = kind THEN i ELSE p[k]] \in Cles
<1>1. PICK S \in SUBSET Kinds : p \in [S -> 1..5]
  BY DEF Cles
<1>2. DOMAIN p \cup {kind} \in SUBSET Kinds
  BY <1>1
<1>3. [k \in DOMAIN p \cup {kind} |-> IF k = kind THEN i ELSE p[k]] \in [DOMAIN p \cup {kind} -> 1..5]
  BY <1>1
<1> QED
  BY <1>2, <1>3 DEF Cles

\* The invariant at the start: nothing is open but the control channel.
LEMMA RepDebut == InitBanc /\ InitR => RepInd
<1> SUFFICES ASSUME InitBanc, InitR PROVE RepInd
  OBVIOUS
<1>1. mode \in {"etendu", "simple"}
  <2>1. mode \in Modes
    BY BancsAssumption DEF InitBanc, Sur, BancsAssumption
  <2> QED
    BY <2>1, BancsAssumption DEF BancsAssumption
<1>2. canaux \in {<<>>, <<"Control">>}
  <2>1. (CHOOSE x \in {<<>>, <<"Control">>} : TRUE) \in {<<>>, <<"Control">>}
    OBVIOUS
  <2>2. canaux \in Sur({"reprise"}, {<<>>, <<"Control">>})
    BY DEF InitR
  <2> QED
    BY <2>1, <2>2 DEF Sur
<1>3. Voies(canaux) /\ Voies(inner)
  <2>1. Voies(<<>>)
    BY EmptySeq DEF Voies
  <2> QED
    BY <1>2, <2>1, VoieControle DEF InitR
<1>4. \A f \in Fils : Ouvertures(f) \in Seq(Kinds)
  <2>1. <<>> \in Seq(Kinds) /\ <<"Input">> \in Seq(Kinds) /\ <<"Input", "Files", "Control">> \in Seq(Kinds)
    BY DEF Kinds
  <2>2. <<"Control", "Input", "Audio", "Files", "Video">> \in Seq(Kinds)
    BY DEF Kinds
  <2>3. CASE mode = "etendu"
    <3>1. /\ Ouvertures("recepteur") = <<"Control", "Input", "Audio", "Files", "Video">>
          /\ Ouvertures("emetteur") = <<"Input", "Files", "Control">>
      BY <2>3 DEF Ouvertures
    <3> QED
      BY <3>1, <2>1, <2>2 DEF Fils
  <2>4. CASE mode = "simple"
    <3>1. Ouvertures("recepteur") = <<>> /\ Ouvertures("emetteur") = <<"Input">>
      BY <2>4 DEF Ouvertures
    <3> QED
      BY <3>1, <2>1 DEF Fils
  <2> QED
    BY <1>1, <2>3, <2>4
<1>5. RepTypes
  <2>1. tentative \in Nat /\ coupures \in 0..MaxCoupures
    BY TransportReprisAssumption DEF TransportReprisAssumption, InitR
  <2>2. poignees \in [Fils -> Cles]
    BY PasDeCle DEF InitR
  <2>3. aOuvrir \in [Fils -> Seq(Kinds)]
    BY <1>4 DEF InitR
  <2>4. /\ fil \in [Fils -> {"ouvre", "boucle", "appelle", "reprend", "fini"}]
        /\ \A f \in Fils : fil[f] = "ouvre" <=> aOuvrir[f] # <<>>
        /\ \A f \in Fils : fil[f] # "reprend"
    BY DEF InitR
  <2> QED
    BY <1>1, <1>3, <2>1, <2>2, <2>3, <2>4 DEF RepTypes, InitR
<1>6. RepEtendu
  <2> SUFFICES ASSUME mode = "etendu"
               PROVE  /\ inner = OuvrirTous(canaux)
                      /\ ClesJustes
                      /\ \A kind \in Kinds : Contains(inner, kind) \/ Contains(aOuvrir["recepteur"], kind)
    BY DEF RepEtendu
  <2>1. OuvrirTous(canaux) = <<"Control">>
    <3>1. OuvrirTous(<<"Control">>) = <<"Control">>
      <4>1. Append(<<>>, "Control") = <<"Control">>
        OBVIOUS
      <4>2. <<>> \in Seq(Kinds) /\ "Control" \in Kinds
        BY EmptySeq DEF Kinds
      <4>3. OuvrirTous(Append(<<>>, "Control")) = Avec(OuvrirTous(<<>>), "Control")
        BY <4>2, OuvrirTousSuite
      <4> QED
        BY <4>1, <4>3, OuvrirTousVide, VoieControle DEF Avec
    <3> QED
      BY <1>2, <3>1, OuvrirTousVide
  <2>2. ClesJustes
    BY DEF ClesJustes, InitR
  <2>3. aOuvrir["recepteur"] = <<"Control", "Input", "Audio", "Files", "Video">>
    BY DEF InitR, Ouvertures, Fils
  <2>4. \A kind \in Kinds : Contains(aOuvrir["recepteur"], kind)
    <3>1. PICK s : s = <<"Control", "Input", "Audio", "Files", "Video">>
      OBVIOUS
    <3>2. Len(s) = 5 /\ s[1] = "Control" /\ s[2] = "Input" /\ s[3] = "Audio"
          /\ s[4] = "Files" /\ s[5] = "Video"
      BY <3>1
    <3> QED
      BY <2>3, <3>1, <3>2 DEF Contains, Kinds
  <2> QED
    BY <2>1, <2>2, <2>4 DEF InitR
<1> QED
  BY <1>5, <1>6 DEF RepInd

\* The steps that leave the channels, the handles and what is to open alone.
LEMMA RepVoiesIntactes ==
  ASSUME RepInd, UNCHANGED <<mode, inner, canaux, poignees, aOuvrir>>, RepTypes'
  PROVE  RepInd'
<1>1. RepEtendu'
  BY DEF RepInd, RepEtendu, ClesJustes, OuvrirTous, Avec, Contains
<1> QED
  BY <1>1 DEF RepInd

\* open_channel, by the caller: what is open stays, and so do the handles.
LEMMA OuvrirPas ==
  ASSUME RepInd, NEW f \in Fils, Ouvrir_(f), UNCHANGED mode
  PROVE  RepInd'
<1> DEFINE kind == Head(aOuvrir[f])
<1>t. RepTypes
  BY DEF RepInd
<1>1. /\ aOuvrir[f] \in Seq(Kinds) /\ aOuvrir[f] # <<>> /\ kind \in Kinds
      /\ Tail(aOuvrir[f]) \in Seq(Kinds) /\ Len(aOuvrir[f]) \in Nat
      /\ Len(Tail(aOuvrir[f])) = Len(aOuvrir[f]) - 1
      /\ (Tail(aOuvrir[f]) = <<>> <=> Len(aOuvrir[f]) = 1)
  <2>1. aOuvrir[f] \in Seq(Kinds) /\ aOuvrir[f] # <<>>
    BY <1>t DEF RepTypes, Ouvrir_
  <2>2. PICK s \in Seq(Kinds) : s = aOuvrir[f]
    BY <2>1
  <2>3. /\ Head(s) \in Kinds /\ Tail(s) \in Seq(Kinds) /\ Len(s) \in Nat
        /\ Len(Tail(s)) = Len(s) - 1
    BY <2>1, <2>2, HeadTailProperties, LenProperties
  <2>4. Tail(s) = <<>> <=> Len(s) = 1
    <3>1. PICK r \in Seq(Kinds) : r = Tail(s)
      BY <2>3
    <3>2. r = <<>> <=> Len(r) = 0
      BY EmptySeq
    <3> QED
      BY <2>3, <3>1, <3>2
  <2> QED
    BY <2>1, <2>2, <2>3, <2>4
<1>2. /\ inner' = Avec(inner, kind) /\ canaux' = Avec(canaux, kind)
      /\ poignees' = [poignees EXCEPT ![f] = [k \in DOMAIN poignees[f] \cup {kind} |->
                        IF k = kind THEN Index(inner', kind) ELSE poignees[f][k]]]
      /\ aOuvrir' = [aOuvrir EXCEPT ![f] = Tail(aOuvrir[f])]
      /\ fil' = [fil EXCEPT ![f] = IF Len(aOuvrir[f]) = 1 THEN "boucle" ELSE "ouvre"]
      /\ UNCHANGED <<connecte, joignable, verrou, tentative, arret, coupures>>
  BY <1>t DEF Ouvrir_, RepTypes
<1> HIDE DEF kind
<1>3. Voies(inner) /\ Voies(canaux)
  BY <1>t DEF RepTypes
<1>4. /\ Voies(inner') /\ Contains(inner', kind) /\ Len(inner) <= Len(inner')
      /\ \A i \in 1..Len(inner) : inner'[i] = inner[i]
      /\ \A k : Contains(inner, k) => Contains(inner', k)
  BY <1>1, <1>2, <1>3, AvecVoie
<1>5. Voies(canaux')
  BY <1>1, <1>2, <1>3, AvecVoie
<1>6. Index(inner', kind) \in 1..Len(inner') /\ inner'[Index(inner', kind)] = kind
      /\ Index(inner', kind) \in 1..5 /\ Len(inner') \in Nat
  <2>1. Index(inner', kind) \in 1..Len(inner') /\ inner'[Index(inner', kind)] = kind
    BY <1>4, IndexDe
  <2>2. Len(inner') <= 5 /\ Len(inner') \in Nat
    BY <1>4, CinqVoies, VoiesSuite
  <2> QED
    BY <2>1, <2>2
<1> DEFINE cle == [k \in DOMAIN poignees[f] \cup {kind} |->
                    IF k = kind THEN Index(inner', kind) ELSE poignees[f][k]]
<1>7. RepTypes'
  <2>1. poignees' \in [Fils -> Cles]
    <3>1. poignees \in [Fils -> Cles] /\ poignees[f] \in Cles
      BY <1>t DEF RepTypes
    <3>2. cle \in Cles
      BY <3>1, <1>1, <1>6, CleDePlus
    <3> HIDE DEF cle
    <3>3. poignees' = [poignees EXCEPT ![f] = cle]
      BY <1>2 DEF cle
    <3> QED
      BY <3>1, <3>2, <3>3
  <2>2. aOuvrir' \in [Fils -> Seq(Kinds)]
    BY <1>1, <1>2, <1>t DEF RepTypes
  <2>3. fil' \in [Fils -> {"ouvre", "boucle", "appelle", "reprend", "fini"}]
    BY <1>2, <1>t DEF RepTypes
  <2>4. \A g \in Fils : fil'[g] = "ouvre" <=> aOuvrir'[g] # <<>>
    <3> TAKE g \in Fils
    <3>1. CASE g = f
      <4>1. aOuvrir'[g] = Tail(aOuvrir[f])
        BY <3>1, <1>2, <1>t DEF RepTypes
      <4>2. fil'[g] = IF Len(aOuvrir[f]) = 1 THEN "boucle" ELSE "ouvre"
        BY <3>1, <1>2, <1>t DEF RepTypes
      <4> QED
        BY <4>1, <4>2, <1>1
    <3>2. CASE g # f
      BY <3>2, <1>2, <1>t DEF RepTypes
    <3> QED
      BY <3>1, <3>2
  <2>5. \A g \in Fils : fil'[g] = "reprend" => verrou' = g
    BY <1>2, <1>t DEF RepTypes
  <2>6. /\ mode' \in {"etendu", "simple"} /\ verrou' \in Fils \cup {Personne}
        /\ tentative' \in Nat /\ coupures' \in 0..MaxCoupures
    BY <1>2, <1>t DEF RepTypes
  <2> QED
    BY <1>4, <1>5, <2>1, <2>2, <2>3, <2>4, <2>5, <2>6 DEF RepTypes, Voies, Cles, Fils, Kinds, Personne
<1>8. ASSUME mode = "etendu"
      PROVE  /\ inner' = OuvrirTous(canaux')
             /\ ClesJustes'
             /\ \A k \in Kinds : Contains(inner', k) \/ Contains(aOuvrir'["recepteur"], k)
  <2>1. /\ inner = OuvrirTous(canaux) /\ ClesJustes
        /\ \A k \in Kinds : Contains(inner, k) \/ Contains(aOuvrir["recepteur"], k)
    BY <1>8 DEF RepInd, RepEtendu
  <2>2. inner' = OuvrirTous(canaux')
    <3>1. canaux \in Seq(Kinds)
      BY <1>3 DEF Voies
    <3>2. CASE Contains(canaux, kind)
      <4>1. Contains(inner, kind)
        BY <3>1, <3>2, <2>1, <1>1, OuvrirTousVoies
      <4> QED
        BY <4>1, <3>2, <2>1, <1>2 DEF Avec
    <3>3. CASE ~Contains(canaux, kind)
      <4>1. canaux' = Append(canaux, kind)
        BY <3>3, <1>2 DEF Avec
      <4> QED
        BY <4>1, <3>1, <2>1, <1>1, <1>2, OuvrirTousSuite
    <3> QED
      BY <3>2, <3>3
  <2>3. ASSUME NEW g \in Fils, NEW k \in DOMAIN poignees'[g]
        PROVE  poignees'[g][k] \in 1..Len(inner') /\ inner'[poignees'[g][k]] = k
    <3>1. ASSUME NEW x \in DOMAIN poignees[g]
          PROVE  poignees[g][x] \in 1..Len(inner') /\ inner'[poignees[g][x]] = x
      <4>1. poignees[g][x] \in 1..Len(inner) /\ inner[poignees[g][x]] = x
        BY <2>1, <3>1 DEF ClesJustes
      <4>2. Len(inner) \in Nat
        BY <1>3, VoiesSuite
      <4> QED
        BY <4>1, <4>2, <1>4, <1>6
    <3>2. CASE g = f
      <4>1. poignees'[g] = cle
        BY <3>2, <1>2, <1>t DEF RepTypes
      <4>2. CASE k = kind
        <5>1. poignees'[g][k] = Index(inner', kind)
          BY <4>1, <4>2
        <5> QED
          BY <4>2, <5>1, <1>6
      <4>3. CASE k # kind
        <5>1. k \in DOMAIN poignees[g] /\ poignees'[g][k] = poignees[g][k]
          BY <3>2, <4>1, <4>3, <2>3
        <5> QED
          BY <5>1, <3>1
      <4> QED
        BY <4>2, <4>3
    <3>3. CASE g # f
      <4>1. poignees'[g] = poignees[g]
        BY <3>3, <1>2, <1>t DEF RepTypes
      <4> QED
        BY <4>1, <3>1, <2>3
    <3> QED
      BY <3>2, <3>3
  <2>4. ASSUME NEW k \in Kinds, ~Contains(inner', k) PROVE Contains(aOuvrir'["recepteur"], k)
    <3>1. k # kind /\ Contains(aOuvrir["recepteur"], k)
      BY <2>1, <2>4, <1>4
    <3>2. CASE f = "recepteur"
      <4>1. PICK s \in Seq(Kinds) : s = aOuvrir[f] /\ s # <<>>
        BY <1>1
      <4>2. Len(s) \in Nat /\ Len(Tail(s)) = Len(s) - 1 /\ Head(s) = s[1]
            /\ \A i \in 1..(Len(s) - 1) : Tail(s)[i] = s[i + 1]
        BY <4>1, LenProperties, HeadTailProperties
      <4>3. PICK i \in 1..Len(s) : s[i] = k
        BY <3>1, <3>2, <4>1 DEF Contains
      <4>4. i # 1
        BY <3>1, <4>1, <4>2, <4>3 DEF kind
      <4>5. i - 1 \in 1..Len(Tail(s)) /\ Tail(s)[i - 1] = k
        BY <4>2, <4>3, <4>4
      <4>6. aOuvrir'["recepteur"] = Tail(s)
        BY <3>2, <4>1, <1>2, <1>t DEF RepTypes
      <4> QED
        BY <4>5, <4>6 DEF Contains
    <3>3. CASE f # "recepteur"
      <4>1. aOuvrir'["recepteur"] = aOuvrir["recepteur"]
        BY <3>3, <1>2, <1>t DEF RepTypes, Fils
      <4> QED
        BY <4>1, <3>1
    <3> QED
      BY <3>2, <3>3
  <2>5. ClesJustes'
    BY <2>3 DEF ClesJustes, Fils
  <2> QED
    BY <2>2, <2>4, <2>5
<1>9. RepEtendu'
  BY <1>8 DEF RepEtendu, ClesJustes, OuvrirTous, Avec, Contains, Kinds, Fils
<1> QED
  BY <1>7, <1>9 DEF RepInd

\* A thread moves on without opening anything.
LEMMA RepFilAvance ==
  ASSUME RepInd, NEW f \in Fils, fil[f] # "ouvre",
         NEW suite \in {"boucle", "appelle", "reprend", "fini"},
         fil' = [fil EXCEPT ![f] = suite],
         verrou' \in Fils \cup {Personne}, tentative' \in Nat,
         suite = "reprend" => verrou' = f,
         \A g \in Fils : g # f /\ fil[g] = "reprend" => verrou' = g,
         Voies(inner'),
         UNCHANGED <<mode, canaux, poignees, aOuvrir, coupures>>
  PROVE  RepTypes'
<1>1. RepTypes
  BY DEF RepInd
<1>2. fil' \in [Fils -> {"ouvre", "boucle", "appelle", "reprend", "fini"}]
  BY <1>1 DEF RepTypes
<1>3. \A g \in Fils : fil'[g] = IF g = f THEN suite ELSE fil[g]
  BY <1>1 DEF RepTypes
<1>4. \A g \in Fils : fil'[g] = "ouvre" <=> aOuvrir'[g] # <<>>
  BY <1>1, <1>3 DEF RepTypes
<1>5. \A g \in Fils : fil'[g] = "reprend" => verrou' = g
  BY <1>1, <1>3 DEF RepTypes
<1>6. Voies(canaux') /\ mode' \in {"etendu", "simple"} /\ aOuvrir' \in [Fils -> Seq(Kinds)]
      /\ poignees' \in [Fils -> Cles] /\ coupures' \in 0..MaxCoupures
  BY <1>1 DEF RepTypes
<1> QED
  BY <1>2, <1>4, <1>5, <1>6 DEF RepTypes, Voies, Cles, Fils, Kinds, Personne

\* Who holds the mutex when a call goes on, and what becomes of it.
LEMMA RepAgir ==
  ASSUME RepInd, NEW f \in Fils, PeutAgir(f), NEW suite \in {"boucle", "appelle", "fini"},
         Rendre(f, suite), Voies(inner'), UNCHANGED mode
  PROVE  RepTypes' /\ UNCHANGED <<mode, canaux, poignees, aOuvrir>>
<1>1. RepTypes
  BY DEF RepInd
<1>2. /\ fil[f] = "appelle" /\ fil' = [fil EXCEPT ![f] = suite] /\ verrou' = Personne
      /\ UNCHANGED <<canaux, poignees, aOuvrir, tentative, coupures>>
  BY DEF PeutAgir, Rendre
<1>3. \A g \in Fils : g # f => fil[g] # "reprend"
  BY <1>1 DEF PeutAgir, RepTypes, Fils, Personne
<1>4. tentative' \in Nat /\ verrou' \in Fils \cup {Personne}
  BY <1>1, <1>2 DEF RepTypes
<1>5. RepTypes'
  BY <1>2, <1>3, <1>4, RepFilAvance
<1> QED
  BY <1>2, <1>5

\* A message of a kind opens no channel in an extended session.
LEMMA RecevoirPas ==
  ASSUME RepInd, NEW kind \in Recues, Recevoir(kind), UNCHANGED mode
  PROVE  RepInd'
<1>1. RepTypes /\ kind \in Kinds /\ "recepteur" \in Fils
  BY DEF RepInd, Recues, Kinds, Fils
<1>2. PICK suite : suite = IF mode = "simple" THEN "appelle" ELSE "boucle"
  OBVIOUS
<1>3. /\ inner' = Avec(inner, kind) /\ PeutAgir("recepteur") /\ Rendre("recepteur", suite)
      /\ suite \in {"boucle", "appelle", "fini"}
  BY <1>2 DEF Recevoir
<1>4. Voies(inner')
  BY <1>1, <1>3, AvecVoie DEF RepTypes
<1>5. RepTypes' /\ UNCHANGED <<mode, canaux, poignees, aOuvrir>>
  BY <1>1, <1>3, <1>4, RepAgir
<1>6. mode = "etendu" => inner' = inner
  <2> HAVE mode = "etendu"
  <2>1. aOuvrir["recepteur"] = <<>>
    BY <1>1, <1>3 DEF RepTypes, PeutAgir
  <2>2. ~Contains(<<>>, kind)
    BY EmptySeq DEF Contains
  <2>3. Contains(inner, kind)
    BY <1>1, <2>1, <2>2 DEF RepInd, RepEtendu
  <2> QED
    BY <1>3, <2>3 DEF Avec
<1>7. CASE mode = "etendu"
  BY <1>5, <1>6, <1>7, RepVoiesIntactes
<1>8. CASE mode # "etendu"
  BY <1>5, <1>8 DEF RepInd, RepEtendu
<1> QED
  BY <1>7, <1>8

\* A call that returns, having sent or received nothing that opens a channel.
LEMMA RendrePas ==
  ASSUME RepInd, RienRecu \/ PasEmetteur, UNCHANGED mode
  PROVE  RepInd'
<1>1. PICK f \in Fils, suite \in {"boucle", "appelle", "fini"} :
        PeutAgir(f) /\ Rendre(f, suite) /\ UNCHANGED inner
  <2>1. CASE RienRecu
    BY <2>1 DEF RienRecu, Fils
  <2>2. CASE PasEmetteur
    <3>1. PICK kind \in Kinds : Envoyer_(kind)
      BY <2>2 DEF PasEmetteur
    <3>2. PICK suite : suite = IF poignees["emetteur"][kind] > Len(inner) /\ kind = "Input"
                               THEN "fini" ELSE "boucle"
      OBVIOUS
    <3>3. suite \in {"boucle", "appelle", "fini"} /\ "emetteur" \in Fils
      BY <3>2 DEF Fils
    <3>4. PeutAgir("emetteur") /\ Rendre("emetteur", suite) /\ UNCHANGED inner
      BY <3>1, <3>2 DEF Envoyer_
    <3> QED
      BY <3>3, <3>4
  <2> QED
    BY <2>1, <2>2
<1>2. Voies(inner')
  BY <1>1 DEF RepInd, RepTypes, Voies
<1>3. RepTypes' /\ UNCHANGED <<mode, canaux, poignees, aOuvrir>>
  BY <1>1, <1>2, RepAgir
<1> QED
  BY <1>1, <1>3, RepVoiesIntactes

\* rouvrir_canaux finds in the new transport what was in the old one.
LEMMA ReussirPas ==
  ASSUME RepInd, NEW f \in Fils, Reussir(f), UNCHANGED mode
  PROVE  RepInd'
<1>1. RepTypes
  BY DEF RepInd
<1>2. /\ fil[f] = "reprend" /\ inner' = OuvrirTous(canaux)
      /\ fil' = [fil EXCEPT ![f] = "appelle"]
      /\ UNCHANGED <<canaux, poignees, aOuvrir, verrou, tentative, coupures>>
  BY DEF Reussir, Rouvrir
<1>3. Voies(inner')
  BY <1>1, <1>2, OuvrirTousVoies DEF RepTypes, Voies
<1>4. RepTypes'
  <2>1. verrou' \in Fils \cup {Personne} /\ tentative' \in Nat
    BY <1>1, <1>2 DEF RepTypes
  <2>2. \A g \in Fils : g # f /\ fil[g] = "reprend" => verrou' = g
    BY <1>1, <1>2 DEF RepTypes
  <2> QED
    BY <1>2, <1>3, <2>1, <2>2, RepFilAvance
<1>5. CASE mode = "etendu"
  <2>1. inner' = inner
    BY <1>2, <1>5 DEF RepInd, RepEtendu
  <2> QED
    BY <1>2, <1>4, <2>1, RepVoiesIntactes
<1>6. CASE mode # "etendu"
  BY <1>4, <1>6 DEF RepInd, RepEtendu
<1> QED
  BY <1>5, <1>6

\* The other steps of a thread.
LEMMA FilPas ==
  ASSUME RepInd, NEW f \in Fils, Appeler(f) \/ Finir(f) \/ Reprendre(f) \/ Echouer(f),
         UNCHANGED mode
  PROVE  RepInd'
<1>1. RepTypes
  BY DEF RepInd
<1>2. UNCHANGED <<mode, inner, canaux, poignees, aOuvrir, coupures>>
  BY DEF Appeler, Finir, Reprendre, Echouer
<1>3. Voies(inner')
  BY <1>1, <1>2 DEF RepTypes, Voies
<1>4. CASE Appeler(f) \/ Finir(f)
  <2>1. PICK suite \in {"appelle", "fini"} : fil' = [fil EXCEPT ![f] = suite]
    BY <1>4 DEF Appeler, Finir
  <2>2. fil[f] = "boucle" /\ UNCHANGED <<verrou, tentative>>
    BY <1>4 DEF Appeler, Finir
  <2>3. verrou' \in Fils \cup {Personne} /\ tentative' \in Nat
    BY <1>1, <2>2 DEF RepTypes
  <2>4. \A g \in Fils : g # f /\ fil[g] = "reprend" => verrou' = g
    BY <1>1, <2>2 DEF RepTypes
  <2>5. RepTypes'
    BY <1>2, <1>3, <2>1, <2>2, <2>3, <2>4, RepFilAvance
  <2> QED
    BY <1>2, <2>5, RepVoiesIntactes
<1>5. CASE Reprendre(f)
  <2>1. /\ fil[f] = "appelle" /\ fil' = [fil EXCEPT ![f] = "reprend"]
        /\ verrou = Personne /\ verrou' = f /\ tentative' = 0
    BY <1>5 DEF Reprendre
  <2>2. \A g \in Fils : fil[g] # "reprend"
    BY <1>1, <2>1 DEF RepTypes, Fils, Personne
  <2>3. tentative' \in Nat
    BY <2>1
  <2>4. RepTypes'
    BY <1>2, <1>3, <2>1, <2>2, <2>3, RepFilAvance
  <2> QED
    BY <1>2, <2>4, RepVoiesIntactes
<1>6. CASE Echouer(f)
  <2>1. fil[f] = "reprend" /\ verrou = f
    BY <1>1, <1>6 DEF Echouer, RepTypes
  <2>2. \A g \in Fils : g # f => fil[g] # "reprend"
    BY <1>1, <2>1 DEF RepTypes
  <2>3. tentative' \in Nat
    BY <1>1, <1>6 DEF Echouer, Compter, RepTypes
  <2>4. CASE politique # Illimitee => tentative' < politique
    <3>1. UNCHANGED <<fil, verrou>>
      BY <1>6, <2>4 DEF Echouer
    <3>2. fil' = [fil EXCEPT ![f] = "reprend"]
      BY <1>1, <2>1, <3>1 DEF RepTypes
    <3>3. RepTypes'
      BY <1>2, <1>3, <2>1, <2>2, <2>3, <3>1, <3>2, RepFilAvance
    <3> QED
      BY <1>2, <3>3, RepVoiesIntactes
  <2>5. CASE ~(politique # Illimitee => tentative' < politique)
    <3>1. PICK suite \in {"boucle", "fini"} : fil' = [fil EXCEPT ![f] = suite]
      BY <1>6, <2>5 DEF Echouer
    <3>2. verrou' = Personne
      BY <1>6, <2>5 DEF Echouer
    <3>3. RepTypes'
      BY <1>2, <1>3, <2>1, <2>2, <2>3, <3>1, <3>2, RepFilAvance
    <3> QED
      BY <1>2, <3>3, RepVoiesIntactes
  <2> QED
    BY <2>4, <2>5
<1> QED
  BY <1>4, <1>5, <1>6

\* Every step keeps the invariant.
LEMMA RepPas == RepInd /\ (NextR \/ UNCHANGED varsR) /\ UNCHANGED mode => RepInd'
<1> SUFFICES ASSUME RepInd, NextR \/ UNCHANGED varsR, UNCHANGED mode PROVE RepInd'
  OBVIOUS
<1>1. RepTypes
  BY DEF RepInd
<1>2. CASE UNCHANGED varsR
  <2>1. RepTypes'
    BY <1>1, <1>2 DEF RepTypes, varsR, Voies, Cles, Fils, Kinds, Personne
  <2> QED
    BY <1>2, <2>1, RepVoiesIntactes DEF varsR
<1>3. CASE Couper \/ Revenir \/ Arreter
  <2>1. UNCHANGED <<mode, inner, canaux, poignees, aOuvrir, fil, verrou, tentative>>
    BY <1>3 DEF Couper, Revenir, Arreter
  <2>2. coupures' \in 0..MaxCoupures
    BY <1>1, <1>3, TransportReprisAssumption
       DEF Couper, Revenir, Arreter, RepTypes, TransportReprisAssumption
  <2>3. RepTypes'
    BY <1>1, <2>1, <2>2 DEF RepTypes, Voies, Cles, Fils, Kinds, Personne
  <2> QED
    BY <2>1, <2>3, RepVoiesIntactes
<1>4. ASSUME NEW f \in Fils, PasFil(f) PROVE RepInd'
  BY <1>4, OuvrirPas, ReussirPas, FilPas DEF PasFil
<1>5. ASSUME NEW kind \in Recues, Recevoir(kind) PROVE RepInd'
  BY <1>5, RecevoirPas
<1>6. CASE RienRecu \/ PasEmetteur
  BY <1>6, RendrePas
<1> QED
  BY <1>2, <1>3, <1>4, <1>5, <1>6 DEF NextR

\* What the invariant says of the state a run checks.
LEMMA RepBilan == RepInd => PoigneesStables /\ (politique \in Politiques => TypeR)
<1> SUFFICES ASSUME RepInd PROVE PoigneesStables /\ (politique \in Politiques => TypeR)
  OBVIOUS
<1>1. RepTypes /\ DOMAIN inner = 1..Len(inner) /\ DOMAIN canaux = 1..Len(canaux)
  BY VoiesSuite DEF RepInd, RepTypes
<1>2. IsInjective(inner) /\ IsInjective(canaux)
  BY <1>1 DEF RepTypes, Voies, IsInjective
<1>3. \A f \in Fils : poignees[f] \in [DOMAIN poignees[f] -> 1..5]
  <2> TAKE f \in Fils
  <2>1. PICK S \in SUBSET Kinds : poignees[f] \in [S -> 1..5]
    BY <1>1 DEF RepTypes, Cles
  <2> QED
    BY <2>1
<1>4. politique \in Politiques => TypeR
  BY <1>1, <1>2, <1>3 DEF TypeR, RepTypes, Voies
<1>5. PoigneesStables
  BY <1>1 DEF PoigneesStables, RepInd, RepEtendu, ClesJustes
<1> QED
  BY <1>4, <1>5

-----------------------------------------------------------------------------
(* The relay. *)

\* The connections that hold a place of their address, and those that hold a pair.
Tenantes == {"annonce", "verifiee", "prete", "attente", "relais"}
Places(i) == {c \in Connexions : conn[c] \in Tenantes /\ ip[c] = i}
Paires == {c \in Connexions : conn[c] = "rendue" \/ (conn[c] = "relais" /\ c < pair[c])}

\* Types.
RelTypes ==
  /\ conn \in [Connexions -> Tenantes \cup {"libre", "rendue", "fermee"}]
  /\ ip \in [Connexions -> Ips \cup {CHOOSE i \in Ips : TRUE}]
  /\ ticket \in [Connexions -> Tickets \cup {Invalide}]
  /\ pair \in [Connexions -> Connexions] /\ sens \in [Connexions -> BOOLEAN]
  /\ parIp \in [Ips -> Nat] /\ paires \in Nat

\* The two sides of a pair name each other, and both are being relayed.
PairesFormees ==
  \A c \in Connexions : conn[c] = "relais" =>
    /\ pair[c] # c /\ conn[pair[c]] = "relais" /\ pair[pair[c]] = c

\* What is counted is what is held.
ComptesJustes ==
  /\ \A i \in Ips : parIp[i] = Cardinality(Places(i)) /\ parIp[i] <= MaxParIp
  /\ paires = Cardinality(Paires) /\ paires <= MaxPaires
AttenteSeule ==
  \A c, d \in Connexions :
    conn[c] = "attente" /\ conn[d] = "attente" /\ ticket[c] = ticket[d] => c = d

\* The inductive invariant of the relay.
RelInd == RelTypes /\ PairesFormees /\ ComptesJustes /\ AttenteSeule

\* The connections are numbered.
LEMMA ConnexionsFinies ==
  /\ Connexions \subseteq Nat \ {0} /\ IsFiniteSet(Connexions)
  /\ MaxParIp \in Nat \ {0} /\ MaxPaires \in Nat \ {0}
<1>1. MaxConnexionsRelais \in Nat /\ MaxParIp \in Nat \ {0} /\ MaxPaires \in Nat \ {0}
  BY RelaisAssumption DEF RelaisAssumption
<1>2. IsFiniteSet(1..MaxConnexionsRelais)
  BY <1>1, FS_Interval
<1> QED
  BY <1>1, <1>2 DEF Connexions

\* The sets counted are finite.
LEMMA CardinauxFinis ==
  /\ \A i : IsFiniteSet(Places(i)) /\ Cardinality(Places(i)) \in Nat
  /\ IsFiniteSet(Paires) /\ Cardinality(Paires) \in Nat
<1>1. ASSUME NEW i PROVE IsFiniteSet(Places(i)) /\ Cardinality(Places(i)) \in Nat
  <2>1. Places(i) \in SUBSET Connexions
    BY DEF Places
  <2> QED
    BY <2>1, ConnexionsFinies, FS_Subset, FS_CardinalityType
<1>2. IsFiniteSet(Paires) /\ Cardinality(Paires) \in Nat
  <2>1. Paires \in SUBSET Connexions
    BY DEF Paires
  <2> QED
    BY <2>1, ConnexionsFinies, FS_Subset, FS_CardinalityType
<1> QED
  BY <1>1, <1>2

\* The places of the addresses are what is counted of them.
PlacesJustes == \A i \in Ips : parIp[i] = Cardinality(Places(i)) /\ parIp[i] <= MaxParIp
PairesJustes == paires = Cardinality(Paires) /\ paires <= MaxPaires

\* A step that neither takes nor gives back a place.
LEMMA PlacesGardees ==
  ASSUME PlacesJustes, UNCHANGED <<ip, parIp>>,
         \A c \in Connexions : conn'[c] \in Tenantes <=> conn[c] \in Tenantes
  PROVE  PlacesJustes'
<1>1. \A i : Places(i)' = Places(i)
  BY DEF Places, Tenantes, Connexions
<1> QED
  BY <1>1 DEF PlacesJustes

\* A step that gives back the places of some connections.
LEMMA PlacesRendues ==
  ASSUME RelTypes, PlacesJustes, NEW C \in SUBSET Connexions,
         \A c \in C : conn[c] \in Tenantes,
         \A c \in Connexions : conn'[c] \in Tenantes <=> c \notin C /\ conn[c] \in Tenantes,
         UNCHANGED ip, parIp' = [i \in Ips |-> parIp[i] - Tenues(C)[i]]
  PROVE  PlacesJustes' /\ parIp' \in [Ips -> Nat]
<1>1. ASSUME NEW i \in Ips
      PROVE  parIp'[i] = Cardinality(Places(i)') /\ parIp'[i] <= MaxParIp /\ parIp'[i] \in Nat
  <2>1. PICK T : T = {c \in C : ip[c] = i}
    OBVIOUS
  <2>2. Places(i)' = Places(i) \ T /\ Places(i) \cap T = T
    BY <2>1 DEF Places, Tenantes, Connexions
  <2>3. PICK P : P = Places(i)
    OBVIOUS
  <2>4. IsFiniteSet(P) /\ Cardinality(P) \in Nat /\ parIp[i] = Cardinality(P)
    BY <2>3, CardinauxFinis DEF PlacesJustes
  <2>5. IsFiniteSet(P \ T) /\ Cardinality(P \ T) = Cardinality(P) - Cardinality(P \cap T)
    BY <2>4, FS_Difference
  <2>6. Cardinality(P \ T) \in Nat /\ Cardinality(T) \in Nat
    <3>1. IsFiniteSet(P \cap T)
      BY <2>4, FS_Intersection
    <3> QED
      BY <2>2, <2>3, <2>5, <3>1, FS_CardinalityType
  <2>7. parIp'[i] = parIp[i] - Cardinality(T)
    BY <2>1 DEF Tenues
  <2>8. parIp'[i] = Cardinality(P \ T)
    BY <2>2, <2>3, <2>4, <2>5, <2>7
  <2>9. parIp[i] <= MaxParIp
    BY DEF PlacesJustes
  <2>10. parIp'[i] <= MaxParIp
    BY <2>4, <2>6, <2>7, <2>9, ConnexionsFinies
  <2> QED
    BY <2>2, <2>3, <2>6, <2>8, <2>10
<1> QED
  BY <1>1 DEF PlacesJustes

\* A step that leaves the pairs alone.
LEMMA PairesGardees ==
  ASSUME RelTypes, PairesFormees, PairesJustes, UNCHANGED <<pair, paires>>,
         \A c \in Connexions : /\ conn'[c] = "relais" <=> conn[c] = "relais"
                               /\ conn'[c] = "rendue" <=> conn[c] = "rendue"
  PROVE  PairesFormees' /\ PairesJustes'
<1>1. Paires' = Paires
  BY DEF Paires, Connexions
<1>2. PairesFormees'
  BY DEF PairesFormees, Connexions, RelTypes
<1> QED
  BY <1>1, <1>2 DEF PairesJustes

\* A step that lets nobody wait that did not.
LEMMA AttenteGardee ==
  ASSUME AttenteSeule,
         \A c \in Connexions : conn'[c] = "attente" => conn[c] = "attente" /\ ticket'[c] = ticket[c]
  PROVE  AttenteSeule'
BY DEF AttenteSeule, Connexions

\* The parts of the invariant.
LEMMA RelParties ==
  /\ RelInd <=> RelTypes /\ PairesFormees /\ PlacesJustes /\ PairesJustes /\ AttenteSeule
  /\ RelInd' <=> RelTypes' /\ PairesFormees' /\ PlacesJustes' /\ PairesJustes' /\ AttenteSeule'
BY DEF RelInd, ComptesJustes, PlacesJustes, PairesJustes

\* GardeIp::prendre.
LEMMA PrendrePas ==
  ASSUME RelInd, NEW c \in Connexions, NEW i \in Ips, NEW t \in Tickets \cup {Invalide},
         Prendre(c, i, t)
  PROVE  RelInd'
<1>1. RelTypes /\ PairesFormees /\ PlacesJustes /\ PairesJustes /\ AttenteSeule
  BY RelParties
<1>2. /\ conn[c] = "libre" /\ ip' = [ip EXCEPT ![c] = i] /\ ticket' = [ticket EXCEPT ![c] = t]
      /\ UNCHANGED <<pair, sens, paires>>
  BY DEF Prendre
<1>3. PICK suite \in {"fermee", "annonce"} :
        /\ conn' = [conn EXCEPT ![c] = suite]
        /\ suite = "fermee" => UNCHANGED parIp
        /\ suite = "annonce" => ~(parIp[i] >= MaxParIp) /\ parIp' = [parIp EXCEPT ![i] = @ + 1]
  BY DEF Prendre
<1>4. \A d \in Connexions : conn'[d] = IF d = c THEN suite ELSE conn[d]
  BY <1>1, <1>3 DEF RelTypes
<1>5. \A d \in Connexions : /\ ip'[d] = IF d = c THEN i ELSE ip[d]
                            /\ ticket'[d] = IF d = c THEN t ELSE ticket[d]
  BY <1>1, <1>2 DEF RelTypes
<1>6. RelTypes'
  <2>1. conn' \in [Connexions -> Tenantes \cup {"libre", "rendue", "fermee"}]
    BY <1>1, <1>3 DEF RelTypes, Tenantes
  <2>2. ip' \in [Connexions -> Ips \cup {CHOOSE x \in Ips : TRUE}]
    BY <1>1, <1>2 DEF RelTypes
  <2>3. ticket' \in [Connexions -> Tickets \cup {Invalide}]
    BY <1>1, <1>2 DEF RelTypes
  <2>4. parIp' \in [Ips -> Nat]
    BY <1>1, <1>3 DEF RelTypes
  <2> QED
    BY <1>1, <1>2, <2>1, <2>2, <2>3, <2>4 DEF RelTypes, Tenantes, Connexions
<1>7. PairesFormees' /\ PairesJustes'
  BY <1>1, <1>2, <1>4, PairesGardees
<1>8. AttenteSeule'
  BY <1>1, <1>4, <1>5, AttenteGardee
<1>9. PlacesJustes'
  <2> SUFFICES ASSUME NEW x \in Ips
               PROVE  parIp'[x] = Cardinality(Places(x)') /\ parIp'[x] <= MaxParIp
    BY DEF PlacesJustes
  <2>1. /\ parIp[x] = Cardinality(Places(x)) /\ parIp[x] <= MaxParIp /\ parIp[x] \in Nat
        /\ IsFiniteSet(Places(x)) /\ c \notin Places(x)
    BY <1>1, <1>2, CardinauxFinis DEF PlacesJustes, RelTypes, Places, Tenantes
  <2>2. CASE suite = "annonce" /\ x = i
    <3>1. Places(x)' = Places(x) \cup {c}
      BY <2>2, <1>4, <1>5 DEF Places, Tenantes, Connexions
    <3>2. Cardinality(Places(x) \cup {c}) = parIp[x] + 1
      BY <2>1, FS_AddElement
    <3>3. parIp'[x] = parIp[x] + 1 /\ parIp[x] < MaxParIp
      BY <2>1, <2>2, <1>1, <1>3, ConnexionsFinies DEF RelTypes
    <3> QED
      BY <2>1, <3>1, <3>2, <3>3, ConnexionsFinies
  <2>3. CASE ~(suite = "annonce" /\ x = i)
    <3>1. Places(x)' = Places(x)
      BY <2>3, <1>2, <1>4, <1>5 DEF Places, Tenantes, Connexions
    <3>2. parIp'[x] = parIp[x]
      BY <2>3, <1>1, <1>3 DEF RelTypes
    <3> QED
      BY <2>1, <3>1, <3>2
  <2> QED
    BY <2>2, <2>3
<1> QED
  BY <1>6, <1>7, <1>8, <1>9, RelParties

\* Some connections, none relayed, are closed and give their places back; one more may go on.
LEMMA FermerPas ==
  ASSUME RelInd, NEW C \in SUBSET Connexions,
         \A d \in C : conn[d] \in Tenantes \ {"relais"},
         conn' \in [Connexions -> Tenantes \cup {"libre", "rendue", "fermee"}],
         \A d \in C : conn'[d] = "fermee",
         \A d \in Connexions \ C :
            \/ conn'[d] = conn[d]
            \/ {conn[d], conn'[d]} \subseteq {"annonce", "verifiee", "prete"},
         parIp' = [i \in Ips |-> parIp[i] - Tenues(C)[i]],
         UNCHANGED <<ip, ticket, pair, sens, paires>>
  PROVE  RelInd'
<1>1. RelTypes /\ PairesFormees /\ PlacesJustes /\ PairesJustes /\ AttenteSeule
  BY RelParties
<1>2. \A d \in Connexions : conn'[d] \in Tenantes <=> d \notin C /\ conn[d] \in Tenantes
  BY DEF Tenantes
<1>3. PlacesJustes' /\ parIp' \in [Ips -> Nat]
  <2>1. \A d \in C : conn[d] \in Tenantes
    OBVIOUS
  <2> QED
    BY <1>1, <1>2, <2>1, PlacesRendues
<1>4. \A d \in Connexions : /\ conn'[d] = "relais" <=> conn[d] = "relais"
                            /\ conn'[d] = "rendue" <=> conn[d] = "rendue"
  BY DEF Tenantes
<1>5. PairesFormees' /\ PairesJustes'
  BY <1>1, <1>4, PairesGardees
<1>6. AttenteSeule'
  <2>1. \A d \in Connexions : conn'[d] = "attente" => conn[d] = "attente"
    OBVIOUS
  <2> QED
    BY <1>1, <2>1, AttenteGardee
<1>7. RelTypes'
  BY <1>1, <1>3 DEF RelTypes, Tenantes, Connexions
<1> QED
  BY <1>3, <1>5, <1>6, <1>7, RelParties

\* lire_ticket, the announcement that ends early, the sweeps.
LEMMA AnnoncePas ==
  ASSUME RelInd, NEW c \in Connexions, Annoncer_(c) \/ Muette(c) \/ Balayer \/ PurgerAvant(c)
  PROVE  RelInd'
<1>1. RelTypes /\ PairesFormees /\ PlacesJustes /\ PairesJustes /\ AttenteSeule
  BY RelParties
<1>2. UNCHANGED <<ip, ticket, pair, sens, paires>>
  BY DEF Annoncer_, Muette, Balayer, PurgerAvant
<1>3. CASE Annoncer_(c) /\ ticket[c] \in Tickets \ expires
  <2>1. conn[c] = "annonce" /\ conn' = [conn EXCEPT ![c] = "verifiee"] /\ UNCHANGED parIp
    BY <1>3 DEF Annoncer_
  <2>2. \A d \in Connexions : conn'[d] = IF d = c THEN "verifiee" ELSE conn[d]
    BY <1>1, <2>1 DEF RelTypes
  <2>3. PlacesJustes'
    <3>1. \A d \in Connexions : conn'[d] \in Tenantes <=> conn[d] \in Tenantes
      BY <2>1, <2>2 DEF Tenantes
    <3> QED
      BY <1>1, <1>2, <2>1, <3>1, PlacesGardees
  <2>4. PairesFormees' /\ PairesJustes'
    BY <1>1, <1>2, <2>1, <2>2, PairesGardees
  <2>5. AttenteSeule'
    BY <1>1, <1>2, <2>2, AttenteGardee
  <2>6. RelTypes'
    <3>1. conn' \in [Connexions -> Tenantes \cup {"libre", "rendue", "fermee"}]
      BY <1>1, <2>1 DEF RelTypes, Tenantes
    <3> QED
      BY <1>1, <1>2, <2>1, <3>1 DEF RelTypes, Tenantes, Connexions
  <2> QED
    BY <2>3, <2>4, <2>5, <2>6, RelParties
<1>4. ASSUME NEW C \in SUBSET Connexions, FermerEtRendre(C),
             \A d \in C : conn[d] \in {"annonce", "attente"}
      PROVE  RelInd'
  <2>1. conn' = [d \in Connexions |-> IF d \in C THEN "fermee" ELSE conn[d]]
        /\ parIp' = [i \in Ips |-> parIp[i] - Tenues(C)[i]]
    BY <1>4 DEF FermerEtRendre
  <2>2. conn' \in [Connexions -> Tenantes \cup {"libre", "rendue", "fermee"}]
    BY <1>1, <2>1 DEF RelTypes, Tenantes
  <2>3. \A d \in C : conn[d] \in Tenantes \ {"relais"} /\ conn'[d] = "fermee"
    BY <1>4, <2>1 DEF Tenantes
  <2>4. \A d \in Connexions \ C : conn'[d] = conn[d]
    BY <2>1
  <2> QED
    BY <1>2, <2>1, <2>2, <2>3, <2>4, FermerPas
<1>5. CASE Annoncer_(c) /\ ticket[c] \notin Tickets \ expires
  <2>1. conn[c] = "annonce" /\ FermerEtRendre({c})
    BY <1>5 DEF Annoncer_
  <2> QED
    BY <1>4, <2>1
<1>6. CASE Muette(c)
  <2>1. conn[c] = "annonce" /\ FermerEtRendre({c})
    BY <1>6 DEF Muette
  <2> QED
    BY <1>4, <2>1
<1>7. CASE Balayer
  <2>1. PICK C : C = {d \in Connexions : conn[d] = "attente" /\ ticket[d] \in expires}
    OBVIOUS
  <2>2. FermerEtRendre(C)
    BY <1>7, <2>1 DEF Balayer, Purger
  <2> QED
    BY <1>4, <2>1, <2>2
<1>8. CASE PurgerAvant(c)
  <2>1. PICK C : C = {d \in Connexions : conn[d] = "attente" /\ ticket[d] \in expires}
    OBVIOUS
  <2>2. /\ conn[c] = "verifiee"
        /\ conn' = [d \in Connexions |-> IF d \in C THEN "fermee"
                                         ELSE IF d = c THEN "prete" ELSE conn[d]]
        /\ parIp' = [i \in Ips |-> parIp[i] - Tenues(C)[i]]
    BY <1>8, <2>1 DEF PurgerAvant
  <2>3. conn' \in [Connexions -> Tenantes \cup {"libre", "rendue", "fermee"}]
    BY <1>1, <2>2 DEF RelTypes, Tenantes
  <2>4. \A d \in C : conn[d] \in Tenantes \ {"relais"} /\ conn'[d] = "fermee"
    BY <2>1, <2>2 DEF Tenantes
  <2>5. \A d \in Connexions \ C : conn'[d] = conn[d]
          \/ {conn[d], conn'[d]} \subseteq {"annonce", "verifiee", "prete"}
    BY <2>2
  <2>6. C \in SUBSET Connexions
    BY <2>1
  <2> QED
    BY <1>2, <2>2, <2>3, <2>4, <2>5, <2>6, FermerPas
<1> QED
  BY <1>3, <1>5, <1>6, <1>7, <1>8

\* ouvrir_paire, for two peers of one ticket.
LEMMA AppareillerPas ==
  ASSUME RelInd, NEW c \in Connexions, NEW d \in Connexions,
         conn[c] = "prete", conn[d] = "attente", paires < MaxPaires,
         paires' = paires + 1,
         conn' = [conn EXCEPT ![c] = "relais", ![d] = "relais"],
         pair' = [pair EXCEPT ![c] = d, ![d] = c],
         sens' = [sens EXCEPT ![c] = TRUE, ![d] = TRUE],
         UNCHANGED <<parIp, ip, ticket>>
  PROVE  RelInd'
<1>1. RelTypes /\ PairesFormees /\ PlacesJustes /\ PairesJustes /\ AttenteSeule /\ c # d
  BY RelParties
<1>2. \A e \in Connexions : /\ conn'[e] = IF e \in {c, d} THEN "relais" ELSE conn[e]
                            /\ pair'[e] = IF e = d THEN c ELSE IF e = c THEN d ELSE pair[e]
  BY <1>1 DEF RelTypes
<1>3. RelTypes'
  <2>1. conn' \in [Connexions -> Tenantes \cup {"libre", "rendue", "fermee"}]
    BY <1>1 DEF RelTypes, Tenantes
  <2>2. pair' \in [Connexions -> Connexions] /\ sens' \in [Connexions -> BOOLEAN]
    BY <1>1 DEF RelTypes
  <2>3. paires' \in Nat
    BY <1>1 DEF RelTypes
  <2> QED
    BY <1>1, <2>1, <2>2, <2>3 DEF RelTypes, Tenantes, Connexions
<1>4. PairesFormees'
  <2> SUFFICES ASSUME NEW e \in Connexions, conn'[e] = "relais"
               PROVE  pair'[e] # e /\ conn'[pair'[e]] = "relais" /\ pair'[pair'[e]] = e
    BY DEF PairesFormees, Connexions
  <2>1. CASE e \in {c, d}
    BY <2>1, <1>1, <1>2
  <2>2. CASE e \notin {c, d}
    <3>1. pair[e] # e /\ conn[pair[e]] = "relais" /\ pair[pair[e]] = e /\ pair[e] \in Connexions
      BY <2>2, <1>1, <1>2 DEF PairesFormees, RelTypes
    <3>2. pair[e] \notin {c, d} /\ pair'[e] = pair[e]
      BY <3>1, <2>2, <1>2
    <3> QED
      BY <3>1, <3>2, <1>2
  <2> QED
    BY <2>1, <2>2
<1>5. PlacesJustes'
  <2>1. \A e \in Connexions : conn'[e] \in Tenantes <=> conn[e] \in Tenantes
    BY <1>2 DEF Tenantes
  <2> QED
    BY <1>1, <2>1, PlacesGardees
<1>6. PairesJustes'
  <2>1. PICK m \in {c, d} : \A e \in {c, d} : m <= e
    BY ConnexionsFinies
  <2>2. PICK M \in {c, d} : M # m /\ m < M
    BY <1>1, <2>1, ConnexionsFinies
  <2>3. pair'[m] = M /\ pair'[M] = m /\ conn'[m] = "relais" /\ conn'[M] = "relais"
        /\ conn[m] \notin {"relais", "rendue"} /\ conn[M] \notin {"relais", "rendue"}
    BY <1>1, <1>2, <2>2
  <2>4. Paires' = Paires \cup {m} /\ m \notin Paires
    <3>1. \A e \in Connexions : e \in Paires' <=>
            conn'[e] = "rendue" \/ (conn'[e] = "relais" /\ e < pair'[e])
      BY DEF Paires, Connexions
    <3>2. m \in Paires' /\ M \notin Paires'
      <4>1. m \in Connexions /\ M \in Connexions /\ ~(M < m)
        BY <2>2, ConnexionsFinies
      <4> QED
        BY <2>2, <2>3, <3>1, <4>1
    <3>3. \A e \in Connexions : e \notin {m, M} => (e \in Paires' <=> e \in Paires)
      BY <1>2, <2>2, <3>1 DEF Paires
    <3>4. m \notin Paires /\ M \notin Paires
      BY <2>3 DEF Paires
    <3>5. Paires' \subseteq Connexions /\ Paires \subseteq Connexions
      BY DEF Paires, Connexions
    <3> QED
      BY <3>2, <3>3, <3>4, <3>5
  <2>5. Cardinality(Paires \cup {m}) = Cardinality(Paires) + 1
    BY <2>4, CardinauxFinis, FS_AddElement
  <2> QED
    BY <1>1, <2>4, <2>5, CardinauxFinis, ConnexionsFinies DEF PairesJustes
<1>7. AttenteSeule'
  <2>1. \A e \in Connexions : conn'[e] = "attente" => conn[e] = "attente" /\ ticket'[e] = ticket[e]
    BY <1>2
  <2> QED
    BY <1>1, <2>1, AttenteGardee
<1> QED
  BY <1>3, <1>4, <1>5, <1>6, <1>7, RelParties

\* ouvrir_paire.
LEMMA ApparierPas ==
  ASSUME RelInd, NEW c \in Connexions, Apparier(c)
  PROVE  RelInd'
<1>1. RelTypes /\ PairesFormees /\ PlacesJustes /\ PairesJustes /\ AttenteSeule
  BY RelParties
<1>2. conn[c] = "prete" /\ UNCHANGED <<ip, ticket>>
  BY DEF Apparier
<1>3. CASE /\ Premiers(c) = {} /\ conn' = [conn EXCEPT ![c] = "attente"]
           /\ UNCHANGED <<pair, sens, parIp, paires>>
  <2>1. \A d \in Connexions : conn'[d] = IF d = c THEN "attente" ELSE conn[d]
    BY <1>1, <1>3 DEF RelTypes
  <2>2. PlacesJustes'
    <3>1. \A d \in Connexions : conn'[d] \in Tenantes <=> conn[d] \in Tenantes
      BY <1>2, <2>1 DEF Tenantes
    <3> QED
      BY <1>1, <1>2, <1>3, <3>1, PlacesGardees
  <2>3. PairesFormees' /\ PairesJustes'
    BY <1>1, <1>2, <1>3, <2>1, PairesGardees
  <2>4. AttenteSeule'
    <3>1. \A d \in Connexions : conn[d] = "attente" => ticket[d] # ticket[c]
      BY <1>3 DEF Premiers
    <3> QED
      BY <1>1, <1>2, <2>1, <3>1 DEF AttenteSeule, Connexions
  <2>5. RelTypes'
    <3>1. conn' \in [Connexions -> Tenantes \cup {"libre", "rendue", "fermee"}]
      BY <1>1, <1>3 DEF RelTypes, Tenantes
    <3> QED
      BY <1>1, <1>2, <1>3, <3>1 DEF RelTypes, Tenantes, Connexions
  <2> QED
    BY <2>2, <2>3, <2>4, <2>5, RelParties
<1>4. ASSUME NEW d \in Premiers(c), paires < MaxPaires, paires' = paires + 1,
             conn' = [conn EXCEPT ![c] = "relais", ![d] = "relais"],
             pair' = [pair EXCEPT ![c] = d, ![d] = c],
             sens' = [sens EXCEPT ![c] = TRUE, ![d] = TRUE], UNCHANGED parIp
      PROVE  RelInd'
  <2>1. d \in Connexions /\ conn[d] = "attente"
    BY DEF Premiers
  <2> QED
    BY <1>2, <1>4, <2>1, AppareillerPas
<1>5. CASE FermerEtRendre({c}) /\ UNCHANGED <<pair, sens, paires>>
  <2>1. conn' = [d \in Connexions |-> IF d \in {c} THEN "fermee" ELSE conn[d]]
        /\ parIp' = [i \in Ips |-> parIp[i] - Tenues({c})[i]]
    BY <1>5 DEF FermerEtRendre
  <2>2. conn' \in [Connexions -> Tenantes \cup {"libre", "rendue", "fermee"}]
    BY <1>1, <2>1 DEF RelTypes, Tenantes
  <2>3. \A d \in {c} : conn[d] \in Tenantes \ {"relais"} /\ conn'[d] = "fermee"
    BY <1>2, <2>1 DEF Tenantes
  <2>4. \A d \in Connexions \ {c} : conn'[d] = conn[d]
    BY <2>1
  <2>5. {c} \in SUBSET Connexions
    OBVIOUS
  <2> QED
    BY <1>2, <1>5, <2>1, <2>2, <2>3, <2>4, <2>5, FermerPas
<1>6. \/ Premiers(c) = {} /\ conn' = [conn EXCEPT ![c] = "attente"]
         /\ UNCHANGED <<pair, sens, parIp, paires>>
      \/ \E d \in Premiers(c) :
           IF paires < MaxPaires
           THEN /\ paires' = paires + 1
                /\ conn' = [conn EXCEPT ![c] = "relais", ![d] = "relais"]
                /\ pair' = [pair EXCEPT ![c] = d, ![d] = c]
                /\ sens' = [sens EXCEPT ![c] = TRUE, ![d] = TRUE]
                /\ UNCHANGED parIp
           ELSE FermerEtRendre({c}) /\ UNCHANGED <<pair, sens, paires>>
  BY DEF Apparier
<1>7. ASSUME NEW d \in Premiers(c),
             IF paires < MaxPaires
             THEN /\ paires' = paires + 1
                  /\ conn' = [conn EXCEPT ![c] = "relais", ![d] = "relais"]
                  /\ pair' = [pair EXCEPT ![c] = d, ![d] = c]
                  /\ sens' = [sens EXCEPT ![c] = TRUE, ![d] = TRUE]
                  /\ UNCHANGED parIp
             ELSE FermerEtRendre({c}) /\ UNCHANGED <<pair, sens, paires>>
      PROVE  RelInd'
  <2>1. CASE paires < MaxPaires
    BY <1>4, <1>7, <2>1
  <2>2. CASE ~(paires < MaxPaires)
    BY <1>5, <1>7, <2>2
  <2> QED
    BY <2>1, <2>2
<1> QED
  BY <1>3, <1>6, <1>7

\* Both copies of a pair ended: the places of the two sides, then that of the pair.
LEMMA RendrePlacesPas ==
  ASSUME RelInd, NEW c \in Connexions, RendrePlaces(c)
  PROVE  RelInd'
<1> DEFINE d == pair[c]
<1>1. RelTypes /\ PairesFormees /\ PlacesJustes /\ PairesJustes /\ AttenteSeule
  BY RelParties
<1>2. /\ conn[c] = "relais" /\ conn' = [conn EXCEPT ![c] = "rendue", ![d] = "fermee"]
      /\ parIp' = [i \in Ips |-> parIp[i] - Tenues({c, d})[i]]
      /\ UNCHANGED <<ip, ticket, pair, sens, paires>>
  BY DEF RendrePlaces
<1>3. d \in Connexions /\ d # c /\ conn[d] = "relais" /\ pair[d] = c
  BY <1>1, <1>2 DEF PairesFormees, RelTypes
<1> HIDE DEF d
<1>4. \A e \in Connexions : conn'[e] = IF e = d THEN "fermee" ELSE IF e = c THEN "rendue" ELSE conn[e]
  BY <1>1, <1>2, <1>3 DEF RelTypes
<1>5. PlacesJustes' /\ parIp' \in [Ips -> Nat]
  <2>1. \A e \in {c, d} : conn[e] \in Tenantes
    BY <1>2, <1>3 DEF Tenantes
  <2>2. \A e \in Connexions : conn'[e] \in Tenantes <=> e \notin {c, d} /\ conn[e] \in Tenantes
    BY <1>4 DEF Tenantes
  <2>3. {c, d} \in SUBSET Connexions
    BY <1>3
  <2> QED
    BY <1>1, <1>2, <2>1, <2>2, <2>3, PlacesRendues
<1>6. RelTypes'
  <2>1. conn' \in [Connexions -> Tenantes \cup {"libre", "rendue", "fermee"}]
    BY <1>1, <1>2 DEF RelTypes, Tenantes
  <2> QED
    BY <1>1, <1>2, <1>5, <2>1 DEF RelTypes, Tenantes, Connexions
<1>7. PairesFormees'
  <2> SUFFICES ASSUME NEW e \in Connexions, conn'[e] = "relais"
               PROVE  pair'[e] # e /\ conn'[pair'[e]] = "relais" /\ pair'[pair'[e]] = e
    BY DEF PairesFormees, Connexions
  <2>1. e \notin {c, d} /\ conn[e] = "relais"
    BY <1>4
  <2>2. pair[e] # e /\ conn[pair[e]] = "relais" /\ pair[pair[e]] = e /\ pair[e] \in Connexions
    BY <2>1, <1>1 DEF PairesFormees, RelTypes
  <2>3. pair[e] \notin {c, d}
    BY <2>1, <2>2, <1>3 DEF d
  <2> QED
    BY <2>2, <2>3, <1>2, <1>4
<1>8. PairesJustes'
  <2>1. PICK m \in {c, d}, M \in {c, d} : m < M
    BY <1>3, ConnexionsFinies
  <2>2. {m, M} = {c, d} /\ m # M /\ pair[m] = M /\ pair[M] = m
    BY <2>1, <1>3, ConnexionsFinies DEF d
  <2>3. m \in Paires /\ M \notin Paires
    BY <1>2, <1>3, <2>1, <2>2, ConnexionsFinies DEF Paires
  <2>4. c \in Paires' /\ d \notin Paires'
    BY <1>3, <1>4 DEF Paires, Connexions
  <2>5. \A e \in Connexions : e \notin {c, d} => (e \in Paires' <=> e \in Paires)
    BY <1>2, <1>4 DEF Paires, Connexions
  <2>6. Paires' \subseteq Connexions /\ Paires \subseteq Connexions
    BY DEF Paires, Connexions
  <2>7. Paires' = (Paires \ {m}) \cup {c}
    BY <2>2, <2>3, <2>4, <2>5, <2>6
  <2>8. IsFiniteSet(Paires \ {m}) /\ Cardinality(Paires \ {m}) = Cardinality(Paires) - 1
    BY <2>3, CardinauxFinis, FS_RemoveElement
  <2>9. c \notin Paires \ {m}
    BY <2>2, <2>3
  <2>10. Cardinality((Paires \ {m}) \cup {c}) = Cardinality(Paires \ {m}) + 1
    BY <2>8, <2>9, FS_AddElement
  <2>11. Cardinality(Paires') = Cardinality(Paires)
    BY <2>7, <2>8, <2>10, CardinauxFinis
  <2> QED
    BY <1>1, <1>2, <2>11 DEF PairesJustes
<1>9. AttenteSeule'
  <2>1. \A e \in Connexions : conn'[e] = "attente" => conn[e] = "attente" /\ ticket'[e] = ticket[e]
    BY <1>2, <1>4
  <2> QED
    BY <1>1, <2>1, AttenteGardee
<1> QED
  BY <1>5, <1>6, <1>7, <1>8, <1>9, RelParties

\* ... and the place of the pair.
LEMMA FermerPairePas ==
  ASSUME RelInd, NEW c \in Connexions, FermerPaire(c)
  PROVE  RelInd'
<1>1. RelTypes /\ PairesFormees /\ PlacesJustes /\ PairesJustes /\ AttenteSeule
  BY RelParties
<1>2. /\ conn[c] = "rendue" /\ conn' = [conn EXCEPT ![c] = "fermee"] /\ paires' = paires - 1
      /\ UNCHANGED <<ip, ticket, pair, sens, parIp>>
  BY DEF FermerPaire
<1>3. \A e \in Connexions : conn'[e] = IF e = c THEN "fermee" ELSE conn[e]
  BY <1>1, <1>2 DEF RelTypes
<1>4. PlacesJustes'
  <2>1. \A e \in Connexions : conn'[e] \in Tenantes <=> conn[e] \in Tenantes
    BY <1>2, <1>3 DEF Tenantes
  <2> QED
    BY <1>1, <1>2, <2>1, PlacesGardees
<1>5. PairesFormees'
  BY <1>1, <1>2, <1>3 DEF PairesFormees, RelTypes, Connexions
<1>6. PairesJustes' /\ paires' \in Nat
  <2>1. c \in Paires
    BY <1>2 DEF Paires
  <2>2. Paires' = Paires \ {c}
    BY <1>2, <1>3 DEF Paires, Connexions
  <2>3. IsFiniteSet(Paires \ {c}) /\ Cardinality(Paires \ {c}) = Cardinality(Paires) - 1
    BY <2>1, CardinauxFinis, FS_RemoveElement
  <2>4. Cardinality(Paires \ {c}) \in Nat
    BY <2>3, FS_CardinalityType
  <2> QED
    BY <1>1, <1>2, <2>2, <2>3, <2>4, ConnexionsFinies DEF PairesJustes, RelTypes
<1>7. AttenteSeule'
  BY <1>1, <1>2, <1>3, AttenteGardee
<1>8. RelTypes'
  <2>1. conn' \in [Connexions -> Tenantes \cup {"libre", "rendue", "fermee"}]
    BY <1>1, <1>2 DEF RelTypes, Tenantes
  <2> QED
    BY <1>1, <1>2, <1>6, <2>1 DEF RelTypes, Tenantes, Connexions
<1> QED
  BY <1>4, <1>5, <1>6, <1>7, <1>8, RelParties

\* The steps that change no connection.
LEMMA RelIntact ==
  ASSUME RelInd, UNCHANGED <<conn, ip, ticket, pair, parIp, paires>>,
         sens' \in [Connexions -> BOOLEAN]
  PROVE  RelInd'
<1>1. RelTypes /\ PairesFormees /\ PlacesJustes /\ PairesJustes /\ AttenteSeule
  BY RelParties
<1>2. PlacesJustes'
  BY <1>1, PlacesGardees
<1>3. PairesFormees' /\ PairesJustes'
  BY <1>1, PairesGardees
<1>4. AttenteSeule'
  BY <1>1, AttenteGardee
<1>5. RelTypes'
  BY <1>1 DEF RelTypes, Tenantes, Connexions
<1> QED
  BY <1>2, <1>3, <1>4, <1>5, RelParties

\* Nobody came yet.
LEMMA RelDebut == InitRel => RelInd
<1> SUFFICES ASSUME InitRel PROVE RelInd
  OBVIOUS
<1>1. RelTypes
  BY DEF InitRel, RelTypes, Tenantes
<1>2. PairesFormees /\ AttenteSeule
  BY DEF InitRel, PairesFormees, AttenteSeule
<1>3. PlacesJustes
  <2>1. \A i : Places(i) = {}
    BY DEF InitRel, Places, Tenantes
  <2> QED
    BY <2>1, FS_EmptySet, ConnexionsFinies DEF PlacesJustes, InitRel
<1>4. PairesJustes
  <2>1. Paires = {}
    BY DEF InitRel, Paires
  <2> QED
    BY <2>1, FS_EmptySet, ConnexionsFinies DEF PairesJustes, InitRel
<1> QED
  BY <1>1, <1>2, <1>3, <1>4, RelParties

\* Every step of the relay keeps its invariant.
LEMMA RelPas == RelInd /\ (NextRel \/ UNCHANGED varsRel) => RelInd'
<1> SUFFICES ASSUME RelInd, NextRel \/ UNCHANGED varsRel PROVE RelInd'
  OBVIOUS
<1>1. RelTypes
  BY DEF RelInd
<1>2. CASE UNCHANGED varsRel
  BY <1>1, <1>2, RelIntact DEF varsRel, RelTypes
<1>3. ASSUME NEW c \in Connexions, FinSens(c) \/ Partir(c) PROVE RelInd'
  <2>1. sens' \in [Connexions -> BOOLEAN]
    BY <1>1, <1>3 DEF FinSens, Partir, RelTypes
  <2>2. UNCHANGED <<conn, ip, ticket, pair, parIp, paires>>
    BY <1>3 DEF FinSens, Partir
  <2> QED
    BY <2>1, <2>2, RelIntact
<1>4. ASSUME NEW t \in Tickets, Expirer(t) PROVE RelInd'
  BY <1>1, <1>4, RelIntact DEF Expirer, RelTypes
<1>5. ASSUME NEW c \in Connexions, PasConn(c) PROVE RelInd'
  BY <1>5, AnnoncePas, ApparierPas, RendrePlacesPas, FermerPairePas DEF PasConn
<1>6. CASE Balayer
  <2>1. CASE Connexions = {}
    <3>1. sens' \in [Connexions -> BOOLEAN] /\ UNCHANGED <<ip, ticket, pair, paires, sens>>
      BY <1>1, <1>6 DEF Balayer, RelTypes
    <3>2. PICK C : C = {d \in Connexions : conn[d] = "attente" /\ ticket[d] \in expires}
      OBVIOUS
    <3>3. FermerEtRendre(C) /\ C \in SUBSET Connexions /\ \A d \in C : FALSE
      BY <1>6, <2>1, <3>2 DEF Balayer, Purger
    <3>4. conn' \in [Connexions -> Tenantes \cup {"libre", "rendue", "fermee"}]
      BY <2>1, <3>3 DEF FermerEtRendre
    <3> QED
      BY <2>1, <3>1, <3>3, <3>4, FermerPas DEF FermerEtRendre
  <2>2. CASE Connexions # {}
    BY <1>6, <2>2, AnnoncePas
  <2> QED
    BY <2>1, <2>2
<1> QED
  BY <1>2, <1>3, <1>4, <1>5, <1>6, PrendrePas, AnnoncePas DEF NextRel

\* What the invariant says of the state a run checks.
LEMMA RelBilan == RelInd => TypeRel
<1> SUFFICES ASSUME RelInd PROVE TypeRel
  OBVIOUS
<1>1. RelTypes /\ PlacesJustes /\ PairesJustes /\ AttenteSeule
  BY RelParties
<1>2. parIp \in [Ips -> 0..MaxParIp] /\ paires \in 0..MaxPaires
  BY <1>1, ConnexionsFinies DEF RelTypes, PlacesJustes, PairesJustes
<1> QED
  BY <1>1, <1>2 DEF TypeRel, RelTypes, AttenteSeule, Tenantes

-----------------------------------------------------------------------------
(* The meeting of the peers. *)

\* A demand in the file of the host.
UneDemande == [de : Appelants, socket : Nat, fraiche : BOOLEAN]

\* The inductive invariant of the meeting: its types, the demands included.
RvInd == TypeRv /\ demandes \in Seq(UneDemande)

\* The bounds of the meeting.
LEMMA BornesRv ==
  MaxDemandesCible \in Nat \ {0} /\ MaxTours \in Nat /\ MaxEssais \in Nat
BY RendezvousAssumption DEF RendezvousAssumption

\* Nobody is there.
LEMMA RvDebut == InitRv => RvInd
<1> SUFFICES ASSUME InitRv PROVE RvInd
  OBVIOUS
<1>1. demandes \in Seq(UneDemande) /\ Len(demandes) = 0
  BY EmptySeq DEF InitRv
<1>2. TypeRv
  BY <1>1, BornesRv DEF InitRv, TypeRv
<1> QED
  BY <1>1, <1>2 DEF RvInd

\* The steps of the server and of the host.
LEMMA RvServeurPas ==
  ASSUME RvInd, \/ PasHote \/ Perimer \/ Balayer_ \/ Redemarrer \/ Vieillir
                \/ \E a \in Appelants : RecevoirHote(a)
  PROVE  RvInd'
<1>1. TypeRv /\ demandes \in Seq(UneDemande)
  BY DEF RvInd
<1>2. hSocket \in Nat /\ candidats \in Nat /\ candidats <= hSocket /\ hSocket <= MaxTours
  BY <1>1, BornesRv DEF TypeRv
<1>3. <<>> \in Seq(UneDemande) /\ Len(<<>>) <= MaxDemandesCible
  BY EmptySeq, BornesRv
<1>4. demandes' \in Seq(UneDemande) /\ Len(demandes') <= MaxDemandesCible
  <2>1. CASE Vieillir
    <3>1. PICK i \in DOMAIN demandes : demandes' = [demandes EXCEPT ![i].fraiche = FALSE]
      BY <2>1 DEF Vieillir
    <3>2. i \in 1..Len(demandes) /\ demandes[i] \in UneDemande
      BY <1>1, <3>1, LenProperties, ElementOfSeq
    <3>3. PICK e : e = [demandes[i] EXCEPT !.fraiche = FALSE]
      OBVIOUS
    <3>4. e \in UneDemande
      BY <3>2, <3>3 DEF UneDemande
    <3>5. demandes' = [demandes EXCEPT ![i] = e]
      BY <3>1, <3>3
    <3>6. [demandes EXCEPT ![i] = e] \in Seq(UneDemande) /\ Len([demandes EXCEPT ![i] = e]) = Len(demandes)
      BY <1>1, <3>2, <3>4, ExceptSeq
    <3> QED
      BY <1>1, <3>5, <3>6 DEF TypeRv
  <2>2. CASE ~Vieillir
    <3>1. demandes' = demandes \/ demandes' = <<>>
      BY <2>2 DEF PasHote, Perimer, Balayer_, Redemarrer, RecevoirHote, Inscrire, Battre, Publier,
                  Relever, RienRelever, EchouerHote, serveur
    <3>2. Len(demandes) <= MaxDemandesCible
      BY <1>1 DEF TypeRv
    <3>3. CASE demandes' = demandes
      BY <1>1, <3>2, <3>3
    <3>4. CASE demandes' = <<>>
      BY <1>3, <3>4
    <3> QED
      BY <3>1, <3>3, <3>4
  <2> QED
    BY <2>1, <2>2
<1>5. presence' \in {"absent", "frais", "perime"}
  BY <1>1 DEF TypeRv, PasHote, Perimer, Balayer_, Redemarrer, Vieillir, RecevoirHote, Inscrire,
              Battre, Publier, Relever, RienRelever, EchouerHote, serveur
<1>6. hSocket' \in 0..MaxTours /\ candidats' \in 0..hSocket'
  <2>1. CASE Publier
    <3>1. hSocket' = hSocket + 1 /\ hSocket < MaxTours /\ candidats' \in {candidats, hSocket'}
      BY <2>1 DEF Publier
    <3> QED
      BY <1>2, <3>1, BornesRv
  <2>2. CASE ~Publier
    <3>1. hSocket' = hSocket /\ candidats' \in {candidats, 0}
      BY <2>2 DEF PasHote, Perimer, Balayer_, Redemarrer, Vieillir, RecevoirHote, Inscrire, Battre,
                  Relever, RienRelever, EchouerHote, serveur, varsHote, HoteVa
    <3> QED
      BY <1>2, <3>1, BornesRv
  <2> QED
    BY <2>1, <2>2
<1>7. hote' \in {"inscrire", "reinscrire", "battre", "publier", "relever", "percer",
                 "direct", "relais"}
  BY <1>1 DEF TypeRv, PasHote, Perimer, Balayer_, Redemarrer, Vieillir, RecevoirHote, Inscrire,
              Battre, Publier, Relever, RienRelever, EchouerHote, varsHote, HoteVa
<1>8. UNCHANGED varsApp
  BY DEF PasHote, Perimer, Balayer_, Redemarrer, Vieillir, RecevoirHote, Inscrire,
         Battre, Publier, Relever, RienRelever, EchouerHote
<1> QED
  BY <1>1, <1>4, <1>5, <1>6, <1>7, <1>8 DEF RvInd, TypeRv, varsApp, UneDemande

\* The steps of a caller.
LEMMA RvAppelantPas ==
  ASSUME RvInd, NEW a \in Appelants, PasAppelant(a) \/ RecevoirAppelant(a)
  PROVE  RvInd'
<1>1. TypeRv /\ demandes \in Seq(UneDemande)
  BY DEF RvInd
<1>2. /\ hSocket \in Nat /\ candidats \in Nat /\ candidats <= hSocket /\ hSocket <= MaxTours
      /\ aSocket[a] \in 0..MaxEssais /\ aVise[a] \in 0..MaxTours
  BY <1>1, BornesRv DEF TypeRv
<1>3. UNCHANGED <<presence, candidats, hote, hSocket>>
  BY DEF PasAppelant, Resoudre, Demander, Deposer_, EchouerAppelant, RecevoirAppelant, serveur,
         varsHote
<1>4. demandes' \in Seq(UneDemande) /\ Len(demandes') <= MaxDemandesCible
  <2>1. CASE Deposer_(a) /\ EnLigne
    <3>1. PICK q : q = IF Len(demandes) >= MaxDemandesCible THEN Tail(demandes) ELSE demandes
      OBVIOUS
    <3>2. demandes' = Append(q, Demande(a, aSocket[a]))
      BY <2>1, <3>1 DEF Deposer_
    <3>3. q \in Seq(UneDemande) /\ Len(q) + 1 <= MaxDemandesCible
      <4>1. Len(demandes) \in Nat /\ Len(demandes) <= MaxDemandesCible
        BY <1>1, LenProperties DEF TypeRv
      <4>2. CASE Len(demandes) >= MaxDemandesCible
        <5>1. demandes # <<>>
          BY <4>1, <4>2, BornesRv, EmptySeq
        <5>2. Tail(demandes) \in Seq(UneDemande) /\ Len(Tail(demandes)) = Len(demandes) - 1
          BY <1>1, <5>1, HeadTailProperties
        <5> QED
          BY <3>1, <4>1, <4>2, <5>2, BornesRv
      <4>3. CASE ~(Len(demandes) >= MaxDemandesCible)
        BY <1>1, <3>1, <4>1, <4>3, BornesRv
      <4> QED
        BY <4>2, <4>3
    <3>4. Demande(a, aSocket[a]) \in UneDemande
      BY <1>2 DEF Demande, UneDemande
    <3> QED
      BY <3>2, <3>3, <3>4, AppendProperties
  <2>2. CASE ~(Deposer_(a) /\ EnLigne)
    <3>1. demandes' = demandes
      BY <2>2 DEF PasAppelant, Resoudre, Demander, Deposer_, EchouerAppelant, RecevoirAppelant, serveur
    <3> QED
      BY <1>1, <3>1 DEF TypeRv
  <2> QED
    BY <2>1, <2>2
<1>5. app' \in [Appelants -> {"resoudre", "demander", "deposer", "percer", "direct",
                              "relais", "fini"}]
  <2>1. PICK e \in {"resoudre", "demander", "deposer", "percer", "direct", "relais", "fini"} :
          app' = [app EXCEPT ![a] = e]
    BY DEF PasAppelant, Resoudre, Demander, Deposer_, EchouerAppelant, RecevoirAppelant, AppelantVa
  <2> QED
    BY <1>1, <2>1 DEF TypeRv
<1>6. aSocket' \in [Appelants -> 0..MaxEssais]
  <2>1. CASE Resoudre(a) /\ ~(aSocket[a] >= MaxEssais)
    <3>1. aSocket' = [aSocket EXCEPT ![a] = @ + 1]
      BY <2>1 DEF Resoudre
    <3>2. aSocket[a] + 1 \in 0..MaxEssais
      BY <1>2, <2>1, BornesRv
    <3> QED
      BY <1>1, <3>1, <3>2 DEF TypeRv
  <2>2. CASE ~(Resoudre(a) /\ ~(aSocket[a] >= MaxEssais))
    <3>1. aSocket' = aSocket
      BY <2>2 DEF PasAppelant, Resoudre, Demander, Deposer_, EchouerAppelant, RecevoirAppelant
    <3> QED
      BY <1>1, <3>1 DEF TypeRv
  <2> QED
    BY <2>1, <2>2
<1>7. aVise' \in [Appelants -> 0..MaxTours]
  <2>1. aVise' = aVise \/ aVise' = [aVise EXCEPT ![a] = candidats]
    BY DEF PasAppelant, Resoudre, Demander, Deposer_, EchouerAppelant, RecevoirAppelant
  <2>2. candidats \in 0..MaxTours
    BY <1>2, BornesRv
  <2> QED
    BY <1>1, <2>1, <2>2 DEF TypeRv
<1>8. aPair' \in [Appelants -> 0..MaxTours]
  <2>1. CASE RecevoirAppelant(a)
    <3>1. PICK s : s = IF AppelantRecoit(a) THEN hSocket ELSE aVise[a]
      OBVIOUS
    <3>2. s \in 0..MaxTours /\ aPair' = [aPair EXCEPT ![a] = s]
      BY <1>2, <2>1, <3>1 DEF RecevoirAppelant
    <3> QED
      BY <1>1, <3>2 DEF TypeRv
  <2>2. CASE ~RecevoirAppelant(a)
    <3>1. aPair' = aPair
      BY <2>2 DEF PasAppelant, Resoudre, Demander, Deposer_, EchouerAppelant
    <3> QED
      BY <1>1, <3>1 DEF TypeRv
  <2> QED
    BY <2>1, <2>2
<1> QED
  BY <1>1, <1>3, <1>4, <1>5, <1>6, <1>7, <1>8 DEF RvInd, TypeRv, UneDemande

\* Every step of the meeting keeps its types.
LEMMA RvPas == RvInd /\ (NextRv \/ UNCHANGED varsRv) => RvInd'
<1> SUFFICES ASSUME RvInd, NextRv \/ UNCHANGED varsRv PROVE RvInd'
  OBVIOUS
<1>1. CASE UNCHANGED varsRv
  BY <1>1 DEF RvInd, TypeRv, UneDemande, varsRv
<1>2. CASE NextRv
  <2>1. ASSUME NEW a \in Appelants, PasAppelant(a) \/ RecevoirAppelant(a) PROVE RvInd'
    BY <2>1, RvAppelantPas
  <2> QED
    BY <1>2, <2>1, RvServeurPas DEF NextRv
<1> QED
  BY <1>1, <1>2

-----------------------------------------------------------------------------
(* The bridges of the Windows service. *)

\* Types.
PontTypes == TypeA /\ s2a \in [Ponts -> Seq({"touche", "relacher"})]

\* The bridges are made one after the other; the open one is the current one, the one
\* that waits for its assistant is the last.
PontsRanges ==
  /\ \A p \in Ponts : tubes[p] # "absents" <=> p <= Lances
  /\ \A p \in Ponts : tubes[p] = "ouverts" <=> p = courant
  /\ \A p \in Ponts : tubes[p] = "attente" <=> pilote = "attend" /\ p = Lances
  /\ pilote \in {"lance", "attend"} => courant = 0
  /\ pilote = "attend" => Lances > 0

\* An epoch makes at most one bridge for each of its ends.
PontsAVenir ==
  /\ pilote \in {"demande", "lance"} /\ bout = "injecteur" => Lances + 2 <= MaxPonts
  /\ pilote \in {"demande", "lance"} /\ bout = "capteur" => Lances + 1 <= MaxPonts
  /\ pilote = "attend" /\ bout = "injecteur" => Lances + 1 <= MaxPonts

\* The injector of an epoch is on the current bridge, or on one that is cut; the capturer
\* of one that streams is on the current bridge.
BoutsRemis ==
  /\ \/ pilote \in {"demande", "lance", "attend"} /\ bout = "capteur"
     \/ pilote \in {"prepare", "diffuse", "joint"}
     => /\ remis["injecteur"] \in Ponts
        /\ remis["injecteur"] = courant \/ tubes[remis["injecteur"]] = "coupes"
  /\ pilote = "diffuse" => remis["capteur"] = courant /\ courant # 0
  /\ pilote = "prepare" => remis["capteur"] \in Ponts
  /\ injection # "absente" <=> pilote \in {"diffuse", "joint"}

\* The inductive invariant of the bridges.
PontInd == PontTypes /\ PontsRanges /\ PontsAVenir /\ BoutsRemis

\* The bridges are numbered.
LEMMA PontsEntiers ==
  /\ MaxPonts \in Nat \ {0} /\ FileTrames \in Nat \ {0} /\ TailleTube \in Nat \ {0}
  /\ Ponts \subseteq Nat \ {0} /\ IsFiniteSet(Ponts)
<1>1. MaxPonts \in Nat \ {0} /\ FileTrames \in Nat \ {0} /\ TailleTube \in Nat \ {0}
  BY PontAssumption DEF PontAssumption
<1>2. IsFiniteSet(1..MaxPonts)
  BY <1>1, FS_Interval
<1> QED
  BY <1>1, <1>2 DEF Ponts

\* The first bridges are as many as the last of them says.
LEMMA LancesDe ==
  ASSUME NEW n \in 0..MaxPonts, NEW t, \A p \in Ponts : t[p] # "absents" <=> p <= n
  PROVE  Cardinality({p \in Ponts : t[p] # "absents"}) = n
<1>1. {p \in Ponts : t[p] # "absents"} = 1..n
  BY PontsEntiers DEF Ponts
<1>2. Cardinality(1..n) = n
  BY FS_Interval, PontsEntiers
<1> QED
  BY <1>1, <1>2

\* How many were made.
LEMMA LancesBornes == Lances \in 0..MaxPonts
<1>1. PICK S \in SUBSET Ponts : S = {p \in Ponts : tubes[p] # "absents"}
  OBVIOUS
<1>2. Cardinality(S) \in Nat /\ Cardinality(S) <= Cardinality(Ponts)
  BY PontsEntiers, FS_Subset, FS_CardinalityType
<1>3. Cardinality(Ponts) = MaxPonts
  BY PontsEntiers, FS_Interval DEF Ponts
<1> QED
  BY <1>1, <1>2, <1>3, PontsEntiers DEF Lances

\* The steps that touch neither the host thread nor the pipes.
LEMMA PilotageIntact ==
  ASSUME PontInd, UNCHANGED <<service, tubes>>, PontTypes'
  PROVE  PontInd'
<1>1. Lances' = Lances
  BY DEF Lances, Ponts
<1>2. PontsRanges' /\ PontsAVenir'
  BY <1>1 DEF PontInd, PontsRanges, PontsAVenir, service, Ponts
<1>3. BoutsRemis'
  BY DEF PontInd, BoutsRemis, service, Ponts
<1> QED
  BY <1>2, <1>3 DEF PontInd

\* Nothing was started.
LEMMA PontDebut == InitA => PontInd
<1> SUFFICES ASSUME InitA PROVE PontInd
  OBVIOUS
<1>1. PontTypes
  <2>1. \A p \in Ponts : s2a[p] \in Seq({"touche", "relacher"}) /\ Len(s2a[p]) <= TailleTube
    <3>1. <<>> \in Seq({"touche", "relacher"}) /\ Len(<<>>) = 0
      BY EmptySeq
    <3> QED
      BY <3>1, PontsEntiers DEF InitA
  <2>2. s2a \in [Ponts -> Seq({"touche", "relacher"})]
    BY <2>1 DEF InitA
  <2>3. TypeA
    BY <2>1, PontsEntiers DEF InitA, TypeA, Bouts
  <2> QED
    BY <2>2, <2>3 DEF PontTypes
<1>2. Lances = 0
  <2>1. {p \in Ponts : tubes[p] # "absents"} = {}
    BY DEF InitA
  <2> QED
    BY <2>1, FS_EmptySet DEF Lances
<1>3. PontsRanges /\ PontsAVenir /\ BoutsRemis
  BY <1>2, PontsEntiers DEF InitA, PontsRanges, PontsAVenir, BoutsRemis
<1> QED
  BY <1>1, <1>3 DEF PontInd

-----------------------------------------------------------------------------
\* The reading thread and the assistant.
LEMMA AssistantPas ==
  ASSUME PontInd, NEW p \in Ponts,
         Lire(p) \/ PasAssistant(p) \/ VoirArret(p) \/ Tuer(p)
  PROVE  PontInd'
<1>1. PontTypes
  BY DEF PontInd
<1>2. UNCHANGED <<service, tubes>>
  BY DEF Lire, PasAssistant, Demarrer, Capturer, LireEntree, FinTube, VoirArret, Tuer
<1>3. file' \in [Ponts -> 0..FileTrames]
  <2>1. CASE Lire(p)
    <3>1. file' = file \/ file' = [file EXCEPT ![p] = IF file[p] < FileTrames THEN file[p] + 1 ELSE file[p]]
      BY <2>1 DEF Lire
    <3>2. (IF file[p] < FileTrames THEN file[p] + 1 ELSE file[p]) \in 0..FileTrames
      BY <1>1, PontsEntiers DEF PontTypes, TypeA
    <3> QED
      BY <3>1, <3>2, <1>1 DEF PontTypes, TypeA
  <2>2. CASE ~Lire(p)
    <3>1. file' = file
      BY <2>2 DEF PasAssistant, Demarrer, Capturer, LireEntree, FinTube, VoirArret, Tuer, lecteurs
    <3> QED
      BY <3>1, <1>1 DEF PontTypes, TypeA
  <2> QED
    BY <2>1, <2>2
<1>4. a2s' \in [Ponts -> 0..TailleTube]
  <2>1. CASE Lire(p) \/ Capturer(p)
    <3>1. \/ a2s' = a2s
          \/ a2s[p] > 0 /\ a2s' = [a2s EXCEPT ![p] = a2s[p] - 1]
          \/ a2s[p] < TailleTube /\ a2s' = [a2s EXCEPT ![p] = a2s[p] + 1]
      BY <2>1 DEF Lire, Capturer, FinCapture
    <3>2. a2s \in [Ponts -> 0..TailleTube] /\ a2s[p] \in 0..TailleTube
      BY <1>1 DEF PontTypes, TypeA
    <3>3. a2s[p] > 0 => a2s[p] - 1 \in 0..TailleTube
      BY <3>2, PontsEntiers
    <3>4. a2s[p] < TailleTube => a2s[p] + 1 \in 0..TailleTube
      BY <3>2, PontsEntiers
    <3> QED
      BY <3>1, <3>2, <3>3, <3>4
  <2>2. CASE ~(Lire(p) \/ Capturer(p))
    <3>1. a2s' = a2s
      BY <2>2 DEF PasAssistant, Demarrer, LireEntree, FinTube, VoirArret, Tuer
    <3> QED
      BY <3>1, <1>1 DEF PontTypes, TypeA
  <2> QED
    BY <2>1, <2>2
<1>5. /\ s2a' \in [Ponts -> Seq({"touche", "relacher"})]
      /\ \A q \in Ponts : Len(s2a'[q]) <= TailleTube
  <2>1. /\ s2a \in [Ponts -> Seq({"touche", "relacher"})]
        /\ \A q \in Ponts : Len(s2a[q]) <= TailleTube
    BY <1>1 DEF PontTypes, TypeA
  <2>2. CASE LireEntree(p)
    <3>1. s2a[p] # <<>> /\ s2a' = [s2a EXCEPT ![p] = Tail(s2a[p])]
      BY <2>2 DEF LireEntree
    <3>2. PICK s \in Seq({"touche", "relacher"}) : s = s2a[p]
      BY <2>1
    <3>3. Tail(s) \in Seq({"touche", "relacher"}) /\ Len(Tail(s)) = Len(s) - 1 /\ Len(s) \in Nat
      BY <3>1, <3>2, HeadTailProperties, LenProperties
    <3>4. PICK r \in Seq({"touche", "relacher"}) : r = Tail(s)
      BY <3>3
    <3>5. Len(r) <= TailleTube
      BY <2>1, <3>2, <3>3, <3>4, PontsEntiers
    <3>6. s2a' = [s2a EXCEPT ![p] = r]
      BY <3>1, <3>2, <3>4
    <3> QED
      BY <2>1, <3>5, <3>6
  <2>3. CASE ~LireEntree(p)
    <3>1. s2a' = s2a
      BY <2>3 DEF Lire, PasAssistant, Demarrer, Capturer, FinTube, VoirArret, Tuer
    <3> QED
      BY <2>1, <3>1
  <2> QED
    BY <2>2, <2>3
<1>6. vivant' \in [Ponts -> BOOLEAN] /\ recepteur' \in [Ponts -> {"pont", "capteur", "libere"}]
  BY <1>1 DEF PontTypes, TypeA, Lire, PasAssistant, Demarrer, Capturer, LireEntree, FinTube,
              VoirArret, Tuer, lecteurs
<1>7. saisie' \in [Ponts -> {"absente", "lancee", "connectee", "tourne", "ecrit", "finie"}]
  BY <1>1 DEF PontTypes, TypeA, Lire, PasAssistant, Demarrer, Capturer, FinCapture, LireEntree,
              FinTube, VoirArret, Tuer, assistant
<1>8. entrees' \in [Ponts -> {"absente", "lit", "finie"}]
  BY <1>1 DEF PontTypes, TypeA, Lire, PasAssistant, Demarrer, Capturer, LireEntree,
              FinTube, VoirArret, Tuer, FinEntrees, assistant
<1>9. arretA' \in [Ponts -> BOOLEAN]
  BY <1>1 DEF PontTypes, TypeA, Lire, PasAssistant, Demarrer, Capturer, FinCapture, LireEntree,
              FinTube, VoirArret, Tuer, FinEntrees, assistant
<1>10. enfoncee' \in [Ponts -> BOOLEAN]
  <2>1. \/ enfoncee' = enfoncee
        \/ \E b \in BOOLEAN : enfoncee' = [enfoncee EXCEPT ![p] = b]
    BY DEF Lire, PasAssistant, Demarrer, Capturer, LireEntree, FinTube, VoirArret, Tuer,
           FinEntrees, assistant
  <2> QED
    BY <1>1, <2>1 DEF PontTypes, TypeA
<1>11. tuees' \subseteq Ponts
  BY <1>1 DEF PontTypes, TypeA, Lire, PasAssistant, Demarrer, Capturer, LireEntree,
              FinTube, VoirArret, Tuer, assistant
<1>12. TypeA'
  BY <1>1, <1>2, <1>3, <1>4, <1>5, <1>6, <1>7, <1>8, <1>9, <1>10, <1>11
     DEF PontTypes, TypeA, service, Bouts, Ponts
<1> QED
  BY <1>2, <1>5, <1>12, PilotageIntact DEF PontTypes, Ponts

-----------------------------------------------------------------------------
\* The bridges made are still those.
LEMMA LancesPareil ==
  ASSUME \A p \in Ponts : tubes'[p] # "absents" <=> tubes[p] # "absents"
  PROVE  Lances' = Lances
<1>1. {p \in Ponts : tubes'[p] # "absents"} = {p \in Ponts : tubes[p] # "absents"}
  OBVIOUS
<1> QED
  BY <1>1 DEF Lances, Ponts

\* To stop the current bridge cuts it, and it alone.
LEMMA ArreterCourantPas ==
  ASSUME PontInd, ArreterCourant
  PROVE  /\ tubes' \in [Ponts -> {"absents", "attente", "ouverts", "coupes"}]
         /\ vivant' \in [Ponts -> BOOLEAN]
         /\ recepteur' \in [Ponts -> {"pont", "capteur", "libere"}]
         /\ a2s' \in [Ponts -> 0..TailleTube]
         /\ s2a' \in [Ponts -> Seq({"touche", "relacher"})]
         /\ \A p \in Ponts : Len(s2a'[p]) <= TailleTube
         /\ \A p \in Ponts : tubes'[p] = IF p = courant THEN "coupes" ELSE tubes[p]
         /\ Lances' = Lances
<1>1. PontTypes
  BY DEF PontInd
<1>2. \A p \in Ponts : tubes[p] = "ouverts" <=> p = courant
  BY DEF PontInd, PontsRanges
<1>3. CASE courant = 0
  <2>1. UNCHANGED <<tubes, vivant, recepteur, a2s, s2a>>
    BY <1>3 DEF ArreterCourant
  <2>2. \A p \in Ponts : p # courant
    BY <1>3, PontsEntiers
  <2> QED
    BY <1>1, <2>1, <2>2, LancesPareil DEF PontTypes, TypeA
<1>4. CASE courant # 0
  <2>1. courant \in Ponts /\ ArreterPont(courant)
    BY <1>1, <1>4, PontsEntiers DEF ArreterCourant, PontTypes, TypeA, Ponts
  <2>2. /\ tubes' \in [Ponts -> {"absents", "attente", "ouverts", "coupes"}]
        /\ \A p \in Ponts : tubes'[p] = IF p = courant THEN "coupes" ELSE tubes[p]
    BY <1>1, <2>1 DEF ArreterPont, PontTypes, TypeA
  <2>3. /\ vivant' \in [Ponts -> BOOLEAN]
        /\ recepteur' \in [Ponts -> {"pont", "capteur", "libere"}]
    BY <1>1, <2>1 DEF ArreterPont, PontTypes, TypeA
  <2>4. a2s' \in [Ponts -> 0..TailleTube]
    <3>1. a2s \in [Ponts -> 0..TailleTube] /\ 0 \in 0..TailleTube
      BY <1>1, PontsEntiers DEF PontTypes, TypeA
    <3> QED
      BY <2>1, <3>1 DEF ArreterPont
  <2>5. /\ s2a' \in [Ponts -> Seq({"touche", "relacher"})]
        /\ \A p \in Ponts : Len(s2a'[p]) <= TailleTube
    <3>1. PICK v \in Seq({"touche", "relacher"}) : v = <<>>
      BY EmptySeq
    <3>2. Len(v) <= TailleTube
      BY <3>1, EmptySeq, PontsEntiers
    <3>3. s2a' = [s2a EXCEPT ![courant] = v]
      BY <2>1, <3>1 DEF ArreterPont
    <3>4. /\ s2a \in [Ponts -> Seq({"touche", "relacher"})]
          /\ \A p \in Ponts : Len(s2a[p]) <= TailleTube
      BY <1>1 DEF PontTypes, TypeA
    <3> QED
      BY <3>2, <3>3, <3>4
  <2>6. Lances' = Lances
    BY <1>2, <2>2, LancesPareil
  <2> QED
    BY <2>2, <2>3, <2>4, <2>5, <2>6
<1> QED
  BY <1>3, <1>4

\* What is put in a pipe fits in it.
LEMMA TransmettreTypes ==
  ASSUME PontTypes, NEW p, NEW m \in {"touche", "relacher"}, Transmettre(p, m)
  PROVE  /\ s2a' \in [Ponts -> Seq({"touche", "relacher"})]
         /\ \A q \in Ponts : Len(s2a'[q]) <= TailleTube
<1>1. /\ s2a \in [Ponts -> Seq({"touche", "relacher"})]
      /\ \A q \in Ponts : Len(s2a[q]) <= TailleTube
  BY DEF PontTypes, TypeA
<1>2. CASE s2a' = s2a
  BY <1>1, <1>2
<1>3. CASE Len(s2a[p]) < TailleTube /\ s2a' = [s2a EXCEPT ![p] = Append(s2a[p], m)]
  <2>1. CASE p \in Ponts
    <3>1. PICK s \in Seq({"touche", "relacher"}) : s = s2a[p]
      BY <1>1, <2>1
    <3>2. /\ Append(s, m) \in Seq({"touche", "relacher"})
          /\ Len(Append(s, m)) = Len(s) + 1 /\ Len(s) \in Nat
      BY AppendProperties, LenProperties
    <3>3. PICK r \in Seq({"touche", "relacher"}) : r = Append(s, m)
      BY <3>2
    <3>4. Len(r) <= TailleTube
      BY <1>3, <3>1, <3>2, <3>3, PontsEntiers
    <3>5. s2a' = [s2a EXCEPT ![p] = r]
      BY <1>3, <3>1, <3>3
    <3> QED
      BY <1>1, <3>4, <3>5
  <2>2. CASE p \notin Ponts
    <3>1. s2a' = s2a
      BY <1>1, <1>3, <2>2
    <3> QED
      BY <1>1, <3>1
  <2> QED
    BY <2>1, <2>2
<1> QED
  BY <1>2, <1>3 DEF Transmettre

-----------------------------------------------------------------------------
\* An epoch begins.
LEMMA ServirEpoquePas == ASSUME PontInd, ServirEpoque PROVE PontInd'
<1>1. Lances' = Lances
  BY DEF ServirEpoque, Lances, Ponts
<1>2. PontTypes'
  BY DEF PontInd, PontTypes, TypeA, ServirEpoque, lecteurs, assistant, Bouts, Ponts
<1>3. PontsRanges'
  BY <1>1 DEF PontInd, PontsRanges, ServirEpoque, Ponts
<1>4. PontsAVenir'
  BY <1>1 DEF ServirEpoque, PontsAVenir
<1>5. BoutsRemis'
  BY DEF PontInd, BoutsRemis, ServirEpoque
<1> QED
  BY <1>2, <1>3, <1>4, <1>5 DEF PontInd

\* The current bridge serves for the end that is asked.
LEMMA ReutiliserPas == ASSUME PontInd, ReutiliserPont PROVE PontInd'
<1>1. Lances' = Lances
  BY DEF ReutiliserPont, Lances, Ponts
<1>2. courant \in Ponts /\ courant # 0 /\ bout \in Bouts
  BY PontsEntiers DEF PontInd, PontTypes, TypeA, ReutiliserPont, BesoinNeuf, Ponts
<1>3. remis' \in [Bouts -> 0..MaxPonts] /\ remis' = [remis EXCEPT ![bout] = courant]
  BY <1>2 DEF PontInd, PontTypes, TypeA, ReutiliserPont, Remettre
<1>4. PontTypes'
  <2>1. pris' \subseteq Bouts
    BY <1>2 DEF PontInd, PontTypes, TypeA, ReutiliserPont
  <2>2. recepteur' \in [Ponts -> {"pont", "capteur", "libere"}]
    BY <1>2 DEF PontInd, PontTypes, TypeA, ReutiliserPont
  <2>3. pilote' \in {"demande", "prepare"} /\ bout' \in Bouts
    BY <1>2 DEF ReutiliserPont, Remettre, Bouts
  <2> QED
    BY <1>3, <2>1, <2>2, <2>3
       DEF PontInd, PontTypes, TypeA, ReutiliserPont, assistant, Bouts, Ponts
<1>5. PontsRanges'
  BY <1>1 DEF PontInd, PontsRanges, ReutiliserPont, Remettre, Ponts
<1>6. PontsAVenir'
  BY <1>1, <1>2, LancesBornes, PontsEntiers
     DEF PontInd, PontsAVenir, ReutiliserPont, Remettre, Bouts
<1>7. BoutsRemis'
  <2>1. CASE bout = "injecteur"
    <3>1. remis'["injecteur"] = courant /\ pilote' = "demande"
      BY <1>3, <2>1 DEF ReutiliserPont, Remettre, PontInd, PontTypes, TypeA, Bouts
    <3> QED
      BY <1>2, <3>1 DEF BoutsRemis, PontInd, ReutiliserPont, Ponts
  <2>2. CASE bout = "capteur"
    <3>1. /\ remis'["injecteur"] = remis["injecteur"] /\ remis'["capteur"] = courant
          /\ pilote' = "prepare"
      BY <1>3, <2>2 DEF ReutiliserPont, Remettre, PontInd, PontTypes, TypeA, Bouts
    <3> QED
      BY <1>2, <2>2, <3>1 DEF BoutsRemis, PontInd, ReutiliserPont, Ponts
  <2> QED
    BY <1>2, <2>1, <2>2 DEF Bouts
<1> QED
  BY <1>4, <1>5, <1>6, <1>7 DEF PontInd

\* Another bridge is needed: the current one is stopped.
LEMMA RemplacerPas == ASSUME PontInd, RemplacerPont PROVE PontInd'
<1>1. ArreterCourant
  BY DEF RemplacerPont
<1>2. PontTypes'
  <2>1. /\ tubes' \in [Ponts -> {"absents", "attente", "ouverts", "coupes"}]
        /\ vivant' \in [Ponts -> BOOLEAN]
        /\ recepteur' \in [Ponts -> {"pont", "capteur", "libere"}]
        /\ a2s' \in [Ponts -> 0..TailleTube]
        /\ s2a' \in [Ponts -> Seq({"touche", "relacher"})]
        /\ \A p \in Ponts : Len(s2a'[p]) <= TailleTube
    BY <1>1, ArreterCourantPas
  <2>2. courant' \in 0..MaxPonts /\ pris' \subseteq Bouts
    BY PontsEntiers DEF RemplacerPont
  <2> QED
    BY <2>1, <2>2 DEF PontInd, PontTypes, TypeA, RemplacerPont, assistant, Bouts, Ponts
<1>3. /\ Lances' = Lances
      /\ \A p \in Ponts : tubes'[p] = IF p = courant THEN "coupes" ELSE tubes[p]
  BY <1>1, ArreterCourantPas
<1>4. PontsRanges'
  BY <1>3, PontsEntiers DEF PontInd, PontsRanges, RemplacerPont, Ponts
<1>5. PontsAVenir'
  BY <1>3 DEF PontInd, PontsAVenir, RemplacerPont
<1>6. BoutsRemis'
  BY <1>3 DEF PontInd, BoutsRemis, RemplacerPont, Ponts
<1> QED
  BY <1>2, <1>4, <1>5, <1>6 DEF PontInd

\* The next bridge is made.
LEMMA LancerPas == ASSUME PontInd, Lancer PROVE PontInd'
<1>1. /\ Lances + 1 \in Ponts /\ Lances \in Nat
      /\ bout = "injecteur" => Lances + 2 <= MaxPonts
  BY LancesBornes, PontsEntiers
     DEF PontInd, PontTypes, TypeA, PontsAVenir, Lancer, Bouts, Ponts
<1>2. PICK q \in Ponts : q = Lances + 1
  BY <1>1
<1>3. /\ tubes' = [tubes EXCEPT ![q] = "attente"] /\ saisie' = [saisie EXCEPT ![q] = "lancee"]
      /\ pilote' = "attend" /\ pilote = "lance"
  BY <1>2 DEF Lancer
<1>4. \A p \in Ponts : tubes'[p] = IF p = q THEN "attente" ELSE tubes[p]
  BY <1>3 DEF PontInd, PontTypes, TypeA
<1>5. Lances' = q
  <2>1. \A p \in Ponts : tubes[p] # "absents" <=> p <= Lances
    BY DEF PontInd, PontsRanges
  <2>2. q \in 0..MaxPonts
    BY PontsEntiers DEF Ponts
  <2>3. \A p \in Ponts : tubes'[p] # "absents" <=> p <= q
    BY <1>1, <1>2, <1>4, <2>1, PontsEntiers DEF Ponts
  <2>4. Cardinality({p \in Ponts : tubes'[p] # "absents"}) = q
    BY <2>2, <2>3, LancesDe
  <2> QED
    BY <2>4 DEF Lances, Ponts
<1>6. PontTypes'
  <2>1. tubes' \in [Ponts -> {"absents", "attente", "ouverts", "coupes"}]
    BY <1>3 DEF PontInd, PontTypes, TypeA
  <2>2. saisie' \in [Ponts -> {"absente", "lancee", "connectee", "tourne", "ecrit", "finie"}]
    BY <1>3 DEF PontInd, PontTypes, TypeA
  <2> QED
    BY <1>3, <2>1, <2>2 DEF PontInd, PontTypes, TypeA, Lancer, lecteurs, Bouts, Ponts
<1>7. PontsRanges'
  <2>1. \A p \in Ponts : tubes[p] # "absents" <=> p <= Lances
    BY DEF PontInd, PontsRanges
  <2>2. \A p \in Ponts : tubes'[p] # "absents" <=> p <= q
    BY <1>1, <1>2, <1>4, <2>1, PontsEntiers DEF Ponts
  <2>3. courant = 0 /\ courant' = 0
    BY <1>3 DEF Lancer, PontInd, PontsRanges
  <2>4. \A p \in Ponts : tubes[p] # "ouverts" /\ tubes[p] # "attente"
    BY <1>3, <2>3, PontsEntiers DEF PontInd, PontsRanges
  <2>5. \A p \in Ponts : p # 0
    BY PontsEntiers
  <2>6. q > 0
    BY PontsEntiers
  <2> QED
    BY <1>3, <1>4, <1>5, <2>2, <2>3, <2>4, <2>5, <2>6 DEF PontsRanges, Ponts
<1>8. PontsAVenir'
  <2>1. bout' = bout
    BY DEF Lancer
  <2>2. bout = "injecteur" => q + 1 <= MaxPonts
    BY <1>1, <1>2, PontsEntiers
  <2> QED
    BY <1>3, <1>5, <2>1, <2>2 DEF PontsAVenir
<1>9. BoutsRemis'
  <2>1. UNCHANGED <<remis, injection, courant, bout>>
    BY DEF Lancer
  <2>2. tubes[q] = "absents"
    BY <1>1, <1>2, LancesBornes, PontsEntiers DEF PontInd, PontsRanges, Ponts
  <2> QED
    BY <1>3, <1>4, <2>1, <2>2 DEF PontInd, BoutsRemis, Ponts
<1> QED
  BY <1>6, <1>7, <1>8, <1>9 DEF PontInd

\* The ends are dropped.
LEMMA LacherTypes ==
  ASSUME PontTypes, Lacher
  PROVE  /\ recepteur' \in [Ponts -> {"pont", "capteur", "libere"}]
         /\ remis' \in [Bouts -> 0..MaxPonts] /\ pilote' = "repos"
BY PontsEntiers DEF PontTypes, TypeA, Lacher

\* The host thread drops the ends, the bridges as they were.
LEMMA LacherPas ==
  ASSUME PontInd, Lacher, pilote # "attend", injection' = "absente",
         UNCHANGED <<bout, courant, pris, tubes, vivant, file, a2s, s2a, assistant>>
  PROVE  PontInd'
<1>1. Lances' = Lances
  BY DEF Lances, Ponts
<1>2. PontTypes /\ pilote' = "repos"
  BY LacherTypes DEF PontInd
<1>3. PontTypes'
  BY <1>2, LacherTypes DEF PontTypes, TypeA, assistant, Bouts, Ponts
<1>4. PontsRanges' /\ PontsAVenir'
  BY <1>1, <1>2 DEF PontInd, PontsRanges, PontsAVenir, Ponts
<1>5. BoutsRemis'
  BY <1>2 DEF BoutsRemis
<1> QED
  BY <1>3, <1>4, <1>5 DEF PontInd

\* The client that connected is gone.
LEMMA AbandonnerPas == ASSUME PontInd, AbandonnerAttente PROVE PontInd'
<1>1. PICK q : q = Lances
  OBVIOUS
<1>2. PontTypes /\ Lacher /\ pilote = "attend" /\ tubes' = [tubes EXCEPT ![q] = "coupes"]
  BY <1>1 DEF PontInd, AbandonnerAttente
<1>3. q \in Ponts /\ tubes[q] = "attente" /\ courant = 0 /\ courant' = 0
  BY <1>1, <1>2, LancesBornes, PontsEntiers
     DEF PontInd, PontsRanges, Ponts, AbandonnerAttente
<1>4. \A p \in Ponts : tubes'[p] = IF p = q THEN "coupes" ELSE tubes[p]
  BY <1>2 DEF PontTypes, TypeA
<1>5. Lances' = Lances
  BY <1>3, <1>4, LancesPareil
<1>6. tubes' \in [Ponts -> {"absents", "attente", "ouverts", "coupes"}]
  BY <1>2 DEF PontTypes, TypeA
<1>7. PontTypes'
  BY <1>2, <1>6, LacherTypes DEF PontTypes, TypeA, AbandonnerAttente, assistant, Bouts, Ponts
<1>8. pilote' = "repos" /\ injection' = "absente"
  BY <1>2, LacherTypes DEF AbandonnerAttente, PontInd, BoutsRemis, PontTypes, TypeA
<1>9. PontsRanges'
  <2>1. \A p \in Ponts : tubes'[p] # "attente" /\ tubes'[p] # "ouverts"
    BY <1>1, <1>2, <1>3, <1>4, PontsEntiers DEF PontInd, PontsRanges
  <2>2. \A p \in Ponts : p # 0
    BY PontsEntiers
  <2> QED
    BY <1>3, <1>4, <1>5, <1>8, <2>1, <2>2 DEF PontInd, PontsRanges, Ponts
<1>10. PontsAVenir' /\ BoutsRemis'
  BY <1>8 DEF PontsAVenir, BoutsRemis
<1> QED
  BY <1>7, <1>9, <1>10 DEF PontInd

\* The assistant has opened both pipes.
LEMMA ConnecterPas == ASSUME PontInd, Connecter PROVE PontInd'
<1>1. PICK q : q = Lances
  OBVIOUS
<1>2. /\ PontTypes /\ pilote = "attend" /\ tubes' = [tubes EXCEPT ![q] = "ouverts"]
      /\ vivant' = [vivant EXCEPT ![q] = TRUE]
      /\ recepteur' = [recepteur EXCEPT ![q] = IF bout = "capteur" THEN "capteur" ELSE "pont"]
      /\ saisie' = [saisie EXCEPT ![q] = "connectee"]
      /\ courant' = q /\ pris' = {bout} /\ Remettre(bout, q)
      /\ UNCHANGED <<injection, file, a2s, s2a, entrees, arretA, enfoncee, tuees>>
  BY <1>1 DEF PontInd, Connecter
<1>3. q \in Ponts /\ tubes[q] = "attente" /\ courant = 0 /\ bout \in Bouts
  BY <1>1, <1>2, LancesBornes, PontsEntiers
     DEF PontInd, PontsRanges, Ponts, PontTypes, TypeA
<1>4. \A p \in Ponts : tubes'[p] = IF p = q THEN "ouverts" ELSE tubes[p]
  BY <1>2 DEF PontTypes, TypeA
<1>5. Lances' = Lances
  BY <1>3, <1>4, LancesPareil
<1>6. remis' \in [Bouts -> 0..MaxPonts] /\ remis' = [remis EXCEPT ![bout] = q]
  BY <1>2, <1>3, PontsEntiers DEF PontTypes, TypeA, Remettre, Ponts
<1>7. PontTypes'
  <2>1. tubes' \in [Ponts -> {"absents", "attente", "ouverts", "coupes"}]
    BY <1>2 DEF PontTypes, TypeA
  <2>2. vivant' \in [Ponts -> BOOLEAN] /\ recepteur' \in [Ponts -> {"pont", "capteur", "libere"}]
    BY <1>2 DEF PontTypes, TypeA
  <2>3. saisie' \in [Ponts -> {"absente", "lancee", "connectee", "tourne", "ecrit", "finie"}]
    BY <1>2 DEF PontTypes, TypeA
  <2>4. courant' \in 0..MaxPonts /\ pris' \subseteq Bouts
    BY <1>2, <1>3, PontsEntiers DEF Ponts
  <2>5. pilote' \in {"demande", "prepare"} /\ bout' \in Bouts
    BY <1>2, <1>3 DEF Remettre, Bouts
  <2> QED
    BY <1>2, <1>6, <2>1, <2>2, <2>3, <2>4, <2>5 DEF PontTypes, TypeA, Bouts, Ponts
<1>8. pilote' \in {"demande", "prepare"}
  BY <1>2 DEF Remettre
<1>9. PontsRanges'
  <2>1. \A p \in Ponts : tubes'[p] # "attente"
    BY <1>1, <1>2, <1>3, <1>4 DEF PontInd, PontsRanges
  <2>2. \A p \in Ponts : tubes'[p] = "ouverts" <=> p = q
    BY <1>3, <1>4, PontsEntiers DEF PontInd, PontsRanges
  <2>3. \A p \in Ponts : tubes'[p] # "absents" <=> p <= Lances
    BY <1>3, <1>4 DEF PontInd, PontsRanges
  <2> QED
    BY <1>2, <1>5, <1>8, <2>1, <2>2, <2>3 DEF PontsRanges, Ponts
<1>10. PontsAVenir'
  BY <1>2, <1>3, <1>5 DEF PontInd, PontsAVenir, Remettre, Bouts
<1>11. BoutsRemis'
  <2>1. CASE bout = "injecteur"
    <3>1. remis'["injecteur"] = q /\ pilote' = "demande"
      BY <1>2, <1>6, <2>1 DEF Remettre, PontTypes, TypeA, Bouts
    <3> QED
      BY <1>2, <1>3, <3>1 DEF BoutsRemis, PontInd, Ponts
  <2>2. CASE bout = "capteur"
    <3>1. /\ remis'["injecteur"] = remis["injecteur"] /\ remis'["capteur"] = q
          /\ pilote' = "prepare"
      BY <1>2, <1>6, <2>2 DEF Remettre, PontTypes, TypeA, Bouts
    <3>2. remis["injecteur"] \in Ponts /\ tubes[remis["injecteur"]] = "coupes"
      BY <1>2, <1>3, <2>2, PontsEntiers DEF PontInd, BoutsRemis
    <3>3. tubes'[remis["injecteur"]] = "coupes"
      BY <1>3, <1>4, <3>2
    <3> QED
      BY <1>2, <1>3, <3>1, <3>2, <3>3 DEF BoutsRemis, PontInd, Ponts
  <2> QED
    BY <1>3, <2>1, <2>2 DEF Bouts
<1> QED
  BY <1>7, <1>9, <1>10, <1>11 DEF PontInd

\* The epoch streams, if the pipe of the capturer is open; or it is dropped.
LEMMA PreparerPas == ASSUME PontInd, Preparer PROVE PontInd'
<1>1. pilote = "prepare" /\ injection = "absente"
  BY DEF Preparer, PontInd, BoutsRemis
<1>2. CASE Lacher /\ UNCHANGED injection
  BY <1>1, <1>2, LacherPas DEF Preparer
<1>3. CASE /\ tubes[remis["capteur"]] = "ouverts" /\ pilote' = "diffuse" /\ injection' = "tourne"
           /\ UNCHANGED <<remis, recepteur>>
  <2>1. Lances' = Lances
    BY DEF Preparer, Lances, Ponts
  <2>2. PontTypes'
    BY <1>3 DEF PontInd, PontTypes, TypeA, Preparer, assistant, Bouts, Ponts
  <2>3. PontsRanges' /\ PontsAVenir'
    BY <1>1, <1>3, <2>1 DEF PontInd, PontsRanges, PontsAVenir, Preparer, Ponts
  <2>4. remis["capteur"] \in Ponts /\ remis["capteur"] = courant /\ courant # 0
    BY <1>1, <1>3, PontsEntiers DEF PontInd, PontsRanges, BoutsRemis
  <2>5. BoutsRemis'
    BY <1>1, <1>3, <2>4 DEF PontInd, BoutsRemis, Preparer, Ponts
  <2> QED
    BY <2>2, <2>3, <2>5 DEF PontInd
<1> QED
  BY <1>2, <1>3 DEF Preparer

\* The streaming loop takes a frame, or ends.
LEMMA DiffusionPas == ASSUME PontInd, TrameSuivante \/ FinDiffusion PROVE PontInd'
<1>1. /\ pilote = "diffuse" /\ pilote' \in {"diffuse", "joint"}
      /\ UNCHANGED <<bout, courant, pris, remis, injection, tubes, vivant, recepteur, a2s, s2a,
                     assistant>>
  BY DEF TrameSuivante, FinDiffusion, lecteurs
<1>2. Lances' = Lances
  BY <1>1 DEF Lances, Ponts
<1>3. file' \in [Ponts -> 0..FileTrames]
  <2>1. file \in [Ponts -> 0..FileTrames] /\ remis["capteur"] \in Ponts
    <3>1. remis["capteur"] = courant /\ courant # 0
      BY <1>1 DEF PontInd, BoutsRemis
    <3>2. courant \in 0..MaxPonts /\ file \in [Ponts -> 0..FileTrames]
      BY DEF PontInd, PontTypes, TypeA
    <3> QED
      BY <3>1, <3>2, PontsEntiers DEF Ponts
  <2>2. \/ file' = file
        \/ /\ file[remis["capteur"]] > 0
           /\ file' = [file EXCEPT ![remis["capteur"]] = file[remis["capteur"]] - 1]
    BY DEF TrameSuivante, FinDiffusion, lecteurs
  <2>3. file[remis["capteur"]] > 0 => file[remis["capteur"]] - 1 \in 0..FileTrames
    <3>1. PICK k \in 0..FileTrames : k = file[remis["capteur"]]
      BY <2>1
    <3>2. k > 0 => k - 1 \in 0..FileTrames
      BY PontsEntiers
    <3> QED
      BY <3>1, <3>2
  <2> QED
    BY <2>1, <2>2, <2>3
<1>4. PontTypes'
  BY <1>1, <1>3 DEF PontInd, PontTypes, TypeA, assistant, Bouts, Ponts
<1>5. PontsRanges' /\ PontsAVenir'
  BY <1>1, <1>2 DEF PontInd, PontsRanges, PontsAVenir, Ponts
<1>6. BoutsRemis'
  BY <1>1 DEF PontInd, BoutsRemis, Ponts
<1> QED
  BY <1>4, <1>5, <1>6 DEF PontInd

\* The thread that injects sends, and ends.
LEMMA InjectionPas == ASSUME PontInd, Appuyer \/ FinInjection PROVE PontInd'
<1>1. PICK m \in {"touche", "relacher"} : Transmettre(remis["injecteur"], m)
  BY DEF Appuyer, FinInjection
<1>2. /\ s2a' \in [Ponts -> Seq({"touche", "relacher"})]
      /\ \A q \in Ponts : Len(s2a'[q]) <= TailleTube
  BY <1>1, TransmettreTypes DEF PontInd
<1>3. /\ injection = "tourne" /\ injection' \in {"tourne", "finie"}
      /\ UNCHANGED <<pilote, bout, courant, pris, remis, tubes, lecteurs, a2s, assistant>>
  BY DEF Appuyer, FinInjection, service
<1>4. PontTypes'
  BY <1>2, <1>3 DEF PontInd, PontTypes, TypeA, lecteurs, assistant, Bouts, Ponts
<1>5. Lances' = Lances
  BY <1>3 DEF Lances, Ponts
<1>6. PontsRanges' /\ PontsAVenir'
  BY <1>3, <1>5 DEF PontInd, PontsRanges, PontsAVenir, Ponts
<1>7. BoutsRemis'
  BY <1>3 DEF PontInd, BoutsRemis, Ponts
<1> QED
  BY <1>4, <1>6, <1>7 DEF PontInd

\* The service stops, and its bridge with it.
LEMMA ArreterServicePas == ASSUME PontInd, ArreterService PROVE PontInd'
<1>1. ArreterCourant /\ pilote' = "arrete" /\ courant' = 0 /\ injection' = "absente"
  BY DEF ArreterService, PontInd, BoutsRemis, PontTypes, TypeA
<1>2. PontTypes'
  <2>1. /\ tubes' \in [Ponts -> {"absents", "attente", "ouverts", "coupes"}]
        /\ vivant' \in [Ponts -> BOOLEAN]
        /\ recepteur' \in [Ponts -> {"pont", "capteur", "libere"}]
        /\ a2s' \in [Ponts -> 0..TailleTube]
        /\ s2a' \in [Ponts -> Seq({"touche", "relacher"})]
        /\ \A p \in Ponts : Len(s2a'[p]) <= TailleTube
    BY <1>1, ArreterCourantPas
  <2>2. courant' \in 0..MaxPonts /\ pris' \subseteq Bouts
    BY PontsEntiers DEF ArreterService
  <2> QED
    BY <2>1, <2>2 DEF PontInd, PontTypes, TypeA, ArreterService, assistant, Bouts, Ponts
<1>3. /\ Lances' = Lances
      /\ \A p \in Ponts : tubes'[p] = IF p = courant THEN "coupes" ELSE tubes[p]
  BY <1>1, ArreterCourantPas
<1>4. PontsRanges'
  BY <1>1, <1>3, PontsEntiers DEF PontInd, PontsRanges, ArreterService, Ponts
<1>5. PontsAVenir' /\ BoutsRemis'
  BY <1>1 DEF PontsAVenir, BoutsRemis
<1> QED
  BY <1>2, <1>4, <1>5 DEF PontInd

\* Every step of the bridges.
LEMMA PontPas == PontInd /\ (NextA \/ UNCHANGED varsA) => PontInd'
<1> SUFFICES ASSUME PontInd, NextA \/ UNCHANGED varsA PROVE PontInd'
  OBVIOUS
<1>1. CASE UNCHANGED varsA
  <2>1. PontTypes'
    BY <1>1 DEF PontInd, PontTypes, TypeA, varsA, Ponts, Bouts
  <2> QED
    BY <1>1, <2>1, PilotageIntact DEF varsA, service
<1>2. CASE ServirEpoque
  BY <1>2, ServirEpoquePas
<1>3. CASE ArreterService
  BY <1>3, ArreterServicePas
<1>4. CASE ReutiliserPont
  BY <1>4, ReutiliserPas
<1>5. CASE RemplacerPont
  BY <1>5, RemplacerPas
<1>6. CASE Lancer
  BY <1>6, LancerPas
<1>7. CASE EchouerLancement
  <2>1. injection' = "absente" /\ pilote = "lance"
    BY <1>7 DEF EchouerLancement, PontInd, BoutsRemis, PontTypes, TypeA
  <2> QED
    BY <1>7, <2>1, LacherPas DEF EchouerLancement
<1>8. CASE Connecter
  BY <1>8, ConnecterPas
<1>9. CASE Preparer
  BY <1>9, PreparerPas
<1>10. CASE FinEpoque
  BY <1>10, LacherPas DEF FinEpoque
<1>11. CASE AbandonnerAttente
  BY <1>11, AbandonnerPas
<1>12. CASE TrameSuivante \/ FinDiffusion
  BY <1>12, DiffusionPas
<1>13. CASE Appuyer \/ FinInjection
  BY <1>13, InjectionPas
<1>14. CASE \E p \in Ponts : Lire(p) \/ PasAssistant(p) \/ VoirArret(p) \/ Tuer(p)
  BY <1>14, AssistantPas
<1> QED
  BY <1>1, <1>2, <1>3, <1>4, <1>5, <1>6, <1>7, <1>8, <1>9, <1>10, <1>11, <1>12, <1>13, <1>14
     DEF NextA, PasPilote

\* What follows from it.
LEMMA PontBilan == PontInd => TypeA /\ UnPontOuvert
<1> SUFFICES ASSUME PontInd PROVE TypeA /\ UnPontOuvert
  OBVIOUS
<1>1. TypeA
  BY DEF PontInd, PontTypes
<1>2. PICK S : S = {p \in Ponts : tubes[p] \in {"attente", "ouverts"}}
  OBVIOUS
<1>3. Cardinality(S) <= 1
  <2>1. CASE \E x : S = {x}
    <3>1. PICK x : S = {x}
      BY <2>1
    <3>2. Cardinality({x}) = 1
      BY FS_Singleton
    <3> QED
      BY <3>1, <3>2
  <2>2. CASE S = {}
    <3>1. Cardinality(S) = 0
      BY <2>2, FS_EmptySet
    <3> QED
      BY <3>1
  <2>3. \A x, y \in S : x = y
    <3>1. CASE pilote = "attend"
      BY <1>2, <3>1, PontsEntiers DEF PontInd, PontsRanges
    <3>2. CASE pilote # "attend"
      BY <1>2, <3>2 DEF PontInd, PontsRanges
    <3> QED
      BY <3>1, <3>2
  <2>4. S # {} => \E x : S = {x}
    BY <2>3
  <2> QED
    BY <2>1, <2>2, <2>4
<1>4. pilote = "diffuse" =>
        /\ tubes[remis["capteur"]] = "ouverts"
        /\ remis["injecteur"] \in {remis["capteur"]} \cup {p \in Ponts : tubes[p] = "coupes"}
  <2> SUFFICES ASSUME pilote = "diffuse"
               PROVE  /\ tubes[remis["capteur"]] = "ouverts"
                      /\ remis["injecteur"] \in {remis["capteur"]}
                                              \cup {p \in Ponts : tubes[p] = "coupes"}
    OBVIOUS
  <2>1. /\ remis["capteur"] = courant /\ courant # 0 /\ remis["injecteur"] \in Ponts
        /\ remis["injecteur"] = courant \/ tubes[remis["injecteur"]] = "coupes"
    BY DEF PontInd, BoutsRemis
  <2>2. courant \in Ponts
    BY <1>1, <2>1, PontsEntiers DEF TypeA, Ponts
  <2>3. tubes[courant] = "ouverts"
    BY <2>2 DEF PontInd, PontsRanges
  <2> QED
    BY <2>1, <2>3
<1> QED
  BY <1>1, <1>2, <1>3, <1>4 DEF UnPontOuvert

-----------------------------------------------------------------------------
(* The composition: a step is of one bench and leaves the others alone. *)

\* Of the datagrams.
LEMMA PasDatagrammes == [Next]_vars => NextD \/ UNCHANGED varsD
BY DEF Next, vars

\* Of the transparent reconnection; and no step changes the mode of the session.
LEMMA PasReprise == [Next]_vars => (NextR \/ UNCHANGED varsR) /\ UNCHANGED mode
BY DEF Next, vars, bancs, NextD, NextR, NextRel, NextRv, NextApi, NextC, NextA

\* Of the relay.
LEMMA PasRelais == [Next]_vars => NextRel \/ UNCHANGED varsRel
BY DEF Next, vars

\* Of the meeting.
LEMMA PasRendezvous == [Next]_vars => NextRv \/ UNCHANGED varsRv
BY DEF Next, vars

\* Of the accounts.
LEMMA PasComptes == [Next]_vars => NextC \/ UNCHANGED varsC
BY DEF Next, vars

\* Of the administration API.
LEMMA PasApi == [Next]_vars => NextApi \/ UNCHANGED varsApi
BY DEF Next, vars

\* Of the bridges.
LEMMA PasPonts == [Next]_vars => NextA \/ UNCHANGED varsA
BY DEF Next, vars

\* The invariant of the datagrams holds all along.
LEMMA DatagrammesToujours == Spec => []DatInd
<1>1. Init => DatInd
  BY DatDebut DEF Init
<1>2. DatInd /\ [Next]_vars => DatInd'
  BY PasDatagrammes, DatPas
<1> QED
  BY <1>1, <1>2, PTL DEF Spec

\* The invariant of the transparent reconnection holds all along.
LEMMA RepriseToujours == Spec => []RepInd
<1>1. Init => RepInd
  BY RepDebut DEF Init
<1>2. RepInd /\ [Next]_vars => RepInd'
  BY PasReprise, RepPas
<1> QED
  BY <1>1, <1>2, PTL DEF Spec

\* The policy of the session is one of those, for good.
LEMMA PolitiqueToujours == Spec => [](politique \in Politiques)
<1>1. Init => politique \in Politiques
  <2>1. (CHOOSE x \in Politiques : TRUE) \in Politiques
    BY TransportReprisAssumption DEF TransportReprisAssumption
  <2> QED
    BY <2>1 DEF Init, InitR, Sur
<1>2. politique \in Politiques /\ [Next]_vars => (politique \in Politiques)'
  BY DEF Next, vars, varsR, NextR
<1> QED
  BY <1>1, <1>2, PTL DEF Spec

\* The invariant of the relay holds all along.
LEMMA RelaisToujours == Spec => []RelInd
<1>1. Init => RelInd
  BY RelDebut DEF Init
<1>2. RelInd /\ [Next]_vars => RelInd'
  BY PasRelais, RelPas
<1> QED
  BY <1>1, <1>2, PTL DEF Spec

\* The invariant of the meeting holds all along.
LEMMA RendezvousToujours == Spec => []RvInd
<1>1. Init => RvInd
  BY RvDebut DEF Init
<1>2. RvInd /\ [Next]_vars => RvInd'
  BY PasRendezvous, RvPas
<1> QED
  BY <1>1, <1>2, PTL DEF Spec

\* The invariant of the accounts holds all along.
LEMMA ComptesToujours == Spec => []ComptesInd
<1>1. Init => ComptesInd
  BY ComptesDebut DEF Init
<1>2. ComptesInd /\ [Next]_vars => ComptesInd'
  BY PasComptes, ComptesPas
<1> QED
  BY <1>1, <1>2, PTL DEF Spec

\* The invariant of the administration API holds all along.
LEMMA ApiToujours == Spec => []ApiInd
<1>1. Init => ApiInd
  BY ApiInit DEF Init
<1>2. ApiInd /\ [Next]_vars => ApiInd'
  BY PasApi, ApiPas
<1> QED
  BY <1>1, <1>2, PTL DEF Spec

\* The invariant of the bridges holds all along.
LEMMA PontsToujours == Spec => []PontInd
<1>1. Init => PontInd
  BY PontDebut DEF Init
<1>2. PontInd /\ [Next]_vars => PontInd'
  BY PasPonts, PontPas
<1> QED
  BY <1>1, <1>2, PTL DEF Spec

-----------------------------------------------------------------------------
\* The state of every bench is of the declared types, whichever bench the run chose: no two
\* peers wait at the relay with one ticket, the reassembler never holds more frames than
\* allowed and its order names exactly those it holds (absorber, appairer, traiter_tour).
THEOREM TypesToujours == Spec => []TypeOK
<1>1. DatInd => TypeD
  BY DatBilan
<1>2. RepInd /\ politique \in Politiques => TypeR
  BY RepBilan
<1>3. RelInd => TypeRel
  BY RelBilan
<1>4. RvInd => TypeRv
  BY DEF RvInd
<1>5. ComptesInd => TypeC
  BY ComptesBilan
<1>6. ApiInd => TypeApi
  BY ApiBilan
<1>7. PontInd => TypeA
  BY PontBilan
<1>8. TypeD /\ TypeR /\ TypeRel /\ TypeRv /\ TypeApi /\ TypeC /\ TypeA => TypeOK
  BY DEF TypeOK
<1> QED
  BY <1>1, <1>2, <1>3, <1>4, <1>5, <1>6, <1>7, <1>8, DatagrammesToujours, RepriseToujours,
     PolitiqueToujours, RelaisToujours, RendezvousToujours, ComptesToujours, ApiToujours, PontsToujours, PTL

\* Whatever is lost, repeated or out of order: while fewer frames than the reassembler can
\* hold were opened since its first fragment, a frame has been delivered exactly once if
\* enough of its fragments came, and not at all otherwise (Reassembleur::absorber).
THEOREM LivraisonToujoursExacte == Spec => []LivraisonExacte
<1>1. DatInd => LivraisonExacte
  BY DatBilan
<1> QED
  BY <1>1, DatagrammesToujours, PTL

\* Whatever breaks, whichever thread connects again and in whatever order the threads open
\* their channels, a handle keeps naming the channel of the kind it was opened for in an
\* extended session (ReconnectingTransport::open_channel, rouvrir_canaux).
THEOREM PoigneesToujoursStables == Spec => []PoigneesStables
<1>1. RepInd => PoigneesStables
  BY RepBilan
<1> QED
  BY <1>1, RepriseToujours, PTL

\* The counters of the relay are exact: an address is charged the connections that hold a
\* place of it, no more and no fewer, and the pairs counted are the pairs relayed, whoever
\* closes, in which order, and however the waiting ones are swept (GardeIp, GardePaire).
THEOREM ComptesToujoursJustes == Spec => []ComptesJustes
<1>1. RelInd => ComptesJustes
  BY DEF RelInd
<1> QED
  BY <1>1, RelaisToujours, PTL

\* The service has at most one bridge open or awaited, and an epoch that streams films
\* through it: the inputs reach the assistant that is filmed, or none (assurer_pont,
\* arreter_interne, derouler_epoque_hote_ext).
THEOREM UnPontOuvertToujours == Spec => []UnPontOuvert
<1>1. PontInd => UnPontOuvert
  BY PontBilan
<1> QED
  BY <1>1, PontsToujours, PTL

\* Whatever requests run together, writes fail or stops occur, no login received after the
\* answer to an activation of the second factor passes by the password alone, and the
\* sessions of one subject of the provider are all of one account (login, enable_2fa,
\* FluxOidc::rappel, link_oidc).
THEOREM SessionsToujoursFondees == Spec => [](TypeC /\ SessionsFondees)
<1>1. ComptesInd => TypeC /\ SessionsFondees
  BY ComptesBilan
<1> QED
  BY <1>1, ComptesToujours, PTL

\* An e-mail never has more failed attempts in a row than the threshold and the requests
\* that had passed the check of the block (connexion_bloquee, consigner_echec_connexion).
THEOREM EchecsToujoursBornes == Spec => []EchecsBornes
<1>1. ComptesInd => EchecsBornes
  BY ComptesBilan
<1> QED
  BY <1>1, ComptesToujours, PTL

\* A save of the administration API, whatever older picture it writes, loses nothing that
\* was answered Ok before its request came; an id is given twice only when the first was lost
\* in a stop (persister, sauvegarder, AllocateurId::allouer).
THEOREM PersistanceToujoursSuivie == Spec => [](TypeApi /\ PersistanceSuivie)
<1>1. ApiInd => TypeApi /\ PersistanceSuivie
  BY ApiBilan
<1> QED
  BY <1>1, ApiToujours, PTL

=============================================================================
