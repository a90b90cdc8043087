-------------------------- MODULE DistantFs_proofs --------------------------
(***************************************************************************)
(* Proofs about an extended session: the link and its permissions, which   *)
(* every feature shares, then the listings and the downloads.  The         *)
(* theorems of the whole session are in SessionFeatures_proofs.            *)
(*                                                                         *)
(* What a session is used for does not change, and each use has its        *)
(* inductive invariant.  A frame on its way, an answer to be sent and one  *)
(* left in the table are described by sets that depend on the state: a     *)
(* step keeps its queues in these sets, and shows the sets of the next     *)
(* state to hold what they carry.                                          *)
(***************************************************************************)
EXTENDS DistantFs, SequenceTheorems, WellFoundedInduction, TLAPS

-----------------------------------------------------------------------------
(***************************************************************************)
(* The link.                                                               *)
(***************************************************************************)
MajDe(u)   == [type : {"MajPermissions"}, bits : SUBSET CapacitesDe[u]]
\* The frames that carry permissions, in a session used for u.
PermsDe(u) == [type : {"Permissions"}, bits : SUBSET CapacitesDe[u]]

\* The link of a session used for u, whose features send the frames T and the commands K.
LienInd(T, K, u) ==
  /\ usage = u
  /\ ouvert \in BOOLEAN
  /\ fils \in SUBSET Cotes
  /\ epoque \in 1..MaxEpoques
  /\ canal \in [Cotes -> Seq(T \cup PermsDe(u))]
  /\ commandes \in [Cotes -> Seq(K \cup MajDe(u))]
  /\ perms \in [Cotes -> SUBSET CapacitesDe[u]]
  /\ voulues \in SUBSET CapacitesDe[u]
  /\ changements \in [Cotes -> 0..MaxChangements]
  /\ ~ouvert => canal = [c \in Cotes |-> <<>>]

\* A frame that is sent goes to the end of the channel of the other side, if the link is up.
LEMMA EmettreType ==
  ASSUME NEW CONSTANT S, canal \in [Cotes -> Seq(S)], ouvert \in BOOLEAN,
         NEW c \in Cotes, NEW t \in S, Emettre(c, t)
  PROVE  /\ canal' \in [Cotes -> Seq(S)]
         /\ ouvert => canal'[Autre(c)] = Append(canal[Autre(c)], t) /\ canal'[c] = canal[c]
         /\ ~ouvert => canal' = canal
<1>1. Autre(c) \in Cotes /\ Autre(c) # c
  BY DEF Autre, Cotes
<1>2. canal[Autre(c)] \in Seq(S)
  BY <1>1
<1>3. Append(canal[Autre(c)], t) \in Seq(S)
  BY <1>2, AppendProperties
<1> QED
  BY <1>1, <1>3 DEF Emettre

\* A frame that is received leaves the front of its channel.
LEMMA RecevoirType ==
  ASSUME NEW CONSTANT S, canal \in [Cotes -> Seq(S)],
         NEW c \in Cotes, NEW type, Recevoir(c, type)
  PROVE  /\ canal' \in [Cotes -> Seq(S)]
         /\ canal[c] # <<>> /\ Trame(c) \in S /\ Trame(c).type = type
         /\ canal'[c] = Tail(canal[c]) /\ canal'[Autre(c)] = canal[Autre(c)]
<1>1. Autre(c) \in Cotes /\ Autre(c) # c
  BY DEF Autre, Cotes
<1>2. canal[c] \in Seq(S) /\ canal[c] # <<>>
  BY DEF Recevoir
<1>3. Head(canal[c]) \in S /\ Tail(canal[c]) \in Seq(S)
  BY <1>2, HeadTailProperties
<1> QED
  BY <1>1, <1>2, <1>3 DEF Recevoir, Trame

\* A command goes into the queue.
LEMMA CommanderType ==
  ASSUME NEW CONSTANT S, commandes \in [Cotes -> Seq(S)],
         NEW c \in Cotes, NEW k \in S, Commander(c, k)
  PROVE  commandes' \in [Cotes -> Seq(S)]
<1>1. Append(commandes[c], k) \in Seq(S)
  BY AppendProperties
<1> QED
  BY <1>1 DEF Commander

\* The emitting thread takes a command from the front of the queue.
LEMMA PrendreType ==
  ASSUME NEW CONSTANT S, commandes \in [Cotes -> Seq(S)],
         NEW c \in Cotes, NEW type, Prendre(c, type)
  PROVE  commandes' \in [Cotes -> Seq(S)] /\ Commande(c) \in S /\ Commande(c).type = type
<1>1. commandes[c] \in Seq(S) /\ commandes[c] # <<>>
  BY DEF Prendre
<1>2. Head(commandes[c]) \in S /\ Tail(commandes[c]) \in Seq(S)
  BY <1>1, HeadTailProperties
<1> QED
  BY <1>1, <1>2 DEF Prendre, Commande

\* The link of a new session.
LEMMA LienDebut ==
  ASSUME NEW CONSTANT T, NEW CONSTANT K, InitLien
  PROVE  LienInd(T, K, usage)
<1>1. \A S : <<>> \in Seq(S)
  OBVIOUS
<1> QED
  BY <1>1, EtendueAssumption DEF LienInd, InitLien, Capacites, Cotes

\* A cut, an end of threads, a new epoch, a change of permissions keep the types of the link.
LEMMA LienPas ==
  ASSUME NEW CONSTANT T, NEW CONSTANT K, NEW CONSTANT u,
         \A t \in T : t.type # "Permissions", \A k \in K : k.type # "MajPermissions",
         u \in Usages,
         LienInd(T, K, u), NextLien \/ NextPermissions
  PROVE  LienInd(T, K, u)'
<1> DEFINE S == T \cup PermsDe(u)
           C == K \cup MajDe(u)
<1>1. canal \in [Cotes -> Seq(S)] /\ commandes \in [Cotes -> Seq(C)] /\ ouvert \in BOOLEAN
  BY DEF LienInd
<1> HIDE DEF S, C
<1>2. CASE Couper
  <2>1. canal' \in [Cotes -> Seq(S)]
    BY <1>2, EmptySeq DEF Couper
  <2> QED
    BY <1>2, <2>1 DEF Couper, LienInd, S
<1>3. CASE Rouvrir
  BY <1>3, EtendueAssumption DEF Rouvrir, LienInd
<1>4. ASSUME NEW c \in Cotes, Terminer(c)
      PROVE  LienInd(T, K, u)'
  BY <1>4 DEF Terminer, LienInd
<1>5. ASSUME NEW c \in Cotes, NEW cap \in BasculablesDe[usage], DefinirPermission(c, cap)
      PROVE  LienInd(T, K, u)'
  <2> DEFINE b == Accorder(perms[c], cap, cap \notin voulues)
  <2>1. cap \in CapacitesDe[u]
    BY EtendueAssumption DEF LienInd
  <2>2. b \in SUBSET CapacitesDe[u] /\ Accorder(voulues, cap, cap \notin voulues) \in SUBSET CapacitesDe[u]
    BY <2>1 DEF LienInd, Accorder
  <2>3. [type |-> "MajPermissions", bits |-> b] \in C
    BY <2>2 DEF C, MajDe
  <2>4. commandes' \in [Cotes -> Seq(C)]
    BY <1>1, <1>5, <2>3, CommanderType DEF DefinirPermission
  <2>5. changements' \in [Cotes -> 0..MaxChangements]
    BY <1>5, EtendueAssumption DEF DefinirPermission, LienInd, Cotes
  <2> QED
    BY <1>5, <2>2, <2>4, <2>5 DEF DefinirPermission, LienInd, C
<1>6. ASSUME NEW c \in Cotes, AppliquerPermissions(c)
      PROVE  LienInd(T, K, u)'
  <2>1. commandes' \in [Cotes -> Seq(C)] /\ Commande(c) \in C /\ Commande(c).type = "MajPermissions"
    BY <1>1, <1>6, PrendreType DEF AppliquerPermissions
  <2>2. Commande(c).bits \in SUBSET CapacitesDe[u]
    BY <2>1 DEF C, MajDe
  <2>3. [type |-> "Permissions", bits |-> Commande(c).bits] \in S
    BY <2>2 DEF S, PermsDe
  <2>4. canal' \in [Cotes -> Seq(S)] /\ (~ouvert => canal' = canal)
    <3>1. CASE c = "Controller"
      BY <1>1, <1>6, <2>3, <3>1, EmettreType DEF AppliquerPermissions
    <3>2. CASE c # "Controller"
      BY <1>1, <1>6, <3>2 DEF AppliquerPermissions
    <3> QED
      BY <3>1, <3>2
  <2> QED
    BY <1>6, <2>1, <2>2, <2>4 DEF AppliquerPermissions, LienInd, S, C
<1>7. ASSUME NEW c \in Cotes, RecevoirPermissions(c)
      PROVE  LienInd(T, K, u)'
  <2>1. /\ canal' \in [Cotes -> Seq(S)]
        /\ canal[c] # <<>> /\ Trame(c) \in S /\ Trame(c).type = "Permissions"
    BY <1>1, <1>7, RecevoirType DEF RecevoirPermissions
  <2>2. Trame(c).bits \in SUBSET CapacitesDe[u]
    BY <2>1 DEF S, PermsDe
  <2>3. ouvert
    BY <2>1 DEF LienInd
  <2> QED
    BY <1>7, <2>1, <2>2, <2>3 DEF RecevoirPermissions, LienInd, S
<1> QED
  BY <1>2, <1>3, <1>4, <1>5, <1>6, <1>7 DEF NextLien, NextPermissions, FilsPermissions

\* The least number principle.
LEMMA PlusPetit ==
  ASSUME NEW S \in SUBSET Nat, S # {}
  PROVE  \E m \in S : \A k \in S : m <= k
<1>1. PICK m \in S : \A y \in S : <<y, m>> \notin OpToRel(<, Nat)
  BY WFMin, NatLessThanWellFounded, Zenon
<1>2. \A y \in S : y \in Nat /\ m \in Nat
  OBVIOUS
<1>3. \A y \in S : ~(y < m)
  BY <1>1, <1>2 DEF OpToRel
<1> QED
  BY <1>2, <1>3

\* A sequence of elements of T.
LEMMA SuiteDans ==
  ASSUME NEW S, NEW T, NEW s \in Seq(S), \A i \in 1..Len(s) : s[i] \in T
  PROVE  s \in Seq(T)
OBVIOUS

\* Purger keeps answers of the table, none with that key.
LEMMA PurgerGarde ==
  ASSUME NEW S, NEW table \in Seq(S), NEW cle
  PROVE  /\ Purger(table, cle) \in Seq({r \in S : r.cle # cle})
         /\ Len(Purger(table, cle)) <= Len(table)
<1> DEFINE n == Len(table)
           T == {r \in S : r.cle # cle}
           A(g, i) == IF i = 1 THEN <<>> ELSE g[i - 1]
           F(g, i) == IF table[i].cle = cle THEN A(g, i) ELSE Append(A(g, i), table[i])
           P(k) == \E g : /\ g = [i \in 1..k |-> F(g, i)]
                          /\ \A i \in 1..k : g[i] \in Seq(T) /\ Len(g[i]) <= i
<1>n. n \in Nat /\ \A i \in 1..n : table[i] \in S
  BY LenProperties, ElementOfSeq
<1> HIDE DEF n
<1>z. P(0)
  <2>1. <<>> = [i \in 1..0 |-> F(<<>>, i)] /\ 1..0 = {}
    OBVIOUS
  <2> QED
    BY <2>1
<1>s. ASSUME NEW k \in 1..n, P(k - 1) PROVE P(k)
  <2>1. PICK g : /\ g = [i \in 1..(k - 1) |-> F(g, i)]
                 /\ \A i \in 1..(k - 1) : g[i] \in Seq(T) /\ Len(g[i]) <= i
    BY <1>s
  <2>2. PICK a : a = A(g, k)
    OBVIOUS
  <2>3. a \in Seq(T) /\ Len(a) <= k - 1 /\ Len(a) \in Nat
    <3>1. CASE k = 1
      BY <2>2, <3>1, EmptySeq
    <3>2. CASE k # 1
      <4>1. k - 1 \in 1..(k - 1) /\ a = g[k - 1]
        BY <1>n, <2>2, <3>2
      <4> QED
        BY <2>1, <4>1, LenProperties
    <3> QED
      BY <3>1, <3>2
  <2>4. PICK v : v = IF table[k].cle = cle THEN a ELSE Append(a, table[k])
    OBVIOUS
  <2>5. v \in Seq(T) /\ Len(v) <= k
    <3>1. CASE table[k].cle = cle
      BY <1>n, <2>3, <2>4, <3>1
    <3>2. CASE table[k].cle # cle
      <4>1. table[k] \in T /\ v = Append(a, table[k])
        BY <1>n, <2>4, <3>2
      <4>2. v \in Seq(T) /\ Len(v) = Len(a) + 1
        BY <2>3, <4>1, AppendProperties
      <4> QED
        BY <1>n, <2>3, <4>2
    <3> QED
      BY <3>1, <3>2
  <2> HIDE DEF T
  <2>6. PICK h : h = [i \in 1..k |-> IF i = k THEN v ELSE g[i]]
    OBVIOUS
  <2>7. ASSUME NEW i \in 1..k PROVE h[i] = F(h, i)
    <3>1. CASE i = k
      <4>1. A(h, k) = a
        BY <1>n, <2>2, <2>6
      <4> QED
        BY <2>4, <2>6, <3>1, <4>1
    <3>2. CASE i # k
      <4>1. i \in 1..(k - 1) /\ h[i] = g[i]
        BY <1>n, <2>6, <3>2
      <4>2. A(h, i) = A(g, i)
        BY <1>n, <2>6, <4>1
      <4>3. g[i] = F(g, i)
        BY <2>1, <4>1
      <4> QED
        BY <4>1, <4>2, <4>3
    <3> QED
      BY <3>1, <3>2
  <2>8. h = [i \in 1..k |-> F(h, i)]
    BY <2>6, <2>7
  <2>9. \A i \in 1..k : h[i] \in Seq(T) /\ Len(h[i]) <= i
    BY <1>n, <2>1, <2>5, <2>6
  <2> QED
    BY <2>8, <2>9
<1>p. P(n)
  <2> HIDE DEF P
  <2> DEFINE C == {k \in Nat : k <= n /\ ~P(k)}
  <2>1. SUFFICES C = {}
    BY <1>n
  <2>2. SUFFICES ASSUME C # {} PROVE FALSE
    OBVIOUS
  <2>3. C \in SUBSET Nat
    OBVIOUS
  <2>4. PICK k \in C : \A j \in C : k <= j
    <3> HIDE DEF C
    <3> QED
      BY <2>2, <2>3, PlusPetit
  <2>5. k \in 1..n /\ ~P(k)
    BY <1>n, <1>z
  <2>6. k - 1 \in Nat /\ k - 1 <= n /\ k - 1 \notin C
    BY <1>n, <2>4, <2>5
  <2> QED
    BY <1>s, <2>5, <2>6
<1>g. PICK g : /\ g = [i \in 1..n |-> F(g, i)]
               /\ \A i \in 1..n : g[i] \in Seq(T) /\ Len(g[i]) <= i
  BY <1>p
<1> DEFINE f == CHOOSE x : x = [i \in 1..n |-> F(x, i)]
<1>f. f = [i \in 1..n |-> F(f, i)]
  BY <1>g
<1>d. Purger(table, cle) = IF table = <<>> THEN <<>> ELSE f[n]
  BY DEF Purger, n
<1> HIDE DEF f
<1>e. \A i \in 1..n : f[i] = g[i]
  <2> DEFINE C == {i \in 1..n : f[i] # g[i]}
  <2>1. SUFFICES ASSUME C # {} PROVE FALSE
    OBVIOUS
  <2>2. C \in SUBSET Nat
    BY <1>n
  <2>3. PICK k \in C : \A j \in C : k <= j
    <3> HIDE DEF C
    <3> QED
      BY <2>1, <2>2, PlusPetit
  <2>4. k \in 1..n /\ f[k] # g[k]
    OBVIOUS
  <2>5. A(f, k) = A(g, k)
    <3>1. CASE k = 1
      BY <3>1
    <3>2. CASE k # 1
      <4>1. k - 1 \in 1..n /\ k - 1 \notin C
        BY <1>n, <2>3, <2>4, <3>2
      <4> QED
        BY <3>2, <4>1
    <3> QED
      BY <3>1, <3>2
  <2>6. f[k] = F(f, k) /\ g[k] = F(g, k)
    BY <1>f, <1>g, <2>4
  <2> QED
    BY <2>4, <2>5, <2>6
<1>1. CASE table = <<>>
  BY <1>d, <1>1, EmptySeq DEF n
<1>2. CASE table # <<>>
  <2>1. n \in 1..n
    BY <1>n, <1>2, EmptySeq DEF n
  <2> QED
    BY <1>d, <1>e, <1>g, <1>2, <2>1 DEF n
<1> QED
  BY <1>1, <1>2

\* The place of an answer with that key.
LEMMA PositionTrouve ==
  ASSUME NEW S, NEW table \in Seq(S), NEW cle, Position(table, cle) # 0
  PROVE  /\ Position(table, cle) \in 1..Len(table)
         /\ table[Position(table, cle)].cle = cle
<1> DEFINE I == {i \in 1..Len(table) : table[i].cle = cle}
<1>1. I # {} /\ Position(table, cle) = Min(I)
  BY DEF Position, SelectInSeq
<1>2. I \in SUBSET Nat
  BY LenProperties
<1> HIDE DEF I
<1>3. \E m \in I : \A k \in I : m <= k
  BY <1>1, <1>2, PlusPetit
<1>4. Min(I) \in I
  BY <1>3 DEF Min
<1> QED
  BY <1>1, <1>4 DEF I

\* The table without one of its answers.
LEMMA OterReste ==
  ASSUME NEW S, NEW table \in Seq(S), NEW i \in 1..Len(table)
  PROVE  Oter(table, i) \in Seq(S) /\ Len(Oter(table, i)) = Len(table) - 1
<1> DEFINE e == [table EXCEPT ![i] = Last(table)]
<1>1. Len(table) \in Nat /\ Len(table) # 0 /\ table[Len(table)] \in S
  BY LenProperties, ElementOfSeq
<1>2. e \in Seq(S) /\ Len(e) = Len(table)
  BY <1>1, ExceptSeq DEF Last
<1> HIDE DEF e
<1>3. SubSeq(e, 1, Len(e) - 1) \in Seq(S) /\ Len(SubSeq(e, 1, Len(e) - 1)) = Len(e) - 1
  BY <1>1, <1>2
<1> QED
  BY <1>2, <1>3 DEF Oter, Front, e

\* The table with one more answer.
LEMMA DeposerTient ==
  ASSUME NEW S, NEW table \in Seq(S), NEW r \in S
  PROVE  /\ Deposer(table, r) \in Seq(S)
         /\ Len(table) <= REPONSES_MAX => Len(Deposer(table, r)) <= REPONSES_MAX
<1>1. REPONSES_MAX \in Nat \ {0}
  BY DistantFsAssumption
<1>2. CASE Len(table) >= REPONSES_MAX
  <2>1. table # <<>> /\ Len(table) \in Nat
    BY <1>1, <1>2, EmptySeq, LenProperties
  <2>2. Tail(table) \in Seq(S) /\ Len(Tail(table)) = Len(table) - 1
    BY <2>1, HeadTailProperties
  <2>3. Append(Tail(table), r) \in Seq(S) /\ Len(Append(Tail(table), r)) = Len(Tail(table)) + 1
    BY <2>2, AppendProperties
  <2> QED
    BY <1>1, <1>2, <2>1, <2>2, <2>3 DEF Deposer
<1>3. CASE ~(Len(table) >= REPONSES_MAX)
  <2>1. Append(table, r) \in Seq(S) /\ Len(Append(table, r)) = Len(table) + 1 /\ Len(table) \in Nat
    BY AppendProperties, LenProperties
  <2> QED
    BY <1>1, <1>3, <2>1 DEF Deposer
<1> QED
  BY <1>2, <1>3

-----------------------------------------------------------------------------
\* The keys, the requests and the bodies of answers of a session used for u.
ClesDe(u) ==
  IF u = "listing" THEN [genre : {"Listing"}, chemin : Chemins, offset : {0}]
                   ELSE [genre : {"Tranche"}, chemin : {Rien}, offset : Nat]
\* The commands of a session used for u, which lists or downloads.
OrdresFs(u) == [type : {"Demander"}, cle : ClesDe(u)]
\* The requests.
RequetesFs(u) == [type : {"Requete"}, cle : ClesDe(u)]

\* What the host reads in version v of its disk.
TrancheDe(v, offset) ==
  CASE offset > Longueurs[v] -> Refus
    [] offset = Longueurs[v] -> [erreur |-> FALSE, donnees |-> <<>>, fin |-> TRUE]
    [] offset < Longueurs[v] ->
         [erreur |-> FALSE, donnees |-> <<<<v, offset + 1>>>>, fin |-> offset + 1 = Longueurs[v]]
\* What the host reads for that key in version v.
LuDe(v, cle) ==
  IF cle.genre = "Listing" THEN [erreur |-> FALSE, donnees |-> <<v>>, fin |-> TRUE]
                           ELSE TrancheDe(v, cle.offset)

\* An answer is refused, or was read in one version.
CorpsDe(u) == {Refus} \cup UNION {{LuDe(v, cle) : cle \in ClesDe(u)} : v \in 1..MaxVersion}
\* The answers: the host refuses, or reads the version it has at that time.
Reponses(u) ==
  {r \in [cle : ClesDe(u), version : 1..MaxVersion, corps : CorpsDe(u)] :
     r.corps \in {Refus, LuDe(r.version, r.cle)}}
\* The frames of the answers.
TramesReponse(u) ==
  {r \in [type : Genres, cle : ClesDe(u), version : 1..MaxVersion, corps : CorpsDe(u)] :
     r.type = r.cle.genre /\ r.corps \in {Refus, LuDe(r.version, r.cle)}}
\* What the table of the controller holds.
Recues(u) == [cle : ClesDe(u), corps : CorpsDe(u)]
\* The frames of the feature.
TramesFs(u) == RequetesFs(u) \cup TramesReponse(u)
\* The calls.
AppelsFs(u) == [cle : ClesDe(u), versions : SUBSET (1..MaxVersion)]

\* The frames q are in C, the answers e the host has still to send in A, those left in the
\* tables t of the controller in R, each kind with its own.
Tient(q, e, t, C, A, R) ==
  /\ q \in Seq(C)
  /\ \A g \in Genres :
       e[g] \in Seq({r \in A : r.cle.genre = g}) /\ t[g] \in Seq({r \in R : r.cle.genre = g})
\* The same of the current state.
Portent(C, A, R) == Tient(canal["Controller"], aEmettre, recues, C, A, R)

\* What is not of that key.
Sauf(R, cle) == {r \in R : r.cle # cle}

\* The types, and the bound of the table.
FsReste(u) ==
  /\ LienInd(TramesFs(u), OrdresFs(u), u)
  /\ version \in 1..MaxVersion
  /\ appel \in [Appelants -> {Rien} \cup AppelsFs(u)]
  /\ DOMAIN recues = Genres /\ DOMAIN aEmettre = Genres /\ DOMAIN rendu = Appelants
  /\ \A g \in Genres : Len(recues[g]) <= REPONSES_MAX
  /\ appels \in 0..MaxAppels

\* Every call under way may be given what version v of the disk held.
Recente(v) == \A a \in Appelants : appel[a] # Rien => v \in appel[a].versions

\* The frames: what their answers read may be given to every call under way.
TramesA(u) == {f \in TramesFs(u) \cup PermsDe(u) : f.type \in Genres => Recente(f.version)}
\* The answers still to be sent.
ReponsesA(u) == {r \in Reponses(u) : Recente(r.version)}
\* The answers in the table: those with the key of a call may be given to it.
RecuesA(u) ==
  {r \in Recues(u) :
     \A a \in Appelants : appel[a] # Rien /\ appel[a].cle = r.cle =>
       r.corps \in {Refus} \cup {LuDe(v, r.cle) : v \in appel[a].versions}}
\* The answers, wherever they are, and the calls.
ReponsesInd(u) ==
  /\ FsReste(u)
  /\ Recente(version)
  /\ Portent(TramesA(u), ReponsesA(u), RecuesA(u))

\* The invariant of a session used for listings.
ListingInd == ReponsesInd("listing") /\ ListingFrais

\* A download under way has written the slices before the one it waits for.
Ecrit(a) ==
  appel[a] # Rien =>
    /\ rendu[a] = Rien /\ appel[a].cle.offset <= Len(local[a])
    /\ \A i \in 1..appel[a].cle.offset :
         \E v \in appel[a].versions : local[a][i] = <<v, i>>
\* The invariant of a session used for downloads.
TelechargementInd ==
  /\ ReponsesInd("telechargement")
  /\ local \in [Appelants -> Seq(Nat \X Nat)]
  /\ \A a \in Appelants : Ecrit(a)
  /\ TelechargementFidele

-----------------------------------------------------------------------------
\* What the sets are made of.
LEMMA FsEnsembles ==
  ASSUME NEW u \in {"listing", "telechargement"}
  PROVE  /\ \A t \in TramesFs(u) : t.type # "Permissions"
         /\ \A k \in OrdresFs(u) : k.type # "MajPermissions"
         /\ \A k \in OrdresFs(u) \cup MajDe(u) : k.type = "Demander" => k \in OrdresFs(u)
         /\ \A t \in TramesFs(u) \cup PermsDe(u) :
              /\ t.type = "Requete" => t \in RequetesFs(u)
              /\ t.type \in Genres => t \in TramesReponse(u)
         /\ \A cle \in ClesDe(u) : cle.genre \in Genres
BY DEF TramesFs, RequetesFs, TramesReponse, OrdresFs, MajDe, PermsDe, Genres, ClesDe

\* The host reads its disk at the present version, or refuses.
LEMMA FsLecture ==
  ASSUME NEW u \in {"listing", "telechargement"}, NEW cle \in ClesDe(u), version \in 1..MaxVersion,
         NEW corps,
         corps = CASE ~Autorise("Controlled", "FileDownload") -> Refus
                   [] Autorise("Controlled", "FileDownload") /\ cle.genre = "Listing" -> Repertoire
                   [] Autorise("Controlled", "FileDownload") /\ cle.genre = "Tranche" ->
                        Tranche(cle.offset)
  PROVE  corps \in {Refus, LuDe(version, cle)} /\ corps \in CorpsDe(u)
<1>0. Refus \in CorpsDe(u) /\ LuDe(version, cle) \in CorpsDe(u)
  <2>1. LuDe(version, cle) \in {LuDe(version, k) : k \in ClesDe(u)}
    OBVIOUS
  <2> QED
    BY <2>1, Zenon DEF CorpsDe
<1>1. CASE ~Autorise("Controlled", "FileDownload")
  BY <1>0, <1>1
<1>2. CASE Autorise("Controlled", "FileDownload") /\ cle.genre = "Listing"
  <2>1. corps = LuDe(version, cle)
    BY <1>2 DEF Repertoire, LuDe
  <2> QED
    BY <1>0, <2>1
<1>3. CASE Autorise("Controlled", "FileDownload") /\ cle.genre = "Tranche"
  <2>1. Longueurs[version] \in Nat /\ cle.offset \in Nat
    <3>1. Longueurs[version] \in Nat
      BY DistantFsAssumption, ElementOfSeq DEF MaxVersion
    <3> QED
      BY <3>1 DEF ClesDe
  <2>2. corps = Tranche(cle.offset)
    BY <1>3
  <2>3. Tranche(cle.offset) = LuDe(version, cle)
    <3>1. CASE cle.offset > Longueurs[version]
      BY <1>3, <2>1, <3>1 DEF Tranche, LuDe, TrancheDe, Refus
    <3>2. CASE cle.offset = Longueurs[version]
      BY <1>3, <2>1, <3>2 DEF Tranche, LuDe, TrancheDe
    <3>3. CASE cle.offset < Longueurs[version]
      <4>1. Contenu(version)[cle.offset + 1] = <<version, cle.offset + 1>>
        BY <2>1, <3>3 DEF Contenu
      <4> QED
        BY <1>3, <2>1, <3>3, <4>1 DEF Tranche, LuDe, TrancheDe
    <3> QED
      BY <2>1, <3>1, <3>2, <3>3
  <2> QED
    BY <1>0, <2>2, <2>3
<1> QED
  BY <1>1, <1>2, <1>3 DEF ClesDe

\* The answer a call takes out of its table.
LEMMA FsReclamee ==
  ASSUME NEW u \in {"listing", "telechargement"}, FsReste(u), NEW C, NEW A, NEW R, Portent(C, A, R),
         NEW a \in Appelants, Reclamable(a)
  PROVE  /\ appel[a] \in AppelsFs(u) /\ appel[a].cle.genre \in Genres
         /\ \E r \in R : r.cle = appel[a].cle /\ Reclamee(a) = r.corps
         /\ Restent(a) \in Seq({r \in R : r.cle.genre = appel[a].cle.genre})
         /\ Len(Restent(a)) <= REPONSES_MAX
<1>1. appel[a] \in AppelsFs(u) /\ Position(recues[appel[a].cle.genre], appel[a].cle) # 0
  BY DEF Reclamable, FsReste
<1>2. PICK g : g = appel[a].cle.genre
  OBVIOUS
<1>3. g \in Genres
  BY <1>1, <1>2, FsEnsembles DEF AppelsFs
<1>4. PICK i : i = Position(recues[g], appel[a].cle)
  OBVIOUS
<1>s. PICK T : T = {r \in R : r.cle.genre = g}
  OBVIOUS
<1>5. recues[g] \in Seq(T) /\ Len(recues[g]) <= REPONSES_MAX
  BY <1>3, <1>s DEF FsReste, Portent, Tient
<1>6. i \in 1..Len(recues[g]) /\ recues[g][i].cle = appel[a].cle
  BY <1>1, <1>2, <1>4, <1>5, PositionTrouve
<1>7. recues[g][i] \in T
  BY <1>5, <1>6, ElementOfSeq
<1>8. Oter(recues[g], i) \in Seq(T) /\ Len(Oter(recues[g], i)) = Len(recues[g]) - 1
  BY <1>5, <1>6, OterReste
<1>9. Len(Oter(recues[g], i)) <= REPONSES_MAX
  BY <1>5, <1>8, LenProperties, DistantFsAssumption
<1> QED
  BY <1>1, <1>2, <1>3, <1>4, <1>s, <1>6, <1>7, <1>8, <1>9 DEF Reclamee, Restent

\* A sequence that gains elements of a set keeps to it.
LEMMA FsTetes ==
  ASSUME NEW S, NEW s \in Seq(S)
  PROVE  /\ \A x \in S : Append(s, x) \in Seq(S)
         /\ s # <<>> => Head(s) \in S /\ Tail(s) \in Seq(S)
BY AppendProperties, HeadTailProperties

\* The threads of the two peers and the link keep what is on its way in sets that hold the
\* requests, the permissions, what the host reads, and what becomes of it.
LEMMA FsFlot ==
  ASSUME NEW u \in {"listing", "telechargement"}, u \in Usages, FsReste(u),
         NEW C, NEW A, NEW R, Portent(C, A, R), A \subseteq Reponses(u),
         \A r \in Reponses(u) : r.version = version => r \in A,
         \A g \in Genres, r \in A : r.cle.genre = g =>
           [type |-> g, cle |-> r.cle, version |-> r.version, corps |-> r.corps] \in C,
         \A f \in C : f.type \in Genres => [cle |-> f.cle, corps |-> f.corps] \in R,
         \/ EmettreRequete \/ TraiterRequete
         \/ \E g \in Genres : EmettreReponse(g) \/ RecevoirReponse(g)
         \/ (NextLien \/ NextPermissions) /\ UNCHANGED varsFs
  PROVE  /\ Portent(C, A, R)' /\ FsReste(u)'
         /\ UNCHANGED <<version, appel, local, rendu, appels>>
<1> DEFINE S == TramesFs(u) \cup PermsDe(u)
           K == OrdresFs(u) \cup MajDe(u)
<1>1. /\ canal \in [Cotes -> Seq(S)] /\ commandes \in [Cotes -> Seq(K)] /\ ouvert \in BOOLEAN
      /\ usage = u /\ "Controller" \in Cotes /\ "Controlled" \in Cotes
      /\ Autre("Controller") = "Controlled" /\ Autre("Controlled") = "Controller"
      /\ version \in 1..MaxVersion
      /\ DOMAIN recues = Genres /\ DOMAIN aEmettre = Genres
      /\ \A g \in Genres : Len(recues[g]) <= REPONSES_MAX
  BY DEF FsReste, LienInd, Cotes, Autre
<1> HIDE DEF S, K
<1>2. /\ canal["Controller"] \in Seq(C)
      /\ \A g \in Genres : aEmettre[g] \in Seq({r \in A : r.cle.genre = g}) /\ recues[g] \in Seq({r \in R : r.cle.genre = g})
  BY DEF Portent, Tient
\* The link.
<1>l. ASSUME UNCHANGED <<usage, ouvert, fils, epoque, perms, voulues, changements>>, ouvert,
             canal' \in [Cotes -> Seq(S)], commandes' \in [Cotes -> Seq(K)]
      PROVE  LienInd(TramesFs(u), OrdresFs(u), u)'
  BY <1>l DEF FsReste, LienInd, S, K
<1>m. ASSUME UNCHANGED <<usage, ouvert, fils, epoque, perms, voulues, changements>>, ~ouvert,
             canal' = canal, commandes' \in [Cotes -> Seq(K)]
      PROVE  LienInd(TramesFs(u), OrdresFs(u), u)'
  BY <1>m DEF FsReste, LienInd, K
<1>o. \A c \in Cotes : canal[c] # <<>> => ouvert
  BY <1>1 DEF FsReste, LienInd
<1>3. CASE EmettreRequete
  <2>1. PICK t : t = [type |-> "Requete", cle |-> Commande("Controller").cle]
    OBVIOUS
  <2>2. /\ Prendre("Controller", "Demander") /\ Emettre("Controller", t)
        /\ UNCHANGED <<usage, ouvert, fils, epoque, perms, voulues, changements>>
        /\ UNCHANGED <<version, appel, recues, aEmettre, local, rendu, appels>>
    BY <1>3, <2>1 DEF EmettreRequete, droits, varsFs
  <2>3. commandes' \in [Cotes -> Seq(K)] /\ Commande("Controller") \in OrdresFs(u)
    BY <1>1, <2>2, PrendreType, FsEnsembles DEF K
  <2>4. t \in S
    BY <2>1, <2>3 DEF OrdresFs, RequetesFs, TramesFs, S
  <2>5. canal' \in [Cotes -> Seq(S)] /\ canal'["Controller"] = canal["Controller"]
        /\ (~ouvert => canal' = canal)
    <3>1. /\ canal' \in [Cotes -> Seq(S)]
          /\ ouvert => canal'["Controller"] = canal["Controller"]
          /\ ~ouvert => canal' = canal
      BY <1>1, <2>2, <2>4, EmettreType
    <3> QED
      BY <1>1, <3>1
  <2>6. LienInd(TramesFs(u), OrdresFs(u), u)'
    <3>1. CASE ouvert
      BY <1>l, <2>2, <2>3, <2>5, <3>1
    <3>2. CASE ~ouvert
      BY <1>m, <2>2, <2>3, <2>5, <3>2
    <3> QED
      BY <1>1, <3>1, <3>2
  <2> QED
    BY <1>1, <1>2, <2>2, <2>5, <2>6 DEF Portent, Tient, FsReste
<1>4. CASE TraiterRequete
  <2>1. PICK cle, corps, r :
          /\ cle = Trame("Controlled").cle
          /\ corps = CASE ~Autorise("Controlled", "FileDownload") -> Refus
                       [] Autorise("Controlled", "FileDownload") /\ cle.genre = "Listing" -> Repertoire
                       [] Autorise("Controlled", "FileDownload") /\ cle.genre = "Tranche" ->
                            Tranche(cle.offset)
          /\ r = [cle |-> cle, version |-> version, corps |-> corps]
    OBVIOUS
  <2>2. /\ Recevoir("Controlled", "Requete")
        /\ aEmettre' = [aEmettre EXCEPT ![cle.genre] = Append(@, r)]
        /\ UNCHANGED <<usage, ouvert, fils, epoque, perms, voulues, changements>>
        /\ UNCHANGED <<commandes, version, appel, recues, local, rendu, appels>>
    BY <1>4, <2>1 DEF TraiterRequete, droits
  <2>3. /\ canal' \in [Cotes -> Seq(S)] /\ canal'["Controller"] = canal["Controller"]
        /\ Trame("Controlled") \in S /\ Trame("Controlled").type = "Requete"
        /\ canal["Controlled"] # <<>>
    BY <1>1, <2>2, RecevoirType
  <2>4. cle \in ClesDe(u)
    BY <2>1, <2>3, FsEnsembles DEF S, RequetesFs
  <2>5. corps \in {Refus, LuDe(version, cle)} /\ corps \in CorpsDe(u)
    BY <1>1, <2>1, <2>4, FsLecture
  <2>6. r \in A /\ r.cle.genre = cle.genre /\ cle.genre \in Genres
    <3>1. r \in Reponses(u) /\ r.version = version /\ r.cle = cle
      BY <1>1, <2>1, <2>4, <2>5 DEF Reponses
    <3> QED
      BY <2>4, <3>1, FsEnsembles
  <2>7. DOMAIN aEmettre' = Genres
        /\ \A g \in Genres : aEmettre'[g] \in Seq({q \in A : q.cle.genre = g})
    <3>1. ASSUME NEW g \in Genres PROVE aEmettre'[g] \in Seq({q \in A : q.cle.genre = g})
      <4>1. CASE g # cle.genre
        BY <1>1, <1>2, <2>2, <4>1
      <4>2. CASE g = cle.genre
        <5>1. aEmettre[g] \in Seq({q \in A : q.cle.genre = g}) /\ r \in {q \in A : q.cle.genre = g}
          BY <1>2, <2>6, <4>2
        <5>2. Append(aEmettre[g], r) \in Seq({q \in A : q.cle.genre = g})
          BY <5>1, FsTetes
        <5> QED
          BY <1>1, <2>2, <4>2, <5>2
      <4> QED
        BY <4>1, <4>2
    <3> QED
      BY <1>1, <2>2, <3>1
  <2>8. LienInd(TramesFs(u), OrdresFs(u), u)'
    BY <1>1, <1>l, <1>o, <2>2, <2>3
  <2> QED
    BY <1>1, <1>2, <2>2, <2>3, <2>7, <2>8 DEF Portent, Tient, FsReste
<1>5. ASSUME NEW g \in Genres, EmettreReponse(g)
      PROVE  /\ Portent(C, A, R)' /\ FsReste(u)'
             /\ UNCHANGED <<version, appel, local, rendu, appels>>
  <2>1. PICK r, t : /\ r = Head(aEmettre[g])
                    /\ t = [type |-> g, cle |-> r.cle, version |-> r.version, corps |-> r.corps]
    OBVIOUS
  <2>2. /\ aEmettre[g] # <<>> /\ Emettre("Controlled", t)
        /\ aEmettre' = [aEmettre EXCEPT ![g] = Tail(@)]
        /\ UNCHANGED <<usage, ouvert, fils, epoque, perms, voulues, changements>>
        /\ UNCHANGED <<commandes, version, appel, recues, local, rendu, appels>>
    BY <1>5, <2>1 DEF EmettreReponse, droits
  <2>3. r \in A /\ r.cle.genre = g /\ Tail(aEmettre[g]) \in Seq({q \in A : q.cle.genre = g})
    <3>1. aEmettre[g] \in Seq({q \in A : q.cle.genre = g})
      BY <1>2
    <3>2. r \in {q \in A : q.cle.genre = g} /\ Tail(aEmettre[g]) \in Seq({q \in A : q.cle.genre = g})
      BY <2>1, <2>2, <3>1, FsTetes
    <3> QED
      BY <3>2
  <2>4. t \in C
    BY <2>1, <2>3
  <2>5. t \in S
    <3>1. r \in Reponses(u) /\ r.cle.genre = g
      BY <2>3
    <3>3. t \in TramesReponse(u)
      BY <2>1, <3>1 DEF Reponses, TramesReponse
    <3> QED
      BY <3>3 DEF S, TramesFs
  <2>6. /\ canal' \in [Cotes -> Seq(S)] /\ (~ouvert => canal' = canal)
        /\ (ouvert => canal'["Controller"] = Append(canal["Controller"], t))
    <3>1. /\ canal' \in [Cotes -> Seq(S)] /\ (~ouvert => canal' = canal)
          /\ ouvert => canal'[Autre("Controlled")] = Append(canal[Autre("Controlled")], t)
      BY <1>1, <2>2, <2>5, EmettreType
    <3> QED
      BY <1>1, <3>1
  <2>7. canal'["Controller"] \in Seq(C)
    <3>1. Append(canal["Controller"], t) \in Seq(C)
      BY <1>2, <2>4, FsTetes
    <3> QED
      BY <1>1, <1>2, <2>6, <3>1
  <2>8. LienInd(TramesFs(u), OrdresFs(u), u)'
    BY <1>1, <1>l, <1>m, <2>2, <2>6
  <2>9. DOMAIN aEmettre' = Genres
        /\ \A h \in Genres : aEmettre'[h] \in Seq({q \in A : q.cle.genre = h})
    BY <1>1, <1>2, <2>2, <2>3
  <2> QED
    BY <1>1, <1>2, <2>2, <2>7, <2>8, <2>9 DEF Portent, Tient, FsReste
<1>6. ASSUME NEW g \in Genres, RecevoirReponse(g)
      PROVE  /\ Portent(C, A, R)' /\ FsReste(u)'
             /\ UNCHANGED <<version, appel, local, rendu, appels>>
  <2>1. PICK f, r : f = Trame("Controller") /\ r = [cle |-> f.cle, corps |-> f.corps]
    OBVIOUS
  <2>2. /\ Recevoir("Controller", g)
        /\ recues' = [recues EXCEPT ![g] = Deposer(@, r)]
        /\ UNCHANGED <<usage, ouvert, fils, epoque, perms, voulues, changements>>
        /\ UNCHANGED <<commandes, version, appel, aEmettre, local, rendu, appels>>
    BY <1>6, <2>1 DEF RecevoirReponse, droits
  <2>3. /\ canal' \in [Cotes -> Seq(S)] /\ canal'["Controller"] = Tail(canal["Controller"])
        /\ f.type = g /\ canal["Controller"] # <<>>
    BY <1>1, <2>1, <2>2, RecevoirType
  <2>4. f \in C /\ canal'["Controller"] \in Seq(C)
    BY <1>2, <2>1, <2>3, FsTetes DEF Trame
  <2>5. r \in {q \in R : q.cle.genre = g}
    <3>1. f \in S /\ f.type \in Genres
      BY <1>1, <2>1, <2>2, <2>3, RecevoirType
    <3>2. f \in TramesReponse(u)
      BY <3>1, FsEnsembles DEF S
    <3> QED
      BY <2>1, <2>3, <2>4, <3>2 DEF TramesReponse
  <2>6. /\ Deposer(recues[g], r) \in Seq({q \in R : q.cle.genre = g})
        /\ Len(Deposer(recues[g], r)) <= REPONSES_MAX
    <3>1. recues[g] \in Seq({q \in R : q.cle.genre = g}) /\ Len(recues[g]) <= REPONSES_MAX
      BY <1>1, <1>2
    <3> QED
      BY <2>5, <3>1, DeposerTient
  <2>7. LienInd(TramesFs(u), OrdresFs(u), u)'
    BY <1>1, <1>l, <1>o, <2>2, <2>3
  <2> QED
    BY <1>1, <1>2, <2>2, <2>4, <2>6, <2>7 DEF Portent, Tient, FsReste
<1>7. CASE (NextLien \/ NextPermissions) /\ UNCHANGED varsFs
  <2>1. LienInd(TramesFs(u), OrdresFs(u), u)'
    BY <1>7, LienPas, FsEnsembles DEF FsReste
  <2>2. UNCHANGED <<version, appel, recues, aEmettre, local, rendu, appels>>
    BY <1>7 DEF varsFs
  <2>3. canal'["Controller"] \in Seq(C)
    <3>1. CASE canal' = canal
      BY <1>2, <3>1
    <3>2. CASE Couper
      BY <1>1, <3>2, EmptySeq DEF Couper
    <3>3. ASSUME NEW c \in Cotes, AppliquerPermissions(c), canal' # canal
          PROVE  canal'["Controller"] = canal["Controller"]
      <4>1. c = "Controller" /\ Emettre(c, [type |-> "Permissions", bits |-> Commande(c).bits])
        BY <3>3 DEF AppliquerPermissions
      <4>2. Autre(c) = "Controlled"
        BY <4>1 DEF Autre
      <4> QED
        BY <1>1, <4>1, <4>2 DEF Emettre
    <3>4. ASSUME NEW c \in Cotes, RecevoirPermissions(c)
          PROVE  canal'["Controller"] \in Seq(C)
      <4>1. Recevoir(c, "Permissions")
        BY <3>4 DEF RecevoirPermissions
      <4>2. canal[c] # <<>> /\ canal'[c] = Tail(canal[c]) /\ canal'[Autre(c)] = canal[Autre(c)]
        BY <1>1, <4>1, RecevoirType
      <4>3. CASE c = "Controller"
        BY <1>2, <4>2, <4>3, FsTetes
      <4>4. CASE c = "Controlled"
        BY <1>1, <1>2, <4>2, <4>4
      <4> QED
        BY <4>3, <4>4 DEF Cotes
    <3> QED
      BY <1>2, <1>7, <3>1, <3>2, <3>3, <3>4
         DEF NextLien, Rouvrir, Terminer, NextPermissions, DefinirPermission, FilsPermissions
  <2> QED
    BY <1>1, <1>2, <2>1, <2>2, <2>3 DEF Portent, Tient, FsReste
<1>8. CASE \E g \in Genres : EmettreReponse(g) \/ RecevoirReponse(g)
  BY <1>5, <1>6, <1>8
<1> QED
  BY <1>3, <1>4, <1>7, <1>8

-----------------------------------------------------------------------------
\* A call starts: what is left of the state, and the tables and the calls after it.
LEMMA FsCommencer ==
  ASSUME NEW u \in {"listing", "telechargement"}, FsReste(u), NEW C, NEW A, NEW R, Portent(C, A, R),
         NEW a \in Appelants, NEW cle \in ClesDe(u), Commencer(a, cle),
         VersionsEnRoute(cle.genre) \subseteq 1..MaxVersion
  PROVE  /\ FsReste(u)'
         /\ appel' = [appel EXCEPT ![a] = [cle |-> cle,
                                           versions |-> {version} \cup VersionsEnRoute(cle.genre)]]
         /\ appel[a] = Rien /\ rendu' = [rendu EXCEPT ![a] = Rien]
         /\ UNCHANGED <<version, local, usage, canal, aEmettre>>
         /\ Portent(C, A, Sauf(R, cle))'
<1> DEFINE K == OrdresFs(u) \cup MajDe(u)
           n == {version} \cup VersionsEnRoute(cle.genre)
           ordre == [type |-> "Demander", cle |-> cle]
<1>1. /\ appel[a] = Rien /\ appels < MaxAppels /\ appels' = appels + 1
      /\ recues' = [recues EXCEPT ![cle.genre] = Purger(@, cle)]
      /\ Commander("Controller", ordre)
      /\ appel' = [appel EXCEPT ![a] = [cle |-> cle, versions |-> n]]
      /\ rendu' = [rendu EXCEPT ![a] = Rien]
      /\ UNCHANGED <<version, aEmettre, local, usage, ouvert, fils, epoque, canal>>
      /\ UNCHANGED <<perms, voulues, changements>>
  BY DEF Commencer, Demander, droits
<1>2. ordre \in K
  BY DEF OrdresFs
<1>3. n \in SUBSET (1..MaxVersion)
  BY DEF FsReste
<1> HIDE DEF n, ordre
<1>4. commandes \in [Cotes -> Seq(K)] /\ "Controller" \in Cotes
  BY DEF FsReste, LienInd, Cotes
<1>5. commandes' \in [Cotes -> Seq(K)]
  <2> HIDE DEF K
  <2> QED
    BY <1>1, <1>2, <1>4, CommanderType
<1>6. LienInd(TramesFs(u), OrdresFs(u), u)'
  BY <1>1, <1>5 DEF FsReste, LienInd
<1>7. appel' \in [Appelants -> {Rien} \cup AppelsFs(u)]
  BY <1>1, <1>3 DEF FsReste, AppelsFs
<1>8. appels' \in 0..MaxAppels
  BY <1>1, DistantFsAssumption DEF FsReste
<1>9. cle.genre \in Genres
  BY FsEnsembles
<1>10. ASSUME NEW g \in Genres
       PROVE  /\ Len(recues'[g]) <= REPONSES_MAX
              /\ recues'[g] \in Seq({r \in Sauf(R, cle) : r.cle.genre = g})
  <2>1. PICK T : T = {r \in R : r.cle.genre = g}
    OBVIOUS
  <2>2. recues[g] \in Seq(T) /\ Len(recues[g]) <= REPONSES_MAX /\ DOMAIN recues = Genres
    BY <2>1 DEF Portent, Tient, FsReste
  <2>3. CASE g = cle.genre
    <3>1. recues'[g] = Purger(recues[g], cle)
      BY <1>1, <2>2, <2>3
    <3>2. /\ Purger(recues[g], cle) \in Seq({r \in T : r.cle # cle})
          /\ Len(Purger(recues[g], cle)) <= Len(recues[g])
      BY <2>2, PurgerGarde
    <3>3. {r \in T : r.cle # cle} = {r \in Sauf(R, cle) : r.cle.genre = g}
      BY <2>1 DEF Sauf
    <3>4. Len(recues'[g]) <= REPONSES_MAX
      BY <2>2, <3>1, <3>2, LenProperties, DistantFsAssumption
    <3> QED
      BY <3>1, <3>2, <3>3, <3>4
  <2>4. CASE g # cle.genre
    <3>1. recues'[g] = recues[g]
      BY <1>1, <2>2, <2>4
    <3>2. {r \in Sauf(R, cle) : r.cle.genre = g} = T
      BY <2>1, <2>4 DEF Sauf
    <3> QED
      BY <2>2, <3>1, <3>2
  <2> QED
    BY <2>3, <2>4
<1>11. FsReste(u)'
  BY <1>1, <1>6, <1>7, <1>8, <1>10 DEF FsReste
<1>12. Portent(C, A, Sauf(R, cle))'
  BY <1>1, <1>10 DEF Portent, Tient
<1> QED
  BY <1>1, <1>11, <1>12 DEF n

\* The sets may grow, or keep what is there.
LEMMA TientPlus ==
  ASSUME NEW q, NEW e, NEW t, NEW C, NEW A, NEW R, NEW D, NEW B, NEW S,
         Tient(q, e, t, C, A, R),
         \A i \in 1..Len(q) : q[i] \in C => q[i] \in D,
         \A g \in Genres : \A i \in 1..Len(e[g]) :
           e[g][i] \in A /\ e[g][i].cle.genre = g => e[g][i] \in B,
         R \subseteq S
  PROVE  Tient(q, e, t, D, B, S)
<1>1. q \in Seq(D)
  <2>1. q \in Seq(C) /\ \A i \in 1..Len(q) : q[i] \in C
    BY ElementOfSeq DEF Tient
  <2> QED
    BY <2>1, SuiteDans
<1>2. ASSUME NEW g \in Genres
      PROVE  e[g] \in Seq({r \in B : r.cle.genre = g}) /\ t[g] \in Seq({r \in S : r.cle.genre = g})
  <2>1. PICK P, Q : P = {r \in A : r.cle.genre = g} /\ Q = {r \in B : r.cle.genre = g}
    OBVIOUS
  <2>2. e[g] \in Seq(P)
    BY <2>1 DEF Tient
  <2>3. \A i \in 1..Len(e[g]) : e[g][i] \in P
    BY <2>2, ElementOfSeq
  <2>4. \A i \in 1..Len(e[g]) : e[g][i] \in Q
    BY <2>1, <2>3
  <2>5. e[g] \in Seq(Q)
    BY <2>2, <2>4, SuiteDans
  <2>6. PICK U, V : U = {r \in R : r.cle.genre = g} /\ V = {r \in S : r.cle.genre = g}
    OBVIOUS
  <2>7. t[g] \in Seq(U) /\ U \subseteq V
    BY <2>6 DEF Tient
  <2>8. \A i \in 1..Len(t[g]) : t[g][i] \in V
    BY <2>7, ElementOfSeq
  <2>9. t[g] \in Seq(V)
    BY <2>7, <2>8, SuiteDans
  <2> QED
    BY <2>1, <2>5, <2>6, <2>9
<1> QED
  BY <1>1, <1>2 DEF Tient

-----------------------------------------------------------------------------
\* What the threads of both peers and the link do keeps the answers within reach of the calls.
LEMMA ReponsesFlot ==
  ASSUME NEW u \in {"listing", "telechargement"}, u \in Usages, ReponsesInd(u),
         \/ EmettreRequete \/ TraiterRequete
         \/ \E g \in Genres : EmettreReponse(g) \/ RecevoirReponse(g)
         \/ (NextLien \/ NextPermissions) /\ UNCHANGED varsFs
  PROVE  ReponsesInd(u)' /\ UNCHANGED <<version, appel, local, rendu, usage>>
<1>1. PICK C, A, R : C = TramesA(u) /\ A = ReponsesA(u) /\ R = RecuesA(u)
  OBVIOUS
<1>2. FsReste(u) /\ Portent(C, A, R) /\ A \subseteq Reponses(u)
  BY <1>1 DEF ReponsesInd, ReponsesA
<1>3. \A r \in Reponses(u) : r.version = version => r \in A
  BY <1>1 DEF ReponsesInd, ReponsesA
<1>4. ASSUME NEW g \in Genres, NEW r \in A, r.cle.genre = g
      PROVE  [type |-> g, cle |-> r.cle, version |-> r.version, corps |-> r.corps] \in C
  <2>1. PICK f : f = [type |-> g, cle |-> r.cle, version |-> r.version, corps |-> r.corps]
    OBVIOUS
  <2>2. r \in Reponses(u) /\ Recente(r.version)
    BY <1>1, <1>4 DEF ReponsesA
  <2>3. f \in TramesReponse(u)
    BY <1>4, <2>1, <2>2 DEF Reponses, TramesReponse
  <2>4. f.version = r.version
    BY <2>1
  <2>5. f \in TramesA(u)
    BY <2>2, <2>3, <2>4 DEF TramesA, TramesFs
  <2> QED
    BY <1>1, <2>1, <2>5
<1>5. ASSUME NEW f \in C, f.type \in Genres PROVE [cle |-> f.cle, corps |-> f.corps] \in R
  <2>1. PICK r : r = [cle |-> f.cle, corps |-> f.corps]
    OBVIOUS
  <2>2. f \in TramesReponse(u) /\ Recente(f.version)
    BY <1>1, <1>5, FsEnsembles DEF TramesA
  <2>3. r \in Recues(u) /\ r.corps \in {Refus, LuDe(f.version, r.cle)}
    BY <2>1, <2>2 DEF TramesReponse, Recues
  <2>4. ASSUME NEW a \in Appelants, appel[a] # Rien
        PROVE  r.corps \in {Refus} \cup {LuDe(v, r.cle) : v \in appel[a].versions}
    BY <2>2, <2>3, <2>4 DEF Recente
  <2>5. r \in RecuesA(u)
    BY <2>3, <2>4 DEF RecuesA
  <2> QED
    BY <1>1, <2>1, <2>5
<1>6. Portent(C, A, R)' /\ FsReste(u)' /\ UNCHANGED <<version, appel, local, rendu, appels>>
  BY <1>1, <1>2, <1>3, <1>4, <1>5, FsFlot
<1>7. TramesA(u)' = C /\ ReponsesA(u)' = A /\ RecuesA(u)' = R
  BY <1>1, <1>6 DEF TramesA, ReponsesA, RecuesA, Recente
<1>8. usage' = usage /\ Recente(version)'
  BY <1>2, <1>6 DEF ReponsesInd, Recente, FsReste, LienInd
<1> QED
  BY <1>6, <1>7, <1>8 DEF ReponsesInd

\* What is on its way carries versions of the disk, those a call that starts may be given.
LEMMA ReponsesEnRoute ==
  ASSUME NEW u \in {"listing", "telechargement"}, ReponsesInd(u), NEW cle \in ClesDe(u)
  PROVE  /\ VersionsEnRoute(cle.genre) \subseteq 1..MaxVersion
         /\ \A i \in 1..Len(canal["Controller"]) :
              canal["Controller"][i].type \in Genres =>
                canal["Controller"][i].version \in VersionsEnRoute(cle.genre)
         /\ \A g \in Genres : \A i \in 1..Len(aEmettre[g]) :
              aEmettre[g][i].version \in VersionsEnRoute(cle.genre)
<1> DEFINE q == canal["Controller"]
<1>1. /\ q \in Seq(TramesA(u)) /\ cle.genre \in Genres
      /\ \A g \in Genres : aEmettre[g] \in Seq({r \in ReponsesA(u) : r.cle.genre = g})
  BY FsEnsembles DEF ReponsesInd, Portent, Tient
<1>2. ASSUME NEW i \in 1..Len(q), q[i].type \in Genres
      PROVE  q[i].type = cle.genre /\ q[i].version \in 1..MaxVersion
  <2>1. PICK f : f = q[i]
    OBVIOUS
  <2>2. f \in TramesA(u)
    BY <1>1, <2>1, ElementOfSeq
  <2>3. f \in TramesReponse(u)
    BY <1>2, <2>1, <2>2, FsEnsembles DEF TramesA
  <2>4. f.version \in 1..MaxVersion /\ f.type = f.cle.genre /\ f.cle \in ClesDe(u)
    BY <2>3 DEF TramesReponse
  <2> QED
    BY <2>1, <2>4 DEF ClesDe
<1>3. ASSUME NEW g \in Genres, NEW i \in 1..Len(aEmettre[g])
      PROVE  g = cle.genre /\ aEmettre[g][i].version \in 1..MaxVersion
  <2>1. PICK r, P : r = aEmettre[g][i] /\ P = {x \in ReponsesA(u) : x.cle.genre = g}
    OBVIOUS
  <2>2. r \in P
    BY <1>1, <2>1, ElementOfSeq
  <2>3. r \in Reponses(u) /\ r.cle.genre = g
    BY <2>1, <2>2 DEF ReponsesA
  <2>4. r.version \in 1..MaxVersion /\ r.cle \in ClesDe(u)
    BY <2>3 DEF Reponses
  <2> QED
    BY <2>1, <2>3, <2>4 DEF ClesDe
<1>4. \A i \in 1..Len(q) : q[i].type = cle.genre => q[i].version \in VersionsEnRoute(cle.genre)
  BY DEF VersionsEnRoute
<1>5. \A i \in 1..Len(aEmettre[cle.genre]) : aEmettre[cle.genre][i].version \in VersionsEnRoute(cle.genre)
  BY DEF VersionsEnRoute
<1>6. VersionsEnRoute(cle.genre) \subseteq 1..MaxVersion
  BY <1>1, <1>2, <1>3 DEF VersionsEnRoute
<1> QED
  BY <1>2, <1>3, <1>4, <1>5, <1>6

\* A call starts: it removes from the table what answers its key, and may be given the rest of
\* what is on its way.
LEMMA ReponsesCommencer ==
  ASSUME NEW u \in {"listing", "telechargement"}, ReponsesInd(u),
         NEW a \in Appelants, NEW cle \in ClesDe(u), Commencer(a, cle)
  PROVE  /\ ReponsesInd(u)' /\ appel[a] = Rien
         /\ appel'[a].cle = cle /\ rendu' = [rendu EXCEPT ![a] = Rien]
         /\ \A b \in Appelants : b # a => appel'[b] = appel[b]
         /\ UNCHANGED <<version, local, usage>>
<1>1. PICK C, A, R : C = TramesA(u) /\ A = ReponsesA(u) /\ R = RecuesA(u)
  OBVIOUS
<1>2. PICK n : n = {version} \cup VersionsEnRoute(cle.genre)
  OBVIOUS
<1>3. /\ FsReste(u) /\ Portent(C, A, R) /\ Recente(version)
      /\ appel \in [Appelants -> {Rien} \cup AppelsFs(u)]
  BY <1>1 DEF ReponsesInd, FsReste
<1>4. /\ FsReste(u)'
      /\ appel' = [appel EXCEPT ![a] = [cle |-> cle, versions |-> n]]
      /\ appel[a] = Rien /\ rendu' = [rendu EXCEPT ![a] = Rien]
      /\ UNCHANGED <<version, local, usage, canal, aEmettre>>
      /\ Portent(C, A, Sauf(R, cle))'
  <2>1. VersionsEnRoute(cle.genre) \subseteq 1..MaxVersion
    BY ReponsesEnRoute
  <2> QED
    BY <1>2, <1>3, <2>1, FsCommencer
<1>5. /\ appel'[a] = [cle |-> cle, versions |-> n]
      /\ \A b \in Appelants : b # a => appel'[b] = appel[b]
  BY <1>3, <1>4
<1>6. \A v : Recente(v) /\ v \in n => Recente(v)'
  BY <1>5 DEF Recente
<1>7. ASSUME NEW i \in 1..Len(canal["Controller"]), canal["Controller"][i] \in C
      PROVE  canal["Controller"][i] \in TramesA(u)'
  <2>1. PICK f : f = canal["Controller"][i]
    OBVIOUS
  <2>2. f \in TramesFs(u) \cup PermsDe(u) /\ (f.type \in Genres => Recente(f.version))
    BY <1>1, <1>7, <2>1 DEF TramesA
  <2>3. f.type \in Genres => f.version \in n
    BY <1>2, <2>1, ReponsesEnRoute
  <2>4. f.type \in Genres => Recente(f.version)'
    BY <1>6, <2>2, <2>3
  <2> QED
    BY <2>1, <2>2, <2>4 DEF TramesA
<1>8. ASSUME NEW g \in Genres, NEW i \in 1..Len(aEmettre[g]), aEmettre[g][i] \in A,
             aEmettre[g][i].cle.genre = g
      PROVE  aEmettre[g][i] \in ReponsesA(u)'
  <2>1. PICK r : r = aEmettre[g][i]
    OBVIOUS
  <2>2. r \in Reponses(u) /\ Recente(r.version)
    BY <1>1, <1>8, <2>1 DEF ReponsesA
  <2>3. r.version \in n
    BY <1>2, <2>1, ReponsesEnRoute
  <2>4. Recente(r.version)'
    BY <1>6, <2>2, <2>3
  <2> QED
    BY <2>1, <2>2, <2>4 DEF ReponsesA
<1>9. Sauf(R, cle) \subseteq RecuesA(u)'
  <2>1. ASSUME NEW r \in R, r.cle # cle,
               NEW b \in Appelants, appel'[b] # Rien, appel'[b].cle = r.cle
        PROVE  r.corps \in {Refus} \cup {LuDe(v, r.cle) : v \in appel'[b].versions}
    <3>1. b # a
      BY <1>5, <2>1
    <3> QED
      BY <1>1, <1>5, <2>1, <3>1 DEF RecuesA
  <2>2. \A r \in R : r \in Recues(u)
    BY <1>1 DEF RecuesA
  <2> QED
    BY <2>1, <2>2 DEF RecuesA, Sauf
<1>10. Portent(TramesA(u), ReponsesA(u), RecuesA(u))'
  <2>1. Tient(canal'["Controller"], aEmettre', recues', C, A, Sauf(R, cle))
    BY <1>4 DEF Portent
  <2>2. canal' = canal /\ aEmettre' = aEmettre
    BY <1>4
  <2>3. Tient(canal'["Controller"], aEmettre', recues', TramesA(u)', ReponsesA(u)', RecuesA(u)')
    BY <1>7, <1>8, <1>9, <2>1, <2>2, TientPlus
  <2> QED
    BY <2>3 DEF Portent
<1>11. Recente(version)'
  BY <1>2, <1>3, <1>4, <1>6
<1> QED
  BY <1>4, <1>5, <1>10, <1>11 DEF ReponsesInd

\* A step that leaves the answers on their way, and ends calls or changes their keys, once
\* what stays in the table is known.
LEMMA ReponsesFinir ==
  ASSUME NEW u \in {"listing", "telechargement"}, ReponsesInd(u), FsReste(u)',
         UNCHANGED <<version, canal, aEmettre>>,
         \A b \in Appelants :
           appel'[b] # Rien => appel[b] # Rien /\ appel'[b].versions = appel[b].versions,
         NEW P, P \subseteq RecuesA(u)',
         \A g \in Genres : recues'[g] \in Seq({r \in P : r.cle.genre = g})
  PROVE  ReponsesInd(u)'
<1>1. \A v : Recente(v) => Recente(v)'
  BY DEF Recente
<1>2. TramesA(u) \subseteq TramesA(u)' /\ ReponsesA(u) \subseteq ReponsesA(u)'
  BY <1>1 DEF TramesA, ReponsesA
<1>3. Tient(canal'["Controller"], aEmettre', recues', TramesA(u), ReponsesA(u), P)
  BY DEF ReponsesInd, Portent, Tient
<1>4. Tient(canal'["Controller"], aEmettre', recues', TramesA(u)', ReponsesA(u)', RecuesA(u)')
  BY <1>2, <1>3, TientPlus
<1>5. Recente(version)'
  BY <1>1 DEF ReponsesInd
<1> QED
  BY <1>4, <1>5 DEF ReponsesInd, Portent

\* Ending calls leaves the table within reach of the others.
LEMMA RecuesFinir ==
  ASSUME NEW u, NEW a \in Appelants,
         \A b \in Appelants : appel'[b] # Rien => b # a /\ appel'[b] = appel[b]
  PROVE  RecuesA(u) \subseteq RecuesA(u)'
<1>1. ASSUME NEW r \in RecuesA(u), NEW b \in Appelants, appel'[b] # Rien, appel'[b].cle = r.cle
      PROVE  r.corps \in {Refus} \cup {LuDe(v, r.cle) : v \in appel'[b].versions}
  BY <1>1 DEF RecuesA
<1>2. \A r \in RecuesA(u) : r \in Recues(u)
  BY DEF RecuesA
<1> QED
  BY <1>1, <1>2 DEF RecuesA

\* A call that runs out of time leaves the answers as they are.
LEMMA ReponsesExpirer ==
  ASSUME NEW u \in {"listing", "telechargement"}, ReponsesInd(u), NEW a \in Appelants, Expirer(a)
  PROVE  /\ ReponsesInd(u)' /\ UNCHANGED <<version, local, usage>>
         /\ rendu'[a].erreur /\ appel'[a] = Rien
         /\ \A b \in Appelants : b # a => rendu'[b] = rendu[b] /\ appel'[b] = appel[b]
<1>1. /\ FsReste(u)
      /\ rendu' = [rendu EXCEPT ![a] = [erreur |-> TRUE, versions |-> {}, lu |-> <<>>]]
      /\ appel' = [appel EXCEPT ![a] = Rien]
      /\ UNCHANGED <<version, recues, aEmettre, local, appels>> /\ UNCHANGED lien
  BY DEF ReponsesInd, Expirer, Rendre
<1>2. FsReste(u)'
  <2>1. LienInd(TramesFs(u), OrdresFs(u), u)'
    BY <1>1 DEF lien, FsReste, LienInd
  <2> QED
    BY <1>1, <2>1 DEF FsReste
<1>3. /\ appel'[a] = Rien /\ DOMAIN rendu = Appelants
      /\ \A b \in Appelants : b # a => appel'[b] = appel[b]
  BY <1>1 DEF FsReste
<1>4. RecuesA(u) \subseteq RecuesA(u)'
  BY <1>3, RecuesFinir
<1>5. canal' = canal /\ usage' = usage
  BY <1>1 DEF lien
<1>6. \A g \in Genres : recues'[g] \in Seq({r \in RecuesA(u) : r.cle.genre = g})
  BY <1>1 DEF ReponsesInd, Portent, Tient
<1>7. ReponsesInd(u)'
  BY <1>1, <1>2, <1>3, <1>4, <1>5, <1>6, ReponsesFinir
<1> QED
  BY <1>1, <1>3, <1>5, <1>7

\* The disk of the host changes: every call under way may be given what it holds now.
LEMMA ReponsesModifier ==
  ASSUME NEW u \in {"listing", "telechargement"}, ReponsesInd(u), Modifier
  PROVE  /\ ReponsesInd(u)' /\ UNCHANGED <<local, rendu, usage>>
         /\ \A a \in Appelants : appel'[a] # Rien =>
              /\ appel[a] # Rien /\ appel'[a].cle = appel[a].cle
              /\ appel[a].versions \subseteq appel'[a].versions
<1>1. PICK C, A, R : C = TramesA(u) /\ A = ReponsesA(u) /\ R = RecuesA(u)
  OBVIOUS
<1>2. /\ FsReste(u) /\ Portent(C, A, R)
      /\ version' \in 1..MaxVersion
      /\ UNCHANGED <<recues, aEmettre, local, rendu, appels>> /\ UNCHANGED lien
  <2>1. MaxVersion \in Nat
    BY DistantFsAssumption, LenProperties DEF MaxVersion
  <2> QED
    BY <1>1, <2>1 DEF ReponsesInd, FsReste, Modifier
<1>3. ASSUME NEW a \in Appelants
      PROVE  /\ appel'[a] \in {Rien} \cup AppelsFs(u)
             /\ appel'[a] # Rien =>
                  /\ appel[a] # Rien /\ appel'[a].cle = appel[a].cle
                  /\ appel'[a].versions = appel[a].versions \cup {version'}
  <2>1. CASE appel[a] = Rien
    BY <2>1 DEF Modifier
  <2>2. CASE appel[a] # Rien
    <3>1. appel[a] \in AppelsFs(u)
      BY <1>2, <2>2 DEF FsReste
    <3>2. appel'[a] = [cle |-> appel[a].cle, versions |-> appel[a].versions \cup {version'}]
      BY <2>2, <3>1 DEF Modifier, AppelsFs
    <3> QED
      BY <1>2, <2>2, <3>1, <3>2 DEF AppelsFs
  <2> QED
    BY <2>1, <2>2
<1>4. FsReste(u)'
  <2>1. LienInd(TramesFs(u), OrdresFs(u), u)'
    BY <1>2 DEF lien, FsReste, LienInd
  <2>2. appel' \in [Appelants -> {Rien} \cup AppelsFs(u)]
    BY <1>3 DEF Modifier
  <2> QED
    BY <1>2, <2>1, <2>2 DEF FsReste
<1>5. \A v : Recente(v) => Recente(v)'
  BY <1>3 DEF Recente
<1>6. C \subseteq TramesA(u)' /\ A \subseteq ReponsesA(u)'
  BY <1>1, <1>5 DEF TramesA, ReponsesA
<1>7. R \subseteq RecuesA(u)'
  <2>1. ASSUME NEW r \in R, NEW b \in Appelants, appel'[b] # Rien, appel'[b].cle = r.cle
        PROVE  r.corps \in {Refus} \cup {LuDe(v, r.cle) : v \in appel'[b].versions}
    <3>1. r.corps \in {Refus} \cup {LuDe(v, r.cle) : v \in appel[b].versions}
      BY <1>1, <1>3, <2>1 DEF RecuesA
    <3> QED
      BY <1>3, <2>1, <3>1
  <2>2. \A r \in R : r \in Recues(u)
    BY <1>1 DEF RecuesA
  <2> QED
    BY <2>1, <2>2 DEF RecuesA
<1>8. Portent(TramesA(u), ReponsesA(u), RecuesA(u))'
  <2>1. Tient(canal'["Controller"], aEmettre', recues', C, A, R)
    BY <1>2 DEF Portent, lien
  <2>2. Tient(canal'["Controller"], aEmettre', recues', TramesA(u)', ReponsesA(u)', RecuesA(u)')
    BY <1>6, <1>7, <2>1, TientPlus
  <2> QED
    BY <2>2 DEF Portent
<1>9. Recente(version)'
  BY <1>3 DEF Recente
<1>10. usage' = usage
  BY <1>2 DEF lien
<1> QED
  BY <1>2, <1>3, <1>4, <1>8, <1>9, <1>10 DEF ReponsesInd

-----------------------------------------------------------------------------
\* A listing is taken from the table: it is one its call may be given.
LEMMA ListingRecevoir ==
  ASSUME ListingInd, NEW a \in Appelants, RecevoirListing(a)
  PROVE  ListingInd'
<1>1. PICK reponse, reste : reponse = Reclamee(a) /\ reste = Restent(a)
  OBVIOUS
<1>2. PICK R : R = RecuesA("listing")
  OBVIOUS
<1>3. /\ FsReste("listing") /\ Portent(TramesA("listing"), ReponsesA("listing"), R) /\ Reclamable(a)
      /\ appel[a].cle.genre = "Listing" /\ "Listing" \in Genres
      /\ recues' = [recues EXCEPT !["Listing"] = reste]
      /\ rendu' = [rendu EXCEPT ![a] = [erreur |-> reponse.erreur, versions |-> appel[a].versions,
                                        lu |-> reponse.donnees]]
      /\ appel' = [appel EXCEPT ![a] = Rien]
      /\ UNCHANGED <<version, aEmettre, local, appels>> /\ UNCHANGED lien
  BY <1>1, <1>2 DEF ListingInd, ReponsesInd, RecevoirListing, Rendre, Genres
<1>4. /\ appel[a] \in AppelsFs("listing") /\ appel[a] # Rien
      /\ \E r \in R : r.cle = appel[a].cle /\ reponse = r.corps
      /\ reste \in Seq({r \in R : r.cle.genre = "Listing"}) /\ Len(reste) <= REPONSES_MAX
  <2>1. appel[a] # Rien
    BY <1>3 DEF Reclamable
  <2>2. /\ appel[a] \in AppelsFs("listing")
        /\ \E r \in R : r.cle = appel[a].cle /\ Reclamee(a) = r.corps
        /\ Restent(a) \in Seq({r \in R : r.cle.genre = appel[a].cle.genre})
        /\ Len(Restent(a)) <= REPONSES_MAX
    BY <1>3, FsReclamee
  <2>3. {r \in R : r.cle.genre = appel[a].cle.genre} = {r \in R : r.cle.genre = "Listing"}
    BY <1>3
  <2> QED
    BY <1>1, <2>1, <2>2, <2>3
<1>5. ~reponse.erreur => reponse.donnees[1] \in appel[a].versions
  <2>1. reponse \in {Refus} \cup {LuDe(v, appel[a].cle) : v \in appel[a].versions}
    BY <1>2, <1>4 DEF RecuesA
  <2> QED
    BY <1>3, <2>1 DEF Refus, LuDe
<1>6. /\ DOMAIN recues' = Genres /\ recues'["Listing"] = reste
      /\ \A g \in Genres : g # "Listing" => recues'[g] = recues[g]
      /\ appel'[a] = Rien /\ \A b \in Appelants : b # a => appel'[b] = appel[b]
  BY <1>3 DEF FsReste
<1>7. FsReste("listing")'
  <2>1. LienInd(TramesFs("listing"), OrdresFs("listing"), "listing")'
    BY <1>3 DEF lien, FsReste, LienInd
  <2>2. \A g \in Genres : Len(recues'[g]) <= REPONSES_MAX
    BY <1>3, <1>4, <1>6 DEF FsReste
  <2> QED
    BY <1>3, <1>6, <2>1, <2>2 DEF FsReste
<1>8. R \subseteq RecuesA("listing")'
  BY <1>2, <1>6, RecuesFinir
<1>9. ASSUME NEW g \in Genres PROVE recues'[g] \in Seq({r \in R : r.cle.genre = g})
  <2>1. recues[g] \in Seq({r \in R : r.cle.genre = g})
    BY <1>3 DEF Portent, Tient
  <2>2. CASE g = "Listing"
    BY <1>4, <1>6, <2>2
  <2>3. CASE g # "Listing"
    BY <1>6, <2>1, <2>3
  <2> QED
    BY <2>2, <2>3
<1>10. ReponsesInd("listing")'
  <2>1. canal' = canal /\ "listing" \in {"listing", "telechargement"}
    BY <1>3 DEF lien
  <2> QED
    BY <1>3, <1>6, <1>7, <1>8, <1>9, <2>1, ReponsesFinir DEF ListingInd
<1>11. ListingFrais'
  BY <1>3, <1>5 DEF ListingInd, ListingFrais, FsReste, lien
<1> QED
  BY <1>10, <1>11 DEF ListingInd

\* A step of another part keeps what the listings returned.
LEMMA ListingGarde ==
  ASSUME ListingFrais, rendu' = rendu, usage' = usage
  PROVE  ListingFrais'
BY DEF ListingFrais

\* Every step of a session used for listings preserves the invariant.
LEMMA ListingPas ==
  ASSUME ListingInd, "listing" \in Usages, NextFs
  PROVE  ListingInd'
<1>0. /\ usage = "listing" /\ ReponsesInd("listing") /\ ListingFrais
      /\ "listing" \in {"listing", "telechargement"} /\ DOMAIN rendu = Appelants
  BY DEF ListingInd, ReponsesInd, FsReste, LienInd
<1>1. ASSUME NEW a \in Appelants PROVE ~Telecharger(a) /\ ~RecevoirTranche(a)
  <2>1. ~Telecharger(a)
    BY <1>0 DEF Telecharger
  <2>2. appel[a] # Rien => appel[a].cle.genre = "Listing"
    BY DEF ListingInd, ReponsesInd, FsReste, AppelsFs, ClesDe
  <2> QED
    BY <2>1, <2>2 DEF RecevoirTranche, Reclamable
<1>2. ASSUME NEW a \in Appelants, NEW p \in Chemins, Lister(a, p) PROVE ListingInd'
  <2>1. PICK cle : cle = Cle("Listing", p, 0)
    OBVIOUS
  <2>2. cle \in ClesDe("listing") /\ Commencer(a, cle)
    BY <1>2, <2>1 DEF Cle, ClesDe, Lister
  <2>3. ReponsesInd("listing")' /\ rendu' = [rendu EXCEPT ![a] = Rien] /\ usage' = usage
    BY <1>0, <2>2, ReponsesCommencer
  <2>4. ListingFrais'
    BY <1>0, <2>3 DEF ListingFrais
  <2> QED
    BY <2>3, <2>4 DEF ListingInd
<1>3. ASSUME NEW a \in Appelants, Expirer(a) PROVE ListingInd'
  <2>1. /\ ReponsesInd("listing")' /\ usage' = usage /\ rendu'[a].erreur
        /\ \A b \in Appelants : b # a => rendu'[b] = rendu[b]
    BY <1>0, <1>3, ReponsesExpirer
  <2>2. ListingFrais'
    BY <1>0, <2>1 DEF ListingFrais
  <2> QED
    BY <2>1, <2>2 DEF ListingInd
<1>4. CASE Modifier
  BY <1>0, <1>4, ReponsesModifier, ListingGarde DEF ListingInd
<1>5. CASE \/ EmettreRequete \/ TraiterRequete
           \/ \E g \in Genres : EmettreReponse(g) \/ RecevoirReponse(g)
           \/ (NextLien \/ NextPermissions) /\ UNCHANGED varsFs
  BY <1>0, <1>5, ReponsesFlot, ListingGarde DEF ListingInd
<1> QED
  BY <1>1, <1>2, <1>3, <1>4, <1>5, ListingRecevoir DEF NextFs

\* At the start nothing is on its way.
LEMMA FsDebut ==
  ASSUME InitLien, InitFs, NEW u, usage = u
  PROVE  /\ FsReste(u) /\ \A C, A, R : Portent(C, A, R)
         /\ \A a \in Appelants : appel[a] = Rien /\ rendu[a] = Rien
<1>1. LienInd(TramesFs(u), OrdresFs(u), u)
  BY LienDebut
<1>2. 1 \in 1..MaxVersion
  BY DistantFsAssumption, LenProperties, EmptySeq DEF MaxVersion
<1>3. FsReste(u)
  BY <1>1, <1>2, EmptySeq, DistantFsAssumption DEF InitFs, FsReste
<1>4. ASSUME NEW C, NEW A, NEW R PROVE Portent(C, A, R)
  BY EmptySeq DEF InitLien, InitFs, Portent, Tient, Cotes
<1> QED
  BY <1>3, <1>4 DEF InitFs

\* The answers at the start.
LEMMA ReponsesDebut ==
  ASSUME InitLien, InitFs, NEW u, usage = u
  PROVE  ReponsesInd(u)
BY FsDebut DEF ReponsesInd, Recente

\* The invariant holds at the start.
LEMMA ListingDebut ==
  ASSUME InitLien, InitFs, usage = "listing"
  PROVE  ListingInd
BY FsDebut, ReponsesDebut DEF ListingInd, ListingFrais

-----------------------------------------------------------------------------
\* What a slice leaves of the file it is written to.
Ecrite(f, S, contenu, offset, donnees, fin) ==
  /\ f \in Seq(S) /\ Len(f) >= offset + Len(donnees)
  /\ \A i \in 1..offset : f[i] = contenu[i]
  /\ \A i \in 1..Len(donnees) : f[offset + i] = donnees[i]
  /\ fin => Len(f) = offset + Len(donnees)

\* Ecrire keeps what precedes the offset, writes the slice there, cuts the rest at the end.
LEMMA EcrireTranche ==
  ASSUME NEW S, NEW contenu \in Seq(S), NEW offset \in Nat, offset <= Len(contenu),
         NEW donnees \in Seq(S), NEW fin
  PROVE  Ecrite(Ecrire(contenu, offset, donnees, fin), S, contenu, offset, donnees, fin)
<1>f. PICK f : f = Ecrire(contenu, offset, donnees, fin)
  OBVIOUS
<1>g. SUFFICES /\ f \in Seq(S) /\ Len(f) >= offset + Len(donnees)
               /\ \A i \in 1..offset : f[i] = contenu[i]
               /\ \A i \in 1..Len(donnees) : f[offset + i] = donnees[i]
               /\ fin => Len(f) = offset + Len(donnees)
  BY <1>f DEF Ecrite
<1> DEFINE m == IF Len(contenu) > offset + Len(donnees) THEN Len(contenu) ELSE offset + Len(donnees)
           e == [i \in 1..m |-> IF i \in (offset + 1)..(offset + Len(donnees))
                                THEN donnees[i - offset] ELSE contenu[i]]
<1>1. /\ Len(contenu) \in Nat /\ Len(donnees) \in Nat
      /\ \A i \in 1..Len(contenu) : contenu[i] \in S
      /\ \A i \in 1..Len(donnees) : donnees[i] \in S
  BY LenProperties, ElementOfSeq
<1>2. m \in Nat /\ m >= offset + Len(donnees)
  BY <1>1
<1>3. ASSUME NEW i \in 1..m PROVE e[i] \in S
  <2>1. CASE i \in (offset + 1)..(offset + Len(donnees))
    <3>1. i - offset \in 1..Len(donnees)
      BY <1>1, <2>1
    <3> QED
      BY <1>1, <2>1, <3>1
  <2>2. CASE ~(i \in (offset + 1)..(offset + Len(donnees)))
    <3>1. i \in 1..Len(contenu)
      BY <1>1, <1>2, <2>2
    <3> QED
      BY <1>1, <2>2, <3>1
  <2> QED
    BY <2>1, <2>2
<1>4. f = IF fin THEN SubSeq(e, 1, offset + Len(donnees)) ELSE e
  BY <1>f DEF Ecrire
<1>5. \A i \in 1..offset : i \in 1..m /\ e[i] = contenu[i]
  BY <1>1, <1>2
<1>6. \A i \in 1..Len(donnees) : offset + i \in 1..m /\ e[offset + i] = donnees[i]
  BY <1>1, <1>2
<1> HIDE DEF m
<1>7. e \in Seq(S) /\ Len(e) = m
  BY <1>2, <1>3
<1> HIDE DEF e
<1>8. CASE fin
  <2>1. f = SubSeq(e, 1, offset + Len(donnees))
    BY <1>4, <1>8
  <2>2. f \in Seq(S) /\ Len(f) = offset + Len(donnees)
    BY <1>1, <1>2, <1>7, <2>1
  <2>3. \A i \in 1..(offset + Len(donnees)) : f[i] = e[i]
    BY <1>1, <1>2, <1>7, <2>1
  <2>4. \A i \in 1..offset : i \in 1..(offset + Len(donnees))
    BY <1>1
  <2>5. \A i \in 1..Len(donnees) : offset + i \in 1..(offset + Len(donnees))
    BY <1>1
  <2>6. \A i \in 1..offset : f[i] = contenu[i]
    BY <1>5, <2>3, <2>4
  <2>7. \A i \in 1..Len(donnees) : f[offset + i] = donnees[i]
    BY <1>6, <2>3, <2>5
  <2> QED
    BY <1>1, <2>2, <2>6, <2>7
<1>9. CASE ~fin
  BY <1>2, <1>4, <1>5, <1>6, <1>7, <1>9
<1> QED
  BY <1>8, <1>9

\* What the bodies of answers carry.
LEMMA CorpsTypes ==
  ASSUME NEW corps \in CorpsDe("telechargement")
  PROVE  /\ corps.erreur \in BOOLEAN /\ corps.fin \in BOOLEAN
         /\ corps.donnees \in Seq(Nat \X Nat)
<1>1. CASE corps = Refus
  BY <1>1, EmptySeq DEF Refus
<1>2. ASSUME NEW v \in 1..MaxVersion, NEW cle \in ClesDe("telechargement"), corps = LuDe(v, cle)
      PROVE  /\ corps.erreur \in BOOLEAN /\ corps.fin \in BOOLEAN
             /\ corps.donnees \in Seq(Nat \X Nat)
  <2>1. Longueurs[v] \in Nat /\ v \in Nat
    BY DistantFsAssumption, ElementOfSeq DEF MaxVersion
  <2>2. cle.offset \in Nat /\ corps = TrancheDe(v, cle.offset)
    BY <1>2 DEF ClesDe, LuDe
  <2>3. CASE cle.offset > Longueurs[v]
    <3>1. corps = Refus
      BY <2>1, <2>2, <2>3 DEF TrancheDe
    <3> QED
      BY <1>1, <3>1
  <2>4. CASE cle.offset = Longueurs[v]
    <3>1. corps = [erreur |-> FALSE, donnees |-> <<>>, fin |-> TRUE]
      BY <2>1, <2>2, <2>4 DEF TrancheDe
    <3> QED
      BY <3>1, EmptySeq
  <2>5. CASE cle.offset < Longueurs[v]
    <3>1. PICK b : b = <<v, cle.offset + 1>>
      OBVIOUS
    <3>2. b \in Nat \X Nat
      BY <2>1, <2>2, <3>1
    <3>3. <<b>> \in Seq(Nat \X Nat)
      BY <3>2
    <3>4. corps = [erreur |-> FALSE, donnees |-> <<b>>, fin |-> cle.offset + 1 = Longueurs[v]]
      BY <2>1, <2>2, <2>5, <3>1 DEF TrancheDe
    <3> QED
      BY <3>3, <3>4
  <2> QED
    BY <2>1, <2>2, <2>3, <2>4, <2>5
<1> QED
  BY <1>1, <1>2 DEF CorpsDe

\* What a download that ends well has left in the file it wrote.
Fidele(fin, f) ==
  ~fin.erreur =>
    /\ \E v \in fin.versions : Len(f) = Longueurs[v]
    /\ \A i \in 1..Len(f) : \E v \in fin.versions : f[i] = <<v, i>>

\* One turn of the loop of a download.
LEMMA TelechargementTour ==
  ASSUME TelechargementInd, NEW a \in Appelants, RecevoirTranche(a)
  PROVE  TelechargementInd'
<1>1. PICK R : R = RecuesA("telechargement")
  OBVIOUS
<1>2. PICK r, cle, reste, suivante, n :
        /\ r = Reclamee(a) /\ cle = appel[a].cle /\ reste = Restent(a)
        /\ suivante = Cle("Tranche", cle.chemin, cle.offset + Len(r.donnees))
        /\ n = appel[a].versions
  OBVIOUS
<1>3. /\ ReponsesInd("telechargement") /\ FsReste("telechargement") /\ Reclamable(a)
      /\ Portent(TramesA("telechargement"), ReponsesA("telechargement"), R)
      /\ cle.genre = "Tranche" /\ "Tranche" \in Genres /\ usage = "telechargement"
      /\ UNCHANGED <<usage, ouvert, fils, epoque, canal, perms, voulues, changements>>
      /\ UNCHANGED <<version, aEmettre, appels>>
      /\ appel[a] # Rien
  BY <1>1, <1>2 DEF TelechargementInd, ReponsesInd, RecevoirTranche, droits, Genres, Reclamable,
                    FsReste, LienInd
<1>4. /\ appel[a] \in AppelsFs("telechargement")
      /\ \E x \in R : x.cle = cle /\ r = x.corps
      /\ reste \in Seq({x \in R : x.cle.genre = "Tranche"}) /\ Len(reste) <= REPONSES_MAX
  <2>1. /\ appel[a] \in AppelsFs("telechargement")
        /\ \E x \in R : x.cle = appel[a].cle /\ Reclamee(a) = x.corps
        /\ Restent(a) \in Seq({x \in R : x.cle.genre = appel[a].cle.genre})
        /\ Len(Restent(a)) <= REPONSES_MAX
    BY <1>3, FsReclamee
  <2>2. {x \in R : x.cle.genre = appel[a].cle.genre} = {x \in R : x.cle.genre = "Tranche"}
    BY <1>2, <1>3
  <2> QED
    BY <1>2, <2>1, <2>2
<1>5. /\ cle \in ClesDe("telechargement") /\ cle.offset \in Nat /\ cle.chemin = Rien
      /\ r \in CorpsDe("telechargement") /\ n \subseteq 1..MaxVersion
      /\ r \in {Refus} \cup {LuDe(v, cle) : v \in n}
  <2>1. cle \in ClesDe("telechargement") /\ n \subseteq 1..MaxVersion
    BY <1>2, <1>4 DEF AppelsFs
  <2>2. cle.offset \in Nat /\ cle.chemin = Rien
    BY <1>3, <2>1 DEF ClesDe
  <2> QED
    BY <1>1, <1>2, <1>3, <1>4, <2>1, <2>2 DEF RecuesA, Recues
<1>6. /\ r.erreur \in BOOLEAN /\ r.fin \in BOOLEAN /\ r.donnees \in Seq(Nat \X Nat)
  BY <1>5, CorpsTypes
<1>7. /\ local \in [Appelants -> Seq(Nat \X Nat)] /\ DOMAIN rendu = Appelants
      /\ appel \in [Appelants -> {Rien} \cup AppelsFs("telechargement")]
      /\ DOMAIN recues = Genres
  BY <1>3 DEF TelechargementInd, FsReste
<1>8. /\ rendu[a] = Rien /\ cle.offset <= Len(local[a])
      /\ \A i \in 1..cle.offset : \E v \in n : local[a][i] = <<v, i>>
  BY <1>2, <1>3 DEF TelechargementInd, Ecrit
\* The call ends: whatever is written and whatever becomes of the table of slices.
<1>9. ASSUME NEW fin, rendu' = [rendu EXCEPT ![a] = fin], appel' = [appel EXCEPT ![a] = Rien],
             recues' = [recues EXCEPT !["Tranche"] = reste], commandes' = commandes,
             local' \in [Appelants -> Seq(Nat \X Nat)],
             \A b \in Appelants : b # a => local'[b] = local[b],
             Fidele(fin, local'[a])
      PROVE  TelechargementInd'
  <2>1. recues'["Tranche"] = reste /\ \A g \in Genres : g # "Tranche" => recues'[g] = recues[g]
    BY <1>7, <1>9, <1>3
  <2>2. FsReste("telechargement")'
    <3>1. LienInd(TramesFs("telechargement"), OrdresFs("telechargement"), "telechargement")'
      BY <1>3, <1>9 DEF FsReste, LienInd
    <3>2. \A g \in Genres : Len(recues'[g]) <= REPONSES_MAX
      BY <1>3, <1>4, <2>1 DEF FsReste
    <3> QED
      BY <1>3, <1>9, <3>1, <3>2 DEF FsReste
  <2>3. appel'[a] = Rien /\ \A b \in Appelants : b # a => appel'[b] = appel[b]
    BY <1>7, <1>9
  <2>4. R \subseteq RecuesA("telechargement")'
    BY <1>1, <2>3, RecuesFinir
  <2>5. ASSUME NEW g \in Genres PROVE recues'[g] \in Seq({x \in R : x.cle.genre = g})
    <3>1. recues[g] \in Seq({x \in R : x.cle.genre = g})
      BY <1>3 DEF Portent, Tient
    <3>2. CASE g = "Tranche"
      BY <1>4, <2>1, <3>2
    <3>3. CASE g # "Tranche"
      BY <2>1, <3>1, <3>3
    <3> QED
      BY <3>2, <3>3
  <2>6. ReponsesInd("telechargement")'
    BY <1>3, <2>2, <2>3, <2>4, <2>5, ReponsesFinir
  <2>7. TelechargementFidele'
    <3>1. ASSUME NEW b \in Appelants, (usage = "telechargement" /\ rendu[b] # Rien /\ ~rendu[b].erreur)'
          PROVE  Fidele(rendu'[b], local'[b])
      <4>1. CASE b = a
        BY <1>7, <1>9, <4>1
      <4>2. CASE b # a
        <5>1. rendu'[b] = rendu[b] /\ local'[b] = local[b] /\ usage' = usage
          BY <1>3, <1>7, <1>9, <4>2
        <5> QED
          BY <3>1, <5>1 DEF TelechargementInd, TelechargementFidele, Fidele
      <4> QED
        BY <4>1, <4>2
    <3> QED
      BY <3>1 DEF TelechargementFidele, Fidele
  <2>8. ASSUME NEW b \in Appelants PROVE Ecrit(b)'
    <3>1. CASE b = a
      BY <2>3, <3>1 DEF Ecrit
    <3>2. CASE b # a
      <4>1. rendu'[b] = rendu[b] /\ local'[b] = local[b] /\ appel'[b] = appel[b] /\ Ecrit(b)
        BY <1>7, <1>9, <3>2 DEF TelechargementInd
      <4> QED
        BY <4>1 DEF Ecrit
    <3> QED
      BY <3>1, <3>2
  <2> QED
    BY <1>9, <2>6, <2>7, <2>8 DEF TelechargementInd
\* The call is refused.
<1>10. CASE r.erreur
  <2>1. PICK fin : fin = [erreur |-> TRUE, versions |-> {}, lu |-> <<>>]
    OBVIOUS
  <2>2. /\ rendu' = [rendu EXCEPT ![a] = fin] /\ appel' = [appel EXCEPT ![a] = Rien]
        /\ recues' = [recues EXCEPT !["Tranche"] = reste] /\ commandes' = commandes /\ local' = local
    BY <1>2, <1>10, <2>1 DEF RecevoirTranche, Rendre
  <2>3. Fidele(fin, local'[a])
    BY <2>1 DEF Fidele
  <2> QED
    BY <1>7, <1>9, <2>2, <2>3
\* The slice is written.
<1>11. CASE ~r.erreur
  <2>1. PICK f : f = Ecrire(local[a], cle.offset, r.donnees, r.fin)
    OBVIOUS
  <2>2. local' = [local EXCEPT ![a] = f]
    BY <1>2, <1>11, <2>1 DEF RecevoirTranche
  <2>3. /\ f \in Seq(Nat \X Nat) /\ Len(f) >= cle.offset + Len(r.donnees)
        /\ \A i \in 1..cle.offset : f[i] = local[a][i]
        /\ \A i \in 1..Len(r.donnees) : f[cle.offset + i] = r.donnees[i]
        /\ r.fin => Len(f) = cle.offset + Len(r.donnees)
    <3>1. local[a] \in Seq(Nat \X Nat)
      BY <1>7
    <3> QED
      <4>1. Ecrite(f, Nat \X Nat, local[a], cle.offset, r.donnees, r.fin)
        BY <1>5, <1>6, <1>8, <2>1, <3>1, EcrireTranche
      <4> QED
        BY <4>1 DEF Ecrite
  <2>4. /\ local' \in [Appelants -> Seq(Nat \X Nat)] /\ local'[a] = f
        /\ \A b \in Appelants : b # a => local'[b] = local[b]
    BY <1>7, <2>2, <2>3
  <2>5. PICK m : m = cle.offset + Len(r.donnees)
    OBVIOUS
  <2>6. m \in Nat /\ m >= cle.offset /\ Len(r.donnees) \in Nat
    BY <1>5, <1>6, <2>5, LenProperties
  <2>7. PICK v \in n : r = LuDe(v, cle)
    BY <1>5, <1>11 DEF Refus
  <2>8. /\ r.fin => m = Longueurs[v]
        /\ \A i \in 1..m : \E w \in n : f[i] = <<w, i>>
    <3>1. Longueurs[v] \in Nat
      BY <1>5, <2>7, DistantFsAssumption, ElementOfSeq DEF MaxVersion
    <3>2. r = TrancheDe(v, cle.offset)
      BY <1>3, <2>7 DEF LuDe
    <3>3. CASE cle.offset = Longueurs[v]
      <4>1. r.donnees = <<>> /\ Len(r.donnees) = 0
        BY <3>1, <3>2, <3>3, EmptySeq DEF TrancheDe
      <4>2. m = cle.offset
        BY <1>5, <2>5, <4>1
      <4> QED
        BY <1>8, <2>3, <3>3, <4>2
    <3>4. CASE cle.offset < Longueurs[v]
      <4>1. r = [erreur |-> FALSE, donnees |-> <<<<v, cle.offset + 1>>>>,
                 fin |-> cle.offset + 1 = Longueurs[v]]
        BY <1>5, <3>1, <3>2, <3>4 DEF TrancheDe
      <4>2. Len(r.donnees) = 1 /\ r.donnees[1] = <<v, cle.offset + 1>>
            /\ (r.fin => cle.offset + 1 = Longueurs[v])
        BY <4>1
      <4>3. m = cle.offset + 1 /\ f[cle.offset + 1] = <<v, cle.offset + 1>>
        BY <1>5, <2>3, <2>5, <4>2
      <4>4. \A i \in 1..m : i \in 1..cle.offset \/ i = cle.offset + 1
        BY <1>5, <4>3
      <4>5. \A i \in 1..m : \E w \in n : f[i] = <<w, i>>
        BY <1>8, <2>3, <2>7, <4>3, <4>4
      <4> QED
        BY <4>2, <4>3, <4>5
    <3>5. CASE cle.offset > Longueurs[v]
      <4>1. r = Refus
        BY <1>5, <3>1, <3>2, <3>5 DEF TrancheDe
      <4> QED
        BY <1>11, <4>1 DEF Refus
    <3> QED
      BY <1>5, <3>1, <3>3, <3>4, <3>5
  <2>9. CASE r.fin
    <3>1. PICK fin : fin = [erreur |-> FALSE, versions |-> n, lu |-> <<>>]
      OBVIOUS
    <3>2. /\ rendu' = [rendu EXCEPT ![a] = fin] /\ appel' = [appel EXCEPT ![a] = Rien]
          /\ recues' = [recues EXCEPT !["Tranche"] = reste] /\ commandes' = commandes
      BY <1>2, <1>11, <2>9, <3>1 DEF RecevoirTranche, Rendre
    <3>3. Fidele(fin, f)
      <4>1. fin.versions = n /\ Len(f) = m /\ m = Longueurs[v]
        BY <2>3, <2>5, <2>8, <2>9, <3>1
      <4> QED
        BY <2>7, <2>8, <4>1 DEF Fidele
    <3> QED
      BY <1>9, <2>4, <3>2, <3>3
  <2>10. CASE ~r.fin
    <3>1. PICK ordre, suite : /\ ordre = [type |-> "Demander", cle |-> suivante]
                              /\ suite = Purger(reste, suivante)
      OBVIOUS
    <3>2. /\ recues' = [recues EXCEPT !["Tranche"] = suite] /\ Commander("Controller", ordre)
          /\ appel' = [appel EXCEPT ![a].cle = suivante] /\ rendu' = rendu
      BY <1>2, <1>11, <2>10, <3>1 DEF RecevoirTranche
    <3>3. suivante \in ClesDe("telechargement") /\ suivante.offset = m /\ suivante.genre = "Tranche"
      BY <1>2, <1>5, <2>5, <2>6 DEF Cle, ClesDe
    <3>4. appel'[a] = [cle |-> suivante, versions |-> n]
          /\ \A b \in Appelants : b # a => appel'[b] = appel[b]
      BY <1>2, <1>4, <1>7, <3>2 DEF AppelsFs
    <3>5. appel' \in [Appelants -> {Rien} \cup AppelsFs("telechargement")]
      BY <1>5, <1>7, <3>2, <3>3, <3>4 DEF AppelsFs
    <3>8. /\ suite \in Seq({x \in {y \in R : y.cle.genre = "Tranche"} : x.cle # suivante})
          /\ Len(suite) <= REPONSES_MAX
      <4>1. PICK T : T = {y \in R : y.cle.genre = "Tranche"}
        OBVIOUS
      <4>2. reste \in Seq(T)
        BY <1>4, <4>1
      <4>3. suite \in Seq({x \in T : x.cle # suivante}) /\ Len(suite) <= Len(reste)
        BY <3>1, <4>2, PurgerGarde
      <4>4. Len(suite) <= REPONSES_MAX
        BY <1>4, <4>2, <4>3, LenProperties, DistantFsAssumption
      <4> QED
        BY <4>1, <4>3, <4>4
    <3>9. recues'["Tranche"] = suite /\ DOMAIN recues' = Genres
          /\ \A g \in Genres : g # "Tranche" => recues'[g] = recues[g]
      BY <1>3, <1>7, <3>2
    <3>10. FsReste("telechargement")'
      <4> DEFINE K == OrdresFs("telechargement") \cup MajDe("telechargement")
      <4>1. commandes \in [Cotes -> Seq(K)] /\ "Controller" \in Cotes
        BY <1>3 DEF FsReste, LienInd, Cotes
      <4>2. ordre \in K
        BY <3>1, <3>3 DEF OrdresFs
      <4>3. commandes' \in [Cotes -> Seq(K)]
        <5> HIDE DEF K
        <5> QED
          BY <3>2, <4>1, <4>2, CommanderType
      <4>4. LienInd(TramesFs("telechargement"), OrdresFs("telechargement"), "telechargement")'
        BY <1>3, <4>3 DEF FsReste, LienInd
      <4>5. \A g \in Genres : Len(recues'[g]) <= REPONSES_MAX
        BY <1>3, <3>8, <3>9 DEF FsReste
      <4> QED
        BY <1>3, <3>2, <3>5, <3>9, <4>4, <4>5 DEF FsReste
    <3>12. PICK P : P = {x \in R : x.cle # suivante}
      OBVIOUS
    <3>13. ASSUME NEW x \in R,
                  NEW b \in Appelants, appel'[b] # Rien, appel'[b].cle = x.cle, x.cle # suivante
           PROVE  x.corps \in {Refus} \cup {LuDe(w, x.cle) : w \in appel'[b].versions}
      <4>1. b # a
        BY <3>4, <3>13
      <4> QED
        BY <1>1, <3>4, <3>13, <4>1 DEF RecuesA
    <3>14. P \subseteq RecuesA("telechargement")'
      <4>1. \A x \in R : x \in Recues("telechargement")
        BY <1>1 DEF RecuesA
      <4> QED
        BY <3>12, <3>13, <4>1 DEF RecuesA
    <3>15. ASSUME NEW g \in Genres PROVE recues'[g] \in Seq({x \in P : x.cle.genre = g})
      <4>1. recues[g] \in Seq({x \in R : x.cle.genre = g})
        BY <1>3 DEF Portent, Tient
      <4>2. CASE g = "Tranche"
        <5>1. {x \in {y \in R : y.cle.genre = "Tranche"} : x.cle # suivante} = {x \in P : x.cle.genre = g}
          BY <3>12, <4>2
        <5> QED
          BY <3>8, <3>9, <4>2, <5>1
      <4>3. CASE g # "Tranche"
        <5>1. {x \in R : x.cle.genre = g} = {x \in P : x.cle.genre = g}
          BY <3>3, <3>12, <4>3
        <5> QED
          BY <3>9, <4>1, <4>3, <5>1
      <4> QED
        BY <4>2, <4>3
    <3>16. ReponsesInd("telechargement")'
      <4>1. \A b \in Appelants :
              appel'[b] # Rien => appel[b] # Rien /\ appel'[b].versions = appel[b].versions
        BY <1>2, <1>3, <3>4
      <4> QED
        BY <1>3, <3>10, <3>14, <3>15, <4>1, ReponsesFinir
    <3>17. TelechargementFidele'
      <4>1. ASSUME NEW b \in Appelants, rendu[b] # Rien PROVE b # a /\ local'[b] = local[b]
        BY <1>8, <2>4, <4>1
      <4> QED
        BY <1>3, <3>2, <4>1 DEF TelechargementInd, TelechargementFidele
    <3>18. ASSUME NEW b \in Appelants PROVE Ecrit(b)'
      <4>1. CASE b = a
        <5>1. appel'[a].cle.offset = m /\ m <= Len(local'[a]) /\ rendu'[a] = Rien
              /\ appel'[a].versions = n /\ local'[a] = f
          BY <1>8, <2>3, <2>4, <2>5, <3>2, <3>3, <3>4
        <5> QED
          BY <2>8, <4>1, <5>1 DEF Ecrit
      <4>2. CASE b # a
        <5>1. rendu'[b] = rendu[b] /\ local'[b] = local[b] /\ appel'[b] = appel[b] /\ Ecrit(b)
          BY <2>4, <3>2, <3>4, <4>2 DEF TelechargementInd
        <5> QED
          BY <5>1 DEF Ecrit
      <4> QED
        BY <4>1, <4>2
    <3> QED
      BY <2>4, <3>16, <3>17, <3>18 DEF TelechargementInd
  <2> QED
    BY <1>6, <2>9, <2>10
<1> QED
  BY <1>6, <1>10, <1>11

\* A step that leaves what a call returned, or makes it fail, keeps the others' files.
LEMMA FideleGarde ==
  ASSUME TelechargementFidele, usage' = usage,
         \A b \in Appelants : \/ rendu'[b] = Rien \/ rendu'[b].erreur
                              \/ rendu'[b] = rendu[b] /\ local'[b] = local[b]
  PROVE  TelechargementFidele'
<1>1. ASSUME NEW b \in Appelants, (usage = "telechargement" /\ rendu[b] # Rien /\ ~rendu[b].erreur)'
      PROVE  Fidele(rendu'[b], local'[b])
  <2>1. rendu'[b] = rendu[b] /\ local'[b] = local[b] /\ usage' = usage
    BY <1>1
  <2> QED
    BY <1>1, <2>1 DEF TelechargementFidele, Fidele
<1> QED
  BY <1>1 DEF TelechargementFidele, Fidele

\* Every step of a session used for downloads preserves the invariant.
LEMMA TelechargementPas ==
  ASSUME TelechargementInd, "telechargement" \in Usages, NextFs
  PROVE  TelechargementInd'
<1>0. /\ usage = "telechargement" /\ ReponsesInd("telechargement") /\ TelechargementFidele
      /\ "telechargement" \in {"listing", "telechargement"} /\ DOMAIN rendu = Appelants
      /\ local \in [Appelants -> Seq(Nat \X Nat)] /\ \A a \in Appelants : Ecrit(a)
  BY DEF TelechargementInd, ReponsesInd, FsReste, LienInd
<1>1. ASSUME NEW a \in Appelants PROVE ~RecevoirListing(a) /\ \A p \in Chemins : ~Lister(a, p)
  <2>1. \A p \in Chemins : ~Lister(a, p)
    BY <1>0 DEF Lister
  <2>2. appel[a] # Rien => appel[a].cle.genre = "Tranche"
    BY DEF TelechargementInd, ReponsesInd, FsReste, AppelsFs, ClesDe
  <2> QED
    BY <2>1, <2>2 DEF RecevoirListing, Reclamable
<1>2. ASSUME NEW a \in Appelants, Telecharger(a) PROVE TelechargementInd'
  <2>1. PICK cle : cle = Cle("Tranche", Rien, 0)
    OBVIOUS
  <2>2. cle \in ClesDe("telechargement") /\ cle.offset = 0 /\ Commencer(a, cle)
    BY <1>2, <2>1 DEF Cle, ClesDe, Telecharger
  <2>3. /\ ReponsesInd("telechargement")' /\ rendu' = [rendu EXCEPT ![a] = Rien] /\ usage' = usage
        /\ local' = local /\ appel'[a].cle = cle
        /\ \A b \in Appelants : b # a => appel'[b] = appel[b]
    BY <1>0, <2>2, ReponsesCommencer
  <2>4. rendu'[a] = Rien /\ \A b \in Appelants : b # a => rendu'[b] = rendu[b]
    BY <1>0, <2>3
  <2>5. TelechargementFidele'
    BY <1>0, <2>3, <2>4, FideleGarde
  <2>6. ASSUME NEW b \in Appelants PROVE Ecrit(b)'
    <3>1. CASE b = a
      <4>1. PICK o, m : o = appel'[a].cle.offset /\ m = Len(local'[a])
        OBVIOUS
      <4>2. m \in Nat
        BY <1>0, <2>3, <4>1, LenProperties
      <4>3. o = 0
        BY <2>2, <2>3, <4>1
      <4>4. o <= m /\ \A i : i \notin 1..o
        BY <4>2, <4>3
      <4> QED
        BY <2>4, <3>1, <4>1, <4>4, Zenon DEF Ecrit
    <3>2. CASE b # a
      <4>1. /\ Ecrit(b) /\ appel'[b] = appel[b] /\ rendu'[b] = rendu[b]
            /\ local'[b] = local[b]
        BY <1>0, <2>3, <2>4, <3>2
      <4> QED
        BY <4>1 DEF Ecrit
    <3> QED
      BY <3>1, <3>2
  <2> QED
    BY <1>0, <2>3, <2>5, <2>6 DEF TelechargementInd
<1>3. ASSUME NEW a \in Appelants, Expirer(a) PROVE TelechargementInd'
  <2>1. /\ ReponsesInd("telechargement")' /\ usage' = usage /\ local' = local
        /\ rendu'[a].erreur /\ appel'[a] = Rien
        /\ \A b \in Appelants : b # a => rendu'[b] = rendu[b] /\ appel'[b] = appel[b]
    BY <1>0, <1>3, ReponsesExpirer
  <2>2. TelechargementFidele'
    BY <1>0, <2>1, FideleGarde
  <2>3. ASSUME NEW b \in Appelants PROVE Ecrit(b)'
    <3>1. Ecrit(b) /\ (b # a => rendu'[b] = rendu[b] /\ appel'[b] = appel[b] /\ local'[b] = local[b])
      BY <1>0, <2>1
    <3> QED
      BY <2>1, <3>1 DEF Ecrit
  <2> QED
    BY <1>0, <2>1, <2>2, <2>3 DEF TelechargementInd
<1>4. CASE Modifier
  <2>1. /\ ReponsesInd("telechargement")' /\ UNCHANGED <<local, rendu, usage>>
        /\ \A a \in Appelants : appel'[a] # Rien =>
             /\ appel[a] # Rien /\ appel'[a].cle = appel[a].cle
             /\ appel[a].versions \subseteq appel'[a].versions
    BY <1>0, <1>4, ReponsesModifier
  <2>2. TelechargementFidele'
    BY <1>0, <2>1, FideleGarde
  <2>3. ASSUME NEW b \in Appelants, appel'[b] # Rien PROVE Ecrit(b)'
    <3>1. /\ Ecrit(b) /\ appel[b] # Rien /\ appel'[b].cle = appel[b].cle
          /\ appel[b].versions \subseteq appel'[b].versions
      BY <1>0, <2>1, <2>3
    <3> QED
      BY <2>1, <3>1 DEF Ecrit
  <2>4. \A b \in Appelants : Ecrit(b)'
    BY <2>3 DEF Ecrit
  <2> QED
    BY <1>0, <2>1, <2>2, <2>4 DEF TelechargementInd
<1>5. CASE \/ EmettreRequete \/ TraiterRequete
           \/ \E g \in Genres : EmettreReponse(g) \/ RecevoirReponse(g)
           \/ (NextLien \/ NextPermissions) /\ UNCHANGED varsFs
  <2>1. ReponsesInd("telechargement")' /\ UNCHANGED <<version, appel, local, rendu, usage>>
    BY <1>0, <1>5, ReponsesFlot
  <2>2. TelechargementFidele' /\ \A b \in Appelants : Ecrit(b)'
    BY <1>0, <2>1, FideleGarde DEF Ecrit
  <2> QED
    BY <1>0, <2>1, <2>2 DEF TelechargementInd
<1> QED
  BY <1>1, <1>2, <1>3, <1>4, <1>5, TelechargementTour DEF NextFs

\* The invariant holds at the start.
LEMMA TelechargementDebut ==
  ASSUME InitLien, InitFs, usage = "telechargement"
  PROVE  TelechargementInd
<1>1. Ancien \in Seq(Nat \X Nat)
  BY DEF Ancien
<1>2. local \in [Appelants -> Seq(Nat \X Nat)]
  BY <1>1 DEF InitFs
<1> QED
  BY <1>2, FsDebut, ReponsesDebut DEF TelechargementInd, TelechargementFidele, Ecrit

=============================================================================
