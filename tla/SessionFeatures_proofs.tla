----------------------- MODULE SessionFeatures_proofs -----------------------
(***************************************************************************)
(* Theorems of an extended session.  What it is used for does not change:  *)
(* each feature has an inductive invariant for the sessions used for it    *)
(* (DistantFs_proofs has that of the listings and of the downloads), and   *)
(* its variables keep their initial values in the others.                  *)
(***************************************************************************)
EXTENDS SessionFeatures, DistantFs_proofs

-----------------------------------------------------------------------------
(***************************************************************************)
(* The tunnels.                                                            *)
(***************************************************************************)
CorpsTunnel ==
  [id : Connexions, genre : {"OUVRIR", "DONNEES", "FERMER"}, connexion : Connexions,
   bloc : 0..MaxBlocs]
\* The frames of a tunnel.
TramesTunnel == [type : {"Tunnel"}, corps : CorpsTunnel]

\* t may precede u: of one connection, the opening comes first and the blocks in order.
Avant(t, u) ==
  t.connexion = u.connexion =>
    /\ u.genre = "OUVRIR" => t.genre # "DONNEES"
    /\ t.genre = "DONNEES" /\ u.genre = "DONNEES" => t.bloc < u.bloc

\* A frame of a tunnel.
EstTunnel(f) == f.type = "Tunnel"

\* The bodies on their way: in the channel q, then in the queue s of the emitter.
EnTransit(q, s) ==
  {q[i].corps : i \in {j \in 1..Len(q) : EstTunnel(q[j])}} \cup {s[i] : i \in 1..Len(s)}

\* Whatever precedes on the way may precede.
Ordonnes(q, s) ==
  /\ \A i, j \in 1..Len(q) :
       i < j /\ EstTunnel(q[i]) /\ EstTunnel(q[j]) => Avant(q[i].corps, q[j].corps)
  /\ \A i \in 1..Len(q), j \in 1..Len(s) : EstTunnel(q[i]) => Avant(q[i].corps, s[j])
  /\ \A i, j \in 1..Len(s) : i < j => Avant(s[i], s[j])

\* What is on its way to c.
Transit(c) == EnTransit(canal[c], sortie[Autre(c)])

\* The types; a connection has its number as identifier.
TypeTInd ==
  /\ connexions \in 0..MaxConnexions /\ prochain = connexions + 1
  /\ enCours \in 0..connexions
  /\ idDe \in [Connexions -> Nat] /\ \A k \in 1..connexions : idDe[k] = k
  /\ ponts \in [Cotes -> [Connexions -> Nat]]
  /\ \A c \in Cotes, i \in Connexions : ponts[c][i] \in {0, i}
  /\ lecteurs \in [Cotes -> SUBSET (1..connexions)]
  /\ joints \in [Cotes -> SUBSET (1..connexions)]
  /\ clos \in [Cotes -> SUBSET (1..connexions)]
  /\ sortie \in [Cotes -> Seq(CorpsTunnel)]
  /\ lus \in [Cotes -> [Connexions -> 0..MaxBlocs]]
  /\ \A c \in Cotes, k \in Connexions : k > connexions => lus[c][k] = 0
  /\ recus \in [Cotes -> [Connexions -> Seq(Connexions \X (0..MaxBlocs))]]

\* What is on its way to c is of known connections, and newer than what was received.
Fil(c) ==
  \A t \in Transit(c) :
    /\ t.connexion \in 1..connexions /\ t.id = t.connexion
    /\ t.genre = "OUVRIR" => c = "Controlled"
    /\ t.genre = "DONNEES" =>
         /\ 0 < t.bloc /\ t.bloc <= lus[Autre(c)][t.connexion]
         /\ \A i \in 1..Len(recus[c][t.connexion]) : recus[c][t.connexion][i][2] < t.bloc

\* What c received of k is of k, in order, and without holes before a cut or an overtaken block.
Recu(c, k) ==
  LET r == recus[c][k] IN
      /\ \A i \in 1..Len(r) : r[i][1] = k /\ r[i][2] <= lus[Autre(c)][k]
      /\ \A i, j \in 1..Len(r) : i < j => r[i][2] < r[j][2]
      /\ epoque = 1 /\ k \notin devancees => \A i \in 1..Len(r) : r[i][2] = i

\* The side c has the bridge of k, or will have it before the blocks on their way.
Attendu(c, k) ==
  \/ ponts[c][k] = k
  \/ c = "Controller" /\ enCours = k
  \/ c = "Controlled" /\ \E t \in Transit(c) : t.genre = "OUVRIR" /\ t.connexion = k

\* The block b of k was received by c or is on its way.
EnRoute(c, k, b) ==
  \/ b <= Len(recus[c][k])
  \/ \E t \in Transit(c) : t.genre = "DONNEES" /\ t.connexion = k /\ t.bloc = b

\* While c has the bridge of k, or will have it in time, no block that was read is lost.
Couvert(c, k) ==
  epoque = 1 /\ ouvert /\ k \in (1..connexions) \ devancees /\ Attendu(c, k) =>
     \A b \in 1..lus[Autre(c)][k] : EnRoute(c, k, b)

\* The invariant of a session used for tunnels.
TunnelInd ==
  /\ LienInd(TramesTunnel, {}, "tunnels")
  /\ TypeTInd
  /\ \A c \in Cotes :
       /\ Ordonnes(canal[c], sortie[Autre(c)]) /\ Fil(c)
       /\ \A k \in Connexions : Recu(c, k) /\ Couvert(c, k)
-----------------------------------------------------------------------------
\* What the emitter takes from its queue goes to the end of the channel.
LEMMA TransitEmettre ==
  ASSUME NEW S, NEW C, NEW q \in Seq(S), NEW s \in Seq(C), s # <<>>,
         [type |-> "Tunnel", corps |-> Head(s)] \in S
  PROVE  LET r == Append(q, [type |-> "Tunnel", corps |-> Head(s)]) IN
           /\ EnTransit(r, Tail(s)) = EnTransit(q, s)
           /\ Ordonnes(q, s) => Ordonnes(r, Tail(s))
<1> DEFINE f == [type |-> "Tunnel", corps |-> Head(s)]
           r == Append(q, f)
           t == Tail(s)
<1>1. /\ r \in Seq(S) /\ Len(r) = Len(q) + 1
      /\ \A i \in 1..Len(q) : r[i] = q[i]
      /\ r[Len(q) + 1] = f
  BY AppendProperties
<1>2. /\ t \in Seq(C) /\ Len(t) = Len(s) - 1
      /\ \A i \in 1..Len(t) : t[i] = s[i + 1]
  BY HeadTailProperties
<1>3. Len(q) \in Nat /\ Len(s) \in Nat /\ Len(s) > 0 /\ Head(s) = s[1]
  BY EmptySeq, LenProperties
<1>4. EstTunnel(f) /\ f.corps = s[1]
  BY <1>3 DEF EstTunnel
<1> HIDE DEF f, r, t
<1>5. EnTransit(r, t) = EnTransit(q, s)
  <2>1. ASSUME NEW x \in EnTransit(r, t) PROVE x \in EnTransit(q, s)
    <3>1. CASE \E i \in 1..Len(r) : EstTunnel(r[i]) /\ x = r[i].corps
      <4>1. PICK i \in 1..Len(r) : EstTunnel(r[i]) /\ x = r[i].corps
        BY <3>1
      <4>2. CASE i \in 1..Len(q)
        BY <1>1, <4>1, <4>2 DEF EnTransit
      <4>3. CASE i = Len(q) + 1
        BY <1>1, <1>3, <1>4, <4>1, <4>3 DEF EnTransit
      <4> QED
        BY <1>1, <1>3, <4>2, <4>3
    <3>2. CASE \E i \in 1..Len(t) : x = t[i]
      <4>1. PICK i \in 1..Len(t) : x = t[i]
        BY <3>2
      <4>2. i + 1 \in 1..Len(s) /\ x = s[i + 1]
        BY <1>2, <1>3, <4>1
      <4> QED
        BY <4>2 DEF EnTransit
    <3> QED
      BY <2>1, <3>1, <3>2 DEF EnTransit
  <2>2. ASSUME NEW x \in EnTransit(q, s) PROVE x \in EnTransit(r, t)
    <3>1. CASE \E i \in 1..Len(q) : EstTunnel(q[i]) /\ x = q[i].corps
      <4>1. PICK i \in 1..Len(q) : EstTunnel(q[i]) /\ x = q[i].corps
        BY <3>1
      <4>2. i \in 1..Len(r) /\ r[i] = q[i]
        BY <1>1, <1>3
      <4> QED
        BY <4>1, <4>2 DEF EnTransit
    <3>2. CASE \E i \in 1..Len(s) : x = s[i]
      <4>1. PICK i \in 1..Len(s) : x = s[i]
        BY <3>2
      <4>2. CASE i = 1
        <5>1. Len(q) + 1 \in 1..Len(r) /\ EstTunnel(r[Len(q) + 1]) /\ x = r[Len(q) + 1].corps
          BY <1>1, <1>3, <1>4, <4>1, <4>2
        <5> QED
          BY <5>1 DEF EnTransit
      <4>3. CASE i # 1
        <5>1. i - 1 \in 1..Len(t) /\ x = t[i - 1]
          BY <1>2, <1>3, <4>1, <4>3
        <5> QED
          BY <5>1 DEF EnTransit
      <4> QED
        BY <4>2, <4>3
    <3> QED
      BY <2>2, <3>1, <3>2 DEF EnTransit
  <2> QED
    BY <2>1, <2>2
<1>6. ASSUME Ordonnes(q, s) PROVE Ordonnes(r, t)
  <2>1. ASSUME NEW i \in 1..Len(r), NEW j \in 1..Len(r), i < j,
               EstTunnel(r[i]), EstTunnel(r[j])
        PROVE  Avant(r[i].corps, r[j].corps)
    <3>1. i \in 1..Len(q) /\ r[i] = q[i]
      BY <1>1, <1>3, <2>1
    <3>2. CASE j \in 1..Len(q)
      BY <1>1, <1>6, <2>1, <3>1, <3>2 DEF Ordonnes
    <3>3. CASE j = Len(q) + 1
      BY <1>1, <1>3, <1>4, <1>6, <2>1, <3>1, <3>3 DEF Ordonnes
    <3> QED
      BY <1>1, <1>3, <3>2, <3>3
  <2>2. ASSUME NEW i \in 1..Len(r), NEW j \in 1..Len(t), EstTunnel(r[i])
        PROVE  Avant(r[i].corps, t[j])
    <3>1. j + 1 \in 1..Len(s) /\ t[j] = s[j + 1] /\ 1 \in 1..Len(s) /\ 1 < j + 1
      BY <1>2, <1>3
    <3>2. CASE i \in 1..Len(q)
      BY <1>1, <1>6, <2>2, <3>1, <3>2 DEF Ordonnes
    <3>3. CASE i = Len(q) + 1
      BY <1>1, <1>4, <1>6, <3>1, <3>3 DEF Ordonnes
    <3> QED
      BY <1>1, <1>3, <3>2, <3>3
  <2>3. ASSUME NEW i \in 1..Len(t), NEW j \in 1..Len(t), i < j
        PROVE  Avant(t[i], t[j])
    <3>1. i + 1 \in 1..Len(s) /\ j + 1 \in 1..Len(s) /\ i + 1 < j + 1
      BY <1>2, <1>3, <2>3
    <3> QED
      BY <1>2, <1>6, <3>1 DEF Ordonnes
  <2> QED
    BY <2>1, <2>2, <2>3 DEF Ordonnes
<1> QED
  BY <1>5, <1>6 DEF r, t, f

\* What the emitter takes while the link is closed is lost.
LEMMA TransitPerdre ==
  ASSUME NEW C, NEW s \in Seq(C), s # <<>>
  PROVE  /\ EnTransit(<<>>, Tail(s)) \subseteq EnTransit(<<>>, s)
         /\ Ordonnes(<<>>, s) => Ordonnes(<<>>, Tail(s))
<1> DEFINE t == Tail(s)
<1>1. /\ t \in Seq(C) /\ Len(t) = Len(s) - 1
      /\ \A i \in 1..Len(t) : t[i] = s[i + 1]
  BY HeadTailProperties
<1>2. Len(s) \in Nat /\ Len(s) > 0 /\ 1..Len(<<>>) = {}
  BY EmptySeq, LenProperties
<1> HIDE DEF t
<1>3. \A i \in 1..Len(t) : i + 1 \in 1..Len(s) /\ t[i] = s[i + 1]
  BY <1>1, <1>2
<1>4. EnTransit(<<>>, t) \subseteq EnTransit(<<>>, s)
  BY <1>2, <1>3 DEF EnTransit
<1>5. ASSUME Ordonnes(<<>>, s) PROVE Ordonnes(<<>>, t)
  <2>1. \A i, j \in 1..Len(t) : i < j => i + 1 < j + 1
    BY <1>1, <1>2
  <2> QED
    BY <1>2, <1>3, <1>5, <2>1 DEF Ordonnes
<1> QED
  BY <1>4, <1>5 DEF t

\* Nothing is in the channel any more.
LEMMA TransitCouper ==
  ASSUME NEW S, NEW C, NEW q \in Seq(S), NEW s \in Seq(C)
  PROVE  /\ EnTransit(<<>>, s) \subseteq EnTransit(q, s)
         /\ Ordonnes(q, s) => Ordonnes(<<>>, s)
<1>1. 1..Len(<<>>) = {}
  OBVIOUS
<1> QED
  BY <1>1 DEF EnTransit, Ordonnes

\* A body enters the queue of the emitter.
LEMMA TransitEmpiler ==
  ASSUME NEW S, NEW C, NEW q \in Seq(S), NEW s \in Seq(C), NEW u \in C
  PROVE  /\ EnTransit(q, Append(s, u)) = EnTransit(q, s) \cup {u}
         /\ Ordonnes(q, s) /\ (\A x \in EnTransit(q, s) : Avant(x, u)) => Ordonnes(q, Append(s, u))
<1> DEFINE t == Append(s, u)
<1>1. /\ Len(t) = Len(s) + 1 /\ Len(s) \in Nat
      /\ \A i \in 1..Len(s) : t[i] = s[i]
      /\ t[Len(s) + 1] = u
  BY AppendProperties, LenProperties
<1> HIDE DEF t
<1>2. 1..Len(t) = (1..Len(s)) \cup {Len(s) + 1}
  BY <1>1
<1>3. {t[i] : i \in 1..Len(t)} = {s[i] : i \in 1..Len(s)} \cup {u}
  BY <1>1, <1>2
<1>4. EnTransit(q, t) = EnTransit(q, s) \cup {u}
  BY <1>3 DEF EnTransit
<1>5. ASSUME Ordonnes(q, s), \A x \in EnTransit(q, s) : Avant(x, u) PROVE Ordonnes(q, t)
  <2>1. \A i \in 1..Len(q) : EstTunnel(q[i]) => Avant(q[i].corps, u)
    BY <1>5 DEF EnTransit
  <2>2. \A i \in 1..Len(s) : Avant(s[i], u)
    BY <1>5 DEF EnTransit
  <2>3. \A i \in 1..Len(q), j \in 1..Len(t) : EstTunnel(q[i]) => Avant(q[i].corps, t[j])
    BY <1>1, <1>2, <1>5, <2>1 DEF Ordonnes
  <2>4. ASSUME NEW i \in 1..Len(t), NEW j \in 1..Len(t), i < j PROVE Avant(t[i], t[j])
    <3>1. i \in 1..Len(s) /\ t[i] = s[i]
      BY <1>1, <2>4
    <3> QED
      BY <1>1, <1>2, <1>5, <2>2, <2>4, <3>1 DEF Ordonnes
  <2> QED
    BY <1>5, <2>3, <2>4 DEF Ordonnes
<1> QED
  BY <1>4, <1>5 DEF t

\* A frame that is not of the tunnels enters the channel.
LEMMA TransitAutre ==
  ASSUME NEW S, NEW C, NEW q \in Seq(S), NEW s \in Seq(C), NEW f \in S, ~EstTunnel(f)
  PROVE  /\ EnTransit(Append(q, f), s) = EnTransit(q, s)
         /\ Ordonnes(q, s) => Ordonnes(Append(q, f), s)
<1> DEFINE r == Append(q, f)
<1>1. /\ Len(r) = Len(q) + 1 /\ Len(q) \in Nat
      /\ \A i \in 1..Len(q) : r[i] = q[i]
      /\ r[Len(q) + 1] = f
  BY AppendProperties, LenProperties
<1> HIDE DEF r
<1>2. \A i \in 1..Len(r) : EstTunnel(r[i]) => i \in 1..Len(q) /\ r[i] = q[i]
  BY <1>1
<1>3. \A i \in 1..Len(q) : i \in 1..Len(r) /\ r[i] = q[i]
  BY <1>1
<1>4. EnTransit(r, s) = EnTransit(q, s)
  BY <1>2, <1>3 DEF EnTransit
<1>5. ASSUME Ordonnes(q, s) PROVE Ordonnes(r, s)
  BY <1>2, <1>5 DEF Ordonnes
<1> QED
  BY <1>4, <1>5 DEF r

\* The receiving thread takes the first frame of the channel.
LEMMA TransitRecevoir ==
  ASSUME NEW S, NEW C, NEW q \in Seq(S), NEW s \in Seq(C), q # <<>>
  PROVE  /\ EnTransit(Tail(q), s) \subseteq EnTransit(q, s)
         /\ ~EstTunnel(Head(q)) => EnTransit(Tail(q), s) = EnTransit(q, s)
         /\ EstTunnel(Head(q)) => EnTransit(q, s) = EnTransit(Tail(q), s) \cup {Head(q).corps}
         /\ Ordonnes(q, s) =>
              /\ Ordonnes(Tail(q), s)
              /\ EstTunnel(Head(q)) => \A x \in EnTransit(Tail(q), s) : Avant(Head(q).corps, x)
<1> DEFINE r == Tail(q)
<1>1. /\ Len(r) = Len(q) - 1 /\ Len(q) \in Nat /\ Len(q) > 0 /\ Head(q) = q[1]
      /\ \A i \in 1..Len(r) : r[i] = q[i + 1]
  BY HeadTailProperties, EmptySeq, LenProperties
<1> HIDE DEF r
<1>2. \A i \in 1..Len(r) : i + 1 \in 1..Len(q) /\ 1 < i + 1 /\ r[i] = q[i + 1]
  BY <1>1
<1>3. \A i \in 1..Len(q) : i # 1 => i - 1 \in 1..Len(r) /\ q[i] = r[i - 1]
  BY <1>1
<1>4. EnTransit(r, s) \subseteq EnTransit(q, s)
  BY <1>2 DEF EnTransit
<1>5. ASSUME NEW x \in EnTransit(q, s), x \notin EnTransit(r, s)
      PROVE  EstTunnel(q[1]) /\ x = q[1].corps
  BY <1>3, <1>5 DEF EnTransit
<1>6. 1 \in 1..Len(q)
  BY <1>1
<1>7. EstTunnel(q[1]) => q[1].corps \in EnTransit(q, s)
  BY <1>6 DEF EnTransit
<1>8. ASSUME Ordonnes(q, s) PROVE Ordonnes(r, s)
  <2>1. \A i, j \in 1..Len(r) : i < j => i + 1 < j + 1
    BY <1>1
  <2> QED
    BY <1>2, <1>8, <2>1 DEF Ordonnes
<1>9. ASSUME Ordonnes(q, s), EstTunnel(q[1]), NEW x \in EnTransit(r, s)
      PROVE  Avant(q[1].corps, x)
  BY <1>2, <1>6, <1>9 DEF Ordonnes, EnTransit
<1> QED
  BY <1>1, <1>4, <1>5, <1>7, <1>8, <1>9 DEF r

-----------------------------------------------------------------------------
\* No frame of a tunnel is one of permissions.
LEMMA TunnelTrames ==
  /\ \A t \in TramesTunnel : t.type # "Permissions" /\ EstTunnel(t) /\ t.corps \in CorpsTunnel
  /\ \A t \in PermsDe("tunnels") : ~EstTunnel(t)
  /\ \A t \in TramesTunnel \cup PermsDe("tunnels") :
       t.type = "Tunnel" => t \in TramesTunnel /\ t.corps \in CorpsTunnel
  /\ \A x \in CorpsTunnel : [type |-> "Tunnel", corps |-> x] \in TramesTunnel
BY DEF TramesTunnel, PermsDe, EstTunnel

\* The two sides.
LEMMA AutreCote ==
  ASSUME NEW c \in Cotes
  PROVE  /\ Autre(c) \in Cotes /\ Autre(c) # c /\ Autre(Autre(c)) = c
         /\ \A d \in Cotes : d = c \/ d = Autre(c)
BY DEF Autre, Cotes

\* A step that leaves the blocks and the bridges as they are, and loses nothing on an open
\* link of the first epoch.
LEMMA TunnelStable ==
  ASSUME TunnelInd,
         UNCHANGED <<connexions, enCours, ponts, lus, recus, devancees>>,
         epoque' = epoque \/ epoque' # 1,
         epoque' = 1 /\ ouvert' => ouvert,
         \A c \in Cotes : Transit(c)' \subseteq Transit(c),
         \A c \in Cotes : ouvert' /\ epoque' = 1 => Transit(c)' = Transit(c)
  PROVE  \A c \in Cotes : Fil(c)' /\ \A k \in Connexions : Recu(c, k)' /\ Couvert(c, k)'
<1> SUFFICES ASSUME NEW c \in Cotes PROVE Fil(c)' /\ \A k \in Connexions : Recu(c, k)' /\ Couvert(c, k)'
  OBVIOUS
<1>1. Fil(c) /\ \A k \in Connexions : Recu(c, k) /\ Couvert(c, k)
  BY DEF TunnelInd
<1>2. Fil(c)'
  BY <1>1 DEF Fil
<1>3. ASSUME NEW k \in Connexions PROVE Recu(c, k)'
  BY <1>1 DEF Recu
<1>4. ASSUME NEW k \in Connexions PROVE Couvert(c, k)'
  <2>1. SUFFICES ASSUME epoque' = 1, ouvert'
                 PROVE  Couvert(c, k)'
    BY DEF Couvert
  <2>2. epoque = 1 /\ ouvert /\ Transit(c)' = Transit(c)
    BY <2>1
  <2>3. Couvert(c, k)
    BY <1>1
  <2>4. Attendu(c, k)' <=> Attendu(c, k)
    BY <2>2 DEF Attendu
  <2>5. \A b : EnRoute(c, k, b)' <=> EnRoute(c, k, b)
    BY <2>2 DEF EnRoute
  <2> QED
    BY <2>2, <2>3, <2>4, <2>5 DEF Couvert
<1> QED
  BY <1>2, <1>3, <1>4

\* A cut, an end of threads, a new epoch, a change of permissions.
LEMMA TunnelLien ==
  ASSUME TunnelInd, "tunnels" \in Usages, NextLien \/ NextPermissions, UNCHANGED varsT
  PROVE  TunnelInd'
<1> DEFINE S == TramesTunnel \cup PermsDe("tunnels")
<1>1. LienInd(TramesTunnel, {}, "tunnels")'
  BY TunnelTrames, LienPas DEF TunnelInd
<1>2. /\ canal \in [Cotes -> Seq(S)] /\ ouvert \in BOOLEAN /\ epoque \in 1..MaxEpoques
      /\ sortie \in [Cotes -> Seq(CorpsTunnel)] /\ epoque \in Nat
      /\ commandes \in [Cotes -> Seq({} \cup MajDe("tunnels"))]
  BY EtendueAssumption DEF TunnelInd, LienInd, TypeTInd
<1>3. TypeTInd'
  BY DEF TunnelInd, TypeTInd, varsT
<1> HIDE DEF S
<1>s. /\ sortie' = sortie
      /\ UNCHANGED <<connexions, enCours, ponts, lus, recus, devancees>>
  BY DEF varsT
<1> DEFINE Effet ==
     /\ epoque' = epoque \/ epoque' # 1
     /\ epoque' = 1 /\ ouvert' => ouvert
     /\ \A c \in Cotes : /\ Transit(c)' \subseteq Transit(c)
                         /\ ouvert' /\ epoque' = 1 => Transit(c)' = Transit(c)
                         /\ Ordonnes(canal[c], sortie[Autre(c)])'
<1>4. Effet
  <2>o. \A c \in Cotes : Ordonnes(canal[c], sortie[Autre(c)])
    BY DEF TunnelInd
  <2>s. \A c \in Cotes : sortie[Autre(c)] \in Seq(CorpsTunnel) /\ canal[c] \in Seq(S)
    BY <1>2, AutreCote
  <2>1. CASE Couper
    <3>1. \A c \in Cotes : canal'[c] = <<>>
      BY <2>1 DEF Couper
    <3> QED
      BY <2>1, <2>o, <2>s, <3>1, <1>s, TransitCouper DEF Couper, Transit
  <2>2. CASE Rouvrir
    BY <2>2, <2>o, <1>s, <1>2 DEF Rouvrir, Transit
  <2>3. ASSUME NEW c \in Cotes, Terminer(c) PROVE Effet
    BY <2>3, <2>o, <1>s DEF Terminer, Transit
  <2>4. ASSUME NEW c \in Cotes, NEW cap, DefinirPermission(c, cap) PROVE Effet
    BY <2>4, <2>o, <1>s DEF DefinirPermission, Transit
  <2>5. ASSUME NEW c \in Cotes, AppliquerPermissions(c) PROVE Effet
    <3>1. canal' = canal \/ /\ ouvert /\ canal'[Autre(c)] = Append(canal[Autre(c)],
                                         [type |-> "Permissions", bits |-> Commande(c).bits])
                            /\ canal'[c] = canal[c]
                            /\ [type |-> "Permissions", bits |-> Commande(c).bits] \in S
      <4>1. Commande(c) \in {} \cup MajDe("tunnels")
        BY <1>2, <2>5, PrendreType DEF AppliquerPermissions
      <4>2. [type |-> "Permissions", bits |-> Commande(c).bits] \in S
        BY <4>1 DEF MajDe, S, PermsDe
      <4> QED
        BY <1>2, <2>5, <4>2, EmettreType DEF AppliquerPermissions
    <3>2. CASE canal' = canal
      BY <2>5, <2>o, <1>s, <3>2 DEF AppliquerPermissions, Transit
    <3>3. CASE canal' # canal
      <4> DEFINE d == Autre(c)
                 f == [type |-> "Permissions", bits |-> Commande(c).bits]
      <4>1. d \in Cotes /\ \A x \in Cotes : x = c \/ x = d
        BY AutreCote
      <4>2. ~EstTunnel(f)
        BY DEF EstTunnel
      <4>3. /\ EnTransit(Append(canal[d], f), sortie[Autre(d)]) = EnTransit(canal[d], sortie[Autre(d)])
            /\ Ordonnes(Append(canal[d], f), sortie[Autre(d)])
        BY <2>s, <2>o, <3>1, <3>3, <4>1, <4>2, TransitAutre
      <4>4. Transit(c)' = Transit(c) /\ Transit(d)' = Transit(d)
        BY <1>s, <3>1, <3>3, <4>1, <4>3 DEF Transit
      <4>5. Ordonnes(canal[c], sortie[Autre(c)])' /\ Ordonnes(canal[d], sortie[Autre(d)])'
        BY <1>s, <2>o, <3>1, <3>3, <4>3
      <4>6. \A x \in Cotes : Transit(x)' = Transit(x) /\ Ordonnes(canal[x], sortie[Autre(x)])'
        BY <4>1, <4>4, <4>5
      <4>7. epoque' = epoque /\ ouvert' = ouvert
        BY <2>5 DEF AppliquerPermissions
      <4> QED
        BY <4>6, <4>7
    <3> QED
      BY <3>2, <3>3
  <2>6. ASSUME NEW c \in Cotes, RecevoirPermissions(c) PROVE Effet
    <3> DEFINE d == Autre(c)
    <3>1. d \in Cotes /\ \A x \in Cotes : x = c \/ x = d
      BY AutreCote
    <3>2. /\ canal[c] # <<>> /\ canal'[c] = Tail(canal[c]) /\ canal'[d] = canal[d]
          /\ ~EstTunnel(Head(canal[c]))
      <4>1. Recevoir(c, "Permissions") /\ canal \in [Cotes -> Seq(S)]
        BY <1>2, <2>6 DEF RecevoirPermissions
      <4>2. /\ canal[c] # <<>> /\ canal'[c] = Tail(canal[c]) /\ canal'[d] = canal[d]
            /\ Trame(c).type = "Permissions"
        BY <4>1, RecevoirType
      <4> QED
        BY <4>2 DEF EstTunnel, Trame
    <3>3. /\ EnTransit(Tail(canal[c]), sortie[d]) = EnTransit(canal[c], sortie[d])
          /\ Ordonnes(Tail(canal[c]), sortie[d])
      BY <2>s, <2>o, <3>2, TransitRecevoir
    <3>4. Transit(c)' = Transit(c) /\ Transit(d)' = Transit(d)
      BY <1>s, <3>1, <3>2, <3>3 DEF Transit
    <3>5. Ordonnes(canal[c], sortie[Autre(c)])' /\ Ordonnes(canal[d], sortie[Autre(d)])'
      BY <1>s, <2>o, <3>1, <3>2, <3>3
    <3> QED
      BY <2>6, <3>1, <3>4, <3>5 DEF RecevoirPermissions
  <2> QED
    BY <2>1, <2>2, <2>3, <2>4, <2>5, <2>6 DEF NextLien, NextPermissions, FilsPermissions
<1>5. \A c \in Cotes : Fil(c)' /\ \A k \in Connexions : Recu(c, k)' /\ Couvert(c, k)'
  BY <1>s, <1>4, TunnelStable
<1> QED
  BY <1>1, <1>3, <1>4, <1>5 DEF TunnelInd

\* The emitting thread takes a body from the queue of its side.
LEMMA TunnelEmettre ==
  ASSUME TunnelInd, NEW c \in Cotes, EmettreTunnel(c)
  PROVE  TunnelInd'
<1> DEFINE S == TramesTunnel \cup PermsDe("tunnels")
           d == Autre(c)
           f == [type |-> "Tunnel", corps |-> Head(sortie[c])]
<1>1. /\ canal \in [Cotes -> Seq(S)] /\ ouvert \in BOOLEAN
      /\ sortie \in [Cotes -> Seq(CorpsTunnel)] /\ sortie[c] # <<>>
      /\ \A x \in Cotes : Ordonnes(canal[x], sortie[Autre(x)])
      /\ ~ouvert => canal = [x \in Cotes |-> <<>>]
      /\ UNCHANGED <<usage, ouvert, fils, epoque, commandes, droits>> /\ UNCHANGED identifiants
      /\ UNCHANGED <<enCours, ponts, lecteurs, joints, clos, lus, recus, devancees>>
  BY DEF TunnelInd, LienInd, TypeTInd, EmettreTunnel
<1>2. Head(sortie[c]) \in CorpsTunnel /\ Tail(sortie[c]) \in Seq(CorpsTunnel)
  BY <1>1, HeadTailProperties
<1>3. f \in S
  BY <1>2, TunnelTrames
<1> HIDE DEF S
<1>4. /\ d \in Cotes /\ d # c /\ Autre(d) = c
      /\ \A x \in Cotes : x = c \/ x = d
  BY AutreCote
<1>5. /\ canal' \in [Cotes -> Seq(S)]
      /\ ouvert => canal'[d] = Append(canal[d], f) /\ canal'[c] = canal[c]
      /\ ~ouvert => canal' = canal
  BY <1>1, <1>3, EmettreType DEF EmettreTunnel
<1>6. /\ sortie' \in [Cotes -> Seq(CorpsTunnel)]
      /\ sortie'[c] = Tail(sortie[c]) /\ sortie'[d] = sortie[d]
  BY <1>1, <1>2, <1>4 DEF EmettreTunnel
<1> HIDE DEF f, d
<1>7. Transit(c)' = Transit(c) /\ Ordonnes(canal[c], sortie[d])'
  BY <1>1, <1>4, <1>5, <1>6 DEF Transit, d
<1>8. /\ Transit(d)' \subseteq Transit(d) /\ (ouvert => Transit(d)' = Transit(d))
      /\ Ordonnes(canal[d], sortie[c])'
  <2>1. CASE ouvert
    <3>1. /\ EnTransit(Append(canal[d], f), Tail(sortie[c])) = EnTransit(canal[d], sortie[c])
          /\ Ordonnes(Append(canal[d], f), Tail(sortie[c]))
      BY <1>1, <1>3, <1>4, TransitEmettre DEF f
    <3> QED
      BY <1>4, <1>5, <1>6, <2>1, <3>1 DEF Transit
  <2>2. CASE ~ouvert
    <3>1. canal[d] = <<>> /\ canal'[d] = <<>>
      BY <1>1, <1>4, <1>5, <2>2
    <3>2. /\ EnTransit(<<>>, Tail(sortie[c])) \subseteq EnTransit(<<>>, sortie[c])
          /\ Ordonnes(<<>>, Tail(sortie[c]))
      BY <1>1, <1>4, <3>1, TransitPerdre
    <3> QED
      BY <1>4, <1>6, <2>2, <3>1, <3>2 DEF Transit
  <2> QED
    BY <2>1, <2>2
<1>9. \A x \in Cotes : Fil(x)' /\ \A k \in Connexions : Recu(x, k)' /\ Couvert(x, k)'
  BY <1>1, <1>4, <1>7, <1>8, TunnelStable DEF identifiants
<1>10. LienInd(TramesTunnel, {}, "tunnels")'
  BY <1>1, <1>5 DEF TunnelInd, LienInd, S, droits
<1>11. TypeTInd'
  BY <1>1, <1>6 DEF TunnelInd, TypeTInd, identifiants
<1> QED
  BY <1>4, <1>7, <1>8, <1>9, <1>10, <1>11 DEF TunnelInd, d

\* A body enters the queue of c: it is on its way to the other side.
LEMMA TunnelEmpiler ==
  ASSUME canal \in [Cotes -> Seq(TramesTunnel \cup PermsDe("tunnels"))],
         sortie \in [Cotes -> Seq(CorpsTunnel)],
         \A x \in Cotes : Ordonnes(canal[x], sortie[Autre(x)]),
         NEW c \in Cotes, NEW u \in CorpsTunnel, Empiler(c, u),
         canal'[Autre(c)] = canal[Autre(c)],
         \A x \in Transit(Autre(c)) : Avant(x, u)
  PROVE  /\ sortie' \in [Cotes -> Seq(CorpsTunnel)]
         /\ sortie'[Autre(c)] = sortie[Autre(c)]
         /\ Transit(Autre(c))' = Transit(Autre(c)) \cup {u}
         /\ Ordonnes(canal[Autre(c)], sortie[c])'
<1> DEFINE S == TramesTunnel \cup PermsDe("tunnels")
           d == Autre(c)
<1>1. d \in Cotes /\ d # c /\ Autre(d) = c
  BY AutreCote
<1>2. canal[d] \in Seq(S) /\ sortie[c] \in Seq(CorpsTunnel) /\ Ordonnes(canal[d], sortie[c])
  BY <1>1
<1> HIDE DEF S
<1>3. Append(sortie[c], u) \in Seq(CorpsTunnel)
  BY <1>2, AppendProperties
<1>4. /\ sortie' \in [Cotes -> Seq(CorpsTunnel)]
      /\ sortie'[c] = Append(sortie[c], u) /\ sortie'[d] = sortie[d]
  BY <1>1, <1>3 DEF Empiler
<1>5. /\ EnTransit(canal[d], Append(sortie[c], u)) = EnTransit(canal[d], sortie[c]) \cup {u}
      /\ Ordonnes(canal[d], Append(sortie[c], u))
  BY <1>1, <1>2, TransitEmpiler DEF Transit
<1> HIDE DEF d
<1> QED
  BY <1>1, <1>4, <1>5 DEF Transit, d

\* A step that keeps the blocks on their way, adds at most FERMER and lets no bridge come
\* that was not expected.
LEMMA TunnelFermer ==
  ASSUME TunnelInd,
         UNCHANGED <<connexions, lus, recus, epoque, ouvert>>, devancees \subseteq devancees',
         \A x \in Cotes : \A t \in Transit(x) : t.genre = "DONNEES" => t \in Transit(x)',
         \A x \in Cotes : \A t \in Transit(x)' :
           t \in Transit(x) \/ (t.genre = "FERMER" /\ t.connexion \in 1..connexions /\ t.id = t.connexion),
         \A x \in Cotes, k \in Connexions : Attendu(x, k)' => Attendu(x, k)
  PROVE  \A c \in Cotes : Fil(c)' /\ \A k \in Connexions : Recu(c, k)' /\ Couvert(c, k)'
<1> SUFFICES ASSUME NEW c \in Cotes PROVE Fil(c)' /\ \A k \in Connexions : Recu(c, k)' /\ Couvert(c, k)'
  OBVIOUS
<1>1. Fil(c) /\ \A k \in Connexions : Recu(c, k) /\ Couvert(c, k)
  BY DEF TunnelInd
<1>2. Fil(c)'
  BY <1>1 DEF Fil
<1>3. ASSUME NEW k \in Connexions PROVE Recu(c, k)'
  BY <1>1 DEF Recu
<1>4. ASSUME NEW k \in Connexions PROVE Couvert(c, k)'
  <2>1. \A b : EnRoute(c, k, b) => EnRoute(c, k, b)'
    BY DEF EnRoute
  <2> QED
    BY <1>1, <2>1 DEF Couvert
<1> QED
  BY <1>2, <1>3, <1>4

\* The controller accepts a local connection.
LEMMA TunnelAccepter ==
  ASSUME TunnelInd, Accepter
  PROVE  TunnelInd'
<1> DEFINE k == connexions + 1
           u == Encadrer(k, "OUVRIR", k, 0)
<1>1. /\ connexions \in 0..MaxConnexions /\ connexions < MaxConnexions /\ connexions \in Nat
      /\ k \in Connexions /\ prochain = k /\ enCours = 0 /\ ProchainId = k
  BY TunnelsAssumption DEF TunnelInd, TypeTInd, Accepter, Connexions, ProchainId
<1>2. /\ connexions' = k /\ prochain' = k + 1 /\ enCours' = k
      /\ idDe' = [idDe EXCEPT ![k] = k] /\ Empiler("Controller", u)
      /\ UNCHANGED lien /\ UNCHANGED <<ponts, lecteurs, joints, clos, lus, recus, devancees>>
  BY <1>1 DEF Accepter
<1>3. u \in CorpsTunnel /\ u.connexion = k /\ u.id = k /\ u.genre = "OUVRIR"
  BY <1>1, TunnelsAssumption DEF CorpsTunnel, Encadrer
<1>4. /\ canal \in [Cotes -> Seq(TramesTunnel \cup PermsDe("tunnels"))]
      /\ sortie \in [Cotes -> Seq(CorpsTunnel)]
      /\ \A x \in Cotes : Ordonnes(canal[x], sortie[Autre(x)]) /\ Fil(x)
      /\ canal' = canal
  BY <1>2 DEF TunnelInd, LienInd, TypeTInd, lien
<1>5. /\ "Controller" \in Cotes /\ "Controlled" \in Cotes
      /\ Autre("Controller") = "Controlled" /\ Autre("Controlled") = "Controller"
      /\ \A x \in Cotes : x = "Controller" \/ x = "Controlled"
  BY DEF Autre, Cotes
<1>6. \A x \in Cotes : \A t \in Transit(x) : t.connexion \in 1..connexions
  BY <1>4 DEF Fil
<1> HIDE DEF u
<1>7. \A x \in Transit("Controlled") : Avant(x, u)
  BY <1>1, <1>3, <1>5, <1>6 DEF Avant
<1>8. /\ sortie' \in [Cotes -> Seq(CorpsTunnel)]
      /\ sortie'["Controlled"] = sortie["Controlled"]
      /\ Transit("Controlled")' = Transit("Controlled") \cup {u}
      /\ Ordonnes(canal["Controlled"], sortie["Controller"])'
  BY <1>2, <1>3, <1>4, <1>5, <1>7, TunnelEmpiler
<1>9. Transit("Controller")' = Transit("Controller")
      /\ Ordonnes(canal["Controller"], sortie["Controlled"])'
  BY <1>4, <1>5, <1>8 DEF Transit
<1>10. \A x \in Cotes : Ordonnes(canal[x], sortie[Autre(x)])'
  BY <1>5, <1>8, <1>9
<1>11. ASSUME NEW x \in Cotes PROVE Fil(x)'
  <2>1. ASSUME NEW t \in Transit(x)', t \in Transit(x)
        PROVE  /\ t.connexion \in 1..connexions' /\ t.id = t.connexion
               /\ t.genre = "OUVRIR" => x = "Controlled"
               /\ t.genre = "DONNEES" =>
                    /\ 0 < t.bloc /\ t.bloc <= lus'[Autre(x)][t.connexion]
                    /\ \A i \in 1..Len(recus'[x][t.connexion]) : recus'[x][t.connexion][i][2] < t.bloc
    <3>1. /\ t.connexion \in 1..connexions /\ t.id = t.connexion
          /\ t.genre = "OUVRIR" => x = "Controlled"
          /\ t.genre = "DONNEES" =>
               /\ 0 < t.bloc /\ t.bloc <= lus[Autre(x)][t.connexion]
               /\ \A i \in 1..Len(recus[x][t.connexion]) : recus[x][t.connexion][i][2] < t.bloc
      BY <1>4, <2>1 DEF Fil
    <3>2. 1..connexions \subseteq 1..connexions'
      BY <1>1, <1>2
    <3> QED
      BY <1>2, <3>1, <3>2
  <2>2. \A t \in Transit(x)' : t \in Transit(x) \/ (t = u /\ x = "Controlled")
    BY <1>5, <1>8, <1>9
  <2> QED
    BY <1>1, <1>2, <1>3, <2>1, <2>2 DEF Fil
<1>12. ASSUME NEW x \in Cotes, NEW j \in Connexions PROVE Recu(x, j)' /\ Couvert(x, j)'
  <2>1. Recu(x, j) /\ Couvert(x, j)
    BY DEF TunnelInd
  <2>2. Recu(x, j)'
    BY <1>2, <2>1 DEF Recu, lien
  <2>3. Couvert(x, j)'
    <3>1. CASE j = k
      <4>1. lus[Autre(x)][j] = 0
        <5>1. k > connexions /\ Autre(x) \in Cotes
          BY <1>1, AutreCote
        <5> QED
          BY <1>1, <3>1, <5>1 DEF TunnelInd, TypeTInd
      <4> QED
        BY <1>2, <4>1 DEF Couvert
    <3>2. CASE j # k
      <4>1. j \in (1..connexions)' => j \in 1..connexions
        BY <1>1, <1>2, <3>2
      <4>2. Attendu(x, j)' => Attendu(x, j)
        BY <1>2, <1>3, <1>5, <1>8, <3>2 DEF Attendu
      <4>3. \A b : EnRoute(x, j, b) => EnRoute(x, j, b)'
        BY <1>2, <1>5, <1>8, <1>9 DEF EnRoute
      <4> QED
        BY <1>2, <2>1, <4>1, <4>2, <4>3 DEF Couvert, lien
    <3> QED
      BY <3>1, <3>2
  <2> QED
    BY <2>2, <2>3
<1>13. LienInd(TramesTunnel, {}, "tunnels")'
  BY <1>2 DEF TunnelInd, LienInd, lien
<1>14. TypeTInd'
  <2>1. TypeTInd
    BY DEF TunnelInd
  <2>2. \A c \in Cotes, j \in Connexions : j > connexions' => lus'[c][j] = 0
    BY <1>1, <1>2, <2>1 DEF TypeTInd, Connexions
  <2>3. idDe' \in [Connexions -> Nat] /\ \A j \in 1..connexions' : idDe'[j] = j
    BY <1>1, <1>2, <2>1 DEF TypeTInd, Connexions
  <2>4. 1..connexions \subseteq 1..connexions'
    BY <1>1, <1>2
  <2>5. /\ lecteurs' \in [Cotes -> SUBSET (1..connexions')]
        /\ joints' \in [Cotes -> SUBSET (1..connexions')]
        /\ clos' \in [Cotes -> SUBSET (1..connexions')]
    BY <1>2, <2>1, <2>4 DEF TypeTInd
  <2>6. /\ connexions' \in 0..MaxConnexions /\ prochain' = connexions' + 1
        /\ enCours' \in 0..connexions'
    BY <1>1, <1>2, TunnelsAssumption
  <2> QED
    BY <1>2, <1>8, <2>1, <2>2, <2>3, <2>5, <2>6 DEF TypeTInd
<1> QED
  BY <1>10, <1>11, <1>12, <1>13, <1>14 DEF TunnelInd

\* FERMER leaves c for the connection k, whose bridge at c goes at the same time, or was
\* never made.
LEMMA TunnelRefermer ==
  ASSUME TunnelInd, NEW c \in Cotes, NEW k \in 1..connexions,
         Empiler(c, Encadrer(idDe[k], "FERMER", k, 0)),
         UNCHANGED lien, UNCHANGED identifiants, UNCHANGED <<lus, recus, devancees>>,
         enCours' \in {0, enCours},
         \/ ponts' = ponts
         \/ ponts' = [ponts EXCEPT ![c][idDe[k]] = 0],
         lecteurs' \in [Cotes -> SUBSET (1..connexions)],
         joints' = joints,
         clos' \in [Cotes -> SUBSET (1..connexions)]
  PROVE  TunnelInd'
<1> DEFINE u == Encadrer(idDe[k], "FERMER", k, 0)
           d == Autre(c)
<1>1. /\ k \in Connexions /\ idDe[k] = k /\ connexions \in 0..MaxConnexions
      /\ enCours \in 0..connexions /\ 0 \in 0..MaxBlocs
  BY TunnelsAssumption DEF TunnelInd, TypeTInd, Connexions
<1>2. u \in CorpsTunnel /\ u.connexion = k /\ u.id = k /\ u.genre = "FERMER"
  BY <1>1 DEF CorpsTunnel, Encadrer
<1>3. /\ canal \in [Cotes -> Seq(TramesTunnel \cup PermsDe("tunnels"))]
      /\ sortie \in [Cotes -> Seq(CorpsTunnel)]
      /\ \A x \in Cotes : Ordonnes(canal[x], sortie[Autre(x)])
      /\ canal' = canal
  BY DEF TunnelInd, LienInd, TypeTInd, lien
<1>4. d \in Cotes /\ d # c /\ Autre(d) = c /\ \A x \in Cotes : x = c \/ x = d
  BY AutreCote
<1> HIDE DEF u
<1>5. \A x : Avant(x, u)
  BY <1>2 DEF Avant
<1>6. /\ sortie' \in [Cotes -> Seq(CorpsTunnel)]
      /\ sortie'[d] = sortie[d]
      /\ Transit(d)' = Transit(d) \cup {u}
      /\ Ordonnes(canal[d], sortie[c])'
  BY <1>2, <1>3, <1>5, TunnelEmpiler DEF u
<1>7. Transit(c)' = Transit(c) /\ Ordonnes(canal[c], sortie[d])'
  BY <1>3, <1>6 DEF Transit
<1> HIDE DEF d
<1>8. \A x \in Cotes : Ordonnes(canal[x], sortie[Autre(x)])'
  BY <1>4, <1>6, <1>7 DEF d
<1>p. ponts \in [Cotes -> [Connexions -> Nat]]
  BY DEF TunnelInd, TypeTInd
<1>9. \A x \in Cotes, j \in Connexions : ponts'[x][j] \in {0, ponts[x][j]}
  BY <1>1, <1>p
<1>10. ponts' \in [Cotes -> [Connexions -> Nat]]
  BY <1>1, <1>p
<1>11. ASSUME NEW x \in Cotes, NEW j \in Connexions, Attendu(x, j)' PROVE Attendu(x, j)
  <2>1. j # 0 /\ \A y : y \in {0, enCours} /\ y = j => enCours = j
    BY DEF Connexions
  <2>2. ponts'[x][j] = j => ponts[x][j] = j
    BY <1>9, <2>1
  <2>3. \A t \in Transit(x)' : t.genre = "OUVRIR" => t \in Transit(x)
    BY <1>2, <1>4, <1>6, <1>7
  <2> QED
    BY <1>11, <2>1, <2>2, <2>3 DEF Attendu
<1>12. \A x \in Cotes : \A t \in Transit(x) : t \in Transit(x)'
  BY <1>4, <1>6, <1>7
<1>13. \A x \in Cotes : \A t \in Transit(x)' :
         t \in Transit(x) \/ (t.genre = "FERMER" /\ t.connexion \in 1..connexions /\ t.id = t.connexion)
  BY <1>2, <1>4, <1>6, <1>7
<1>14. \A x \in Cotes : Fil(x)' /\ \A j \in Connexions : Recu(x, j)' /\ Couvert(x, j)'
  BY <1>11, <1>12, <1>13, TunnelFermer DEF lien, identifiants
<1>15. LienInd(TramesTunnel, {}, "tunnels")'
  BY DEF TunnelInd, LienInd, lien
<1>16. TypeTInd'
  <2>1. \A x \in Cotes, j \in Connexions : ponts'[x][j] \in {0, j}
    BY <1>9 DEF TunnelInd, TypeTInd
  <2>2. enCours' \in 0..connexions
    BY <1>1
  <2> QED
    BY <1>6, <1>10, <2>1, <2>2 DEF TunnelInd, TypeTInd, identifiants
<1> QED
  BY <1>8, <1>14, <1>15, <1>16 DEF TunnelInd

\* The bridge of an accepted connection comes, at the controller.
LEMMA TunnelPonter ==
  ASSUME TunnelInd, NEW echec \in BOOLEAN, Ponter(echec)
  PROVE  TunnelInd'
<1>1. /\ enCours \in 1..connexions /\ enCours' = 0 /\ UNCHANGED lien /\ UNCHANGED identifiants
      /\ UNCHANGED <<clos, lus, recus, devancees>>
      /\ connexions \in 0..MaxConnexions /\ idDe[enCours] = enCours /\ "Controller" \in Cotes
      /\ lecteurs \in [Cotes -> SUBSET (1..connexions)]
      /\ joints \in [Cotes -> SUBSET (1..connexions)]
      /\ clos \in [Cotes -> SUBSET (1..connexions)]
  BY DEF TunnelInd, TypeTInd, Ponter, Cotes
<1>2. CASE echec
  <2>1. /\ Empiler("Controller", Encadrer(idDe[enCours], "FERMER", enCours, 0))
        /\ UNCHANGED <<ponts, lecteurs, joints>>
    BY <1>2 DEF Ponter
  <2> QED
    BY <1>1, <2>1, TunnelRefermer
<1>3. CASE ~echec
  <2>1. /\ ponts' = [ponts EXCEPT !["Controller"][enCours] = enCours]
        /\ lecteurs' = [lecteurs EXCEPT !["Controller"] = @ \cup {enCours}]
        /\ joints' = [joints EXCEPT !["Controller"] = @ \cup {enCours}]
        /\ sortie' = sortie
    BY <1>1, <1>3 DEF Ponter
  <2>2. /\ \A x \in Cotes : Transit(x)' = Transit(x)
        /\ \A x \in Cotes : Ordonnes(canal[x], sortie[Autre(x)])'
    BY <1>1, <2>1 DEF TunnelInd, Transit, lien
  <2>3. /\ ponts' \in [Cotes -> [Connexions -> Nat]]
        /\ \A x \in Cotes, i \in Connexions :
             ponts'[x][i] = IF x = "Controller" /\ i = enCours THEN enCours ELSE ponts[x][i]
    <3>1. enCours \in Connexions /\ enCours \in Nat
      BY <1>1, TunnelsAssumption DEF Connexions
    <3>2. ponts \in [Cotes -> [Connexions -> Nat]]
      BY DEF TunnelInd, TypeTInd
    <3> QED
      BY <1>1, <2>1, <3>1, <3>2
  <2>4. ASSUME NEW x \in Cotes, NEW k \in Connexions, Attendu(x, k)' PROVE Attendu(x, k)
    <3>1. k # 0 /\ enCours' # k
      BY <1>1 DEF Connexions
    <3> QED
      BY <2>2, <2>3, <2>4, <3>1 DEF Attendu
  <2>5. \A x \in Cotes : Fil(x)' /\ \A k \in Connexions : Recu(x, k)' /\ Couvert(x, k)'
    BY <1>1, <2>2, <2>4, TunnelFermer DEF lien, identifiants
  <2>6. LienInd(TramesTunnel, {}, "tunnels")'
    BY <1>1 DEF TunnelInd, LienInd, lien
  <2>7. TypeTInd'
    <3>1. \A x \in Cotes, i \in Connexions : ponts'[x][i] \in {0, i}
      BY <2>3 DEF TunnelInd, TypeTInd
    <3>2. /\ lecteurs' \in [Cotes -> SUBSET (1..connexions)]
          /\ joints' \in [Cotes -> SUBSET (1..connexions)]
      BY <1>1, <2>1
    <3>3. enCours' \in 0..connexions
      BY <1>1
    <3> QED
      BY <1>1, <2>1, <2>3, <3>1, <3>2, <3>3 DEF TunnelInd, TypeTInd, identifiants
  <2> QED
    BY <2>2, <2>5, <2>6, <2>7 DEF TunnelInd
<1> QED
  BY <1>2, <1>3

\* A block is read: it comes behind all those of its connection.
LEMMA TunnelLire ==
  ASSUME TunnelInd, NEW c \in Cotes, NEW k \in Connexions, Lire(c, k)
  PROVE  TunnelInd'
<1> DEFINE n == lus[c][k] + 1
           u == Encadrer(k, "DONNEES", k, n)
           d == Autre(c)
<1>1. /\ k \in 1..connexions /\ connexions \in 0..MaxConnexions /\ idDe[k] = k
      /\ n \in 1..MaxBlocs
      /\ lus' = [lus EXCEPT ![c][k] = n] /\ Empiler(c, u)
      /\ UNCHANGED lien /\ UNCHANGED identifiants
      /\ UNCHANGED <<enCours, ponts, lecteurs, joints, clos, recus, devancees>>
  <2>1. k \in 1..connexions /\ connexions \in 0..MaxConnexions /\ idDe[k] = k
    BY DEF TunnelInd, TypeTInd, Lire
  <2>2. lus[c][k] \in 0..MaxBlocs /\ lus[c][k] < MaxBlocs
    BY DEF TunnelInd, TypeTInd, Lire
  <2>3. n \in 1..MaxBlocs
    BY <2>2, TunnelsAssumption
  <2> QED
    BY <2>1, <2>3 DEF Lire
<1>2. d \in Cotes /\ d # c /\ Autre(d) = c /\ \A x \in Cotes : x = c \/ x = d
  BY AutreCote
<1> HIDE DEF n
<1>3. /\ u \in CorpsTunnel /\ u.connexion = k /\ u.id = k /\ u.genre = "DONNEES" /\ u.bloc = n
  BY <1>1, TunnelsAssumption DEF CorpsTunnel, Encadrer
<1>4. /\ canal \in [Cotes -> Seq(TramesTunnel \cup PermsDe("tunnels"))]
      /\ sortie \in [Cotes -> Seq(CorpsTunnel)]
      /\ \A x \in Cotes : Ordonnes(canal[x], sortie[Autre(x)]) /\ Fil(x)
      /\ lus \in [Cotes -> [Connexions -> 0..MaxBlocs]]
      /\ canal' = canal
  BY <1>1 DEF TunnelInd, LienInd, TypeTInd, lien
<1> HIDE DEF u, d
<1>5. \A t \in Transit(d) : Avant(t, u)
  <2> SUFFICES ASSUME NEW t \in Transit(d), t.connexion = k, t.genre = "DONNEES" PROVE t.bloc < n
    BY <1>3 DEF Avant
  <2>1. t.bloc <= lus[c][k] /\ t.bloc \in 0..MaxBlocs
    <3>1. t \in CorpsTunnel
      <4>1. canal[d] \in Seq(TramesTunnel \cup PermsDe("tunnels")) /\ sortie[c] \in Seq(CorpsTunnel)
        BY <1>2, <1>4
      <4>2. t \in EnTransit(canal[d], sortie[c])
        BY <1>2 DEF Transit
      <4> QED
        BY <4>1, <4>2, TunnelTrames, ElementOfSeq DEF EnTransit, EstTunnel
    <3> QED
      BY <1>2, <1>4, <3>1 DEF Fil, CorpsTunnel
  <2> QED
    BY <1>4, <2>1, TunnelsAssumption DEF n
<1>6. /\ sortie' \in [Cotes -> Seq(CorpsTunnel)]
      /\ sortie'[d] = sortie[d]
      /\ Transit(d)' = Transit(d) \cup {u}
      /\ Ordonnes(canal[d], sortie[c])'
  BY <1>1, <1>3, <1>4, <1>5, TunnelEmpiler DEF d
<1>7. Transit(c)' = Transit(c) /\ Ordonnes(canal[c], sortie[d])'
  BY <1>2, <1>4, <1>6 DEF Transit, d
<1>8. \A x \in Cotes : Ordonnes(canal[x], sortie[Autre(x)])'
  BY <1>2, <1>6, <1>7 DEF d
<1>9. /\ lus' \in [Cotes -> [Connexions -> 0..MaxBlocs]]
      /\ \A x \in Cotes, j \in Connexions :
           lus'[x][j] = IF x = c /\ j = k THEN n ELSE lus[x][j]
  BY <1>1, <1>4, TunnelsAssumption
<1>10. \A x \in Cotes, j \in Connexions : lus[x][j] \in Nat /\ lus'[x][j] \in Nat /\ lus[x][j] <= lus'[x][j]
  <2> TAKE x \in Cotes, j \in Connexions
  <2>1. lus[x][j] \in 0..MaxBlocs /\ lus'[x][j] \in 0..MaxBlocs
    BY <1>4, <1>9
  <2>2. lus[c][k] \in Nat /\ lus[c][k] <= n
    BY <1>4, TunnelsAssumption DEF n
  <2> QED
    BY <1>9, <2>1, <2>2, TunnelsAssumption
<1>11. 1..connexions \subseteq Connexions
  BY <1>1, TunnelsAssumption DEF Connexions
<1>12. \A x \in Cotes, j \in Connexions :
         /\ recus[x][j] \in Seq(Connexions \X (0..MaxBlocs)) /\ Len(recus[x][j]) \in Nat
         /\ \A i \in 1..Len(recus[x][j]) : recus[x][j][i][2] \in 0..MaxBlocs
  <2> TAKE x \in Cotes, j \in Connexions
  <2>1. recus[x][j] \in Seq(Connexions \X (0..MaxBlocs))
    BY DEF TunnelInd, TypeTInd
  <2>2. Len(recus[x][j]) \in Nat
    BY <2>1, LenProperties
  <2>3. \A i \in 1..Len(recus[x][j]) : recus[x][j][i] \in Connexions \X (0..MaxBlocs)
    BY <2>1, ElementOfSeq
  <2> QED
    BY <2>1, <2>2, <2>3
<1>13. ASSUME NEW x \in Cotes PROVE Fil(x)'
  <2>1. Autre(x) \in Cotes
    BY AutreCote
  <2>2. ASSUME NEW t \in Transit(x)
        PROVE  /\ t.connexion \in 1..connexions' /\ t.id = t.connexion
               /\ t.genre = "OUVRIR" => x = "Controlled"
               /\ t.genre = "DONNEES" =>
                    /\ 0 < t.bloc /\ t.bloc <= lus'[Autre(x)][t.connexion]
                    /\ \A i \in 1..Len(recus'[x][t.connexion]) : recus'[x][t.connexion][i][2] < t.bloc
    <3>1. /\ t.connexion \in 1..connexions /\ t.id = t.connexion
          /\ t.genre = "OUVRIR" => x = "Controlled"
          /\ t.genre = "DONNEES" =>
               /\ 0 < t.bloc /\ t.bloc <= lus[Autre(x)][t.connexion]
               /\ \A i \in 1..Len(recus[x][t.connexion]) : recus[x][t.connexion][i][2] < t.bloc
      BY <1>4 DEF Fil
    <3>2. t \in CorpsTunnel
      <4>1. canal[x] \in Seq(TramesTunnel \cup PermsDe("tunnels")) /\ sortie[Autre(x)] \in Seq(CorpsTunnel)
        BY <1>4, <2>1
      <4>2. t \in EnTransit(canal[x], sortie[Autre(x)])
        BY DEF Transit
      <4> QED
        BY <4>1, <4>2, TunnelTrames, ElementOfSeq DEF EnTransit, EstTunnel
    <3>3. t.bloc \in Int
      BY <3>2, TunnelsAssumption DEF CorpsTunnel
    <3> QED
      BY <1>1, <1>10, <1>11, <2>1, <3>1, <3>3 DEF identifiants
  <2>3. CASE x = d
    <3>1. Recu(d, k) /\ lus[c][k] \in Nat
      BY <1>2, <1>10 DEF TunnelInd
    <3>2. 0 < u.bloc /\ u.bloc <= lus'[c][k] /\ \A i \in 1..Len(recus[d][k]) : recus[d][k][i][2] < u.bloc
      <4>1. u.bloc = n /\ lus'[c][k] = n /\ n \in 1..MaxBlocs
        BY <1>1, <1>3, <1>9
      <4>2. \A i \in 1..Len(recus[d][k]) : recus[d][k][i][2] <= lus[c][k] /\ recus[d][k][i][2] \in 0..MaxBlocs
        BY <1>2, <1>12, <3>1 DEF Recu
      <4>3. \A y \in 0..MaxBlocs : y <= lus[c][k] => y < n
        BY <3>1, TunnelsAssumption DEF n
      <4> QED
        BY <4>1, <4>2, <4>3, TunnelsAssumption
    <3> QED
      BY <1>1, <1>2, <1>3, <1>6, <2>2, <2>3, <3>2 DEF Fil, identifiants
  <2>4. CASE x = c
    BY <1>7, <2>2, <2>4 DEF Fil
  <2> QED
    BY <1>2, <2>3, <2>4
<1>14. ASSUME NEW x \in Cotes, NEW j \in Connexions PROVE Recu(x, j)' /\ Couvert(x, j)'
  <2>1. Recu(x, j) /\ Couvert(x, j) /\ Autre(x) \in Cotes
    BY AutreCote DEF TunnelInd
  <2>2. Recu(x, j)'
    <3>1. /\ recus' = recus /\ epoque' = epoque /\ devancees' = devancees
          /\ lus[Autre(x)][j] \in Nat /\ lus'[Autre(x)][j] \in Nat
          /\ lus[Autre(x)][j] <= lus'[Autre(x)][j]
      BY <1>1, <1>10, <2>1 DEF lien
    <3>2. \A i \in 1..Len(recus[x][j]) : recus[x][j][i][2] \in Nat
      BY <1>12, TunnelsAssumption
    <3>3. \A i \in 1..Len(recus[x][j]) : recus[x][j][i][2] <= lus'[Autre(x)][j]
      BY <2>1, <3>1, <3>2 DEF Recu
    <3> QED
      BY <2>1, <3>1, <3>3 DEF Recu
  <2>3. Couvert(x, j)'
    <3>1. \A b : EnRoute(x, j, b) => EnRoute(x, j, b)'
      BY <1>1, <1>2, <1>6, <1>7 DEF EnRoute
    <3>2. Attendu(x, j)' => Attendu(x, j)
      BY <1>1, <1>2, <1>3, <1>6, <1>7 DEF Attendu
    <3>3. CASE x = d /\ j = k
      <4>1. ASSUME NEW b, b = n PROVE EnRoute(d, k, b)'
        BY <1>3, <1>6, <4>1 DEF EnRoute
      <4>2. \A b \in 1..lus'[c][k] : b \in 1..lus[c][k] \/ b = n
        BY <1>2, <1>4, <1>9, TunnelsAssumption DEF n
      <4> QED
        <5>1. UNCHANGED <<epoque, ouvert, connexions, devancees>>
          BY <1>1 DEF lien, identifiants
        <5>2. ASSUME NEW b \in 1..lus'[c][k], \A y \in 1..lus[c][k] : EnRoute(d, k, y)
              PROVE  EnRoute(d, k, b)'
          BY <3>1, <3>3, <4>1, <4>2, <5>2
        <5>3. Couvert(d, k)
          BY <2>1, <3>3
        <5> QED
          BY <1>2, <3>2, <3>3, <5>1, <5>2, <5>3 DEF Couvert
    <3>4. CASE ~(x = d /\ j = k)
      <4>1. lus'[Autre(x)][j] = lus[Autre(x)][j]
        <5>1. ~(Autre(x) = c /\ j = k)
          BY <1>2, <3>4, AutreCote DEF d
        <5> QED
          BY <1>9, <2>1, <5>1
      <4> QED
        BY <1>1, <2>1, <3>1, <3>2, <4>1 DEF Couvert, lien, identifiants
    <3> QED
      BY <3>3, <3>4
  <2> QED
    BY <2>2, <2>3
<1>15. LienInd(TramesTunnel, {}, "tunnels")'
  BY <1>1 DEF TunnelInd, LienInd, lien
<1>16. TypeTInd'
  <2>1. \A x \in Cotes, j \in Connexions : j > connexions => lus'[x][j] = 0
    <3>1. connexions \in Nat /\ \A x \in Cotes, j \in Connexions : j > connexions => lus[x][j] = 0
      BY DEF TunnelInd, TypeTInd
    <3>2. ~(k > connexions)
      BY <1>1, <3>1
    <3> QED
      BY <1>9, <3>1, <3>2
  <2> QED
    BY <1>1, <1>6, <1>9, <2>1 DEF TunnelInd, TypeTInd, identifiants
<1> QED
  BY <1>8, <1>13, <1>14, <1>15, <1>16 DEF TunnelInd

\* What comes out of the channel of c: a body that was on its way, before all the others.
LEMMA TunnelTete ==
  ASSUME TunnelInd, NEW c \in Cotes, Recevoir(c, "Tunnel")
  PROVE  LET t == Trame(c).corps
             r == EnTransit(canal'[c], sortie[Autre(c)]) IN
           /\ canal' \in [Cotes -> Seq(TramesTunnel \cup PermsDe("tunnels"))]
           /\ canal'[Autre(c)] = canal[Autre(c)]
           /\ ouvert
           /\ t \in CorpsTunnel /\ t.connexion \in 1..connexions /\ t.id = t.connexion
           /\ t \in Transit(c)
           /\ Transit(c) = r \cup {t}
           /\ \A x \in r : Avant(t, x)
           /\ Ordonnes(canal'[c], sortie[Autre(c)])
<1> DEFINE S == TramesTunnel \cup PermsDe("tunnels")
           d == Autre(c)
           t == Trame(c).corps
<1>1. /\ canal \in [Cotes -> Seq(S)] /\ sortie \in [Cotes -> Seq(CorpsTunnel)]
      /\ Ordonnes(canal[c], sortie[d]) /\ Fil(c)
      /\ ~ouvert => canal = [x \in Cotes |-> <<>>]
  BY DEF TunnelInd, LienInd, TypeTInd
<1>2. /\ canal' \in [Cotes -> Seq(S)]
      /\ canal[c] # <<>> /\ Trame(c) \in S /\ Trame(c).type = "Tunnel"
      /\ canal'[c] = Tail(canal[c]) /\ canal'[d] = canal[d]
  BY <1>1, RecevoirType
<1>3. ouvert
  BY <1>1, <1>2
<1>4. t \in CorpsTunnel /\ EstTunnel(Head(canal[c])) /\ t = Head(canal[c]).corps
  BY <1>2, TunnelTrames DEF EstTunnel, Trame
<1>5. canal[c] \in Seq(S) /\ sortie[d] \in Seq(CorpsTunnel)
  BY <1>1, AutreCote
<1> HIDE DEF S, t, d
<1>6. /\ EnTransit(canal[c], sortie[d]) = EnTransit(canal'[c], sortie[d]) \cup {t}
      /\ Ordonnes(canal'[c], sortie[d])
      /\ \A x \in EnTransit(canal'[c], sortie[d]) : Avant(t, x)
  BY <1>1, <1>2, <1>4, <1>5, TransitRecevoir
<1>7. Transit(c) = EnTransit(canal'[c], sortie[d]) \cup {t}
  BY <1>6 DEF Transit, d
<1>8. t.connexion \in 1..connexions /\ t.id = t.connexion
  BY <1>1, <1>7 DEF Fil
<1> QED
  BY <1>2, <1>3, <1>4, <1>6, <1>7, <1>8 DEF S, t, d

\* OUVRIR comes to the host: a bridge that was expected, or a refusal.
LEMMA TunnelOuvrir ==
  ASSUME TunnelInd, NEW c \in Cotes, NEW echec \in BOOLEAN, RecevoirTunnel(c, echec),
         Trame(c).corps.genre = "OUVRIR"
  PROVE  TunnelInd'
<1> DEFINE t == Trame(c).corps
           k == t.connexion
           d == Autre(c)
<1>1. /\ canal' \in [Cotes -> Seq(TramesTunnel \cup PermsDe("tunnels"))]
      /\ canal'[d] = canal[d] /\ ouvert
      /\ t \in CorpsTunnel /\ k \in 1..connexions /\ t.id = k /\ t.genre = "OUVRIR"
      /\ t \in Transit(c)
      /\ Transit(c) = EnTransit(canal'[c], sortie[d]) \cup {t}
      /\ Ordonnes(canal'[c], sortie[d])
  BY TunnelTete DEF RecevoirTunnel
<1>2. c = "Controlled" /\ d = "Controller" /\ Autre(d) = c /\ d \in Cotes
      /\ \A x \in Cotes : x = c \/ x = d
  <2>1. c = "Controlled"
    BY <1>1 DEF TunnelInd, Fil
  <2> QED
    BY <2>1 DEF Autre, Cotes
<1>3. /\ connexions \in 0..MaxConnexions
      /\ sortie \in [Cotes -> Seq(CorpsTunnel)]
      /\ canal \in [Cotes -> Seq(TramesTunnel \cup PermsDe("tunnels"))]
      /\ \A x \in Cotes : Ordonnes(canal[x], sortie[Autre(x)])
      /\ ponts \in [Cotes -> [Connexions -> Nat]]
      /\ \A x \in Cotes, i \in Connexions : ponts[x][i] \in {0, i}
      /\ lecteurs \in [Cotes -> SUBSET (1..connexions)]
  BY DEF TunnelInd, LienInd, TypeTInd
<1>k. k \in Connexions /\ k \in Nat
  BY <1>1, <1>3, TunnelsAssumption DEF Connexions
<1> HIDE DEF t, d
<1>4. /\ OuvrirHote(t) \/ Refuser(t)
      /\ devancees' = devancees
      /\ UNCHANGED <<usage, ouvert, fils, epoque, commandes, droits>> /\ UNCHANGED identifiants
      /\ UNCHANGED <<enCours, joints, lus, clos, recus>>
  BY <1>1, <1>2 DEF RecevoirTunnel, t
<1>5. LienInd(TramesTunnel, {}, "tunnels")'
  BY <1>1, <1>4 DEF TunnelInd, LienInd, droits
<1>6. CASE OuvrirHote(t)
  <2>1. /\ sortie' = sortie
        /\ ponts' = [ponts EXCEPT ![c][k] = k]
        /\ lecteurs' = [lecteurs EXCEPT ![c] = @ \cup {k}]
    BY <1>1, <1>2, <1>6 DEF OuvrirHote
  <2>2. /\ Transit(c) = Transit(c)' \cup {t}
        /\ Transit(d)' = Transit(d)
    BY <1>1, <1>2, <2>1 DEF Transit, d
  <2>3. \A x \in Cotes : Ordonnes(canal[x], sortie[Autre(x)])'
    BY <1>1, <1>2, <1>3, <2>1 DEF d
  <2>4. /\ ponts' \in [Cotes -> [Connexions -> Nat]]
        /\ \A x \in Cotes, i \in Connexions :
             ponts'[x][i] = IF x = c /\ i = k THEN k ELSE ponts[x][i]
    BY <1>3, <1>k, <2>1
  <2>5. ASSUME NEW x \in Cotes, NEW j \in Connexions, Attendu(x, j)' PROVE Attendu(x, j)
    <3>1. CASE x = c /\ j = k
      BY <1>1, <1>2, <1>k, <3>1 DEF Attendu
    <3>2. CASE ~(x = c /\ j = k)
      BY <1>2, <1>4, <2>2, <2>4, <2>5, <3>2 DEF Attendu
    <3> QED
      BY <3>1, <3>2
  <2>6. /\ \A x \in Cotes : \A y \in Transit(x) : y.genre = "DONNEES" => y \in Transit(x)'
        /\ \A x \in Cotes : \A y \in Transit(x)' : y \in Transit(x)
    BY <1>1, <1>2, <2>2
  <2>7. \A x \in Cotes : Fil(x)' /\ \A j \in Connexions : Recu(x, j)' /\ Couvert(x, j)'
    BY <1>4, <2>5, <2>6, TunnelFermer DEF identifiants
  <2>8. TypeTInd'
    <3>1. \A x \in Cotes, i \in Connexions : ponts'[x][i] \in {0, i}
      BY <1>3, <2>4
    <3>2. lecteurs' \in [Cotes -> SUBSET (1..connexions)]
      BY <1>1, <1>3, <2>1
    <3> QED
      BY <1>4, <2>1, <2>4, <3>1, <3>2 DEF TunnelInd, TypeTInd, identifiants
  <2> QED
    BY <1>5, <2>3, <2>7, <2>8 DEF TunnelInd
<1>7. CASE Refuser(t)
  <2> DEFINE u == Encadrer(t.id, "FERMER", k, 0)
  <2>1. /\ Empiler(c, u) /\ ponts' = ponts /\ lecteurs' = lecteurs
    BY <1>2, <1>7 DEF Refuser
  <2>2. u \in CorpsTunnel /\ u.connexion = k /\ u.id = k /\ u.genre = "FERMER"
    BY <1>1, <1>3, <1>k, TunnelsAssumption DEF CorpsTunnel, Encadrer
  <2> HIDE DEF u
  <2>3. \A x : Avant(x, u)
    BY <2>2 DEF Avant
  <2>4. /\ sortie' \in [Cotes -> Seq(CorpsTunnel)]
        /\ sortie'[d] = sortie[d]
        /\ Transit(d)' = Transit(d) \cup {u}
        /\ Ordonnes(canal[d], sortie[c])'
    BY <1>1, <1>3, <2>1, <2>2, <2>3, TunnelEmpiler DEF d
  <2>5. Transit(c) = Transit(c)' \cup {t} /\ Ordonnes(canal[c], sortie[d])'
    BY <1>1, <1>2, <2>4 DEF Transit, d
  <2>6. \A x \in Cotes : Ordonnes(canal[x], sortie[Autre(x)])'
    BY <1>2, <2>4, <2>5 DEF d
  <2>7. /\ \A x \in Cotes : \A y \in Transit(x) : y.genre = "DONNEES" => y \in Transit(x)'
        /\ \A x \in Cotes : \A y \in Transit(x)' :
             y \in Transit(x) \/ (y.genre = "FERMER" /\ y.connexion \in 1..connexions /\ y.id = y.connexion)
    BY <1>1, <1>2, <2>2, <2>4, <2>5
  <2>8. ASSUME NEW x \in Cotes, NEW j \in Connexions, Attendu(x, j)' PROVE Attendu(x, j)
    BY <1>1, <1>2, <1>4, <2>1, <2>2, <2>4, <2>5, <2>8 DEF Attendu
  <2>9. \A x \in Cotes : Fil(x)' /\ \A j \in Connexions : Recu(x, j)' /\ Couvert(x, j)'
    BY <1>4, <2>7, <2>8, TunnelFermer DEF identifiants
  <2>10. TypeTInd'
    BY <1>4, <2>1, <2>4 DEF TunnelInd, TypeTInd, identifiants
  <2> QED
    BY <1>5, <2>6, <2>9, <2>10 DEF TunnelInd
<1> QED
  BY <1>4, <1>6, <1>7

\* FERMER comes: the bridge is shut.
LEMMA TunnelClos ==
  ASSUME TunnelInd, NEW c \in Cotes, NEW echec \in BOOLEAN, RecevoirTunnel(c, echec),
         Trame(c).corps.genre = "FERMER"
  PROVE  TunnelInd'
<1> DEFINE t == Trame(c).corps
           k == t.connexion
           d == Autre(c)
<1>1. /\ canal' \in [Cotes -> Seq(TramesTunnel \cup PermsDe("tunnels"))]
      /\ canal'[d] = canal[d] /\ ouvert
      /\ t \in CorpsTunnel /\ k \in 1..connexions /\ t.id = k /\ t.genre = "FERMER"
      /\ t \in Transit(c)
      /\ Transit(c) = EnTransit(canal'[c], sortie[d]) \cup {t}
      /\ Ordonnes(canal'[c], sortie[d])
  BY TunnelTete DEF RecevoirTunnel
<1>2. /\ d \in Cotes /\ Autre(d) = c /\ d # c
      /\ \A x \in Cotes : x = c \/ x = d
  BY AutreCote
<1>3. /\ connexions \in 0..MaxConnexions
      /\ \A x \in Cotes : Ordonnes(canal[x], sortie[Autre(x)])
      /\ ponts \in [Cotes -> [Connexions -> Nat]]
      /\ \A x \in Cotes, i \in Connexions : ponts[x][i] \in {0, i}
      /\ clos \in [Cotes -> SUBSET (1..connexions)]
  BY DEF TunnelInd, LienInd, TypeTInd
<1>k. k \in Connexions /\ k \in Nat
  BY <1>1, <1>3, TunnelsAssumption DEF Connexions
<1>4. /\ FermerPont(c, t.id) /\ UNCHANGED <<lecteurs, sortie, recus>>
      /\ devancees \subseteq devancees'
      /\ UNCHANGED <<usage, ouvert, fils, epoque, commandes, droits>> /\ UNCHANGED identifiants
      /\ UNCHANGED <<enCours, joints, lus>>
  BY <1>1 DEF RecevoirTunnel
<1> HIDE DEF t, d
<1>5. LienInd(TramesTunnel, {}, "tunnels")'
  BY <1>1, <1>4 DEF TunnelInd, LienInd, droits
<1>6. /\ ponts' = [ponts EXCEPT ![c][k] = 0]
      /\ clos' = IF ponts[c][k] = 0 THEN clos ELSE [clos EXCEPT ![c] = @ \cup {ponts[c][k]}]
  BY <1>1, <1>4 DEF FermerPont
<1>7. /\ ponts' \in [Cotes -> [Connexions -> Nat]]
      /\ \A x \in Cotes, i \in Connexions : ponts'[x][i] \in {0, ponts[x][i]}
  BY <1>3, <1>k, <1>6
<1>8. /\ Transit(c) = Transit(c)' \cup {t}
      /\ Transit(d)' = Transit(d)
  BY <1>1, <1>2, <1>4 DEF Transit, d
<1>9. \A x \in Cotes : Ordonnes(canal[x], sortie[Autre(x)])'
  BY <1>1, <1>2, <1>3, <1>4 DEF d
<1>10. ASSUME NEW x \in Cotes, NEW j \in Connexions, Attendu(x, j)' PROVE Attendu(x, j)
  <2>1. j # 0
    BY DEF Connexions
  <2>2. ponts'[x][j] = j => ponts[x][j] = j
    BY <1>7, <2>1
  <2>3. Transit(x)' \subseteq Transit(x)
    BY <1>2, <1>8
  <2> QED
    BY <1>4, <1>10, <2>2, <2>3 DEF Attendu
<1>11. /\ \A x \in Cotes : \A y \in Transit(x) : y.genre = "DONNEES" => y \in Transit(x)'
       /\ \A x \in Cotes : \A y \in Transit(x)' : y \in Transit(x)
  BY <1>1, <1>2, <1>8
<1>12. \A x \in Cotes : Fil(x)' /\ \A j \in Connexions : Recu(x, j)' /\ Couvert(x, j)'
  BY <1>4, <1>10, <1>11, TunnelFermer DEF identifiants
<1>13. TypeTInd'
  <2>1. \A x \in Cotes, i \in Connexions : ponts'[x][i] \in {0, i}
    BY <1>3, <1>7
  <2>2. ponts[c][k] # 0 => ponts[c][k] \in 1..connexions
    BY <1>1, <1>3, <1>k
  <2>3. clos' \in [Cotes -> SUBSET (1..connexions)]
    BY <1>3, <1>k, <1>6, <2>2
  <2> QED
    BY <1>4, <1>7, <2>1, <2>3 DEF TunnelInd, TypeTInd, identifiants
<1> QED
  BY <1>5, <1>9, <1>12, <1>13 DEF TunnelInd

\* A block comes: to the bridge of its connection, in its place; or the side that takes it
\* has no bridge and expects none.
LEMMA TunnelDonnees ==
  ASSUME TunnelInd, NEW c \in Cotes, NEW echec \in BOOLEAN, RecevoirTunnel(c, echec),
         Trame(c).corps.genre = "DONNEES"
  PROVE  TunnelInd'
<1>t. PICK t : t = Trame(c).corps
  OBVIOUS
<1> DEFINE k == t.connexion
           n == t.bloc
           d == Autre(c)
           r == recus[c][k]
<1>1. /\ canal' \in [Cotes -> Seq(TramesTunnel \cup PermsDe("tunnels"))]
      /\ canal'[d] = canal[d] /\ ouvert
      /\ t \in CorpsTunnel /\ k \in 1..connexions /\ t.id = k /\ t.genre = "DONNEES"
      /\ t \in Transit(c)
      /\ Transit(c) = EnTransit(canal'[c], sortie[d]) \cup {t}
      /\ Ordonnes(canal'[c], sortie[d])
      /\ \A x \in EnTransit(canal'[c], sortie[d]) : Avant(t, x)
  BY <1>t, TunnelTete DEF RecevoirTunnel
<1>2. /\ d \in Cotes /\ Autre(d) = c /\ d # c
      /\ \A x \in Cotes : x = c \/ x = d
  BY AutreCote
<1>3. /\ connexions \in 0..MaxConnexions
      /\ \A x \in Cotes : Ordonnes(canal[x], sortie[Autre(x)]) /\ Fil(x)
      /\ ponts \in [Cotes -> [Connexions -> Nat]]
      /\ \A x \in Cotes, i \in Connexions : ponts[x][i] \in {0, i}
      /\ recus \in [Cotes -> [Connexions -> Seq(Connexions \X (0..MaxBlocs))]]
      /\ \A x \in Cotes, j \in Connexions : Recu(x, j) /\ Couvert(x, j)
  BY DEF TunnelInd, LienInd, TypeTInd
<1>4. k \in Connexions /\ k \in Nat /\ k # 0 /\ n \in 0..MaxBlocs /\ n \in Nat
  <2>1. n \in 0..MaxBlocs
    BY <1>1 DEF CorpsTunnel
  <2>2. k \in 1..MaxConnexions
    BY <1>1, <1>3, TunnelsAssumption
  <2> QED
    BY <2>1, <2>2, TunnelsAssumption DEF Connexions
<1>5. /\ Verser(c, t, echec) /\ UNCHANGED <<lecteurs, sortie>>
      /\ devancees' = IF c = "Controller" /\ k = enCours THEN devancees \cup {enCours} ELSE devancees
      /\ UNCHANGED <<usage, ouvert, fils, epoque, commandes, droits>> /\ UNCHANGED identifiants
      /\ UNCHANGED <<enCours, joints, lus>>
  BY <1>t, <1>1 DEF RecevoirTunnel
<1>r. /\ 0 < n /\ n <= lus[d][k]
      /\ \A i \in 1..Len(r) : r[i][2] < n
  BY <1>1, <1>3 DEF Fil
<1>s. /\ r \in Seq(Connexions \X (0..MaxBlocs)) /\ Len(r) \in Nat
      /\ \A i \in 1..Len(r) : r[i][2] \in Nat
  <2>1. r \in Seq(Connexions \X (0..MaxBlocs))
    BY <1>3, <1>4
  <2>2. Len(r) \in Nat
    BY <2>1, LenProperties
  <2>3. \A i \in 1..Len(r) : r[i] \in Connexions \X (0..MaxBlocs)
    BY <2>1, ElementOfSeq
  <2> QED
    BY <2>1, <2>2, <2>3, TunnelsAssumption
<1> HIDE DEF d, r, n
<1>6. LienInd(TramesTunnel, {}, "tunnels")'
  BY <1>1, <1>5 DEF TunnelInd, LienInd, droits
<1>7. /\ Transit(c) = Transit(c)' \cup {t} /\ (\A x \in Transit(c)' : Avant(t, x))
      /\ Transit(d)' = Transit(d)
  BY <1>1, <1>2, <1>5 DEF Transit, d
<1>8. \A x \in Cotes : Ordonnes(canal[x], sortie[Autre(x)])'
  BY <1>1, <1>2, <1>3, <1>5 DEF d
\* Every later block on its way has a greater number, and no OUVRIR of k is on its way.
<1>9. \A x \in Transit(c)' : x.connexion = k =>
         x.genre # "OUVRIR" /\ (x.genre = "DONNEES" => n < x.bloc)
  BY <1>1, <1>7 DEF Avant, n
<1>10. devancees \subseteq devancees'
  BY <1>5
<1>11. /\ ponts' \in [Cotes -> [Connexions -> Nat]] /\ clos' = clos
       /\ \A x \in Cotes, i \in Connexions : ponts'[x][i] \in {0, ponts[x][i]}
       /\ recus' = IF ponts'[c][k] = 0 THEN recus ELSE [recus EXCEPT ![c][k] = Append(r, <<k, n>>)]
  <2>1. ponts[c][t.id] \in {0, k} /\ t.id = k
    BY <1>1, <1>3, <1>4
  <2>2. CASE ponts[c][k] = 0
    BY <1>1, <1>3, <1>4, <1>5, <2>1, <2>2 DEF Verser
  <2>3. CASE ponts[c][k] # 0 /\ echec /\ k \in clos[c]
    <3>1. ponts[c][k] = k
      BY <2>1, <2>3
    <3>2. ponts' = [ponts EXCEPT ![c][k] = 0] /\ UNCHANGED <<clos, recus>>
      BY <1>5, <2>1, <2>3, <3>1 DEF Verser
    <3> QED
      BY <1>3, <1>4, <3>2
  <2>4. CASE ponts[c][k] # 0 /\ ~(echec /\ k \in clos[c])
    <3>1. ponts[c][k] = k
      BY <2>1, <2>4
    <3>2. recus' = [recus EXCEPT ![c][k] = Append(@, <<k, n>>)] /\ UNCHANGED <<ponts, clos>>
      BY <1>5, <2>1, <2>4, <3>1 DEF Verser, n
    <3> QED
      BY <1>3, <1>4, <2>4, <3>2 DEF r
  <2> QED
    BY <2>2, <2>3, <2>4
<1>12. ASSUME NEW x \in Cotes, NEW j \in Connexions, Attendu(x, j)' PROVE Attendu(x, j)
  <2>1. j # 0 /\ (ponts'[x][j] = j => ponts[x][j] = j)
    BY <1>11 DEF Connexions
  <2>2. Transit(x)' \subseteq Transit(x)
    BY <1>2, <1>7
  <2> QED
    BY <1>5, <1>12, <2>1, <2>2 DEF Attendu
<1>13. CASE ponts'[c][k] = 0
  <2>1. recus' = recus
    BY <1>11, <1>13
  <2>2. ASSUME NEW x \in Cotes PROVE Fil(x)'
    <3>1. Transit(x)' \subseteq Transit(x)
      BY <1>2, <1>7
    <3> QED
      BY <1>3, <1>5, <2>1, <3>1 DEF Fil, identifiants
  <2>3. ASSUME NEW x \in Cotes, NEW j \in Connexions PROVE Recu(x, j)' /\ Couvert(x, j)'
    <3>1. Recu(x, j)'
      BY <1>3, <1>5, <1>10, <2>1 DEF Recu
    <3>2. Couvert(x, j)'
      <4>1. CASE x = c /\ j = k
        <5>1. Attendu(c, k)' => k \in devancees'
          BY <1>4, <1>5, <1>9, <1>13 DEF Attendu
        <5> QED
          BY <4>1, <5>1 DEF Couvert
      <4>2. CASE ~(x = c /\ j = k)
        <5>1. \A b : EnRoute(x, j, b) => EnRoute(x, j, b)'
          BY <1>2, <1>7, <2>1, <4>2 DEF EnRoute
        <5> QED
          BY <1>3, <1>5, <1>10, <1>12, <5>1 DEF Couvert, identifiants
      <4> QED
        BY <4>1, <4>2
    <3> QED
      BY <3>1, <3>2
  <2>4. TypeTInd'
    <3>1. \A x \in Cotes, i \in Connexions : ponts'[x][i] \in {0, i}
      BY <1>3, <1>11
    <3> QED
      BY <1>5, <1>11, <2>1, <3>1 DEF TunnelInd, TypeTInd, identifiants
  <2> QED
    BY <1>6, <1>8, <2>2, <2>3, <2>4 DEF TunnelInd
<1>14. CASE ponts'[c][k] # 0
  <2> DEFINE s == Append(r, <<k, n>>)
  <2>1. /\ s \in Seq(Connexions \X (0..MaxBlocs)) /\ Len(s) = Len(r) + 1
        /\ \A i \in 1..Len(r) : s[i] = r[i]
        /\ s[Len(r) + 1] = <<k, n>>
    <3>1. <<k, n>> \in Connexions \X (0..MaxBlocs)
      BY <1>4
    <3> QED
      BY <1>s, <3>1, AppendProperties
  <2>2. recus' = [recus EXCEPT ![c][k] = s] /\ ponts[c][k] = k
    BY <1>3, <1>4, <1>11, <1>14
  <2>3. /\ recus' \in [Cotes -> [Connexions -> Seq(Connexions \X (0..MaxBlocs))]]
        /\ recus'[c][k] = s
        /\ \A x \in Cotes, j \in Connexions : ~(x = c /\ j = k) => recus'[x][j] = recus[x][j]
    BY <1>3, <1>4, <2>1, <2>2
  <2> HIDE DEF s
  <2>4. ASSUME NEW x \in Cotes PROVE Fil(x)'
    <3>1. Transit(x)' \subseteq Transit(x)
      BY <1>2, <1>7
    <3>2. ASSUME NEW y \in Transit(x)'
          PROVE  /\ y.connexion \in 1..connexions' /\ y.id = y.connexion
                 /\ y.genre = "OUVRIR" => x = "Controlled"
                 /\ y.genre = "DONNEES" =>
                      /\ 0 < y.bloc /\ y.bloc <= lus'[Autre(x)][y.connexion]
                      /\ \A i \in 1..Len(recus'[x][y.connexion]) : recus'[x][y.connexion][i][2] < y.bloc
      <4>1. /\ y.connexion \in 1..connexions /\ y.id = y.connexion
            /\ y.genre = "OUVRIR" => x = "Controlled"
            /\ y.genre = "DONNEES" =>
                 /\ 0 < y.bloc /\ y.bloc <= lus[Autre(x)][y.connexion]
                 /\ \A i \in 1..Len(recus[x][y.connexion]) : recus[x][y.connexion][i][2] < y.bloc
        BY <1>3, <3>1 DEF Fil
      <4>2. y.connexion \in Connexions
        BY <1>3, <4>1, TunnelsAssumption DEF Connexions
      <4>3. CASE x = c /\ y.connexion = k /\ y.genre = "DONNEES"
        <5>1. \A i \in 1..Len(r) : r[i][2] < y.bloc
          BY <4>1, <4>3 DEF r
        <5>2. n < y.bloc
          BY <1>9, <4>3
        <5>3. \A i \in 1..Len(s) : s[i][2] < y.bloc
          <6>1. \A i \in 1..Len(s) : i \in 1..Len(r) \/ i = Len(r) + 1
            BY <1>s, <2>1
          <6>2. s[Len(r) + 1][2] = n
            BY <2>1
          <6> QED
            BY <2>1, <5>1, <5>2, <6>1, <6>2
        <5> QED
          BY <1>5, <2>3, <4>1, <4>3, <5>3 DEF identifiants
      <4>4. CASE ~(x = c /\ y.connexion = k /\ y.genre = "DONNEES")
        BY <1>5, <2>3, <4>1, <4>2, <4>4 DEF identifiants
      <4> QED
        BY <4>3, <4>4
    <3> QED
      BY <3>2 DEF Fil
  <2>5. Recu(c, k)'
    <3>1. Recu(c, k)
      BY <1>3, <1>4
    <3>2. \A i \in 1..Len(s) : s[i][1] = k /\ s[i][2] <= lus'[d][k]
      <4>1. \A i \in 1..Len(r) : r[i][1] = k /\ r[i][2] <= lus[d][k]
        BY <3>1 DEF Recu, r, d
      <4>2. lus' = lus /\ \A i \in 1..Len(s) : i \in 1..Len(r) \/ i = Len(r) + 1
        BY <1>5, <1>s, <2>1
      <4> QED
        BY <1>r, <2>1, <4>1, <4>2
    <3>3. ASSUME NEW i \in 1..Len(s), NEW j \in 1..Len(s), i < j PROVE s[i][2] < s[j][2]
      <4>1. i \in 1..Len(r) /\ s[i] = r[i]
        BY <1>s, <2>1, <3>3
      <4>2. CASE j \in 1..Len(r)
        BY <2>1, <3>1, <3>3, <4>1, <4>2 DEF Recu, r
      <4>3. CASE j = Len(r) + 1
        BY <1>r, <2>1, <4>1, <4>3
      <4> QED
        BY <1>s, <2>1, <4>2, <4>3
    <3>4. ASSUME epoque' = 1, k \notin devancees' PROVE \A i \in 1..Len(s) : s[i][2] = i
      <4>1. epoque = 1 /\ k \notin devancees
        BY <1>5, <1>10, <3>4
      <4>2. \A i \in 1..Len(r) : r[i][2] = i
        BY <3>1, <4>1 DEF Recu, r
      <4>3. \A b \in 1..lus[d][k] : EnRoute(c, k, b)
        BY <1>1, <1>3, <1>4, <2>2, <4>1 DEF Couvert, Attendu, d
      <4>4. Len(r) < n
        BY <1>r, <1>s, <1>4, <4>2
      <4>5. n = 1 \/ n - 1 <= Len(r)
        <5>1. SUFFICES ASSUME n # 1 PROVE n - 1 <= Len(r)
          OBVIOUS
        <5>2. n - 1 \in 1..lus[d][k]
          <6>1. lus[d][k] \in Nat
            BY <1>2, <1>4, TunnelsAssumption DEF TunnelInd, TypeTInd
          <6> QED
            BY <1>4, <1>r, <5>1, <6>1
        <5>3. EnRoute(c, k, n - 1)
          BY <4>3, <5>2
        <5>4. \A y \in Transit(c) : y.genre = "DONNEES" /\ y.connexion = k => y = t \/ n < y.bloc
          BY <1>7, <1>9
        <5>5. \A y \in Transit(c) : y.genre = "DONNEES" /\ y.connexion = k => y.bloc # n - 1
          BY <1>4, <5>4 DEF n
        <5> QED
          BY <5>3, <5>5 DEF EnRoute, r
      <4>6. n = Len(r) + 1
        BY <1>4, <1>s, <4>4, <4>5
      <4> QED
        <5>1. \A i \in 1..Len(s) : i \in 1..Len(r) \/ i = Len(r) + 1
          BY <1>s, <2>1
        <5> QED
          BY <2>1, <4>2, <4>6, <5>1
    <3> QED
      BY <2>3, <3>2, <3>3, <3>4 DEF Recu, d
  <2>6. Couvert(c, k)'
    <3>1. ASSUME NEW b, EnRoute(c, k, b), b \in Nat PROVE EnRoute(c, k, b)' \/ b = n
      BY <1>s, <1>7, <2>1, <2>3, <3>1 DEF EnRoute, r, n
    <3>2. ASSUME NEW b, b = n, epoque' = 1, k \notin devancees' PROVE EnRoute(c, k, b)'
      <4>1. s[Len(s)][2] = n /\ Len(s) \in 1..Len(s)
        BY <1>s, <2>1
      <4>2. s[Len(s)][2] = Len(s)
        <5>1. \A i \in 1..Len(s) : s[i][2] = i
          BY <2>3, <2>5, <3>2 DEF Recu
        <5> QED
          BY <4>1, <5>1, Zenon
      <4>3. recus'[c][k] = s
        BY <2>3
      <4>4. b <= Len(recus'[c][k])
        BY <3>2, <4>1, <4>2, <4>3
      <4> QED
        BY <4>4 DEF EnRoute
    <3>3. Couvert(c, k)
      BY <1>3, <1>4
    <3>4. SUFFICES ASSUME (epoque = 1 /\ ouvert /\ k \in (1..connexions) \ devancees /\ Attendu(c, k))',
                          NEW b \in 1..lus'[d][k]
                   PROVE  EnRoute(c, k, b)'
      BY DEF Couvert, d
    <3>5. EnRoute(c, k, b)
      BY <1>4, <1>5, <1>10, <1>12, <3>3, <3>4 DEF Couvert, d, identifiants
    <3> QED
      BY <3>1, <3>2, <3>4, <3>5
  <2>7. ASSUME NEW x \in Cotes, NEW j \in Connexions, ~(x = c /\ j = k)
        PROVE  Recu(x, j)' /\ Couvert(x, j)'
    <3>1. recus'[x][j] = recus[x][j]
      BY <2>3, <2>7
    <3>2. Recu(x, j)'
      <4>1. Recu(x, j) /\ lus' = lus /\ epoque' = epoque
        BY <1>3, <1>5
      <4> QED
        BY <1>10, <3>1, <4>1 DEF Recu
    <3>3. \A b : EnRoute(x, j, b) => EnRoute(x, j, b)'
      BY <1>2, <1>7, <2>7, <3>1 DEF EnRoute
    <3>4. Couvert(x, j)'
      BY <1>3, <1>5, <1>10, <1>12, <3>3 DEF Couvert, identifiants
    <3> QED
      BY <3>2, <3>4
  <2>8. TypeTInd'
    <3>1. \A x \in Cotes, i \in Connexions : ponts'[x][i] \in {0, i}
      BY <1>3, <1>11
    <3> QED
      <4>1. TypeTInd
        BY DEF TunnelInd
      <4>2. UNCHANGED <<prochain, connexions, idDe, enCours, lecteurs, joints, clos, sortie, lus>>
        BY <1>5, <1>11 DEF identifiants
      <4> QED
        BY <1>11, <2>3, <3>1, <4>1, <4>2 DEF TypeTInd
  <2> QED
    BY <1>6, <1>8, <2>4, <2>5, <2>6, <2>7, <2>8 DEF TunnelInd
<1> QED
  BY <1>13, <1>14

\* The real connection of k ends, or its target answers: nothing moves.
LEMMA TunnelImmobile ==
  ASSUME TunnelInd, NEW k \in 1..connexions, UNCHANGED lien, UNCHANGED identifiants,
         UNCHANGED <<enCours, ponts, lecteurs, sortie, lus, recus, devancees>>,
         joints' \in [Cotes -> SUBSET (1..connexions)],
         clos' \in [Cotes -> SUBSET (1..connexions)]
  PROVE  TunnelInd'
<1>1. \A c \in Cotes : Transit(c)' = Transit(c) /\ Ordonnes(canal[c], sortie[Autre(c)])'
  BY DEF TunnelInd, Transit, lien
<1>2. \A c \in Cotes : Fil(c)' /\ \A j \in Connexions : Recu(c, j)' /\ Couvert(c, j)'
  BY <1>1, TunnelStable DEF lien, identifiants
<1>3. LienInd(TramesTunnel, {}, "tunnels")'
  BY DEF TunnelInd, LienInd, lien
<1>4. TypeTInd'
  BY DEF TunnelInd, TypeTInd, identifiants
<1> QED
  BY <1>1, <1>2, <1>3, <1>4 DEF TunnelInd

\* Every step of a session used for tunnels preserves the invariant.
LEMMA TunnelPas ==
  ASSUME TunnelInd, "tunnels" \in Usages, NextT
  PROVE  TunnelInd'
<1>1. /\ lecteurs \in [Cotes -> SUBSET (1..connexions)]
      /\ joints \in [Cotes -> SUBSET (1..connexions)]
      /\ clos \in [Cotes -> SUBSET (1..connexions)]
      /\ "Controlled" \in Cotes
  BY DEF TunnelInd, TypeTInd, Cotes
<1>2. ASSUME NEW c \in Cotes, NEW k \in Connexions, FinLecture(c, k) PROVE TunnelInd'
  <2>1. k \in 1..connexions
    BY <1>1, <1>2 DEF FinLecture
  <2>2. lecteurs' \in [Cotes -> SUBSET (1..connexions)]
    BY <1>1, <1>2 DEF FinLecture
  <2> QED
    BY <1>1, <1>2, <2>1, <2>2, TunnelRefermer DEF FinLecture
<1>3. ASSUME NEW k \in Connexions, CibleInjoignable(k) PROVE TunnelInd'
  <2>1. k \in 1..connexions
    BY <1>1, <1>3 DEF CibleInjoignable
  <2>2. clos' \in [Cotes -> SUBSET (1..connexions)]
    BY <1>1, <1>3, <2>1 DEF CibleInjoignable
  <2> QED
    BY <1>1, <1>3, <2>1, <2>2, TunnelRefermer DEF CibleInjoignable
<1>4. ASSUME NEW c \in Cotes, NEW k \in Connexions, FinReelle(c, k) PROVE TunnelInd'
  <2>1. k \in 1..connexions
    BY <1>1, <1>4 DEF FinReelle
  <2>2. clos' \in [Cotes -> SUBSET (1..connexions)]
    BY <1>1, <1>4, <2>1 DEF FinReelle
  <2> QED
    BY <1>1, <1>4, <2>1, <2>2, TunnelImmobile DEF FinReelle
<1>5. ASSUME NEW k \in Connexions, Joindre(k) PROVE TunnelInd'
  <2>1. k \in 1..connexions
    BY <1>1, <1>5 DEF Joindre
  <2>2. joints' \in [Cotes -> SUBSET (1..connexions)]
    BY <1>1, <1>5, <2>1 DEF Joindre
  <2> QED
    BY <1>1, <1>5, <2>1, <2>2, TunnelImmobile DEF Joindre
<1>6. ASSUME NEW c \in Cotes, NEW echec \in BOOLEAN, RecevoirTunnel(c, echec) PROVE TunnelInd'
  <2>1. Trame(c).corps \in CorpsTunnel
    BY <1>6, TunnelTete DEF RecevoirTunnel
  <2>2. Trame(c).corps.genre \in {"OUVRIR", "DONNEES", "FERMER"}
    BY <2>1 DEF CorpsTunnel
  <2> QED
    BY <1>6, <2>2, TunnelOuvrir, TunnelDonnees, TunnelClos
<1> QED
  BY <1>2, <1>3, <1>4, <1>5, <1>6, TunnelLien, TunnelEmettre, TunnelAccepter, TunnelPonter,
     TunnelLire DEF NextT, PasT

\* The invariant holds at the start.
LEMMA TunnelDebut ==
  ASSUME InitLien, InitT, usage = "tunnels"
  PROVE  TunnelInd
<1>1. LienInd(TramesTunnel, {}, "tunnels")
  BY LienDebut
<1>2. 0 \in 0..MaxConnexions /\ 0 \in 0..MaxBlocs /\ 0 \in 0..0 /\ 1..0 = {}
  BY TunnelsAssumption
<1>3. TypeTInd
  BY <1>2, EmptySeq DEF TypeTInd, InitT
<1>4. ASSUME NEW c \in Cotes
      PROVE  /\ canal[c] = <<>> /\ sortie[Autre(c)] = <<>> /\ Transit(c) = {}
             /\ \A k \in Connexions : recus[c][k] = <<>> /\ lus[Autre(c)][k] = 0
  BY AutreCote DEF InitLien, InitT, Transit, EnTransit
<1>5. \A c \in Cotes : Ordonnes(canal[c], sortie[Autre(c)]) /\ Fil(c)
  BY <1>4 DEF Ordonnes, Fil
<1>6. \A c \in Cotes, k \in Connexions : Recu(c, k) /\ Couvert(c, k)
  BY <1>4 DEF Recu, Couvert
<1> QED
  BY <1>1, <1>3, <1>5, <1>6 DEF TunnelInd

\* It implies the order of the bytes.
LEMMA TunnelBilan == TunnelInd => OctetsEnOrdre
BY DEF TunnelInd, OctetsEnOrdre, Recu

-----------------------------------------------------------------------------
(***************************************************************************)
(* The gate of the inputs.                                                 *)
(***************************************************************************)
Frappes == [touche : Touches \cup Boutons, appui : BOOLEAN]
\* The frames of the inputs.
TramesEntree == [type : {"Entree"}, touche : Touches \cup Boutons, appui : BOOLEAN]

\* A frame of an input.
EstEntree(f) == f.type = "Entree"

\* In the channel q, then in the queue s: a release of t is on its way.
Relachee(q, s, t) ==
  \/ \E i \in 1..Len(q) : EstEntree(q[i]) /\ q[i].touche = t /\ ~q[i].appui
  \/ \E i \in 1..Len(s) : s[i].touche = t /\ ~s[i].appui

\* Every press on its way is of a key the user holds, or is followed by its release.
Suivies(q, s, tenus) ==
  /\ \A i \in 1..Len(q) :
       EstEntree(q[i]) /\ q[i].appui =>
         \/ q[i].touche \in tenus
         \/ \E j \in 1..Len(q) : i < j /\ EstEntree(q[j]) /\ q[j].touche = q[i].touche /\ ~q[j].appui
         \/ \E j \in 1..Len(s) : s[j].touche = q[i].touche /\ ~s[j].appui
  /\ \A i \in 1..Len(s) :
       s[i].appui =>
         \/ s[i].touche \in tenus
         \/ \E j \in 1..Len(s) : i < j /\ s[j].touche = s[i].touche /\ ~s[j].appui

\* The invariant of a session used for inputs: what the host holds is held by the user, or its
\* release is on its way, but for the orphans.
ClavierInd ==
  /\ LienInd(TramesEntree, {}, "entrees")
  /\ tenues \in SUBSET (Touches \cup Boutons) /\ entrees \in Seq(Frappes)
  /\ mods \in SUBSET DOMAIN Bit /\ avalees \in SUBSET (Touches \ Boutons) /\ lectureSeule \in BOOLEAN
  /\ injectees \in SUBSET (Touches \cup Boutons)
  /\ declenchees \subseteq avalees
  /\ avalees \cap injectees \subseteq orphelines
  /\ lectureSeule => injectees = {}
  /\ "Controlled" \notin fils => injectees = {}
  /\ ouvert =>
       /\ \A t \in injectees \ orphelines : t \in tenues \/ Relachee(canal["Controlled"], entrees, t)
       /\ Suivies(canal["Controlled"], entrees, tenues)

-----------------------------------------------------------------------------
\* What the emitter takes from its queue goes to the end of the channel.
LEMMA FrappesEmettre ==
  ASSUME NEW S, NEW C, NEW q \in Seq(S), NEW s \in Seq(C), s # <<>>, NEW f \in S,
         EstEntree(f), f.touche = Head(s).touche, f.appui = Head(s).appui
  PROVE  /\ \A t : Relachee(q, s, t) => Relachee(Append(q, f), Tail(s), t)
         /\ \A T : Suivies(q, s, T) => Suivies(Append(q, f), Tail(s), T)
<1> DEFINE r == Append(q, f)
           u == Tail(s)
<1>1. /\ Len(r) = Len(q) + 1 /\ Len(q) \in Nat
      /\ \A i \in 1..Len(q) : r[i] = q[i]
      /\ r[Len(q) + 1] = f
  BY AppendProperties, LenProperties
<1>2. /\ Len(u) = Len(s) - 1
      /\ \A i \in 1..Len(u) : u[i] = s[i + 1]
  BY HeadTailProperties
<1>3. Len(s) \in Nat /\ Len(s) > 0 /\ Head(s) = s[1]
  BY EmptySeq, LenProperties
<1> HIDE DEF r, u
<1>4. \A i \in 1..Len(q) : i \in 1..Len(r) /\ i < Len(q) + 1
  BY <1>1
<1>5. Len(q) + 1 \in 1..Len(r) /\ \A i \in 1..Len(r) : i \in 1..Len(q) \/ i = Len(q) + 1
  BY <1>1
<1>6. \A i \in 1..Len(s) : i # 1 => i - 1 \in 1..Len(u) /\ u[i - 1] = s[i]
  BY <1>2, <1>3
<1>7. \A i \in 1..Len(u) : i + 1 \in 1..Len(s) /\ i + 1 # 1 /\ u[i] = s[i + 1]
  BY <1>2, <1>3
\* A release in s is at the end of r or in u.
<1>8. ASSUME NEW t, NEW j \in 1..Len(s), s[j].touche = t, ~s[j].appui
      PROVE  \/ r[Len(q) + 1].touche = t /\ ~r[Len(q) + 1].appui /\ EstEntree(r[Len(q) + 1])
             \/ \E i \in 1..Len(u) : u[i].touche = t /\ ~u[i].appui
  <2>1. CASE j = 1
    BY <1>1, <1>3, <1>8, <2>1
  <2>2. CASE j # 1
    <3>1. j - 1 \in 1..Len(u) /\ u[j - 1] = s[j]
      BY <1>6, <2>2
    <3> QED
      BY <1>8, <3>1
  <2> QED
    BY <2>1, <2>2
<1>9. ASSUME NEW t, Relachee(q, s, t) PROVE Relachee(r, u, t)
  <2>1. CASE \E i \in 1..Len(q) : EstEntree(q[i]) /\ q[i].touche = t /\ ~q[i].appui
    BY <1>1, <1>4, <2>1 DEF Relachee
  <2>2. CASE \E j \in 1..Len(s) : s[j].touche = t /\ ~s[j].appui
    BY <1>5, <1>8, <2>2 DEF Relachee
  <2> QED
    BY <1>9, <2>1, <2>2 DEF Relachee
<1>10. ASSUME NEW T, Suivies(q, s, T) PROVE Suivies(r, u, T)
  <2>1. ASSUME NEW i \in 1..Len(r), EstEntree(r[i]), r[i].appui
        PROVE  \/ r[i].touche \in T
               \/ \E j \in 1..Len(r) : i < j /\ EstEntree(r[j]) /\ r[j].touche = r[i].touche /\ ~r[j].appui
               \/ \E j \in 1..Len(u) : u[j].touche = r[i].touche /\ ~u[j].appui
    <3>1. CASE i \in 1..Len(q)
      <4>1. \/ q[i].touche \in T
            \/ \E j \in 1..Len(q) : i < j /\ EstEntree(q[j]) /\ q[j].touche = q[i].touche /\ ~q[j].appui
            \/ \E j \in 1..Len(s) : s[j].touche = q[i].touche /\ ~s[j].appui
        BY <1>1, <1>10, <2>1, <3>1 DEF Suivies
      <4>2. CASE \E j \in 1..Len(q) : i < j /\ EstEntree(q[j]) /\ q[j].touche = q[i].touche /\ ~q[j].appui
        BY <1>1, <1>4, <3>1, <4>2
      <4>3. CASE \E j \in 1..Len(s) : s[j].touche = q[i].touche /\ ~s[j].appui
        BY <1>1, <1>4, <1>5, <1>8, <3>1, <4>3
      <4> QED
        BY <1>1, <3>1, <4>1, <4>2, <4>3
    <3>2. CASE i = Len(q) + 1
      <4>1. 1 \in 1..Len(s) /\ s[1].appui /\ s[1].touche = r[i].touche
        BY <1>1, <1>3, <2>1, <3>2
      <4>2. \/ s[1].touche \in T
            \/ \E j \in 1..Len(s) : 1 < j /\ s[j].touche = s[1].touche /\ ~s[j].appui
        BY <1>10, <4>1 DEF Suivies
      <4>3. ASSUME NEW j \in 1..Len(s), 1 < j, s[j].touche = s[1].touche, ~s[j].appui
            PROVE  \E y \in 1..Len(u) : u[y].touche = r[i].touche /\ ~u[y].appui
        <5>1. j - 1 \in 1..Len(u) /\ u[j - 1] = s[j]
          BY <1>6, <4>3
        <5> QED
          BY <4>1, <4>3, <5>1
      <4> QED
        BY <4>1, <4>2, <4>3
    <3> QED
      BY <1>5, <3>1, <3>2
  <2>2. ASSUME NEW i \in 1..Len(u), u[i].appui
        PROVE  \/ u[i].touche \in T
               \/ \E j \in 1..Len(u) : i < j /\ u[j].touche = u[i].touche /\ ~u[j].appui
    <3>1. i + 1 \in 1..Len(s) /\ u[i] = s[i + 1]
      BY <1>7
    <3>2. \/ s[i + 1].touche \in T
          \/ \E j \in 1..Len(s) : i + 1 < j /\ s[j].touche = s[i + 1].touche /\ ~s[j].appui
      BY <1>10, <2>2, <3>1 DEF Suivies
    <3>3. ASSUME NEW j \in 1..Len(s), i + 1 < j, s[j].touche = s[i + 1].touche, ~s[j].appui
          PROVE  \E y \in 1..Len(u) : i < y /\ u[y].touche = u[i].touche /\ ~u[y].appui
      <4>1. j - 1 \in 1..Len(u) /\ u[j - 1] = s[j] /\ i < j - 1
        BY <1>6, <3>3
      <4> QED
        BY <3>1, <3>3, <4>1
    <3> QED
      BY <3>1, <3>2, <3>3
  <2> QED
    BY <2>1, <2>2 DEF Suivies
<1> QED
  BY <1>9, <1>10 DEF r, u

\* The user presses or releases.
LEMMA FrappesSaisir ==
  ASSUME NEW S, NEW C, NEW q \in Seq(S), NEW s \in Seq(C), NEW x \in C, NEW T
  PROVE  LET u == Append(s, x)
             n == IF x.appui THEN T \cup {x.touche} ELSE T \ {x.touche} IN
           /\ \A t : Relachee(q, s, t) => Relachee(q, u, t)
           /\ ~x.appui => Relachee(q, u, x.touche)
           /\ Suivies(q, s, T) => Suivies(q, u, n)
<1> DEFINE u == Append(s, x)
           n == IF x.appui THEN T \cup {x.touche} ELSE T \ {x.touche}
<1>1. /\ Len(u) = Len(s) + 1 /\ Len(s) \in Nat
      /\ \A i \in 1..Len(s) : u[i] = s[i]
      /\ u[Len(s) + 1] = x
  BY AppendProperties, LenProperties
<1> HIDE DEF u
<1>2. \A i \in 1..Len(s) : i \in 1..Len(u) /\ i < Len(s) + 1 /\ u[i] = s[i]
  BY <1>1
<1>3. /\ Len(s) + 1 \in 1..Len(u) /\ u[Len(s) + 1] = x
      /\ \A i \in 1..Len(u) : i \in 1..Len(s) \/ i = Len(s) + 1
  BY <1>1
<1>4. \A t : Relachee(q, s, t) => Relachee(q, u, t)
  BY <1>2 DEF Relachee
<1>5. ~x.appui => Relachee(q, u, x.touche)
  BY <1>3 DEF Relachee
<1>6. ASSUME Suivies(q, s, T) PROVE Suivies(q, u, n)
  <2>1. \A t \in T : t \in n \/ (t = x.touche /\ ~x.appui)
    OBVIOUS
  <2>2. x.appui => x.touche \in n
    OBVIOUS
  <2> HIDE DEF n
  <2>3. ASSUME NEW i \in 1..Len(q), EstEntree(q[i]), q[i].appui
        PROVE  \/ q[i].touche \in n
               \/ \E j \in 1..Len(q) : i < j /\ EstEntree(q[j]) /\ q[j].touche = q[i].touche /\ ~q[j].appui
               \/ \E j \in 1..Len(u) : u[j].touche = q[i].touche /\ ~u[j].appui
    <3>1. \/ q[i].touche \in T
          \/ \E j \in 1..Len(q) : i < j /\ EstEntree(q[j]) /\ q[j].touche = q[i].touche /\ ~q[j].appui
          \/ \E j \in 1..Len(s) : s[j].touche = q[i].touche /\ ~s[j].appui
      BY <1>6, <2>3 DEF Suivies
    <3> QED
      BY <1>2, <1>3, <2>1, <3>1
  <2>4. ASSUME NEW i \in 1..Len(u), u[i].appui
        PROVE  \/ u[i].touche \in n
               \/ \E j \in 1..Len(u) : i < j /\ u[j].touche = u[i].touche /\ ~u[j].appui
    <3>1. CASE i = Len(s) + 1
      BY <1>3, <2>2, <2>4, <3>1
    <3>2. CASE i \in 1..Len(s)
      <4>1. \/ s[i].touche \in T
            \/ \E j \in 1..Len(s) : i < j /\ s[j].touche = s[i].touche /\ ~s[j].appui
        BY <1>2, <1>6, <2>4, <3>2 DEF Suivies
      <4> QED
        BY <1>2, <1>3, <2>1, <3>2, <4>1
    <3> QED
      BY <1>3, <3>1, <3>2
  <2> QED
    BY <2>3, <2>4 DEF Suivies
<1> QED
  BY <1>4, <1>5, <1>6 DEF u, n

\* A frame that is not an input enters the channel.
LEMMA FrappesAutre ==
  ASSUME NEW S, NEW q \in Seq(S), NEW s, NEW f \in S, ~EstEntree(f)
  PROVE  /\ \A t : Relachee(q, s, t) => Relachee(Append(q, f), s, t)
         /\ \A T : Suivies(q, s, T) => Suivies(Append(q, f), s, T)
<1> DEFINE r == Append(q, f)
<1>1. /\ Len(r) = Len(q) + 1 /\ Len(q) \in Nat
      /\ \A i \in 1..Len(q) : r[i] = q[i]
      /\ r[Len(q) + 1] = f
  BY AppendProperties, LenProperties
<1> HIDE DEF r
<1>2. \A i \in 1..Len(r) : EstEntree(r[i]) => i \in 1..Len(q)
  BY <1>1
<1>3. \A i \in 1..Len(q) : i \in 1..Len(r) /\ r[i] = q[i]
  BY <1>1
<1>4. \A t : Relachee(q, s, t) => Relachee(r, s, t)
  BY <1>3 DEF Relachee
<1>5. ASSUME NEW T, Suivies(q, s, T) PROVE Suivies(r, s, T)
  BY <1>2, <1>3, <1>5 DEF Suivies
<1> QED
  BY <1>4, <1>5 DEF r

\* The first frame leaves the channel.
LEMMA FrappesTete ==
  ASSUME NEW S, NEW q \in Seq(S), q # <<>>, NEW s, NEW T, Suivies(q, s, T)
  PROVE  /\ Suivies(Tail(q), s, T)
         /\ \A t : Relachee(q, s, t) =>
              \/ Relachee(Tail(q), s, t)
              \/ EstEntree(Head(q)) /\ Head(q).touche = t /\ ~Head(q).appui
         /\ EstEntree(Head(q)) /\ Head(q).appui =>
              Head(q).touche \in T \/ Relachee(Tail(q), s, Head(q).touche)
<1> DEFINE r == Tail(q)
<1>1. /\ Len(r) = Len(q) - 1 /\ Len(q) \in Nat /\ Len(q) > 0 /\ Head(q) = q[1]
      /\ \A i \in 1..Len(r) : r[i] = q[i + 1]
  BY HeadTailProperties, EmptySeq, LenProperties
<1> HIDE DEF r
<1>2. \A i \in 1..Len(q) : i # 1 => i - 1 \in 1..Len(r) /\ r[i - 1] = q[i]
  BY <1>1
<1>3. \A i \in 1..Len(r) : i + 1 \in 1..Len(q) /\ r[i] = q[i + 1]
  BY <1>1
<1>4. ASSUME NEW i \in 1..Len(r), EstEntree(r[i]), r[i].appui
      PROVE  \/ r[i].touche \in T
             \/ \E j \in 1..Len(r) : i < j /\ EstEntree(r[j]) /\ r[j].touche = r[i].touche /\ ~r[j].appui
             \/ \E j \in 1..Len(s) : s[j].touche = r[i].touche /\ ~s[j].appui
  <2>1. i + 1 \in 1..Len(q) /\ r[i] = q[i + 1]
    BY <1>3
  <2>2. \/ q[i + 1].touche \in T
        \/ \E j \in 1..Len(q) : i + 1 < j /\ EstEntree(q[j]) /\ q[j].touche = q[i + 1].touche /\ ~q[j].appui
        \/ \E j \in 1..Len(s) : s[j].touche = q[i + 1].touche /\ ~s[j].appui
    BY <1>4, <2>1 DEF Suivies
  <2>3. ASSUME NEW j \in 1..Len(q), i + 1 < j, EstEntree(q[j]), q[j].touche = q[i + 1].touche, ~q[j].appui
        PROVE  \E y \in 1..Len(r) : i < y /\ EstEntree(r[y]) /\ r[y].touche = r[i].touche /\ ~r[y].appui
    <3>1. j - 1 \in 1..Len(r) /\ r[j - 1] = q[j] /\ i < j - 1
      BY <1>2, <2>3
    <3> QED
      BY <2>1, <2>3, <3>1
  <2> QED
    BY <2>1, <2>2, <2>3
<1>5. Suivies(r, s, T)
  BY <1>4 DEF Suivies
<1>6. ASSUME NEW j \in 1..Len(q), j # 1, EstEntree(q[j]), ~q[j].appui
      PROVE  Relachee(r, s, q[j].touche)
  BY <1>2, <1>6 DEF Relachee
<1>7. ASSUME NEW t, Relachee(q, s, t)
      PROVE  Relachee(r, s, t) \/ (EstEntree(q[1]) /\ q[1].touche = t /\ ~q[1].appui)
  BY <1>6, <1>7 DEF Relachee
<1>8. ASSUME EstEntree(q[1]), q[1].appui
      PROVE  q[1].touche \in T \/ Relachee(r, s, q[1].touche)
  <2>1. 1 \in 1..Len(q)
    BY <1>1
  <2>2. \/ q[1].touche \in T
        \/ \E j \in 1..Len(q) : 1 < j /\ EstEntree(q[j]) /\ q[j].touche = q[1].touche /\ ~q[j].appui
        \/ \E j \in 1..Len(s) : s[j].touche = q[1].touche /\ ~s[j].appui
    BY <1>8, <2>1 DEF Suivies
  <2> QED
    BY <1>6, <2>2 DEF Relachee
<1> QED
  BY <1>1, <1>5, <1>7, <1>8 DEF r

\* Nothing is on its way.
LEMMA FrappesVides == \A T : Suivies(<<>>, <<>>, T)
BY DEF Suivies

\* The user presses or releases.
LEMMA ClavierSaisir ==
  ASSUME ClavierInd, NEW t \in Touches \cup Boutons, NEW appui \in BOOLEAN, Saisir(t, appui)
  PROVE  ClavierInd'
<1> DEFINE x == [touche |-> t, appui |-> appui]
           q == canal["Controlled"]
<1>1. x \in Frappes /\ x.touche = t /\ x.appui = appui
  BY DEF Frappes
<1>2. q \in Seq(TramesEntree \cup PermsDe("entrees")) /\ entrees \in Seq(Frappes)
  BY DEF ClavierInd, LienInd, Cotes
<1>3. entrees' = Append(entrees, x) /\ entrees' \in Seq(Frappes)
  BY <1>1, <1>2, AppendProperties DEF Saisir
<1>4. tenues' = IF x.appui THEN tenues \cup {x.touche} ELSE tenues \ {x.touche}
  BY <1>1 DEF Saisir
<1> HIDE DEF x
<1>5. /\ \A k : Relachee(q, entrees, k) => Relachee(q, entrees', k)
      /\ ~appui => Relachee(q, entrees', t)
      /\ Suivies(q, entrees, tenues) => Suivies(q, entrees', tenues')
  BY <1>1, <1>2, <1>3, <1>4, FrappesSaisir
<1>6. /\ UNCHANGED lien
      /\ UNCHANGED <<mods, avalees, lectureSeule, injectees, declenchees, orphelines>>
      /\ tenues' = IF appui THEN tenues \cup {t} ELSE tenues \ {t}
  BY DEF Saisir, guichet
<1>7. LienInd(TramesEntree, {}, "entrees")'
  BY <1>6 DEF ClavierInd, LienInd, lien
<1>8. tenues' \in SUBSET (Touches \cup Boutons)
  BY <1>6 DEF ClavierInd
<1>9. ASSUME ouvert'
      PROVE  /\ \A k \in (injectees \ orphelines)' :
                  k \in tenues' \/ Relachee(canal'["Controlled"], entrees', k)
             /\ Suivies(canal'["Controlled"], entrees', tenues')
  BY <1>5, <1>6, <1>9 DEF ClavierInd, lien
<1> QED
  BY <1>3, <1>6, <1>7, <1>8, <1>9 DEF ClavierInd, lien

\* An input goes on the link, or is lost with it.
LEMMA ClavierEnvoyer ==
  ASSUME ClavierInd, EnvoyerEntree
  PROVE  ClavierInd'
<1> DEFINE S == TramesEntree \cup PermsDe("entrees")
           q == canal["Controlled"]
           f == [type |-> "Entree", touche |-> Head(entrees).touche, appui |-> Head(entrees).appui]
<1>1. canal \in [Cotes -> Seq(S)] /\ q \in Seq(S) /\ ouvert \in BOOLEAN /\ "Controller" \in Cotes
      /\ Autre("Controller") = "Controlled"
  BY DEF ClavierInd, LienInd, Cotes, Autre
<1>2. entrees \in Seq(Frappes) /\ entrees # <<>> /\ Head(entrees) \in Frappes
      /\ Tail(entrees) \in Seq(Frappes)
  BY HeadTailProperties DEF ClavierInd, EnvoyerEntree
<1>3. f \in S /\ EstEntree(f) /\ f.touche = Head(entrees).touche /\ f.appui = Head(entrees).appui
  BY <1>2 DEF Frappes, TramesEntree, EstEntree
<1>4. /\ Emettre("Controller", f) /\ entrees' = Tail(entrees)
      /\ UNCHANGED <<usage, ouvert, fils, epoque, commandes, perms, voulues, changements>>
      /\ UNCHANGED <<mods, avalees, lectureSeule, tenues, injectees, declenchees, orphelines>>
  BY DEF EnvoyerEntree, droits, guichet
<1> HIDE DEF f
<1>5. /\ canal' \in [Cotes -> Seq(S)]
      /\ ouvert => canal'["Controlled"] = Append(q, f)
      /\ ~ouvert => canal' = canal
  BY <1>1, <1>3, <1>4, EmettreType
<1>6. LienInd(TramesEntree, {}, "entrees")'
  BY <1>4, <1>5 DEF ClavierInd, LienInd
<1>7. /\ \A t : Relachee(q, entrees, t) => Relachee(Append(q, f), Tail(entrees), t)
      /\ Suivies(q, entrees, tenues) => Suivies(Append(q, f), Tail(entrees), tenues)
  BY <1>1, <1>2, <1>3, FrappesEmettre
<1>8. ASSUME ouvert'
      PROVE  /\ \A k \in (injectees \ orphelines)' :
                  k \in tenues' \/ Relachee(canal'["Controlled"], entrees', k)
             /\ Suivies(canal'["Controlled"], entrees', tenues')
  BY <1>4, <1>5, <1>7, <1>8 DEF ClavierInd
<1> QED
  BY <1>2, <1>4, <1>6, <1>8 DEF ClavierInd

\* What the filter of the shortcuts answers.
LEMMA FiltrerIssue ==
  ASSUME NEW t \in Touches \cup Boutons, NEW appui \in BOOLEAN,
         mods \in SUBSET DOMAIN Bit, avalees \in SUBSET (Touches \ Boutons)
  PROVE  LET f == Filtrer(t, appui) IN
           /\ f.mods \in SUBSET DOMAIN Bit /\ f.avalees \in SUBSET (Touches \ Boutons)
           /\ \/ f.issue = "Injecter" /\ f.avalees = avalees /\ t \notin avalees
              \/ /\ f.issue = "Avale" /\ t \in avalees
                 /\ f.avalees = IF appui THEN avalees ELSE avalees \ {t}
              \/ f.issue \notin {"Injecter", "Avale"} /\ appui /\ f.avalees = avalees \cup {t}
<1>1. Noter(t, appui) \in SUBSET DOMAIN Bit
  BY DEF Noter
<1>2. CASE t \in Boutons
  BY <1>2 DEF Filtrer
<1>3. CASE t \notin Boutons /\ t \in avalees
  BY <1>1, <1>3 DEF Filtrer
<1>4. CASE t \notin Boutons /\ t \notin avalees /\ Declenche(t, appui) # {}
  <2>1. PICK a : a = CHOOSE y \in Declenche(t, appui) : TRUE
    OBVIOUS
  <2>2. a \in Declenche(t, appui)
    BY <1>4, <2>1
  <2>3. a \notin {"Injecter", "Avale"} /\ appui /\ t \notin Boutons
    BY <2>2, RaccourcisAssumption DEF Declenche
  <2>4. Filtrer(t, appui) = [issue |-> a, mods |-> Noter(t, appui), avalees |-> avalees \cup {t}]
    BY <1>4, <2>1 DEF Filtrer
  <2>5. PICK f : f = Filtrer(t, appui)
    OBVIOUS
  <2>6. /\ f.issue = a /\ f.mods = Noter(t, appui) /\ f.avalees = avalees \cup {t}
        /\ t \in Touches \ Boutons
    BY <2>3, <2>4, <2>5
  <2> QED
    BY <1>1, <2>3, <2>5, <2>6
<1>5. CASE t \notin Boutons /\ t \notin avalees /\ Declenche(t, appui) = {}
  <2>1. Filtrer(t, appui) = [issue |-> "Injecter", mods |-> Noter(t, appui), avalees |-> avalees]
    BY <1>5 DEF Filtrer
  <2> QED
    BY <1>1, <1>5, <2>1
<1> QED
  BY <1>2, <1>3, <1>4, <1>5

\* What the gate does with an input that comes out of the channel.
LEMMA ClavierTraiter ==
  ASSUME ClavierInd, TraiterEntree
  PROVE  ClavierInd'
<1> DEFINE S == TramesEntree \cup PermsDe("entrees")
           q == canal["Controlled"]
<1>1. PICK t, appui : t = Trame("Controlled").touche /\ appui = Trame("Controlled").appui
  OBVIOUS
<1>2. /\ canal \in [Cotes -> Seq(S)] /\ "Controlled" \in Cotes /\ q \in Seq(S) /\ q # <<>>
      /\ ouvert = TRUE
  BY DEF ClavierInd, LienInd, Cotes, TraiterEntree
<1>3. Head(q) \in S /\ Tail(q) \in Seq(S)
  BY <1>2, HeadTailProperties
<1>4. /\ Head(q) \in TramesEntree /\ EstEntree(Head(q)) /\ Head(q).touche = t /\ Head(q).appui = appui
      /\ t \in Touches \cup Boutons /\ appui \in BOOLEAN
  BY <1>1, <1>3 DEF TraiterEntree, Trame, PermsDe, TramesEntree, EstEntree
<1>5. /\ Suivies(Tail(q), entrees, tenues)
      /\ \A k : Relachee(q, entrees, k) => Relachee(Tail(q), entrees, k) \/ (k = t /\ ~appui)
      /\ appui => t \in tenues \/ Relachee(Tail(q), entrees, t)
  <2>1. Suivies(q, entrees, tenues)
    BY <1>2 DEF ClavierInd
  <2> QED
    BY <1>2, <1>4, <2>1, FrappesTete
<1>6. /\ mods \in SUBSET DOMAIN Bit /\ avalees \in SUBSET (Touches \ Boutons)
      /\ injectees \in SUBSET (Touches \cup Boutons)
      /\ avalees \cap injectees \subseteq orphelines /\ declenchees \subseteq avalees
      /\ lectureSeule \in BOOLEAN /\ (lectureSeule => injectees = {})
      /\ "Controlled" \in fils
      /\ \A k \in injectees \ orphelines : k \in tenues \/ Relachee(q, entrees, k)
  BY <1>2 DEF ClavierInd, TraiterEntree
<1>7. /\ UNCHANGED <<usage, fils, epoque, commandes, perms, voulues, changements, tenues, entrees>>
      /\ canal' = IF ouvert' THEN [canal EXCEPT !["Controlled"] = Tail(@)]
                             ELSE [c \in Cotes |-> <<>>]
  BY DEF TraiterEntree, droits
\* What a step of the gate has to respect.
<1>8. SUFFICES /\ mods' \in SUBSET DOMAIN Bit /\ avalees' \in SUBSET (Touches \ Boutons)
               /\ injectees' \in SUBSET (Touches \cup Boutons)
               /\ avalees' \cap injectees' \subseteq orphelines' /\ declenchees' \subseteq avalees'
               /\ lectureSeule' \in BOOLEAN /\ (lectureSeule' => injectees' = {})
               /\ ouvert' \in BOOLEAN
               /\ \A k \in injectees' \ orphelines' :
                    \/ k \in injectees \ orphelines /\ (k = t => appui)
                    \/ k = t /\ appui
  <2>1. canal' \in [Cotes -> Seq(S)] /\ (~ouvert' => canal' = [c \in Cotes |-> <<>>])
        /\ (ouvert' => canal'["Controlled"] = Tail(q))
    BY <1>2, <1>3, <1>7, <1>8, EmptySeq
  <2>2. LienInd(TramesEntree, {}, "entrees")'
    BY <1>7, <1>8, <2>1 DEF ClavierInd, LienInd
  <2>3. ASSUME ouvert'
        PROVE  /\ \A k \in (injectees \ orphelines)' :
                    k \in tenues' \/ Relachee(canal'["Controlled"], entrees', k)
               /\ Suivies(canal'["Controlled"], entrees', tenues')
    BY <1>5, <1>6, <1>7, <1>8, <2>1, <2>3
  <2> QED
    BY <1>6, <1>7, <1>8, <2>2, <2>3 DEF ClavierInd
<1>9. CASE ~Autorise("Controlled", Requise(t))
  <2>1. /\ orphelines' = IF appui THEN orphelines ELSE orphelines \cup (injectees \cap {t})
        /\ declenchees' = IF appui THEN declenchees ELSE declenchees \ {t}
        /\ UNCHANGED <<mods, avalees, lectureSeule, injectees, ouvert>>
    BY <1>1, <1>9 DEF TraiterEntree, guichet
  <2> QED
    BY <1>2, <1>4, <1>6, <2>1
<1>10. CASE Autorise("Controlled", Requise(t))
  <2>1. PICK f : f = Filtrer(t, appui)
    OBVIOUS
  <2>2. LET action == f.issue \notin {"Injecter", "Avale"} IN
        /\ mods' = f.mods /\ avalees' = f.avalees
        /\ CASE f.issue = "Injecter" -> Injecter(t, appui)
             [] f.issue = "Avale" -> UNCHANGED <<injectees, lectureSeule, ouvert>>
             [] action -> AppliquerAction(f.issue)
        /\ declenchees' = CASE action -> declenchees \cup {t}
                            [] ~action /\ ~appui -> declenchees \ {t}
                            [] ~action /\ appui -> declenchees
        /\ orphelines' = injectees' \cap (IF action THEN orphelines \cup {t} ELSE orphelines)
    BY <1>1, <1>10, <2>1 DEF TraiterEntree
  <2>3. /\ f.mods \in SUBSET DOMAIN Bit /\ f.avalees \in SUBSET (Touches \ Boutons)
        /\ \/ f.issue = "Injecter" /\ f.avalees = avalees /\ t \notin avalees
           \/ /\ f.issue = "Avale" /\ t \in avalees
              /\ f.avalees = IF appui THEN avalees ELSE avalees \ {t}
           \/ f.issue \notin {"Injecter", "Avale"} /\ appui /\ f.avalees = avalees \cup {t}
    BY <1>4, <1>6, <2>1, FiltrerIssue
  <2>4. CASE f.issue = "Injecter" /\ f.avalees = avalees /\ t \notin avalees
    <3>1. /\ Injecter(t, appui) /\ mods' = f.mods /\ avalees' = avalees
          /\ declenchees' = IF appui THEN declenchees ELSE declenchees \ {t}
          /\ orphelines' = injectees' \cap orphelines
      BY <1>4, <2>2, <2>4
    <3>2. /\ injectees' = IF lectureSeule THEN injectees
                          ELSE IF appui THEN injectees \cup {t} ELSE injectees \ {t}
          /\ UNCHANGED <<ouvert, lectureSeule>>
      BY <1>4, <1>6, <3>1 DEF Injecter
    <3> QED
      BY <1>2, <1>4, <1>6, <2>3, <2>4, <3>1, <3>2
  <2>5. CASE /\ f.issue = "Avale" /\ t \in avalees
             /\ f.avalees = IF appui THEN avalees ELSE avalees \ {t}
    <3>1. /\ UNCHANGED <<injectees, lectureSeule, ouvert>> /\ mods' = f.mods /\ avalees' = f.avalees
          /\ declenchees' = IF appui THEN declenchees ELSE declenchees \ {t}
          /\ orphelines' = injectees' \cap orphelines
      BY <1>4, <2>2, <2>5
    <3> QED
      BY <1>2, <1>4, <1>6, <2>3, <2>5, <3>1
  <2>6. CASE f.issue \notin {"Injecter", "Avale"} /\ appui /\ f.avalees = avalees \cup {t}
    <3>1. /\ AppliquerAction(f.issue) /\ mods' = f.mods /\ avalees' = avalees \cup {t}
          /\ declenchees' = declenchees \cup {t}
          /\ orphelines' = injectees' \cap (orphelines \cup {t})
      BY <1>4, <2>2, <2>6
    <3>2. /\ injectees' \in {injectees, {}}
          /\ lectureSeule' \in BOOLEAN /\ (lectureSeule' => injectees' = {})
          /\ ouvert' \in BOOLEAN
      BY <1>2, <1>6, <3>1 DEF AppliquerAction
    <3> QED
      BY <1>2, <1>4, <1>6, <2>3, <2>6, <3>1, <3>2
  <2> QED
    BY <2>3, <2>4, <2>5, <2>6
<1> QED
  BY <1>9, <1>10

\* A cut, the end of a loop, a new gate.
LEMMA ClavierLien ==
  ASSUME ClavierInd, "entrees" \in Usages,
         \/ (Couper \/ NextPermissions) /\ UNCHANGED varsG
         \/ NouveauGuichet
         \/ \E c \in Cotes : FinReception(c)
  PROVE  ClavierInd'
<1>1. \A t \in TramesEntree : t.type # "Permissions"
  BY DEF TramesEntree
<1>2. LienInd(TramesEntree, {}, "entrees")
  BY DEF ClavierInd
<1>3. NextLien \/ NextPermissions => LienInd(TramesEntree, {}, "entrees")'
  BY <1>1, <1>2, LienPas
<1>4. CASE Couper /\ UNCHANGED varsG
  BY <1>3, <1>4 DEF NextLien, Couper, varsG, ClavierInd
<1>5. CASE NouveauGuichet
  <2>1. /\ Rouvrir /\ entrees' = <<>> /\ mods' = {} /\ avalees' = {} /\ lectureSeule' = FALSE
        /\ declenchees' = {} /\ UNCHANGED <<tenues, injectees, orphelines>>
    BY <1>5 DEF NouveauGuichet
  <2>2. /\ LienInd(TramesEntree, {}, "entrees")' /\ injectees = {}
        /\ canal'["Controlled"] = <<>> /\ entrees' \in Seq(Frappes)
    BY <1>3, <2>1, EmptySeq DEF NextLien, ClavierInd, LienInd, Rouvrir, Cotes
  <2> QED
    BY <2>1, <2>2, FrappesVides DEF ClavierInd
<1>6. ASSUME NEW c \in Cotes, FinReception(c) PROVE ClavierInd'
  <2>1. /\ Terminer(c) /\ injectees' = (IF c = "Controlled" THEN {} ELSE injectees)
        /\ orphelines' = orphelines \cap injectees'
        /\ UNCHANGED <<mods, avalees, lectureSeule, tenues, entrees, declenchees>>
    BY <1>6 DEF FinReception, guichet
  <2>2. LienInd(TramesEntree, {}, "entrees")' /\ ouvert' = FALSE /\ fils' = fils \ {c}
    BY <1>3, <2>1 DEF NextLien, Terminer, ClavierInd, LienInd
  <2> QED
    BY <2>1, <2>2 DEF ClavierInd
<1>7. CASE NextPermissions /\ UNCHANGED varsG
  <2>1. LienInd(TramesEntree, {}, "entrees")'
    BY <1>3, <1>7
  <2>2. UNCHANGED <<ouvert, fils>>
    BY <1>7 DEF NextPermissions, DefinirPermission, FilsPermissions, AppliquerPermissions,
       RecevoirPermissions
  <2>3. ASSUME ouvert
        PROVE  /\ \A k : Relachee(canal["Controlled"], entrees, k)
                           => Relachee(canal'["Controlled"], entrees, k)
               /\ Suivies(canal["Controlled"], entrees, tenues)
                    => Suivies(canal'["Controlled"], entrees, tenues)
    <3> DEFINE S == TramesEntree \cup PermsDe("entrees")
    <3>1. /\ canal \in [Cotes -> Seq(S)] /\ canal["Controlled"] \in Seq(S) /\ ouvert \in BOOLEAN
          /\ commandes \in [Cotes -> Seq({} \cup MajDe("entrees"))]
      BY <1>2 DEF LienInd, Cotes, S
    <3> HIDE DEF S
    <3>2. Suivies(canal["Controlled"], entrees, tenues)
      BY <2>3 DEF ClavierInd
    <3>3. ASSUME NEW c \in Cotes, AppliquerPermissions(c), canal' # canal
          PROVE  \E f \in S : ~EstEntree(f) /\ canal'["Controlled"] = Append(canal["Controlled"], f)
      <4>1. c = "Controller" /\ Emettre(c, [type |-> "Permissions", bits |-> Commande(c).bits])
        BY <3>3 DEF AppliquerPermissions
      <4>2. Commande(c) \in MajDe("entrees")
        BY <3>1, <3>3, PrendreType DEF AppliquerPermissions
      <4>3. PICK f : f = [type |-> "Permissions", bits |-> Commande(c).bits]
        OBVIOUS
      <4>4. f \in S /\ ~EstEntree(f)
        BY <4>2, <4>3 DEF S, MajDe, PermsDe, EstEntree
      <4>5. Emettre(c, f) /\ Autre(c) = "Controlled"
        BY <4>1, <4>3 DEF Autre
      <4>6. canal'[Autre(c)] = Append(canal[Autre(c)], f)
        BY <2>3, <3>1, <4>4, <4>5, EmettreType
      <4> QED
        BY <4>4, <4>5, <4>6
    <3>4. ASSUME NEW c \in Cotes, RecevoirPermissions(c), c = "Controlled"
          PROVE  /\ canal'["Controlled"] = Tail(canal["Controlled"]) /\ canal["Controlled"] # <<>>
                 /\ ~EstEntree(Head(canal["Controlled"]))
      <4>1. Recevoir("Controlled", "Permissions")
        BY <3>4 DEF RecevoirPermissions
      <4> QED
        BY <3>1, <4>1, RecevoirType DEF Trame, EstEntree, Cotes
    <3>5. ASSUME NEW c \in Cotes, RecevoirPermissions(c), c = "Controller"
          PROVE  canal'["Controlled"] = canal["Controlled"]
      <4>1. Recevoir("Controller", "Permissions")
        BY <3>5 DEF RecevoirPermissions
      <4> QED
        BY <3>1, <4>1, RecevoirType DEF Cotes, Autre
    <3>6. \/ canal'["Controlled"] = canal["Controlled"]
          \/ \E f \in S : ~EstEntree(f) /\ canal'["Controlled"] = Append(canal["Controlled"], f)
          \/ /\ canal'["Controlled"] = Tail(canal["Controlled"]) /\ canal["Controlled"] # <<>>
             /\ ~EstEntree(Head(canal["Controlled"]))
      BY <1>7, <3>3, <3>4, <3>5 DEF NextPermissions, DefinirPermission, FilsPermissions, Cotes
    <3>7. CASE \E f \in S : ~EstEntree(f) /\ canal'["Controlled"] = Append(canal["Controlled"], f)
      BY <3>1, <3>7, FrappesAutre
    <3>8. CASE /\ canal'["Controlled"] = Tail(canal["Controlled"]) /\ canal["Controlled"] # <<>>
               /\ ~EstEntree(Head(canal["Controlled"]))
      BY <3>1, <3>2, <3>8, FrappesTete
    <3> QED
      BY <3>6, <3>7, <3>8
  <2> QED
    BY <1>7, <2>1, <2>2, <2>3 DEF varsG, ClavierInd
<1> QED
  BY <1>4, <1>5, <1>6, <1>7

\* Every step of a session used for the inputs preserves the invariant.
LEMMA ClavierPas ==
  ASSUME ClavierInd, "entrees" \in Usages, NextG
  PROVE  ClavierInd'
BY ClavierSaisir, ClavierEnvoyer, ClavierTraiter, ClavierLien DEF NextG

\* The invariant holds at the start.
LEMMA ClavierDebut ==
  ASSUME InitLien, InitG, usage = "entrees"
  PROVE  ClavierInd
<1>1. LienInd(TramesEntree, {}, "entrees")
  BY LienDebut
<1>2. canal["Controlled"] = <<>> /\ entrees = <<>> /\ fils = Cotes
  BY DEF InitLien, InitG, Cotes
<1> QED
  BY <1>1, <1>2, FrappesVides, EmptySeq DEF ClavierInd, InitG, Cotes

\* It implies the property.
LEMMA ClavierBilan == ClavierInd => ClavierFidele
<1> SUFFICES ASSUME ClavierInd PROVE ClavierFidele
  OBVIOUS
<1>1. FrappeCachee
  BY DEF ClavierInd, FrappeCachee
<1>2. ASSUME Repos, entrees = <<>>, ouvert, NEW t \in injectees \ orphelines PROVE t \in tenues
  <2>1. canal["Controlled"] = <<>>
    BY <1>2 DEF Repos, Cotes
  <2>2. ~Relachee(<<>>, <<>>, t)
    BY DEF Relachee
  <2> QED
    BY <1>2, <2>1, <2>2 DEF ClavierInd
<1> QED
  BY <1>1, <1>2 DEF ClavierInd, ClavierFidele, SansFantome

-----------------------------------------------------------------------------
(***************************************************************************)
(* The shared clipboard.                                                   *)
(***************************************************************************)
TramesPP == [type : {"PressePapiers"}, contenu : Contenus \cup {Vide}]

\* Everywhere a content, or nothing.
PresseInd == LienInd(TramesPP, {}, "pressePapiers") /\ TypePP

\* Every step of a session used for the clipboard preserves the invariant.
LEMMA PressePas ==
  ASSUME PresseInd, "pressePapiers" \in Usages, NextPP
  PROVE  PresseInd'
<1> DEFINE S == TramesPP \cup PermsDe("pressePapiers")
<1>1. /\ canal \in [Cotes -> Seq(S)] /\ ouvert \in BOOLEAN /\ TypePP
      /\ \A c \in Cotes : canal[c] # <<>> => ouvert
  BY DEF PresseInd, LienInd
<1> HIDE DEF S
\* The link.
<1>l. ASSUME UNCHANGED <<usage, ouvert, fils, epoque, commandes, perms, voulues, changements>>,
             canal' \in [Cotes -> Seq(S)], ~ouvert => canal' = canal
      PROVE  LienInd(TramesPP, {}, "pressePapiers")'
  BY <1>l DEF PresseInd, LienInd, S
<1>2. ASSUME NEW c \in Cotes, NEW x \in Contenus, Copier(c, x) PROVE PresseInd'
  <2>1. TypePP'
    BY <1>1, <1>2 DEF Copier, TypePP
  <2> QED
    BY <1>1, <1>2, <2>1 DEF Copier, lien, PresseInd, LienInd
<1>3. ASSUME NEW c \in Cotes, NEW echec \in BOOLEAN, Appliquer(c, echec) PROVE PresseInd'
  <2>1. PICK x : x = Trame(c).contenu
    OBVIOUS
  <2>2. /\ canal' \in [Cotes -> Seq(S)] /\ canal[c] # <<>>
        /\ Trame(c) \in S /\ Trame(c).type = "PressePapiers"
    BY <1>1, <1>3, RecevoirType DEF Appliquer
  <2>3. x \in Contenus \cup {Vide}
    BY <2>1, <2>2 DEF S, TramesPP, PermsDe
  <2>4. LienInd(TramesPP, {}, "pressePapiers")'
    BY <1>1, <1>l, <1>3, <2>2 DEF Appliquer, fixePP, droits
  <2>5. TypePP'
    BY <1>1, <1>3, <2>1, <2>3 DEF Appliquer, TypePP
  <2> QED
    BY <2>4, <2>5 DEF PresseInd
<1>4. ASSUME NEW c \in Cotes, Memoriser(c) PROVE PresseInd'
  <2>1. TypePP'
    BY <1>1, <1>4 DEF Memoriser, TypePP
  <2> QED
    BY <1>1, <1>4, <2>1 DEF Memoriser, lien, PresseInd, LienInd
<1>5. ASSUME NEW c \in Cotes, Capturer(c) PROVE PresseInd'
  <2>1. TypePP'
    BY <1>1, <1>5 DEF Capturer, TypePP
  <2> QED
    BY <1>1, <1>5, <2>1 DEF Capturer, lien, PresseInd, LienInd
<1>6. ASSUME NEW c \in Cotes, Synchroniser(c) PROVE PresseInd'
  <2>1. PICK t : t = [type |-> "PressePapiers", contenu |-> capture[c]]
    OBVIOUS
  <2>2. t \in S
    BY <1>1, <2>1 DEF S, TramesPP, TypePP
  <2>3. canal' \in [Cotes -> Seq(S)] /\ (~ouvert => canal' = canal)
    <3>1. CASE canal' = canal
      BY <1>1, <3>1
    <3>2. CASE Emettre(c, t)
      BY <1>1, <2>2, <3>2, EmettreType
    <3> QED
      BY <1>6, <2>1, <3>1, <3>2 DEF Synchroniser
  <2>4. LienInd(TramesPP, {}, "pressePapiers")'
    BY <1>l, <1>6, <2>3 DEF Synchroniser, fixePP, droits
  <2>5. TypePP'
    <3>1. TypePP /\ dernier' \in {dernier, [dernier EXCEPT ![c] = capture[c]]}
      BY <1>1, <1>6 DEF Synchroniser
    <3>2. /\ UNCHANGED <<presse, applique, copies>> /\ capture' = [capture EXCEPT ![c] = Vide]
      BY <1>6 DEF Synchroniser
    <3> QED
      BY <3>1, <3>2 DEF TypePP
  <2> QED
    BY <2>4, <2>5 DEF PresseInd
<1>7. CASE LienPP
  <2>1. LienInd(TramesPP, {}, "pressePapiers")'
    <3>1. NextLien \/ NextPermissions
      BY <1>7 DEF LienPP, NextLien
    <3>2. \A t \in TramesPP : t.type # "Permissions"
      BY DEF TramesPP
    <3> QED
      BY <3>1, <3>2, LienPas DEF PresseInd
  <2>2. TypePP'
    BY <1>1, <1>7 DEF LienPP, TypePP
  <2> QED
    BY <2>1, <2>2 DEF PresseInd
<1> QED
  BY <1>2, <1>3, <1>4, <1>5, <1>6, <1>7 DEF NextPP, FilsPP

-----------------------------------------------------------------------------
(***************************************************************************)
(* The stream of the host.                                                 *)
(***************************************************************************)
\* What is asked for, and the stores it takes.
Chemins0 == (Enregistrements \X {0}) \cup {Aucun}
\* The values that may be asked for.
ValeursDe(u) ==
  CASE u = "confidentialite" -> BOOLEAN
    [] u = "cadre" -> Cadres
    [] u = "qualite" -> Qualites
    [] u = "enregistrement" -> Chemins0
\* The stores of appliquer_qualite and of appliquer_enregistrement.
StoresDe(u) ==
  CASE u = "qualite" -> {"profil", "plafond", "generation"} \X Qualites
    [] u = "enregistrement" -> {"chemin", "ordre"} \X Chemins0
    [] u \notin {"qualite", "enregistrement"} -> {}
\* The commands.
OrdresFlux(u) == [type : {"Regler"}, valeur : ValeursDe(u)]
\* The frames.
TramesFlux(u) ==
  [type : {"Reglage"}, valeur : ValeursDe(u)]
    \cup [type : {"ConfidentialiteEtat"}, valeur : BOOLEAN]

\* The types of the variables of the stream.
TypesFlux(u) ==
  /\ rideau \in [Cotes -> BOOLEAN]
  /\ qualite \in [profil : Qualites, plafond : Qualites, generation : Nat]
  /\ ecritures \in [FilsHote -> Seq(StoresDe(u))]
  /\ cadre \in Cadres
  /\ enregistrement \in [chemin : Chemins0, generation : Nat]
  /\ fichiers \in [FichiersPossibles -> {Aucun, "incomplet", "lisible"}]
  /\ boucle \in [configure : {"non", "debit", "oui"}, vue : Nat, profil : Qualites,
                 plafond : Qualites, courant : Cadres \cap (CadresAcceptes \cup {Defaut}),
                 rejet : BOOLEAN, muxeur : FichiersPossibles \cup {Aucun}, images : {0, 1}]
  /\ demandes \in 0..MaxDemandes

\* The file that is open is not complete; those of the epochs to come have not been
\* recorded; without an order to record, nor has that of this epoch before it is open.
Enregistres ==
  /\ boucle.muxeur # Aucun => fichiers[boucle.muxeur] = "incomplet"
  /\ \A e \in 1..MaxEpoques :
       e > epoque => /\ fichiers[<<Base, e>>] # "lisible"
                     /\ boucle.muxeur = Aucun \/ boucle.muxeur # <<Base, e>>
  /\ "Controlled" \notin fils => boucle.muxeur = Aucun
  /\ enregistrement.generation = 0 /\ "Controlled" \in fils =>
       \/ boucle.muxeur = <<Base, epoque>>
       \/ boucle.muxeur = Aucun /\ fichiers[<<Base, epoque>>] # "lisible"

\* The invariant of a session used for u.
FluxInd(u) == LienInd(TramesFlux(u), OrdresFlux(u), u) /\ TypesFlux(u) /\ Enregistres

\* A file that this epoch has closed is not the one the order in force names.
Clotures ==
  /\ cloture \in [FichiersPossibles -> 0..MaxEpoques]
  /\ \A f \in FichiersPossibles : cloture[f] <= epoque
  /\ "Controlled" \in fils =>
       \A f \in Enregistrements \X {0} :
         cloture[f] = epoque => /\ enregistrement.generation > 0
                                /\ enregistrement.chemin = f => f = Aucun

\* A recording that can be read stays.
Garde ==
  \A f \in FichiersPossibles :
    fichiers[f] = "lisible" /\ fichiers'[f] # "lisible" =>
      f \notin Initiaux /\ cloture[f] < epoque

\* What the sets are made of.
LEMMA FluxEnsembles ==
  ASSUME NEW u \in UsagesFlux
  PROVE  /\ \A t \in TramesFlux(u) : t.type # "Permissions"
         /\ \A k \in OrdresFlux(u) : k.type # "MajPermissions"
         /\ \A k \in OrdresFlux(u) \cup MajDe(u) : k.type = "Regler" => k.valeur \in ValeursDe(u)
         /\ \A t \in TramesFlux(u) \cup PermsDe(u) :
              /\ t.type = "Reglage" => t.valeur \in ValeursDe(u)
              /\ t.type = "ConfidentialiteEtat" => t.valeur \in BOOLEAN
BY DEF TramesFlux, OrdresFlux, MajDe, PermsDe

\* A thread of the host stores what is asked for.
LEMMA FluxStocker ==
  ASSUME NEW u \in UsagesFlux, usage = u, TypesFlux(u), NEW f \in FilsHote, NEW v \in ValeursDe(u),
         Stocker(f, v), UNCHANGED <<qualite, enregistrement, fichiers, boucle, demandes>>
  PROVE  TypesFlux(u)'
<1>1. CASE u = "confidentialite"
  <2>1. v \in BOOLEAN
    BY <1>1 DEF ValeursDe
  <2>2. rideau' = [rideau EXCEPT !["Controlled"] = v] /\ UNCHANGED <<ecritures, cadre>>
    BY <1>1 DEF Stocker
  <2> QED
    BY <2>1, <2>2 DEF TypesFlux
<1>2. CASE u = "cadre"
  <2>1. v \in Cadres
    BY <1>2 DEF ValeursDe
  <2>2. cadre' = v /\ UNCHANGED <<ecritures, rideau>>
    BY <1>2 DEF Stocker
  <2> QED
    BY <2>1, <2>2 DEF TypesFlux
<1>3. CASE u = "qualite"
  <2>1. v \in Qualites
    BY <1>3 DEF ValeursDe
  <2>2. ecritures' = [ecritures EXCEPT ![f] = StoresQualite(v)] /\ UNCHANGED <<cadre, rideau>>
    BY <1>3 DEF Stocker
  <2>3. StoresQualite(v) \in Seq(StoresDe(u))
    <3>1. StoresDe(u) = {"profil", "plafond", "generation"} \X Qualites
      BY <1>3 DEF StoresDe
    <3>2. PICK x, y, z : x = <<"profil", v>> /\ y = <<"plafond", v>> /\ z = <<"generation", v>>
      OBVIOUS
    <3>3. x \in StoresDe(u) /\ y \in StoresDe(u) /\ z \in StoresDe(u)
      BY <2>1, <3>1, <3>2
    <3>4. <<x, y, z>> \in Seq(StoresDe(u))
      BY <3>3
    <3> QED
      BY <3>2, <3>4 DEF StoresQualite
  <2> QED
    BY <2>2, <2>3 DEF TypesFlux
<1>4. CASE u = "enregistrement"
  <2>1. PICK x, y : x = <<"chemin", v>> /\ y = <<"ordre", v>>
    OBVIOUS
  <2>2. ecritures' = [ecritures EXCEPT ![f] = <<x, y>>] /\ UNCHANGED <<cadre, rideau>>
    BY <1>4, <2>1 DEF Stocker
  <2>3. StoresDe(u) = {"chemin", "ordre"} \X Chemins0 /\ v \in Chemins0
    BY <1>4 DEF StoresDe, ValeursDe
  <2>4. x \in StoresDe(u) /\ y \in StoresDe(u)
    BY <2>1, <2>3
  <2>5. <<x, y>> \in Seq(StoresDe(u))
    BY <2>4
  <2> QED
    BY <2>2, <2>5 DEF TypesFlux
<1> QED
  BY <1>1, <1>2, <1>3, <1>4 DEF UsagesFlux

\* The next store.
LEMMA FluxEcriture ==
  ASSUME NEW u \in UsagesFlux, TypesFlux(u), NEW f \in FilsHote, Ecriture(f)
  PROVE  /\ TypesFlux(u)'
         /\ enregistrement'.generation = 0 => enregistrement.generation = 0
         /\ UNCHANGED <<fichiers, boucle>>
<1>1. PICK quoi, v : quoi = Head(ecritures[f])[1] /\ v = Head(ecritures[f])[2]
  OBVIOUS
<1>2. ecritures[f] \in Seq(StoresDe(u)) /\ ecritures[f] # <<>>
  BY DEF TypesFlux, Ecriture
<1>3. Head(ecritures[f]) \in StoresDe(u) /\ Tail(ecritures[f]) \in Seq(StoresDe(u))
  BY <1>2, HeadTailProperties
<1>4. /\ quoi \in {"profil", "plafond"} => v \in Qualites
      /\ quoi = "chemin" => v \in Chemins0
      /\ quoi \in {"profil", "plafond", "generation", "chemin", "ordre"}
  <2>1. CASE u = "qualite"
    BY <1>1, <1>3, <2>1 DEF StoresDe
  <2>2. CASE u = "enregistrement"
    BY <1>1, <1>3, <2>2 DEF StoresDe
  <2>3. CASE u \notin {"qualite", "enregistrement"}
    BY <1>3, <2>3 DEF StoresDe
  <2> QED
    BY <2>1, <2>2, <2>3
<1>5. /\ ecritures' = [ecritures EXCEPT ![f] = Tail(ecritures[f])]
      /\ UNCHANGED <<rideau, cadre, fichiers, boucle, demandes>>
  BY DEF Ecriture
<1>6. ecritures' \in [FilsHote -> Seq(StoresDe(u))]
  BY <1>3, <1>5 DEF TypesFlux
<1>7. /\ qualite \in [profil : Qualites, plafond : Qualites, generation : Nat]
      /\ enregistrement \in [chemin : Chemins0, generation : Nat]
  BY DEF TypesFlux
<1>8. /\ qualite' \in [profil : Qualites, plafond : Qualites, generation : Nat]
      /\ enregistrement' \in [chemin : Chemins0, generation : Nat]
      /\ enregistrement'.generation = 0 => enregistrement.generation = 0
  <2>1. CASE quoi = "profil"
    <3>1. qualite' = [qualite EXCEPT !.profil = v] /\ enregistrement' = enregistrement
      BY <1>1, <2>1 DEF Ecriture
    <3> QED
      BY <1>4, <1>7, <2>1, <3>1
  <2>2. CASE quoi = "plafond"
    <3>1. qualite' = [qualite EXCEPT !.plafond = v] /\ enregistrement' = enregistrement
      BY <1>1, <2>2 DEF Ecriture
    <3> QED
      BY <1>4, <1>7, <2>2, <3>1
  <2>3. CASE quoi = "generation"
    <3>1. qualite' = [qualite EXCEPT !.generation = @ + 1] /\ enregistrement' = enregistrement
      BY <1>1, <2>3 DEF Ecriture
    <3> QED
      BY <1>7, <3>1
  <2>4. CASE quoi = "chemin"
    <3>1. enregistrement' = [enregistrement EXCEPT !.chemin = v] /\ qualite' = qualite
      BY <1>1, <2>4 DEF Ecriture
    <3> QED
      BY <1>4, <1>7, <2>4, <3>1
  <2>5. CASE quoi = "ordre"
    <3>1. enregistrement' = [enregistrement EXCEPT !.generation = @ + 1] /\ qualite' = qualite
      BY <1>1, <2>5 DEF Ecriture
    <3> QED
      BY <1>7, <3>1
  <2> QED
    BY <1>4, <2>1, <2>2, <2>3, <2>4, <2>5
<1> QED
  BY <1>5, <1>6, <1>8 DEF TypesFlux

\* The files and what is open do not change.
LEMMA FluxStable ==
  ASSUME Enregistres, UNCHANGED <<fils, epoque, fichiers>>, boucle'.muxeur = boucle.muxeur,
         enregistrement'.generation = 0 => enregistrement.generation = 0
  PROVE  Enregistres'
BY DEF Enregistres

\* The close of what is open makes it readable, or removes it.
LEMMA FluxClos ==
  ASSUME NEW u, TypesFlux(u), Enregistres
  PROVE  /\ Clos(fichiers) \in [FichiersPossibles -> {Aucun, "incomplet", "lisible"}]
         /\ \A f \in FichiersPossibles :
              f # boucle.muxeur \/ boucle.muxeur = Aucun => Clos(fichiers)[f] = fichiers[f]
         /\ \A f \in FichiersPossibles : fichiers[f] = "lisible" => Clos(fichiers)[f] = "lisible"
<1>1. fichiers \in [FichiersPossibles -> {Aucun, "incomplet", "lisible"}]
  BY DEF TypesFlux
<1>2. CASE boucle.muxeur = Aucun
  BY <1>1, <1>2 DEF Clos
<1>3. CASE boucle.muxeur # Aucun
  <2>1. fichiers[boucle.muxeur] = "incomplet"
    BY <1>3 DEF Enregistres
  <2>2. Clos(fichiers) = [fichiers EXCEPT ![boucle.muxeur] = IF boucle.images = 0 THEN Aucun ELSE "lisible"]
    BY <1>3 DEF Clos
  <2> QED
    BY <1>1, <1>3, <2>1, <2>2
<1> QED
  BY <1>2, <1>3

\* Only the file of the recording wanted can stop being readable, when it is opened.
LEMMA FluxEnregistrer ==
  ASSUME NEW u \in UsagesFlux, TypesFlux(u), Enregistres, Clotures, epoque \in 1..MaxEpoques,
         usage = u, Enregistrer
  PROVE  TypesFlux(u)' /\ Enregistres' /\ Garde
<1> DEFINE V == IF enregistrement.generation > 0 THEN enregistrement.chemin ELSE <<Base, epoque>>
           A == Clos(fichiers)
<1>1. Voulu = V
  BY DEF Voulu, CheminEnregistrement
<1>2. /\ "Controlled" \in fils /\ V # boucle.muxeur
      /\ boucle' = [boucle EXCEPT !.muxeur = V, !.images = 0]
      /\ fichiers' = IF V = Aucun THEN A ELSE [A EXCEPT ![V] = "incomplet"]
      /\ UNCHANGED <<lien, rideau, annonce, qualite, ecritures, cadre, enregistrement, demandes>>
  BY <1>1 DEF Enregistrer, Tourner
<1>3. V \in FichiersPossibles \cup {Aucun}
  <2>1. enregistrement.chemin \in Chemins0 /\ enregistrement.generation \in Nat
    BY DEF TypesFlux
  <2>2. <<Base, epoque>> \in FichiersPossibles
    BY DEF FichiersPossibles, Initiaux
  <2>3. Chemins0 \subseteq FichiersPossibles \cup {Aucun}
    BY DEF Chemins0, FichiersPossibles, Initiaux
  <2> QED
    BY <2>1, <2>2, <2>3
<1>4. \A e \in 1..MaxEpoques : e > epoque => V = Aucun \/ V # <<Base, e>>
  <2>1. enregistrement.chemin \in Chemins0
    BY DEF TypesFlux
  <2>2. \A x \in Chemins0, e \in 1..MaxEpoques : x = Aucun \/ x # <<Base, e>>
    BY DEF Chemins0
  <2> QED
    BY <2>1, <2>2
<1>5. /\ A \in [FichiersPossibles -> {Aucun, "incomplet", "lisible"}]
      /\ \A f \in FichiersPossibles : f # boucle.muxeur \/ boucle.muxeur = Aucun => A[f] = fichiers[f]
      /\ \A f \in FichiersPossibles : fichiers[f] = "lisible" => A[f] = "lisible"
  BY FluxClos
<1>6. \A e \in 1..MaxEpoques : <<Base, e>> \in FichiersPossibles
  BY DEF FichiersPossibles, Initiaux
<1>7. /\ boucle'.muxeur = V
      /\ boucle' \in [configure : {"non", "debit", "oui"}, vue : Nat, profil : Qualites,
                 plafond : Qualites, courant : Cadres \cap (CadresAcceptes \cup {Defaut}),
                 rejet : BOOLEAN, muxeur : FichiersPossibles \cup {Aucun}, images : {0, 1}]
  BY <1>2, <1>3 DEF TypesFlux
<1> HIDE DEF A, V
<1>8. fichiers' \in [FichiersPossibles -> {Aucun, "incomplet", "lisible"}]
  BY <1>2, <1>3, <1>5
<1>9. TypesFlux(u)'
  BY <1>2, <1>7, <1>8 DEF TypesFlux
<1>10. Enregistres'
  <2>1. V # Aucun => fichiers'[V] = "incomplet"
    BY <1>2, <1>3, <1>5
  <2>2. \A e \in 1..MaxEpoques : e > epoque => fichiers'[<<Base, e>>] # "lisible"
    <3>1. SUFFICES ASSUME NEW e \in 1..MaxEpoques, e > epoque PROVE fichiers'[<<Base, e>>] # "lisible"
      OBVIOUS
    <3>2. fichiers[<<Base, e>>] # "lisible" /\ (boucle.muxeur = Aucun \/ boucle.muxeur # <<Base, e>>)
      BY <3>1 DEF Enregistres
    <3>3. A[<<Base, e>>] = fichiers[<<Base, e>>]
      BY <1>5, <1>6, <3>2
    <3>4. V = Aucun \/ V # <<Base, e>>
      BY <1>4, <3>1
    <3> QED
      BY <1>2, <1>3, <1>5, <1>6, <3>2, <3>3, <3>4
  <2>3. enregistrement'.generation = 0 =>
          \/ boucle'.muxeur = <<Base, epoque>>
          \/ boucle'.muxeur = Aucun /\ fichiers'[<<Base, epoque>>] # "lisible"
    BY <1>2, <1>7 DEF V, TypesFlux
  <2> QED
    BY <1>2, <1>4, <1>7, <2>1, <2>2, <2>3 DEF Enregistres, lien
<1>11. Garde
  <2>1. SUFFICES ASSUME NEW f \in FichiersPossibles, fichiers[f] = "lisible", fichiers'[f] # "lisible"
                 PROVE  f \notin Initiaux /\ cloture[f] < epoque
    BY DEF Garde
  <2>2. V = f /\ f # Aucun
    BY <1>2, <1>3, <1>5, <2>1
  <2>3. CASE enregistrement.generation = 0
    <3>1. f = <<Base, epoque>>
      BY <2>2, <2>3 DEF V
    <3> QED
      BY <1>2, <2>1, <2>2, <2>3, <3>1 DEF Enregistres
  <2>4. CASE enregistrement.generation > 0
    <3>1. enregistrement.chemin = f /\ enregistrement.chemin \in Chemins0
      BY <2>2, <2>4 DEF V, TypesFlux
    <3>2. f \in Enregistrements \X {0}
      BY <2>2, <3>1 DEF Chemins0
    <3>3. f \notin Initiaux
      BY <3>2 DEF Initiaux
    <3>4. cloture[f] <= epoque /\ cloture[f] \in 0..MaxEpoques /\ cloture[f] # epoque
      BY <1>2, <2>1, <2>2, <3>1, <3>2 DEF Clotures
    <3> QED
      BY <3>3, <3>4
  <2> QED
    BY <2>3, <2>4 DEF TypesFlux
<1> QED
  BY <1>9, <1>10, <1>11

\* The other turns of the loop.
LEMMA FluxBoucle ==
  ASSUME NEW u \in UsagesFlux, TypesFlux(u), Enregistres,
         AppliquerCadre \/ AnnulerCadre \/ VoirGeneration \/ Configurer \/ AchevConfiguration \/ Filmer
  PROVE  /\ TypesFlux(u)' /\ UNCHANGED <<lien, enregistrement, fichiers>>
         /\ boucle'.muxeur = boucle.muxeur
<1> DEFINE B == [configure : {"non", "debit", "oui"}, vue : Nat, profil : Qualites,
                 plafond : Qualites, courant : Cadres \cap (CadresAcceptes \cup {Defaut}),
                 rejet : BOOLEAN, muxeur : FichiersPossibles \cup {Aucun}, images : {0, 1}]
<1>1. /\ boucle \in B /\ cadre \in Cadres
      /\ qualite \in [profil : Qualites, plafond : Qualites, generation : Nat]
  BY DEF TypesFlux
<1>2. /\ UNCHANGED <<lien, rideau, annonce, qualite, ecritures, enregistrement, fichiers, demandes>>
  BY DEF Tourner, AppliquerCadre, AnnulerCadre, VoirGeneration, Configurer, AchevConfiguration, Filmer
<1>3. boucle' \in B /\ cadre' \in Cadres /\ boucle'.muxeur = boucle.muxeur
  <2>1. CASE AppliquerCadre
    <3>1. CASE cadre \in CadresAcceptes
      BY <1>1, <2>1, <3>1 DEF AppliquerCadre, Tourner
    <3>2. CASE cadre \notin CadresAcceptes
      BY <1>1, <2>1, <3>2 DEF AppliquerCadre, Tourner
    <3> QED
      BY <3>1, <3>2
  <2>2. CASE AnnulerCadre
    BY <1>1, <2>2 DEF AnnulerCadre, Tourner
  <2>3. CASE VoirGeneration
    BY <1>1, <2>3 DEF VoirGeneration, Tourner
  <2>4. CASE Configurer
    BY <1>1, <2>4 DEF Configurer, Tourner
  <2>5. CASE AchevConfiguration
    BY <1>1, <2>5 DEF AchevConfiguration, Tourner
  <2>6. CASE Filmer
    BY <1>1, <2>6 DEF Filmer, Tourner
  <2> QED
    BY <2>1, <2>2, <2>3, <2>4, <2>5, <2>6
<1> QED
  BY <1>2, <1>3 DEF TypesFlux

\* Every step of a session used for u preserves the invariant and the recordings.
LEMMA FluxPas ==
  ASSUME NEW u \in UsagesFlux, u \in Usages, FluxInd(u), Clotures, NextFlux
  PROVE  FluxInd(u)' /\ Garde
<1> DEFINE S == TramesFlux(u) \cup PermsDe(u)
           C == OrdresFlux(u) \cup MajDe(u)
<1>1. /\ canal \in [Cotes -> Seq(S)] /\ commandes \in [Cotes -> Seq(C)] /\ ouvert \in BOOLEAN
      /\ usage = u /\ epoque \in 1..MaxEpoques /\ TypesFlux(u) /\ Enregistres
  BY DEF FluxInd, LienInd
<1>e. /\ \A k \in C : k.type = "Regler" => k.valeur \in ValeursDe(u)
      /\ \A t \in S : /\ t.type = "Reglage" => t.valeur \in ValeursDe(u)
                      /\ t.type = "ConfidentialiteEtat" => t.valeur \in BOOLEAN
  BY FluxEnsembles
<1> HIDE DEF S, C
\* The link.
<1>l. ASSUME UNCHANGED <<usage, ouvert, fils, epoque, perms, voulues, changements>>,
             canal' \in [Cotes -> Seq(S)], ~ouvert => canal' = canal,
             commandes' \in [Cotes -> Seq(C)]
      PROVE  LienInd(TramesFlux(u), OrdresFlux(u), u)'
  BY <1>l DEF FluxInd, LienInd, S, C
<1>i. ASSUME UNCHANGED lien
      PROVE  LienInd(TramesFlux(u), OrdresFlux(u), u)'
  BY <1>i DEF lien, FluxInd, LienInd
<1>v. ~ouvert => \A c \in Cotes : canal[c] = <<>>
  BY DEF FluxInd, LienInd
<1>g. fichiers' = fichiers => Garde
  BY DEF Garde
<1>2. ASSUME NEW c \in Cotes, NEW v \in Valeurs, DemanderFlux(c, v)
      PROVE  FluxInd(u)' /\ Garde
  <2>1. v \in ValeursDe(u)
    BY <1>1 DEF Valeurs, ValeursDe, Chemins0, UsagesFlux
  <2>2. PICK k : k = [type |-> "Regler", valeur |-> v]
    OBVIOUS
  <2>3. k \in C
    BY <2>1, <2>2 DEF C, OrdresFlux
  <2>4. commandes' \in [Cotes -> Seq(C)]
    <3>1. commandes \in [Cotes -> Seq(C)] /\ Commander(c, k)
      BY <1>1, <1>2, <2>2 DEF DemanderFlux
    <3> QED
      BY <2>3, <3>1, CommanderType
  <2>5. /\ UNCHANGED <<usage, ouvert, fils, epoque, canal, perms, voulues, changements>>
        /\ UNCHANGED <<rideau, qualite, ecritures, cadre, enregistrement, fichiers, boucle>>
        /\ demandes < MaxDemandes /\ demandes' = demandes + 1
    BY <1>2 DEF DemanderFlux, droits, partage
  <2>6. TypesFlux(u)'
    BY <1>1, <2>5, FluxAssumption DEF TypesFlux
  <2>7. Enregistres'
    BY <1>1, <2>5 DEF Enregistres
  <2> QED
    BY <1>1, <1>g, <1>l, <2>4, <2>5, <2>6, <2>7 DEF FluxInd
<1>3. ASSUME NEW c \in Cotes, ExecuterReglage(c)
      PROVE  FluxInd(u)' /\ Garde
  <2>1. commandes' \in [Cotes -> Seq(C)] /\ Commande(c) \in C /\ Commande(c).type = "Regler"
    BY <1>1, <1>3, PrendreType DEF ExecuterReglage
  <2>2. PICK v : v = Commande(c).valeur
    OBVIOUS
  <2>3. v \in ValeursDe(u)
    BY <1>e, <2>1, <2>2
  <2>4. /\ UNCHANGED <<usage, ouvert, fils, epoque, perms, voulues, changements>>
        /\ UNCHANGED <<qualite, enregistrement, fichiers, boucle, demandes>>
    BY <1>3 DEF ExecuterReglage, droits
  <2>5. canal' \in [Cotes -> Seq(S)] /\ (~ouvert => canal' = canal)
    <3>1. CASE canal' = canal
      BY <1>1, <3>1
    <3>2. CASE canal' # canal
      <4>1. PICK t : t = [type |-> "Reglage", valeur |-> v]
        OBVIOUS
      <4>2. Emettre(c, t)
        BY <1>3, <2>2, <3>2, <4>1 DEF ExecuterReglage
      <4>3. t \in S
        BY <2>3, <4>1 DEF S, TramesFlux
      <4> QED
        BY <1>1, <4>2, <4>3, EmettreType
    <3> QED
      BY <3>1, <3>2
  <2>6. TypesFlux(u)'
    <3>1. CASE c = "Controlled"
      <4>1. Stocker("emetteur", v)
        BY <1>3, <2>2, <3>1 DEF ExecuterReglage
      <4> QED
        BY <1>1, <2>3, <2>4, <4>1, FluxStocker DEF FilsHote
    <3>2. CASE c # "Controlled"
      <4>1. UNCHANGED <<rideau, ecritures, cadre>>
        BY <1>3, <3>2 DEF ExecuterReglage
      <4> QED
        BY <1>1, <2>4, <4>1 DEF TypesFlux
    <3> QED
      BY <3>1, <3>2
  <2>7. Enregistres'
    BY <1>1, <2>4, FluxStable
  <2> QED
    BY <1>1, <1>g, <1>l, <2>1, <2>4, <2>5, <2>6, <2>7 DEF FluxInd
<1>4. CASE RecevoirReglage
  <2>1. /\ canal' \in [Cotes -> Seq(S)] /\ canal["Controlled"] # <<>>
        /\ Trame("Controlled") \in S /\ Trame("Controlled").type = "Reglage"
    BY <1>1, <1>4, RecevoirType DEF RecevoirReglage, Cotes
  <2>2. PICK v : v = Trame("Controlled").valeur
    OBVIOUS
  <2>3. v \in ValeursDe(u)
    BY <1>e, <2>1, <2>2
  <2>4. /\ UNCHANGED <<usage, ouvert, fils, epoque, commandes, perms, voulues, changements>>
        /\ UNCHANGED <<qualite, enregistrement, fichiers, boucle, demandes>>
    BY <1>4 DEF RecevoirReglage, droits
  <2>5. TypesFlux(u)'
    <3>1. CASE Stocker("recepteur", v)
      BY <1>1, <2>3, <2>4, <3>1, FluxStocker DEF FilsHote
    <3>2. CASE ~Stocker("recepteur", v)
      <4>1. UNCHANGED <<rideau, ecritures, cadre>>
        BY <1>4, <2>2, <3>2 DEF RecevoirReglage
      <4> QED
        BY <1>1, <2>4, <4>1 DEF TypesFlux
    <3> QED
      BY <3>1, <3>2
  <2>6. Enregistres'
    BY <1>1, <2>4, FluxStable
  <2>7. ouvert
    BY <1>v, <2>1 DEF Cotes
  <2> QED
    BY <1>1, <1>g, <1>l, <2>1, <2>4, <2>5, <2>6, <2>7 DEF FluxInd
<1>5. ASSUME NEW f \in FilsHote, Ecriture(f)
      PROVE  FluxInd(u)' /\ Garde
  <2>1. /\ TypesFlux(u)' /\ UNCHANGED <<fichiers, boucle>>
        /\ enregistrement'.generation = 0 => enregistrement.generation = 0
    BY <1>1, <1>5, FluxEcriture
  <2>2. UNCHANGED lien
    BY <1>5 DEF Ecriture
  <2>3. Enregistres'
    BY <1>1, <2>1, <2>2, FluxStable DEF lien
  <2> QED
    BY <1>g, <1>i, <2>1, <2>2, <2>3 DEF FluxInd
<1>6. CASE Annoncer
  <2>1. PICK t : t = [type |-> "ConfidentialiteEtat", valeur |-> rideau["Controlled"]]
    OBVIOUS
  <2>2. t \in S
    BY <1>1, <2>1 DEF S, TramesFlux, TypesFlux, Cotes
  <2>3. Emettre("Controlled", t)
    BY <1>6, <2>1 DEF Annoncer
  <2>4. canal' \in [Cotes -> Seq(S)] /\ (~ouvert => canal' = canal)
    BY <1>1, <2>2, <2>3, EmettreType DEF Cotes
  <2>5. /\ UNCHANGED <<usage, ouvert, fils, epoque, commandes, perms, voulues, changements>>
        /\ UNCHANGED <<rideau, qualite, ecritures, cadre, enregistrement, fichiers, boucle, demandes>>
    BY <1>6 DEF Annoncer, droits
  <2>6. TypesFlux(u)'
    BY <1>1, <2>5 DEF TypesFlux
  <2>7. Enregistres'
    BY <1>1, <2>5, FluxStable
  <2> QED
    BY <1>1, <1>g, <1>l, <2>4, <2>5, <2>6, <2>7 DEF FluxInd
<1>7. CASE RecevoirAnnonce
  <2>1. /\ canal' \in [Cotes -> Seq(S)] /\ canal["Controller"] # <<>>
        /\ Trame("Controller") \in S /\ Trame("Controller").type = "ConfidentialiteEtat"
    BY <1>1, <1>7, RecevoirType DEF RecevoirAnnonce, Cotes
  <2>2. PICK v : v = Trame("Controller").valeur
    OBVIOUS
  <2>3. v \in BOOLEAN
    BY <1>e, <2>1, <2>2
  <2>4. /\ UNCHANGED <<usage, ouvert, fils, epoque, commandes, perms, voulues, changements>>
        /\ UNCHANGED <<qualite, ecritures, cadre, enregistrement, fichiers, boucle, demandes>>
        /\ rideau' = [rideau EXCEPT !["Controller"] = v]
    BY <1>7, <2>2 DEF RecevoirAnnonce, droits
  <2>5. TypesFlux(u)'
    BY <1>1, <2>3, <2>4 DEF TypesFlux
  <2>6. Enregistres'
    BY <1>1, <2>4, FluxStable
  <2>7. ouvert
    BY <1>v, <2>1 DEF Cotes
  <2> QED
    BY <1>1, <1>g, <1>l, <2>1, <2>4, <2>5, <2>6, <2>7 DEF FluxInd
<1>8. CASE Boucle
  <2>1. CASE Enregistrer
    <3>1. TypesFlux(u)' /\ Enregistres' /\ Garde
      BY <1>1, <2>1, FluxEnregistrer
    <3>2. UNCHANGED lien
      BY <2>1 DEF Enregistrer, Tourner
    <3> QED
      BY <1>i, <3>1, <3>2 DEF FluxInd
  <2>2. CASE ~Enregistrer
    <3>1. /\ TypesFlux(u)' /\ UNCHANGED <<lien, enregistrement, fichiers>>
          /\ boucle'.muxeur = boucle.muxeur
      BY <1>1, <1>8, <2>2, FluxBoucle DEF Boucle
    <3>2. Enregistres'
      BY <1>1, <3>1, FluxStable DEF lien
    <3> QED
      BY <1>g, <1>i, <3>1, <3>2 DEF FluxInd
  <2> QED
    BY <2>1, <2>2
<1>9. CASE ReprendreFlux
  <2>1. LienInd(TramesFlux(u), OrdresFlux(u), u)'
    BY <1>9, EtendueAssumption DEF ReprendreFlux, Rouvrir, FluxInd, LienInd
  <2>2. /\ UNCHANGED <<rideau, qualite, ecritures, cadre, enregistrement, fichiers, boucle, demandes>>
        /\ fils = {} /\ epoque' = epoque + 1 /\ epoque < MaxEpoques
    BY <1>9 DEF ReprendreFlux, Rouvrir
  <2>3. TypesFlux(u)'
    BY <1>1, <2>2 DEF TypesFlux
  <2>4. Enregistres'
    BY <1>1, <2>2, EtendueAssumption DEF Enregistres
  <2> QED
    BY <1>g, <2>1, <2>2, <2>3, <2>4 DEF FluxInd
<1>10. ASSUME NEW c \in Cotes, NEW erreur \in BOOLEAN, FinFlux(c, erreur)
       PROVE  FluxInd(u)' /\ Garde
  <2>1. /\ UNCHANGED <<usage, ouvert, epoque, canal, commandes, perms, voulues, changements>>
        /\ UNCHANGED <<rideau, qualite, ecritures, cadre, enregistrement, demandes>>
        /\ fils' = fils \ {c}
    BY <1>10 DEF FinFlux, Terminer, partage
  <2>2. LienInd(TramesFlux(u), OrdresFlux(u), u)'
    BY <2>1 DEF FluxInd, LienInd
  <2>3. CASE c = "Controlled"
    <3>1. /\ fichiers' = fichiers \/ fichiers' = Clos(fichiers)
          /\ boucle' = BoucleInitiale
      BY <1>10, <2>3 DEF FinFlux
    <3>2. /\ fichiers' \in [FichiersPossibles -> {Aucun, "incomplet", "lisible"}]
          /\ \A f \in FichiersPossibles :
               f # boucle.muxeur \/ boucle.muxeur = Aucun => fichiers'[f] = fichiers[f]
          /\ \A f \in FichiersPossibles : fichiers[f] = "lisible" => fichiers'[f] = "lisible"
      <4>1. fichiers \in [FichiersPossibles -> {Aucun, "incomplet", "lisible"}]
        BY <1>1 DEF TypesFlux
      <4> QED
        BY <1>1, <3>1, <4>1, FluxClos
    <3>3. /\ boucle' \in [configure : {"non", "debit", "oui"}, vue : Nat, profil : Qualites,
                 plafond : Qualites, courant : Cadres \cap (CadresAcceptes \cup {Defaut}),
                 rejet : BOOLEAN, muxeur : FichiersPossibles \cup {Aucun}, images : {0, 1}]
          /\ boucle'.muxeur = Aucun
      BY <3>1, FluxAssumption DEF BoucleInitiale
    <3>4. TypesFlux(u)'
      BY <1>1, <2>1, <3>2, <3>3 DEF TypesFlux
    <3>5. \A e \in 1..MaxEpoques : <<Base, e>> \in FichiersPossibles
      BY DEF FichiersPossibles, Initiaux
    <3>6. Enregistres'
      BY <1>1, <2>1, <2>3, <3>2, <3>3, <3>5 DEF Enregistres
    <3> QED
      BY <2>2, <3>2, <3>4, <3>6 DEF FluxInd, Garde
  <2>4. CASE c # "Controlled"
    <3>1. UNCHANGED <<fichiers, boucle>> /\ ("Controlled" \in fils' <=> "Controlled" \in fils)
      BY <1>10, <2>1, <2>4 DEF FinFlux
    <3>2. TypesFlux(u)'
      BY <1>1, <2>1, <3>1 DEF TypesFlux
    <3>3. Enregistres'
      BY <1>1, <2>1, <3>1 DEF Enregistres
    <3> QED
      BY <1>g, <2>2, <3>1, <3>2, <3>3 DEF FluxInd
  <2> QED
    BY <2>3, <2>4
<1>11. CASE (Couper \/ NextPermissions) /\ UNCHANGED varsFlux
  <2>1. LienInd(TramesFlux(u), OrdresFlux(u), u)'
    BY <1>11, FluxEnsembles, LienPas DEF FluxInd, NextLien
  <2>2. UNCHANGED <<fils, epoque>>
    BY <1>11 DEF Couper, NextPermissions, FilsPermissions, DefinirPermission, AppliquerPermissions,
                 RecevoirPermissions
  <2>3. /\ UNCHANGED <<rideau, qualite, ecritures, cadre, enregistrement, fichiers, boucle, demandes>>
    BY <1>11 DEF varsFlux
  <2>4. TypesFlux(u)'
    BY <1>1, <2>3 DEF TypesFlux
  <2>5. Enregistres'
    BY <1>1, <2>2, <2>3, FluxStable
  <2> QED
    BY <1>g, <2>1, <2>3, <2>4, <2>5 DEF FluxInd
<1> QED
  BY <1>2, <1>3, <1>4, <1>5, <1>6, <1>7, <1>8, <1>9, <1>10, <1>11 DEF NextFlux, FilsFlux

\* Every step keeps the epochs of the files that are closed.
LEMMA CloturesPas ==
  ASSUME NEW u \in UsagesFlux, FluxInd(u), Clotures, NextFlux
  PROVE  Clotures'
<1>1. /\ usage = u /\ epoque \in 1..MaxEpoques /\ TypesFlux(u) /\ Enregistres
  BY DEF FluxInd, LienInd
<1>2. /\ cloture \in [FichiersPossibles -> 0..MaxEpoques]
      /\ \A f \in FichiersPossibles : cloture[f] <= epoque /\ cloture[f] \in 0..MaxEpoques
  BY DEF Clotures
<1>s. ASSUME UNCHANGED <<cloture, enregistrement, epoque>>, fils' \subseteq fils
      PROVE  Clotures'
  BY <1>s DEF Clotures
<1>c. /\ AvecCloture \in [FichiersPossibles -> 0..MaxEpoques]
      /\ \A f \in FichiersPossibles : AvecCloture[f] <= epoque
      /\ \A f \in FichiersPossibles : AvecCloture[f] = cloture[f] \/ (f = boucle.muxeur /\ f # Aucun)
  <2>1. CASE boucle.muxeur = Aucun
    <3>1. AvecCloture = cloture
      BY <2>1 DEF AvecCloture
    <3> QED
      BY <1>2, <3>1
  <2>2. CASE boucle.muxeur # Aucun
    <3>1. AvecCloture = [cloture EXCEPT ![boucle.muxeur] = epoque]
      BY <2>2 DEF AvecCloture
    <3>2. epoque \in 0..MaxEpoques /\ epoque <= epoque
      BY <1>1, EtendueAssumption
    <3>3. boucle.muxeur \in FichiersPossibles
      BY <1>1, <2>2 DEF TypesFlux
    <3> QED
      BY <1>2, <2>2, <3>1, <3>2, <3>3
  <2> QED
    BY <2>1, <2>2
<1>o. Enregistrements \X {0} \subseteq FichiersPossibles
  BY DEF FichiersPossibles
<1>3. ASSUME NEW f \in FilsHote, Ecriture(f) PROVE Clotures'
  <2>1. PICK quoi, v : quoi = Head(ecritures[f])[1] /\ v = Head(ecritures[f])[2]
    OBVIOUS
  <2>2. UNCHANGED <<epoque, fils>>
    BY <1>3 DEF Ecriture, lien
  <2>3. CASE quoi = "chemin"
    <3>1. /\ enregistrement' = [enregistrement EXCEPT !.chemin = v]
          /\ cloture' = IF v # Aucun THEN [cloture EXCEPT ![v] = 0] ELSE cloture
      BY <1>3, <2>1, <2>3 DEF Ecriture
    <3>2. /\ enregistrement'.chemin = v
          /\ enregistrement'.generation = enregistrement.generation
      BY <1>1, <3>1 DEF TypesFlux
    <3>3. /\ cloture' \in [FichiersPossibles -> 0..MaxEpoques]
          /\ \A g \in FichiersPossibles : cloture'[g] = cloture[g] \/ cloture'[g] = 0
          /\ v # Aucun /\ v \in FichiersPossibles => cloture'[v] = 0
      <4>1. 0 \in 0..MaxEpoques
        BY EtendueAssumption
      <4>2. CASE v = Aucun
        BY <1>2, <3>1, <4>2
      <4>3. CASE v # Aucun
        <5>1. cloture' = [cloture EXCEPT ![v] = 0]
          BY <3>1, <4>3
        <5> QED
          BY <1>2, <4>1, <5>1
      <4> QED
        BY <4>2, <4>3
    <3>4. ASSUME NEW g \in Enregistrements \X {0}, "Controlled" \in fils, cloture'[g] = epoque
          PROVE  enregistrement.generation > 0 /\ (v = g => g = Aucun)
      <4>1. g \in FichiersPossibles /\ cloture'[g] = cloture[g]
        BY <1>1, <1>o, <3>3, <3>4
      <4> QED
        BY <1>1, <3>3, <3>4, <4>1 DEF Clotures
    <3> QED
      BY <1>1, <1>2, <2>2, <3>2, <3>3, <3>4 DEF Clotures
  <2>4. CASE quoi # "chemin"
    <3>1. /\ cloture' = cloture
          /\ enregistrement' \in {enregistrement, [enregistrement EXCEPT !.generation = @ + 1]}
      <4>1. Ecriture(f)
        BY <1>3
      <4>2. cloture' = cloture
        BY <2>1, <2>4, <4>1 DEF Ecriture
      <4>3. CASE quoi \in {"profil", "plafond", "generation"}
        <5>1. enregistrement' = enregistrement
          BY <2>1, <4>1, <4>3 DEF Ecriture
        <5> QED
          BY <4>2, <5>1
      <4>4. CASE quoi = "ordre"
        <5>1. enregistrement' = [enregistrement EXCEPT !.generation = @ + 1]
          BY <2>1, <4>1, <4>4 DEF Ecriture
        <5> QED
          BY <4>2, <5>1
      <4>5. quoi \in {"profil", "plafond", "generation", "chemin", "ordre"}
        <5>1. Head(ecritures[f]) \in StoresDe(u)
          BY <1>1, <4>1, HeadTailProperties DEF TypesFlux, Ecriture
        <5>2. CASE u = "qualite"
          BY <2>1, <5>1, <5>2 DEF StoresDe
        <5>3. CASE u = "enregistrement"
          BY <2>1, <5>1, <5>3 DEF StoresDe
        <5>4. CASE u \notin {"qualite", "enregistrement"}
          BY <5>1, <5>4 DEF StoresDe
        <5> QED
          BY <5>2, <5>3, <5>4
      <4> QED
        BY <2>4, <4>3, <4>4, <4>5
    <3>2. /\ enregistrement'.chemin = enregistrement.chemin
          /\ enregistrement.generation > 0 => enregistrement'.generation > 0
      BY <1>1, <3>1 DEF TypesFlux
    <3> QED
      BY <2>2, <3>1, <3>2 DEF Clotures
  <2> QED
    BY <2>3, <2>4
<1>4. CASE Enregistrer
  <2>1. /\ "Controlled" \in fils /\ Voulu # boucle.muxeur /\ cloture' = AvecCloture
        /\ UNCHANGED <<enregistrement, epoque, fils>>
    BY <1>4 DEF Enregistrer, Tourner, lien
  <2>2. ASSUME NEW f \in Enregistrements \X {0}, f = boucle.muxeur, f # Aucun
        PROVE  enregistrement.generation > 0 /\ (enregistrement.chemin = f => f = Aucun)
    <3>1. CASE enregistrement.generation = 0
      <4>1. f # <<Base, epoque>>
        BY <1>1, <2>2
      <4> QED
        BY <1>1, <2>1, <2>2, <3>1, <4>1 DEF Enregistres
    <3>2. CASE enregistrement.generation # 0
      <4>1. enregistrement.generation > 0
        BY <1>1, <3>2 DEF TypesFlux
      <4>2. Voulu = enregistrement.chemin
        BY <4>1 DEF Voulu
      <4> QED
        BY <2>1, <2>2, <4>1, <4>2
    <3> QED
      BY <3>1, <3>2
  <2>3. ASSUME NEW f \in Enregistrements \X {0}, AvecCloture[f] = epoque
        PROVE  enregistrement.generation > 0 /\ (enregistrement.chemin = f => f = Aucun)
    BY <1>c, <1>o, <2>1, <2>2, <2>3 DEF Clotures
  <2> QED
    BY <1>c, <2>1, <2>3 DEF Clotures
<1>5. CASE ReprendreFlux
  <2>1. /\ UNCHANGED <<cloture, enregistrement>> /\ epoque' = epoque + 1 /\ epoque < MaxEpoques
    BY <1>5 DEF ReprendreFlux, Rouvrir
  <2>2. \A f \in FichiersPossibles : cloture[f] < epoque'
    BY <1>1, <1>2, <2>1
  <2> QED
    BY <1>1, <1>2, <1>o, <2>1, <2>2 DEF Clotures
<1>6. ASSUME NEW c \in Cotes, NEW erreur \in BOOLEAN, FinFlux(c, erreur) PROVE Clotures'
  <2>1. UNCHANGED <<enregistrement, epoque>> /\ fils' = fils \ {c}
    BY <1>6 DEF FinFlux, Terminer, partage
  <2>2. CASE c = "Controlled"
    <3>1. cloture' = AvecCloture /\ "Controlled" \notin fils'
      BY <1>6, <2>1, <2>2 DEF FinFlux
    <3> QED
      BY <1>c, <2>1, <3>1 DEF Clotures
  <2>3. CASE c # "Controlled"
    <3>1. cloture' = cloture
      BY <1>6, <2>3 DEF FinFlux
    <3> QED
      BY <1>s, <2>1, <3>1
  <2> QED
    BY <2>2, <2>3
<1>7. ASSUME \/ \E c \in Cotes : \E v \in Valeurs : DemanderFlux(c, v)
             \/ \E c \in Cotes : ExecuterReglage(c)
             \/ RecevoirReglage \/ RecevoirAnnonce \/ Annoncer
      PROVE  Clotures'
  <2>1. UNCHANGED <<cloture, enregistrement, epoque, fils>>
    BY <1>7 DEF DemanderFlux, ExecuterReglage, RecevoirReglage, RecevoirAnnonce, Annoncer, partage
  <2> QED
    BY <1>s, <2>1
<1>8. ASSUME AppliquerCadre \/ AnnulerCadre \/ VoirGeneration \/ Configurer
               \/ AchevConfiguration \/ Filmer
      PROVE  Clotures'
  <2>1. UNCHANGED <<cloture, enregistrement, lien>>
    BY <1>8 DEF Tourner, AppliquerCadre, AnnulerCadre, VoirGeneration, Configurer,
                AchevConfiguration, Filmer
  <2> QED
    BY <1>s, <2>1 DEF lien
<1>9. CASE (Couper \/ NextPermissions) /\ UNCHANGED varsFlux
  <2>1. UNCHANGED <<cloture, enregistrement, fils, epoque>>
    BY <1>9 DEF varsFlux, Couper, NextPermissions, FilsPermissions, DefinirPermission,
                AppliquerPermissions, RecevoirPermissions
  <2> QED
    BY <1>s, <2>1
<1> QED
  BY <1>3, <1>4, <1>5, <1>6, <1>7, <1>8, <1>9 DEF NextFlux, FilsFlux, Boucle

\* The invariant holds at the start.
LEMMA FluxDebut ==
  ASSUME InitLien, InitFlux, usage \in UsagesFlux
  PROVE  FluxInd(usage) /\ Clotures
<1>1. PICK u : u = usage
  OBVIOUS
<1>2. LienInd(TramesFlux(u), OrdresFlux(u), u)
  BY <1>1, LienDebut
<1>3. TypesFlux(u)
  <2>1. /\ rideau \in [Cotes -> BOOLEAN] /\ cadre \in Cadres /\ demandes \in 0..MaxDemandes
        /\ qualite \in [profil : Qualites, plafond : Qualites, generation : Nat]
        /\ fichiers \in [FichiersPossibles -> {Aucun, "incomplet", "lisible"}]
        /\ enregistrement \in [chemin : Chemins0, generation : Nat]
    BY FluxAssumption DEF InitFlux, Chemins0
  <2>2. boucle \in [configure : {"non", "debit", "oui"}, vue : Nat, profil : Qualites,
                 plafond : Qualites, courant : Cadres \cap (CadresAcceptes \cup {Defaut}),
                 rejet : BOOLEAN, muxeur : FichiersPossibles \cup {Aucun}, images : {0, 1}]
    BY FluxAssumption DEF InitFlux, BoucleInitiale
  <2>3. ecritures \in [FilsHote -> Seq(StoresDe(u))]
    BY EmptySeq DEF InitFlux
  <2> QED
    BY <2>1, <2>2, <2>3 DEF TypesFlux
<1>4. Enregistres
  <2>1. \A e \in 1..MaxEpoques : <<Base, e>> \in FichiersPossibles
    BY DEF FichiersPossibles, Initiaux
  <2>2. /\ boucle.muxeur = Aucun /\ \A f \in FichiersPossibles : fichiers[f] = Aucun
        /\ epoque = 1
    BY DEF InitFlux, BoucleInitiale, InitLien
  <2> QED
    BY <2>1, <2>2, FluxAssumption, EtendueAssumption DEF Enregistres
<1>5. Clotures
  <2>1. /\ cloture = [f \in FichiersPossibles |-> 0] /\ epoque = 1
        /\ Enregistrements \X {0} \subseteq FichiersPossibles
    BY DEF InitFlux, InitLien, FichiersPossibles
  <2> QED
    BY <2>1, EtendueAssumption DEF Clotures
<1> QED
  BY <1>1, <1>2, <1>3, <1>4, <1>5 DEF FluxInd

-----------------------------------------------------------------------------
(***************************************************************************)
(* The session.                                                            *)
(***************************************************************************)
\* What the users do with the session is chosen at the start.
LEMMA UsageFixe == [Next]_vars => usage' = usage
<1> SUFFICES ASSUME [Next]_vars PROVE usage' = usage
  OBVIOUS
<1>1. NextLien => usage' = usage
  BY DEF NextLien, Couper, Rouvrir, Terminer
<1>2. NextPermissions => usage' = usage
  BY DEF NextPermissions, DefinirPermission, FilsPermissions, AppliquerPermissions, RecevoirPermissions
<1>3. CASE UNCHANGED vars
  BY <1>3 DEF vars, lien
<1>4. CASE NextDroits
  BY <1>1, <1>2, <1>4 DEF NextDroits
<1>5. CASE NextFs
  BY <1>1, <1>2, <1>5 DEF NextFs, Lister, Telecharger, Commencer, RecevoirListing, RecevoirTranche,
     Expirer, EmettreRequete, TraiterRequete, Modifier, EmettreReponse, RecevoirReponse, lien
<1>6. CASE NextPP
  BY <1>1, <1>2, <1>6 DEF NextPP, Copier, FilsPP, Appliquer, Memoriser, Capturer, Synchroniser, LienPP,
     fixePP, lien, Couper, Rouvrir, Terminer
<1>7. CASE NextG
  BY <1>1, <1>2, <1>7 DEF NextG, Saisir, EnvoyerEntree, TraiterEntree, NouveauGuichet, FinReception,
     lien, Couper, Rouvrir, Terminer
<1>8. CASE NextFlux
  BY <1>1, <1>2, <1>8 DEF NextFlux, DemanderFlux, FilsFlux, ExecuterReglage, RecevoirReglage,
     RecevoirAnnonce, Ecriture, Annoncer, Boucle, AppliquerCadre, AnnulerCadre, VoirGeneration,
     Configurer, AchevConfiguration, Enregistrer, Filmer, Tourner, ReprendreFlux, FinFlux, lien,
     Couper, Rouvrir, Terminer
<1>9. CASE NextT
  BY <1>1, <1>2, <1>9 DEF NextT, PasT, Accepter, Ponter, Lire, FinLecture, FinReelle, Joindre,
     CibleInjoignable, EmettreTunnel, RecevoirTunnel, lien
<1> QED
  BY <1>3, <1>4, <1>5, <1>6, <1>7, <1>8, <1>9 DEF Next

\* In a session used for a feature its invariant holds; in the others the variables of the
\* feature have their initial values, or their types.
UsagesFs   == {"listing", "telechargement"}
Fonctions  == UsagesFs \cup UsagesFlux \cup {"pressePapiers", "entrees", "tunnels"}
DroitsInd  == \A u \in Usages \ Fonctions : usage = u => LienInd({}, {}, u)
\* Listings and downloads.
FsInd ==
  /\ usage = "listing" => ListingInd
  /\ usage = "telechargement" => TelechargementInd
  /\ usage \notin UsagesFs => TypeFs
\* The clipboard.
PPInd ==
  /\ usage = "pressePapiers" => PresseInd
  /\ usage # "pressePapiers" => TypePP
\* The inputs.
GuichetInd ==
  /\ usage = "entrees" => ClavierInd
  /\ usage # "entrees" => InitG
\* The stream of the host.
HoteInd ==
  /\ \A u \in UsagesFlux : usage = u => FluxInd(u) /\ Clotures
  /\ usage \notin UsagesFlux => TypeFlux
\* The tunnels.
TunnelsInd ==
  /\ usage = "tunnels" => TunnelInd
  /\ usage # "tunnels" => InitT
\* The invariant of the whole.
SessionInd ==
  usage \in Usages /\ DroitsInd /\ FsInd /\ PPInd /\ GuichetInd /\ HoteInd /\ TunnelsInd

\* A session does the steps of its feature only.
LEMMA PasDeLUsage ==
  ASSUME [Next]_vars
  PROVE  /\ usage \notin Fonctions => NextLien \/ NextPermissions \/ UNCHANGED lien
         /\ usage \in UsagesFs => NextFs \/ UNCHANGED <<lien, varsFs>>
         /\ usage \notin UsagesFs => UNCHANGED varsFs
         /\ usage = "pressePapiers" => NextPP \/ UNCHANGED <<lien, varsPP>>
         /\ usage # "pressePapiers" => UNCHANGED varsPP
         /\ usage = "entrees" => NextG \/ UNCHANGED <<lien, varsG>>
         /\ usage # "entrees" => UNCHANGED varsG
         /\ usage \in UsagesFlux => NextFlux \/ UNCHANGED <<lien, varsFlux>>
         /\ usage \notin UsagesFlux => UNCHANGED varsFlux
         /\ usage = "tunnels" => NextT \/ UNCHANGED <<lien, varsT>>
         /\ usage # "tunnels" => UNCHANGED varsT
<1>1. NextDroits => usage = "permissions"
  BY DEF NextDroits
<1>2. NextFs => usage \in UsagesFs
  BY DEF NextFs, UsagesFs
<1>3. (NextPP => usage = "pressePapiers") /\ (NextG => usage = "entrees") /\ (NextT => usage = "tunnels")
  BY DEF NextPP, NextG, NextT
<1>4. NextFlux => usage \in UsagesFlux
  BY DEF NextFlux
<1>5. CASE UNCHANGED vars
  BY <1>5 DEF vars
<1>6. CASE NextDroits
  BY <1>1, <1>6 DEF NextDroits, UsagesFs, UsagesFlux
<1>7. CASE NextFs /\ UNCHANGED <<varsPP, varsG, varsFlux, varsT>>
  BY <1>2, <1>7 DEF UsagesFs, UsagesFlux, Fonctions
<1>8. CASE NextPP /\ UNCHANGED <<varsFs, varsG, varsFlux, varsT>>
  BY <1>3, <1>8 DEF UsagesFs, UsagesFlux, Fonctions
<1>9. CASE NextG /\ UNCHANGED <<varsFs, varsPP, varsFlux, varsT>>
  BY <1>3, <1>9 DEF UsagesFs, UsagesFlux, Fonctions
<1>10. CASE NextFlux /\ UNCHANGED <<varsFs, varsPP, varsG, varsT>>
  BY <1>4, <1>10 DEF UsagesFs, UsagesFlux, Fonctions
<1>11. CASE NextT /\ UNCHANGED <<varsFs, varsPP, varsG, varsFlux>>
  BY <1>3, <1>11 DEF UsagesFs, UsagesFlux, Fonctions
<1> QED
  BY <1>5, <1>6, <1>7, <1>8, <1>9, <1>10, <1>11 DEF Next

\* The permissions alone.
LEMMA DroitsPas ==
  ASSUME SessionInd, [Next]_vars
  PROVE  DroitsInd'
<1>1. SUFFICES ASSUME NEW u \in Usages \ Fonctions, usage = u PROVE LienInd({}, {}, u)'
  BY UsageFixe DEF DroitsInd
<1>2. LienInd({}, {}, u)
  BY <1>1 DEF SessionInd, DroitsInd
<1>3. CASE NextLien \/ NextPermissions
  BY <1>1, <1>2, <1>3, LienPas
<1>4. CASE UNCHANGED lien
  BY <1>2, <1>4 DEF lien, LienInd
<1> QED
  BY <1>1, <1>3, <1>4, PasDeLUsage

\* The answers are left alone with the rest.
LEMMA ReponsesStables ==
  ASSUME NEW u \in UsagesFs, ReponsesInd(u), UNCHANGED <<lien, varsFs>>
  PROVE  ReponsesInd(u)'
<1>1. UNCHANGED <<usage, ouvert, fils, epoque, commandes, canal, perms, voulues, changements,
                  version, appel, recues, aEmettre, rendu, appels>>
  BY DEF lien, varsFs
<1>2. FsReste(u)'
  <2>1. FsReste(u)
    BY DEF ReponsesInd
  <2>2. LienInd(TramesFs(u), OrdresFs(u), u)'
    BY <1>1, <2>1 DEF FsReste, LienInd
  <2> QED
    BY <1>1, <2>1, <2>2 DEF FsReste
<1>3. \A v : Recente(v)' = Recente(v)
  BY <1>1 DEF Recente
<1>4. TramesA(u)' = TramesA(u) /\ ReponsesA(u)' = ReponsesA(u)
  <2>1. ASSUME NEW x PROVE Recente(x.version)' = Recente(x.version)
    BY <1>3
  <2> QED
    BY <1>1, <2>1 DEF TramesA, ReponsesA, Recente
<1>5. RecuesA(u)' = RecuesA(u)
  BY <1>1 DEF RecuesA
<1>6. Portent(TramesA(u), ReponsesA(u), RecuesA(u))'
  <2>1. Portent(TramesA(u), ReponsesA(u), RecuesA(u))
    BY DEF ReponsesInd
  <2> QED
    BY <1>1, <1>4, <1>5, <2>1 DEF Portent
<1>7. Recente(version)'
  BY <1>1 DEF ReponsesInd, Recente
<1> QED
  BY <1>2, <1>6, <1>7 DEF ReponsesInd

\* Listings and downloads.
LEMMA FsPas ==
  ASSUME SessionInd, [Next]_vars
  PROVE  FsInd'
<1>1. CASE usage = "listing"
  <2>1. ListingInd /\ (NextFs \/ UNCHANGED <<lien, varsFs>>)
    BY <1>1, PasDeLUsage DEF SessionInd, FsInd, UsagesFs
  <2>2. CASE NextFs
    BY <1>1, <2>1, <2>2, ListingPas, UsageFixe DEF SessionInd, FsInd, UsagesFs
  <2>3. CASE UNCHANGED <<lien, varsFs>>
    <3>1. ListingInd'
      <4>1. rendu' = rendu /\ usage' = usage
        BY <2>3 DEF lien, varsFs
      <4>2. ReponsesInd("listing")'
        BY <2>1, <2>3, ReponsesStables DEF ListingInd, UsagesFs
      <4> QED
        BY <2>1, <4>1, <4>2, ListingGarde DEF ListingInd
    <3> QED
      BY <1>1, <3>1, UsageFixe DEF FsInd, UsagesFs
  <2> QED
    BY <2>1, <2>2, <2>3
<1>2. CASE usage = "telechargement"
  <2>1. TelechargementInd /\ (NextFs \/ UNCHANGED <<lien, varsFs>>)
    BY <1>2, PasDeLUsage DEF SessionInd, FsInd, UsagesFs
  <2>2. CASE NextFs
    BY <1>2, <2>1, <2>2, TelechargementPas, UsageFixe DEF SessionInd, FsInd, UsagesFs
  <2>3. CASE UNCHANGED <<lien, varsFs>>
    <3>1. TelechargementInd'
      <4>1. UNCHANGED <<appel, local, rendu, usage>>
        BY <2>3 DEF lien, varsFs
      <4>2. ReponsesInd("telechargement")'
        BY <2>1, <2>3, ReponsesStables DEF TelechargementInd, UsagesFs
      <4>3. TelechargementFidele'
        BY <2>1, <4>1, FideleGarde DEF TelechargementInd
      <4>4. \A a \in Appelants : Ecrit(a)'
        BY <2>1, <4>1 DEF TelechargementInd, Ecrit
      <4> QED
        BY <2>1, <4>1, <4>2, <4>3, <4>4 DEF TelechargementInd
    <3> QED
      BY <1>2, <3>1, UsageFixe DEF FsInd, UsagesFs
  <2> QED
    BY <2>1, <2>2, <2>3
<1>3. CASE usage \notin UsagesFs
  <2>1. TypeFs /\ UNCHANGED varsFs
    BY <1>3, PasDeLUsage DEF SessionInd, FsInd
  <2>2. TypeFs'
    BY <2>1 DEF TypeFs, varsFs
  <2> QED
    BY <1>3, <2>2, UsageFixe DEF FsInd, UsagesFs
<1> QED
  BY <1>1, <1>2, <1>3 DEF UsagesFs

\* The clipboard.
LEMMA PPPas ==
  ASSUME SessionInd, [Next]_vars
  PROVE  PPInd'
<1>1. CASE usage = "pressePapiers"
  <2>1. PresseInd /\ (NextPP \/ UNCHANGED <<lien, varsPP>>)
    BY <1>1, PasDeLUsage DEF SessionInd, PPInd
  <2>2. PresseInd'
    <3>1. CASE NextPP
      BY <1>1, <2>1, <3>1, PressePas DEF SessionInd
    <3>2. CASE UNCHANGED <<lien, varsPP>>
      BY <2>1, <3>2 DEF lien, varsPP, PresseInd, LienInd, TypePP
    <3> QED
      BY <2>1, <3>1, <3>2
  <2> QED
    BY <1>1, <2>2, UsageFixe DEF PPInd
<1>2. CASE usage # "pressePapiers"
  <2>1. TypePP /\ UNCHANGED varsPP
    BY <1>2, PasDeLUsage DEF SessionInd, PPInd
  <2>2. TypePP'
    BY <2>1 DEF TypePP, varsPP
  <2> QED
    BY <1>2, <2>2, UsageFixe DEF PPInd
<1> QED
  BY <1>1, <1>2

\* The inputs.
LEMMA GuichetPas ==
  ASSUME SessionInd, [Next]_vars
  PROVE  GuichetInd'
<1>1. CASE usage = "entrees"
  <2>1. ClavierInd /\ (NextG \/ UNCHANGED <<lien, varsG>>)
    BY <1>1, PasDeLUsage DEF SessionInd, GuichetInd
  <2>2. ClavierInd'
    <3>1. CASE NextG
      BY <1>1, <2>1, <3>1, ClavierPas DEF SessionInd
    <3>2. CASE UNCHANGED <<lien, varsG>>
      BY <2>1, <3>2 DEF lien, varsG, ClavierInd, LienInd
    <3> QED
      BY <2>1, <3>1, <3>2
  <2> QED
    BY <1>1, <2>2, UsageFixe DEF GuichetInd
<1>2. CASE usage # "entrees"
  <2>1. InitG /\ UNCHANGED varsG
    BY <1>2, PasDeLUsage DEF SessionInd, GuichetInd
  <2>2. InitG'
    BY <2>1 DEF InitG, varsG
  <2> QED
    BY <1>2, <2>2, UsageFixe DEF GuichetInd
<1> QED
  BY <1>1, <1>2

\* The stream; a recording that can be read stays.
LEMMA HotePas ==
  ASSUME SessionInd, [Next]_vars
  PROVE  HoteInd' /\ (Garde \/ UNCHANGED <<lien, varsFlux>>)
<1>1. ASSUME NEW u \in UsagesFlux, usage = u
      PROVE  HoteInd' /\ (Garde \/ UNCHANGED <<lien, varsFlux>>)
  <2>1. FluxInd(u) /\ Clotures /\ (NextFlux \/ UNCHANGED <<lien, varsFlux>>)
    BY <1>1, PasDeLUsage DEF SessionInd, HoteInd
  <2>2. FluxInd(u)' /\ Clotures' /\ (Garde \/ UNCHANGED <<lien, varsFlux>>)
    <3>1. CASE NextFlux
      BY <1>1, <2>1, <3>1, FluxPas, CloturesPas DEF SessionInd
    <3>2. CASE UNCHANGED <<lien, varsFlux>>
      BY <2>1, <3>2 DEF lien, varsFlux, FluxInd, LienInd, TypesFlux, Enregistres, Clotures
    <3> QED
      BY <2>1, <3>1, <3>2
  <2> QED
    BY <1>1, <2>2, UsageFixe DEF HoteInd
<1>2. CASE usage \notin UsagesFlux
  <2>1. TypeFlux /\ UNCHANGED varsFlux
    BY <1>2, PasDeLUsage DEF SessionInd, HoteInd
  <2>2. TypeFlux' /\ Garde
    BY <2>1 DEF TypeFlux, varsFlux, Garde
  <2> QED
    BY <1>2, <2>2, UsageFixe DEF HoteInd
<1> QED
  BY <1>1, <1>2

\* The tunnels.
LEMMA TunnelsPas ==
  ASSUME SessionInd, [Next]_vars
  PROVE  TunnelsInd'
<1>1. CASE usage = "tunnels"
  <2>1. TunnelInd /\ (NextT \/ UNCHANGED <<lien, varsT>>)
    BY <1>1, PasDeLUsage DEF SessionInd, TunnelsInd
  <2>2. TunnelInd'
    <3>1. CASE NextT
      BY <1>1, <2>1, <3>1, TunnelPas DEF SessionInd
    <3>2. CASE UNCHANGED <<lien, varsT>>
      BY <2>1, <3>2 DEF lien, varsT, TunnelInd, LienInd, TypeTInd, Transit, Fil, Recu, Couvert,
         EnRoute, Attendu
    <3> QED
      BY <2>1, <3>1, <3>2
  <2> QED
    BY <1>1, <2>2, UsageFixe DEF TunnelsInd
<1>2. CASE usage # "tunnels"
  <2>1. InitT /\ UNCHANGED varsT
    BY <1>2, PasDeLUsage DEF SessionInd, TunnelsInd
  <2>2. InitT'
    BY <2>1 DEF InitT, varsT
  <2> QED
    BY <1>2, <2>2, UsageFixe DEF TunnelsInd
<1> QED
  BY <1>1, <1>2

\* The invariant holds at the start, whatever the session is used for.
LEMMA SessionDebut == Init => SessionInd
<1> SUFFICES ASSUME Init PROVE SessionInd
  OBVIOUS
<1>1. InitLien /\ InitFs /\ InitPP /\ InitG /\ InitFlux /\ InitT /\ usage \in Usages
  BY DEF Init, InitLien
<1>2. DroitsInd
  BY <1>1, LienDebut DEF DroitsInd
<1>3. FsInd
  <2>1. TypeFs
    <3>1. \E u : u = usage
      OBVIOUS
    <3> QED
      BY <1>1, <3>1, FsDebut DEF TypeFs, FsReste
  <2> QED
    BY <1>1, <2>1, ListingDebut, TelechargementDebut DEF FsInd
<1>4. PPInd
  <2>1. TypePP
    BY <1>1 DEF InitPP, TypePP
  <2>2. LienInd(TramesPP, {}, usage)
    BY <1>1, LienDebut
  <2> QED
    BY <2>1, <2>2 DEF PPInd, PresseInd
<1>5. GuichetInd
  BY <1>1, ClavierDebut DEF GuichetInd
<1>6. HoteInd
  <2>1. ASSUME NEW u \in UsagesFlux, usage = u PROVE FluxInd(u) /\ Clotures
    BY <1>1, <2>1, FluxDebut
  <2>2. TypeFlux
    BY <1>1, FluxAssumption DEF InitFlux, BoucleInitiale, TypeFlux
  <2> QED
    BY <2>1, <2>2 DEF HoteInd
<1>7. TunnelsInd
  BY <1>1, TunnelDebut DEF TunnelsInd
<1> QED
  BY <1>1, <1>2, <1>3, <1>4, <1>5, <1>6, <1>7 DEF SessionInd

\* The invariant holds all along.
LEMMA SessionToujours == Spec => []SessionInd
<1>1. SessionInd /\ [Next]_vars => SessionInd'
  <2> SUFFICES ASSUME SessionInd, [Next]_vars PROVE SessionInd'
    OBVIOUS
  <2>1. (usage \in Usages)'
    BY UsageFixe DEF SessionInd
  <2> QED
    BY <2>1, DroitsPas, FsPas, PPPas, GuichetPas, HotePas, TunnelsPas DEF SessionInd
<1> QED
  BY <1>1, SessionDebut, PTL DEF Spec

-----------------------------------------------------------------------------
\* The state of the session and of its features is of the declared types, whatever the
\* session is used for, through cuts, renewals and changes of permissions.
THEOREM TypesToujours == Spec => []TypeOK
<1>1. SessionInd => TypeOK
  <2> SUFFICES ASSUME SessionInd PROVE TypeOK
    OBVIOUS
  <2>1. ASSUME NEW T, NEW K, NEW u, LienInd(T, K, u) PROVE TypeLien
    BY <2>1 DEF LienInd, TypeLien, SessionInd, Capacites
  <2>2. TypeLien
    <3>1. CASE usage \notin Fonctions
      BY <2>1, <3>1 DEF SessionInd, DroitsInd
    <3>2. CASE usage \in UsagesFs
      BY <2>1, <3>2 DEF SessionInd, UsagesFs, FsInd, ListingInd, TelechargementInd,
                           ReponsesInd, FsReste
    <3>3. CASE usage \in UsagesFlux
      BY <2>1, <3>3 DEF SessionInd, HoteInd, FluxInd
    <3>4. CASE usage = "pressePapiers"
      BY <2>1, <3>4 DEF SessionInd, PPInd, PresseInd
    <3>5. CASE usage = "entrees"
      BY <2>1, <3>5 DEF SessionInd, GuichetInd, ClavierInd
    <3>6. CASE usage = "tunnels"
      BY <2>1, <3>6 DEF SessionInd, TunnelsInd, TunnelInd
    <3> QED
      BY <3>1, <3>2, <3>3, <3>4, <3>5, <3>6 DEF Fonctions
  <2>3. TypeFs
    <3>1. ASSUME NEW u \in UsagesFs, FsReste(u) PROVE TypeFs
      <4>1. \A k \in AppelsFs(u) : k.cle.genre \in Genres
        BY DEF AppelsFs, ClesDe, UsagesFs, Genres
      <4> QED
        BY <3>1, <4>1 DEF FsReste, TypeFs
    <3> QED
      BY <3>1 DEF SessionInd, UsagesFs, FsInd, ListingInd, TelechargementInd, ReponsesInd
  <2>4. TypePP
    BY DEF SessionInd, PPInd, PresseInd
  <2>5. TypeG
    <3>1. CASE usage = "entrees"
      BY <3>1 DEF SessionInd, GuichetInd, ClavierInd, TypeG
    <3>2. CASE usage # "entrees"
      BY <3>2 DEF SessionInd, GuichetInd, InitG, TypeG
    <3> QED
      BY <3>1, <3>2
  <2>6. TypeFlux
    <3>1. ASSUME NEW u \in UsagesFlux, TypesFlux(u) PROVE TypeFlux
      BY <3>1 DEF TypesFlux, TypeFlux
    <3> QED
      BY <3>1 DEF SessionInd, HoteInd, FluxInd
  <2>7. TypeT
    <3>1. CASE usage = "tunnels"
      <4>1. TypeTInd
        BY <3>1 DEF SessionInd, TunnelsInd, TunnelInd
      <4>2. /\ connexions \in 0..MaxConnexions /\ prochain = connexions + 1
            /\ enCours \in 0..connexions
        BY <4>1 DEF TypeTInd
      <4>3. \A c \in Cotes : lecteurs[c] \cup joints[c] \cup clos[c] \subseteq 1..connexions
        <5>1. /\ lecteurs \in [Cotes -> SUBSET (1..connexions)]
              /\ joints \in [Cotes -> SUBSET (1..connexions)]
              /\ clos \in [Cotes -> SUBSET (1..connexions)]
          BY <4>1 DEF TypeTInd
        <5> QED
          BY <5>1
      <4>4. ponts \in [Cotes -> [Connexions -> 0..MaxConnexions]]
        <5>1. /\ ponts \in [Cotes -> [Connexions -> Nat]]
              /\ \A c \in Cotes, i \in Connexions : ponts[c][i] \in {0, i}
          BY <4>1 DEF TypeTInd
        <5>2. \A i \in Connexions : i \in 0..MaxConnexions /\ 0 \in 0..MaxConnexions
          BY TunnelsAssumption DEF Connexions
        <5>3. \A c \in Cotes : ponts[c] \in [Connexions -> 0..MaxConnexions]
          BY <5>1, <5>2
        <5> QED
          BY <5>1, <5>3
      <4>5. lus \in [Cotes -> [Connexions -> 0..MaxBlocs]]
        BY <4>1 DEF TypeTInd
      <4>6. prochain \in 1..(MaxConnexions + 1)
        BY <4>2, TunnelsAssumption
      <4> QED
        BY <4>2, <4>3, <4>4, <4>5, <4>6 DEF TypeT
    <3>2. CASE usage # "tunnels"
      <4>1. InitT
        BY <3>2 DEF SessionInd, TunnelsInd
      <4> QED
        BY <4>1, TunnelsAssumption DEF InitT, TypeT
    <3> QED
      BY <3>1, <3>2
  <2> QED
    BY <2>2, <2>3, <2>4, <2>5, <2>6, <2>7 DEF TypeOK
<1> QED
  BY <1>1, SessionToujours, PTL

\* What a bridge of a tunnel delivers is what the other side read, in order, and, before a
\* cut and unless a block overtook the opening, without holes (EtatTunnels, demarrer_pont).
THEOREM OctetsToujoursEnOrdre == Spec => []OctetsEnOrdre
<1>1. SessionInd => OctetsEnOrdre
  <2> SUFFICES ASSUME SessionInd PROVE OctetsEnOrdre
    OBVIOUS
  <2>1. CASE usage = "tunnels"
    BY <2>1, TunnelBilan DEF SessionInd, TunnelsInd
  <2>2. CASE usage # "tunnels"
    <3>1. \A c \in Cotes, k \in Connexions : recus[c][k] = <<>>
      BY <2>2 DEF SessionInd, TunnelsInd, InitT
    <3> QED
      BY <3>1 DEF OctetsEnOrdre
  <2> QED
    BY <2>1, <2>2
<1> QED
  BY <1>1, SessionToujours, PTL

\* A key or a button the host holds is one the user holds or whose release is on its way,
\* none is held in view only or without a session, and a stroke swallowed by a hotkey is
\* hidden to its end (GuichetEntrees, FiltreRaccourcis).
THEOREM ClavierToujoursFidele == Spec => []ClavierFidele
<1>1. SessionInd => ClavierFidele
  <2> SUFFICES ASSUME SessionInd PROVE ClavierFidele
    OBVIOUS
  <2>1. CASE usage = "entrees"
    BY <2>1, ClavierBilan DEF SessionInd, GuichetInd
  <2>2. CASE usage # "entrees"
    <3>1. InitG
      BY <2>2 DEF SessionInd, GuichetInd
    <3> QED
      BY <3>1 DEF InitG, ClavierFidele, SansFantome, FrappeCachee
  <2> QED
    BY <2>1, <2>2
<1> QED
  BY <1>1, SessionToujours, PTL

\* A listing that is returned shows the disk as it was during the call, or as an answer saw
\* it that was on its way when the call began (lister_distant keeps that one, against its own
\* comment); what earlier calls left in the table is never returned (purger_chemin).
THEOREM ListingToujoursFrais == Spec => []ListingFrais
<1>1. SessionInd => ListingFrais
  BY DEF SessionInd, FsInd, ListingInd, ListingFrais
<1> QED
  BY <1>1, SessionToujours, PTL

\* A download that ends well has written every slice at its place and nothing else, over
\* whatever was there and whatever earlier downloads left in the table.  Its slices are those
\* of the versions of the call, and of the answers on their way when it began, which the code
\* mixes in: it is the file of the host when there is one such version (telecharger).
THEOREM TelechargementToujoursFidele == Spec => []TelechargementFidele
<1>1. SessionInd => TelechargementFidele
  BY DEF SessionInd, FsInd, TelechargementInd, TelechargementFidele
<1> QED
  BY <1>1, SessionToujours, PTL

\* A recording that can be read is not lost: that of the start never, one that an order named
\* only to a new order for it or to a later epoch, whose loop truncates it against its own
\* comment (chemin_enregistrement, enregistrement_voulu).
THEOREM EnregistrementToujoursSauf == Spec => EnregistrementSauf
<1>1. SessionInd /\ [Next]_vars => [Garde]_<<lien, varsFlux>>
  BY HotePas
<1> QED
  BY <1>1, SessionToujours, PTL DEF Spec, EnregistrementSauf, Garde

-----------------------------------------------------------------------------
(***************************************************************************)
(* What a quiet session shows.  PressePapiersConverge and FluxConverge say *)
(* that the threads come to rest, which stays with TLC, and that what is   *)
(* then shown is what was asked for last, which is proved here.            *)
(***************************************************************************)
\* The last copy was not disturbed, and both peers may store what they receive.
Tranquille == ~croise /\ ouvert /\ \A c \in Cotes : Autorise(c, "ClipboardWrite")

\* c does not hold the last copy yet, and has nothing to send: the other side holds it, and it
\* is on its way, or will be captured.
Retard(c) ==
  /\ {capture[c], presse[c]} \subseteq {Vide, dernier[c]} /\ applique[c] = Vide
  /\ presse[Autre(c)] = derniere /\ applique[Autre(c)] = Vide /\ canal[Autre(c)] = <<>>
  /\ canal[c] # <<>> \/ dernier[Autre(c)] # derniere

\* The last copy is all that the threads and the frames carry, until each side holds it.
CopieInd ==
  usage = "pressePapiers" /\ Tranquille =>
    /\ derniere \in Contenus
    /\ \A c \in Cotes :
         /\ \A i \in 1..Len(canal[c]) : canal[c][i].contenu = derniere
         /\ applique[c] \in {Vide, derniere}
         /\ presse[c] # derniere => Retard(c)

\* What a frame that is sent or received does to the contents in the channels.
LEMMA ContenuFile ==
  ASSUME NEW S, NEW q \in Seq(S), NEW x, \A i \in 1..Len(q) : q[i].contenu = x
  PROVE  /\ \A t \in S : t.contenu = x =>
              /\ Append(q, t) # <<>>
              /\ \A i \in 1..Len(Append(q, t)) : Append(q, t)[i].contenu = x
         /\ q # <<>> => /\ Head(q).contenu = x
                        /\ \A i \in 1..Len(Tail(q)) : Tail(q)[i].contenu = x
<1>1. ASSUME NEW t \in S, t.contenu = x
      PROVE  /\ Append(q, t) # <<>>
             /\ \A i \in 1..Len(Append(q, t)) : Append(q, t)[i].contenu = x
  <2>1. PICK r : r = Append(q, t)
    OBVIOUS
  <2>2. /\ Len(r) = Len(q) + 1 /\ Len(q) \in Nat /\ r # <<>>
        /\ \A i \in 1..Len(q) : r[i] = q[i]
        /\ r[Len(q) + 1] = t
    BY <2>1, AppendProperties, LenProperties
  <2> QED
    BY <1>1, <2>1, <2>2
<1>2. ASSUME q # <<>>
      PROVE  Head(q).contenu = x /\ \A i \in 1..Len(Tail(q)) : Tail(q)[i].contenu = x
  <2>1. PICK r : r = Tail(q)
    OBVIOUS
  <2>2. /\ Len(r) = Len(q) - 1 /\ Len(q) \in Nat /\ Len(q) > 0 /\ Head(q) = q[1]
        /\ \A i \in 1..Len(r) : r[i] = q[i + 1]
    BY <1>2, <2>1, HeadTailProperties, EmptySeq, LenProperties
  <2>3. 1 \in 1..Len(q) /\ \A i \in 1..Len(r) : i + 1 \in 1..Len(q)
    BY <2>2
  <2> QED
    BY <2>1, <2>2, <2>3
<1> QED
  BY <1>1, <1>2

\* All is calm: both sides hold the last copy.
LEMMA CopieCalme ==
  ASSUME usage = "pressePapiers", CopieInd, Tranquille, Calme
  PROVE  \A c \in Cotes : presse[c] = derniere /\ dernier[c] = derniere
<1>1. derniere \in Contenus /\ derniere # Vide
  BY PresseAssumption DEF CopieInd
<1>2. \A c \in Cotes : /\ canal[c] = <<>> /\ presse[c] \in {Vide, dernier[c]}
                       /\ presse[c] # derniere => Retard(c)
  BY DEF Calme, Repos, CopieInd
<1>3. ASSUME NEW c \in Cotes, presse[c] # derniere PROVE FALSE
  <2>1. presse[Autre(c)] = derniere /\ dernier[Autre(c)] # derniere /\ Autre(c) \in Cotes
    BY <1>2, <1>3, AutreCote DEF Retard
  <2> QED
    BY <1>1, <1>2, <2>1
<1> QED
  BY <1>1, <1>2, <1>3

\* A user copies: nothing else is on its way.
LEMMA CopieCopier ==
  ASSUME usage = "pressePapiers", PresseInd, CopieInd, NEW c \in Cotes, NEW x \in Contenus,
         Copier(c, x), Tranquille'
  PROVE  CopieInd'
<1>1. /\ Calme /\ (croise => x \notin {presse[c], dernier[c]})
      /\ presse' = [presse EXCEPT ![c] = x] /\ derniere' = x
      /\ UNCHANGED <<usage, ouvert, canal, perms, dernier, applique, capture>>
  BY DEF Copier, lien, Tranquille
<1>2. presse \in [Cotes -> Contenus \cup {Vide}]
  BY DEF PresseInd, TypePP
<1>3. /\ Autre(c) \in Cotes /\ Autre(c) # c /\ Autre(Autre(c)) = c
      /\ \A d \in Cotes : d = c \/ d = Autre(c)
  BY AutreCote
<1>4. \A d \in Cotes : /\ canal[d] = <<>> /\ applique[d] = Vide
                       /\ {capture[d], presse[d]} \subseteq {Vide, dernier[d]}
  BY <1>1 DEF Calme, Repos
<1>5. presse'[c] = x /\ presse'[Autre(c)] = presse[Autre(c)]
  BY <1>1, <1>2, <1>3
<1>6. ASSUME presse'[Autre(c)] # x PROVE Retard(Autre(c))'
  <2>1. dernier[c] # x
    <3>1. CASE croise
      BY <1>1, <3>1
    <3>2. CASE ~croise
      <4>1. Tranquille
        BY <1>1, <3>2 DEF Tranquille, Autorise
      <4>2. dernier[c] = derniere /\ presse[Autre(c)] = derniere
        BY <1>1, <1>3, <4>1, CopieCalme
      <4> QED
        BY <1>5, <1>6, <4>2
    <3> QED
      BY <3>1, <3>2
  <2> QED
    BY <1>1, <1>3, <1>4, <1>5, <2>1 DEF Retard
<1>7. \A d \in Cotes : canal'[d] = <<>> /\ applique'[d] = Vide
  BY <1>1, <1>4
<1>8. \A i \in 1..Len(<<>>) : FALSE
  OBVIOUS
<1> QED
  BY <1>1, <1>3, <1>5, <1>6, <1>7, <1>8 DEF CopieInd

\* The receiving thread stores what came.
LEMMA CopieAppliquer ==
  ASSUME usage = "pressePapiers", PresseInd, CopieInd, NEW c \in Cotes, NEW echec \in BOOLEAN,
         Appliquer(c, echec), Tranquille'
  PROVE  CopieInd'
<1> DEFINE S == TramesPP \cup PermsDe("pressePapiers")
<1>1. /\ canal \in [Cotes -> Seq(S)] /\ TypePP
  BY DEF PresseInd, LienInd
<1> HIDE DEF S
<1>2. PICK x : x = Trame(c).contenu
  OBVIOUS
<1>3. /\ canal[c] # <<>> /\ canal'[c] = Tail(canal[c]) /\ canal'[Autre(c)] = canal[Autre(c)]
      /\ x = Head(canal[c]).contenu
  BY <1>1, <1>2, RecevoirType DEF Appliquer, Trame
<1>4. /\ UNCHANGED <<usage, ouvert, perms, dernier, capture, derniere>>
      /\ Autorise(c, "ClipboardWrite")
  BY DEF Appliquer, fixePP, droits, Tranquille, Autorise
<1>5. /\ ~echec /\ ~croise
      /\ presse' = [presse EXCEPT ![c] = x] /\ applique' = [applique EXCEPT ![c] = x]
  BY <1>2, <1>4 DEF Appliquer, Tranquille
<1>6. Tranquille
  BY <1>4, <1>5 DEF Tranquille, Autorise
<1>7. /\ Autre(c) \in Cotes /\ Autre(c) # c /\ Autre(Autre(c)) = c
      /\ \A d \in Cotes : d = c \/ d = Autre(c)
  BY AutreCote
<1>8. canal[c] \in Seq(S) /\ \A i \in 1..Len(canal[c]) : canal[c][i].contenu = derniere
  BY <1>1, <1>6 DEF CopieInd
<1>9. x = derniere /\ \A i \in 1..Len(canal'[c]) : canal'[c][i].contenu = derniere
  BY <1>3, <1>8, ContenuFile
<1>10. presse[Autre(c)] = derniere
  BY <1>3, <1>6, <1>7 DEF CopieInd, Retard
<1>11. /\ presse'[c] = derniere /\ presse'[Autre(c)] = derniere
       /\ applique'[c] = derniere /\ applique'[Autre(c)] = applique[Autre(c)]
  BY <1>1, <1>5, <1>7, <1>9, <1>10 DEF TypePP
<1>12. /\ derniere \in Contenus
       /\ \A d \in Cotes :
            /\ applique[d] \in {Vide, derniere}
            /\ \A i \in 1..Len(canal[d]) : canal[d][i].contenu = derniere
  BY <1>6 DEF CopieInd
<1>13. \A d \in Cotes : \A i \in 1..Len(canal'[d]) : canal'[d][i].contenu = derniere
  <2> SUFFICES ASSUME NEW d \in Cotes
               PROVE  \A i \in 1..Len(canal'[d]) : canal'[d][i].contenu = derniere
    OBVIOUS
  <2>1. CASE d = c
    BY <1>9, <2>1
  <2>2. CASE d = Autre(c)
    BY <1>3, <1>12, <2>2
  <2> QED
    BY <1>7, <2>1, <2>2
<1>14. \A d \in Cotes : presse'[d] = derniere /\ applique'[d] \in {Vide, derniere}
  BY <1>7, <1>11, <1>12
<1> QED
  BY <1>4, <1>12, <1>13, <1>14 DEF CopieInd

\* It remembers it, once stored.
LEMMA CopieMemoriser ==
  ASSUME usage = "pressePapiers", PresseInd, CopieInd, NEW c \in Cotes, Memoriser(c), Tranquille'
  PROVE  CopieInd'
<1>1. /\ applique[c] # Vide /\ ~croise
      /\ dernier' = [dernier EXCEPT ![c] = applique[c]]
      /\ applique' = [applique EXCEPT ![c] = Vide]
      /\ UNCHANGED <<usage, ouvert, canal, perms, presse, capture, derniere>>
  BY DEF Memoriser, lien, Tranquille
<1>2. Tranquille
  BY <1>1 DEF Tranquille, Autorise
<1>3. /\ Autre(c) \in Cotes /\ Autre(Autre(c)) = c /\ \A d \in Cotes : d = c \/ d = Autre(c)
  BY AutreCote
<1>4. \A d \in Cotes : presse[d] = derniere
  BY <1>1, <1>2, <1>3 DEF CopieInd, Retard
<1>5. \A d \in Cotes : applique'[d] \in {applique[d], Vide}
  BY <1>1 DEF PresseInd, TypePP
<1> QED
  BY <1>1, <1>2, <1>4, <1>5 DEF CopieInd

\* The emitting thread captures what the clipboard holds.
LEMMA CopieCapturer ==
  ASSUME usage = "pressePapiers", PresseInd, CopieInd, NEW c \in Cotes, Capturer(c), Tranquille'
  PROVE  CopieInd'
<1>1. /\ ~croise
      /\ capture' = [capture EXCEPT ![c] = presse[c]]
      /\ UNCHANGED <<usage, ouvert, canal, perms, presse, dernier, applique, derniere>>
  BY DEF Capturer, lien, Tranquille
<1>2. Tranquille
  BY <1>1 DEF Tranquille, Autorise
<1>3. capture'[c] = presse[c] /\ \A d \in Cotes : d # c => capture'[d] = capture[d]
  BY <1>1 DEF PresseInd, TypePP
<1>4. \A d \in Cotes : presse[d] # derniere => Retard(d)'
  BY <1>1, <1>2, <1>3 DEF CopieInd, Retard
<1> QED
  BY <1>1, <1>2, <1>4 DEF CopieInd

\* It sends it and remembers it, when it is not what is remembered.
LEMMA CopieSynchroniser ==
  ASSUME usage = "pressePapiers", PresseInd, CopieInd, NEW c \in Cotes, Synchroniser(c), Tranquille'
  PROVE  CopieInd'
<1> DEFINE S == TramesPP \cup PermsDe("pressePapiers")
<1>1. /\ canal \in [Cotes -> Seq(S)] /\ ouvert \in BOOLEAN /\ TypePP
  BY DEF PresseInd, LienInd
<1>2. PICK t : t = [type |-> "PressePapiers", contenu |-> capture[c]]
  OBVIOUS
<1>3. t \in S /\ t.contenu = capture[c]
  BY <1>1, <1>2 DEF TramesPP, TypePP
<1> HIDE DEF S
<1>4. /\ capture[c] # Vide /\ ouvert
      /\ ~croise /\ (capture[c] # dernier[c] => ~Perime(c))
      /\ capture' = [capture EXCEPT ![c] = Vide]
      /\ UNCHANGED <<usage, ouvert, perms, presse, applique, derniere>>
  BY DEF Synchroniser, fixePP, droits, Tranquille
<1>5. Tranquille
  BY <1>4 DEF Tranquille, Autorise
<1>6. /\ Autre(c) \in Cotes /\ Autre(c) # c /\ Autre(Autre(c)) = c
      /\ \A d \in Cotes : d = c \/ d = Autre(c)
  BY AutreCote
<1>8. \A d \in Cotes : capture'[d] \in {capture[d], Vide}
  BY <1>1, <1>4 DEF TypePP
<1>9. /\ derniere \in Contenus
      /\ \A d \in Cotes :
           /\ applique[d] \in {Vide, derniere}
           /\ canal[d] \in Seq(S)
           /\ \A i \in 1..Len(canal[d]) : canal[d][i].contenu = derniere
           /\ presse[d] # derniere => Retard(d)
  BY <1>1, <1>5 DEF CopieInd
<1>10. CASE capture[c] = dernier[c]
  <2>1. UNCHANGED <<dernier, canal>>
    BY <1>10 DEF Synchroniser
  <2>2. \A d \in Cotes : presse[d] # derniere => Retard(d)'
    BY <1>4, <1>8, <1>9, <2>1 DEF Retard
  <2> QED
    BY <1>4, <1>8, <1>9, <2>1, <2>2 DEF CopieInd
<1>11. CASE capture[c] # dernier[c]
  <2>. capture[c] = derniere /\ presse[c] = derniere
    BY <1>4, <1>9, <1>11 DEF Retard, Perime
  <2>1. Emettre(c, t) /\ dernier' = [dernier EXCEPT ![c] = capture[c]]
    BY <1>2, <1>11 DEF Synchroniser
  <2>2. canal'[Autre(c)] = Append(canal[Autre(c)], t) /\ canal'[c] = canal[c]
    BY <1>1, <1>3, <1>4, <2>1, EmettreType
  <2>3. /\ canal'[Autre(c)] # <<>>
        /\ \A i \in 1..Len(canal'[Autre(c)]) : canal'[Autre(c)][i].contenu = derniere
    <3>1. PICK q : q = canal[Autre(c)]
      OBVIOUS
    <3>2. q \in Seq(S) /\ \A i \in 1..Len(q) : q[i].contenu = derniere
      BY <1>6, <1>9, <3>1
    <3>3. t.contenu = derniere
      BY <1>3
    <3>4. PICK r : r = Append(q, t)
      OBVIOUS
    <3>5. r # <<>> /\ \A i \in 1..Len(r) : r[i].contenu = derniere
      BY <1>3, <3>2, <3>3, <3>4, ContenuFile
    <3>6. canal'[Autre(c)] = r
      BY <2>2, <3>1, <3>4
    <3> QED
      BY <3>5, <3>6
  <2>4. dernier'[Autre(c)] = dernier[Autre(c)]
    BY <1>1, <1>6, <2>1 DEF TypePP
  <2>5. presse[Autre(c)] # derniere => Retard(Autre(c))'
    BY <1>4, <1>6, <1>8, <1>9, <2>2, <2>3, <2>4 DEF Retard
  <2>6. \A d \in Cotes : \A i \in 1..Len(canal'[d]) : canal'[d][i].contenu = derniere
    <3> SUFFICES ASSUME NEW d \in Cotes
                 PROVE  \A i \in 1..Len(canal'[d]) : canal'[d][i].contenu = derniere
      OBVIOUS
    <3>1. CASE d = c
      BY <1>9, <2>2, <3>1
    <3>2. CASE d = Autre(c)
      BY <2>3, <3>2
    <3> QED
      BY <1>6, <3>1, <3>2
  <2>7. \A d \in Cotes : presse'[d] # derniere => Retard(d)'
    BY <1>4, <1>6, <2>5
  <2>8. \A d \in Cotes : applique'[d] \in {Vide, derniere}
    BY <1>4, <1>9
  <2> QED
    BY <1>4, <1>9, <2>6, <2>7, <2>8 DEF CopieInd
<1> QED
  BY <1>10, <1>11

\* Every step of the session preserves it.
LEMMA CopiePas ==
  ASSUME SessionInd, [Next]_vars, CopieInd
  PROVE  CopieInd'
<1>1. SUFFICES ASSUME usage = "pressePapiers", Tranquille' PROVE CopieInd'
  BY UsageFixe DEF CopieInd
<1>2. PresseInd /\ (NextPP \/ UNCHANGED <<lien, varsPP>>)
  BY <1>1, PasDeLUsage DEF SessionInd, PPInd
<1>3. CASE UNCHANGED <<lien, varsPP>>
  BY <1>1, <1>3 DEF lien, varsPP, CopieInd, Retard, Tranquille, Autorise
<1>4. CASE LienPP
  BY <1>1, <1>4 DEF LienPP, Tranquille
<1>5. CASE NextPP /\ ~LienPP
  BY <1>1, <1>2, <1>5, CopieCopier, CopieAppliquer, CopieMemoriser, CopieCapturer, CopieSynchroniser
     DEF NextPP, FilsPP
<1> QED
  BY <1>2, <1>3, <1>4, <1>5

\* Once nothing is on its way and no thread has anything to do, a copy that nothing disturbed
\* is in both clipboards (synchroniser_presse_papiers, traiter_controle).
THEOREM CopieToujoursPartagee ==
  Spec => [](usage = "pressePapiers" /\ Tranquille /\ Calme =>
               \A c \in Cotes : presse[c] = derniere)
<1>1. Init => CopieInd
  BY DEF Init, InitPP, CopieInd, Tranquille
<1>2. SessionInd /\ CopieInd /\ [Next]_vars => CopieInd'
  BY CopiePas
<1>3. CopieInd => (usage = "pressePapiers" /\ Tranquille /\ Calme =>
                     \A c \in Cotes : presse[c] = derniere)
  BY CopieCalme
<1> QED
  BY <1>1, <1>2, <1>3, SessionToujours, PTL DEF Spec

-----------------------------------------------------------------------------
\* An announcement of the state of the curtain.
EstAnnonce(f) == f.type = "ConfidentialiteEtat"

\* The last announcement in the channel q, or what the last one received left in r, is a.
Annoncee(q, a, r) ==
  /\ \A i \in 1..Len(q) :
       EstAnnonce(q[i]) /\ (\A j \in 1..Len(q) : i < j => ~EstAnnonce(q[j])) => q[i].valeur = a
  /\ (\A i \in 1..Len(q) : ~EstAnnonce(q[i])) => a = Aucun \/ r = a

\* In an epoch, what the host announced last reaches the controller last.
AnnonceInd ==
  usage = "confidentialite" /\ ouvert =>
    Annoncee(canal["Controller"], annonce, rideau["Controller"])

\* What a frame that is sent or received does to the announcements of the channel.
LEMMA AnnonceFile ==
  ASSUME NEW S, NEW q \in Seq(S), NEW a, NEW r
  PROVE  /\ \A t \in S : EstAnnonce(t) => Annoncee(Append(q, t), t.valeur, r)
         /\ q # <<>> /\ Annoncee(q, a, r) =>
              Annoncee(Tail(q), a, IF EstAnnonce(Head(q)) THEN Head(q).valeur ELSE r)
<1>1. ASSUME NEW t \in S, EstAnnonce(t) PROVE Annoncee(Append(q, t), t.valeur, r)
  <2>1. PICK s : s = Append(q, t)
    OBVIOUS
  <2>2. /\ Len(s) = Len(q) + 1 /\ Len(q) \in Nat
        /\ s[Len(q) + 1] = t
    BY <2>1, AppendProperties, LenProperties
  <2>3. Len(s) \in 1..Len(s) /\ s[Len(s)] = t
    BY <2>2
  <2>4. \A i \in 1..Len(s) : i = Len(s) \/ i < Len(s)
    BY <2>2
  <2>5. Annoncee(s, t.valeur, r)
    BY <1>1, <2>3, <2>4 DEF Annoncee
  <2> QED
    BY <2>1, <2>5
<1>2. ASSUME q # <<>>, Annoncee(q, a, r)
      PROVE  Annoncee(Tail(q), a, IF EstAnnonce(Head(q)) THEN Head(q).valeur ELSE r)
  <2>1. PICK s : s = Tail(q)
    OBVIOUS
  <2>2. /\ Len(s) = Len(q) - 1 /\ Len(q) \in Nat /\ Len(q) > 0 /\ Head(q) = q[1]
        /\ \A i \in 1..Len(s) : s[i] = q[i + 1]
    BY <1>2, <2>1, HeadTailProperties, EmptySeq, LenProperties
  <2>3. 1 \in 1..Len(q) /\ \A i \in 1..Len(s) : i + 1 \in 1..Len(q)
    BY <2>2
  <2>4. \A j \in 1..Len(q) : j = 1 \/ (j - 1 \in 1..Len(s) /\ q[j] = s[j - 1])
    BY <2>2
  <2>5. ASSUME NEW i \in 1..Len(s), EstAnnonce(s[i]), \A j \in 1..Len(s) : i < j => ~EstAnnonce(s[j])
        PROVE  s[i].valeur = a
    <3>1. ASSUME NEW j \in 1..Len(q), i + 1 < j PROVE ~EstAnnonce(q[j])
      <4>1. j - 1 \in 1..Len(s) /\ i < j - 1 /\ q[j] = s[j - 1]
        BY <2>4, <3>1
      <4> QED
        BY <2>5, <4>1
    <3>2. i + 1 \in 1..Len(q) /\ q[i + 1] = s[i]
      BY <2>2, <2>3
    <3> QED
      BY <1>2, <2>5, <3>1, <3>2 DEF Annoncee
  <2>6. ASSUME \A i \in 1..Len(s) : ~EstAnnonce(s[i])
        PROVE  a = Aucun \/ (IF EstAnnonce(Head(q)) THEN Head(q).valeur ELSE r) = a
    <3>1. \A j \in 1..Len(q) : j = 1 \/ ~EstAnnonce(q[j])
      BY <2>4, <2>6
    <3>2. CASE EstAnnonce(q[1])
      <4>1. \A j \in 1..Len(q) : 1 < j => ~EstAnnonce(q[j])
        BY <3>1
      <4>2. q[1].valeur = a
        BY <1>2, <2>3, <3>2, <4>1 DEF Annoncee
      <4> QED
        BY <2>2, <3>2, <4>2
    <3>3. CASE ~EstAnnonce(q[1])
      <4>1. \A j \in 1..Len(q) : ~EstAnnonce(q[j])
        BY <3>1, <3>3
      <4> QED
        BY <1>2, <2>2, <3>3, <4>1 DEF Annoncee
    <3> QED
      BY <3>2, <3>3
  <2>7. Annoncee(s, a, IF EstAnnonce(Head(q)) THEN Head(q).valeur ELSE r)
    BY <2>5, <2>6 DEF Annoncee
  <2> QED
    BY <2>1, <2>7
<1> QED
  BY <1>1, <1>2

\* Every step of the session preserves it.
LEMMA AnnoncePas ==
  ASSUME SessionInd, [Next]_vars, AnnonceInd
  PROVE  AnnonceInd'
<1> DEFINE u == "confidentialite"
           S == TramesFlux(u) \cup PermsDe(u)
<1>1. SUFFICES ASSUME usage = u, ouvert'
               PROVE  Annoncee(canal["Controller"], annonce, rideau["Controller"])'
  BY UsageFixe DEF AnnonceInd
<1>2. FluxInd(u) /\ (NextFlux \/ UNCHANGED <<lien, varsFlux>>)
  BY <1>1, PasDeLUsage DEF SessionInd, HoteInd, UsagesFlux
<1>3. /\ canal \in [Cotes -> Seq(S)] /\ canal["Controller"] \in Seq(S)
      /\ ouvert \in BOOLEAN /\ (~ouvert => canal["Controller"] = <<>>)
      /\ rideau \in [Cotes -> BOOLEAN]
  BY <1>2 DEF FluxInd, LienInd, TypesFlux, Cotes
<1>e. \A t \in S : t.type = "Permissions" => ~EstAnnonce(t)
  BY DEF EstAnnonce
<1>f. \A v \in BOOLEAN : [type |-> "ConfidentialiteEtat", valeur |-> v] \in S
  BY DEF TramesFlux
<1> HIDE DEF S
<1>c. /\ Autre("Controller") = "Controlled" /\ Autre("Controlled") = "Controller"
      /\ \A c \in Cotes : c \in {"Controller", "Controlled"}
  BY DEF Autre, Cotes
\* Nothing that counts changes.
<1>s. ASSUME ouvert' = ouvert, UNCHANGED annonce, canal'["Controller"] = canal["Controller"],
             rideau'["Controller"] = rideau["Controller"]
      PROVE  Annoncee(canal["Controller"], annonce, rideau["Controller"])'
  BY <1>1, <1>s DEF AnnonceInd, Annoncee
\* The first frame of the channel is received.
<1>r. ASSUME NEW type, Recevoir("Controller", type), ouvert' = ouvert, UNCHANGED annonce,
             type = "Permissions" => rideau'["Controller"] = rideau["Controller"],
             type = "ConfidentialiteEtat" => rideau'["Controller"] = Trame("Controller").valeur,
             type \in {"Permissions", "ConfidentialiteEtat"}
      PROVE  Annoncee(canal["Controller"], annonce, rideau["Controller"])'
  <2>1. /\ canal["Controller"] # <<>> /\ Head(canal["Controller"]) \in S
        /\ Head(canal["Controller"]).type = type
        /\ canal'["Controller"] = Tail(canal["Controller"])
    BY <1>3, <1>r, RecevoirType DEF Trame, Cotes
  <2>2. Annoncee(canal["Controller"], annonce, rideau["Controller"])
    BY <1>1, <1>r DEF AnnonceInd
  <2>3. rideau'["Controller"] = IF EstAnnonce(Head(canal["Controller"]))
                                THEN Head(canal["Controller"]).valeur ELSE rideau["Controller"]
    BY <1>e, <1>r, <2>1 DEF EstAnnonce, Trame
  <2>4. Annoncee(Tail(canal["Controller"]), annonce, rideau'["Controller"])
    BY <1>3, <2>1, <2>2, <2>3, AnnonceFile
  <2> QED
    BY <1>r, <2>1, <2>4
<1>4. ASSUME NEW f \in FilsHote, NEW v, Stocker(f, v)
      PROVE  rideau'["Controller"] = rideau["Controller"]
  BY <1>1, <1>3, <1>4 DEF Stocker, Cotes
<1>5. ASSUME NEW c \in Cotes, NEW v \in Valeurs, DemanderFlux(c, v)
      PROVE  Annoncee(canal["Controller"], annonce, rideau["Controller"])'
  BY <1>5, <1>s DEF DemanderFlux, partage
<1>6. ASSUME NEW c \in Cotes, ExecuterReglage(c)
      PROVE  Annoncee(canal["Controller"], annonce, rideau["Controller"])'
  <2>1. UNCHANGED <<ouvert, annonce>>
    BY <1>6 DEF ExecuterReglage
  <2>2. CASE c = "Controlled"
    <3>1. canal' = canal /\ Stocker("emetteur", Commande(c).valeur)
      BY <1>6, <2>2 DEF ExecuterReglage
    <3> QED
      BY <1>4, <1>s, <2>1, <3>1 DEF FilsHote
  <2>3. CASE c = "Controller"
    <3>1. UNCHANGED rideau /\ Emettre(c, [type |-> "Reglage", valeur |-> Commande(c).valeur])
      BY <1>1, <1>6, <2>3 DEF ExecuterReglage
    <3>2. canal'["Controller"] = canal["Controller"]
      BY <1>3, <1>c, <2>3, <3>1 DEF Emettre, Cotes
    <3> QED
      BY <1>s, <2>1, <3>1, <3>2
  <2> QED
    BY <1>c, <2>2, <2>3
<1>7. CASE RecevoirReglage
  <2>1. UNCHANGED <<ouvert, annonce>> /\ rideau'["Controller"] = rideau["Controller"]
    BY <1>4, <1>7 DEF RecevoirReglage, FilsHote
  <2>2. canal'["Controller"] = canal["Controller"]
    BY <1>3, <1>7 DEF RecevoirReglage, Recevoir, Cotes
  <2> QED
    BY <1>s, <2>1, <2>2
<1>8. CASE RecevoirAnnonce
  <2>1. /\ Recevoir("Controller", "ConfidentialiteEtat") /\ UNCHANGED <<ouvert, annonce>>
        /\ rideau'["Controller"] = Trame("Controller").valeur
    BY <1>3, <1>8 DEF RecevoirAnnonce, Cotes
  <2> QED
    BY <1>r, <2>1
<1>9. ASSUME NEW f \in FilsHote, Ecriture(f)
      PROVE  Annoncee(canal["Controller"], annonce, rideau["Controller"])'
  BY <1>9, <1>s DEF Ecriture, lien
<1>10. CASE Annoncer
  <2>1. PICK t : t = [type |-> "ConfidentialiteEtat", valeur |-> rideau["Controlled"]]
    OBVIOUS
  <2>2. t \in S /\ EstAnnonce(t) /\ t.valeur = rideau["Controlled"]
    BY <1>3, <1>f, <2>1 DEF EstAnnonce, Cotes
  <2>3. Emettre("Controlled", t) /\ annonce' = t.valeur /\ UNCHANGED <<ouvert, rideau>>
    BY <1>10, <2>1, <2>2 DEF Annoncer
  <2>4. canal'["Controller"] = Append(canal["Controller"], t)
    BY <1>1, <1>3, <1>c, <2>2, <2>3, EmettreType DEF Cotes
  <2>5. Annoncee(Append(canal["Controller"], t), t.valeur, rideau["Controller"])
    BY <1>3, <2>2, AnnonceFile
  <2> QED
    BY <2>3, <2>4, <2>5
<1>11. CASE Boucle
  BY <1>11, <1>s DEF Boucle, AppliquerCadre, AnnulerCadre, VoirGeneration, Configurer,
     AchevConfiguration, Enregistrer, Filmer, Tourner, lien
<1>12. CASE ReprendreFlux
  <2>1. canal'["Controller"] = <<>> /\ annonce' = Aucun
    BY <1>3, <1>12 DEF ReprendreFlux, Rouvrir
  <2>2. \A i \in 1..Len(<<>>) : FALSE
    OBVIOUS
  <2> QED
    BY <2>1, <2>2 DEF Annoncee
<1>13. ASSUME NEW c \in Cotes, NEW erreur \in BOOLEAN, FinFlux(c, erreur)
       PROVE  Annoncee(canal["Controller"], annonce, rideau["Controller"])'
  BY <1>13, <1>s DEF FinFlux, Terminer, partage
<1>14. CASE Couper
  BY <1>1, <1>14 DEF Couper
<1>15. CASE NextPermissions /\ UNCHANGED varsFlux
  <2>1. UNCHANGED <<annonce, rideau>>
    BY <1>15 DEF varsFlux
  <2>2. ASSUME NEW c \in Cotes, NEW cap, DefinirPermission(c, cap)
        PROVE  Annoncee(canal["Controller"], annonce, rideau["Controller"])'
    BY <1>s, <2>1, <2>2 DEF DefinirPermission
  <2>3. ASSUME NEW c \in Cotes, AppliquerPermissions(c)
        PROVE  Annoncee(canal["Controller"], annonce, rideau["Controller"])'
    <3>1. canal'["Controller"] = canal["Controller"] /\ ouvert' = ouvert
      BY <1>3, <1>c, <2>3 DEF AppliquerPermissions, Emettre, Cotes
    <3> QED
      BY <1>s, <2>1, <3>1
  <2>4. ASSUME NEW c \in Cotes, RecevoirPermissions(c)
        PROVE  Annoncee(canal["Controller"], annonce, rideau["Controller"])'
    <3>1. ouvert' = ouvert /\ Recevoir(c, "Permissions")
      BY <2>4 DEF RecevoirPermissions
    <3>2. CASE c = "Controller"
      BY <1>r, <2>1, <3>1, <3>2
    <3>3. CASE c = "Controlled"
      <4>1. canal'["Controller"] = canal["Controller"]
        BY <1>3, <3>1, <3>3 DEF Recevoir, Cotes
      <4> QED
        BY <1>s, <2>1, <3>1, <4>1
    <3> QED
      BY <1>c, <3>2, <3>3
  <2> QED
    BY <1>15, <2>2, <2>3, <2>4 DEF NextPermissions, FilsPermissions
<1>16. CASE UNCHANGED <<lien, varsFlux>>
  BY <1>16, <1>s DEF lien, varsFlux
<1> QED
  BY <1>2, <1>5, <1>6, <1>7, <1>8, <1>9, <1>10, <1>11, <1>12, <1>13, <1>14, <1>15, <1>16
     DEF NextFlux, FilsFlux

\* Once the host has announced its curtain and the announcement has come, the indicator of the
\* controller shows it, also in a new epoch (annoncer_confidentialite).
THEOREM IndicateurToujoursFidele ==
  Spec => [](usage = "confidentialite" /\ ouvert /\ annonce = rideau["Controlled"]
               /\ (\A i \in 1..Len(canal["Controller"]) : ~EstAnnonce(canal["Controller"][i]))
             => rideau["Controller"] = rideau["Controlled"])
<1>1. Init => AnnonceInd
  BY EmptySeq DEF Init, InitLien, InitFlux, AnnonceInd, Annoncee, Cotes
<1>2. SessionInd /\ AnnonceInd /\ [Next]_vars => AnnonceInd'
  BY AnnoncePas
<1>3. SessionInd /\ AnnonceInd =>
        (usage = "confidentialite" /\ ouvert /\ annonce = rideau["Controlled"]
           /\ (\A i \in 1..Len(canal["Controller"]) : ~EstAnnonce(canal["Controller"][i]))
         => rideau["Controller"] = rideau["Controlled"])
  <2> SUFFICES ASSUME SessionInd, AnnonceInd, usage = "confidentialite", ouvert,
                      annonce = rideau["Controlled"],
                      \A i \in 1..Len(canal["Controller"]) : ~EstAnnonce(canal["Controller"][i])
               PROVE  rideau["Controller"] = rideau["Controlled"]
    OBVIOUS
  <2>1. rideau \in [Cotes -> BOOLEAN]
    BY DEF SessionInd, HoteInd, FluxInd, TypesFlux, UsagesFlux
  <2>2. rideau["Controlled"] \in BOOLEAN /\ Aucun \notin BOOLEAN
    BY <2>1, FluxAssumption DEF Cotes
  <2>3. annonce = Aucun \/ rideau["Controller"] = annonce
    BY DEF AnnonceInd, Annoncee
  <2> QED
    BY <2>2, <2>3
<1> QED
  BY <1>1, <1>2, <1>3, SessionToujours, PTL DEF Spec

-----------------------------------------------------------------------------
\* The stores of appliquer_qualite that are left after n of them.
Suite(n, v) ==
  CASE n = 0 -> StoresQualite(v)
    [] n = 1 -> <<<<"plafond", v>>, <<"generation", v>>>>
    [] n = 2 -> <<<<"generation", v>>>>
    [] n = 3 -> <<>>

\* What store n writes.
Champ(n) == CASE n = 0 -> "profil" [] n = 1 -> "plafond" [] n = 2 -> "generation"

\* No thread is between two stores.
Ecrites == \A f \in FilsHote : ecritures[f] = <<>>

\* f has made n of its stores of the last preset, and the other thread has none left.
Stockee(f, n) ==
  /\ ecritures[AutreFil(f)] = <<>> /\ ecritures[f] = Suite(n, reglage)
  /\ n >= 1 => qualite.profil = reglage
  /\ n >= 2 => qualite.plafond = reglage

\* What the loop has read it has read after the last generation, or will read again.
Lue ==
  Ecrites /\ boucle.vue = qualite.generation =>
    /\ boucle.configure # "non" => boucle.plafond = qualite.plafond
    /\ boucle.configure = "oui" => boucle.profil = qualite.profil

\* The preset, from the request to the loop.
QualiteInd ==
  usage = "qualite" =>
    /\ boucle.vue <= qualite.generation
    /\ \A f \in FilsHote : \E n \in 0..3, v \in Qualites : ecritures[f] = Suite(n, v)
    /\ Lue
    /\ reglage # Aucun /\ ~croisee => \E f \in FilsHote, n \in 0..3 : Stockee(f, n)

\* The next store and what is left then.
LEMMA SuiteSuivante ==
  ASSUME NEW n \in 0..3, NEW v
  PROVE  /\ Suite(n, v) = <<>> <=> n = 3
         /\ n < 3 =>
              /\ Tail(Suite(n, v)) = Suite(n + 1, v)
              /\ Head(Suite(n, v)) = <<Champ(n), v>>
<1> DEFINE a == <<"profil", v>>
           b == <<"plafond", v>>
           g == <<"generation", v>>
<1>1. CASE n = 0
  <2>1. Suite(n, v) = <<a, b, g>> /\ Suite(n + 1, v) = <<b, g>>
    BY <1>1 DEF Suite, StoresQualite
  <2> HIDE DEF a, b, g
  <2>2. <<a, b, g>> # <<>> /\ Tail(<<a, b, g>>) = <<b, g>> /\ Head(<<a, b, g>>) = a
    OBVIOUS
  <2>3. Champ(n) = "profil"
    BY <1>1 DEF Champ
  <2>4. a = <<Champ(n), v>>
    BY <2>3 DEF a
  <2>5. Suite(n, v) # <<>> /\ Tail(Suite(n, v)) = Suite(n + 1, v) /\ Head(Suite(n, v)) = <<Champ(n), v>>
    BY <2>1, <2>2, <2>4, Zenon
  <2>6. n # 3
    BY <1>1
  <2> QED
    BY <2>5, <2>6, Zenon
<1>2. CASE n = 1
  <2>1. Suite(n, v) = <<b, g>> /\ Suite(n + 1, v) = <<g>>
    BY <1>2 DEF Suite
  <2> HIDE DEF b, g
  <2>2. <<b, g>> # <<>> /\ Tail(<<b, g>>) = <<g>> /\ Head(<<b, g>>) = b
    OBVIOUS
  <2>3. Champ(n) = "plafond"
    BY <1>2 DEF Champ
  <2>4. b = <<Champ(n), v>>
    BY <2>3 DEF b
  <2>5. Suite(n, v) # <<>> /\ Tail(Suite(n, v)) = Suite(n + 1, v) /\ Head(Suite(n, v)) = <<Champ(n), v>>
    BY <2>1, <2>2, <2>4, Zenon
  <2>6. n # 3
    BY <1>2
  <2> QED
    BY <2>5, <2>6, Zenon
<1>3. CASE n = 2
  <2>1. Suite(n, v) = <<g>> /\ Suite(n + 1, v) = <<>>
    BY <1>3 DEF Suite
  <2> HIDE DEF g
  <2>2. <<g>> # <<>> /\ Tail(<<g>>) = <<>> /\ Head(<<g>>) = g
    OBVIOUS
  <2>3. Champ(n) = "generation"
    BY <1>3 DEF Champ
  <2>4. g = <<Champ(n), v>>
    BY <2>3 DEF g
  <2>5. Suite(n, v) # <<>> /\ Tail(Suite(n, v)) = Suite(n + 1, v) /\ Head(Suite(n, v)) = <<Champ(n), v>>
    BY <2>1, <2>2, <2>4, Zenon
  <2>6. n # 3
    BY <1>3
  <2> QED
    BY <2>5, <2>6, Zenon
<1>4. CASE n = 3
  BY <1>4 DEF Suite
<1> QED
  BY <1>1, <1>2, <1>3, <1>4

\* Nothing of the preset changes.
LEMMA QualiteStable ==
  ASSUME QualiteInd, UNCHANGED <<usage, boucle, qualite, ecritures, reglage, croisee>>
  PROVE  QualiteInd'
BY DEF QualiteInd, Lue, Ecrites, Stockee

\* A request is taken by a thread that has no store left to make.
LEMMA QualiteStocker ==
  ASSUME QualiteInd, FluxInd("qualite"), usage = "qualite", NEW f \in FilsHote, NEW v \in Qualites,
         ecritures[f] = <<>>, Stocker(f, v), UNCHANGED <<usage, boucle, qualite>>
  PROVE  QualiteInd'
<1>1. /\ ecritures' = [ecritures EXCEPT ![f] = StoresQualite(v)]
      /\ reglage' = v /\ croisee' = (ecritures[AutreFil(f)] # <<>>)
  BY DEF Stocker
<1>2. AutreFil(f) \in FilsHote /\ AutreFil(f) # f /\ \A g \in FilsHote : g = f \/ g = AutreFil(f)
  BY DEF AutreFil, FilsHote
<1>3. DOMAIN ecritures = FilsHote
  BY DEF FluxInd, TypesFlux
<1>4. ecritures'[f] = Suite(0, v) /\ ecritures'[AutreFil(f)] = ecritures[AutreFil(f)]
  BY <1>1, <1>2, <1>3 DEF Suite
<1>5. Suite(0, v) # <<>>
  BY SuiteSuivante
<1>6. Lue'
  BY <1>4, <1>5 DEF Lue, Ecrites
<1>7. ~croisee' => Stockee(f, 0)'
  <2>1. CASE ecritures[AutreFil(f)] = <<>>
    BY <1>1, <1>4, <2>1 DEF Stockee
  <2>2. CASE ecritures[AutreFil(f)] # <<>>
    <3>1. croisee'
      BY <1>1, <2>2, Zenon
    <3> QED
      BY <3>1, Zenon
  <2> QED
    BY <2>1, <2>2
<1>8. \A g \in FilsHote : \E n \in 0..3, w \in Qualites : ecritures'[g] = Suite(n, w)
  BY <1>2, <1>4 DEF QualiteInd
<1> QED
  BY <1>6, <1>7, <1>8 DEF QualiteInd

\* The next store.
LEMMA QualiteEcriture ==
  ASSUME QualiteInd, FluxInd("qualite"), usage = "qualite", NEW f \in FilsHote, Ecriture(f)
  PROVE  QualiteInd'
<1>1. PICK n \in 0..3, v \in Qualites : ecritures[f] = Suite(n, v)
  BY DEF QualiteInd
<1>2. ecritures[f] # <<>> /\ ecritures' = [ecritures EXCEPT ![f] = Tail(ecritures[f])]
  BY DEF Ecriture
<1>3. n < 3
  BY <1>1, <1>2, SuiteSuivante
<1>4. /\ UNCHANGED <<usage, boucle, reglage, croisee>>
  BY DEF Ecriture, lien
<1>5. qualite \in [profil : Qualites, plafond : Qualites, generation : Nat] /\ DOMAIN ecritures = FilsHote
  BY DEF FluxInd, TypesFlux
<1>6. ecritures'[f] = Suite(n + 1, v) /\ \A g \in FilsHote : g # f => ecritures'[g] = ecritures[g]
  BY <1>1, <1>2, <1>3, <1>5, SuiteSuivante
<1>7. Head(ecritures[f])[1] = Champ(n) /\ Head(ecritures[f])[2] = v
  BY <1>1, <1>3, SuiteSuivante
<1>8. qualite' = CASE n = 0 -> [qualite EXCEPT !.profil = v]
                   [] n = 1 -> [qualite EXCEPT !.plafond = v]
                   [] n = 2 -> [qualite EXCEPT !.generation = @ + 1]
  <2>1. PICK quoi, w : quoi = Head(ecritures[f])[1] /\ w = Head(ecritures[f])[2]
    OBVIOUS
  <2>2. CASE n = 0
    <3>1. quoi = "profil" /\ w = v
      BY <1>7, <2>1, <2>2 DEF Champ
    <3>2. qualite' = [qualite EXCEPT !.profil = w]
      BY <2>1, <3>1 DEF Ecriture
    <3> QED
      BY <2>2, <3>1, <3>2
  <2>3. CASE n = 1
    <3>1. quoi = "plafond" /\ w = v
      BY <1>7, <2>1, <2>3 DEF Champ
    <3>2. qualite' = [qualite EXCEPT !.plafond = w]
      BY <2>1, <3>1 DEF Ecriture
    <3> QED
      BY <2>3, <3>1, <3>2
  <2>4. CASE n = 2
    <3>1. quoi = "generation" /\ w = v
      BY <1>7, <2>1, <2>4 DEF Champ
    <3>2. qualite' = [qualite EXCEPT !.generation = @ + 1]
      BY <2>1, <3>1 DEF Ecriture
    <3> QED
      BY <2>4, <3>1, <3>2
  <2> QED
    BY <1>3, <2>2, <2>3, <2>4
<1>9. /\ n = 0 => qualite'.profil = v /\ qualite'.plafond = qualite.plafond
      /\ n = 1 => qualite'.profil = qualite.profil /\ qualite'.plafond = v
      /\ n = 2 => /\ qualite'.profil = qualite.profil /\ qualite'.plafond = qualite.plafond
                  /\ qualite'.generation = qualite.generation + 1
      /\ n # 2 => qualite'.generation = qualite.generation
  <2>1. CASE n = 0
    BY <1>5, <1>8, <2>1
  <2>2. CASE n = 1
    BY <1>5, <1>8, <2>2
  <2>3. CASE n = 2
    BY <1>5, <1>8, <2>3
  <2> QED
    BY <1>3, <2>1, <2>2, <2>3
<1>10. boucle.vue \in Nat /\ boucle.vue <= qualite.generation
  BY DEF QualiteInd, FluxInd, TypesFlux
<1>11. boucle.vue <= qualite'.generation /\ (n = 2 => boucle.vue # qualite'.generation)
  BY <1>5, <1>9, <1>10
<1>12. Lue'
  <2>1. CASE n = 2
    BY <1>4, <1>11, <2>1 DEF Lue
  <2>2. CASE n # 2
    <3>1. n + 1 \in 0..3 /\ n + 1 # 3
      BY <1>3, <2>2
    <3>2. ecritures'[f] # <<>>
      BY <1>6, <3>1, SuiteSuivante
    <3> QED
      BY <3>2 DEF Lue, Ecrites
  <2> QED
    BY <2>1, <2>2
<1>13. \A g \in FilsHote : \E k \in 0..3, w \in Qualites : ecritures'[g] = Suite(k, w)
  <2>1. n + 1 \in 0..3
    BY <1>3
  <2> QED
    BY <1>6, <2>1 DEF QualiteInd
<1>14. ASSUME reglage # Aucun, ~croisee PROVE \E g \in FilsHote, k \in 0..3 : Stockee(g, k)'
  <2>1. PICK g \in FilsHote, k \in 0..3 : Stockee(g, k)
    BY <1>14 DEF QualiteInd
  <2>2. g = f
    BY <1>2, <2>1 DEF Stockee, AutreFil, FilsHote
  <2>3. Suite(n, v) = Suite(k, reglage) /\ k < 3
    BY <1>1, <1>2, <2>1, <2>2, SuiteSuivante DEF Stockee
  <2>4. k = n /\ v = reglage
    <3>1. <<Champ(n), v>> = <<Champ(k), reglage>>
      BY <1>3, <2>3, SuiteSuivante
    <3>2. Champ(n) = Champ(k) /\ v = reglage
      BY <3>1
    <3> QED
      BY <1>3, <2>3, <3>2 DEF Champ
  <2>5. AutreFil(f) # f /\ AutreFil(f) \in FilsHote
    BY DEF AutreFil, FilsHote
  <2>6. ecritures'[AutreFil(f)] = <<>> /\ ecritures'[f] = Suite(n + 1, reglage)
    BY <1>6, <2>1, <2>2, <2>4, <2>5 DEF Stockee
  <2>7. /\ n + 1 >= 1 => qualite'.profil = reglage
        /\ n + 1 >= 2 => qualite'.plafond = reglage
    <3>1. /\ n >= 1 => qualite.profil = reglage
          /\ n >= 2 => qualite.plafond = reglage
      BY <2>1, <2>4 DEF Stockee
    <3> QED
      BY <1>3, <1>9, <2>4, <3>1
  <2>8. Stockee(f, n + 1)' /\ n + 1 \in 0..3
    BY <1>3, <1>4, <2>6, <2>7 DEF Stockee
  <2> QED
    BY <2>8
<1> QED
  BY <1>4, <1>11, <1>12, <1>13, <1>14 DEF QualiteInd

\* A turn of the loop, or its end.
LEMMA QualiteBoucle ==
  ASSUME QualiteInd, FluxInd("qualite"), usage = "qualite",
         UNCHANGED <<usage, qualite, ecritures, reglage>>, croisee' \/ ~croisee,
         \/ boucle' = BoucleInitiale
         \/ /\ boucle'.vue = boucle.vue
            /\ boucle'.plafond = boucle.plafond /\ boucle'.profil = boucle.profil
            /\ boucle'.configure \in {boucle.configure, "non"}
         \/ boucle' = [boucle EXCEPT !.vue = qualite.generation, !.configure = "non"]
         \/ boucle' = [boucle EXCEPT !.plafond = qualite.plafond, !.configure = "debit"]
         \/ /\ boucle.configure = "debit"
            /\ boucle' = [boucle EXCEPT !.profil = qualite.profil, !.configure = "oui"]
  PROVE  QualiteInd'
<1>1. /\ qualite \in [profil : Qualites, plafond : Qualites, generation : Nat]
      /\ boucle \in [configure : {"non", "debit", "oui"}, vue : Nat, profil : Qualites,
                 plafond : Qualites, courant : Cadres \cap (CadresAcceptes \cup {Defaut}),
                 rejet : BOOLEAN, muxeur : FichiersPossibles \cup {Aucun}, images : {0, 1}]
  BY DEF FluxInd, TypesFlux
<1>2. boucle.vue <= qualite.generation /\ Lue
  BY DEF QualiteInd
<1>3. boucle'.vue <= qualite'.generation /\ Lue'
  <2>1. CASE boucle' = BoucleInitiale
    BY <1>1, <2>1 DEF BoucleInitiale, Lue
  <2>2. CASE /\ boucle'.vue = boucle.vue
             /\ boucle'.plafond = boucle.plafond /\ boucle'.profil = boucle.profil
             /\ boucle'.configure \in {boucle.configure, "non"}
    BY <1>2, <2>2 DEF Lue, Ecrites
  <2>3. CASE boucle' = [boucle EXCEPT !.vue = qualite.generation, !.configure = "non"]
    BY <1>1, <2>3 DEF Lue
  <2>4. CASE boucle' = [boucle EXCEPT !.plafond = qualite.plafond, !.configure = "debit"]
    BY <1>1, <1>2, <2>4 DEF Lue
  <2>5. CASE /\ boucle.configure = "debit"
             /\ boucle' = [boucle EXCEPT !.profil = qualite.profil, !.configure = "oui"]
    BY <1>1, <1>2, <2>5 DEF Lue, Ecrites
  <2> QED
    BY <2>1, <2>2, <2>3, <2>4, <2>5
<1> QED
  BY <1>3 DEF QualiteInd, Stockee

\* Every step of the session preserves it.
LEMMA QualitePas ==
  ASSUME SessionInd, [Next]_vars, QualiteInd
  PROVE  QualiteInd'
<1>1. SUFFICES ASSUME usage = "qualite" PROVE QualiteInd'
  BY UsageFixe DEF QualiteInd
<1> DEFINE u == "qualite"
           S == TramesFlux(u) \cup PermsDe(u)
           C == OrdresFlux(u) \cup MajDe(u)
<1>2. FluxInd(u) /\ usage' = usage /\ (NextFlux \/ UNCHANGED <<lien, varsFlux>>)
  BY <1>1, UsageFixe, PasDeLUsage DEF SessionInd, HoteInd, UsagesFlux
<1>3. /\ canal \in [Cotes -> Seq(S)] /\ commandes \in [Cotes -> Seq(C)]
      /\ \A k \in C : k.type = "Regler" => k.valeur \in Qualites
      /\ \A t \in S : t.type = "Reglage" => t.valeur \in Qualites
  BY <1>2, FluxEnsembles DEF FluxInd, LienInd, UsagesFlux, ValeursDe
<1> HIDE DEF S, C
<1>4. ASSUME NEW c \in Cotes, NEW v \in Valeurs, DemanderFlux(c, v) PROVE QualiteInd'
  BY <1>2, <1>4, QualiteStable DEF DemanderFlux, partage
<1>5. ASSUME NEW c \in Cotes, ExecuterReglage(c) PROVE QualiteInd'
  <2>1. PICK v : v = Commande(c).valeur
    OBVIOUS
  <2>2. v \in Qualites
    BY <1>3, <1>5, <2>1, PrendreType DEF ExecuterReglage
  <2>3. UNCHANGED <<usage, boucle, qualite>>
    BY <1>5 DEF ExecuterReglage
  <2>4. CASE c = "Controlled"
    <3>1. Stocker("emetteur", v) /\ ecritures["emetteur"] = <<>>
      BY <1>5, <2>1, <2>4 DEF ExecuterReglage
    <3> QED
      BY <1>1, <1>2, <2>2, <2>3, <3>1, QualiteStocker DEF FilsHote
  <2>5. CASE c # "Controlled"
    <3>1. UNCHANGED <<ecritures, reglage, croisee>>
      BY <1>5, <2>5 DEF ExecuterReglage
    <3> QED
      BY <2>3, <3>1, QualiteStable
  <2> QED
    BY <2>4, <2>5
<1>6. CASE RecevoirReglage
  <2>1. PICK v : v = Trame("Controlled").valeur
    OBVIOUS
  <2>2. v \in Qualites
    BY <1>3, <1>6, <2>1, RecevoirType DEF RecevoirReglage, Cotes
  <2>3. /\ UNCHANGED <<usage, boucle, qualite>> /\ ecritures["recepteur"] = <<>>
        /\ Stocker("recepteur", v)
    BY <1>1, <1>6, <2>1 DEF RecevoirReglage
  <2> QED
    BY <1>1, <1>2, <2>2, <2>3, QualiteStocker DEF FilsHote
<1>7. CASE RecevoirAnnonce
  BY <1>7, QualiteStable DEF RecevoirAnnonce
<1>8. ASSUME NEW f \in FilsHote, Ecriture(f) PROVE QualiteInd'
  BY <1>1, <1>2, <1>8, QualiteEcriture
<1>9. CASE usage = "confidentialite" /\ Annoncer
  BY <1>1, <1>9
<1>10. CASE Boucle
  <2>1. UNCHANGED <<usage, qualite, ecritures, reglage>>
    BY <1>10 DEF Boucle, AppliquerCadre, AnnulerCadre, VoirGeneration, Configurer,
       AchevConfiguration, Enregistrer, Filmer, Tourner, lien
  <2>c. croisee' \/ ~croisee
    <3>1. CASE AnnulerCadre
      <4>1. croisee' = (croisee \/ cadre \in CadresAcceptes)
        BY <3>1, Zenon DEF AnnulerCadre
      <4> QED
        BY <4>1, Zenon
    <3>2. CASE ~AnnulerCadre
      <4>1. croisee' = croisee
        BY <1>10, <3>2 DEF Boucle, AppliquerCadre, VoirGeneration, Configurer,
           AchevConfiguration, Enregistrer, Filmer
      <4> QED
        BY <4>1, Zenon
    <3> QED
      BY <3>1, <3>2
  <2>2. boucle \in [configure : {"non", "debit", "oui"}, vue : Nat, profil : Qualites,
                 plafond : Qualites, courant : Cadres \cap (CadresAcceptes \cup {Defaut}),
                 rejet : BOOLEAN, muxeur : FichiersPossibles \cup {Aucun}, images : {0, 1}]
    BY <1>2 DEF FluxInd, TypesFlux
  <2>3. CASE VoirGeneration \/ Configurer \/ AchevConfiguration
    BY <1>1, <1>2, <2>1, <2>c, <2>3, QualiteBoucle
       DEF VoirGeneration, Configurer, AchevConfiguration, Tourner
  <2>4. CASE AppliquerCadre \/ AnnulerCadre \/ Enregistrer \/ Filmer
    <3>1. /\ boucle'.vue = boucle.vue
          /\ boucle'.plafond = boucle.plafond /\ boucle'.profil = boucle.profil
          /\ boucle'.configure \in {boucle.configure, "non"}
      BY <2>2, <2>4 DEF AppliquerCadre, AnnulerCadre, Enregistrer, Filmer, Tourner
    <3> QED
      BY <1>1, <1>2, <2>1, <2>c, <3>1, QualiteBoucle
  <2> QED
    BY <1>10, <2>3, <2>4 DEF Boucle
<1>11. CASE ReprendreFlux
  BY <1>2, <1>11, QualiteStable DEF ReprendreFlux
<1>12. ASSUME NEW c \in Cotes, NEW erreur \in BOOLEAN, FinFlux(c, erreur) PROVE QualiteInd'
  <2>1. UNCHANGED <<usage, qualite, ecritures, reglage, croisee>>
    BY <1>2, <1>12 DEF FinFlux, partage
  <2>2. boucle' = BoucleInitiale \/ boucle' = boucle
    BY <1>12 DEF FinFlux
  <2>3. CASE boucle' = boucle
    BY <2>1, <2>3, QualiteStable
  <2>4. CASE boucle' = BoucleInitiale
    <3>1. \/ boucle' = BoucleInitiale
      BY <2>4
    <3> QED
      BY <1>1, <1>2, <2>1, <3>1, QualiteBoucle
  <2> QED
    BY <2>2, <2>3, <2>4
<1>13. CASE UNCHANGED varsFlux
  BY <1>2, <1>13, QualiteStable DEF varsFlux
<1> QED
  BY <1>2, <1>4, <1>5, <1>6, <1>7, <1>8, <1>9, <1>10, <1>11, <1>12, <1>13 DEF NextFlux, FilsFlux

\* Once the stores are made and the loop has seen the last generation and configured the
\* encoder, it streams with the profile and the cap that are stored, and these are those of
\* the last preset unless two threads stored at the same time (appliquer_qualite,
\* run_streaming_pilote).
THEOREM QualiteToujoursAppliquee ==
  Spec => [](usage = "qualite" /\ Ecrites
               /\ boucle.vue = qualite.generation /\ boucle.configure = "oui" =>
               /\ boucle.profil = qualite.profil /\ boucle.plafond = qualite.plafond
               /\ reglage # Aucun /\ ~croisee =>
                    boucle.profil = reglage /\ boucle.plafond = reglage)
<1>1. Init => QualiteInd
  <2> SUFFICES ASSUME Init, usage = "qualite" PROVE QualiteInd
    BY DEF QualiteInd
  <2>1. /\ boucle.vue = 0 /\ qualite.generation = 0 /\ boucle.configure = "non" /\ reglage = Aucun
        /\ \A f \in FilsHote : ecritures[f] = <<>>
    BY DEF Init, InitFlux, BoucleInitiale
  <2>2. \A f \in FilsHote : ecritures[f] = Suite(3, Defaut)
    BY <2>1 DEF Suite
  <2>3. \A f \in FilsHote : \E n \in 0..3, v \in Qualites : ecritures[f] = Suite(n, v)
    BY <2>2, FluxAssumption
  <2> QED
    BY <2>1, <2>3 DEF QualiteInd, Lue
<1>2. SessionInd /\ QualiteInd /\ [Next]_vars => QualiteInd'
  BY QualitePas
<1>3. QualiteInd =>
        (usage = "qualite" /\ Ecrites
           /\ boucle.vue = qualite.generation /\ boucle.configure = "oui" =>
           /\ boucle.profil = qualite.profil /\ boucle.plafond = qualite.plafond
           /\ reglage # Aucun /\ ~croisee =>
                boucle.profil = reglage /\ boucle.plafond = reglage)
  <2> SUFFICES ASSUME QualiteInd, usage = "qualite", Ecrites,
                      boucle.vue = qualite.generation, boucle.configure = "oui"
               PROVE  /\ boucle.profil = qualite.profil /\ boucle.plafond = qualite.plafond
                      /\ reglage # Aucun /\ ~croisee =>
                           boucle.profil = reglage /\ boucle.plafond = reglage
    OBVIOUS
  <2>1. boucle.profil = qualite.profil /\ boucle.plafond = qualite.plafond
    BY DEF QualiteInd, Lue
  <2>2. ASSUME reglage # Aucun, ~croisee
        PROVE  qualite.profil = reglage /\ qualite.plafond = reglage
    <3>1. PICK f \in FilsHote, n \in 0..3 : Stockee(f, n)
      BY <2>2 DEF QualiteInd
    <3>2. n = 3
      BY <3>1, SuiteSuivante DEF Stockee, Ecrites
    <3> QED
      BY <3>1, <3>2 DEF Stockee
  <2> QED
    BY <2>1, <2>2
<1> QED
  BY <1>1, <1>2, <1>3, SessionToujours, PTL DEF Spec

-----------------------------------------------------------------------------
\* A frame that the back-end accepts stays the one that is stored, unless it came while a
\* former one was being undone.
CadreInd ==
  usage = "cadre" /\ reglage # Aucun /\ reglage \in CadresAcceptes /\ ~croisee => cadre = reglage

\* A step that leaves the request and the stored frame as they are.
LEMMA CadreStable ==
  ASSUME CadreInd, UNCHANGED <<usage, cadre, reglage, croisee>>
  PROVE  CadreInd'
BY DEF CadreInd

\* Every step of the session preserves it.
LEMMA CadrePas ==
  ASSUME SessionInd, [Next]_vars, CadreInd
  PROVE  CadreInd'
<1>1. SUFFICES ASSUME usage = "cadre" PROVE CadreInd'
  BY UsageFixe DEF CadreInd
<1>2. usage' = usage /\ (NextFlux \/ UNCHANGED <<lien, varsFlux>>)
  BY <1>1, UsageFixe, PasDeLUsage DEF UsagesFlux
<1>3. ASSUME NEW f \in FilsHote, NEW v, Stocker(f, v) PROVE CadreInd'
  BY <1>1, <1>3 DEF Stocker, CadreInd
<1>4. ASSUME NEW c \in Cotes, NEW v \in Valeurs, DemanderFlux(c, v) PROVE CadreInd'
  BY <1>2, <1>4, CadreStable DEF DemanderFlux, partage
<1>5. ASSUME NEW c \in Cotes, ExecuterReglage(c) PROVE CadreInd'
  <2>1. CASE c = "Controlled"
    BY <1>3, <1>5, <2>1 DEF ExecuterReglage, FilsHote
  <2>2. CASE c # "Controlled"
    BY <1>2, <1>5, <2>2, CadreStable DEF ExecuterReglage
  <2> QED
    BY <2>1, <2>2
<1>6. CASE RecevoirReglage
  BY <1>1, <1>3, <1>6 DEF RecevoirReglage, FilsHote
<1>7. CASE RecevoirAnnonce
  BY <1>2, <1>7, CadreStable DEF RecevoirAnnonce
<1>8. ASSUME NEW f \in FilsHote, Ecriture(f) PROVE CadreInd'
  BY <1>2, <1>8, CadreStable DEF Ecriture
<1>9. CASE usage = "confidentialite" /\ Annoncer
  BY <1>1, <1>9
<1>10. CASE Boucle
  <2>1. UNCHANGED <<usage, reglage>>
    BY <1>10 DEF Boucle, AppliquerCadre, AnnulerCadre, VoirGeneration, Configurer,
       AchevConfiguration, Enregistrer, Filmer, Tourner, lien
  <2>2. CASE AnnulerCadre
    <3>1. croisee' = (croisee \/ cadre \in CadresAcceptes)
      BY <2>2, Zenon DEF AnnulerCadre
    <3>2. ASSUME reglage # Aucun, reglage \in CadresAcceptes, ~croisee' PROVE FALSE
      <4>1. ~croisee /\ cadre \notin CadresAcceptes
        BY <3>1, <3>2, Zenon
      <4> QED
        BY <1>1, <3>2, <4>1 DEF CadreInd
    <3> QED
      BY <2>1, <3>2 DEF CadreInd
  <2>3. CASE ~AnnulerCadre
    BY <1>10, <2>1, <2>3, CadreStable DEF Boucle, AppliquerCadre, VoirGeneration, Configurer,
       AchevConfiguration, Enregistrer, Filmer
  <2> QED
    BY <2>2, <2>3
<1>11. CASE ReprendreFlux
  BY <1>2, <1>11, CadreStable DEF ReprendreFlux
<1>12. ASSUME NEW c \in Cotes, NEW erreur \in BOOLEAN, FinFlux(c, erreur) PROVE CadreInd'
  BY <1>2, <1>12, CadreStable DEF FinFlux, partage
<1>13. CASE UNCHANGED varsFlux
  BY <1>2, <1>13, CadreStable DEF varsFlux
<1> QED
  BY <1>2, <1>4, <1>5, <1>6, <1>7, <1>8, <1>9, <1>10, <1>11, <1>12, <1>13 DEF NextFlux, FilsFlux

\* Once the loop streams the frame that is stored, that is the last one asked for when the
\* back-end accepts it, in a new epoch too, unless it came while a former one was being undone
\* (set_region, switch_monitor).
THEOREM CadreToujoursApplique ==
  Spec => [](usage = "cadre" /\ cadre = boucle.courant
               /\ reglage # Aucun /\ reglage \in CadresAcceptes /\ ~croisee
             => boucle.courant = reglage)
<1>1. Init => CadreInd
  BY DEF Init, InitFlux, CadreInd
<1>2. SessionInd /\ CadreInd /\ [Next]_vars => CadreInd'
  BY CadrePas
<1>3. CadreInd => (usage = "cadre" /\ cadre = boucle.courant
                     /\ reglage # Aucun /\ reglage \in CadresAcceptes /\ ~croisee
                   => boucle.courant = reglage)
  BY DEF CadreInd
<1> QED
  BY <1>1, <1>2, <1>3, SessionToujours, PTL DEF Spec

=============================================================================
