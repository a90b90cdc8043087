------------------------------- MODULE Tunnels -------------------------------
(***************************************************************************)
(* TCP tunnels through a session.  A connection accepted at the controller *)
(* gets an identifier; the host opens the target; at each side a bridge    *)
(* (`pont`) takes what comes from the session to the real connection, and  *)
(* a reading thread sends what the real connection gives.  The state lasts *)
(* as long as the session, over its epochs.                                *)
(*                                                                         *)
(* Bytes are counted in blocks: <<k, n>> is the n-th block read from the   *)
(* real connection k at one of its two ends.                               *)
(***************************************************************************)
EXTENDS SessionEtendue, FiniteSets

CONSTANTS
  MaxConnexions,   \* connections accepted by the controller (bound)
  MaxSimultanees,  \* of which it has bridges at the same time (bound)
  MaxBlocs,        \* blocks read at an end of a connection (bound)
  MaxActes         \* connections and blocks together (bound)

ASSUME TunnelsAssumption ==
  MaxConnexions \in Nat /\ MaxSimultanees \in Nat /\ MaxBlocs \in Nat /\ MaxActes \in Nat

VARIABLES
  prochain,        \* EtatTunnels::prochain_id
  connexions,      \* connections accepted so far
  enCours,         \* accepted, the bridge of the controller is not there yet
  idDe,            \* identifier of each connection
  ponts,           \* EtatTunnels::ponts of each side: the connection under each id, 0 if none
  lecteurs,        \* connections whose reading thread runs, at each side
  joints,          \* connections whose real flow is there, at each side
  clos,            \* connections whose bridge is shut, at each side
  sortie,          \* EtatTunnels::sortie of each side
  lus,             \* blocks read
  recus,           \* blocks written to the bridges
  devancees        \* auxiliary: the host answered before the bridge was there

varsT == <<prochain, connexions, enCours, idDe, ponts, lecteurs, joints, clos, sortie, lus,
           recus, devancees>>
identifiants == <<prochain, connexions, idDe>>

Connexions == 1..MaxConnexions

InitT ==
  /\ prochain = 1 /\ connexions = 0 /\ enCours = 0
  /\ idDe = [k \in Connexions |-> 0]
  /\ ponts = [c \in Cotes |-> [i \in Connexions |-> 0]]
  /\ lecteurs = [c \in Cotes |-> {}] /\ joints = [c \in Cotes |-> {}]
  /\ clos = [c \in Cotes |-> {}]
  /\ sortie = [c \in Cotes |-> <<>>]
  /\ lus = [c \in Cotes |-> [k \in Connexions |-> 0]]
  /\ recus = [c \in Cotes |-> [k \in Connexions |-> <<>>]]
  /\ devancees = {}

-----------------------------------------------------------------------------
\* encadrer; the connection and the block are what the bytes stand for.
Encadrer(i, genre, k, n) == [id |-> i, genre |-> genre, connexion |-> k, bloc |-> n]

Empiler(c, t) == sortie' = [sortie EXCEPT ![c] = Append(@, t)]

Actes ==
  connexions + Cardinality({b \in Cotes \X Connexions \X (1..MaxBlocs) :
                              b[3] <= lus[b[1]][b[2]]})

\* Mutated form of ProchainId: the same identifier for all.
PremierId == 1

\* The identifiers of the connections accepted in the lifetime of a session differ.
ProchainId == prochain

\* boucle_accepteur: an identifier, and OUVRIR before any data...
Accepter ==
  /\ usage = "tunnels"
  /\ enCours = 0 /\ connexions < MaxConnexions /\ Actes < MaxActes
  /\ Cardinality(lecteurs["Controller"]) < MaxSimultanees
  /\ connexions' = connexions + 1
  /\ idDe' = [idDe EXCEPT ![connexions + 1] = ProchainId]
  /\ prochain' = prochain + 1
  /\ enCours' = connexions + 1
  /\ Empiler("Controller", Encadrer(ProchainId, "OUVRIR", connexions + 1, 0))
  /\ UNCHANGED lien /\ UNCHANGED <<ponts, lecteurs, joints, clos, lus, recus, devancees>>

\* ... then ponter: the bridge and its reading thread, or FERMER when they cannot be made.
Ponter(echec) ==
  /\ enCours # 0
  /\ enCours' = 0
  /\ IF echec
     THEN /\ Empiler("Controller", Encadrer(idDe[enCours], "FERMER", enCours, 0))
          /\ UNCHANGED <<ponts, lecteurs, joints>>
     ELSE /\ ponts' = [ponts EXCEPT !["Controller"][idDe[enCours]] = enCours]
          /\ lecteurs' = [lecteurs EXCEPT !["Controller"] = @ \cup {enCours}]
          /\ joints' = [joints EXCEPT !["Controller"] = @ \cup {enCours}]
          /\ UNCHANGED sortie
  /\ UNCHANGED lien /\ UNCHANGED identifiants /\ UNCHANGED <<clos, lus, recus, devancees>>

-----------------------------------------------------------------------------
\* pomper_vers_session: a block of the real connection is on its way to the session...
Lire(c, k) ==
  /\ k \in lecteurs[c] /\ k \in joints[c] /\ k \notin clos[c]
  /\ lus[c][k] < MaxBlocs /\ Actes < MaxActes
  /\ lus' = [lus EXCEPT ![c][k] = @ + 1]
  /\ Empiler(c, Encadrer(idDe[k], "DONNEES", k, lus[c][k] + 1))
  /\ UNCHANGED lien /\ UNCHANGED identifiants
  /\ UNCHANGED <<enCours, ponts, lecteurs, joints, clos, recus, devancees>>

\* ... and its end is FERMER; the thread ends and forgets the bridge.
FinLecture(c, k) ==
  /\ k \in lecteurs[c] /\ k \in clos[c]
  /\ lecteurs' = [lecteurs EXCEPT ![c] = @ \ {k}]
  /\ ponts' = [ponts EXCEPT ![c][idDe[k]] = 0]
  /\ Empiler(c, Encadrer(idDe[k], "FERMER", k, 0))
  /\ UNCHANGED lien /\ UNCHANGED identifiants
  /\ UNCHANGED <<enCours, joints, clos, lus, recus, devancees>>

\* The real connection ends, or ends its half: the bridge sees the same end of file.
FinReelle(c, k) ==
  /\ k \in joints[c] /\ k \notin clos[c]
  /\ clos' = [clos EXCEPT ![c] = @ \cup {k}]
  /\ UNCHANGED lien /\ UNCHANGED identifiants
  /\ UNCHANGED <<enCours, ponts, lecteurs, joints, sortie, lus, recus, devancees>>

\* nd-tunnel-connect: the target answers...
Joindre(k) ==
  /\ k \in lecteurs["Controlled"] /\ k \notin joints["Controlled"] /\ k \notin clos["Controlled"]
  /\ joints' = [joints EXCEPT !["Controlled"] = @ \cup {k}]
  /\ UNCHANGED lien /\ UNCHANGED identifiants
  /\ UNCHANGED <<enCours, ponts, lecteurs, clos, sortie, lus, recus, devancees>>

\* ... or not: fermer_pont, and FERMER.
CibleInjoignable(k) ==
  /\ k \in lecteurs["Controlled"] /\ k \notin joints["Controlled"] /\ k \notin clos["Controlled"]
  /\ ponts' = [ponts EXCEPT !["Controlled"][idDe[k]] = 0]
  /\ clos' = [clos EXCEPT !["Controlled"] = @ \cup {k}]
  /\ Empiler("Controlled", Encadrer(idDe[k], "FERMER", k, 0))
  /\ UNCHANGED lien /\ UNCHANGED identifiants
  /\ UNCHANGED <<enCours, lecteurs, joints, lus, recus, devancees>>

-----------------------------------------------------------------------------
\* envoyer_tunnels_en_attente.
EmettreTunnel(c) ==
  /\ c \in fils /\ sortie[c] # <<>>
  /\ Emettre(c, [type |-> "Tunnel", corps |-> Head(sortie[c])])
  /\ sortie' = [sortie EXCEPT ![c] = Tail(@)]
  /\ UNCHANGED <<usage, ouvert, fils, epoque, commandes, droits>> /\ UNCHANGED identifiants
  /\ UNCHANGED <<enCours, ponts, lecteurs, joints, clos, lus, recus, devancees>>

\* Mutated form of Refuser: the controller is not told.
RefuserEnSilence(t) == UNCHANGED <<sortie, ponts, lecteurs>>

\* ouvrir_cote_hote without the permission, or when the bridge cannot be made.
Refuser(t) ==
  /\ Empiler("Controlled", Encadrer(t.id, "FERMER", t.connexion, 0))
  /\ UNCHANGED <<ponts, lecteurs>>

\* ouvrir_cote_hote: the bridge and its reading thread, before the target is reached.
OuvrirHote(t) ==
  /\ ponts' = [ponts EXCEPT !["Controlled"][t.id] = t.connexion]
  /\ lecteurs' = [lecteurs EXCEPT !["Controlled"] = @ \cup {t.connexion}]
  /\ UNCHANGED sortie

\* ecrire_vers_pont: to whichever connection has that identifier.  A write may fail once
\* the other end of the bridge is gone: the bridge is then shut.
Verser(c, t, echec) ==
  LET k == ponts[c][t.id] IN
    IF k = 0
    THEN UNCHANGED <<ponts, clos, recus>>
    ELSE IF echec /\ k \in clos[c]
    THEN /\ ponts' = [ponts EXCEPT ![c][t.id] = 0]
         /\ UNCHANGED <<clos, recus>>
    ELSE /\ recus' = [recus EXCEPT ![c][k] = Append(@, <<t.connexion, t.bloc>>)]
         /\ UNCHANGED <<ponts, clos>>

\* fermer_pont.
FermerPont(c, i) ==
  /\ ponts' = [ponts EXCEPT ![c][i] = 0]
  /\ clos' = IF ponts[c][i] = 0 THEN clos ELSE [clos EXCEPT ![c] = @ \cup {ponts[c][i]}]

\* EtatTunnels::recevoir.  Only OUVRIR looks at the permission.
RecevoirTunnel(c, echec) ==
  /\ Recevoir(c, "Tunnel")
  /\ LET t == Trame(c).corps IN
       /\ CASE t.genre = "OUVRIR" ->
                 /\ IF Autorise("Controlled", "TcpTunnel") /\ ~echec
                    THEN OuvrirHote(t) ELSE Refuser(t)
                 /\ UNCHANGED <<clos, recus>>
            [] t.genre = "DONNEES" -> Verser(c, t, echec) /\ UNCHANGED <<lecteurs, sortie>>
            [] t.genre = "FERMER" -> FermerPont(c, t.id) /\ UNCHANGED <<lecteurs, sortie, recus>>
       /\ devancees' = IF c = "Controller" /\ t.connexion = enCours
                       THEN devancees \cup {enCours} ELSE devancees
  /\ UNCHANGED <<usage, ouvert, fils, epoque, commandes, droits>> /\ UNCHANGED identifiants
  /\ UNCHANGED <<enCours, joints, lus>>

PasT(c) ==
  \/ EmettreTunnel(c) \/ \E echec \in BOOLEAN : RecevoirTunnel(c, echec)
  \/ \E k \in Connexions : FinLecture(c, k)

NextT ==
  /\ usage = "tunnels"
  /\ \/ Accepter \/ \E echec \in BOOLEAN : Ponter(echec)
     \/ \E c \in Cotes : PasT(c) \/ \E k \in Connexions : Lire(c, k) \/ FinReelle(c, k)
     \/ \E k \in Connexions : Joindre(k) \/ CibleInjoignable(k)
     \/ (NextLien \/ NextPermissions) /\ UNCHANGED varsT

\* The threads run, and a connection attempt ends one way or the other.  Nobody has to
\* accept, to write or to close.
FairT ==
  /\ \A c \in Cotes :
       /\ WF_<<lien, varsT>>(usage = "tunnels" /\ EmettreTunnel(c))
       /\ WF_<<lien, varsT>>(usage = "tunnels" /\ \E e \in BOOLEAN : RecevoirTunnel(c, e))
       /\ \A k \in Connexions : WF_<<lien, varsT>>(usage = "tunnels" /\ FinLecture(c, k))
  /\ WF_<<lien, varsT>>(usage = "tunnels" /\ FilsPermissions /\ UNCHANGED varsT)
  /\ WF_<<lien, varsT>>(usage = "tunnels" /\ \E e \in BOOLEAN : Ponter(e))
  /\ \A k \in Connexions :
       WF_<<lien, varsT>>(usage = "tunnels" /\ (Joindre(k) \/ CibleInjoignable(k)))

TypeT ==
  /\ prochain \in 1..(MaxConnexions + 1) /\ connexions \in 0..MaxConnexions
  /\ enCours \in 0..connexions
  /\ ponts \in [Cotes -> [Connexions -> 0..MaxConnexions]]
  /\ \A c \in Cotes : lecteurs[c] \cup joints[c] \cup clos[c] \subseteq 1..connexions
  /\ lus \in [Cotes -> [Connexions -> 0..MaxBlocs]]

-----------------------------------------------------------------------------
\* The connections with a bridge at that side.
Pontees(c) == {ponts[c][i] : i \in Connexions} \ {0}

(***************************************************************************)
(* What an end of a connection receives is what the other end of the same  *)
(* connection has sent, in order, and without a hole unless the link was   *)
(* cut, or the host answered before the bridge of the controller was there.*)
(***************************************************************************)
OctetsEnOrdre ==
  \A c \in Cotes : \A k \in Connexions :
    LET r == recus[c][k] IN
      /\ \A i \in 1..Len(r) : r[i][1] = k /\ r[i][2] <= lus[Autre(c)][k]
      /\ \A i, j \in 1..Len(r) : i < j => r[i][2] < r[j][2]
      /\ epoque = 1 /\ k \notin devancees => \A i \in 1..Len(r) : r[i][2] = i

(***************************************************************************)
(* A connection that is refused, whose target does not answer, or that one *)
(* end closes, ends at both sides: on a link that is not cut, the bridges  *)
(* of the two sides end up the same, unless the answer of the host came    *)
(* before the bridge of the controller was there.                          *)
(***************************************************************************)
TunnelFerme ==
  <>[](usage = "tunnels" /\ epoque = 1 /\ ouvert =>
         \A k \in Connexions \ devancees :
           (k \in Pontees("Controller")) <=> (k \in Pontees("Controlled")))

=============================================================================
