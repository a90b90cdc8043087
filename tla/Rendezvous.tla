----------------------------- MODULE Rendezvous -----------------------------
(***************************************************************************)
(* Meeting through the rendezvous server (nd-signaling, nd-core p2p): the  *)
(* host keeps its presence alive, publishes a fresh socket and polls the   *)
(* demands; a caller resolves it, leaves a demand and takes the candidates *)
(* in exchange; then both punch at the same time, and fall back to a relay *)
(* or try again when the punch fails.                                      *)
(*                                                                         *)
(* A socket is the rank of the attempt it was opened for.  The probes of a *)
(* punch are sent again all along it: those on their way are the pairs of  *)
(* sockets punching towards each other, and none outlives its punch.       *)
(***************************************************************************)
EXTENDS Bancs, FiniteSetsExt

CONSTANTS
  Appelants,        \* the peers that call the host
  Reglages,         \* the NAT of the host, a relay or none, the callers it admits
  MaxDemandesCible, \* MAX_DEMANDES_PAR_CIBLE
  MaxTours,         \* bound: the sockets the host opens
  MaxEssais,        \* the attempts of a caller before its deadline
  MaxPannes         \* bound: late heartbeats and restarts of the server

ASSUME RendezvousAssumption ==
  /\ Reglages \subseteq [restreint : BOOLEAN, relais : BOOLEAN, admis : SUBSET Appelants]
  /\ MaxDemandesCible \in Nat \ {0}
  /\ MaxTours \in Nat /\ MaxEssais \in Nat /\ MaxPannes \in Nat

VARIABLES
  reglage,    \* fixed: the NAT, the relay, the callers admitted
  presence,   \* Registry::peers, the entry of the host: absent, fresh or stale
  candidats,  \* the socket it published, 0 for none
  demandes,   \* Registry::punches: the file of the host
  hote,       \* what the host does
  hSocket, hDemande, hPair,   \* its socket, the demand served, the confirmed peer
  app,        \* what each caller does
  aSocket, aVise, aPair,      \* its socket, the socket it aims at, the confirmed one
  accuses,    \* the acknowledgements on their way
  pannes

varsRv == <<reglage, presence, candidats, demandes, hote, hSocket, hDemande, hPair,
            app, aSocket, aVise, aPair, accuses, pannes>>
serveur == <<presence, candidats, demandes>>
varsHote == <<hote, hSocket, hDemande, hPair>>
varsApp == <<app, aSocket, aVise, aPair>>

Demande(a, n) == [de |-> a, socket |-> n, fraiche |-> TRUE]
PasDeDemande == [de |-> "personne", socket |-> 0, fraiche |-> FALSE]

InitRv ==
  /\ reglage \in Sur({"rendezvous"}, Reglages)
  /\ presence = "absent" /\ candidats = 0 /\ demandes = <<>>
  /\ hote = "inscrire" /\ hSocket = 0 /\ hDemande = PasDeDemande /\ hPair = PasDeDemande
  /\ app = [a \in Appelants |-> "resoudre"]
  /\ aSocket = [a \in Appelants |-> 0]
  /\ aVise = [a \in Appelants |-> 0] /\ aPair = [a \in Appelants |-> 0]
  /\ accuses = {} /\ pannes = 0

-----------------------------------------------------------------------------
(* The server. *)

EnLigne == presence = "frais"

\* The host is late, the sweeper runs, the server restarts, a demand outlives PUNCH_TTL:
\* much longer than a punch, its caller left the socket since.
Perimer ==
  /\ EnLigne /\ pannes < MaxPannes
  /\ presence' = "perime" /\ pannes' = pannes + 1
  /\ UNCHANGED <<reglage, candidats, demandes, varsHote, varsApp, accuses>>
Balayer_ ==
  /\ presence = "perime"
  /\ presence' = "absent" /\ candidats' = 0 /\ demandes' = <<>>
  /\ UNCHANGED <<reglage, varsHote, varsApp, accuses, pannes>>
Redemarrer ==
  /\ presence # "absent" /\ pannes < MaxPannes
  /\ presence' = "absent" /\ candidats' = 0 /\ demandes' = <<>> /\ pannes' = pannes + 1
  /\ UNCHANGED <<reglage, varsHote, varsApp, accuses>>
Vieillir ==
  /\ \E i \in DOMAIN demandes :
       LET d == demandes[i] IN
       /\ d.fraiche /\ ~(app[d.de] = "percer" /\ aSocket[d.de] = d.socket)
       /\ \A j \in 1..(i - 1) : ~demandes[j].fraiche
       /\ demandes' = [demandes EXCEPT ![i].fraiche = FALSE]
  /\ UNCHANGED <<reglage, presence, candidats, varsHote, varsApp, accuses, pannes>>

-----------------------------------------------------------------------------
(* The host: accepter_par_rendezvous and await_p2p. *)

HoteVa(etape) == hote' = etape /\ UNCHANGED <<hSocket, hDemande, hPair>>

\* Registry::insert: the candidates of the former entry are dropped, its demands stay.
\* Once before the loop, then in it when the heartbeat finds no entry.
Inscrire ==
  /\ hote \in {"inscrire", "reinscrire"}
  /\ presence' = "frais" /\ candidats' = 0
  /\ HoteVa(IF hote = "inscrire" THEN "battre" ELSE "publier")
  /\ UNCHANGED <<reglage, demandes, varsApp, accuses, pannes>>

\* heartbeat: touch revives a stale entry the sweeper has not removed.
Battre ==
  /\ hote = "battre"
  /\ IF presence = "absent" THEN HoteVa("reinscrire") /\ UNCHANGED presence
     ELSE HoteVa("publier") /\ presence' = "frais"
  /\ UNCHANGED <<reglage, candidats, demandes, varsApp, accuses, pannes>>

\* await_p2p: a fresh socket and its candidates; an error ends the waiting.
Publier ==
  /\ hote = "publier" /\ hSocket < MaxTours
  /\ hSocket' = hSocket + 1
  /\ IF EnLigne THEN hote' = "relever" /\ candidats' = hSocket'
     ELSE hote' = "battre" /\ UNCHANGED candidats
  /\ accuses' = {x \in accuses : x.vers = "appelant"}
  /\ UNCHANGED <<reglage, presence, demandes, hDemande, hPair, varsApp, pannes>>

\* poll_punch: the file is emptied, its first fresh demand is served, the others are
\* lost.  Nothing after FENETRE_AWAIT, or an entry gone stale: the next turn.
Fraiches == SelectSeq(demandes, LAMBDA d : d.fraiche)
Relever ==
  /\ hote = "relever" /\ EnLigne /\ Fraiches # <<>>
  /\ hDemande' = Head(Fraiches) /\ demandes' = <<>>
  /\ hote' = "percer"
  /\ UNCHANGED <<reglage, presence, candidats, hSocket, hPair, varsApp, accuses, pannes>>
RienRelever ==
  /\ hote = "relever" /\ (~EnLigne \/ Fraiches = <<>>)
  /\ demandes' = IF EnLigne THEN <<>> ELSE demandes
  /\ HoteVa("battre")
  /\ UNCHANGED <<reglage, presence, candidats, varsApp, accuses, pannes>>

-----------------------------------------------------------------------------
(* The punch.  A restricted NAT lets a packet in only from where one went. *)

HoteRecoit(a) ==
  /\ hote = "percer" /\ app[a] = "percer" /\ aVise[a] = hSocket
  /\ ~reglage.restreint \/ (hDemande.socket = aSocket[a] /\ hDemande.de = a)
AppelantRecoit(a) ==
  /\ hote = "percer" /\ app[a] = "percer"
  /\ hDemande.de = a /\ hDemande.socket = aSocket[a]
  /\ ~reglage.restreint \/ aVise[a] = hSocket

Accuse(vers, a, h) == [vers |-> vers, de |-> a, socket |-> aSocket[a], avec |-> h]
HoteAccuse(a) == hote = "percer" /\ Accuse("hote", a, hSocket) \in accuses
AppelantAccuse(a) == app[a] = "percer" /\ Accuse("appelant", a, aVise[a]) \in accuses

\* The first packet of the other role confirms the path; it is acknowledged, and the
\* socket sends ACKS_FINAUX more acknowledgements: one of them arrives.
AccuserRien(vers, a, h) == accuses
Accuser(vers, a, h) == accuses \cup {Accuse(vers, a, h)}

RecevoirHote(a) ==
  /\ HoteRecoit(a) \/ HoteAccuse(a)
  /\ hPair' = Demande(a, aSocket[a])
  /\ hote' = IF hDemande.de \in reglage.admis THEN "direct" ELSE "battre"
  /\ accuses' = Accuser("appelant", a, hSocket)
  /\ UNCHANGED <<reglage, serveur, hSocket, hDemande, varsApp, pannes>>
RecevoirAppelant(a) ==
  /\ AppelantRecoit(a) \/ AppelantAccuse(a)
  /\ app' = [app EXCEPT ![a] = "direct"]
  /\ aPair' = [aPair EXCEPT ![a] = IF AppelantRecoit(a) THEN hSocket ELSE aVise[a]]
  /\ accuses' = Accuser("hote", a, aPair'[a])
  /\ UNCHANGED <<reglage, serveur, varsHote, aSocket, aVise, pannes>>

\* DEFAULT_PUNCH_TIMEOUT is long against the salvoes: it does not pass while a packet
\* can get through.
Passe(a) == HoteRecoit(a) \/ HoteAccuse(a) \/ AppelantRecoit(a) \/ AppelantAccuse(a)

EchouerHote ==
  /\ hote = "percer" /\ \A a \in Appelants : ~Passe(a)
  /\ HoteVa(IF hDemande.de \in reglage.admis /\ reglage.relais THEN "relais" ELSE "battre")
  /\ UNCHANGED <<reglage, serveur, varsApp, accuses, pannes>>
EchouerAppelant(a) ==
  /\ app[a] = "percer" /\ ~Passe(a)
  /\ app' = [app EXCEPT ![a] = IF reglage.relais THEN "relais" ELSE "resoudre"]
  /\ UNCHANGED <<reglage, serveur, varsHote, aSocket, aVise, aPair, accuses, pannes>>

-----------------------------------------------------------------------------
(* A caller: connecter_par_rendezvous and establish_p2p. *)

AppelantVa(a, etape) == app' = [app EXCEPT ![a] = etape]

Resoudre(a) ==
  /\ app[a] = "resoudre"
  /\ IF aSocket[a] >= MaxEssais THEN AppelantVa(a, "fini") /\ UNCHANGED aSocket
     ELSE /\ aSocket' = [aSocket EXCEPT ![a] = @ + 1]
          /\ AppelantVa(a, IF EnLigne THEN "demander" ELSE "resoudre")
  /\ accuses' = {x \in accuses : x.vers = "hote" \/ x.de # a}
  /\ UNCHANGED <<reglage, serveur, varsHote, aVise, aPair, pannes>>

\* Request::Punch: the candidates of the target are read, then the demand is left under
\* another lock, its outcome ignored, whether or not there are candidates.
Demander(a) ==
  /\ app[a] = "demander"
  /\ IF EnLigne THEN AppelantVa(a, "deposer") /\ aVise' = [aVise EXCEPT ![a] = candidats]
     ELSE AppelantVa(a, "resoudre") /\ UNCHANGED aVise
  /\ UNCHANGED <<reglage, serveur, varsHote, aSocket, aPair, accuses, pannes>>
Deposer_(a) ==
  LET pleine == Len(demandes) >= MaxDemandesCible IN
  /\ app[a] = "deposer"
  /\ demandes' = IF ~EnLigne THEN demandes
                 ELSE Append(IF pleine THEN Tail(demandes) ELSE demandes,
                             Demande(a, aSocket[a]))
  /\ AppelantVa(a, IF aVise[a] = 0 THEN "resoudre" ELSE "percer")
  /\ UNCHANGED <<reglage, presence, candidats, varsHote, aSocket, aVise, aPair, accuses,
                 pannes>>

PasHote == Inscrire \/ Battre \/ Publier \/ Relever \/ RienRelever \/ EchouerHote
PasAppelant(a) == Resoudre(a) \/ Demander(a) \/ Deposer_(a) \/ EchouerAppelant(a)

NextRv ==
  /\ banc = "rendezvous"
  /\ \/ PasHote \/ Perimer \/ Balayer_ \/ Redemarrer \/ Vieillir
     \/ \E a \in Appelants : PasAppelant(a) \/ RecevoirHote(a) \/ RecevoirAppelant(a)
  /\ UNCHANGED bancs

TypeRv ==
  /\ presence \in {"absent", "frais", "perime"} /\ candidats \in 0..hSocket
  /\ Len(demandes) <= MaxDemandesCible
  /\ hote \in {"inscrire", "reinscrire", "battre", "publier", "relever", "percer",
              "direct", "relais"}
  /\ hSocket \in 0..MaxTours
  /\ app \in [Appelants -> {"resoudre", "demander", "deposer", "percer", "direct",
                            "relais", "fini"}]
  /\ aSocket \in [Appelants -> 0..MaxEssais]
  /\ aVise \in [Appelants -> 0..MaxTours] /\ aPair \in [Appelants -> 0..MaxTours]

\* A packet that can get through arrives: it is sent again every INTERVALLE_SONDES.
FairRv ==
  \A a \in Appelants :
    /\ WF_varsRv(banc = "rendezvous" /\ RecevoirHote(a))
    /\ WF_varsRv(banc = "rendezvous" /\ RecevoirAppelant(a))

(***************************************************************************)
(* Two ends that punch at the same time end on one path: once a caller aims*)
(* at the socket on which the host punches, and the NAT of the host lets it*)
(* in (it is open, or the host aims at this caller), the host and a caller *)
(* confirm each other's sockets, whatever the other callers do, whichever  *)
(* packet arrives first (udp_hole_punch and its acknowledgements).         *)
(***************************************************************************)
CheminCommun ==
  hote = "direct" /\ \E b \in Appelants :
    app[b] = "direct" /\ aPair[b] = hSocket /\ hPair = Demande(b, aSocket[b])
PercementAboutit ==
  (/\ banc = "rendezvous" /\ hDemande.de \in reglage.admis
   /\ \E a \in Appelants : HoteRecoit(a))
  ~> CheminCommun
=============================================================================
