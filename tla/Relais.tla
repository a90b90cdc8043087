------------------------------- MODULE Relais -------------------------------
(***************************************************************************)
(* The relay server (nd-relay): one thread per connection announces its    *)
(* ticket, waits in a table for the second peer of the ticket, and relays  *)
(* both ways until one side ends.  Three things are counted, the places of *)
(* an IP address, the active pairs and the peers waiting, and each must be *)
(* given back on every path.                                               *)
(***************************************************************************)
EXTENDS Bancs, FiniteSetsExt

CONSTANTS
  MaxConnexionsRelais,   \* bound: the connections of a behaviour
  Ips,             \* the addresses they come from
  Tickets,         \* the tickets the authority signed
  Invalide,        \* an announcement that does not verify
  MaxParIp,        \* max_connexions_par_ip
  MaxPaires        \* max_paires_actives

ASSUME RelaisAssumption ==
  /\ MaxParIp \in Nat \ {0} /\ MaxPaires \in Nat \ {0}
  /\ Invalide \notin Tickets /\ MaxConnexionsRelais \in Nat

Connexions == 1..MaxConnexionsRelais

VARIABLES
  conn,       \* what the relay does with each connection
  ip, ticket, \* of each connection
  pair,       \* the other side of a connection being relayed
  sens,       \* the copies, by source: under way or not
  parIp,      \* connexions_par_ip
  paires,     \* paires_actives
  expires,    \* the tickets past their time
  parties     \* the clients that left

varsRel == <<conn, ip, ticket, pair, sens, parIp, paires, expires, parties>>

InitRel ==
  /\ conn = [c \in Connexions |-> "libre"]
  /\ ip = [c \in Connexions |-> CHOOSE i \in Ips : TRUE]
  /\ ticket = [c \in Connexions |-> Invalide]
  /\ pair = [c \in Connexions |-> c]
  /\ sens = [c \in Connexions |-> FALSE]
  /\ parIp = [i \in Ips |-> 0]
  /\ paires = 0 /\ expires = {} /\ parties = {}

-----------------------------------------------------------------------------
Tenues(C) == [i \in Ips |-> Cardinality({c \in C : ip[c] = i})]

\* The connections of C are closed and give their places back (Drop of GardeIp).
FermerEtRendre(C) ==
  /\ conn' = [c \in Connexions |-> IF c \in C THEN "fermee" ELSE conn[c]]
  /\ parIp' = [i \in Ips |-> parIp[i] - Tenues(C)[i]]

\* GardeIp::prendre, before the ticket is read.
Prendre(c, i, t) ==
  /\ conn[c] = "libre" /\ \A d \in 1..(c - 1) : conn[d] # "libre"
  /\ ip' = [ip EXCEPT ![c] = i] /\ ticket' = [ticket EXCEPT ![c] = t]
  /\ IF parIp[i] >= MaxParIp
     THEN conn' = [conn EXCEPT ![c] = "fermee"] /\ UNCHANGED parIp
     ELSE conn' = [conn EXCEPT ![c] = "annonce"] /\ parIp' = [parIp EXCEPT ![i] = @ + 1]
  /\ UNCHANGED <<pair, sens, paires, expires, parties>>

\* lire_ticket and TicketRelais::verifier.
Annoncer_(c) ==
  /\ conn[c] = "annonce"
  /\ IF ticket[c] \in Tickets \ expires
     THEN conn' = [conn EXCEPT ![c] = "verifiee"] /\ UNCHANGED parIp
     ELSE FermerEtRendre({c})
  /\ UNCHANGED <<ip, ticket, pair, sens, paires, expires, parties>>

\* The announcement ends early, or DELAI_ANNONCE passes.
Muette(c) ==
  /\ conn[c] = "annonce"
  /\ FermerEtRendre({c})
  /\ UNCHANGED <<ip, ticket, pair, sens, paires, expires, parties>>

\* purger_attentes_expirees.
PurgerRien(C) == UNCHANGED <<conn, parIp>>
Purger(C) == FermerEtRendre({c \in C : conn[c] = "attente" /\ ticket[c] \in expires})

Balayer == Purger(Connexions) /\ UNCHANGED <<ip, ticket, pair, sens, paires, expires, parties>>

\* Each valid announcement sweeps too, before it pairs.
PurgerAvant(c) ==
  /\ conn[c] = "verifiee"
  /\ LET vaines == {d \in Connexions : conn[d] = "attente" /\ ticket[d] \in expires} IN
       /\ conn' = [d \in Connexions |-> IF d \in vaines THEN "fermee"
                                        ELSE IF d = c THEN "prete" ELSE conn[d]]
       /\ parIp' = [i \in Ips |-> parIp[i] - Tenues(vaines)[i]]
  /\ UNCHANGED <<ip, ticket, pair, sens, paires, expires, parties>>

\* ouvrir_paire, under the lock of the table: the reservation of a pair.
Premiers(c) == {d \in Connexions : conn[d] = "attente" /\ ticket[d] = ticket[c]}
Apparier(c) ==
  /\ conn[c] = "prete"
  /\ \/ /\ Premiers(c) = {}
        /\ conn' = [conn EXCEPT ![c] = "attente"]
        /\ UNCHANGED <<pair, sens, parIp, paires>>
     \/ \E d \in Premiers(c) :
          IF paires < MaxPaires
          THEN /\ paires' = paires + 1
               /\ conn' = [conn EXCEPT ![c] = "relais", ![d] = "relais"]
               /\ pair' = [pair EXCEPT ![c] = d, ![d] = c]
               /\ sens' = [sens EXCEPT ![c] = TRUE, ![d] = TRUE]
               /\ UNCHANGED parIp
          ELSE /\ FermerEtRendre({c})
               /\ UNCHANGED <<pair, sens, paires>>
  /\ UNCHANGED <<ip, ticket, expires, parties>>

\* copier_puis_fermer: the source ended, the destination is gone, the other copy
\* closed both, or the slice would exceed the budget of the pair.
FinSens(c) ==
  /\ conn[c] = "relais" /\ sens[c]
  /\ sens' = [sens EXCEPT ![c] = FALSE]
  /\ UNCHANGED <<conn, ip, ticket, pair, parIp, paires, expires, parties>>

\* Both copies ended: the places of the addresses, then that of the pair.
RendrePlaces(c) ==
  /\ conn[c] = "relais" /\ ~sens[c] /\ ~sens[pair[c]]
  /\ conn' = [conn EXCEPT ![c] = "rendue", ![pair[c]] = "fermee"]
  /\ parIp' = [i \in Ips |-> parIp[i] - Tenues({c, pair[c]})[i]]
  /\ UNCHANGED <<ip, ticket, pair, sens, paires, expires, parties>>

FermerPaire(c) ==
  /\ conn[c] = "rendue"
  /\ conn' = [conn EXCEPT ![c] = "fermee"]
  /\ paires' = paires - 1
  /\ UNCHANGED <<ip, ticket, pair, sens, parIp, expires, parties>>

\* Time passes, a client leaves.
Expirer(t) ==
  /\ t \notin expires /\ expires' = expires \cup {t}
  /\ UNCHANGED <<conn, ip, ticket, pair, sens, parIp, paires, parties>>
Partir(c) ==
  /\ conn[c] \notin {"libre", "fermee"} /\ c \notin parties
  /\ parties' = parties \cup {c}
  /\ UNCHANGED <<conn, ip, ticket, pair, sens, parIp, paires, expires>>

\* The thread of a connection; an end is awaited only where one side is gone.
PasConn(c) ==
  Annoncer_(c) \/ PurgerAvant(c) \/ Apparier(c) \/ RendrePlaces(c) \/ FermerPaire(c)
FinAttendue(c) ==
  ({c, pair[c]} \cap parties # {} \/ ~sens[pair[c]]) /\ FinSens(c)

NextRel ==
  /\ banc = "relais"
  /\ \/ \E c \in Connexions :
          \/ \E i \in Ips, t \in Tickets \cup {Invalide} : Prendre(c, i, t)
          \/ PasConn(c) \/ Muette(c) \/ FinSens(c) \/ Partir(c)
     \/ \E t \in Tickets : Expirer(t)
     \/ Balayer
  /\ UNCHANGED bancs

TypeRel ==
  /\ conn \in [Connexions -> {"libre", "annonce", "verifiee", "prete", "attente",
                              "relais", "rendue", "fermee"}]
  /\ parIp \in [Ips -> 0..MaxParIp] /\ paires \in 0..MaxPaires
  /\ \A c, d \in Connexions :
       conn[c] = "attente" /\ conn[d] = "attente" /\ ticket[c] = ticket[d] => c = d

FairRel ==
  /\ \A c \in Connexions :
       /\ WF_varsRel(banc = "relais" /\ PasConn(c)) /\ WF_varsRel(banc = "relais" /\ Muette(c))
       /\ WF_varsRel(banc = "relais" /\ FinAttendue(c))
  /\ \A t \in Tickets : WF_varsRel(banc = "relais" /\ Expirer(t))
  /\ WF_varsRel(banc = "relais" /\ Balayer)

(***************************************************************************)
(* Whatever the clients did, once they all left the relay holds nothing for*)
(* them: no place of an address, no pair, no waiting peer (the quotas of   *)
(* GardeIp, ouvrir_paire / fermer_paire and the sweep of the waiting peers)*)
(***************************************************************************)
RelaisSeVide ==
  (banc = "relais" /\ \A c \in Connexions : conn[c] = "fermee" \/ c \in parties)
  ~> (/\ \A i \in Ips : parIp[i] = 0
      /\ paires = 0 /\ \A c \in Connexions : conn[c] # "attente")
=============================================================================
