-------------------------- MODULE SessionLifecycle --------------------------
(***************************************************************************)
(* What a session promises to the application that listens on state_rx:    *)
(* the order of the announced SessionState values, one peer for its whole  *)
(* life, numbered epochs, and nothing after Closed.                        *)
(*                                                                         *)
(*   Resolving -> Connecting -> Handshaking -> Active                      *)
(*        (-> Reconnecting -> Handshaking -> Active)* -> Closed            *)
(***************************************************************************)
EXTENDS Naturals

CONSTANTS
  Pairs,    \* the NovaDesk identifiers a peer may have
  Aucun     \* no peer yet, not a member of Pairs (PairsAssumption of SessionEngine)

VARIABLES
  etat,     \* the last SessionState pushed to the application
  pair,     \* the peer of the session, Aucun before the first connection
  epoque    \* the number of connections this session has lived

vars == <<etat, pair, epoque>>

SessionState == {"Idle", "Resolving", "Connecting", "Handshaking", "Active",
                 "Reconnecting", "Closed"}

Init ==
  /\ etat = "Idle"
  /\ pair = Aucun
  /\ epoque = 0

Resolve ==
  /\ etat = "Idle"
  /\ etat' = "Resolving"
  /\ UNCHANGED <<pair, epoque>>

Connect ==
  /\ etat = "Resolving"
  /\ etat' = "Connecting"
  /\ UNCHANGED <<pair, epoque>>

\* The first connection chooses the peer (nobody in particular for a peer that
\* is reached by its address without an identifier).
Open ==
  /\ etat = "Connecting"
  /\ etat' = "Handshaking"
  /\ pair' \in Pairs \cup {Aucun}
  /\ epoque' = 1

\* A reconnection finds the same peer again: the permissions granted are its own.
Resume ==
  /\ etat = "Reconnecting"
  /\ etat' = "Handshaking"
  /\ epoque' = epoque + 1
  /\ UNCHANGED pair

Secure ==
  /\ etat = "Handshaking"
  /\ etat' = "Active"
  /\ UNCHANGED <<pair, epoque>>

Lose ==
  /\ etat \in {"Handshaking", "Active"}
  /\ etat' = "Reconnecting"
  /\ UNCHANGED <<pair, epoque>>

Close ==
  /\ etat \notin {"Idle", "Closed"}
  /\ etat' = "Closed"
  /\ UNCHANGED <<pair, epoque>>

Next ==
  \/ Resolve \/ Connect \/ Open \/ Resume \/ Secure \/ Lose \/ Close

Spec == Init /\ [][Next]_vars

=============================================================================
