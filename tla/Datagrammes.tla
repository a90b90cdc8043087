----------------------------- MODULE Datagrammes -----------------------------
(***************************************************************************)
(* One direction of an encrypted session over QUIC (nd-transport, nd-core):*)
(* the messages are encrypted in the order they are sent, each with the    *)
(* next nonce, and travel either on the reliable stream or as datagrams    *)
(* protected by FEC; two tasks of the receiver merge both sources in one   *)
(* queue, and the messages are decrypted in the order of that queue.       *)
(*                                                                         *)
(* A message is its nonce.  QUIC never delivers a datagram twice but loses *)
(* and reorders them: a fragment never absorbed is a lost one.             *)
(***************************************************************************)
EXTENDS Bancs, FiniteSetsExt

CONSTANTS
  Lots,        \* bound: the fragments a frame is cut in, k of data and m of parity
  MaxTrames,   \* bound: messages sent
  EnVol        \* MAX_TRAMES_EN_VOL: frames being reassembled

ASSUME DatagrammesAssumption ==
  /\ \A l \in Lots : l.k \in Nat /\ l.m \in 1..l.k   \* FecParams::adapt
  /\ MaxTrames \in Nat /\ EnVol \in Nat \ {0}

VARIABLES
  envoyees,   \* the messages sent, in the order of their nonces
  reseau,     \* the fragments on their way
  flux,       \* the nonces on the reliable stream
  trames,     \* Reassembleur::trames: frame |-> its fragments, whether delivered
  ordre,      \* Reassembleur::ordre
  entrante,   \* inbound_rx: the nonces received, in their order of arrival
  nonce,      \* the nonce the receiver decrypts next
  rompu,      \* a message could not be decrypted
  ouvertures, \* auxiliary: frames opened by the reassembler so far
  premiere,   \* auxiliary: the first opening of each frame, 0 before it
  absorbes,   \* auxiliary: the fragments of each frame that arrived
  livraisons  \* auxiliary: how often each frame was delivered

varsD == <<envoyees, reseau, flux, trames, ordre, entrante, nonce, rompu,
           ouvertures, premiere, absorbes, livraisons>>

Nonces == 1..MaxTrames

InitD ==
  /\ envoyees = <<>> /\ reseau = {} /\ flux = <<>>
  /\ trames = <<>> /\ ordre = <<>>
  /\ entrante = <<>> /\ nonce = 1 /\ rompu = FALSE
  /\ ouvertures = 0
  /\ premiere = [n \in Nonces |-> 0]
  /\ absorbes = [n \in Nonces |-> {}]
  /\ livraisons = [n \in Nonces |-> 0]

-----------------------------------------------------------------------------
(* The sender. *)

TropGrande == [k |-> 0, m |-> 0]   \* more than MAX_K fragments, or no datagrams

\* options_flux_hote: an extended session sends everything on the reliable stream.
Reliability == IF mode = "etendu" THEN "Reliable" ELSE "UnreliableFec"

\* EncryptedTransport::send and QuicTransport::send, under the lock of the shared
\* transport: the message takes the next nonce, then its way.
Envoyer(lot) ==
  LET n == Len(envoyees) + 1
      parDatagrammes == Reliability = "UnreliableFec" /\ lot # TropGrande
  IN /\ n <= MaxTrames
     /\ envoyees' = Append(envoyees, lot)
     /\ reseau' = IF parDatagrammes
                  THEN reseau \cup {[n |-> n, index |-> i] : i \in 1..(lot.k + lot.m)}
                  ELSE reseau
     /\ flux' = IF parDatagrammes THEN flux ELSE Append(flux, n)
     /\ UNCHANGED <<trames, ordre, entrante, nonce, rompu, ouvertures, premiere,
                    absorbes, livraisons>>

-----------------------------------------------------------------------------
(* The receiver. *)

\* reader: the stream is ordered.
LireFlux ==
  /\ flux # <<>>
  /\ flux' = Tail(flux)
  /\ entrante' = Append(entrante, Head(flux))
  /\ UNCHANGED <<envoyees, reseau, trames, ordre, nonce, rompu, ouvertures,
                 premiere, absorbes, livraisons>>

Neuve == [fragments |-> {}, livree |-> FALSE]

\* Reassembleur::absorber, a new frame: at saturation the oldest is evicted.
OuvrirSansEvincer(n) ==
  IF n \in DOMAIN trames THEN [t |-> trames, o |-> ordre]
  ELSE [t |-> [x \in DOMAIN trames \cup {n} |-> IF x = n THEN Neuve ELSE trames[x]],
        o |-> Append(ordre, n)]
Ouvrir(n) ==
  IF n \in DOMAIN trames THEN [t |-> trames, o |-> ordre]
  ELSE LET plein == Cardinality(DOMAIN trames) >= EnVol
           reste == IF plein THEN DOMAIN trames \ {Head(ordre)} ELSE DOMAIN trames
       IN [t |-> [x \in reste \cup {n} |-> IF x = n THEN Neuve ELSE trames[x]],
           o |-> Append(IF plein THEN Tail(ordre) ELSE ordre, n)]

\* Whether one more fragment completes a frame: its k-th distinct one does, once.
CompleteEncore(trame, index, k) == Cardinality(trame.fragments \cup {index}) >= k
Complete(trame, index, k) ==
  ~trame.livree /\ Cardinality(trame.fragments \cup {index}) >= k

\* datagram_reader: a frame is delivered by the fragment that completes it.
Absorber(f) ==
  LET ouvert == Ouvrir(f.n)
      trame  == ouvert.t[f.n]
      livre  == Complete(trame, f.index, envoyees[f.n].k)
      neuve  == f.n \notin DOMAIN trames
  IN /\ f \in reseau
     /\ reseau' = reseau \ {f}
     /\ trames' = [ouvert.t EXCEPT ![f.n] =
                     IF livre THEN [fragments |-> {}, livree |-> TRUE]
                     ELSE IF trame.livree THEN trame
                     ELSE [trame EXCEPT !.fragments = @ \cup {f.index}]]
     /\ ordre' = ouvert.o
     /\ entrante' = IF livre THEN Append(entrante, f.n) ELSE entrante
     /\ ouvertures' = IF neuve THEN ouvertures + 1 ELSE ouvertures
     /\ premiere' = IF premiere[f.n] = 0 THEN [premiere EXCEPT ![f.n] = ouvertures']
                    ELSE premiere
     /\ absorbes' = [absorbes EXCEPT ![f.n] = @ \cup {f.index}]
     /\ livraisons' = IF livre THEN [livraisons EXCEPT ![f.n] = @ + 1] ELSE livraisons
     /\ UNCHANGED <<envoyees, flux, nonce, rompu>>

\* poll_recv and EncryptedTransport::poll_recv: only the next nonce decrypts, and
\* a message that does not is an error of the receiving thread, the end of the epoch.
Dechiffrer ==
  /\ entrante # <<>>
  /\ entrante' = Tail(entrante)
  /\ IF Head(entrante) = nonce THEN nonce' = nonce + 1 /\ UNCHANGED rompu
     ELSE rompu' = TRUE /\ UNCHANGED nonce
  /\ UNCHANGED <<envoyees, reseau, flux, trames, ordre, ouvertures, premiere,
                 absorbes, livraisons>>

NextD ==
  /\ banc = "datagrammes" /\ ~rompu
  /\ \/ \E lot \in Lots \cup {TropGrande} : Envoyer(lot)
     \/ LireFlux
     \/ \E f \in reseau : Absorber(f)
     \/ Dechiffrer
  /\ UNCHANGED bancs

-----------------------------------------------------------------------------
TypeD ==
  /\ envoyees \in Seq(Lots \cup {TropGrande})
  /\ reseau \subseteq [n : Nonces, index : Nat \ {0}]
  /\ flux \in Seq(Nonces) /\ entrante \in Seq(Nonces)
  /\ DOMAIN trames = Range(ordre) /\ Len(ordre) = Cardinality(DOMAIN trames)
  /\ Len(ordre) <= EnVol
  /\ nonce \in 1..(MaxTrames + 1) /\ rompu \in BOOLEAN

(***************************************************************************)
(* The promise of Reassembleur::absorber, exactly one delivery per frame:  *)
(* as long as fewer frames than the reassembler can hold were opened since *)
(* its first fragment, a frame has been delivered once if enough of its    *)
(* fragments arrived, in any order, and not at all otherwise.  Beyond that *)
(* its entry may be evicted and its late fragments open it again.          *)
(***************************************************************************)
LivraisonExacte ==
  \A n \in Nonces :
    premiere[n] > 0 /\ ouvertures - premiere[n] < EnVol =>
      livraisons[n] = IF Cardinality(absorbes[n]) >= envoyees[n].k THEN 1 ELSE 0

(***************************************************************************)
(* The comment of EncryptedTransport::send: the order is preserved, hence  *)
(* the counters of the two ends stay synchronised and whatever arrives is  *)
(* decrypted.  True in an extended session, where one stream carries all.  *)
(***************************************************************************)
NonceSynchrone == ~rompu
=============================================================================
