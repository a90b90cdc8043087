-------------------------------- MODULE Reseau --------------------------------
(***************************************************************************)
(* The network below a session (the meeting of the peers, the relay, the   *)
(* datagrams, the transparent reconnection), the servers beside it (the    *)
(* administration API, the accounts) and the bridges of the Windows        *)
(* service to its assistants, each on its bench.                           *)
(***************************************************************************)
EXTENDS Datagrammes, TransportRepris, Relais, Rendezvous, ApiDurable, Comptes, PontAssistant

vars == <<bancs, varsD, varsR, varsRel, varsRv, varsApi, varsC, varsA>>

Init == InitBanc /\ InitD /\ InitR /\ InitRel /\ InitRv /\ InitApi /\ InitC /\ InitA

Next ==
  \/ NextD   /\ UNCHANGED <<varsR, varsRel, varsRv, varsApi, varsC, varsA>>
  \/ NextR   /\ UNCHANGED <<varsD, varsRel, varsRv, varsApi, varsC, varsA>>
  \/ NextRel /\ UNCHANGED <<varsD, varsR, varsRv, varsApi, varsC, varsA>>
  \/ NextRv  /\ UNCHANGED <<varsD, varsR, varsRel, varsApi, varsC, varsA>>
  \/ NextApi /\ UNCHANGED <<varsD, varsR, varsRel, varsRv, varsC, varsA>>
  \/ NextC   /\ UNCHANGED <<varsD, varsR, varsRel, varsRv, varsApi, varsA>>
  \/ NextA   /\ UNCHANGED <<varsD, varsR, varsRel, varsRv, varsApi, varsC>>

Spec == Init /\ [][Next]_vars /\ FairR /\ FairRel /\ FairRv /\ FairA

(***************************************************************************)
(* The state of every bench is of the declared types; no two peers wait at *)
(* the relay with one ticket, the reassembler never holds more frames than *)
(* allowed, and its order names exactly the frames it holds.               *)
(***************************************************************************)
TypeOK == TypeD /\ TypeR /\ TypeRel /\ TypeRv /\ TypeApi /\ TypeC /\ TypeA
=============================================================================
