-------------------------------- MODULE Bancs --------------------------------
(***************************************************************************)
(* The parts of the network are checked one at a time, each on its bench:  *)
(* the bench and the mode of the session are chosen at the start and never *)
(* change.                                                                 *)
(***************************************************************************)
EXTENDS Integers, Sequences, FiniteSets, SequencesExt

CONSTANTS
  Bancs,   \* the benches of a run
  Modes    \* of the session: "etendu" (extended features) or "simple"

ASSUME BancsAssumption ==
  /\ Bancs \subseteq 
       {"datagrammes", "reprise", "relais", "rendezvous", "api", "comptes",
        "assistant"}
  /\ Modes \subseteq {"etendu", "simple"} /\ Modes # {}

VARIABLES banc, mode

bancs == <<banc, mode>>

\* The members of S on their own bench, one of them on the others.
Sur(b, S) == IF banc \in b THEN S ELSE {CHOOSE x \in S : TRUE}

InitBanc == banc \in Bancs /\ mode \in Sur({"datagrammes", "reprise"}, Modes)
=============================================================================
