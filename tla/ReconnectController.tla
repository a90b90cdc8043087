------------------------ MODULE ReconnectController ------------------------
(***************************************************************************)
(* The reconnection pacing of nd-features (ReconnectPolicy, ReconnectState *)
(* and ReconnectController): which attempt comes next and when the policy  *)
(* gives up.  The delays themselves are left out, they only pace the       *)
(* attempts; what is kept of a delay is whether one is granted (Some) or   *)
(* refused (None).                                                         *)
(***************************************************************************)
EXTENDS Naturals

CONSTANTS
  Illimite,   \* max_attempts = None
  Plafond     \* bound: an unlimited policy stops counting attempts here

ASSUME IllimiteAssumption == Illimite \notin Nat
ASSUME PlafondAssumption  == Plafond \in Nat \ {0}

(***************************************************************************)
(* The controller's memory: etat is the ReconnectState, tentative the      *)
(* attempt of Waiting (0 otherwise), arme whether the delay computed by    *)
(* the last event has not been handed to the caller yet.                   *)
(***************************************************************************)
Controleur == [ etat : {"Idle", "Waiting", "GaveUp"},
                tentative : Nat,
                arme : BOOLEAN ]

Nouveau == [etat |-> "Idle", tentative |-> 0, arme |-> FALSE]

\* Mutated forms of Accorde: the policy stops one attempt too early, too late.
AccordeTropTot(max, n)  == max = Illimite \/ n < max
AccordeTropTard(max, n) == max = Illimite \/ n <= max + 1

\* ReconnectPolicy::next_delay: is attempt n (0 is read as 1) granted a delay?
Accorde(max, n) == max = Illimite \/ n <= max

\* Mutated forms of Suivante: failures are not counted, or counted backwards.
SuivanteFigee(max, n)    == n
SuivanteARebours(max, n) == n - 1

\* The successor of an attempt number, frozen at Plafond without a limit.
Suivante(max, n) == IF max = Illimite /\ n >= Plafond THEN n ELSE n + 1

\* ReconnectState::programme: wait for attempt n, or give up.
Programme(max, n) ==
  IF Accorde(max, n)
  THEN [etat |-> "Waiting", tentative |-> n, arme |-> TRUE]
  ELSE [etat |-> "GaveUp", tentative |-> 0, arme |-> FALSE]

\* ReconnectController::on_disconnect: redundant signals change nothing.
OnDisconnect(max, c) == IF c.etat = "Idle" THEN Programme(max, 1) ELSE c

(***************************************************************************)
(* ReconnectController::next_delay.  The first call after a disconnection  *)
(* hands out the armed delay; every later call records the failure of the  *)
(* attempt before it and programs the next one.  NextDelay is the          *)
(* controller afterwards, DelaiRendu whether a delay was returned.         *)
(***************************************************************************)
NextDelay(max, c) ==
  IF c.arme THEN [c EXCEPT !.arme = FALSE]
  ELSE IF c.etat = "Waiting"
       THEN [Programme(max, Suivante(max, c.tentative)) EXCEPT !.arme = FALSE]
       ELSE c

DelaiRendu(max, c) ==
  c.arme \/ (c.etat = "Waiting" /\ Accorde(max, Suivante(max, c.tentative)))

\* ReconnectController::reset.
Reset(c) == Nouveau

HasGivenUp(c) == c.etat = "GaveUp"

============================================================================
