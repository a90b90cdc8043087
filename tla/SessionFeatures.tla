--------------------------- MODULE SessionFeatures ---------------------------
(***************************************************************************)
(* An extended session with its features on one link: each uses the same   *)
(* queue of commands, emitting thread, receiving thread and permissions,   *)
(* and lives through the same cuts.  What the users do is chosen at the    *)
(* start and then one feature is used; the state of the others stays.      *)
(***************************************************************************)
EXTENDS DistantFs, PressePapiers, Guichet, FluxHote, Tunnels

vars == <<lien, varsFs, varsPP, varsG, varsFlux, varsT>>

Init == InitLien /\ InitFs /\ InitPP /\ InitG /\ InitFlux /\ InitT

\* Only the permissions are used.
NextDroits ==
  /\ usage = "permissions"
  /\ NextPermissions \/ NextLien
  /\ UNCHANGED <<varsFs, varsPP, varsG, varsFlux, varsT>>

Next ==
  \/ NextDroits
  \/ NextFs   /\ UNCHANGED <<varsPP, varsG, varsFlux, varsT>>
  \/ NextPP   /\ UNCHANGED <<varsFs, varsG, varsFlux, varsT>>
  \/ NextG    /\ UNCHANGED <<varsFs, varsPP, varsFlux, varsT>>
  \/ NextFlux /\ UNCHANGED <<varsFs, varsPP, varsG, varsT>>
  \/ NextT    /\ UNCHANGED <<varsFs, varsPP, varsG, varsFlux>>

Spec == Init /\ [][Next]_vars /\ FairPP /\ FairFlux /\ FairT

(***************************************************************************)
(* The state of the session and of its features is of the declared types.  *)
(***************************************************************************)
TypeOK == TypeLien /\ TypeFs /\ TypePP /\ TypeG /\ TypeFlux /\ TypeT

=============================================================================
