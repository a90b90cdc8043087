-------------------------- MODULE MCUnattendedHost --------------------------
(***************************************************************************)
(* A small instance of UnattendedHost: one caller of each kind.            *)
(***************************************************************************)
EXTENDS UnattendedHost

CONSTANTS amie, connue, fausse, invitee, intruse, discrete, c1

MCAppelants == {amie, connue, fausse, invitee, intruse, discrete}
MCPreuve == [ a \in MCAppelants |->
                CASE a = connue   -> "mdp"
                  [] a = fausse   -> "mdpFaux"
                  [] a = invitee  -> c1
                  [] a = intruse  -> c1
                  [] a = discrete -> "nom"
                  [] a = amie     -> "rien" ]
MCConfiance == {amie}
MCMenteurs == {intruse}
MCCodes == {c1}

=============================================================================
