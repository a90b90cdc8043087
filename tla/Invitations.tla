----------------------------- MODULE Invitations -----------------------------
(***************************************************************************)
(* The invitation store of nd-features (InviteStore): ephemeral codes that *)
(* open one session, or several until they expire.  A store is a function  *)
(* from codes to entries; a code that was never registered, or was purged, *)
(* is Absente.                                                             *)
(***************************************************************************)
EXTENDS Naturals

CONSTANTS
  Codes,     \* the codes an application may ever issue
  Absente    \* no entry

Entree == [expires : Nat, oneTime : BOOLEAN, used : BOOLEAN]

ASSUME AbsenteAssumption == Absente \notin Entree

Magasins == [Codes -> Entree \cup {Absente}]

Vide == [c \in Codes |-> Absente]

\* InviteStore::register: registering a code again resets its state.
Register(m, c, expires, oneTime) ==
  [m EXCEPT ![c] = [expires |-> expires, oneTime |-> oneTime, used |-> FALSE]]

(***************************************************************************)
(* InviteStore::redeem, in the precedence of the code: unknown, then       *)
(* already used, then expired.  A code is valid strictly before its        *)
(* expiry.                                                                 *)
(***************************************************************************)
RedeemResult(m, c, now) ==
  CASE m[c] = Absente                                       -> "Unknown"
    [] m[c] # Absente /\ m[c].oneTime /\ m[c].used          -> "AlreadyUsed"
    [] m[c] # Absente /\ ~(m[c].oneTime /\ m[c].used)
         /\ now >= m[c].expires                             -> "Expired"
    [] m[c] # Absente /\ ~(m[c].oneTime /\ m[c].used)
         /\ now < m[c].expires                              -> "Valid"

\* Mutated form of Redeem: the code is not marked.
RedeemSansMarquer(m, c, now) == m

Redeem(m, c, now) ==
  IF RedeemResult(m, c, now) = "Valid" THEN [m EXCEPT ![c].used = TRUE] ELSE m

\* InviteStore::purge_expired.
PurgeExpired(m, now) ==
  [c \in Codes |-> IF m[c] # Absente /\ now >= m[c].expires THEN Absente ELSE m[c]]

=============================================================================
