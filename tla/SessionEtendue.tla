--------------------------- MODULE SessionEtendue ---------------------------
(***************************************************************************)
(* What the features of an extended session share: the link and its        *)
(* epochs, one queue of commands per handle, one emitting and one           *)
(* receiving thread per peer, and the live permissions.                    *)
(*                                                                         *)
(* The features extend this module.  What the users do with the session is *)
(* `usage`, chosen at the start: a run looks at one feature at a time.     *)
(***************************************************************************)
EXTENDS Naturals, Sequences

CONSTANTS
  Usages,          \* what the users may do with the session
  CapacitesDe,     \* for each usage, the capabilities that its feature looks at
  BasculablesDe,   \* and those of them that the users change (bound)
  MaxEpoques,      \* connections of a session (bound)
  MaxChangements   \* changes of permissions (bound)

ASSUME EtendueAssumption ==
  /\ MaxEpoques \in Nat \ {0} /\ MaxChangements \in Nat
  /\ \A u \in Usages : BasculablesDe[u] \subseteq CapacitesDe[u]

VARIABLES
  usage,           \* what the users do
  ouvert,          \* the link is up
  fils,            \* the peers whose threads run
  epoque,          \* number of the connection
  canal,           \* frames on their way to each peer, in order
  commandes,       \* EtatMedia::commandes of each peer
  perms,           \* EtatMedia::permissions of each peer
  voulues,         \* auxiliary: what the users asked the permissions to be
  changements      \* auxiliary: changes of permissions asked at each peer so far

lien == <<usage, ouvert, fils, epoque, canal, commandes, perms, voulues, changements>>
droits == <<perms, voulues, changements>>

Cotes    == {"Controller", "Controlled"}
Autre(c) == IF c = "Controller" THEN "Controlled" ELSE "Controller"

Capacites == CapacitesDe[usage]

InitLien ==
  /\ usage \in Usages
  /\ ouvert = TRUE
  /\ fils = Cotes
  /\ epoque = 1
  /\ canal = [c \in Cotes |-> <<>>]
  /\ commandes = [c \in Cotes |-> <<>>]
  /\ perms = [c \in Cotes |-> Capacites]
  /\ voulues = Capacites
  /\ changements = [c \in Cotes |-> 0]

-----------------------------------------------------------------------------
(***************************************************************************)
(* The steps the features are made of.  A send on a closed link is an      *)
(* error the emitting thread ignores: the frame is lost.                   *)
(***************************************************************************)
Emettre(c, t) ==
  canal' = IF ouvert THEN [canal EXCEPT ![Autre(c)] = Append(@, t)] ELSE canal

\* poll_recv gives the receiving thread of c a frame of that type.
Recevoir(c, type) ==
  /\ c \in fils
  /\ canal[c] # <<>>
  /\ Head(canal[c]).type = type
  /\ canal' = [canal EXCEPT ![c] = Tail(@)]

Trame(c) == Head(canal[c])

\* The application sends a command to the emitting thread of its session.
Commander(c, k) == commandes' = [commandes EXCEPT ![c] = Append(@, k)]

\* The emitting thread of c takes the next command of that type.
Prendre(c, type) ==
  /\ c \in fils
  /\ commandes[c] # <<>>
  /\ Head(commandes[c]).type = type
  /\ commandes' = [commandes EXCEPT ![c] = Tail(@)]

Commande(c) == Head(commandes[c])

Autorise(c, cap) == cap \in perms[c]

-----------------------------------------------------------------------------
(***************************************************************************)
(* A cut loses the frames on their way.  The threads of a peer end once    *)
(* they see it; a new epoch starts when those of both have.                *)
(***************************************************************************)
Couper ==
  /\ ouvert
  /\ ouvert' = FALSE
  /\ canal' = [c \in Cotes |-> <<>>]
  /\ UNCHANGED <<usage, fils, epoque, commandes, perms, voulues, changements>>

Terminer(c) ==
  /\ ~ouvert
  /\ c \in fils
  /\ fils' = fils \ {c}
  /\ UNCHANGED <<usage, ouvert, epoque, canal, commandes, perms, voulues, changements>>

Rouvrir ==
  /\ ~ouvert
  /\ fils = {}
  /\ epoque < MaxEpoques
  /\ ouvert' = TRUE
  /\ fils' = Cotes
  /\ epoque' = epoque + 1
  /\ UNCHANGED <<usage, canal, commandes, perms, voulues, changements>>

-----------------------------------------------------------------------------
(***************************************************************************)
(* Permissions renegotiated while the session lives.  The application      *)
(* reads the current set, changes one capability, and asks for the result; *)
(* the emitting thread stores it, and that of the controller sends it to   *)
(* the host, which stores it too.                                          *)
(***************************************************************************)
Accorder(ensemble, cap, accord) == IF accord THEN ensemble \cup {cap} ELSE ensemble \ {cap}

\* definir_permission.  The users ask for the contrary of what was asked last.
DefinirPermission(c, cap) ==
  LET accord == cap \notin voulues IN
    /\ changements["Controller"] + changements["Controlled"] < MaxChangements
    /\ Commander(c, [type |-> "MajPermissions", bits |-> Accorder(perms[c], cap, accord)])
    /\ voulues' = Accorder(voulues, cap, accord)
    /\ changements' = [changements EXCEPT ![c] = @ + 1]
    /\ UNCHANGED <<usage, ouvert, fils, epoque, canal, perms>>

AppliquerPermissions(c) ==
  /\ Prendre(c, "MajPermissions")
  /\ perms' = [perms EXCEPT ![c] = Commande(c).bits]
  /\ IF c = "Controller"
     THEN Emettre(c, [type |-> "Permissions", bits |-> Commande(c).bits])
     ELSE canal' = canal
  /\ UNCHANGED <<usage, ouvert, fils, epoque, voulues, changements>>

RecevoirPermissions(c) ==
  /\ Recevoir(c, "Permissions")
  /\ perms' = IF c = "Controlled" THEN [perms EXCEPT ![c] = Trame(c).bits] ELSE perms
  /\ UNCHANGED <<usage, ouvert, fils, epoque, commandes, voulues, changements>>

\* What the threads of the two peers do.
FilsPermissions == \E c \in Cotes : AppliquerPermissions(c) \/ RecevoirPermissions(c)

NextPermissions ==
  \/ \E c \in Cotes, cap \in BasculablesDe[usage] : DefinirPermission(c, cap)
  \/ FilsPermissions

NextLien == Couper \/ Rouvrir \/ \E c \in Cotes : Terminer(c)

TypeLien ==
  /\ usage \in Usages
  /\ ouvert \in BOOLEAN
  /\ fils \subseteq Cotes
  /\ epoque \in 1..MaxEpoques
  /\ DOMAIN canal = Cotes /\ DOMAIN commandes = Cotes
  /\ perms \in [Cotes -> SUBSET Capacites]
  /\ voulues \subseteq Capacites
  /\ changements \in [Cotes -> 0..MaxChangements]

-----------------------------------------------------------------------------
\* Nothing is on its way and no command waits.
Repos == \A c \in Cotes : canal[c] = <<>> /\ commandes[c] = <<>>

=============================================================================
