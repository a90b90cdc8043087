---------------------------- MODULE PressePapiers ----------------------------
(***************************************************************************)
(* The shared clipboard.  At each peer the receiving thread applies what   *)
(* comes, then remembers it; the emitting thread captures what the system  *)
(* holds, then compares it with what is remembered and sends it when it    *)
(* differs.  The two threads hold the lock of the clipboard, then that of  *)
(* `dernier`, never both: their steps interleave.                          *)
(***************************************************************************)
EXTENDS SessionEtendue

CONSTANTS
  Contenus,        \* what may be copied
  MaxCopies,       \* copies of the users (bound)
  MaxEnvoyes,      \* contents on their way to a peer (bound)
  Vide             \* nothing in the clipboard, nothing remembered

ASSUME PresseAssumption == Vide \notin Contenus

VARIABLES
  presse,          \* the clipboard of the system
  dernier,         \* EtatMedia::dernier_presse_papiers
  applique,        \* applied by the receiving thread, not yet remembered
  capture,         \* captured by the emitting thread, not yet compared
  derniere,        \* auxiliary: the last copy of a user
  croise,          \* auxiliary: it was disturbed
  copies           \* auxiliary: copies so far

varsPP == <<presse, dernier, applique, capture, derniere, croise, copies>>
fixePP == <<usage, ouvert, fils, epoque, droits>>

\* The two clipboards hold what earlier uses of the machines left there (the other usages
\* do not look at them).
InitPP ==
  /\ presse \in [Cotes -> IF usage = "pressePapiers" THEN Contenus \cup {Vide} ELSE {Vide}]
  /\ dernier = [c \in Cotes |-> Vide]
  /\ applique = [c \in Cotes |-> Vide]
  /\ capture = [c \in Cotes |-> Vide]
  /\ derniere = Vide
  /\ croise = TRUE
  /\ copies = 0

\* Nothing is to be sent: the emitting threads go on capturing what is remembered.
Calme ==
  /\ Repos
  /\ \A c \in Cotes : applique[c] = Vide /\ {capture[c], presse[c]} \subseteq {Vide, dernier[c]}

-----------------------------------------------------------------------------
\* A user copies.  The copy is undisturbed when all was calm; after a disturbance, when its
\* content is also new to that peer.
Copier(c, x) ==
  /\ copies < MaxCopies
  /\ presse' = [presse EXCEPT ![c] = x]
  /\ derniere' = x
  /\ croise' = (~Calme \/ (croise /\ x \in {presse[c], dernier[c]}))
  /\ copies' = copies + 1
  /\ UNCHANGED lien /\ UNCHANGED <<dernier, applique, capture>>

\* traiter_controle, first half.  The system may refuse (echec): the result is ignored.
Appliquer(c, echec) ==
  /\ applique[c] = Vide
  /\ Recevoir(c, "PressePapiers")
  /\ IF Autorise(c, "ClipboardWrite")
     THEN /\ applique' = [applique EXCEPT ![c] = Trame(c).contenu]
          /\ presse' = IF echec THEN presse ELSE [presse EXCEPT ![c] = Trame(c).contenu]
          /\ croise' = (croise \/ echec)
     ELSE UNCHANGED <<applique, presse, croise>>
  /\ UNCHANGED fixePP /\ UNCHANGED <<commandes, dernier, capture, derniere, copies>>

\* traiter_controle, second half.
Memoriser(c) ==
  /\ applique[c] # Vide
  /\ dernier' = [dernier EXCEPT ![c] = applique[c]]
  /\ applique' = [applique EXCEPT ![c] = Vide]
  /\ UNCHANGED lien /\ UNCHANGED <<presse, capture, derniere, croise, copies>>

\* synchroniser_presse_papiers, first half: whatever is remembered, which is read later.  The
\* races of the two threads may send two contents for one received, for ever: the bound.
Capturer(c) ==
  /\ c \in fils
  /\ Autorise(c, "ClipboardRead")
  /\ capture[c] = Vide
  /\ presse[c] # Vide /\ Len(canal[Autre(c)]) < MaxEnvoyes
  /\ capture' = [capture EXCEPT ![c] = presse[c]]
  /\ UNCHANGED lien /\ UNCHANGED <<presse, dernier, applique, derniere, croise, copies>>

\* What is sent has been replaced in the clipboard since it was captured: the peer gets back
\* what this one no longer holds.
Perime(c) == capture[c] # presse[c]

\* Mutated form of Synchroniser: what is sent is not remembered.
SynchroniserSansMemoire(c) ==
  /\ capture[c] # Vide
  /\ capture' = [capture EXCEPT ![c] = Vide]
  /\ IF capture[c] = dernier[c]
     THEN UNCHANGED <<canal, croise>>
     ELSE /\ Emettre(c, [type |-> "PressePapiers", contenu |-> capture[c]])
          /\ croise' = (croise \/ Perime(c))
  /\ UNCHANGED fixePP
  /\ UNCHANGED <<commandes, presse, dernier, applique, derniere, copies>>

\* synchroniser_presse_papiers, second half: remembered before it is sent.
Synchroniser(c) ==
  /\ capture[c] # Vide
  /\ capture' = [capture EXCEPT ![c] = Vide]
  /\ IF capture[c] = dernier[c]
     THEN UNCHANGED <<dernier, canal, croise>>
     ELSE /\ dernier' = [dernier EXCEPT ![c] = capture[c]]
          /\ Emettre(c, [type |-> "PressePapiers", contenu |-> capture[c]])
          /\ croise' = (croise \/ Perime(c))
  /\ UNCHANGED fixePP /\ UNCHANGED <<commandes, presse, applique, derniere, copies>>

\* A thread ends between two rounds of its loop.  A cut or a change of permissions
\* disturbs the copy.
LienPP ==
  /\ \/ Couper \/ Rouvrir \/ NextPermissions
     \/ \E c \in Cotes : applique[c] = Vide /\ capture[c] = Vide /\ Terminer(c)
  /\ croise' = TRUE
  /\ UNCHANGED <<presse, dernier, applique, capture, derniere, copies>>

FilsPP(c) ==
  \/ \E echec \in BOOLEAN : Appliquer(c, echec)
  \/ Memoriser(c) \/ Capturer(c) \/ Synchroniser(c)

NextPP ==
  /\ usage = "pressePapiers"
  /\ \/ \E c \in Cotes, x \in Contenus : Copier(c, x)
     \/ \E c \in Cotes : FilsPP(c)
     \/ LienPP

\* The threads of a peer go round their loops.
FairPP ==
  /\ WF_<<lien, varsPP>>(usage = "pressePapiers" /\ FilsPermissions /\ LienPP)
  /\ \A c \in Cotes :
       /\ WF_<<lien, varsPP>>(usage = "pressePapiers" /\ Capturer(c))
       /\ WF_<<lien, varsPP>>(usage = "pressePapiers" /\ Synchroniser(c))
       /\ WF_<<lien, varsPP>>(usage = "pressePapiers" /\ Memoriser(c))
       /\ WF_<<lien, varsPP>>(usage = "pressePapiers" /\ \E e \in BOOLEAN : Appliquer(c, e))

TypePP ==
  /\ presse \in [Cotes -> Contenus \cup {Vide}]
  /\ dernier \in [Cotes -> Contenus \cup {Vide}]
  /\ applique \in [Cotes -> Contenus \cup {Vide}]
  /\ capture \in [Cotes -> Contenus \cup {Vide}]

-----------------------------------------------------------------------------
(***************************************************************************)
(* A copy made when the clipboards were calm ends up, and stays, in both,  *)
(* and they are calm again, unless something disturbs it: another copy     *)
(* before it has settled, a cut, a change of permissions, or a system that *)
(* refuses to store it.  An echo, sent by the emitting thread between the   *)
(* two halves of the receiving one, does not go on for ever.               *)
(* The other race of the two threads is one of the disturbances, and the   *)
(* copy is lost in it: what was captured before the receiving thread       *)
(* applied the copy is compared after it, and sent (Perime).  The two      *)
(* clipboards may then swap their contents for ever, or stop with each     *)
(* other's.                                                                *)
(***************************************************************************)
PressePapiersConverge ==
  <>[](usage = "pressePapiers" /\ ~croise /\ ouvert /\ perms = [c \in Cotes |-> Capacites]
         => Calme /\ \A c \in Cotes : presse[c] = derniere)

=============================================================================
