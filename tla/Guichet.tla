------------------------------- MODULE Guichet -------------------------------
(***************************************************************************)
(* Inputs, from the keyboard and mouse of the controller to the system of  *)
(* the host: a queue, the link, then GuichetEntrees, which checks the live *)
(* permission, resolves the shortcuts of the host (FiltreRaccourcis),      *)
(* applies the read-only mode, and injects.  A gate belongs to an epoch.   *)
(* Counters and the audit journal are left out.                            *)
(***************************************************************************)
EXTENDS SessionEtendue

CONSTANTS
  Touches,          \* keys of the keyboard
  Boutons,          \* buttons of the mouse
  Bit,              \* the modifier each key of DOMAIN Bit stands for (left and right alike)
  Raccourcis,       \* HotkeyMap: records of modifiers, key and HostAction
  MaxFile,          \* inputs waiting (bound)
  MaxEvenements     \* presses and releases of the user (bound)

\* The actions of shortcuts (HostAction) are not among the other outcomes (IssueRaccourci).
ASSUME RaccourcisAssumption == \A r \in Raccourcis : r.action \notin {"Injecter", "Avale"}

VARIABLES
  tenues,           \* what the user of the controller holds
  entrees,          \* inputs waiting for the emitting thread
  mods,             \* FiltreRaccourcis::modificateurs_tenus
  avalees,          \* FiltreRaccourcis::avalees
  lectureSeule,     \* GuichetEntrees::lecture_seule
  injectees,        \* what the system of the host sees held by the session
  declenchees,      \* auxiliary: shortcuts whose key has not been released since
  orphelines,       \* auxiliary: keys held whose release the gate will not, or did not, inject
  evenements        \* auxiliary: events so far

varsG  == <<tenues, entrees, mods, avalees, lectureSeule, injectees, declenchees,
            orphelines, evenements>>
guichet == <<mods, avalees, lectureSeule>>

InitG ==
  /\ tenues = {} /\ entrees = <<>>
  /\ mods = {} /\ avalees = {} /\ lectureSeule = FALSE
  /\ injectees = {} /\ declenchees = {} /\ orphelines = {}
  /\ evenements = 0

\* Capability::required_for_input.
Requise(t) == IF t \in Boutons THEN "ControlMouse" ELSE "ControlKeyboard"

-----------------------------------------------------------------------------
\* The user presses, keeps pressing, or releases.
Saisir(t, appui) ==
  /\ evenements < MaxEvenements /\ Len(entrees) < MaxFile
  /\ ~appui => t \in tenues
  /\ tenues' = IF appui THEN tenues \cup {t} ELSE tenues \ {t}
  /\ entrees' = Append(entrees, [touche |-> t, appui |-> appui])
  /\ evenements' = evenements + 1
  /\ UNCHANGED lien /\ UNCHANGED guichet /\ UNCHANGED <<injectees, declenchees, orphelines>>

\* emetteur_features_controleur: one input, refused by a closed link.
EnvoyerEntree ==
  /\ "Controller" \in fils
  /\ entrees # <<>>
  /\ entrees' = Tail(entrees)
  /\ Emettre("Controller", [type |-> "Entree", touche |-> Head(entrees).touche,
                            appui |-> Head(entrees).appui])
  /\ UNCHANGED <<usage, ouvert, fils, epoque, commandes, droits>>
  /\ UNCHANGED guichet /\ UNCHANGED <<tenues, injectees, declenchees, orphelines, evenements>>

-----------------------------------------------------------------------------
\* noter_modificateur.
Noter(t, appui) ==
  IF t \notin DOMAIN Bit THEN mods
  ELSE IF appui THEN mods \cup {t} ELSE mods \ {t}

\* action_for: the shortcuts of that key with the modifiers held before it.
Declenche(t, appui) ==
  {r.action : r \in {q \in Raccourcis :
     appui /\ t \notin Boutons /\ q.touche = t /\ q.mods = {Bit[m] : m \in mods}}}

\* FiltreRaccourcis::filtrer.
Filtrer(t, appui) ==
  CASE t \in Boutons -> [issue |-> "Injecter", mods |-> mods, avalees |-> avalees]
    [] t \in avalees ->
         [issue |-> "Avale", mods |-> Noter(t, appui),
          avalees |-> IF appui THEN avalees ELSE avalees \ {t}]
    [] t \notin Boutons /\ t \notin avalees /\ Declenche(t, appui) # {} ->
         [issue |-> CHOOSE a \in Declenche(t, appui) : TRUE,
          mods |-> Noter(t, appui), avalees |-> avalees \cup {t}]
    [] t \notin Boutons /\ t \notin avalees /\ Declenche(t, appui) = {} ->
         [issue |-> "Injecter", mods |-> Noter(t, appui), avalees |-> avalees]

\* apply_input, or refused while in read-only mode.
Injecter(t, appui) ==
  /\ injectees' = CASE lectureSeule -> injectees
                    [] ~lectureSeule /\ appui -> injectees \cup {t}
                    [] ~lectureSeule /\ ~appui -> injectees \ {t}
  /\ UNCHANGED <<ouvert, lectureSeule>>

\* appliquer_action: release_all, the read-only mode, the end of the epoch; the other
\* actions have no effect here.
AppliquerAction(action) ==
  /\ injectees' = IF action = "ReleaseMouse" \/ (action = "ToggleViewOnly" /\ ~lectureSeule)
                  THEN {} ELSE injectees
  /\ lectureSeule' = IF action = "ToggleViewOnly" THEN ~lectureSeule ELSE lectureSeule
  /\ ouvert' = (ouvert /\ action # "Disconnect")

\* GuichetEntrees::traiter: permission, shortcuts, injection.  What is refused does not
\* reach the filter.  After a Disconnect the frames on their way are not read.
TraiterEntree ==
  /\ "Controlled" \in fils
  /\ canal["Controlled"] # <<>>
  /\ Trame("Controlled").type = "Entree"
  /\ LET t == Trame("Controlled").touche
         appui == Trame("Controlled").appui
         f == Filtrer(t, appui)
         action == f.issue \notin {"Injecter", "Avale"} IN
       IF ~Autorise("Controlled", Requise(t))
       THEN /\ orphelines' = IF appui THEN orphelines ELSE orphelines \cup (injectees \cap {t})
            /\ declenchees' = IF appui THEN declenchees ELSE declenchees \ {t}
            /\ UNCHANGED <<guichet, injectees, ouvert>>
       ELSE /\ mods' = f.mods /\ avalees' = f.avalees
            /\ CASE f.issue = "Injecter" -> Injecter(t, appui)
                 [] f.issue = "Avale" -> UNCHANGED <<injectees, lectureSeule, ouvert>>
                 [] action -> AppliquerAction(f.issue)
            /\ declenchees' = CASE action -> declenchees \cup {t}
                                [] ~action /\ ~appui -> declenchees \ {t}
                                [] ~action /\ appui -> declenchees
            /\ orphelines' = injectees' \cap (IF action THEN orphelines \cup {t} ELSE orphelines)
  /\ canal' = IF ouvert' THEN [canal EXCEPT !["Controlled"] = Tail(@)]
                         ELSE [c \in Cotes |-> <<>>]
  /\ UNCHANGED <<usage, fils, epoque, commandes, droits>>
  /\ UNCHANGED <<tenues, entrees, evenements>>

-----------------------------------------------------------------------------
\* Mutated form of FinReception: the end of the loop releases nothing.
FinReceptionTenue(c) ==
  /\ Terminer(c)
  /\ UNCHANGED varsG

\* The receiving loop of the host ends with release_all.
FinReception(c) ==
  /\ Terminer(c)
  /\ injectees' = IF c = "Controlled" THEN {} ELSE injectees
  /\ orphelines' = orphelines \cap injectees'
  /\ UNCHANGED guichet /\ UNCHANGED <<tenues, entrees, declenchees, evenements>>

\* A new epoch has a new gate, and stale inputs are purged (executer_controleur_ext).
NouveauGuichet ==
  /\ Rouvrir
  /\ entrees' = <<>> /\ mods' = {} /\ avalees' = {} /\ lectureSeule' = FALSE
  /\ declenchees' = {}
  /\ UNCHANGED <<tenues, injectees, orphelines, evenements>>

NextG ==
  /\ usage = "entrees"
  /\ \/ \E t \in Touches \cup Boutons, appui \in BOOLEAN : Saisir(t, appui)
     \/ EnvoyerEntree \/ TraiterEntree \/ NouveauGuichet
     \/ \E c \in Cotes : FinReception(c)
     \/ (Couper \/ NextPermissions) /\ UNCHANGED varsG

TypeG ==
  /\ tenues \subseteq Touches \cup Boutons
  /\ mods \subseteq DOMAIN Bit
  /\ avalees \subseteq Touches
  /\ lectureSeule \in BOOLEAN
  /\ injectees \subseteq Touches \cup Boutons

-----------------------------------------------------------------------------
(***************************************************************************)
(* Once all inputs are handled, the host holds no key or button that the   *)
(* user does not hold, whatever shortcuts, read-only mode and new epochs   *)
(* came in between.  Two exceptions, kept in `orphelines`: the release was *)
(* refused for want of a permission; or a key already injected completed a *)
(* shortcut by repeating itself (held before the modifiers), and the       *)
(* filter swallows its release.  Between two epochs nothing is held.       *)
(***************************************************************************)
SansFantome ==
  /\ usage = "entrees" /\ Repos /\ entrees = <<>> /\ ouvert => injectees \ orphelines \subseteq tenues
  /\ "Controlled" \notin fils => injectees = {}

(***************************************************************************)
(* The host never sees the key of a shortcut: not its press, nor its       *)
(* repetitions (FiltreRaccourcis), unless it held that key before.         *)
(***************************************************************************)
FrappeCachee == injectees \cap declenchees \subseteq orphelines

(***************************************************************************)
(* Both: the host holds what the user holds, and not the keys of shortcuts *)
(* (GuichetEntrees, FiltreRaccourcis, release_all).                        *)
(***************************************************************************)
ClavierFidele == SansFantome /\ FrappeCachee

=============================================================================
