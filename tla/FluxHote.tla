------------------------------ MODULE FluxHote ------------------------------
(***************************************************************************)
(* What both peers may ask of the stream of the host while it runs         *)
(* (privacy curtain, frame of the screen, quality preset, recording) and   *)
(* the loop that streams (HostPipeline::run_streaming_pilote).  A request  *)
(* is a store in a variable shared with the loop; the loop compares it     *)
(* with what it applied last.  The loop and its variables belong to an     *)
(* epoch, the shared variables to the session.                             *)
(*                                                                         *)
(* A preset is one value, standing for its profile and its rate cap; a     *)
(* monitor and a region of it follow the same protocol and are one value.  *)
(* Relaxed stores become visible in program order, as on x86.              *)
(***************************************************************************)
EXTENDS SessionEtendue

CONSTANTS
  Qualites,        \* presets of quality, `Defaut` among them
  Defaut,          \* the preset, and the frame, of the start
  Cadres,          \* frames of the screen, `Defaut` among them
  CadresAcceptes,  \* those the capture back-end accepts
  Enregistrements, \* paths of recordings asked for while the session runs
  Base,            \* SessionOptions::recording
  MaxDemandes,     \* requests of the users (bound)
  Aucun

ASSUME FluxAssumption ==
  /\ Defaut \in Qualites /\ Defaut \in Cadres /\ MaxDemandes \in Nat
  /\ Aucun # "lisible" /\ Aucun \notin BOOLEAN

VARIABLES
  rideau,          \* EtatMedia::privacy of each peer
  annonce,         \* etat_prive_annonce of the emitting thread of the host
  qualite,         \* EtatQualite of the host
  ecritures,       \* stores each thread of the host has still to do
  cadre,           \* EtatMedia::moniteur and region of the host
  enregistrement,  \* EtatEnregistrement of the host
  fichiers,        \* the files of recordings: Aucun, "incomplet" or "lisible"
  boucle,          \* local variables of the streaming loop
  cloture,         \* auxiliary: the epoch that closed a recording, 0 once an order names it again
  reglage,        \* auxiliary: the last request stored at the host
  croisee,         \* auxiliary: it may have been undone by a step of another thread
  demandes         \* auxiliary: requests so far

partage   == <<rideau, annonce, qualite, ecritures, cadre, enregistrement>>
varsFlux  == <<rideau, annonce, qualite, ecritures, cadre, enregistrement,
               fichiers, boucle, cloture, reglage, croisee, demandes>>
UsagesFlux == {"confidentialite", "cadre", "qualite", "enregistrement"}
FilsHote  == {"emetteur", "recepteur"}

\* Mutated form of CheminEnregistrement: every epoch writes the path asked for.
CheminSansEpoque(base, e) == <<base, 1>>

\* chemin_enregistrement: the first epoch writes the path asked for, the next ones a path
\* of their own.
CheminEnregistrement(base, e) == <<base, e>>

\* The files recordings may be written to: those of the start, one for each epoch, and those
\* orders name.
Initiaux == {Base} \X (1..MaxEpoques)
FichiersPossibles == Initiaux \cup (Enregistrements \X {0})

\* The variables of run_streaming_pilote before its first turn.
BoucleInitiale ==
  [configure |-> "non", vue |-> 0, profil |-> Defaut, plafond |-> Defaut,
   courant |-> Defaut, rejet |-> FALSE, muxeur |-> Aucun, images |-> 0]

InitFlux ==
  /\ rideau = [c \in Cotes |-> FALSE]
  /\ annonce = Aucun
  /\ qualite = [profil |-> Defaut, plafond |-> Defaut, generation |-> 0]
  /\ ecritures = [f \in FilsHote |-> <<>>]
  /\ cadre = Defaut
  /\ enregistrement = [chemin |-> Aucun, generation |-> 0]
  /\ fichiers = [f \in FichiersPossibles |-> Aucun]
  /\ boucle = BoucleInitiale
  /\ cloture = [f \in FichiersPossibles |-> 0]
  /\ reglage = Aucun /\ croisee = FALSE /\ demandes = 0

-----------------------------------------------------------------------------
\* set_privacy, set_region, switch_monitor, set_quality, set_recording.
Valeurs ==
  CASE usage = "confidentialite" -> BOOLEAN
    [] usage = "cadre" -> Cadres
    [] usage = "qualite" -> Qualites
    [] usage = "enregistrement" -> {<<r, 0>> : r \in Enregistrements} \cup {Aucun}

DemanderFlux(c, v) ==
  /\ demandes < MaxDemandes
  /\ Commander(c, [type |-> "Regler", valeur |-> v])
  /\ demandes' = demandes + 1
  /\ UNCHANGED <<usage, ouvert, fils, epoque, canal, droits>> /\ UNCHANGED partage
  /\ UNCHANGED <<fichiers, boucle, cloture, reglage, croisee>>

\* appliquer_qualite: three stores, one after the other.
StoresQualite(v) == <<<<"profil", v>>, <<"plafond", v>>, <<"generation", v>>>>

AutreFil(f) == IF f = "emetteur" THEN "recepteur" ELSE "emetteur"

\* A thread of the host stores the request.  appliquer_enregistrement is two stores, but
\* only the emitting thread does it.
Stocker(f, v) ==
  CASE usage = "confidentialite" ->
         /\ rideau' = [rideau EXCEPT !["Controlled"] = v]
         /\ UNCHANGED <<ecritures, cadre, reglage, croisee>>
    [] usage = "cadre" ->
         /\ cadre' = v /\ reglage' = v /\ croisee' = FALSE
         /\ UNCHANGED <<rideau, ecritures>>
    [] usage = "qualite" ->
         /\ ecritures' = [ecritures EXCEPT ![f] = StoresQualite(v)]
         /\ reglage' = v /\ croisee' = (ecritures[AutreFil(f)] # <<>>)
         /\ UNCHANGED <<rideau, cadre>>
    [] usage = "enregistrement" ->
         /\ ecritures' = [ecritures EXCEPT ![f] = <<<<"chemin", v>>, <<"ordre", v>>>>]
         /\ UNCHANGED <<rideau, cadre, reglage, croisee>>

\* traiter_commandes.  The controller forwards the request, except that for a recording,
\* which has no effect there.
ExecuterReglage(c) ==
  /\ c = "Controlled" => ecritures["emetteur"] = <<>>
  /\ Prendre(c, "Regler")
  /\ IF c = "Controlled"
     THEN Stocker("emetteur", Commande(c).valeur) /\ UNCHANGED canal
     ELSE /\ IF usage = "enregistrement"
             THEN UNCHANGED canal
             ELSE Emettre(c, [type |-> "Reglage", valeur |-> Commande(c).valeur])
          /\ UNCHANGED <<rideau, ecritures, cadre, reglage, croisee>>
  /\ UNCHANGED <<usage, ouvert, fils, epoque, droits>>
  /\ UNCHANGED <<annonce, qualite, enregistrement, fichiers, boucle, cloture, demandes>>

\* traiter_controle.  Only the curtain is behind a permission.
RecevoirReglage ==
  /\ ecritures["recepteur"] = <<>>
  /\ Recevoir("Controlled", "Reglage")
  /\ IF usage = "confidentialite" => Autorise("Controlled", "PrivacyMode")
     THEN Stocker("recepteur", Trame("Controlled").valeur)
     ELSE UNCHANGED <<rideau, ecritures, cadre, reglage, croisee>>
  /\ UNCHANGED <<usage, ouvert, fils, epoque, commandes, droits>>
  /\ UNCHANGED <<annonce, qualite, enregistrement, fichiers, boucle, cloture, demandes>>

\* The next store of appliquer_qualite or appliquer_enregistrement.
Ecriture(f) ==
  /\ ecritures[f] # <<>>
  /\ LET quoi == Head(ecritures[f])[1]
         v == Head(ecritures[f])[2] IN
       /\ CASE quoi = "profil" -> qualite' = [qualite EXCEPT !.profil = v] /\ UNCHANGED enregistrement
            [] quoi = "plafond" -> qualite' = [qualite EXCEPT !.plafond = v] /\ UNCHANGED enregistrement
            [] quoi = "generation" ->
                 qualite' = [qualite EXCEPT !.generation = @ + 1] /\ UNCHANGED enregistrement
            [] quoi = "chemin" ->
                 enregistrement' = [enregistrement EXCEPT !.chemin = v] /\ UNCHANGED qualite
            [] quoi = "ordre" ->
                 enregistrement' = [enregistrement EXCEPT !.generation = @ + 1] /\ UNCHANGED qualite
       /\ cloture' = IF quoi = "chemin" /\ v # Aucun THEN [cloture EXCEPT ![v] = 0] ELSE cloture
  /\ ecritures' = [ecritures EXCEPT ![f] = Tail(@)]
  /\ UNCHANGED lien
  /\ UNCHANGED <<rideau, annonce, cadre, fichiers, boucle, reglage, croisee, demandes>>

-----------------------------------------------------------------------------
\* annoncer_confidentialite: by the emitting thread of the host, when the state differs
\* from the one it announced last in this epoch.
Annoncer ==
  /\ "Controlled" \in fils /\ ecritures["emetteur"] = <<>>
  /\ annonce # rideau["Controlled"]
  /\ annonce' = rideau["Controlled"]
  /\ Emettre("Controlled", [type |-> "ConfidentialiteEtat", valeur |-> rideau["Controlled"]])
  /\ UNCHANGED <<usage, ouvert, fils, epoque, commandes, droits>>
  /\ UNCHANGED <<rideau, qualite, ecritures, cadre, enregistrement, fichiers, boucle, cloture,
                 reglage, croisee, demandes>>

RecevoirAnnonce ==
  /\ Recevoir("Controller", "ConfidentialiteEtat")
  /\ rideau' = [rideau EXCEPT !["Controller"] = Trame("Controller").valeur]
  /\ UNCHANGED <<usage, ouvert, fils, epoque, commandes, droits>>
  /\ UNCHANGED <<annonce, qualite, ecritures, cadre, enregistrement, fichiers, boucle, cloture,
                 reglage, croisee, demandes>>

-----------------------------------------------------------------------------
(***************************************************************************)
(* The streaming loop.                                                     *)
(***************************************************************************)
Tourner(suite) ==
  /\ "Controlled" \in fils
  /\ boucle' = suite
  /\ UNCHANGED lien
  /\ UNCHANGED <<rideau, annonce, qualite, ecritures, enregistrement, reglage, demandes>>

\* A frame other than the one applied: accepted by the back-end, or to be undone.
AppliquerCadre ==
  /\ ~boucle.rejet /\ cadre # boucle.courant
  /\ Tourner(IF cadre \in CadresAcceptes
             THEN [boucle EXCEPT !.courant = cadre, !.configure = "non"]
             ELSE [boucle EXCEPT !.rejet = TRUE])
  /\ UNCHANGED <<cadre, fichiers, cloture, croisee>>

\* Mutated form of AnnulerCadre: the request that was rejected stays.
AnnulerCadreSansEcrire ==
  /\ boucle.rejet
  /\ Tourner([boucle EXCEPT !.rejet = FALSE])
  /\ UNCHANGED <<cadre, fichiers, cloture, croisee>>

\* The rejected request is overwritten with the frame applied: so is a newer one.
AnnulerCadre ==
  /\ boucle.rejet
  /\ cadre' = boucle.courant
  /\ croisee' = (croisee \/ cadre \in CadresAcceptes)
  /\ Tourner([boucle EXCEPT !.rejet = FALSE])
  /\ UNCHANGED <<fichiers, cloture>>

\* A new generation of the preset: the encoder has to be configured again.
VoirGeneration ==
  /\ qualite.generation # boucle.vue
  /\ Tourner([boucle EXCEPT !.vue = qualite.generation, !.configure = "non"])
  /\ UNCHANGED <<cadre, fichiers, cloture, croisee>>

\* A fresh image while the encoder is not configured.  The cap is read, then the profile.
Configurer ==
  /\ ~boucle.rejet /\ boucle.configure = "non"
  /\ Tourner([boucle EXCEPT !.plafond = qualite.plafond, !.configure = "debit"])
  /\ UNCHANGED <<cadre, fichiers, cloture, croisee>>

AchevConfiguration ==
  /\ boucle.configure = "debit"
  /\ Tourner([boucle EXCEPT !.profil = qualite.profil, !.configure = "oui"])
  /\ UNCHANGED <<cadre, fichiers, cloture, croisee>>

\* enregistrement_voulu.
Voulu ==
  IF enregistrement.generation > 0
  THEN enregistrement.chemin
  ELSE CheminEnregistrement(Base, epoque)

\* EnregistreurMp4::clore: a file without images is removed.
Clos(fs) ==
  IF boucle.muxeur = Aucun THEN fs
  ELSE [fs EXCEPT ![boucle.muxeur] = IF boucle.images = 0 THEN Aucun ELSE "lisible"]

\* The epoch that closes the recording.
AvecCloture == IF boucle.muxeur = Aucun THEN cloture ELSE [cloture EXCEPT ![boucle.muxeur] = epoque]

\* The recording wanted is not the one open: close, open (which truncates).
Enregistrer ==
  /\ usage = "enregistrement" /\ boucle.configure = "oui"
  /\ Voulu # boucle.muxeur
  /\ fichiers' = IF Voulu = Aucun THEN Clos(fichiers)
                                  ELSE [Clos(fichiers) EXCEPT ![Voulu] = "incomplet"]
  /\ cloture' = AvecCloture
  /\ Tourner([boucle EXCEPT !.muxeur = Voulu, !.images = 0])
  /\ UNCHANGED <<cadre, croisee>>

\* An image goes into the recording; one or more are told apart from none.
Filmer ==
  /\ boucle.configure = "oui" /\ boucle.muxeur # Aucun /\ boucle.images = 0
  /\ Tourner([boucle EXCEPT !.images = 1])
  /\ UNCHANGED <<cadre, fichiers, cloture, croisee>>

-----------------------------------------------------------------------------
\* The threads of a peer end between two turns of their loops.  The stream of the host
\* ends with clore, or, on an error of the capture or of the encoder, with the file as it is.
FinFlux(c, erreur) ==
  /\ c = "Controlled" => (\A f \in FilsHote : ecritures[f] = <<>>) /\ ~boucle.rejet
  /\ Terminer(c)
  /\ IF c = "Controlled"
     THEN /\ fichiers' = IF erreur THEN fichiers ELSE Clos(fichiers)
          /\ cloture' = AvecCloture
          /\ boucle' = BoucleInitiale
     ELSE UNCHANGED <<fichiers, boucle, cloture>>
  /\ UNCHANGED partage /\ UNCHANGED <<reglage, croisee, demandes>>

\* A new epoch: a new loop, a new emitting thread.
ReprendreFlux ==
  /\ Rouvrir
  /\ annonce' = Aucun
  /\ UNCHANGED <<rideau, qualite, ecritures, cadre, enregistrement, fichiers, boucle, cloture,
                 reglage, croisee, demandes>>

FilsFlux ==
  \/ \E c \in Cotes : ExecuterReglage(c)
  \/ RecevoirReglage \/ RecevoirAnnonce
  \/ \E f \in FilsHote : Ecriture(f)
  \/ usage = "confidentialite" /\ Annoncer

Boucle ==
  \/ AppliquerCadre \/ AnnulerCadre \/ VoirGeneration \/ Configurer \/ AchevConfiguration
  \/ Enregistrer \/ Filmer

NextFlux ==
  /\ usage \in UsagesFlux
  /\ \/ \E c \in Cotes : \E v \in Valeurs : DemanderFlux(c, v)
     \/ FilsFlux \/ Boucle
     \/ ReprendreFlux
     \/ \E c \in Cotes, erreur \in BOOLEAN : FinFlux(c, erreur)
     \/ (Couper \/ NextPermissions) /\ UNCHANGED varsFlux

\* The threads and the loop of the host run; the screen changes from time to time, so that
\* there is a fresh image.
FairFlux ==
  /\ \A c \in Cotes : WF_<<lien, varsFlux>>(usage \in UsagesFlux /\ ExecuterReglage(c))
  /\ \A f \in FilsHote : WF_<<lien, varsFlux>>(usage \in UsagesFlux /\ Ecriture(f))
  /\ WF_<<lien, varsFlux>>(usage \in UsagesFlux /\ FilsPermissions /\ UNCHANGED varsFlux)
  /\ WF_<<lien, varsFlux>>(usage \in UsagesFlux /\ RecevoirReglage)
  /\ WF_<<lien, varsFlux>>(usage \in UsagesFlux /\ RecevoirAnnonce)
  /\ WF_<<lien, varsFlux>>(usage = "confidentialite" /\ Annoncer)
  /\ WF_<<lien, varsFlux>>(usage \in UsagesFlux /\ Boucle)

TypeFlux ==
  /\ rideau \in [Cotes -> BOOLEAN]
  /\ qualite.profil \in Qualites /\ qualite.plafond \in Qualites
  /\ cadre \in Cadres
  /\ fichiers \in [FichiersPossibles -> {Aucun, "incomplet", "lisible"}]
  /\ boucle.configure \in {"non", "debit", "oui"}
  /\ boucle.courant \in CadresAcceptes \cup {Defaut}
  /\ boucle.muxeur \in FichiersPossibles \cup {Aucun}
  /\ demandes \in 0..MaxDemandes

-----------------------------------------------------------------------------
(***************************************************************************)
(* The indicator of the controller ends up showing the curtain of the      *)
(* host, whichever peer asked last, and also after a cut that loses        *)
(* requests or announcements, once a connection lasts.                     *)
(***************************************************************************)
ConfidentialiteAnnoncee ==
  <>[](usage = "confidentialite" /\ ouvert => rideau["Controller"] = rideau["Controlled"])

(***************************************************************************)
(* The loop ends up with the profile and the cap that are stored, however  *)
(* its reads fell between the stores, also in a new epoch; and these are   *)
(* those of the last preset, unless two threads stored at the same time.   *)
(***************************************************************************)
QualiteAppliquee ==
  <>[](usage = "qualite" /\ ouvert =>
         /\ boucle.configure = "oui"
         /\ boucle.profil = qualite.profil /\ boucle.plafond = qualite.plafond
         /\ reglage # Aucun /\ ~croisee =>
              qualite.profil = reglage /\ qualite.plafond = reglage)

(***************************************************************************)
(* The frame asked for and the frame streamed end up equal, a rejected     *)
(* request being undone; and it is the last one asked for when the         *)
(* back-end accepts it, in a new epoch too, unless it came while a former  *)
(* one was being undone.                                                   *)
(***************************************************************************)
CadreApplique ==
  <>[](usage = "cadre" /\ ouvert =>
         /\ cadre = boucle.courant
         /\ reglage \in CadresAcceptes /\ ~croisee => boucle.courant = reglage)

(***************************************************************************)
(* The three together: once the users are quiet, what the threads of the   *)
(* host do and show is what was asked for last (curtain, quality, frame).  *)
(***************************************************************************)
FluxConverge == ConfidentialiteAnnoncee /\ QualiteAppliquee /\ CadreApplique

(***************************************************************************)
(* A recording that can be read is not lost.  That of the start, which     *)
(* each epoch writes under a name of its own (chemin_enregistrement), is   *)
(* never touched again, whatever orders and renewals follow.  One that an  *)
(* order named is truncated, in the epoch that closed it, only by a new    *)
(* order for it.  The next epoch does truncate it: its loop finds the      *)
(* order still in force and opens that file as if it were new, although    *)
(* "un muxeur MP4 clos ne se rouvre pas" (chemin_enregistrement), and what *)
(* it held before the cut is lost.                                         *)
(***************************************************************************)
EnregistrementSauf ==
  [][\A f \in FichiersPossibles :
       fichiers[f] = "lisible" /\ fichiers'[f] # "lisible" =>
         f \notin Initiaux /\ cloture[f] < epoque]_<<lien, varsFlux>>

=============================================================================
