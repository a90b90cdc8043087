------------------------------ MODULE DistantFs ------------------------------
(***************************************************************************)
(* Listing and download of remote files inside a session: requests of the  *)
(* application of the controller, answers read on the disk of the host,    *)
(* and the tables where the receiving thread of the controller leaves them *)
(* for whoever waits.  An answer is matched with a request by its key: the *)
(* path of a listing, the path and the offset of a slice.                  *)
(*                                                                         *)
(* Lengths are counted in slices.  The disk of the host changes: version v *)
(* of a directory, or of the file, is all that is known of its content.    *)
(***************************************************************************)
EXTENDS SessionEtendue, FiniteSets, SequencesExt

CONSTANTS
  Appelants,         \* threads of the application of the controller
  Chemins,           \* directories
  Longueurs,         \* length of the file in each of its versions
  MaxAppels,         \* calls of the application (bound)
  REPONSES_MAX,      \* places in a table of answers
  Rien

ASSUME DistantFsAssumption ==
  /\ Longueurs \in Seq(Nat) /\ Longueurs # <<>>
  /\ REPONSES_MAX \in Nat \ {0} /\ MaxAppels \in Nat

VARIABLES
  version,           \* of the disk of the host
  appel,             \* what each thread of the application waits for
  recues,            \* ReponsesListing::recues and ReponsesFichier::recues
  aEmettre,          \* listing_a_emettre, fichier_a_emettre
  local,             \* the file each thread writes
  rendu,             \* what its last call returned
  appels             \* auxiliary: calls so far

varsFs == <<version, appel, recues, aEmettre, local, rendu, appels>>

Genres == {"Listing", "Tranche"}
MaxVersion == Len(Longueurs)

\* The file of the host, slice by slice, and a longer one found on the disk of the
\* controller.
Contenu(v) == [i \in 1..Longueurs[v] |-> <<v, i>>]
Ancien     == [i \in 1..3 |-> <<0, i>>]

Cle(genre, chemin, offset) == [genre |-> genre, chemin |-> chemin, offset |-> offset]

InitFs ==
  /\ version = 1
  /\ appel = [a \in Appelants |-> Rien]
  /\ recues = [g \in Genres |-> <<>>]
  /\ aEmettre = [g \in Genres |-> <<>>]
  /\ local = [a \in Appelants |-> Ancien]
  /\ rendu = [a \in Appelants |-> Rien]
  /\ appels = 0

-----------------------------------------------------------------------------
\* Mutated form of Purger: what a former request left is kept.
PurgerRien(table, cle) == table

\* purger_chemin, purger_cle: the others are kept, in their order.
Purger(table, cle) ==
  LET garde[i \in 1..Len(table)] ==
        LET avant == IF i = 1 THEN <<>> ELSE garde[i - 1]
        IN IF table[i].cle = cle THEN avant ELSE Append(avant, table[i])
  IN IF table = <<>> THEN <<>> ELSE garde[Len(table)]

\* Mutated form of Deposer: the table has no bound.
DeposerSansOublier(table, r) == Append(table, r)

\* deposer: when the table is full the oldest answer is forgotten.
Deposer(table, r) ==
  IF Len(table) >= REPONSES_MAX THEN Append(Tail(table), r) ELSE Append(table, r)

\* attendre: the first answer with that key is taken; swap_remove puts the last one in
\* its place.
Position(table, cle) ==
  IF \E i \in 1..Len(table) : table[i].cle = cle
  THEN SelectInSeq(table, LAMBDA r : r.cle = cle)
  ELSE 0

Oter(table, i) == Front([table EXCEPT ![i] = Last(table)])

\* The versions of the answers on their way, read for calls that may have failed since.
VersionsEnRoute(genre) ==
  LET trames == {i \in 1..Len(canal["Controller"]) : canal["Controller"][i].type = genre}
  IN {aEmettre[genre][i].version : i \in 1..Len(aEmettre[genre])}
       \cup {canal["Controller"][i].version : i \in trames}

\* A request leaves: what waits under its key in the table is purged first; what is on its
\* way cannot be.  `versions` remembers, for the properties, what the call may be given:
\* the versions the disk has from now on, and those on their way.
Demander(a, cle, versions) ==
  /\ recues' = [recues EXCEPT ![cle.genre] = Purger(@, cle)]
  /\ Commander("Controller", [type |-> "Demander", cle |-> cle])
  /\ appel' = [appel EXCEPT ![a] = [cle |-> cle, versions |-> versions]]

Commencer(a, cle) ==
  /\ appel[a] = Rien
  /\ appels < MaxAppels
  /\ appels' = appels + 1
  /\ Demander(a, cle, {version} \cup VersionsEnRoute(cle.genre))
  /\ rendu' = [rendu EXCEPT ![a] = Rien]
  /\ UNCHANGED <<version, aEmettre, local>>
  /\ UNCHANGED <<usage, ouvert, fils, epoque, canal, droits>>

\* ListingDistant::lister, TelechargementDistant::telecharger.
Lister(a, p)   == usage = "listing" /\ Commencer(a, Cle("Listing", p, 0))
Telecharger(a) == usage = "telechargement" /\ Commencer(a, Cle("Tranche", Rien, 0))

\* traiter_commandes: the request goes to the host.
EmettreRequete ==
  /\ Prendre("Controller", "Demander")
  /\ Emettre("Controller", [type |-> "Requete", cle |-> Commande("Controller").cle])
  /\ UNCHANGED <<usage, ouvert, fils, epoque, droits>> /\ UNCHANGED varsFs

-----------------------------------------------------------------------------
\* tranche_ou_erreur: one slice, and whether it is the last.
Tranche(offset) ==
  CASE offset > Longueurs[version] -> [erreur |-> TRUE, donnees |-> <<>>, fin |-> FALSE]
    [] offset = Longueurs[version] -> [erreur |-> FALSE, donnees |-> <<>>, fin |-> TRUE]
    [] offset < Longueurs[version] ->
         [erreur |-> FALSE, donnees |-> <<Contenu(version)[offset + 1]>>,
          fin |-> offset + 1 = Longueurs[version]]

\* lister_repertoire: what is there now.
Repertoire == [erreur |-> FALSE, donnees |-> <<version>>, fin |-> TRUE]

Refus == [erreur |-> TRUE, donnees |-> <<>>, fin |-> FALSE]

\* The host reads its disk, if it allows it, and leaves the answer for its emitter.
TraiterRequete ==
  /\ Recevoir("Controlled", "Requete")
  /\ LET cle == Trame("Controlled").cle
         corps == CASE ~Autorise("Controlled", "FileDownload") -> Refus
                    [] Autorise("Controlled", "FileDownload") /\ cle.genre = "Listing" -> Repertoire
                    [] Autorise("Controlled", "FileDownload") /\ cle.genre = "Tranche" ->
                         Tranche(cle.offset)
     IN aEmettre' = [aEmettre EXCEPT ![cle.genre] =
                       Append(@, [cle |-> cle, version |-> version, corps |-> corps])]
  /\ UNCHANGED <<usage, ouvert, fils, epoque, commandes, droits>>
  /\ UNCHANGED <<version, appel, recues, local, rendu, appels>>

\* envoyer_listings_en_attente, envoyer_fichiers_en_attente.
EmettreReponse(genre) ==
  /\ "Controlled" \in fils
  /\ aEmettre[genre] # <<>>
  /\ LET r == Head(aEmettre[genre]) IN
       Emettre("Controlled",
               [type |-> genre, cle |-> r.cle, version |-> r.version, corps |-> r.corps])
  /\ aEmettre' = [aEmettre EXCEPT ![genre] = Tail(@)]
  /\ UNCHANGED <<usage, ouvert, fils, epoque, commandes, droits>>
  /\ UNCHANGED <<version, appel, recues, local, rendu, appels>>

RecevoirReponse(genre) ==
  /\ Recevoir("Controller", genre)
  /\ LET t == Trame("Controller") IN
       recues' = [recues EXCEPT ![genre] = Deposer(@, [cle |-> t.cle, corps |-> t.corps])]
  /\ UNCHANGED <<usage, ouvert, fils, epoque, commandes, droits>>
  /\ UNCHANGED <<version, appel, aEmettre, local, rendu, appels>>

-----------------------------------------------------------------------------
\* Mutated form of Ecrire: what lies beyond the last slice stays.
EcrireSansCouper(contenu, offset, donnees, fin) ==
  [i \in 1..(IF Len(contenu) > offset + Len(donnees)
             THEN Len(contenu) ELSE offset + Len(donnees)) |->
     IF i \in (offset + 1)..(offset + Len(donnees)) THEN donnees[i - offset] ELSE contenu[i]]

\* ecrire_tranche_locale: the slice is written at its offset; the last one cuts the file.
Ecrire(contenu, offset, donnees, fin) ==
  LET ecrit == [i \in 1..(IF Len(contenu) > offset + Len(donnees)
                          THEN Len(contenu) ELSE offset + Len(donnees)) |->
                  IF i \in (offset + 1)..(offset + Len(donnees))
                  THEN donnees[i - offset] ELSE contenu[i]]
  IN IF fin THEN SubSeq(ecrit, 1, offset + Len(donnees)) ELSE ecrit

Rendre(a, resultat) ==
  /\ rendu' = [rendu EXCEPT ![a] = resultat]
  /\ appel' = [appel EXCEPT ![a] = Rien]

\* The answer with the key of the call is there: it is taken out of the table.
Reclamee(a) ==
  LET g == appel[a].cle.genre IN recues[g][Position(recues[g], appel[a].cle)].corps

Reclamable(a) ==
  appel[a] # Rien /\ Position(recues[appel[a].cle.genre], appel[a].cle) # 0

Restent(a) == LET g == appel[a].cle.genre IN Oter(recues[g], Position(recues[g], appel[a].cle))

RecevoirListing(a) ==
  /\ Reclamable(a) /\ appel[a].cle.genre = "Listing"
  /\ recues' = [recues EXCEPT !["Listing"] = Restent(a)]
  /\ Rendre(a, [erreur |-> Reclamee(a).erreur, versions |-> appel[a].versions,
               lu |-> Reclamee(a).donnees])
  /\ UNCHANGED lien /\ UNCHANGED <<version, aEmettre, local, appels>>

\* One turn of the loop of telecharger: write the slice, then return or ask the next one.
RecevoirTranche(a) ==
  /\ Reclamable(a) /\ appel[a].cle.genre = "Tranche"
  /\ LET r == Reclamee(a)
         cle == appel[a].cle
         suivante == Cle("Tranche", cle.chemin, cle.offset + Len(r.donnees)) IN
       IF r.erreur
       THEN /\ Rendre(a, [erreur |-> TRUE, versions |-> {}, lu |-> <<>>])
            /\ recues' = [recues EXCEPT !["Tranche"] = Restent(a)]
            /\ UNCHANGED <<local, commandes>>
       ELSE /\ local' = [local EXCEPT ![a] = Ecrire(@, cle.offset, r.donnees, r.fin)]
            /\ IF r.fin
               THEN /\ Rendre(a, [erreur |-> FALSE, versions |-> appel[a].versions, lu |-> <<>>])
                    /\ recues' = [recues EXCEPT !["Tranche"] = Restent(a)]
                    /\ UNCHANGED commandes
               ELSE /\ recues' = [recues EXCEPT !["Tranche"] = Purger(Restent(a), suivante)]
                    /\ Commander("Controller", [type |-> "Demander", cle |-> suivante])
                    /\ appel' = [appel EXCEPT ![a].cle = suivante]
                    /\ UNCHANGED rendu
  /\ UNCHANGED <<usage, ouvert, fils, epoque, canal, droits>>
  /\ UNCHANGED <<version, aEmettre, appels>>

\* The deadline of the wait: the call fails.
Expirer(a) ==
  /\ appel[a] # Rien /\ ~Reclamable(a)
  /\ Rendre(a, [erreur |-> TRUE, versions |-> {}, lu |-> <<>>])
  /\ UNCHANGED lien /\ UNCHANGED <<version, recues, aEmettre, local, appels>>

\* The disk of the host changes.
Modifier ==
  /\ usage \in {"listing", "telechargement"}
  /\ version < MaxVersion
  /\ version' = version + 1
  /\ appel' = [a \in Appelants |->
                 IF appel[a] = Rien THEN Rien
                 ELSE [appel[a] EXCEPT !.versions = @ \cup {version'}]]
  /\ UNCHANGED lien /\ UNCHANGED <<recues, aEmettre, local, rendu, appels>>

NextFs ==
  /\ usage \in {"listing", "telechargement"}
  /\ \/ \E a \in Appelants :
          \/ \E p \in Chemins : Lister(a, p)
          \/ Telecharger(a) \/ RecevoirListing(a) \/ RecevoirTranche(a) \/ Expirer(a)
     \/ EmettreRequete \/ TraiterRequete \/ Modifier
     \/ \E g \in Genres : EmettreReponse(g) \/ RecevoirReponse(g)
     \/ (NextLien \/ NextPermissions) /\ UNCHANGED varsFs

TypeFs ==
  /\ version \in 1..MaxVersion
  /\ \A a \in Appelants : appel[a] = Rien \/ appel[a].cle.genre \in Genres
  /\ \A g \in Genres : Len(recues[g]) <= REPONSES_MAX
  /\ appels \in 0..MaxAppels

-----------------------------------------------------------------------------
(***************************************************************************)
(* A listing that is returned was read after it was asked, or was on its   *)
(* way by then: never one that an earlier call of the same path, run out   *)
(* of time, left behind in the table (purger_chemin).                      *)
(***************************************************************************)
ListingFrais ==
  \A a \in Appelants :
    usage = "listing" /\ rendu[a] # Rien /\ ~rendu[a].erreur =>
      rendu[a].lu[1] \in rendu[a].versions

(***************************************************************************)
(* A download that ends well has written every slice at its place, and     *)
(* nothing else: nothing is left of a longer file that was there, and no   *)
(* slice that an earlier download left behind in the table gets into it.   *)
(* The slices are those of the versions the disk had during the call, or   *)
(* of those whose answers were on their way when it began, and the end is  *)
(* that of one of them: the file of the host, exactly, when there is one   *)
(* such version; a mixture of them when there are several.                 *)
(***************************************************************************)
TelechargementFidele ==
  \A a \in Appelants :
    usage = "telechargement" /\ rendu[a] # Rien /\ ~rendu[a].erreur =>
      /\ \E v \in rendu[a].versions : Len(local[a]) = Longueurs[v]
      /\ \A i \in 1..Len(local[a]) : \E v \in rendu[a].versions : local[a][i] = <<v, i>>

=============================================================================
