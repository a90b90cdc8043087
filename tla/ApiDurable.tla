----------------------------- MODULE ApiDurable -----------------------------
(***************************************************************************)
(* The administration API (nd-api): one thread per request applies its     *)
(* change to the stores in memory, takes a picture of all of them, one     *)
(* lock after the other, and writes it to the disk before it answers Ok.   *)
(* The picture is taken before the lock of the file: an older one may be   *)
(* written over a newer one.  A stop loses what only the memory holds.     *)
(***************************************************************************)
EXTENDS Bancs

CONSTANTS
  MaxRequetesApi,       \* requests of a behaviour (bound)
  Ecritures,            \* the stores each request changes, in order
  MaxRedemarragesApi    \* stops of the server (bound)

RequetesApi == 1..MaxRequetesApi
Magasins == {"groupes", "alloc", "carnet", "roles", "partages"}

ASSUME ApiAssumption ==
  /\ MaxRequetesApi \in Nat \ {0} /\ MaxRedemarragesApi \in Nat
  /\ \A e \in Ecritures : e \in Seq(Magasins) /\ e # <<>> /\ IsInjective(e)

VARIABLES
  etape,          \* of each request
  ecriture,       \* the stores each request changes
  rang,           \* how far the request is in its changes, then in its picture
  image,          \* EtatPersistant of each request
  magasins,       \* the stores in memory: the requests whose change each holds
  temporaire,     \* the content of <chemin>.tmp
  disque,         \* the content of the file
  verrouFichier,  \* Storage::verrou: the request that holds it, or 0
  identifiant,    \* the id AllocateId gave to each request
  redemarrages,
  auteur,         \* auxiliary: the request that wrote the file last, or 0
  anterieures,    \* auxiliary: the requests answered Ok before each was received
  perdues         \* auxiliary: the requests answered Ok and lost in a stop

varsApi == <<etape, ecriture, rang, image, magasins, temporaire, disque, verrouFichier,
             identifiant, redemarrages, auteur, anterieures, perdues>>

Vierge == [m \in Magasins |-> {}]

InitApi ==
  /\ etape = [r \in RequetesApi |-> "libre"]
  /\ ecriture = [r \in RequetesApi |-> <<>>]
  /\ rang = [r \in RequetesApi |-> 1]
  /\ image = [r \in RequetesApi |-> Vierge]
  /\ magasins = Vierge /\ temporaire = Vierge /\ disque = Vierge
  /\ verrouFichier = 0 /\ redemarrages = 0 /\ auteur = 0
  /\ identifiant = [r \in RequetesApi |-> 0]
  /\ anterieures = [r \in RequetesApi |-> {}] /\ perdues = {}

Acquittees == {r \in RequetesApi : etape[r] = "ok"}
Contient(etat, r) == \A i \in DOMAIN ecriture[r] : r \in etat[ecriture[r][i]]

\* The order in which instantane locks the stores, and those that a request may change.
OrdreInstantane == <<"groupes", "alloc", "carnet", "roles", "partages">>
Concernes ==
  {i \in DOMAIN OrdreInstantane : \E e \in Ecritures : OrdreInstantane[i] \in ToSet(e)}

-----------------------------------------------------------------------------
\* serve, handle_conn: a thread of its own.
Accueillir(r, e) ==
  /\ etape[r] = "libre" /\ \A q \in 1..(r - 1) : etape[q] # "libre"
  /\ etape' = [etape EXCEPT ![r] = "applique"]
  /\ ecriture' = [ecriture EXCEPT ![r] = e]
  /\ anterieures' = [anterieures EXCEPT ![r] = Acquittees]
  /\ UNCHANGED <<rang, image, magasins, temporaire, disque, verrouFichier, identifiant,
                 redemarrages, auteur, perdues>>

\* traiter_requete: the next store, under its own lock.  AllocateurId::allouer gives the
\* next rank of the counter, which counts what its store holds.
Modifier(r) ==
  LET m == ecriture[r][rang[r]]
      fini == rang[r] = Len(ecriture[r]) IN
    /\ etape[r] = "applique"
    /\ magasins' = [magasins EXCEPT ![m] = @ \cup {r}]
    /\ identifiant' = IF m = "alloc"
                      THEN [identifiant EXCEPT ![r] = Cardinality(magasins[m]) + 1]
                      ELSE identifiant
    /\ etape' = [etape EXCEPT ![r] = IF fini THEN "instantane" ELSE @]
    /\ rang' = [rang EXCEPT ![r] = IF fini THEN 1 ELSE @ + 1]
    /\ UNCHANGED <<ecriture, image, temporaire, disque, verrouFichier, redemarrages,
                   auteur, anterieures, perdues>>

\* instantane: the next store that a request may change (the others do not vary).
Photographier(r) ==
  /\ etape[r] = "instantane"
  /\ \E i \in Concernes :
       LET m == OrdreInstantane[i]
           fini == \A j \in Concernes : j <= i IN
         /\ i >= rang[r] /\ \A j \in Concernes : j >= rang[r] => i <= j
         /\ image' = [image EXCEPT ![r][m] = magasins[m]]
         /\ etape' = [etape EXCEPT ![r] = IF fini THEN "sauvegarde" ELSE @]
         /\ rang' = [rang EXCEPT ![r] = IF fini THEN 1 ELSE i + 1]
  /\ UNCHANGED <<ecriture, magasins, temporaire, disque, verrouFichier, identifiant,
                 redemarrages, auteur, anterieures, perdues>>

\* Mutated form of EcrireTemporaire: saves share the temporary file without the lock.
EcrireTemporaireSansVerrou(r) ==
  /\ etape[r] = "sauvegarde"
  /\ verrouFichier' = r /\ temporaire' = image[r]
  /\ image' = [image EXCEPT ![r] = Vierge]
  /\ etape' = [etape EXCEPT ![r] = "renommage"]
  /\ UNCHANGED <<ecriture, rang, magasins, disque, identifiant, redemarrages,
                 auteur, anterieures, perdues>>

\* sauvegarder: the lock of the file, the temporary file.
EcrireTemporaire(r) ==
  /\ etape[r] = "sauvegarde" /\ verrouFichier = 0
  /\ verrouFichier' = r /\ temporaire' = image[r]
  /\ image' = [image EXCEPT ![r] = Vierge]
  /\ etape' = [etape EXCEPT ![r] = "renommage"]
  /\ UNCHANGED <<ecriture, rang, magasins, disque, identifiant, redemarrages,
                 auteur, anterieures, perdues>>

\* sauvegarder: the rename, and the answer Ok.
Renommer(r) ==
  /\ etape[r] = "renommage"
  /\ disque' = temporaire /\ auteur' = r
  /\ verrouFichier' = 0
  /\ etape' = [etape EXCEPT ![r] = "ok"]
  /\ UNCHANGED <<ecriture, rang, image, magasins, temporaire, identifiant, redemarrages,
                 anterieures, perdues>>

\* An error of the temporary file or of the rename: erreur_persistance.  The change stays
\* in memory.
EchouerSauvegarde(r) ==
  /\ etape[r] = "renommage"
  /\ verrouFichier' = 0
  /\ etape' = [etape EXCEPT ![r] = "erreur"]
  /\ UNCHANGED <<ecriture, rang, image, magasins, temporaire, disque, identifiant,
                 redemarrages, auteur, anterieures, perdues>>

\* The process stops and starts again from the file (Storage::charger): threads and memory
\* are lost.
RedemarrerApi ==
  /\ redemarrages < MaxRedemarragesApi
  /\ redemarrages' = redemarrages + 1
  /\ magasins' = disque
  /\ verrouFichier' = 0
  /\ etape' = [r \in RequetesApi |-> IF etape[r] \in {"libre", "ok", "erreur"}
                                     THEN etape[r] ELSE "morte"]
  /\ image' = [r \in RequetesApi |-> Vierge] /\ rang' = [r \in RequetesApi |-> 1]
  /\ perdues' = perdues \cup {r \in Acquittees : ~Contient(disque, r)}
  /\ UNCHANGED <<ecriture, temporaire, disque, identifiant, auteur, anterieures>>

NextApi ==
  /\ banc = "api"
  /\ \/ \E r \in RequetesApi :
          \/ \E e \in Ecritures : Accueillir(r, e)
          \/ Modifier(r) \/ Photographier(r) \/ EcrireTemporaire(r) \/ Renommer(r)
          \/ EchouerSauvegarde(r)
     \/ RedemarrerApi
  /\ UNCHANGED bancs

TypeApi ==
  /\ etape \in [RequetesApi -> {"libre", "applique", "instantane", "sauvegarde",
                                "renommage", "ok", "erreur", "morte"}]
  /\ \A etat \in {magasins, temporaire, disque} : etat \in [Magasins -> SUBSET RequetesApi]
  /\ verrouFichier \in RequetesApi \cup {0}
  /\ identifiant \in [RequetesApi -> 0..MaxRequetesApi]

-----------------------------------------------------------------------------
(***************************************************************************)
(* A request loses nothing that was answered Ok before it came: whatever   *)
(* saves fail, run together or are cut by a stop, the file holds every     *)
(* change answered Ok before the request that wrote the file was received  *)
(* (persister, sauvegarder); and an id is given twice only when the first  *)
(* of the two was lost in a stop.                                          *)
(***************************************************************************)
PersistanceSuivie ==
  /\ auteur # 0 => \A q \in anterieures[auteur] \ perdues : Contient(disque, q)
  /\ \A q, r \in Acquittees :
       q # r /\ identifiant[q] = identifiant[r] /\ identifiant[q] # 0
       => {q, r} \cap perdues # {}

(***************************************************************************)
(* The allocator never gives an id again, thanks to a counter kept on the  *)
(* disk before the answer (the doc of allocation.rs).  The code does not   *)
(* keep it: a save of an older picture may take the id off the file.       *)
(***************************************************************************)
IdJamaisReattribue ==
  \A q, r \in Acquittees :
    q # r /\ identifiant[q] # 0 => identifiant[q] # identifiant[r]

=============================================================================
