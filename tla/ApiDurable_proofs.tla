--------------------------- MODULE ApiDurable_proofs ---------------------------
(***************************************************************************)
(* Proofs about ApiDurable, for every set of writes and every number of    *)
(* requests and stops.  Reseau_proofs makes theorems of the composition    *)
(* from the lemmas of this module.                                         *)
(***************************************************************************)
EXTENDS ApiDurable, FiniteSetTheorems, TLAPS

Etapes == {"libre", "applique", "instantane", "sauvegarde", "renommage", "ok", "erreur",
           "morte"}
Contenus == [Magasins -> SUBSET RequetesApi]

(***************************************************************************)
(* Types and histories.                                                    *)
(***************************************************************************)
ApiTypes ==
  /\ etape \in [RequetesApi -> Etapes]
  /\ DOMAIN ecriture = RequetesApi
  /\ rang \in [RequetesApi -> Nat]
  /\ image \in [RequetesApi -> Contenus]
  /\ magasins \in Contenus /\ temporaire \in Contenus /\ disque \in Contenus
  /\ verrouFichier \in RequetesApi \cup {0} /\ auteur \in RequetesApi \cup {0}
  /\ identifiant \in [RequetesApi -> 0..MaxRequetesApi]
  /\ anterieures \in [RequetesApi -> SUBSET RequetesApi]
  /\ perdues \subseteq Acquittees
  /\ \A r \in RequetesApi :
       /\ etape[r] # "libre" => ecriture[r] \in Ecritures
       /\ etape[r] = "libre" => rang[r] = 1
       /\ etape[r] = "applique" => rang[r] \in DOMAIN ecriture[r]
       /\ \A q \in anterieures[r] : etape[q] = "ok" /\ q # r

\* What a request has changed is in the memory, unless a stop lost it.
MemoireInd ==
  \A r \in RequetesApi :
    /\ etape[r] = "applique" =>
         \A i \in DOMAIN ecriture[r] : i < rang[r] => r \in magasins[ecriture[r][i]]
    /\ \/ etape[r] \in {"instantane", "sauvegarde", "renommage"}
       \/ etape[r] = "ok" /\ r \notin perdues
       => Contient(magasins, r)

\* What a request must find in its picture: its own change, and those answered before it.
Suivies(r) == (anterieures[r] \ perdues) \cup {r}

\* A picture holds it as far as it goes, then the temporary file does, then the file.
ImageInd ==
  /\ \A r \in RequetesApi :
       /\ etape[r] = "instantane" =>
            \A q \in Suivies(r), i \in Concernes :
              i < rang[r] /\ OrdreInstantane[i] \in ToSet(ecriture[q])
              => q \in image[r][OrdreInstantane[i]]
       /\ etape[r] = "sauvegarde" => \A q \in Suivies(r) : Contient(image[r], q)
       /\ etape[r] = "renommage" =>
            verrouFichier = r /\ \A q \in Suivies(r) : Contient(temporaire, q)
  /\ auteur # 0 => /\ etape[auteur] = "ok"
                    /\ \A q \in anterieures[auteur] \ perdues : Contient(disque, q)

\* The requests whose change of the allocator is made, and everything that is said of
\* the allocator in the memory, in a picture or on the disk.
Tirees ==
  {r \in RequetesApi : /\ etape[r] # "libre"
                       /\ etape[r] = "applique" =>
                            \E i \in DOMAIN ecriture[r] : i < rang[r] /\ ecriture[r][i] = "alloc"}
Tirages ==
  {magasins["alloc"], disque["alloc"], temporaire["alloc"]}
    \cup {image[q]["alloc"] : q \in RequetesApi}

\* The identifiers of a set are its first ranks, without repetition.
Numerote(S) ==
  /\ \A q \in S : identifiant[q] \in 1..Cardinality(S)
  /\ \A q, r \in S : q # r => identifiant[q] # identifiant[r]

IdentifiantInd ==
  /\ \A S \in Tirages : S \subseteq Tirees /\ Numerote(S)
  /\ \A r \in RequetesApi : identifiant[r] # 0 =>
       etape[r] # "libre" /\ \E i \in DOMAIN ecriture[r] : ecriture[r][i] = "alloc"

ApiInd == ApiTypes /\ MemoireInd /\ ImageInd /\ IdentifiantInd

-----------------------------------------------------------------------------
\* The initial states.
LEMMA ApiInit == InitApi => ApiInd
<1> SUFFICES ASSUME InitApi PROVE ApiInd
  OBVIOUS
<1>1. \A r \in RequetesApi : etape[r] = "libre" /\ anterieures[r] = {} /\ identifiant[r] = 0
  BY DEF InitApi
<1>2. Vierge \in Contenus /\ 0 \in 0..MaxRequetesApi
  BY ApiAssumption DEF Vierge, Contenus
<1>3. ApiTypes
  BY <1>1, <1>2 DEF InitApi, ApiTypes, Etapes
<1>4. MemoireInd /\ ImageInd
  BY <1>1 DEF InitApi, MemoireInd, ImageInd
<1>5. Tirages \subseteq {{}}
  BY DEF InitApi, Tirages, Vierge, Magasins
<1>6. IdentifiantInd
  BY <1>1, <1>5 DEF IdentifiantInd, Numerote
<1> QED
  BY <1>3, <1>4, <1>6 DEF ApiInd

-----------------------------------------------------------------------------
\* The writes of a request are a non-empty sequence of stores without repetition.
LEMMA EcrituresLemma ==
  ASSUME ApiTypes, NEW r \in RequetesApi, etape[r] # "libre"
  PROVE  /\ Len(ecriture[r]) \in Nat \ {0} /\ DOMAIN ecriture[r] = 1..Len(ecriture[r])
         /\ \A i \in DOMAIN ecriture[r] : ecriture[r][i] \in Magasins
         /\ \A i, j \in DOMAIN ecriture[r] : ecriture[r][i] = ecriture[r][j] => i = j
         /\ ToSet(ecriture[r]) = {ecriture[r][i] : i \in DOMAIN ecriture[r]}
<1>1. ecriture[r] \in Ecritures
  BY DEF ApiTypes
<1>2. ecriture[r] \in Seq(Magasins) /\ ecriture[r] # <<>> /\ IsInjective(ecriture[r])
  BY <1>1, ApiAssumption
<1> QED
  BY <1>2 DEF IsInjective, ToSet

\* Every step keeps the types.
LEMMA ApiType == ApiInd /\ NextApi => ApiTypes'
<1> SUFFICES ASSUME ApiInd, NextApi PROVE ApiTypes'
  OBVIOUS
<1> USE DEF Acquittees, Etapes
<1>a. ApiTypes
  BY DEF ApiInd
<1>1. ASSUME NEW r \in RequetesApi, NEW e \in Ecritures, Accueillir(r, e) PROVE ApiTypes'
  <2>1. /\ etape[r] = "libre" /\ etape' = [etape EXCEPT ![r] = "applique"]
        /\ ecriture' = [ecriture EXCEPT ![r] = e]
        /\ anterieures' = [anterieures EXCEPT ![r] = Acquittees]
    BY <1>1 DEF Accueillir
  <2>2. 1 \in DOMAIN e
    BY ApiAssumption
  <2> QED
    BY <1>a, <1>1, <2>1, <2>2 DEF ApiTypes, Accueillir
<1>2. ASSUME NEW r \in RequetesApi, Modifier(r) PROVE ApiTypes'
  <2> DEFINE m == ecriture[r][rang[r]]
             fini == rang[r] = Len(ecriture[r])
  <2>1. /\ etape[r] = "applique"
        /\ magasins' = [magasins EXCEPT ![m] = @ \cup {r}]
        /\ etape' = [etape EXCEPT ![r] = IF fini THEN "instantane" ELSE @]
        /\ rang' = [rang EXCEPT ![r] = IF fini THEN 1 ELSE @ + 1]
        /\ UNCHANGED <<ecriture, image, temporaire, disque, verrouFichier, auteur,
                       anterieures, perdues>>
    BY <1>2 DEF Modifier
  <2>2. /\ rang[r] \in DOMAIN ecriture[r] /\ m \in Magasins
        /\ Len(ecriture[r]) \in Nat \ {0} /\ DOMAIN ecriture[r] = 1..Len(ecriture[r])
    BY <1>a, <2>1, EcrituresLemma DEF ApiTypes
  <2>3. magasins' \in Contenus
    BY <1>a, <2>1, <2>2 DEF ApiTypes, Contenus
  <2>4. identifiant' \in [RequetesApi -> 0..MaxRequetesApi]
    <3>1. CASE m # "alloc"
      BY <1>a, <1>2, <3>1 DEF ApiTypes, Modifier
    <3>2. CASE m = "alloc"
      <4> DEFINE S == magasins["alloc"]
      <4>1. S \in Tirages /\ S \subseteq RequetesApi
        BY <1>a DEF Tirages, ApiTypes, Contenus, Magasins
      <4>2. r \notin S
        BY <1>a, <2>1, <2>2, <3>2, <4>1, EcrituresLemma
           DEF ApiInd, IdentifiantInd, Tirees, ApiTypes
      <4>3. IsFiniteSet(RequetesApi) /\ Cardinality(RequetesApi) = MaxRequetesApi
        BY ApiAssumption, FS_Interval DEF RequetesApi
      <4>4. /\ IsFiniteSet(S) /\ Cardinality(S \cup {r}) = Cardinality(S) + 1
            /\ Cardinality(S \cup {r}) <= Cardinality(RequetesApi)
        <5>1. IsFiniteSet(S) /\ S \cup {r} \subseteq RequetesApi
          BY <4>1, <4>3, FS_Subset
        <5> QED
          BY <4>2, <4>3, <5>1, FS_Subset, FS_AddElement
      <4>5. Cardinality(S) + 1 \in 0..MaxRequetesApi
        BY <4>3, <4>4, FS_CardinalityType, ApiAssumption
      <4>6. identifiant' = [identifiant EXCEPT ![r] = Cardinality(S) + 1]
        BY <1>2, <3>2 DEF Modifier
      <4> QED
        BY <1>a, <4>5, <4>6 DEF ApiTypes
    <3> QED
      BY <3>1, <3>2
  <2>5. /\ etape' \in [RequetesApi -> Etapes] /\ rang' \in [RequetesApi -> Nat]
        /\ \A q \in RequetesApi : q # r => etape'[q] = etape[q] /\ rang'[q] = rang[q]
        /\ etape'[r] \in {"applique", "instantane"}
        /\ etape'[r] = "applique" => rang'[r] \in DOMAIN ecriture[r]
    BY <1>a, <2>1, <2>2 DEF ApiTypes
  <2>6. perdues' \subseteq Acquittees'
    BY <1>a, <2>1, <2>5 DEF ApiTypes
  <2>7. \A q \in RequetesApi :
          /\ etape'[q] # "libre" => ecriture'[q] \in Ecritures
          /\ etape'[q] = "libre" => rang'[q] = 1
          /\ etape'[q] = "applique" => rang'[q] \in DOMAIN ecriture'[q]
          /\ \A x \in anterieures'[q] : etape'[x] = "ok" /\ x # q
    BY <1>a, <2>1, <2>5 DEF ApiTypes
  <2> QED
    BY <1>a, <2>1, <2>3, <2>4, <2>5, <2>6, <2>7 DEF ApiTypes
<1>3. ASSUME NEW r \in RequetesApi, Photographier(r) PROVE ApiTypes'
  <2>1. PICK i \in Concernes :
          /\ image' = [image EXCEPT ![r][OrdreInstantane[i]] = magasins[OrdreInstantane[i]]]
          /\ \E p \in {"sauvegarde", "instantane"} : etape' = [etape EXCEPT ![r] = p]
          /\ \E k \in {1, i + 1} : rang' = [rang EXCEPT ![r] = k]
    BY <1>3, <1>a DEF Photographier, ApiTypes
  <2>2. etape[r] = "instantane" /\ UNCHANGED <<ecriture, magasins, temporaire, disque,
           verrouFichier, identifiant, auteur, anterieures, perdues>>
    BY <1>3 DEF Photographier
  <2>3. i \in Nat /\ OrdreInstantane[i] \in Magasins
    BY DEF Concernes, OrdreInstantane, Magasins
  <2>4. image' \in [RequetesApi -> Contenus]
    BY <1>a, <2>1, <2>3 DEF ApiTypes, Contenus
  <2> QED
    BY <1>a, <2>1, <2>2, <2>3, <2>4 DEF ApiTypes
<1>4. ASSUME NEW r \in RequetesApi, EcrireTemporaire(r) PROVE ApiTypes'
  <2>1. Vierge \in Contenus
    BY DEF Vierge, Contenus
  <2> QED
    BY <1>a, <1>4, <2>1 DEF ApiTypes, EcrireTemporaire
<1>5. ASSUME NEW r \in RequetesApi, Renommer(r) PROVE ApiTypes'
  BY <1>a, <1>5 DEF ApiTypes, Renommer
<1>6. ASSUME NEW r \in RequetesApi, EchouerSauvegarde(r) PROVE ApiTypes'
  BY <1>a, <1>6 DEF ApiTypes, EchouerSauvegarde
<1>7. CASE RedemarrerApi
  <2>1. Vierge \in Contenus
    BY DEF Vierge, Contenus
  <2> QED
    BY <1>a, <1>7, <2>1 DEF ApiTypes, RedemarrerApi
<1> QED
  BY <1>1, <1>2, <1>3, <1>4, <1>5, <1>6, <1>7 DEF NextApi

-----------------------------------------------------------------------------
\* Every step keeps in memory what the requests have changed.
LEMMA ApiMemoire == ApiInd /\ NextApi => MemoireInd'
<1> SUFFICES ASSUME ApiInd, NextApi PROVE MemoireInd'
  OBVIOUS
<1>a. ApiTypes /\ MemoireInd
  BY DEF ApiInd
<1>1. ASSUME NEW r \in RequetesApi, NEW e \in Ecritures, Accueillir(r, e) PROVE MemoireInd'
  <2>1. /\ etape \in [RequetesApi -> Etapes] /\ rang[r] = 1
        /\ etape' = [etape EXCEPT ![r] = "applique"]
        /\ ecriture' = [ecriture EXCEPT ![r] = e] /\ DOMAIN ecriture = RequetesApi
        /\ UNCHANGED <<rang, magasins, perdues>>
    BY <1>a, <1>1 DEF Accueillir, ApiTypes
  <2>2. \A i \in DOMAIN e : ~(i < 1)
    BY ApiAssumption
  <2> QED
    BY <1>a, <2>1, <2>2 DEF MemoireInd, Contient
<1>2. ASSUME NEW r \in RequetesApi, Modifier(r) PROVE MemoireInd'
  <2> DEFINE m == ecriture[r][rang[r]]
             fini == rang[r] = Len(ecriture[r])
  <2>1. /\ etape[r] = "applique"
        /\ magasins' = [magasins EXCEPT ![m] = @ \cup {r}]
        /\ etape' = [etape EXCEPT ![r] = IF fini THEN "instantane" ELSE @]
        /\ rang' = [rang EXCEPT ![r] = IF fini THEN 1 ELSE @ + 1]
        /\ UNCHANGED <<ecriture, perdues>>
    BY <1>2 DEF Modifier
  <2>2. /\ rang[r] \in DOMAIN ecriture[r] /\ m \in Magasins
        /\ Len(ecriture[r]) \in Nat \ {0} /\ DOMAIN ecriture[r] = 1..Len(ecriture[r])
        /\ magasins \in Contenus /\ etape \in [RequetesApi -> Etapes]
        /\ rang \in [RequetesApi -> Nat]
    BY <1>a, <2>1, EcrituresLemma DEF ApiTypes
  <2>3. /\ \A k \in Magasins : magasins[k] \subseteq magasins'[k]
        /\ r \in magasins'[m]
    BY <2>1, <2>2 DEF Contenus
  <2>4. ASSUME NEW q \in RequetesApi, etape[q] # "libre", NEW i \in DOMAIN ecriture[q],
               q \in magasins[ecriture[q][i]]
        PROVE  q \in magasins'[ecriture[q][i]]
    BY <1>a, <2>3, <2>4, EcrituresLemma
  <2>5. \A i \in DOMAIN ecriture[r] : i <= rang[r] => r \in magasins'[ecriture[r][i]]
    <3>1. \A i \in DOMAIN ecriture[r] : i < rang[r] => r \in magasins[ecriture[r][i]]
      BY <1>a, <2>1 DEF MemoireInd
    <3>2. \A i \in DOMAIN ecriture[r] : i <= rang[r] => i < rang[r] \/ i = rang[r]
      BY <2>2
    <3> QED
      BY <2>1, <2>3, <2>4, <3>1, <3>2
  <2>6. ASSUME NEW q \in RequetesApi, q # r
        PROVE  /\ etape'[q] = "applique" =>
                    \A i \in DOMAIN ecriture'[q] : i < rang'[q] => q \in magasins'[ecriture'[q][i]]
               /\ \/ etape'[q] \in {"instantane", "sauvegarde", "renommage"}
                  \/ etape'[q] = "ok" /\ q \notin perdues'
                  => \A i \in DOMAIN ecriture'[q] : q \in magasins'[ecriture'[q][i]]
    <3>1. etape'[q] = etape[q] /\ rang'[q] = rang[q] /\ ecriture' = ecriture
      BY <2>1, <2>2, <2>6
    <3> QED
      BY <1>a, <2>1, <2>4, <3>1 DEF MemoireInd, Contient
  <2>7. /\ etape'[r] = "applique" =>
             \A i \in DOMAIN ecriture'[r] : i < rang'[r] => r \in magasins'[ecriture'[r][i]]
        /\ \/ etape'[r] \in {"instantane", "sauvegarde", "renommage"}
           \/ etape'[r] = "ok" /\ r \notin perdues'
           => \A i \in DOMAIN ecriture'[r] : r \in magasins'[ecriture'[r][i]]
    <3>1. CASE fini
      <4>1. /\ etape'[r] = "instantane" /\ ecriture' = ecriture
            /\ \A i \in DOMAIN ecriture[r] : i <= rang[r]
        BY <2>1, <2>2, <3>1
      <4> QED
        BY <2>5, <4>1
    <3>2. CASE ~fini
      <4>1. etape'[r] = "applique" /\ rang'[r] = rang[r] + 1 /\ ecriture' = ecriture
        BY <2>1, <2>2, <3>2
      <4>2. \A i \in DOMAIN ecriture[r] : i < rang[r] + 1 => i <= rang[r]
        BY <2>2
      <4> QED
        BY <2>5, <4>1, <4>2
    <3> QED
      BY <3>1, <3>2
  <2> QED
    BY <2>6, <2>7 DEF MemoireInd, Contient
<1>3. ASSUME NEW r \in RequetesApi, Photographier(r) PROVE MemoireInd'
  <2>1. /\ etape[r] = "instantane" /\ UNCHANGED <<ecriture, magasins, perdues>>
        /\ \E p \in {"sauvegarde", "instantane"} : etape' = [etape EXCEPT ![r] = p]
        /\ \A q \in RequetesApi : q # r => rang'[q] = rang[q]
    BY <1>3, <1>a DEF Photographier, ApiTypes
  <2> QED
    BY <1>a, <2>1 DEF MemoireInd, Contient, ApiTypes
<1>4. ASSUME NEW r \in RequetesApi, EcrireTemporaire(r) PROVE MemoireInd'
  BY <1>a, <1>4 DEF MemoireInd, Contient, ApiTypes, EcrireTemporaire
<1>5. ASSUME NEW r \in RequetesApi, Renommer(r) PROVE MemoireInd'
  BY <1>a, <1>5 DEF MemoireInd, Contient, ApiTypes, Renommer
<1>6. ASSUME NEW r \in RequetesApi, EchouerSauvegarde(r) PROVE MemoireInd'
  BY <1>a, <1>6 DEF MemoireInd, Contient, ApiTypes, EchouerSauvegarde
<1>7. CASE RedemarrerApi
  <2>1. /\ magasins' = disque /\ UNCHANGED ecriture
        /\ perdues' = perdues \cup {r \in Acquittees : ~Contient(disque, r)}
        /\ \A r \in RequetesApi : etape'[r] \in {"libre", "ok", "erreur", "morte"}
        /\ \A r \in RequetesApi : etape'[r] = "ok" => etape[r] = "ok"
    BY <1>7 DEF RedemarrerApi
  <2> QED
    BY <2>1 DEF MemoireInd, Contient, Acquittees
<1> QED
  BY <1>1, <1>2, <1>3, <1>4, <1>5, <1>6, <1>7 DEF NextApi

-----------------------------------------------------------------------------
\* Every step keeps what a picture, the temporary file and the file hold.
LEMMA ApiImage == ApiInd /\ NextApi => ImageInd'
<1> SUFFICES ASSUME ApiInd, NextApi PROVE ImageInd'
  OBVIOUS
<1>a. ApiTypes /\ MemoireInd /\ ImageInd
  BY DEF ApiInd
<1>b. etape \in [RequetesApi -> Etapes] /\ image \in [RequetesApi -> Contenus]
  BY <1>a DEF ApiTypes
\* The requests that a request follows have their writes, and are done unless it is itself.
<1>c. ASSUME NEW r \in RequetesApi, NEW q \in Suivies(r)
      PROVE  q \in RequetesApi /\ (q = r \/ (etape[q] = "ok" /\ q \notin perdues))
  BY <1>a, <1>c DEF Suivies, ApiTypes
<1>1. ASSUME NEW r \in RequetesApi, NEW e \in Ecritures, Accueillir(r, e) PROVE ImageInd'
  <2>1. /\ etape[r] = "libre" /\ etape' = [etape EXCEPT ![r] = "applique"]
        /\ ecriture' = [ecriture EXCEPT ![r] = e] /\ DOMAIN ecriture = RequetesApi
        /\ anterieures' = [anterieures EXCEPT ![r] = Acquittees]
        /\ UNCHANGED <<rang, image, temporaire, disque, verrouFichier, auteur, perdues>>
    BY <1>a, <1>1 DEF Accueillir, ApiTypes
  <2>2. ASSUME NEW q \in RequetesApi, q # r
        PROVE  etape'[q] = etape[q] /\ anterieures'[q] = anterieures[q]
               /\ Suivies(q)' = Suivies(q)
    BY <1>a, <2>1, <2>2 DEF Suivies, ApiTypes
  <2>3. ASSUME NEW q \in RequetesApi, etape[q] # "libre" PROVE ecriture'[q] = ecriture[q]
    BY <2>1, <2>3
  <2>4. ASSUME NEW q \in RequetesApi, q # r, etape[q] # "libre"
        PROVE  \A s \in Suivies(q) : ecriture'[s] = ecriture[s]
    BY <1>c, <2>3, <2>4
  <2>5. ASSUME auteur # 0
        PROVE  etape'[auteur] = "ok" /\ \A q \in anterieures'[auteur] \ perdues' :
                                          Contient(disque, q)'
    <3>1. auteur \in RequetesApi /\ etape[auteur] = "ok" /\ auteur # r
      BY <1>a, <2>1, <2>5 DEF ImageInd, ApiTypes
    <3>2. \A q \in anterieures[auteur] : ecriture'[q] = ecriture[q]
      BY <1>a, <2>3, <3>1 DEF ApiTypes
    <3> QED
      BY <1>a, <2>1, <2>2, <2>5, <3>1, <3>2 DEF ImageInd, Contient
  <2>6. etape'[r] = "applique"
    BY <1>b, <2>1
  <2>7. ASSUME NEW q \in RequetesApi, etape'[q] = "instantane"
        PROVE  \A s \in Suivies(q)', i \in Concernes :
                 i < rang'[q] /\ OrdreInstantane[i] \in ToSet(ecriture'[s])
                 => s \in image'[q][OrdreInstantane[i]]
    <3>1. q # r /\ etape[q] = "instantane"
      BY <2>2, <2>6, <2>7
    <3> QED
      BY <1>a, <2>1, <2>2, <2>4, <3>1 DEF ImageInd
  <2>8. ASSUME NEW q \in RequetesApi
        PROVE  /\ etape'[q] = "sauvegarde" => \A s \in Suivies(q)' : Contient(image[q], s)'
               /\ etape'[q] = "renommage" =>
                    verrouFichier' = q /\ \A s \in Suivies(q)' : Contient(temporaire, s)'
    BY <1>a, <2>1, <2>2, <2>4, <2>6 DEF ImageInd, Contient
  <2> QED
    BY <2>1, <2>5, <2>7, <2>8 DEF ImageInd
<1>2. ASSUME NEW r \in RequetesApi, Modifier(r) PROVE ImageInd'
  <2>1. /\ etape[r] = "applique"
        /\ \/ etape'[r] = "applique"
           \/ etape'[r] = "instantane" /\ rang'[r] = 1
        /\ \A q \in RequetesApi : q # r => etape'[q] = etape[q] /\ rang'[q] = rang[q]
        /\ UNCHANGED <<ecriture, image, temporaire, disque, verrouFichier, auteur,
                       anterieures, perdues>>
    BY <1>a, <1>2 DEF Modifier, ApiTypes
  <2>2. \A i \in Concernes : ~(i < 1)
    BY DEF Concernes, OrdreInstantane
  <2>3. auteur # 0 => etape'[auteur] = "ok"
    BY <1>a, <2>1 DEF ImageInd, ApiTypes
  <2> QED
    BY <1>a, <2>1, <2>2, <2>3 DEF ImageInd, Contient, Suivies
<1>3. ASSUME NEW r \in RequetesApi, Photographier(r) PROVE ImageInd'
  <2>0. /\ etape[r] = "instantane" /\ UNCHANGED <<ecriture, magasins, temporaire, disque,
           verrouFichier, auteur, anterieures, perdues>>
    BY <1>3 DEF Photographier
  <2> DEFINE fini(i) == \A j \in Concernes : j <= i
  <2>p. PICK i \in Concernes :
          /\ i >= rang[r] /\ \A j \in Concernes : j >= rang[r] => i <= j
          /\ image' = [image EXCEPT ![r][OrdreInstantane[i]] = magasins[OrdreInstantane[i]]]
          /\ etape' = [etape EXCEPT ![r] = IF fini(i) THEN "sauvegarde" ELSE @]
          /\ rang' = [rang EXCEPT ![r] = IF fini(i) THEN 1 ELSE i + 1]
    BY <1>3 DEF Photographier
  <2>d. /\ fini(i) => etape' = [etape EXCEPT ![r] = "sauvegarde"]
        /\ ~fini(i) => etape' = etape /\ rang' = [rang EXCEPT ![r] = i + 1]
    <3> HIDE DEF fini
    <3> QED
      BY <1>a, <1>b, <2>p DEF ApiTypes
  <2>1. /\ i >= rang[r] /\ \A j \in Concernes : j >= rang[r] => i <= j
        /\ image' = [image EXCEPT ![r][OrdreInstantane[i]] = magasins[OrdreInstantane[i]]]
        /\ \/ /\ \A j \in Concernes : j <= i
              /\ etape' = [etape EXCEPT ![r] = "sauvegarde"]
           \/ etape' = etape /\ rang' = [rang EXCEPT ![r] = i + 1]
        /\ \A q \in RequetesApi : q # r => rang'[q] = rang[q]
    BY <1>a, <2>p, <2>d DEF ApiTypes
  <2>2. /\ Concernes \subseteq 1..5 /\ rang[r] \in Nat
        /\ \A j \in Concernes : OrdreInstantane[j] \in Magasins
        /\ \A j, k \in Concernes : OrdreInstantane[j] = OrdreInstantane[k] => j = k
    BY <1>a DEF Concernes, OrdreInstantane, Magasins, ApiTypes
  <2>3. Suivies(r)' = Suivies(r) /\ \A q \in RequetesApi : Suivies(q)' = Suivies(q)
    BY <2>0 DEF Suivies
  \* The picture is now right up to i.
  <2>4. ASSUME NEW q \in Suivies(r), NEW j \in Concernes, j <= i,
               OrdreInstantane[j] \in ToSet(ecriture[q])
        PROVE  q \in image'[r][OrdreInstantane[j]]
    <3>0. q \in RequetesApi /\ etape[q] # "libre" /\ Contient(magasins, q)
      BY <1>a, <1>c, <2>0 DEF MemoireInd
    <3>1. CASE j = i
      <4>d. ToSet(ecriture[q]) = {ecriture[q][k] : k \in DOMAIN ecriture[q]}
        BY <1>a, <3>0, EcrituresLemma
      <4>0. PICK k \in DOMAIN ecriture[q] : ecriture[q][k] = OrdreInstantane[j]
        BY <2>4, <4>d
      <4>1. q \in magasins[OrdreInstantane[i]]
        BY <3>0, <3>1, <4>0 DEF Contient
      <4> QED
        BY <1>b, <2>1, <2>2, <3>1, <4>1 DEF Contenus
    <3>2. CASE j # i
      <4>1. j < rang[r]
        BY <2>1, <2>2, <2>4, <3>2
      <4>2. q \in image[r][OrdreInstantane[j]]
        BY <1>a, <2>0, <2>4, <4>1 DEF ImageInd
      <4>3. image'[r][OrdreInstantane[j]] = image[r][OrdreInstantane[j]]
        BY <1>b, <2>1, <2>2, <3>2 DEF Contenus
      <4> QED
        BY <4>2, <4>3
    <3> QED
      BY <3>1, <3>2
  <2>5. ASSUME NEW q \in RequetesApi, q # r
        PROVE  etape'[q] = etape[q] /\ rang'[q] = rang[q] /\ image'[q] = image[q]
    BY <1>b, <2>1, <2>5
  <2>6. CASE etape' = etape /\ rang' = [rang EXCEPT ![r] = i + 1]
    <3>1. rang'[r] = i + 1 /\ \A j \in Concernes : j < i + 1 => j <= i
      BY <1>a, <2>2, <2>6 DEF ApiTypes
    <3>2. ASSUME NEW q \in RequetesApi, etape'[q] = "instantane"
          PROVE  \A s \in Suivies(q)', j \in Concernes :
                   j < rang'[q] /\ OrdreInstantane[j] \in ToSet(ecriture'[s])
                   => s \in image'[q][OrdreInstantane[j]]
      <4>1. CASE q = r
        BY <2>0, <2>3, <2>4, <3>1, <4>1
      <4>2. CASE q # r
        BY <1>a, <2>0, <2>3, <2>5, <3>2, <4>2 DEF ImageInd
      <4> QED
        BY <4>1, <4>2
    <3>3. ASSUME NEW q \in RequetesApi
          PROVE  /\ etape'[q] = "sauvegarde" => \A s \in Suivies(q)' : Contient(image[q], s)'
                 /\ etape'[q] = "renommage" =>
                      verrouFichier' = q /\ \A s \in Suivies(q)' : Contient(temporaire, s)'
      BY <1>a, <2>0, <2>3, <2>5, <2>6 DEF ImageInd, Contient
    <3> QED
      BY <1>a, <2>0, <2>6, <3>2, <3>3 DEF ImageInd, Contient
  <2>7. CASE (\A j \in Concernes : j <= i) /\ etape' = [etape EXCEPT ![r] = "sauvegarde"]
    <3>1. etape'[r] = "sauvegarde"
      BY <1>b, <2>7
    <3>2. ASSUME NEW q \in Suivies(r), NEW k \in DOMAIN ecriture[q]
          PROVE  q \in image'[r][ecriture[q][k]]
      <4>1. q \in RequetesApi /\ etape[q] # "libre"
        BY <1>c, <2>0
      <4>2. /\ ecriture[q] \in Ecritures /\ ecriture[q][k] \in ToSet(ecriture[q])
            /\ ecriture[q][k] \in Magasins
        BY <1>a, <4>1, EcrituresLemma DEF ApiTypes
      <4>3. PICK j \in 1..5 : OrdreInstantane[j] = ecriture[q][k]
        <5>1. \A m \in Magasins : \E j \in 1..5 : OrdreInstantane[j] = m
          BY DEF Magasins, OrdreInstantane
        <5> QED
          BY <4>2, <5>1
      <4>4. j \in Concernes
        BY <4>2, <4>3 DEF Concernes, OrdreInstantane
      <4> QED
        BY <2>4, <2>7, <4>2, <4>3, <4>4
    <3>3. ASSUME NEW q \in RequetesApi, etape'[q] = "instantane"
          PROVE  \A s \in Suivies(q)', j \in Concernes :
                   j < rang'[q] /\ OrdreInstantane[j] \in ToSet(ecriture'[s])
                   => s \in image'[q][OrdreInstantane[j]]
      <4>1. q # r
        BY <3>1, <3>3
      <4> QED
        BY <1>a, <2>0, <2>3, <2>5, <3>3, <4>1 DEF ImageInd
    <3>4. ASSUME NEW q \in RequetesApi
          PROVE  /\ etape'[q] = "sauvegarde" => \A s \in Suivies(q)' : Contient(image[q], s)'
                 /\ etape'[q] = "renommage" =>
                      verrouFichier' = q /\ \A s \in Suivies(q)' : Contient(temporaire, s)'
      <4>1. CASE q = r
        BY <2>0, <2>3, <3>1, <3>2, <4>1 DEF Contient
      <4>2. CASE q # r
        BY <1>a, <2>0, <2>3, <2>5, <4>2 DEF ImageInd, Contient
      <4> QED
        BY <4>1, <4>2
    <3>5. auteur' # 0 => /\ etape'[auteur'] = "ok"
                         /\ \A q \in anterieures'[auteur'] \ perdues' : Contient(disque, q)'
      BY <1>a, <2>0, <2>5 DEF ImageInd, ApiTypes, Contient
    <3> QED
      BY <3>3, <3>4, <3>5 DEF ImageInd
  <2> QED
    BY <2>1, <2>6, <2>7
<1>4. ASSUME NEW r \in RequetesApi, EcrireTemporaire(r) PROVE ImageInd'
  <2>1. /\ etape[r] = "sauvegarde" /\ verrouFichier = 0 /\ verrouFichier' = r
        /\ temporaire' = image[r] /\ image' = [image EXCEPT ![r] = Vierge]
        /\ etape' = [etape EXCEPT ![r] = "renommage"]
        /\ UNCHANGED <<ecriture, rang, disque, auteur, anterieures, perdues>>
    BY <1>4 DEF EcrireTemporaire
  <2>2. /\ \A q \in RequetesApi : q # r => etape'[q] = etape[q] /\ image'[q] = image[q]
        /\ etape'[r] = "renommage"
    BY <1>b, <2>1
  <2>3. ASSUME NEW q \in RequetesApi PROVE etape[q] # "renommage"
    BY <1>a, <2>1, ApiAssumption DEF ImageInd, RequetesApi
  <2>4. \A q \in RequetesApi : Suivies(q)' = Suivies(q)
    BY <2>1 DEF Suivies
  <2>5. \A q \in Suivies(r) : Contient(temporaire, q)'
    BY <1>a, <2>1 DEF ImageInd, Contient
  <2>6. auteur' # 0 => /\ etape'[auteur'] = "ok"
                       /\ \A q \in anterieures'[auteur'] \ perdues' : Contient(disque, q)'
    BY <1>a, <2>1, <2>2 DEF ImageInd, ApiTypes, Contient
  <2>7. ASSUME NEW q \in RequetesApi
        PROVE  /\ etape'[q] = "instantane" =>
                    \A s \in Suivies(q)', j \in Concernes :
                      j < rang'[q] /\ OrdreInstantane[j] \in ToSet(ecriture'[s])
                      => s \in image'[q][OrdreInstantane[j]]
               /\ etape'[q] = "sauvegarde" => \A s \in Suivies(q)' : Contient(image[q], s)'
               /\ etape'[q] = "renommage" =>
                    verrouFichier' = q /\ \A s \in Suivies(q)' : Contient(temporaire, s)'
    <3>1. CASE q = r
      BY <2>1, <2>2, <2>4, <2>5, <3>1
    <3>2. CASE q # r
      BY <1>a, <2>1, <2>2, <2>3, <2>4, <3>2 DEF ImageInd, Contient
    <3> QED
      BY <3>1, <3>2
  <2> QED
    BY <2>6, <2>7 DEF ImageInd
<1>5. ASSUME NEW r \in RequetesApi, Renommer(r) \/ EchouerSauvegarde(r) PROVE ImageInd'
  <2>1. /\ etape[r] = "renommage" /\ etape'[r] \in {"ok", "erreur"}
        /\ \A q \in RequetesApi : q # r => etape'[q] = etape[q]
        /\ \/ disque' = temporaire /\ auteur' = r /\ etape'[r] = "ok"
           \/ UNCHANGED <<disque, auteur>>
        /\ UNCHANGED <<ecriture, rang, image, temporaire, anterieures, perdues>>
    BY <1>b, <1>5 DEF Renommer, EchouerSauvegarde
  <2>2. ASSUME NEW q \in RequetesApi, q # r PROVE etape'[q] # "renommage"
    BY <1>a, <2>1, <2>2 DEF ImageInd
  <2>3. \A q \in Suivies(r) : Contient(temporaire, q)
    BY <1>a, <2>1 DEF ImageInd
  <2>4. auteur' # 0 => /\ etape'[auteur'] = "ok"
                       /\ \A q \in anterieures'[auteur'] \ perdues' : Contient(disque, q)'
    <3>1. CASE disque' = temporaire /\ auteur' = r /\ etape'[r] = "ok"
      BY <2>1, <2>3, <3>1 DEF Suivies, Contient
    <3>2. CASE UNCHANGED <<disque, auteur>>
      BY <1>a, <2>1, <3>2 DEF ImageInd, ApiTypes, Contient
    <3> QED
      BY <2>1, <3>1, <3>2
  <2> QED
    BY <1>a, <2>1, <2>2, <2>4 DEF ImageInd, Suivies, Contient
<1>7. CASE RedemarrerApi
  <2>1. /\ UNCHANGED <<ecriture, disque, auteur, anterieures>> /\ perdues \subseteq perdues'
        /\ \A r \in RequetesApi : etape'[r] \in {"libre", "ok", "erreur", "morte"}
        /\ \A r \in RequetesApi : etape[r] = "ok" => etape'[r] = "ok"
    BY <1>7 DEF RedemarrerApi
  <2> QED
    BY <1>a, <2>1 DEF ImageInd, ApiTypes, Contient
<1> QED
  BY <1>1, <1>2, <1>3, <1>4, <1>5, <1>7 DEF NextApi

-----------------------------------------------------------------------------
\* A step that draws no identifier, and only copies or empties the stores, keeps what is
\* said of them.
LEMMA SansTirage ==
  ASSUME IdentifiantInd, identifiant' = identifiant,
         Tirages' \subseteq Tirages \cup {{}}, Tirees \subseteq Tirees',
         \A r \in RequetesApi : etape[r] # "libre" => /\ etape'[r] # "libre"
                                                      /\ ecriture'[r] = ecriture[r]
  PROVE  IdentifiantInd'
<1>1. \A S : Numerote(S)' = Numerote(S)
  BY DEF Numerote
<1>2. Numerote({})
  BY DEF Numerote
<1>3. \A S \in Tirages' : S \subseteq Tirees' /\ Numerote(S)'
  <2>1. ASSUME NEW S \in Tirages' PROVE S \in Tirages \/ S = {}
    OBVIOUS
  <2> QED
    BY <1>1, <1>2, <2>1 DEF IdentifiantInd
<1>4. \A r \in RequetesApi : identifiant'[r] # 0 =>
         etape'[r] # "libre" /\ \E i \in DOMAIN ecriture'[r] : ecriture'[r][i] = "alloc"
  BY DEF IdentifiantInd
<1> QED
  BY <1>3, <1>4 DEF IdentifiantInd

\* Every step keeps the identifiers that the memory, the pictures and the disk hold
\* distinct and within what they hold.
LEMMA ApiIdentifiant == ApiInd /\ NextApi => IdentifiantInd'
<1> SUFFICES ASSUME ApiInd, NextApi PROVE IdentifiantInd'
  OBVIOUS
<1>a. ApiTypes /\ IdentifiantInd
  BY DEF ApiInd
<1>b. /\ etape \in [RequetesApi -> Etapes] /\ image \in [RequetesApi -> Contenus]
      /\ rang \in [RequetesApi -> Nat] /\ "alloc" \in Magasins
  BY <1>a DEF ApiTypes, Magasins
<1>c. Vierge["alloc"] = {}
  BY <1>b DEF Vierge
<1>1. ASSUME NEW r \in RequetesApi, NEW e \in Ecritures, Accueillir(r, e)
      PROVE  IdentifiantInd'
  <2>1. /\ etape[r] = "libre" /\ etape' = [etape EXCEPT ![r] = "applique"]
        /\ ecriture' = [ecriture EXCEPT ![r] = e] /\ DOMAIN ecriture = RequetesApi
        /\ UNCHANGED <<rang, image, magasins, temporaire, disque, identifiant>>
    BY <1>a, <1>1 DEF Accueillir, ApiTypes
  <2>2. \A q \in RequetesApi : etape[q] # "libre" =>
          etape'[q] = etape[q] /\ ecriture'[q] = ecriture[q]
    BY <1>b, <2>1
  <2>3. Tirages' = Tirages /\ Tirees \subseteq Tirees'
    BY <2>1, <2>2 DEF Tirages, Tirees
  <2> QED
    BY <1>a, <2>1, <2>2, <2>3, SansTirage
<1>2. ASSUME NEW r \in RequetesApi, Modifier(r) PROVE IdentifiantInd'
  <2> DEFINE m == ecriture[r][rang[r]]
             fini == rang[r] = Len(ecriture[r])
  <2>1. /\ etape[r] = "applique"
        /\ magasins' = [magasins EXCEPT ![m] = @ \cup {r}]
        /\ etape' = [etape EXCEPT ![r] = IF fini THEN "instantane" ELSE @]
        /\ rang' = [rang EXCEPT ![r] = IF fini THEN 1 ELSE @ + 1]
        /\ UNCHANGED <<ecriture, image, temporaire, disque>>
    BY <1>2 DEF Modifier
  <2>2. /\ rang[r] \in DOMAIN ecriture[r] /\ m \in Magasins
        /\ \A i, j \in DOMAIN ecriture[r] : ecriture[r][i] = ecriture[r][j] => i = j
        /\ magasins \in Contenus
    BY <1>a, <2>1, EcrituresLemma DEF ApiTypes
  <2>3. /\ \A q \in RequetesApi : q # r => etape'[q] = etape[q] /\ rang'[q] = rang[q]
        /\ \/ etape'[r] = "instantane"
           \/ etape'[r] = "applique" /\ rang'[r] = rang[r] + 1
    BY <1>b, <2>1
  <2>4. Tirees \subseteq Tirees' /\ (m = "alloc" => r \in Tirees')
    <3>1. rang[r] \in Nat /\ \A i \in DOMAIN ecriture[r] : i < rang[r] => i < rang[r] + 1
      BY <1>a, <1>b, <2>1, EcrituresLemma
    <3>2. rang[r] < rang[r] + 1
      BY <1>b
    <3>3. \A q \in Tirees : q # r => q \in Tirees'
      BY <2>1, <2>3 DEF Tirees
    <3>4. r \in Tirees => r \in Tirees'
      BY <2>1, <2>3, <3>1 DEF Tirees
    <3>5. m = "alloc" => r \in Tirees'
      BY <2>1, <2>2, <2>3, <3>2 DEF Tirees
    <3> QED
      BY <3>3, <3>4, <3>5
  <2>5. CASE m # "alloc"
    <3>1. magasins'["alloc"] = magasins["alloc"]
      BY <1>b, <2>1, <2>2, <2>5 DEF Contenus
    <3>2. Tirages' = Tirages
      BY <2>1, <3>1 DEF Tirages
    <3>3. identifiant' = identifiant
      BY <1>2, <2>5 DEF Modifier
    <3>4. \A q \in RequetesApi : etape[q] # "libre" =>
            etape'[q] # "libre" /\ ecriture'[q] = ecriture[q]
      BY <2>1, <2>3
    <3> QED
      BY <1>a, <2>4, <3>2, <3>3, <3>4, SansTirage
  <2>6. CASE m = "alloc"
    <3> DEFINE S == magasins["alloc"]
               n == Cardinality(S) + 1
    <3>1. identifiant' = [identifiant EXCEPT ![r] = n]
      BY <1>2, <2>6 DEF Modifier
    <3>2. magasins'["alloc"] = S \cup {r}
      BY <1>b, <2>1, <2>2, <2>6 DEF Contenus
    <3>3. Tirages' \subseteq Tirages \cup {S \cup {r}} /\ S \in Tirages
      BY <2>1, <3>2 DEF Tirages
    <3>4. r \notin Tirees
      <4>1. \A i \in DOMAIN ecriture[r] : i < rang[r] => ecriture[r][i] # "alloc"
        <5>1. \A i \in DOMAIN ecriture[r] : i < rang[r] => i # rang[r]
          BY <1>a, <1>b, <2>1, EcrituresLemma
        <5> QED
          BY <2>2, <2>6, <5>1
      <4> QED
        BY <2>1, <4>1 DEF Tirees
    <3>5. ASSUME NEW T \in Tirages PROVE T \subseteq Tirees' /\ Numerote(T)'
      <4>1. T \subseteq RequetesApi /\ r \notin T /\ T \subseteq Tirees' /\ Numerote(T)
        BY <1>a, <2>4, <3>4 DEF IdentifiantInd, Tirees
      <4>2. \A q \in T : identifiant'[q] = identifiant[q]
        BY <1>a, <3>1, <4>1 DEF ApiTypes
      <4> QED
        BY <4>1, <4>2 DEF Numerote
    <3>6. Numerote(magasins["alloc"])'
      <4>1. /\ S \subseteq RequetesApi /\ r \notin S
            /\ \A q \in S : identifiant[q] \in 1..Cardinality(S)
            /\ \A q, s \in S : q # s => identifiant[q] # identifiant[s]
        BY <1>a, <3>3, <3>4 DEF IdentifiantInd, Tirees, Numerote
      <4>2. Cardinality(S) \in Nat /\ Cardinality(S \cup {r}) = Cardinality(S) + 1
        <5>1. IsFiniteSet(RequetesApi)
          BY ApiAssumption, FS_Interval DEF RequetesApi
        <5> QED
          BY <4>1, <5>1, FS_Subset, FS_AddElement, FS_CardinalityType
      <4>3. /\ \A q \in S : identifiant'[q] = identifiant[q]
            /\ identifiant'[r] = n
        BY <1>a, <3>1, <4>1 DEF ApiTypes
      <4>4. \A k \in 1..Cardinality(S) : k \in 1..n /\ k # n
        BY <4>2
      <4>5. n \in 1..n /\ n = Cardinality(S \cup {r})
        BY <4>2
      <4>6. \A q \in S \cup {r} : identifiant'[q] \in 1..Cardinality(S \cup {r})
        <5>1. 1..Cardinality(S \cup {r}) = 1..n
          BY <4>5
        <5>2. ASSUME NEW q \in S PROVE identifiant'[q] \in 1..n
          BY <4>1, <4>3, <4>4, <5>2
        <5>3. identifiant'[r] \in 1..n
          BY <4>3, <4>5
        <5> HIDE DEF n
        <5> QED
          BY <5>1, <5>2, <5>3
      <4>7. \A q, s \in S \cup {r} : q # s => identifiant'[q] # identifiant'[s]
        <5>1. ASSUME NEW q \in S PROVE identifiant'[q] # identifiant'[r]
          BY <4>1, <4>3, <4>4, <5>1
        <5>2. \A q, s \in S : q # s => identifiant'[q] # identifiant'[s]
          BY <4>1, <4>3
        <5> QED
          BY <5>1, <5>2
      <4> QED
        BY <3>2, <4>6, <4>7 DEF Numerote
    <3>7. \A T \in Tirages' : T \subseteq Tirees' /\ Numerote(T)'
      <4>1. S \cup {r} \subseteq Tirees'
        BY <2>4, <2>6, <3>3, <3>5
      <4> QED
        BY <3>2, <3>3, <3>5, <3>6, <4>1
    <3>8. ASSUME NEW q \in RequetesApi, identifiant'[q] # 0
          PROVE  /\ etape'[q] # "libre"
                 /\ \E i \in DOMAIN ecriture'[q] : ecriture'[q][i] = "alloc"
      <4>1. CASE q = r
        BY <2>1, <2>2, <2>3, <2>6, <4>1
      <4>2. CASE q # r
        BY <1>a, <2>1, <2>3, <3>1, <3>8, <4>2 DEF IdentifiantInd, ApiTypes
      <4> QED
        BY <4>1, <4>2
    <3> QED
      BY <3>7, <3>8 DEF IdentifiantInd
  <2> QED
    BY <2>5, <2>6
<1>3. ASSUME NEW r \in RequetesApi, Photographier(r) PROVE IdentifiantInd'
  <2>1. /\ etape[r] = "instantane"
        /\ UNCHANGED <<ecriture, magasins, temporaire, disque, identifiant>>
        /\ \E p \in {"sauvegarde", "instantane"} : etape' = [etape EXCEPT ![r] = p]
        /\ \E k \in Concernes :
             image' = [image EXCEPT ![r][OrdreInstantane[k]] = magasins[OrdreInstantane[k]]]
        /\ \A q \in RequetesApi : q # r => rang'[q] = rang[q]
    BY <1>3, <1>a DEF Photographier, ApiTypes
  <2>2. \A q \in RequetesApi : image'[q]["alloc"] \in {image[q]["alloc"], magasins["alloc"]}
    BY <1>b, <2>1 DEF Contenus
  <2>3. Tirages' \subseteq Tirages
    BY <2>1, <2>2 DEF Tirages
  <2>4. \A q \in RequetesApi : /\ etape[q] # "libre" => etape'[q] # "libre"
                               /\ etape'[q] = "applique" => etape[q] = "applique" /\ q # r
    BY <1>b, <2>1
  <2>5. Tirees \subseteq Tirees'
    BY <2>1, <2>4 DEF Tirees
  <2> QED
    BY <1>a, <2>1, <2>3, <2>4, <2>5, SansTirage
<1>4. ASSUME NEW r \in RequetesApi,
             EcrireTemporaire(r) \/ Renommer(r) \/ EchouerSauvegarde(r)
      PROVE  IdentifiantInd'
  <2>1. /\ UNCHANGED <<ecriture, rang, magasins, identifiant>>
        /\ etape[r] \in {"sauvegarde", "renommage"}
        /\ \E p \in {"renommage", "ok", "erreur"} : etape' = [etape EXCEPT ![r] = p]
        /\ image' \in {image, [image EXCEPT ![r] = Vierge]}
        /\ temporaire' \in {temporaire, image[r]} /\ disque' \in {disque, temporaire}
    BY <1>4 DEF EcrireTemporaire, Renommer, EchouerSauvegarde
  <2>2. \A q \in RequetesApi : image'[q]["alloc"] \in {image[q]["alloc"], {}}
    BY <1>b, <1>c, <2>1
  <2>3. Tirages' \subseteq Tirages \cup {{}}
    BY <2>1, <2>2 DEF Tirages
  <2>4. \A q \in RequetesApi : /\ etape[q] # "libre" => etape'[q] # "libre"
                               /\ etape'[q] = "applique" => etape[q] = "applique"
    BY <1>b, <2>1
  <2>5. Tirees \subseteq Tirees'
    BY <2>1, <2>4 DEF Tirees
  <2> QED
    BY <1>a, <2>1, <2>3, <2>4, <2>5, SansTirage
<1>7. CASE RedemarrerApi
  <2>1. /\ UNCHANGED <<ecriture, temporaire, disque, identifiant>> /\ magasins' = disque
        /\ image' = [r \in RequetesApi |-> Vierge]
        /\ \A r \in RequetesApi : etape'[r] # "applique"
        /\ \A r \in RequetesApi : etape[r] # "libre" => etape'[r] # "libre"
    BY <1>7 DEF RedemarrerApi
  <2>2. Tirages' \subseteq Tirages \cup {{}}
    BY <1>c, <2>1 DEF Tirages
  <2>3. Tirees \subseteq Tirees'
    BY <2>1 DEF Tirees
  <2> QED
    BY <1>a, <2>1, <2>2, <2>3, SansTirage
<1> QED
  BY <1>1, <1>2, <1>3, <1>4, <1>7 DEF NextApi

-----------------------------------------------------------------------------
\* Every step of the API, and every step of the other benches, keeps the invariant.
LEMMA ApiPas == ApiInd /\ (NextApi \/ UNCHANGED varsApi) => ApiInd'
<1>1. ApiInd /\ NextApi => ApiInd'
  BY ApiType, ApiMemoire, ApiImage, ApiIdentifiant DEF ApiInd
<1>2. ASSUME ApiInd, UNCHANGED varsApi PROVE ApiInd'
  <2> USE <1>2 DEF varsApi
  <2>1. ApiTypes'
    BY DEF ApiInd, ApiTypes, Acquittees
  <2>2. MemoireInd' /\ ImageInd'
    BY DEF ApiInd, MemoireInd, ImageInd, Suivies, Contient
  <2>3. IdentifiantInd'
    BY DEF ApiInd, IdentifiantInd, Tirages, Tirees, Numerote
  <2> QED
    BY <2>1, <2>2, <2>3 DEF ApiInd
<1> QED
  BY <1>1, <1>2

\* The invariant gives the types and the property of the API.
LEMMA ApiBilan == ApiInd => TypeApi /\ PersistanceSuivie
<1> SUFFICES ASSUME ApiInd PROVE TypeApi /\ PersistanceSuivie
  OBVIOUS
<1>1. TypeApi
  BY DEF ApiInd, ApiTypes, TypeApi, Etapes, Contenus
<1>2. auteur # 0 => \A q \in anterieures[auteur] \ perdues : Contient(disque, q)
  BY DEF ApiInd, ImageInd
<1>3. ASSUME NEW q \in Acquittees, NEW r \in Acquittees, q # r,
             identifiant[q] = identifiant[r], identifiant[q] # 0,
             q \notin perdues, r \notin perdues
      PROVE  FALSE
  <2>1. ASSUME NEW s \in Acquittees, identifiant[s] # 0, s \notin perdues
        PROVE  s \in magasins["alloc"]
    BY <2>1 DEF ApiInd, MemoireInd, IdentifiantInd, Acquittees, Contient
  <2>2. q \in magasins["alloc"] /\ r \in magasins["alloc"]
    BY <1>3, <2>1
  <2> QED
    BY <1>3, <2>2 DEF ApiInd, IdentifiantInd, Tirages, Numerote
<1> QED
  BY <1>1, <1>2, <1>3 DEF PersistanceSuivie

=============================================================================
