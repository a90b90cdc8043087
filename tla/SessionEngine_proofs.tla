------------------------ MODULE SessionEngine_proofs ------------------------
(***************************************************************************)
(* Proofs about SessionEngine, for every set of peers, every set of        *)
(* policies and every bound on the number of connections.                  *)
(***************************************************************************)
EXTENDS SessionEngine, TLAPS

-----------------------------------------------------------------------------
(***************************************************************************)
(* The reconnection controller.                                            *)
(***************************************************************************)

\* Every event leaves the controller in one of its states, whatever the policy.
LEMMA ControleurType ==
  ASSUME NEW m \in Nat \cup {Illimite}, NEW c \in Controleur
  PROVE  /\ NextDelay(m, c) \in Controleur
         /\ OnDisconnect(m, c) \in Controleur
         /\ Reset(c) \in Controleur
<1>1. \A n \in Nat : Suivante(m, n) \in Nat
  BY DEF Suivante
<1>2. \A n \in Nat : Programme(m, n) \in Controleur
  BY DEF Programme, Controleur
<1>3. NextDelay(m, c) \in Controleur
  <2>1. CASE c.arme
    BY <2>1 DEF NextDelay, Controleur
  <2>2. CASE ~c.arme /\ c.etat = "Waiting"
    <3>1. Programme(m, Suivante(m, c.tentative)) \in Controleur
      BY <1>1, <1>2 DEF Controleur
    <3> QED
      BY <2>2, <3>1 DEF NextDelay, Controleur
  <2>3. CASE ~c.arme /\ c.etat # "Waiting"
    BY <2>3 DEF NextDelay
  <2> QED
    BY <2>1, <2>2, <2>3 DEF Controleur
<1>4. OnDisconnect(m, c) \in Controleur
  BY <1>2 DEF OnDisconnect
<1>5. Reset(c) \in Controleur
  BY DEF Reset, Nouveau, Controleur
<1> QED
  BY <1>3, <1>4, <1>5

-----------------------------------------------------------------------------
(***************************************************************************)
(* Type correctness.                                                       *)
(***************************************************************************)

\* Whatever the threads, the application and the network do, every variable of
\* the session keeps its type.
THEOREM TypeCorrect == Spec => []TypeOK
<1>1. Init => TypeOK
  <2> SUFFICES ASSUME Init
               PROVE  TypeOK
    OBVIOUS
  <2>1. rc \in Controleur
    BY DEF Init, Nouveau, Controleur
  <2>2. /\ stop \in BOOLEAN /\ demande \in BOOLEAN /\ epoqueArret \in Nat
        /\ coupe \in BOOLEAN /\ arret \in BOOLEAN
        /\ touche \in BOOLEAN /\ lu \in BOOLEAN /\ erreur \in BOOLEAN
    BY DEF Init
  <2>3. pc \in Points /\ etat \in SessionState
    BY DEF Init, Points, SessionState
  <2> QED
    BY <2>1, <2>2, <2>3 DEF Init, TypeOK
<1>2. TypeOK /\ [Next]_vars => TypeOK'
  <2> SUFFICES ASSUME TypeOK, [Next]_vars
               PROVE  TypeOK'
    OBVIOUS
  <2> USE DEF TypeOK, config, arrets, identite, garde, media, issue, reprise
  <2>a. max \in Nat \cup {Illimite} /\ rc \in Controleur
    BY PolitiquesAssumption
  <2>b. /\ NextDelay(max, rc) \in Controleur
        /\ OnDisconnect(max, Nouveau) \in Controleur
        /\ Reset(rc) \in Controleur
    BY <2>a, ControleurType DEF Nouveau, Controleur
  <2>1. CASE Resoudre
    BY <2>1 DEF Resoudre, Points, SessionState
  <2>2. CASE Connecter
    BY <2>2 DEF Connecter, Points, Etablissement, SessionState
  <2>3. ASSUME NEW p \in Pairs, TrouverChemin(p) PROVE TypeOK'
    BY <2>3 DEF TrouverChemin, Points, Etablissement
  <2>4. CASE EtablirQuic
    BY <2>4, <2>b DEF EtablirQuic, Points
  <2>5. CASE EchouerEtablissement
    <3>1. pc' \in Points /\ appelant' \in Pairs \cup {Aucun} /\ erreur' \in BOOLEAN
      BY <2>5 DEF EchouerEtablissement, Points
    <3>2. UNCHANGED <<config, etat, arrets, pair, lien, garde, media, issue, reprise, epoque>>
      BY <2>5 DEF EchouerEtablissement
    <3> QED
      BY <3>1, <3>2
  <2>6. CASE Armer
    <3>1. /\ coupe' \in BOOLEAN /\ arret' \in BOOLEAN
          /\ rappel' \in {"absent", "arme", "tire"}
          /\ pont' \in {"absent", "court", "fini"}
          /\ aux' \in {"absent", "court", "fini"}
          /\ resultat' \in {"aucun", "Ok", "Err"}
          /\ cause' \in {"aucune", "lienVif", "lienMort"}
          /\ etat' \in SessionState /\ pc' \in Points
      BY <2>6 DEF Armer, SessionState, Points, CorpsEpoque
    <3>2. UNCHANGED <<config, arrets, identite, lien, touche, lu, reprise, epoque, erreur>>
      BY <2>6 DEF Armer
    <3> QED
      BY <3>1, <3>2
  <2>7. CASE ReussirPoignee
    BY <2>7 DEF ReussirPoignee, Points, CorpsEpoque, SessionState
  <2>8. CASE Preparer
    BY <2>8 DEF Preparer, Points, CorpsEpoque
  <2>9. CASE Echouer
    BY <2>9 DEF Echouer, Points, CorpsEpoque
  <2>10. CASE FinirMedia
    BY <2>10 DEF FinirMedia, Points, CorpsEpoque
  <2>11. CASE Joindre
    BY <2>11 DEF Joindre, Points, CorpsEpoque
  <2>12. CASE AttendreAux
    BY <2>12 DEF AttendreAux, Points, CorpsEpoque
  <2>13. CASE Lacher
    BY <2>13 DEF Lacher, Points, Conclusion
  <2>14. CASE Conclure
    BY <2>14 DEF Conclure, Points, Conclusion
  <2>15. CASE JoindrePont
    BY <2>15 DEF JoindrePont, Points, Conclusion
  <2>16. CASE LireStop
    BY <2>16 DEF LireStop, Points, Conclusion
  <2>17. CASE Classer
    <3>1. erreur' \in BOOLEAN /\ pc' \in Points
      BY <2>17 DEF Classer, Points
    <3>2. UNCHANGED <<config, etat, arrets, identite, lien, garde, media, issue, reprise, epoque>>
      BY <2>17 DEF Classer
    <3> QED
      BY <3>1, <3>2
  <2>18. CASE SeReconnecter
    BY <2>18, <2>b DEF SeReconnecter, Points, SessionState
  <2>19. CASE Boucler
    BY <2>19, <2>b DEF Boucler, Points
  <2>20. CASE Tenter
    BY <2>20, <2>a DEF Tenter, Points, Etablissement, Suivante
  <2>21. CASE Finir
    BY <2>21 DEF Finir, Points
  <2>22. CASE Clore
    BY <2>22 DEF Clore, Points, SessionState
  <2>23. CASE Pont
    BY <2>23 DEF Pont
  <2>24. CASE Rappeler
    BY <2>24 DEF Rappeler
  <2>25. CASE Injecter
    BY <2>25 DEF Injecter
  <2>26. CASE RaccourciDeconnexion
    BY <2>26 DEF RaccourciDeconnexion
  <2>27. CASE FinirAux
    <3>1. touche' \in BOOLEAN /\ aux' \in {"absent", "court", "fini"}
      BY <2>27 DEF FinirAux
    <3>2. UNCHANGED <<config, pc, etat, arrets, identite, lien, garde, issue, reprise, epoque, erreur>>
      BY <2>27 DEF FinirAux
    <3> QED
      BY <3>1, <3>2
  <2>28. CASE DemanderArret
    BY <2>28 DEF DemanderArret
  <2>29. CASE Couper
    BY <2>29 DEF Couper
  <2>30. CASE Retablir
    BY <2>30 DEF Retablir
  <2>31. CASE Fermer
    BY <2>31 DEF Fermer
  <2>32. CASE UNCHANGED vars
    BY <2>32 DEF vars
  <2> QED
    BY <2>1, <2>2, <2>3, <2>4, <2>5, <2>6, <2>7, <2>8, <2>9, <2>10,
       <2>11, <2>12, <2>13, <2>14, <2>15, <2>16, <2>17, <2>18, <2>19, <2>20,
       <2>21, <2>22, <2>23, <2>24, <2>25, <2>26, <2>27, <2>28, <2>29, <2>30,
       <2>31, <2>32
       DEF Next, Pilote, Threads, Monde, Termine
<1> QED
  BY <1>1, <1>2, PTL DEF Spec

-----------------------------------------------------------------------------
(***************************************************************************)
(* The isolation of the epochs.  EpoqueIsolee is not inductive: that the   *)
(* bridge and the auxiliary thread are over when the pilot leaves an epoch *)
(* rests on the order in which the pilot raises arret_epoque, joins, drops *)
(* the transport and joins the bridge.                                     *)
(***************************************************************************)
EpoqueInd ==
  /\ aux # "court" => ~touche
  /\ pc \notin {"media", "joindre", "attendreAux"} => aux # "court"
  /\ HorsEpoque \/ pc \in {"armer", "lireStop", "lireCoupe"} => pont # "court"
  /\ HorsEpoque \/ pc \in Conclusion => lien \in {"absent", "ferme"}

\* Nothing of an epoch outlives it: no bridge, no injector, no held key, no open
\* connection once the pilot is past GardeEpoque::conclure.
THEOREM Isolation == Spec => []EpoqueIsolee
<1> USE DEF EpoqueInd, HorsEpoque, Etablissement, Conclusion
<1>1. Init => EpoqueInd
  BY DEF Init
<1>2. EpoqueInd /\ [Next]_vars => EpoqueInd'
  <2> SUFFICES ASSUME EpoqueInd, [Next]_vars
               PROVE  EpoqueInd'
    OBVIOUS
  <2> USE DEF garde, media
  <2>1. CASE Resoudre
    BY <2>1 DEF Resoudre
  <2>2. CASE Connecter
    BY <2>2 DEF Connecter
  <2>3. ASSUME NEW p \in Pairs, TrouverChemin(p) PROVE EpoqueInd'
    BY <2>3 DEF TrouverChemin
  <2>4. CASE EtablirQuic
    BY <2>4 DEF EtablirQuic
  <2>5. CASE EchouerEtablissement
    BY <2>5 DEF EchouerEtablissement
  <2>6. CASE Armer
    BY <2>6 DEF Armer
  <2>7. CASE ReussirPoignee
    BY <2>7 DEF ReussirPoignee
  <2>8. CASE Preparer
    BY <2>8 DEF Preparer
  <2>9. CASE Echouer
    BY <2>9 DEF Echouer
  <2>10. CASE FinirMedia
    BY <2>10 DEF FinirMedia
  <2>11. CASE Joindre
    BY <2>11 DEF Joindre
  <2>12. CASE AttendreAux
    BY <2>12 DEF AttendreAux
  <2>13. CASE Lacher
    BY <2>13 DEF Lacher
  <2>14. CASE Conclure
    BY <2>14 DEF Conclure
  <2>15. CASE JoindrePont
    BY <2>15 DEF JoindrePont
  <2>16. CASE LireStop
    BY <2>16 DEF LireStop
  <2>17. CASE Classer
    BY <2>17 DEF Classer
  <2>18. CASE SeReconnecter
    BY <2>18 DEF SeReconnecter
  <2>19. CASE Boucler
    BY <2>19 DEF Boucler
  <2>20. CASE Tenter
    BY <2>20 DEF Tenter
  <2>21. CASE Finir
    BY <2>21 DEF Finir
  <2>22. CASE Clore
    BY <2>22 DEF Clore
  <2>23. CASE Pont
    BY <2>23 DEF Pont
  <2>24. CASE Rappeler
    BY <2>24 DEF Rappeler
  <2>25. CASE Injecter
    BY <2>25 DEF Injecter
  <2>26. CASE RaccourciDeconnexion
    BY <2>26 DEF RaccourciDeconnexion
  <2>27. CASE FinirAux
    BY <2>27 DEF FinirAux
  <2>28. CASE DemanderArret
    BY <2>28 DEF DemanderArret
  <2>29. CASE Couper
    BY <2>29 DEF Couper
  <2>30. CASE Retablir
    BY <2>30 DEF Retablir
  <2>31. CASE Fermer
    BY <2>31 DEF Fermer
  <2>32. CASE UNCHANGED vars
    BY <2>32 DEF vars
  <2> QED
    BY <2>1, <2>2, <2>3, <2>4, <2>5, <2>6, <2>7, <2>8, <2>9, <2>10,
       <2>11, <2>12, <2>13, <2>14, <2>15, <2>16, <2>17, <2>18, <2>19, <2>20,
       <2>21, <2>22, <2>23, <2>24, <2>25, <2>26, <2>27, <2>28, <2>29, <2>30,
       <2>31, <2>32
       DEF Next, Pilote, Threads, Monde, Termine
<1>3. EpoqueInd => EpoqueIsolee
  BY DEF EpoqueIsolee
<1> QED
  BY <1>1, <1>2, <1>3, PTL DEF Spec

-----------------------------------------------------------------------------
(***************************************************************************)
(* The attempts of an outage.  The controller's own attempt number and the *)
(* number of attempts really started go hand in hand: they differ by one   *)
(* only while the pilot waits before an attempt.                           *)
(***************************************************************************)
Arme     == rc.etat = "Waiting" /\ rc.arme /\ rc.tentative = 1 /\ tentatives = 0
EnCours  == rc.etat = "Waiting" /\ ~rc.arme /\ rc.tentative = tentatives
Annonce  == rc.etat = "Waiting" /\ ~rc.arme /\ rc.tentative = tentatives + 1
Epuise   == rc.etat = "GaveUp" /\ ~rc.arme /\ tentatives = max

RepriseInd ==
  /\ TentativesBornees
  /\ pc \in {"debut", "resolution"} => epoque = 0
  /\ pc = "boucle" => rc.etat = "Waiting" \/ (max # Illimite /\ Epuise)
  /\ max # Illimite =>
       /\ pc = "boucle" => (Arme /\ 1 <= max) \/ EnCours \/ Epuise
       /\ pc = "attente" => Annonce /\ rc.tentative <= max
       /\ pc \in Etablissement /\ epoque > 0 => EnCours
  /\ max = Illimite /\ (pc = "attente" \/ (pc \in Etablissement /\ epoque > 0)) =>
       rc.etat = "Waiting"

\* No step of any thread makes an outage count more attempts than its policy, or
\* give up before the last one.
LEMMA RepriseInvariante == Spec => []RepriseInd
<1> USE DEF RepriseInd, TentativesBornees, Arme, EnCours, Annonce, Epuise, Etablissement
<1>1. Init => RepriseInd
  BY PolitiquesAssumption, IllimiteAssumption DEF Init
<1>2. TypeOK /\ RepriseInd /\ [Next]_vars => RepriseInd'
  <2> SUFFICES ASSUME TypeOK, RepriseInd, [Next]_vars
               PROVE  RepriseInd'
    OBVIOUS
  <2> USE DEF config, reprise
  <2>a. /\ max \in Nat \cup {Illimite}
        /\ rc \in Controleur /\ tentatives \in Nat /\ epoque \in Nat
        /\ contact \in {"Loopback", "Direct", "ByRendezvous"}
    BY PolitiquesAssumption DEF TypeOK
  <2>1. CASE Resoudre
    BY <2>1 DEF Resoudre
  <2>2. CASE Connecter
    BY <2>2, <2>a DEF Connecter
  <2>3. ASSUME NEW p \in Pairs, TrouverChemin(p) PROVE RepriseInd'
    BY <2>3 DEF TrouverChemin
  <2>4. CASE EtablirQuic
    BY <2>4, <2>a DEF EtablirQuic
  <2>5. CASE EchouerEtablissement
    <3>1. CASE epoque = 0
      BY <2>5, <3>1 DEF EchouerEtablissement
    <3>2. CASE epoque > 0
      BY <2>5, <3>2 DEF EchouerEtablissement
    <3> QED
      BY <2>a, <3>1, <3>2
  <2>6. CASE Armer
    BY <2>6 DEF Armer
  <2>7. CASE ReussirPoignee
    BY <2>7 DEF ReussirPoignee
  <2>8. CASE Preparer
    BY <2>8 DEF Preparer
  <2>9. CASE Echouer
    BY <2>9 DEF Echouer
  <2>10. CASE FinirMedia
    BY <2>10 DEF FinirMedia
  <2>11. CASE Joindre
    BY <2>11 DEF Joindre
  <2>12. CASE AttendreAux
    BY <2>12 DEF AttendreAux
  <2>13. CASE Lacher
    BY <2>13 DEF Lacher
  <2>14. CASE Conclure
    BY <2>14 DEF Conclure
  <2>15. CASE JoindrePont
    BY <2>15 DEF JoindrePont
  <2>16. CASE LireStop
    BY <2>16 DEF LireStop
  <2>17. CASE Classer
    BY <2>17 DEF Classer
  <2>18. CASE SeReconnecter
    <3>1. rc' = Programme(max, 1) /\ tentatives' = 0 /\ pc' = "boucle" /\ max' = max
      BY <2>18 DEF SeReconnecter, OnDisconnect, Nouveau
    <3>2. CASE Accorde(max, 1)
      <4>1. rc' = [etat |-> "Waiting", tentative |-> 1, arme |-> TRUE]
        BY <3>1, <3>2 DEF Programme
      <4> QED
        BY <2>a, <3>1, <3>2, <4>1 DEF Accorde
    <3>3. CASE ~Accorde(max, 1)
      <4>1. max = 0 /\ max # Illimite
        BY <2>a, <3>3, IllimiteAssumption DEF Accorde
      <4>2. rc' = [etat |-> "GaveUp", tentative |-> 0, arme |-> FALSE]
        BY <3>1, <3>3 DEF Programme
      <4> QED
        BY <3>1, <4>1, <4>2
    <3> QED
      BY <3>2, <3>3
  <2>19. CASE Boucler
    <3>1. CASE stop
      BY <2>19, <3>1 DEF Boucler
    <3>2. CASE ~stop /\ rc.arme
      BY <2>19, <2>a, <3>2 DEF Boucler, NextDelay, DelaiRendu, Controleur
    <3>3. CASE ~stop /\ ~rc.arme /\ rc.etat = "Waiting" /\ max = Illimite
      <4>1. rc'.etat = "Waiting" /\ pc' = "attente"
        BY <2>19, <2>a, <3>3 DEF Boucler, NextDelay, DelaiRendu, Programme, Accorde, Controleur
      <4> QED
        BY <2>19, <3>3, <4>1 DEF Boucler
    <3>4. CASE ~stop /\ ~rc.arme /\ rc.etat = "Waiting" /\ max \in Nat
      <4>1. rc.tentative = tentatives /\ tentatives <= max /\ max # Illimite
        BY <2>19, <3>4, IllimiteAssumption DEF Boucler
      <4>2. Suivante(max, rc.tentative) = tentatives + 1
        BY <4>1 DEF Suivante
      <4>3. CASE tentatives + 1 <= max
        <5>1. /\ rc' = [etat |-> "Waiting", tentative |-> tentatives + 1, arme |-> FALSE]
              /\ pc' = "attente"
          BY <2>19, <3>4, <4>2, <4>3 DEF Boucler, NextDelay, DelaiRendu, Programme, Accorde
        <5> QED
          BY <2>19, <3>4, <4>1, <4>3, <5>1 DEF Boucler
      <4>4. CASE ~(tentatives + 1 <= max)
        <5>1. pc' = "fin"
          BY <2>19, <3>4, <4>1, <4>2, <4>4 DEF Boucler, DelaiRendu, Accorde
        <5> QED
          BY <2>19, <5>1 DEF Boucler
      <4> QED
        BY <4>3, <4>4
    <3>5. CASE ~stop /\ ~rc.arme /\ rc.etat # "Waiting"
      BY <2>19, <3>5 DEF Boucler, DelaiRendu
    <3> QED
      BY <2>a, <3>1, <3>2, <3>3, <3>4, <3>5
  <2>20. CASE Tenter
    <3>1. CASE stop
      BY <2>20, <3>1 DEF Tenter
    <3>2. CASE ~stop /\ max = Illimite
      BY <2>20, <3>2 DEF Tenter
    <3>3. CASE ~stop /\ max # Illimite
      <4>1. tentatives' = rc.tentative /\ rc.tentative <= max
        BY <2>20, <2>a, <3>3 DEF Tenter, Suivante
      <4> QED
        BY <2>20, <3>3, <4>1 DEF Tenter
    <3> QED
      BY <3>1, <3>2, <3>3
  <2>21. CASE Finir
    BY <2>21 DEF Finir
  <2>22. CASE Clore
    BY <2>22 DEF Clore
  <2>23. CASE Pont
    BY <2>23 DEF Pont
  <2>24. CASE Rappeler
    BY <2>24 DEF Rappeler
  <2>25. CASE Injecter
    BY <2>25 DEF Injecter
  <2>26. CASE RaccourciDeconnexion
    BY <2>26 DEF RaccourciDeconnexion
  <2>27. CASE FinirAux
    BY <2>27 DEF FinirAux
  <2>28. CASE DemanderArret
    BY <2>28 DEF DemanderArret
  <2>29. CASE Couper
    BY <2>29 DEF Couper
  <2>30. CASE Retablir
    BY <2>30 DEF Retablir
  <2>31. CASE Fermer
    BY <2>31 DEF Fermer
  <2>32. CASE UNCHANGED vars
    BY <2>32 DEF vars
  <2> QED
    BY <2>1, <2>2, <2>3, <2>4, <2>5, <2>6, <2>7, <2>8, <2>9, <2>10,
       <2>11, <2>12, <2>13, <2>14, <2>15, <2>16, <2>17, <2>18, <2>19, <2>20,
       <2>21, <2>22, <2>23, <2>24, <2>25, <2>26, <2>27, <2>28, <2>29, <2>30,
       <2>31, <2>32
       DEF Next, Pilote, Threads, Monde, Termine
<1> QED
  BY <1>1, <1>2, TypeCorrect, PTL DEF Spec

\* An outage never makes more attempts than max_attempts.
THEOREM Bornees == Spec => []TentativesBornees
<1>1. RepriseInd => TentativesBornees
  BY DEF RepriseInd
<1> QED
  BY <1>1, RepriseInvariante, PTL

-----------------------------------------------------------------------------
(***************************************************************************)
(* The stop.  A stop that was asked for is never taken back, and the pilot *)
(* cannot reach another establishment without reading it.                  *)
(***************************************************************************)
ArretInd ==
  demande =>
    /\ stop
    /\ epoqueArret <= epoque /\ epoque <= epoqueArret + 1
    /\ pc \in Etablissement \cup {"debut", "resolution"} => epoque = epoqueArret

\* At most one connection begins after the stop.
THEOREM ArretBorne == Spec => []ArretUneEpoque
<1> USE DEF ArretInd, Etablissement
<1>1. Init => ArretInd
  BY DEF Init
<1>2. TypeOK /\ ArretInd /\ [Next]_vars => ArretInd'
  <2> SUFFICES ASSUME TypeOK, ArretInd, [Next]_vars
               PROVE  ArretInd'
    OBVIOUS
  <2> USE DEF arrets
  <2>a. /\ epoque \in Nat /\ epoqueArret \in Nat
        /\ contact \in {"Loopback", "Direct", "ByRendezvous"}
    BY DEF TypeOK
  <2>1. CASE Resoudre
    BY <2>1 DEF Resoudre
  <2>2. CASE Connecter
    BY <2>2, <2>a DEF Connecter
  <2>3. ASSUME NEW p \in Pairs, TrouverChemin(p) PROVE ArretInd'
    BY <2>3 DEF TrouverChemin
  <2>4. CASE EtablirQuic
    BY <2>4, <2>a DEF EtablirQuic
  <2>5. CASE EchouerEtablissement
    <3>1. CASE epoque = 0
      BY <2>5, <3>1 DEF EchouerEtablissement
    <3>2. CASE epoque > 0
      BY <2>5, <3>2 DEF EchouerEtablissement
    <3> QED
      BY <2>a, <3>1, <3>2
  <2>6. CASE Armer
    BY <2>6 DEF Armer
  <2>7. CASE ReussirPoignee
    BY <2>7 DEF ReussirPoignee
  <2>8. CASE Preparer
    BY <2>8 DEF Preparer
  <2>9. CASE Echouer
    BY <2>9 DEF Echouer
  <2>10. CASE FinirMedia
    BY <2>10 DEF FinirMedia
  <2>11. CASE Joindre
    BY <2>11 DEF Joindre
  <2>12. CASE AttendreAux
    BY <2>12 DEF AttendreAux
  <2>13. CASE Lacher
    BY <2>13 DEF Lacher
  <2>14. CASE Conclure
    BY <2>14 DEF Conclure
  <2>15. CASE JoindrePont
    BY <2>15 DEF JoindrePont
  <2>16. CASE LireStop
    BY <2>16 DEF LireStop
  <2>17. CASE Classer
    BY <2>17 DEF Classer
  <2>18. CASE SeReconnecter
    BY <2>18 DEF SeReconnecter
  <2>19. CASE Boucler
    BY <2>19 DEF Boucler
  <2>20. CASE Tenter
    BY <2>20 DEF Tenter
  <2>21. CASE Finir
    BY <2>21 DEF Finir
  <2>22. CASE Clore
    BY <2>22 DEF Clore
  <2>23. CASE Pont
    BY <2>23 DEF Pont
  <2>24. CASE Rappeler
    BY <2>24 DEF Rappeler
  <2>25. CASE Injecter
    BY <2>25 DEF Injecter
  <2>26. CASE RaccourciDeconnexion
    BY <2>26, <2>a DEF RaccourciDeconnexion
  <2>27. CASE FinirAux
    BY <2>27 DEF FinirAux
  <2>28. CASE DemanderArret
    BY <2>28, <2>a DEF DemanderArret
  <2>29. CASE Couper
    BY <2>29 DEF Couper
  <2>30. CASE Retablir
    BY <2>30 DEF Retablir
  <2>31. CASE Fermer
    BY <2>31 DEF Fermer
  <2>32. CASE UNCHANGED vars
    BY <2>32 DEF vars
  <2> QED
    BY <2>1, <2>2, <2>3, <2>4, <2>5, <2>6, <2>7, <2>8, <2>9, <2>10,
       <2>11, <2>12, <2>13, <2>14, <2>15, <2>16, <2>17, <2>18, <2>19, <2>20,
       <2>21, <2>22, <2>23, <2>24, <2>25, <2>26, <2>27, <2>28, <2>29, <2>30,
       <2>31, <2>32
       DEF Next, Pilote, Threads, Monde, Termine
<1>3. ArretInd => ArretUneEpoque
  BY DEF ArretUneEpoque
<1> QED
  BY <1>1, <1>2, <1>3, TypeCorrect, PTL DEF Spec

-----------------------------------------------------------------------------
(***************************************************************************)
(* The end.  The stop signal is raised by a demand or by the pilot that    *)
(* ends, never by anything in between; the rest is RepriseInd.             *)
(***************************************************************************)
FinInd ==
  /\ stop /\ pc \notin {"cloture", "termine"} => demande
  /\ lu => demande
  /\ pc \in {"joindre", "attendreAux", "lacher"} \cup Conclusion => resultat \in {"Ok", "Err"}
  /\ FinJustifiee

\* A session by rendezvous that ends without an error was asked to, or has made
\* every attempt its policy grants.
THEOREM FinToujoursJustifiee == Spec => []FinJustifiee
<1> USE DEF FinInd, FinJustifiee, Conclusion
<1>1. Init => FinInd
  BY DEF Init
<1>2. TypeOK /\ RepriseInd /\ FinInd /\ [Next]_vars => FinInd'
  <2> SUFFICES ASSUME TypeOK, RepriseInd, FinInd, [Next]_vars
               PROVE  FinInd'
    OBVIOUS
  <2> USE DEF config, arrets, issue, reprise
  <2>a. /\ max \in Nat \cup {Illimite}
        /\ rc \in Controleur /\ tentatives \in Nat /\ epoque \in Nat
        /\ contact \in {"Loopback", "Direct", "ByRendezvous"}
    BY PolitiquesAssumption DEF TypeOK
  <2>1. CASE Resoudre
    BY <2>1 DEF Resoudre
  <2>2. CASE Connecter
    BY <2>2, <2>a DEF Connecter
  <2>3. ASSUME NEW p \in Pairs, TrouverChemin(p) PROVE FinInd'
    BY <2>3 DEF TrouverChemin, Etablissement
  <2>4. CASE EtablirQuic
    BY <2>4 DEF EtablirQuic
  <2>5. CASE EchouerEtablissement
    <3>1. CASE epoque = 0
      BY <2>5, <3>1 DEF EchouerEtablissement, Etablissement
    <3>2. CASE epoque # 0
      BY <2>5, <3>2 DEF EchouerEtablissement, Etablissement
    <3> QED
      BY <3>1, <3>2
  <2>6. CASE Armer
    BY <2>6 DEF Armer
  <2>7. CASE ReussirPoignee
    BY <2>7 DEF ReussirPoignee
  <2>8. CASE Preparer
    BY <2>8 DEF Preparer
  <2>9. CASE Echouer
    BY <2>9 DEF Echouer
  <2>10. CASE FinirMedia
    BY <2>10 DEF FinirMedia
  <2>11. CASE Joindre
    BY <2>11 DEF Joindre
  <2>12. CASE AttendreAux
    BY <2>12 DEF AttendreAux
  <2>13. CASE Lacher
    BY <2>13 DEF Lacher
  <2>14. CASE Conclure
    BY <2>14 DEF Conclure
  <2>15. CASE JoindrePont
    BY <2>15 DEF JoindrePont
  <2>16. CASE LireStop
    BY <2>16 DEF LireStop
  <2>17. CASE Classer
    <3>1. pc = "lireCoupe" /\ pc' \in {"reconnecter", "fin"}
      BY <2>17 DEF Classer
    <3>2. UNCHANGED <<config, arrets, issue, reprise>>
      BY <2>17 DEF Classer
    <3>3. ASSUME pc' = "fin", ~erreur' PROVE demande \/ contact # "ByRendezvous"
      <4>1. Classement # "Erreur"
        BY <2>17, <3>3 DEF Classer
      <4>2. CASE Classement = "LienPerdu"
        BY <2>17, <3>3, <4>2 DEF Classer
      <4>3. CASE Classement # "LienPerdu"
        <5>1. resultat \in {"Ok", "Err"}
          BY <3>1
        <5>2. lu
          BY <4>1, <4>3, <5>1 DEF Classement
        <5> QED
          BY <5>2
      <4> QED
        BY <4>2, <4>3
    <3> QED
      BY <3>1, <3>2, <3>3
  <2>18. CASE SeReconnecter
    BY <2>18 DEF SeReconnecter
  <2>19. CASE Boucler
    <3>1. CASE stop
      BY <2>19, <3>1 DEF Boucler
    <3>2. CASE ~stop /\ DelaiRendu(max, rc)
      BY <2>19, <3>2 DEF Boucler
    <3>3. CASE ~stop /\ ~DelaiRendu(max, rc)
      <4>1. ~rc.arme /\ pc = "boucle" /\ pc' = "fin" /\ rc' = NextDelay(max, rc)
        BY <2>19, <3>3 DEF Boucler, DelaiRendu
      <4>2. UNCHANGED <<max, tentatives>>
        BY <2>19 DEF Boucler
      <4>3. CASE rc.etat = "Waiting"
        <5>1. ~Accorde(max, Suivante(max, rc.tentative))
          BY <3>3, <4>3 DEF DelaiRendu
        <5>2. max \in Nat /\ max # Illimite
          BY <2>a, <5>1, IllimiteAssumption DEF Accorde
        <5>3. rc.tentative = tentatives /\ tentatives <= max
          BY <4>1, <4>3, <5>2 DEF RepriseInd, Arme, EnCours, Epuise, TentativesBornees
        <5>4. tentatives = max
          BY <2>a, <5>1, <5>2, <5>3 DEF Accorde, Suivante
        <5>5. rc'.etat = "GaveUp"
          BY <4>1, <4>3, <5>1 DEF NextDelay, Programme
        <5> QED
          BY <2>19, <4>2, <5>4, <5>5 DEF Boucler, HasGivenUp
      <4>4. CASE rc.etat # "Waiting"
        <5>1. rc.etat = "GaveUp" /\ tentatives = max
          BY <4>1, <4>4 DEF RepriseInd, Epuise
        <5>2. rc' = rc
          BY <4>1, <4>4 DEF NextDelay
        <5> QED
          BY <2>19, <4>2, <5>1, <5>2 DEF Boucler, HasGivenUp
      <4> QED
        BY <4>3, <4>4
    <3> QED
      BY <3>1, <3>2, <3>3
  <2>20. CASE Tenter
    BY <2>20 DEF Tenter
  <2>21. CASE Finir
    BY <2>21 DEF Finir
  <2>22. CASE Clore
    BY <2>22 DEF Clore
  <2>23. CASE Pont
    BY <2>23 DEF Pont
  <2>24. CASE Rappeler
    BY <2>24 DEF Rappeler
  <2>25. CASE Injecter
    BY <2>25 DEF Injecter
  <2>26. CASE RaccourciDeconnexion
    BY <2>26 DEF RaccourciDeconnexion
  <2>27. CASE FinirAux
    BY <2>27 DEF FinirAux
  <2>28. CASE DemanderArret
    BY <2>28 DEF DemanderArret
  <2>29. CASE Couper
    BY <2>29 DEF Couper
  <2>30. CASE Retablir
    BY <2>30 DEF Retablir
  <2>31. CASE Fermer
    BY <2>31 DEF Fermer
  <2>32. CASE UNCHANGED vars
    BY <2>32 DEF vars
  <2> QED
    BY <2>1, <2>2, <2>3, <2>4, <2>5, <2>6, <2>7, <2>8, <2>9, <2>10,
       <2>11, <2>12, <2>13, <2>14, <2>15, <2>16, <2>17, <2>18, <2>19, <2>20,
       <2>21, <2>22, <2>23, <2>24, <2>25, <2>26, <2>27, <2>28, <2>29, <2>30,
       <2>31, <2>32
       DEF Next, Pilote, Threads, Monde, Termine
<1>3. FinInd => FinJustifiee
  OBVIOUS
<1> QED
  BY <1>1, <1>2, <1>3, TypeCorrect, RepriseInvariante, PTL DEF Spec

-----------------------------------------------------------------------------
(***************************************************************************)
(* The implementation of SessionLifecycle: where the pilot is determines   *)
(* what was announced last, and whose connection it is about to live.      *)
(***************************************************************************)
EtatInd ==
  /\ pc = "debut" => etat = "Idle"
  /\ pc = "resolution" => etat = "Resolving"
  /\ pc \in Etablissement => etat = IF epoque = 0 THEN "Connecting" ELSE "Reconnecting"
  /\ pc = "armer" => etat = IF epoque = 1 THEN "Connecting" ELSE "Reconnecting"
  /\ pc = "poignee" => etat = "Handshaking"
  /\ pc \in CorpsEpoque \cup Conclusion \cup {"reconnecter"} => etat \in {"Handshaking", "Active"}
  /\ pc \in {"boucle", "attente"} => etat = "Reconnecting"
  /\ pc \in {"fin", "cloture"} => etat \notin {"Idle", "Closed"}
  /\ pc = "termine" => etat = "Closed"

PairInd ==
  /\ pc \in {"debut", "resolution"} => epoque = 0
  /\ pc \in CorpsEpoque \cup Conclusion \cup {"armer", "reconnecter", "boucle", "attente"} => epoque > 0
  /\ epoque = 0 => pair = Aucun
  /\ contact # "ByRendezvous" =>
       /\ pc \notin {"chercher", "reconnecter", "boucle", "attente"}
       /\ pc \in {"connecterQuic", "accepterQuic"} => epoque = 0
  /\ contact = "ByRendezvous" =>
       /\ role = "Controller" => impose # Aucun /\ (epoque > 0 => pair = impose)
       /\ role = "Controller" /\ pc \in {"connecterQuic", "accepterQuic"} => appelant = impose
       /\ pc \in {"connecterQuic", "accepterQuic"} /\ epoque > 0 => appelant = pair

\* A session knows its peer from the first connection on and keeps it.
LEMMA PairInvariant == Spec => []PairInd
<1> USE DEF PairInd, Etablissement, CorpsEpoque, Conclusion
<1>1. Init => PairInd
  BY DEF Init
<1>2. TypeOK /\ PairInd /\ [Next]_vars => PairInd'
  <2> SUFFICES ASSUME TypeOK, PairInd, [Next]_vars
               PROVE  PairInd'
    OBVIOUS
  <2> USE DEF config, identite
  <2>a. /\ epoque \in Nat /\ contact \in {"Loopback", "Direct", "ByRendezvous"}
        /\ role \in {"Controller", "Controlled"}
    BY DEF TypeOK
  <2>1. CASE Resoudre
    BY <2>1 DEF Resoudre
  <2>2. CASE Connecter
    BY <2>2, <2>a DEF Connecter
  <2>3. ASSUME NEW p \in Pairs, TrouverChemin(p) PROVE PairInd'
    <3>1. /\ pc = "chercher" /\ appelant' = p
          /\ pc' \in {"connecterQuic", "accepterQuic"}
          /\ UNCHANGED <<config, pair, epoque>>
      BY <2>3 DEF TrouverChemin
    <3>2. role = "Controller" /\ contact = "ByRendezvous" => p = impose
      BY <2>3, <2>a DEF TrouverChemin, Admis
    <3>3. epoque > 0 => p = pair
      BY <2>3, <2>a, <3>1, <3>2 DEF TrouverChemin, Admis
    <3> QED
      BY <3>1, <3>2, <3>3
  <2>4. CASE EtablirQuic
    <3>1. /\ pc' = "armer" /\ epoque' = epoque + 1
          /\ pc \in {"connecterQuic", "accepterQuic"}
          /\ pair' = IF contact = "ByRendezvous" THEN appelant ELSE impose
      BY <2>4 DEF EtablirQuic
    <3>2. UNCHANGED config
      BY <2>4 DEF EtablirQuic
    <3> QED
      BY <2>a, <3>1, <3>2
  <2>5. CASE EchouerEtablissement
    <3>1. CASE epoque = 0
      BY <2>5, <3>1 DEF EchouerEtablissement
    <3>2. CASE epoque > 0
      BY <2>5, <3>2 DEF EchouerEtablissement
    <3> QED
      BY <2>a, <3>1, <3>2
  <2>6. CASE Armer
    BY <2>6, <2>a DEF Armer
  <2>7. CASE ReussirPoignee
    BY <2>7 DEF ReussirPoignee
  <2>8. CASE Preparer
    BY <2>8 DEF Preparer
  <2>9. CASE Echouer
    BY <2>9 DEF Echouer
  <2>10. CASE FinirMedia
    BY <2>10 DEF FinirMedia
  <2>11. CASE Joindre
    BY <2>11 DEF Joindre
  <2>12. CASE AttendreAux
    BY <2>12 DEF AttendreAux
  <2>13. CASE Lacher
    BY <2>13 DEF Lacher
  <2>14. CASE Conclure
    BY <2>14 DEF Conclure
  <2>15. CASE JoindrePont
    BY <2>15 DEF JoindrePont
  <2>16. CASE LireStop
    BY <2>16 DEF LireStop
  <2>17. CASE Classer
    BY <2>17, <2>a DEF Classer
  <2>18. CASE SeReconnecter
    BY <2>18, <2>a DEF SeReconnecter
  <2>19. CASE Boucler
    BY <2>19, <2>a DEF Boucler
  <2>20. CASE Tenter
    BY <2>20, <2>a DEF Tenter
  <2>21. CASE Finir
    BY <2>21 DEF Finir
  <2>22. CASE Clore
    BY <2>22 DEF Clore
  <2>23. CASE Pont
    BY <2>23 DEF Pont
  <2>24. CASE Rappeler
    BY <2>24 DEF Rappeler
  <2>25. CASE Injecter
    BY <2>25 DEF Injecter
  <2>26. CASE RaccourciDeconnexion
    BY <2>26 DEF RaccourciDeconnexion
  <2>27. CASE FinirAux
    BY <2>27 DEF FinirAux
  <2>28. CASE DemanderArret
    BY <2>28 DEF DemanderArret
  <2>29. CASE Couper
    BY <2>29 DEF Couper
  <2>30. CASE Retablir
    BY <2>30 DEF Retablir
  <2>31. CASE Fermer
    BY <2>31 DEF Fermer
  <2>32. CASE UNCHANGED vars
    BY <2>32 DEF vars
  <2> QED
    BY <2>1, <2>2, <2>3, <2>4, <2>5, <2>6, <2>7, <2>8, <2>9, <2>10,
       <2>11, <2>12, <2>13, <2>14, <2>15, <2>16, <2>17, <2>18, <2>19, <2>20,
       <2>21, <2>22, <2>23, <2>24, <2>25, <2>26, <2>27, <2>28, <2>29, <2>30,
       <2>31, <2>32
       DEF Next, Pilote, Threads, Monde, Termine
<1> QED
  BY <1>1, <1>2, TypeCorrect, PTL DEF Spec

\* The announced state always tells where the pilot is.
LEMMA EtatInvariant == Spec => []EtatInd
<1> USE DEF EtatInd, Etablissement, CorpsEpoque, Conclusion
<1>1. Init => EtatInd
  BY DEF Init
<1>2. TypeOK /\ PairInd /\ EtatInd /\ [Next]_vars => EtatInd'
  <2> SUFFICES ASSUME TypeOK, PairInd, EtatInd, [Next]_vars
               PROVE  EtatInd'
    OBVIOUS
  <2>a. /\ epoque \in Nat /\ contact \in {"Loopback", "Direct", "ByRendezvous"}
        /\ pc \in {"debut", "resolution"} => epoque = 0
        /\ pc \in CorpsEpoque \cup Conclusion \cup {"reconnecter", "boucle", "attente"} => epoque > 0
    BY DEF TypeOK, PairInd
  <2>1. CASE Resoudre
    BY <2>1 DEF Resoudre
  <2>2. CASE Connecter
    BY <2>2, <2>a DEF Connecter
  <2>3. ASSUME NEW p \in Pairs, TrouverChemin(p) PROVE EtatInd'
    BY <2>3 DEF TrouverChemin
  <2>4. CASE EtablirQuic
    BY <2>4, <2>a DEF EtablirQuic
  <2>5. CASE EchouerEtablissement
    <3>1. CASE epoque = 0
      BY <2>5, <3>1 DEF EchouerEtablissement
    <3>2. CASE epoque > 0
      BY <2>5, <3>2 DEF EchouerEtablissement
    <3> QED
      BY <2>a, <3>1, <3>2
  <2>6. CASE Armer
    BY <2>6, <2>a DEF Armer
  <2>7. CASE ReussirPoignee
    BY <2>7 DEF ReussirPoignee
  <2>8. CASE Preparer
    BY <2>8 DEF Preparer
  <2>9. CASE Echouer
    BY <2>9 DEF Echouer
  <2>10. CASE FinirMedia
    BY <2>10 DEF FinirMedia
  <2>11. CASE Joindre
    BY <2>11 DEF Joindre
  <2>12. CASE AttendreAux
    BY <2>12 DEF AttendreAux
  <2>13. CASE Lacher
    BY <2>13 DEF Lacher
  <2>14. CASE Conclure
    BY <2>14 DEF Conclure
  <2>15. CASE JoindrePont
    BY <2>15 DEF JoindrePont
  <2>16. CASE LireStop
    BY <2>16 DEF LireStop
  <2>17. CASE Classer
    BY <2>17 DEF Classer
  <2>18. CASE SeReconnecter
    BY <2>18 DEF SeReconnecter
  <2>19. CASE Boucler
    BY <2>19 DEF Boucler
  <2>20. CASE Tenter
    BY <2>20, <2>a DEF Tenter
  <2>21. CASE Finir
    BY <2>21 DEF Finir
  <2>22. CASE Clore
    BY <2>22 DEF Clore
  <2>23. CASE Pont
    BY <2>23 DEF Pont
  <2>24. CASE Rappeler
    BY <2>24 DEF Rappeler
  <2>25. CASE Injecter
    BY <2>25 DEF Injecter
  <2>26. CASE RaccourciDeconnexion
    BY <2>26 DEF RaccourciDeconnexion
  <2>27. CASE FinirAux
    BY <2>27 DEF FinirAux
  <2>28. CASE DemanderArret
    BY <2>28 DEF DemanderArret
  <2>29. CASE Couper
    BY <2>29 DEF Couper
  <2>30. CASE Retablir
    BY <2>30 DEF Retablir
  <2>31. CASE Fermer
    BY <2>31 DEF Fermer
  <2>32. CASE UNCHANGED vars
    BY <2>32 DEF vars
  <2> QED
    BY <2>1, <2>2, <2>3, <2>4, <2>5, <2>6, <2>7, <2>8, <2>9, <2>10,
       <2>11, <2>12, <2>13, <2>14, <2>15, <2>16, <2>17, <2>18, <2>19, <2>20,
       <2>21, <2>22, <2>23, <2>24, <2>25, <2>26, <2>27, <2>28, <2>29, <2>30,
       <2>31, <2>32
       DEF Next, Pilote, Threads, Monde, Termine
<1>3. Spec => []PairInd
  BY PairInvariant
<1> QED
  BY <1>1, <1>2, <1>3, TypeCorrect, PTL DEF Spec

\* Every behaviour of the engine is one a SessionLifecycle allows: each step
\* announces the next state of a session, or nothing.
THEOREM Refinement == Spec => RefineLifecycle
<1>1. Init => Promesse!Init
  BY DEF Init, Promesse!Init, PairVu, EpoqueVue
<1>2. TypeOK /\ PairInd /\ PairInd' /\ EtatInd /\ [Next]_vars => [Promesse!Next]_(Promesse!vars)
  <2> SUFFICES ASSUME TypeOK, PairInd, PairInd', EtatInd, [Next]_vars
               PROVE  [Promesse!Next]_(Promesse!vars)
    OBVIOUS
  <2> USE DEF Promesse!vars, PairVu, EpoqueVue, identite
  <2>a. epoque \in Nat /\ pair \in Pairs \cup {Aucun}
    BY DEF TypeOK
  <2>b. pc \in CorpsEpoque \cup Conclusion \cup {"armer", "reconnecter", "boucle", "attente"} => epoque > 0
    BY DEF PairInd
  <2>1. CASE Resoudre
    BY <2>1 DEF Resoudre, EtatInd, Promesse!Resolve, Promesse!Next
  <2>2. CASE Connecter
    <3>1. pc' # "armer" /\ contact \in {"Loopback", "Direct", "ByRendezvous"}
      BY <2>2 DEF Connecter, TypeOK
    <3> QED
      BY <2>2, <3>1 DEF Connecter, EtatInd, Promesse!Connect, Promesse!Next
  <2>3. ASSUME NEW p \in Pairs, TrouverChemin(p) PROVE [Promesse!Next]_(Promesse!vars)
    BY <2>3 DEF TrouverChemin
  <2>4. CASE EtablirQuic
    <3>1. pc # "armer" /\ pc' = "armer" /\ epoque' = epoque + 1 /\ UNCHANGED etat
      BY <2>4 DEF EtablirQuic
    <3>2. CASE epoque = 0
      BY <3>1, <3>2 DEF PairInd
    <3>3. CASE epoque > 0
      <4>1. contact = "ByRendezvous" /\ appelant = pair
        BY <2>4, <3>3 DEF EtablirQuic, PairInd
      <4>2. pair' = pair
        BY <2>4, <4>1 DEF EtablirQuic
      <4> QED
        BY <2>a, <3>1, <3>3, <4>2
    <3> QED
      BY <2>a, <3>2, <3>3
  <2>5. CASE EchouerEtablissement
    BY <2>5 DEF EchouerEtablissement, Etablissement
  <2>6. CASE Armer
    <3>1. etat' = "Handshaking" /\ pc = "armer" /\ pc' = "poignee" /\ UNCHANGED <<pair, epoque>>
      BY <2>6 DEF Armer
    <3>2. CASE epoque = 1
      BY <2>a, <3>1, <3>2 DEF EtatInd, Promesse!Open, Promesse!Next
    <3>3. CASE epoque > 1
      BY <2>a, <3>1, <3>3 DEF EtatInd, Promesse!Resume, Promesse!Next
    <3> QED
      BY <2>a, <2>b, <3>1, <3>2, <3>3
  <2>7. CASE ReussirPoignee
    BY <2>7 DEF ReussirPoignee, EtatInd, Promesse!Secure, Promesse!Next
  <2>8. CASE Preparer
    BY <2>8 DEF Preparer
  <2>9. CASE Echouer
    BY <2>9 DEF Echouer
  <2>10. CASE FinirMedia
    BY <2>10 DEF FinirMedia
  <2>11. CASE Joindre
    BY <2>11 DEF Joindre
  <2>12. CASE AttendreAux
    BY <2>12 DEF AttendreAux
  <2>13. CASE Lacher
    BY <2>13 DEF Lacher
  <2>14. CASE Conclure
    BY <2>14 DEF Conclure
  <2>15. CASE JoindrePont
    BY <2>15 DEF JoindrePont
  <2>16. CASE LireStop
    BY <2>16 DEF LireStop
  <2>17. CASE Classer
    BY <2>17 DEF Classer
  <2>18. CASE SeReconnecter
    BY <2>18 DEF SeReconnecter, EtatInd, Promesse!Lose, Promesse!Next
  <2>19. CASE Boucler
    BY <2>19 DEF Boucler
  <2>20. CASE Tenter
    BY <2>20 DEF Tenter
  <2>21. CASE Finir
    BY <2>21 DEF Finir
  <2>22. CASE Clore
    BY <2>22 DEF Clore, EtatInd, Promesse!Close, Promesse!Next
  <2>23. CASE Pont
    BY <2>23 DEF Pont
  <2>24. CASE Rappeler
    BY <2>24 DEF Rappeler
  <2>25. CASE Injecter
    BY <2>25 DEF Injecter
  <2>26. CASE RaccourciDeconnexion
    BY <2>26 DEF RaccourciDeconnexion
  <2>27. CASE FinirAux
    BY <2>27 DEF FinirAux
  <2>28. CASE DemanderArret
    BY <2>28 DEF DemanderArret
  <2>29. CASE Couper
    BY <2>29 DEF Couper
  <2>30. CASE Retablir
    BY <2>30 DEF Retablir
  <2>31. CASE Fermer
    BY <2>31 DEF Fermer
  <2>32. CASE UNCHANGED vars
    BY <2>32 DEF vars
  <2> QED
    BY <2>1, <2>2, <2>3, <2>4, <2>5, <2>6, <2>7, <2>8, <2>9, <2>10,
       <2>11, <2>12, <2>13, <2>14, <2>15, <2>16, <2>17, <2>18, <2>19, <2>20,
       <2>21, <2>22, <2>23, <2>24, <2>25, <2>26, <2>27, <2>28, <2>29, <2>30,
       <2>31, <2>32
       DEF Next, Pilote, Threads, Monde, Termine
<1> QED
  BY <1>1, <1>2, TypeCorrect, PairInvariant, EtatInvariant, PTL
     DEF Spec, RefineLifecycle, Promesse!Spec

=============================================================================
