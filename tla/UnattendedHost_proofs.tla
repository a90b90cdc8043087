------------------------ MODULE UnattendedHost_proofs ------------------------
(***************************************************************************)
(* Proofs about UnattendedHost, for every set of callers, whatever each of *)
(* them sends, every set of codes and every bound.                         *)
(***************************************************************************)
EXTENDS UnattendedHost, TLAPS

-----------------------------------------------------------------------------
(***************************************************************************)
(* The invitation store.                                                   *)
(***************************************************************************)

\* Redeem and PurgeExpired act on one store: they keep its type, Redeem marks a
\* code only when it answers Valid and touches no other code, and a code that is
\* marked and good for one session is never Valid again.
LEMMA MagasinLemma ==
  ASSUME NEW m \in Magasins, NEW c \in Codes, NEW now \in Nat
  PROVE  /\ Redeem(m, c, now) \in Magasins
         /\ PurgeExpired(m, now) \in Magasins
         /\ \A d \in Codes : d # c => Redeem(m, c, now)[d] = m[d]
         /\ RedeemResult(m, c, now) = "Valid" =>
              /\ m[c] \in Entree
              /\ ~(m[c].oneTime /\ m[c].used)
              /\ Redeem(m, c, now)[c] = [m[c] EXCEPT !.used = TRUE]
         /\ \A d \in Codes : PurgeExpired(m, now)[d] \in {m[d], Absente}
<1> USE DEF Magasins
<1>1. RedeemResult(m, c, now) = "Valid" => m[c] \in Entree /\ ~(m[c].oneTime /\ m[c].used)
  <2>1. CASE m[c] = Absente
    BY <2>1 DEF RedeemResult
  <2>2. CASE m[c] # Absente /\ m[c].oneTime /\ m[c].used
    BY <2>2 DEF RedeemResult
  <2>3. CASE m[c] # Absente /\ ~(m[c].oneTime /\ m[c].used)
    BY <2>3
  <2> QED
    BY <2>1, <2>2, <2>3
<1>2. m[c] \in Entree => [m[c] EXCEPT !.used = TRUE] \in Entree
  BY DEF Entree
<1>3. RedeemResult(m, c, now) = "Valid" =>
        Redeem(m, c, now) = [m EXCEPT ![c] = [m[c] EXCEPT !.used = TRUE]]
  BY DEF Redeem
<1>4. RedeemResult(m, c, now) # "Valid" => Redeem(m, c, now) = m
  BY DEF Redeem
<1>5. Redeem(m, c, now) \in Magasins
  BY <1>1, <1>2, <1>3, <1>4
<1>6. \A d \in Codes : d # c => Redeem(m, c, now)[d] = m[d]
  BY <1>3, <1>4
<1>7. PurgeExpired(m, now) \in Magasins
  BY DEF PurgeExpired
<1>8. \A d \in Codes : PurgeExpired(m, now)[d] \in {m[d], Absente}
  BY DEF PurgeExpired
<1> QED
  BY <1>1, <1>3, <1>5, <1>6, <1>7, <1>8

-----------------------------------------------------------------------------
(***************************************************************************)
(* Type correctness.                                                       *)
(***************************************************************************)

\* Whatever the callers, the network and the application do, every variable of the
\* service keeps its type.
THEOREM TypeCorrect == Spec => []TypeOK
<1>1. Init => TypeOK
  <2> SUFFICES ASSUME Init
               PROVE  TypeOK
    OBVIOUS
  <2>1. magasin \in Magasins
    BY DEF Init, Magasins, Vide
  <2>2. /\ admission \in BOOLEAN /\ publie \in BOOLEAN /\ recue \in BOOLEAN
        /\ arret \in BOOLEAN /\ stop \in BOOLEAN /\ erreur \in BOOLEAN
    BY DEF Init
  <2>3. heure \in 0..MaxHeure
    BY BornesAssumption DEF Init
  <2> QED
    BY <2>1, <2>2, <2>3 DEF Init, TypeOK
<1>2. TypeOK /\ [Next]_vars => TypeOK'
  <2> SUFFICES ASSUME TypeOK, [Next]_vars
               PROVE  TypeOK'
    OBVIOUS
  <2> USE DEF TypeOK, service, temps, session, comptes
  <2>a. heure \in Nat
    BY BornesAssumption
  <2>1. CASE Publier
    BY <2>1 DEF Publier
  <2>2. CASE EchouerPublication
    BY <2>2 DEF EchouerPublication
  <2>3. CASE ExpirerFenetre
    BY <2>3 DEF ExpirerFenetre
  <2>4. CASE QuitterAttente
    BY <2>4 DEF QuitterAttente
  <2>5. ASSUME NEW a \in Appelants, Entrer(a)
       PROVE  TypeOK'
    BY <2>5 DEF Entrer
  <2>6. ASSUME NEW a \in Appelants, RefuserAuPunch(a)
       PROVE  TypeOK'
    BY <2>6 DEF RefuserAuPunch
  <2>7. CASE AccepterQuic
    <3>1. /\ servies' \in Nat
          /\ motif' \in {"aucun", "accord"}
          /\ connexions' \in Nat
      BY <2>7 DEF AccepterQuic
    <3> QED
      BY <2>7, <3>1 DEF AccepterQuic
  <2>8. CASE EchouerAccept
    BY <2>8 DEF EchouerAccept
  <2>9. CASE EchouerPoignee
    <3>1. perdues' \in Nat
      BY <2>9 DEF EchouerPoignee
    <3> QED
      BY <2>9, <3>1 DEF EchouerPoignee
  <2>10. CASE ReussirPoignee
    <3>1. CASE admission /\ appelant \in Confiance
      BY <2>10, <3>1, AppelantsAssumption DEF ReussirPoignee, Admettre
    <3>2. CASE ~(admission /\ appelant \in Confiance)
      BY <2>10, <3>2 DEF ReussirPoignee
    <3> QED
      BY <3>1, <3>2
  <2>11. CASE LireDemande
    <3>a. appelant \in Appelants
      BY <2>11 DEF LireDemande
    <3>1. CASE DeciderMotDePasse
      BY <2>11, <3>1, <3>a DEF LireDemande, DeciderMotDePasse, Admettre, Refuser
    <3>2. CASE DeciderInvitation
      <4>1. Preuve[appelant] \in Codes
        BY <3>2 DEF DeciderInvitation
      <4>2. Redeem(magasin, Preuve[appelant], heure) \in Magasins
        BY <2>a, <4>1, MagasinLemma
      <4> QED
        BY <2>11, <3>2, <3>a, <4>1, <4>2 DEF LireDemande, DeciderInvitation, Admettre, Refuser
    <3>3. CASE SansPreuve
      BY <2>11, <3>3 DEF LireDemande, SansPreuve
    <3> QED
      BY <2>11, <3>1, <3>2, <3>3 DEF LireDemande
  <2>12. CASE ExpirerDemande
    BY <2>12 DEF ExpirerDemande
  <2>13. CASE Interrompre
    BY <2>13 DEF Interrompre
  <2>14. ASSUME NEW accord \in BOOLEAN, Repondre(accord)
       PROVE  TypeOK'
    <3>1. CASE accord
      BY <2>14, <3>1 DEF Repondre, Admettre
    <3>2. CASE ~accord
      BY <2>14, <3>2 DEF Repondre, Refuser
    <3> QED
      BY <3>1, <3>2
  <2>15. ASSUME NEW r \in {"Ok", "Err"}, FinirMedia(r)
       PROVE  TypeOK'
    BY <2>15 DEF FinirMedia
  <2>16. ASSUME NEW coupe \in BOOLEAN, Conclure(coupe)
       PROVE  TypeOK'
    <3>1. erreur' \in BOOLEAN
      BY <2>16 DEF Conclure
    <3>2. /\ appelant' = Personne /\ lien' = "absent" /\ recue' = FALSE
          /\ motif' = "aucun" /\ resultat' = "aucun" /\ pc' = "publier"
          /\ UNCHANGED <<service, temps, arret, profil, stop, servies, refuses, parCode,
                         connexions, perdues>>
      BY <2>16 DEF Conclure
    <3> QED
      BY <3>1, <3>2
  <2>17. CASE Arreter
    BY <2>17 DEF Arreter
  <2>18. CASE Arriver
    BY <2>18 DEF Arriver
  <2>19. CASE Pont
    BY <2>19 DEF Pont
  <2>20. CASE Fermer
    BY <2>20 DEF Fermer
  <2>21. CASE RaccourciDeconnexion
    BY <2>21 DEF RaccourciDeconnexion
  <2>22. CASE DemanderArret
    BY <2>22 DEF DemanderArret
  <2>23. ASSUME NEW c0 \in Codes, NEW ttl \in 1..2, NEW unique \in BOOLEAN, Emettre(c0, ttl, unique)
       PROVE  TypeOK'
    <3>1. [expires |-> heure + ttl, oneTime |-> unique, used |-> FALSE] \in Entree
      BY <2>a DEF Entree
    <3>2. magasin' \in Magasins
      BY <2>23, <3>1 DEF Emettre, Register, Magasins
    <3> QED
      BY <2>23, <3>2 DEF Emettre
  <2>24. CASE Purger
    <3>1. magasin' \in Magasins
      BY <2>24, <2>a DEF Purger, PurgeExpired, Magasins
    <3> QED
      BY <2>24, <3>1 DEF Purger
  <2>25. CASE Avancer
    BY <2>25, BornesAssumption DEF Avancer
  <2>26. CASE UNCHANGED vars
    BY <2>26 DEF vars
  <2> QED
    BY <2>1, <2>2, <2>3, <2>4, <2>5, <2>6, <2>7, <2>8, <2>9, <2>10, <2>11, <2>12, <2>13,
       <2>14, <2>15, <2>16, <2>17, <2>18, <2>19, <2>20, <2>21, <2>22, <2>23, <2>24, <2>25,
       <2>26 DEF Next, Service, Monde, Termine
<1> QED
  BY <1>1, <1>2, PTL DEF Spec

-----------------------------------------------------------------------------
(***************************************************************************)
(* The counters.  Between the moment a caller is connected and the moment  *)
(* it is served, refused or lost, it is in none of the three counters.     *)
(***************************************************************************)
EnExamen == admission /\ pc \in {"poignee", "demande", "dialogue"}

ComptesInd ==
  /\ TypeOK
  /\ pc \in {"demande", "dialogue"} => admission
  /\ EnExamen => connexions = servies + refuses + perdues + 1
  /\ ~EnExamen => connexions = servies + refuses + perdues

\* No caller is forgotten or counted twice, in both modes, whatever the
\* interruptions: the counters the application reads always add up.
THEOREM ComptesExacts == Spec => []ComptesJustes
<1> USE DEF ComptesInd, EnExamen
<1>1. Init /\ TypeOK => ComptesInd
  BY DEF Init
<1>2. ComptesInd /\ TypeOK' /\ [Next]_vars => ComptesInd'
  <2> SUFFICES ASSUME ComptesInd, TypeOK', [Next]_vars
               PROVE  ComptesInd'
    OBVIOUS
  <2>a. servies \in Nat /\ refuses \in Nat /\ perdues \in Nat /\ connexions \in Nat
    BY DEF TypeOK
  <2> USE DEF service, temps, session, comptes
  <2>1. CASE Publier
    BY <2>1, <2>a DEF Publier
  <2>2. CASE EchouerPublication
    BY <2>2, <2>a DEF EchouerPublication
  <2>3. CASE ExpirerFenetre
    BY <2>3, <2>a DEF ExpirerFenetre
  <2>4. CASE QuitterAttente
    BY <2>4, <2>a DEF QuitterAttente
  <2>5. ASSUME NEW a \in Appelants, Entrer(a)
       PROVE  ComptesInd'
    BY <2>5, <2>a DEF Entrer
  <2>6. ASSUME NEW a \in Appelants, RefuserAuPunch(a)
       PROVE  ComptesInd'
    BY <2>6, <2>a DEF RefuserAuPunch
  <2>7. CASE AccepterQuic
    BY <2>7, <2>a DEF AccepterQuic
  <2>8. CASE EchouerAccept
    BY <2>8, <2>a DEF EchouerAccept
  <2>9. CASE EchouerPoignee
    BY <2>9, <2>a DEF EchouerPoignee
  <2>10. CASE ReussirPoignee
    <3>1. CASE admission /\ appelant \in Confiance
      BY <2>10, <2>a, <3>1 DEF ReussirPoignee, Admettre
    <3>2. CASE ~(admission /\ appelant \in Confiance)
      BY <2>10, <2>a, <3>2 DEF ReussirPoignee
    <3> QED
      BY <3>1, <3>2
  <2>11. CASE LireDemande
    <3>1. CASE DeciderMotDePasse
      BY <2>11, <2>a, <3>1 DEF LireDemande, DeciderMotDePasse, Admettre, Refuser
    <3>2. CASE DeciderInvitation
      BY <2>11, <2>a, <3>2 DEF LireDemande, DeciderInvitation, Admettre, Refuser
    <3>3. CASE SansPreuve
      BY <2>11, <2>a, <3>3 DEF LireDemande, SansPreuve
    <3> QED
      BY <2>11, <3>1, <3>2, <3>3 DEF LireDemande
  <2>12. CASE ExpirerDemande
    BY <2>12, <2>a DEF ExpirerDemande
  <2>13. CASE Interrompre
    BY <2>13, <2>a DEF Interrompre
  <2>14. ASSUME NEW accord \in BOOLEAN, Repondre(accord)
       PROVE  ComptesInd'
    <3>1. CASE accord
      BY <2>14, <2>a, <3>1 DEF Repondre, Admettre
    <3>2. CASE ~accord
      BY <2>14, <2>a, <3>2 DEF Repondre, Refuser
    <3> QED
      BY <3>1, <3>2
  <2>15. ASSUME NEW r \in {"Ok", "Err"}, FinirMedia(r)
       PROVE  ComptesInd'
    BY <2>15, <2>a DEF FinirMedia
  <2>16. ASSUME NEW coupe \in BOOLEAN, Conclure(coupe)
       PROVE  ComptesInd'
    BY <2>16, <2>a DEF Conclure
  <2>17. CASE Arreter
    BY <2>17, <2>a DEF Arreter
  <2>18. CASE Arriver
    BY <2>18, <2>a DEF Arriver
  <2>19. CASE Pont
    BY <2>19, <2>a DEF Pont
  <2>20. CASE Fermer
    BY <2>20, <2>a DEF Fermer
  <2>21. CASE RaccourciDeconnexion
    BY <2>21, <2>a DEF RaccourciDeconnexion
  <2>22. CASE DemanderArret
    BY <2>22, <2>a DEF DemanderArret
  <2>23. ASSUME NEW c0 \in Codes, NEW ttl \in 1..2, NEW unique \in BOOLEAN, Emettre(c0, ttl, unique)
       PROVE  ComptesInd'
    BY <2>23, <2>a DEF Emettre
  <2>24. CASE Purger
    BY <2>24, <2>a DEF Purger
  <2>25. CASE Avancer
    BY <2>25, <2>a DEF Avancer
  <2>26. CASE UNCHANGED vars
    BY <2>26 DEF vars
  <2> QED
    BY <2>1, <2>2, <2>3, <2>4, <2>5, <2>6, <2>7, <2>8, <2>9, <2>10, <2>11, <2>12, <2>13,
       <2>14, <2>15, <2>16, <2>17, <2>18, <2>19, <2>20, <2>21, <2>22, <2>23, <2>24, <2>25,
       <2>26 DEF Next, Service, Monde, Termine
<1>3. ComptesInd => ComptesJustes
  BY DEF ComptesJustes
<1> QED
  BY <1>1, <1>2, <1>3, TypeCorrect, PTL DEF Spec

-----------------------------------------------------------------------------
(***************************************************************************)
(* The invitations.  A code for one session that has opened it is either   *)
(* marked in the store or gone from it, and never comes back.              *)
(***************************************************************************)
CodesInd ==
  /\ TypeOK
  /\ \A c \in Codes :
       /\ c \notin emis => magasin[c] = Absente /\ parCode[c] = 0
       /\ c \in uniques => parCode[c] <= 1
       /\ c \in uniques /\ magasin[c] # Absente =>
            magasin[c].oneTime /\ (magasin[c].used \/ parCode[c] = 0)
       /\ magasin[c] # Absente /\ magasin[c].used => parCode[c] > 0

\* A code is redeemed by the step that opens its session and by no other.
LEMMA CodesInvariant == Spec => []CodesInd
<1> USE DEF CodesInd
<1>1. Init /\ TypeOK => CodesInd
  BY DEF Init, Vide
<1>2. CodesInd /\ TypeOK' /\ [Next]_vars => CodesInd'
  <2> SUFFICES ASSUME CodesInd, TypeOK', [Next]_vars
               PROVE  CodesInd'
    OBVIOUS
  <2>a. /\ magasin \in Magasins /\ parCode \in [Codes -> Nat] /\ heure \in Nat
        /\ uniques \subseteq emis /\ emis \subseteq Codes
    BY BornesAssumption DEF TypeOK
  <2> USE DEF service, temps, session, comptes
  <2>1. CASE Publier
    BY <2>1 DEF Publier
  <2>2. CASE EchouerPublication
    BY <2>2 DEF EchouerPublication
  <2>3. CASE ExpirerFenetre
    BY <2>3 DEF ExpirerFenetre
  <2>4. CASE QuitterAttente
    BY <2>4 DEF QuitterAttente
  <2>5. ASSUME NEW a \in Appelants, Entrer(a)
       PROVE  CodesInd'
    BY <2>5 DEF Entrer
  <2>6. ASSUME NEW a \in Appelants, RefuserAuPunch(a)
       PROVE  CodesInd'
    BY <2>6 DEF RefuserAuPunch
  <2>7. CASE AccepterQuic
    BY <2>7 DEF AccepterQuic
  <2>8. CASE EchouerAccept
    BY <2>8 DEF EchouerAccept
  <2>9. CASE EchouerPoignee
    BY <2>9 DEF EchouerPoignee
  <2>10. CASE ReussirPoignee
    BY <2>10 DEF ReussirPoignee
  <2>11. CASE LireDemande
    <3>1. CASE DeciderMotDePasse
      BY <2>11, <3>1 DEF LireDemande, DeciderMotDePasse
    <3>2. CASE DeciderInvitation
      <4> DEFINE p == Preuve[appelant]
      <4>0. p \in Codes /\ UNCHANGED <<emis, uniques>>
        BY <2>11, <3>2 DEF LireDemande, DeciderInvitation
      <4>1. CASE Coherent /\ RedeemResult(magasin, p, heure) = "Valid"
        <5>1. /\ magasin' = Redeem(magasin, p, heure)
              /\ parCode' = [parCode EXCEPT ![p] = @ + 1]
          BY <3>2, <4>1 DEF DeciderInvitation
        <5>a. p \in Codes /\ heure \in Nat /\ magasin \in Magasins
          BY <2>a, <4>0
        <5>b. RedeemResult(magasin, p, heure) = "Valid"
          BY <4>1
        <5> HIDE DEF p
        <5>2. /\ magasin[p] \in Entree /\ ~(magasin[p].oneTime /\ magasin[p].used)
              /\ magasin'[p] = [magasin[p] EXCEPT !.used = TRUE]
              /\ \A d \in Codes : d # p => magasin'[d] = magasin[d]
          <6>1. /\ magasin[p] \in Entree
                /\ ~(magasin[p].oneTime /\ magasin[p].used)
                /\ Redeem(magasin, p, heure)[p] = [magasin[p] EXCEPT !.used = TRUE]
                /\ \A d \in Codes : d # p => Redeem(magasin, p, heure)[d] = magasin[d]
            BY ONLY <5>a, <5>b, MagasinLemma
          <6> QED
            BY ONLY <5>1, <6>1
        <5>3. /\ parCode'[p] = parCode[p] + 1
              /\ \A d \in Codes : d # p => parCode'[d] = parCode[d]
          BY <2>a, <4>0, <5>1
        <5>4. magasin[p] # Absente
          BY <5>2, AbsenteAssumption
        <5>5. /\ magasin'[p].used /\ (magasin[p].oneTime => magasin'[p].oneTime)
              /\ magasin'[p] # Absente
          BY <5>2, AbsenteAssumption DEF Entree
        <5>6. p \in emis /\ parCode[p] \in Nat
          BY <2>a, <4>0, <5>4
        <5>7. p \in uniques => parCode[p] = 0
          BY <4>0, <5>2, <5>4
        <5>8. ASSUME NEW d \in Codes
              PROVE  /\ d \notin emis' => magasin'[d] = Absente /\ parCode'[d] = 0
                     /\ d \in uniques' => parCode'[d] <= 1
                     /\ d \in uniques' /\ magasin'[d] # Absente =>
                          magasin'[d].oneTime /\ (magasin'[d].used \/ parCode'[d] = 0)
                     /\ magasin'[d] # Absente /\ magasin'[d].used => parCode'[d] > 0
          <6>1. CASE d = p
            <7>1. p \in emis' /\ parCode'[p] > 0
              BY <4>0, <5>3, <5>6
            <7>2. p \in uniques' => parCode'[p] <= 1 /\ magasin[p].oneTime
              BY <4>0, <5>3, <5>4, <5>6, <5>7
            <7> QED
              BY <5>5, <6>1, <7>1, <7>2
          <6>2. CASE d # p
            BY <4>0, <5>2, <5>3, <6>2
          <6> QED
            BY <6>1, <6>2
        <5> QED
          BY <5>8
      <4>2. CASE ~(Coherent /\ RedeemResult(magasin, p, heure) = "Valid")
        BY <3>2, <4>0, <4>2 DEF DeciderInvitation
      <4> QED
        BY <4>1, <4>2
    <3>3. CASE SansPreuve
      BY <2>11, <3>3 DEF LireDemande, SansPreuve
    <3> QED
      BY <2>11, <3>1, <3>2, <3>3 DEF LireDemande
  <2>12. CASE ExpirerDemande
    BY <2>12 DEF ExpirerDemande
  <2>13. CASE Interrompre
    BY <2>13 DEF Interrompre
  <2>14. ASSUME NEW accord \in BOOLEAN, Repondre(accord)
       PROVE  CodesInd'
    BY <2>14 DEF Repondre
  <2>15. ASSUME NEW r \in {"Ok", "Err"}, FinirMedia(r)
       PROVE  CodesInd'
    BY <2>15 DEF FinirMedia
  <2>16. ASSUME NEW coupe \in BOOLEAN, Conclure(coupe)
       PROVE  CodesInd'
    BY <2>16 DEF Conclure
  <2>17. CASE Arreter
    BY <2>17 DEF Arreter
  <2>18. CASE Arriver
    BY <2>18 DEF Arriver
  <2>19. CASE Pont
    BY <2>19 DEF Pont
  <2>20. CASE Fermer
    BY <2>20 DEF Fermer
  <2>21. CASE RaccourciDeconnexion
    BY <2>21 DEF RaccourciDeconnexion
  <2>22. CASE DemanderArret
    BY <2>22 DEF DemanderArret
  <2>23. ASSUME NEW c0 \in Codes, NEW ttl \in 1..2, NEW unique \in BOOLEAN, Emettre(c0, ttl, unique)
       PROVE  CodesInd'
    <3>1. /\ c0 \notin emis /\ emis' = emis \cup {c0} /\ UNCHANGED parCode
          /\ uniques' = IF unique THEN uniques \cup {c0} ELSE uniques
          /\ magasin' = [magasin EXCEPT ![c0] =
                           [expires |-> heure + ttl, oneTime |-> unique, used |-> FALSE]]
      BY <2>23 DEF Emettre, Register
    <3>2. /\ magasin'[c0] = [expires |-> heure + ttl, oneTime |-> unique, used |-> FALSE]
          /\ \A d \in Codes : d # c0 => magasin'[d] = magasin[d]
      BY <2>a, <3>1 DEF Magasins
    <3>3. parCode[c0] = 0 /\ c0 \notin uniques
      BY <2>a, <3>1
    <3>4. ASSUME NEW d \in Codes
          PROVE  /\ d \notin emis' => magasin'[d] = Absente /\ parCode'[d] = 0
                 /\ d \in uniques' => parCode'[d] <= 1
                 /\ d \in uniques' /\ magasin'[d] # Absente =>
                      magasin'[d].oneTime /\ (magasin'[d].used \/ parCode'[d] = 0)
                 /\ magasin'[d] # Absente /\ magasin'[d].used => parCode'[d] > 0
      <4>1. CASE d = c0
        BY <3>1, <3>2, <3>3, <4>1
      <4>2. CASE d # c0
        BY <3>1, <3>2, <4>2
      <4> QED
        BY <4>1, <4>2
    <3> QED
      BY <3>4
  <2>24. CASE Purger
    <3>1. /\ UNCHANGED <<emis, uniques, parCode>>
          /\ \A d \in Codes : magasin'[d] \in {magasin[d], Absente}
      BY <2>24, <2>a, MagasinLemma DEF Purger, PurgeExpired
    <3> QED
      BY <3>1
  <2>25. CASE Avancer
    BY <2>25 DEF Avancer
  <2>26. CASE UNCHANGED vars
    BY <2>26 DEF vars
  <2> QED
    BY <2>1, <2>2, <2>3, <2>4, <2>5, <2>6, <2>7, <2>8, <2>9, <2>10, <2>11, <2>12, <2>13,
       <2>14, <2>15, <2>16, <2>17, <2>18, <2>19, <2>20, <2>21, <2>22, <2>23, <2>24, <2>25,
       <2>26 DEF Next, Service, Monde, Termine
<1> QED
  BY <1>1, <1>2, TypeCorrect, PTL DEF Spec

\* A code issued for one session opens one session at most, for every sequence of
\* callers, expiries and purges.
THEOREM UnSeulUsage == Spec => []UsageUnique
<1>1. CodesInd => UsageUnique
  BY DEF CodesInd, UsageUnique, TypeOK
<1> QED
  BY <1>1, CodesInvariant, PTL

\* No code is burnt by a caller that was not served.
THEOREM JamaisBrule == Spec => []CodeNonBrule
<1>1. CodesInd => CodeNonBrule
  BY DEF CodesInd, CodeNonBrule
<1> QED
  BY <1>1, CodesInvariant, PTL

-----------------------------------------------------------------------------
(***************************************************************************)
(* The admission.  Until a caller is admitted the epoch has no reason and  *)
(* the permissions of the service; a reason is written by the step that    *)
(* starts the media and by no other.                                       *)
(***************************************************************************)
AdmissionInd ==
  /\ TypeOK
  /\ pc = "poignee" => profil = "service" /\ (admission \/ motif = "accord")
  /\ pc \in {"demande", "dialogue"} => profil = "service"
  /\ AdmissionFondee

\* Media never reach a caller whose right was not established in this epoch, and
\* the permissions of an invitation never serve somebody else.
THEOREM AdmissionSure == Spec => []AdmissionFondee
<1> USE DEF AdmissionInd, AdmissionFondee, DroitProuve, ProfilLocal
<1>1. Init /\ TypeOK => AdmissionInd
  BY DEF Init
<1>2. AdmissionInd /\ TypeOK' /\ [Next]_vars => AdmissionInd'
  <2> SUFFICES ASSUME AdmissionInd, TypeOK', [Next]_vars
               PROVE  AdmissionInd'
    OBVIOUS
  <2> USE DEF service, temps, session, comptes
  <2>1. CASE Publier
    BY <2>1 DEF Publier
  <2>2. CASE EchouerPublication
    BY <2>2 DEF EchouerPublication
  <2>3. CASE ExpirerFenetre
    BY <2>3 DEF ExpirerFenetre
  <2>4. CASE QuitterAttente
    BY <2>4 DEF QuitterAttente
  <2>5. ASSUME NEW a \in Appelants, Entrer(a)
       PROVE  AdmissionInd'
    BY <2>5 DEF Entrer
  <2>6. ASSUME NEW a \in Appelants, RefuserAuPunch(a)
       PROVE  AdmissionInd'
    BY <2>6 DEF RefuserAuPunch
  <2>7. CASE AccepterQuic
    BY <2>7 DEF AccepterQuic
  <2>8. CASE EchouerAccept
    BY <2>8 DEF EchouerAccept
  <2>9. CASE EchouerPoignee
    BY <2>9 DEF EchouerPoignee
  <2>10. CASE ReussirPoignee
    <3>1. CASE admission /\ appelant \in Confiance
      BY <2>10, <3>1 DEF ReussirPoignee, Admettre
    <3>2. CASE ~(admission /\ appelant \in Confiance)
      BY <2>10, <3>2 DEF ReussirPoignee
    <3> QED
      BY <3>1, <3>2
  <2>11. CASE LireDemande
    <3>1. CASE DeciderMotDePasse
      BY <2>11, <3>1 DEF LireDemande, DeciderMotDePasse, Admettre, Refuser, Coherent
    <3>2. CASE DeciderInvitation
      <4>1. CASE Coherent /\ RedeemResult(magasin, Preuve[appelant], heure) = "Valid"
        <5>1. /\ Preuve[appelant] \in Codes /\ parCode \in [Codes -> Nat]
              /\ parCode' = [parCode EXCEPT ![Preuve[appelant]] = @ + 1]
              /\ appelant' = appelant
          BY <2>11, <3>2, <4>1 DEF LireDemande, DeciderInvitation, TypeOK
        <5>2. parCode'[Preuve[appelant]] > 0
          BY <5>1
        <5> QED
          BY <2>11, <3>2, <4>1, <5>1, <5>2 DEF LireDemande, DeciderInvitation, Admettre, Coherent
      <4>2. CASE ~(Coherent /\ RedeemResult(magasin, Preuve[appelant], heure) = "Valid")
        BY <2>11, <3>2, <4>2 DEF LireDemande, DeciderInvitation, Refuser
      <4> QED
        BY <4>1, <4>2
    <3>3. CASE SansPreuve
      BY <2>11, <3>3 DEF LireDemande, SansPreuve
    <3> QED
      BY <2>11, <3>1, <3>2, <3>3 DEF LireDemande
  <2>12. CASE ExpirerDemande
    BY <2>12 DEF ExpirerDemande
  <2>13. CASE Interrompre
    BY <2>13 DEF Interrompre
  <2>14. ASSUME NEW accord \in BOOLEAN, Repondre(accord)
       PROVE  AdmissionInd'
    <3>1. CASE accord
      BY <2>14, <3>1 DEF Repondre, Admettre
    <3>2. CASE ~accord
      BY <2>14, <3>2 DEF Repondre, Refuser
    <3> QED
      BY <3>1, <3>2
  <2>15. ASSUME NEW r \in {"Ok", "Err"}, FinirMedia(r)
       PROVE  AdmissionInd'
    BY <2>15 DEF FinirMedia
  <2>16. ASSUME NEW coupe \in BOOLEAN, Conclure(coupe)
       PROVE  AdmissionInd'
    BY <2>16 DEF Conclure
  <2>17. CASE Arreter
    BY <2>17 DEF Arreter
  <2>18. CASE Arriver
    BY <2>18 DEF Arriver
  <2>19. CASE Pont
    BY <2>19 DEF Pont
  <2>20. CASE Fermer
    BY <2>20 DEF Fermer
  <2>21. CASE RaccourciDeconnexion
    BY <2>21 DEF RaccourciDeconnexion
  <2>22. CASE DemanderArret
    BY <2>22 DEF DemanderArret
  <2>23. ASSUME NEW c0 \in Codes, NEW ttl \in 1..2, NEW unique \in BOOLEAN, Emettre(c0, ttl, unique)
       PROVE  AdmissionInd'
    BY <2>23 DEF Emettre
  <2>24. CASE Purger
    BY <2>24 DEF Purger
  <2>25. CASE Avancer
    BY <2>25 DEF Avancer
  <2>26. CASE UNCHANGED vars
    BY <2>26 DEF vars
  <2> QED
    BY <2>1, <2>2, <2>3, <2>4, <2>5, <2>6, <2>7, <2>8, <2>9, <2>10, <2>11, <2>12, <2>13,
       <2>14, <2>15, <2>16, <2>17, <2>18, <2>19, <2>20, <2>21, <2>22, <2>23, <2>24, <2>25,
       <2>26 DEF Next, Service, Monde, Termine
<1> QED
  BY <1>1, <1>2, TypeCorrect, PTL DEF Spec

=============================================================================
