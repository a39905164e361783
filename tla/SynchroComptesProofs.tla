------------------------- MODULE SynchroComptesProofs -------------------------
(***************************************************************************)
(* Theorems about SynchroComptes, for every set of accounts and consents,  *)
(* every quota, interval and length of the clock.                          *)
(***************************************************************************)
EXTENDS SynchroTours, TLAPS

-------------------------------------------------------------------------------
(* The calendar. *)

(* Jour is the quotient of Euclid's division: what the proofs need of it.  *)
LEMMA JourQuotient ==
    ASSUME NEW t \in Nat
    PROVE  /\ Jour(t) \in Nat
           /\ DureeJour * Jour(t) <= t
           /\ t < DureeJour * (Jour(t) + 1)
<1>1. DureeJour \in Nat \ {0}
  BY ConstantesSynchro
<1> QED
  BY <1>1, SMT DEF Jour

(* Days do not go backwards. *)
LEMMA JourMonotone ==
    ASSUME NEW s \in Nat, NEW t \in Nat, s <= t
    PROVE  Jour(s) <= Jour(t)
<1>1. DureeJour \in Nat \ {0}
  BY ConstantesSynchro
<1>2. /\ Jour(s) \in Nat /\ DureeJour * Jour(s) <= s
      /\ Jour(t) \in Nat /\ t < DureeJour * (Jour(t) + 1)
  BY JourQuotient
<1>3. \A d \in Nat \ {0}, x \in Nat, y \in Nat : d * x < d * y => x < y
  BY SMT
<1>4. DureeJour * Jour(s) < DureeJour * (Jour(t) + 1)
  BY <1>1, <1>2
<1>5. Jour(s) < Jour(t) + 1
  BY <1>1, <1>2, <1>3, <1>4
<1> QED
  BY <1>2, <1>5

(* The instants of the clock fall on the days of the ledger. *)
LEMMA JourDansJours ==
    ASSUME NEW t \in 0 .. Horizon
    PROVE  Jour(t) \in Jours
<1>1. DureeJour \in Nat \ {0} /\ Horizon \in Nat
  BY ConstantesSynchro
<1>2. Jour(t) \in Nat /\ DureeJour * Jour(t) <= t
  BY JourQuotient, <1>1
<1>3. \A d \in Nat \ {0}, x \in Nat : x <= d * x
  BY SMT
<1>4. Jour(t) <= DureeJour * Jour(t)
  BY <1>1, <1>2, <1>3
<1>5. DureeJour * Jour(t) \in Nat
  BY <1>1, <1>2
<1> QED
  BY <1>1, <1>2, <1>4, <1>5 DEF Jours

-------------------------------------------------------------------------------
(* Types. *)

(* The worker holds an account exactly while it synchronises one. *)
EtapeCourant ==
    courant = Personne <=> etape \in {"eteint", "attente", "boucle"}

(* The types, with the clock the cycle started from behind the clock. *)
Types == TypeOK /\ EtapeCourant /\ maintenant <= temps

(* The row reserved for an account is well typed: its counter restarts     *)
(* with the day, and a slot is only taken below the quota.                 *)
LEMMA LigneReserveeTypee ==
    ASSUME TypeOK, NEW c \in Comptes, CreneauLibre(c, maintenant)
    PROVE  /\ LigneReservee(c, maintenant) \in Ligne
           /\ LigneReservee(c, maintenant).ligne = comptes[c].ligne
           /\ LigneReservee(c, maintenant).prochaine = maintenant + Intervalle
           /\ LigneReservee(c, maintenant).jour = Jour(maintenant)
           /\ LigneReservee(c, maintenant).nb = NbDuJour(c, Jour(maintenant)) + 1
<1>1. /\ Intervalle \in Nat /\ Quota \in Nat /\ Horizon \in Nat
  BY ConstantesSynchro
<1>2. maintenant \in Nat /\ comptes[c] \in Ligne
  BY <1>1 DEF TypeOK
<1>3. Jour(maintenant) \in Nat
  BY <1>2, JourQuotient
<1> DEFINE j == Jour(maintenant)
           n == NbDuJour(c, j)
<1>4. n \in 0 .. Quota /\ n < Quota
  BY <1>1, <1>2 DEF NbDuJour, Ligne, CreneauLibre
<1>5. /\ n + 1 \in 0 .. Quota
      /\ maintenant + Intervalle \in Nat
  BY <1>1, <1>2, <1>4
<1>6. LigneReservee(c, maintenant)
        = [comptes[c] EXCEPT !.prochaine = maintenant + Intervalle,
                             !.nb = n + 1, !.jour = j]
  BY DEF LigneReservee, ProchainCreneau
<1> HIDE DEF j, n
<1>7. LigneReservee(c, maintenant)
        = [ligne |-> comptes[c].ligne, prochaine |-> maintenant + Intervalle,
           jour |-> j, nb |-> n + 1]
  BY <1>2, <1>6 DEF Ligne
<1>8. j \in Nat
  BY <1>3 DEF j
<1>9. LigneReservee(c, maintenant) \in Ligne
  BY <1>2, <1>5, <1>7, <1>8 DEF Ligne
<1> QED
  BY <1>7, <1>9 DEF j, n

LEMMA TypesInit ==
    ASSUME Init
    PROVE  Types
<1>1. /\ Horizon \in Nat /\ Quota \in Nat /\ Validite \in Nat
      /\ MaxEcritures \in Nat /\ MaxArrets \in Nat
  BY ConstantesSynchro
<1>2. consents \in [Consents -> Consent]
  BY <1>1 DEF Init, Consent, Statuts
<1>3. comptes \in [Comptes -> Ligne]
  BY <1>1 DEF Init, Ligne
<1>4. /\ annonces \in [Comptes -> SUBSET Evenements]
      /\ appels \in [Comptes -> [Jours -> Nat]]
      /\ appelsCalendaires \in [Comptes -> [Jours -> Nat]]
      /\ appelsPerimes \in [Comptes -> Nat]
  BY DEF Init, Evenements
<1>5. /\ vus \in [Consents -> Consent] /\ etape \in Etapes
      /\ reste \subseteq Comptes /\ courant \in Comptes \cup {Personne}
      /\ solde \in BOOLEAN /\ orphelins \subseteq Comptes
  BY <1>2 DEF Init, Etapes
<1>6. /\ temps \in 0 .. Horizon /\ maintenant \in 0 .. Horizon
      /\ ecritures \in 0 .. MaxEcritures /\ arrets \in 0 .. MaxArrets
  BY <1>1 DEF Init
<1>7. TypeOK
  BY <1>2, <1>3, <1>4, <1>5, <1>6 DEF TypeOK
<1> QED
  BY <1>1, <1>7 DEF Init, Types, EtapeCourant

(* Counting a call keeps the counters well typed. *)
LEMMA CompterAppelType ==
    ASSUME TypeOK, NEW c \in Comptes, CompterAppel(c)
    PROVE  /\ appels' \in [Comptes -> [Jours -> Nat]]
           /\ appelsCalendaires' \in [Comptes -> [Jours -> Nat]]
           /\ appelsPerimes' \in [Comptes -> Nat]
<1>1. appels' \in [Comptes -> [Jours -> Nat]]
  <2> DEFINE j == Jour(maintenant)
             g == appels[c]
             f == [g EXCEPT ![j] = g[j] + 1]
  <2>1. appels \in [Comptes -> [Jours -> Nat]]
    BY DEF TypeOK
  <2>2. appels' = [appels EXCEPT ![c] = f]
    BY <2>1 DEF CompterAppel
  <2>3. g \in [Jours -> Nat]
    BY <2>1
  <2> HIDE DEF g, j
  <2>4. f \in [Jours -> Nat]
    <3>1. f = [x \in Jours |-> IF x = j THEN g[j] + 1 ELSE g[x]]
      BY <2>3
    <3>2. \A x \in Jours : f[x] \in Nat
      BY <2>3, <3>1
    <3> QED
      BY <3>1, <3>2
  <2> HIDE DEF f
  <2> QED
    BY <2>1, <2>2, <2>4
<1>2. appelsCalendaires' \in [Comptes -> [Jours -> Nat]]
  <2> DEFINE j == Jour(temps)
             g == appelsCalendaires[c]
             f == [g EXCEPT ![j] = g[j] + 1]
  <2>1. appelsCalendaires \in [Comptes -> [Jours -> Nat]]
    BY DEF TypeOK
  <2>2. appelsCalendaires' = [appelsCalendaires EXCEPT ![c] = f]
    BY <2>1 DEF CompterAppel
  <2>3. g \in [Jours -> Nat]
    BY <2>1
  <2> HIDE DEF g, j
  <2>4. f \in [Jours -> Nat]
    <3>1. f = [x \in Jours |-> IF x = j THEN g[j] + 1 ELSE g[x]]
      BY <2>3
    <3>2. \A x \in Jours : f[x] \in Nat
      BY <2>3, <3>1
    <3> QED
      BY <3>1, <3>2
  <2> HIDE DEF f
  <2> QED
    BY <2>1, <2>2, <2>4
<1>3. appelsPerimes' \in [Comptes -> Nat]
  BY DEF TypeOK, CompterAppel
<1> QED
  BY <1>1, <1>2, <1>3

(* Deleting rows leaves their planning columns alone. *)
LEMMA SupprimerLignesType ==
    ASSUME TypeOK, NEW S, SupprimerLignes(S)
    PROVE  /\ comptes' \in [Comptes -> Ligne]
           /\ \A c \in Comptes :
                /\ comptes'[c].prochaine = comptes[c].prochaine
                /\ comptes'[c].jour = comptes[c].jour
                /\ comptes'[c].nb = comptes[c].nb
<1> SUFFICES ASSUME NEW c \in Comptes
             PROVE  /\ comptes'[c] \in Ligne
                    /\ comptes'[c].prochaine = comptes[c].prochaine
                    /\ comptes'[c].jour = comptes[c].jour
                    /\ comptes'[c].nb = comptes[c].nb
  BY DEF SupprimerLignes
<1>1. comptes[c] \in Ligne
  BY DEF TypeOK
<1>2. \/ comptes'[c] = comptes[c]
      \/ comptes'[c] = [comptes[c] EXCEPT !.ligne = "supprimee"]
  BY DEF SupprimerLignes
<1> QED
  BY <1>1, <1>2 DEF Ligne

LEMMA TypesWorker ==
    ASSUME Types, Worker
    PROVE  Types'
<1> USE DEF Types, TypeOK, EtapeCourant, bornes, compteurs
<1>0. Horizon \in Nat /\ temps \in Nat /\ maintenant \in Nat
      /\ Personne \notin Comptes
  BY ConstantesSynchro
<1>1. CASE Demarrer
  BY <1>1 DEF Demarrer, Etapes
<1>2. CASE DebutCycle
  BY <1>0, <1>2 DEF DebutCycle, Etapes
<1>3. CASE FinCycle
  BY <1>3 DEF FinCycle, Etapes
<1>4. CASE AbandonnerCycle
  BY <1>0, <1>4 DEF AbandonnerCycle, Etapes
<1>5. ASSUME NEW c \in Comptes, Reserver(c)
      PROVE  Types'
  <2>1. LigneReservee(c, maintenant) \in Ligne
    BY <1>5, LigneReserveeTypee DEF Reserver
  <2>2. comptes' \in [Comptes -> Ligne]
    BY <1>5, <2>1 DEF Reserver
  <2> QED
    BY <1>0, <1>5, <2>2 DEF Reserver, Etapes, Evenements
<1>6. ASSUME NEW c \in Comptes, IgnorerCompte(c)
      PROVE  Types'
  BY <1>6 DEF IgnorerCompte
<1>7. CASE DemanderSolde
  <2>1. courant \in Comptes
    BY <1>7 DEF DemanderSolde
  <2>2. /\ appels' \in [Comptes -> [Jours -> Nat]]
        /\ appelsCalendaires' \in [Comptes -> [Jours -> Nat]]
        /\ appelsPerimes' \in [Comptes -> Nat]
    BY <1>7, <2>1, CompterAppelType DEF DemanderSolde
  <2> QED
    BY <1>7, <2>2 DEF DemanderSolde, Etapes
<1>8. ASSUME NEW refus \in Refus, EchecSource(refus), courant # Personne
      PROVE  /\ annonces' \in [Comptes -> SUBSET Evenements]
             /\ courant' \in Comptes \cup {Personne}
             /\ solde' \in BOOLEAN
             /\ etape' \in Etapes
             /\ courant' = Personne <=> etape' \in {"eteint", "attente", "boucle"}
             /\ UNCHANGED <<temps, consents, comptes, maintenant, reste, vus,
                            orphelins, bornes>>
  BY <1>8 DEF EchecSource, Publier, Etapes, Evenements
<1>9. CASE SoldeRefuse
  <2>1. courant \in Comptes
    BY <1>9 DEF SoldeRefuse
  <2>2. /\ appels' \in [Comptes -> [Jours -> Nat]]
        /\ appelsCalendaires' \in [Comptes -> [Jours -> Nat]]
        /\ appelsPerimes' \in [Comptes -> Nat]
    BY <1>9, <2>1, CompterAppelType DEF SoldeRefuse
  <2> QED
    BY <1>0, <1>8, <1>9, <2>1, <2>2 DEF SoldeRefuse
<1>10. CASE ListerTransactions
  BY <1>10 DEF ListerTransactions, Etapes
<1>11. CASE TransactionsRefusees
  <2>1. courant # Personne
    BY <1>11 DEF TransactionsRefusees
  <2> QED
    BY <1>8, <1>11, <2>1 DEF TransactionsRefusees
<1>12. CASE PublierSolde
  BY <1>12 DEF PublierSolde, Publier, Etapes, Evenements
<1>13. CASE PublierTransactions
  BY <1>13 DEF PublierTransactions, Publier, Etapes, Evenements
<1>14. CASE PublierSucces
  BY <1>14 DEF PublierSucces, Publier, Suivant, Etapes, Evenements
<1>15. CASE MarquerExpire
  <2>1. consents' \in [Consents -> Consent]
    <3> DEFINE k == ConsentDe[courant]
    <3>1. consents \in [Consents -> Consent]
      OBVIOUS
    <3>2. \/ consents' = consents
          \/ consents' = [consents EXCEPT ![k].statut = "expired"]
      BY <1>15 DEF MarquerExpire
    <3> HIDE DEF k
    <3> QED
      BY <3>1, <3>2 DEF Consent, Statuts
  <2> QED
    BY <1>15, <2>1 DEF MarquerExpire, Etapes
<1>16. CASE PublierExpiration
  BY <1>16 DEF PublierExpiration, Publier, Suivant, Etapes, Evenements
<1>17. CASE PublierDebut
  BY <1>17 DEF PublierDebut, Publier, Etapes, Evenements
<1>18. CASE PublierRenouvellement
  BY <1>18 DEF PublierRenouvellement, Publier, Etapes, Evenements
<1> QED
  BY <1>1, <1>2, <1>3, <1>4, <1>5, <1>6, <1>7, <1>9, <1>10, <1>11, <1>12, <1>13,
     <1>14, <1>15, <1>16, <1>17, <1>18 DEF Worker

LEMMA TypesEnvironnement ==
    ASSUME Types, Environnement
    PROVE  Types'
<1> USE DEF Types, TypeOK, EtapeCourant, bornes, compteurs
<1>0. /\ Horizon \in Nat /\ temps \in Nat /\ maintenant \in Nat
      /\ MaxEcritures \in Nat /\ MaxArrets \in Nat /\ Validite \in Nat
      /\ Personne \notin Comptes
  BY ConstantesSynchro
<1>1. CASE TempsPasse
  BY <1>0, <1>1 DEF TempsPasse
<1>2. ASSUME NEW k \in Consents, NEW s \in {"pending", "active", "failed"},
             EcrireConsent(k, s)
      PROVE  Types'
  <2> DEFINE e == IF s = "failed" THEN consents[k].expire ELSE temps + Validite
  <2>1. e \in Nat
    BY <1>0 DEF Consent
  <2>2. consents' = [consents EXCEPT ![k] = [statut |-> s, expire |-> e]]
    BY <1>2 DEF EcrireConsent
  <2> HIDE DEF e
  <2>3. consents' \in [Consents -> Consent]
    BY <2>1, <2>2 DEF Consent, Statuts
  <2>4. appelsPerimes' \in [Comptes -> Nat]
    BY <1>2 DEF EcrireConsent
  <2>5. ecritures' \in 0 .. MaxEcritures
    BY <1>0, <1>2 DEF EcrireConsent
  <2> QED
    BY <1>2, <2>3, <2>4, <2>5 DEF EcrireConsent
<1>3. ASSUME NEW c \in Comptes, RattacherCompte(c)
      PROVE  Types'
  <2>1. comptes' \in [Comptes -> Ligne]
    BY <1>3 DEF RattacherCompte, Ligne
  <2> QED
    BY <1>3, <2>1 DEF RattacherCompte
<1>4. ASSUME NEW q \in Proprietaires, EffacerComptes(q)
      PROVE  Types'
  <2>1. comptes' \in [Comptes -> Ligne]
    BY <1>4, SupprimerLignesType DEF EffacerComptes
  <2> QED
    BY <1>4, <2>1 DEF EffacerComptes
<1>5. ASSUME NEW q \in Proprietaires, EffacerConsents(q)
      PROVE  Types'
  <2>1. comptes' \in [Comptes -> Ligne]
    BY <1>5, SupprimerLignesType DEF EffacerConsents
  <2>2. consents' \in [Consents -> Consent]
    BY <1>5 DEF EffacerConsents, Consent, Statuts
  <2> QED
    BY <1>5, <2>1, <2>2 DEF EffacerConsents
<1>6. CASE Arreter
  <2>1. arrets' \in 0 .. MaxArrets
    BY <1>0, <1>6 DEF Arreter
  <2>2. /\ etape' \in Etapes
        /\ courant' = Personne <=> etape' \in {"eteint", "attente", "boucle"}
    BY <1>6 DEF Arreter, Etapes
  <2> QED
    BY <1>6, <2>1, <2>2 DEF Arreter
<1>7. CASE Panne
  <2>1. arrets' \in 0 .. MaxArrets
    BY <1>0, <1>7 DEF Panne
  <2>2. orphelins' \subseteq Comptes
    BY <1>7 DEF Panne
  <2>3. /\ etape' \in Etapes /\ reste' \subseteq Comptes /\ solde' \in BOOLEAN
        /\ courant' = Personne /\ etape' = "eteint"
    BY <1>7 DEF Panne, Etapes
  <2> QED
    BY <1>7, <2>1, <2>2, <2>3 DEF Panne
<1> QED
  BY <1>1, <1>2, <1>3, <1>4, <1>5, <1>6, <1>7 DEF Environnement

LEMMA TypesStep ==
    ASSUME Types, [Next]_vars
    PROVE  Types'
<1>1. CASE UNCHANGED vars
  BY <1>1 DEF vars, Types, TypeOK, EtapeCourant
<1> QED
  BY <1>1, TypesWorker, TypesEnvironnement DEF Next

(* Every reachable state is well typed, and the worker holds an account    *)
(* exactly while it synchronises one.                                      *)
THEOREM TypesToujours == Spec => []Types
<1> QED
  BY TypesInit, TypesStep, PTL DEF Spec

(* The types of the planning columns hold for every quota: in particular   *)
(* reserver_creneau never stores a counter above the quota.                *)
THEOREM TypeCorrect == Spec => []TypeOK
<1>1. Types => TypeOK
  BY DEF Types
<1> QED
  BY <1>1, TypesToujours, PTL

-------------------------------------------------------------------------------
(* The ledger of slots. *)

(* The sync under way that has its slot and has not reached the bank. *)
AvantBanque == {"debut", "renouvellement", "solde"}

EnCours(c) == IF courant = c /\ etape \in AvantBanque THEN 1 ELSE 0

(* The calls of an account never outrun the slots stored in its row: none  *)
(* after the day of the row, at most the row's counter on that day, at     *)
(* most the quota before.  The row's day never passes the day of the cycle *)
(* and is that day while a call is about to leave.                         *)
LivreDe(c) ==
    /\ comptes[c].jour \in Jours
    /\ comptes[c].jour <= Jour(maintenant)
    /\ EnCours(c) = 1 => comptes[c].jour = Jour(maintenant)
    /\ \A j \in Jours : comptes[c].jour < j => appels[c][j] = 0
    /\ appels[c][comptes[c].jour] + EnCours(c) <= comptes[c].nb
    /\ \A j \in Jours : appels[c][j] <= Quota

CreneauxAvantAppels == \A c \in Comptes : LivreDe(c)

GrandLivre == Types /\ CreneauxAvantAppels

(* What a step does to the ledger: it reserves a slot, it calls the bank   *)
(* for the account under way, or it leaves slots and calls alone.          *)
Appeler ==
    /\ etape = "solde"
    /\ courant \in Comptes
    /\ CompterAppel(courant)
    /\ etape' \notin AvantBanque
    /\ reste' = reste
    /\ UNCHANGED <<temps, comptes, maintenant>>

LivreInchange ==
    /\ UNCHANGED <<appels, appelsCalendaires>>
    /\ \A c \in Comptes :
         /\ comptes'[c].prochaine = comptes[c].prochaine
         /\ comptes'[c].jour = comptes[c].jour
         /\ comptes'[c].nb = comptes[c].nb
    /\ etape' \in AvantBanque => etape \in AvantBanque /\ courant' = courant
    /\ \/ maintenant' = maintenant /\ reste' \subseteq reste
       \/ maintenant' = temps /\ etape = "attente" /\ etape' = "boucle"
    /\ \/ temps' = temps
       \/ temps' = temps + 1 /\ UNCHANGED <<maintenant, reste, etape, courant>>

LEMMA PasDuLivre ==
    ASSUME Types, [Next]_vars
    PROVE  \/ \E c \in Comptes : Reserver(c)
           \/ Appeler
           \/ LivreInchange
<1> USE DEF bornes, compteurs, LivreInchange, AvantBanque
<1>1. CASE UNCHANGED vars
  BY <1>1 DEF vars
<1>2. CASE Worker
  <2>1. CASE Demarrer
    BY <2>1 DEF Demarrer
  <2>2. CASE DebutCycle
    BY <2>2 DEF DebutCycle
  <2>3. CASE FinCycle
    BY <2>3 DEF FinCycle
  <2>4. CASE AbandonnerCycle
    BY <2>4 DEF AbandonnerCycle
  <2>5. ASSUME NEW c \in Comptes, IgnorerCompte(c)
        PROVE  LivreInchange
    BY <2>5 DEF IgnorerCompte
  <2>6. courant \in Comptes \/ etape # "solde"
    BY DEF Types, TypeOK, EtapeCourant
  <2>7. CASE DemanderSolde
    BY <2>6, <2>7 DEF DemanderSolde, Appeler
  <2>8. CASE SoldeRefuse
    BY <2>6, <2>8 DEF SoldeRefuse, EchecSource, Appeler
  <2>9. CASE ListerTransactions
    BY <2>9 DEF ListerTransactions
  <2>10. CASE TransactionsRefusees
    BY <2>10 DEF TransactionsRefusees, EchecSource
  <2>11. CASE PublierSolde
    BY <2>11 DEF PublierSolde
  <2>12. CASE PublierTransactions
    BY <2>12 DEF PublierTransactions
  <2>13. CASE PublierSucces
    BY <2>13 DEF PublierSucces, Suivant
  <2>14. CASE MarquerExpire
    BY <2>14 DEF MarquerExpire
  <2>15. CASE PublierExpiration
    BY <2>15 DEF PublierExpiration, Suivant
  <2>16. CASE PublierDebut
    BY <2>16 DEF PublierDebut
  <2>17. CASE PublierRenouvellement
    BY <2>17 DEF PublierRenouvellement
  <2> QED
    BY <1>2, <2>1, <2>2, <2>3, <2>4, <2>5, <2>7, <2>8, <2>9, <2>10, <2>11,
       <2>12, <2>13, <2>14, <2>15, <2>16, <2>17 DEF Worker
<1>3. CASE Environnement
  <2>1. CASE TempsPasse
    BY <2>1 DEF TempsPasse
  <2>2. ASSUME NEW k \in Consents, NEW s \in {"pending", "active", "failed"},
               EcrireConsent(k, s)
        PROVE  LivreInchange
    BY <2>2 DEF EcrireConsent
  <2>3. ASSUME NEW c \in Comptes, RattacherCompte(c)
        PROVE  LivreInchange
    <3>1. \A d \in Comptes : /\ comptes'[d].prochaine = comptes[d].prochaine
                             /\ comptes'[d].jour = comptes[d].jour
                             /\ comptes'[d].nb = comptes[d].nb
      BY <2>3 DEF RattacherCompte, Types, TypeOK, Ligne
    <3> QED
      BY <2>3, <3>1 DEF RattacherCompte
  <2>4. ASSUME NEW q \in Proprietaires, EffacerComptes(q)
        PROVE  LivreInchange
    <3>1. TypeOK /\ SupprimerLignes(ComptesDe(q))
      BY <2>4 DEF EffacerComptes, Types
    <3> QED
      BY <2>4, <3>1, SupprimerLignesType DEF EffacerComptes
  <2>5. ASSUME NEW q \in Proprietaires, EffacerConsents(q)
        PROVE  LivreInchange
    <3>1. TypeOK /\ SupprimerLignes(ComptesDe(q))
      BY <2>5 DEF EffacerConsents, Types
    <3> QED
      BY <2>5, <3>1, SupprimerLignesType DEF EffacerConsents
  <2>6. CASE Arreter
    BY <2>6 DEF Arreter
  <2>7. CASE Panne
    BY <2>7 DEF Panne
  <2> QED
    BY <1>3, <2>1, <2>2, <2>3, <2>4, <2>5, <2>6, <2>7 DEF Environnement
<1> QED
  BY <1>1, <1>2, <1>3 DEF Next

LEMMA GrandLivreInit ==
    ASSUME Init
    PROVE  GrandLivre
<1>1. Types
  BY TypesInit
<1>2. /\ Horizon \in Nat /\ Quota \in Nat /\ 0 \in Jours
      /\ Jour(maintenant) \in Nat
  BY ConstantesSynchro, JourQuotient DEF Init, Jours
<1>3. \A c \in Comptes : /\ comptes[c].jour = 0 /\ comptes[c].nb = 0
                         /\ EnCours(c) = 0
                         /\ \A j \in Jours : appels[c][j] = 0
  BY DEF Init, EnCours, AvantBanque
<1> QED
  BY <1>1, <1>2, <1>3 DEF GrandLivre, CreneauxAvantAppels, LivreDe

(* A reservation: the row moves to the day of the cycle and its counter    *)
(* grows by one, before anything is asked of the bank.                     *)
LEMMA ReserverLigne ==
    ASSUME Types, NEW c \in Comptes, Reserver(c)
    PROVE  /\ comptes' = [comptes EXCEPT ![c] = LigneReservee(c, maintenant)]
           /\ comptes'[c].jour = Jour(maintenant)
           /\ comptes'[c].nb = NbDuJour(c, Jour(maintenant)) + 1
           /\ NbDuJour(c, Jour(maintenant)) < Quota
           /\ comptes'[c].prochaine = maintenant + Intervalle
           /\ courant' = c /\ etape' = "debut" /\ etape = "boucle"
           /\ c \in reste /\ reste' = reste \ {c}
           /\ UNCHANGED <<temps, maintenant, appels, appelsCalendaires>>
<1>1. TypeOK
  BY DEF Types
<1>2. comptes' = [comptes EXCEPT ![c] = LigneReservee(c, maintenant)]
  BY DEF Reserver
<1>3. comptes'[c] = LigneReservee(c, maintenant)
  BY <1>1, <1>2 DEF TypeOK
<1>4. /\ LigneReservee(c, maintenant).jour = Jour(maintenant)
      /\ LigneReservee(c, maintenant).nb = NbDuJour(c, Jour(maintenant)) + 1
      /\ LigneReservee(c, maintenant).prochaine = maintenant + Intervalle
  BY <1>1, LigneReserveeTypee DEF Reserver
<1> QED
  BY <1>2, <1>3, <1>4 DEF Reserver, EnTete, CreneauLibre, compteurs

LEMMA GrandLivreStep ==
    ASSUME GrandLivre, [Next]_vars
    PROVE  GrandLivre'
<1>1. Types /\ Types' /\ \A c \in Comptes : LivreDe(c)
  BY TypesStep DEF GrandLivre, CreneauxAvantAppels
<1>2. /\ Horizon \in Nat /\ Quota \in Nat
      /\ maintenant \in 0 .. Horizon /\ maintenant \in Nat
      /\ Jour(maintenant) \in Nat /\ Jour(maintenant) \in Jours
      /\ Jours \subseteq Nat
  <2>1. /\ Horizon \in Nat /\ Quota \in Nat
        /\ maintenant \in 0 .. Horizon
    BY <1>1, ConstantesSynchro DEF Types, TypeOK
  <2>2. maintenant \in Nat /\ Jours \subseteq Nat
    BY <2>1 DEF Jours
  <2> QED
    BY <2>1, <2>2, JourQuotient, JourDansJours
<1>3. /\ appels \in [Comptes -> [Jours -> Nat]]
      /\ \A c \in Comptes : /\ comptes[c].jour \in Nat
                            /\ comptes[c].nb \in 0 .. Quota
                            /\ comptes'[c].jour \in Nat
                            /\ comptes'[c].nb \in 0 .. Quota
  BY <1>1 DEF Types, TypeOK, Ligne
<1>4. ASSUME NEW d \in Comptes, Reserver(d)
      PROVE  CreneauxAvantAppels'
  <2> SUFFICES ASSUME NEW c \in Comptes
               PROVE  LivreDe(c)'
    BY DEF CreneauxAvantAppels
  <2>1. /\ comptes' = [comptes EXCEPT ![d] = LigneReservee(d, maintenant)]
        /\ comptes'[d].jour = Jour(maintenant)
        /\ comptes'[d].nb = NbDuJour(d, Jour(maintenant)) + 1
        /\ courant' = d /\ etape' = "debut" /\ etape = "boucle"
        /\ UNCHANGED <<maintenant, appels>>
    BY <1>1, <1>4, ReserverLigne
  <2>2. Jour(maintenant)' = Jour(maintenant)
    BY <2>1 DEF Jour
  <2>3. CASE c = d
    <3>1. EnCours(c) = 0 /\ EnCours(c)' = 1
      BY <2>1, <2>3 DEF EnCours, AvantBanque
    <3>2. ASSUME NEW j \in Jours, Jour(maintenant) < j
          PROVE  appels[c][j] = 0
      <4>1. comptes[c].jour <= Jour(maintenant)
        BY <1>1 DEF LivreDe
      <4>2. comptes[c].jour \in Nat /\ j \in Nat
        BY <1>2, <1>3
      <4>3. comptes[c].jour < j
        BY <1>2, <3>2, <4>1, <4>2
      <4> QED
        BY <1>1, <4>3 DEF LivreDe
    <3>3. appels[c][Jour(maintenant)] <= NbDuJour(c, Jour(maintenant))
      <4>1. CASE comptes[c].jour = Jour(maintenant)
        BY <1>1, <1>2, <1>3, <3>1, <4>1 DEF LivreDe, NbDuJour
      <4>2. CASE comptes[c].jour # Jour(maintenant)
        <5>1. comptes[c].jour < Jour(maintenant)
          <6>1. comptes[c].jour <= Jour(maintenant)
            BY <1>1 DEF LivreDe
          <6>2. comptes[c].jour \in Nat
            BY <1>3
          <6> QED
            BY <1>2, <4>2, <6>1, <6>2
        <5>2. appels[c][Jour(maintenant)] = 0
          BY <1>1, <1>2, <5>1 DEF LivreDe
        <5> QED
          BY <4>2, <5>2 DEF NbDuJour
      <4> QED
        BY <4>1, <4>2
    <3>4. NbDuJour(c, Jour(maintenant)) \in Nat
          /\ appels[c][Jour(maintenant)] \in Nat
      BY <1>2, <1>3 DEF NbDuJour
    <3>5. appels[c][Jour(maintenant)] + 1 <= comptes'[c].nb
      BY <2>1, <2>3, <3>3, <3>4
    <3>6. \A j \in Jours : appels[c][j] <= Quota
      BY <1>1 DEF LivreDe
    <3> QED
      BY <1>2, <2>1, <2>2, <2>3, <3>1, <3>2, <3>5, <3>6 DEF LivreDe
  <2>4. CASE c # d
    <3>1. comptes'[c] = comptes[c]
      BY <1>1, <2>1, <2>4 DEF Types, TypeOK
    <3>2. EnCours(c) = 0 /\ EnCours(c)' = 0
      BY <2>1, <2>4 DEF EnCours, AvantBanque
    <3> QED
      BY <1>1, <2>1, <2>2, <3>1, <3>2 DEF LivreDe
  <2> QED
    BY <2>3, <2>4
<1>5. CASE Appeler
  <2> SUFFICES ASSUME NEW c \in Comptes
               PROVE  LivreDe(c)'
    BY <1>1 DEF GrandLivre, CreneauxAvantAppels
  <2>1. /\ courant \in Comptes /\ etape = "solde" /\ etape' \notin AvantBanque
        /\ appels' = [appels EXCEPT ![courant][Jour(maintenant)] = @ + 1]
        /\ UNCHANGED <<comptes, maintenant>>
    BY <1>5 DEF Appeler, CompterAppel
  <2>2. Jour(maintenant)' = Jour(maintenant)
    BY <2>1 DEF Jour
  <2>3. EnCours(c)' = 0
    BY <2>1 DEF EnCours, AvantBanque
  <2>4. CASE c = courant
    <3>1. EnCours(c) = 1 /\ comptes[c].jour = Jour(maintenant)
      BY <1>1, <2>1, <2>4 DEF EnCours, AvantBanque, LivreDe
    <3>2. /\ appels'[c][Jour(maintenant)] = appels[c][Jour(maintenant)] + 1
          /\ \A j \in Jours : j # Jour(maintenant) => appels'[c][j] = appels[c][j]
      BY <1>2, <1>3, <2>1, <2>4
    <3>3. appels[c][Jour(maintenant)] + 1 <= comptes[c].nb
      BY <1>1, <3>1 DEF LivreDe
    <3>4. \A j \in Jours : Jour(maintenant) < j => appels'[c][j] = 0
      BY <1>1, <1>2, <3>1, <3>2 DEF LivreDe
    <3>5. appels'[c][Jour(maintenant)] <= comptes[c].nb
          /\ appels'[c][Jour(maintenant)] <= Quota
          /\ appels'[c][Jour(maintenant)] \in Nat
      BY <1>2, <1>3, <3>2, <3>3
    <3>6. \A j \in Jours : appels'[c][j] <= Quota
      BY <1>1, <3>2, <3>5 DEF LivreDe
    <3> QED
      BY <1>2, <1>3, <2>1, <2>2, <2>3, <3>1, <3>4, <3>5, <3>6 DEF LivreDe
  <2>5. CASE c # courant
    <3>1. appels'[c] = appels[c]
      BY <1>3, <2>1, <2>5
    <3>2. EnCours(c) = 0
      BY <2>5 DEF EnCours, AvantBanque
    <3> QED
      BY <1>1, <2>1, <2>2, <2>3, <3>1, <3>2 DEF LivreDe
  <2> QED
    BY <2>4, <2>5
<1>6. CASE LivreInchange
  <2> SUFFICES ASSUME NEW c \in Comptes
               PROVE  LivreDe(c)'
    BY <1>1 DEF GrandLivre, CreneauxAvantAppels
  <2>1. /\ appels' = appels
        /\ comptes'[c].jour = comptes[c].jour
        /\ comptes'[c].nb = comptes[c].nb
    BY <1>6 DEF LivreInchange
  <2>2. EnCours(c)' <= EnCours(c)
        /\ (EnCours(c)' = 1 => EnCours(c) = 1 /\ maintenant' = maintenant)
        /\ EnCours(c) \in {0, 1} /\ EnCours(c)' \in {0, 1}
    BY <1>6 DEF LivreInchange, EnCours, AvantBanque
  <2>3. Jour(maintenant) <= Jour(maintenant') /\ Jour(maintenant') \in Nat
    <3>1. maintenant <= maintenant' /\ maintenant' \in Nat
      BY <1>1, <1>2, <1>6 DEF LivreInchange, Types, TypeOK
    <3> QED
      BY <1>2, <3>1, JourMonotone, JourQuotient
  <2>4. Jour(maintenant)' = Jour(maintenant')
    BY DEF Jour
  <2>5. comptes[c].jour <= Jour(maintenant')
    BY <1>1, <1>2, <1>3, <2>3 DEF LivreDe
  <2>6. appels[c][comptes[c].jour] + EnCours(c)' <= comptes[c].nb
    <3>1. appels[c][comptes[c].jour] \in Nat
      BY <1>1, <1>3 DEF LivreDe
    <3> QED
      BY <1>1, <1>3, <2>2, <3>1 DEF LivreDe
  <2> QED
    BY <1>1, <2>1, <2>2, <2>4, <2>5, <2>6 DEF LivreDe
<1> QED
  BY <1>1, <1>4, <1>5, <1>6, PasDuLivre DEF GrandLivre

(* No call outruns its reservation, in any reachable state.                *)
THEOREM GrandLivreToujours == Spec => []GrandLivre
<1> QED
  BY GrandLivreInit, GrandLivreStep, PTL DEF Spec

(* The daily quota holds for every number of accounts, quota, interval and *)
(* length of the day, and whatever the crashes, failures and deletions.    *)
THEOREM QuotaRespecte == Spec => []QuotaParJour
<1>1. GrandLivre => QuotaParJour
  BY DEF GrandLivre, CreneauxAvantAppels, LivreDe, QuotaParJour
<1> QED
  BY <1>1, GrandLivreToujours, PTL

(* Only the start of a cycle moves the instant of the cycle or lists       *)
(* accounts.                                                               *)
LEMMA ReprisesDeCycle ==
    ASSUME Types, [Next]_vars
    PROVE  \/ DebutCycle
           \/ maintenant' = maintenant /\ vus' = vus /\ reste' \subseteq reste
<1>1. CASE UNCHANGED vars
  BY <1>1 DEF vars
<1>2. CASE Worker
  BY <1>2 DEF Worker, Demarrer, FinCycle, AbandonnerCycle, Reserver, IgnorerCompte,
              DemanderSolde, SoldeRefuse, EchecSource, ListerTransactions,
              TransactionsRefusees, PublierSolde, PublierTransactions,
              PublierSucces, MarquerExpire, PublierExpiration, PublierDebut,
              PublierRenouvellement
<1>3. CASE Environnement
  BY <1>3 DEF Environnement, TempsPasse, EcrireConsent, RattacherCompte,
              EffacerComptes, EffacerConsents, Arreter, Panne
<1> QED
  BY <1>1, <1>2, <1>3 DEF Next

-------------------------------------------------------------------------------
(* The quota by the calendar of the bank. *)

(* Today's calls of an account, the one about to leave included, exceed    *)
(* the counter of its row by at most one: the sync of a cycle begun        *)
(* yesterday.  An account such a cycle has still to begin has not been     *)
(* called today, which is why the excess never grows.                      *)
CalendrierDe(c) ==
    /\ comptes[c].jour <= Jour(maintenant)
    /\ \A j \in Jours : Jour(temps) < j => appelsCalendaires[c][j] = 0
    /\ comptes[c].jour < Jour(temps) =>
          appelsCalendaires[c][Jour(temps)] + EnCours(c) <= 1
    /\ comptes[c].jour = Jour(temps) =>
          appelsCalendaires[c][Jour(temps)] + EnCours(c) <= comptes[c].nb + 1
    /\ c \in reste /\ Jour(maintenant) < Jour(temps) =>
          appelsCalendaires[c][Jour(temps)] = 0
    /\ EnCours(c) = 1 => c \notin reste
    /\ \A j \in Jours : appelsCalendaires[c][j] <= Quota + 1

Calendrier == \A c \in Comptes : CalendrierDe(c)

LEMMA CalendrierInit ==
    ASSUME Init
    PROVE  Calendrier
<1>1. /\ Horizon \in Nat /\ Quota \in Nat /\ 0 \in Jours
      /\ Jour(maintenant) \in Nat /\ Jour(temps) \in Jours
  BY ConstantesSynchro, JourQuotient, JourDansJours DEF Init, Jours
<1>2. \A c \in Comptes : /\ comptes[c].jour = 0 /\ comptes[c].nb = 0
                         /\ EnCours(c) = 0 /\ c \notin reste
                         /\ \A j \in Jours : appelsCalendaires[c][j] = 0
  BY DEF Init, EnCours, AvantBanque
<1> QED
  BY <1>1, <1>2 DEF Calendrier, CalendrierDe

LEMMA CalendrierStep ==
    ASSUME GrandLivre, Calendrier, [Next]_vars
    PROVE  Calendrier'
<1>1. /\ Types /\ Types' /\ \A c \in Comptes : CalendrierDe(c)
      /\ \A c \in Comptes : comptes'[c].jour <= Jour(maintenant')
  <2>1. GrandLivre'
    BY GrandLivreStep
  <2>2. Jour(maintenant)' = Jour(maintenant')
    BY DEF Jour
  <2> QED
    BY <2>1, <2>2 DEF GrandLivre, CreneauxAvantAppels, LivreDe, Calendrier
<1>2. /\ Quota \in Nat /\ Jours \subseteq Nat
      /\ temps \in Nat /\ temps' \in Nat /\ maintenant \in Nat /\ maintenant' \in Nat
      /\ Jour(temps) \in Jours /\ Jour(temps') \in Jours
      /\ Jour(temps) \in Nat /\ Jour(temps') \in Nat
      /\ Jour(maintenant) \in Nat /\ Jour(maintenant') \in Nat
      /\ Jour(maintenant) <= Jour(temps) /\ Jour(maintenant') <= Jour(temps')
      /\ Jour(temps)' = Jour(temps') /\ Jour(maintenant)' = Jour(maintenant')
  <2>1. /\ Horizon \in Nat /\ Quota \in Nat /\ Jours \subseteq Nat
        /\ temps \in 0 .. Horizon /\ temps' \in 0 .. Horizon
        /\ maintenant \in 0 .. Horizon /\ maintenant' \in 0 .. Horizon
        /\ maintenant <= temps /\ maintenant' <= temps'
    BY <1>1, ConstantesSynchro DEF Types, TypeOK, Jours
  <2>2. /\ temps \in Nat /\ temps' \in Nat
        /\ maintenant \in Nat /\ maintenant' \in Nat
    BY <2>1
  <2>3. /\ Jour(temps) \in Jours /\ Jour(temps') \in Jours
        /\ Jour(temps) \in Nat /\ Jour(temps') \in Nat
        /\ Jour(maintenant) \in Nat /\ Jour(maintenant') \in Nat
    BY <2>1, <2>2, JourDansJours, JourQuotient
  <2>4. Jour(maintenant) <= Jour(temps) /\ Jour(maintenant') <= Jour(temps')
    BY <2>1, <2>2, JourMonotone
  <2> QED
    BY <2>1, <2>2, <2>3, <2>4 DEF Jour
<1>3. /\ appelsCalendaires \in [Comptes -> [Jours -> Nat]]
      /\ \A c \in Comptes : /\ comptes[c].jour \in Nat
                            /\ comptes[c].nb \in 0 .. Quota
                            /\ comptes'[c].jour \in Nat
                            /\ comptes'[c].nb \in 0 .. Quota
      /\ \A c \in Comptes : EnCours(c) \in {0, 1}
  BY <1>1 DEF Types, TypeOK, Ligne, EnCours, AvantBanque
<1>4. ASSUME NEW d \in Comptes, Reserver(d)
      PROVE  Calendrier'
  <2> SUFFICES ASSUME NEW c \in Comptes
               PROVE  CalendrierDe(c)'
    BY DEF Calendrier
  <2>1. /\ comptes' = [comptes EXCEPT ![d] = LigneReservee(d, maintenant)]
        /\ comptes'[d].jour = Jour(maintenant)
        /\ comptes'[d].nb = NbDuJour(d, Jour(maintenant)) + 1
        /\ courant' = d /\ etape' = "debut" /\ etape = "boucle"
        /\ d \in reste /\ reste' = reste \ {d}
        /\ temps' = temps /\ maintenant' = maintenant
        /\ appelsCalendaires' = appelsCalendaires
    BY <1>1, <1>4, ReserverLigne
  <2>2. CASE c = d
    <3> DEFINE n == appelsCalendaires[c][Jour(temps)]
    <3>1. EnCours(c) = 0 /\ EnCours(c)' = 1 /\ n \in Nat /\ c \notin reste'
      BY <1>2, <1>3, <2>1, <2>2 DEF EnCours, AvantBanque
    <3>2. Jour(maintenant) < Jour(temps) => n = 0
      BY <1>1, <2>1, <2>2 DEF CalendrierDe
    <3>3. Jour(maintenant) = Jour(temps) => n + 1 <= comptes'[c].nb + 1
      <4>1. CASE comptes[c].jour = Jour(temps) /\ Jour(maintenant) = Jour(temps)
        <5>1. n + 0 <= comptes[c].nb + 1
          BY <1>1, <3>1, <4>1 DEF CalendrierDe
        <5>2. comptes'[c].nb = comptes[c].nb + 1
          BY <2>1, <2>2, <4>1 DEF NbDuJour
        <5> QED
          BY <1>3, <3>1, <5>1, <5>2
      <4>2. CASE comptes[c].jour # Jour(temps) /\ Jour(maintenant) = Jour(temps)
        <5>1. comptes[c].jour < Jour(temps)
          <6>1. comptes[c].jour <= Jour(maintenant)
            BY <1>1 DEF CalendrierDe
          <6>2. comptes[c].jour \in Nat /\ Jour(temps) \in Nat
            BY <1>2, <1>3
          <6> QED
            BY <4>2, <6>1, <6>2
        <5>2. n + 0 <= 1
          BY <1>1, <3>1, <5>1 DEF CalendrierDe
        <5>3. comptes'[c].nb = 1
          BY <2>1, <2>2, <4>2 DEF NbDuJour
        <5> QED
          BY <3>1, <5>2, <5>3
      <4> QED
        BY <4>1, <4>2
    <3>4. \A j \in Jours : /\ Jour(temps) < j => appelsCalendaires[c][j] = 0
                           /\ appelsCalendaires[c][j] <= Quota + 1
      BY <1>1 DEF CalendrierDe
    <3>5. comptes'[c].jour = Jour(maintenant)
      BY <2>1, <2>2
    <3> QED
      BY <1>1, <1>2, <2>1, <3>1, <3>2, <3>3, <3>4, <3>5 DEF CalendrierDe
  <2>3. CASE c # d
    <3>1. comptes'[c] = comptes[c]
      BY <1>1, <2>1, <2>3 DEF Types, TypeOK
    <3>2. EnCours(c) = 0 /\ EnCours(c)' = 0 /\ reste' \subseteq reste
      BY <2>1, <2>3 DEF EnCours, AvantBanque
    <3> QED
      BY <1>1, <1>2, <2>1, <3>1, <3>2 DEF CalendrierDe
  <2> QED
    BY <2>2, <2>3
<1>5. CASE Appeler
  <2> SUFFICES ASSUME NEW c \in Comptes
               PROVE  CalendrierDe(c)'
    BY DEF Calendrier
  <2>1. /\ courant \in Comptes /\ etape = "solde" /\ etape' \notin AvantBanque
        /\ appelsCalendaires' =
             [appelsCalendaires EXCEPT ![courant][Jour(temps)] = @ + 1]
        /\ temps' = temps /\ comptes' = comptes /\ maintenant' = maintenant
        /\ reste' = reste
    BY <1>5 DEF Appeler, CompterAppel
  <2>2. EnCours(c)' = 0
    BY <2>1 DEF EnCours, AvantBanque
  <2>3. CASE c = courant
    <3> DEFINE n == appelsCalendaires[c][Jour(temps)]
    <3>1. EnCours(c) = 1 /\ c \notin reste /\ n \in Nat
      BY <1>1, <1>2, <1>3, <2>1, <2>3 DEF EnCours, AvantBanque, CalendrierDe
    <3>2. /\ appelsCalendaires'[c][Jour(temps)] = n + 1
          /\ \A j \in Jours : j # Jour(temps) =>
               appelsCalendaires'[c][j] = appelsCalendaires[c][j]
      BY <1>2, <1>3, <2>1, <2>3
    <3>3. /\ comptes[c].jour < Jour(temps) => n + 1 <= 1
          /\ comptes[c].jour = Jour(temps) => n + 1 <= comptes[c].nb + 1
      BY <1>1, <3>1 DEF CalendrierDe
    <3>4. n + 1 <= Quota + 1
      <4>1. comptes[c].jour <= Jour(temps)
        <5>1. comptes[c].jour <= Jour(maintenant)
          BY <1>1 DEF CalendrierDe
        <5> QED
          BY <1>2, <1>3, <5>1
      <4>2. n + 1 <= 1 \/ n + 1 <= comptes[c].nb + 1
        BY <1>2, <1>3, <3>3, <4>1
      <4> QED
        BY <1>2, <1>3, <3>1, <4>2
    <3>5. \A j \in Jours : appelsCalendaires'[c][j] <= Quota + 1
      BY <1>1, <3>2, <3>4 DEF CalendrierDe
    <3>6. \A j \in Jours : Jour(temps) < j => appelsCalendaires'[c][j] = 0
      BY <1>1, <1>2, <3>2 DEF CalendrierDe
    <3> HIDE DEF n
    <3>7. n + 1 \in Nat /\ n + 1 + 0 = n + 1
      BY <3>1
    <3> QED
      BY <1>1, <1>2, <2>1, <2>2, <3>1, <3>2, <3>3, <3>5, <3>6, <3>7
      DEF CalendrierDe
  <2>4. CASE c # courant
    <3>1. appelsCalendaires'[c] = appelsCalendaires[c]
      BY <1>3, <2>1, <2>4
    <3>2. EnCours(c) = 0
      BY <2>4 DEF EnCours, AvantBanque
    <3> QED
      BY <1>1, <1>2, <2>1, <2>2, <3>1, <3>2 DEF CalendrierDe
  <2> QED
    BY <2>3, <2>4
<1>6. CASE LivreInchange
  <2> SUFFICES ASSUME NEW c \in Comptes
               PROVE  CalendrierDe(c)'
    BY DEF Calendrier
  <2>1. /\ appelsCalendaires' = appelsCalendaires
        /\ comptes'[c].jour = comptes[c].jour
        /\ comptes'[c].nb = comptes[c].nb
    BY <1>6 DEF LivreInchange
  <2>2. \A j \in Jours : appelsCalendaires[c][j] \in Nat
                         /\ appelsCalendaires[c][j] <= Quota + 1
    BY <1>1, <1>3 DEF CalendrierDe
  <2>3. CASE temps' = temps
    <3>1. /\ EnCours(c)' \in {0, 1}
          /\ EnCours(c)' <= EnCours(c)
      BY <1>6 DEF LivreInchange, EnCours, AvantBanque
    <3>2. EnCours(c)' = 1 => c \notin reste'
      BY <1>1, <1>6 DEF LivreInchange, EnCours, AvantBanque, CalendrierDe
    <3>3. c \in reste' /\ Jour(maintenant') < Jour(temps') =>
            appelsCalendaires[c][Jour(temps)] = 0
      BY <1>1, <1>2, <1>6, <2>3 DEF LivreInchange, CalendrierDe
    <3>4. /\ comptes[c].jour < Jour(temps) =>
               appelsCalendaires[c][Jour(temps)] + EnCours(c)' <= 1
          /\ comptes[c].jour = Jour(temps) =>
               appelsCalendaires[c][Jour(temps)] + EnCours(c)' <= comptes[c].nb + 1
      <4>1. /\ comptes[c].jour < Jour(temps) =>
                 appelsCalendaires[c][Jour(temps)] + EnCours(c) <= 1
            /\ comptes[c].jour = Jour(temps) =>
                 appelsCalendaires[c][Jour(temps)] + EnCours(c) <= comptes[c].nb + 1
        BY <1>1 DEF CalendrierDe
      <4>2. appelsCalendaires[c][Jour(temps)] \in Nat
        BY <1>2, <2>2
      <4> QED
        BY <1>3, <3>1, <4>1, <4>2
    <3> QED
      BY <1>1, <1>2, <2>1, <2>2, <2>3, <3>2, <3>3, <3>4 DEF CalendrierDe
  <2>4. CASE temps' = temps + 1 /\ UNCHANGED <<maintenant, reste, etape, courant>>
    <3>1. EnCours(c)' = EnCours(c)
      BY <2>4 DEF EnCours, AvantBanque
    <3>2. CASE Jour(temps') = Jour(temps)
      BY <1>1, <1>2, <2>1, <2>4, <3>1, <3>2 DEF CalendrierDe
    <3>3. CASE Jour(temps') # Jour(temps)
      <4>1. Jour(temps) < Jour(temps')
        <5>1. Jour(temps) <= Jour(temps')
          BY <1>2, <2>4, JourMonotone
        <5> QED
          BY <1>2, <3>3, <5>1
      <4>2. \A j \in Jours : Jour(temps') <= j => appelsCalendaires[c][j] = 0
        BY <1>1, <1>2, <4>1 DEF CalendrierDe
      <4>3. appelsCalendaires[c][Jour(temps')] = 0
        BY <1>2, <4>2
      <4>4. comptes[c].jour < Jour(temps')
        <5>1. comptes[c].jour <= Jour(maintenant)
          BY <1>1 DEF CalendrierDe
        <5> QED
          BY <1>2, <1>3, <4>1, <5>1
      <4>5. EnCours(c) = 1 => c \notin reste
        BY <1>1 DEF CalendrierDe
      <4> QED
        BY <1>1, <1>2, <1>3, <2>1, <2>2, <2>4, <3>1, <4>2, <4>3, <4>4, <4>5
        DEF CalendrierDe
    <3> QED
      BY <3>2, <3>3
  <2> QED
    BY <1>6, <2>3, <2>4 DEF LivreInchange
<1> QED
  BY <1>1, <1>4, <1>5, <1>6, PasDuLivre

(* By the calendar of the bank an account gets at most one sync more than  *)
(* the quota in a day, however many days a cycle runs over and whatever    *)
(* the crashes, restarts and deletions.                                    *)
THEOREM QuotaCalendaireRespecte == Spec => []QuotaCalendaire
<1>1. Calendrier => QuotaCalendaire
  BY DEF Calendrier, CalendrierDe, QuotaCalendaire
<1> QED
  BY <1>1, CalendrierInit, CalendrierStep, GrandLivreToujours, PTL DEF Spec

-------------------------------------------------------------------------------
(* The refinement of CreneauxReserves. *)

LEMMA PromesseInit ==
    ASSUME Init
    PROVE  Promesse!Init
<1>1. \A c \in Comptes : comptes[c].jour = 0 /\ comptes[c].nb = 0
  BY DEF Init
<1> QED
  BY <1>1 DEF Init, Promesse!Init

LEMMA PromesseStep ==
    ASSUME GrandLivre, [Next]_vars
    PROVE  [Promesse!Next]_(Promesse!grand_livre)
<1>1. /\ Types /\ \A c \in Comptes : LivreDe(c)
      /\ Jour(maintenant) \in Jours
  BY JourDansJours DEF GrandLivre, CreneauxAvantAppels, Types, TypeOK
<1> DEFINE jours == [c \in Comptes |-> comptes[c].jour]
           nbs == [c \in Comptes |-> comptes[c].nb]
<1>2. ASSUME NEW c \in Comptes, Reserver(c)
      PROVE  Promesse!Reserver(c, Jour(maintenant))
  <2>1. /\ comptes' = [comptes EXCEPT ![c] = LigneReservee(c, maintenant)]
        /\ comptes'[c].jour = Jour(maintenant)
        /\ comptes'[c].nb = NbDuJour(c, Jour(maintenant)) + 1
        /\ NbDuJour(c, Jour(maintenant)) < Quota
        /\ UNCHANGED appels
    BY <1>1, <1>2, ReserverLigne
  <2>2. comptes \in [Comptes -> Ligne]
    BY <1>1 DEF Types, TypeOK
  <2>3. \A d \in Comptes \ {c} : comptes'[d] = comptes[d]
    BY <2>1, <2>2
  <2>4. jours' = [jours EXCEPT ![c] = Jour(maintenant)]
    <3>1. \A d \in Comptes :
            comptes'[d].jour = IF d = c THEN Jour(maintenant)
                              ELSE comptes[d].jour
      BY <2>1, <2>3
    <3>2. jours' = [d \in Comptes |-> comptes'[d].jour]
      OBVIOUS
    <3> QED
      BY <3>1, <3>2
  <2>5. nbs' = [nbs EXCEPT ![c] = NbDuJour(c, Jour(maintenant)) + 1]
    <3>1. \A d \in Comptes :
            comptes'[d].nb = IF d = c THEN NbDuJour(c, Jour(maintenant)) + 1
                              ELSE comptes[d].nb
      BY <2>1, <2>3
    <3>2. nbs' = [d \in Comptes |-> comptes'[d].nb]
      OBVIOUS
    <3> QED
      BY <3>1, <3>2
  <2>6. /\ jours[c] <= Jour(maintenant)
        /\ NbDuJour(c, Jour(maintenant))
             = IF jours[c] = Jour(maintenant) THEN nbs[c] ELSE 0
    BY <1>1 DEF LivreDe, NbDuJour
  <2> HIDE DEF jours, nbs
  <2>7. Promesse!NbReserves(c, Jour(maintenant)) = NbDuJour(c, Jour(maintenant))
    BY <2>6 DEF Promesse!NbReserves, jours, nbs
  <2> QED
    BY <2>1, <2>4, <2>5, <2>6, <2>7 DEF Promesse!Reserver, jours, nbs
<1>3. CASE Appeler
  <2>1. /\ courant \in Comptes /\ etape = "solde"
        /\ appels' = [appels EXCEPT ![courant][Jour(maintenant)] = @ + 1]
        /\ comptes' = comptes
    BY <1>3 DEF Appeler, CompterAppel
  <2>2. /\ comptes[courant].jour = Jour(maintenant)
        /\ appels[courant][comptes[courant].jour] + 1 <= comptes[courant].nb
    BY <1>1, <2>1 DEF LivreDe, EnCours, AvantBanque
  <2>3. /\ appels[courant][comptes[courant].jour] \in Nat
        /\ comptes[courant].nb \in Nat
    BY <1>1, <2>1, <2>2, ConstantesSynchro DEF Types, TypeOK, Ligne
  <2>4. appels[courant][comptes[courant].jour] < comptes[courant].nb
    BY <2>2, <2>3
  <2>5. appels' = [appels EXCEPT ![courant][comptes[courant].jour] = @ + 1]
    BY <2>1, <2>2
  <2>6. Promesse!Appeler(courant)
    BY <2>1, <2>4, <2>5 DEF Promesse!Appeler
  <2> QED
    BY <2>1, <2>6 DEF Promesse!Next
<1>4. CASE LivreInchange
  <2>1. appels' = appels /\ jours' = jours /\ nbs' = nbs
    BY <1>4 DEF LivreInchange
  <2> QED
    BY <2>1 DEF Promesse!grand_livre
<1>5. ASSUME NEW c \in Comptes, Reserver(c)
      PROVE  Promesse!Next
  <2>1. Promesse!Reserver(c, Jour(maintenant))
    BY <1>2, <1>5
  <2> QED
    BY <1>1, <2>1 DEF Promesse!Next, Promesse!Reserver, Promesse!NbReserves
<1> QED
  BY <1>1, <1>3, <1>4, <1>5, PasDuLivre

(* The synchronisation implements the ledger of slots: a call spends a     *)
(* slot reserved before it, for every value of the constants.              *)
THEOREM PromesseTenue == Spec => TientLaPromesse
<1> QED
  BY PromesseInit, PromesseStep, GrandLivreToujours, PTL
     DEF Spec, TientLaPromesse, Promesse!Spec

-------------------------------------------------------------------------------
(* Slots in time. *)

(* An account is listed because its slot has come. *)
ListesEchus == \A c \in reste : comptes[c].prochaine <= maintenant

LEMMA ListesEchusStep ==
    ASSUME Types, ListesEchus, [Next]_vars
    PROVE  ListesEchus'
<1>1. comptes \in [Comptes -> Ligne] /\ reste \subseteq Comptes
      /\ reste' \subseteq Comptes
  BY TypesStep DEF Types, TypeOK
<1>2. ASSUME NEW c \in Comptes, Reserver(c)
      PROVE  ListesEchus'
  <2>1. /\ comptes' = [comptes EXCEPT ![c] = LigneReservee(c, maintenant)]
        /\ reste' = reste \ {c} /\ maintenant' = maintenant
    BY <1>2, ReserverLigne
  <2> QED
    BY <1>1, <2>1 DEF ListesEchus
<1>3. CASE Appeler
  BY <1>3 DEF Appeler, ListesEchus
<1>4. CASE DebutCycle
  BY <1>4 DEF DebutCycle, ListesEchus, Echeant
<1>5. CASE LivreInchange /\ maintenant' = maintenant /\ reste' \subseteq reste
  BY <1>1, <1>5 DEF LivreInchange, ListesEchus
<1> QED
  BY <1>2, <1>3, <1>4, <1>5, PasDuLivre, ReprisesDeCycle DEF LivreInchange

(* Two slots of an account are an interval apart, whatever restarts,       *)
(* abandoned cycles and deletions happen in between.                       *)
THEOREM EspacementRespecte == Spec => CreneauxEspaces
<1> DEFINE Espace == \A c \in Comptes :
             comptes'[c].prochaine # comptes[c].prochaine
               => comptes'[c].prochaine >= comptes[c].prochaine + Intervalle
<1>1. Init => Types /\ ListesEchus
  BY TypesInit DEF Init, ListesEchus
<1>2. Types /\ ListesEchus /\ [Next]_vars => (Types /\ ListesEchus)'
  BY TypesStep, ListesEchusStep
<1>3. Types /\ ListesEchus /\ [Next]_vars => [Espace]_vars
  <2> SUFFICES ASSUME Types, ListesEchus, [Next]_vars
               PROVE  Espace
    OBVIOUS
  <2>1. ASSUME NEW d \in Comptes, Reserver(d)
        PROVE  Espace
    <3>1. /\ comptes' = [comptes EXCEPT ![d] = LigneReservee(d, maintenant)]
          /\ comptes'[d].prochaine = maintenant + Intervalle
          /\ d \in reste
      BY <2>1, ReserverLigne
    <3>2. \A c \in Comptes \ {d} : comptes'[c] = comptes[c]
      BY <3>1 DEF Types, TypeOK
    <3>3. comptes[d].prochaine <= maintenant
      BY <3>1 DEF ListesEchus
    <3>4. comptes[d].prochaine \in Nat /\ maintenant \in Nat /\ Intervalle \in Nat
      BY ConstantesSynchro DEF Types, TypeOK, Ligne
    <3>5. comptes'[d].prochaine >= comptes[d].prochaine + Intervalle
      BY <3>1, <3>3, <3>4
    <3> QED
      BY <3>2, <3>5
  <2>2. CASE Appeler
    BY <2>2 DEF Appeler
  <2>3. CASE LivreInchange
    BY <2>3 DEF LivreInchange
  <2> QED
    BY <2>1, <2>2, <2>3, PasDuLivre
<1> QED
  BY <1>1, <1>2, <1>3, PTL DEF Spec, CreneauxEspaces

-------------------------------------------------------------------------------
(* Calls on a consent that is no longer active. *)

(* An account that was sent to the bank after its consent had stopped      *)
(* being active is neither listed nor under way: the next listing reads    *)
(* the status again.                                                       *)
PerimeDe(c) ==
    /\ appelsPerimes[c] <= 1
    /\ appelsPerimes[c] = 1 => /\ consents[ConsentDe[c]].statut # "active"
                               /\ c \notin reste
                               /\ EnCours(c) = 0
    /\ courant = c => c \notin reste

AppelsPerimesBornes == \A c \in Comptes : PerimeDe(c)

LEMMA PerimeStep ==
    ASSUME Types, AppelsPerimesBornes, [Next]_vars
    PROVE  AppelsPerimesBornes'
<1> SUFFICES ASSUME NEW c \in Comptes
             PROVE  PerimeDe(c)'
  BY DEF AppelsPerimesBornes
<1>1. /\ PerimeDe(c) /\ ConsentDe[c] \in Consents /\ c # Personne
      /\ appelsPerimes \in [Comptes -> Nat]
      /\ consents \in [Consents -> Consent]
      /\ courant \in Comptes \cup {Personne}
      /\ EtapeCourant
      /\ EnCours(c) \in {0, 1}
  BY ConstantesSynchro DEF AppelsPerimesBornes, Types, TypeOK, EnCours, AvantBanque
<1> USE DEF PerimeDe, EnCours, AvantBanque, bornes, compteurs
<1>2. CASE UNCHANGED vars
  BY <1>1, <1>2 DEF vars
<1>3. ASSUME etape = "solde", CompterAppel(courant), etape' \notin AvantBanque,
             UNCHANGED <<consents, reste>>, courant' \in {courant, Personne}
      PROVE  PerimeDe(c)'
  <2>1. CASE c = courant
    <3>1. appelsPerimes[c] = 0 /\ c \notin reste
      BY <1>1, <1>3, <2>1
    <3> QED
      BY <1>1, <1>3, <2>1, <3>1 DEF CompterAppel
  <2>2. CASE c # courant
    BY <1>1, <1>3, <2>2 DEF CompterAppel
  <2> QED
    BY <2>1, <2>2
<1>4. CASE Worker
  <2>1. CASE Demarrer
    BY <1>1, <2>1 DEF Demarrer
  <2>2. CASE DebutCycle
    BY <1>1, <2>2 DEF DebutCycle, Echeant, EtapeCourant
  <2>3. CASE FinCycle
    BY <1>1, <2>3 DEF FinCycle
  <2>4. CASE AbandonnerCycle
    BY <1>1, <2>4 DEF AbandonnerCycle
  <2>5. ASSUME NEW d \in Comptes, Reserver(d)
        PROVE  PerimeDe(c)'
    BY <1>1, <2>5 DEF Reserver, EnTete
  <2>6. ASSUME NEW d \in Comptes, IgnorerCompte(d)
        PROVE  PerimeDe(c)'
    BY <1>1, <2>6 DEF IgnorerCompte
  <2>7. CASE DemanderSolde
    BY <1>3, <2>7 DEF DemanderSolde
  <2>8. CASE SoldeRefuse
    BY <1>3, <2>8 DEF SoldeRefuse, EchecSource
  <2>9. CASE ListerTransactions
    BY <1>1, <2>9 DEF ListerTransactions
  <2>10. CASE TransactionsRefusees
    BY <1>1, <2>10 DEF TransactionsRefusees, EchecSource
  <2>11. CASE PublierSolde
    BY <1>1, <2>11 DEF PublierSolde
  <2>12. CASE PublierTransactions
    BY <1>1, <2>12 DEF PublierTransactions
  <2>13. CASE PublierSucces
    BY <1>1, <2>13 DEF PublierSucces, Suivant
  <2>14. CASE MarquerExpire
    <3>1. consents'[ConsentDe[c]].statut = "active"
            => consents[ConsentDe[c]].statut = "active"
      BY <1>1, <2>14 DEF MarquerExpire, Consent
    <3> QED
      BY <1>1, <2>14, <3>1 DEF MarquerExpire
  <2>15. CASE PublierExpiration
    BY <1>1, <2>15 DEF PublierExpiration, Suivant
  <2>16. CASE PublierDebut
    BY <1>1, <2>16 DEF PublierDebut
  <2>17. CASE PublierRenouvellement
    BY <1>1, <2>17 DEF PublierRenouvellement
  <2> QED
    BY <1>4, <2>1, <2>2, <2>3, <2>4, <2>5, <2>6, <2>7, <2>8, <2>9, <2>10,
       <2>11, <2>12, <2>13, <2>14, <2>15, <2>16, <2>17 DEF Worker
<1>5. CASE Environnement
  <2>1. CASE TempsPasse
    BY <1>1, <2>1 DEF TempsPasse
  <2>2. ASSUME NEW k \in Consents, NEW s \in {"pending", "active", "failed"},
               EcrireConsent(k, s)
        PROVE  PerimeDe(c)'
    <3>1. /\ appelsPerimes'[c] = IF s = "active" /\ ConsentDe[c] = k
                                 THEN 0 ELSE appelsPerimes[c]
          /\ consents'[ConsentDe[c]].statut
               = IF ConsentDe[c] = k THEN s ELSE consents[ConsentDe[c]].statut
      BY <1>1, <2>2 DEF EcrireConsent
    <3> QED
      BY <1>1, <2>2, <3>1 DEF EcrireConsent
  <2>3. ASSUME NEW d \in Comptes, RattacherCompte(d)
        PROVE  PerimeDe(c)'
    BY <1>1, <2>3 DEF RattacherCompte
  <2>4. ASSUME NEW q \in Proprietaires, EffacerComptes(q)
        PROVE  PerimeDe(c)'
    BY <1>1, <2>4 DEF EffacerComptes
  <2>5. ASSUME NEW q \in Proprietaires, EffacerConsents(q)
        PROVE  PerimeDe(c)'
    <3>1. consents'[ConsentDe[c]].statut = "active"
            => consents[ConsentDe[c]].statut = "active"
      BY <1>1, <2>5 DEF EffacerConsents, Consent
    <3> QED
      BY <1>1, <2>5, <3>1 DEF EffacerConsents
  <2>6. CASE Arreter
    BY <1>1, <2>6 DEF Arreter
  <2>7. CASE Panne
    BY <1>1, <2>7 DEF Panne
  <2> QED
    BY <1>5, <2>1, <2>2, <2>3, <2>4, <2>5, <2>6, <2>7 DEF Environnement
<1> QED
  BY <1>2, <1>4, <1>5 DEF Next

(* At most one sync per account reaches the bank after its consent has     *)
(* stopped being active, however many accounts, cycles and restarts.       *)
THEOREM AppelsPerimesRares == Spec => []AuPlusUnAppelPerime
<1>1. Init => Types /\ AppelsPerimesBornes
  <2> SUFFICES ASSUME Init PROVE Types /\ AppelsPerimesBornes
    OBVIOUS
  <2>1. \A c \in Comptes : appelsPerimes[c] = 0 /\ c \notin reste
    BY DEF Init
  <2> QED
    BY <2>1, TypesInit DEF AppelsPerimesBornes, PerimeDe
<1>2. Types /\ AppelsPerimesBornes /\ [Next]_vars => (Types /\ AppelsPerimesBornes)'
  BY TypesStep, PerimeStep
<1>3. Types /\ AppelsPerimesBornes => AuPlusUnAppelPerime
  BY DEF AppelsPerimesBornes, PerimeDe, AuPlusUnAppelPerime
<1> QED
  BY <1>1, <1>2, <1>3, PTL DEF Spec

-------------------------------------------------------------------------------
(* The dead branch. *)

(* synchroniser_compte never finds an expired consent: what it compares is *)
(* what the listing of its own cycle has compared, at the same instant.    *)
THEOREM BrancheToujoursMorte == Spec => []BrancheExpirationMorte
<1>1. Init => Types /\ BrancheExpirationMorte
  BY TypesInit DEF Init, BrancheExpirationMorte
<1>2. ASSUME Types, BrancheExpirationMorte, [Next]_vars
      PROVE  (Types /\ BrancheExpirationMorte)'
  <2>1. CASE DebutCycle
    <3>1. ASSUME NEW c \in reste'
          PROVE  ~ConsentementExpire(c)'
      <4>1. /\ c \in Comptes /\ Echeant(c, temps)
            /\ vus' = consents /\ maintenant' = temps
        BY <2>1, <3>1 DEF DebutCycle
      <4>2. /\ ConsentDe[c] \in Consents
            /\ consents[ConsentDe[c]].expire \in Nat /\ temps \in Nat
        BY <1>2, <4>1, ConstantesSynchro DEF Types, TypeOK, Consent
      <4>3. /\ consents[ConsentDe[c]].statut = "active"
            /\ consents[ConsentDe[c]].expire > temps
        BY <4>1 DEF Echeant
      <4> QED
        BY <4>1, <4>2, <4>3 DEF ConsentementExpire
    <3> QED
      BY <1>2, <3>1, TypesStep DEF BrancheExpirationMorte
  <2>2. CASE maintenant' = maintenant /\ vus' = vus /\ reste' \subseteq reste
    BY <1>2, <2>2, TypesStep DEF BrancheExpirationMorte, ConsentementExpire
  <2> QED
    BY <1>2, <2>1, <2>2, ReprisesDeCycle
<1> QED
  BY <1>1, <1>2, PTL DEF Spec

-------------------------------------------------------------------------------
(* The events of a sync. *)

(* What has been published for an account, by the step its sync is at: no  *)
(* outcome before the bank has answered, and the failure before the mark.  *)
IssueDe(c) ==
    /\ "started" \in annonces[c] /\ "succeeded" \notin annonces[c]
         /\ "failed" \notin annonces[c] => c = courant \/ c \in orphelins
    /\ "failed" \in annonces[c] => /\ "balance" \notin annonces[c]
                                   /\ "transactions" \notin annonces[c]
                                   /\ "succeeded" \notin annonces[c]
    /\ "consent_expired" \in annonces[c] => "failed" \in annonces[c]
    /\ "succeeded" \in annonces[c] => "transactions" \in annonces[c]
    /\ courant = c =>
         /\ etape \notin {"marquage", "pub_expiration"} =>
              "failed" \notin annonces[c] /\ "succeeded" \notin annonces[c]
         /\ etape \in {"marquage", "pub_expiration"} => "failed" \in annonces[c]
         /\ etape \in {"debut", "renouvellement", "solde", "transactions", "pub_solde"} =>
              "balance" \notin annonces[c]
         /\ etape \in {"debut", "renouvellement", "solde", "transactions", "pub_solde",
                      "pub_transactions"} =>
              "transactions" \notin annonces[c]
         /\ etape = "pub_succes" => "transactions" \in annonces[c]

Issues == \A c \in Comptes : IssueDe(c)

(* Publishing for the account under way says nothing of the others.        *)
LEMMA PublierPour ==
    ASSUME TypeOK, NEW d \in Comptes, NEW e, Publier(d, e)
    PROVE  \A c \in Comptes :
             annonces'[c] = IF c = d THEN annonces[c] \cup {e} ELSE annonces[c]
  BY DEF Publier, TypeOK

LEMMA IssuesStep ==
    ASSUME Types, Issues, [Next]_vars
    PROVE  Issues'
<1> SUFFICES ASSUME NEW c \in Comptes
             PROVE  IssueDe(c)'
  BY DEF Issues
<1>1. /\ IssueDe(c) /\ c # Personne
      /\ TypeOK /\ EtapeCourant /\ courant \in Comptes \cup {Personne}
  BY ConstantesSynchro DEF Types, TypeOK, Issues
<1> USE DEF IssueDe, EtapeCourant
<1>2. CASE UNCHANGED vars
  BY <1>1, <1>2 DEF vars
<1>3. CASE Worker
  <2>1. CASE Demarrer \/ DebutCycle \/ FinCycle \/ AbandonnerCycle
    BY <1>1, <2>1 DEF Demarrer, DebutCycle, FinCycle, AbandonnerCycle
  <2>2. ASSUME NEW d \in Comptes, Reserver(d)
        PROVE  IssueDe(c)'
    <3>1. /\ etape = "boucle" /\ courant' = d /\ etape' = "debut"
          /\ orphelins' = orphelins \ {d}
          /\ c # d => annonces'[c] = annonces[c]
      BY <1>1, <2>2 DEF Reserver, TypeOK
    <3>2. /\ "failed" \notin annonces'[d] /\ "succeeded" \notin annonces'[d]
          /\ "balance" \notin annonces'[d] /\ "transactions" \notin annonces'[d]
          /\ "consent_expired" \notin annonces'[d]
      BY <1>1, <2>2 DEF Reserver, TypeOK
    <3> QED
      BY <1>1, <3>1, <3>2
  <2>3. ASSUME NEW d \in Comptes, IgnorerCompte(d)
        PROVE  IssueDe(c)'
    BY <1>1, <2>3 DEF IgnorerCompte
  <2>4. CASE DemanderSolde \/ ListerTransactions
    BY <1>1, <2>4 DEF DemanderSolde, ListerTransactions
  <2>5. ASSUME NEW refus \in Refus, EchecSource(refus), etape \in {"solde", "transactions"}
        PROVE  IssueDe(c)'
    <3>1. courant \in Comptes
      BY <1>1, <2>5
    <3>2. annonces'[c] = IF c = courant THEN annonces[c] \cup {"failed"} ELSE annonces[c]
      BY <1>1, <2>5, <3>1, PublierPour DEF EchecSource
    <3> QED
      BY <1>1, <2>5, <3>1, <3>2 DEF EchecSource, bornes
  <2>6. CASE SoldeRefuse \/ TransactionsRefusees
    BY <2>5, <2>6 DEF SoldeRefuse, TransactionsRefusees
  <2>7. CASE PublierSolde
    <3>1. annonces'[c] = IF c = courant THEN annonces[c] \cup {"balance"} ELSE annonces[c]
      BY <1>1, <2>7, PublierPour DEF PublierSolde
    <3> QED
      BY <1>1, <2>7, <3>1 DEF PublierSolde
  <2>8. CASE PublierTransactions
    <3>1. annonces'[c] = IF c = courant THEN annonces[c] \cup {"transactions"} ELSE annonces[c]
      BY <1>1, <2>8, PublierPour DEF PublierTransactions
    <3> QED
      BY <1>1, <2>8, <3>1 DEF PublierTransactions
  <2>9. CASE PublierSucces
    <3>1. annonces'[c] = IF c = courant THEN annonces[c] \cup {"succeeded"} ELSE annonces[c]
      BY <1>1, <2>9, PublierPour DEF PublierSucces
    <3> QED
      BY <1>1, <2>9, <3>1 DEF PublierSucces, Suivant
  <2>10. CASE MarquerExpire
    BY <1>1, <2>10 DEF MarquerExpire
  <2>11. CASE PublierExpiration
    <3>1. annonces'[c] = IF c = courant THEN annonces[c] \cup {"consent_expired"}
                                        ELSE annonces[c]
      BY <1>1, <2>11, PublierPour DEF PublierExpiration
    <3> QED
      BY <1>1, <2>11, <3>1 DEF PublierExpiration, Suivant
  <2>12. CASE PublierDebut
    <3>1. annonces'[c] = IF c = courant THEN annonces[c] \cup {"started"} ELSE annonces[c]
      BY <1>1, <2>12, PublierPour DEF PublierDebut
    <3> QED
      BY <1>1, <2>12, <3>1 DEF PublierDebut
  <2>13. CASE PublierRenouvellement
    <3>1. annonces'[c] = IF c = courant THEN annonces[c] \cup {"renewal_required"}
                                        ELSE annonces[c]
      BY <1>1, <2>13, PublierPour DEF PublierRenouvellement
    <3> QED
      BY <1>1, <2>13, <3>1 DEF PublierRenouvellement
  <2> QED
    BY <1>3, <2>1, <2>2, <2>3, <2>4, <2>6, <2>7, <2>8, <2>9, <2>10, <2>11, <2>12,
       <2>13 DEF Worker
<1>4. CASE Environnement
  BY <1>1, <1>4 DEF Environnement, TempsPasse, EcrireConsent, RattacherCompte,
                    EffacerComptes, EffacerConsents, Arreter, Panne
<1> QED
  BY <1>2, <1>3, <1>4 DEF Next

(* Each sync that was announced has its one outcome, unless it is under    *)
(* way or a crash cut it, and an outcome has the events that go with it.   *)
THEOREM IssueToujoursAnnoncee == Spec => []IssueAnnoncee
<1>1. Init => Types /\ Issues
  <2> SUFFICES ASSUME Init PROVE Types /\ Issues
    OBVIOUS
  <2>1. \A c \in Comptes : annonces[c] = {} /\ courant # c
    BY ConstantesSynchro DEF Init
  <2> QED
    BY <2>1, TypesInit DEF Issues, IssueDe
<1>2. Types /\ Issues /\ [Next]_vars => (Types /\ Issues)'
  BY TypesStep, IssuesStep
<1>3. Issues => IssueAnnoncee
  BY DEF Issues, IssueDe, IssueAnnoncee
<1> QED
  BY <1>1, <1>2, <1>3, PTL DEF Spec

-------------------------------------------------------------------------------
(* Turns. *)

(* A listed account has a slot left on the day of the cycle until it is    *)
(* served.                                                                 *)
ListesLibres == \A c \in reste : NbDuJour(c, Jour(maintenant)) < Quota

(* An account that was overtaken once is in every list the other is in     *)
(* anew; overtaken twice, it stands before the other there.                *)
TourDe(c, d) ==
    /\ depasse[c][d] \in 0 .. 2
    /\ depasse[c][d] # 0 => Echeant(c, temps) /\ (d \in reste => c \in reste)
    /\ depasse[c][d] = 2 => comptes[c].prochaine < comptes[d].prochaine

Tours ==
    /\ Types
    /\ ListesEchus
    /\ ListesLibres
    /\ \A c, d \in Comptes : TourDe(c, d)

(* How an account leaves the list of a cycle: served, skipped, or with all *)
(* the others.                                                             *)
LEMMA SortiesDeListe ==
    ASSUME Types, [Next]_vars
    PROVE  \/ DebutCycle
           \/ reste' \in {reste, {}}
           \/ \E e \in Comptes : (Reserver(e) \/ IgnorerCompte(e)) /\ reste' = reste \ {e}
<1>1. CASE UNCHANGED vars
  BY <1>1 DEF vars
<1>2. CASE Worker
  BY <1>2 DEF Worker, Demarrer, FinCycle, AbandonnerCycle, Reserver, IgnorerCompte,
              DemanderSolde, SoldeRefuse, EchecSource, ListerTransactions,
              TransactionsRefusees, PublierSolde, PublierTransactions,
              PublierSucces, MarquerExpire, PublierExpiration, PublierDebut,
              PublierRenouvellement
<1>3. CASE Environnement
  BY <1>3 DEF Environnement, TempsPasse, EcrireConsent, RattacherCompte,
              EffacerComptes, EffacerConsents, Arreter, Panne
<1> QED
  BY <1>1, <1>2, <1>3 DEF Next

(* Only a reservation moves a planning column.                             *)
LEMMA ColonnesDuPas ==
    ASSUME Types, ListesEchus, [Next]_vars, NEW c \in Comptes
    PROVE  \/ /\ Reserver(c)
              /\ SertCompte(c)
              /\ c \in reste /\ reste' = reste \ {c} /\ maintenant' = maintenant
              /\ comptes'[c].prochaine > maintenant
           \/ /\ ~Reserver(c)
              /\ ~SertCompte(c)
              /\ comptes'[c].jour = comptes[c].jour
              /\ comptes'[c].nb = comptes[c].nb
<1>1. /\ comptes \in [Comptes -> Ligne] /\ maintenant \in Nat /\ Intervalle \in Nat \ {0}
      /\ comptes[c].prochaine \in Nat
  BY ConstantesSynchro DEF Types, TypeOK, Ligne
<1>2. CASE Reserver(c)
  <2>1. /\ comptes'[c].prochaine = maintenant + Intervalle
        /\ c \in reste /\ reste' = reste \ {c} /\ maintenant' = maintenant
    BY <1>2, ReserverLigne
  <2>2. comptes[c].prochaine <= maintenant
    BY <2>1 DEF ListesEchus
  <2> QED
    BY <1>1, <1>2, <2>1, <2>2 DEF SertCompte
<1>3. CASE ~Reserver(c)
  <2>1. ASSUME NEW e \in Comptes, Reserver(e)
        PROVE  comptes'[c] = comptes[c]
    BY <1>1, <1>3, <2>1, ReserverLigne
  <2>2. CASE Appeler
    BY <1>3, <2>2 DEF Appeler, SertCompte
  <2>3. CASE LivreInchange
    BY <1>3, <2>3 DEF LivreInchange, SertCompte
  <2> QED
    BY <1>3, <2>1, <2>2, <2>3, PasDuLivre DEF SertCompte
<1> QED
  BY <1>2, <1>3

LEMMA ListesLibresStep ==
    ASSUME Types, ListesEchus, ListesLibres, [Next]_vars
    PROVE  ListesLibres'
<1>1. CASE DebutCycle
  <2>1. /\ reste' \subseteq Comptes /\ maintenant' = temps /\ comptes' = comptes
        /\ \A c \in reste' : NbDuJour(c, Jour(temps)) < Quota
    BY <1>1 DEF DebutCycle, Echeant
  <2> QED
    BY <2>1 DEF ListesLibres, NbDuJour, Jour
<1>2. CASE maintenant' = maintenant /\ reste' \subseteq reste
  <2> SUFFICES ASSUME NEW c \in reste'
               PROVE  NbDuJour(c, Jour(maintenant))' < Quota
    BY DEF ListesLibres
  <2>1. c \in reste /\ c \in Comptes
    BY <1>2 DEF Types, TypeOK
  <2>2. comptes'[c].jour = comptes[c].jour /\ comptes'[c].nb = comptes[c].nb
    BY <2>1, ColonnesDuPas
  <2> QED
    BY <1>2, <2>1, <2>2 DEF ListesLibres, NbDuJour, Jour
<1> QED
  BY <1>1, <1>2, ReprisesDeCycle

LEMMA ToursStep ==
    ASSUME Tours, [NextTours]_varsTours
    PROVE  Tours'
<1>1. CASE UNCHANGED varsTours
  BY <1>1 DEF varsTours, vars, Tours, Types, TypeOK, EtapeCourant, ListesEchus, ListesLibres,
              TourDe, Echeant, NbDuJour, Jour
<1>2. CASE Next /\ Noter
  <2>1. Types /\ Types' /\ ListesEchus /\ ListesEchus' /\ ListesLibres /\ ListesLibres'
    BY <1>2, TypesStep, ListesEchusStep, ListesLibresStep DEF Tours
  <2> SUFFICES ASSUME NEW c \in Comptes, NEW d \in Comptes
               PROVE  TourDe(c, d)'
    BY <2>1 DEF Tours
  <2>2. TourDe(c, d)
    BY DEF Tours
  <2>3. CASE depasse'[c][d] = 0
    BY <2>3 DEF TourDe
  <2>4. CASE /\ ~SertCompte(c) /\ Echeant(c, temps) /\ Echeant(c, temps)'
             /\ depasse'[c][d] = depasse[c][d] + (IF SertCompte(d) THEN 1 ELSE 0)
    <3>1. /\ comptes[c] \in Ligne /\ comptes[d] \in Ligne
          /\ comptes[c].prochaine \in Nat /\ comptes[d].prochaine \in Nat
          /\ comptes'[d].prochaine \in Nat /\ maintenant \in Nat
          /\ comptes'[c].prochaine = comptes[c].prochaine
      BY <2>1, <2>4, ConstantesSynchro DEF Types, TypeOK, Ligne, SertCompte
    <3>2. CASE SertCompte(d)
      <4>1. /\ Reserver(d) /\ d \in reste /\ reste' = reste \ {d}
            /\ comptes'[d].prochaine > maintenant
        BY <1>2, <2>1, <3>2, ColonnesDuPas
      <4>2. \A e \in reste : comptes[d].prochaine <= comptes[e].prochaine
        BY <4>1 DEF Reserver, EnTete
      <4>3. depasse[c][d] # 0 => c \in reste /\ comptes[c].prochaine <= maintenant
        BY <2>1, <2>2, <4>1 DEF TourDe, ListesEchus
      <4>4. depasse[c][d] # 2
        BY <2>2, <3>1, <4>2, <4>3 DEF TourDe
      <4>5. depasse[c][d] \in {0, 1}
        BY <2>2, <4>4 DEF TourDe
      <4>6. depasse'[c][d] = depasse[c][d] + 1
        BY <2>4, <3>2
      <4>7. depasse[c][d] = 1 => comptes'[c].prochaine < comptes'[d].prochaine
        BY <3>1, <4>1, <4>3
      <4> QED
        BY <2>4, <4>1, <4>5, <4>6, <4>7 DEF TourDe
    <3>3. CASE ~SertCompte(d)
      <4>1. depasse'[c][d] = depasse[c][d] /\ comptes'[d].prochaine = comptes[d].prochaine
        BY <2>2, <2>4, <3>3 DEF TourDe, SertCompte
      <4>2. depasse[c][d] # 0 => (d \in reste' => c \in reste')
        <5>1. CASE DebutCycle
          BY <2>4, <5>1 DEF DebutCycle
        <5>2. CASE reste' \in {reste, {}}
          BY <2>2, <5>2 DEF TourDe
        <5>3. ASSUME NEW e \in Comptes, Reserver(e) \/ IgnorerCompte(e), reste' = reste \ {e}
              PROVE  depasse[c][d] # 0 => (d \in reste' => c \in reste')
          <6>1. CASE e = c
            <7>1. ~Reserver(c)
              BY <1>2, <2>1, <2>4, ColonnesDuPas
            <7>2. c \in reste /\ ~CreneauLibre(c, maintenant)
              BY <5>3, <6>1, <7>1 DEF IgnorerCompte, EnTete
            <7>3. NbDuJour(c, Jour(maintenant)) < Quota
              BY <2>1, <7>2 DEF ListesLibres
            <7> QED
              BY <2>4, <7>2, <7>3 DEF CreneauLibre, Echeant
          <6>2. CASE e # c
            BY <2>2, <5>3, <6>2 DEF TourDe
          <6> QED
            BY <6>1, <6>2
        <5> QED
          BY <1>2, <2>1, <5>1, <5>2, <5>3, SortiesDeListe
      <4> QED
        BY <2>2, <2>4, <3>1, <4>1, <4>2 DEF TourDe
    <3> QED
      BY <3>2, <3>3
  <2> QED
    BY <1>2, <2>3, <2>4 DEF Noter
<1> QED
  BY <1>1, <1>2 DEF NextTours

(* An account that is due and waits is overtaken twice at most by another, *)
(* for every number of accounts, quota, interval and day, whatever cycles  *)
(* are abandoned, run over or cut (domain/synchro.rs:154-163).             *)
THEOREM ToursRespectes == SpecTours => []TourRespecte
<1>1. InitTours => Tours
  <2> SUFFICES ASSUME InitTours PROVE Tours
    OBVIOUS
  <2>1. Init /\ reste = {} /\ \A c, d \in Comptes : depasse[c][d] = 0
    BY DEF InitTours, Init
  <2> QED
    BY <2>1, TypesInit DEF Tours, ListesEchus, ListesLibres, TourDe
<1>2. Tours /\ [NextTours]_varsTours => Tours'
  BY ToursStep
<1>3. Tours => TourRespecte
  BY DEF Tours, TourDe, TourRespecte
<1> QED
  BY <1>1, <1>2, <1>3, PTL DEF SpecTours

=============================================================================
