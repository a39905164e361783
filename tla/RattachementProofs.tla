-------------------------- MODULE RattachementProofs --------------------------
(***************************************************************************)
(* What the life of a consent promises, for every number of consents,      *)
(* owners, accounts and requests, and for every interleaving of the HTTP   *)
(* handlers with the worker, the erasure, the hands of time and crashes.   *)
(*                                                                         *)
(* The inductive invariant has four parts.  Tables: a request that creates *)
(* a consent is alone on it, so that no INSERT lands on an erased row.     *)
(* Completions: the accounts the bank returned last are in the table, or a *)
(* request that still runs carries them.  Codes: the code of an opened     *)
(* authorisation is unspent until a request takes it to the bank.          *)
(* Revocations: what the erasure under way owes the bank.                  *)
(*                                                                         *)
(* UnSeulProprietaire is false in general (two owners attach the same      *)
(* account at once); it is proved for the requests of one owner.           *)
(***************************************************************************)
EXTENDS Rattachement, TLAPS

(* A request works on a consent from its first statement to its answer.    *)
Occupees == \A r \in Requetes : etape[r] = "libre" <=> cible[r] = Aucun

Formes == TypeOK /\ Occupees

(* A row of bank_account is inserted by the last loop only.                *)
Insertions == \A r \in Requetes : etape[r] # "comptes" => inseres[r] = {}

Creation == {"auth_creation", "insertion"}

(* The request that creates a consent is alone on it until the INSERT.     *)
Vierges ==
    \A r \in Requetes : etape[r] \in Creation =>
        /\ consents[cible[r]].statut = "vierge"
        /\ \A q \in Requetes : q # r => cible[q] # cible[r]

(* No account without its consent (the foreign key of bank_account).       *)
Rattaches == \A k \in Consents : ~EnBase(k) => ComptesDuConsent(k) = {}

Tables == Insertions /\ Vierges /\ Rattaches

(* Request r carries the accounts the bank returned last for k.            *)
Apporte(r, k) ==
    /\ cible[r] = k
    /\ \/ etape[r] \in {"verification", "refus"} /\ rendus[r] = attendus[k]
       \/ etape[r] = "comptes" /\ attendus[k] \ reste[r] \subseteq ComptesDuConsent(k)

Tenu(k) ==
    \/ attendus[k] \subseteq ComptesDuConsent(k)
    \/ \E r \in Requetes : Apporte(r, k)

Completions ==
    \A k \in Consents : consents[k].statut = "active" /\ k \notin interrompus => Tenu(k)

(* A code is there as long as nobody may have spent it unseen.             *)
CodesAccordes ==
    \A r \in Requetes :
        \/ etape[r] \notin {"insertion", "attente"}
        \/ autorisation[cible[r]] \in NonDepensees
        \/ etape[r] = "attente" /\ cible[r] \in troubles

Chevauchements ==
    \A r, q \in Requetes :
        r # q /\ cible[r] = cible[q] /\ etape[r] \in Renouvellement => cible[r] \in troubles

Retours ==
    \A k \in Consents :
        consents[k].statut = "pending" /\ k \notin troubles =>
            \/ autorisation[k] \in NonDepensees
            \/ EstRenouvelable(k)
            \/ \E r \in Requetes : cible[r] = k /\ etape[r] \in CodePerdu

Codes == CodesAccordes /\ Chevauchements /\ Retours

(* What the erasure under way owes the bank.                               *)
Revocations ==
    /\ etapeEffacement \in {"revocation", "consents"} =>
         \A k \in Consents :
           ProprietaireDe[k] = efface /\ consents[k].statut = "active" =>
             k \in aRevoquer \cup demandes \cup tardifs
    /\ etapeEffacement = "consents" => aRevoquer = {}
    /\ etapeEffacement = "repos" => efface = Aucun /\ demandes = {} /\ tardifs = {}

Invariant == Formes /\ Tables /\ Completions /\ Codes /\ Revocations

(* The checks a completion has done still hold.                            *)
Verifie(r) ==
    /\ cible[r] \in Vises \cup {Aucun}
    /\ etape[r] = "verification" =>
         \A x \in rendus[r] \ reste[r] :
            ~ProprietaireConcurrent(x, ProprietaireDe[cible[r]])
    /\ etape[r] = "comptes" =>
         /\ reste[r] \subseteq rendus[r]
         /\ \A x \in rendus[r] : ~ProprietaireConcurrent(x, ProprietaireDe[cible[r]])

Unicite == UnSeulProprietaire /\ \A r \in Requetes : Verifie(r)

-------------------------------------------------------------------------------
(* Whatever a handler, the worker or the erasure does keeps the shapes.      *)
LEMMA FormesGardees == Formes /\ [Next]_vars => Formes'
<1> SUFFICES ASSUME Formes, [Next]_vars
             PROVE  Formes'
  OBVIOUS
<1> USE ConstantesRattachement DEF requetes, effacement, histoire, Formes,
         TypeOK, Occupees, Etapes, Statuts, Echeances, EnBase, ConsentsDe
<1>1. ASSUME NEW r \in Requetes, NEW k \in Vises, Creer(r, k)
      PROVE  Formes'
  BY <1>1 DEF Creer, Commencer
<1>2. ASSUME NEW r \in Requetes, NEW k \in Vises, Completer(r, k)
      PROVE  Formes'
  BY <1>2 DEF Completer, Commencer
<1>3. ASSUME NEW r \in Requetes, NEW k \in Vises, Renouveler(r, k)
      PROVE  Formes'
  BY <1>3 DEF Renouveler, Commencer, ConsentRenouvelable
<1>4. ASSUME NEW r \in Requetes,
             \/ Initier(r) \/ SessionOuverte(r) \/ SessionRefusee(r)
      PROVE  Formes'
  <2>1. CASE Initier(r)
    BY <2>1 DEF Initier, Avancer, Autorisations
  <2>2. CASE SessionOuverte(r)
    BY <2>2 DEF SessionOuverte, Avancer, Autorisations
  <2>3. CASE SessionRefusee(r)
    BY <2>3 DEF SessionRefusee, Avancer, Autorisations
  <2> QED
    BY <1>4, <2>1, <2>2, <2>3
<1>5. ASSUME NEW r \in Requetes, EnregistrerInitie(r)
      PROVE  Formes'
  BY <1>5 DEF EnregistrerInitie, Repondre
<1>6. ASSUME NEW r \in Requetes, EchecConsentement(r)
      PROVE  Formes'
  <2>1. consents' \in [Consents -> [statut : Statuts, echeance : Echeances]]
    BY <1>6 DEF EchecConsentement, EcrireStatut
  <2> QED
    BY <1>6, <2>1 DEF EchecConsentement, Repondre
<1>7. ASSUME NEW r \in Requetes, Refuser(r)
      PROVE  Formes'
  <2>1. consents' \in [Consents -> [statut : Statuts, echeance : Echeances]]
    BY <1>7 DEF Refuser, EcrireStatut
  <2> QED
    BY <1>7, <2>1 DEF Refuser, Repondre
<1>8. ASSUME NEW r \in Requetes, MettreEnAttente(r)
      PROVE  Formes'
  BY <1>8 DEF MettreEnAttente, Repondre, MettreAJour
<1>9. ASSUME NEW r \in Requetes, Activer(r)
      PROVE  Formes'
  BY <1>9 DEF Activer, Avancer, MettreAJour
<1>10. ASSUME NEW r \in Requetes, ListerComptes(r)
       PROVE  Formes'
  BY <1>10 DEF ListerComptes
<1>11. ASSUME NEW r \in Requetes, Verifier(r)
       PROVE  Formes'
  <2>1. etape' \in [Requetes -> Etapes] /\ reste' \in [Requetes -> SUBSET Externes]
    <3>1. PICK x \in reste[r] :
            \/ etape' = [etape EXCEPT ![r] = "refus"] /\ UNCHANGED reste
            \/ /\ etape' = [etape EXCEPT ![r] = "comptes"]
               /\ reste' = [reste EXCEPT ![r] = rendus[r]]
            \/ reste' = [reste EXCEPT ![r] = @ \ {x}] /\ UNCHANGED etape
      BY <1>11 DEF Verifier
    <3> QED
      BY <3>1
  <2>2. Occupees'
    BY <1>11 DEF Verifier
  <2> QED
    BY <1>11, <2>1, <2>2 DEF Verifier
<1>12. ASSUME NEW r \in Requetes, EnregistrerCompte(r)
       PROVE  Formes'
  BY <1>12 DEF EnregistrerCompte
<1>13. ASSUME NEW r \in Requetes, TerminerCompletion(r)
       PROVE  Formes'
  BY <1>13 DEF TerminerCompletion, Repondre
<1>14. ASSUME NEW r \in Requetes, ErreurRequete(r)
       PROVE  Formes'
  BY <1>14 DEF ErreurRequete, Repondre
<1>15. ASSUME NEW k \in Vises,
             \/ Accorder(k) \/ Abandonner(k) \/ WorkerLit(k) \/ Vieillir(k)
       PROVE  Formes'
  <2>1. CASE Accorder(k) \/ Abandonner(k)
    BY <2>1 DEF Accorder, Abandonner, Autorisations
  <2>2. CASE WorkerLit(k)
    BY <2>2 DEF WorkerLit
  <2>3. CASE Vieillir(k)
    BY <2>3 DEF Vieillir
  <2> QED
    BY <1>15, <2>1, <2>2, <2>3
<1>16. ASSUME NEW p \in Effacables, RecevoirSuppression(p)
       PROVE  Formes'
  BY <1>16 DEF RecevoirSuppression
<1>17. ASSUME NEW k \in Consents, Revoquer(k)
       PROVE  Formes'
  BY <1>17 DEF Revoquer, RevoquerConsentement
<1>18. CASE WorkerMarqueExpire
  BY <1>18 DEF WorkerMarqueExpire, EcrireStatut
<1>19. CASE WorkerSynchronise
  BY <1>19 DEF WorkerSynchronise
<1>20. CASE \/ ListerActifs \/ EffacementEchoue
  BY <1>20 DEF ListerActifs, EffacementEchoue
<1>21. CASE \/ SupprimerComptes \/ SupprimerConsents
  <2>1. CASE SupprimerComptes
    BY <2>1 DEF SupprimerComptes
  <2>2. CASE SupprimerConsents
    <3>1. consents' \in [Consents -> [statut : Statuts, echeance : Echeances]]
      BY <2>2 DEF SupprimerConsents
    <3> QED
      BY <2>2, <3>1 DEF SupprimerConsents
  <2> QED
    BY <1>21, <2>1, <2>2
<1>22. CASE Panne
  <2>1. \A r \in Requetes : etape[r] \in Completion \cup CodePerdu => cible[r] \in Consents
    BY DEF Completion, CodePerdu
  <2>2. interrompus' \subseteq Consents /\ troubles' \subseteq Consents
    BY <1>22, <2>1 DEF Panne
  <2> QED
    BY <1>22, <2>2 DEF Panne
<1>23. CASE UNCHANGED vars
  BY <1>23 DEF vars
<1> QED
  BY <1>1, <1>2, <1>3, <1>4, <1>5, <1>6, <1>7, <1>8, <1>9, <1>10, <1>11,
         <1>12, <1>13, <1>14, <1>15, <1>16, <1>17, <1>18, <1>19, <1>20, <1>21,
         <1>22, <1>23 DEF Next, Requete, Effacement

(* create_consent inserts a row nobody else works on; an account is inserted  *)
(* under its consent, and goes with it.                                      *)
LEMMA TablesGardees == Formes /\ Tables /\ [Next]_vars => Tables'
<1> SUFFICES ASSUME Formes /\ Tables, [Next]_vars
             PROVE  Tables'
  OBVIOUS
<1> USE ConstantesRattachement DEF requetes, effacement, histoire, Formes,
         TypeOK, Occupees, Tables, Insertions, Vierges, Rattaches, Creation,
         EnBase, ComptesDuConsent
<1>1. ASSUME NEW r \in Requetes, NEW k \in Vises, Creer(r, k)
      PROVE  Tables'
  BY <1>1 DEF Creer, Commencer
<1>2. ASSUME NEW r \in Requetes, NEW k \in Vises, Completer(r, k)
      PROVE  Tables'
  BY <1>2 DEF Completer, Commencer
<1>3. ASSUME NEW r \in Requetes, NEW k \in Vises, Renouveler(r, k)
      PROVE  Tables'
  BY <1>3 DEF Renouveler, Commencer, ConsentRenouvelable
<1>4. ASSUME NEW r \in Requetes, Initier(r)
      PROVE  Tables'
  <2>1. /\ UNCHANGED <<consents, comptes, cible, inseres>>
        /\ \A q \in Requetes : q # r => etape'[q] = etape[q]
        /\ \/ etape[r] = "auth_creation" /\ etape'[r] = "insertion"
           \/ etape[r] = "auth_renouvellement" /\ etape'[r] = "attente"
    BY <1>4 DEF Initier, Avancer
  <2>2. Insertions'
    BY <2>1
  <2>3. Vierges'
    BY <2>1
  <2>4. Rattaches'
    BY <2>1
  <2> QED
    BY <2>2, <2>3, <2>4
<1>5. ASSUME NEW r \in Requetes, EnregistrerInitie(r)
      PROVE  Tables'
  BY <1>5 DEF EnregistrerInitie, Repondre
<1>6. ASSUME NEW r \in Requetes, \/ SessionOuverte(r) \/ SessionRefusee(r)
      PROVE  Tables'
  <2>1. CASE SessionOuverte(r)
    BY <2>1 DEF SessionOuverte, Avancer
  <2>2. CASE SessionRefusee(r)
    BY <2>2 DEF SessionRefusee, Avancer
  <2> QED
    BY <1>6, <2>1, <2>2
<1>7. ASSUME NEW r \in Requetes, EchecConsentement(r)
      PROVE  Tables'
  BY <1>7 DEF EchecConsentement, Repondre, EcrireStatut
<1>8. ASSUME NEW r \in Requetes, Refuser(r)
      PROVE  Tables'
  BY <1>8 DEF Refuser, Repondre, EcrireStatut
<1>9. ASSUME NEW r \in Requetes, Activer(r)
      PROVE  Tables'
  BY <1>9 DEF Activer, Avancer, MettreAJour
<1>10. ASSUME NEW r \in Requetes, MettreEnAttente(r)
       PROVE  Tables'
  BY <1>10 DEF MettreEnAttente, Repondre, MettreAJour
<1>11. ASSUME NEW r \in Requetes, \/ ListerComptes(r) \/ Verifier(r)
       PROVE  Tables'
  BY <1>11 DEF ListerComptes, Verifier
<1>12. ASSUME NEW r \in Requetes, EnregistrerCompte(r)
       PROVE  Tables'
  BY <1>12 DEF EnregistrerCompte
<1>13. ASSUME NEW r \in Requetes, TerminerCompletion(r)
       PROVE  Tables'
  BY <1>13 DEF TerminerCompletion, Repondre
<1>14. ASSUME NEW r \in Requetes, ErreurRequete(r)
       PROVE  Tables'
  BY <1>14 DEF ErreurRequete, Repondre
<1>15. ASSUME NEW k \in Vises, \/ Accorder(k) \/ Abandonner(k) \/ WorkerLit(k)
       PROVE  Tables'
  BY <1>15 DEF Accorder, Abandonner, WorkerLit
<1>16. ASSUME NEW k \in Vises, Vieillir(k)
       PROVE  Tables'
  BY <1>16 DEF Vieillir
<1>17. ASSUME NEW p \in Effacables, RecevoirSuppression(p)
       PROVE  Tables'
  BY <1>17 DEF RecevoirSuppression
<1>18. ASSUME NEW k \in Consents, Revoquer(k)
       PROVE  Tables'
  BY <1>18 DEF Revoquer, RevoquerConsentement
<1>19. CASE WorkerMarqueExpire
  BY <1>19 DEF WorkerMarqueExpire, EcrireStatut
<1>20. CASE SupprimerComptes
  BY <1>20 DEF SupprimerComptes
<1>21. CASE SupprimerConsents
  BY <1>21 DEF SupprimerConsents
<1>22. CASE \/ WorkerSynchronise \/ ListerActifs \/ EffacementEchoue
  BY <1>22 DEF WorkerSynchronise, ListerActifs, EffacementEchoue
<1>23. CASE Panne
  BY <1>23 DEF Panne
<1>24. CASE UNCHANGED vars
  BY <1>24 DEF vars
<1> QED
  BY <1>1, <1>2, <1>3, <1>4, <1>5, <1>6, <1>7, <1>8, <1>9, <1>10, <1>11,
         <1>12, <1>13, <1>14, <1>15, <1>16, <1>17, <1>18, <1>19, <1>20, <1>21,
         <1>22, <1>23, <1>24 DEF Next, Requete, Effacement

(* What a step may do to the status of a consent.                            *)
Passage(c) ==
    \/ consents'[c].statut = consents[c].statut
    \/ consents[c].statut = "vierge" /\ consents'[c].statut = "pending"
    \/ EnBase(c) /\ consents'[c].statut \in {"pending", "active", "failed", "expired"}
    \/ /\ EnBase(c) /\ consents'[c].statut = "supprime"
       /\ etapeEffacement = "consents" /\ ProprietaireDe[c] = efface

(* A row appears pending, and ends with its owner: no UPDATE brings it back. *)
LEMMA VieDUnStatut ==
    ASSUME Formes, Vierges, [Next]_vars, NEW c \in Consents
    PROVE  Passage(c)
<1> USE ConstantesRattachement DEF requetes, effacement, histoire, Passage, Formes,
        TypeOK, Occupees, Vierges, Creation, EnBase
<1>1. ASSUME NEW r \in Requetes, NEW k \in Vises,
             \/ Creer(r, k) \/ Completer(r, k) \/ Renouveler(r, k)
      PROVE  Passage(c)
  BY <1>1 DEF Creer, Completer, Renouveler, Commencer, ConsentRenouvelable
<1>2. ASSUME NEW r \in Requetes,
             \/ Initier(r) \/ SessionOuverte(r) \/ SessionRefusee(r)
             \/ ListerComptes(r)
      PROVE  Passage(c)
  BY <1>2 DEF Initier, SessionOuverte, SessionRefusee, ListerComptes, Avancer
<1>3. ASSUME NEW r \in Requetes, EnregistrerInitie(r)
      PROVE  Passage(c)
  BY <1>3 DEF EnregistrerInitie, Repondre
<1>4. ASSUME NEW r \in Requetes, EchecConsentement(r)
      PROVE  Passage(c)
  BY <1>4 DEF EchecConsentement, Repondre, EcrireStatut
<1>5. ASSUME NEW r \in Requetes, Refuser(r)
      PROVE  Passage(c)
  BY <1>5 DEF Refuser, Repondre, EcrireStatut
<1>6. ASSUME NEW r \in Requetes, Activer(r)
      PROVE  Passage(c)
  BY <1>6 DEF Activer, Avancer, MettreAJour
<1>7. ASSUME NEW r \in Requetes, MettreEnAttente(r)
      PROVE  Passage(c)
  BY <1>7 DEF MettreEnAttente, Repondre, MettreAJour
<1>8. ASSUME NEW r \in Requetes, \/ Verifier(r) \/ EnregistrerCompte(r)
      PROVE  Passage(c)
  BY <1>8 DEF Verifier, EnregistrerCompte
<1>9. ASSUME NEW r \in Requetes, \/ TerminerCompletion(r) \/ ErreurRequete(r)
      PROVE  Passage(c)
  BY <1>9 DEF TerminerCompletion, ErreurRequete, Repondre
<1>10. ASSUME NEW k \in Vises,
             \/ Accorder(k) \/ Abandonner(k) \/ WorkerLit(k) \/ Vieillir(k)
       PROVE  Passage(c)
  BY <1>10 DEF Accorder, Abandonner, WorkerLit, Vieillir
<1>11. ASSUME NEW p \in Effacables, RecevoirSuppression(p)
       PROVE  Passage(c)
  BY <1>11 DEF RecevoirSuppression
<1>12. ASSUME NEW k \in Consents, Revoquer(k)
       PROVE  Passage(c)
  BY <1>12 DEF Revoquer, RevoquerConsentement
<1>13. CASE WorkerMarqueExpire
  BY <1>13 DEF WorkerMarqueExpire, EcrireStatut
<1>14. CASE SupprimerConsents
  BY <1>14 DEF SupprimerConsents
<1>15. CASE \/ WorkerSynchronise \/ ListerActifs \/ SupprimerComptes
            \/ EffacementEchoue
  BY <1>15 DEF WorkerSynchronise, ListerActifs, SupprimerComptes,
         EffacementEchoue
<1>16. CASE Panne
  BY <1>16 DEF Panne
<1>17. CASE UNCHANGED vars
  BY <1>17 DEF vars
<1> QED
  BY <1>1, <1>2, <1>3, <1>4, <1>5, <1>6, <1>7, <1>8, <1>9, <1>10, <1>11,
         <1>12, <1>13, <1>14, <1>15, <1>16, <1>17 DEF Next, Requete, Effacement


(* An active consent of the owner being erased is on the list, was revoked,  *)
(* or was activated since.                                                   *)
LEMMA RevocationsGardees == Formes /\ Revocations /\ [Next]_vars => Revocations'
<1> SUFFICES ASSUME Formes /\ Revocations, [Next]_vars
             PROVE  Revocations'
  OBVIOUS
<1> USE ConstantesRattachement DEF requetes, effacement, histoire, Formes,
         TypeOK, Occupees, Revocations, EnBase, ConsentsDe
<1>1. ASSUME NEW r \in Requetes, NEW k \in Vises,
             \/ Creer(r, k) \/ Completer(r, k) \/ Renouveler(r, k)
      PROVE  Revocations'
  BY <1>1 DEF Creer, Completer, Renouveler, Commencer, ConsentRenouvelable
<1>2. ASSUME NEW r \in Requetes,
             \/ Initier(r) \/ SessionOuverte(r) \/ SessionRefusee(r)
      PROVE  Revocations'
  BY <1>2 DEF Initier, SessionOuverte, SessionRefusee, Avancer
<1>3. ASSUME NEW r \in Requetes, EnregistrerInitie(r)
      PROVE  Revocations'
  BY <1>3 DEF EnregistrerInitie, Repondre
<1>4. ASSUME NEW r \in Requetes, EchecConsentement(r)
      PROVE  Revocations'
  BY <1>4 DEF EchecConsentement, Repondre, EcrireStatut
<1>5. ASSUME NEW r \in Requetes, Refuser(r)
      PROVE  Revocations'
  BY <1>5 DEF Refuser, Repondre, EcrireStatut
<1>6. ASSUME NEW r \in Requetes, Activer(r)
      PROVE  Revocations'
  BY <1>6 DEF Activer, Avancer, MettreAJour
<1>7. ASSUME NEW r \in Requetes, MettreEnAttente(r)
      PROVE  Revocations'
  BY <1>7 DEF MettreEnAttente, Repondre, MettreAJour
<1>8. ASSUME NEW r \in Requetes,
             \/ ListerComptes(r) \/ Verifier(r) \/ EnregistrerCompte(r)
      PROVE  Revocations'
  BY <1>8 DEF ListerComptes, Verifier, EnregistrerCompte
<1>9. ASSUME NEW r \in Requetes, TerminerCompletion(r)
      PROVE  Revocations'
  BY <1>9 DEF TerminerCompletion, Repondre
<1>10. ASSUME NEW r \in Requetes, ErreurRequete(r)
       PROVE  Revocations'
  BY <1>10 DEF ErreurRequete, Repondre
<1>11. ASSUME NEW k \in Vises, \/ Accorder(k) \/ Abandonner(k) \/ WorkerLit(k)
       PROVE  Revocations'
  BY <1>11 DEF Accorder, Abandonner, WorkerLit
<1>12. ASSUME NEW k \in Vises, Vieillir(k)
       PROVE  Revocations'
  BY <1>12 DEF Vieillir
<1>13. ASSUME NEW p \in Effacables, RecevoirSuppression(p)
       PROVE  Revocations'
  BY <1>13 DEF RecevoirSuppression
<1>14. ASSUME NEW k \in Consents, Revoquer(k)
       PROVE  Revocations'
  BY <1>14 DEF Revoquer, RevoquerConsentement
<1>15. CASE \/ WorkerMarqueExpire \/ WorkerSynchronise
  <2>1. CASE WorkerMarqueExpire
    BY <2>1 DEF WorkerMarqueExpire, EcrireStatut
  <2>2. CASE WorkerSynchronise
    BY <2>2 DEF WorkerSynchronise
  <2> QED
    BY <1>15, <2>1, <2>2
<1>16. CASE ListerActifs
  BY <1>16 DEF ListerActifs
<1>17. CASE SupprimerComptes
  BY <1>17 DEF SupprimerComptes
<1>18. CASE SupprimerConsents
  BY <1>18 DEF SupprimerConsents
<1>19. CASE \/ EffacementEchoue \/ Panne
  BY <1>19 DEF EffacementEchoue, Panne
<1>20. CASE UNCHANGED vars
  BY <1>20 DEF vars
<1> QED
  BY <1>1, <1>2, <1>3, <1>4, <1>5, <1>6, <1>7, <1>8, <1>9, <1>10, <1>11,
         <1>12, <1>13, <1>14, <1>15, <1>16, <1>17, <1>18, <1>19, <1>20 DEF Next, Requete, Effacement

(* A code goes with the request that spends it, or is told by the status.    *)
LEMMA CodesGardes == Formes /\ Vierges /\ Codes /\ [Next]_vars => Codes'
<1> SUFFICES ASSUME Formes /\ Vierges /\ Codes, [Next]_vars
             PROVE  Codes'
  OBVIOUS
<1> USE ConstantesRattachement DEF requetes, effacement, histoire, Formes,
         TypeOK, Occupees, Vierges, Creation, Codes, CodesAccordes, NonDepensees,
         Chevauchements, Retours, Renouvellement, CodePerdu, EnBase,
         EstRenouvelable
<1>1. ASSUME NEW r \in Requetes, NEW k \in Vises, Creer(r, k)
      PROVE  Codes'
  BY <1>1 DEF Creer, Commencer
<1>2. ASSUME NEW r \in Requetes, NEW k \in Vises, Completer(r, k)
      PROVE  Codes'
  <2>1. CodesAccordes'
    BY <1>2 DEF Completer, Commencer
  <2>2. Chevauchements'
    <3>1. ASSUME NEW q \in Requetes, cible[q] = k,
                 etape'[r] \in Renouvellement \/ etape[q] \in Renouvellement
          PROVE  k \in troubles'
      <4>1. etape'[r] = "session"
        BY <1>2 DEF Completer, Commencer
      <4>2. etape[q] \in Renouvellement
        BY <3>1, <4>1
      <4>3. \E p \in Requetes : cible[p] = k /\ Renouvellement \cap {"session", etape[p]} # {}
        BY <3>1, <4>2
      <4>4. troubles' = troubles \cup {k}
        BY <1>2, <4>3 DEF Completer, Commencer
      <4> QED
        BY <4>4
    <3>2. /\ troubles \subseteq troubles'
          /\ cible'[r] = k /\ etape[r] = "libre"
          /\ \A q \in Requetes : q # r => cible'[q] = cible[q] /\ etape'[q] = etape[q]
      BY <1>2 DEF Completer, Commencer
    <3> QED
      BY <3>1, <3>2
  <2>3. Retours'
    BY <1>2 DEF Completer, Commencer
  <2> QED
    BY <2>1, <2>2, <2>3
<1>3. ASSUME NEW r \in Requetes, NEW k \in Vises, Renouveler(r, k)
      PROVE  Codes'
  <2>1. CodesAccordes'
    BY <1>3 DEF Renouveler, Commencer, ConsentRenouvelable
  <2>2. Chevauchements'
    <3>1. ASSUME NEW q \in Requetes, cible[q] = k,
                 etape'[r] \in Renouvellement \/ etape[q] \in Renouvellement
          PROVE  k \in troubles'
      BY <1>3, <3>1 DEF Renouveler, Commencer, ConsentRenouvelable
    <3>2. /\ troubles \subseteq troubles'
          /\ cible'[r] = k /\ etape[r] = "libre"
          /\ \A q \in Requetes : q # r => cible'[q] = cible[q] /\ etape'[q] = etape[q]
      BY <1>3 DEF Renouveler, Commencer, ConsentRenouvelable
    <3> QED
      BY <3>1, <3>2
  <2>3. Retours'
    BY <1>3 DEF Renouveler, Commencer, ConsentRenouvelable
  <2> QED
    BY <2>1, <2>2, <2>3
<1>4. ASSUME NEW r \in Requetes, Initier(r)
      PROVE  Codes'
  BY <1>4 DEF Initier, Avancer
<1>5. ASSUME NEW r \in Requetes, EnregistrerInitie(r)
      PROVE  Codes'
  BY <1>5 DEF EnregistrerInitie, Repondre
<1>6. ASSUME NEW r \in Requetes, SessionOuverte(r)
      PROVE  Codes'
  BY <1>6 DEF SessionOuverte, Avancer
<1>7. ASSUME NEW r \in Requetes, SessionRefusee(r)
      PROVE  Codes'
  BY <1>7 DEF SessionRefusee, Avancer
<1>8. ASSUME NEW r \in Requetes, EchecConsentement(r)
      PROVE  Codes'
  BY <1>8 DEF EchecConsentement, Repondre, EcrireStatut
<1>9. ASSUME NEW r \in Requetes, Refuser(r)
      PROVE  Codes'
  BY <1>9 DEF Refuser, Repondre, EcrireStatut
<1>10. ASSUME NEW r \in Requetes, Activer(r)
       PROVE  Codes'
  BY <1>10 DEF Activer, Avancer, MettreAJour
<1>11. ASSUME NEW r \in Requetes, MettreEnAttente(r)
       PROVE  Codes'
  BY <1>11 DEF MettreEnAttente, Repondre, MettreAJour
<1>12. ASSUME NEW r \in Requetes, ListerComptes(r)
       PROVE  Codes'
  BY <1>12 DEF ListerComptes
<1>13. ASSUME NEW r \in Requetes, Verifier(r)
       PROVE  Codes'
  <2>1. /\ UNCHANGED <<consents, autorisation, cible, troubles>>
        /\ etape[r] = "verification" /\ etape'[r] \in {"verification", "refus", "comptes"}
        /\ \A q \in Requetes : q # r => etape'[q] = etape[q]
    BY <1>13 DEF Verifier
  <2>2. CodesAccordes'
    BY <2>1
  <2>3. Chevauchements'
    BY <2>1
  <2>4. Retours'
    <3>1. ASSUME NEW q \in Requetes, etape[q] \in CodePerdu
          PROVE  etape'[q] \in CodePerdu
      BY <2>1, <3>1
    <3> QED
      BY <2>1, <3>1
  <2> QED
    BY <2>2, <2>3, <2>4
<1>14. ASSUME NEW r \in Requetes,
              \/ EnregistrerCompte(r) \/ TerminerCompletion(r)
       PROVE  Codes'
  <2>1. CASE EnregistrerCompte(r)
    BY <2>1 DEF EnregistrerCompte
  <2>2. CASE TerminerCompletion(r)
    <3>1. /\ UNCHANGED <<consents, autorisation, troubles>>
          /\ etape[r] = "comptes" /\ etape'[r] = "libre" /\ cible'[r] = Aucun
          /\ \A q \in Requetes : q # r => cible'[q] = cible[q] /\ etape'[q] = etape[q]
      BY <2>2 DEF TerminerCompletion, Repondre
    <3>2. CodesAccordes'
      <4> SUFFICES ASSUME NEW q \in Requetes, etape'[q] \in {"insertion", "attente"}
                   PROVE  \/ autorisation'[cible'[q]] \in NonDepensees
                          \/ etape'[q] = "attente" /\ cible'[q] \in troubles'
        OBVIOUS
      <4> QED
        BY <3>1
    <3>3. Chevauchements'
      <4> SUFFICES ASSUME NEW p \in Requetes, NEW q \in Requetes, p # q,
                          cible'[p] = cible'[q], etape'[p] \in Renouvellement
                   PROVE  cible'[p] \in troubles'
        OBVIOUS
      <4>1. p # r /\ cible[p] # Aucun
        BY <3>1
      <4>2. q # r
        BY <3>1, <4>1
      <4> QED
        BY <3>1, <4>1, <4>2
    <3>4. Retours'
      <4> SUFFICES ASSUME NEW k \in Consents, consents[k].statut = "pending", k \notin troubles
                   PROVE  \/ autorisation[k] \in NonDepensees
                          \/ EstRenouvelable(k)
                          \/ \E q \in Requetes : cible'[q] = k /\ etape'[q] \in CodePerdu
        BY <3>1
      <4>1. ASSUME NEW q \in Requetes, cible[q] = k, etape[q] \in CodePerdu
            PROVE  cible'[q] = k /\ etape'[q] \in CodePerdu
        BY <3>1, <4>1
      <4> QED
        BY <4>1
    <3> QED
      BY <3>2, <3>3, <3>4
  <2> QED
    BY <1>14, <2>1, <2>2
<1>15. ASSUME NEW r \in Requetes, ErreurRequete(r)
       PROVE  Codes'
  BY <1>15 DEF ErreurRequete, Repondre
<1>16. ASSUME NEW k \in Vises, \/ Accorder(k) \/ Abandonner(k) \/ WorkerLit(k)
       PROVE  Codes'
  <2>1. CASE WorkerLit(k)
    BY <2>1 DEF WorkerLit
  <2>2. CASE Accorder(k) \/ Abandonner(k)
    <3>1. /\ UNCHANGED <<consents, etape, cible, troubles>>
          /\ \A c \in Consents : autorisation[c] \in NonDepensees =>
                                  autorisation'[c] \in NonDepensees
      BY <2>2 DEF Accorder, Abandonner
    <3>2. CodesAccordes'
      <4> SUFFICES ASSUME NEW q \in Requetes, etape[q] \in {"insertion", "attente"}
                   PROVE  \/ autorisation'[cible[q]] \in NonDepensees
                          \/ etape[q] = "attente" /\ cible[q] \in troubles
        BY <3>1
      <4>1. cible[q] \in Consents
        OBVIOUS
      <4> QED
        BY <3>1, <4>1
    <3>3. Chevauchements'
      BY <3>1
    <3>4. Retours'
      BY <3>1
    <3> QED
      BY <3>2, <3>3, <3>4
  <2> QED
    BY <1>16, <2>1, <2>2
<1>17. ASSUME NEW k \in Vises, Vieillir(k)
       PROVE  Codes'
  BY <1>17 DEF Vieillir
<1>18. ASSUME NEW p \in Effacables, RecevoirSuppression(p)
       PROVE  Codes'
  BY <1>18 DEF RecevoirSuppression
<1>19. ASSUME NEW k \in Consents, Revoquer(k)
       PROVE  Codes'
  BY <1>19 DEF Revoquer, RevoquerConsentement
<1>20. CASE WorkerMarqueExpire
  BY <1>20 DEF WorkerMarqueExpire, EcrireStatut
<1>21. CASE SupprimerConsents
  BY <1>21 DEF SupprimerConsents
<1>22. CASE \/ WorkerSynchronise \/ SupprimerComptes
  BY <1>22 DEF WorkerSynchronise, SupprimerComptes
<1>23. CASE \/ ListerActifs \/ EffacementEchoue
  BY <1>23 DEF ListerActifs, EffacementEchoue
<1>24. CASE Panne
  BY <1>24 DEF Panne
<1>25. CASE UNCHANGED vars
  BY <1>25 DEF vars
<1> QED
  BY <1>1, <1>2, <1>3, <1>4, <1>5, <1>6, <1>7, <1>8, <1>9, <1>10, <1>11,
         <1>12, <1>13, <1>14, <1>15, <1>16, <1>17, <1>18, <1>19, <1>20, <1>21,
         <1>22, <1>23, <1>24, <1>25 DEF Next, Requete, Effacement

-------------------------------------------------------------------------------
(* A consent whose accounts are on their way is still so after a step that   *)
(* takes none of its accounts away and leaves its completions alone.         *)
LEMMA TenuReste ==
    ASSUME Formes, NEW k \in Consents, Tenu(k),
           attendus'[k] = attendus[k],
           ComptesDuConsent(k) \subseteq ComptesDuConsent(k)',
           \A r \in Requetes :
              cible[r] = k /\ etape[r] \in Completion =>
                 /\ cible'[r] = cible[r] /\ etape'[r] = etape[r]
                 /\ rendus'[r] = rendus[r] /\ reste'[r] = reste[r]
    PROVE  Tenu(k)'
<1>1. \A r \in Requetes : Apporte(r, k) => Apporte(r, k)'
  BY DEF Apporte, Completion
<1> QED
  BY <1>1 DEF Tenu, Completion

(* Activer empties what is expected, ListerComptes fills it, and the request *)
(* that listed last carries it to the table.                                 *)
LEMMA CompletionsGardees == Formes /\ Completions /\ [Next]_vars => Completions'
<1> SUFFICES ASSUME Formes, Completions, [Next]_vars, NEW c \in Consents,
                    consents'[c].statut = "active", c \notin interrompus'
             PROVE  Tenu(c)'
  BY DEF Completions
<1> USE ConstantesRattachement DEF requetes, effacement, histoire
<1>0. consents[c].statut = "active" /\ c \notin interrompus => Tenu(c)
  BY DEF Completions
<1>1. ASSUME NEW r \in Requetes, NEW k \in Vises, Creer(r, k)
      PROVE  Tenu(c)'
  BY <1>1, <1>0, TenuReste DEF Creer, Commencer, Completion, ComptesDuConsent,
         Formes, TypeOK, Occupees, EnBase
<1>2. ASSUME NEW r \in Requetes, NEW k \in Vises,
             \/ Completer(r, k) \/ Renouveler(r, k)
      PROVE  Tenu(c)'
  BY <1>2, <1>0, TenuReste DEF Completer, Renouveler, Commencer,
         ConsentRenouvelable, Completion, ComptesDuConsent, Formes, TypeOK,
         Occupees, EnBase
<1>3. ASSUME NEW r \in Requetes,
             \/ Initier(r) \/ SessionOuverte(r) \/ SessionRefusee(r)
      PROVE  Tenu(c)'
  BY <1>3, <1>0, TenuReste DEF Initier, SessionOuverte, SessionRefusee, Avancer,
         Completion, ComptesDuConsent, Formes, TypeOK, Occupees, EnBase
<1>4. ASSUME NEW r \in Requetes, EnregistrerInitie(r)
      PROVE  Tenu(c)'
  BY <1>4, <1>0, TenuReste DEF EnregistrerInitie, Repondre, Completion,
         ComptesDuConsent, Formes, TypeOK, Occupees, EnBase
<1>5. ASSUME NEW r \in Requetes, EchecConsentement(r)
      PROVE  Tenu(c)'
  BY <1>5, <1>0, TenuReste DEF EchecConsentement, Repondre, EcrireStatut,
         Completion, ComptesDuConsent, Formes, TypeOK, Occupees, EnBase
<1>6. ASSUME NEW r \in Requetes, Refuser(r)
      PROVE  Tenu(c)'
  BY <1>6, <1>0, TenuReste DEF Refuser, Repondre, EcrireStatut, Completion,
         ComptesDuConsent, Formes, TypeOK, Occupees, EnBase
<1>7. ASSUME NEW r \in Requetes, MettreEnAttente(r)
      PROVE  Tenu(c)'
  BY <1>7, <1>0, TenuReste DEF MettreEnAttente, Repondre, MettreAJour,
         Completion, ComptesDuConsent, Formes, TypeOK, Occupees, EnBase
<1>8. ASSUME NEW r \in Requetes, Activer(r)
      PROVE  Tenu(c)'
  <2>1. CASE cible[r] = c
    BY <1>8, <2>1 DEF Activer, Avancer, Tenu, Formes, TypeOK
  <2>2. CASE cible[r] # c
    <3>1. consents[c].statut = "active" /\ c \notin interrompus
      BY <1>8, <2>2 DEF Activer, MettreAJour, Formes, TypeOK
    <3> QED
      BY <1>8, <2>2, <3>1, <1>0, TenuReste DEF Activer, Avancer, Completion, ComptesDuConsent,
         Formes, TypeOK
  <2> QED
    BY <2>1, <2>2
<1>9. ASSUME NEW r \in Requetes, ListerComptes(r)
      PROVE  Tenu(c)'
  <2>0. Tenu(c)
    BY <1>9, <1>0 DEF ListerComptes
  <2>1. CASE cible[r] = c
    <3>1. PICK S \in SUBSET Externes :
             /\ rendus' = [rendus EXCEPT ![r] = S]
             /\ attendus' = [attendus EXCEPT ![cible[r]] = S]
             /\ etape' = [etape EXCEPT ![r] = IF S = {} THEN "comptes" ELSE "verification"]
      BY <1>9 DEF ListerComptes
    <3>2. attendus'[c] = S /\ rendus'[r] = S /\ cible'[r] = c
      BY <1>9, <2>1, <3>1 DEF ListerComptes, Formes, TypeOK
    <3>3. CASE S = {}
      BY <3>2, <3>3 DEF Tenu
    <3>4. CASE S # {}
      <4>1. etape'[r] = "verification"
        BY <3>1, <3>4 DEF Formes, TypeOK
      <4>2. Apporte(r, c)'
        BY <3>2, <4>1 DEF Apporte
      <4> QED
        BY <4>2 DEF Tenu
    <3> QED
      BY <3>3, <3>4
  <2>2. CASE cible[r] # c
    <3>1. attendus'[c] = attendus[c]
      BY <1>9, <2>2 DEF ListerComptes, Formes, TypeOK
    <3>2. \A q \in Requetes : q # r =>
             /\ cible'[q] = cible[q] /\ etape'[q] = etape[q]
             /\ rendus'[q] = rendus[q] /\ reste'[q] = reste[q]
      BY <1>9 DEF ListerComptes, Formes, TypeOK
    <3>3. ComptesDuConsent(c)' = ComptesDuConsent(c)
      BY <1>9 DEF ListerComptes, ComptesDuConsent
    <3> QED
      BY <2>0, <2>2, <3>1, <3>2, <3>3, TenuReste
  <2> QED
    BY <2>1, <2>2
<1>10. ASSUME NEW r \in Requetes, Verifier(r)
       PROVE  Tenu(c)'
  <2>0. Tenu(c)
    BY <1>10, <1>0 DEF Verifier
  <2>1. \A q \in Requetes : q # r =>
           /\ cible'[q] = cible[q] /\ etape'[q] = etape[q]
           /\ rendus'[q] = rendus[q] /\ reste'[q] = reste[q]
    BY <1>10 DEF Verifier, Formes, TypeOK
  <2>2. attendus' = attendus /\ ComptesDuConsent(c)' = ComptesDuConsent(c)
    BY <1>10 DEF Verifier, ComptesDuConsent
  <2>3. Apporte(r, c) => Apporte(r, c)'
    <3> SUFFICES ASSUME Apporte(r, c)
                 PROVE  Apporte(r, c)'
      OBVIOUS
    <3>1. cible'[r] = c /\ rendus'[r] = rendus[r] /\ rendus[r] = attendus[c]
      BY <1>10 DEF Verifier, Apporte
    <3>2. PICK x \in reste[r] :
             \/ etape' = [etape EXCEPT ![r] = "refus"]
             \/ /\ etape' = [etape EXCEPT ![r] = "comptes"]
                /\ reste' = [reste EXCEPT ![r] = rendus[r]]
             \/ UNCHANGED etape
      BY <1>10 DEF Verifier
    <3>3. \/ etape'[r] \in {"verification", "refus"}
          \/ etape'[r] = "comptes" /\ reste'[r] = rendus[r]
      BY <1>10, <3>2 DEF Verifier, Formes, TypeOK
    <3> QED
      BY <2>2, <3>1, <3>3 DEF Apporte
  <2>4. \A q \in Requetes : Apporte(q, c) => Apporte(q, c)'
    BY <2>1, <2>2, <2>3 DEF Apporte
  <2> QED
    BY <2>0, <2>1, <2>2, <2>4 DEF Tenu
<1>11. ASSUME NEW r \in Requetes, EnregistrerCompte(r)
       PROVE  Tenu(c)'
  <2>0. Tenu(c)
    BY <1>11, <1>0 DEF EnregistrerCompte
  <2>1. PICK x \in reste[r] : /\ comptes' = comptes \cup {<<cible[r], x>>}
                             /\ reste' = [reste EXCEPT ![r] = @ \ {x}]
    BY <1>11 DEF EnregistrerCompte
  <2>2. /\ attendus' = attendus /\ etape' = etape /\ cible' = cible /\ rendus' = rendus
        /\ ComptesDuConsent(c) \subseteq ComptesDuConsent(c)'
    BY <1>11, <2>1 DEF EnregistrerCompte, ComptesDuConsent
  <2>3. Apporte(r, c) => Apporte(r, c)'
    <3> SUFFICES ASSUME Apporte(r, c)
                 PROVE  Apporte(r, c)'
      OBVIOUS
    <3>1. cible[r] = c /\ etape[r] = "comptes" /\ attendus[c] \ reste[r] \subseteq ComptesDuConsent(c)
      BY <1>11 DEF EnregistrerCompte, Apporte
    <3>2. x \in Externes /\ x \in ComptesDuConsent(c)'
      BY <2>1, <3>1 DEF ComptesDuConsent, Formes, TypeOK
    <3>3. reste'[r] = reste[r] \ {x}
      BY <2>1 DEF Formes, TypeOK
    <3> QED
      BY <2>2, <3>1, <3>2, <3>3 DEF Apporte
  <2>4. \A q \in Requetes : q # r => reste'[q] = reste[q]
    BY <2>1 DEF Formes, TypeOK
  <2>5. \A q \in Requetes : Apporte(q, c) => Apporte(q, c)'
    BY <2>2, <2>3, <2>4 DEF Apporte
  <2> QED
    BY <2>0, <2>2, <2>5 DEF Tenu
<1>12. ASSUME NEW r \in Requetes, TerminerCompletion(r)
       PROVE  Tenu(c)'
  <2>0. Tenu(c)
    BY <1>12, <1>0 DEF TerminerCompletion
  <2>1. Apporte(r, c) => attendus[c] \subseteq ComptesDuConsent(c)
    BY <1>12 DEF TerminerCompletion, Apporte
  <2>2. /\ attendus' = attendus /\ ComptesDuConsent(c)' = ComptesDuConsent(c)
        /\ etape[r] = "comptes"
        /\ \A q \in Requetes : q # r =>
              /\ cible'[q] = cible[q] /\ etape'[q] = etape[q]
              /\ rendus'[q] = rendus[q] /\ reste'[q] = reste[q]
    BY <1>12 DEF TerminerCompletion, Repondre, ComptesDuConsent, Formes, TypeOK
  <2>3. \A q \in Requetes : q # r /\ Apporte(q, c) => Apporte(q, c)'
    BY <2>2 DEF Apporte
  <2> QED
    BY <2>0, <2>1, <2>2, <2>3 DEF Tenu
<1>13. ASSUME NEW r \in Requetes, ErreurRequete(r)
       PROVE  Tenu(c)'
  BY <1>13, <1>0, TenuReste DEF ErreurRequete, Repondre, Completion,
         ComptesDuConsent, Formes, TypeOK, Occupees, EnBase
<1>14. ASSUME NEW k \in Vises,
             \/ Accorder(k) \/ Abandonner(k) \/ WorkerLit(k) \/ Vieillir(k)
       PROVE  Tenu(c)'
  BY <1>14, <1>0, TenuReste DEF Accorder, Abandonner, WorkerLit, Vieillir, Completion,
         ComptesDuConsent, Formes, TypeOK, Occupees, EnBase
<1>15. ASSUME NEW p \in Effacables, RecevoirSuppression(p)
       PROVE  Tenu(c)'
  BY <1>15, <1>0, TenuReste DEF RecevoirSuppression, Completion,
         ComptesDuConsent, Formes, TypeOK, Occupees, EnBase
<1>16. ASSUME NEW k \in Consents, Revoquer(k)
       PROVE  Tenu(c)'
  BY <1>16, <1>0, TenuReste DEF Revoquer, RevoquerConsentement, Completion,
         ComptesDuConsent, Formes, TypeOK, Occupees, EnBase
<1>17. CASE WorkerMarqueExpire
  BY <1>17, <1>0, TenuReste DEF WorkerMarqueExpire, EcrireStatut, Completion,
         ComptesDuConsent, Formes, TypeOK, Occupees, EnBase
<1>18. CASE SupprimerComptes
  BY <1>18, <1>0, TenuReste DEF SupprimerComptes, Completion, ComptesDuConsent,
         Formes, TypeOK, Occupees, EnBase, ConsentsDe
<1>19. CASE SupprimerConsents
  BY <1>19, <1>0, TenuReste DEF SupprimerConsents, Completion, ComptesDuConsent,
         Formes, TypeOK, Occupees, EnBase
<1>20. CASE \/ WorkerSynchronise \/ ListerActifs \/ EffacementEchoue
  BY <1>20, <1>0, TenuReste DEF WorkerSynchronise, ListerActifs,
         EffacementEchoue, Completion, ComptesDuConsent, Formes, TypeOK,
         Occupees, EnBase
<1>21. CASE Panne
  BY <1>21, <1>0 DEF Panne, Tenu, Apporte, Completion, ComptesDuConsent
<1>22. CASE UNCHANGED vars
  BY <1>22, <1>0, TenuReste DEF vars, Completion, ComptesDuConsent, Formes,
         TypeOK, Occupees, EnBase
<1> QED
  BY <1>1, <1>2, <1>3, <1>4, <1>5, <1>6, <1>7, <1>8, <1>9, <1>10, <1>11,
         <1>12, <1>13, <1>14, <1>15, <1>16, <1>17, <1>18, <1>19, <1>20, <1>21,
         <1>22 DEF Next, Requete, Effacement


-------------------------------------------------------------------------------
(* The requests are those of one owner.                                      *)
UnSeulVisiteur == \A k, l \in Vises : ProprietaireDe[k] = ProprietaireDe[l]

(* A check holds as long as the only rows to come are those of consents that *)
(* the requests touch, which are of the same owner.                          *)
LEMMA LibreReste ==
    ASSUME UnSeulVisiteur, NEW x \in Externes, NEW k \in Vises,
           ~ProprietaireConcurrent(x, ProprietaireDe[k]),
           \A a \in comptes' : a \in comptes \/ a[1] \in Vises
    PROVE  ~ProprietaireConcurrent(x, ProprietaireDe[k])'
BY DEF UnSeulVisiteur, ProprietaireConcurrent

LEMMA VerifieReste ==
    ASSUME Formes, UnSeulVisiteur, NEW r \in Requetes, Verifie(r),
           \A a \in comptes' : a \in comptes \/ a[1] \in Vises,
           cible'[r] = cible[r], etape'[r] = etape[r],
           rendus'[r] = rendus[r], reste'[r] = reste[r]
    PROVE  Verifie(r)'
<1>1. CASE etape[r] \notin {"verification", "comptes"}
  BY <1>1 DEF Verifie
<1>2. CASE etape[r] \in {"verification", "comptes"}
  <2>1. cible[r] \in Vises
    BY <1>2 DEF Formes, Occupees, Verifie
  <2>2. rendus[r] \subseteq Externes
    BY DEF Formes, TypeOK
  <2>3. \A x \in Externes :
           ~ProprietaireConcurrent(x, ProprietaireDe[cible[r]])
             => ~ProprietaireConcurrent(x, ProprietaireDe[cible[r]])'
    BY <2>1, LibreReste
  <2> QED
    BY <1>2, <2>1, <2>2, <2>3 DEF Verifie
<1> QED
  BY <1>1, <1>2

(* No step of the requests of one owner breaks a check that was done, nor    *)
(* gives an account a second owner.                                          *)
LEMMA UniciteGardee ==
    ASSUME Formes, Unicite, UnSeulVisiteur, [Next]_vars
    PROVE  Unicite'
<1> USE ConstantesRattachement DEF requetes, effacement, histoire
<1>1. ASSUME NEW r \in Requetes, NEW k \in Vises,
             \/ Creer(r, k) \/ Completer(r, k) \/ Renouveler(r, k)
      PROVE  Unicite'
  <2>1. UNCHANGED comptes /\ \A q \in Requetes : q # r => Verifie(q)'
    <3>1. UNCHANGED comptes /\ \A q \in Requetes : q # r =>
             /\ cible'[q] = cible[q] /\ etape'[q] = etape[q]
             /\ rendus'[q] = rendus[q] /\ reste'[q] = reste[q]
      BY <1>1 DEF Creer, Completer, Renouveler, Commencer, ConsentRenouvelable,
         Formes, TypeOK
    <3> QED
      BY <3>1, VerifieReste DEF Unicite
  <2>2. Verifie(r)'
    BY <1>1 DEF Creer, Completer, Renouveler, Commencer, ConsentRenouvelable,
         Formes, TypeOK, Occupees, Unicite, Verifie
  <2> QED
    BY <2>1, <2>2 DEF Unicite, UnSeulProprietaire
<1>2. ASSUME NEW r \in Requetes,
             \/ Initier(r) \/ SessionOuverte(r) \/ SessionRefusee(r)
      PROVE  Unicite'
  <2>1. UNCHANGED comptes /\ \A q \in Requetes : q # r => Verifie(q)'
    <3>1. UNCHANGED comptes /\ \A q \in Requetes : q # r =>
             /\ cible'[q] = cible[q] /\ etape'[q] = etape[q]
             /\ rendus'[q] = rendus[q] /\ reste'[q] = reste[q]
      BY <1>2 DEF Initier, SessionOuverte, SessionRefusee, Avancer, Formes,
         TypeOK
    <3> QED
      BY <3>1, VerifieReste DEF Unicite
  <2>2. Verifie(r)'
    BY <1>2 DEF Initier, SessionOuverte, SessionRefusee, Avancer, Formes,
         TypeOK, Occupees, Unicite, Verifie
  <2> QED
    BY <2>1, <2>2 DEF Unicite, UnSeulProprietaire
<1>3. ASSUME NEW r \in Requetes,
             \/ EnregistrerInitie(r) \/ EchecConsentement(r)
             \/ Refuser(r)
      PROVE  Unicite'
  <2>1. UNCHANGED comptes /\ \A q \in Requetes : q # r => Verifie(q)'
    <3>1. UNCHANGED comptes /\ \A q \in Requetes : q # r =>
             /\ cible'[q] = cible[q] /\ etape'[q] = etape[q]
             /\ rendus'[q] = rendus[q] /\ reste'[q] = reste[q]
      BY <1>3 DEF EnregistrerInitie, EchecConsentement, Refuser, Repondre,
         EcrireStatut, Formes, TypeOK
    <3> QED
      BY <3>1, VerifieReste DEF Unicite
  <2>2. Verifie(r)'
    BY <1>3 DEF EnregistrerInitie, EchecConsentement, Refuser, Repondre,
         EcrireStatut, Formes, TypeOK, Occupees, Unicite, Verifie
  <2> QED
    BY <2>1, <2>2 DEF Unicite, UnSeulProprietaire
<1>4. ASSUME NEW r \in Requetes, MettreEnAttente(r)
      PROVE  Unicite'
  <2>1. UNCHANGED comptes /\ \A q \in Requetes : q # r => Verifie(q)'
    <3>1. UNCHANGED comptes /\ \A q \in Requetes : q # r =>
             /\ cible'[q] = cible[q] /\ etape'[q] = etape[q]
             /\ rendus'[q] = rendus[q] /\ reste'[q] = reste[q]
      BY <1>4 DEF MettreEnAttente, Repondre, MettreAJour, Formes, TypeOK
    <3> QED
      BY <3>1, VerifieReste DEF Unicite
  <2>2. Verifie(r)'
    BY <1>4 DEF MettreEnAttente, Repondre, MettreAJour, Formes, TypeOK,
         Occupees, Unicite, Verifie
  <2> QED
    BY <2>1, <2>2 DEF Unicite, UnSeulProprietaire
<1>5. ASSUME NEW r \in Requetes, Activer(r)
      PROVE  Unicite'
  <2>1. UNCHANGED comptes /\ \A q \in Requetes : q # r => Verifie(q)'
    <3>1. UNCHANGED comptes /\ \A q \in Requetes : q # r =>
             /\ cible'[q] = cible[q] /\ etape'[q] = etape[q]
             /\ rendus'[q] = rendus[q] /\ reste'[q] = reste[q]
      BY <1>5 DEF Activer, Avancer, MettreAJour, Formes, TypeOK
    <3> QED
      BY <3>1, VerifieReste DEF Unicite
  <2>2. Verifie(r)'
    BY <1>5 DEF Activer, Avancer, MettreAJour, Formes, TypeOK, Occupees,
         Unicite, Verifie
  <2> QED
    BY <2>1, <2>2 DEF Unicite, UnSeulProprietaire
<1>6. ASSUME NEW r \in Requetes, ListerComptes(r)
      PROVE  Unicite'
  <2>1. UNCHANGED comptes /\ \A q \in Requetes : q # r => Verifie(q)'
    <3>1. UNCHANGED comptes /\ \A q \in Requetes : q # r =>
             /\ cible'[q] = cible[q] /\ etape'[q] = etape[q]
             /\ rendus'[q] = rendus[q] /\ reste'[q] = reste[q]
      BY <1>6 DEF ListerComptes, Formes, TypeOK
    <3> QED
      BY <3>1, VerifieReste DEF Unicite
  <2>2. Verifie(r)'
    BY <1>6 DEF ListerComptes, Formes, TypeOK, Occupees, Unicite, Verifie
  <2> QED
    BY <2>1, <2>2 DEF Unicite, UnSeulProprietaire
<1>7. ASSUME NEW r \in Requetes, Verifier(r)
      PROVE  Unicite'
  <2>1. UNCHANGED comptes /\ \A q \in Requetes : q # r => Verifie(q)'
    <3>1. UNCHANGED comptes /\ \A q \in Requetes : q # r =>
             /\ cible'[q] = cible[q] /\ etape'[q] = etape[q]
             /\ rendus'[q] = rendus[q] /\ reste'[q] = reste[q]
      BY <1>7 DEF Verifier, Formes, TypeOK
    <3> QED
      BY <3>1, VerifieReste DEF Unicite
  <2>2. Verifie(r)'
    <3> DEFINE k == cible[r]
    <3>0. etape[r] = "verification" /\ UNCHANGED <<cible, rendus, comptes>>
      BY <1>7 DEF Verifier
    <3>1. /\ k \in Vises
          /\ \A y \in rendus[r] \ reste[r] : ~ProprietaireConcurrent(y, ProprietaireDe[k])
      BY <3>0 DEF Formes, Occupees, Unicite, Verifie
    <3>2. PICK x \in reste[r] :
            \/ etape'[r] = "refus"
            \/ /\ ~ProprietaireConcurrent(x, ProprietaireDe[k])
               /\ reste[r] = {x} /\ etape'[r] = "comptes" /\ reste'[r] = rendus[r]
            \/ /\ ~ProprietaireConcurrent(x, ProprietaireDe[k])
               /\ etape'[r] = "verification" /\ reste'[r] = reste[r] \ {x}
      BY <1>7 DEF Verifier, Formes, TypeOK
    <3>3. \A y : ProprietaireConcurrent(y, ProprietaireDe[k])'
                   <=> ProprietaireConcurrent(y, ProprietaireDe[k])
      BY <3>0 DEF ProprietaireConcurrent
    <3>4. \A y \in rendus[r] : ProprietaireConcurrent(y, ProprietaireDe[k]) => y \in reste[r] \ {x} \/ etape'[r] = "refus"
      BY <3>1, <3>2
    <3> QED
      BY <3>0, <3>1, <3>2, <3>3, <3>4 DEF Verifie
  <2> QED
    BY <2>1, <2>2 DEF Unicite, UnSeulProprietaire
<1>8. ASSUME NEW r \in Requetes, EnregistrerCompte(r)
      PROVE  Unicite'
  <2>1. PICK x \in reste[r] : /\ comptes' = comptes \cup {<<cible[r], x>>}
                             /\ reste' = [reste EXCEPT ![r] = @ \ {x}]
    BY <1>8 DEF EnregistrerCompte
  <2>2. /\ etape[r] = "comptes" /\ cible[r] \in Vises /\ x \in Externes
        /\ ~ProprietaireConcurrent(x, ProprietaireDe[cible[r]])
    BY <1>8 DEF EnregistrerCompte, Formes, TypeOK, Occupees, Unicite, Verifie
  <2>3. UnSeulProprietaire'
    <3>1. ASSUME NEW a \in comptes, a[2] = x
          PROVE  ProprietaireDe[a[1]] = ProprietaireDe[cible[r]]
      <4> DEFINE k == a[1]
      <4>1. k \in Consents /\ a = <<k, x>>
        BY <3>1 DEF Formes, TypeOK
      <4>2. <<k, x>> \in comptes
        BY <3>1, <4>1
      <4> HIDE DEF k
      <4>3. ProprietaireDe[k] = ProprietaireDe[cible[r]]
        BY <2>2, <4>1, <4>2 DEF ProprietaireConcurrent
      <4> QED
        BY <4>3 DEF k
    <3> QED
      BY <2>1, <3>1 DEF Unicite, UnSeulProprietaire
  <2>4. \A a \in comptes' : a \in comptes \/ a[1] \in Vises
    BY <2>1, <2>2
  <2>5. ASSUME NEW q \in Requetes, q # r
        PROVE  Verifie(q)'
    BY <1>8, <2>1, <2>4, <2>5, VerifieReste DEF EnregistrerCompte, Formes, TypeOK, Unicite
  <2>6. Verifie(r)'
    <3>0. \A y \in rendus[r] :
             y \in Externes /\ ~ProprietaireConcurrent(y, ProprietaireDe[cible[r]])
      BY <2>2 DEF Unicite, Verifie, Formes, TypeOK
    <3>1. cible' = cible /\ etape' = etape /\ rendus' = rendus
      BY <1>8 DEF EnregistrerCompte
    <3>2. \A y \in rendus[r] : ~ProprietaireConcurrent(y, ProprietaireDe[cible[r]])'
      BY <2>2, <2>4, <3>0, <3>1, LibreReste
    <3> QED
      BY <2>1, <2>2, <3>1, <3>2 DEF Unicite, Verifie, Formes, TypeOK
  <2> QED
    BY <2>3, <2>5, <2>6 DEF Unicite
<1>9. ASSUME NEW r \in Requetes, \/ TerminerCompletion(r) \/ ErreurRequete(r)
      PROVE  Unicite'
  <2>1. UNCHANGED comptes /\ \A q \in Requetes : q # r => Verifie(q)'
    <3>1. UNCHANGED comptes /\ \A q \in Requetes : q # r =>
             /\ cible'[q] = cible[q] /\ etape'[q] = etape[q]
             /\ rendus'[q] = rendus[q] /\ reste'[q] = reste[q]
      BY <1>9 DEF TerminerCompletion, ErreurRequete, Repondre, Formes, TypeOK
    <3> QED
      BY <3>1, VerifieReste DEF Unicite
  <2>2. Verifie(r)'
    BY <1>9 DEF TerminerCompletion, ErreurRequete, Repondre, Formes, TypeOK,
         Occupees, Unicite, Verifie
  <2> QED
    BY <2>1, <2>2 DEF Unicite, UnSeulProprietaire
<1>10. ASSUME NEW k \in Vises,
             \/ Accorder(k) \/ Abandonner(k) \/ WorkerLit(k) \/ Vieillir(k)
       PROVE  Unicite'
  BY <1>10, VerifieReste DEF Accorder, Abandonner, WorkerLit, Vieillir, Unicite, UnSeulProprietaire
<1>11. ASSUME NEW p \in Effacables, RecevoirSuppression(p)
       PROVE  Unicite'
  BY <1>11, VerifieReste DEF RecevoirSuppression, Unicite, UnSeulProprietaire
<1>12. ASSUME NEW k \in Consents, Revoquer(k)
       PROVE  Unicite'
  BY <1>12, VerifieReste DEF Revoquer, RevoquerConsentement, Unicite,
         UnSeulProprietaire
<1>13. CASE \/ WorkerMarqueExpire \/ WorkerSynchronise \/ ListerActifs
            \/ EffacementEchoue
  BY <1>13, VerifieReste DEF WorkerMarqueExpire, WorkerSynchronise, ListerActifs,
         EffacementEchoue, EcrireStatut, Unicite, UnSeulProprietaire
<1>14. CASE \/ SupprimerComptes \/ SupprimerConsents
  BY <1>14, VerifieReste DEF SupprimerComptes, SupprimerConsents, Unicite,
         UnSeulProprietaire
<1>15. CASE Panne
  BY <1>15 DEF Panne, Unicite, UnSeulProprietaire, Verifie
<1>16. CASE UNCHANGED vars
  BY <1>16, VerifieReste DEF vars, Unicite, UnSeulProprietaire
<1> QED
  BY <1>1, <1>2, <1>3, <1>4, <1>5, <1>6, <1>7, <1>8, <1>9, <1>10, <1>11,
         <1>12, <1>13, <1>14, <1>15, <1>16 DEF Next, Requete, Effacement


-------------------------------------------------------------------------------
(* The base, empty or with the rows of a former owner, as the process starts. *)
LEMMA InvariantInitial == Init => Invariant
<1> SUFFICES ASSUME Init
             PROVE  Invariant
  OBVIOUS
<1>0. comptes \subseteq Consents \X Externes
  BY ConstantesRattachement DEF Init
<1>1. Formes
  BY <1>0, ConstantesRattachement
     DEF Init, Formes, TypeOK, Occupees, Statuts, Echeances, Etapes, Autorisations,
         ComptesDuConsent
<1>2. Tables
  BY <1>1 DEF Init, Tables, Insertions, Vierges, Creation, Rattaches, EnBase, ComptesDuConsent
<1>3. Completions /\ Codes /\ Revocations
  BY DEF Init, Completions, Codes, CodesAccordes, Chevauchements, Renouvellement, Retours,
         Revocations
<1> QED
  BY <1>1, <1>2, <1>3 DEF Invariant

(* Each part needs the shapes, and some the consents that are not rows yet.  *)
LEMMA InvariantGarde == Invariant /\ [Next]_vars => Invariant'
BY FormesGardees, TablesGardees, CompletionsGardees, CodesGardes, RevocationsGardees
   DEF Invariant, Tables

(* The inductive invariant of the life of the consents (banques.rs,          *)
(* synchro.rs, effacement.rs).                                               *)
THEOREM InvariantDesConsents == Spec => []Invariant
BY InvariantInitial, InvariantGarde, PTL DEF Spec

(* Every variable keeps its type.                                            *)
THEOREM TypesDesConsents == Spec => []TypeOK
<1>1. Invariant => TypeOK
  BY DEF Invariant, Formes
<1> QED
  BY <1>1, InvariantDesConsents, PTL

(* A completion that was not cut short leaves all the accounts the bank      *)
(* returned for the consent, none included (complete_consent,                *)
(* banques.rs:124-177).                                                      *)
THEOREM ConsentActifComplet == Spec => []ActifComplet
<1>1. Invariant => ActifComplet
  BY DEF Invariant, Completions, Tenu, Apporte, ActifComplet, Completion
<1> QED
  BY <1>1, InvariantDesConsents, PTL

(* A completion is refused before its first INSERT (banques.rs:107-125).     *)
THEOREM RefuseEnBloc == Spec => []RefusEnBloc
<1>1. Invariant => RefusEnBloc
  BY DEF Invariant, Tables, Insertions, RefusEnBloc
<1> QED
  BY <1>1, InvariantDesConsents, PTL

(* No statement leaves a pending consent nobody works on with a spent code   *)
(* and no renewal, but for the exceptions VoieDeRetour names: lost requests  *)
(* and overlapping renewals (banques.rs:94-124, 185-205).                    *)
THEOREM ToujoursUneVoieDeRetour == Spec => []VoieDeRetour
<1>1. Invariant => VoieDeRetour
  BY DEF Invariant, Formes, TypeOK, Codes, Retours, VoieDeRetour
<1> QED
  BY <1>1, InvariantDesConsents, PTL

(* Neither a handler nor the worker revives a consent the erasure has        *)
(* deleted (repository/consents.rs, effacement.rs:81-89).                    *)
THEOREM ConsentEffaceDefinitif == Spec => EffaceDefinitif
<1>1. ASSUME Invariant, [Next]_vars
      PROVE  \A k \in Consents :
               consents[k].statut = "supprime"
                 => /\ consents'[k].statut = "supprime"
                    /\ ComptesDuConsent(k)' = {}
  <2>1. \A k \in Consents : consents[k].statut = "supprime" => consents'[k].statut = "supprime"
    BY <1>1, VieDUnStatut DEF Invariant, Tables, Passage, EnBase
  <2>2. Rattaches'
    BY <1>1, InvariantGarde DEF Invariant, Tables
  <2> QED
    BY <2>1, <2>2 DEF Rattaches, EnBase
<1> QED
  BY <1>1, InvariantDesConsents, PTL DEF Spec, EffaceDefinitif

(* The erasure forgets no session it has not asked the bank to end, but      *)
(* those activated after its listing (effacement.rs:60-89).                  *)
THEOREM RevoqueAvantDeSupprimer == Spec => RevocationAvantSuppression
<1>1. ASSUME Invariant, [Next]_vars
      PROVE  \A k \in Consents :
               consents[k].statut = "active" /\ consents'[k].statut = "supprime"
                 => k \in demandes \/ k \in tardifs
  BY <1>1, VieDUnStatut DEF Invariant, Tables, Passage, Revocations, EnBase
<1> QED
  BY <1>1, InvariantDesConsents, PTL DEF Spec, RevocationAvantSuppression

(* An account has one owner as long as the requests are those of one owner:  *)
(* a row another owner had before is enough for the refusal (banques.rs:107, *)
(* incident_compte_dun_autre.rs:273).  Two owners at once may both pass the  *)
(* check.                                                                    *)
THEOREM UnSeulProprietaireParVisiteur ==
    ASSUME UnSeulVisiteur,
           \A a, b \in Anterieurs : a[2] = b[2] => ProprietaireDe[a[1]] = ProprietaireDe[b[1]]
    PROVE  Spec => []UnSeulProprietaire
<1>1. Init => Unicite
  BY DEF Init, Unicite, UnSeulProprietaire, Verifie
<1>2. Formes /\ Unicite /\ [Next]_vars => Unicite'
  BY UniciteGardee
<1>3. Invariant => Formes
  BY DEF Invariant
<1>4. Unicite => UnSeulProprietaire
  BY DEF Unicite
<1> QED
  BY <1>1, <1>2, <1>3, <1>4, InvariantDesConsents, PTL DEF Spec

===============================================================================
