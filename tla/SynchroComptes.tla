---------------------------- MODULE SynchroComptes ----------------------------
(***************************************************************************)
(* The background synchronisation of the bank accounts: the worker loop    *)
(* (worker/synchro.rs), the domain service it runs (domain/synchro.rs) and *)
(* the two SQL statements that plan the accounts                           *)
(* (repository/bank_accounts.rs, lister_comptes_echeants and               *)
(* reserver_creneau).  Every statement and every bank call is one step;    *)
(* the HTTP handlers, the erasure handler and the clock interleave.        *)
(*                                                                         *)
(* An account is a row of budgy.bank_account, a consent a row of           *)
(* budgy.consent.  A NULL next_sync_at is the instant 0 and a NULL         *)
(* last_sync_day the day 0 with a zero counter: the SQL treats them alike. *)
(***************************************************************************)
EXTENDS Naturals, FiniteSets

CONSTANTS
    Comptes,        \* the rows of budgy.bank_account that ever exist
    Consents,       \* the rows of budgy.consent
    ConsentDe,      \* bank_account.consent_id
    Proprietaires,  \* the values of owner_id
    ProprietaireDe, \* consent.owner_id
    Personne,       \* no account under way
    Quota,          \* ParametresSynchro.quota_journalier
    Intervalle,     \* ParametresSynchro.intervalle
    Validite,       \* lifetime the bank gives to an authorisation
    Marge,          \* ParametresSynchro.marge_renouvellement
    DureeJour,      \* length of a UTC day, in units of the clock
    Horizon,        \* bound: last instant of the clock
    MaxEcritures,   \* bound: statements the HTTP handlers run on consents
    MaxArrets       \* bound: stops and crashes of the process

ASSUME ConstantesSynchro ==
    /\ ConsentDe \in [Comptes -> Consents]
    /\ ProprietaireDe \in [Consents -> Proprietaires]
    /\ Personne \notin Comptes
    /\ Quota \in Nat
    /\ Intervalle \in Nat \ {0}
    /\ Validite \in Nat
    /\ Marge \in Nat
    /\ DureeJour \in Nat \ {0}
    /\ Horizon \in Nat
    /\ MaxEcritures \in Nat
    /\ MaxArrets \in Nat

(* DateTime::date_naive: the UTC day of an instant. *)
Jour(t) == t \div DureeJour

Jours == 0 .. Horizon

Statuts == {"pending", "active", "expired", "failed", "supprime"}

Etapes == {"eteint", "attente", "boucle", "debut", "renouvellement", "solde",
           "transactions", "pub_solde", "pub_transactions", "pub_succes", "marquage",
           "pub_expiration"}

(* TypeEvenementSynchro: five events about an account, two about its       *)
(* consent.                                                                *)
Evenements == {"started", "balance", "transactions", "succeeded", "failed",
               "renewal_required", "consent_expired"}

(* The bank answers that remonter_donnees turns into an error. *)
Refus == {"consentement_invalide", "autre"}

VARIABLES
    temps,          \* the system clock
    consents,       \* budgy.consent: status and expires_at
    comptes,        \* budgy.bank_account: existence and planning columns
    etape,          \* program counter of the worker task
    maintenant,     \* the instant read once at the start of the cycle
    reste,          \* accounts listed by the cycle and not begun yet
    courant,        \* the account being synchronised, or Personne
    vus,            \* the consents as the listing returned them
    solde,          \* RemonteeCompte.solde_mis_a_jour of the account under way
    annonces,       \* per account, the events published for its last sync
    appels,         \* per account and day of the cycle, the syncs sent to the bank
    appelsCalendaires, \* the same, by the day the call really happens
    appelsPerimes,  \* per account, syncs since its consent left "active"
    orphelins,      \* accounts whose sync a crash interrupted
    ecritures,      \* statements run by the handlers so far
    arrets          \* stops and crashes so far

compteurs == <<appels, appelsCalendaires, appelsPerimes>>
bornes == <<ecritures, arrets>>
vars == <<temps, consents, comptes, etape, maintenant, reste, courant, vus,
          solde, annonces, appels, appelsCalendaires, appelsPerimes, orphelins,
          ecritures, arrets>>

Consent == [statut : Statuts, expire : Nat]
Ligne == [ligne : {"future", "presente", "supprimee"},
          prochaine : Nat, jour : Nat, nb : 0 .. Quota]

TypeOK ==
    /\ temps \in 0 .. Horizon
    /\ consents \in [Consents -> Consent]
    /\ comptes \in [Comptes -> Ligne]
    /\ etape \in Etapes
    /\ maintenant \in 0 .. Horizon
    /\ reste \subseteq Comptes
    /\ courant \in Comptes \cup {Personne}
    /\ vus \in [Consents -> Consent]
    /\ solde \in BOOLEAN
    /\ annonces \in [Comptes -> SUBSET Evenements]
    /\ appels \in [Comptes -> [Jours -> Nat]]
    /\ appelsCalendaires \in [Comptes -> [Jours -> Nat]]
    /\ appelsPerimes \in [Comptes -> Nat]
    /\ orphelins \subseteq Comptes
    /\ ecritures \in 0 .. MaxEcritures
    /\ arrets \in 0 .. MaxArrets

Init ==
    /\ temps = 0
    /\ consents \in [Consents -> [statut : {"pending", "active"},
                                  expire : {Validite}]]
    /\ comptes = [c \in Comptes |->
                    [ligne |-> "future", prochaine |-> 0, jour |-> 0, nb |-> 0]]
    /\ etape = "eteint"
    /\ maintenant = 0
    /\ reste = {}
    /\ courant = Personne
    /\ vus = consents
    /\ solde = FALSE
    /\ annonces = [c \in Comptes |-> {}]
    /\ appels = [c \in Comptes |-> [j \in Jours |-> 0]]
    /\ appelsCalendaires = [c \in Comptes |-> [j \in Jours |-> 0]]
    /\ appelsPerimes = [c \in Comptes |-> 0]
    /\ orphelins = {}
    /\ ecritures = 0
    /\ arrets = 0

-------------------------------------------------------------------------------
(* The planning columns. *)

(* Mutant: the count of the day is never read. *)
NbDuJourIgnore(c, j) == 0

(* CASE WHEN last_sync_day = $3 THEN sync_count_today ELSE 0 END *)
NbDuJour(c, j) == IF comptes[c].jour = j THEN comptes[c].nb ELSE 0

(* The WHERE clause of lister_comptes_echeants. *)
Echeant(c, t) ==
    LET k == consents[ConsentDe[c]] IN
    /\ comptes[c].ligne = "presente"
    /\ comptes[c].prochaine <= t
    /\ k.statut = "active"
    /\ k.expire > t
    /\ NbDuJour(c, Jour(t)) < Quota

(* Mutant: the delay is forgotten. *)
ProchainCreneauImmediat(t) == t

(* plan_apres_synchro: the next slot counts from the instant of the cycle. *)
ProchainCreneau(t) == t + Intervalle

(* The WHERE clause of reserver_creneau, the only guard of the quota. *)
CreneauLibre(c, t) ==
    /\ comptes[c].ligne = "presente"
    /\ NbDuJour(c, Jour(t)) < Quota

(* Mutant: the counter is not restarted with the day. *)
LigneReserveeSansRemise(c, t) ==
    [comptes[c] EXCEPT !.prochaine = ProchainCreneau(t),
                       !.nb = @ + 1,
                       !.jour = Jour(t)]

(* The SET clause of reserver_creneau. *)
LigneReservee(c, t) ==
    [comptes[c] EXCEPT !.prochaine = ProchainCreneau(t),
                       !.nb = NbDuJour(c, Jour(t)) + 1,
                       !.jour = Jour(t)]

(* consentement_expire, applied to the consent as it was listed. *)
ConsentementExpire(c) ==
    LET k == vus[ConsentDe[c]] IN k.statut # "active" \/ k.expire <= maintenant

(* renouvellement_requis, on the consent as it was listed too. *)
RenouvellementRequis(c) ==
    LET k == vus[ConsentDe[c]] IN
    maintenant < k.expire /\ k.expire <= maintenant + Marge

(* Mutant: the listing without its ORDER BY. *)
EnTeteSansOrdre(c) == c \in reste

(* ORDER BY next_sync_at ASC NULLS FIRST: ties are in any order. *)
EnTete(c) ==
    /\ c \in reste
    /\ \A d \in reste : comptes[c].prochaine <= comptes[d].prochaine

Publier(c, e) == annonces' = [annonces EXCEPT ![c] = @ \cup {e}]

(* The loop goes on with the next account. *)
Suivant ==
    /\ etape' = "boucle"
    /\ courant' = Personne
    /\ solde' = FALSE

-------------------------------------------------------------------------------
(* The worker task. *)

(* demarrer: the task is spawned with the process; its first tick is       *)
(* immediate.                                                              *)
Demarrer ==
    /\ etape = "eteint"
    /\ etape' = "attente"
    /\ UNCHANGED <<temps, consents, comptes, compteurs, maintenant, reste, courant,
                   vus, solde, annonces, orphelins, bornes>>

(* Mutant: a consent that was listed active once is not read again.        *)
DebutCycleEnCache ==
    /\ etape = "attente"
    /\ maintenant' = temps
    /\ vus' = [k \in Consents |->
                 IF vus[k].statut = "active" /\ vus[k].expire > temps
                 THEN vus[k] ELSE consents[k]]
    /\ reste' = {c \in Comptes :
                   /\ CreneauLibre(c, temps) /\ comptes[c].prochaine <= temps
                   /\ vus'[ConsentDe[c]].statut = "active"
                   /\ vus'[ConsentDe[c]].expire > temps}
    /\ etape' = "boucle"
    /\ UNCHANGED <<temps, consents, comptes, compteurs, courant, solde, annonces,
                   orphelins, bornes>>

(* A tick: executer reads the clock once and lists the due accounts.  A    *)
(* listing that fails leaves everything as it was until the next tick.     *)
DebutCycle ==
    /\ etape = "attente"
    /\ maintenant' = temps
    /\ reste' = {c \in Comptes : Echeant(c, temps)}
    /\ vus' = consents
    /\ etape' = "boucle"
    /\ UNCHANGED <<temps, consents, comptes, compteurs, courant, solde, annonces,
                   orphelins, bornes>>

FinCycle ==
    /\ etape = "boucle"
    /\ reste = {}
    /\ etape' = "attente"
    /\ UNCHANGED <<temps, consents, comptes, compteurs, maintenant, reste, courant,
                   vus, solde, annonces, orphelins, bornes>>

(* The slot is reserved: one UPDATE, before anything is published.         *)
Reserver(c) ==
    /\ etape = "boucle"
    /\ EnTete(c)
    /\ ~ConsentementExpire(c)
    /\ CreneauLibre(c, maintenant)
    /\ comptes' = [comptes EXCEPT ![c] = LigneReservee(c, maintenant)]
    /\ annonces' = [annonces EXCEPT ![c] = {}]
    /\ orphelins' = orphelins \ {c}
    /\ reste' = reste \ {c}
    /\ courant' = c
    /\ etape' = "debut"
    /\ UNCHANGED <<temps, consents, compteurs, maintenant, vus, solde, bornes>>

(* sync_started, then the notice that the consent is about to expire: each *)
(* is awaited.                                                             *)
PublierDebut ==
    /\ etape = "debut"
    /\ Publier(courant, "started")
    /\ etape' = IF RenouvellementRequis(courant) THEN "renouvellement" ELSE "solde"
    /\ UNCHANGED <<temps, consents, comptes, compteurs, maintenant, reste, courant,
                   vus, solde, orphelins, bornes>>

PublierRenouvellement ==
    /\ etape = "renouvellement"
    /\ Publier(courant, "renewal_required")
    /\ etape' = "solde"
    /\ UNCHANGED <<temps, consents, comptes, compteurs, maintenant, reste, courant,
                   vus, solde, orphelins, bornes>>

(* No row updated: the account has gone, or its quota is used up. *)
IgnorerCompte(c) ==
    /\ etape = "boucle"
    /\ EnTete(c)
    /\ ~ConsentementExpire(c)
    /\ ~CreneauLibre(c, maintenant)
    /\ reste' = reste \ {c}
    /\ UNCHANGED <<temps, consents, comptes, compteurs, etape, maintenant, courant,
                   vus, solde, annonces, orphelins, bornes>>

(* "?" on a failed statement: executer returns, the cycle is over. *)
AbandonnerCycle ==
    /\ \/ etape = "boucle" /\ reste # {}
       \/ etape = "marquage"
    /\ reste' = {}
    /\ courant' = Personne
    /\ etape' = "attente"
    /\ UNCHANGED <<temps, consents, comptes, compteurs, maintenant, vus, solde,
                   annonces, orphelins, bornes>>

(* One more sync sent to the bank, on the slot of the cycle's day. *)
CompterAppel(c) ==
    /\ appels' = [appels EXCEPT ![c][Jour(maintenant)] = @ + 1]
    /\ appelsCalendaires' = [appelsCalendaires EXCEPT ![c][Jour(temps)] = @ + 1]
    /\ appelsPerimes' = IF consents[ConsentDe[c]].statut = "active"
                        THEN appelsPerimes
                        ELSE [appelsPerimes EXCEPT ![c] = @ + 1]

(* The balances are asked for and stored one by one; a failed INSERT is    *)
(* swallowed, and every INSERT fails once the account has been deleted.    *)
DemanderSolde ==
    /\ etape = "solde"
    /\ CompterAppel(courant)
    /\ solde' \in {b \in BOOLEAN : b => comptes[courant].ligne = "presente"}
    /\ etape' = "transactions"
    /\ UNCHANGED <<temps, consents, comptes, maintenant, reste, courant, vus,
                   annonces, orphelins, bornes>>

(* Mutant: any refusal but an invalid consent is tried again at once. *)
EchecSourceReessaye(refus) ==
    /\ Publier(courant, "failed")
    /\ solde' = FALSE
    /\ UNCHANGED courant
    /\ etape' = IF refus = "consentement_invalide" THEN "marquage" ELSE "solde"
    /\ UNCHANGED <<temps, consents, comptes, maintenant, reste, vus, orphelins,
                   bornes>>

(* Mutant: an invalid consent is marked, and the failure not announced. *)
EchecSourceMuet(refus) ==
    /\ IF refus = "consentement_invalide"
       THEN /\ etape' = "marquage"
            /\ UNCHANGED <<courant, annonces>>
       ELSE /\ Publier(courant, "failed")
            /\ etape' = "boucle"
            /\ courant' = Personne
    /\ solde' = FALSE
    /\ UNCHANGED <<temps, consents, comptes, maintenant, reste, vus, orphelins,
                   bornes>>

(* The bank refuses: sync_failed is published, and an invalid consent is   *)
(* about to be marked expired.                                             *)
EchecSource(refus) ==
    /\ Publier(courant, "failed")
    /\ solde' = FALSE
    /\ IF refus = "consentement_invalide"
       THEN etape' = "marquage" /\ UNCHANGED courant
       ELSE etape' = "boucle" /\ courant' = Personne
    /\ UNCHANGED <<temps, consents, comptes, maintenant, reste, vus, orphelins,
                   bornes>>

SoldeRefuse ==
    /\ etape = "solde"
    /\ CompterAppel(courant)
    /\ \E refus \in Refus : EchecSource(refus)

TransactionsRefusees ==
    /\ etape = "transactions"
    /\ \E refus \in Refus : EchecSource(refus)
    /\ UNCHANGED compteurs

(* The transactions are inserted and the recurrences recomputed, errors    *)
(* swallowed: neither touches this module's state.                         *)
ListerTransactions ==
    /\ etape = "transactions"
    /\ etape' = IF solde THEN "pub_solde" ELSE "pub_transactions"
    /\ UNCHANGED <<temps, consents, comptes, compteurs, maintenant, reste, courant,
                   vus, solde, annonces, orphelins, bornes>>

(* publier_succes: up to three events, in this order. *)
PublierSolde ==
    /\ etape = "pub_solde"
    /\ Publier(courant, "balance")
    /\ etape' = "pub_transactions"
    /\ UNCHANGED <<temps, consents, comptes, compteurs, maintenant, reste, courant,
                   vus, solde, orphelins, bornes>>

PublierTransactions ==
    /\ etape = "pub_transactions"
    /\ Publier(courant, "transactions")
    /\ etape' = "pub_succes"
    /\ UNCHANGED <<temps, consents, comptes, compteurs, maintenant, reste, courant,
                   vus, solde, orphelins, bornes>>

PublierSucces ==
    /\ etape = "pub_succes"
    /\ Publier(courant, "succeeded")
    /\ Suivant
    /\ UNCHANGED <<temps, consents, comptes, compteurs, maintenant, reste, vus,
                   orphelins, bornes>>

(* traiter_echec_source: marquer_statut(Expired) by consent id, whatever   *)
(* the row now holds.                                                      *)
MarquerExpire ==
    LET k == ConsentDe[courant] IN
    /\ etape = "marquage"
    /\ consents' = IF consents[k].statut = "supprime" THEN consents
                   ELSE [consents EXCEPT ![k].statut = "expired"]
    /\ etape' = "pub_expiration"
    /\ UNCHANGED <<temps, comptes, compteurs, maintenant, reste, courant, vus, solde,
                   annonces, orphelins, bornes>>

PublierExpiration ==
    /\ etape = "pub_expiration"
    /\ Publier(courant, "consent_expired")
    /\ Suivant
    /\ UNCHANGED <<temps, consents, comptes, compteurs, maintenant, reste, vus,
                   orphelins, bornes>>

(* arreter: the stop signal is only looked at between two cycles. *)
Arreter ==
    /\ etape = "attente"
    /\ arrets < MaxArrets
    /\ arrets' = arrets + 1
    /\ etape' = "eteint"
    /\ UNCHANGED <<temps, consents, comptes, compteurs, maintenant, reste, courant,
                   vus, solde, annonces, orphelins, ecritures>>

(* The process dies: what the task held in memory is lost. *)
Panne ==
    /\ etape \notin {"eteint", "attente"}
    /\ arrets < MaxArrets
    /\ arrets' = arrets + 1
    /\ orphelins' = IF courant = Personne THEN orphelins
                    ELSE orphelins \cup {courant}
    /\ etape' = "eteint"
    /\ reste' = {}
    /\ courant' = Personne
    /\ solde' = FALSE
    /\ UNCHANGED <<temps, consents, comptes, compteurs, maintenant, vus, annonces,
                   ecritures>>

-------------------------------------------------------------------------------
(* What the worker shares its tables with. *)

TempsPasse ==
    /\ temps < Horizon
    /\ temps' = temps + 1
    /\ UNCHANGED <<consents, comptes, compteurs, etape, maintenant, reste, courant,
                   vus, solde, annonces, orphelins, bornes>>

(* mettre_a_jour and marquer_statut_proprietaire, as the callback and the  *)
(* renewal run them: neither statement looks at the status it replaces.    *)
EcrireConsent(k, s) ==
    /\ ecritures < MaxEcritures
    /\ ecritures' = ecritures + 1
    /\ consents[k].statut # "supprime"
    /\ consents' = [consents EXCEPT
                      ![k] = [statut |-> s,
                              expire |-> IF s = "failed" THEN @.expire
                                         ELSE temps + Validite]]
    /\ appelsPerimes' = [c \in Comptes |->
                           IF s = "active" /\ ConsentDe[c] = k
                           THEN 0 ELSE appelsPerimes[c]]
    /\ UNCHANGED <<temps, comptes, appels, appelsCalendaires, etape, maintenant,
                   reste, courant, vus, solde, annonces, orphelins, arrets>>

(* The INSERT of the callback: due at once, nothing counted yet. *)
RattacherCompte(c) ==
    /\ comptes[c].ligne = "future"
    /\ consents[ConsentDe[c]].statut # "supprime"
    /\ comptes' = [comptes EXCEPT ![c].ligne = "presente"]
    /\ UNCHANGED <<temps, consents, compteurs, etape, maintenant, reste, courant,
                   vus, solde, annonces, orphelins, bornes>>

SupprimerLignes(S) ==
    comptes' = [c \in Comptes |->
                  IF c \in S /\ comptes[c].ligne = "presente"
                  THEN [comptes[c] EXCEPT !.ligne = "supprimee"]
                  ELSE comptes[c]]

ComptesDe(p) == {c \in Comptes : ProprietaireDe[ConsentDe[c]] = p}

(* effacer_donnees_proprietaire: DELETE of the accounts, then DELETE of    *)
(* the consents, which cascades to the accounts attached in between: the   *)
(* second statement alone does what both do, so their order is left free.  *)
EffacerComptes(p) ==
    /\ SupprimerLignes(ComptesDe(p))
    /\ UNCHANGED <<temps, consents, compteurs, etape, maintenant, reste, courant,
                   vus, solde, annonces, orphelins, bornes>>

EffacerConsents(p) ==
    /\ SupprimerLignes(ComptesDe(p))
    /\ consents' = [k \in Consents |->
                      IF ProprietaireDe[k] = p
                      THEN [consents[k] EXCEPT !.statut = "supprime"]
                      ELSE consents[k]]
    /\ UNCHANGED <<temps, compteurs, etape, maintenant, reste, courant, vus, solde,
                   annonces, orphelins, bornes>>

-------------------------------------------------------------------------------
Worker ==
    \/ Demarrer \/ DebutCycle \/ FinCycle \/ AbandonnerCycle
    \/ \E c \in Comptes : Reserver(c) \/ IgnorerCompte(c)
    \/ PublierDebut \/ PublierRenouvellement
    \/ DemanderSolde \/ SoldeRefuse
    \/ ListerTransactions \/ TransactionsRefusees
    \/ PublierSolde \/ PublierTransactions \/ PublierSucces
    \/ MarquerExpire \/ PublierExpiration

Environnement ==
    \/ TempsPasse
    \/ \E k \in Consents, s \in {"pending", "active", "failed"} : EcrireConsent(k, s)
    \/ \E c \in Comptes : RattacherCompte(c)
    \/ \E p \in Proprietaires : EffacerComptes(p) \/ EffacerConsents(p)
    \/ Arreter \/ Panne

Next == Worker \/ Environnement

Spec == Init /\ [][Next]_vars

(* The tokio task is polled as long as the process lives.  Two assumptions *)
(* are not the code's: the bank ends up answering (the HTTP client has no  *)
(* timeout), and the publisher's queue drains.                             *)
Equite ==
    /\ WF_vars(PublierDebut)
    /\ WF_vars(PublierRenouvellement)
    /\ WF_vars(DemanderSolde \/ SoldeRefuse)
    /\ WF_vars(ListerTransactions \/ TransactionsRefusees)
    /\ WF_vars(PublierSolde)
    /\ WF_vars(PublierTransactions)
    /\ WF_vars(PublierSucces)

SpecEquitable == Spec /\ Equite

-------------------------------------------------------------------------------
(* What the worker promises: CreneauxReserves.                             *)

Promesse == INSTANCE CreneauxReserves WITH
    jour <- [c \in Comptes |-> comptes[c].jour],
    reserves <- [c \in Comptes |-> comptes[c].nb]

(* The reservation and the calls of the worker implement a ledger of       *)
(* slots: a call always spends a slot reserved before it and not spent     *)
(* yet, across crashes, retries, deletions and changes of day.             *)
TientLaPromesse == Promesse!Spec

-------------------------------------------------------------------------------
(***************************************************************************)
(* Properties.                                                             *)
(***************************************************************************)

(* The quota (ENVCONFIG: "Synchronisations maximum par jour et par         *)
(* compte"): whatever the crashes between the reservation and the call,    *)
(* the bank is asked at most Quota times on the slots of one day.          *)
QuotaParJour ==
    \A c \in Comptes : \A j \in Jours : appels[c][j] <= Quota

(* A cycle keeps the day it started on, so a cycle that runs over midnight *)
(* spends the slots of the day before: by the calendar of the bank an      *)
(* account gets at most one sync more than the quota.                      *)
QuotaCalendaire ==
    \A c \in Comptes : \A j \in Jours : appelsCalendaires[c][j] <= Quota + 1

(* The cycle works on the consents it listed.  When a consent stops being  *)
(* active under its feet, each of its accounts is sent to the bank at most *)
(* once more, however many cycles, crashes and restarts follow.            *)
AuPlusUnAppelPerime ==
    \A c \in Comptes : appelsPerimes[c] <= 1

(* synchroniser_compte publishes one outcome per sync it announced: an     *)
(* account whose last sync has no outcome is the one under way, or one a   *)
(* crash interrupted; no account gets both outcomes, and a balance or a    *)
(* transactions event never comes with a failure, nor the expiry of the    *)
(* consent without one.                                                    *)
IssueAnnoncee ==
    \A c \in Comptes :
        /\ "started" \in annonces[c] /\ annonces[c] \cap {"succeeded", "failed"} = {}
              => c = courant \/ c \in orphelins
        /\ "failed" \in annonces[c] =>
              annonces[c] \cap {"balance", "transactions", "succeeded"} = {}
        /\ "consent_expired" \in annonces[c] => "failed" \in annonces[c]
        /\ "succeeded" \in annonces[c] => "transactions" \in annonces[c]

(* The branch of synchroniser_compte that expires a consent without asking *)
(* the bank is dead under the SQL listing: the listing filters status and  *)
(* expires_at with the instant the branch compares them to.                *)
BrancheExpirationMorte ==
    \A c \in reste : ~ConsentementExpire(c)

(* Two reserved slots of an account are an interval apart: neither a       *)
(* restart (which starts with an immediate cycle) nor an abandoned cycle   *)
(* brings a slot forward.                                                  *)
CreneauxEspaces ==
    [][\A c \in Comptes :
         comptes'[c].prochaine # comptes[c].prochaine
           => comptes'[c].prochaine >= comptes[c].prochaine + Intervalle]_vars

(* Every announced sync ends with its outcome, or with a crash.            *)
SyncTermine ==
    \A c \in Comptes :
        (courant = c /\ "started" \in annonces[c])
          ~> (annonces[c] \cap {"succeeded", "failed"} # {} \/ c \in orphelins)

=============================================================================
