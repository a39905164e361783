----------------------------- MODULE Rattachement -----------------------------
(***************************************************************************)
(* The life of a bank consent: creation, callback and renewal by the HTTP  *)
(* handlers (handlers/banques.rs), expiry by the synchronisation worker,   *)
(* erasure by the relay handler (domain/effacement.rs).  Nothing locks a   *)
(* consent: every handler is a sequence of autocommitted statements and    *)
(* bank calls, and several run at once, also on the same consent.          *)
(*                                                                         *)
(* A consent id belongs to the owner who drew it; expires_at is abstracted *)
(* to what est_renouvelable tells apart; a request is a tokio task.        *)
(***************************************************************************)
EXTENDS Naturals, FiniteSets

CONSTANTS
    Consents,       \* the ids create_consent draws
    Proprietaires,  \* the values of owner_id
    ProprietaireDe, \* consent.owner_id
    Externes,       \* accounts at the bank (empreinte_compte)
    Requetes,       \* the tasks that serve requests
    Aucun,          \* no consent, no owner
    Effacables,     \* bound: the owners whose account is deleted upstream
    Anterieurs,     \* rows of bank_account another owner may have at the start
    Vises           \* bound: the consents that requests, worker and time touch

ASSUME ConstantesRattachement ==
    /\ ProprietaireDe \in [Consents -> Proprietaires]
    /\ Aucun \notin Consents \cup Proprietaires
    /\ Effacables \subseteq Proprietaires
    /\ Vises \subseteq Consents
    /\ Anterieurs \subseteq (Consents \ Vises) \X Externes

(* "vierge": no row yet; "supprime": the row has been deleted. Nothing     *)
(* stores ConsentStatus::Revoked.                                          *)
Statuts == {"vierge", "pending", "active", "expired", "failed", "supprime"}

(* An authorisation opened at the bank waits for its user, who grants it   *)
(* (the bank then hands out a code, good once) or gives it up.             *)
Autorisations == {"aucune", "ouverte", "accordee", "abandonnee", "consommee"}

(* expires_at: more than the renewal margin away, or within it or past.     *)
Echeances == {"loin", "proche"}

Etapes == {"libre", "auth_creation", "insertion", "session", "echec", "activation",
           "listage", "verification", "refus", "comptes", "auth_renouvellement",
           "attente"}

VARIABLES
    consents,       \* budgy.consent: status and expires_at
    comptes,        \* budgy.bank_account: pairs of a consent and an account
    autorisation,   \* what became of the authorisation the bank last opened for
                    \* each consent (external)
    etape,          \* per request, where its handler stands
    cible,          \* per request, the consent it works on
    rendus,         \* per request, the accounts the bank returned
    reste,          \* per request, those its loop has not handled yet
    perime,         \* the worker's account under way: the consent it listed
    efface,         \* the owner being erased, or Aucun
    etapeEffacement,
    aRevoquer,      \* consents the erasure has listed and not revoked yet
    attendus,       \* history: accounts of the last completion, per consent
    interrompus,    \* history: completions cut by an error, a crash or an erasure
    inseres,        \* history: rows the request inserted
    demandes,       \* history: revocations the erasure under way has asked for
    tardifs,        \* history: consents activated since the erasure listed them
    troubles        \* history: consents of which a code was lost with the request
                    \* that spent it, or that two requests worked on at once

requetes == <<etape, cible, rendus, reste>>
effacement == <<efface, etapeEffacement, aRevoquer>>
histoire == <<attendus, interrompus, inseres, demandes, tardifs, troubles>>
vars == <<consents, comptes, autorisation, etape, cible, rendus, reste, perime,
          efface, etapeEffacement, aRevoquer, attendus, interrompus, inseres,
          demandes, tardifs, troubles>>

TypeOK ==
    /\ consents \in [Consents -> [statut : Statuts, echeance : Echeances]]
    /\ comptes \subseteq Consents \X Externes
    /\ autorisation \in [Consents -> Autorisations]
    /\ etape \in [Requetes -> Etapes]
    /\ cible \in [Requetes -> Consents \cup {Aucun}]
    /\ rendus \in [Requetes -> SUBSET Externes]
    /\ reste \in [Requetes -> SUBSET Externes]
    /\ perime \in Consents \cup {Aucun}
    /\ efface \in Proprietaires \cup {Aucun}
    /\ etapeEffacement \in {"repos", "listage", "revocation", "consents"}
    /\ aRevoquer \subseteq Consents
    /\ attendus \in [Consents -> SUBSET Externes]
    /\ inseres \in [Requetes -> SUBSET Externes]
    /\ interrompus \cup demandes \cup tardifs \cup troubles \subseteq Consents

ComptesDuConsent(k) == {x \in Externes : <<k, x>> \in comptes}

(* An empty base, or one where other owners completed a consent before,    *)
(* that has expired since.                                                 *)
Init ==
    /\ comptes \in {{}, Anterieurs}
    /\ consents = [k \in Consents |->
                     [statut |-> IF ComptesDuConsent(k) = {} THEN "vierge" ELSE "expired",
                      echeance |-> "loin"]]
    /\ autorisation = [k \in Consents |->
                         IF ComptesDuConsent(k) = {} THEN "aucune" ELSE "consommee"]
    /\ attendus = [k \in Consents |-> ComptesDuConsent(k)]
    /\ etape = [r \in Requetes |-> "libre"]
    /\ cible = [r \in Requetes |-> Aucun]
    /\ rendus = [r \in Requetes |-> {}]
    /\ reste = [r \in Requetes |-> {}]
    /\ perime = Aucun
    /\ efface = Aucun
    /\ etapeEffacement = "repos"
    /\ aRevoquer = {}
    /\ interrompus = {}
    /\ inseres = [r \in Requetes |-> {}]
    /\ demandes = {}
    /\ tardifs = {}
    /\ troubles = {}

-------------------------------------------------------------------------------
(* The tables. *)

EnBase(k) == consents[k].statut \notin {"vierge", "supprime"}

ConsentsDe(p) == {k \in Consents : ProprietaireDe[k] = p}

(* est_renouvelable, with the default margin. *)
EstRenouvelable(k) ==
    \/ consents[k].statut \in {"expired", "failed"}
    \/ consents[k].echeance # "loin"

(* consent_renouvelable: the row is there and says so.  The refusal of a   *)
(* row without etablissement is left out: create_consent always writes one. *)
ConsentRenouvelable(k) == EnBase(k) /\ EstRenouvelable(k)

(* UPDATE budgy.consent ... WHERE id: no row, no effect.  The status that  *)
(* is replaced is not looked at.                                           *)
EcrireStatut(k, s) ==
    consents' = IF EnBase(k) THEN [consents EXCEPT ![k].statut = s] ELSE consents

(* Mutant: the UPDATE is an upsert. *)
MettreAJourUpsert(k, s) ==
    consents' = [consents EXCEPT ![k] = [statut |-> s, echeance |-> "loin"]]

(* mettre_a_jour also writes the expiry the bank has just given. *)
MettreAJour(k, s) ==
    consents' = IF EnBase(k)
                THEN [consents EXCEPT ![k] = [statut |-> s, echeance |-> "loin"]]
                ELSE consents

(* Mutant: only the accounts of active consents are looked at. *)
ProprietaireConcurrentActif(x, p) ==
    \E k \in Consents : /\ ProprietaireDe[k] # p
                        /\ consents[k].statut = "active"
                        /\ <<k, x>> \in comptes

(* proprietaire_concurrent: a row of the same account, of another owner. *)
ProprietaireConcurrent(x, p) ==
    \E k \in Consents : ProprietaireDe[k] # p /\ <<k, x>> \in comptes

-------------------------------------------------------------------------------
(* Requests. *)

Renouvellement == {"auth_renouvellement", "attente"}

Commencer(r, k, e) ==
    /\ etape[r] = "libre"
    /\ etape' = [etape EXCEPT ![r] = e]
    /\ cible' = [cible EXCEPT ![r] = k]
    /\ inseres' = [inseres EXCEPT ![r] = {}]
    /\ troubles' = IF \E q \in Requetes :
                         cible[q] = k /\ Renouvellement \cap {e, etape[q]} # {}
                   THEN troubles \cup {k} ELSE troubles
    /\ UNCHANGED <<rendus, reste>>

Avancer(r, e) ==
    /\ etape' = [etape EXCEPT ![r] = e]
    /\ UNCHANGED <<cible, rendus, reste, inseres>>

(* The response is sent: the task forgets everything. *)
Repondre(r) ==
    /\ etape' = [etape EXCEPT ![r] = "libre"]
    /\ cible' = [cible EXCEPT ![r] = Aucun]
    /\ rendus' = [rendus EXCEPT ![r] = {}]
    /\ reste' = [reste EXCEPT ![r] = {}]
    /\ inseres' = [inseres EXCEPT ![r] = {}]

(* create_consent: the bank is asked first, the row is inserted after. *)
Creer(r, k) ==
    /\ consents[k].statut = "vierge"
    /\ \A q \in Requetes : cible[q] # k
    /\ Commencer(r, k, "auth_creation")
    /\ UNCHANGED <<consents, comptes, autorisation, perime, effacement, attendus,
                   interrompus, demandes, tardifs>>

(* initier_consentement: the bank opens an authorisation, answers with the *)
(* URL of its page, and forgets the code of the previous authorisation.    *)
Initier(r) ==
    LET k == cible[r] IN
    /\ \/ etape[r] = "auth_creation" /\ Avancer(r, "insertion")
       \/ etape[r] = "auth_renouvellement" /\ Avancer(r, "attente")
    /\ autorisation' = [autorisation EXCEPT ![k] = "ouverte"]
    /\ UNCHANGED <<consents, comptes, perime, effacement, attendus, interrompus,
                   demandes, tardifs, troubles>>

(* The user on the bank's page: grants, or closes the page, also after     *)
(* having granted and before the callback.                                 *)
Accorder(k) ==
    /\ autorisation[k] = "ouverte"
    /\ autorisation' = [autorisation EXCEPT ![k] = "accordee"]
    /\ UNCHANGED <<consents, comptes, requetes, perime, effacement, histoire>>

Abandonner(k) ==
    /\ autorisation[k] \in {"ouverte", "accordee"}
    /\ autorisation' = [autorisation EXCEPT ![k] = "abandonnee"]
    /\ UNCHANGED <<consents, comptes, requetes, perime, effacement, histoire>>

EnregistrerInitie(r) ==
    LET k == cible[r] IN
    /\ etape[r] = "insertion"
    /\ consents' = [consents EXCEPT ![k] = [statut |-> "pending", echeance |-> "loin"]]
    /\ Repondre(r)
    /\ UNCHANGED <<comptes, autorisation, perime, effacement, attendus, interrompus,
                   demandes, tardifs, troubles>>

(* complete_consent: only a pending consent goes to the bank. *)
Completer(r, k) ==
    /\ consents[k].statut = "pending"
    /\ Commencer(r, k, "session")
    /\ UNCHANGED <<consents, comptes, autorisation, perime, effacement, attendus,
                   interrompus, demandes, tardifs>>

(* POST /sessions: a code is good once. *)
SessionOuverte(r) ==
    /\ etape[r] = "session"
    /\ autorisation[cible[r]] = "accordee"
    /\ autorisation' = [autorisation EXCEPT ![cible[r]] = "consommee"]
    /\ Avancer(r, "activation")
    /\ UNCHANGED <<consents, comptes, perime, effacement, attendus, interrompus,
                   demandes, tardifs, troubles>>

(* Refused, or unreachable: the code may have been consumed all the same. *)
SessionRefusee(r) ==
    /\ etape[r] = "session"
    /\ \/ UNCHANGED autorisation
       \/ autorisation' = [autorisation EXCEPT ![cible[r]] = "consommee"]
    /\ Avancer(r, "echec")
    /\ UNCHANGED <<consents, comptes, perime, effacement, attendus, interrompus,
                   demandes, tardifs, troubles>>

(* echec_consentement *)
EchecConsentement(r) ==
    /\ etape[r] = "echec"
    /\ EcrireStatut(cible[r], "failed")
    /\ Repondre(r)
    /\ UNCHANGED <<comptes, autorisation, perime, effacement, attendus, interrompus,
                   demandes, tardifs, troubles>>

(* The consent is active before its accounts are known. *)
Activer(r) ==
    LET k == cible[r] IN
    /\ etape[r] = "activation"
    /\ MettreAJour(k, "active")
    /\ Avancer(r, "listage")
    /\ attendus' = [attendus EXCEPT ![k] = {}]
    /\ interrompus' = interrompus \ {k}
    /\ tardifs' = IF etapeEffacement = "repos" THEN tardifs ELSE tardifs \cup {k}
    /\ UNCHANGED <<comptes, autorisation, perime, effacement, demandes, troubles>>

(* lister_comptes: the bank returns any accounts, also someone else's, or  *)
(* none, and both loops are then empty.                                    *)
ListerComptes(r) ==
    /\ etape[r] = "listage"
    /\ \E S \in SUBSET Externes :
         /\ rendus' = [rendus EXCEPT ![r] = S]
         /\ reste' = [reste EXCEPT ![r] = S]
         /\ attendus' = [attendus EXCEPT ![cible[r]] = S]
         /\ etape' = [etape EXCEPT ![r] = IF S = {} THEN "comptes" ELSE "verification"]
    /\ UNCHANGED <<consents, comptes, autorisation, cible, perime, effacement,
                   interrompus, inseres, demandes, tardifs, troubles>>

(* Mutant: each account is inserted as soon as it has been checked. *)
VerifierAuFil(r) ==
    LET k == cible[r] IN
    /\ etape[r] = "verification"
    /\ \E x \in reste[r] :
         IF ProprietaireConcurrent(x, ProprietaireDe[k])
         THEN /\ etape' = [etape EXCEPT ![r] = "refus"]
              /\ UNCHANGED <<comptes, reste, inseres>>
         ELSE /\ etape' = [etape EXCEPT ![r] =
                             IF reste[r] = {x} THEN "comptes" ELSE @]
              /\ comptes' = comptes \cup {<<k, x>>}
              /\ inseres' = [inseres EXCEPT ![r] = @ \cup {x}]
              /\ reste' = [reste EXCEPT ![r] = @ \ {x}]
    /\ UNCHANGED <<consents, autorisation, cible, rendus, perime, effacement, attendus,
                   interrompus, demandes, tardifs, troubles>>

(* One SELECT per account; when the loop is over, the inserts begin. *)
Verifier(r) ==
    LET k == cible[r] IN
    /\ etape[r] = "verification"
    /\ \E x \in reste[r] :
         IF ProprietaireConcurrent(x, ProprietaireDe[k])
         THEN /\ etape' = [etape EXCEPT ![r] = "refus"]
              /\ UNCHANGED reste
         ELSE IF reste[r] = {x}
         THEN /\ etape' = [etape EXCEPT ![r] = "comptes"]
              /\ reste' = [reste EXCEPT ![r] = rendus[r]]
         ELSE /\ reste' = [reste EXCEPT ![r] = @ \ {x}]
              /\ UNCHANGED etape
    /\ UNCHANGED <<consents, comptes, autorisation, cible, rendus, perime, effacement,
                   histoire>>

Refuser(r) ==
    /\ etape[r] = "refus"
    /\ EcrireStatut(cible[r], "failed")
    /\ Repondre(r)
    /\ UNCHANGED <<comptes, autorisation, perime, effacement, attendus, interrompus,
                   demandes, tardifs, troubles>>

(* enregistrer: ON CONFLICT DO NOTHING; the foreign key wants the consent. *)
EnregistrerCompte(r) ==
    LET k == cible[r] IN
    /\ etape[r] = "comptes"
    /\ EnBase(k)
    /\ \E x \in reste[r] :
         /\ comptes' = comptes \cup {<<k, x>>}
         /\ inseres' = [inseres EXCEPT ![r] = @ \cup {x}]
         /\ reste' = [reste EXCEPT ![r] = @ \ {x}]
    /\ UNCHANGED <<consents, autorisation, etape, cible, rendus, perime, effacement,
                   attendus, interrompus, demandes, tardifs, troubles>>

(* Mutant: the loop ends at the first account already there. *)
TerminerCompletionTot(r) ==
    /\ etape[r] = "comptes"
    /\ reste[r] = {} \/ reste[r] \cap ComptesDuConsent(cible[r]) # {}
    /\ Repondre(r)
    /\ UNCHANGED <<consents, comptes, autorisation, perime, effacement, attendus,
                   interrompus, demandes, tardifs, troubles>>

TerminerCompletion(r) ==
    /\ etape[r] = "comptes"
    /\ reste[r] = {}
    /\ Repondre(r)
    /\ UNCHANGED <<consents, comptes, autorisation, perime, effacement, attendus,
                   interrompus, demandes, tardifs, troubles>>

(* Mutant: the consent is pending before the bank has answered. *)
RenouvelerTot(r, k) ==
    /\ ConsentRenouvelable(k)
    /\ MettreAJour(k, "pending")
    /\ Commencer(r, k, "auth_renouvellement")
    /\ UNCHANGED <<comptes, autorisation, perime, effacement, attendus, interrompus,
                   demandes, tardifs>>

(* renew_consent: consent_renouvelable reads the row, then the bank is     *)
(* asked, then the row is overwritten.                                     *)
Renouveler(r, k) ==
    /\ ConsentRenouvelable(k)
    /\ Commencer(r, k, "auth_renouvellement")
    /\ UNCHANGED <<consents, comptes, autorisation, perime, effacement, attendus,
                   interrompus, demandes, tardifs>>

MettreEnAttente(r) ==
    /\ etape[r] = "attente"
    /\ MettreAJour(cible[r], "pending")
    /\ Repondre(r)
    /\ UNCHANGED <<comptes, autorisation, perime, effacement, attendus, interrompus,
                   demandes, tardifs, troubles>>

Completion == {"listage", "verification", "refus", "comptes"}

(* The code is spent and the status does not say so yet.                   *)
CodePerdu == {"activation", "echec"}

(* "?": a statement or a bank call fails, or the client hangs up and the   *)
(* handler's future is dropped.  Nothing is undone.                        *)
ErreurRequete(r) ==
    /\ etape[r] # "libre"
    /\ Repondre(r)
    /\ interrompus' = IF etape[r] \in Completion
                      THEN interrompus \cup {cible[r]} ELSE interrompus
    /\ troubles' = IF etape[r] \in CodePerdu
                   THEN troubles \cup {cible[r]} ELSE troubles
    /\ UNCHANGED <<consents, comptes, autorisation, perime, effacement, attendus,
                   demandes, tardifs>>

-------------------------------------------------------------------------------
(* The worker, on the consent of the account it synchronises (see          *)
(* SynchroComptes): listed as active, and marked by its id later on.       *)

WorkerLit(k) ==
    /\ perime = Aucun
    /\ consents[k].statut = "active"
    /\ ComptesDuConsent(k) # {}
    /\ perime' = k
    /\ UNCHANGED <<consents, comptes, autorisation, requetes, effacement, histoire>>

WorkerMarqueExpire ==
    /\ perime # Aucun
    /\ EcrireStatut(perime, "expired")
    /\ perime' = Aucun
    /\ UNCHANGED <<comptes, autorisation, requetes, effacement, histoire>>

WorkerSynchronise ==
    /\ perime # Aucun
    /\ perime' = Aucun
    /\ UNCHANGED <<consents, comptes, autorisation, requetes, effacement, histoire>>

-------------------------------------------------------------------------------
(* The erasure of an owner: one message at a time. *)

RecevoirSuppression(p) ==
    /\ etapeEffacement = "repos"
    /\ efface' = p
    /\ etapeEffacement' = "listage"
    /\ UNCHANGED <<consents, comptes, autorisation, requetes, perime, aRevoquer,
                   histoire>>

ListerActifs ==
    /\ etapeEffacement = "listage"
    /\ aRevoquer' = {k \in ConsentsDe(efface) : consents[k].statut = "active"}
    /\ etapeEffacement' = "revocation"
    /\ tardifs' = {}
    /\ UNCHANGED <<consents, comptes, autorisation, requetes, perime, efface, attendus,
                   interrompus, inseres, demandes, troubles>>

(* DELETE /sessions/{external_ref}: the call is what counts; the consent it *)
(* returns, "revoked", is dropped.                                         *)
RevoquerConsentement(k) == demandes' = demandes \cup {k}

(* revoquer_consentement: an error is logged and the loop goes on. *)
Revoquer(k) ==
    /\ etapeEffacement = "revocation"
    /\ k \in aRevoquer
    /\ aRevoquer' = aRevoquer \ {k}
    /\ RevoquerConsentement(k)
    /\ UNCHANGED <<consents, comptes, autorisation, requetes, perime, efface,
                   etapeEffacement, attendus, interrompus, inseres, tardifs, troubles>>

(* Mutant: a revocation that fails does not hold the deletion up. *)
SupprimerComptesSansAttendre ==
    /\ etapeEffacement = "revocation"
    /\ aRevoquer' = {}
    /\ comptes' = {a \in comptes : ProprietaireDe[a[1]] # efface}
    /\ interrompus' = interrompus \cup ConsentsDe(efface)
    /\ etapeEffacement' = "consents"
    /\ UNCHANGED <<consents, autorisation, requetes, perime, efface,
                   attendus, inseres, demandes, tardifs, troubles>>

SupprimerComptes ==
    /\ etapeEffacement = "revocation"
    /\ aRevoquer = {}
    /\ comptes' = {a \in comptes : ProprietaireDe[a[1]] # efface}
    /\ interrompus' = interrompus \cup ConsentsDe(efface)
    /\ etapeEffacement' = "consents"
    /\ UNCHANGED <<consents, autorisation, requetes, perime, efface, aRevoquer,
                   attendus, inseres, demandes, tardifs, troubles>>

(* ON DELETE CASCADE takes the accounts attached since. *)
SupprimerConsents ==
    /\ etapeEffacement = "consents"
    /\ consents' = [k \in Consents |->
                      IF ProprietaireDe[k] = efface /\ EnBase(k)
                      THEN [consents[k] EXCEPT !.statut = "supprime"]
                      ELSE consents[k]]
    /\ comptes' = {a \in comptes : ProprietaireDe[a[1]] # efface}
    /\ etapeEffacement' = "repos"
    /\ efface' = Aucun
    /\ demandes' = {}
    /\ tardifs' = {}
    /\ UNCHANGED <<autorisation, requetes, perime, aRevoquer, attendus, interrompus,
                   inseres, troubles>>

(* A failed statement: the error is logged, the message is gone. *)
EffacementEchoue ==
    /\ etapeEffacement # "repos"
    /\ etapeEffacement' = "repos"
    /\ efface' = Aucun
    /\ aRevoquer' = {}
    /\ demandes' = {}
    /\ tardifs' = {}
    /\ UNCHANGED <<consents, comptes, autorisation, requetes, perime, attendus,
                   interrompus, inseres, troubles>>

-------------------------------------------------------------------------------
(* Time, and the death of the process. *)

Vieillir(k) ==
    /\ EnBase(k)
    /\ consents[k].echeance = "loin"
    /\ consents' = [consents EXCEPT ![k].echeance = "proche"]
    /\ UNCHANGED <<comptes, autorisation, requetes, perime, effacement, histoire>>

Panne ==
    /\ interrompus' = interrompus \cup
                        {cible[r] : r \in {q \in Requetes : etape[q] \in Completion}}
    /\ troubles' = troubles \cup
                     {cible[r] : r \in {q \in Requetes : etape[q] \in CodePerdu}}
    /\ etape' = [r \in Requetes |-> "libre"]
    /\ cible' = [r \in Requetes |-> Aucun]
    /\ rendus' = [r \in Requetes |-> {}]
    /\ reste' = [r \in Requetes |-> {}]
    /\ inseres' = [r \in Requetes |-> {}]
    /\ perime' = Aucun
    /\ efface' = Aucun
    /\ etapeEffacement' = "repos"
    /\ aRevoquer' = {}
    /\ demandes' = {}
    /\ tardifs' = {}
    /\ UNCHANGED <<consents, comptes, autorisation, attendus>>

-------------------------------------------------------------------------------
Requete(r) ==
    \/ \E k \in Vises : Creer(r, k) \/ Completer(r, k) \/ Renouveler(r, k)
    \/ Initier(r) \/ EnregistrerInitie(r)
    \/ SessionOuverte(r) \/ SessionRefusee(r) \/ EchecConsentement(r)
    \/ Activer(r) \/ ListerComptes(r) \/ Verifier(r) \/ Refuser(r)
    \/ EnregistrerCompte(r) \/ TerminerCompletion(r)
    \/ MettreEnAttente(r) \/ ErreurRequete(r)

Effacement ==
    \/ \E p \in Effacables : RecevoirSuppression(p)
    \/ ListerActifs
    \/ \E k \in Consents : Revoquer(k)
    \/ SupprimerComptes \/ SupprimerConsents \/ EffacementEchoue

Next ==
    \/ \E r \in Requetes : Requete(r)
    \/ \E k \in Vises : Accorder(k) \/ Abandonner(k) \/ WorkerLit(k) \/ Vieillir(k)
    \/ WorkerMarqueExpire \/ WorkerSynchronise
    \/ Effacement
    \/ Panne

Spec == Init /\ [][Next]_vars

-------------------------------------------------------------------------------
(***************************************************************************)
(* Properties.                                                             *)
(***************************************************************************)

(* incident_compte_dun_autre.rs:273: "un second utilisateur à qui la       *)
(* banque rend le même compte est refusé, et rien n'est importé chez lui". *)
UnSeulProprietaire ==
    \A a, b \in comptes : a[2] = b[2] => ProprietaireDe[a[1]] = ProprietaireDe[b[1]]

(* An active consent that no completion is working on has every account the *)
(* bank returned last for it, unless its completion was cut short.  A bank  *)
(* that returns none leaves an active consent without account, and the      *)
(* handler calls that a success.                                            *)
ActifComplet ==
    \A k \in Consents :
        /\ consents[k].statut = "active"
        /\ k \notin interrompus
        /\ \A r \in Requetes : cible[r] = k => etape[r] \notin Completion
        => attendus[k] \subseteq ComptesDuConsent(k)

(* "On refuse en bloc plutôt que d'importer": a refusal comes before the   *)
(* first row, whatever the order of the accounts and of other requests.    *)
RefusEnBloc ==
    \A r \in Requetes : etape[r] = "refus" => inseres[r] = {}

(* A consent that was erased never comes back: neither a handler nor the   *)
(* worker that still holds it revives the row or hangs an account on it.   *)
EffaceDefinitif ==
    [][\A k \in Consents :
         consents[k].statut = "supprime"
           => /\ consents'[k].statut = "supprime"
              /\ ComptesDuConsent(k)' = {}]_vars

(* An erasure asks the bank to end each session before it forgets it,      *)
(* those activated after its listing excepted.                             *)
RevocationAvantSuppression ==
    [][\A k \in Consents :
         consents[k].statut = "active" /\ consents'[k].statut = "supprime"
           => k \in demandes \/ k \in tardifs]_vars

(* The code of the authorisation, if any, has not been spent.              *)
NonDepensees == {"ouverte", "accordee", "abandonnee"}

(* The program never closes the owner's way back by itself: a pending       *)
(* consent that nobody works on may be renewed, or its authorisation is      *)
(* still open at the bank, or has a code the callback may spend, or was      *)
(* given up by the user.  The program learns nothing of the last: a consent  *)
(* given up stays pending, out of the worker's listing and not renewable     *)
(* before its last week.  The exceptions: a request lost between the moment   *)
(* the bank took the code and the UPDATE that says so, and a renewal that    *)
(* overlapped another request on the consent (renew_consent looks at the     *)
(* status before it asks the bank, and overwrites it after,                  *)
(* banques.rs:185-205).                                                      *)
VoieDeRetour ==
    \A k \in Consents :
        /\ consents[k].statut = "pending"
        /\ k \notin troubles
        /\ \A r \in Requetes : cible[r] # k
        => autorisation[k] \in NonDepensees \/ EstRenouvelable(k)

=============================================================================
