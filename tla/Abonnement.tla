------------------------------ MODULE Abonnement ------------------------------
(***************************************************************************)
(* The subscriber of user.deleted: the broker's side of the subscription,  *)
(* the loop of relay/abonne.rs that awaits the handler between two polls,  *)
(* the erasure it runs (relay/handler.rs, domain/effacement.rs) and the    *)
(* life of the process around it (main.rs).                                *)
(*                                                                         *)
(* Rattachement models what the erasure meets in the tables; here it is a  *)
(* step of a loop that a link, a bank, a database and a stop can hold up.  *)
(***************************************************************************)
EXTENDS Naturals, Sequences, SequencesExt

CONSTANTS
    Proprietaires,  \* the values of sub
    Illisible,      \* a payload parser_user_deleted refuses
    Aucun,          \* no message under way
    Actifs,         \* ids of the active consents an owner may have
    Nouveau,        \* id of the consent create_consent adds
    MaxMessages     \* bound: messages in the broker and in the client together

ASSUME ConstantesAbonnement ==
    /\ {Illisible, Aucun} \cap Proprietaires = {}
    /\ Illisible # Aucun
    /\ Nouveau \notin Actifs
    /\ MaxMessages \in Nat \ {0}

Messages == Proprietaires \cup {Illisible}
Ids == Actifs \cup {Nouveau}

VARIABLES
    lien,           \* the connection to the broker stands
    abonnement,     \* "a_envoyer" (in the client's channel), "actif" (the broker has it), "perdu"
    courtier,       \* messages the broker holds for the session (external)
    recus,          \* messages acknowledged and not handled yet
    boucle,         \* where the task stands
    enCours,        \* the message it handles
    aRevoquer,      \* active consents not revoked yet
    muette,         \* the bank does not answer the call under way
    consents,       \* budgy.consent, per owner
    statut,         \* status of the owner's new consent, "pending" when there is none
    comptes,        \* per owner, the consents that have rows in budgy.bank_account
    creations,      \* owners with a create_consent between the bank and the INSERT
    rappels,        \* per owner, where the complete_consent of the new consent stands
    annonces,       \* history: owners whose deletion was published
    manques,        \* history: owners of whom a message was lost, or an erasure cut
    effaces,        \* history: owners whose last erasure reached its end
    tardifs         \* history: owners with a consent created after it

processus == <<lien, abonnement, recus, boucle, enCours, aRevoquer, muette>>
tables == <<consents, statut, comptes>>
requetes == <<creations, rappels>>
histoire == <<annonces, manques, effaces, tardifs>>
vars == <<lien, abonnement, courtier, recus, boucle, enCours, aRevoquer, muette,
          consents, statut, comptes, creations, rappels, annonces, manques, effaces,
          tardifs>>

Init ==
    /\ lien = FALSE
    /\ abonnement = "a_envoyer"
    /\ courtier = <<>>
    /\ recus = <<>>
    /\ boucle = "attente"
    /\ enCours = Aucun
    /\ aRevoquer = {}
    /\ muette = FALSE
    /\ consents \in [Proprietaires -> SUBSET Actifs]
    /\ statut = [p \in Proprietaires |-> "pending"]
    /\ comptes = consents
    /\ creations = {}
    /\ rappels = [p \in Proprietaires |-> "aucun"]
    /\ annonces = {}
    /\ manques = {}
    /\ effaces = {}
    /\ tardifs = {}

-------------------------------------------------------------------------------
(* The broker and the link. *)

(* The account service publishes; a session that is not subscribed, or not  *)
(* there, gets nothing.                                                     *)
Publier(msg) ==
    /\ Len(courtier) + Len(recus) < MaxMessages
    /\ annonces' = annonces \cup ({msg} \cap Proprietaires)
    /\ IF lien /\ abonnement = "actif"
       THEN courtier' = Append(courtier, msg) /\ UNCHANGED manques
       ELSE manques' = manques \cup ({msg} \cap Proprietaires) /\ UNCHANGED courtier
    /\ UNCHANGED <<processus, tables, requetes, effaces, tardifs>>

(* The network, or the broker when no ping came while the handler was at    *)
(* work.  The session was clean: queue and subscription go with it, and a   *)
(* request still in the channel may go too.                                 *)
LienRompt ==
    /\ lien
    /\ lien' = FALSE
    /\ courtier' = <<>>
    /\ manques' = manques \cup (ToSet(courtier) \cap Proprietaires)
    /\ \/ abonnement' = "perdu"
       \/ abonnement = "a_envoyer" /\ UNCHANGED abonnement
    /\ UNCHANGED <<recus, boucle, enCours, aRevoquer, muette, tables, requetes,
                   annonces, effaces, tardifs>>

-------------------------------------------------------------------------------
(* event_loop.poll(). *)

(* poll fails, and the task sleeps. *)
Interrompre ==
    /\ boucle = "attente" /\ recus = <<>>
    /\ ~lien
    /\ boucle' = "pause"
    /\ UNCHANGED <<lien, abonnement, courtier, recus, enCours, aRevoquer, muette, tables,
                   requetes, histoire>>

(* Then polls again, which connects if it can. *)
Reprendre ==
    /\ boucle = "pause"
    /\ boucle' = "attente"
    /\ lien' \in BOOLEAN
    /\ UNCHANGED <<abonnement, courtier, recus, enCours, aRevoquer, muette, tables,
                   requetes, histoire>>

(* The only SUBSCRIBE, queued before the loop. *)
Abonner ==
    /\ boucle = "attente"
    /\ lien
    /\ abonnement = "a_envoyer"
    /\ abonnement' = "actif"
    /\ UNCHANGED <<lien, courtier, recus, boucle, enCours, aRevoquer, muette, tables,
                   requetes, histoire>>

(* A read takes several packets and acknowledges each. *)
Recevoir ==
    /\ boucle = "attente" /\ lien
    /\ courtier # <<>>
    /\ recus' = Append(recus, Head(courtier))
    /\ courtier' = Tail(courtier)
    /\ UNCHANGED <<lien, abonnement, boucle, enCours, aRevoquer, muette, tables, requetes,
                   histoire>>

-------------------------------------------------------------------------------
(* handler.traiter, awaited inside the loop. *)

(* Mutant: an unreadable payload ends the batch it came with. *)
TraiterParLot ==
    /\ boucle = "attente"
    /\ recus # <<>>
    /\ recus' = IF Head(recus) = Illisible THEN <<>> ELSE Tail(recus)
    /\ \/ Head(recus) = Illisible /\ UNCHANGED <<boucle, enCours>>
       \/ Head(recus) # Illisible /\ boucle' = "listage" /\ enCours' = Head(recus)
    /\ UNCHANGED <<lien, abonnement, courtier, aRevoquer, muette, tables, requetes,
                   histoire>>

(* appliquer: an unreadable payload is logged and dropped. *)
Traiter ==
    /\ boucle = "attente"
    /\ recus # <<>>
    /\ recus' = Tail(recus)
    /\ \/ Head(recus) = Illisible /\ UNCHANGED <<boucle, enCours>>
       \/ Head(recus) # Illisible /\ boucle' = "listage" /\ enCours' = Head(recus)
    /\ UNCHANGED <<lien, abonnement, courtier, aRevoquer, muette, tables, requetes,
                   histoire>>

(* The active consents of an owner, those attached since included. *)
ActifsDe(p) == {k \in consents[p] : k \in Actifs \/ statut[p] = "active"}

Lister ==
    /\ boucle = "listage"
    /\ aRevoquer' = ActifsDe(enCours)
    /\ boucle' = "revocation"
    /\ UNCHANGED <<lien, abonnement, courtier, recus, enCours, muette, tables, requetes,
                   histoire>>

(* No timeout on the client: a bank may keep a call for ever. *)
BanqueMuette ==
    /\ boucle = "revocation" /\ aRevoquer # {}
    /\ ~muette
    /\ muette' = TRUE
    /\ UNCHANGED <<lien, abonnement, courtier, recus, boucle, enCours, aRevoquer, tables,
                   requetes, histoire>>

(* Mutant: a refused revocation ends the erasure, as "?" would. *)
RevoquerOuRenoncer(k) ==
    /\ boucle = "revocation" /\ ~muette
    /\ k \in aRevoquer
    /\ \/ aRevoquer' = aRevoquer \ {k} /\ UNCHANGED <<boucle, enCours>>
       \/ aRevoquer' = {} /\ boucle' = "attente" /\ enCours' = Aucun
    /\ UNCHANGED <<lien, abonnement, courtier, recus, muette, tables, requetes, histoire>>

(* Done or refused: a refusal is logged, the loop goes on. *)
Revoquer(k) ==
    /\ boucle = "revocation" /\ ~muette
    /\ k \in aRevoquer
    /\ aRevoquer' = aRevoquer \ {k}
    /\ UNCHANGED <<lien, abonnement, courtier, recus, boucle, enCours, muette, tables,
                   requetes, histoire>>

SupprimerComptes ==
    /\ boucle = "revocation"
    /\ aRevoquer = {}
    /\ comptes' = [comptes EXCEPT ![enCours] = {}]
    /\ boucle' = "consents"
    /\ UNCHANGED <<lien, abonnement, courtier, recus, enCours, aRevoquer, muette, consents,
                   statut, requetes, histoire>>

(* Whatever their status, and with the accounts attached since the DELETE.  *)
SupprimerConsents ==
    /\ boucle = "consents"
    /\ consents' = [consents EXCEPT ![enCours] = {}]
    /\ statut' = [statut EXCEPT ![enCours] = "pending"]
    /\ comptes' = [comptes EXCEPT ![enCours] = {}]
    /\ boucle' = "attente"
    /\ enCours' = Aucun
    /\ effaces' = effaces \cup {enCours}
    /\ manques' = manques \ {enCours}
    /\ tardifs' = tardifs \ {enCours}
    /\ UNCHANGED <<lien, abonnement, courtier, recus, aRevoquer, muette, requetes, annonces>>

(* "?" on a statement: logged; the message was acknowledged long ago. *)
EffacementEchoue ==
    /\ boucle \in {"listage", "consents"} \/ (boucle = "revocation" /\ aRevoquer = {})
    /\ boucle' = "attente"
    /\ enCours' = Aucun
    /\ manques' = manques \cup {enCours}
    /\ UNCHANGED <<lien, abonnement, courtier, recus, aRevoquer, muette, tables, requetes,
                   annonces, effaces, tardifs>>

-------------------------------------------------------------------------------
(* The process. *)

(* arreter aborts the task wherever it is; a crash does no more. *)
Eteindre ==
    /\ boucle # "eteinte"
    /\ boucle' = "eteinte"
    /\ lien' = FALSE
    /\ abonnement' = "perdu"
    /\ courtier' = <<>>
    /\ recus' = <<>>
    /\ enCours' = Aucun
    /\ aRevoquer' = {}
    /\ muette' = FALSE
    /\ creations' = {}
    /\ rappels' = [p \in Proprietaires |-> "aucun"]
    /\ manques' = manques \cup
                    (Proprietaires \cap (ToSet(courtier) \cup ToSet(recus) \cup {enCours}))
    /\ UNCHANGED <<tables, annonces, effaces, tardifs>>

(* A new client, with its SUBSCRIBE. *)
Demarrer ==
    /\ boucle = "eteinte"
    /\ boucle' = "attente"
    /\ abonnement' = "a_envoyer"
    /\ UNCHANGED <<lien, courtier, recus, enCours, aRevoquer, muette, tables, requetes,
                   histoire>>

-------------------------------------------------------------------------------
(* The requests of a token that outlives the account, beside the loop.  One *)
(* new consent per owner at a time (bound), and a new one only once the     *)
(* callback of the last is over: an id is never used twice.                 *)

(* create_consent, up to the bank's answer. *)
Creer(p) ==
    /\ boucle # "eteinte"
    /\ Nouveau \notin consents[p] /\ rappels[p] = "aucun"
    /\ creations' = creations \cup {p}
    /\ UNCHANGED <<courtier, processus, tables, rappels, histoire>>

EnregistrerInitie(p) ==
    /\ p \in creations
    /\ creations' = creations \ {p}
    /\ consents' = [consents EXCEPT ![p] = @ \cup {Nouveau}]
    /\ statut' = [statut EXCEPT ![p] = "pending"]
    /\ tardifs' = tardifs \cup ({p} \cap effaces)
    /\ UNCHANGED <<courtier, processus, comptes, rappels, annonces, manques, effaces>>

(* complete_consent reads a pending row; one that is not has its answer. *)
Rappeler(p) ==
    /\ boucle # "eteinte"
    /\ Nouveau \in consents[p] /\ statut[p] = "pending" /\ rappels[p] = "aucun"
    /\ rappels' = [rappels EXCEPT ![p] = "session"]
    /\ UNCHANGED <<courtier, processus, tables, creations, histoire>>

(* UPDATE ... WHERE id: nothing, and no error, when the row is gone.        *)
MarquerStatut(p, nouveau) ==
    statut' = IF Nouveau \in consents[p] THEN [statut EXCEPT ![p] = nouveau] ELSE statut

(* The bank has taken the code, or refused it.                              *)
Activer(p) ==
    /\ rappels[p] = "session"
    /\ \/ MarquerStatut(p, "active") /\ rappels' = [rappels EXCEPT ![p] = "comptes"]
       \/ MarquerStatut(p, "failed") /\ rappels' = [rappels EXCEPT ![p] = "aucun"]
    /\ UNCHANGED <<courtier, processus, consents, comptes, creations, histoire>>

(* Mutant: account rows without the foreign key to their consent.           *)
InsererSansConsent(p) ==
    /\ rappels[p] = "comptes"
    /\ comptes' = [comptes EXCEPT ![p] = @ \cup {Nouveau}]
    /\ UNCHANGED <<courtier, processus, consents, statut, requetes, histoire>>

(* One account of the list: the foreign key refuses the row of a consent    *)
(* that was erased, and the request ends on the error.                      *)
Inserer(p) ==
    /\ rappels[p] = "comptes"
    /\ \/ /\ Nouveau \in consents[p]
          /\ comptes' = [comptes EXCEPT ![p] = @ \cup {Nouveau}]
          /\ UNCHANGED rappels
       \/ /\ Nouveau \notin consents[p]
          /\ rappels' = [rappels EXCEPT ![p] = "aucun"]
          /\ UNCHANGED comptes
    /\ UNCHANGED <<courtier, processus, consents, statut, creations, histoire>>

(* The end of the list, an empty one included, or an error; or an account   *)
(* of somebody else's in it, before any INSERT.                             *)
Terminer(p) ==
    /\ rappels[p] = "comptes"
    /\ rappels' = [rappels EXCEPT ![p] = "aucun"]
    /\ \/ UNCHANGED statut
       \/ Nouveau \notin comptes[p] /\ MarquerStatut(p, "failed")
    /\ UNCHANGED <<courtier, processus, consents, comptes, creations, histoire>>

-------------------------------------------------------------------------------
Boucle ==
    \/ Interrompre \/ Reprendre \/ Abonner \/ Recevoir
    \/ Traiter \/ Lister \/ \E k \in Ids : Revoquer(k)
    \/ SupprimerComptes \/ SupprimerConsents

Next ==
    \/ Boucle
    \/ \E msg \in Messages : Publier(msg)
    \/ LienRompt \/ BanqueMuette \/ EffacementEchoue
    \/ Eteindre \/ Demarrer
    \/ \E p \in Proprietaires :
          \/ Creer(p) \/ EnregistrerInitie(p)
          \/ Rappeler(p) \/ Activer(p) \/ Inserer(p) \/ Terminer(p)

(* A task that can go on does; nothing else is sure to happen.             *)
Spec == Init /\ [][Next]_vars /\ WF_vars(Boucle)

-------------------------------------------------------------------------------
EnRoute(p) == p = enCours \/ p \in ToSet(courtier) \cup ToSet(recus)

(* A deletion the broker accepted for us ends with the owner's rows gone,   *)
(* whatever the bank answers to each revocation and whatever else is in the *)
(* queue, unless a message was lost with the link or the process, a         *)
(* statement failed, or the bank keeps a call open for ever: the other      *)
(* owners of the queue then wait behind it (relay/abonne.rs:65-76,          *)
(* domain/effacement.rs:69-79).                                             *)
EffacementAboutit ==
    \A p \in Proprietaires :
        EnRoute(p) ~> (p \in effaces \/ p \in manques \/ muette)

(* Rows that outlive the announced deletion of their owner have one of      *)
(* three explanations: a message never received, an erasure cut, or a       *)
(* consent recorded once the erasure was over, by a token that outlives the *)
(* account, whose callback may then attach accounts anew.  Never the        *)
(* content of another message, the status of a row, or a callback that was  *)
(* attaching the accounts of an older consent while the erasure ran         *)
(* (relay/handler.rs:27-60, domain/effacement.rs:81-89,                     *)
(* handlers/banques.rs:107-166).                                            *)
ResteExplique ==
    \A p \in annonces :
        ~EnRoute(p) /\ p \notin manques =>
            /\ comptes[p] \subseteq consents[p]
            /\ consents[p] # {} => consents[p] = {Nouveau} /\ p \in tardifs

=============================================================================
