---------------------------- MODULE Categorisation ----------------------------
(***************************************************************************)
(* How the transactions of one owner get a category: at insertion by the   *)
(* worker, by a rule that is applied to the past, by hand, and by the      *)
(* reconciliation the portal calls when it loads (transfers, rules, then   *)
(* credits).  Labels and amounts are encrypted, so every automatic path    *)
(* SELECTs rows, decides in the program and UPDATEs later; nothing holds a  *)
(* transaction open in between, and all these paths run at the same time.  *)
(*                                                                         *)
(* Every statement filters on owner_id: one owner is modelled.  A          *)
(* transaction, a rule or a category is an id whose contents (amount,      *)
(* words, pattern, priority) are constants.                                *)
(***************************************************************************)
EXTENDS TransfertsInternes

CONSTANTS
    Transactions,       \* natural numbers
    Donnees,            \* per transaction: compte, montant, date, mots
    Annonces,           \* per transaction, the versions the bank may send
    Presentes,          \* the transactions stored at the start, unclassified
    Regles,             \* the rules the user may create
    RegleDe,            \* per rule: categorie, priorite, motif
    Categories,
    Systeme,            \* the seeded categories (owner_id NULL)
    Salaires,           \* the categories named "Salaire", of kind revenu
    VirementsInternes,  \* CATEGORIE_VIREMENTS_INTERNES
    Requetes,           \* the tasks that serve requests
    Limite,             \* LIMITE_RETROACTIF
    Sans                \* NULL

ASSUME ConstantesCategorisation ==
    /\ Transactions \subseteq Nat
    /\ Presentes \subseteq Transactions
    /\ \A t \in Transactions :
         Annonces[t] \subseteq [statut : {"pending", "booked"}, datee : BOOLEAN]
    /\ RegleDe \in [Regles -> [categorie : Categories, priorite : Int,
                               motif : SUBSET Transactions]]
    /\ Systeme \subseteq Categories
    /\ Salaires \subseteq Categories
    /\ VirementsInternes \in Systeme \ Salaires
    /\ Sans \notin Categories \cup Regles
    /\ Limite \in Nat

Sources == {"none", "rule", "manual"}

(* budgy.bank_transaction; datee: booking_date or value_date is there. *)
Lignes == [statut : {"absente", "pending", "booked"}, datee : BOOLEAN,
           categorie : Categories \cup {Sans}, source : Sources,
           regle : Regles \cup {Sans}, interne : BOOLEAN]

Etapes == {"libre", "candidats", "lot", "reinitialiser", "marquer", "regles",
           "salaire", "credits", "defaut", "ranger"}

VARIABLES
    lignes,         \* the transactions
    categories,     \* budgy.category: to come, there, or deleted
    regles,         \* the rules created so far, in the order of created_at
    insertion,      \* the worker: the row it has just inserted
    req,            \* per request, where its handler stands and what it holds
    incident        \* history: something failed, or a category was deleted

vars == <<lignes, categories, regles, insertion, req, incident>>

Demandes == [etape : Etapes, tache : {"aucune", "regle", "reconciliation", "choix"},
             regle : Regles \cup {Sans}, file : Seq(Regles),
             cibles : SUBSET Transactions, categorie : Categories \cup {Sans}]

Libre == [etape |-> "libre", tache |-> "aucune", regle |-> Sans, file |-> <<>>,
          cibles |-> {}, categorie |-> Sans]

TypeOK ==
    /\ lignes \in [Transactions -> Lignes]
    /\ categories \in [Categories -> {"aVenir", "existe", "supprimee"}]
    /\ regles \in Seq(Regles) /\ IsInjective(regles)
    /\ insertion \in [etape : {"repos", "regles", "appliquer"},
                      tx : Transactions \cup {Sans}, regle : Regles \cup {Sans}]
    /\ req \in [Requetes -> Demandes]
    /\ incident \in BOOLEAN

Vierge == [statut |-> "absente", datee |-> FALSE, categorie |-> Sans,
           source |-> "none", regle |-> Sans, interne |-> FALSE]

Repos == [etape |-> "repos", tx |-> Sans, regle |-> Sans]

Init ==
    /\ lignes = [t \in Transactions |->
                   IF t \in Presentes
                   THEN [Vierge EXCEPT !.statut = "booked", !.datee = TRUE]
                   ELSE Vierge]
    /\ categories = [c \in Categories |-> IF c \in Systeme THEN "existe" ELSE "aVenir"]
    /\ regles = <<>>
    /\ insertion = Repos
    /\ req = [q \in Requetes |-> Libre]
    /\ incident = FALSE

-------------------------------------------------------------------------------
(* Reading the tables. *)

Stockees == {t \in Transactions : lignes[t].statut # "absente"}

Existe(c) == categories[c] = "existe"

Correspond(r, t) == t \in RegleDe[r].motif

RangS(r) == CHOOSE i \in DOMAIN regles : regles[i] = r

(* priority DESC, created_at DESC *)
MieuxClassee(r, s) ==
    \/ RegleDe[r].priorite > RegleDe[s].priorite
    \/ RegleDe[r].priorite = RegleDe[s].priorite /\ RangS(r) > RangS(s)

(* budgy.regles_categorisation: no handler deletes a rule, but its category *)
(* takes it along (ON DELETE CASCADE).                                      *)
EnVigueur == {r \in Range(regles) : Existe(RegleDe[r].categorie)}

(* lister_pour_proprietaire: the one list that is sorted. *)
Listes ==
    {file \in UNION {[1..n -> EnVigueur] : n \in 0..Len(regles)} :
        /\ \A i, j \in DOMAIN file : i < j => MieuxClassee(file[i], file[j])
        /\ Range(file) = EnVigueur}

(* selectionner_regle *)
Meilleure(r, t) ==
    /\ r \in EnVigueur /\ Correspond(r, t)
    /\ \A s \in EnVigueur \ {r} : Correspond(s, t) => MieuxClassee(r, s)

(* Filed by hand in a real category: a hint for the pairing, not a veto. *)
RangeALaMain(t) ==
    lignes[t].source = "manual" /\ lignes[t].categorie \notin {Sans, VirementsInternes}

(* Mutant: the rows already marked are not read, as in every other query. *)
MouvementsNonInternes ==
    {[id |-> t, compte |-> Donnees[t].compte, montant |-> Donnees[t].montant,
      date |-> Donnees[t].date, mots |-> Donnees[t].mots,
      rangeALaMain |-> RangeALaMain(t)] :
       t \in {u \in Stockees : lignes[u].datee /\ ~lignes[u].interne}}

(* lister_mouvements_pour_appariement: the rows without a date are skipped. *)
Mouvements ==
    {[id |-> t, compte |-> Donnees[t].compte, montant |-> Donnees[t].montant,
      date |-> Donnees[t].date, mots |-> Donnees[t].mots,
      rangeALaMain |-> RangeALaMain(t)] : t \in {u \in Stockees : lignes[u].datee}}

(* Mutant: a row that is still pending is not listed. *)
NonCategoriseesDefinitives ==
    {t \in Stockees : /\ lignes[t].categorie = Sans /\ ~lignes[t].interne
                      /\ lignes[t].statut = "booked"}

NonCategorisees ==
    {t \in Stockees : lignes[t].categorie = Sans /\ ~lignes[t].interne}

CreditsNonCategorises ==
    {t \in Stockees : lignes[t].source = "none" /\ ~lignes[t].interne}

(* LIMIT without ORDER BY: any Limite rows. *)
Plafonner(S) == IF Cardinality(S) <= Limite THEN {S} ELSE kSubset(Limite, S)

(* categorie_credit_par_defaut: the owner's own before the seeded one. *)
ParDefaut(c) ==
    /\ c \in Salaires /\ Existe(c)
    /\ c \in Systeme => \A d \in Salaires \ Systeme : ~Existe(d)

-------------------------------------------------------------------------------
(* The UPDATEs: the rows that satisfy WHERE, and a foreign key behind. *)

Ecrire(S, Nouvelle(_)) ==
    lignes' = [t \in Transactions |-> IF t \in S THEN Nouvelle(lignes[t]) ELSE lignes[t]]

ParRegle(c, r, l) == [l EXCEPT !.categorie = c, !.source = "rule", !.regle = r]

(* Mutant: the batch forgets categorization_source = 'none'. *)
ToucheesSansSource(S) == S

(* WHERE id = ANY(ids) AND categorization_source = 'none' *)
Touchees(S) == {t \in S : lignes[t].source = "none"}

(* WHERE id = .. AND categorization_source <> 'manual' *)
Touchee(t) == {t} \ {u \in Transactions : lignes[u].source = "manual"}

(* category_id REFERENCES category: a deleted category fails the UPDATE. *)
ClefRespectee(S, c) == S = {} \/ Existe(c)

-------------------------------------------------------------------------------
(* The worker: enregistrer, one transaction after the other. *)

Inserer(t) == \E a \in Annonces[t] :
    /\ insertion = Repos
    /\ lignes[t].statut = "absente"
    /\ lignes' = [lignes EXCEPT ![t] =
                    [Vierge EXCEPT !.statut = a.statut, !.datee = a.datee]]
    /\ insertion' = [Repos EXCEPT !.etape = "regles", !.tx = t]
    /\ UNCHANGED <<categories, regles, req, incident>>

(* ON CONFLICT: only a pending row becomes booked, and takes the new dates; *)
(* any other repetition changes nothing, and neither applies the rules.     *)
Confirmer(t) == \E a \in Annonces[t] :
    /\ insertion = Repos
    /\ lignes[t].statut = "pending"
    /\ a.statut = "booked"
    /\ lignes' = [lignes EXCEPT ![t].statut = "booked", ![t].datee = a.datee]
    /\ UNCHANGED <<categories, regles, insertion, req, incident>>

(* categoriser_transaction_inseree reads the rules and selects one. *)
LireRegles ==
    /\ insertion.etape = "regles"
    /\ \/ \E r \in Regles :
            /\ Meilleure(r, insertion.tx)
            /\ insertion' = [insertion EXCEPT !.etape = "appliquer", !.regle = r]
       \/ /\ \A r \in EnVigueur : ~Correspond(r, insertion.tx)
          /\ insertion' = Repos
    /\ UNCHANGED <<lignes, categories, regles, req, incident>>

(* appliquer_regle; an error is logged and the insertion stands. *)
AppliquerRegle ==
    LET r == insertion.regle
        c == RegleDe[r].categorie
        S == Touchee(insertion.tx)
    IN  /\ insertion.etape = "appliquer"
        /\ IF ClefRespectee(S, c)
           THEN Ecrire(S, LAMBDA l : ParRegle(c, r, l)) /\ UNCHANGED incident
           ELSE UNCHANGED lignes /\ incident' = TRUE
        /\ insertion' = Repos
        /\ UNCHANGED <<categories, regles, req>>

(* A statement fails, or the process dies: the row stays as it is. *)
EchecInsertion ==
    /\ insertion # Repos
    /\ insertion' = Repos
    /\ incident' = TRUE
    /\ UNCHANGED <<lignes, categories, regles, req>>

-------------------------------------------------------------------------------
(* The requests. *)

Terminer(q) == req' = [req EXCEPT ![q] = Libre]

(* The batch of a rule is done: the next rule, the credits, or the answer. *)
Suite(q) ==
    IF req[q].file # <<>>
    THEN req' = [req EXCEPT ![q].etape = "candidats", ![q].regle = Head(req[q].file),
                            ![q].file = Tail(req[q].file), ![q].cibles = {}]
    ELSE IF req[q].tache = "reconciliation"
    THEN req' = [req EXCEPT ![q].etape = "salaire", ![q].regle = Sans, ![q].cibles = {}]
    ELSE Terminer(q)

(* create_rule and create_rule_from_transaction: INSERT .. SELECT from the  *)
(* category, so a missing category stores nothing (404).                    *)
CreerRegle(q, r) ==
    /\ req[q] = Libre
    /\ r \notin Range(regles)
    /\ Existe(RegleDe[r].categorie)
    /\ regles' = Append(regles, r)
    /\ req' = [req EXCEPT ![q] = [Libre EXCEPT !.etape = "candidats", !.tache = "regle",
                                                !.regle = r]]
    /\ UNCHANGED <<lignes, categories, insertion, incident>>

(* appliquer_regle_retroactif, first half: which rows, read and decrypted. *)
Candidats(q) ==
    /\ req[q].etape = "candidats"
    /\ \E lus \in Plafonner(NonCategorisees) :
         LET cibles == {t \in lus : Correspond(req[q].regle, t)}
         IN  IF cibles = {} THEN Suite(q)
             ELSE req' = [req EXCEPT ![q].etape = "lot", ![q].cibles = cibles]
    /\ UNCHANGED <<lignes, categories, regles, insertion, incident>>

(* Second half, the batch.  A rule whose category went away fails.  *)
Lot(q) ==
    LET r == req[q].regle
        c == RegleDe[r].categorie
        S == Touchees(req[q].cibles)
    IN  /\ req[q].etape = "lot"
        /\ IF ClefRespectee(S, c)
           THEN Ecrire(S, LAMBDA l : ParRegle(c, r, l)) /\ Suite(q) /\ UNCHANGED incident
           ELSE UNCHANGED lignes /\ Terminer(q) /\ incident' = TRUE
        /\ UNCHANGED <<categories, regles, insertion>>

(* recategoriser: recalculer_transferts_internes reads every movement. *)
Apparier(q) ==
    /\ req[q] = Libre
    /\ req' = [req EXCEPT ![q] = [Libre EXCEPT !.etape = "reinitialiser",
                                                !.tache = "reconciliation",
                                                !.cibles = Apparies(Mouvements)]]
    /\ UNCHANGED <<lignes, categories, regles, insertion, incident>>

Reinitialiser(q) ==
    /\ req[q].etape = "reinitialiser"
    /\ Ecrire({t \in Stockees : lignes[t].interne /\ lignes[t].categorie # VirementsInternes},
              LAMBDA l : [l EXCEPT !.interne = FALSE])
    /\ req' = [req EXCEPT ![q].etape = "marquer"]
    /\ UNCHANGED <<categories, regles, insertion, incident>>

(* Mutant: the mark leaves the automatic category. *)
MarqueeSansRetrait(l) == [l EXCEPT !.interne = TRUE]

(* The mark takes an automatic category away and keeps a manual one. *)
Marquee(l) ==
    IF l.source = "manual" THEN [l EXCEPT !.interne = TRUE]
    ELSE [l EXCEPT !.interne = TRUE, !.categorie = Sans, !.source = "none", !.regle = Sans]

Marquer(q) ==
    /\ req[q].etape = "marquer"
    /\ Ecrire({t \in req[q].cibles : ~lignes[t].interne}, Marquee)
    /\ req' = [req EXCEPT ![q].etape = "regles", ![q].cibles = {}]
    /\ UNCHANGED <<categories, regles, insertion, incident>>

(* lister_pour_proprietaire, then one retroactive application per rule. *)
ListerRegles(q) ==
    /\ req[q].etape = "regles"
    /\ \E file \in Listes :
         req' = [req EXCEPT
             ![q] = IF file = <<>> THEN [@ EXCEPT !.etape = "salaire"]
                    ELSE [@ EXCEPT !.etape = "candidats", !.regle = Head(file),
                                   !.file = Tail(file)]]
    /\ UNCHANGED <<lignes, categories, regles, insertion, incident>>

ChoisirSalaire(q) ==
    /\ req[q].etape = "salaire"
    /\ \/ \E c \in Categories :
            /\ ParDefaut(c)
            /\ req' = [req EXCEPT ![q].etape = "credits", ![q].categorie = c]
       \/ /\ \A c \in Categories : ~ParDefaut(c)
          /\ Terminer(q)
    /\ UNCHANGED <<lignes, categories, regles, insertion, incident>>

ListerCredits(q) ==
    /\ req[q].etape = "credits"
    /\ \E lus \in Plafonner(CreditsNonCategorises) :
         LET credits == {t \in lus : Donnees[t].montant >= 0}
         IN  IF credits = {} THEN Terminer(q)
             ELSE req' = [req EXCEPT ![q].etape = "defaut", ![q].cibles = credits]
    /\ UNCHANGED <<lignes, categories, regles, insertion, incident>>

(* appliquer_categorie_defaut_par_lot: source 'rule', but no rule. *)
ParDefautEnLot(q) ==
    LET c == req[q].categorie
        S == Touchees(req[q].cibles)
    IN  /\ req[q].etape = "defaut"
        /\ IF ClefRespectee(S, c)
           THEN Ecrire(S, LAMBDA l : ParRegle(c, Sans, l)) /\ UNCHANGED incident
           ELSE UNCHANGED lignes /\ incident' = TRUE
        /\ Terminer(q)
        /\ UNCHANGED <<categories, regles, insertion>>

(* categoriser: categorie_accessible, then the UPDATE. *)
Choisir(q, t, c) ==
    /\ req[q] = Libre
    /\ t \in Stockees
    /\ Existe(c)
    /\ req' = [req EXCEPT ![q] = [Libre EXCEPT !.etape = "ranger", !.tache = "choix",
                                                !.cibles = {t}, !.categorie = c]]
    /\ UNCHANGED <<lignes, categories, regles, insertion, incident>>

Ranger(q) ==
    LET c == req[q].categorie
    IN  /\ req[q].etape = "ranger"
        /\ IF Existe(c)
           THEN Ecrire(req[q].cibles,
                       LAMBDA l : [l EXCEPT !.categorie = c, !.source = "manual",
                                            !.regle = Sans,
                                            !.interne = (c = VirementsInternes)])
           ELSE UNCHANGED lignes
        /\ Terminer(q)
        /\ UNCHANGED <<categories, regles, insertion, incident>>

(* An error of the database (the ? of each step), a client that hangs up    *)
(* (axum drops the handler), a crash: the statements done remain.           *)
Interrompre(q) ==
    /\ req[q] # Libre
    /\ Terminer(q)
    /\ incident' = TRUE
    /\ UNCHANGED <<lignes, categories, regles, insertion>>

CreerCategorie(c) ==
    /\ categories[c] = "aVenir"
    /\ categories' = [categories EXCEPT ![c] = "existe"]
    /\ UNCHANGED <<lignes, regles, insertion, req, incident>>

(* Mutant: the trigger is missing, only ON DELETE SET NULL is left. *)
LibereeSansTrigger(l) == [l EXCEPT !.categorie = Sans]

(* The trigger resets source and rule, ON DELETE SET NULL the category. *)
Liberee(l) == [l EXCEPT !.categorie = Sans, !.source = "none", !.regle = Sans]

(* DELETE .. WHERE owner_id: not a seeded one.  Its rules go by CASCADE. *)
SupprimerCategorie(c) ==
    /\ Existe(c)
    /\ c \notin Systeme
    /\ categories' = [categories EXCEPT ![c] = "supprimee"]
    /\ Ecrire({t \in Transactions : lignes[t].categorie = c}, Liberee)
    /\ incident' = TRUE
    /\ UNCHANGED <<regles, insertion, req>>

Worker ==
    \/ \E t \in Transactions : Inserer(t) \/ Confirmer(t)
    \/ LireRegles
    \/ AppliquerRegle
    \/ EchecInsertion

Commencer(q) ==
    \/ \E r \in Regles : CreerRegle(q, r)
    \/ Apparier(q)
    \/ \E t \in Transactions, c \in Categories : Choisir(q, t, c)

Poursuivre(q) ==
    \/ Candidats(q)
    \/ Lot(q)
    \/ Reinitialiser(q)
    \/ Marquer(q)
    \/ ListerRegles(q)
    \/ ChoisirSalaire(q)
    \/ ListerCredits(q)
    \/ ParDefautEnLot(q)
    \/ Ranger(q)

PasRequete(q) == Commencer(q) \/ Poursuivre(q) \/ Interrompre(q)

PasCategorie == \E c \in Categories : CreerCategorie(c) \/ SupprimerCategorie(c)

Next == Worker \/ (\E q \in Requetes : PasRequete(q)) \/ PasCategorie

Spec == Init /\ [][Next]_vars

-------------------------------------------------------------------------------
(* category_id, categorization_source and rule_id are three columns written *)
(* by seven statements and a trigger: a row without a source has no          *)
(* category, and a rule on a row is a rule that exists and says that         *)
(* category.                                                                *)
SourceCoherente ==
    \A t \in Transactions :
        /\ lignes[t].source = "none" <=> lignes[t].categorie = Sans
        /\ lignes[t].regle # Sans =>
              /\ lignes[t].source = "rule"
              /\ lignes[t].regle \in EnVigueur
              /\ lignes[t].categorie = RegleDe[lignes[t].regle].categorie

(* Each automatic path selects its rows long before it writes them: a        *)
(* choice the user makes in between is never overwritten.  Only the user,    *)
(* or the deletion of the category, changes a row filed by hand.             *)
ChoixManuelConserve ==
    [][\A t \in Transactions :
         /\ lignes[t].source = "manual"
         /\ <<lignes[t].categorie, lignes[t].source, lignes[t].regle>>
              # <<lignes'[t].categorie, lignes'[t].source, lignes'[t].regle>>
         => \/ ~(categories'[lignes[t].categorie] = "existe")
            \/ \E q \in Requetes : req[q].etape = "ranger" /\ req[q].cibles = {t}
      ]_vars

(* Insertion writes the row and then reads the rules; the creation of a      *)
(* rule writes the rule and then reads the rows.  Whatever the order, one of  *)
(* them sees the other: when nothing is under way and nothing failed, no     *)
(* transaction that counts is left without a category that a rule gives.     *)
AucuneOubliee ==
    /\ ~incident
    /\ insertion = Repos
    /\ \A q \in Requetes : req[q] = Libre
    => \A t \in NonCategorisees, r \in EnVigueur : ~Correspond(r, t)

=============================================================================
