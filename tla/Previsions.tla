----------------------------- MODULE Previsions -----------------------------
(* The monthly screens: GET /forecast, /budgets/remaining and                *)
(* /expenses/by-category.  An answer is put together from separate SELECTs   *)
(* (handlers/previsionnel.rs, handlers/budgets.rs, handlers/depenses.rs)     *)
(* while the worker records balances and transactions, and while the owner   *)
(* changes the start day, the budgets and the categories.                    *)
(*                                                                           *)
(* One owner: every statement filters on owner_id.  A balance is the set of  *)
(* operations it counts, an aggregate the operations it adds up with their   *)
(* category; the amounts the answer shows are computed from these sets.      *)
(*                                                                           *)
(* The bank may show an operation pending, under a date of its own or none,  *)
(* before it books it.  The worker stores both, and the booked line replaces *)
(* the status and the dates of the pending row: an operation may change      *)
(* cycle between two SELECTs.  A row without any date is in no cycle.        *)
EXTENDS Cycles, Sequences, FiniteSets, FiniteSetsExt, Functions

CONSTANTS
    Operations,      \* [compte, annonce, date, montant, virement, attendue]: annonce
                     \* is the date of its pending line, date that of the booked one
    Annoncables,     \* bound: the operations the bank shows pending first
    Anterieures,     \* the operations recorded before the behaviour starts
    Comptes,         \* the accounts, in order of creation (a sequence)
    Ouverture,       \* the balance of all accounts before any operation
    Categories, Revenus, Personnelles,   \* kind = revenu; created by the owner
    Aucune,          \* category_id IS NULL
    Jours,           \* the start days the owner chooses from
    MoisDemandes, MontantsPrevus, Ecrans, MaxEcritures

\* COALESCE(booking_date, value_date) of a line with neither.
SansDate == -1

ASSUME OperationsBienFormees ==
    /\ Operations \subseteq [compte : Range(Comptes), annonce : Dates \cup {SansDate},
                             date : Dates \cup {SansDate}, montant : Int \ {0},
                             virement : BOOLEAN, attendue : Categories]
    /\ Annoncables \subseteq Operations
    /\ Anterieures \subseteq Operations /\ IsFiniteSet(Anterieures)

ASSUME ParametresBienFormes ==
    /\ Comptes \in Seq(Range(Comptes)) /\ IsInjective(Comptes)
    /\ Ouverture \in Int
    /\ Revenus \subseteq Categories /\ Personnelles \subseteq Categories
    /\ Aucune \notin Categories
    /\ Jours \subseteq JoursDebut /\ MoisDemandes \subseteq Int /\ MontantsPrevus \subseteq Nat
    /\ Ecrans \subseteq {"forecast", "remaining", "expenses"} /\ MaxEcritures \in Nat

VARIABLES
    annoncees,    \* the operations the bank has shown pending
    passees,      \* the operations the bank has booked
    soldes,       \* account -> the operations its stored balance counts
    enregistrees, \* the operations stored as transactions
    definitives,  \* those of them stored as booked
    rangee,       \* operation -> its category, or Aucune
    internes,     \* the transactions marked is_internal_transfer
    categories,   \* the categories that exist
    budgets,      \* <<category, month>> -> amount, the rows of budgy.budgets
    jour,         \* jour_debut_mois of the owner
    worker,       \* the synchronisation in progress
    lecture,      \* the request being answered
    remue,        \* history: something was written since the request began
    redatees,     \* history: the rows whose dates were replaced since then
    ecritures     \* number of requests of the owner that wrote something

base    == <<soldes, enregistrees, definitives, rangee, internes, categories, budgets, jour>>
banque  == <<annoncees, passees>>
donnees == <<banque, base, worker>>
vars    == <<donnees, lecture, remue, redatees, ecritures>>

MOIS_HISTORIQUE == 3

DuCompte(S, c) == {o \in S : o.compte = c}
Montants == [o \in Operations |-> o.montant]
Somme(S) == SumFunctionOnSet(Montants, S)
Valeur(n) == IF n < 0 THEN -n ELSE n
AuMoinsZero(n) == IF n < 0 THEN 0 ELSE n
Vide == [x \in {} |-> Aucune]

(*************************** the plan of a request ***************************)

Precedents == [k \in 1..(2 * MOIS_HISTORIQUE) |->
                 <<IF k % 2 = 1 THEN "depenses" ELSE "revenus", (k + 1) \div 2>>]

\* The reads of each handler after the preference, in their order; the second
\* field counts the accounts, or the cycles back.
PlanPrevision ==
    [i \in 1..Len(Comptes) |-> <<"solde", i>>]
      \o <<<<"depenses", 0>>, <<"revenus", 0>>>> \o Precedents \o <<<<"categories", 0>>>>

PlanReste ==
    <<<<"budgets", 0>>>>
      \o [k \in 1..(MOIS_HISTORIQUE + 1) |-> <<"depenses", k - 1>>] \o <<<<"categories", 0>>>>

PlanDepenses == <<<<"depenses", 0>>>>

Plan(ecran) ==
    CASE ecran = "forecast"  -> PlanPrevision
      [] ecran = "remaining" -> PlanReste
      [] OTHER               -> PlanDepenses

\* lecture.debits and .credits: cycles back -> an aggregate, with the category
\* of each operation (ids) and the categories that had a name (noms).
Repos == [ecran |-> "aucun", mois |-> 0, n |-> 1, jour |-> 0, soldes |-> <<>>, debits |-> Vide,
          credits |-> Vide, brut |-> Vide, budgets |-> Vide, categories |-> {}]

EnCours == lecture.ecran # "aucun" /\ lecture.n <= Len(Plan(lecture.ecran))
Rendue(ecran) == lecture.ecran = ecran /\ ~EnCours
Etape == Plan(lecture.ecran)[lecture.n]

\* The next read; it waits for the preference, and for the names of an aggregate.
Prochaine(quoi) == EnCours /\ lecture.jour # 0 /\ lecture.brut = Vide /\ Etape[1] = quoi

Avancer(l) == lecture' = [l EXCEPT !.n = @ + 1]

Demander(ecran, m) ==
    /\ ~EnCours
    /\ lecture' = [Repos EXCEPT !.ecran = ecran, !.mois = m]
    /\ remue' = FALSE
    /\ redatees' = {}
    /\ UNCHANGED <<donnees, ecritures>>

\* cycle_du_mois: the start day is read once for the whole request.
LirePreference ==
    /\ EnCours /\ lecture.jour = 0
    /\ lecture' = [lecture EXCEPT !.jour = jour]
    /\ UNCHANGED <<donnees, remue, redatees, ecritures>>

\* lister_soldes reads the balances account after account.
LireSolde ==
    /\ Prochaine("solde")
    /\ Avancer([lecture EXCEPT !.soldes = Append(@, soldes[Comptes[Etape[2]]])])
    /\ UNCHANGED <<donnees, remue, redatees, ecritures>>

LireBudgets ==
    /\ Prochaine("budgets")
    /\ LET cats == {c \in Categories : <<c, lecture.mois>> \in DOMAIN budgets} IN
       Avancer([lecture EXCEPT !.budgets = [c \in cats |-> budgets[<<c, lecture.mois>>]]])
    /\ UNCHANGED <<donnees, remue, redatees, ecritures>>

LireCategories ==
    /\ Prochaine("categories")
    /\ Avancer([lecture EXCEPT !.categories = categories])
    /\ UNCHANGED <<donnees, remue, redatees, ecritures>>

\* The month k cycles back: CycleMensuel::precedent k times.
Recul(k) == lecture.mois - k

\* The date of a stored row.
DateLigne(o) == IF o \in definitives THEN o.date ELSE o.annonce
DansLaFenetre(o, m, j) == DateLigne(o) # SansDate /\ DansLeCycle(DateLigne(o), m, j)

\* The operations montants_par_categorie adds up, pending or booked: those of the
\* cycle, in the direction asked for, but the transfers between the owner's own
\* accounts.
Retenues(quoi, m, j) ==
    {o \in enregistrees \ internes :
        /\ DansLaFenetre(o, m, j)
        /\ IF quoi = "depenses" THEN o.montant < 0 ELSE o.montant > 0}

Avec(f, k, r) == [x \in DOMAIN f \cup {k} |-> IF x = k THEN r ELSE f[x]]

Placer(f, noms) ==
    LET r == [ids |-> f, noms |-> noms] IN
    Avancer(IF Etape[1] = "depenses"
            THEN [lecture EXCEPT !.debits = Avec(@, Etape[2], r), !.brut = Vide]
            ELSE [lecture EXCEPT !.credits = Avec(@, Etape[2], r), !.brut = Vide])

\* Mutant: each aggregate reads the start day again.
LireMontantsRelit ==
    /\ Prochaine("depenses") \/ Prochaine("revenus")
    /\ LET R == Retenues(Etape[1], Recul(Etape[2]), jour) IN
       IF R = {} THEN Placer(Vide, {})
                 ELSE lecture' = [lecture EXCEPT !.brut = [o \in R |-> rangee[o]]]
    /\ UNCHANGED <<donnees, remue, redatees, ecritures>>

\* First SELECT of repartition; without any amount there is no second one.
LireMontants ==
    /\ Prochaine("depenses") \/ Prochaine("revenus")
    /\ LET R == Retenues(Etape[1], Recul(Etape[2]), lecture.jour) IN
       IF R = {} THEN Placer(Vide, {})
                 ELSE lecture' = [lecture EXCEPT !.brut = [o \in R |-> rangee[o]]]
    /\ UNCHANGED <<donnees, remue, redatees, ecritures>>

\* Mutant: a line without a name is left out.
NommerLignesFiltre ==
    /\ EnCours /\ lecture.brut # Vide
    /\ LET nommees == {o \in DOMAIN lecture.brut : lecture.brut[o] \in categories} IN
       Placer([o \in nommees |-> lecture.brut[o]], categories)
    /\ UNCHANGED <<donnees, remue, redatees, ecritures>>

\* Second SELECT: a category deleted since the first one has no name any more.
NommerLignes ==
    /\ EnCours /\ lecture.brut # Vide
    /\ Placer(lecture.brut, categories)
    /\ UNCHANGED <<donnees, remue, redatees, ecritures>>

(****************************** the computations *****************************)

\* One line for each category_id of the first SELECT; only the lines that got a
\* name count for a category (indexer_par_categorie).
Lignes(r) == Range(r.ids)
Attribuees(r) == Lignes(r) \cap r.noms
Valeurs == [o \in Operations |-> Valeur(o.montant)]
Montant(ids, c) == SumFunctionOnSet(Valeurs, {o \in DOMAIN ids : ids[o] = c})
Realise(r, c) == IF c \in Attribuees(r) THEN Montant(r.ids, c) ELSE 0

\* The value of rank k in increasing order.
Rang(s, k) == Min({v \in Range(s) : Cardinality({i \in DOMAIN s : s[i] <= v}) >= k})

Mediane(s) ==
    LET milieu == Len(s) \div 2
    IN IF Len(s) = 0 THEN 0
       ELSE IF Len(s) % 2 = 0 THEN (Rang(s, milieu) + Rang(s, milieu + 1)) \div 2
       ELSE Rang(s, milieu + 1)

\* medianes_par_categorie: a month without the category counts for zero, and
\* only the strictly positive medians are kept.
Medianes(historique) ==
    LET med(c) == Mediane([k \in 1..MOIS_HISTORIQUE |-> Realise(historique[k], c)])
        vues == UNION {Attribuees(historique[k]) : k \in 1..MOIS_HISTORIQUE}
    IN [c \in {v \in vues : med(v) > 0} |-> med(c)]

SoldeActuel == Ouverture + SumFunction([i \in DOMAIN lecture.soldes |-> Somme(lecture.soldes[i])])

\* A credit kept in an expense category is a refund, not an income.
DepensesPrevues == LET M == Medianes(lecture.debits) IN
                   [c \in DOMAIN M \ (Revenus \cap lecture.categories) |-> M[c]]
RevenusPrevus   == LET M == Medianes(lecture.credits) IN
                   [c \in DOMAIN M \cap (Revenus \cap lecture.categories) |-> M[c]]

\* Mutant: a category that went over what was foreseen gives money back.
RestantSansPlancher(prevues, r) ==
    SumFunction([c \in DOMAIN prevues |-> prevues[c] - Realise(r, c)])

Restant(prevues, r) ==
    SumFunction([c \in DOMAIN prevues |-> AuMoinsZero(prevues[c] - Realise(r, c))])

SoldePrevisionnel ==
    SoldeActuel + Restant(RevenusPrevus, lecture.credits[0])
                - Restant(DepensesPrevues, lecture.debits[0])

\* The lines of /budgets/remaining: the budgets of the month, or, when it has
\* none, the medians of the past cycles.
BudgetsPrevus ==
    IF DOMAIN lecture.budgets = {} THEN Medianes(lecture.debits) ELSE lecture.budgets

LignesReste ==
    {[categorie |-> c, prevu |-> BudgetsPrevus[c],
      reste |-> BudgetsPrevus[c] - Realise(lecture.debits[0], c)] : c \in DOMAIN BudgetsPrevus}

(********************************* the writers *******************************)

Bouger == remue' = TRUE

Annoncer(o) ==
    /\ o \in Annoncables /\ o \notin annoncees \cup passees
    /\ annoncees' = annoncees \cup {o}
    /\ UNCHANGED <<passees, base, worker, lecture, remue, redatees, ecritures>>

Passer(o) ==
    /\ o \notin passees
    /\ passees' = passees \cup {o}
    /\ UNCHANGED <<annoncees, base, worker, lecture, remue, redatees, ecritures>>

\* recues: what the balance counts, then the lines to store; conclues: those of
\* them the bank listed as booked.
Oisif == [compte |-> Aucune, phase |-> "repos", recues |-> {}, conclues |-> {}]

DebutSynchro(c) ==
    /\ worker = Oisif
    /\ worker' = [Oisif EXCEPT !.compte = c, !.phase = "soldes", !.recues = DuCompte(passees, c)]
    /\ UNCHANGED <<banque, base, lecture, remue, redatees, ecritures>>

\* The balance is stored first; a failed INSERT is passed over.
EnregistrerSolde ==
    /\ worker.phase = "soldes"
    /\ \/ /\ soldes' = [soldes EXCEPT ![worker.compte] = worker.recues]
          /\ Bouger
       \/ UNCHANGED <<soldes, remue>>
    /\ worker' = [worker EXCEPT !.phase = "interroge"]
    /\ UNCHANGED <<banque, enregistrees, definitives, rangee, internes, categories, budgets, jour,
                   lecture, redatees, ecritures>>

\* lister_transactions: a second call to the bank, which may know more by now.
\* The lines that would change nothing are left out: those stored as booked, and
\* pending lines already stored.
LireTransactions ==
    /\ worker.phase = "interroge"
    /\ LET conclues == DuCompte(passees, worker.compte) \ definitives IN
       worker' = [worker EXCEPT !.phase = "insere", !.conclues = conclues,
                    !.recues = conclues \cup (DuCompte(annoncees \ passees, worker.compte) \ enregistrees)]
    /\ UNCHANGED <<banque, base, lecture, remue, redatees, ecritures>>

\* INSERT ... ON CONFLICT DO UPDATE: a booked line replaces the status and the
\* dates of a pending row, and leaves its category, its mark and its amount.
Inserer(o) ==
    /\ worker.phase = "insere" /\ o \in worker.recues
    /\ worker' = [worker EXCEPT !.recues = @ \ {o}]
    /\ enregistrees' = enregistrees \cup {o}
    /\ definitives' = definitives \cup ({o} \cap worker.conclues)
    /\ redatees' = redatees \cup ({o} \cap enregistrees)
    /\ Bouger
    /\ UNCHANGED <<banque, soldes, rangee, internes, categories, budgets, jour, lecture, ecritures>>

\* The list is exhausted, an INSERT failed, or the bank did not answer.
FinSynchro ==
    /\ worker # Oisif
    /\ worker' = Oisif
    /\ UNCHANGED <<banque, base, lecture, remue, redatees, ecritures>>

\* A rule or the reconciliation files a transaction; filed by hand, it is an
\* ordinary movement again (module Categorisation).
Categoriser(o) ==
    /\ o \in enregistrees /\ o.attendue \in categories
    /\ \/ rangee[o] = Aucune /\ UNCHANGED internes
       \/ internes' = internes \ {o}
    /\ rangee' = [rangee EXCEPT ![o] = o.attendue]
    /\ Bouger
    /\ UNCHANGED <<banque, soldes, enregistrees, definitives, categories, budgets, jour, worker, lecture,
                   redatees, ecritures>>

\* recalculer_transferts_internes takes the marks off, then puts them on again
\* (module Appariement): a request in between sees ordinary movements.
ReinitialiserInternes ==
    /\ internes # {}
    /\ internes' = {}
    /\ Bouger
    /\ UNCHANGED <<banque, soldes, enregistrees, definitives, rangee, categories, budgets, jour, worker,
                   lecture, redatees, ecritures>>

\* Two sides of a transfer are marked, and leave the category a rule gave them;
\* those filed by hand keep it.
MarquerInternes ==
    \E o \in enregistrees \ internes, p \in enregistrees \ internes :
        /\ o.virement /\ p.virement
        /\ o.montant + p.montant = 0
        /\ o.compte # p.compte
        /\ internes' = internes \cup {o, p}
        /\ \E manuelles \in SUBSET {o, p} :
              rangee' = [x \in Operations |-> IF x \in {o, p} \ manuelles THEN Aucune ELSE rangee[x]]
        /\ Bouger
        /\ UNCHANGED <<banque, soldes, enregistrees, definitives, categories, budgets, jour, worker, lecture,
                   redatees, ecritures>>

Ecrire == ecritures < MaxEcritures /\ ecritures' = ecritures + 1 /\ Bouger

DefinirJour(j) ==
    /\ Ecrire
    /\ jour' = j
    /\ UNCHANGED <<banque, soldes, enregistrees, definitives, rangee, internes, categories, budgets, worker,
                   lecture, redatees>>

\* INSERT ... SELECT from category ... ON CONFLICT DO UPDATE.
EnregistrerBudget(c, m, montant) ==
    /\ Ecrire
    /\ c \in categories
    /\ budgets' = [k \in DOMAIN budgets \cup {<<c, m>>} |-> IF k = <<c, m>> THEN montant ELSE budgets[k]]
    /\ UNCHANGED <<banque, soldes, enregistrees, definitives, rangee, internes, categories, jour, worker,
                   lecture, redatees>>

\* DELETE of a category: the foreign keys delete its budgets and set the
\* category of its transactions to NULL.
SupprimerCategorie(c) ==
    /\ Ecrire
    /\ c \in categories \cap Personnelles
    /\ categories' = categories \ {c}
    /\ budgets' = [k \in {x \in DOMAIN budgets : x[1] # c} |-> budgets[k]]
    /\ rangee' = [o \in Operations |-> IF rangee[o] = c THEN Aucune ELSE rangee[o]]
    /\ UNCHANGED <<banque, soldes, enregistrees, definitives, internes, jour, worker, lecture, redatees>>

(******************************* specification *******************************)

Init ==
    /\ enregistrees = Anterieures
    /\ annoncees = Anterieures \cap Annoncables
    /\ passees = Anterieures \ Annoncables
    /\ definitives = passees
    /\ soldes = [c \in Range(Comptes) |-> DuCompte(passees, c)]
    /\ rangee = [o \in Operations |-> IF o \in Anterieures THEN o.attendue ELSE Aucune]
    /\ internes = {}
    /\ categories = Categories
    /\ budgets = Vide
    /\ jour \in Jours
    /\ worker = Oisif
    /\ lecture = Repos
    /\ remue = FALSE
    /\ redatees = {}
    /\ ecritures = 0

Lire == \/ LirePreference \/ LireSolde \/ LireBudgets \/ LireCategories
        \/ LireMontants \/ NommerLignes

Synchroniser == \/ \E c \in Range(Comptes) : DebutSynchro(c)
                \/ EnregistrerSolde \/ LireTransactions \/ FinSynchro
                \/ \E o \in Operations : Inserer(o)

Modifier == \/ \E o \in Operations : Categoriser(o)
            \/ ReinitialiserInternes \/ MarquerInternes
            \/ \E j \in Jours : DefinirJour(j)
            \/ \E c \in Categories, m \in MoisDemandes, a \in MontantsPrevus : EnregistrerBudget(c, m, a)
            \/ \E c \in Categories : SupprimerCategorie(c)

Next == \/ \E e \in Ecrans, m \in MoisDemandes : Demander(e, m)
        \/ Lire
        \/ \E o \in Operations : Annoncer(o) \/ Passer(o)
        \/ Synchroniser
        \/ Modifier

Spec == Init /\ [][Next]_vars

(********************************* properties ********************************)

\* Types of the stored rows, of the synchronisation and of the request: a row is
\* one the bank has shown, and stored as booked only once the bank has booked it.
TypeOK ==
    /\ annoncees \cup passees \subseteq Operations
    /\ enregistrees \subseteq annoncees \cup passees /\ definitives \subseteq enregistrees \cap passees
    /\ internes \cup redatees \subseteq enregistrees
    /\ \A c \in Range(Comptes) : soldes[c] \subseteq DuCompte(passees, c)
    /\ rangee \in [Operations -> categories \cup {Aucune}]
    /\ categories \subseteq Categories
    /\ \A k \in DOMAIN budgets : k[1] \in categories /\ budgets[k] \in MontantsPrevus
    /\ jour \in Jours /\ lecture.jour \in Jours \cup {0}
    /\ worker.recues \subseteq annoncees \cup passees /\ worker.conclues \subseteq passees
    /\ remue \in BOOLEAN /\ ecritures \in 0..MaxEcritures

\* No answer counts an operation in two of the cycles it compares, even when the
\* owner changes the start day while the answer is being put together
\* (handlers/preferences.rs:44-48), but one the bank books meanwhile, whose row
\* moves from the date of its pending line to that of its booked one
\* (repository/bank_transactions.rs:104-108).  None is both an expense and an
\* income: the amount of a row is never replaced.
UneSeuleFenetre ==
    \A k, n \in DOMAIN lecture.debits, i, l \in DOMAIN lecture.credits :
        /\ k # n => DOMAIN lecture.debits[k].ids \cap DOMAIN lecture.debits[n].ids \subseteq redatees
        /\ i # l => DOMAIN lecture.credits[i].ids \cap DOMAIN lecture.credits[l].ids \subseteq redatees
        /\ DOMAIN lecture.debits[k].ids \cap DOMAIN lecture.credits[i].ids = {}

\* Total of a category over the operations of a cycle, in one direction.
TotalDe(S, c) == Valeur(Somme({o \in S : rangee[o] = c}))
PlusGrand(a, b) == IF a >= b THEN a ELSE b

\* The balance foreseen, whatever the synchronisations left half done.  Each
\* foreseen category brings what was expected of it, or what the cycle has
\* already brought if that is more; the balance brings every operation it
\* counts that is not such a movement: earlier, unforeseen, internal, undated.
\* An operation that was expected moves from the expectation to the balance and
\* changes nothing, except while it is in one and not in the other: a row that
\* is pending, or newer than the balance, is taken off the expectation and not
\* in the balance; one the balance counts and that is not stored yet is
\* expected still (domain/previsionnel.rs:34-52, domain/synchro.rs:243-276).
TresorerieExacte ==
    Rendue("forecast") /\ ~remue =>
        LET comptees == UNION {soldes[c] : c \in Range(Comptes)}
            cycle    == {o \in enregistrees \ internes : DansLaFenetre(o, lecture.mois, lecture.jour)}
            recues   == {o \in cycle : o.montant > 0 /\ rangee[o] \in DOMAIN RevenusPrevus}
            payees   == {o \in cycle : o.montant < 0 /\ rangee[o] \in DOMAIN DepensesPrevues}
            venues   == recues \cup payees
        IN SoldePrevisionnel =
             Ouverture + Somme(comptees \ venues) - Somme(venues \ comptees)
             + SumFunction([c \in DOMAIN RevenusPrevus |-> PlusGrand(RevenusPrevus[c], TotalDe(recues, c))])
             - SumFunction([c \in DOMAIN DepensesPrevues |-> PlusGrand(DepensesPrevues[c], TotalDe(payees, c))])

\* No dated expense gets lost in an answer: one recorded all along, pending or
\* booked, is in the aggregate of its cycle even when its category is deleted
\* between the two SELECTs, and under the name of its category as long as that
\* one exists (repository/depenses.rs:103-135); but one whose row changes date
\* meanwhile.
DepensesEntieres ==
    \A k \in DOMAIN lecture.debits, o \in Anterieures \ redatees :
        o.montant < 0 /\ ~o.virement /\ DansLaFenetre(o, Recul(k), lecture.jour) =>
            LET r == lecture.debits[k] IN
            /\ o \in DOMAIN r.ids
            /\ o.attendue \in categories => r.ids[o] = o.attendue /\ o.attendue \in r.noms

=============================================================================
