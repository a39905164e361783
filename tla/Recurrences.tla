------------------------------ MODULE Recurrences ------------------------------
(***************************************************************************)
(* The monthly operations: the detection (domain/recurrence.rs) and the    *)
(* three statements that mark its result (recalculer_recurrences,          *)
(* repository/bank_transactions.rs), run by the worker after a             *)
(* synchronisation that inserted something, while the owner's requests     *)
(* mark operations as internal transfers.  One owner.                      *)
(***************************************************************************)
EXTENDS Integers, FiniteSets, SequencesExt, Libelle

CONSTANTS
    Operations,
    Libelles,       \* of an operation: its label, as words
    Montant,        \* of an operation: cents
    Date,           \* of an operation: its day
    SansDate        \* operations with neither booking nor value date

ASSUME OccurrencesBienFormees ==
    Montant \in [Operations -> Int] /\ Date \in [Operations -> Int]

OCCURRENCES_MINIMALES == 3
INTERVALLE_MENSUEL == 26 .. 35
TOLERANCE_MONTANT_CENTS == 100

VARIABLES
    presentes,      \* rows stored
    internes,       \* is_internal_transfer
    recurrents,     \* is_recurrent
    phase,          \* of the worker: "repos", "insertion", "lecture", "remise", "marquage"
    vues,           \* what the SELECT of the recalculation returned
    detectees,      \* what the detection made of it
    exact           \* history: nothing changed since the SELECT of the marks

varsRecurrences == <<presentes, internes, recurrents, phase, vues, detectees, exact>>

InitRecurrences ==
    /\ presentes = {}
    /\ internes = {}
    /\ recurrents = {}
    /\ phase = "repos"
    /\ vues = {}
    /\ detectees = {}
    /\ exact = TRUE

-------------------------------------------------------------------------------
(* The detection, as the code computes it. *)

(* normaliser_marchand *)
Marchand == [o \in Operations |-> ExtraireTiers(Libelles[o])]

Proches(a, b) == a - b <= TOLERANCE_MONTANT_CENTS /\ b - a <= TOLERANCE_MONTANT_CENTS

(* A row joins the last cluster or opens one.  A cluster goes under the amount
   of its first row, and the last one has the largest. *)
Ranger(o, grappes, proche) ==
    IF proche THEN [grappes EXCEPT ![Max(DOMAIN grappes)] = @ \cup {o}]
    ELSE [a \in DOMAIN grappes \cup {Montant[o]} |->
             IF a \in DOMAIN grappes THEN grappes[a] ELSE {o}]

(* Mutant: a cluster follows its last amount instead of its first. *)
RejoindreGlissante(o, grappes) ==
    Ranger(o, grappes, /\ DOMAIN grappes # {}
                       /\ \E p \in grappes[Max(DOMAIN grappes)] : Proches(Montant[p], Montant[o]))

Rejoindre(o, grappes) ==
    Ranger(o, grappes, DOMAIN grappes # {} /\ Proches(Max(DOMAIN grappes), Montant[o]))

PlusCher(S) == CHOOSE o \in S : \A p \in S : Montant[p] <= Montant[o]

(* regrouper_par_montant: the rows in the order of their amounts. *)
Grappes(S) == MapThenFoldSet(Rejoindre, [a \in {} |-> {}], LAMBDA o : o, PlusCher, S)

(* One window of two dates: the date before, if there is one, and this one. *)
Suivre(o, vu) ==
    [dernier  |-> {Date[o]},
     mensuels |-> vu.mensuels + (IF \E d \in vu.dernier : Date[o] - d \in INTERVALLE_MENSUEL
                                 THEN 1 ELSE 0)]

PlusRecent(S) == CHOOSE o \in S : \A p \in S : Date[p] <= Date[o]

Suivi(S) == MapThenFoldSet(Suivre, [dernier |-> {}, mensuels |-> 0], LAMBDA o : o, PlusRecent, S)

(* grappe_est_mensuelle *)
Mensuelle(grappe) ==
    /\ Cardinality(grappe) >= OCCURRENCES_MINIMALES
    /\ Suivi(grappe).mensuels >= OCCURRENCES_MINIMALES - 1

(* detecter_recurrences *)
DetecterRecurrences(V) ==
    LET duMarchand(m) == Grappes({o \in V : Marchand[o] = m})
        mensuelles(m) == {a \in DOMAIN duMarchand(m) : Mensuelle(duMarchand(m)[a])}
    IN  {o \in V : \E a \in mensuelles(Marchand[o]) : o \in duMarchand(Marchand[o])[a]}

-------------------------------------------------------------------------------
(* The worker. *)

Inserer(o) ==
    /\ phase \in {"repos", "insertion"}
    /\ o \notin presentes
    /\ presentes' = presentes \cup {o}
    /\ phase' = "insertion"
    /\ exact' = FALSE
    /\ UNCHANGED <<internes, recurrents, vues, detectees>>

(* recalculer_recurrences_apres_insertion: a synchronisation that inserts
   nothing does not come here. *)
FinInsertion ==
    /\ phase = "insertion"
    /\ phase' = "lecture"
    /\ UNCHANGED <<presentes, internes, recurrents, vues, detectees, exact>>

Lire ==
    /\ phase = "lecture"
    /\ vues' = presentes \ (internes \cup SansDate)
    /\ detectees' = DetecterRecurrences(vues')
    /\ exact' = TRUE
    /\ phase' = "remise"
    /\ UNCHANGED <<presentes, internes, recurrents>>

(* Mutant: the earlier marks are not taken off. *)
PasserAuMarquage ==
    /\ phase = "remise"
    /\ phase' = "marquage"
    /\ UNCHANGED <<presentes, internes, recurrents, vues, detectees, exact>>

(* reinitialiser_recurrences *)
Remettre ==
    /\ phase = "remise"
    /\ recurrents' = {}
    /\ phase' = "marquage"
    /\ UNCHANGED <<presentes, internes, vues, detectees, exact>>

(* marquer_recurrentes: one statement, none if nothing was detected. *)
Marquer ==
    /\ phase = "marquage"
    /\ recurrents' = recurrents \cup detectees
    /\ phase' = "repos"
    /\ UNCHANGED <<presentes, internes, vues, detectees, exact>>

(* A statement fails: a warning, and nothing until the next insertion. *)
Echouer ==
    /\ phase \in {"lecture", "remise", "marquage"}
    /\ phase' = "repos"
    /\ exact' = FALSE
    /\ UNCHANGED <<presentes, internes, recurrents, vues, detectees>>

(* A request marks or unmarks an internal transfer (Reconciliation). *)
Reclasser(o) ==
    /\ o \in presentes
    /\ internes' \in {internes \cup {o}, internes \ {o}}
    /\ internes' # internes
    /\ exact' = FALSE
    /\ UNCHANGED <<presentes, recurrents, phase, vues, detectees>>

NextRecurrences ==
    \/ \E o \in Operations : Inserer(o) \/ Reclasser(o)
    \/ FinInsertion \/ Lire \/ Remettre \/ Marquer \/ Echouer

SpecRecurrences == InitRecurrences /\ [][NextRecurrences]_varsRecurrences

-------------------------------------------------------------------------------
(* The detection, as a definition.  The anchors of a set of operations are
   amounts more than the tolerance apart that reach all the others. *)
Ancres(S) ==
    LET montants == {Montant[o] : o \in S}
    IN  CHOOSE A \in SUBSET montants :
            /\ \A x \in montants : \E a \in A : x \in a .. a + TOLERANCE_MONTANT_CENTS
            /\ \A a, b \in A : a < b => b > a + TOLERANCE_MONTANT_CENTS

Semblables(o, V) ==
    LET S == {p \in V : Marchand[p] = Marchand[o]}
        portee(a) == a .. a + TOLERANCE_MONTANT_CENTS
    IN  {p \in S : \E a \in Ancres(S) : {Montant[o], Montant[p]} \subseteq portee(a)}

(* Two days a month apart with no operation of the group between them. *)
MoisConsecutifs(S) ==
    LET jours == {Date[o] : o \in S}
    IN  {p \in jours \X jours :
            /\ p[2] - p[1] \in INTERVALLE_MENSUEL
            /\ \A f \in jours : ~(p[1] < f /\ f < p[2])}

MensuellesDe(V) ==
    {o \in V : /\ Cardinality(Semblables(o, V)) >= 3
               /\ Cardinality(MoisConsecutifs(Semblables(o, V))) >= 2}

(* Between two synchronisations, if nothing has changed since the SELECT of
   the last recalculation and no statement of it failed, the rows marked are
   exactly the monthly ones among those that count (dated, and on no side of
   an internal transfer, README.md:103), by the definition above: whatever
   the order of the rows and of the insertions, and whatever the bank adds
   to the name of the counterparty from one month to the next. *)
MarquesJustes ==
    (phase = "repos" /\ exact) => recurrents = MensuellesDe(presentes \ (internes \cup SansDate))
===============================================================================
