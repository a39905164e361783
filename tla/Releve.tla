-------------------------------- MODULE Releve --------------------------------
(***************************************************************************)
(* One account's statement over many synchronisations: what the bank shows *)
(* within the window (domain/synchro.rs), how the answer is read page by   *)
(* page (adapters/bank/enable_banking), and what the upsert leaves in      *)
(* budgy.bank_transaction (repository/bank_transactions.rs).               *)
(*                                                                         *)
(* The bank goes on living while its pages are read: operations appear,    *)
(* are booked, are withdrawn.  A page is cut into its lines: one line per  *)
(* step, in any order.  Amounts and labels are left out.                   *)
(***************************************************************************)
EXTENDS Integers, Sequences, FiniteSets

CONSTANTS
    Operations,     \* operations of the account
    EntreeTardive,  \* does an operation get its entry_reference when it is booked?
    Fenetre,        \* days read before today (fenetre_transactions, 30)
    MaxJour,        \* bound: last day of the clock
    MaxLignes       \* bound: lines of one answer

ASSUME ConstantesReleve ==
    /\ EntreeTardive \in BOOLEAN
    /\ Fenetre \in Nat
    /\ MaxJour \in Nat
    /\ MaxLignes \in Nat

VARIABLES
    jour,       \* the clock's day
    banque,     \* what the bank knows of each operation
    phase,      \* of the synchronisation: "repos", "soldes", "pages", "lignes"
    debut,      \* the day `maintenant` of the cycle falls on
    curseur,    \* operations the coming pages have to show
    lus,        \* lines read and not inserted yet
    table,      \* rows of the account, by reference
    rates,      \* history: operations whose INSERT failed in this synchronisation
    dus,        \* history: what the bank had to show when the listing began
    attendus    \* history: what complete synchronisations have shown

synchro == <<phase, debut, curseur, lus, rates, dus>>
vars == <<jour, banque, synchro, table, attendus>>

Statuts == {"pending", "booked"}
Jours == 0 .. MaxJour

(* reference_externe: the entry_reference, else the transaction_id. *)
Reference(o, statut) ==
    <<o, IF EntreeTardive /\ statut = "pending" THEN "transaction_id" ELSE "entry_reference">>

References == Operations \X {"entry_reference", "transaction_id"}
Lignes == [op : Operations, statut : Statuts, date : Jours]
Aucune == [statut |-> "aucune", date |-> 0]
Rangees == [statut : Statuts, date : Jours] \cup {Aucune}

TypeOK ==
    /\ jour \in Jours
    /\ banque \in [Operations -> [etat : Statuts \cup {"absente", "retiree"}, date : Jours]]
    /\ phase \in {"repos", "soldes", "pages", "lignes"}
    /\ debut \in Jours /\ debut <= jour
    /\ curseur \subseteq Operations
    /\ phase # "pages" => curseur = {}
    /\ lus \in Seq(Lignes)
    /\ phase \in {"repos", "soldes"} => lus = <<>>
    /\ table \in [References -> Rangees]
    /\ rates \subseteq Operations
    /\ dus \subseteq Operations \X Statuts
    /\ attendus \subseteq Operations \X Statuts

Init ==
    /\ jour = 0
    /\ banque = [o \in Operations |-> [etat |-> "absente", date |-> 0]]
    /\ phase = "repos"
    /\ debut = 0
    /\ curseur = {}
    /\ lus = <<>>
    /\ table = [r \in References |-> Aucune]
    /\ rates = {}
    /\ dus = {}
    /\ attendus = {}

-------------------------------------------------------------------------------
(* The bank and the calendar. *)

Visible(o) == banque[o].etat \in Statuts

Horloge ==
    /\ jour < MaxJour
    /\ jour' = jour + 1
    /\ UNCHANGED <<banque, synchro, table, attendus>>

(* A listing under way may or may not show what changes behind it. *)
MontrerAussi(o) ==
    \/ UNCHANGED curseur
    \/ phase = "pages" /\ curseur' = curseur \cup {o}

(* The bank may date an operation before the day it first shows it. *)
Apparaitre(o) ==
    /\ banque[o].etat = "absente"
    /\ \E s \in Statuts, d \in 0 .. jour : banque' = [banque EXCEPT ![o] = [etat |-> s, date |-> d]]
    /\ MontrerAussi(o)
    /\ UNCHANGED <<jour, phase, debut, lus, table, rates, dus, attendus>>

Comptabiliser(o) ==
    /\ banque[o].etat = "pending"
    /\ \E d \in banque[o].date .. jour :
         banque' = [banque EXCEPT ![o] = [etat |-> "booked", date |-> d]]
    /\ MontrerAussi(o)
    /\ UNCHANGED <<jour, phase, debut, lus, table, rates, dus, attendus>>

(* A pending operation that never happens leaves the bank's listing. *)
Retirer(o) ==
    /\ banque[o].etat = "pending"
    /\ banque' = [banque EXCEPT ![o].etat = "retiree"]
    /\ curseur' = curseur \ {o}
    /\ dus' = dus \ {<<o, "pending">>}
    /\ UNCHANGED <<jour, phase, debut, lus, table, rates, attendus>>

-------------------------------------------------------------------------------
(* The synchronisation of the account. *)

Debut ==
    /\ phase = "repos"
    /\ phase' = "soldes"
    /\ debut' = jour
    /\ UNCHANGED <<jour, banque, curseur, lus, table, rates, dus, attendus>>

(* depuis_pour: next_sync_at is `maintenant`, because vue_bank_account put
   it there; the last success plays no part. *)
Depuis == debut - Fenetre

(* The balances have been read and stored; the listing is asked for. *)
Lister ==
    /\ phase = "soldes"
    /\ phase' = "pages"
    /\ curseur' = {o \in Operations : Visible(o) /\ banque[o].date >= Depuis}
    /\ dus' = {<<o, banque[o].etat>> : o \in {p \in Operations :
                   Visible(p) /\ banque[p].date >= debut - Fenetre}}
    /\ UNCHANGED <<jour, banque, debut, lus, table, rates, attendus>>

(* What the bank shows of an operation: its line; beside the line of a booked
   operation it may leave that of the authorisation, before or after. *)
Montrer(o) ==
    LET ligne(s) == [op |-> o, statut |-> s, date |-> banque[o].date]
    IN  IF banque[o].etat = "pending"
        THEN {<<ligne("pending")>>}
        ELSE {<<ligne("booked")>>, <<ligne("pending"), ligne("booked")>>,
              <<ligne("booked"), ligne("pending")>>}

Page(o) ==
    /\ phase = "pages"
    /\ o \in curseur
    /\ \E l \in Montrer(o) :
         /\ Len(lus) + Len(l) <= MaxLignes
         /\ lus' = lus \o l
    /\ curseur' = curseur \ {o}
    /\ UNCHANGED <<jour, banque, phase, debut, table, rates, dus, attendus>>

(* Mutant: the continuation key is not followed. *)
FinPagesSansSuite ==
    /\ phase = "pages"
    /\ curseur = {} \/ lus # <<>>
    /\ phase' = "lignes"
    /\ curseur' = {}
    /\ UNCHANGED <<jour, banque, debut, lus, table, rates, dus, attendus>>

(* The last page has no continuation key. *)
FinPages ==
    /\ phase = "pages"
    /\ curseur = {}
    /\ phase' = "lignes"
    /\ UNCHANGED <<jour, banque, debut, curseur, lus, table, rates, dus, attendus>>

(* A balance or a page cannot be read, a line has no reference
   (ReponseInvalide), or the process stops: what was read is discarded, and
   the rows already inserted stay. *)
Abandonner ==
    /\ phase # "repos"
    /\ phase' = "repos"
    /\ curseur' = {}
    /\ lus' = <<>>
    /\ rates' = {}
    /\ dus' = {}
    /\ UNCHANGED <<jour, banque, debut, table, attendus>>

(* Mutant: ON CONFLICT DO UPDATE without its WHERE. *)
UpsertToujours(avant, l) == [statut |-> l.statut, date |-> l.date]

(* Mutant: ON CONFLICT DO NOTHING. *)
UpsertJamais(avant, l) ==
    IF avant = Aucune THEN [statut |-> l.statut, date |-> l.date] ELSE avant

(* INSERT ... ON CONFLICT DO UPDATE SET status, booking_date, value_date
   WHERE status = 'pending' AND EXCLUDED.status = 'booked'. *)
Upsert(avant, l) ==
    IF avant = Aucune \/ (avant.statut = "pending" /\ l.statut = "booked")
    THEN [statut |-> l.statut, date |-> l.date]
    ELSE avant

Inserer ==
    /\ phase = "lignes"
    /\ lus # <<>>
    /\ LET l == Head(lus)
           r == Reference(l.op, l.statut)
       IN  table' = [table EXCEPT ![r] = Upsert(@, l)]
    /\ lus' = Tail(lus)
    /\ UNCHANGED <<jour, banque, phase, debut, curseur, rates, dus, attendus>>

(* "persistance d'une transaction ignorée": the loop goes on. *)
InsererEchoue ==
    /\ phase = "lignes"
    /\ lus # <<>>
    /\ rates' = rates \cup {Head(lus).op}
    /\ lus' = Tail(lus)
    /\ UNCHANGED <<jour, banque, phase, debut, curseur, table, dus, attendus>>

(* sync_succeeded, whatever failed to be inserted. *)
Fin ==
    /\ phase = "lignes"
    /\ lus = <<>>
    /\ phase' = "repos"
    /\ attendus' = attendus \cup {d \in dus : d[1] \notin rates}
    /\ rates' = {}
    /\ dus' = {}
    /\ UNCHANGED <<jour, banque, debut, curseur, lus, table>>

Next ==
    \/ Horloge
    \/ \E o \in Operations : Apparaitre(o) \/ Comptabiliser(o) \/ Retirer(o) \/ Page(o)
    \/ Debut \/ Lister \/ FinPages \/ Abandonner
    \/ Inserer \/ InsererEchoue \/ Fin

Spec == Init /\ [][Next]_vars

-------------------------------------------------------------------------------
(* The rows of an operation. *)
RangeesDe(o) == {r \in References : r[1] = o /\ table[r] # Aucune}

(* An operation the bank had to show within the window when a listing began
   has a row once that synchronisation is over, whatever earlier
   synchronisations lost, and whatever happened at the bank meanwhile
   (remonter_donnees, lister_transactions; synchro.rs:243-276). *)
RienDePerdu == \A d \in attendus : RangeesDe(d[1]) # {}

(* Once a synchronisation has shown an operation as booked, nothing says any
   more that it is pending: « la transition pending vers booked est appliquée
   au prochain créneau » (tests/scrum249_synchro_unit.rs:545). *)
TransitionAppliquee ==
    \A o \in Operations :
        <<o, "booked">> \in attendus => \A r \in RangeesDe(o) : table[r].statut = "booked"

(* A booked row keeps its status and its date for good, though later answers
   show the line again, with the authorisation beside it (the WHERE of the
   upsert, bank_transactions.rs:105). *)
ComptabiliseeDefinitive ==
    [][\A r \in References : table[r].statut = "booked" => table'[r] = table[r]]_table
===============================================================================
