-------------------------------- MODULE Soldes --------------------------------
(***************************************************************************)
(* The balances of an account beside its statement: what the bank answers  *)
(* (adapters/bank/enable_banking/mapping.rs), the rows a synchronisation   *)
(* adds before it asks for the listing (domain/synchro.rs), and the one    *)
(* the screens show (solde_courant, repository/bank_accounts.rs).          *)
(*                                                                         *)
(* A balance is the set of the operations it counts.  The table keeps      *)
(* every row; only the first of the ORDER BY is ever read, and it alone is *)
(* kept here.                                                              *)
(***************************************************************************)
EXTENDS Releve, SequencesExt

CONSTANTS
    Reponses,   \* the balances a bank may list, in its order
    Datees      \* does this bank date its balances?

ASSUME ConstantesSoldes ==
    /\ Reponses \subseteq Seq({"CLBD", "PRCD", "ITAV"})
    /\ Datees \in BOOLEAN

VARIABLES
    aStocker,   \* balances read and not inserted yet
    affiche,    \* the row solde_courant returns
    lues,       \* history: operations booked when the balances were read
    aJour,      \* history: the current balance was stored, without ambiguity
    complet     \* history: the last synchronisation ended and lost no row

soldes == <<aStocker, affiche, lues, aJour, complet>>
varsSoldes == <<vars, soldes>>

AucunSolde == [rang |-> 0, date |-> 0, operations |-> {}]

InitSoldes ==
    /\ Init
    /\ aStocker = <<>>
    /\ affiche = AucunSolde
    /\ lues = {}
    /\ aJour = FALSE
    /\ complet = FALSE

-------------------------------------------------------------------------------
Comptabilisees == {o \in Operations : banque[o].etat = "booked"}

(* What the bank counts: the closing balance what is booked, the previous   *)
(* one what was the day before, the available one authorisations too.       *)
Comptees(genre) ==
    CASE genre = "CLBD" -> Comptabilisees
      [] genre = "PRCD" -> {o \in Comptabilisees : banque[o].date < jour}
      [] genre = "ITAV" -> {o \in Operations : Visible(o)}

(* type_balance and the ORDER BY: booked before available. *)
RangDe(genre) == IF genre \in {"CLBD", "PRCD"} THEN 2 ELSE 1

(* parser_horodatage: midnight of the day the bank writes, else now. *)
DateDe(genre) ==
    IF ~Datees THEN 2 * jour + 1 ELSE IF genre = "PRCD" THEN 2 * jour - 2 ELSE 2 * jour

(* vers_balance *)
Solde(genre) ==
    [genre |-> genre, rang |-> RangDe(genre), date |-> DateDe(genre),
     operations |-> Comptees(genre)]

(* Mutant: the last row stored, whatever its date. *)
DevantSansDate(a, b) == a.rang >= b.rang

(* ORDER BY booked, available, reference_date, created_at, all DESC: is a,  *)
(* stored after b, in front of it?                                          *)
Devant(a, b) == a.rang > b.rang \/ (a.rang = b.rang /\ a.date >= b.date)

(* The answer leaves no doubt about which of its rows is the current one.   *)
SansDoute(reponse) == Datees \/ \A i \in DOMAIN reponse : reponse[i].genre # "PRCD"

-------------------------------------------------------------------------------
LireSoldes ==
    /\ Debut
    /\ \E reponse \in Reponses : aStocker' = [i \in DOMAIN reponse |-> Solde(reponse[i])]
    /\ lues' = Comptabilisees
    /\ aJour' = FALSE
    /\ complet' = FALSE
    /\ UNCHANGED affiche

StockerSolde ==
    /\ aStocker # <<>>
    /\ LET s == Head(aStocker) IN
         /\ affiche' = IF Devant(s, affiche)
                       THEN [rang |-> s.rang, date |-> s.date, operations |-> s.operations]
                       ELSE affiche
         /\ aJour' = (aJour \/ (s.genre = "CLBD" /\ SansDoute(aStocker)))
    /\ aStocker' = Tail(aStocker)
    /\ UNCHANGED <<vars, lues, complet>>

(* An INSERT that fails is not even logged. *)
SoldeEchoue ==
    /\ aStocker # <<>>
    /\ aStocker' = Tail(aStocker)
    /\ UNCHANGED <<vars, affiche, lues, aJour, complet>>

(* The listing is asked for when the balances are stored. *)
ListerApresSoldes ==
    /\ aStocker = <<>>
    /\ Lister
    /\ UNCHANGED soldes

AbandonnerSoldes ==
    /\ Abandonner
    /\ aStocker' = <<>>
    /\ aJour' = FALSE
    /\ UNCHANGED <<affiche, lues, complet>>

(* Mutant: the balances are read after the transactions. *)
FinPuisSoldes ==
    /\ Fin
    /\ complet' = (rates = {})
    /\ affiche' = Solde("CLBD")
    /\ UNCHANGED <<aStocker, lues, aJour>>

FinSoldes ==
    /\ Fin
    /\ complet' = (rates = {})
    /\ UNCHANGED <<aStocker, affiche, lues, aJour>>

NextSoldes ==
    \/ LireSoldes \/ StockerSolde \/ SoldeEchoue
    \/ ListerApresSoldes \/ AbandonnerSoldes \/ FinSoldes
    \/ /\ \/ Horloge \/ FinPages \/ Inserer \/ InsererEchoue
          \/ \E o \in Operations :
               Apparaitre(o) \/ Comptabiliser(o) \/ Retirer(o) \/ Page(o)
       /\ UNCHANGED soldes

SpecSoldes == InitSoldes /\ [][NextSoldes]_varsSoldes

-------------------------------------------------------------------------------
(* A booked balance on the screen is explained by the statement: once a     *)
(* synchronisation is complete, every operation it counts, within the days  *)
(* read, has a booked row and no pending one; operations booked while the   *)
(* listing was read are the statement's and not yet the balance's, never    *)
(* the other way round, because balances are read before transactions       *)
(* (domain/synchro.rs:243-259).                                             *)
SoldeExplique ==
    phase = "repos" /\ complet /\ affiche.rang = 2 =>
        \A o \in affiche.operations :
            banque[o].date >= debut - Fenetre =>
                /\ RangeesDe(o) # {}
                /\ \A r \in RangeesDe(o) : table[r].statut = "booked"

(* After a synchronisation that stored the bank's current balance, the      *)
(* screens show it: an available balance, or the previous closing one that  *)
(* type_balance also calls booked, does not hide it, in whatever order they *)
(* came, on this day or an earlier one (bank_accounts.rs:337-346).  Two     *)
(* booked balances without dates are left aside: the last inserted wins.    *)
SoldeAJour == phase = "repos" /\ aJour => affiche.operations = lues

=============================================================================
