--------------------------- MODULE CreneauxReserves ---------------------------
(***************************************************************************)
(* What the synchronisation promises the bank: a ledger of slots.  A slot  *)
(* of an account is reserved before the bank is called, a call spends one  *)
(* slot of the day, and a slot that was never spent (the process died, the *)
(* account was deleted) is lost, not given back.                           *)
(***************************************************************************)
EXTENDS Naturals

CONSTANTS
    Comptes,    \* the accounts
    Quota,      \* the slots of an account per day
    Jours       \* the days

VARIABLES
    jour,       \* per account, the day of its last reservation
    reserves,   \* per account, the slots reserved on that day
    appels      \* per account and day, the calls made

grand_livre == <<jour, reserves, appels>>

Init ==
    /\ jour = [c \in Comptes |-> 0]
    /\ reserves = [c \in Comptes |-> 0]
    /\ appels = [c \in Comptes |-> [j \in Jours |-> 0]]

(* A later day starts a new count; an account never returns to an older    *)
(* day.                                                                    *)
NbReserves(c, j) == IF jour[c] = j THEN reserves[c] ELSE 0

Reserver(c, j) ==
    /\ jour[c] <= j
    /\ NbReserves(c, j) < Quota
    /\ jour' = [jour EXCEPT ![c] = j]
    /\ reserves' = [reserves EXCEPT ![c] = NbReserves(c, j) + 1]
    /\ UNCHANGED appels

Appeler(c) ==
    /\ appels[c][jour[c]] < reserves[c]
    /\ appels' = [appels EXCEPT ![c][jour[c]] = @ + 1]
    /\ UNCHANGED <<jour, reserves>>

Next == \E c \in Comptes : Appeler(c) \/ \E j \in Jours : Reserver(c, j)

Spec == Init /\ [][Next]_grand_livre

=============================================================================
