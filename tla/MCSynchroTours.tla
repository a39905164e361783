---------------------------- MODULE MCSynchroTours ----------------------------
(* An instance of SynchroTours: two accounts under one consent.            *)
EXTENDS SynchroTours

CONSTANTS c1, c2, k1, p1

UnConsent == [c \in Comptes |-> k1]
UnProprietaire == [k \in Consents |-> p1]

===============================================================================
