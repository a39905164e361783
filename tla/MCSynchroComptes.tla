--------------------------- MODULE MCSynchroComptes ---------------------------
(* Instances of SynchroComptes: one account, or two under one consent.     *)
EXTENDS SynchroComptes

CONSTANTS c1, c2, k1, p1

UnConsent == [c \in Comptes |-> k1]
UnProprietaire == [k \in Consents |-> p1]

=============================================================================
