------------------------------- MODULE Cycles -------------------------------
(* The budget months of domain/cycle.rs.  A calendar month is counted from   *)
(* January of year 0 (type Mois of domain/depense.rs); a date is the number   *)
(* 32 * month + day, so that < on numbers is the order of the calendar.  A    *)
(* cycle is a month m and the day j, from 1 to 31, its owner chose as start.  *)
EXTENDS Integers

JoursDebut == 1..31

Annee(m) == m \div 12
Bissextile(a) == (a % 4 = 0 /\ a % 100 # 0) \/ a % 400 = 0

DernierJour(m) ==
    IF m % 12 \in {3, 5, 8, 10} THEN 30
    ELSE IF m % 12 = 1 THEN (IF Bissextile(Annee(m)) THEN 29 ELSE 28)
    ELSE 31

Date(m, j) == 32 * m + j
MoisDe(d) == d \div 32
Dates == {d \in Nat : (d % 32) \in 1..DernierJour(d \div 32)}

\* The day asked for, brought back to the last day of a month it is not in.
JourDansLeMois(m, j) == Date(m, IF j <= DernierJour(m) THEN j ELSE DernierJour(m))

FinExclue(m, j) == IF j = 1 THEN Date(m + 1, 1) ELSE JourDansLeMois(m, j)

Debut(m, j) == JourDansLeMois(MoisDe(FinExclue(m, j)) - 1, j)

\* The window [Debut, FinExclue[ of the statements of repository/depenses.rs.
DansLeCycle(d, m, j) == Debut(m, j) <= d /\ d < FinExclue(m, j)

Precedent(m) == m - 1
=============================================================================
