---------------------------- MODULE MCPrevisions ----------------------------
(* Operations around the cycles of March, April, May and June of year 1:  *)
(* the salary of the 28th, paid a day before or after the start of a cycle,   *)
(* food twice, one single purchase, a transfer between two accounts, fees the *)
(* bank gives no date, and a card payment pending on the first day of a cycle *)
(* that is booked on the last of the one before.                              *)
EXTENDS Previsions

CONSTANTS courant, livret, salaire, courses, loisirs

Juin == 12 + 5
OpAnnoncee(c, e, d, m, v, a) ==
    [compte |-> c, annonce |-> e, date |-> d, montant |-> m, virement |-> v, attendue |-> a]
Op(c, d, m, v, a) == OpAnnoncee(c, SansDate, d, m, v, a)

MCAnterieures ==
    {Op(courant, Date(Juin - 3, 28), 5, FALSE, salaire),
     Op(courant, Date(Juin - 2, 28), 5, FALSE, salaire),
     Op(courant, Date(Juin - 2, 12), -2, FALSE, courses),
     Op(courant, Date(Juin - 1, 12), -3, FALSE, courses),
     Op(courant, Date(Juin - 1, 20), -4, FALSE, loisirs)}
Salaire == OpAnnoncee(courant, Date(Juin - 1, 28), Date(Juin - 1, 29), 6, FALSE, salaire)
Carte   == OpAnnoncee(courant, Date(Juin - 1, 28), Date(Juin - 1, 27), -1, FALSE, courses)
Frais   == Op(courant, SansDate, -1, FALSE, courses)
Depart  == Op(courant, Date(Juin, 5), -3, TRUE, loisirs)
Arrivee == Op(livret, Date(Juin, 5), 3, TRUE, salaire)

DeuxComptes == <<courant, livret>>
UnCompte == <<courant>>
AvecVirement == MCAnterieures \cup {Depart, Arrivee, Frais}
OpsVirement == AvecVirement \cup {Salaire}
AnnoncesVirement == {Salaire}
AvecCarte == MCAnterieures \cup {Carte}
AnnoncesCarte == {Carte}
MCCategories == {salaire, courses, loisirs}
MCRevenus == {salaire}
MCPersonnelles == {loisirs}
Le28 == {28}
Le1Ou28 == {1, 28}
LeMois == {Juin}
=============================================================================
