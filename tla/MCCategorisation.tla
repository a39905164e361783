--------------------------- MODULE MCCategorisation ---------------------------
(* A debit and a credit that may be two faces of a transfer, and a second    *)
(* credit of the same amount that the bank announces later.                 *)
EXTENDS Reconciliation

CONSTANTS q1, q2, r1, courses, salaire, virements

Donnee(c, m, w) == [compte |-> c, montant |-> m, date |-> 0, mots |-> w]

(* No word in common: kept only as long as the couple is alone. *)
DonneesDouteuses ==
    (1 :> Donnee("a", -1, {"u"}) @@ 2 :> Donnee("b", 1, {"v"}) @@ 3 :> Donnee("b", 1, {"w"}))

AnnoncesEnDeuxTemps ==
    [t \in Transactions |-> {[statut |-> "pending", datee |-> FALSE],
                             [statut |-> "booked", datee |-> TRUE]}]

(* The rule is about the debit and the late credit. *)
UneRegle == (r1 :> [categorie |-> courses, priorite |-> 0, motif |-> {1, 3}])

Symetrie == Permutations(Requetes)

=============================================================================
