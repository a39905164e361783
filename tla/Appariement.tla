------------------------------ MODULE Appariement ------------------------------
(***************************************************************************)
(* The loop of detecter_transferts_internes, one couple per step, on any   *)
(* input of Entrees: the sorted couples are examined from the best to the  *)
(* worst and a couple is kept or passed over.  What the greedy loop owes    *)
(* its callers is stated without reference to the order of the loop.       *)
(***************************************************************************)
EXTENDS TransfertsInternes

CONSTANT Entrees    \* the sets of movements an owner may have

ASSUME EntreesBienFormees ==
    \A entree \in Entrees :
        /\ IsFiniteSet(entree)
        /\ \A x \in entree :
             /\ x.id \in Nat
             /\ x.date \in Int
             /\ IsFiniteSet(x.mots)
        /\ \A x, y \in entree : x.id = y.id => x = y

VARIABLES
    mouvements,     \* the argument
    aExaminer,      \* the couples the loop has not reached
    retenus         \* the couples kept so far (debits_pris and credits_pris)

vars == <<mouvements, aExaminer, retenus>>

Init ==
    /\ mouvements \in Entrees
    /\ aExaminer = Couples(mouvements)
    /\ retenus = {}

(* Mutant: the least alike comes first. *)
SuivantDernier(p) ==
    /\ p \in aExaminer
    /\ \A q \in aExaminer \ {p} : Precede(q, p)

(* The next couple of the sorted list. *)
Suivant(p) ==
    /\ p \in aExaminer
    /\ \A q \in aExaminer \ {p} : Precede(p, q)

(* Mutant: only the debit is remembered as taken. *)
LibreCoteDebit(p) == \A q \in retenus : p[1].id # q[1].id

(* Neither debits_pris nor credits_pris holds a face of p. *)
Libre(p) == \A q \in retenus : ~SeGenent(p, q)

Digne(p) == Acceptable(p, Couples(mouvements))

Retenir(p) ==
    /\ Suivant(p)
    /\ Libre(p)
    /\ Digne(p)
    /\ retenus' = retenus \cup {p}
    /\ aExaminer' = aExaminer \ {p}
    /\ UNCHANGED mouvements

Ecarter(p) ==
    /\ Suivant(p)
    /\ ~(Libre(p) /\ Digne(p))
    /\ aExaminer' = aExaminer \ {p}
    /\ UNCHANGED <<mouvements, retenus>>

Next == \E p \in aExaminer : Retenir(p) \/ Ecarter(p)

Spec == Init /\ [][Next]_vars

-------------------------------------------------------------------------------
(* A debit goes with one credit and a credit with one debit: a movement    *)
(* taken twice would hide two real operations from the totals.             *)
ApparieUneFois ==
    \A p, q \in retenus : SeGenent(p, q) => p = q

(* A couple that shares hardly a word is kept only when it has a single    *)
(* reading, in the whole input and not only among what the loop has left,  *)
(* and never against a filing by hand.                                     *)
DouteEcarte ==
    \A p \in retenus :
        \/ Ressemblant(p)
        \/ /\ ~p[1].rangeALaMain /\ ~p[2].rangeALaMain
           /\ \A q \in Couples(mouvements) : SeGenent(p, q) => q = p

(* What the greedy loop decides about a couple, declaratively: it is kept   *)
(* exactly when it is acceptable and no better couple that was kept holds   *)
(* one of its faces.                                                        *)
Justifie(p) ==
    p \in retenus <=>
        /\ Acceptable(p, Couples(mouvements))
        /\ \A q \in retenus : SeGenent(p, q) => p = q \/ Precede(p, q)

(* No choice of the loop is arbitrary: among couples that compete for a     *)
(* movement, the most alike wins.                                           *)
ChoixJustifie == \A p \in Couples(mouvements) \ aExaminer : Justifie(p)

(* Nothing is taken twice, nothing doubtful is taken, nothing is arbitrary *)
(* in what the loop of detecter_transferts_internes has decided so far.    *)
AppariementSur == ApparieUneFois /\ DouteEcarte /\ ChoixJustifie

(* The result depends on the set of movements alone: the loop ends with     *)
(* the value of Detecter, the function the categorisation model calls.      *)
FinDetecter == aExaminer = {} => retenus = Detecter(mouvements)

=============================================================================
