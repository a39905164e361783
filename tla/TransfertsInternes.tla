-------------------------- MODULE TransfertsInternes --------------------------
(***************************************************************************)
(* Detection of internal transfers (domain/transfert_interne.rs): which    *)
(* debit of one account is the other face of which credit of another       *)
(* account of the same owner.                                              *)
(*                                                                         *)
(* A movement is a record [id, compte, montant, date, mots, rangeALaMain]: *)
(* a natural number for the UUID (it only breaks ties), an account, cents, *)
(* a day, the set of words of the cleaned label, and whether the user has  *)
(* filed it by hand in a real category.  A couple is <<debit, credit>>.    *)
(***************************************************************************)
EXTENDS Integers, FiniteSets, SequencesExt

ToleranceJours == 4

Ecart(a, b) == IF a < b THEN b - a ELSE a - b

SontLesDeuxFaces(debit, credit) ==
    /\ debit.montant < 0
    /\ credit.montant > 0
    /\ credit.compte # debit.compte
    /\ credit.montant = -debit.montant
    /\ Ecart(credit.date, debit.date) <= ToleranceJours

Couples(mouvements) ==
    {p \in mouvements \X mouvements : SontLesDeuxFaces(p[1], p[2])}

(* ressemblance, the Jaccard index, as a fraction: no word at all scores 0. *)
Communs(p) == Cardinality(p[1].mots \cap p[2].mots)
Tous(p) == IF p[1].mots \cup p[2].mots = {} THEN 1 ELSE Cardinality(p[1].mots \cup p[2].mots)

PlusRessemblant(p, q) == Communs(p) * Tous(q) > Communs(q) * Tous(p)
AussiRessemblant(p, q) == Communs(p) * Tous(q) = Communs(q) * Tous(p)

(* RESSEMBLANCE_MINIMALE = 0.25 *)
Ressemblant(p) == 4 * Communs(p) >= Tous(p)

(* The order of sort_by: score, date of the debit, ids. *)
Precede(p, q) ==
    \/ PlusRessemblant(p, q)
    \/ /\ AussiRessemblant(p, q)
       /\ \/ p[1].date < q[1].date
          \/ p[1].date = q[1].date /\ p[1].id < q[1].id
          \/ /\ p[1].date = q[1].date /\ p[1].id = q[1].id
             /\ p[2].id < q[2].id

(* A couple that shares no word is kept only if neither face has another   *)
(* partner among all the couples, taken or not, and neither was filed by    *)
(* hand.                                                                   *)
SansDoute(p, couples) ==
    /\ \A q \in couples : q[1].id = p[1].id \/ q[2].id = p[2].id => q = p
    /\ ~p[1].rangeALaMain
    /\ ~p[2].rangeALaMain

Acceptable(p, couples) == Ressemblant(p) \/ SansDoute(p, couples)

SeGenent(p, q) == p[1].id = q[1].id \/ p[2].id = q[2].id

(* The last couple of S in the order of sort_by. *)
Dernier(S) == CHOOSE p \in S : \A q \in S \ {p} : Precede(q, p)

(* One turn of the loop: a couple is kept unless one of its faces is taken. *)
Examiner(p, retenus, couples) ==
    IF Acceptable(p, couples) /\ \A q \in retenus : ~SeGenent(p, q)
    THEN retenus \cup {p}
    ELSE retenus

(* detecter_transferts_internes: the loop, from the most to the least alike: *)
(* what it keeps of a set is what it keeps of all but the last, then the     *)
(* last.                                                                     *)
Detecter(mouvements) ==
    LET couples == Couples(mouvements)
    IN  MapThenFoldSet(LAMBDA p, retenus : Examiner(p, retenus, couples),
                       {}, LAMBDA p : p, Dernier, couples)

(* The ids of both faces of every transfer. *)
Apparies(mouvements) ==
    {m.id : m \in {n \in mouvements :
                     \E p \in Detecter(mouvements) : n.id \in {p[1].id, p[2].id}}}

=============================================================================
