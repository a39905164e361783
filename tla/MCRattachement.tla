---------------------------- MODULE MCRattachement ----------------------------
(* A consent each for two owners; the second may have attached x1 before.   *)
EXTENDS Rattachement, TLC

CONSTANTS k1, k2, p1, p2, x1, x2, r1, r2

DeuxProprietaires == (k1 :> p1 @@ k2 :> p2)
LigneDUnAutre == {<<k2, x1>>}

SymetrieRequetes == Permutations(Requetes)
SymetrieExternes == Permutations(Externes)
Symetrie == SymetrieRequetes \cup SymetrieExternes

=============================================================================
