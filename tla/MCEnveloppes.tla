---------------------------- MODULE MCEnveloppes ----------------------------
(* Two envelopes, and an operation of MCPrevisions filed in one or the other. *)
EXTENDS Enveloppes, MCPrevisions, TLC

CONSTANTS vacances, travaux

MCAffectables == {Op(courant, Date(Juin - 1, 20), -4, FALSE, loisirs)}
Symetrie == Permutations(Budgets)
=============================================================================
