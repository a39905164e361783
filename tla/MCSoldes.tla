------------------------------- MODULE MCSoldes -------------------------------
(* Banks that send the balances in either order, or one kind only. *)
EXTENDS Soldes

CONSTANTS o1, o2

MCReponses ==
    {<<>>, <<"CLBD">>, <<"ITAV">>, <<"CLBD", "PRCD">>, <<"PRCD", "CLBD">>, <<"CLBD", "ITAV">>}

Symetrie == Permutations(Operations)

=============================================================================
