---------------------------- MODULE MCAppariement ----------------------------
(* Two debits of account 1 and two credits of accounts 1 or 2, one amount: *)
(* every competition between two debits and two credits for each other.    *)
(* Then single lines: every kind of operation, with the references and     *)
(* titles that may stand around a name; amounts on both sides of a half    *)
(* cent.                                                                   *)
EXTENDS Mouvements

CONSTANT Dates

Ligne(signe, entiers, decimales, sens, label) ==
    [signe |-> signe, entiers |-> entiers, decimales |-> decimales, sens |-> sens,
     prefixe |-> <<>>, avant |-> <<>>, nom |-> label, apres |-> <<>>]

Debit(l) == Ligne(1, 0, <<0, 1>>, "DBIT", l)
Credit(l, n) == Ligne(1, 0, <<0, n>>, "CRDT", l)

(* No word in common, all, or one in five. *)
Libelles == {<<"PRLV", "07/07/26">>, <<"VIR">>, <<"VIR", "NOM", "26">>,
             <<"LOYER", "A", "B", "NOM">>}

Debits1 == {Mouvement(1, 1, 0, r, Debit(l)) : r \in BOOLEAN, l \in Libelles}
Debits2 == {Mouvement(2, 1, d, FALSE, Debit(l)) : d \in Dates, l \in Libelles}
Credits3 == {Mouvement(3, 2, d, FALSE, Credit(l, 1)) : d \in Dates, l \in Libelles}
Credits4 == {Mouvement(4, c, 0, FALSE, Credit(l, n)) : c \in {1, 2}, n \in {1, 2}, l \in Libelles}

Quatre == {{a, b, c, d} : a \in Debits1, b \in Debits2, c \in Credits3, d \in Credits4}

Avants == {<<>>, <<"07/07/26">>, <<"M.", "OU", "MME">>, <<"MR">>, <<"REF", "12">>}
Noms == {<<>>, <<"CARREFOUR">>, <<"BLUE", "SOFT">>, <<"A", "B", "C", "D", "E", "F">>}
Apres_ == {<<>>, <<"CB*7513">>, <<"MARS", "XXXX">>, <<"MME">>}

Libellees ==
    {{Mouvement(1, 1, 0, FALSE,
        [Debit(<<>>) EXCEPT !.prefixe = p, !.avant = a, !.nom = n, !.apres = z])} :
        p \in {<<>>} \cup ToSet(PREFIXES), a \in Avants, n \in Noms, z \in Apres_}

(* A date in the middle of the name (regle_categorisation.rs:52). *)
Coupees ==
    {{Mouvement(1, 1, 0, FALSE,
        [Debit(<<>>) EXCEPT !.prefixe = p, !.apres = <<"CARTE", "07/07/26", n, "CB*7513">>])} :
        p \in {<<>>} \cup ToSet(PREFIXES), n \in {"INTERMARCHE", "MME"}}

Decimales == UNION {[1 .. k -> {0, 4, 5, 9}] : k \in 0 .. 4}

Montants ==
    {{Mouvement(1, 1, 0, FALSE, Ligne(s, e, d, sens, <<"CARREFOUR">>))} :
        s \in {-1, 1}, e \in {0, 1, 99}, d \in Decimales, sens \in {"DBIT", "CRDT"}}

Toutes == Quatre \cup Libellees \cup Coupees \cup Montants

=============================================================================
