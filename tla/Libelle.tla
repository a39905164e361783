-------------------------------- MODULE Libelle --------------------------------
(***************************************************************************)
(* The cleaning of bank labels (domain/libelle.rs) and the comparison a    *)
(* rule makes with it (domain/regle_categorisation.rs).                    *)
(*                                                                         *)
(* A label is the sequence of its words in upper case, as normaliser       *)
(* leaves it; a word is a string.                                          *)
(***************************************************************************)
EXTENDS Integers, SequencesExt

(* From the longest to the shortest: the first that matches is taken off.  *)
PREFIXES ==
    << <<"VIREMENT", "INSTANTANE", "RECU", "DE">>, <<"VIREMENT", "SEPA", "RECU", "DE">>,
       <<"VIREMENT", "EN", "VOTRE", "FAVEUR", "DE">>, <<"VIREMENT", "EN", "VOTRE", "FAVEUR">>,
       <<"VIREMENT", "INSTANTANE", "RECU">>, <<"VIREMENT", "INSTANTANE">>,
       <<"VIREMENT", "SEPA", "EMIS">>, <<"VIREMENT", "SEPA", "RECU">>, <<"VIREMENT", "SEPA">>,
       <<"VIREMENT", "RECU", "DE">>, <<"VIREMENT", "RECU">>, <<"VIREMENT", "EMIS">>,
       <<"VIREMENT">>, <<"PAIEMENT", "PAR", "CARTE">>, <<"PAIEMENT", "CARTE">>, <<"PAIEMENT">>,
       <<"PRELEVEMENT", "SEPA", "DE">>, <<"PRELEVEMENT", "SEPA">>, <<"PRELEVEMENT">>,
       <<"PRLV", "SEPA">>, <<"PRLV">>, <<"ACHAT", "CB">>, <<"ACHAT">>, <<"RETRAIT", "CB">>,
       <<"RETRAIT", "DAB">>, <<"RETRAIT">>, <<"REMISE", "CHEQUE">>, <<"REMISE">>,
       <<"COTISATION">>, <<"FRAIS">>, <<"CB">> >>

CIVILITES ==
    << <<"M.OU", "MME">>, <<"M.", "OU", "MME">>, <<"MR", "OU", "MME">>, <<"MME", "OU", "MR">>,
       <<"MLLE">>, <<"MME">>, <<"MR">>, <<"M.">> >>

MOIS == {"JANVIER", "FEVRIER", "MARS", "AVRIL", "MAI", "JUIN", "JUILLET", "AOUT",
         "SEPTEMBRE", "OCTOBRE", "NOVEMBRE", "DECEMBRE"}

BRUIT == {"REF", "REFERENCE", "MANDAT", "MDT", "RUM", "ECH", "NUM", "NUMERO", "MOTIF", "ID"}

MAX_TOKENS == 5

-------------------------------------------------------------------------------
Premiers(s, n) == SubSeq(s, 1, IF Len(s) < n THEN Len(s) ELSE n)
Apres(s, n) == SubSeq(s, n + 1, Len(s))

(* Mutant: the list is read from the shortest prefix to the longest. *)
PrefixeCourt(s) == Last(SelectSeq(PREFIXES, LAMBDA p : IsPrefix(p, s)))

PrefixeDe(s) ==
    PREFIXES[CHOOSE i \in DOMAIN PREFIXES :
                 /\ IsPrefix(PREFIXES[i], s)
                 /\ \A j \in 1 .. i - 1 : ~IsPrefix(PREFIXES[j], s)]

(* What follows the prefix, a "DE" before other words taken off too. *)
RetirerPrefixe(s) ==
    IF \A i \in DOMAIN PREFIXES : ~IsPrefix(PREFIXES[i], s) THEN s
    ELSE LET suite == Apres(s, Len(PrefixeDe(s)))
         IN  IF Len(suite) > 1 /\ Head(suite) = "DE" THEN Tail(suite) ELSE suite

(* The first occurrence of c, if any, is taken off: the body of the while. *)
RetirerUne(s, c) ==
    LET debuts == {i \in 1 .. Len(s) : IsPrefix(c, Apres(s, i - 1))} IN
    IF debuts = {} THEN s
    ELSE LET i == CHOOSE i \in debuts : \A j \in debuts : i <= j
         IN  SubSeq(s, 1, i - 1) \o Apres(s, i + Len(c) - 1)

(* Each as many times as it occurs, one title after another. *)
RetirerToutes(t, c) == FoldLeft(LAMBDA u, i : RetirerUne(u, c), t, [i \in 1 .. Len(t) |-> i])

RetirerCivilites(s) == FoldLeft(RetirerToutes, s, CIVILITES)

Lettres(mot) == {SubSeq(mot, i, i) : i \in 1 .. Len(mot)}

(* Dates, references, amounts, card masks, months, words of references.    *)
EstVolatil(mot) ==
    \/ Lettres(mot) \cap {"0", "1", "2", "3", "4", "5", "6", "7", "8", "9"} # {}
    \/ Lettres(mot) \subseteq {"X", "*"}
    \/ mot \in MOIS \cup BRUIT

Gardes(s) == FoldLeft(LAMBDA u, mot : IF EstVolatil(mot) THEN u ELSE Append(u, mot), <<>>, s)

Filtrer(s) == Premiers(Gardes(s), MAX_TOKENS)

(* What is left of the counterparty when all that is not one is taken off.  *)
Tiers(label) == Filtrer(RetirerCivilites(RetirerPrefixe(label)))

(* extraire_tiers: never empty, unless the label is. *)
ExtraireTiers(label) ==
    IF Tiers(label) = <<>> THEN Premiers(label, MAX_TOKENS) ELSE Tiers(label)

-------------------------------------------------------------------------------
(* Comparison of a rule with a label: on the texts, not on the words.      *)
Texte(s) == FoldLeft(LAMBDA t, mot : IF t = "" THEN mot ELSE t \o " " \o mot, "", s)

Contient(texte, fragment) ==
    \E i \in 0 .. Len(texte) - Len(fragment) :
        SubSeq(texte, i + 1, i + Len(fragment)) = fragment

(* Mutant: the pattern is looked for in the label as the bank wrote it. *)
CorrespondBrut(motif, label) == Contient(Texte(label), Texte(ExtraireTiers(motif)))

(* RegleCategorisation::correspond *)
Correspond(motif, label) ==
    Contient(Texte(ExtraireTiers(label)), Texte(ExtraireTiers(motif)))

=============================================================================
