------------------------------ MODULE Mouvements ------------------------------
(***************************************************************************)
(* From a line of the bank to a movement the pairing looks at: the amount  *)
(* in cents (adapters/bank/enable_banking/mapping.rs), the cleaned label   *)
(* and its words (lister_mouvements_pour_appariement), then the pairing.   *)
(*                                                                         *)
(* A line is a record [signe, entiers, decimales, sens, prefixe, avant,    *)
(* nom, apres]: an amount as its sign, its integer part and its decimal    *)
(* digits, credit_debit_indicator, and the label as the bank puts it       *)
(* together from the kind of operation, the counterparty's name and        *)
(* references around it.                                                   *)
(***************************************************************************)
EXTENDS Appariement, Libelle

Chiffre(decimales, i) == IF i <= Len(decimales) THEN decimales[i] ELSE 0

(* Mutant: the digits past the cents are dropped. *)
CentimesTronques(decimales) == Chiffre(decimales, 1) * 10 + Chiffre(decimales, 2)

(* centimes_arrondis: the third digit rounds. *)
CentimesArrondis(decimales) ==
    Chiffre(decimales, 1) * 10 + Chiffre(decimales, 2)
      + (IF Chiffre(decimales, 3) >= 5 THEN 1 ELSE 0)

(* montant_en_centimes *)
MontantEnCentimes(l) == l.signe * (l.entiers * 100 + CentimesArrondis(l.decimales))

(* vers_transaction: the amount of a debit is negative, signed or not. *)
AmountCents(l) ==
    IF l.sens = "DBIT" THEN -Ecart(0, MontantEnCentimes(l)) ELSE MontantEnCentimes(l)

Label(l) == l.prefixe \o l.avant \o l.nom \o l.apres

(* The row of line l, as the SELECT of the pairing returns it. *)
Mouvement(id, compte, date, rangeALaMain, l) ==
    [id |-> id, compte |-> compte, montant |-> AmountCents(l), date |-> date,
     mots |-> ToSet(ExtraireTiers(Label(l))), rangeALaMain |-> rangeALaMain, ligne |-> l]

(* What the bank sends is a sign, digits and a direction; a movement is the *)
(* row of its line.                                                         *)
ASSUME LignesBienFormees ==
    \A entree \in Entrees : \A m \in entree :
        /\ m.ligne.signe \in {-1, 1}
        /\ m.ligne.entiers \in Nat
        /\ m.ligne.decimales \in Seq(0 .. 9)
        /\ m.montant = AmountCents(m.ligne)

(* A label as the bank puts it together: a kind of operation or none, then  *)
(* the name between titles, dates and references.  What follows the kind    *)
(* does not go on with one of its words; a name has no title in it.         *)
Habillage(s) ==
    /\ s \in Seq(STRING)
    /\ \A mot \in ToSet(RetirerCivilites(s)) : EstVolatil(mot)

Habille(l) ==
    /\ l.prefixe \in {<<>>} \cup ToSet(PREFIXES)
    /\ Habillage(l.avant) /\ Habillage(l.apres)
    /\ l.nom \in Seq(STRING)
    /\ \A mot \in ToSet(l.nom) :
          /\ ~EstVolatil(mot)
          /\ mot \notin UNION {ToSet(CIVILITES[i]) : i \in DOMAIN CIVILITES}
    /\ Head(l.avant \o l.nom) \notin UNION {ToSet(PREFIXES[i]) : i \in DOMAIN PREFIXES}

(* The lines whose name is looked for, each by itself. *)
ASSUME NomsHabilles ==
    \A entree \in Entrees : \A m \in entree :
        entree = {m} /\ m.ligne.nom # <<>> => Habille(m.ligne)

-------------------------------------------------------------------------------
(* The three properties below are about one line: the entries of a single   *)
(* movement range over all of them.                                         *)
Seule(m) == mouvements = {m}

(* The cents stored are the nearest to the amount the bank wrote, half a    *)
(* cent going away from zero, and a debit is never positive                 *)
(* (mapping.rs:13-51, 158-164).                                             *)
CentimesJustes ==
    \A m \in mouvements : Seule(m) =>
        LET l == m.ligne
            unite == FoldLeft(LAMBDA u, d : u * 10, 1, l.decimales)
            valeur == FoldLeft(LAMBDA v, d : v * 10 + d, l.entiers, l.decimales)
            centimes == Ecart(0, m.montant)
        IN  /\ 2 * 100 * valeur < (2 * centimes + 1) * unite
            /\ 2 * 100 * valeur >= (2 * centimes - 1) * unite
            /\ m.montant > 0 => l.sens # "DBIT" /\ l.signe = 1

(* Whatever the kind of operation, and whatever dates, titles and           *)
(* references the bank puts around the counterparty's name this month, the  *)
(* cleaned label is the name, cut to five words: « C'est la clé de          *)
(* stabilité de trois mécanismes » (README.md:97).                          *)
ClefStable ==
    \A m \in mouvements :
        Seule(m) /\ m.ligne.nom # <<>> =>
            ExtraireTiers(Label(m.ligne)) = Premiers(m.ligne.nom, MAX_TOKENS)

(* The rule created from a transaction, whose pattern is the cleaned label  *)
(* and is cleaned again when it is compared, applies to that transaction,   *)
(* also when nothing but noise is left of the label                         *)
(* (handlers/regles_categorisation.rs:76, regle_categorisation.rs:57).  Not *)
(* so for every text: of "CB MR OU MR OU MME MME" the first five words are  *)
(* the pattern, and a title appears when the one inside it is taken off.    *)
RegleDeSaTransaction ==
    \A m \in mouvements :
        Seule(m) => Correspond(ExtraireTiers(Label(m.ligne)), Label(m.ligne))

=============================================================================
