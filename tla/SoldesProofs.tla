---------------------------- MODULE SoldesProofs ----------------------------
(***************************************************************************)
(* What a complete synchronisation had to show is stored, and a booked row *)
(* is final, for every set of operations and every window.                 *)
(*                                                                         *)
(* A thing due is a pair <<operation, status>> the bank had to show when   *)
(* the listing began.  It is followed from the pages to come, to the lines *)
(* read, to the row: at each phase it is in one of them, or its INSERT has *)
(* failed in this synchronisation and the synchronisation owes nothing.    *)
(*                                                                         *)
(* The synchronisation with its balances is a synchronisation of the       *)
(* statement, so that all of it holds of Soldes too.                       *)
(***************************************************************************)
EXTENDS Soldes, SequenceTheorems, TLAPS

(* The line l, or the row r, settles what is due. *)
Couvre(d, l) == l.op = d[1] /\ (d[2] = "booked" => l.statut = "booked")

Acquis(d) ==
    \E r \in References :
        /\ r[1] = d[1]
        /\ table[r] # Aucune
        /\ d[2] = "booked" => table[r].statut = "booked"

Lu(d) == \E i \in 1 .. Len(lus) : Couvre(d, lus[i])

Suivi ==
    /\ \A d \in dus : d[2] = "booked" => banque[d[1]].etat = "booked"
    /\ phase = "pages" => \A d \in dus : d[1] \in curseur \/ Lu(d)
    /\ phase = "lignes" => \A d \in dus : d[1] \in rates \/ Lu(d) \/ Acquis(d)
    /\ phase \in {"repos", "soldes"} => dus = {}
    /\ \A d \in attendus : Acquis(d)

(* An operation that has one reference has one row. *)
UneReference ==
    ~EntreeTardive => \A o \in Operations : table[<<o, "transaction_id">>] = Aucune

Invariant == TypeOK /\ Suivi /\ UneReference

-------------------------------------------------------------------------------
(* A line is not the absence of a row. *)
LEMMA AucuneAPart == \A l \in Lignes : [statut |-> l.statut, date |-> l.date] # Aucune
BY DEF Lignes, Statuts, Aucune

(* The upsert gives a row, keeps a booked one as it is, and makes booked the
   row of a booked line (bank_transactions.rs:96-113). *)
LEMMA UpsertSaine ==
    ASSUME NEW avant \in Rangees, NEW l \in Lignes
    PROVE  /\ Upsert(avant, l) \in Rangees
           /\ Upsert(avant, l) # Aucune
           /\ avant.statut = "booked" => Upsert(avant, l) = avant
           /\ l.statut = "booked" => Upsert(avant, l).statut = "booked"
BY AucuneAPart DEF Upsert, Rangees, Lignes, Statuts, Aucune

(* The reference of an operation's line. *)
LEMMA ReferenceSaine ==
    ASSUME NEW o \in Operations, NEW s \in Statuts
    PROVE  /\ Reference(o, s) \in References
           /\ Reference(o, s)[1] = o
           /\ ~EntreeTardive => Reference(o, s) = <<o, "entry_reference">>
BY DEF Reference, References

-------------------------------------------------------------------------------
(* The types of the initial state. *)
LEMMA InitInvariant == Init => Invariant
<1> SUFFICES ASSUME Init PROVE Invariant
  OBVIOUS
<1>1. TypeOK
  <2>1. /\ jour \in Jours /\ debut \in Jours /\ debut <= jour
    BY ConstantesReleve DEF Init, Jours
  <2>2. banque \in [Operations -> [etat : Statuts \cup {"absente", "retiree"}, date : Jours]]
    BY ConstantesReleve DEF Init, Jours
  <2>3. table \in [References -> Rangees]
    BY DEF Init, Rangees
  <2> QED
    BY <2>1, <2>2, <2>3 DEF Init, TypeOK
<1>2. Suivi
  BY DEF Init, Suivi
<1>3. UneReference
  BY DEF Init, UneReference, References
<1> QED
  BY <1>1, <1>2, <1>3 DEF Invariant

(* Every step keeps the types. *)
LEMMA TypesConservees ==
    ASSUME TypeOK, Next
    PROVE  TypeOK'
<1> USE DEF TypeOK, synchro
<1>1. CASE Horloge
  BY <1>1, ConstantesReleve DEF Horloge, Jours
<1>2. ASSUME NEW o \in Operations, Apparaitre(o) PROVE TypeOK'
  <2>1. banque' \in [Operations -> [etat : Statuts \cup {"absente", "retiree"}, date : Jours]]
    <3>1. PICK s \in Statuts, d \in 0 .. jour :
             banque' = [banque EXCEPT ![o] = [etat |-> s, date |-> d]]
      BY <1>2 DEF Apparaitre
    <3>2. d \in Jours
      BY ConstantesReleve DEF Jours
    <3> QED
      BY <3>1, <3>2
  <2> QED
    BY <1>2, <2>1 DEF Apparaitre, MontrerAussi
<1>3. ASSUME NEW o \in Operations, Comptabiliser(o) PROVE TypeOK'
  <2>1. banque' \in [Operations -> [etat : Statuts \cup {"absente", "retiree"}, date : Jours]]
    <3>1. PICK d \in banque[o].date .. jour :
             banque' = [banque EXCEPT ![o] = [etat |-> "booked", date |-> d]]
      BY <1>3 DEF Comptabiliser
    <3>2. d \in Jours
      BY ConstantesReleve DEF Jours
    <3> QED
      BY <3>1, <3>2 DEF Statuts
  <2> QED
    BY <1>3, <2>1 DEF Comptabiliser, MontrerAussi
<1>4. ASSUME NEW o \in Operations, Retirer(o) PROVE TypeOK'
  <2>1. banque' \in [Operations -> [etat : Statuts \cup {"absente", "retiree"}, date : Jours]]
    BY <1>4 DEF Retirer
  <2> QED
    BY <1>4, <2>1 DEF Retirer
<1>5. ASSUME NEW o \in Operations, Page(o) PROVE TypeOK'
  <2>1. PICK l \in Montrer(o) : lus' = lus \o l
    BY <1>5 DEF Page
  <2>2. l \in Seq(Lignes)
    <3> DEFINE ligne(s) == [op |-> o, statut |-> s, date |-> banque[o].date]
    <3>1. ligne("pending") \in Lignes /\ ligne("booked") \in Lignes
      BY DEF Lignes, Statuts
    <3> HIDE DEF ligne
    <3>2. /\ <<ligne("pending")>> \in Seq(Lignes)
          /\ <<ligne("booked")>> \in Seq(Lignes)
          /\ <<ligne("pending"), ligne("booked")>> \in Seq(Lignes)
          /\ <<ligne("booked"), ligne("pending")>> \in Seq(Lignes)
      BY <3>1
    <3>3. l \in {<<ligne("pending")>>, <<ligne("booked")>>,
                 <<ligne("pending"), ligne("booked")>>, <<ligne("booked"), ligne("pending")>>}
      BY DEF Montrer, ligne
    <3> QED
      BY <3>2, <3>3
  <2>3. lus' \in Seq(Lignes)
    BY <2>1, <2>2, ConcatProperties
  <2> QED
    BY <1>5, <2>3 DEF Page
<1>6. CASE Debut
  BY <1>6 DEF Debut, Jours
<1>7. CASE Lister
  <2>1. dus' \subseteq Operations \X Statuts
    BY <1>7 DEF Lister, Visible
  <2> QED
    BY <1>7, <2>1 DEF Lister
<1>8. CASE FinPages
  BY <1>8 DEF FinPages
<1>9. CASE Abandonner
  BY <1>9 DEF Abandonner
<1>10. CASE Inserer
  <2>1. Head(lus) \in Lignes /\ lus' \in Seq(Lignes)
    BY <1>10, HeadTailProperties DEF Inserer
  <2>2. Head(lus).op \in Operations /\ Head(lus).statut \in Statuts
    BY <2>1 DEF Lignes
  <2>3. Reference(Head(lus).op, Head(lus).statut) \in References
    BY <2>2, ReferenceSaine
  <2>4. table' \in [References -> Rangees]
    BY <1>10, <2>1, <2>3, UpsertSaine DEF Inserer
  <2> QED
    BY <1>10, <2>1, <2>4 DEF Inserer
<1>11. CASE InsererEchoue
  <2>1. Head(lus) \in Lignes /\ lus' \in Seq(Lignes)
    BY <1>11, HeadTailProperties DEF InsererEchoue
  <2> QED
    BY <1>11, <2>1 DEF InsererEchoue, Lignes
<1>12. CASE Fin
  BY <1>12 DEF Fin
<1> QED
  BY <1>1, <1>2, <1>3, <1>4, <1>5, <1>6, <1>7, <1>8, <1>9, <1>10, <1>11, <1>12 DEF Next

-------------------------------------------------------------------------------
(* Only Inserer writes the table; it does so by one upsert of the head. *)
LEMMA TableChangee ==
    ASSUME TypeOK, Next, table' # table
    PROVE  Inserer
BY DEF Next, Horloge, Apparaitre, Comptabiliser, Retirer, Page, Debut, Lister, FinPages,
       Abandonner, InsererEchoue, Fin

(* The line inserted, its row, and the rest of the lines. *)
LEMMA LigneInseree ==
    ASSUME TypeOK, lus # <<>>
    PROVE  /\ Head(lus) \in Lignes
           /\ Head(lus).op \in Operations
           /\ Head(lus).statut \in Statuts
           /\ Reference(Head(lus).op, Head(lus).statut) \in References
           /\ Tail(lus) \in Seq(Lignes)
           /\ Len(Tail(lus)) = Len(lus) - 1
           /\ \A i \in 1 .. Len(Tail(lus)) : Tail(lus)[i] = lus[i + 1]
<1>1. lus \in Seq(Lignes)
  BY DEF TypeOK
<1>2. Head(lus) \in Lignes /\ Tail(lus) \in Seq(Lignes) /\ Len(Tail(lus)) = Len(lus) - 1
  BY <1>1, HeadTailProperties
<1>3. Head(lus).op \in Operations /\ Head(lus).statut \in Statuts
  BY <1>2 DEF Lignes
<1>4. \A i \in 1 .. Len(Tail(lus)) : Tail(lus)[i] = lus[i + 1]
  BY <1>1, <1>2
<1> QED
  BY <1>2, <1>3, <1>4, ReferenceSaine

(* What has been acquired stays acquired: no row goes away, and a booked row
   stays booked. *)
LEMMA AcquisStable ==
    ASSUME TypeOK, Next, NEW d, Acquis(d)
    PROVE  Acquis(d)'
<1>1. PICK r \in References :
         r[1] = d[1] /\ table[r] # Aucune /\ (d[2] = "booked" => table[r].statut = "booked")
  BY DEF Acquis
<1>2. CASE table' = table
  BY <1>1, <1>2 DEF Acquis
<1>3. CASE table' # table
  <2>1. Inserer /\ lus # <<>>
    BY <1>3, TableChangee DEF Inserer
  <2> DEFINE l == Head(lus)
             q == Reference(l.op, l.statut)
  <2>2. l \in Lignes /\ q \in References
    BY <2>1, LigneInseree
  <2>3. table' = [table EXCEPT ![q] = Upsert(table[q], l)]
    BY <2>1 DEF Inserer
  <2> HIDE DEF l, q
  <2>4. table \in [References -> Rangees]
    BY DEF TypeOK
  <2>5. CASE r # q
    BY <1>1, <2>2, <2>3, <2>4, <2>5 DEF Acquis
  <2>6. CASE r = q
    <3>1. table'[r] = Upsert(table[r], l)
      BY <2>2, <2>3, <2>4, <2>6
    <3>2. table'[r] # Aucune /\ (table[r].statut = "booked" => table'[r] = table[r])
      BY <2>2, <2>4, <3>1, UpsertSaine
    <3> QED
      BY <1>1, <3>2 DEF Acquis
  <2> QED
    BY <2>5, <2>6
<1> QED
  BY <1>2, <1>3

(* A line inserted settles everything it covers. *)
LEMMA InsererAcquiert ==
    ASSUME TypeOK, Inserer, NEW d, Couvre(d, Head(lus))
    PROVE  Acquis(d)'
<1> DEFINE l == Head(lus)
           r == Reference(l.op, l.statut)
<1>1. /\ l \in Lignes /\ l.op \in Operations /\ l.statut \in Statuts
      /\ r \in References /\ r[1] = l.op
  BY LigneInseree, ReferenceSaine DEF Inserer
<1>2. table' = [table EXCEPT ![r] = Upsert(table[r], l)] /\ table \in [References -> Rangees]
  BY DEF Inserer, TypeOK
<1>3. l.op = d[1] /\ (d[2] = "booked" => l.statut = "booked")
  BY DEF Couvre
<1> HIDE DEF l, r
<1>4. table'[r] = Upsert(table[r], l) /\ table[r] \in Rangees
  BY <1>1, <1>2
<1>5. table'[r] # Aucune /\ (l.statut = "booked" => table'[r].statut = "booked")
  BY <1>1, <1>4, UpsertSaine
<1> QED
  BY <1>1, <1>3, <1>5 DEF Acquis

(* Taking a line off leaves the others. *)
LEMMA LuApresTete ==
    ASSUME TypeOK, lus # <<>>, lus' = Tail(lus), NEW d, Lu(d)
    PROVE  Couvre(d, Head(lus)) \/ Lu(d)'
<1>1. PICK i \in 1 .. Len(lus) : Couvre(d, lus[i])
  BY DEF Lu
<1>2. lus \in Seq(Lignes)
  BY DEF TypeOK
<1>3. CASE i = 1
  BY <1>1, <1>2, <1>3
<1>4. CASE i # 1
  <2>1. i - 1 \in 1 .. Len(lus') /\ lus'[i - 1] = lus[i]
    BY <1>1, <1>2, <1>4, LigneInseree
  <2>2. Couvre(d, lus'[i - 1])
    BY <1>1, <2>1
  <2> QED
    BY <2>1, <2>2 DEF Lu, Couvre
<1> QED
  BY <1>3, <1>4

(* Sequences of one or two lines. *)
LEMMA PetitesSuites ==
    ASSUME NEW a, NEW b
    PROVE  /\ \A l \in {<<a>>, <<b>>, <<a, b>>, <<b, a>>} : l \in Seq({a, b})
           /\ \A l \in {<<b>>, <<a, b>>, <<b, a>>} : \E j \in 1 .. Len(l) : l[j] = b
<1>1. <<a>> \in Seq({a, b}) /\ <<b>> \in Seq({a, b})
  OBVIOUS
<1>2. <<a, b>> \in Seq({a, b}) /\ <<b, a>> \in Seq({a, b})
  OBVIOUS
<1>3. ASSUME NEW l, l = <<b>> \/ l = <<b, a>> PROVE \E j \in 1 .. Len(l) : l[j] = b
  <2>1. 1 \in 1 .. Len(l) /\ l[1] = b
    BY <1>3
  <2> QED
    BY <2>1
<1>4. ASSUME NEW l, l = <<a, b>> PROVE \E j \in 1 .. Len(l) : l[j] = b
  <2>1. 2 \in 1 .. Len(l) /\ l[2] = b
    BY <1>4
  <2> QED
    BY <2>1
<1> QED
  BY <1>1, <1>2, <1>3, <1>4

(* The lines already read are still there when a page brings others, and a
   page shows the operation as far advanced as the bank knows it. *)
LEMMA PageMontre ==
    ASSUME TypeOK, NEW o \in Operations, Page(o), NEW d
    PROVE  /\ Lu(d) => Lu(d)'
           /\ (d[1] = o /\ (d[2] = "booked" => banque[o].etat = "booked")) => Lu(d)'
<1>1. PICK l \in Montrer(o) : lus' = lus \o l
  BY DEF Page
<1> DEFINE ligne(s) == [op |-> o, statut |-> s, date |-> banque[o].date]
<1>2. l \in {<<ligne("pending")>>, <<ligne("booked")>>,
             <<ligne("pending"), ligne("booked")>>, <<ligne("booked"), ligne("pending")>>}
  BY <1>1 DEF Montrer
<1>3. banque[o].etat # "pending" =>
        l \in {<<ligne("booked")>>, <<ligne("pending"), ligne("booked")>>,
              <<ligne("booked"), ligne("pending")>>}
  BY <1>1 DEF Montrer
<1>4. lus \in Seq(Lignes) /\ l \in Seq({ligne("pending"), ligne("booked")})
  <2> HIDE DEF ligne
  <2>1. lus \in Seq(Lignes)
    BY DEF TypeOK
  <2>2. \A x \in {<<ligne("pending")>>, <<ligne("booked")>>,
               <<ligne("pending"), ligne("booked")>>, <<ligne("booked"), ligne("pending")>>} :
            x \in Seq({ligne("pending"), ligne("booked")})
    BY PetitesSuites, Zenon
  <2>3. l \in Seq({ligne("pending"), ligne("booked")})
    BY <1>2, <2>2, Zenon
  <2> QED
    BY <2>1, <2>3
<1>5. /\ Len(lus') = Len(lus) + Len(l)
      /\ \A i \in 1 .. Len(lus) : lus'[i] = lus[i]
      /\ \A i \in 1 .. Len(l) : lus'[Len(lus) + i] = l[i]
  BY <1>1, <1>4
<1>6. Lu(d) => Lu(d)'
  BY <1>4, <1>5 DEF Lu, Couvre
<1>7. ASSUME d[1] = o, d[2] = "booked" => banque[o].etat = "booked"
      PROVE  Lu(d)'
  <2>1. \E j \in 1 .. Len(l) : Couvre(d, l[j])
    <3>1. CASE banque[o].etat = "pending"
      BY <1>2, <1>7, <3>1 DEF Couvre
    <3>2. CASE banque[o].etat # "pending"
      <4>1. \E j \in 1 .. Len(l) : l[j] = ligne("booked")
        <5> HIDE DEF ligne
        <5> QED
          BY <1>3, <3>2, PetitesSuites
      <4> QED
        BY <1>7, <4>1 DEF Couvre
    <3> QED
      BY <3>1, <3>2
  <2>2. PICK j \in 1 .. Len(l) : Couvre(d, l[j])
    BY <2>1
  <2>3. Len(lus) + j \in 1 .. Len(lus') /\ lus'[Len(lus) + j] = l[j]
    BY <1>4, <1>5
  <2> QED
    BY <2>2, <2>3 DEF Lu, Couvre
<1> QED
  BY <1>6, <1>7

-------------------------------------------------------------------------------
(* Every step keeps the thread of what is due. *)
LEMMA SuiviConserve ==
    ASSUME TypeOK, Suivi, Next
    PROVE  Suivi'
<1>0. \A d \in attendus : Acquis(d)'
  BY AcquisStable DEF Suivi
<1>1. CASE Horloge
  BY <1>1 DEF Horloge, synchro, Suivi, Lu, Couvre, Acquis
<1>2. ASSUME NEW o \in Operations, Apparaitre(o) PROVE Suivi'
  <2>1. \A d \in dus : d[2] = "booked" => banque'[d[1]].etat = "booked"
    BY <1>2 DEF Apparaitre, Suivi, TypeOK
  <2>2. curseur \subseteq curseur'
    BY <1>2 DEF Apparaitre, MontrerAussi
  <2> QED
    BY <1>2, <2>1, <2>2 DEF Apparaitre, Suivi, Lu, Couvre, Acquis
<1>3. ASSUME NEW o \in Operations, Comptabiliser(o) PROVE Suivi'
  <2>1. \A d \in dus : d[2] = "booked" => banque'[d[1]].etat = "booked"
    BY <1>3 DEF Comptabiliser, Suivi, TypeOK
  <2>2. curseur \subseteq curseur'
    BY <1>3 DEF Comptabiliser, MontrerAussi
  <2> QED
    BY <1>3, <2>1, <2>2 DEF Comptabiliser, Suivi, Lu, Couvre, Acquis
<1>4. ASSUME NEW o \in Operations, Retirer(o) PROVE Suivi'
  <2>1. \A d \in dus' : d \in dus /\ d[1] # o
    <3>1. \A d \in dus : d[2] = "booked" => d[1] # o
      BY <1>4 DEF Retirer, Suivi
    <3>2. \A d \in dus : d = <<d[1], d[2]>> /\ d[2] \in {"pending", "booked"}
      BY DEF TypeOK, Statuts
    <3> QED
      BY <1>4, <3>1, <3>2 DEF Retirer
  <2>2. \A d \in dus' : d[2] = "booked" => banque'[d[1]].etat = "booked"
    BY <1>4, <2>1 DEF Retirer, Suivi, TypeOK
  <2> QED
    BY <1>4, <2>1, <2>2 DEF Retirer, Suivi, Lu, Couvre, Acquis
<1>5. ASSUME NEW o \in Operations, Page(o) PROVE Suivi'
  <2>1. \A d \in dus : d[1] \in curseur' \/ Lu(d)'
    BY <1>5, PageMontre DEF Page, Suivi
  <2> QED
    BY <1>0, <1>5, <2>1 DEF Page, Suivi
<1>6. CASE Debut
  BY <1>6 DEF Debut, Suivi, Lu, Couvre, Acquis
<1>7. CASE Lister
  <2>1. \A d \in dus' : d[1] \in curseur'
    BY <1>7 DEF Lister, Depuis
  <2>2. \A d \in dus' : d[2] = "booked" => banque'[d[1]].etat = "booked"
    BY <1>7 DEF Lister
  <2>3. phase' = "pages" /\ attendus' = attendus
    BY <1>7 DEF Lister
  <2> QED
    BY <1>0, <2>1, <2>2, <2>3 DEF Suivi
<1>8. CASE FinPages
  BY <1>8 DEF FinPages, Suivi, Lu, Couvre, Acquis
<1>9. CASE Abandonner
  BY <1>0, <1>9 DEF Abandonner, Suivi
<1>10. CASE Inserer
  <2>1. \A d \in dus : d[1] \in rates' \/ Lu(d)' \/ Acquis(d)'
    BY <1>10, AcquisStable, InsererAcquiert, LuApresTete DEF Inserer, Suivi
  <2> QED
    BY <1>0, <1>10, <2>1 DEF Inserer, Suivi
<1>11. CASE InsererEchoue
  <2>1. \A d \in dus : d[1] \in rates' \/ Lu(d)' \/ Acquis(d)'
    BY <1>11, AcquisStable, LuApresTete DEF InsererEchoue, Suivi, Couvre
  <2> QED
    BY <1>0, <1>11, <2>1 DEF InsererEchoue, Suivi
<1>12. CASE Fin
  <2>1. \A d \in dus : d[1] \in rates \/ Acquis(d)
    BY <1>12 DEF Fin, Suivi, Lu
  <2>2. \A d \in attendus' : Acquis(d)'
    BY <1>0, <1>12, <2>1, AcquisStable DEF Fin
  <2> QED
    BY <1>12, <2>2 DEF Fin, Suivi
<1> QED
  BY <1>1, <1>2, <1>3, <1>4, <1>5, <1>6, <1>7, <1>8, <1>9, <1>10, <1>11, <1>12 DEF Next

(* Only an upsert on the entry_reference writes a row. *)
LEMMA UneReferenceConservee ==
    ASSUME TypeOK, UneReference, Next
    PROVE  UneReference'
<1>1. CASE table' = table
  BY <1>1 DEF UneReference
<1>2. CASE table' # table
  <2>1. Inserer /\ lus # <<>>
    BY <1>2, TableChangee DEF Inserer
  <2> SUFFICES ASSUME ~EntreeTardive, NEW o \in Operations
               PROVE  table'[<<o, "transaction_id">>] = Aucune
    BY DEF UneReference
  <2>2. Reference(Head(lus).op, Head(lus).statut) = <<Head(lus).op, "entry_reference">>
    BY <2>1, LigneInseree, ReferenceSaine
  <2>3. <<o, "transaction_id">> # <<Head(lus).op, "entry_reference">>
    OBVIOUS
  <2> QED
    BY <2>1, <2>2, <2>3 DEF Inserer, UneReference, TypeOK, References
<1> QED
  BY <1>1, <1>2

-------------------------------------------------------------------------------
(* Types, thread and single reference hold in every state. *)
THEOREM InvariantDuReleve == Spec => []Invariant
<1>1. Init => Invariant
  BY InitInvariant
<1>2. Invariant /\ [Next]_vars => Invariant'
  <2> SUFFICES ASSUME Invariant, [Next]_vars PROVE Invariant'
    OBVIOUS
  <2>1. CASE Next
    BY <2>1, TypesConservees, SuiviConserve, UneReferenceConservee DEF Invariant
  <2>2. CASE UNCHANGED vars
    BY <2>2 DEF vars, synchro, Invariant, TypeOK, Suivi, UneReference, Lu, Couvre, Acquis
  <2> QED
    BY <2>1, <2>2
<1> QED
  BY <1>1, <1>2, PTL DEF Spec

(* The types of the module. *)
THEOREM TypesDuReleve == Spec => []TypeOK
BY InvariantDuReleve, PTL DEF Invariant

(* What the bank had to show within the window has a row once the
   synchronisation is complete, whatever failed before (remonter_donnees). *)
THEOREM RienNEstPerdu == Spec => []RienDePerdu
<1>1. Invariant => RienDePerdu
  BY DEF Invariant, Suivi, Acquis, RienDePerdu, RangeesDe
<1> QED
  BY <1>1, InvariantDuReleve, PTL

(* Where the bank keeps one reference per operation, an operation shown as
   booked by a complete synchronisation has no pending row left. *)
THEOREM TransitionToujoursAppliquee ==
    ASSUME ~EntreeTardive
    PROVE  Spec => []TransitionAppliquee
<1>1. Invariant => TransitionAppliquee
  <2> SUFFICES ASSUME Invariant, NEW o \in Operations, <<o, "booked">> \in attendus,
                      NEW r \in RangeesDe(o)
               PROVE  table[r].statut = "booked"
    BY DEF TransitionAppliquee
  <2>1. \A q \in References : (q[1] = o /\ table[q] # Aucune) => q = <<o, "entry_reference">>
    BY DEF Invariant, UneReference, References
  <2>2. PICK q \in References : q[1] = o /\ table[q] # Aucune /\ table[q].statut = "booked"
    BY DEF Invariant, Suivi, Acquis
  <2>3. r \in References /\ r[1] = o /\ table[r] # Aucune
    BY DEF RangeesDe
  <2> QED
    BY <2>1, <2>2, <2>3
<1> QED
  BY <1>1, InvariantDuReleve, PTL

(* A booked row never changes again (the WHERE of the upsert). *)
THEOREM LigneComptabiliseeFinale == Spec => ComptabiliseeDefinitive
<1>1. ASSUME Invariant, [Next]_vars
      PROVE  [\A r \in References : table[r].statut = "booked" => table'[r] = table[r]]_table
  <2>1. CASE table' = table
    BY <2>1
  <2>2. CASE table' # table
    <3>1. Next /\ TypeOK
      BY <1>1, <2>2 DEF vars, Invariant
    <3>2. Inserer /\ lus # <<>>
      BY <2>2, <3>1, TableChangee DEF Inserer
    <3> DEFINE q == Reference(Head(lus).op, Head(lus).statut)
    <3>3. /\ Head(lus) \in Lignes /\ q \in References /\ table \in [References -> Rangees]
          /\ table' = [table EXCEPT ![q] = Upsert(table[q], Head(lus))]
      BY <3>1, <3>2, LigneInseree DEF Inserer, TypeOK
    <3> HIDE DEF q
    <3>4. ASSUME NEW r \in References, table[r].statut = "booked" PROVE table'[r] = table[r]
      BY <3>3, <3>4, UpsertSaine
    <3> QED
      BY <3>4
  <2> QED
    BY <2>1, <2>2
<1> QED
  BY <1>1, InvariantDuReleve, PTL DEF Spec, ComptabiliseeDefinitive

-------------------------------------------------------------------------------
(* With the balances. *)

(* One step of the code, balances included, is a step of Releve or leaves   *)
(* it alone.                                                               *)
LEMMA PasDeReleve == [NextSoldes]_varsSoldes => [Next]_vars
<1> SUFFICES ASSUME [NextSoldes]_varsSoldes
             PROVE  [Next]_vars
  OBVIOUS
<1>1. CASE LireSoldes \/ ListerApresSoldes \/ AbandonnerSoldes \/ FinSoldes
  BY <1>1 DEF LireSoldes, ListerApresSoldes, AbandonnerSoldes, FinSoldes, Next
<1>2. CASE StockerSolde \/ SoldeEchoue
  BY <1>2 DEF StockerSolde, SoldeEchoue
<1>3. CASE \/ Horloge \/ FinPages \/ Inserer \/ InsererEchoue
           \/ \E o \in Operations :
                Apparaitre(o) \/ Comptabiliser(o) \/ Retirer(o) \/ Page(o)
  BY <1>3 DEF Next
<1>4. CASE UNCHANGED varsSoldes
  BY <1>4 DEF varsSoldes
<1> QED
  BY <1>1, <1>2, <1>3, <1>4 DEF NextSoldes

(* Soldes implements Releve: remonter_donnees with its balances             *)
(* (synchro.rs:243-276) does to the statement what Releve says.             *)
THEOREM SoldesImplementeReleve == SpecSoldes => Spec
<1>1. InitSoldes => Init
  BY DEF InitSoldes
<1> QED
  BY <1>1, PasDeReleve, PTL DEF SpecSoldes, Spec

(* What the bank had to show has a row, balances or not (synchro.rs:243).   *)
THEOREM RienNEstPerduNonPlus == SpecSoldes => []RienDePerdu
BY SoldesImplementeReleve, RienNEstPerdu, PTL

(* A booked row keeps its status and its date (bank_transactions.rs:105).   *)
THEOREM ComptabiliseeFinale == SpecSoldes => ComptabiliseeDefinitive
BY SoldesImplementeReleve, LigneComptabiliseeFinale, PTL

-------------------------------------------------------------------------------
(* A balance read and not stored yet.                                      *)
SoldesLus ==
    [genre : {"CLBD", "PRCD", "ITAV"}, rang : {1, 2}, date : Int,
     operations : SUBSET Operations]

FormesSoldes ==
    /\ aStocker \in Seq(SoldesLus)
    /\ affiche \in [rang : 0 .. 2, date : Int, operations : SUBSET Operations]
    /\ lues \subseteq Operations
    /\ aJour \in BOOLEAN /\ complet \in BOOLEAN

(* The date of the bank's current balance, read on the first day of the    *)
(* synchronisation.                                                        *)
DateCourante == IF Datees THEN 2 * debut ELSE 2 * debut + 1

Comptabilisee(o) == banque[o].etat = "booked"

(* What each balance read counts, and where the ORDER BY puts it.          *)
SoldeLu(s) ==
    /\ s.genre = "CLBD" =>
         s.rang = 2 /\ s.date = DateCourante /\ s.operations = lues
    /\ s.genre = "PRCD" =>
         s.rang = 2 /\ s.date = IF Datees THEN 2 * debut - 2 ELSE 2 * debut + 1
    /\ s.genre = "ITAV" => s.rang = 1
    /\ s.rang = 2 => \A o \in s.operations : Comptabilisee(o)

Lectures == \A i \in 1 .. Len(aStocker) : SoldeLu(aStocker[i])

Affichage ==
    /\ Lectures
    /\ phase # "soldes" => aStocker = <<>>
    /\ affiche.rang = 2 =>
         affiche.date <= DateCourante /\ \A o \in affiche.operations : Comptabilisee(o)
    /\ aJour =>
         /\ affiche.rang = 2 /\ affiche.date = DateCourante /\ affiche.operations = lues
         /\ Datees \/ \A i \in 1 .. Len(aStocker) : aStocker[i].genre # "PRCD"

(* What a booked balance counts within the window is due by the listing    *)
(* that follows it, then settled.                                          *)
Explication ==
    /\ complet => phase = "repos"
    /\ affiche.rang = 2 =>
         \A o \in affiche.operations :
           banque[o].date >= debut - Fenetre =>
             /\ phase \in {"pages", "lignes"} => <<o, "booked">> \in dus
             /\ complet => <<o, "booked">> \in attendus

InvariantSoldes == FormesSoldes /\ Affichage /\ Explication

-------------------------------------------------------------------------------
(* A finite function from 1..n is a sequence.                                *)
LEMMA FonctionEstSuite ==
    ASSUME NEW S, NEW n \in Nat, NEW f \in [1..n -> S]
    PROVE  f \in Seq(S)
  BY SeqDef

(* What the bank has booked keeps its date.                                  *)
LEMMA ComptabiliseeReste ==
    ASSUME TypeOK, [Next]_vars, NEW o \in Operations, Comptabilisee(o)
    PROVE  banque'[o] = banque[o]
<1>1. CASE UNCHANGED banque
  BY <1>1
<1>2. ASSUME NEW p \in Operations, \/ Apparaitre(p) \/ Comptabiliser(p) \/ Retirer(p)
      PROVE  banque'[o] = banque[o]
  BY <1>2 DEF Apparaitre, Comptabiliser, Retirer, TypeOK, Comptabilisee
<1> QED
  BY <1>1, <1>2 DEF Next, vars, synchro, Horloge, Page, Debut, Lister, FinPages,
     Abandonner, Inserer, InsererEchoue, Fin

(* vers_balance: what is read of each balance of an answer.                  *)
LEMMA SoldeBienLu ==
    ASSUME TypeOK, NEW genre \in {"CLBD", "PRCD", "ITAV"},
           debut' = jour, lues' = Comptabilisees, banque' = banque
    PROVE  /\ Solde(genre) \in SoldesLus /\ Solde(genre).genre = genre
           /\ \A s : s = Solde(genre) => SoldeLu(s)'
<1>1. jour \in Int
  BY DEF TypeOK, Jours
<1>2. /\ Comptees(genre) \subseteq Operations
      /\ genre = "CLBD" => Comptees(genre) = Comptabilisees
      /\ genre \in {"CLBD", "PRCD"} => \A o \in Comptees(genre) : Comptabilisee(o)
  BY DEF Comptees, Comptabilisees, Comptabilisee
<1>3. DateDe(genre) \in Int /\ RangDe(genre) \in {1, 2}
  BY <1>1 DEF DateDe, RangDe
<1>4. Solde(genre) \in SoldesLus /\ Solde(genre).genre = genre
  BY <1>2, <1>3 DEF Solde, SoldesLus
<1>5. ASSUME NEW s, s = Solde(genre)
      PROVE  SoldeLu(s)'
  <2>1. s = [genre |-> genre, rang |-> RangDe(genre), date |-> DateDe(genre),
             operations |-> Comptees(genre)]
    BY <1>5 DEF Solde
  <2> QED
    BY <2>1, <1>1, <1>2 DEF SoldeLu, DateDe, RangDe, DateCourante, Comptabilisee
<1> QED
  BY <1>4, <1>5

(* Each step keeps what the balances read and shown stand for.               *)
LEMMA SoldesGardes ==
    ASSUME TypeOK, TypeOK', InvariantSoldes, [NextSoldes]_varsSoldes
    PROVE  InvariantSoldes'
<1> USE DEF FormesSoldes, varsSoldes, vars, synchro, soldes
<1>0. /\ debut \in Int /\ debut' \in Int /\ debut <= jour /\ jour \in Int
      /\ \A o \in Operations : Comptabilisee(o) => banque'[o] = banque[o]
  BY PasDeReleve, ComptabiliseeReste DEF TypeOK, Jours
<1>1. CASE LireSoldes
  <2>1. PICK reponse \in Reponses : aStocker' = [i \in DOMAIN reponse |-> Solde(reponse[i])]
    BY <1>1 DEF LireSoldes
  <2>2. /\ Len(reponse) \in Nat /\ DOMAIN reponse = 1 .. Len(reponse)
        /\ \A i \in 1 .. Len(reponse) : reponse[i] \in {"CLBD", "PRCD", "ITAV"}
    BY ConstantesSoldes
  <2>3. /\ phase' = "soldes" /\ debut' = jour /\ banque' = banque
        /\ lues' = Comptabilisees /\ aJour' = FALSE /\ complet' = FALSE /\ affiche' = affiche
    BY <1>1 DEF LireSoldes, Debut
  <2>4. \A i \in 1 .. Len(reponse) :
           Solde(reponse[i]) \in SoldesLus /\ \A s : s = Solde(reponse[i]) => SoldeLu(s)'
    BY <2>2, <2>3, SoldeBienLu
  <2>5. aStocker' \in [1 .. Len(reponse) -> SoldesLus]
    BY <2>1, <2>2, <2>4
  <2>6. aStocker' \in Seq(SoldesLus)
    BY <2>2, <2>5, FonctionEstSuite
  <2>7. Len(aStocker') = Len(reponse)
    BY <2>1, <2>2, <2>6
  <2>8. Lectures'
    <3>1. ASSUME NEW i \in 1 .. Len(reponse)
          PROVE  SoldeLu(aStocker[i])'
      <4>1. \A s : s = Solde(reponse[i]) => SoldeLu(s)'
        BY <2>4
      <4>2. aStocker'[i] = Solde(reponse[i])
        BY <2>1, <2>2
      <4> QED
        BY <4>1, <4>2
    <3> QED
      BY <2>7, <3>1 DEF Lectures
  <2>9. FormesSoldes'
    BY <2>3, <2>6 DEF InvariantSoldes, Comptabilisees
  <2>10. Affichage'
    <3>1. affiche.rang = 2 => affiche.date <= DateCourante'
      BY <1>0, <2>3 DEF InvariantSoldes, Affichage, DateCourante
    <3>2. phase' = "soldes" /\ aJour' = FALSE
      BY <2>3
    <3>3. affiche.rang = 2 => \A o \in affiche.operations : Comptabilisee(o)'
      BY <2>3 DEF InvariantSoldes, Affichage, Comptabilisee
    <3> QED
      BY <2>3, <2>8, <3>1, <3>2, <3>3 DEF Affichage
  <2>11. Explication'
    BY <2>3 DEF Explication
  <2> QED
    BY <2>9, <2>10, <2>11 DEF InvariantSoldes
<1>2. CASE StockerSolde
  <2> DEFINE s == Head(aStocker)
  <2>1. /\ aStocker # <<>> /\ aStocker' = Tail(aStocker)
        /\ UNCHANGED <<vars, lues, complet>>
        /\ affiche' = IF Devant(s, affiche)
                      THEN [rang |-> s.rang, date |-> s.date, operations |-> s.operations]
                      ELSE affiche
        /\ aJour' = (aJour \/ (s.genre = "CLBD" /\ SansDoute(aStocker)))
    BY <1>2 DEF StockerSolde
  <2>2. /\ s \in SoldesLus /\ s = aStocker[1] /\ 1 \in 1 .. Len(aStocker)
        /\ Tail(aStocker) \in Seq(SoldesLus)
        /\ Len(Tail(aStocker)) = Len(aStocker) - 1
        /\ \A i \in 1 .. Len(Tail(aStocker)) :
              i + 1 \in 1 .. Len(aStocker) /\ Tail(aStocker)[i] = aStocker[i + 1]
    BY <2>1 DEF InvariantSoldes
  <2>3. SoldeLu(s)
    BY <2>2 DEF InvariantSoldes, Affichage, Lectures
  <2>4. /\ SoldesLus = [genre : {"CLBD", "PRCD", "ITAV"}, rang : {1, 2}, date : Int,
                        operations : SUBSET Operations]
        /\ DOMAIN aStocker = 1 .. Len(aStocker)
    BY DEF SoldesLus, InvariantSoldes
  <2> HIDE DEF s
  <2>5. FormesSoldes'
    <3>0. s.rang \in 0 .. 2 /\ s.date \in Int /\ s.operations \in SUBSET Operations
      BY <2>2, <2>4
    <3>1. affiche' \in [rang : 0 .. 2, date : Int, operations : SUBSET Operations]
      BY <2>1, <3>0 DEF InvariantSoldes
    <3> QED
      BY <2>1, <2>2, <3>1 DEF InvariantSoldes
  <2>6. phase = "soldes"
    BY <2>1 DEF InvariantSoldes, Affichage
  <2>7. UNCHANGED DateCourante /\ \A x : SoldeLu(x)' <=> SoldeLu(x)
    BY <2>1 DEF DateCourante, SoldeLu, Comptabilisee
  <2>8. Lectures'
    BY <2>1, <2>2, <2>7 DEF InvariantSoldes, Affichage, Lectures
  <2>9. affiche'.rang = 2 =>
          affiche'.date <= DateCourante /\ \A o \in affiche'.operations : Comptabilisee(o)
    <3>1. s.rang = 2 => s.date <= DateCourante /\ \A o \in s.operations : Comptabilisee(o)
      BY <1>0, <2>2, <2>3, <2>4 DEF SoldeLu, DateCourante
    <3> QED
      BY <2>1, <3>1 DEF InvariantSoldes, Affichage
  <2>10. ASSUME aJour'
         PROVE  /\ affiche'.rang = 2 /\ affiche'.date = DateCourante /\ affiche'.operations = lues
                /\ Datees \/ \A i \in 1 .. Len(aStocker) : aStocker[i].genre # "PRCD"
    <3>0. DateCourante \in Int
      BY <1>0 DEF DateCourante
    <3>1. CASE s.genre = "CLBD" /\ SansDoute(aStocker)
      <4>1. s.rang = 2 /\ s.date = DateCourante /\ s.operations = lues
        BY <2>3, <3>1 DEF SoldeLu
      <4>2. Devant(s, affiche)
        BY <3>0, <4>1 DEF Devant, InvariantSoldes, Affichage
      <4>3. Datees \/ \A i \in 1 .. Len(aStocker) : aStocker[i].genre # "PRCD"
        BY <2>4, <3>1 DEF SansDoute
      <4> QED
        BY <2>1, <4>1, <4>2, <4>3
    <3>2. CASE aJour /\ s.genre # "CLBD"
      <4>1. /\ affiche.rang = 2 /\ affiche.date = DateCourante /\ affiche.operations = lues
            /\ Datees \/ \A i \in 1 .. Len(aStocker) : aStocker[i].genre # "PRCD"
        BY <3>2 DEF InvariantSoldes, Affichage
      <4>2. s.genre = "PRCD" => s.date < DateCourante /\ s.rang = 2
        BY <1>0, <2>2, <2>3, <4>1 DEF SoldeLu, DateCourante
      <4>3. s.genre \in {"PRCD", "ITAV"} /\ s.date \in Int
        BY <2>2, <2>4, <3>2
      <4>4. ~Devant(s, affiche)
        BY <2>3, <3>0, <4>1, <4>2, <4>3 DEF Devant, SoldeLu
      <4> QED
        BY <2>1, <4>1, <4>4
    <3>3. CASE aJour /\ s.genre = "CLBD"
      <4>1. /\ affiche.rang = 2 /\ affiche.date = DateCourante /\ affiche.operations = lues
            /\ Datees \/ \A i \in 1 .. Len(aStocker) : aStocker[i].genre # "PRCD"
        BY <3>3 DEF InvariantSoldes, Affichage
      <4>2. s.rang = 2 /\ s.date = DateCourante /\ s.operations = lues
        BY <2>3, <3>3 DEF SoldeLu
      <4> QED
        BY <2>1, <4>1, <4>2
    <3> QED
      BY <2>1, <2>10, <3>1, <3>2, <3>3
  <2>11. Affichage'
    <3>1. aJour' => Datees \/ \A i \in 1 .. Len(aStocker') : aStocker'[i].genre # "PRCD"
      BY <2>1, <2>2, <2>10
    <3>2. phase' = "soldes" /\ lues' = lues
      BY <2>1, <2>6
    <3>3. affiche'.rang = 2 => \A o \in affiche'.operations : Comptabilisee(o)'
      BY <2>1, <2>9 DEF Comptabilisee
    <3> QED
      BY <2>7, <2>8, <2>9, <2>10, <3>1, <3>2, <3>3 DEF Affichage
  <2>12. Explication'
    BY <2>1, <2>6 DEF InvariantSoldes, Explication
  <2> QED
    BY <2>5, <2>11, <2>12 DEF InvariantSoldes
<1>3. CASE SoldeEchoue
  <2>1. /\ aStocker # <<>> /\ aStocker' = Tail(aStocker)
        /\ UNCHANGED <<vars, affiche, lues, aJour, complet>>
    BY <1>3 DEF SoldeEchoue
  <2>2. /\ Tail(aStocker) \in Seq(SoldesLus)
        /\ \A i \in 1 .. Len(Tail(aStocker)) :
              i + 1 \in 1 .. Len(aStocker) /\ Tail(aStocker)[i] = aStocker[i + 1]
    BY <2>1 DEF InvariantSoldes
  <2>3. \A x : SoldeLu(x)' <=> SoldeLu(x)
    BY <2>1 DEF DateCourante, SoldeLu, Comptabilisee
  <2>4. FormesSoldes' /\ Explication'
    BY <2>1, <2>2 DEF InvariantSoldes, Explication
  <2>5. Affichage'
    BY <2>1, <2>2, <2>3 DEF InvariantSoldes, Affichage, Lectures, DateCourante, Comptabilisee
  <2> QED
    BY <2>4, <2>5 DEF InvariantSoldes
<1>4. ASSUME UNCHANGED <<aStocker, affiche, lues, debut>>,
             phase' # "soldes" => aStocker = <<>>, aJour' => aJour
      PROVE  Affichage'
  <2>1. \A i \in 1 .. Len(aStocker) : aStocker[i] \in SoldesLus
    BY DEF InvariantSoldes
  <2>2. \A s \in SoldesLus : SoldeLu(s) => SoldeLu(s)'
    BY <1>0, <1>4 DEF SoldesLus, SoldeLu, DateCourante, Comptabilisee
  <2>3. Lectures'
    BY <1>4, <2>1, <2>2 DEF InvariantSoldes, Affichage, Lectures
  <2>4. affiche.rang = 2 => \A o \in affiche.operations : Comptabilisee(o)'
    BY <1>0 DEF InvariantSoldes, Affichage, Comptabilisee
  <2> QED
    BY <1>4, <2>3, <2>4 DEF InvariantSoldes, Affichage, DateCourante
<1>5. CASE ListerApresSoldes
  <2>1. Affichage'
    BY <1>4, <1>5 DEF ListerApresSoldes, Lister
  <2>2. Explication'
    <3>1. ASSUME NEW o \in affiche.operations, affiche.rang = 2, banque[o].date >= debut - Fenetre
          PROVE  <<o, "booked">> \in dus'
      <4>1. o \in Operations /\ banque[o].etat = "booked"
        BY <3>1 DEF InvariantSoldes, Affichage, Comptabilisee
      <4> QED
        BY <1>5, <3>1, <4>1 DEF ListerApresSoldes, Lister, Visible, Statuts
    <3> QED
      BY <1>5, <3>1 DEF ListerApresSoldes, Lister, InvariantSoldes, Explication
  <2> QED
    BY <1>5, <2>1, <2>2 DEF ListerApresSoldes, InvariantSoldes
<1>6. CASE AbandonnerSoldes
  <2>0. /\ aStocker' = <<>> /\ aJour' = FALSE /\ phase' = "repos" /\ phase # "repos"
        /\ UNCHANGED <<affiche, lues, complet, debut, banque>>
    BY <1>6 DEF AbandonnerSoldes, Abandonner
  <2>1. Affichage'
    BY <2>0 DEF InvariantSoldes, Affichage, Lectures, DateCourante, Comptabilisee
  <2>2. ~complet /\ ~complet'
    BY <2>0 DEF InvariantSoldes, Explication
  <2>3. Explication'
    BY <2>0, <2>2 DEF Explication
  <2>4. FormesSoldes'
    <3>1. <<>> \in Seq(SoldesLus)
      OBVIOUS
    <3>2. FALSE \in BOOLEAN
      OBVIOUS
    <3> HIDE DEF FormesSoldes
    <3> QED
      BY <2>0, <3>1, <3>2, Zenon DEF InvariantSoldes, FormesSoldes
  <2> QED
    BY <2>1, <2>3, <2>4 DEF InvariantSoldes
<1>7. CASE FinSoldes
  <2>1. Affichage'
    BY <1>4, <1>7 DEF FinSoldes, Fin, InvariantSoldes, Affichage
  <2>2. Explication'
    BY <1>7 DEF FinSoldes, Fin, InvariantSoldes, Explication
  <2> QED
    BY <1>7, <2>1, <2>2 DEF FinSoldes, Fin, InvariantSoldes
<1>8. CASE /\ \/ Horloge \/ FinPages \/ Inserer \/ InsererEchoue
              \/ \E o \in Operations :
                   Apparaitre(o) \/ Comptabiliser(o) \/ Retirer(o) \/ Page(o)
           /\ UNCHANGED soldes
  <2>1. /\ UNCHANGED <<debut, attendus>>
        /\ \/ UNCHANGED phase
           \/ phase = "pages" /\ phase' = "lignes"
        /\ \A o : <<o, "booked">> \in dus => <<o, "booked">> \in dus'
    BY <1>8 DEF Horloge, FinPages, Inserer, InsererEchoue, Apparaitre, Comptabiliser,
       Retirer, Page
  <2>2. Affichage'
    BY <1>4, <1>8, <2>1 DEF InvariantSoldes, Affichage
  <2>3. Explication'
    <3>1. affiche.rang = 2 => \A o \in affiche.operations : banque'[o] = banque[o]
      BY <1>0 DEF InvariantSoldes, Affichage
    <3> QED
      BY <1>8, <2>1, <3>1 DEF InvariantSoldes, Explication
  <2> QED
    BY <1>8, <2>2, <2>3 DEF InvariantSoldes
<1>9. CASE UNCHANGED varsSoldes
  BY <1>9 DEF InvariantSoldes, Affichage, Lectures, Explication, SoldeLu, DateCourante, Comptabilisee
<1> QED
  BY <1>1, <1>2, <1>3, <1>5, <1>6, <1>7, <1>8, <1>9 DEF NextSoldes

(* The inductive invariant of the balances, beside that of the statement.    *)
THEOREM InvariantDesSoldes == SpecSoldes => []InvariantSoldes
<1>1. InitSoldes => InvariantSoldes
  <2> SUFFICES ASSUME InitSoldes
               PROVE  InvariantSoldes
    OBVIOUS
  <2>1. FormesSoldes
    <3>1. <<>> \in Seq(SoldesLus)
      OBVIOUS
    <3>2. AucunSolde \in [rang : 0 .. 2, date : Int, operations : SUBSET Operations]
      BY DEF AucunSolde
    <3> QED
      BY <3>1, <3>2, Zenon DEF InitSoldes, FormesSoldes
  <2> QED
    BY <2>1 DEF InitSoldes, Init, InvariantSoldes, Affichage, Lectures, Explication, AucunSolde
<1>2. TypeOK /\ TypeOK' /\ InvariantSoldes /\ [NextSoldes]_varsSoldes => InvariantSoldes'
  BY SoldesGardes
<1> QED
  BY <1>1, <1>2, SoldesImplementeReleve, TypesDuReleve, PTL DEF SpecSoldes

(* What a booked balance counts is in the statement, booked, once a          *)
(* synchronisation is complete (domain/synchro.rs:243-259): balances are     *)
(* read before the listing, and what is booked stays so.                     *)
THEOREM SoldeToujoursExplique ==
    ASSUME ~EntreeTardive
    PROVE  SpecSoldes => []SoldeExplique
<1>1. InvariantSoldes /\ RienDePerdu /\ TransitionAppliquee => SoldeExplique
  BY DEF InvariantSoldes, FormesSoldes, Explication, RienDePerdu, TransitionAppliquee, SoldeExplique
<1> QED
  BY <1>1, InvariantDesSoldes, SoldesImplementeReleve, RienNEstPerdu,
     TransitionToujoursAppliquee, PTL

(* The screens show the current balance of the last synchronisation          *)
(* (bank_accounts.rs:337-346), for every answer a bank may give, dated or    *)
(* not, and every number of operations.                                      *)
THEOREM SoldeToujoursAJour == SpecSoldes => []SoldeAJour
<1>1. InvariantSoldes => SoldeAJour
  BY DEF InvariantSoldes, Affichage, SoldeAJour
<1> QED
  BY <1>1, InvariantDesSoldes, PTL

=============================================================================
