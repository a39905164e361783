---------------------------- MODULE DetectionsProofs ---------------------------
(***************************************************************************)
(* The greedy pairing, for every set of movements: the loop's choices are  *)
(* those of the declarative reading ChoixJustifie, each movement is taken   *)
(* once, a doubtful couple is refused, and the loop ends with the value of  *)
(* the function Detecter.  Then the cents, for every number of decimals.    *)
(* Then the monthly operations, for every set of rows: the folds over the   *)
(* sorted amounts and dates compute what the definition describes, and the  *)
(* marks are exact when nothing moved since they were read.  Last the       *)
(* labels: the name comes back from under what the bank puts around it.     *)
(***************************************************************************)
EXTENDS Mouvements, Recurrences, FiniteSetTheorems, WellFoundedInduction, TLAPS

(* The couples behind the loop come before those in front of it, and what   *)
(* has been decided about them stands.                                      *)
EnOrdre ==
    /\ mouvements \in Entrees
    /\ aExaminer \subseteq Couples(mouvements)
    /\ retenus \subseteq Couples(mouvements) \ aExaminer
    /\ \A p \in Couples(mouvements) \ aExaminer, q \in aExaminer : Precede(p, q)

Acceptes == \A p \in retenus : Acceptable(p, Couples(mouvements))

Boucle ==
    /\ EnOrdre
    /\ Acceptes
    /\ ApparieUneFois
    /\ ChoixJustifie

-------------------------------------------------------------------------------
(* The score of a couple is a fraction of natural numbers. *)
LEMMA ScoreNaturel ==
    ASSUME NEW M \in Entrees, NEW p \in Couples(M)
    PROVE  Communs(p) \in Nat /\ Tous(p) \in Nat
<1>1. p[1] \in M /\ p[2] \in M
  BY DEF Couples
<1>2. IsFiniteSet(p[1].mots) /\ IsFiniteSet(p[2].mots)
  BY <1>1, EntreesBienFormees
<1>3. IsFiniteSet(p[1].mots \cap p[2].mots) /\ IsFiniteSet(p[1].mots \cup p[2].mots)
  BY <1>2, FS_Intersection, FS_Union
<1>4. Cardinality(p[1].mots \cap p[2].mots) \in Nat
  BY <1>3, FS_CardinalityType
<1>5. Cardinality(p[1].mots \cup p[2].mots) \in Nat
  BY <1>3, FS_CardinalityType
<1> QED
  BY <1>4, <1>5 DEF Communs, Tous

(* The order of sort_by is strict: no couple comes before one that comes     *)
(* before it.                                                               *)
LEMMA PrecedeAsymetrique ==
    ASSUME NEW M \in Entrees, NEW p \in Couples(M), NEW q \in Couples(M), Precede(p, q)
    PROVE  ~Precede(q, p)
<1>1. /\ p[1].id \in Nat /\ p[2].id \in Nat /\ q[1].id \in Nat /\ q[2].id \in Nat
      /\ p[1].date \in Int /\ q[1].date \in Int
  BY EntreesBienFormees DEF Couples
<1>2. Communs(p) * Tous(q) \in Nat /\ Communs(q) * Tous(p) \in Nat
  <2>1. /\ Communs(p) \in Nat /\ Tous(p) \in Nat
        /\ Communs(q) \in Nat /\ Tous(q) \in Nat
    BY ScoreNaturel
  <2>2. \A a, b \in Nat : a * b \in Nat
    OBVIOUS
  <2> QED
    BY <2>1, <2>2
<1> DEFINE x == Communs(p) * Tous(q)
           y == Communs(q) * Tous(p)
<1>3. x \in Nat /\ y \in Nat
  BY <1>2
<1>4. Precede(p, q) <=>
        \/ x > y
        \/ /\ x = y
           /\ \/ p[1].date < q[1].date
              \/ p[1].date = q[1].date /\ p[1].id < q[1].id
              \/ /\ p[1].date = q[1].date /\ p[1].id = q[1].id
                 /\ p[2].id < q[2].id
  BY DEF Precede, PlusRessemblant, AussiRessemblant
<1>5. Precede(q, p) <=>
        \/ y > x
        \/ /\ y = x
           /\ \/ q[1].date < p[1].date
              \/ q[1].date = p[1].date /\ q[1].id < p[1].id
              \/ /\ q[1].date = p[1].date /\ q[1].id = p[1].id
                 /\ q[2].id < p[2].id
  BY DEF Precede, PlusRessemblant, AussiRessemblant
<1> HIDE DEF x, y
<1> QED
  BY <1>1, <1>3, <1>4, <1>5

(* Two products are compared like their factors.                            *)
LEMMA ProduitsCompares ==
    ASSUME NEW x \in Nat, NEW y \in Nat, NEW z \in Nat
    PROVE  /\ x * z \in Nat
           /\ x >= y => x * z >= y * z
           /\ x > y /\ z # 0 => x * z > y * z
           /\ x * z >= y * z /\ z # 0 => x >= y
           /\ x * z > y * z => x > y
<1>1. x * z \in Nat /\ y * z \in Nat
  OBVIOUS
<1>2. x >= y => x * z >= y * z
  <2>1. CASE x >= y
    <3>1. x - y \in Nat
      BY <2>1
    <3>2. PICK d \in Nat : d = x - y
      BY <3>1
    <3>3. x = y + d
      BY <3>2
    <3>4. d * z \in Nat
      OBVIOUS
    <3>5. (y + d) * z = y * z + d * z
      OBVIOUS
    <3>6. x * z = y * z + d * z
      BY <3>3, <3>5
    <3> QED
      BY <1>1, <3>4, <3>6
  <2> QED
    BY <2>1
<1>3. x > y /\ z # 0 => x * z > y * z
  <2>1. CASE x > y /\ z # 0
    <3>1. PICK d \in Nat : d = x - y - 1
      BY <2>1
    <3>2. x = y + d + 1
      BY <3>1
    <3>3. d * z \in Nat
      OBVIOUS
    <3>4. (y + d + 1) * z = y * z + d * z + z
      OBVIOUS
    <3>5. x * z = y * z + d * z + z
      BY <3>2, <3>4
    <3> QED
      BY <1>1, <2>1, <3>3, <3>5
  <2> QED
    BY <2>1
<1>4. x < y /\ z # 0 => x * z < y * z
  <2>1. CASE x < y /\ z # 0
    <3>1. PICK d \in Nat : d = y - x - 1
      BY <2>1
    <3>2. y = x + d + 1
      BY <3>1
    <3>3. d * z \in Nat
      OBVIOUS
    <3>4. (x + d + 1) * z = x * z + d * z + z
      OBVIOUS
    <3>5. y * z = x * z + d * z + z
      BY <3>2, <3>4
    <3> QED
      BY <1>1, <2>1, <3>3, <3>5
  <2> QED
    BY <2>1
<1>5. z = 0 => x * z = 0 /\ y * z = 0
  OBVIOUS
<1>6. x * z >= y * z /\ z # 0 => x >= y
  BY <1>1, <1>4
<1>7. x = y => x * z = y * z
  OBVIOUS
<1>8. x * z > y * z => x > y
  <2>1. x < y \/ x = y \/ x > y
    OBVIOUS
  <2> QED
    BY <1>1, <1>4, <1>5, <1>7, <2>1
<1> QED
  BY <1>1, <1>2, <1>3, <1>6, <1>8

(* The order of two fractions goes through a third one.                     *)
LEMMA RapportsEnchaines ==
    ASSUME NEW a \in Nat, NEW b \in Nat \ {0}, NEW c \in Nat, NEW d \in Nat \ {0},
           NEW e \in Nat, NEW f \in Nat \ {0},
           a * d >= c * b, c * f >= e * d
    PROVE  /\ a * f >= e * b
           /\ a * d > c * b \/ c * f > e * d => a * f > e * b
<1>1. /\ a * d \in Nat /\ c * b \in Nat /\ c * f \in Nat
      /\ e * d \in Nat /\ a * f \in Nat /\ e * b \in Nat
  OBVIOUS
<1>2. (a * d) * f >= (c * b) * f /\ (a * d > c * b => (a * d) * f > (c * b) * f)
  BY <1>1, ProduitsCompares
<1>3. (c * f) * b >= (e * d) * b /\ (c * f > e * d => (c * f) * b > (e * d) * b)
  BY <1>1, ProduitsCompares
<1>4. (a * d) * f = (a * f) * d /\ (c * b) * f = (c * f) * b /\ (e * d) * b = (e * b) * d
  OBVIOUS
<1>5. /\ (a * d) * f \in Nat /\ (c * b) * f \in Nat /\ (e * d) * b \in Nat
  BY <1>1, ProduitsCompares
<1> DEFINE x == a * f
           y == e * b
<1>6. x \in Nat /\ y \in Nat
  BY <1>1
<1>7. /\ x * d >= y * d
      /\ a * d > c * b \/ c * f > e * d => x * d > y * d
  BY <1>2, <1>3, <1>4, <1>5
<1>8. d \in Nat /\ d # 0
  OBVIOUS
<1> HIDE DEF x, y
<1>9. x >= y /\ (x * d > y * d => x > y)
  BY <1>6, <1>7, <1>8, ProduitsCompares
<1>10. /\ x >= y
       /\ a * d > c * b \/ c * f > e * d => x > y
  BY <1>7, <1>9
<1> QED
  BY <1>10 DEF x, y

(* The couples are numbered by pairs of UUIDs: two of them are comparable.   *)
LEMMA PrecedeTotal ==
    ASSUME NEW M \in Entrees, NEW p \in Couples(M), NEW q \in Couples(M), p # q
    PROVE  Precede(p, q) \/ Precede(q, p)
<1>1. /\ p[1] \in M /\ p[2] \in M /\ p = <<p[1], p[2]>>
      /\ q[1] \in M /\ q[2] \in M /\ q = <<q[1], q[2]>>
  BY DEF Couples
<1>2. /\ p[1].id \in Nat /\ p[2].id \in Nat /\ q[1].id \in Nat /\ q[2].id \in Nat
      /\ p[1].date \in Int /\ q[1].date \in Int
  BY <1>1, EntreesBienFormees
<1>3. p[1].id # q[1].id \/ p[2].id # q[2].id
  <2> SUFFICES ASSUME p[1].id = q[1].id, p[2].id = q[2].id
               PROVE  FALSE
    OBVIOUS
  <2>1. p[1] = q[1] /\ p[2] = q[2]
    BY <1>1, EntreesBienFormees
  <2> QED
    BY <1>1, <2>1
<1> DEFINE x == Communs(p) * Tous(q)
           y == Communs(q) * Tous(p)
<1>4. x \in Nat /\ y \in Nat
  <2>1. /\ Communs(p) \in Nat /\ Tous(p) \in Nat
        /\ Communs(q) \in Nat /\ Tous(q) \in Nat
    BY ScoreNaturel
  <2> QED
    BY <2>1, ProduitsCompares
<1>5. /\ Precede(p, q) <=>
           \/ x > y
           \/ /\ x = y
              /\ \/ p[1].date < q[1].date
                 \/ p[1].date = q[1].date /\ p[1].id < q[1].id
                 \/ /\ p[1].date = q[1].date /\ p[1].id = q[1].id
                    /\ p[2].id < q[2].id
      /\ Precede(q, p) <=>
           \/ y > x
           \/ /\ y = x
              /\ \/ q[1].date < p[1].date
                 \/ q[1].date = p[1].date /\ q[1].id < p[1].id
                 \/ /\ q[1].date = p[1].date /\ q[1].id = p[1].id
                    /\ q[2].id < p[2].id
  BY DEF Precede, PlusRessemblant, AussiRessemblant
<1> HIDE DEF x, y
<1> QED
  BY <1>2, <1>3, <1>4, <1>5

(* A label has words, or the union counts for one.                          *)
LEMMA TousPositif ==
    ASSUME NEW M \in Entrees, NEW p \in Couples(M)
    PROVE  Tous(p) \in Nat \ {0}
<1>1. p[1] \in M /\ p[2] \in M
  BY DEF Couples
<1>2. IsFiniteSet(p[1].mots \cup p[2].mots)
  BY <1>1, EntreesBienFormees, FS_Union
<1>3. Cardinality(p[1].mots \cup p[2].mots) \in Nat
  BY <1>2, FS_CardinalityType
<1>4. p[1].mots \cup p[2].mots # {} => Cardinality(p[1].mots \cup p[2].mots) # 0
  BY <1>2, FS_EmptySet
<1> QED
  BY <1>3, <1>4 DEF Tous

(* The order of sort_by is transitive (transfert_interne.rs:86-92): the sort *)
(* has one result.                                                          *)
LEMMA PrecedeTransitif ==
    ASSUME NEW M \in Entrees, NEW p \in Couples(M), NEW q \in Couples(M), NEW r \in Couples(M),
           Precede(p, q), Precede(q, r)
    PROVE  Precede(p, r)
<1>1. /\ p[1].id \in Nat /\ p[2].id \in Nat /\ q[1].id \in Nat /\ q[2].id \in Nat
      /\ r[1].id \in Nat /\ r[2].id \in Nat
      /\ p[1].date \in Int /\ q[1].date \in Int /\ r[1].date \in Int
  BY EntreesBienFormees DEF Couples
<1> DEFINE Suit(s, t) ==
             \/ s[1].date < t[1].date
             \/ s[1].date = t[1].date /\ s[1].id < t[1].id
             \/ /\ s[1].date = t[1].date /\ s[1].id = t[1].id
                /\ s[2].id < t[2].id
<1>2. PICK a, b, c, d, e, f :
        /\ a = Communs(p) /\ b = Tous(p) /\ c = Communs(q) /\ d = Tous(q)
        /\ e = Communs(r) /\ f = Tous(r)
  OBVIOUS
<1>3. /\ a \in Nat /\ c \in Nat /\ e \in Nat
      /\ b \in Nat \ {0} /\ d \in Nat \ {0} /\ f \in Nat \ {0}
  BY <1>2, ScoreNaturel, TousPositif
<1>4. /\ a * d > c * b \/ (a * d = c * b /\ Suit(p, q))
      /\ c * f > e * d \/ (c * f = e * d /\ Suit(q, r))
  BY <1>2 DEF Precede, PlusRessemblant, AussiRessemblant
<1>5. /\ a * d \in Nat /\ c * b \in Nat /\ c * f \in Nat
      /\ e * d \in Nat /\ a * f \in Nat /\ e * b \in Nat
  BY <1>3, ProduitsCompares
<1>6. Suit(p, q) /\ Suit(q, r) => Suit(p, r)
  BY <1>1
<1> HIDE DEF Suit
<1>7. a * d >= c * b /\ c * f >= e * d
  BY <1>4, <1>5
<1>8. /\ a * f >= e * b
      /\ a * d > c * b \/ c * f > e * d => a * f > e * b
  BY <1>3, <1>7, RapportsEnchaines
<1>9. a * f > e * b \/ (a * f = e * b /\ Suit(p, r))
  BY <1>4, <1>5, <1>6, <1>8
<1>10. Precede(p, r) <=> a * f > e * b \/ (a * f = e * b /\ Suit(p, r))
  BY <1>2 DEF Precede, PlusRessemblant, AussiRessemblant, Suit
<1> QED
  BY <1>9, <1>10

-------------------------------------------------------------------------------
(* Before the loop nothing is decided. *)
LEMMA BoucleInit == Init => Boucle
BY DEF Init, Boucle, EnOrdre, Acceptes, ApparieUneFois, ChoixJustifie

(* A couple that is kept disturbs no decision taken before it. *)
LEMMA BoucleRetenir ==
    ASSUME Boucle, NEW p \in aExaminer, Retenir(p)
    PROVE  Boucle'
<1> USE DEF Boucle
<1>1. /\ mouvements' = mouvements
      /\ retenus' = retenus \cup {p}
      /\ aExaminer' = aExaminer \ {p}
      /\ p \in Couples(mouvements)
      /\ p \notin retenus
  BY DEF Retenir, EnOrdre
<1>2. Acceptable(p, Couples(mouvements)) /\ \A q \in retenus : ~SeGenent(p, q)
  BY DEF Retenir, Digne, Libre
<1>3. EnOrdre'
  <2>1. \A q \in aExaminer \ {p} : Precede(p, q)
    BY DEF Retenir, Suivant
  <2>2. \A r \in Couples(mouvements) \ aExaminer, q \in aExaminer : Precede(r, q)
    BY DEF EnOrdre
  <2>3. \A r \in Couples(mouvements) \ (aExaminer \ {p}), q \in aExaminer \ {p} : Precede(r, q)
    BY <2>1, <2>2
  <2> QED
    BY <1>1, <2>3 DEF EnOrdre
<1>4. Acceptes'
  BY <1>1, <1>2 DEF Acceptes
<1>5. ApparieUneFois'
  BY <1>1, <1>2 DEF ApparieUneFois, SeGenent
<1>6. ChoixJustifie'
  <2> SUFFICES ASSUME NEW r \in Couples(mouvements) \ (aExaminer \ {p})
               PROVE  Justifie(r)'
    BY <1>1 DEF ChoixJustifie
  <2>1. CASE r = p
    BY <1>1, <1>2, <2>1 DEF Justifie, SeGenent
  <2>2. CASE r # p
    <3>1. Justifie(r)
      BY <2>2 DEF ChoixJustifie
    <3>2. r \in retenus => ~SeGenent(r, p)
      BY <1>2 DEF SeGenent
    <3> QED
      BY <1>1, <2>2, <3>1, <3>2 DEF Justifie
  <2> QED
    BY <2>1, <2>2
<1> QED
  BY <1>3, <1>4, <1>5, <1>6

(* A couple that is passed over is unacceptable, or loses a face to a better *)
(* couple.                                                                  *)
LEMMA BoucleEcarter ==
    ASSUME Boucle, NEW p \in aExaminer, Ecarter(p)
    PROVE  Boucle'
<1> USE DEF Boucle
<1>1. /\ mouvements' = mouvements
      /\ retenus' = retenus
      /\ aExaminer' = aExaminer \ {p}
      /\ p \in Couples(mouvements)
      /\ p \notin retenus
  BY DEF Ecarter, EnOrdre
<1>2. EnOrdre'
  <2>1. \A q \in aExaminer \ {p} : Precede(p, q)
    BY DEF Ecarter, Suivant
  <2>2. \A r \in Couples(mouvements) \ aExaminer, q \in aExaminer : Precede(r, q)
    BY DEF EnOrdre
  <2>3. \A r \in Couples(mouvements) \ (aExaminer \ {p}), q \in aExaminer \ {p} : Precede(r, q)
    BY <2>1, <2>2
  <2> QED
    BY <1>1, <2>3 DEF EnOrdre
<1>3. Acceptes' /\ ApparieUneFois'
  BY <1>1 DEF Acceptes, ApparieUneFois
<1>4. ~(/\ Acceptable(p, Couples(mouvements))
        /\ \A q \in retenus : SeGenent(p, q) => p = q \/ Precede(p, q))
  <2>1. CASE ~Digne(p)
    BY <2>1 DEF Digne
  <2>2. CASE ~Libre(p)
    <3>1. PICK q \in retenus : SeGenent(p, q)
      BY <2>2 DEF Libre
    <3>2. q \in Couples(mouvements) /\ Precede(q, p) /\ q # p
      BY <1>1, <3>1 DEF EnOrdre
    <3>3. ~Precede(p, q)
      BY <1>1, <3>2, PrecedeAsymetrique DEF EnOrdre
    <3> QED
      BY <3>1, <3>2, <3>3
  <2> QED
    BY <2>1, <2>2 DEF Ecarter
<1>5. ChoixJustifie'
  <2> SUFFICES ASSUME NEW r \in Couples(mouvements) \ (aExaminer \ {p})
               PROVE  Justifie(r)'
    BY <1>1 DEF ChoixJustifie
  <2>1. CASE r = p
    BY <1>1, <1>4, <2>1 DEF Justifie
  <2>2. CASE r # p
    BY <1>1, <2>2 DEF Justifie, ChoixJustifie
  <2> QED
    BY <2>1, <2>2
<1> QED
  BY <1>2, <1>3, <1>5

(* The inductive invariant of the loop. *)
THEOREM BoucleToujours == Spec => []Boucle
<1>1. Boucle /\ [Next]_vars => Boucle'
  <2> SUFFICES ASSUME Boucle, [Next]_vars
               PROVE  Boucle'
    OBVIOUS
  <2>1. CASE \E p \in aExaminer : Retenir(p) \/ Ecarter(p)
    BY <2>1, BoucleRetenir, BoucleEcarter
  <2>2. CASE UNCHANGED vars
    BY <2>2 DEF vars, Boucle, EnOrdre, Acceptes, ApparieUneFois, ChoixJustifie, Justifie
  <2> QED
    BY <2>1, <2>2 DEF Next
<1> QED
  BY BoucleInit, <1>1, PTL DEF Spec

(* What the loop decides about a couple is what the ranking says of it:      *)
(* detecter_transferts_internes is the stable pairing, for every input.      *)
THEOREM ChoixToujoursJustifie == Spec => []ChoixJustifie
<1>1. Boucle => ChoixJustifie
  BY DEF Boucle
<1> QED
  BY BoucleToujours, <1>1, PTL

(* No movement is one face of two transfers. *)
THEOREM JamaisDeuxFois == Spec => []ApparieUneFois
<1>1. Boucle => ApparieUneFois
  BY DEF Boucle
<1> QED
  BY BoucleToujours, <1>1, PTL

(* A couple without a common word is kept only with a single reading in the  *)
(* whole input, and never against a filing by hand.                         *)
THEOREM DouteToujoursEcarte == Spec => []DouteEcarte
<1>1. Boucle => DouteEcarte
  BY DEF Boucle, Acceptes, DouteEcarte, Acceptable, SansDoute, SeGenent
<1> QED
  BY BoucleToujours, <1>1, PTL

(* The three together: what detecter_transferts_internes has decided at any  *)
(* point of its loop is unique, beyond doubt and the best choice.            *)
THEOREM AppariementToujoursSur == Spec => []AppariementSur
BY ChoixToujoursJustifie, JamaisDeuxFois, DouteToujoursEcarte, PTL DEF AppariementSur

-------------------------------------------------------------------------------
(* Induction on the natural numbers, from the least element of a set.       *)
LEMMA PlusPetit ==
    ASSUME NEW T \in SUBSET Nat, T # {}
    PROVE  \E n \in T : \A m \in T : n <= m
<1>1. PICK R : R = OpToRel(<, Nat)
  OBVIOUS
<1>2. \A x, y \in Nat : <<x, y>> \in R <=> x < y
  BY <1>1 DEF OpToRel
<1>3. IsWellFoundedOn(R, Nat)
  BY <1>1, NatLessThanWellFounded
<1>4. PICK x \in T : \A y \in T : ~ (<<y, x>> \in R)
  BY <1>3, WFMin
<1>5. ASSUME NEW y \in T
      PROVE  x <= y
  <2>1. x \in Nat /\ y \in Nat
    OBVIOUS
  <2>2. ~(y < x)
    BY <2>1, <1>2, <1>4
  <2> QED
    BY <2>1, <2>2
<1> QED
  BY <1>5

(* A set that holds 0 and every successor holds every number: the loop is   *)
(* followed one couple after another.                                       *)
LEMMA Recurrence ==
    ASSUME NEW S, 0 \in S, \A n \in Nat : n \in S => n + 1 \in S
    PROVE  Nat \subseteq S
<1> SUFFICES ASSUME Nat \ S # {}
             PROVE  FALSE
  OBVIOUS
<1>1. PICK n \in Nat \ S : \A m \in Nat \ S : n <= m
  BY PlusPetit
<1>2. n # 0 /\ n - 1 \in Nat
  BY <1>1
<1>3. n - 1 \in S
  BY <1>1, <1>2
<1> QED
  BY <1>1, <1>2, <1>3

(* Finitely many movements make finitely many couples.                      *)
LEMMA CouplesFinis ==
    ASSUME NEW M \in Entrees
    PROVE  IsFiniteSet(Couples(M)) /\ Cardinality(Couples(M)) \in Nat
<1>1. IsFiniteSet(M \X M)
  BY EntreesBienFormees, FS_Product
<1>2. Couples(M) \in SUBSET (M \X M)
  BY DEF Couples
<1> QED
  BY <1>1, <1>2, FS_Subset, FS_CardinalityType

(* One element less, one unit less.                                         *)
LEMMA UnDeMoins ==
    ASSUME NEW S, IsFiniteSet(S), NEW p \in S
    PROVE  /\ IsFiniteSet(S \ {p})
           /\ Cardinality(S) \in Nat \ {0}
           /\ Cardinality(S \ {p}) = Cardinality(S) - 1
BY FS_RemoveElement, FS_CardinalityType, FS_EmptySet

(* Every set of couples has a last one.                                     *)
LEMMA DernierExiste ==
    ASSUME NEW M \in Entrees, NEW S \in SUBSET Couples(M), S # {}
    PROVE  /\ Dernier(S) \in S
           /\ \A q \in S \ {Dernier(S)} : Precede(q, Dernier(S))
<1> DEFINE C == Couples(M)
           P == {n \in Nat : \A T \in SUBSET C :
                   T # {} /\ Cardinality(T) <= n => \E p \in T : \A q \in T \ {p} : Precede(q, p)}
<1>1. \A T \in SUBSET C : IsFiniteSet(T) /\ Cardinality(T) \in Nat
  BY CouplesFinis, FS_Subset, FS_CardinalityType
<1>2. 0 \in P
  BY <1>1, FS_EmptySet
<1>3. ASSUME NEW n \in Nat, n \in P
      PROVE  n + 1 \in P
  <2> SUFFICES ASSUME NEW T \in SUBSET C, T # {}, Cardinality(T) <= n + 1
               PROVE  \E p \in T : \A q \in T \ {p} : Precede(q, p)
    OBVIOUS
  <2>1. PICK x \in T : TRUE
    OBVIOUS
  <2>2. Cardinality(T \ {x}) <= n /\ T \ {x} \in SUBSET C
    BY <1>1, UnDeMoins
  <2>3. CASE T \ {x} = {}
    BY <2>3
  <2>4. CASE T \ {x} # {}
    <3>1. PICK y \in T \ {x} : \A q \in (T \ {x}) \ {y} : Precede(q, y)
      BY <2>2, <2>4, <1>3
    <3>2. x \in Couples(M) /\ y \in Couples(M) /\ x # y
      OBVIOUS
    <3>3. CASE Precede(x, y)
      BY <3>1, <3>3
    <3>4. CASE Precede(y, x)
      <4>1. ASSUME NEW q \in T \ {x} PROVE Precede(q, x)
        <5>1. CASE q = y
          BY <3>4, <5>1
        <5>2. CASE q # y
          <6>1. Precede(q, y) /\ q \in Couples(M)
            BY <3>1, <4>1, <5>2
          <6> QED
            BY <3>2, <3>4, <6>1, PrecedeTransitif
        <5> QED
          BY <5>1, <5>2
      <4> QED
        BY <4>1
    <3> QED
      BY <3>2, <3>3, <3>4, PrecedeTotal
  <2> QED
    BY <2>3, <2>4
<1>4. Nat \subseteq P
  <2> HIDE DEF P
  <2> QED
    BY <1>2, <1>3, Recurrence
<1>5. \E p \in S : \A q \in S \ {p} : Precede(q, p)
  <2>1. Cardinality(S) \in P /\ Cardinality(S) <= Cardinality(S)
    BY <1>1, <1>4
  <2> QED
    BY <2>1
<1> QED
  BY <1>5 DEF Dernier

(* What the loop keeps of each set of couples, one couple after another.    *)
Deroulement(C, g) ==
    /\ g[{}] = {}
    /\ \A S \in (SUBSET C) \ {{}} : g[S] = Examiner(Dernier(S), g[S \ {Dernier(S)}], C)

(* The function MapThenFoldSet iterates.                                    *)
Deroule(C, g) ==
    g = [S \in SUBSET C |-> IF S = {} THEN {} ELSE Examiner(Dernier(S), g[S \ {Dernier(S)}], C)]

(* It exists, and Detecter is its value on all the couples.                 *)
LEMMA DetecterDeroule ==
    ASSUME NEW M \in Entrees
    PROVE  \E g : Deroulement(Couples(M), g) /\ Detecter(M) = g[Couples(M)]
<1> DEFINE C == Couples(M)
           Juste(S, g) == g[S] = IF S = {} THEN {} ELSE Examiner(Dernier(S), g[S \ {Dernier(S)}], C)
           P == {n \in Nat : \E g : \A S \in SUBSET C : Cardinality(S) <= n => Juste(S, g)}
<1>1. \A S \in SUBSET C : IsFiniteSet(S) /\ Cardinality(S) \in Nat
  BY CouplesFinis, FS_Subset, FS_CardinalityType
<1>2. ASSUME NEW S \in SUBSET C, S # {}
      PROVE  /\ S \ {Dernier(S)} \in SUBSET C
             /\ Cardinality(S \ {Dernier(S)}) = Cardinality(S) - 1
  BY <1>1, <1>2, DernierExiste, UnDeMoins
<1>3. 0 \in P
  <2> DEFINE g == [S \in SUBSET C |-> {}]
  <2>1. \A S \in SUBSET C : Cardinality(S) <= 0 => Juste(S, g)
    BY <1>1, FS_EmptySet
  <2> QED
    BY <2>1
<1>4. ASSUME NEW n \in Nat, n \in P
      PROVE  n + 1 \in P
  <2>1. PICK g : \A S \in SUBSET C : Cardinality(S) <= n => Juste(S, g)
    BY <1>4
  <2> DEFINE h == [S \in SUBSET C |->
                     IF Cardinality(S) = n + 1 THEN Examiner(Dernier(S), g[S \ {Dernier(S)}], C) ELSE g[S]]
  <2>2. ASSUME NEW S \in SUBSET C, Cardinality(S) <= n + 1
        PROVE  Juste(S, h)
    <3>1. CASE S = {}
      <4>1. Cardinality(S) = 0
        BY <3>1, FS_EmptySet
      <4>2. h[S] = g[S]
        BY <4>1
      <4>3. Juste(S, g)
        BY <2>1, <4>1
      <4> QED
        BY <3>1, <4>2, <4>3
    <3>2. CASE S # {}
      <4>1. /\ S \ {Dernier(S)} \in SUBSET C
            /\ Cardinality(S \ {Dernier(S)}) = Cardinality(S) - 1
            /\ Cardinality(S) \in Nat
        BY <1>1, <1>2, <3>2
      <4>2. Cardinality(S \ {Dernier(S)}) # n + 1
        BY <2>2, <4>1
      <4>3. h[S \ {Dernier(S)}] = g[S \ {Dernier(S)}]
        BY <4>1, <4>2
      <4>4. h[S] = Examiner(Dernier(S), g[S \ {Dernier(S)}], C)
        <5>1. CASE Cardinality(S) = n + 1
          BY <5>1
        <5>2. CASE Cardinality(S) # n + 1
          <6>1. Cardinality(S) <= n
            BY <2>2, <4>1, <5>2
          <6>2. Juste(S, g) /\ h[S] = g[S]
            BY <2>1, <5>2, <6>1
          <6> QED
            BY <3>2, <6>2
        <5> QED
          BY <5>1, <5>2
      <4> HIDE DEF h
      <4> QED
        BY <3>2, <4>3, <4>4
    <3> QED
      BY <3>1, <3>2
  <2> HIDE DEF h
  <2>3. \A S \in SUBSET C : Cardinality(S) <= n + 1 => Juste(S, h)
    BY <2>2
  <2> HIDE DEF Juste
  <2> QED
    BY <2>3
<1>5. Nat \subseteq P
  <2> HIDE DEF P
  <2>1. \A n \in Nat : n \in P => n + 1 \in P
    BY <1>4
  <2> QED
    BY <1>3, <2>1, Recurrence
<1>6. PICK g : \A S \in SUBSET C : Juste(S, g)
  <2>1. Cardinality(C) \in P
    BY <1>1, <1>5
  <2>2. PICK g : \A S \in SUBSET C : Cardinality(S) <= Cardinality(C) => Juste(S, g)
    <3> HIDE DEF Juste
    <3> QED
      BY <2>1
  <2>3. \A S \in SUBSET C : Cardinality(S) <= Cardinality(C)
    BY CouplesFinis, FS_Subset
  <2> HIDE DEF Juste, C
  <2> QED
    BY <2>2, <2>3
<1>7. Deroule(C, [S \in SUBSET C |-> g[S]])
  <2> DEFINE h == [S \in SUBSET C |-> g[S]]
  <2>1. \A S \in SUBSET C : Juste(S, h)
    <3> SUFFICES ASSUME NEW S \in SUBSET C
                 PROVE  Juste(S, h)
      OBVIOUS
    <3>1. S \ {Dernier(S)} \in SUBSET C
      OBVIOUS
    <3>2. h[S] = g[S] /\ h[S \ {Dernier(S)}] = g[S \ {Dernier(S)}]
      BY <3>1
    <3>3. Juste(S, g)
      BY <1>6
    <3> HIDE DEF h
    <3> QED
      BY <3>2, <3>3
  <2>2. h = [S \in SUBSET C |-> h[S]]
    OBVIOUS
  <2> HIDE DEF h
  <2>3. h = [S \in SUBSET C |-> IF S = {} THEN {} ELSE Examiner(Dernier(S), h[S \ {Dernier(S)}], C)]
    BY <2>1, <2>2
  <2>4. Deroule(C, h)
    BY <2>3 DEF Deroule
  <2> QED
    BY <2>4 DEF h
<1> DEFINE iter == CHOOSE f : f = [S \in SUBSET C |-> IF S = {} THEN {}
                                     ELSE Examiner(Dernier(S), f[S \ {Dernier(S)}], C)]
<1>8. Detecter(M) = iter[C]
  BY DEF Detecter, MapThenFoldSet
<1>9. iter = [S \in SUBSET C |-> IF S = {} THEN {} ELSE Examiner(Dernier(S), iter[S \ {Dernier(S)}], C)]
  <2>1. \E f : f = [S \in SUBSET C |-> IF S = {} THEN {} ELSE Examiner(Dernier(S), f[S \ {Dernier(S)}], C)]
    <3>1. \E f : Deroule(C, f)
      BY <1>7
    <3> QED
      BY <3>1 DEF Deroule
  <2> QED
    BY <2>1
<1> HIDE DEF iter
<1>10. Deroulement(C, iter)
  <2>1. iter[{}] = {}
    BY <1>9
  <2>2. ASSUME NEW S \in (SUBSET C) \ {{}}
        PROVE  iter[S] = Examiner(Dernier(S), iter[S \ {Dernier(S)}], C)
    BY <1>9
  <2> QED
    BY <2>1, <2>2 DEF Deroulement
<1> QED
  BY <1>8, <1>10

(* The loop and the function have kept the same of what is behind them.     *)
Suivie ==
    \A g : Deroulement(Couples(mouvements), g) => retenus = g[Couples(mouvements) \ aExaminer]

(* The couple the loop is at is the last of those it has reached.           *)
LEMMA DernierAtteint ==
    ASSUME Boucle, NEW p \in aExaminer, Suivant(p)
    PROVE  LET S == Couples(mouvements) \ (aExaminer \ {p})
           IN  /\ S \in (SUBSET Couples(mouvements)) \ {{}}
               /\ Dernier(S) = p
               /\ S \ {p} = Couples(mouvements) \ aExaminer
<1> DEFINE S == Couples(mouvements) \ (aExaminer \ {p})
<1>1. /\ mouvements \in Entrees /\ p \in Couples(mouvements) /\ p \in S
      /\ S \in SUBSET Couples(mouvements)
      /\ S \ {p} = Couples(mouvements) \ aExaminer
      /\ \A q \in S \ {p} : Precede(q, p)
  BY DEF Boucle, EnOrdre
<1> HIDE DEF S
<1>2. Dernier(S) \in S /\ \A q \in S \ {Dernier(S)} : Precede(q, Dernier(S))
  BY <1>1, DernierExiste
<1>3. Dernier(S) = p
  <2> SUFFICES ASSUME Dernier(S) # p
               PROVE  FALSE
    OBVIOUS
  <2>1. Precede(p, Dernier(S)) /\ Precede(Dernier(S), p) /\ Dernier(S) \in Couples(mouvements)
    BY <1>1, <1>2
  <2> QED
    BY <1>1, <2>1, PrecedeAsymetrique
<1> QED
  BY <1>1, <1>3 DEF S

(* A couple that is kept or passed over is so by Examiner too.              *)
LEMMA SuivieGardee ==
    ASSUME Boucle, Suivie, NEW p \in aExaminer, Retenir(p) \/ Ecarter(p)
    PROVE  Suivie'
<1> DEFINE C == Couples(mouvements)
           S == C \ (aExaminer \ {p})
<1>1. /\ Suivant(p) /\ mouvements' = mouvements /\ aExaminer' = aExaminer \ {p}
      /\ retenus' = Examiner(p, retenus, C)
  BY DEF Retenir, Ecarter, Examiner, Libre, Digne
<1>2. /\ S \in (SUBSET C) \ {{}} /\ Dernier(S) = p /\ S \ {p} = C \ aExaminer
  BY <1>1, DernierAtteint
<1>3. ASSUME NEW g, Deroulement(C, g)
      PROVE  retenus' = g[S]
  <2>1. retenus = g[C \ aExaminer]
    BY <1>3 DEF Suivie
  <2>2. g[S] = Examiner(Dernier(S), g[S \ {Dernier(S)}], C)
    BY <1>2, <1>3 DEF Deroulement
  <2> QED
    BY <1>1, <1>2, <2>1, <2>2
<1> QED
  BY <1>1, <1>3 DEF Suivie

(* The loop ends with the value of Detecter, on every set of movements: the *)
(* function the reconciliation calls is the loop of                         *)
(* detecter_transferts_internes (transfert_interne.rs:57-112).              *)
THEOREM FinToujoursDetecter == Spec => []FinDetecter
<1>1. Init => Boucle /\ Suivie
  <2>1. Init => Suivie
    BY DEF Init, Suivie, Deroulement
  <2> QED
    BY <2>1, BoucleInit
<1>2. Boucle /\ Suivie /\ [Next]_vars => Boucle' /\ Suivie'
  <2> SUFFICES ASSUME Boucle, Suivie, [Next]_vars
               PROVE  Boucle' /\ Suivie'
    OBVIOUS
  <2>1. CASE \E p \in aExaminer : Retenir(p) \/ Ecarter(p)
    BY <2>1, BoucleRetenir, BoucleEcarter, SuivieGardee
  <2>2. CASE UNCHANGED vars
    BY <2>2 DEF vars, Boucle, EnOrdre, Acceptes, ApparieUneFois, ChoixJustifie, Justifie, Suivie
  <2> QED
    BY <2>1, <2>2 DEF Next
<1>3. Boucle /\ Suivie => FinDetecter
  <2> SUFFICES ASSUME Boucle, Suivie, aExaminer = {}
               PROVE  retenus = Detecter(mouvements)
    BY DEF FinDetecter
  <2>1. PICK g : Deroulement(Couples(mouvements), g) /\ Detecter(mouvements) = g[Couples(mouvements)]
    BY DetecterDeroule DEF Boucle, EnOrdre
  <2> QED
    BY <2>1 DEF Suivie
<1> QED
  BY <1>1, <1>2, <1>3, PTL DEF Spec

-------------------------------------------------------------------------------
(* The cents of a line, read digit after digit.                              *)

(* One more digit, or one more zero.                                        *)
Decaler(v, d, avec) == IF avec = 1 THEN v * 10 + d ELSE v * 10

(* The function FoldLeft iterates over the sets of positions.               *)
Plie(b, s, avec, k, g) ==
    g = [S \in SUBSET (1 .. k) |->
           IF S = {} THEN b ELSE Decaler(g[S \ {Max(S)}], s[Max(S)], avec)]

(* The largest position a fold takes off.                                   *)
LEMMA PlusGrand ==
    ASSUME NEW k \in Nat, NEW S \in SUBSET (1 .. k), S # {}
    PROVE  Max(S) \in S /\ \A y \in S : Max(S) >= y
<1> DEFINE T == {k - x : x \in S}
<1>1. T \in SUBSET Nat /\ T # {}
  <2>1. \A x \in S : k - x \in Nat
    OBVIOUS
  <2> QED
    BY <2>1
<1>2. PICK n \in T : \A m \in T : n <= m
  <2> HIDE DEF T
  <2> QED
    BY <1>1, PlusPetit
<1>3. PICK x \in S : n = k - x
  BY <1>2
<1>4. \A y \in S : x >= y
  <2> TAKE y \in S
  <2>1. n <= k - y
    BY <1>2
  <2> QED
    BY <2>1, <1>3
<1> QED
  BY <1>4 DEF Max

(* It exists, whatever the digits.                                          *)
LEMMA PliagePossible ==
    ASSUME NEW b, NEW s, NEW avec, NEW n \in Nat
    PROVE  \E g : Plie(b, s, avec, n, g)
<1> DEFINE P == {k \in Nat : \E g : Plie(b, s, avec, k, g)}
<1>1. 0 \in P
  <2>1. SUBSET (1 .. 0) = {{}}
    OBVIOUS
  <2> DEFINE h == [S \in SUBSET (1 .. 0) |-> b]
  <2>2. h = [S \in SUBSET (1 .. 0) |->
               IF S = {} THEN b ELSE Decaler(h[S \ {Max(S)}], s[Max(S)], avec)]
    BY <2>1
  <2>3. Plie(b, s, avec, 0, h)
    BY <2>2 DEF Plie
  <2> QED
    BY <2>3
<1>2. ASSUME NEW k \in Nat, k \in P
      PROVE  k + 1 \in P
  <2>1. PICK g : Plie(b, s, avec, k, g)
    BY <1>2
  <2> DEFINE h == [S \in SUBSET (1 .. k + 1) |->
                     IF k + 1 \in S THEN Decaler(g[S \ {k + 1}], s[k + 1], avec) ELSE g[S]]
  <2>2. ASSUME NEW S \in SUBSET (1 .. k + 1)
        PROVE  h[S] = IF S = {} THEN b ELSE Decaler(h[S \ {Max(S)}], s[Max(S)], avec)
    <3>1. CASE k + 1 \in S
      <4>1. Max(S) = k + 1
        <5>1. k + 1 \in Nat /\ S # {}
          BY <3>1
        <5>2. Max(S) \in S /\ Max(S) >= k + 1
          BY <3>1, <5>1, PlusGrand
        <5>3. Max(S) \in 1 .. k + 1
          BY <5>2
        <5> QED
          BY <5>2, <5>3
      <4>2. S \ {k + 1} \in SUBSET (1 .. k + 1) /\ k + 1 \notin S \ {k + 1}
        OBVIOUS
      <4>3. h[S \ {k + 1}] = g[S \ {k + 1}]
        BY <4>2
      <4> QED
        BY <3>1, <4>1, <4>3
    <3>2. CASE k + 1 \notin S
      <4>1. S \in SUBSET (1 .. k)
        BY <3>2
      <4>2. h[S] = g[S]
        BY <3>2
      <4>3. CASE S = {}
        BY <4>1, <4>2, <4>3, <2>1 DEF Plie
      <4>4. CASE S # {}
        <5>1. Max(S) \in S
          BY <4>1, <4>4, PlusGrand
        <5>2. S \ {Max(S)} \in SUBSET (1 .. k + 1) /\ k + 1 \notin S \ {Max(S)}
          BY <3>2
        <5>3. h[S \ {Max(S)}] = g[S \ {Max(S)}]
          BY <5>2
        <5>4. g[S] = Decaler(g[S \ {Max(S)}], s[Max(S)], avec)
          BY <4>1, <4>4, <2>1 DEF Plie
        <5> QED
          BY <4>2, <4>4, <5>3, <5>4
      <4> QED
        BY <4>3, <4>4
    <3> QED
      BY <3>1, <3>2
  <2>3. h = [S \in SUBSET (1 .. k + 1) |->
               IF S = {} THEN b ELSE Decaler(h[S \ {Max(S)}], s[Max(S)], avec)]
    <3>1. h = [S \in SUBSET (1 .. k + 1) |-> h[S]]
      OBVIOUS
    <3> HIDE DEF h
    <3> QED
      BY <2>2, <3>1
  <2>4. Plie(b, s, avec, k + 1, h)
    BY <2>3 DEF Plie
  <2>5. k + 1 \in Nat
    OBVIOUS
  <2> QED
    BY <2>4, <2>5
<1>3. Nat \subseteq P
  <2> HIDE DEF P
  <2>1. \A k \in Nat : k \in P => k + 1 \in P
    BY <1>2
  <2> QED
    BY <1>1, <2>1, Recurrence
<1> QED
  BY <1>3

(* What a fold has read after each digit.                                   *)
Lu(b, s, avec, f) ==
    /\ f[0] = b
    /\ \A k \in Nat : k < Len(s) => f[k + 1] = Decaler(f[k], s[k + 1], avec)

(* Its values on the first positions are what it has read so far.           *)
LEMMA PliageLu ==
    ASSUME NEW b, NEW s, Len(s) \in Nat, DOMAIN s = 1 .. Len(s), NEW avec,
           NEW g, Plie(b, s, avec, Len(s), g)
    PROVE  \E f : Lu(b, s, avec, f) /\ f[Len(s)] = g[DOMAIN s]
<1> DEFINE f == [k \in 0 .. Len(s) |-> g[1 .. k]]
<1>1. Len(s) \in Nat /\ DOMAIN s = 1 .. Len(s)
  OBVIOUS
<1>2. g = [S \in SUBSET (DOMAIN s) |->
             IF S = {} THEN b ELSE Decaler(g[S \ {Max(S)}], s[Max(S)], avec)]
  BY <1>1 DEF Plie
<1>3. f[0] = b
  BY <1>1, <1>2
<1>4. ASSUME NEW k \in Nat, k < Len(s)
      PROVE  f[k + 1] = Decaler(f[k], s[k + 1], avec)
  <2>1. /\ k + 1 \in Nat
        /\ k + 1 \in 1 .. (k + 1)
        /\ 1 .. (k + 1) \in SUBSET (DOMAIN s)
    BY <1>1, <1>4
  <2>2. Max(1 .. k + 1) \in 1 .. k + 1 /\ \A y \in 1 .. k + 1 : Max(1 .. k + 1) >= y
    <3>1. 1 .. k + 1 \in SUBSET (1 .. k + 1) /\ 1 .. k + 1 # {}
      BY <2>1
    <3> QED
      BY <2>1, <3>1, PlusGrand
  <2>3. Max(1 .. k + 1) = k + 1
    BY <2>2
  <2>4. (1 .. k + 1) \ {k + 1} = 1 .. k
    OBVIOUS
  <2>5. g[1 .. k + 1] = Decaler(g[1 .. k], s[k + 1], avec)
    BY <1>2, <2>1, <2>3, <2>4
  <2> QED
    BY <1>1, <1>4, <2>5
<1>5. f[Len(s)] = g[DOMAIN s]
  BY <1>1
<1>6. Lu(b, s, avec, f)
  <2> HIDE DEF f
  <2> QED
    BY <1>3, <1>4 DEF Lu
<1> QED
  BY <1>5, <1>6

(* The value of the digits, and the power of ten they are over.             *)
Valeur(e, s) == FoldLeft(LAMBDA v, d : v * 10 + d, e, s)
Unite(s) == FoldLeft(LAMBDA u, d : u * 10, 1, s)

(* The two folds of CentimesJustes go digit after digit.                    *)
LEMMA ValeurLue ==
    ASSUME NEW e, NEW s, Len(s) \in Nat, DOMAIN s = 1 .. Len(s)
    PROVE  \E f : Lu(e, s, 1, f) /\ Valeur(e, s) = f[Len(s)]
<1> DEFINE iter == CHOOSE g : g = [S \in SUBSET (DOMAIN s) |->
                     IF S = {} THEN e ELSE g[S \ {Max(S)}] * 10 + s[Max(S)]]
<1>1. Valeur(e, s) = iter[DOMAIN s]
  BY DEF Valeur, FoldLeft, MapThenFoldSet
<1>2. \E g : g = [S \in SUBSET (DOMAIN s) |->
                    IF S = {} THEN e ELSE g[S \ {Max(S)}] * 10 + s[Max(S)]]
  <2>1. \E g : Plie(e, s, 1, Len(s), g)
    BY PliagePossible
  <2> QED
    BY <2>1 DEF Plie, Decaler
<1>3. iter = [S \in SUBSET (DOMAIN s) |->
                IF S = {} THEN e ELSE iter[S \ {Max(S)}] * 10 + s[Max(S)]]
  BY <1>2
<1> HIDE DEF iter
<1>4. Plie(e, s, 1, Len(s), iter)
  BY <1>3 DEF Plie, Decaler
<1>5. \E f : Lu(e, s, 1, f) /\ f[Len(s)] = iter[DOMAIN s]
  BY <1>4, PliageLu
<1> QED
  BY <1>1, <1>5

(* The same of the power of ten.                                            *)
LEMMA UniteLue ==
    ASSUME NEW s, Len(s) \in Nat, DOMAIN s = 1 .. Len(s)
    PROVE  \E f : Lu(1, s, 0, f) /\ Unite(s) = f[Len(s)]
<1>0. \A v, d : Decaler(v, d, 0) = v * 10
  <2> TAKE v, d
  <2>1. 0 # 1
    OBVIOUS
  <2> QED
    BY <2>1, Zenon DEF Decaler
<1> DEFINE iter == CHOOSE g : g = [S \in SUBSET (DOMAIN s) |->
                     IF S = {} THEN 1 ELSE g[S \ {Max(S)}] * 10]
<1>1. Unite(s) = iter[DOMAIN s]
  BY DEF Unite, FoldLeft, MapThenFoldSet
<1>2. \E g : g = [S \in SUBSET (DOMAIN s) |-> IF S = {} THEN 1 ELSE g[S \ {Max(S)}] * 10]
  <2>1. \E g : Plie(1, s, 0, Len(s), g)
    BY PliagePossible
  <2>2. PICK g : g = [S \in SUBSET (DOMAIN s) |->
                       IF S = {} THEN 1 ELSE Decaler(g[S \ {Max(S)}], s[Max(S)], 0)]
    BY <2>1 DEF Plie
  <2>3. \A S \in SUBSET (DOMAIN s) : g[S] = IF S = {} THEN 1 ELSE g[S \ {Max(S)}] * 10
    BY <2>2, <1>0
  <2>4. g = [S \in SUBSET (DOMAIN s) |-> g[S]]
    BY <2>2
  <2>5. g = [S \in SUBSET (DOMAIN s) |-> IF S = {} THEN 1 ELSE g[S \ {Max(S)}] * 10]
    BY <2>3, <2>4
  <2> QED
    BY <2>5
<1>3. iter = [S \in SUBSET (DOMAIN s) |-> IF S = {} THEN 1 ELSE iter[S \ {Max(S)}] * 10]
  BY <1>2
<1> HIDE DEF iter
<1>4. Plie(1, s, 0, Len(s), iter)
  <2>1. \A S \in SUBSET (DOMAIN s) :
           iter[S] = IF S = {} THEN 1 ELSE Decaler(iter[S \ {Max(S)}], s[Max(S)], 0)
    BY <1>3, <1>0
  <2>2. iter = [S \in SUBSET (DOMAIN s) |-> iter[S]]
    BY <1>3
  <2>3. iter = [S \in SUBSET (DOMAIN s) |->
                  IF S = {} THEN 1 ELSE Decaler(iter[S \ {Max(S)}], s[Max(S)], 0)]
    BY <2>1, <2>2
  <2> QED
    BY <2>3 DEF Plie
<1>5. \E f : Lu(1, s, 0, f) /\ f[Len(s)] = iter[DOMAIN s]
  BY <1>4, PliageLu
<1> QED
  BY <1>1, <1>5

(* Digit after digit: the number they make, and the power of ten.           *)
Chiffres(s, fv, fu) ==
    \A k \in Nat : k < Len(s) =>
        fv[k + 1] = fv[k] * 10 + s[k + 1] /\ fu[k + 1] = fu[k] * 10

(* After three digits, those to come change neither the cents nor the side  *)
(* of the half cent: A is the amount in tenths of a cent.                   *)
LEMMA ChiffresSuivants ==
    ASSUME NEW s \in Seq(0 .. 9), NEW fv, NEW fu, NEW A \in Nat,
           Chiffres(s, fv, fu), Len(s) >= 3, fv[3] = A, fu[3] = 1000
    PROVE  \A k \in 3 .. Len(s) :
             /\ fv[k] \in Nat /\ fu[k] \in Nat
             /\ 1000 * fv[k] >= A * fu[k]
             /\ 1000 * fv[k] + 1000 <= (A + 1) * fu[k]
<1> DEFINE Encadre(k) == /\ fv[k] \in Nat /\ fu[k] \in Nat
                         /\ 1000 * fv[k] >= A * fu[k]
                         /\ 1000 * fv[k] + 1000 <= (A + 1) * fu[k]
           P == {n \in Nat : n + 3 <= Len(s) => Encadre(n + 3)}
<1>1. 0 \in P
  BY DEF Encadre
<1>2. ASSUME NEW n \in Nat, n \in P
      PROVE  n + 1 \in P
  <2> SUFFICES ASSUME (n + 1) + 3 <= Len(s)
               PROVE  Encadre((n + 1) + 3)
    OBVIOUS
  <2>1. Len(s) \in Nat /\ n + 3 \in Nat /\ n + 3 < Len(s) /\ (n + 1) + 3 = (n + 3) + 1
    OBVIOUS
  <2>2. Encadre(n + 3)
    BY <1>2, <2>1
  <2>3. PICK v \in Nat, u \in Nat, d \in 0 .. 9 : v = fv[n + 3] /\ u = fu[n + 3] /\ d = s[(n + 3) + 1]
    <3>1. s[(n + 3) + 1] \in 0 .. 9
      BY <2>1
    <3>2. fv[n + 3] \in Nat /\ fu[n + 3] \in Nat
      BY <2>2
    <3> USE <3>1, <3>2
    <3> WITNESS fv[n + 3] \in Nat, fu[n + 3] \in Nat, s[(n + 3) + 1] \in 0 .. 9
    <3> QED
      OBVIOUS
  <2>4. fv[(n + 1) + 3] = v * 10 + d /\ fu[(n + 1) + 3] = u * 10
    BY <2>1, <2>3 DEF Chiffres
  <2>5. 1000 * v >= A * u /\ 1000 * v + 1000 <= (A + 1) * u
    BY <2>2, <2>3
  <2>6. A * (u * 10) = 10 * (A * u) /\ (A + 1) * (u * 10) = 10 * ((A + 1) * u)
    OBVIOUS
  <2>7. A * u \in Nat /\ (A + 1) * u \in Nat
    OBVIOUS
  <2>8. 1000 * (v * 10 + d) >= A * (u * 10) /\ 1000 * (v * 10 + d) + 1000 <= (A + 1) * (u * 10)
    BY <2>5, <2>6, <2>7
  <2>9. v * 10 + d \in Nat /\ u * 10 \in Nat
    OBVIOUS
  <2> QED
    BY <2>4, <2>8, <2>9
<1>3. Nat \subseteq P
  <2> HIDE DEF P
  <2>1. \A n \in Nat : n \in P => n + 1 \in P
    BY <1>2
  <2> QED
    BY <1>1, <2>1, Recurrence
<1>4. ASSUME NEW k \in 3 .. Len(s) PROVE Encadre(k)
  <2>1. k - 3 \in Nat /\ (k - 3) + 3 = k /\ k <= Len(s)
    OBVIOUS
  <2> HIDE DEF Encadre
  <2>2. k - 3 \in P
    <3> HIDE DEF P
    <3> QED
      BY <1>3, <2>1
  <2>3. Encadre((k - 3) + 3)
    BY <2>1, <2>2
  <2> QED
    BY <2>1, <2>3
<1> QED
  BY <1>4

(* The digits that are missing count for zero (mapping.rs:38-45).           *)
LEMMA ArrondiAuPlusProche ==
    ASSUME NEW e \in Nat, NEW s \in Seq(0 .. 9)
    PROVE  LET c == e * 100 + CentimesArrondis(s)
           IN  /\ c \in Nat
               /\ 2 * 100 * Valeur(e, s) < (2 * c + 1) * Unite(s)
               /\ 2 * 100 * Valeur(e, s) >= (2 * c - 1) * Unite(s)
<1>1. Len(s) \in Nat /\ DOMAIN s = 1 .. Len(s) /\ \A i \in 1 .. Len(s) : s[i] \in 0 .. 9
  OBVIOUS
<1>2. PICK fv : Lu(e, s, 1, fv) /\ Valeur(e, s) = fv[Len(s)]
  BY <1>1, ValeurLue
<1>3. PICK fu : Lu(1, s, 0, fu) /\ Unite(s) = fu[Len(s)]
  BY <1>1, UniteLue
<1>4. /\ fv[0] = e /\ fu[0] = 1
      /\ \A k \in Nat : k < Len(s) => fv[k + 1] = fv[k] * 10 + s[k + 1]
  BY <1>2, <1>3 DEF Lu, Decaler
<1>5. \A k \in Nat : k < Len(s) => fu[k + 1] = fu[k] * 10
  <2>1. 0 # 1
    OBVIOUS
  <2> QED
    BY <1>3, <2>1 DEF Lu, Decaler
<1> DEFINE c == e * 100 + CentimesArrondis(s)
           Proche == /\ c \in Nat
                     /\ 2 * 100 * fv[Len(s)] < (2 * c + 1) * fu[Len(s)]
                     /\ 2 * 100 * fv[Len(s)] >= (2 * c - 1) * fu[Len(s)]
<1> SUFFICES Proche
  BY <1>2, <1>3
<1>6. CASE Len(s) = 0
  <2>1. Chiffre(s, 1) = 0 /\ Chiffre(s, 2) = 0 /\ Chiffre(s, 3) = 0
    BY <1>6 DEF Chiffre
  <2>2. c = e * 100
    BY <2>1 DEF CentimesArrondis
  <2> HIDE DEF c
  <2> QED
    BY <1>4, <1>6, <2>2
<1>7. CASE Len(s) = 1
  <2>1. PICK d \in 0 .. 9 : d = s[1]
    BY <1>1, <1>7
  <2>2. Chiffre(s, 1) = d /\ Chiffre(s, 2) = 0 /\ Chiffre(s, 3) = 0
    BY <1>7, <2>1 DEF Chiffre
  <2>3. c = e * 100 + d * 10
    BY <2>2 DEF CentimesArrondis
  <2>4. fv[0 + 1] = e * 10 + d /\ fu[0 + 1] = 10
    BY <1>4, <1>5, <1>7, <2>1
  <2> HIDE DEF c
  <2>5. fv[1] = e * 10 + d /\ fu[1] = 10
    BY <2>4
  <2> QED
    BY <1>7, <2>3, <2>5
<1>8. CASE Len(s) = 2
  <2>1. PICK d \in 0 .. 9, f \in 0 .. 9 : d = s[1] /\ f = s[2]
    BY <1>1, <1>8
  <2>2. Chiffre(s, 1) = d /\ Chiffre(s, 2) = f /\ Chiffre(s, 3) = 0
    BY <1>8, <2>1 DEF Chiffre
  <2>3. c = e * 100 + d * 10 + f
    BY <2>2 DEF CentimesArrondis
  <2>4. fv[0 + 1] = e * 10 + d /\ fu[0 + 1] = 10
    BY <1>4, <1>5, <1>8, <2>1
  <2>5. fv[1 + 1] = fv[1] * 10 + f /\ fu[1 + 1] = fu[1] * 10
    BY <1>4, <1>5, <1>8, <2>1
  <2> HIDE DEF c
  <2>6. fv[2] = (e * 10 + d) * 10 + f /\ fu[2] = 100
    BY <2>4, <2>5
  <2> QED
    BY <1>8, <2>3, <2>6
<1>9. CASE Len(s) >= 3
  <2>1. PICK d \in 0 .. 9, f \in 0 .. 9, g \in 0 .. 9 : d = s[1] /\ f = s[2] /\ g = s[3]
    BY <1>1, <1>9
  <2>2. Chiffre(s, 1) = d /\ Chiffre(s, 2) = f /\ Chiffre(s, 3) = g
    BY <1>1, <1>9, <2>1 DEF Chiffre
  <2>3. c = e * 100 + d * 10 + f + (IF g >= 5 THEN 1 ELSE 0)
    <3>1. CentimesArrondis(s) = d * 10 + f + (IF g >= 5 THEN 1 ELSE 0)
      BY <2>2 DEF CentimesArrondis
    <3>2. (IF g >= 5 THEN 1 ELSE 0) \in {0, 1}
      OBVIOUS
    <3> QED
      BY <3>1, <3>2
  <2>4. fv[0 + 1] = e * 10 + d /\ fu[0 + 1] = 10
    BY <1>1, <1>4, <1>5, <1>9, <2>1
  <2>5. fv[1 + 1] = fv[1] * 10 + f /\ fu[1 + 1] = fu[1] * 10
    BY <1>1, <1>4, <1>5, <1>9, <2>1
  <2>6. fv[2 + 1] = fv[2] * 10 + g /\ fu[2 + 1] = fu[2] * 10
    BY <1>1, <1>4, <1>5, <1>9, <2>1
  <2> DEFINE A == e * 1000 + d * 100 + f * 10 + g
  <2> HIDE DEF c
  <2>7. fv[3] = A /\ fu[3] = 1000 /\ A \in Nat
    <3>1. fv[1] = e * 10 + d /\ fu[1] = 10
      BY <2>4
    <3>2. fv[2] = (e * 10 + d) * 10 + f /\ fu[2] = 100
      BY <2>5, <3>1
    <3> QED
      BY <2>6, <3>2
  <2>8. c \in Nat /\ 10 * c - 5 <= A /\ A + 1 <= 10 * c + 5
    BY <2>3
  <2> HIDE DEF A
  <2>9. /\ fv[Len(s)] \in Nat /\ fu[Len(s)] \in Nat
        /\ 1000 * fv[Len(s)] >= A * fu[Len(s)]
        /\ 1000 * fv[Len(s)] + 1000 <= (A + 1) * fu[Len(s)]
    <3>1. \A k \in 3 .. Len(s) :
             /\ fv[k] \in Nat /\ fu[k] \in Nat
             /\ 1000 * fv[k] >= A * fu[k]
             /\ 1000 * fv[k] + 1000 <= (A + 1) * fu[k]
      <4>1. Chiffres(s, fv, fu)
        BY <1>4, <1>5 DEF Chiffres
      <4> QED
        BY <1>9, <2>7, <4>1, ChiffresSuivants
    <3>2. Len(s) \in 3 .. Len(s)
      BY <1>1, <1>9
    <3> QED
      BY <3>1, <3>2
  <2>10. PICK v \in Nat, u \in Nat : v = fv[Len(s)] /\ u = fu[Len(s)]
    BY <2>9
  <2>11. 1000 * v >= A * u /\ 1000 * v + 1000 <= (A + 1) * u
    BY <2>9, <2>10
  <2>12. A * u >= (10 * c - 5) * u
    <3>1. PICK r \in Nat : A = (10 * c - 5) + r
      <4>1. A - (10 * c - 5) \in Nat
        BY <2>7, <2>8
      <4> QED
        BY <4>1, <2>7, <2>8
    <3>2. ((10 * c - 5) + r) * u = (10 * c - 5) * u + r * u /\ r * u \in Nat /\ (10 * c - 5) * u \in Int
      BY <2>8
    <3> QED
      BY <3>1, <3>2
  <2>13. (10 * c + 5) * u >= (A + 1) * u
    BY <2>7, <2>8, ProduitsCompares
  <2>14. (10 * c - 5) * u = 5 * ((2 * c - 1) * u) /\ (10 * c + 5) * u = 5 * ((2 * c + 1) * u)
    BY <2>8
  <2>15. (2 * c - 1) * u \in Int /\ (2 * c + 1) * u \in Int /\ A * u \in Int /\ (A + 1) * u \in Int
    BY <2>7, <2>8
  <2>16. 2 * 100 * v < (2 * c + 1) * u /\ 2 * 100 * v >= (2 * c - 1) * u
    BY <2>11, <2>12, <2>13, <2>14, <2>15
  <2> QED
    BY <2>8, <2>10, <2>16
<1> HIDE DEF Proche
<1> QED
  BY <1>1, <1>6, <1>7, <1>8, <1>9

(* The cents stored are the nearest to what the bank wrote, for every number *)
(* of decimals, and a debit is never positive (mapping.rs:13-51, 158-164).   *)
THEOREM CentimesToujoursJustes == Spec => []CentimesJustes
<1>1. Boucle => CentimesJustes
  <2> SUFFICES ASSUME Boucle, NEW m \in mouvements
               PROVE  LET l == m.ligne
                          centimes == Ecart(0, m.montant)
                      IN  /\ 2 * 100 * Valeur(l.entiers, l.decimales)
                               < (2 * centimes + 1) * Unite(l.decimales)
                          /\ 2 * 100 * Valeur(l.entiers, l.decimales)
                               >= (2 * centimes - 1) * Unite(l.decimales)
                          /\ m.montant > 0 => l.sens # "DBIT" /\ l.signe = 1
    BY DEF CentimesJustes, Valeur, Unite
  <2> DEFINE l == m.ligne
             c == l.entiers * 100 + CentimesArrondis(l.decimales)
  <2>1. /\ l.signe \in {-1, 1} /\ l.entiers \in Nat /\ l.decimales \in Seq(0 .. 9)
        /\ m.montant = AmountCents(l)
    BY LignesBienFormees DEF Boucle, EnOrdre
  <2>2. /\ c \in Nat
        /\ 2 * 100 * Valeur(l.entiers, l.decimales) < (2 * c + 1) * Unite(l.decimales)
        /\ 2 * 100 * Valeur(l.entiers, l.decimales) >= (2 * c - 1) * Unite(l.decimales)
    BY <2>1, ArrondiAuPlusProche
  <2>3. m.montant = IF l.sens = "DBIT" THEN -Ecart(0, l.signe * c) ELSE l.signe * c
    BY <2>1 DEF AmountCents, MontantEnCentimes
  <2> HIDE DEF c
  <2>4. Ecart(0, m.montant) = c /\ (m.montant > 0 => l.sens # "DBIT" /\ l.signe = 1)
    <3>1. CASE l.signe = 1
      BY <2>2, <2>3, <3>1 DEF Ecart
    <3>2. CASE l.signe = -1
      <4>1. l.signe * c = -c
        BY <2>2, <3>2
      <4> QED
        BY <2>2, <2>3, <4>1 DEF Ecart
    <3> QED
      BY <2>1, <3>1, <3>2
  <2> QED
    BY <2>2, <2>4
<1> QED
  BY BoucleToujours, <1>1, PTL

-------------------------------------------------------------------------------
(* The folds of the detection: the function MapThenFoldSet iterates exists, *)
(* when it takes one element of each set.                                   *)
Repliee(C, ch, base, pas, g) ==
    g = [T \in SUBSET C |-> IF T = {} THEN base ELSE pas[ch[T]][g[T \ {ch[T]}]]]

LEMMA RepliExiste ==
    ASSUME NEW C, IsFiniteSet(C), NEW ch, \A T \in (SUBSET C) \ {{}} : ch[T] \in T,
           NEW A, NEW base \in A, NEW pas \in [C -> [A -> A]]
    PROVE  \E g \in [SUBSET C -> A] : Repliee(C, ch, base, pas, g)
<1> DEFINE Juste(S, g) == g[S] = IF S = {} THEN base ELSE pas[ch[S]][g[S \ {ch[S]}]]
           P == {n \in Nat : \E g \in [SUBSET C -> A] : \A S \in SUBSET C : Cardinality(S) <= n => Juste(S, g)}
<1>1. \A S \in SUBSET C : IsFiniteSet(S) /\ Cardinality(S) \in Nat /\ Cardinality(S) <= Cardinality(C)
  BY FS_Subset, FS_CardinalityType
<1>2. ASSUME NEW S \in SUBSET C, S # {}
      PROVE  /\ ch[S] \in C /\ S \ {ch[S]} \in SUBSET C
             /\ Cardinality(S \ {ch[S]}) = Cardinality(S) - 1
  <2>1. ch[S] \in S /\ IsFiniteSet(S)
    BY <1>1, <1>2
  <2> QED
    BY <2>1, UnDeMoins
<1>3. 0 \in P
  <2> DEFINE g == [S \in SUBSET C |-> base]
  <2>1. \A S \in SUBSET C : Cardinality(S) <= 0 => Juste(S, g)
    BY <1>1, FS_EmptySet
  <2>2. g \in [SUBSET C -> A]
    OBVIOUS
  <2> QED
    BY <2>1, <2>2
<1>4. ASSUME NEW n \in Nat, n \in P
      PROVE  n + 1 \in P
  <2>1. PICK g \in [SUBSET C -> A] : \A S \in SUBSET C : Cardinality(S) <= n => Juste(S, g)
    BY <1>4
  <2> DEFINE h == [S \in SUBSET C |->
                     IF Cardinality(S) = n + 1 THEN pas[ch[S]][g[S \ {ch[S]}]] ELSE g[S]]
  <2>2. h \in [SUBSET C -> A]
    <3> SUFFICES ASSUME NEW S \in SUBSET C, Cardinality(S) = n + 1
                 PROVE  pas[ch[S]][g[S \ {ch[S]}]] \in A
      OBVIOUS
    <3>1. S # {}
      BY <1>1, FS_EmptySet
    <3>2. ch[S] \in C /\ S \ {ch[S]} \in SUBSET C
      BY <1>2, <3>1
    <3> QED
      BY <3>2
  <2>3. ASSUME NEW S \in SUBSET C, Cardinality(S) <= n + 1
        PROVE  Juste(S, h)
    <3>1. CASE S = {}
      <4>1. Cardinality(S) = 0
        BY <3>1, FS_EmptySet
      <4>2. h[S] = g[S]
        BY <4>1
      <4>3. Cardinality(S) <= n
        BY <4>1
      <4>4. Juste(S, g)
        <5> HIDE DEF Juste
        <5> QED
          BY <2>1, <4>3
      <4> QED
        BY <3>1, <4>2, <4>4
    <3>2. CASE S # {}
      <4>1. /\ S \ {ch[S]} \in SUBSET C
            /\ Cardinality(S \ {ch[S]}) = Cardinality(S) - 1
            /\ Cardinality(S) \in Nat
        BY <1>1, <1>2, <3>2
      <4>2. Cardinality(S \ {ch[S]}) # n + 1
        BY <2>3, <4>1
      <4>3. h[S \ {ch[S]}] = g[S \ {ch[S]}]
        BY <4>1, <4>2
      <4>4. h[S] = pas[ch[S]][g[S \ {ch[S]}]]
        <5>1. CASE Cardinality(S) = n + 1
          BY <5>1
        <5>2. CASE Cardinality(S) # n + 1
          <6>1. Cardinality(S) <= n
            BY <2>3, <4>1, <5>2
          <6>2. Juste(S, g) /\ h[S] = g[S]
            BY <2>1, <5>2, <6>1
          <6> QED
            BY <3>2, <6>2
        <5> QED
          BY <5>1, <5>2
      <4> HIDE DEF h
      <4> QED
        BY <3>2, <4>3, <4>4
    <3> QED
      BY <3>1, <3>2
  <2> HIDE DEF h
  <2>4. \A S \in SUBSET C : Cardinality(S) <= n + 1 => Juste(S, h)
    BY <2>3
  <2> HIDE DEF Juste
  <2> QED
    BY <2>2, <2>4
<1>5. Nat \subseteq P
  <2> HIDE DEF P
  <2>1. \A n \in Nat : n \in P => n + 1 \in P
    BY <1>4
  <2> QED
    BY <1>3, <2>1, Recurrence
<1>6. PICK g \in [SUBSET C -> A] : \A S \in SUBSET C : Juste(S, g)
  <2>1. Cardinality(C) \in P
    BY <1>1, <1>5
  <2>2. PICK g \in [SUBSET C -> A] : \A S \in SUBSET C : Cardinality(S) <= Cardinality(C) => Juste(S, g)
    <3> HIDE DEF Juste
    <3> QED
      BY <2>1
  <2> HIDE DEF Juste
  <2> QED
    BY <1>1, <2>2
<1>7. g = [S \in SUBSET C |-> g[S]]
  OBVIOUS
<1>8. g = [S \in SUBSET C |-> IF S = {} THEN base ELSE pas[ch[S]][g[S \ {ch[S]}]]]
  BY <1>6, <1>7
<1> QED
  BY <1>8 DEF Repliee

(* A finite set has what an empty one has and one more element keeps.       *)
LEMMA RecurrenceFinie ==
    ASSUME NEW S, IsFiniteSet(S), NEW Q, {} \in Q,
           \A T \in SUBSET S : \A x \in S \ T : T \in Q => T \cup {x} \in Q
    PROVE  S \in Q
  <1> DEFINE P == {n \in Nat : \A T \in SUBSET S : Cardinality(T) = n => T \in Q}
  <1>1. \A T \in SUBSET S : IsFiniteSet(T) /\ Cardinality(T) \in Nat
    BY FS_Subset, FS_CardinalityType
  <1>2. 0 \in P
    BY <1>1, FS_EmptySet
  <1>3. ASSUME NEW n \in Nat, n \in P
        PROVE  n + 1 \in P
    <2>1. ASSUME NEW T \in SUBSET S, Cardinality(T) = n + 1
          PROVE  T \in Q
      <3>1. T # {}
        <4>1. Cardinality({}) = 0
          BY FS_EmptySet
        <4> QED BY <2>1, <4>1
      <3>2. PICK x \in T : TRUE
        BY <3>1
      <3>3. T \ {x} \in SUBSET S /\ Cardinality(T \ {x}) = n
        BY <1>1, <2>1, UnDeMoins
      <3>4. T \ {x} \in Q
        BY <1>3, <3>3
      <3>5. T = (T \ {x}) \cup {x} /\ x \in S \ (T \ {x})
        OBVIOUS
      <3> QED BY <3>3, <3>4, <3>5
    <2> QED BY <2>1
  <1>4. Nat \subseteq P
    <2> HIDE DEF P
    <2> QED BY <1>2, <1>3, Recurrence
  <1>5. Cardinality(S) \in P
    BY <1>1, <1>4
  <1> QED BY <1>5

(* One element of a finite set has the largest value.                       *)
LEMMA LePlusGrand ==
    ASSUME NEW S, IsFiniteSet(S), S # {}, NEW f, \A x \in S : f[x] \in Int
    PROVE  \E x \in S : \A y \in S : f[y] <= f[x]
<1> DEFINE Q == {T \in SUBSET S : T # {} => \E x \in T : \A y \in T : f[y] <= f[x]}
<1>1. {} \in Q
  OBVIOUS
<1>2. ASSUME NEW T \in SUBSET S, NEW z \in S \ T, T \in Q
      PROVE  T \cup {z} \in Q
  <2>1. CASE T = {}
    BY <2>1
  <2>2. CASE T # {}
    <3>1. PICK x \in T : \A y \in T : f[y] <= f[x]
      BY <1>2, <2>2
    <3>2. CASE f[z] <= f[x]
      <4>1. \A y \in T \cup {z} : f[y] <= f[x]
        BY <3>1, <3>2
      <4> QED
        BY <4>1
    <3>3. CASE f[x] <= f[z]
      <4>1. \A y \in T \cup {z} : f[y] <= f[z]
        BY <3>1, <3>3
      <4> QED
        BY <4>1
    <3> QED
      BY <3>2, <3>3
  <2> QED
    BY <2>1, <2>2
<1>3. S \in Q
  <2> HIDE DEF Q
  <2> QED
    BY <1>1, <1>2, RecurrenceFinie
<1> QED
  BY <1>3

(* The bounds of a finite set of integers.                                  *)
LEMMA Bornes ==
    ASSUME NEW S \in SUBSET Int, IsFiniteSet(S), S # {}
    PROVE  /\ Max(S) \in S /\ \A y \in S : y <= Max(S)
           /\ \E x \in S : \A y \in S : x <= y
<1> DEFINE f == [x \in S |-> x]
           h == [x \in S |-> -x]
<1>1. \E x \in S : \A y \in S : y <= x
  <2>1. \A x \in S : f[x] \in Int
    OBVIOUS
  <2>2. \E x \in S : \A y \in S : f[y] <= f[x]
    <3> HIDE DEF f
    <3> QED
      BY <2>1, LePlusGrand
  <2> QED
    BY <2>2
<1>2. \E x \in S : \A y \in S : x <= y
  <2>1. \A x \in S : h[x] \in Int
    OBVIOUS
  <2>2. PICK x \in S : \A y \in S : h[y] <= h[x]
    <3> HIDE DEF h
    <3> QED
      BY <2>1, LePlusGrand
  <2>3. \A y \in S : x <= y
    <3> TAKE y \in S
    <3>1. -y <= -x
      BY <2>2
    <3> QED
      BY <3>1
  <2> QED
    BY <2>3
<1>3. \E x \in S : \A y \in S : x >= y
  BY <1>1
<1> QED
  BY <1>2, <1>3 DEF Max

(* The row taken last, in the order of the amounts and in that of the dates. *)
LEMMA DerniereLigne ==
    ASSUME NEW S \in SUBSET Operations, IsFiniteSet(S), S # {}
    PROVE  /\ PlusCher(S) \in S /\ \A p \in S : Montant[p] <= Montant[PlusCher(S)]
           /\ PlusRecent(S) \in S /\ \A p \in S : Date[p] <= Date[PlusRecent(S)]
<1>1. \A o \in S : Montant[o] \in Int /\ Date[o] \in Int
  BY OccurrencesBienFormees
<1>2. \E o \in S : \A p \in S : Montant[p] <= Montant[o]
  BY <1>1, LePlusGrand
<1>3. \E o \in S : \A p \in S : Date[p] <= Date[o]
  BY <1>1, LePlusGrand
<1> QED
  BY <1>2, <1>3 DEF PlusCher, PlusRecent

-------------------------------------------------------------------------------
(* The clusters of a set of rows: each holds the rows within the tolerance  *)
(* of its name, and the names are an anchoring of the amounts.              *)
Ancrage(A, S) ==
    /\ A \subseteq {Montant[o] : o \in S}
    /\ \A o \in S : \E a \in A : Montant[o] \in a .. a + TOLERANCE_MONTANT_CENTS
    /\ \A a, b \in A : a < b => b > a + TOLERANCE_MONTANT_CENTS

Portee(S, a) == {o \in S : Montant[o] \in a .. a + TOLERANCE_MONTANT_CENTS}

Groupees(S, G) ==
    /\ IsFiniteSet(DOMAIN G)
    /\ Ancrage(DOMAIN G, S)
    /\ G = [a \in DOMAIN G |-> Portee(S, a)]

(* A row with the largest amount joins the cluster it belongs to.           *)
LEMMA GroupeesUneDePlus ==
    ASSUME NEW T \in SUBSET Operations, NEW x \in Operations, x \notin T,
           \A p \in T : Montant[p] <= Montant[x],
           NEW G, Groupees(T, G)
    PROVE  Groupees(T \cup {x}, Rejoindre(x, G))
<1> DEFINE D == DOMAIN G
           m == Max(D)
           v == Montant[x]
           H == Rejoindre(x, G)
<1>1. v \in Int /\ \A o \in T : Montant[o] \in Int /\ Montant[o] <= v
  BY OccurrencesBienFormees
<1>2. /\ D \in SUBSET Int /\ IsFiniteSet(D) /\ \A a \in D : a <= v
      /\ \A a \in D : \E o \in T : Montant[o] = a
  BY <1>1 DEF Groupees, Ancrage
<1>3. G = [a \in D |-> Portee(T, a)] /\ Ancrage(D, T)
  BY DEF Groupees
<1>4. CASE D # {} /\ Proches(m, v)
  <2>1. m \in D /\ (\A a \in D : a <= m) /\ m \in Int
    BY <1>2, <1>4, Bornes
  <2>2. m <= v /\ v <= m + 100
    BY <1>1, <1>2, <1>4, <2>1 DEF Proches, TOLERANCE_MONTANT_CENTS
  <2>3. DOMAIN H = D /\ H = [a \in D |-> IF a = m THEN Portee(T, m) \cup {x} ELSE Portee(T, a)]
    <3>1. H = [G EXCEPT ![m] = @ \cup {x}]
      BY <1>4 DEF Rejoindre, Ranger
    <3> HIDE DEF m, H
    <3> QED
      BY <1>3, <2>1, <3>1
  <2>4. ASSUME NEW a \in D
        PROVE  Portee(T \cup {x}, a) = IF a = m THEN Portee(T, m) \cup {x} ELSE Portee(T, a)
    <3>1. a = m => v \in a .. a + TOLERANCE_MONTANT_CENTS
      BY <1>1, <2>1, <2>2 DEF TOLERANCE_MONTANT_CENTS
    <3>2. a # m => ~(v \in a .. a + TOLERANCE_MONTANT_CENTS)
      <4>1. a # m => m > a + 100
        BY <1>2, <1>3, <2>1 DEF Ancrage, TOLERANCE_MONTANT_CENTS
      <4> QED
        BY <1>1, <1>2, <2>1, <2>2, <4>1 DEF TOLERANCE_MONTANT_CENTS
    <3> QED
      BY <3>1, <3>2 DEF Portee
  <2>5. H = [a \in D |-> Portee(T \cup {x}, a)]
    BY <2>3, <2>4
  <2>6. Ancrage(D, T \cup {x})
    <3>1. v \in m .. m + TOLERANCE_MONTANT_CENTS
      BY <1>1, <2>1, <2>2 DEF TOLERANCE_MONTANT_CENTS
    <3> QED
      BY <1>3, <2>1, <3>1 DEF Ancrage
  <2>7. DOMAIN H = D /\ IsFiniteSet(D)
    BY <1>2, <2>3
  <2> HIDE DEF H, D, m
  <2>8. Groupees(T \cup {x}, H)
    BY <2>5, <2>6, <2>7 DEF Groupees
  <2> QED
    BY <2>8 DEF H
<1>5. CASE ~(D # {} /\ Proches(m, v))
  <2>1. ASSUME NEW a \in D
        PROVE  v > a + 100
    <3>1. m \in D /\ a <= m /\ m \in Int /\ a \in Int /\ m <= v
      BY <1>2, Bornes
    <3>2. ~(v - m <= 100)
      BY <1>1, <1>5, <3>1 DEF Proches, TOLERANCE_MONTANT_CENTS
    <3> QED
      BY <1>1, <3>1, <3>2
  <2>2. v \notin D
    BY <1>1, <1>2, <2>1
  <2>3. DOMAIN H = D \cup {v} /\ H = [a \in D \cup {v} |-> IF a \in D THEN Portee(T, a) ELSE {x}]
    <3>1. H = [a \in D \cup {v} |-> IF a \in D THEN G[a] ELSE {x}]
      BY <1>5 DEF Rejoindre, Ranger
    <3>2. \A a \in D : G[a] = Portee(T, a)
      BY <1>3
    <3> HIDE DEF H, D, v
    <3> QED
      BY <3>1, <3>2
  <2>4. ASSUME NEW a \in D
        PROVE  Portee(T \cup {x}, a) = Portee(T, a)
    <3>1. ~(v \in a .. a + TOLERANCE_MONTANT_CENTS)
      BY <1>1, <1>2, <2>1 DEF TOLERANCE_MONTANT_CENTS
    <3> QED
      BY <3>1 DEF Portee
  <2>5. Portee(T \cup {x}, v) = {x}
    <3>1. v \in v .. v + TOLERANCE_MONTANT_CENTS
      BY <1>1 DEF TOLERANCE_MONTANT_CENTS
    <3>2. ASSUME NEW o \in T
          PROVE  ~(Montant[o] \in v .. v + TOLERANCE_MONTANT_CENTS)
      <4>1. PICK a \in D : Montant[o] \in a .. a + TOLERANCE_MONTANT_CENTS
        BY <1>3 DEF Ancrage
      <4>2. Montant[o] <= a + 100 /\ v > a + 100 /\ a \in Int
        BY <1>2, <2>1, <4>1 DEF TOLERANCE_MONTANT_CENTS
      <4> QED
        BY <1>1, <4>2 DEF TOLERANCE_MONTANT_CENTS
    <3> QED
      BY <3>1, <3>2 DEF Portee
  <2>6. H = [a \in D \cup {v} |-> Portee(T \cup {x}, a)]
    <3>1. \A a \in D \cup {v} : (IF a \in D THEN Portee(T, a) ELSE {x}) = Portee(T \cup {x}, a)
      BY <2>2, <2>4, <2>5
    <3> HIDE DEF H, D, v
    <3> QED
      BY <2>3, <3>1
  <2>7. Ancrage(D \cup {v}, T \cup {x})
    <3>1. D \cup {v} \subseteq {Montant[o] : o \in T \cup {x}}
      BY <1>3 DEF Ancrage
    <3>2. ASSUME NEW o \in T \cup {x}
          PROVE  \E a \in D \cup {v} : Montant[o] \in a .. a + TOLERANCE_MONTANT_CENTS
      <4>1. CASE o = x
        BY <1>1, <4>1 DEF TOLERANCE_MONTANT_CENTS
      <4>2. CASE o \in T
        BY <1>3, <4>2 DEF Ancrage
      <4> QED
        BY <4>1, <4>2
    <3>3. ASSUME NEW a \in D \cup {v}, NEW b \in D \cup {v}, a < b
          PROVE  b > a + TOLERANCE_MONTANT_CENTS
      <4>1. CASE b \in D /\ a \in D
        BY <1>3, <3>3, <4>1 DEF Ancrage
      <4>2. CASE b = v
        BY <1>1, <2>1, <3>3, <4>2 DEF TOLERANCE_MONTANT_CENTS
      <4>3. CASE b \in D /\ a = v
        BY <1>1, <1>2, <3>3, <4>3
      <4> QED
        BY <4>1, <4>2, <4>3
    <3> QED
      BY <3>1, <3>2, <3>3 DEF Ancrage
  <2>8. IsFiniteSet(D \cup {v})
    BY <1>2, FS_AddElement
  <2> DEFINE E == D \cup {v}
  <2>9. DOMAIN H = E /\ H = [a \in E |-> Portee(T \cup {x}, a)] /\ Ancrage(E, T \cup {x}) /\ IsFiniteSet(E)
    BY <2>3, <2>6, <2>7, <2>8
  <2> HIDE DEF H, E, D, m, v
  <2>10. Groupees(T \cup {x}, H)
    BY <2>9 DEF Groupees
  <2> QED
    BY <2>10 DEF H
<1> QED
  BY <1>4, <1>5

(* Clusters, as a row finds and leaves them.                                *)
Rangements == UNION {[D -> SUBSET Operations] : D \in SUBSET Int}

(* What one row leaves are clusters again. *)
LEMMA RejoindreRange ==
    ASSUME NEW o \in Operations, NEW G \in Rangements
    PROVE  Rejoindre(o, G) \in Rangements
<1>1. PICK D \in SUBSET Int : G \in [D -> SUBSET Operations]
  BY DEF Rangements
<1> DEFINE m == Max(DOMAIN G)
           E == D \cup {Montant[o]}
           H == [a \in E |-> IF a \in D THEN G[a] ELSE {o}]
<1>2. Montant[o] \in Int
  BY OccurrencesBienFormees
<1>3. [G EXCEPT ![m] = @ \cup {o}] \in [D -> SUBSET Operations]
  <2> HIDE DEF m
  <2>1. \A a \in D : [G EXCEPT ![m] = @ \cup {o}][a] \in SUBSET Operations
    BY <1>1
  <2> QED
    BY <1>1, <2>1
<1>4. H \in [E -> SUBSET Operations] /\ E \in SUBSET Int
  BY <1>1, <1>2
<1>5. Rejoindre(o, G) = [G EXCEPT ![m] = @ \cup {o}] \/ Rejoindre(o, G) = H
  BY <1>1 DEF Rejoindre, Ranger
<1> HIDE DEF H, E, m
<1> QED
  BY <1>3, <1>4, <1>5 DEF Rangements

(* The clusters of every part of the rows, one row after another: what      *)
(* MapThenFoldSet iterates.                                                 *)
Decoupe(V, g) ==
    g = [T \in SUBSET V |-> IF T = {} THEN [a \in {} |-> {}]
                            ELSE Rejoindre(PlusCher(T), g[T \ {PlusCher(T)}])]

(* The function Grappes iterates over the parts of V exists. *)
LEMMA DecoupePossible ==
    ASSUME NEW V \in SUBSET Operations, IsFiniteSet(V)
    PROVE  \E g : Decoupe(V, g)
<1> DEFINE ch == [T \in SUBSET V |-> PlusCher(T)]
           base == [a \in {} |-> {}]
           pas == [x \in V |-> [G \in Rangements |-> Rejoindre(x, G)]]
<1>1. base \in Rangements
  <2>1. {} \in SUBSET Int /\ base \in [{} -> SUBSET Operations]
    OBVIOUS
  <2> HIDE DEF base
  <2> QED
    BY <2>1 DEF Rangements
<1>2. pas \in [V -> [Rangements -> Rangements]]
  <2>1. \A x \in V, G \in Rangements : Rejoindre(x, G) \in Rangements
    BY RejoindreRange
  <2> QED
    BY <2>1
<1>3. \A T \in (SUBSET V) \ {{}} : ch[T] \in T /\ ch[T] = PlusCher(T)
  <2> TAKE T \in (SUBSET V) \ {{}}
  <2>1. T \in SUBSET Operations /\ IsFiniteSet(T) /\ T # {}
    BY FS_Subset
  <2>2. PlusCher(T) \in T
    BY <2>1, DerniereLigne
  <2> QED
    BY <2>2
<1>4. PICK g \in [SUBSET V -> Rangements] : Repliee(V, ch, base, pas, g)
  <2> HIDE DEF ch, base, pas
  <2> QED
    BY <1>1, <1>2, <1>3, RepliExiste
<1>5. ASSUME NEW T \in SUBSET V
      PROVE  g[T] = IF T = {} THEN base ELSE Rejoindre(PlusCher(T), g[T \ {PlusCher(T)}])
  <2>1. g[T] = IF T = {} THEN base ELSE pas[ch[T]][g[T \ {ch[T]}]]
    <3> HIDE DEF ch, base, pas
    <3> QED
      BY <1>4 DEF Repliee
  <2>2. CASE T # {}
    <3>1. ch[T] = PlusCher(T) /\ PlusCher(T) \in V /\ T \ {PlusCher(T)} \in SUBSET V
      BY <1>3, <2>2
    <3>2. g[T \ {PlusCher(T)}] \in Rangements
      BY <3>1
    <3>3. pas[PlusCher(T)][g[T \ {PlusCher(T)}]] = Rejoindre(PlusCher(T), g[T \ {PlusCher(T)}])
      BY <3>1, <3>2
    <3> HIDE DEF pas, ch, base
    <3> QED
      BY <2>1, <2>2, <3>1, <3>3
  <2>3. CASE T = {}
    BY <2>1, <2>3
  <2> QED
    BY <2>2, <2>3
<1>6. g = [T \in SUBSET V |-> g[T]]
  OBVIOUS
<1>7. g = [T \in SUBSET V |-> IF T = {} THEN base ELSE Rejoindre(PlusCher(T), g[T \ {PlusCher(T)}])]
  <2> HIDE DEF base
  <2> QED
    BY <1>5, <1>6
<1> QED
  BY <1>7 DEF Decoupe

(* Rows sorted by amount, a row after the cluster of the first amount near  *)
(* enough to its own (recurrence.rs:91-107): whatever the order the rows    *)
(* come in, the clusters are those of the anchors.                          *)
LEMMA GrappesGroupees ==
    ASSUME NEW V \in SUBSET Operations, IsFiniteSet(V)
    PROVE  Groupees(V, Grappes(V))
<1> DEFINE iter == CHOOSE f : f = [T \in SUBSET V |-> IF T = {} THEN [a \in {} |-> {}]
                                     ELSE Rejoindre(PlusCher(T), f[T \ {PlusCher(T)}])]
           P == {n \in Nat : \A T \in SUBSET V : Cardinality(T) = n => Groupees(T, iter[T])}
<1>1. Grappes(V) = iter[V]
  BY DEF Grappes, MapThenFoldSet
<1>2. Decoupe(V, iter)
  BY DecoupePossible DEF Decoupe
<1> HIDE DEF iter
<1>3. /\ iter[{}] = [a \in {} |-> {}]
      /\ \A T \in SUBSET V : T # {} => iter[T] = Rejoindre(PlusCher(T), iter[T \ {PlusCher(T)}])
  BY <1>2 DEF Decoupe
<1>4. \A T \in SUBSET V : T \in SUBSET Operations /\ IsFiniteSet(T) /\ Cardinality(T) \in Nat
  BY FS_Subset, FS_CardinalityType
<1>5. 0 \in P
  <2>1. Groupees({}, [a \in {} |-> {}])
    <3> DEFINE G == [a \in {} |-> {}]
    <3>1. DOMAIN G = {} /\ G = [a \in {} |-> Portee({}, a)] /\ IsFiniteSet({})
      BY FS_EmptySet
    <3> HIDE DEF G
    <3>2. Groupees({}, G)
      BY <3>1 DEF Groupees, Ancrage
    <3> QED
      BY <3>2 DEF G
  <2> QED
    BY <1>3, <1>4, <2>1, FS_EmptySet
<1>6. ASSUME NEW n \in Nat, n \in P
      PROVE  n + 1 \in P
  <2>1. ASSUME NEW S \in SUBSET V, Cardinality(S) = n + 1
        PROVE  Groupees(S, iter[S])
    <3> DEFINE x == PlusCher(S)
               T == S \ {x}
    <3>1. S # {}
      BY <1>4, <2>1, FS_EmptySet
    <3>2. x \in S /\ \A p \in S : Montant[p] <= Montant[x]
      BY <1>4, <3>1, DerniereLigne
    <3>3. T \in SUBSET V /\ Cardinality(T) = n
      BY <1>4, <2>1, <3>2, UnDeMoins
    <3>4. Groupees(T, iter[T])
      BY <1>6, <3>3
    <3>5. iter[S] = Rejoindre(x, iter[T])
      BY <1>3, <3>1
    <3>6. x \in Operations /\ x \notin T /\ T \in SUBSET Operations /\ S = T \cup {x}
          /\ \A p \in T : Montant[p] <= Montant[x]
      BY <3>2
    <3> HIDE DEF x, T
    <3> QED
      BY <3>4, <3>5, <3>6, GroupeesUneDePlus
  <2> QED
    BY <2>1
<1>7. Nat \subseteq P
  <2> HIDE DEF P
  <2> QED
    BY <1>5, <1>6, Recurrence
<1>8. Cardinality(V) \in P
  BY <1>4, <1>7
<1> QED
  BY <1>1, <1>8

-------------------------------------------------------------------------------
(* The dates of a cluster, one row after another. *)
JoursDe(S) == {Date[o] : o \in S}
Derniers(J) == {d \in J : \A e \in J : e <= d}
Voisins(J) ==
    {p \in J \X J : /\ p[2] - p[1] \in INTERVALLE_MENSUEL
                    /\ \A f \in J : ~(p[1] < f /\ f < p[2])}

SuiviJuste(S, vu) ==
    /\ IsFiniteSet(JoursDe(S))
    /\ vu = [dernier |-> Derniers(JoursDe(S)), mensuels |-> Cardinality(Voisins(JoursDe(S)))]

(* A day after all the others makes one more couple of neighbours, or none. *)
LEMMA VoisinsDePlus ==
    ASSUME NEW J \in SUBSET Int, IsFiniteSet(J), NEW v \in Int, \A e \in J : e <= v
    PROVE  /\ Derniers(J \cup {v}) = {v}
           /\ Cardinality(Voisins(J)) \in Nat
           /\ Cardinality(Voisins(J \cup {v}))
                = Cardinality(Voisins(J))
                    + (IF \E d \in Derniers(J) : v - d \in INTERVALLE_MENSUEL THEN 1 ELSE 0)
<1>1. Derniers(J \cup {v}) = {v}
  <2>1. v \in Derniers(J \cup {v})
    BY DEF Derniers
  <2>2. ASSUME NEW d \in Derniers(J \cup {v})
        PROVE  d = v
    <3>1. d \in J \cup {v} /\ v <= d
      BY DEF Derniers
    <3>2. d \in Int /\ d <= v
      BY <3>1
    <3> QED
      BY <3>1, <3>2
  <2> QED
    BY <2>1, <2>2
<1>2. IsFiniteSet(Voisins(J)) /\ Cardinality(Voisins(J)) \in Nat
  <2>1. IsFiniteSet(J \X J)
    BY FS_Product
  <2>2. Voisins(J) \in SUBSET (J \X J)
    BY DEF Voisins
  <2> QED
    BY <2>1, <2>2, FS_Subset, FS_CardinalityType
<1>3. CASE v \in J
  <2>1. J \cup {v} = J
    BY <1>3
  <2>2. \A d \in Derniers(J) : d = v
    BY <1>3 DEF Derniers
  <2>3. ~ \E d \in Derniers(J) : v - d \in INTERVALLE_MENSUEL
    BY <2>2 DEF INTERVALLE_MENSUEL
  <2>4. Cardinality(Voisins(J \cup {v})) = Cardinality(Voisins(J))
    BY <2>1
  <2>5. Cardinality(Voisins(J)) = Cardinality(Voisins(J)) + 0
    BY <1>2
  <2> QED
    BY <1>1, <1>2, <2>3, <2>4, <2>5
<1>4. CASE J = {}
  <2>1. Voisins(J) = {} /\ Derniers(J) = {}
    BY <1>4 DEF Voisins, Derniers
  <2>2. Voisins(J \cup {v}) = {}
    BY <1>4 DEF Voisins, INTERVALLE_MENSUEL
  <2>3. Cardinality({}) = 0
    BY FS_EmptySet
  <2> QED
    BY <1>1, <1>2, <2>1, <2>2, <2>3
<1>5. CASE v \notin J /\ J # {}
  <2> DEFINE m == Max(J)
             W == Voisins(J)
  <2>1. m \in J /\ (\A e \in J : e <= m) /\ m \in Int /\ m < v
    <3>1. m \in J /\ \A e \in J : e <= m
      BY <1>5, Bornes
    <3> HIDE DEF m
    <3>2. m \in Int /\ m <= v /\ m # v
      BY <1>5, <3>1
    <3> QED
      BY <3>1, <3>2
  <2> HIDE DEF m
  <2>2. Derniers(J) = {m}
    <3>1. m \in Derniers(J)
      BY <2>1 DEF Derniers
    <3>2. ASSUME NEW d \in Derniers(J)
          PROVE  d = m
      <4>1. d \in J /\ m <= d
        BY <2>1 DEF Derniers
      <4>2. d \in Int /\ d <= m
        BY <2>1, <4>1
      <4> QED
        BY <2>1, <4>1, <4>2
    <3> QED
      BY <3>1, <3>2
  <2>3. ASSUME NEW a \in J, NEW b \in J
        PROVE  <<a, b>> \in Voisins(J \cup {v}) <=> <<a, b>> \in W
    <3>1. ~(a < v /\ v < b)
      OBVIOUS
    <3> QED
      BY <3>1 DEF Voisins
  <2>4. \A a \in J \cup {v} : <<v, a>> \notin Voisins(J \cup {v})
    BY DEF Voisins, INTERVALLE_MENSUEL
  <2>5. \A a \in J : <<a, v>> \in Voisins(J \cup {v}) <=> a = m /\ v - m \in INTERVALLE_MENSUEL
    <3> TAKE a \in J
    <3>1. CASE a = m
      <4>1. \A f \in J \cup {v} : ~(m < f /\ f < v)
        BY <2>1
      <4> QED
        BY <2>1, <3>1, <4>1 DEF Voisins
    <3>2. CASE a # m
      <4>1. a < m /\ m < v
        BY <2>1, <3>2
      <4> QED
        BY <2>1, <3>2, <4>1 DEF Voisins
    <3> QED
      BY <3>1, <3>2
  <2>6. Voisins(J \cup {v}) = W \cup {p \in {<<m, v>>} : v - m \in INTERVALLE_MENSUEL}
    <3>1. /\ Voisins(J \cup {v}) \subseteq (J \cup {v}) \X (J \cup {v})
          /\ W \subseteq J \X J
      BY DEF Voisins
    <3>2. ASSUME NEW a \in J \cup {v}, NEW b \in J \cup {v}
          PROVE  <<a, b>> \in Voisins(J \cup {v})
                   <=> <<a, b>> \in W \/ (a = m /\ b = v /\ v - m \in INTERVALLE_MENSUEL)
      <4>1. CASE a \in J /\ b \in J
        <5>1. b # v
          BY <1>5, <4>1
        <5> QED
          BY <2>3, <4>1, <5>1
      <4>2. CASE a = v
        <5>1. <<a, b>> \notin W /\ a # m
          BY <1>5, <2>1, <3>1, <4>2
        <5> QED
          BY <2>4, <4>2, <5>1
      <4>3. CASE a \in J /\ b = v
        <5>1. <<a, b>> \notin W
          BY <1>5, <3>1, <4>3
        <5> QED
          BY <2>5, <4>3, <5>1
      <4> QED
        BY <4>1, <4>2, <4>3
    <3> DEFINE K == J \cup {v}
               U == W \cup {p \in {<<m, v>>} : v - m \in INTERVALLE_MENSUEL}
    <3>3. U \subseteq K \X K
      BY <2>1, <3>1
    <3>4. ASSUME NEW a \in K, NEW b \in K
          PROVE  <<a, b>> \in Voisins(K) <=> <<a, b>> \in U
      <4>1. <<a, b>> \in U <=> <<a, b>> \in W \/ (a = m /\ b = v /\ v - m \in INTERVALLE_MENSUEL)
        <5> HIDE DEF W
        <5> QED
          OBVIOUS
      <4> QED
        BY <3>2, <4>1
    <3>5. Voisins(K) \subseteq K \X K
      BY <3>1
    <3> HIDE DEF K, U
    <3>6. Voisins(K) = U
      BY <3>3, <3>4, <3>5
    <3> QED
      BY <3>6 DEF K, U
  <2>7. <<m, v>> \notin W
    BY <1>5 DEF Voisins
  <2>8. CASE v - m \in INTERVALLE_MENSUEL
    <3>1. Voisins(J \cup {v}) = W \cup {<<m, v>>}
      BY <2>6, <2>8
    <3>2. Cardinality(W \cup {<<m, v>>}) = Cardinality(W) + 1
      BY <1>2, <2>7, FS_AddElement
    <3> QED
      BY <1>1, <1>2, <2>2, <2>8, <3>1, <3>2
  <2>9. CASE ~(v - m \in INTERVALLE_MENSUEL)
    <3>1. Voisins(J \cup {v}) = W
      BY <2>6, <2>9
    <3> QED
      BY <1>1, <1>2, <2>2, <2>9, <3>1
  <2> QED
    BY <2>8, <2>9
<1> QED
  BY <1>3, <1>4, <1>5

(* A row at least as recent as the others is followed as Suivre does.       *)
LEMMA SuiviUnDePlus ==
    ASSUME NEW T \in SUBSET Operations, NEW x \in Operations,
           \A p \in T : Date[p] <= Date[x],
           NEW vu, SuiviJuste(T, vu)
    PROVE  SuiviJuste(T \cup {x}, Suivre(x, vu))
<1> DEFINE J == JoursDe(T)
           v == Date[x]
<1>1. J \in SUBSET Int /\ v \in Int /\ (\A e \in J : e <= v) /\ IsFiniteSet(J)
  BY OccurrencesBienFormees DEF JoursDe, SuiviJuste
<1>2. JoursDe(T \cup {x}) = J \cup {v}
  BY DEF JoursDe
<1>3. IsFiniteSet(J \cup {v})
  BY <1>1, FS_AddElement
<1>4. vu.dernier = Derniers(J) /\ vu.mensuels = Cardinality(Voisins(J))
  BY DEF SuiviJuste
<1>5. Suivre(x, vu) = [dernier  |-> {v},
                       mensuels |-> Cardinality(Voisins(J))
                         + (IF \E d \in Derniers(J) : v - d \in INTERVALLE_MENSUEL THEN 1 ELSE 0)]
  BY <1>4 DEF Suivre
<1> HIDE DEF J, v
<1>6. Suivre(x, vu) = [dernier |-> Derniers(J \cup {v}), mensuels |-> Cardinality(Voisins(J \cup {v}))]
  BY <1>1, <1>5, VoisinsDePlus
<1> QED
  BY <1>2, <1>3, <1>6 DEF SuiviJuste

(* What the count of the windows of a part of the rows is made of.          *)
Comptes == [dernier : SUBSET Int, mensuels : Nat]

Compte(V, g) ==
    g = [T \in SUBSET V |-> IF T = {} THEN [dernier |-> {}, mensuels |-> 0]
                            ELSE Suivre(PlusRecent(T), g[T \ {PlusRecent(T)}])]

(* The function Suivi iterates over the parts of V exists. *)
LEMMA ComptePossible ==
    ASSUME NEW V \in SUBSET Operations, IsFiniteSet(V)
    PROVE  \E g : Compte(V, g)
<1> DEFINE ch == [T \in SUBSET V |-> PlusRecent(T)]
           base == [dernier |-> {}, mensuels |-> 0]
           pas == [x \in V |-> [vu \in Comptes |-> Suivre(x, vu)]]
<1>1. base \in Comptes
  BY DEF Comptes
<1>2. pas \in [V -> [Comptes -> Comptes]]
  <2>1. ASSUME NEW x \in V, NEW vu \in Comptes
        PROVE  Suivre(x, vu) \in Comptes
    <3>1. Date[x] \in Int /\ vu.mensuels \in Nat
      BY OccurrencesBienFormees DEF Comptes
    <3>2. vu.mensuels + (IF \E d \in vu.dernier : Date[x] - d \in INTERVALLE_MENSUEL THEN 1 ELSE 0) \in Nat
      BY <3>1
    <3> QED
      BY <3>1, <3>2 DEF Suivre, Comptes
  <2> QED
    BY <2>1
<1>3. \A T \in (SUBSET V) \ {{}} : ch[T] \in T /\ ch[T] = PlusRecent(T)
  <2> TAKE T \in (SUBSET V) \ {{}}
  <2>1. T \in SUBSET Operations /\ IsFiniteSet(T) /\ T # {}
    BY FS_Subset
  <2>2. PlusRecent(T) \in T
    BY <2>1, DerniereLigne
  <2> QED
    BY <2>2
<1>4. PICK g \in [SUBSET V -> Comptes] : Repliee(V, ch, base, pas, g)
  <2> HIDE DEF ch, base, pas
  <2> QED
    BY <1>1, <1>2, <1>3, RepliExiste
<1>5. ASSUME NEW T \in SUBSET V
      PROVE  g[T] = IF T = {} THEN base ELSE Suivre(PlusRecent(T), g[T \ {PlusRecent(T)}])
  <2>1. g[T] = IF T = {} THEN base ELSE pas[ch[T]][g[T \ {ch[T]}]]
    <3> HIDE DEF ch, base, pas
    <3> QED
      BY <1>4 DEF Repliee
  <2>2. CASE T # {}
    <3>1. ch[T] = PlusRecent(T) /\ PlusRecent(T) \in V /\ T \ {PlusRecent(T)} \in SUBSET V
      BY <1>3, <2>2
    <3>2. g[T \ {PlusRecent(T)}] \in Comptes
      BY <3>1
    <3>3. pas[PlusRecent(T)][g[T \ {PlusRecent(T)}]] = Suivre(PlusRecent(T), g[T \ {PlusRecent(T)}])
      BY <3>1, <3>2
    <3> HIDE DEF pas, ch, base
    <3> QED
      BY <2>1, <2>2, <3>1, <3>3
  <2>3. CASE T = {}
    BY <2>1, <2>3
  <2> QED
    BY <2>2, <2>3
<1>6. g = [T \in SUBSET V |-> g[T]]
  OBVIOUS
<1>7. g = [T \in SUBSET V |-> IF T = {} THEN base ELSE Suivre(PlusRecent(T), g[T \ {PlusRecent(T)}])]
  <2> HIDE DEF base
  <2> QED
    BY <1>5, <1>6
<1> QED
  BY <1>7 DEF Compte

(* Dates sorted, windows of two counted when they are a month wide          *)
(* (recurrence.rs:113-130): the count is that of the neighbouring days, for *)
(* any number of rows and of rows of the same day.                          *)
LEMMA SuiviCompte ==
    ASSUME NEW V \in SUBSET Operations, IsFiniteSet(V)
    PROVE  SuiviJuste(V, Suivi(V))
<1> DEFINE iter == CHOOSE f : f = [T \in SUBSET V |-> IF T = {} THEN [dernier |-> {}, mensuels |-> 0]
                                     ELSE Suivre(PlusRecent(T), f[T \ {PlusRecent(T)}])]
           P == {n \in Nat : \A T \in SUBSET V : Cardinality(T) = n => SuiviJuste(T, iter[T])}
<1>1. Suivi(V) = iter[V]
  BY DEF Suivi, MapThenFoldSet
<1>2. Compte(V, iter)
  BY ComptePossible DEF Compte
<1> HIDE DEF iter
<1>3. /\ iter[{}] = [dernier |-> {}, mensuels |-> 0]
      /\ \A T \in SUBSET V : T # {} => iter[T] = Suivre(PlusRecent(T), iter[T \ {PlusRecent(T)}])
  BY <1>2 DEF Compte
<1>4. \A T \in SUBSET V : T \in SUBSET Operations /\ IsFiniteSet(T) /\ Cardinality(T) \in Nat
  BY FS_Subset, FS_CardinalityType
<1>5. 0 \in P
  <2>1. SuiviJuste({}, [dernier |-> {}, mensuels |-> 0])
    <3>1. JoursDe({}) = {} /\ Derniers({}) = {} /\ Voisins({}) = {}
      BY DEF JoursDe, Derniers, Voisins
    <3>2. IsFiniteSet({}) /\ Cardinality({}) = 0
      BY FS_EmptySet
    <3> QED
      BY <3>1, <3>2 DEF SuiviJuste
  <2> QED
    BY <1>3, <1>4, <2>1, FS_EmptySet
<1>6. ASSUME NEW n \in Nat, n \in P
      PROVE  n + 1 \in P
  <2>1. ASSUME NEW S \in SUBSET V, Cardinality(S) = n + 1
        PROVE  SuiviJuste(S, iter[S])
    <3> DEFINE x == PlusRecent(S)
               T == S \ {x}
    <3>1. S # {}
      BY <1>4, <2>1, FS_EmptySet
    <3>2. x \in S /\ \A p \in S : Date[p] <= Date[x]
      BY <1>4, <3>1, DerniereLigne
    <3>3. T \in SUBSET V /\ Cardinality(T) = n
      BY <1>4, <2>1, <3>2, UnDeMoins
    <3>4. SuiviJuste(T, iter[T])
      BY <1>6, <3>3
    <3>5. iter[S] = Suivre(x, iter[T])
      BY <1>3, <3>1
    <3>6. x \in Operations /\ T \in SUBSET Operations /\ S = T \cup {x}
          /\ \A p \in T : Date[p] <= Date[x]
      BY <3>2
    <3> HIDE DEF x, T
    <3> QED
      BY <3>4, <3>5, <3>6, SuiviUnDePlus
  <2> QED
    BY <2>1
<1>7. Nat \subseteq P
  <2> HIDE DEF P
  <2> QED
    BY <1>5, <1>6, Recurrence
<1>8. Cardinality(V) \in P
  BY <1>4, <1>7
<1> QED
  BY <1>1, <1>8

(* The monthly test of a cluster (grappe_est_mensuelle, recurrence.rs:113)  *)
(* counts its couples of neighbouring days.                                 *)
LEMMA MensuelleJuste ==
    ASSUME NEW S \in SUBSET Operations, IsFiniteSet(S)
    PROVE  Mensuelle(S) <=> Cardinality(S) >= 3 /\ Cardinality(MoisConsecutifs(S)) >= 2
<1>1. Suivi(S).mensuels = Cardinality(Voisins(JoursDe(S)))
  BY SuiviCompte DEF SuiviJuste
<1>2. MoisConsecutifs(S) = Voisins(JoursDe(S))
  BY DEF MoisConsecutifs, Voisins, JoursDe
<1> QED
  BY <1>1, <1>2 DEF Mensuelle, OCCURRENCES_MINIMALES

-------------------------------------------------------------------------------
(* A finite set of amounts has one anchoring: the smallest amount that two  *)
(* of them would disagree on is reached from a smaller one in both.         *)
LEMMA AncrageUnique ==
    ASSUME NEW S \in SUBSET Operations, IsFiniteSet(S),
           NEW A, NEW B, Ancrage(A, S), Ancrage(B, S)
    PROVE  A = B
<1> DEFINE Propre(o) == (Montant[o] \in A) # (Montant[o] \in B)
           D == {o \in S : Propre(o)}
<1>1. \A o \in S : Montant[o] \in Int
  BY OccurrencesBienFormees
<1>2. A \subseteq {Montant[o] : o \in S} /\ B \subseteq {Montant[o] : o \in S}
  BY DEF Ancrage
<1>3. SUFFICES ASSUME D # {} PROVE FALSE
  <2> SUFFICES ASSUME D = {} PROVE A = B
    OBVIOUS
  <2>1. \A o \in S : Montant[o] \in A <=> Montant[o] \in B
    OBVIOUS
  <2> QED
    BY <1>2, <2>1
<1>4. PICK x \in D : \A y \in D : Montant[x] <= Montant[y]
  <2> DEFINE h == [o \in S |-> -Montant[o]]
  <2>1. \A o \in D : h[o] \in Int
    BY <1>1
  <2>2. IsFiniteSet(D)
    BY FS_Subset
  <2>3. PICK x \in D : \A y \in D : h[y] <= h[x]
    <3> HIDE DEF h, D
    <3> QED
      BY <1>3, <2>1, <2>2, LePlusGrand
  <2>4. \A y \in D : Montant[x] <= Montant[y]
    <3> TAKE y \in D
    <3>1. -Montant[y] <= -Montant[x] /\ Montant[x] \in Int /\ Montant[y] \in Int
      BY <1>1, <2>3
    <3> QED
      BY <3>1
  <2> QED
    BY <2>4
<1>5. ASSUME NEW X, NEW Y, Ancrage(X, S), Ancrage(Y, S), Montant[x] \in X, Montant[x] \notin Y,
             \A o \in S : Montant[o] < Montant[x] => (Montant[o] \in X <=> Montant[o] \in Y)
      PROVE  FALSE
  <2>1. PICK b \in Y : Montant[x] \in b .. b + TOLERANCE_MONTANT_CENTS
    BY <1>5 DEF Ancrage
  <2>2. PICK o \in S : b = Montant[o]
    BY <1>5, <2>1 DEF Ancrage
  <2>3. b \in Int /\ Montant[x] \in Int /\ b # Montant[x]
    BY <1>1, <1>5, <2>1, <2>2
  <2>4. b < Montant[x] /\ Montant[x] <= b + 100
    BY <2>1, <2>3 DEF TOLERANCE_MONTANT_CENTS
  <2>5. b \in X
    BY <1>5, <2>1, <2>2, <2>4
  <2>6. Montant[x] > b + 100
    BY <1>5, <2>4, <2>5 DEF Ancrage, TOLERANCE_MONTANT_CENTS
  <2> QED
    BY <2>3, <2>4, <2>6
<1>6. \A o \in S : Montant[o] < Montant[x] => (Montant[o] \in A <=> Montant[o] \in B)
  <2> SUFFICES ASSUME NEW o \in S, Montant[o] < Montant[x], Propre(o)
               PROVE  FALSE
    OBVIOUS
  <2>1. Montant[x] <= Montant[o]
    BY <1>4
  <2> QED
    BY <1>1, <2>1
<1>7. CASE Montant[x] \in A
  BY <1>5, <1>6, <1>7
<1>8. CASE Montant[x] \in B
  BY <1>5, <1>6, <1>8
<1> QED
  BY <1>4, <1>7, <1>8

(* The anchors of the definition are the amounts clusters are kept under.   *)
LEMMA AncresDesGrappes ==
    ASSUME NEW S \in SUBSET Operations, IsFiniteSet(S)
    PROVE  Ancres(S) = DOMAIN Grappes(S)
<1> DEFINE A == DOMAIN Grappes(S)
           M == {Montant[o] : o \in S}
           Choix(B) == /\ \A x \in M : \E a \in B : x \in a .. a + TOLERANCE_MONTANT_CENTS
                       /\ \A a, b \in B : a < b => b > a + TOLERANCE_MONTANT_CENTS
<1>1. Ancrage(A, S)
  BY GrappesGroupees DEF Groupees
<1>2. \A B \in SUBSET M : Choix(B) <=> Ancrage(B, S)
  BY DEF Ancrage
<1>3. A \in SUBSET M
  BY <1>1 DEF Ancrage
<1>4. Ancres(S) = CHOOSE B \in SUBSET M : Choix(B)
  BY DEF Ancres
<1> HIDE DEF A, M, Choix
<1>5. Ancres(S) \in SUBSET M /\ Choix(Ancres(S))
  BY <1>1, <1>2, <1>3, <1>4
<1>6. Ancrage(Ancres(S), S)
  BY <1>2, <1>5
<1> QED
  BY <1>1, <1>6, AncrageUnique DEF A

(* The rows alike of a row are its cluster: it is within reach of one       *)
(* anchor only.                                                             *)
LEMMA SemblablesGroupes ==
    ASSUME NEW V \in SUBSET Operations, IsFiniteSet(V), NEW o \in V
    PROVE  LET G == Grappes({p \in V : Marchand[p] = Marchand[o]})
           IN  /\ \E a \in DOMAIN G : o \in G[a]
               /\ \A a \in DOMAIN G : o \in G[a] => G[a] = Semblables(o, V)
               /\ Semblables(o, V) \in SUBSET Operations /\ IsFiniteSet(Semblables(o, V))
<1> DEFINE S == {p \in V : Marchand[p] = Marchand[o]}
           G == Grappes(S)
           A == DOMAIN G
           R == Semblables(o, V)
<1>1. S \in SUBSET Operations /\ IsFiniteSet(S) /\ o \in S
  BY FS_Subset
<1>2. Ancrage(A, S) /\ \A a \in A : G[a] = Portee(S, a)
  <2> HIDE DEF S
  <2> QED
    BY <1>1, GrappesGroupees DEF Groupees
<1>3. Ancres(S) = A
  <2> HIDE DEF S
  <2> QED
    BY <1>1, AncresDesGrappes
<1>4. R = {p \in S : \E a \in A : {Montant[o], Montant[p]} \subseteq a .. a + TOLERANCE_MONTANT_CENTS}
  <2>1. R = {p \in S : \E a \in Ancres(S) : {Montant[o], Montant[p]} \subseteq a .. a + TOLERANCE_MONTANT_CENTS}
    BY DEF Semblables
  <2> HIDE DEF S, A, R
  <2> QED
    BY <1>3, <2>1
<1>5. R \in SUBSET Operations /\ IsFiniteSet(R)
  <2>1. R \in SUBSET S
    BY <1>4
  <2> HIDE DEF S, R
  <2> QED
    BY <1>1, <2>1, FS_Subset
<1> HIDE DEF S, G, A, R
<1>6. \E a \in A : o \in G[a]
  BY <1>1, <1>2 DEF Ancrage, Portee
<1>7. ASSUME NEW a \in A, o \in G[a]
      PROVE  G[a] = R
  <2>1. Montant[o] \in a .. a + TOLERANCE_MONTANT_CENTS /\ G[a] = Portee(S, a)
    BY <1>2, <1>7 DEF Portee
  <2>2. \A p \in Operations : Montant[p] \in Int
    BY OccurrencesBienFormees
  <2>3. A \in SUBSET Int
    BY <1>1, <1>2, <2>2 DEF Ancrage
  <2>4. ASSUME NEW b \in A, Montant[o] \in b .. b + TOLERANCE_MONTANT_CENTS
        PROVE  b = a
    <3>1. a \in Int /\ b \in Int /\ Montant[o] \in Int
      BY <1>1, <2>2, <2>3
    <3>2. a <= Montant[o] /\ Montant[o] <= a + 100 /\ b <= Montant[o] /\ Montant[o] <= b + 100
      BY <2>1, <2>4, <3>1 DEF TOLERANCE_MONTANT_CENTS
    <3>3. (a < b => b > a + 100) /\ (b < a => a > b + 100)
      BY <1>2 DEF Ancrage, TOLERANCE_MONTANT_CENTS
    <3> QED
      BY <3>1, <3>2, <3>3
  <2>5. \A p \in S : (\E b \in A : {Montant[o], Montant[p]} \subseteq b .. b + TOLERANCE_MONTANT_CENTS)
                       <=> Montant[p] \in a .. a + TOLERANCE_MONTANT_CENTS
    BY <2>1, <2>4
  <2> QED
    BY <1>4, <2>1, <2>5 DEF Portee
<1> QED
  BY <1>5, <1>6, <1>7 DEF S, G, A, R

(* detecter_recurrences (recurrence.rs:56-77) finds the monthly operations  *)
(* of the definition, for every finite set of operations: neither the order *)
(* of the rows nor rows of the same amount or day change what it finds.     *)
THEOREM DetectionToujoursJuste ==
    ASSUME NEW V \in SUBSET Operations, IsFiniteSet(V)
    PROVE  DetecterRecurrences(V) = MensuellesDe(V)
<1>1. ASSUME NEW o \in V
      PROVE  o \in DetecterRecurrences(V) <=> o \in MensuellesDe(V)
  <2> DEFINE G == Grappes({p \in V : Marchand[p] = Marchand[o]})
             R == Semblables(o, V)
  <2>1. /\ \E a \in DOMAIN G : o \in G[a]
        /\ \A a \in DOMAIN G : o \in G[a] => G[a] = R
        /\ R \in SUBSET Operations /\ IsFiniteSet(R)
    BY SemblablesGroupes
  <2>2. o \in DetecterRecurrences(V) <=> \E a \in DOMAIN G : Mensuelle(G[a]) /\ o \in G[a]
    BY DEF DetecterRecurrences
  <2>3. o \in MensuellesDe(V) <=> Cardinality(R) >= 3 /\ Cardinality(MoisConsecutifs(R)) >= 2
    BY DEF MensuellesDe
  <2> HIDE DEF G, R
  <2>4. Mensuelle(R) <=> Cardinality(R) >= 3 /\ Cardinality(MoisConsecutifs(R)) >= 2
    BY <2>1, MensuelleJuste
  <2> QED
    BY <2>1, <2>2, <2>3, <2>4
<1>2. DetecterRecurrences(V) \subseteq V /\ MensuellesDe(V) \subseteq V
  BY DEF DetecterRecurrences, MensuellesDe
<1> QED
  BY <1>1, <1>2

-------------------------------------------------------------------------------
(* The worker: what the SELECT returned, what was detected and what is      *)
(* marked, as long as nothing has changed since.                            *)
Comptees == presentes \ (internes \cup SansDate)

Marquage ==
    /\ presentes \in SUBSET Operations /\ IsFiniteSet(presentes)
    /\ exact /\ phase \in {"remise", "marquage"} => detectees = DetecterRecurrences(Comptees)
    /\ exact /\ phase = "marquage" => recurrents = {}
    /\ exact /\ phase = "repos" => recurrents = DetecterRecurrences(Comptees)

(* Nothing is stored and nothing marked at first. *)
LEMMA MarquageInit == InitRecurrences => Marquage
<1> SUFFICES ASSUME InitRecurrences
             PROVE  Marquage
  OBVIOUS
<1>1. presentes = {} /\ Comptees = {} /\ recurrents = {} /\ phase = "repos"
  BY DEF InitRecurrences, Comptees
<1>2. DetecterRecurrences({}) = {}
  BY DEF DetecterRecurrences
<1> QED
  BY <1>1, <1>2, FS_EmptySet DEF Marquage

(* A statement of the worker or a request keeps it.                         *)
LEMMA MarquageGarde ==
    ASSUME Marquage, [NextRecurrences]_varsRecurrences
    PROVE  Marquage'
<1>1. ASSUME NEW o \in Operations, Inserer(o)
      PROVE  Marquage'
  <2>1. presentes' = presentes \cup {o} /\ exact' = FALSE
    BY <1>1 DEF Inserer
  <2>2. IsFiniteSet(presentes')
    BY <2>1, FS_AddElement DEF Marquage
  <2> QED
    BY <2>1, <2>2 DEF Marquage
<1>2. ASSUME NEW o \in Operations, Reclasser(o)
      PROVE  Marquage'
  BY <1>2 DEF Reclasser, Marquage
<1>3. CASE FinInsertion
  BY <1>3 DEF FinInsertion, Marquage
<1>4. CASE Lire
  <2>1. detectees' = DetecterRecurrences(Comptees) /\ Comptees' = Comptees /\ phase' = "remise" /\ presentes' = presentes
    BY <1>4 DEF Lire, Comptees
  <2> QED
    BY <2>1 DEF Marquage
<1>5. CASE Remettre
  <2>1. /\ detectees' = detectees /\ Comptees' = Comptees /\ phase = "remise" /\ phase' = "marquage"
        /\ presentes' = presentes /\ exact' = exact /\ recurrents' = {}
    BY <1>5 DEF Remettre, Comptees
  <2> QED
    BY <2>1 DEF Marquage
<1>6. CASE Marquer
  <2>1. /\ recurrents' = recurrents \cup detectees /\ Comptees' = Comptees
        /\ phase = "marquage" /\ phase' = "repos" /\ presentes' = presentes /\ exact' = exact
    BY <1>6 DEF Marquer, Comptees
  <2> QED
    BY <2>1 DEF Marquage
<1>7. CASE Echouer
  BY <1>7 DEF Echouer, Marquage
<1>8. CASE UNCHANGED varsRecurrences
  <2>1. /\ detectees' = detectees /\ Comptees' = Comptees /\ phase' = phase
        /\ presentes' = presentes /\ exact' = exact /\ recurrents' = recurrents
    BY <1>8 DEF varsRecurrences, Comptees
  <2> QED
    BY <2>1 DEF Marquage
<1> QED
  BY <1>1, <1>2, <1>3, <1>4, <1>5, <1>6, <1>7, <1>8 DEF NextRecurrences

(* Between two synchronisations, if nothing has changed since the SELECT of *)
(* the last recalculation and no statement of it failed, the rows marked    *)
(* are exactly the monthly ones (recalculer_recurrences,                    *)
(* repository/bank_transactions.rs:522-547, domain/recurrence.rs): for      *)
(* every set of operations, labels, amounts and dates, and any number of    *)
(* insertions, failures and reclassifications.                              *)
THEOREM MarquesToujoursJustes == SpecRecurrences => []MarquesJustes
<1>1. Marquage /\ [NextRecurrences]_varsRecurrences => Marquage'
  BY MarquageGarde
<1>2. Marquage => MarquesJustes
  <2> SUFFICES ASSUME Marquage, phase = "repos", exact
               PROVE  recurrents = MensuellesDe(Comptees)
    BY DEF MarquesJustes, Comptees
  <2>1. Comptees \in SUBSET Operations /\ IsFiniteSet(Comptees)
    BY FS_Subset DEF Marquage, Comptees
  <2>2. recurrents = DetecterRecurrences(Comptees)
    BY DEF Marquage
  <2> QED
    BY <2>1, <2>2, DetectionToujoursJuste
<1> QED
  BY MarquageInit, <1>1, <1>2, PTL DEF SpecRecurrences

-------------------------------------------------------------------------------
(***************************************************************************)
(* The cleaning of labels: the three folds of libelle.rs, unfolded, and     *)
(* the name found again under what the bank puts around it.                 *)
(***************************************************************************)

(* A fold over a sequence of n values, one after another.                   *)
Pliee(n, base, pas, g) ==
    g = [T \in SUBSET (1 .. n) |-> IF T = {} THEN base ELSE pas[Max(T)][g[T \ {Max(T)}]]]

(* Such a fold exists, whatever the step. *)
LEMMA PliExiste ==
    ASSUME NEW n \in Nat, NEW A, NEW base \in A, NEW pas \in [1 .. n -> [A -> A]]
    PROVE  \E g \in [SUBSET (1 .. n) -> A] : Pliee(n, base, pas, g)
<1> DEFINE ch == [T \in SUBSET (1 .. n) |-> Max(T)]
<1>1. \A T \in (SUBSET (1 .. n)) \ {{}} : ch[T] = Max(T) /\ Max(T) \in T
  BY PlusGrand
<1>2. IsFiniteSet(1 .. n)
  BY FS_Interval
<1>3. PICK g \in [SUBSET (1 .. n) -> A] : Repliee(1 .. n, ch, base, pas, g)
  <2> HIDE DEF ch
  <2>1. \A T \in (SUBSET (1 .. n)) \ {{}} : ch[T] \in T
    BY <1>1
  <2> QED
    BY <2>1, <1>2, RepliExiste
<1>4. \A T \in SUBSET (1 .. n) : g[T] = IF T = {} THEN base ELSE pas[Max(T)][g[T \ {Max(T)}]]
  BY <1>1, <1>3 DEF Repliee
<1>5. g = [T \in SUBSET (1 .. n) |-> g[T]]
  BY <1>3
<1>6. g = [T \in SUBSET (1 .. n) |-> IF T = {} THEN base ELSE pas[Max(T)][g[T \ {Max(T)}]]]
  BY <1>4, <1>5
<1> QED
  BY <1>6 DEF Pliee

(* What holds at first and is kept up to n. *)
LEMMA JusquA ==
    ASSUME NEW n \in Nat, NEW P, 0 \in P, \A k \in Nat : k < n /\ k \in P => k + 1 \in P
    PROVE  \A k \in 0 .. n : k \in P
<1> DEFINE Q == {k \in Nat : k <= n => k \in P}
<1>1. 0 \in Q
  OBVIOUS
<1>2. \A k \in Nat : k \in Q => k + 1 \in Q
  OBVIOUS
<1>3. Nat \subseteq Q
  <2> HIDE DEF Q
  <2> QED
    BY <1>1, <1>2, Recurrence
<1> QED
  BY <1>3

(* The last position of the first ones. *)
LEMMA DernierePosition ==
    ASSUME NEW k \in Nat
    PROVE  Max(1 .. k + 1) = k + 1 /\ (1 .. k + 1) \ {k + 1} = 1 .. k
<1>1. k + 1 \in Nat /\ k + 1 \in 1 .. k + 1
  OBVIOUS
<1>2. Max(1 .. k + 1) \in 1 .. k + 1 /\ \A y \in 1 .. k + 1 : Max(1 .. k + 1) >= y
  <2>1. 1 .. k + 1 \in SUBSET (1 .. k + 1) /\ 1 .. k + 1 # {}
    BY <1>1
  <2> QED
    BY <1>1, <2>1, PlusGrand
<1>3. Max(1 .. k + 1) = k + 1
  BY <1>1, <1>2
<1>4. (1 .. k + 1) \ {k + 1} = 1 .. k
  OBVIOUS
<1> QED
  BY <1>3, <1>4

(* What follows the first words.                                            *)
LEMMA Suite ==
    ASSUME NEW M, NEW s \in Seq(M), NEW n \in 0 .. Len(s)
    PROVE  /\ Apres(s, n) \in Seq(M)
           /\ Len(Apres(s, n)) = Len(s) - n
           /\ \A k \in 1 .. Len(s) - n : Apres(s, n)[k] = s[n + k]
  BY DEF Apres

(* Words found one after another.                                           *)
Trouve(c, s, i) ==
    /\ i + Len(c) - 1 <= Len(s)
    /\ \A k \in 1 .. Len(c) : c[k] = s[i - 1 + k]

(* The words of c begin what is left of s from i on. *)
LEMMA TrouveIci ==
    ASSUME NEW M, NEW s \in Seq(M), NEW C, NEW c \in Seq(C), NEW i \in 1 .. Len(s)
    PROVE  IsPrefix(c, Apres(s, i - 1)) <=> Trouve(c, s, i)
<1> DEFINE t == Apres(s, i - 1)
<1>1. /\ t \in Seq(M)
      /\ Len(t) = Len(s) - (i - 1)
      /\ \A k \in 1 .. Len(s) - (i - 1) : t[k] = s[i - 1 + k]
  <2>1. i - 1 \in 0 .. Len(s)
    OBVIOUS
  <2> QED
    BY <2>1, Suite
<1> HIDE DEF t
<1>2. Len(s) \in Nat /\ Len(c) \in Nat
  OBVIOUS
<1>3. ASSUME Len(c) <= Len(t)
      PROVE  SubSeq(c, 1, Len(c)) = SubSeq(t, 1, Len(c)) <=> \A k \in 1 .. Len(c) : c[k] = t[k]
  <2>1. SubSeq(c, 1, Len(c)) = c
    OBVIOUS
  <2>2. /\ SubSeq(t, 1, Len(c)) \in Seq(M)
        /\ Len(SubSeq(t, 1, Len(c))) = Len(c)
        /\ \A k \in 1 .. Len(c) : SubSeq(t, 1, Len(c))[k] = t[k]
    BY <1>1, <1>2, <1>3
  <2> QED
    BY <2>1, <2>2
<1>4. IsPrefix(c, t) <=> Len(c) <= Len(t) /\ \A k \in 1 .. Len(c) : c[k] = t[k]
  BY <1>3 DEF IsPrefix
<1>5. Len(c) <= Len(t) => (\A k \in 1 .. Len(c) : c[k] = t[k]) <=> \A k \in 1 .. Len(c) : c[k] = s[i - 1 + k]
  BY <1>1, <1>2
<1>6. Len(c) <= Len(t) <=> i + Len(c) - 1 <= Len(s)
  BY <1>1, <1>2
<1> QED
  BY <1>4, <1>5, <1>6 DEF Trouve, t

(* The words without those found at i. *)
Sans(s, c, i) == SubSeq(s, 1, i - 1) \o Apres(s, i + Len(c) - 1)

Premiere(c, s, i) ==
    i \in 1 .. Len(s) /\ Trouve(c, s, i) /\ \A j \in 1 .. Len(s) : Trouve(c, s, j) => i <= j

(* retirer_toutes takes off the first occurrence, or nothing (libelle.rs:127). *)
LEMMA SansLaPremiere ==
    ASSUME NEW M, NEW s \in Seq(M), NEW C, NEW c \in Seq(C)
    PROVE  /\ (\A i \in 1 .. Len(s) : ~Trouve(c, s, i)) => RetirerUne(s, c) = s
           /\ \A i \in 1 .. Len(s) : Premiere(c, s, i) => RetirerUne(s, c) = Sans(s, c, i)
           /\ \/ \A i \in 1 .. Len(s) : ~Trouve(c, s, i)
              \/ \E i \in 1 .. Len(s) : Premiere(c, s, i)
<1> DEFINE debuts == {i \in 1 .. Len(s) : IsPrefix(c, Apres(s, i - 1))}
<1>1. debuts = {i \in 1 .. Len(s) : Trouve(c, s, i)}
  BY TrouveIci
<1>2. RetirerUne(s, c) = IF debuts = {} THEN s
                         ELSE LET i == CHOOSE i \in debuts : \A j \in debuts : i <= j
                              IN  SubSeq(s, 1, i - 1) \o Apres(s, i + Len(c) - 1)
  BY DEF RetirerUne
<1> HIDE DEF debuts
<1>3. ASSUME NEW i \in 1 .. Len(s), Premiere(c, s, i)
      PROVE  RetirerUne(s, c) = Sans(s, c, i)
  <2>1. i \in debuts /\ \A j \in debuts : i <= j
    BY <1>1, <1>3 DEF Premiere
  <2>2. (CHOOSE j \in debuts : \A k \in debuts : j <= k) = i
    <3>1. \A j \in debuts : j \in Int
      BY <1>1
    <3>2. \A j \in debuts : (\A k \in debuts : j <= k) => j = i
      BY <2>1, <3>1
    <3> QED
      BY <2>1, <3>2
  <2> QED
    BY <1>2, <2>1, <2>2 DEF Sans
<1>4. ASSUME debuts # {}
      PROVE  \E i \in 1 .. Len(s) : Premiere(c, s, i)
  <2>1. debuts \in SUBSET Nat
    BY <1>1
  <2>2. PICK i \in debuts : \A j \in debuts : i <= j
    BY <1>4, <2>1, PlusPetit
  <2> QED
    BY <1>1, <2>2 DEF Premiere
<1> QED
  BY <1>1, <1>2, <1>3, <1>4

(* It is shorter, of the same kind. *)
LEMMA PlusCourte ==
    ASSUME NEW M, NEW s \in Seq(M), NEW C, NEW c \in Seq(C), NEW i \in 1 .. Len(s),
           Len(c) >= 1, Trouve(c, s, i)
    PROVE  /\ Sans(s, c, i) \in Seq(M)
           /\ Len(Sans(s, c, i)) = Len(s) - Len(c)
<1>1. /\ SubSeq(s, 1, i - 1) \in Seq(M)
      /\ Len(SubSeq(s, 1, i - 1)) = i - 1
  OBVIOUS
<1>2. i + Len(c) - 1 \in 0 .. Len(s)
  BY DEF Trouve
<1>3. /\ Apres(s, i + Len(c) - 1) \in Seq(M)
      /\ Len(Apres(s, i + Len(c) - 1)) = Len(s) - (i + Len(c) - 1)
  BY <1>2, Suite
<1> QED
  BY <1>1, <1>3 DEF Sans

(* What is left is a sequence of the same words. *)
LEMMA RetirerUneSuite ==
    ASSUME NEW M, NEW s \in Seq(M), NEW C, NEW c \in Seq(C), Len(c) >= 1
    PROVE  RetirerUne(s, c) \in Seq(M)
<1>1. CASE \A i \in 1 .. Len(s) : ~Trouve(c, s, i)
  BY <1>1, SansLaPremiere
<1>2. CASE \E i \in 1 .. Len(s) : Premiere(c, s, i)
  <2>1. PICK i \in 1 .. Len(s) : Premiere(c, s, i)
    BY <1>2
  <2>2. RetirerUne(s, c) = Sans(s, c, i)
    BY <2>1, SansLaPremiere
  <2>3. Trouve(c, s, i)
    BY <2>1 DEF Premiere
  <2> QED
    BY <2>2, <2>3, PlusCourte
<1> QED
  BY <1>1, <1>2, SansLaPremiere

(* The three folds of the cleaning, word after word or title after title.   *)
(* filtrer_tokens keeps the words that are not volatile (libelle.rs:150).   *)
Filtree(s, f) ==
    /\ f[0] = <<>>
    /\ \A k \in Nat : k < Len(s) =>
          f[k + 1] = IF EstVolatil(s[k + 1]) THEN f[k] ELSE Append(f[k], s[k + 1])

(* A word kept is a word of the label. *)
LEMMA UnMotDePlus ==
    ASSUME NEW M, NEW u \in Seq(M), NEW mot \in M
    PROVE  Append(u, mot) \in Seq(M)
  OBVIOUS

(* The fold of filtrer_tokens, word after word. *)
LEMMA GardesDeplies ==
    ASSUME NEW M, NEW s \in Seq(M)
    PROVE  \E f : Filtree(s, f) /\ Gardes(s) = f[Len(s)]
<1> DEFINE n == Len(s)
           plus(u, mot) == IF EstVolatil(mot) THEN u ELSE Append(u, mot)
           iter == CHOOSE g : g = [S \in SUBSET (DOMAIN s) |->
                     IF S = {} THEN <<>> ELSE plus(g[S \ {Max(S)}], s[Max(S)])]
           pas == [i \in 1 .. n |-> [u \in Seq(M) |-> plus(u, s[i])]]
<1>1. n \in Nat /\ DOMAIN s = 1 .. n
  OBVIOUS
<1>2. Gardes(s) = iter[DOMAIN s]
  BY DEF Gardes, FoldLeft, MapThenFoldSet
<1>3. pas \in [1 .. n -> [Seq(M) -> Seq(M)]]
  <2> HIDE DEF iter
  <2>1. \A u \in Seq(M), mot \in M : plus(u, mot) \in Seq(M)
    <3> TAKE u \in Seq(M), mot \in M
    <3>1. Append(u, mot) \in Seq(M)
      BY UnMotDePlus
    <3> QED
      BY <3>1, Zenon
  <2>2. \A i \in 1 .. n : s[i] \in M
    OBVIOUS
  <2> HIDE DEF plus
  <2> QED
    BY <2>1, <2>2
<1>4. \A i \in 1 .. n, u \in Seq(M) : pas[i][u] = plus(u, s[i])
  OBVIOUS
<1> HIDE DEF pas, plus, n
<1>5. PICK g \in [SUBSET (1 .. n) -> Seq(M)] : Pliee(n, <<>>, pas, g)
  <2>1. <<>> \in Seq(M)
    OBVIOUS
  <2> QED
    BY <1>1, <1>3, <2>1, PliExiste
<1>6. \A S \in SUBSET (1 .. n) :
         g[S] = IF S = {} THEN <<>> ELSE plus(g[S \ {Max(S)}], s[Max(S)])
  <2> TAKE S \in SUBSET (1 .. n)
  <2>1. CASE S = {}
    BY <1>5, <2>1 DEF Pliee
  <2>2. CASE S # {}
    <3>1. Max(S) \in 1 .. n
      BY <1>1, <2>2, PlusGrand
    <3>2. g[S \ {Max(S)}] \in Seq(M)
      BY <1>5
    <3>3. g[S] = pas[Max(S)][g[S \ {Max(S)}]]
      BY <1>5, <2>2 DEF Pliee
    <3> QED
      BY <2>2, <3>1, <3>2, <3>3, <1>4
  <2> QED
    BY <2>1, <2>2
<1>7. g = [S \in SUBSET (DOMAIN s) |-> IF S = {} THEN <<>> ELSE plus(g[S \ {Max(S)}], s[Max(S)])]
  <2>1. g = [S \in SUBSET (1 .. n) |-> g[S]]
    BY <1>5
  <2> QED
    BY <2>1, <1>1, <1>6
<1>8. iter = [S \in SUBSET (DOMAIN s) |-> IF S = {} THEN <<>> ELSE plus(iter[S \ {Max(S)}], s[Max(S)])]
  BY <1>7
<1> HIDE DEF iter
<1> DEFINE f == [k \in Nat |-> iter[1 .. k]]
<1>9. f[0] = <<>>
  <2>1. 1 .. 0 = {} /\ {} \in SUBSET (DOMAIN s) /\ 0 \in Nat
    OBVIOUS
  <2> QED
    BY <2>1, <1>8
<1>10. ASSUME NEW k \in Nat, k < Len(s)
       PROVE  f[k + 1] = IF EstVolatil(s[k + 1]) THEN f[k] ELSE Append(f[k], s[k + 1])
  <2>1. k + 1 \in Nat /\ k + 1 \in 1 .. k + 1 /\ 1 .. k + 1 \in SUBSET (DOMAIN s)
    BY <1>1, <1>10 DEF n
  <2>2. iter[1 .. k + 1] = plus(iter[(1 .. k + 1) \ {Max(1 .. k + 1)}], s[Max(1 .. k + 1)])
    BY <2>1, <1>8
  <2>3. iter[1 .. k + 1] = plus(iter[1 .. k], s[k + 1])
    BY <2>2, DernierePosition
  <2> QED
    BY <2>1, <2>3 DEF plus
<1>11. Gardes(s) = f[Len(s)]
  BY <1>1, <1>2
<1> HIDE DEF f
<1>12. Filtree(s, f)
  BY <1>9, <1>10 DEF Filtree
<1> QED
  BY <1>11, <1>12

(* retirer_civilites takes one title off as many times as there are words   *)
(* to begin with.                                                           *)
Retiree(s, c, f) ==
    f[0] = s /\ \A k \in Nat : k < Len(s) => f[k + 1] = RetirerUne(f[k], c)

(* The fold of retirer_civilites for one title. *)
LEMMA ToutesDepliees ==
    ASSUME NEW M, NEW s \in Seq(M), NEW C, NEW c \in Seq(C), Len(c) >= 1
    PROVE  \E f : Retiree(s, c, f) /\ RetirerToutes(s, c) = f[Len(s)]
<1> DEFINE n == Len(s)
           iter == CHOOSE g : g = [S \in SUBSET (1 .. n) |->
                     IF S = {} THEN s ELSE RetirerUne(g[S \ {Max(S)}], c)]
           pas == [i \in 1 .. n |-> [u \in Seq(M) |-> RetirerUne(u, c)]]
<1>1. n \in Nat /\ DOMAIN [i \in 1 .. n |-> i] = 1 .. n
  OBVIOUS
<1>2. RetirerToutes(s, c) = iter[1 .. n]
  BY <1>1 DEF RetirerToutes, FoldLeft, MapThenFoldSet
<1>3. pas \in [1 .. n -> [Seq(M) -> Seq(M)]]
  <2> HIDE DEF iter
  <2>1. \A u \in Seq(M) : RetirerUne(u, c) \in Seq(M)
    BY RetirerUneSuite
  <2> QED
    BY <2>1
<1>4. \A i \in 1 .. n, u \in Seq(M) : pas[i][u] = RetirerUne(u, c)
  OBVIOUS
<1> HIDE DEF pas, n
<1>5. PICK g \in [SUBSET (1 .. n) -> Seq(M)] : Pliee(n, s, pas, g)
  BY <1>1, <1>3, PliExiste
<1>6. \A S \in SUBSET (1 .. n) :
         g[S] = IF S = {} THEN s ELSE RetirerUne(g[S \ {Max(S)}], c)
  <2> TAKE S \in SUBSET (1 .. n)
  <2>1. CASE S = {}
    BY <1>5, <2>1 DEF Pliee
  <2>2. CASE S # {}
    <3>1. Max(S) \in 1 .. n
      BY <1>1, <2>2, PlusGrand
    <3>2. g[S \ {Max(S)}] \in Seq(M)
      BY <1>5
    <3>3. g[S] = pas[Max(S)][g[S \ {Max(S)}]]
      BY <1>5, <2>2 DEF Pliee
    <3> QED
      BY <2>2, <3>1, <3>2, <3>3, <1>4
  <2> QED
    BY <2>1, <2>2
<1>7. g = [S \in SUBSET (1 .. n) |-> IF S = {} THEN s ELSE RetirerUne(g[S \ {Max(S)}], c)]
  <2>1. g = [S \in SUBSET (1 .. n) |-> g[S]]
    BY <1>5
  <2> QED
    BY <2>1, <1>6
<1>8. iter = [S \in SUBSET (1 .. n) |-> IF S = {} THEN s ELSE RetirerUne(iter[S \ {Max(S)}], c)]
  BY <1>7
<1> HIDE DEF iter
<1> DEFINE f == [k \in Nat |-> iter[1 .. k]]
<1>9. f[0] = s
  <2>1. 1 .. 0 = {} /\ {} \in SUBSET (1 .. n) /\ 0 \in Nat
    OBVIOUS
  <2> QED
    BY <2>1, <1>8
<1>10. ASSUME NEW k \in Nat, k < Len(s)
       PROVE  f[k + 1] = RetirerUne(f[k], c)
  <2>1. k + 1 \in Nat /\ k + 1 \in 1 .. k + 1 /\ 1 .. k + 1 \in SUBSET (1 .. n)
    BY <1>1, <1>10 DEF n
  <2>2. iter[1 .. k + 1] = RetirerUne(iter[(1 .. k + 1) \ {Max(1 .. k + 1)}], c)
    BY <2>1, <1>8
  <2>3. iter[1 .. k + 1] = RetirerUne(iter[1 .. k], c)
    BY <2>2, DernierePosition
  <2> QED
    BY <2>1, <2>3
<1>11. RetirerToutes(s, c) = f[Len(s)]
  BY <1>1, <1>2 DEF n
<1> HIDE DEF f
<1>12. Retiree(s, c, f)
  BY <1>9, <1>10 DEF Retiree
<1> QED
  BY <1>11, <1>12

Absente(c, s) == \A i \in 1 .. Len(s) : ~Trouve(c, s, i)

(* After as many times as there were words, the title is gone.              *)
LEMMA RetireeJusquAuBout ==
    ASSUME NEW M, NEW s \in Seq(M), NEW C, NEW c \in Seq(C), Len(c) >= 1,
           NEW f, Retiree(s, c, f)
    PROVE  \A k \in 0 .. Len(s) : f[k] \in Seq(M) /\ (Absente(c, f[k]) \/ Len(f[k]) <= Len(s) - k)
<1> DEFINE P == {k \in 0 .. Len(s) : f[k] \in Seq(M) /\ (Absente(c, f[k]) \/ Len(f[k]) <= Len(s) - k)}
<1>1. Len(s) \in Nat /\ Len(c) \in Nat
  OBVIOUS
<1>2. 0 \in P
  BY <1>1 DEF Retiree
<1>3. ASSUME NEW k \in Nat, k < Len(s), k \in P
      PROVE  k + 1 \in P
  <2> DEFINE t == f[k]
  <2>1. t \in Seq(M) /\ (Absente(c, t) \/ Len(t) <= Len(s) - k)
    BY <1>3
  <2>2. f[k + 1] = RetirerUne(t, c)
    BY <1>3 DEF Retiree
  <2> HIDE DEF t
  <2>3. CASE Absente(c, t)
    <3>1. RetirerUne(t, c) = t
      BY <2>1, <2>3, SansLaPremiere DEF Absente
    <3> QED
      BY <1>1, <1>3, <2>1, <2>2, <2>3, <3>1
  <2>4. CASE ~Absente(c, t)
    <3>1. PICK i \in 1 .. Len(t) : Premiere(c, t, i)
      BY <2>1, <2>4, SansLaPremiere DEF Absente
    <3>2. RetirerUne(t, c) = Sans(t, c, i) /\ Trouve(c, t, i)
      BY <2>1, <3>1, SansLaPremiere DEF Premiere
    <3>3. Sans(t, c, i) \in Seq(M) /\ Len(Sans(t, c, i)) = Len(t) - Len(c)
      BY <2>1, <3>2, PlusCourte
    <3>4. Len(t) \in Nat
      BY <2>1
    <3> QED
      BY <1>1, <1>3, <2>1, <2>2, <2>4, <3>2, <3>3, <3>4
  <2> QED
    BY <2>3, <2>4
<1>4. \A k \in 0 .. Len(s) : k \in P
  <2> HIDE DEF P
  <2> QED
    BY <1>1, <1>2, <1>3, JusquA
<1> QED
  BY <1>4

(* At the end of the fold the title is nowhere in the label. *)
LEMMA ToutesParties ==
    ASSUME NEW M, NEW s \in Seq(M), NEW C, NEW c \in Seq(C), Len(c) >= 1
    PROVE  RetirerToutes(s, c) \in Seq(M) /\ Absente(c, RetirerToutes(s, c))
<1>1. PICK f : Retiree(s, c, f) /\ RetirerToutes(s, c) = f[Len(s)]
  BY ToutesDepliees
<1>2. Len(s) \in 0 .. Len(s)
  OBVIOUS
<1>3. f[Len(s)] \in Seq(M) /\ (Absente(c, f[Len(s)]) \/ Len(f[Len(s)]) <= Len(s) - Len(s))
  BY <1>1, <1>2, RetireeJusquAuBout
<1>4. Len(f[Len(s)]) <= 0 => Absente(c, f[Len(s)])
  BY <1>3 DEF Absente
<1> QED
  BY <1>1, <1>3, <1>4

-------------------------------------------------------------------------------
(* A name between two sides, none of whose words is one of the title.       *)
Nom(n, c) == Len(n) >= 1 /\ \A i \in 1 .. Len(n), k \in 1 .. Len(c) : n[i] # c[k]

Autour(g, n, d) == g \o n \o d

(* The words of a name and of its two sides, at their places. *)
LEMMA MotsAutour ==
    ASSUME NEW M, NEW g \in Seq(M), NEW n \in Seq(M), NEW d \in Seq(M)
    PROVE  /\ Autour(g, n, d) \in Seq(M)
           /\ Len(Autour(g, n, d)) = Len(g) + Len(n) + Len(d)
           /\ \A i \in 1 .. Len(g) : Autour(g, n, d)[i] = g[i]
           /\ \A i \in 1 .. Len(n) : Autour(g, n, d)[Len(g) + i] = n[i]
           /\ \A i \in 1 .. Len(d) : Autour(g, n, d)[Len(g) + Len(n) + i] = d[i]
  BY DEF Autour

(* The title is found on one side or the other, never across the name.      *)
LEMMA TrouveDUnCote ==
    ASSUME NEW M, NEW g \in Seq(M), NEW n \in Seq(M), NEW d \in Seq(M),
           NEW C, NEW c \in Seq(C), Len(c) >= 1, Nom(n, c),
           NEW i \in 1 .. Len(Autour(g, n, d))
    PROVE  Trouve(c, Autour(g, n, d), i) <=>
              \/ i \in 1 .. Len(g) /\ Trouve(c, g, i)
              \/ /\ i - Len(g) - Len(n) \in 1 .. Len(d)
                 /\ Trouve(c, d, i - Len(g) - Len(n))
<1>0. /\ Len(Autour(g, n, d)) = Len(g) + Len(n) + Len(d)
      /\ \A j \in 1 .. Len(g) : Autour(g, n, d)[j] = g[j]
      /\ \A j \in 1 .. Len(n) : Autour(g, n, d)[Len(g) + j] = n[j]
      /\ \A j \in 1 .. Len(d) : Autour(g, n, d)[Len(g) + Len(n) + j] = d[j]
  BY DEF Autour
<1> DEFINE w == Autour(g, n, d)
           a == Len(g)
           b == Len(n)
           l == Len(c)
           e == Len(d)
<1>1. /\ Len(w) = a + b + e
      /\ \A j \in 1 .. a : w[j] = g[j]
      /\ \A j \in 1 .. b : w[a + j] = n[j]
      /\ \A j \in 1 .. e : w[a + b + j] = d[j]
  BY <1>0
<1>2. a \in Nat /\ b \in Nat /\ e \in Nat /\ l \in Nat /\ l >= 1 /\ b >= 1
  BY DEF Nom
<1>3. i \in 1 .. a + b + e
  BY <1>1
<1>4. \A j \in 1 .. b, k \in 1 .. l : n[j] # c[k]
  BY DEF Nom
<1> HIDE DEF w, a, b, l, e
<1>5. ASSUME i + l - 1 <= a
      PROVE  (\A k \in 1 .. l : c[k] = w[i - 1 + k]) <=> \A k \in 1 .. l : c[k] = g[i - 1 + k]
  <2>1. \A k \in 1 .. l : w[i - 1 + k] = g[i - 1 + k]
    BY <1>1, <1>2, <1>3, <1>5
  <2> QED
    BY <2>1
<1>6. ASSUME i > a + b, i + l - 1 <= a + b + e
      PROVE  (\A k \in 1 .. l : c[k] = w[i - 1 + k]) <=> \A k \in 1 .. l : c[k] = d[i - a - b - 1 + k]
  <2>1. \A k \in 1 .. l : w[i - 1 + k] = d[i - a - b - 1 + k]
    <3> TAKE k \in 1 .. l
    <3>1. i - a - b - 1 + k \in 1 .. e /\ a + b + (i - a - b - 1 + k) = i - 1 + k
      BY <1>2, <1>3, <1>6
    <3> QED
      BY <1>1, <3>1
  <2> QED
    BY <2>1
<1>7. ASSUME i <= a + b, i + l - 1 > a, i + l - 1 <= a + b + e
      PROVE  \E k \in 1 .. l : c[k] # w[i - 1 + k]
  <2>1. CASE i <= a
    <3>1. a + 1 - i + 1 \in 1 .. l /\ i - 1 + (a + 1 - i + 1) = a + 1 /\ 1 \in 1 .. b
      BY <1>2, <1>3, <1>7, <2>1
    <3>2. w[a + 1] = n[1]
      BY <1>1, <3>1
    <3>3. n[1] # c[a + 1 - i + 1]
      BY <1>4, <3>1
    <3> QED
      BY <3>1, <3>2, <3>3
  <2>2. CASE i > a
    <3>1. 1 \in 1 .. l /\ i - a \in 1 .. b /\ i - 1 + 1 = a + (i - a)
      BY <1>2, <1>3, <1>7, <2>2
    <3>2. w[a + (i - a)] = n[i - a]
      BY <1>1, <3>1
    <3>3. n[i - a] # c[1]
      BY <1>4, <3>1
    <3> QED
      BY <3>1, <3>2, <3>3
  <2>3. i <= a \/ i > a
    BY <1>2, <1>3
  <2> QED
    BY <2>1, <2>2, <2>3
<1>8. Trouve(c, w, i) <=> i + l - 1 <= a + b + e /\ \A k \in 1 .. l : c[k] = w[i - 1 + k]
  BY <1>1 DEF Trouve, l
<1>9. Trouve(c, g, i) <=> i + l - 1 <= a /\ \A k \in 1 .. l : c[k] = g[i - 1 + k]
  BY DEF Trouve, l, a
<1>10. Trouve(c, d, i - a - b) <=> i - a - b + l - 1 <= e /\ \A k \in 1 .. l : c[k] = d[i - a - b - 1 + k]
  BY DEF Trouve, l, e
<1>11. CASE i + l - 1 <= a
  <2>1. i \in 1 .. a /\ ~(i - a - b \in 1 .. e) /\ i + l - 1 <= a + b + e
    BY <1>2, <1>3, <1>11
  <2> QED
    BY <2>1, <1>5, <1>8, <1>9, <1>11 DEF w, a, b, e
<1>12. CASE i > a + b /\ i + l - 1 <= a + b + e
  <2>1. ~(i \in 1 .. a) /\ i - a - b \in 1 .. e /\ i - a - b + l - 1 <= e
    BY <1>2, <1>3, <1>12
  <2> QED
    BY <2>1, <1>6, <1>8, <1>10, <1>12 DEF w, a, b, e
<1>13. CASE i <= a + b /\ i + l - 1 > a
  <2>1. ~(i - a - b \in 1 .. e) /\ ~(i + l - 1 <= a)
    BY <1>2, <1>3, <1>13
  <2>2. ~Trouve(c, w, i)
    BY <1>7, <1>8, <1>13
  <2>3. ~Trouve(c, g, i)
    BY <2>1, <1>9
  <2> QED
    BY <2>1, <2>2, <2>3 DEF w, a, b, e
<1>14. CASE i > a + b /\ ~(i + l - 1 <= a + b + e)
  <2>1. ~(i \in 1 .. a) /\ ~(i - a - b + l - 1 <= e)
    BY <1>2, <1>3, <1>14
  <2>2. ~Trouve(c, w, i) /\ ~Trouve(c, d, i - a - b)
    BY <2>1, <1>8, <1>10, <1>14
  <2> QED
    BY <2>1, <2>2 DEF w, a, b, e
<1> QED
  BY <1>2, <1>3, <1>11, <1>12, <1>13, <1>14

(* Two sequences of the same words are the same. *)
LEMMA MemesMots ==
    ASSUME NEW M, NEW x \in Seq(M), NEW y \in Seq(M), Len(x) = Len(y),
           \A j \in 1 .. Len(x) : x[j] = y[j]
    PROVE  x = y
  OBVIOUS

(* The words of two sequences put end to end. *)
LEMMA BoutABout ==
    ASSUME NEW M, NEW u \in Seq(M), NEW v \in Seq(M)
    PROVE  /\ u \o v \in Seq(M)
           /\ Len(u \o v) = Len(u) + Len(v)
           /\ \A j \in 1 .. Len(u) : (u \o v)[j] = u[j]
           /\ \A j \in 1 .. Len(v) : (u \o v)[Len(u) + j] = v[j]
  OBVIOUS

(* The words left when an occurrence of c is taken off. *)
LEMMA MotsSans ==
    ASSUME NEW M, NEW s \in Seq(M), NEW c, Len(c) \in Nat, NEW i \in 1 .. Len(s),
           i + Len(c) - 1 <= Len(s)
    PROVE  /\ Sans(s, c, i) \in Seq(M)
           /\ Len(Sans(s, c, i)) = Len(s) - Len(c)
           /\ \A j \in 1 .. Len(s) - Len(c) :
                 Sans(s, c, i)[j] = IF j < i THEN s[j] ELSE s[j + Len(c)]
<1> DEFINE x == SubSeq(s, 1, i - 1)
           y == Apres(s, i + Len(c) - 1)
           l == Len(c)
<1>1. /\ x \in Seq(M)
      /\ Len(x) = i - 1
      /\ \A j \in 1 .. i - 1 : x[j] = s[j]
  OBVIOUS
<1>2. i + Len(c) - 1 \in 0 .. Len(s)
  OBVIOUS
<1>3. /\ y \in Seq(M)
      /\ Len(y) = Len(s) - (i + l - 1)
      /\ \A j \in 1 .. Len(s) - (i + l - 1) : y[j] = s[i + l - 1 + j]
  BY <1>2, Suite
<1>4. l \in Nat /\ Len(s) \in Nat /\ i + l - 1 <= Len(s)
  OBVIOUS
<1> HIDE DEF x, y, l
<1>5. /\ x \o y \in Seq(M)
      /\ Len(x \o y) = Len(s) - l
      /\ \A j \in 1 .. i - 1 : (x \o y)[j] = x[j]
      /\ \A j \in 1 .. Len(y) : (x \o y)[i - 1 + j] = y[j]
  <2>1. /\ x \o y \in Seq(M)
        /\ Len(x \o y) = Len(x) + Len(y)
        /\ \A j \in 1 .. Len(x) : (x \o y)[j] = x[j]
        /\ \A j \in 1 .. Len(y) : (x \o y)[Len(x) + j] = y[j]
    <3>1. x \in Seq(M) /\ y \in Seq(M)
      BY <1>1, <1>3
    <3> HIDE DEF y
    <3> QED
      BY <3>1, BoutABout
  <2>2. (i - 1) + (Len(s) - (i + l - 1)) = Len(s) - l
    BY <1>4
  <2> QED
    BY <1>1, <1>3, <2>1, <2>2
<1>6. ASSUME NEW j \in 1 .. Len(s) - l
      PROVE  (x \o y)[j] = IF j < i THEN s[j] ELSE s[j + l]
  <2>1. CASE j < i
    BY <1>1, <1>5, <2>1
  <2>2. CASE ~(j < i)
    <3>1. j - (i - 1) \in 1 .. Len(y) /\ i - 1 + (j - (i - 1)) = j /\ i + l - 1 + (j - (i - 1)) = j + l
      BY <1>3, <1>4, <2>2
    <3>2. (x \o y)[j] = y[j - (i - 1)]
      BY <1>5, <3>1
    <3>3. y[j - (i - 1)] = s[j + l]
      BY <1>3, <3>1
    <3> QED
      BY <2>2, <3>2, <3>3
  <2> QED
    BY <2>1, <2>2
<1>7. Sans(s, c, i) = x \o y
  BY DEF Sans, x, y
<1> QED
  BY <1>5, <1>6, <1>7 DEF l

(* Words taken off on the left of a name, or on the right of it.            *)
LEMMA SansAGauche ==
    ASSUME NEW M, NEW g \in Seq(M), NEW n \in Seq(M), NEW d \in Seq(M),
           NEW c, Len(c) \in Nat, NEW i \in 1 .. Len(g), i + Len(c) - 1 <= Len(g)
    PROVE  Sans(Autour(g, n, d), c, i) = Autour(Sans(g, c, i), n, d)
<1>0. \A x \in Seq(M) :
        /\ Autour(x, n, d) \in Seq(M)
        /\ Len(Autour(x, n, d)) = Len(x) + Len(n) + Len(d)
        /\ \A j \in 1 .. Len(x) : Autour(x, n, d)[j] = x[j]
        /\ \A j \in 1 .. Len(n) : Autour(x, n, d)[Len(x) + j] = n[j]
        /\ \A j \in 1 .. Len(d) : Autour(x, n, d)[Len(x) + Len(n) + j] = d[j]
  BY DEF Autour
<1>1. /\ Autour(g, n, d) \in Seq(M)
      /\ Len(Autour(g, n, d)) = Len(g) + Len(n) + Len(d)
      /\ \A j \in 1 .. Len(g) : Autour(g, n, d)[j] = g[j]
      /\ \A j \in 1 .. Len(n) : Autour(g, n, d)[Len(g) + j] = n[j]
      /\ \A j \in 1 .. Len(d) : Autour(g, n, d)[Len(g) + Len(n) + j] = d[j]
  BY DEF Autour
<1> DEFINE w == Autour(g, n, d)
           h == Sans(g, c, i)
           l == Len(c)
           a == Len(g)
           b == Len(n)
           e == Len(d)
<1>2. h \in Seq(M) /\ Len(h) = a - l /\ \A j \in 1 .. a - l : h[j] = IF j < i THEN g[j] ELSE g[j + l]
  BY MotsSans
<1>3. /\ a \in Nat /\ b \in Nat /\ e \in Nat /\ l \in Nat
      /\ i \in 1 .. a /\ i + l - 1 <= a
  OBVIOUS
<1> HIDE DEF w, h
<1>4. i \in 1 .. Len(w) /\ i + l - 1 <= Len(w)
  BY <1>1, <1>3 DEF w
<1>5. /\ Sans(w, c, i) \in Seq(M)
      /\ Len(Sans(w, c, i)) = Len(w) - l
      /\ \A j \in 1 .. Len(w) - l : Sans(w, c, i)[j] = IF j < i THEN w[j] ELSE w[j + l]
  <2>1. w \in Seq(M)
    BY <1>1 DEF w
  <2> QED
    BY <2>1, <1>3, <1>4, MotsSans
<1>6. /\ Autour(h, n, d) \in Seq(M)
      /\ Len(Autour(h, n, d)) = Len(h) + b + e
      /\ \A j \in 1 .. Len(h) : Autour(h, n, d)[j] = h[j]
      /\ \A j \in 1 .. b : Autour(h, n, d)[Len(h) + j] = n[j]
      /\ \A j \in 1 .. e : Autour(h, n, d)[Len(h) + b + j] = d[j]
  BY <1>0, <1>2
<1>7. /\ Len(w) = a + b + e
      /\ \A j \in 1 .. a : w[j] = g[j]
      /\ \A j \in 1 .. b : w[a + j] = n[j]
      /\ \A j \in 1 .. e : w[a + b + j] = d[j]
  BY <1>1 DEF w
<1> DEFINE u == Sans(w, c, i)
           v == Autour(h, n, d)
<1> HIDE DEF u, v, l, a, b, e
<1>8. Len(u) = a + b + e - l /\ Len(v) = a + b + e - l
  BY <1>2, <1>3, <1>5, <1>6, <1>7 DEF u, v
<1>9. ASSUME NEW j \in 1 .. a + b + e - l
      PROVE  u[j] = v[j]
  <2>1. u[j] = IF j < i THEN w[j] ELSE w[j + l]
    <3>0. Len(w) = a + b + e
      BY <1>7
    <3>1. j \in 1 .. Len(w) - l
      BY <1>3, <3>0
    <3> QED
      BY <1>5, <3>1 DEF u
  <2>2. CASE j <= a - l
    <3>0. j \in 1 .. a - l /\ a - l = Len(h)
      BY <1>2, <1>3, <2>2
    <3>1. v[j] = h[j] /\ h[j] = IF j < i THEN g[j] ELSE g[j + l]
      BY <1>2, <1>6, <3>0 DEF v
    <3>2. j \in 1 .. a /\ j + l \in 1 .. a
      BY <1>3, <2>2
    <3>3. w[j] = g[j] /\ w[j + l] = g[j + l]
      BY <1>7, <3>2
    <3> QED
      BY <2>1, <3>1, <3>3
  <2>3. CASE a - l < j /\ j <= a - l + b
    <3>0. PICK p : p = j - (a - l)
      OBVIOUS
    <3>1. p \in 1 .. b /\ (a - l) + p = j /\ a + p = j + l /\ ~(j < i)
      BY <1>3, <2>3, <3>0
    <3>2. v[(a - l) + p] = n[p]
      BY <1>2, <1>6, <3>1 DEF v
    <3>3. w[a + p] = n[p]
      BY <1>7, <3>1
    <3> QED
      BY <2>1, <3>1, <3>2, <3>3
  <2>4. CASE a - l + b < j
    <3>0. PICK p : p = j - (a - l + b)
      OBVIOUS
    <3>1. p \in 1 .. e /\ (a - l) + b + p = j /\ a + b + p = j + l /\ ~(j < i)
      BY <1>3, <2>4, <3>0
    <3>2. v[(a - l) + b + p] = d[p]
      BY <1>2, <1>6, <3>1 DEF v
    <3>3. w[a + b + p] = d[p]
      BY <1>7, <3>1
    <3> QED
      BY <2>1, <3>1, <3>2, <3>3
  <2>5. j <= a - l \/ (a - l < j /\ j <= a - l + b) \/ a - l + b < j
    BY <1>3
  <2> QED
    BY <2>2, <2>3, <2>4, <2>5
<1>10. u \in Seq(M) /\ v \in Seq(M)
  BY <1>5, <1>6 DEF u, v
<1>11. u = v
  BY <1>8, <1>9, <1>10, MemesMots
<1> QED
  BY <1>11 DEF u, v, w, h

(* An occurrence after the name is taken off after the name. *)
LEMMA SansADroite ==
    ASSUME NEW M, NEW g \in Seq(M), NEW n \in Seq(M), NEW d \in Seq(M),
           NEW c, Len(c) \in Nat, NEW i \in 1 .. Len(d), i + Len(c) - 1 <= Len(d)
    PROVE  Sans(Autour(g, n, d), c, Len(g) + Len(n) + i) = Autour(g, n, Sans(d, c, i))
<1>0. \A x \in Seq(M) :
        /\ Autour(g, n, x) \in Seq(M)
        /\ Len(Autour(g, n, x)) = Len(g) + Len(n) + Len(x)
        /\ \A j \in 1 .. Len(g) : Autour(g, n, x)[j] = g[j]
        /\ \A j \in 1 .. Len(n) : Autour(g, n, x)[Len(g) + j] = n[j]
        /\ \A j \in 1 .. Len(x) : Autour(g, n, x)[Len(g) + Len(n) + j] = x[j]
  <2> TAKE x \in Seq(M)
  <2>1. PICK y \in Seq(M) : y = g \o n
    <3>1. g \o n \in Seq(M)
      OBVIOUS
    <3> QED
      BY <3>1, Zenon
  <2>2. /\ Len(y) = Len(g) + Len(n)
        /\ \A j \in 1 .. Len(g) : y[j] = g[j]
        /\ \A j \in 1 .. Len(n) : y[Len(g) + j] = n[j]
    BY <2>1, BoutABout
  <2>3. /\ y \o x \in Seq(M)
        /\ Len(y \o x) = Len(y) + Len(x)
        /\ \A j \in 1 .. Len(y) : (y \o x)[j] = y[j]
        /\ \A j \in 1 .. Len(x) : (y \o x)[Len(y) + j] = x[j]
    BY BoutABout
  <2>4. /\ \A j \in 1 .. Len(g) : j \in 1 .. Len(y)
        /\ \A j \in 1 .. Len(n) : Len(g) + j \in 1 .. Len(y)
    BY <2>2
  <2>5. Autour(g, n, x) = y \o x
    BY <2>1 DEF Autour
  <2> QED
    BY <2>2, <2>3, <2>4, <2>5
<1>1. /\ Autour(g, n, d) \in Seq(M)
      /\ Len(Autour(g, n, d)) = Len(g) + Len(n) + Len(d)
      /\ \A j \in 1 .. Len(g) : Autour(g, n, d)[j] = g[j]
      /\ \A j \in 1 .. Len(n) : Autour(g, n, d)[Len(g) + j] = n[j]
      /\ \A j \in 1 .. Len(d) : Autour(g, n, d)[Len(g) + Len(n) + j] = d[j]
  BY <1>0
<1> DEFINE w == Autour(g, n, d)
           h == Sans(d, c, i)
           l == Len(c)
           a == Len(g)
           b == Len(n)
           e == Len(d)
           k == a + b + i
<1>2. h \in Seq(M) /\ Len(h) = e - l /\ \A j \in 1 .. e - l : h[j] = IF j < i THEN d[j] ELSE d[j + l]
  BY MotsSans
<1>3. /\ a \in Nat /\ b \in Nat /\ e \in Nat /\ l \in Nat
      /\ i \in 1 .. e /\ i + l - 1 <= e
  OBVIOUS
<1> HIDE DEF w, h
<1>4. k \in 1 .. Len(w) /\ k + l - 1 <= Len(w)
  BY <1>1, <1>3 DEF w
<1>5. /\ Sans(w, c, k) \in Seq(M)
      /\ Len(Sans(w, c, k)) = Len(w) - l
      /\ \A j \in 1 .. Len(w) - l : Sans(w, c, k)[j] = IF j < k THEN w[j] ELSE w[j + l]
  <2>1. w \in Seq(M)
    BY <1>1 DEF w
  <2> QED
    BY <2>1, <1>3, <1>4, MotsSans
<1>6. /\ Autour(g, n, h) \in Seq(M)
      /\ Len(Autour(g, n, h)) = a + b + Len(h)
      /\ \A j \in 1 .. a : Autour(g, n, h)[j] = g[j]
      /\ \A j \in 1 .. b : Autour(g, n, h)[a + j] = n[j]
      /\ \A j \in 1 .. Len(h) : Autour(g, n, h)[a + b + j] = h[j]
  BY <1>0, <1>2
<1>7. /\ Len(w) = a + b + e
      /\ \A j \in 1 .. a : w[j] = g[j]
      /\ \A j \in 1 .. b : w[a + j] = n[j]
      /\ \A j \in 1 .. e : w[a + b + j] = d[j]
  BY <1>1 DEF w
<1> DEFINE u == Sans(w, c, k)
           v == Autour(g, n, h)
<1> HIDE DEF u, v, l, a, b, e
<1>8. Len(u) = a + b + e - l /\ Len(v) = a + b + e - l
  BY <1>2, <1>3, <1>5, <1>6, <1>7 DEF u, v
<1>9. ASSUME NEW j \in 1 .. a + b + e - l
      PROVE  u[j] = v[j]
  <2>1. u[j] = IF j < k THEN w[j] ELSE w[j + l]
    <3>0. Len(w) = a + b + e
      BY <1>7
    <3>1. j \in 1 .. Len(w) - l
      BY <1>3, <3>0
    <3> QED
      BY <1>5, <3>1 DEF u
  <2>2. CASE j <= a
    <3>1. j \in 1 .. a /\ j < k
      BY <1>3, <2>2
    <3>2. v[j] = g[j] /\ w[j] = g[j]
      BY <1>6, <1>7, <3>1 DEF v
    <3> QED
      BY <2>1, <3>1, <3>2
  <2>3. CASE a < j /\ j <= a + b
    <3>1. j - a \in 1 .. b /\ a + (j - a) = j /\ j < k
      BY <1>3, <2>3
    <3>2. v[j] = n[j - a] /\ w[j] = n[j - a]
      BY <1>6, <1>7, <3>1 DEF v
    <3> QED
      BY <2>1, <3>1, <3>2
  <2>4. CASE a + b < j
    <3>1. /\ j - (a + b) \in 1 .. e - l /\ a + b + (j - (a + b)) = j
          /\ a + b + (j - (a + b) + l) = j + l
          /\ (j < k <=> j - (a + b) < i)
      BY <1>3, <2>4
    <3>2. v[j] = h[j - (a + b)]
      BY <1>2, <1>6, <3>1 DEF v
    <3>3. h[j - (a + b)] = IF j < k THEN d[j - (a + b)] ELSE d[j - (a + b) + l]
      BY <1>2, <3>1
    <3>4. j - (a + b) \in 1 .. e /\ j - (a + b) + l \in 1 .. e
      BY <1>3, <3>1
    <3>5. w[j] = d[j - (a + b)] /\ w[j + l] = d[j - (a + b) + l]
      BY <1>7, <3>1, <3>4
    <3> QED
      BY <2>1, <3>2, <3>3, <3>5
  <2>5. j <= a \/ (a < j /\ j <= a + b) \/ a + b < j
    BY <1>3
  <2> QED
    BY <2>2, <2>3, <2>4, <2>5
<1>10. u \in Seq(M) /\ v \in Seq(M)
  BY <1>5, <1>6 DEF u, v
<1>11. u = v
  BY <1>8, <1>9, <1>10, MemesMots
<1> QED
  BY <1>11 DEF u, v, w, h, a, b

(* A title taken off beside a name is taken off the left side, then the right. *)
LEMMA UneDUnCote ==
    ASSUME NEW M, NEW g \in Seq(M), NEW n \in Seq(M), NEW d \in Seq(M),
           NEW C, NEW c \in Seq(C), Len(c) >= 1, Nom(n, c)
    PROVE  LET w == Autour(g, n, d)
           IN  /\ ~Absente(c, g) => RetirerUne(w, c) = Autour(RetirerUne(g, c), n, d)
               /\ Absente(c, g) /\ ~Absente(c, d) =>
                     RetirerUne(w, c) = Autour(g, n, RetirerUne(d, c))
               /\ Absente(c, g) /\ Absente(c, d) => RetirerUne(w, c) = w
               /\ Absente(c, w) => Absente(c, g) /\ Absente(c, d)
<1> DEFINE w == Autour(g, n, d)
           q == Len(g) + Len(n)
<1>1. w \in Seq(M) /\ Len(w) = q + Len(d)
  BY DEF Autour
<1>2. Len(g) \in Nat /\ Len(n) \in Nat /\ Len(d) \in Nat /\ Len(c) \in Nat
  OBVIOUS
<1>3. \A i \in 1 .. Len(w) :
         Trouve(c, w, i) <=> \/ i \in 1 .. Len(g) /\ Trouve(c, g, i)
                             \/ i - q \in 1 .. Len(d) /\ Trouve(c, d, i - q)
  <2> TAKE i \in 1 .. Len(w)
  <2>1. i - q = i - Len(g) - Len(n)
    BY <1>1, <1>2
  <2> QED
    BY <2>1, TrouveDUnCote
<1> HIDE DEF w
<1>4. ASSUME ~Absente(c, g)
      PROVE  RetirerUne(w, c) = Autour(RetirerUne(g, c), n, d)
  <2>1. PICK i \in 1 .. Len(g) : Premiere(c, g, i)
    BY <1>4, SansLaPremiere DEF Absente
  <2>2. Trouve(c, g, i) /\ \A j \in 1 .. Len(g) : Trouve(c, g, j) => i <= j
    BY <2>1 DEF Premiere
  <2>3. i \in 1 .. Len(w)
    BY <1>1, <1>2
  <2>4. \A j \in 1 .. Len(w) : Trouve(c, w, j) => i <= j
    BY <1>1, <1>2, <1>3, <2>2
  <2>5. Premiere(c, w, i)
    BY <1>3, <2>2, <2>3, <2>4 DEF Premiere
  <2>6. RetirerUne(w, c) = Sans(w, c, i)
    BY <1>1, <2>3, <2>5, SansLaPremiere
  <2>7. RetirerUne(g, c) = Sans(g, c, i)
    BY <2>1, SansLaPremiere
  <2>8. i + Len(c) - 1 <= Len(g)
    BY <2>2 DEF Trouve
  <2>9. Sans(w, c, i) = Autour(Sans(g, c, i), n, d)
    BY <1>2, <2>8, SansAGauche DEF w
  <2> QED
    BY <2>6, <2>7, <2>9
<1>5. ASSUME Absente(c, g), ~Absente(c, d)
      PROVE  RetirerUne(w, c) = Autour(g, n, RetirerUne(d, c))
  <2>1. PICK i \in 1 .. Len(d) : Premiere(c, d, i)
    BY <1>5, SansLaPremiere DEF Absente
  <2>2. Trouve(c, d, i) /\ \A j \in 1 .. Len(d) : Trouve(c, d, j) => i <= j
    BY <2>1 DEF Premiere
  <2>3. q + i \in 1 .. Len(w) /\ (q + i) - q = i
    BY <1>1, <1>2
  <2>4. \A j \in 1 .. Len(w) : Trouve(c, w, j) => q + i <= j
    <3> TAKE j \in 1 .. Len(w)
    <3>1. Trouve(c, w, j) => j - q \in 1 .. Len(d) /\ Trouve(c, d, j - q)
      BY <1>3, <1>5 DEF Absente
    <3>2. j - q \in 1 .. Len(d) /\ i <= j - q => q + i <= j
      BY <1>1, <1>2
    <3> QED
      BY <3>1, <3>2, <2>2
  <2>5. Premiere(c, w, q + i)
    BY <1>3, <2>2, <2>3, <2>4 DEF Premiere
  <2>6. RetirerUne(w, c) = Sans(w, c, q + i)
    BY <1>1, <2>3, <2>5, SansLaPremiere
  <2>7. RetirerUne(d, c) = Sans(d, c, i)
    BY <2>1, SansLaPremiere
  <2>8. i + Len(c) - 1 <= Len(d)
    BY <2>2 DEF Trouve
  <2>9. Sans(w, c, q + i) = Autour(g, n, Sans(d, c, i))
    BY <1>2, <2>8, SansADroite DEF w
  <2> QED
    BY <2>6, <2>7, <2>9
<1>6. ASSUME Absente(c, g), Absente(c, d)
      PROVE  RetirerUne(w, c) = w
  <2>1. \A i \in 1 .. Len(w) : ~Trouve(c, w, i)
    BY <1>3, <1>6 DEF Absente
  <2> QED
    BY <1>1, <2>1, SansLaPremiere
<1>7. ASSUME Absente(c, w)
      PROVE  Absente(c, g) /\ Absente(c, d)
  <2>1. \A i \in 1 .. Len(g) : i \in 1 .. Len(w)
    BY <1>1, <1>2
  <2>2. \A i \in 1 .. Len(d) : q + i \in 1 .. Len(w) /\ (q + i) - q = i
    BY <1>1, <1>2
  <2>3. \A i \in 1 .. Len(g) : ~Trouve(c, g, i)
    BY <1>3, <1>7, <2>1 DEF Absente
  <2>4. \A i \in 1 .. Len(d) : ~Trouve(c, d, i)
    BY <1>3, <1>7, <2>2 DEF Absente
  <2> QED
    BY <2>3, <2>4 DEF Absente
<1> QED
  BY <1>4, <1>5, <1>6, <1>7 DEF w

(* Once the title is gone, nothing changes. *)
LEMMA PlusRienARetirer ==
    ASSUME NEW M, NEW s \in Seq(M), NEW C, NEW c \in Seq(C), Len(c) >= 1,
           NEW f, Retiree(s, c, f), NEW a \in 0 .. Len(s), Absente(c, f[a])
    PROVE  f[Len(s)] = f[a]
<1> DEFINE m == Len(s) - a
           P == {j \in 0 .. m : f[a + j] = f[a]}
<1>1. m \in Nat /\ a \in Nat /\ Len(s) \in Nat
  OBVIOUS
<1>2. f[a] \in Seq(M)
  BY RetireeJusquAuBout
<1>3. RetirerUne(f[a], c) = f[a]
  BY <1>2, SansLaPremiere DEF Absente
<1>4. 0 \in P
  BY <1>1
<1>5. ASSUME NEW j \in Nat, j < m, j \in P
      PROVE  j + 1 \in P
  <2>1. a + j \in Nat /\ a + j < Len(s) /\ a + j + 1 = a + (j + 1) /\ j + 1 \in 0 .. m
    BY <1>1, <1>5
  <2>2. f[a + j + 1] = RetirerUne(f[a + j], c)
    BY <2>1 DEF Retiree
  <2>3. f[a + (j + 1)] = f[a]
    BY <1>3, <1>5, <2>1, <2>2
  <2> QED
    BY <2>1, <2>3
<1>6. \A j \in 0 .. m : j \in P
  <2> HIDE DEF P, m
  <2> QED
    BY <1>1, <1>4, <1>5, JusquA
<1>7. m \in 0 .. m /\ a + m = Len(s)
  BY <1>1
<1> QED
  BY <1>6, <1>7

(* Taking a title off as often as there is one leaves the name as it is,    *)
(* and what is left of each side is what it would be by itself.             *)
LEMMA ToutesDUnCote ==
    ASSUME NEW M, NEW g \in Seq(M), NEW n \in Seq(M), NEW d \in Seq(M),
           NEW C, NEW c \in Seq(C), Len(c) >= 1, Nom(n, c)
    PROVE  RetirerToutes(Autour(g, n, d), c) = Autour(RetirerToutes(g, c), n, RetirerToutes(d, c))
<1> DEFINE w == Autour(g, n, d)
<1>1. w \in Seq(M)
  BY DEF Autour
<1> HIDE DEF w
<1>2. PICK fw : Retiree(w, c, fw) /\ RetirerToutes(w, c) = fw[Len(w)]
  BY <1>1, ToutesDepliees
<1>3. PICK fg : Retiree(g, c, fg) /\ RetirerToutes(g, c) = fg[Len(g)]
  BY ToutesDepliees
<1>4. PICK fd : Retiree(d, c, fd) /\ RetirerToutes(d, c) = fd[Len(d)]
  BY ToutesDepliees
<1>5. Len(w) \in Nat /\ Len(g) \in Nat /\ Len(d) \in Nat
  BY <1>1
<1>6. \A a \in 0 .. Len(g) : fg[a] \in Seq(M) /\ (Absente(c, fg[a]) \/ Len(fg[a]) <= Len(g) - a)
  BY <1>3, RetireeJusquAuBout
<1>7. \A b \in 0 .. Len(d) : fd[b] \in Seq(M) /\ (Absente(c, fd[b]) \/ Len(fd[b]) <= Len(d) - b)
  BY <1>4, RetireeJusquAuBout
<1>8. ASSUME NEW a \in 0 .. Len(g), ~Absente(c, fg[a])
      PROVE  a < Len(g) /\ a + 1 \in 0 .. Len(g) /\ fg[a + 1] = RetirerUne(fg[a], c)
  <2>1. Len(fg[a]) <= Len(g) - a /\ Len(fg[a]) \in Nat
    BY <1>6, <1>8
  <2>2. Len(fg[a]) # 0
    BY <1>8 DEF Absente
  <2>3. a < Len(g) /\ a \in Nat /\ a + 1 \in 0 .. Len(g)
    BY <1>5, <2>1, <2>2
  <2> QED
    BY <1>3, <2>3 DEF Retiree
<1>9. ASSUME NEW b \in 0 .. Len(d), ~Absente(c, fd[b])
      PROVE  b < Len(d) /\ b + 1 \in 0 .. Len(d) /\ fd[b + 1] = RetirerUne(fd[b], c)
  <2>1. Len(fd[b]) <= Len(d) - b /\ Len(fd[b]) \in Nat
    BY <1>7, <1>9
  <2>2. Len(fd[b]) # 0
    BY <1>9 DEF Absente
  <2>3. b < Len(d) /\ b \in Nat /\ b + 1 \in 0 .. Len(d)
    BY <1>5, <2>1, <2>2
  <2> QED
    BY <1>4, <2>3 DEF Retiree
<1> DEFINE P == {k \in 0 .. Len(w) : \E a \in 0 .. Len(g), b \in 0 .. Len(d) :
                                        fw[k] = Autour(fg[a], n, fd[b])}
<1>10. 0 \in P
  <2>1. fw[0] = w /\ fg[0] = g /\ fd[0] = d
    BY <1>2, <1>3, <1>4 DEF Retiree
  <2>2. 0 \in 0 .. Len(w) /\ 0 \in 0 .. Len(g) /\ 0 \in 0 .. Len(d)
    BY <1>5
  <2> QED
    BY <2>1, <2>2 DEF w
<1>11. ASSUME NEW k \in Nat, k < Len(w), k \in P
       PROVE  k + 1 \in P
  <2>1. PICK a \in 0 .. Len(g), b \in 0 .. Len(d) : fw[k] = Autour(fg[a], n, fd[b])
    BY <1>11
  <2>2. fw[k + 1] = RetirerUne(Autour(fg[a], n, fd[b]), c) /\ k + 1 \in 0 .. Len(w)
    BY <1>2, <1>5, <1>11, <2>1 DEF Retiree
  <2>3. fg[a] \in Seq(M) /\ fd[b] \in Seq(M)
    BY <1>6, <1>7
  <2> DEFINE x == fg[a]
             y == fd[b]
             u == RetirerUne(Autour(x, n, y), c)
  <2>4. /\ ~Absente(c, x) => u = Autour(RetirerUne(x, c), n, y)
        /\ Absente(c, x) /\ ~Absente(c, y) => u = Autour(x, n, RetirerUne(y, c))
        /\ Absente(c, x) /\ Absente(c, y) => u = Autour(x, n, y)
    <3> HIDE DEF x, y
    <3>1. x \in Seq(M) /\ y \in Seq(M)
      BY <2>3 DEF x, y
    <3> QED
      BY <3>1, UneDUnCote
  <2>5. CASE ~Absente(c, x)
    <3>1. a + 1 \in 0 .. Len(g) /\ fg[a + 1] = RetirerUne(x, c)
      BY <1>8, <2>5
    <3>2. fw[k + 1] = Autour(fg[a + 1], n, fd[b])
      BY <2>2, <2>4, <2>5, <3>1
    <3> QED
      BY <2>2, <3>1, <3>2
  <2>6. CASE Absente(c, x) /\ ~Absente(c, y)
    <3>1. b + 1 \in 0 .. Len(d) /\ fd[b + 1] = RetirerUne(y, c)
      BY <1>9, <2>6
    <3>2. fw[k + 1] = Autour(fg[a], n, fd[b + 1])
      BY <2>2, <2>4, <2>6, <3>1
    <3> QED
      BY <2>2, <3>1, <3>2
  <2>7. CASE Absente(c, x) /\ Absente(c, y)
    <3>1. fw[k + 1] = Autour(fg[a], n, fd[b])
      BY <2>2, <2>4, <2>7
    <3> QED
      BY <2>2, <3>1
  <2> QED
    BY <2>5, <2>6, <2>7
<1>12. \A k \in 0 .. Len(w) : k \in P
  <2> HIDE DEF P
  <2> QED
    BY <1>5, <1>10, <1>11, JusquA
<1>13. PICK a \in 0 .. Len(g), b \in 0 .. Len(d) : fw[Len(w)] = Autour(fg[a], n, fd[b])
  <2>1. Len(w) \in 0 .. Len(w)
    BY <1>5
  <2> QED
    BY <1>12, <2>1
<1>14. Absente(c, fg[a]) /\ Absente(c, fd[b])
  <2>1. Absente(c, Autour(fg[a], n, fd[b]))
    BY <1>1, <1>2, <1>13, ToutesParties
  <2> DEFINE x == fg[a]
             y == fd[b]
  <2>2. x \in Seq(M) /\ y \in Seq(M)
    BY <1>6, <1>7
  <2>3. Absente(c, Autour(x, n, y))
    BY <2>1
  <2> HIDE DEF x, y
  <2>4. Absente(c, x) /\ Absente(c, y)
    BY <2>2, <2>3, UneDUnCote
  <2> QED
    BY <2>4 DEF x, y
<1>15. fg[Len(g)] = fg[a]
  BY <1>3, <1>14, PlusRienARetirer
<1>16. fd[Len(d)] = fd[b]
  BY <1>4, <1>14, PlusRienARetirer
<1> QED
  BY <1>2, <1>3, <1>4, <1>13, <1>15, <1>16 DEF w

(* The titles of libelle.rs:40: eight, none empty.                          *)
MotsDeCivilite == {"M.OU", "MME", "M.", "OU", "MR", "MLLE"}

(* Eight titles, each a sequence of words. *)
LEMMA Civilites ==
    /\ DOMAIN CIVILITES = 1 .. 8
    /\ \A i \in 1 .. 8 : CIVILITES[i] \in Seq(MotsDeCivilite) /\ Len(CIVILITES[i]) >= 1
<1>1. DOMAIN CIVILITES = 1 .. 8
  BY DEF CIVILITES
<1>2. /\ CIVILITES[1] = <<"M.OU", "MME">>
      /\ CIVILITES[2] = <<"M.", "OU", "MME">>
      /\ CIVILITES[3] = <<"MR", "OU", "MME">>
      /\ CIVILITES[4] = <<"MME", "OU", "MR">>
      /\ CIVILITES[5] = <<"MLLE">>
      /\ CIVILITES[6] = <<"MME">>
      /\ CIVILITES[7] = <<"MR">>
      /\ CIVILITES[8] = <<"M.">>
  BY DEF CIVILITES
<1>3. \A a, b, c \in MotsDeCivilite :
         /\ <<a>> \in Seq(MotsDeCivilite) /\ Len(<<a>>) = 1
         /\ <<a, b>> \in Seq(MotsDeCivilite) /\ Len(<<a, b>>) = 2
         /\ <<a, b, c>> \in Seq(MotsDeCivilite) /\ Len(<<a, b, c>>) = 3
  OBVIOUS
<1>4. /\ "M.OU" \in MotsDeCivilite /\ "MME" \in MotsDeCivilite /\ "M." \in MotsDeCivilite
      /\ "OU" \in MotsDeCivilite /\ "MR" \in MotsDeCivilite /\ "MLLE" \in MotsDeCivilite
  BY DEF MotsDeCivilite
<1>5. ASSUME NEW i \in 1 .. 8
      PROVE  CIVILITES[i] \in Seq(MotsDeCivilite) /\ Len(CIVILITES[i]) >= 1
  <2> DEFINE Juste(c) == c \in Seq(MotsDeCivilite) /\ Len(c) >= 1
  <2>1. i = 1 \/ i = 2 \/ i = 3 \/ i = 4 \/ i = 5 \/ i = 6 \/ i = 7 \/ i = 8
    OBVIOUS
  <2>2. \A a, b, c \in MotsDeCivilite : Juste(<<a>>) /\ Juste(<<a, b>>) /\ Juste(<<a, b, c>>)
    BY <1>3
  <2> HIDE DEF Juste
  <2>3. Juste(CIVILITES[1])
    BY <1>2, <1>4, <2>2
  <2>4. Juste(CIVILITES[2])
    BY <1>2, <1>4, <2>2
  <2>5. Juste(CIVILITES[3])
    BY <1>2, <1>4, <2>2
  <2>6. Juste(CIVILITES[4])
    BY <1>2, <1>4, <2>2
  <2>7. Juste(CIVILITES[5]) /\ Juste(CIVILITES[6]) /\ Juste(CIVILITES[7]) /\ Juste(CIVILITES[8])
    BY <1>2, <1>4, <2>2
  <2>8. Juste(CIVILITES[i])
    BY <2>1, <2>3, <2>4, <2>5, <2>6, <2>7, Zenon
  <2> QED
    BY <2>8 DEF Juste
<1> QED
  BY <1>1, <1>5

(* One title after another. *)
Civile(s, f) ==
    f[0] = s /\ \A k \in Nat : k < 8 => f[k + 1] = RetirerToutes(f[k], CIVILITES[k + 1])

(* The fold over the titles (libelle.rs:127-136). *)
LEMMA CivilitesDepliees ==
    ASSUME NEW M, NEW s \in Seq(M)
    PROVE  \E f : Civile(s, f) /\ RetirerCivilites(s) = f[8] /\ \A k \in 0 .. 8 : f[k] \in Seq(M)
<1> DEFINE iter == CHOOSE g : g = [S \in SUBSET (1 .. 8) |->
                     IF S = {} THEN s ELSE RetirerToutes(g[S \ {Max(S)}], CIVILITES[Max(S)])]
           pas == [i \in 1 .. 8 |-> [u \in Seq(M) |-> RetirerToutes(u, CIVILITES[i])]]
<1>1. 8 \in Nat /\ DOMAIN CIVILITES = 1 .. 8
  BY Civilites
<1>2. RetirerCivilites(s) = iter[1 .. 8]
  BY <1>1 DEF RetirerCivilites, FoldLeft, MapThenFoldSet
<1>3. \A i \in 1 .. 8, u \in Seq(M) : RetirerToutes(u, CIVILITES[i]) \in Seq(M)
  <2> TAKE i \in 1 .. 8, u \in Seq(M)
  <2>1. CIVILITES[i] \in Seq(MotsDeCivilite) /\ Len(CIVILITES[i]) >= 1
    BY Civilites
  <2> DEFINE c == CIVILITES[i]
  <2> HIDE DEF c, iter, pas
  <2>2. c \in Seq(MotsDeCivilite) /\ Len(c) >= 1
    BY <2>1 DEF c
  <2>3. RetirerToutes(u, c) \in Seq(M)
    BY <2>2, ToutesParties
  <2> QED
    BY <2>3 DEF c
<1>4. pas \in [1 .. 8 -> [Seq(M) -> Seq(M)]]
  <2> HIDE DEF iter
  <2> QED
    BY <1>3
<1>5. \A i \in 1 .. 8, u \in Seq(M) : pas[i][u] = RetirerToutes(u, CIVILITES[i])
  OBVIOUS
<1> HIDE DEF pas
<1>6. PICK g \in [SUBSET (1 .. 8) -> Seq(M)] : Pliee(8, s, pas, g)
  BY <1>1, <1>4, PliExiste
<1>7. \A S \in SUBSET (1 .. 8) :
         g[S] = IF S = {} THEN s ELSE RetirerToutes(g[S \ {Max(S)}], CIVILITES[Max(S)])
  <2> TAKE S \in SUBSET (1 .. 8)
  <2>1. CASE S = {}
    BY <1>6, <2>1 DEF Pliee
  <2>2. CASE S # {}
    <3>1. Max(S) \in 1 .. 8
      BY <1>1, <2>2, PlusGrand
    <3>2. g[S \ {Max(S)}] \in Seq(M)
      BY <1>6
    <3>3. g[S] = pas[Max(S)][g[S \ {Max(S)}]]
      BY <1>6, <2>2 DEF Pliee
    <3> QED
      BY <2>2, <3>1, <3>2, <3>3, <1>5
  <2> QED
    BY <2>1, <2>2
<1>8. g = [S \in SUBSET (1 .. 8) |->
             IF S = {} THEN s ELSE RetirerToutes(g[S \ {Max(S)}], CIVILITES[Max(S)])]
  <2>1. g = [S \in SUBSET (1 .. 8) |-> g[S]]
    BY <1>6
  <2> QED
    BY <2>1, <1>7
<1>9. iter = [S \in SUBSET (1 .. 8) |->
                IF S = {} THEN s ELSE RetirerToutes(iter[S \ {Max(S)}], CIVILITES[Max(S)])]
  BY <1>8
<1> HIDE DEF iter
<1> DEFINE f == [k \in Nat |-> iter[1 .. k]]
<1>10. f[0] = s
  <2>1. 1 .. 0 = {} /\ {} \in SUBSET (1 .. 8) /\ 0 \in Nat
    OBVIOUS
  <2> QED
    BY <2>1, <1>9
<1>11. ASSUME NEW k \in Nat, k < 8
       PROVE  f[k + 1] = RetirerToutes(f[k], CIVILITES[k + 1])
  <2>1. k + 1 \in Nat /\ k + 1 \in 1 .. k + 1 /\ 1 .. k + 1 \in SUBSET (1 .. 8)
    BY <1>11
  <2>2. iter[1 .. k + 1] = RetirerToutes(iter[(1 .. k + 1) \ {Max(1 .. k + 1)}], CIVILITES[Max(1 .. k + 1)])
    BY <2>1, <1>9
  <2>3. iter[1 .. k + 1] = RetirerToutes(iter[1 .. k], CIVILITES[k + 1])
    BY <2>2, DernierePosition
  <2> QED
    BY <2>1, <2>3
<1>12. RetirerCivilites(s) = f[8]
  BY <1>2
<1> HIDE DEF f
<1>13. \A k \in 0 .. 8 : f[k] \in Seq(M)
  <2> DEFINE P == {k \in Nat : f[k] \in Seq(M)}
  <2>1. 0 \in P
    BY <1>10
  <2>2. ASSUME NEW k \in Nat, k < 8, k \in P
        PROVE  k + 1 \in P
    <3>1. k + 1 \in 1 .. 8 /\ f[k] \in Seq(M)
      BY <2>2
    <3>2. f[k + 1] = RetirerToutes(f[k], CIVILITES[k + 1])
      BY <1>11, <2>2
    <3>3. RetirerToutes(f[k], CIVILITES[k + 1]) \in Seq(M)
      BY <1>3, <3>1
    <3> QED
      BY <3>1, <3>2, <3>3
  <2>3. \A k \in 0 .. 8 : k \in P
    <3> HIDE DEF P
    <3> QED
      BY <1>1, <2>1, <2>2, JusquA
  <2> QED
    BY <2>3
<1>14. Civile(s, f)
  BY <1>10, <1>11 DEF Civile
<1> QED
  BY <1>12, <1>13, <1>14

(* retirer_civilites leaves a name without titles as it is, and each side   *)
(* of it as it would be by itself.                                          *)
LEMMA CivilitesDUnCote ==
    ASSUME NEW M, NEW g \in Seq(M), NEW n \in Seq(M), NEW d \in Seq(M),
           \A i \in 1 .. 8 : Nom(n, CIVILITES[i])
    PROVE  RetirerCivilites(Autour(g, n, d)) = Autour(RetirerCivilites(g), n, RetirerCivilites(d))
<1>1. Autour(g, n, d) \in Seq(M)
  BY DEF Autour
<1>2. PICK fw : Civile(Autour(g, n, d), fw) /\ RetirerCivilites(Autour(g, n, d)) = fw[8]
  BY <1>1, CivilitesDepliees
<1>3. PICK fg : Civile(g, fg) /\ RetirerCivilites(g) = fg[8] /\ \A k \in 0 .. 8 : fg[k] \in Seq(M)
  BY CivilitesDepliees
<1>4. PICK fd : Civile(d, fd) /\ RetirerCivilites(d) = fd[8] /\ \A k \in 0 .. 8 : fd[k] \in Seq(M)
  BY CivilitesDepliees
<1> DEFINE P == {k \in Nat : fw[k] = Autour(fg[k], n, fd[k])}
<1>5. 0 \in P
  BY <1>2, <1>3, <1>4 DEF Civile
<1>6. ASSUME NEW k \in Nat, k < 8, k \in P
      PROVE  k + 1 \in P
  <2> DEFINE x == fg[k]
             y == fd[k]
             c == CIVILITES[k + 1]
  <2>0. k \in 0 .. 8 /\ k + 1 \in 1 .. 8
    BY <1>6
  <2>1. x \in Seq(M) /\ y \in Seq(M) /\ k + 1 \in 1 .. 8
    BY <1>3, <1>4, <2>0
  <2>2. c \in Seq(MotsDeCivilite) /\ Len(c) >= 1 /\ Nom(n, c)
    BY <2>1, Civilites
  <2>3. /\ fw[k + 1] = RetirerToutes(Autour(x, n, y), c)
        /\ fg[k + 1] = RetirerToutes(x, c)
        /\ fd[k + 1] = RetirerToutes(y, c)
    BY <1>2, <1>3, <1>4, <1>6 DEF Civile
  <2> HIDE DEF x, y, c
  <2>4. RetirerToutes(Autour(x, n, y), c) = Autour(RetirerToutes(x, c), n, RetirerToutes(y, c))
    BY <2>1, <2>2, ToutesDUnCote
  <2> QED
    BY <2>3, <2>4
<1>7. \A k \in 0 .. 8 : k \in P
  <2>1. 8 \in Nat
    OBVIOUS
  <2> HIDE DEF P
  <2> QED
    BY <2>1, <1>5, <1>6, JusquA
<1>8. fw[8] = Autour(fg[8], n, fd[8])
  BY <1>7
<1> QED
  BY <1>2, <1>3, <1>4, <1>8

(* The kinds of operation of libelle.rs:5-37: no prefix of the list begins  *)
(* with one that comes before it.                                           *)
MotsDePrefixe == UNION {ToSet(PREFIXES[i]) : i \in DOMAIN PREFIXES}

(* q begins nothing that is p followed by words of another kind.            *)
Separes(q, p) ==
    \/ Len(q) > Len(p)
    \/ q[1] # p[1]
    \/ 2 <= Len(q) /\ q[2] # p[2]
    \/ 3 <= Len(q) /\ q[3] # p[3]

(* A sequence of words that is not empty. *)
Suivis(s) == Len(s) >= 1 /\ s \in Seq(ToSet(s))

(* A sequence is a sequence of its own words. *)
LEMMA DesMots ==
    ASSUME NEW S, NEW s \in Seq(S), Len(s) >= 1
    PROVE  Suivis(s)
<1>1. s \in Seq(ToSet(s))
  BY DEF ToSet
<1> QED
  BY <1>1 DEF Suivis

(* The kinds have from one to five words. *)
LEMMA MotsDUneSuite ==
    ASSUME NEW a, NEW b, NEW c, NEW d, NEW e
    PROVE  /\ Suivis(<<a>>) /\ Suivis(<<a, b>>) /\ Suivis(<<a, b, c>>)
           /\ Suivis(<<a, b, c, d>>) /\ Suivis(<<a, b, c, d, e>>)
<1>1. Suivis(<<a>>)
  <2>1. <<a>> \in Seq({a}) /\ Len(<<a>>) >= 1
    OBVIOUS
  <2> QED
    BY <2>1, DesMots, Zenon
<1>2. Suivis(<<a, b>>)
  <2>1. <<a, b>> \in Seq({a, b}) /\ Len(<<a, b>>) >= 1
    OBVIOUS
  <2> QED
    BY <2>1, DesMots, Zenon
<1>3. Suivis(<<a, b, c>>)
  <2>1. <<a, b, c>> \in Seq({a, b, c}) /\ Len(<<a, b, c>>) >= 1
    OBVIOUS
  <2> QED
    BY <2>1, DesMots, Zenon
<1>4. Suivis(<<a, b, c, d>>)
  <2>1. <<a, b, c, d>> \in Seq({a, b, c, d}) /\ Len(<<a, b, c, d>>) >= 1
    OBVIOUS
  <2> QED
    BY <2>1, DesMots, Zenon
<1>5. Suivis(<<a, b, c, d, e>>)
  <2>1. <<a, b, c, d, e>> \in Seq({a, b, c, d, e}) /\ Len(<<a, b, c, d, e>>) >= 1
    OBVIOUS
  <2> QED
    BY <2>1, DesMots, Zenon
<1> QED
  BY <1>1, <1>2, <1>3, <1>4, <1>5

(* Words of a larger set. *)
LEMMA SuiteDesMots ==
    ASSUME NEW s, Suivis(s), NEW W, ToSet(s) \subseteq W
    PROVE  s \in Seq(W)
  BY DEF Suivis

(* The list of libelle.rs:5-37, entry by entry: the first that begins a     *)
(* label is the longest that does.                                          *)
LEMMA ListeDesPrefixes ==
    /\ DOMAIN PREFIXES = 1 .. 31
    /\ \A i \in 1 .. 31 : Len(PREFIXES[i]) >= 1 /\ PREFIXES[i] \in Seq(MotsDePrefixe)
    /\ "DE" \in MotsDePrefixe
    /\ \A i, j \in 1 .. 31 : j < i => Separes(PREFIXES[j], PREFIXES[i])
<1> DEFINE S(j, i) == Separes(PREFIXES[j], PREFIXES[i])
<1>1. /\ PREFIXES[1] = <<"VIREMENT", "INSTANTANE", "RECU", "DE">>
      /\ PREFIXES[2] = <<"VIREMENT", "SEPA", "RECU", "DE">>
      /\ PREFIXES[3] = <<"VIREMENT", "EN", "VOTRE", "FAVEUR", "DE">>
      /\ PREFIXES[4] = <<"VIREMENT", "EN", "VOTRE", "FAVEUR">>
  BY DEF PREFIXES
<1>2. /\ PREFIXES[5] = <<"VIREMENT", "INSTANTANE", "RECU">>
      /\ PREFIXES[6] = <<"VIREMENT", "INSTANTANE">>
      /\ PREFIXES[7] = <<"VIREMENT", "SEPA", "EMIS">>
      /\ PREFIXES[8] = <<"VIREMENT", "SEPA", "RECU">>
  BY DEF PREFIXES
<1>3. /\ PREFIXES[9] = <<"VIREMENT", "SEPA">>
      /\ PREFIXES[10] = <<"VIREMENT", "RECU", "DE">>
      /\ PREFIXES[11] = <<"VIREMENT", "RECU">>
      /\ PREFIXES[12] = <<"VIREMENT", "EMIS">>
      /\ PREFIXES[13] = <<"VIREMENT">>
  BY DEF PREFIXES
<1>4. /\ PREFIXES[14] = <<"PAIEMENT", "PAR", "CARTE">>
      /\ PREFIXES[15] = <<"PAIEMENT", "CARTE">>
      /\ PREFIXES[16] = <<"PAIEMENT">>
      /\ PREFIXES[17] = <<"PRELEVEMENT", "SEPA", "DE">>
  BY DEF PREFIXES
<1>5. /\ PREFIXES[18] = <<"PRELEVEMENT", "SEPA">>
      /\ PREFIXES[19] = <<"PRELEVEMENT">>
      /\ PREFIXES[20] = <<"PRLV", "SEPA">>
      /\ PREFIXES[21] = <<"PRLV">>
  BY DEF PREFIXES
<1>6. /\ PREFIXES[22] = <<"ACHAT", "CB">>
      /\ PREFIXES[23] = <<"ACHAT">>
      /\ PREFIXES[24] = <<"RETRAIT", "CB">>
      /\ PREFIXES[25] = <<"RETRAIT", "DAB">>
  BY DEF PREFIXES
<1>7. /\ PREFIXES[26] = <<"RETRAIT">>
      /\ PREFIXES[27] = <<"REMISE", "CHEQUE">>
      /\ PREFIXES[28] = <<"REMISE">>
  BY DEF PREFIXES
<1>8. /\ PREFIXES[29] = <<"COTISATION">>
      /\ PREFIXES[30] = <<"FRAIS">>
      /\ PREFIXES[31] = <<"CB">>
  BY DEF PREFIXES
<1>9. S(1, 2)
  BY <1>1 DEF Separes
<1>10. S(1, 3) /\ S(2, 3)
  BY <1>1 DEF Separes
<1>11. S(1, 4) /\ S(2, 4) /\ S(3, 4)
  BY <1>1 DEF Separes
<1>12. S(1, 5) /\ S(2, 5) /\ S(3, 5) /\ S(4, 5)
  BY <1>1, <1>2 DEF Separes
<1>13. S(1, 6) /\ S(2, 6) /\ S(3, 6) /\ S(4, 6) /\ S(5, 6)
  BY <1>1, <1>2 DEF Separes
<1>14. S(1, 7) /\ S(2, 7) /\ S(3, 7) /\ S(4, 7) /\ S(5, 7) /\ S(6, 7)
  BY <1>1, <1>2 DEF Separes
<1>15. /\ S(1, 8) /\ S(2, 8) /\ S(3, 8) /\ S(4, 8) /\ S(5, 8) /\ S(6, 8)
       /\ S(7, 8)
  BY <1>1, <1>2 DEF Separes
<1>16. /\ S(1, 9) /\ S(2, 9) /\ S(3, 9) /\ S(4, 9) /\ S(5, 9) /\ S(6, 9)
       /\ S(7, 9) /\ S(8, 9)
  BY <1>1, <1>2, <1>3 DEF Separes
<1>17. /\ S(1, 10) /\ S(2, 10) /\ S(3, 10) /\ S(4, 10) /\ S(5, 10) /\ S(6, 10)
       /\ S(7, 10) /\ S(8, 10) /\ S(9, 10)
  BY <1>1, <1>2, <1>3 DEF Separes
<1>18. /\ S(1, 11) /\ S(2, 11) /\ S(3, 11) /\ S(4, 11) /\ S(5, 11) /\ S(6, 11)
       /\ S(7, 11) /\ S(8, 11) /\ S(9, 11) /\ S(10, 11)
  BY <1>1, <1>2, <1>3 DEF Separes
<1>19. /\ S(1, 12) /\ S(2, 12) /\ S(3, 12) /\ S(4, 12) /\ S(5, 12) /\ S(6, 12)
       /\ S(7, 12) /\ S(8, 12) /\ S(9, 12) /\ S(10, 12) /\ S(11, 12)
  BY <1>1, <1>2, <1>3 DEF Separes
<1>20. /\ S(1, 13) /\ S(2, 13) /\ S(3, 13) /\ S(4, 13) /\ S(5, 13) /\ S(6, 13)
       /\ S(7, 13) /\ S(8, 13) /\ S(9, 13) /\ S(10, 13) /\ S(11, 13) /\ S(12, 13)
  BY <1>1, <1>2, <1>3 DEF Separes
<1>21. \A i \in 1 .. 13 : PREFIXES[i][1] = "VIREMENT"
  BY <1>1, <1>2, <1>3
<1>22. \A i \in 14 .. 16 : PREFIXES[i][1] = "PAIEMENT"
  BY <1>4
<1>23. \A i \in 17 .. 19 : PREFIXES[i][1] = "PRELEVEMENT"
  BY <1>4, <1>5
<1>24. \A i \in 20 .. 21 : PREFIXES[i][1] = "PRLV"
  BY <1>5
<1>25. \A i \in 22 .. 23 : PREFIXES[i][1] = "ACHAT"
  BY <1>6
<1>26. \A i \in 24 .. 26 : PREFIXES[i][1] = "RETRAIT"
  BY <1>6, <1>7
<1>27. \A i \in 27 .. 28 : PREFIXES[i][1] = "REMISE"
  BY <1>7
<1>28. PREFIXES[29][1] = "COTISATION"
  BY <1>8
<1>29. PREFIXES[30][1] = "FRAIS"
  BY <1>8
<1>30. PREFIXES[31][1] = "CB"
  BY <1>8
<1>31. \A i \in 14 .. 31 : PREFIXES[i][1] # "VIREMENT"
  BY <1>4, <1>5, <1>6, <1>7, <1>8
<1>32. \A i \in 14 .. 31, j \in 1 .. 13 : S(j, i)
  BY <1>21, <1>31 DEF Separes
<1>33. \A i \in 17 .. 31 : PREFIXES[i][1] # "PAIEMENT"
  BY <1>4, <1>5, <1>6, <1>7, <1>8
<1>34. \A i \in 17 .. 31, j \in 14 .. 16 : S(j, i)
  BY <1>22, <1>33 DEF Separes
<1>35. \A i \in 20 .. 31 : PREFIXES[i][1] # "PRELEVEMENT"
  BY <1>5, <1>6, <1>7, <1>8
<1>36. \A i \in 20 .. 31, j \in 17 .. 19 : S(j, i)
  BY <1>23, <1>35 DEF Separes
<1>37. \A i \in 22 .. 31, j \in 20 .. 21 : S(j, i)
  <2>1. \A i \in 22 .. 31 : PREFIXES[i][1] # "PRLV"
    BY <1>25, <1>26, <1>27, <1>28, <1>29, <1>30
  <2> QED
    BY <1>24, <2>1 DEF Separes
<1>38. \A i \in 24 .. 31, j \in 22 .. 23 : S(j, i)
  <2>1. \A i \in 24 .. 31 : PREFIXES[i][1] # "ACHAT"
    BY <1>26, <1>27, <1>28, <1>29, <1>30
  <2> QED
    BY <1>25, <2>1 DEF Separes
<1>39. \A i \in 27 .. 31, j \in 24 .. 26 : S(j, i)
  <2>1. \A i \in 27 .. 31 : PREFIXES[i][1] # "RETRAIT"
    BY <1>27, <1>28, <1>29, <1>30
  <2> QED
    BY <1>26, <2>1 DEF Separes
<1>40. \A i \in 29 .. 31, j \in 27 .. 28 : S(j, i)
  BY <1>27, <1>28, <1>29, <1>30 DEF Separes
<1>41. \A i \in 30 .. 31, j \in 29 .. 29 : S(j, i)
  BY <1>28, <1>29, <1>30 DEF Separes
<1>42. \A i \in 31 .. 31, j \in 30 .. 30 : S(j, i)
  BY <1>29, <1>30 DEF Separes
<1>43. S(14, 15)
  BY <1>4 DEF Separes
<1>44. S(14, 16) /\ S(15, 16)
  BY <1>4 DEF Separes
<1>45. S(17, 18)
  BY <1>4, <1>5 DEF Separes
<1>46. S(17, 19) /\ S(18, 19)
  BY <1>4, <1>5 DEF Separes
<1>47. S(20, 21)
  BY <1>5 DEF Separes
<1>48. S(22, 23)
  BY <1>6 DEF Separes
<1>49. S(24, 25)
  BY <1>6 DEF Separes
<1>50. S(24, 26) /\ S(25, 26)
  BY <1>6, <1>7 DEF Separes
<1>51. S(27, 28)
  BY <1>7 DEF Separes
<1>52. DOMAIN PREFIXES = 1 .. 31
  BY DEF PREFIXES
<1>53. "DE" \in ToSet(PREFIXES[1])
  BY <1>1 DEF ToSet
<1> HIDE DEF S
<1>54. Suivis(PREFIXES[1]) /\ Suivis(PREFIXES[2]) /\ Suivis(PREFIXES[3]) /\ Suivis(PREFIXES[4])
  BY <1>1, MotsDUneSuite
<1>55. Suivis(PREFIXES[5]) /\ Suivis(PREFIXES[6]) /\ Suivis(PREFIXES[7]) /\ Suivis(PREFIXES[8])
  BY <1>2, MotsDUneSuite
<1>56. Suivis(PREFIXES[9]) /\ Suivis(PREFIXES[10]) /\ Suivis(PREFIXES[11]) /\ Suivis(PREFIXES[12]) /\ Suivis(PREFIXES[13])
  BY <1>3, MotsDUneSuite
<1>57. Suivis(PREFIXES[14]) /\ Suivis(PREFIXES[15]) /\ Suivis(PREFIXES[16]) /\ Suivis(PREFIXES[17])
  BY <1>4, MotsDUneSuite
<1>58. Suivis(PREFIXES[18]) /\ Suivis(PREFIXES[19]) /\ Suivis(PREFIXES[20]) /\ Suivis(PREFIXES[21])
  BY <1>5, MotsDUneSuite
<1>59. Suivis(PREFIXES[22]) /\ Suivis(PREFIXES[23]) /\ Suivis(PREFIXES[24]) /\ Suivis(PREFIXES[25])
  BY <1>6, MotsDUneSuite
<1>60. Suivis(PREFIXES[26]) /\ Suivis(PREFIXES[27]) /\ Suivis(PREFIXES[28])
  BY <1>7, MotsDUneSuite
<1>61. Suivis(PREFIXES[29]) /\ Suivis(PREFIXES[30]) /\ Suivis(PREFIXES[31])
  BY <1>8, MotsDUneSuite
<1>62. \A i \in 1 .. 31 : Suivis(PREFIXES[i])
  BY <1>54, <1>55, <1>56, <1>57, <1>58, <1>59, <1>60, <1>61
<1>63. \A i \in 1 .. 31 : ToSet(PREFIXES[i]) \subseteq MotsDePrefixe
  BY <1>52 DEF MotsDePrefixe
<1>64. \A i \in 1 .. 31 : Len(PREFIXES[i]) >= 1 /\ PREFIXES[i] \in Seq(MotsDePrefixe)
  BY <1>62, <1>63, SuiteDesMots DEF Suivis
<1>65. "DE" \in MotsDePrefixe
  BY <1>53, <1>63
<1>66. \A i, j \in 1 .. 13 : j < i => S(j, i)
  BY <1>9, <1>10, <1>11, <1>12, <1>13, <1>14, <1>15, <1>16, <1>17, <1>18, <1>19, <1>20
<1>67. \A i, j \in 14 .. 31 : j < i => S(j, i)
  BY <1>34, <1>36, <1>37, <1>38, <1>39, <1>40, <1>41, <1>42, <1>43, <1>44, <1>45, <1>46,
     <1>47, <1>48, <1>49, <1>50, <1>51
<1>68. \A i, j \in 1 .. 31 : j < i => S(j, i)
  BY <1>32, <1>66, <1>67
<1> QED
  BY <1>52, <1>64, <1>65, <1>68 DEF S

(* A sequence begins another when its words are the first ones. *)
LEMMA Debut ==
    ASSUME NEW M, NEW s \in Seq(M), NEW C, NEW c \in Seq(C)
    PROVE  IsPrefix(c, s) <=> Len(c) <= Len(s) /\ \A k \in 1 .. Len(c) : c[k] = s[k]
<1>1. ASSUME Len(c) <= Len(s)
      PROVE  SubSeq(c, 1, Len(c)) = SubSeq(s, 1, Len(c)) <=> \A k \in 1 .. Len(c) : c[k] = s[k]
  <2>0. Len(c) \in Nat /\ Len(s) \in Nat
    OBVIOUS
  <2>1. SubSeq(c, 1, Len(c)) = c
    OBVIOUS
  <2>2. /\ SubSeq(s, 1, Len(c)) \in Seq(M)
        /\ Len(SubSeq(s, 1, Len(c))) = Len(c)
        /\ \A k \in 1 .. Len(c) : SubSeq(s, 1, Len(c))[k] = s[k]
    BY <1>1, <2>0
  <2> QED
    BY <2>1, <2>2
<1> QED
  BY <1>1 DEF IsPrefix

(* Among the kinds, only those that begin p begin what p begins.            *)
LEMMA UnAutreDebut ==
    ASSUME NEW M, NEW p \in Seq(M), NEW s \in Seq(M), Len(s) >= 1, s[1] \notin MotsDePrefixe,
           NEW q \in Seq(MotsDePrefixe), Len(q) >= 1
    PROVE  /\ IsPrefix(q, p \o s) => Len(q) <= Len(p) /\ \A k \in 1 .. Len(q) : q[k] = p[k]
           /\ IsPrefix(p, p \o s)
<1> DEFINE w == p \o s
<1>1. /\ w \in Seq(M)
      /\ Len(w) = Len(p) + Len(s)
      /\ \A k \in 1 .. Len(p) : w[k] = p[k]
      /\ w[Len(p) + 1] = s[1]
  OBVIOUS
<1>2. Len(p) \in Nat /\ Len(q) \in Nat /\ Len(s) \in Nat
  OBVIOUS
<1> HIDE DEF w
<1>3. IsPrefix(q, w) => Len(q) <= Len(w) /\ \A k \in 1 .. Len(q) : q[k] = w[k]
  BY <1>1, Debut
<1>4. IsPrefix(p, w)
  BY <1>1, <1>2, Debut
<1>5. ASSUME IsPrefix(q, w)
      PROVE  Len(q) <= Len(p) /\ \A k \in 1 .. Len(q) : q[k] = p[k]
  <2>1. Len(q) <= Len(p)
    <3> SUFFICES ASSUME Len(q) > Len(p)
                 PROVE  FALSE
      BY <1>2
    <3>1. Len(p) + 1 \in 1 .. Len(q)
      BY <1>2
    <3>2. q[Len(p) + 1] = s[1]
      BY <1>1, <1>3, <1>5, <3>1
    <3>3. q[Len(p) + 1] \in MotsDePrefixe
      BY <3>1
    <3> QED
      BY <3>2, <3>3
  <2>2. \A k \in 1 .. Len(q) : k \in 1 .. Len(p)
    BY <1>2, <2>1
  <2> QED
    BY <1>1, <1>3, <1>5, <2>1, <2>2
<1> QED
  BY <1>4, <1>5 DEF w

(* retirer_prefixe takes a kind of operation off, and nothing else.         *)
LEMMA PrefixeRetire ==
    ASSUME NEW M, NEW p \in Seq(M), NEW s \in Seq(M), Len(s) >= 1, s[1] \notin MotsDePrefixe,
           p \in {<<>>} \cup ToSet(PREFIXES)
    PROVE  RetirerPrefixe(p \o s) = s
<1>1. DOMAIN PREFIXES = 1 .. 31
  BY ListeDesPrefixes
<1>2. \A i \in 1 .. 31 : Len(PREFIXES[i]) >= 1 /\ PREFIXES[i] \in Seq(MotsDePrefixe)
  BY ListeDesPrefixes
<1>3. \A i \in 1 .. 31 : IsPrefix(PREFIXES[i], p \o s) =>
         Len(PREFIXES[i]) <= Len(p) /\ \A k \in 1 .. Len(PREFIXES[i]) : PREFIXES[i][k] = p[k]
  <2> TAKE i \in 1 .. 31
  <2> DEFINE q == PREFIXES[i]
  <2>1. q \in Seq(MotsDePrefixe) /\ Len(q) >= 1
    BY <1>2
  <2> HIDE DEF q
  <2>2. IsPrefix(q, p \o s) => Len(q) <= Len(p) /\ \A k \in 1 .. Len(q) : q[k] = p[k]
    BY <2>1, UnAutreDebut
  <2> QED
    BY <2>2 DEF q
<1>4. CASE p = <<>>
  <2>1. p \o s = s /\ Len(p) = 0
    BY <1>4
  <2>2. \A i \in 1 .. 31 : ~IsPrefix(PREFIXES[i], s)
    <3> TAKE i \in 1 .. 31
    <3> DEFINE q == PREFIXES[i]
    <3>1. Len(q) >= 1 /\ q \in Seq(MotsDePrefixe)
      BY <1>2
    <3>2. IsPrefix(q, s) => Len(q) <= Len(p)
      BY <1>3, <2>1
    <3> HIDE DEF q
    <3>3. ~IsPrefix(q, s)
      BY <2>1, <3>1, <3>2
    <3> QED
      BY <3>3 DEF q
  <2> QED
    BY <1>1, <2>1, <2>2 DEF RetirerPrefixe
<1>5. CASE p \in ToSet(PREFIXES)
  <2>1. PICK i \in 1 .. 31 : p = PREFIXES[i]
    BY <1>1, <1>5 DEF ToSet
  <2>2. Len(p) >= 1 /\ p \in Seq(MotsDePrefixe)
    BY <1>2, <2>1
  <2>3. IsPrefix(p, p \o s)
    BY <2>2, UnAutreDebut
  <2>4. \A j \in 1 .. i - 1 : ~IsPrefix(PREFIXES[j], p \o s)
    <3> TAKE j \in 1 .. i - 1
    <3>1. j \in 1 .. 31 /\ j < i
      OBVIOUS
    <3> DEFINE q == PREFIXES[j]
    <3>2. Separes(q, p)
      BY <2>1, <3>1, ListeDesPrefixes
    <3>3. IsPrefix(q, p \o s) => Len(q) <= Len(p) /\ \A k \in 1 .. Len(q) : q[k] = p[k]
      BY <1>3, <3>1
    <3>4. Len(q) >= 1 /\ q \in Seq(MotsDePrefixe)
      BY <1>2, <3>1
    <3> HIDE DEF q
    <3>5. ~IsPrefix(q, p \o s)
      <4> SUFFICES ASSUME IsPrefix(q, p \o s)
                   PROVE  FALSE
        OBVIOUS
      <4>1. /\ q[1] = p[1]
            /\ 2 <= Len(q) => q[2] = p[2]
            /\ 3 <= Len(q) => q[3] = p[3]
        BY <3>3, <3>4
      <4>2. Len(p) \in Nat /\ Len(q) <= Len(p)
        BY <3>3
      <4> QED
        BY <3>2, <3>4, <4>1, <4>2 DEF Separes
    <3> QED
      BY <3>5 DEF q
  <2> DEFINE Premier(k) == /\ IsPrefix(PREFIXES[k], p \o s)
                           /\ \A j \in 1 .. k - 1 : ~IsPrefix(PREFIXES[j], p \o s)
             premier == CHOOSE k \in 1 .. 31 : Premier(k)
  <2>5. Premier(i)
    BY <2>1, <2>3, <2>4
  <2>6. \A k \in 1 .. 31 : Premier(k) => k = i
    <3> TAKE k \in 1 .. 31
    <3>1. k < i => k \in 1 .. i - 1
      OBVIOUS
    <3>2. i < k => i \in 1 .. k - 1
      OBVIOUS
    <3> QED
      BY <2>5, <3>1, <3>2
  <2>7. premier = i
    <3> HIDE DEF Premier
    <3> QED
      BY <2>5, <2>6
  <2>8. PrefixeDe(p \o s) = p
    BY <1>1, <2>1, <2>7 DEF PrefixeDe
  <2>9. Apres(p \o s, Len(p)) = s
    BY DEF Apres
  <2>10. Head(s) # "DE"
    <3>1. "DE" \in MotsDePrefixe
      BY ListeDesPrefixes
    <3>2. Head(s) = s[1]
      OBVIOUS
    <3> QED
      BY <3>1, <3>2
  <2>11. ~ \A j \in DOMAIN PREFIXES : ~IsPrefix(PREFIXES[j], p \o s)
    BY <1>1, <2>1, <2>3
  <2> QED
    BY <2>8, <2>9, <2>10, <2>11 DEF RetirerPrefixe
<1> QED
  BY <1>4, <1>5

(* The name, one word after another. *)
LEMMA UnMotDuNom ==
    ASSUME NEW M, NEW n \in Seq(M), NEW k \in Nat, k < Len(n)
    PROVE  Append(SubSeq(n, 1, k), n[k + 1]) = SubSeq(n, 1, k + 1)
  OBVIOUS

(* filtrer_tokens keeps a name between volatile words.                      *)
LEMMA NomGarde ==
    ASSUME NEW M, NEW g \in Seq(M), NEW n \in Seq(M), NEW d \in Seq(M),
           \A i \in 1 .. Len(g) : EstVolatil(g[i]),
           \A i \in 1 .. Len(n) : ~EstVolatil(n[i]),
           \A i \in 1 .. Len(d) : EstVolatil(d[i])
    PROVE  Gardes(Autour(g, n, d)) = n
<1> DEFINE w == Autour(g, n, d)
           a == Len(g)
           b == Len(n)
           e == Len(d)
<1>1. /\ w \in Seq(M)
      /\ Len(w) = a + b + e
      /\ \A i \in 1 .. a : w[i] = g[i]
      /\ \A i \in 1 .. b : w[a + i] = n[i]
      /\ \A i \in 1 .. e : w[a + b + i] = d[i]
  BY DEF Autour
<1>2. a \in Nat /\ b \in Nat /\ e \in Nat
  OBVIOUS
<1>3. /\ \A i \in 1 .. a : EstVolatil(g[i])
      /\ \A i \in 1 .. b : ~EstVolatil(n[i])
      /\ \A i \in 1 .. e : EstVolatil(d[i])
  OBVIOUS
<1>4. \A k \in Nat : k < b => Append(SubSeq(n, 1, k), n[k + 1]) = SubSeq(n, 1, k + 1)
  BY UnMotDuNom
<1>5. SubSeq(n, 1, 0) = <<>> /\ SubSeq(n, 1, b) = n
  OBVIOUS
<1> HIDE DEF w, a, b, e
<1>6. PICK f : Filtree(w, f) /\ Gardes(w) = f[Len(w)]
  BY <1>1, GardesDeplies
<1>7. /\ f[0] = <<>>
      /\ \A k \in Nat : k < a + b + e =>
            f[k + 1] = IF EstVolatil(w[k + 1]) THEN f[k] ELSE Append(f[k], w[k + 1])
  BY <1>1, <1>6 DEF Filtree
<1> HIDE DEF Filtree
<1>8. f[a] = <<>>
  <2> DEFINE P == {k \in Nat : f[k] = <<>>}
  <2>1. 0 \in P
    BY <1>7
  <2>2. ASSUME NEW k \in Nat, k < a, k \in P
        PROVE  k + 1 \in P
    <3>1. k + 1 \in 1 .. a /\ k < a + b + e /\ k + 1 \in Nat
      BY <1>2, <2>2
    <3>2. EstVolatil(w[k + 1])
      BY <1>1, <1>3, <3>1
    <3>3. f[k + 1] = f[k]
      BY <1>7, <3>1, <3>2
    <3> QED
      BY <2>2, <3>1, <3>3
  <2>3. \A k \in 0 .. a : k \in P
    <3> HIDE DEF P
    <3> QED
      BY <1>2, <2>1, <2>2, JusquA
  <2>4. a \in 0 .. a
    BY <1>2
  <2> QED
    BY <2>3, <2>4
<1>9. f[a + b] = n
  <2> DEFINE P == {k \in Nat : f[a + k] = SubSeq(n, 1, k)}
  <2>1. 0 \in P
    <3>1. a + 0 = a
      BY <1>2
    <3> QED
      BY <1>5, <1>8, <3>1
  <2>2. ASSUME NEW k \in Nat, k < b, k \in P
        PROVE  k + 1 \in P
    <3>1. k + 1 \in 1 .. b /\ a + k \in Nat /\ a + k < a + b + e /\ k + 1 \in Nat
      BY <1>2, <2>2
    <3>2. (a + k) + 1 = a + (k + 1)
      BY <1>2
    <3>3. w[a + (k + 1)] = n[k + 1] /\ ~EstVolatil(n[k + 1])
      BY <1>1, <1>3, <3>1
    <3>4. f[a + (k + 1)] = Append(f[a + k], n[k + 1])
      BY <1>7, <3>1, <3>2, <3>3
    <3>5. f[a + (k + 1)] = SubSeq(n, 1, k + 1)
      BY <1>4, <2>2, <3>4
    <3> QED
      BY <3>1, <3>5
  <2>3. \A k \in 0 .. b : k \in P
    <3> HIDE DEF P
    <3> QED
      BY <1>2, <2>1, <2>2, JusquA
  <2>4. b \in 0 .. b
    BY <1>2
  <2> QED
    BY <1>5, <2>3, <2>4
<1>10. f[a + b + e] = n
  <2> DEFINE P == {k \in Nat : f[a + b + k] = n}
  <2>1. 0 \in P
    BY <1>2, <1>9
  <2>2. ASSUME NEW k \in Nat, k < e, k \in P
        PROVE  k + 1 \in P
    <3>1. k + 1 \in 1 .. e /\ a + b + k \in Nat /\ a + b + k < a + b + e /\ k + 1 \in Nat
      BY <1>2, <2>2
    <3>2. (a + b + k) + 1 = a + b + (k + 1)
      BY <1>2
    <3>3. EstVolatil(w[a + b + (k + 1)])
      BY <1>1, <1>3, <3>1
    <3>4. f[a + b + (k + 1)] = f[a + b + k]
      BY <1>7, <3>1, <3>2, <3>3
    <3> QED
      BY <2>2, <3>1, <3>4
  <2>3. \A k \in 0 .. e : k \in P
    <3> HIDE DEF P
    <3> QED
      BY <1>2, <2>1, <2>2, JusquA
  <2>4. e \in 0 .. e
    BY <1>2
  <2> QED
    BY <2>3, <2>4
<1> QED
  BY <1>1, <1>6, <1>10 DEF w

-------------------------------------------------------------------------------
(* What is around a name goes, and the name stays.                          *)
THEOREM NomRetrouve ==
    ASSUME NEW l, l.nom # <<>>, Habille(l)
    PROVE  Tiers(Label(l)) = Premiers(l.nom, MAX_TOKENS)
<1>0. PICK M, p, g, n, d :
         /\ M = STRING \cup MotsDePrefixe
         /\ p = l.prefixe /\ g = l.avant /\ n = l.nom /\ d = l.apres
  OBVIOUS
<1>1. g \in Seq(M) /\ n \in Seq(M) /\ d \in Seq(M) /\ Len(n) >= 1
  BY <1>0 DEF Habille, Habillage
<1>2. p \in {<<>>} \cup ToSet(PREFIXES) /\ p \in Seq(M)
  <2>1. DOMAIN PREFIXES = 1 .. 31 /\ \A i \in 1 .. 31 : PREFIXES[i] \in Seq(MotsDePrefixe)
    BY ListeDesPrefixes
  <2>2. p \in {<<>>} \cup ToSet(PREFIXES)
    BY <1>0 DEF Habille
  <2>3. p \in ToSet(PREFIXES) => p \in Seq(MotsDePrefixe)
    BY <2>1 DEF ToSet
  <2>4. <<>> \in Seq(M) /\ \A q \in Seq(MotsDePrefixe) : q \in Seq(M)
    BY <1>0
  <2> QED
    BY <2>2, <2>3, <2>4
<1>3. Head(g \o n) \notin MotsDePrefixe
  BY <1>0 DEF Habille, MotsDePrefixe
<1>4. \A i \in 1 .. Len(n) : ~EstVolatil(n[i])
  BY <1>0, <1>1 DEF Habille, ToSet
<1>5. \A i \in 1 .. 8 : Nom(n, CIVILITES[i])
  <2>1. DOMAIN CIVILITES = 1 .. 8
    BY Civilites
  <2>2. \A i \in 1 .. 8, j \in 1 .. Len(n) : n[j] \notin ToSet(CIVILITES[i])
    <3> TAKE i \in 1 .. 8, j \in 1 .. Len(n)
    <3>1. n[j] \in ToSet(n)
      BY <1>1 DEF ToSet
    <3>2. n[j] \notin UNION {ToSet(CIVILITES[k]) : k \in DOMAIN CIVILITES}
      BY <1>0, <3>1 DEF Habille
    <3> QED
      BY <2>1, <3>2
  <2>3. \A i \in 1 .. 8 : \A k \in 1 .. Len(CIVILITES[i]) : CIVILITES[i][k] \in ToSet(CIVILITES[i])
    <3> TAKE i \in 1 .. 8
    <3>1. CIVILITES[i] \in Seq(MotsDeCivilite)
      BY Civilites
    <3> QED
      BY <3>1 DEF ToSet
  <2> QED
    BY <1>1, <2>2, <2>3 DEF Nom
<1>6. /\ \A mot \in ToSet(RetirerCivilites(g)) : EstVolatil(mot)
      /\ \A mot \in ToSet(RetirerCivilites(d)) : EstVolatil(mot)
  BY <1>0 DEF Habille, Habillage
<1>7. Label(l) = p \o g \o n \o d
  BY <1>0 DEF Label
<1>8. /\ Label(l) = p \o Autour(g, n, d)
      /\ Autour(g, n, d) \in Seq(M)
      /\ Len(Autour(g, n, d)) >= 1
      /\ Autour(g, n, d)[1] \notin MotsDePrefixe
  <2>0. p \in Seq(M) /\ g \in Seq(M) /\ n \in Seq(M)
    BY <1>1, <1>2
  <2>1. PICK x : x = g \o n
    OBVIOUS
  <2>2. x \in Seq(M) /\ Len(x) >= 1 /\ Head(x) = x[1]
    BY <1>1, <2>1
  <2>3. p \o g \o n = p \o x
    <3>1. \A u, v, y \in Seq(M) : u \o v \o y = u \o (v \o y)
      OBVIOUS
    <3> QED
      BY <2>0, <2>1, <3>1, Zenon
  <2>4. p \o x \o d = p \o (x \o d)
    <3>1. p \in Seq(M) /\ d \in Seq(M) /\ x \in Seq(M)
      BY <1>1, <1>2, <2>2
    <3>2. \A u, v, y \in Seq(M) : u \o v \o y = u \o (v \o y)
      OBVIOUS
    <3> QED
      BY <3>1, <3>2, Zenon
  <2>5. x \o d \in Seq(M) /\ Len(x \o d) >= 1 /\ (x \o d)[1] = x[1]
    BY <1>1, <2>2
  <2>6. Autour(g, n, d) = x \o d
    BY <2>1 DEF Autour
  <2>7. Label(l) = p \o (x \o d)
    BY <1>7, <2>3, <2>4, Zenon
  <2>8. x[1] \notin MotsDePrefixe
    BY <1>3, <2>1, <2>2, Zenon
  <2> QED
    BY <2>5, <2>6, <2>7, <2>8, Zenon
<1>9. RetirerPrefixe(Label(l)) = Autour(g, n, d)
  BY <1>2, <1>8, PrefixeRetire
<1>10. RetirerCivilites(Autour(g, n, d)) = Autour(RetirerCivilites(g), n, RetirerCivilites(d))
  BY <1>1, <1>5, CivilitesDUnCote
<1>11. \A s \in Seq(M) : RetirerCivilites(s) \in Seq(M)
  <2> TAKE s \in Seq(M)
  <2>1. PICK f : RetirerCivilites(s) = f[8] /\ \A k \in 0 .. 8 : f[k] \in Seq(M)
    BY CivilitesDepliees
  <2> QED
    BY <2>1
<1>12. PICK x \in Seq(M) : x = RetirerCivilites(g)
  BY <1>1, <1>11
<1>13. PICK y \in Seq(M) : y = RetirerCivilites(d)
  BY <1>1, <1>11
<1>14. /\ \A i \in 1 .. Len(x) : EstVolatil(x[i])
       /\ \A i \in 1 .. Len(y) : EstVolatil(y[i])
  BY <1>6, <1>12, <1>13 DEF ToSet
<1>15. Gardes(Autour(x, n, y)) = n
  BY <1>1, <1>4, <1>14, NomGarde
<1> QED
  BY <1>9, <1>10, <1>12, <1>13, <1>15, <1>0 DEF Tiers, Filtrer

(* The cleaned label of a counterparty is its name, whatever the bank puts  *)
(* around it: every label, of any length, that NomsHabilles describes       *)
(* (domain/libelle.rs:47-150).                                              *)
THEOREM ClefToujoursStable == Spec => []ClefStable
<1>1. Boucle => ClefStable
  <2> SUFFICES ASSUME Boucle, NEW m \in mouvements, Seule(m), m.ligne.nom # <<>>
               PROVE  ExtraireTiers(Label(m.ligne)) = Premiers(m.ligne.nom, MAX_TOKENS)
    BY DEF ClefStable
  <2>1. mouvements \in Entrees /\ mouvements = {m}
    BY DEF Boucle, EnOrdre, Seule
  <2>2. Habille(m.ligne)
    BY <2>1, NomsHabilles
  <2> DEFINE l == m.ligne
             s == Premiers(l.nom, MAX_TOKENS)
  <2>3. Tiers(Label(l)) = s
    BY <2>2, NomRetrouve
  <2>4. s # <<>>
    <3>1. l.nom \in Seq(STRING) /\ l.nom # <<>>
      BY <2>2 DEF Habille
    <3>2. Len(l.nom) >= 1
      BY <3>1
    <3> HIDE DEF l
    <3>3. Len(s) >= 1
      BY <3>1, <3>2 DEF Premiers, MAX_TOKENS
    <3> QED
      BY <3>3
  <2> HIDE DEF l, s
  <2>5. ExtraireTiers(Label(l)) = s
    BY <2>3, <2>4 DEF ExtraireTiers
  <2> QED
    BY <2>5 DEF l, s
<1> QED
  BY BoucleToujours, <1>1, PTL

================================================================================
