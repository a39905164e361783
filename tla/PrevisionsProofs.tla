-------------------------- MODULE PrevisionsProofs --------------------------
(***************************************************************************)
(* The monthly screens.  The cycles of one owner cut the calendar without  *)
(* gap or overlap, for every start day from 1 to 31 and every month, leap  *)
(* years included.  No answer of the screens counts a row twice, for every *)
(* set of operations and every number of accounts, but one whose dates the *)
(* bank replaces meanwhile: that rests on the cycles and on an invariant   *)
(* that says, of each aggregate already read, which cycle and which        *)
(* direction it comes from.  None loses a dated expense: that rests on     *)
(* what the tables keep of it while the worker and the owner write.  The   *)
(* answers on the envelopes add up, whatever the other device does between *)
(* the two SELECTs.                                                        *)
(* The balance foreseen is the one the tables announce: that rests on an   *)
(* invariant that says, while nothing is written, that what was read is    *)
(* what is stored, and on the laws of finite sums.                         *)
(***************************************************************************)
EXTENDS Enveloppes, SequenceTheorems, FiniteSetTheorems, WellFoundedInduction, TLAPS

-------------------------------------------------------------------------------
(* The cycles. *)

\* Every month has 28 to 31 days: the day a cycle starts on is one of them.
LEMMA Longueur ==
    ASSUME NEW m \in Int
    PROVE  DernierJour(m) \in 28..31
  BY DEF DernierJour

\* The month of a date is read back from its number.
LEMMA MoisDUneDate ==
    ASSUME NEW m \in Int, NEW k \in 0..31
    PROVE  MoisDe(Date(m, k)) = m
  BY DEF MoisDe, Date

\* The start day brought into a month is a day of that month, and the first day
\* only for the owners who start on the first.
LEMMA JourRamene ==
    ASSUME NEW m \in Int, NEW j \in JoursDebut
    PROVE  \E k \in 1..31 : /\ JourDansLeMois(m, j) = Date(m, k)
                            /\ k <= DernierJour(m)
                            /\ k = 1 <=> j = 1
                            /\ k <= j
  BY Longueur DEF JourDansLeMois, JoursDebut

\* A cycle starts where the one before it ends (cycle.rs:83-109): no day falls
\* between two cycles, and none in both, whatever the length of the months.
THEOREM CyclesContigus ==
    ASSUME NEW m \in Int, NEW j \in JoursDebut
    PROVE  Debut(m, j) = FinExclue(Precedent(m), j)
  <1>1. CASE j = 1
    <2>1. MoisDe(FinExclue(m, j)) = m + 1
      BY <1>1, MoisDUneDate DEF FinExclue
    <2>2. Debut(m, j) = Date(m, 1)
      BY <1>1, <2>1, Longueur DEF Debut, JourDansLeMois
    <2> QED BY <1>1, <2>2 DEF FinExclue, Precedent
  <1>2. CASE j # 1
    <2>1. PICK k \in 1..31 : FinExclue(m, j) = Date(m, k)
      BY <1>2, JourRamene DEF FinExclue
    <2>2. MoisDe(FinExclue(m, j)) = m
      BY <2>1, MoisDUneDate
    <2> QED BY <1>2, <2>2 DEF Debut, FinExclue, Precedent
  <1> QED BY <1>1, <1>2

\* A cycle is never empty: it holds at least the 28 days of the shortest month.
THEOREM CycleNonVide ==
    ASSUME NEW m \in Int, NEW j \in JoursDebut
    PROVE  Debut(m, j) < FinExclue(m, j)
  <1>1. Debut(m, j) = FinExclue(m - 1, j)
    BY CyclesContigus DEF Precedent
  <1>2. CASE j = 1
    BY <1>1, <1>2 DEF FinExclue, Date
  <1>3. CASE j # 1
    <2>1. PICK k \in 1..31 : FinExclue(m, j) = Date(m, k)
      BY <1>3, JourRamene DEF FinExclue
    <2>2. m - 1 \in Int
      OBVIOUS
    <2>3. PICK l \in 1..31 : FinExclue(m - 1, j) = Date(m - 1, l)
      BY <1>3, <2>2, JourRamene DEF FinExclue
    <2> QED BY <1>1, <2>1, <2>3 DEF Date
  <1> QED BY <1>2, <1>3

\* A cycle bears the name of the month of its last day (comment of
\* cycle.rs:80-82): it holds days of that month and none of a later one.
THEOREM NomDuDernierJour ==
    ASSUME NEW m \in Int, NEW j \in JoursDebut
    PROVE  /\ DansLeCycle(Date(m, 1), m, j)
           /\ \A d \in Dates : DansLeCycle(d, m, j) => MoisDe(d) <= m
  <1>1. Debut(m, j) = FinExclue(m - 1, j)
    BY CyclesContigus DEF Precedent
  <1>2. m - 1 \in Int
    OBVIOUS
  <1>3. CASE j = 1
    <2>1. FinExclue(m, j) = 32 * (m + 1) + 1 /\ Debut(m, j) = 32 * m + 1
      BY <1>1, <1>3 DEF FinExclue, Date
    <2>2. ASSUME NEW d \in Dates, d < 32 * (m + 1) + 1, Debut(m, j) <= d, MoisDe(d) > m
          PROVE  FALSE
      <3>1. d \in Nat /\ d % 32 \in 1..31
        BY Longueur DEF Dates
      <3>2. d = 32 * (m + 1)
        BY <2>2, <3>1 DEF MoisDe
      <3> QED BY <3>1, <3>2
    <2> QED BY <2>1, <2>2 DEF DansLeCycle, Date, MoisDe, Dates
  <1>4. CASE j # 1
    <2>1. PICK k \in 2..31 : FinExclue(m, j) = Date(m, k)
      BY <1>4, JourRamene DEF FinExclue
    <2>2. PICK l \in 1..31 : FinExclue(m - 1, j) = Date(m - 1, l)
      BY <1>4, <1>2, JourRamene DEF FinExclue
    <2> QED BY <1>1, <2>1, <2>2 DEF DansLeCycle, Date, MoisDe, Dates
  <1> QED BY <1>3, <1>4

\* Two cycles of one owner share no day: an operation is counted in one cycle.
THEOREM CyclesDisjoints ==
    ASSUME NEW m \in Int, NEW n \in Int, m < n, NEW j \in JoursDebut, NEW d \in Int
    PROVE  ~(DansLeCycle(d, m, j) /\ DansLeCycle(d, n, j))
  <1>1. Debut(n, j) = FinExclue(n - 1, j)
    BY CyclesContigus DEF Precedent
  <1>2. FinExclue(m, j) <= FinExclue(n - 1, j)
    <2>1. CASE j = 1
      BY <2>1 DEF FinExclue, Date
    <2>2. CASE j # 1
      <3>1. PICK k \in 1..31 : FinExclue(m, j) = Date(m, k)
        BY <2>2, JourRamene DEF FinExclue
      <3>2. n - 1 \in Int
        OBVIOUS
      <3>3. PICK l \in 1..31 : FinExclue(n - 1, j) = Date(n - 1, l)
        BY <2>2, <3>2, JourRamene DEF FinExclue
      <3>4. CASE m = n - 1
        BY <3>1, <3>4 DEF Date
      <3>5. CASE m < n - 1
        BY <3>1, <3>3, <3>5 DEF Date
      <3> QED BY <3>4, <3>5
    <2> QED BY <2>1, <2>2
  <1>3. FinExclue(m, j) \in Int /\ FinExclue(n - 1, j) \in Int
    <2>1. m \in Int /\ n - 1 \in Int
      OBVIOUS
    <2> QED BY <2>1, Longueur DEF FinExclue, JourDansLeMois, Date, JoursDebut
  <1> QED BY <1>1, <1>2, <1>3 DEF DansLeCycle

\* Every day is in a cycle: no operation escapes the monthly screens.
THEOREM ToutJourDansUnCycle ==
    ASSUME NEW d \in Dates, NEW j \in JoursDebut
    PROVE  \E m \in Int : DansLeCycle(d, m, j)
  <1> DEFINE m == MoisDe(d)
  <1>1. d \in Nat /\ m \in Int /\ (d % 32) \in 1..31 /\ d = (32 * m) + (d % 32)
    BY Longueur DEF Dates, MoisDe
  <1>2. Debut(m, j) = FinExclue(m - 1, j) /\ Debut(m + 1, j) = FinExclue(m, j)
    <2>1. m + 1 \in Int /\ (m + 1) - 1 = m
      BY <1>1
    <2> QED BY <1>1, <2>1, CyclesContigus DEF Precedent
  <1>3. CASE j = 1
    BY <1>1, <1>2, <1>3 DEF DansLeCycle, FinExclue, Date
  <1>4. CASE j # 1
    <2>1. m - 1 \in Int /\ m + 1 \in Int
      BY <1>1
    <2>2. PICK k \in 1..31 : FinExclue(m - 1, j) = Date(m - 1, k)
      BY <1>4, <2>1, JourRamene DEF FinExclue
    <2>3. PICK l \in 1..31 : FinExclue(m, j) = Date(m, l)
      BY <1>1, <1>4, JourRamene DEF FinExclue
    <2>4. PICK p \in 1..31 : FinExclue(m + 1, j) = Date(m + 1, p)
      BY <1>4, <2>1, JourRamene DEF FinExclue
    <2>5. CASE d < FinExclue(m, j)
      <3>1. Debut(m, j) <= d
        BY <1>1, <1>2, <2>2 DEF Date
      <3> QED BY <1>1, <2>5, <3>1 DEF DansLeCycle
    <2>6. CASE ~(d < FinExclue(m, j))
      <3>1. Debut(m + 1, j) <= d
        BY <1>1, <1>2, <2>3, <2>6 DEF Date
      <3>2. d < FinExclue(m + 1, j)
        BY <1>1, <2>4 DEF Date
      <3> QED BY <2>1, <3>1, <3>2 DEF DansLeCycle
    <2> QED BY <2>5, <2>6
  <1> QED BY <1>3, <1>4

-------------------------------------------------------------------------------
(* The screens. *)

Tailles == {"solde", "budgets", "categories", "depenses", "revenus"} \X Int

\* A finite function from 1..n is a sequence.
LEMMA FonctionEstSuite ==
    ASSUME NEW S, NEW n \in Nat, NEW f \in [1..n -> S]
    PROVE  f \in Seq(S)
  BY SeqDef

\* Every read of a plan names what it reads, and counts by an integer.
LEMMA PlanBienForme ==
    ASSUME NEW e
    PROVE  Plan(e) \in Seq(Tailles)
  <1>0. Len(Comptes) \in Nat
    BY ParametresBienFormes
  <1>1. [i \in 1..Len(Comptes) |-> <<"solde", i>>] \in Seq(Tailles)
    <2>1. \A i \in 1..Len(Comptes) : <<"solde", i>> \in Tailles
      BY <1>0 DEF Tailles
    <2>2. [i \in 1..Len(Comptes) |-> <<"solde", i>>] \in [1..Len(Comptes) -> Tailles]
      BY <2>1
    <2> QED BY <1>0, <2>2, FonctionEstSuite
  <1>2. <<<<"depenses", 0>>, <<"revenus", 0>>>> \in Seq(Tailles)
    <2>1. <<"depenses", 0>> \in Tailles /\ <<"revenus", 0>> \in Tailles
      BY DEF Tailles
    <2> QED BY <2>1
  <1>3. Precedents \in Seq(Tailles)
    <2>1. ASSUME NEW k \in 1..6
          PROVE  <<IF k % 2 = 1 THEN "depenses" ELSE "revenus", (k + 1) \div 2>> \in Tailles
      <3>1. (k + 1) \div 2 \in Int
        OBVIOUS
      <3> QED BY <3>1 DEF Tailles
    <2>2. Precedents \in [1..6 -> Tailles]
      BY <2>1 DEF Precedents, MOIS_HISTORIQUE
    <2> QED BY <2>2, FonctionEstSuite
  <1>4. <<<<"categories", 0>>>> \in Seq(Tailles) /\ <<<<"budgets", 0>>>> \in Seq(Tailles)
        /\ <<<<"depenses", 0>>>> \in Seq(Tailles)
    <2>1. <<"categories", 0>> \in Tailles /\ <<"budgets", 0>> \in Tailles /\ <<"depenses", 0>> \in Tailles
      BY DEF Tailles
    <2> QED BY <2>1
  <1>5. [k \in 1..(MOIS_HISTORIQUE + 1) |-> <<"depenses", k - 1>>] \in Seq(Tailles)
    <2>1. \A k \in 1..4 : <<"depenses", k - 1>> \in Tailles
      BY DEF Tailles
    <2>2. [k \in 1..4 |-> <<"depenses", k - 1>>] \in [1..4 -> Tailles]
      BY <2>1
    <2>3. MOIS_HISTORIQUE + 1 = 4
      BY DEF MOIS_HISTORIQUE
    <2> QED BY <2>2, <2>3, FonctionEstSuite
  <1>6. CASE e = "forecast"
    BY <1>1, <1>2, <1>3, <1>4, <1>6, ConcatProperties DEF Plan, PlanPrevision, PlanReste
  <1>7. CASE e = "remaining"
    BY <1>4, <1>5, <1>7, ConcatProperties DEF Plan, PlanPrevision, PlanReste
  <1>8. CASE e # "forecast" /\ e # "remaining"
    BY <1>4, <1>8 DEF Plan, PlanDepenses
  <1> QED BY <1>6, <1>7, <1>8

\* The reading in progress, field by field.
Forme == lecture = [ecran |-> lecture.ecran, mois |-> lecture.mois, n |-> lecture.n,
                    jour |-> lecture.jour, soldes |-> lecture.soldes, debits |-> lecture.debits,
                    credits |-> lecture.credits, brut |-> lecture.brut,
                    budgets |-> lecture.budgets, categories |-> lecture.categories]

\* A row of the cycle k cycles back, or one whose dates were replaced since it
\* may have been read there.
Situee(o, k) == o \in redatees \/ DansLaFenetre(o, lecture.mois - k, lecture.jour)

\* What an aggregate of the month k cycles back holds.
Lot(quoi, ids, k) ==
    \A o \in DOMAIN ids :
        /\ o \in Operations /\ o \in enregistrees
        /\ Situee(o, k)
        /\ IF quoi = "depenses" THEN o.montant < 0 ELSE o.montant > 0

Lots(quoi, f) == \A k \in DOMAIN f : k \in Int /\ Lot(quoi, f[k].ids, k)

Origines ==
    /\ Forme
    /\ enregistrees \subseteq Operations
    /\ jour \in JoursDebut
    /\ lecture.jour \in JoursDebut \cup {0}
    /\ lecture.mois \in Int /\ lecture.n \in Nat \ {0}
    /\ lecture.jour = 0 => lecture.debits = Vide /\ lecture.credits = Vide /\ lecture.brut = Vide
    /\ lecture.brut # Vide => /\ EnCours /\ Etape[1] \in {"depenses", "revenus"}
                             /\ Lot(Etape[1], lecture.brut, Etape[2])
    /\ Lots("depenses", lecture.debits)
    /\ Lots("revenus", lecture.credits)

\* The next read of a request in progress is one of its plan.
LEMMA EtapeDuPlan ==
    ASSUME Origines, EnCours
    PROVE  Etape \in Tailles /\ Etape[2] \in Int
  <1>1. Plan(lecture.ecran) \in Seq(Tailles)
    BY PlanBienForme
  <1>2. lecture.n \in 1..Len(Plan(lecture.ecran))
    BY <1>1 DEF Origines, EnCours
  <1> QED BY <1>1, <1>2 DEF Etape, Tailles

LEMMA VideSansElement ==
    /\ DOMAIN Vide = {}
    /\ \A q : Lots(q, Vide)
  BY DEF Vide, Lots

\* The aggregates read from disjoint cycles have no row in common but one whose
\* dates were replaced; those of opposite directions have none.
LEMMA LotsDisjoints ==
    ASSUME Origines
    PROVE  UneSeuleFenetre
  <1>1. ASSUME NEW q, NEW f, Lots(q, f), NEW k \in DOMAIN f, NEW n \in DOMAIN f, k # n,
               lecture.jour # 0
        PROVE  DOMAIN f[k].ids \cap DOMAIN f[n].ids \subseteq redatees
    <2> SUFFICES ASSUME NEW o \in DOMAIN f[k].ids, o \in DOMAIN f[n].ids, o \notin redatees
                 PROVE  FALSE
      OBVIOUS
    <2>1. /\ k \in Int /\ n \in Int /\ o \in Operations
          /\ DateLigne(o) # SansDate
          /\ DansLeCycle(DateLigne(o), lecture.mois - k, lecture.jour)
          /\ DansLeCycle(DateLigne(o), lecture.mois - n, lecture.jour)
      BY <1>1 DEF Lots, Lot, Situee, DansLaFenetre
    <2>2. DateLigne(o) \in Int
      BY <2>1, OperationsBienFormees DEF Dates, SansDate, DateLigne
    <2>3. lecture.jour \in JoursDebut /\ lecture.mois \in Int
      BY <1>1 DEF Origines
    <2>4. lecture.mois - k \in Int /\ lecture.mois - n \in Int
      BY <2>1, <2>3
    <2>5. CASE k < n
      <3>1. lecture.mois - n < lecture.mois - k
        BY <2>1, <2>3, <2>5
      <3> QED BY <2>1, <2>2, <2>3, <2>4, <3>1, CyclesDisjoints
    <2>6. CASE n < k
      <3>1. lecture.mois - k < lecture.mois - n
        BY <2>1, <2>3, <2>6
      <3> QED BY <2>1, <2>2, <2>3, <2>4, <3>1, CyclesDisjoints
    <2> QED BY <1>1, <2>1, <2>5, <2>6
  <1>2. CASE lecture.jour = 0
    BY <1>2, VideSansElement DEF Origines, UneSeuleFenetre
  <1>3. CASE lecture.jour # 0
    <2> SUFFICES ASSUME NEW k \in DOMAIN lecture.debits, NEW n \in DOMAIN lecture.debits,
                        NEW i \in DOMAIN lecture.credits, NEW l \in DOMAIN lecture.credits
                 PROVE  /\ k # n => DOMAIN lecture.debits[k].ids \cap DOMAIN lecture.debits[n].ids \subseteq redatees
                        /\ i # l => DOMAIN lecture.credits[i].ids \cap DOMAIN lecture.credits[l].ids \subseteq redatees
                        /\ DOMAIN lecture.debits[k].ids \cap DOMAIN lecture.credits[i].ids = {}
      BY DEF UneSeuleFenetre
    <2>1. k # n => DOMAIN lecture.debits[k].ids \cap DOMAIN lecture.debits[n].ids \subseteq redatees
      BY <1>1, <1>3 DEF Origines
    <2>2. i # l => DOMAIN lecture.credits[i].ids \cap DOMAIN lecture.credits[l].ids \subseteq redatees
      BY <1>1, <1>3 DEF Origines
    <2>3. DOMAIN lecture.debits[k].ids \cap DOMAIN lecture.credits[i].ids = {}
      <3>1. \A o \in DOMAIN lecture.debits[k].ids : o \in Operations /\ o.montant < 0
        BY DEF Origines, Lots, Lot
      <3>2. \A o \in DOMAIN lecture.credits[i].ids : o.montant > 0
        BY DEF Origines, Lots, Lot
      <3>3. \A o \in Operations : o.montant \in Int
        BY OperationsBienFormees
      <3> QED BY <3>1, <3>2, <3>3
    <2> QED BY <2>1, <2>2, <2>3
  <1> QED BY <1>2, <1>3

\* The rows stay, and those whose dates are replaced are noted.
LignesGardees ==
    /\ enregistrees \subseteq enregistrees' /\ redatees \subseteq redatees'
    /\ \A o \in enregistrees : o \notin redatees' => (o \in definitives' <=> o \in definitives)

\* A row of an aggregate stays one, whatever is stored.
LEMMA SitueeGardee ==
    ASSUME LignesGardees, lecture'.mois = lecture.mois, lecture'.jour = lecture.jour,
           NEW o \in enregistrees, NEW k, Situee(o, k)
    PROVE  o \in enregistrees' /\ (o \in redatees' \/ Situee(o, k)')
  <1>1. CASE o \in redatees'
    BY <1>1 DEF LignesGardees
  <1>2. CASE o \notin redatees'
    <2>1. DansLaFenetre(o, lecture.mois - k, lecture.jour) /\ o \in enregistrees'
      BY <1>2 DEF LignesGardees, Situee
    <2>2. DateLigne(o)' = DateLigne(o)
      BY <1>2 DEF LignesGardees, DateLigne
    <2>3. DansLaFenetre(o, lecture.mois - k, lecture.jour)'
      BY <2>1, <2>2 DEF DansLaFenetre, DansLeCycle, Debut, FinExclue, JourDansLeMois
    <2> QED BY <2>1, <2>3 DEF Situee
  <1> QED BY <1>1, <1>2

LEMMA LotGarde ==
    ASSUME LignesGardees, lecture'.mois = lecture.mois, lecture'.jour = lecture.jour,
           NEW q, NEW f, NEW k, Lot(q, f, k), NEW f2, f2 = f
    PROVE  /\ \A o \in DOMAIN f2 : o \in Operations /\ o \in enregistrees' /\ Situee(o, k)'
           /\ \A o \in DOMAIN f2 : IF q = "depenses" THEN o.montant < 0 ELSE o.montant > 0
  <1> SUFFICES ASSUME NEW o \in DOMAIN f2
               PROVE  /\ o \in Operations /\ o \in enregistrees' /\ Situee(o, k)'
                      /\ IF q = "depenses" THEN o.montant < 0 ELSE o.montant > 0
    OBVIOUS
  <1>1. /\ o \in Operations /\ o \in enregistrees /\ Situee(o, k)
        /\ IF q = "depenses" THEN o.montant < 0 ELSE o.montant > 0
    BY DEF Lot
  <1>2. o \in redatees' => Situee(o, k)'
    BY DEF Situee
  <1> QED BY <1>1, <1>2, SitueeGardee

\* The aggregates already read keep their cycle and their direction.
LEMMA LotsGardes ==
    ASSUME Origines, LignesGardees, lecture'.mois = lecture.mois, lecture'.jour = lecture.jour,
           lecture'.debits = lecture.debits, lecture'.credits = lecture.credits
    PROVE  Lots("depenses", lecture.debits)' /\ Lots("revenus", lecture.credits)'
  <1>1. ASSUME NEW q, NEW f, Lots(q, f), NEW k \in DOMAIN f
        PROVE  /\ k \in Int
               /\ \A o \in DOMAIN f[k].ids : o \in Operations /\ o \in enregistrees' /\ Situee(o, k)'
               /\ \A o \in DOMAIN f[k].ids : IF q = "depenses" THEN o.montant < 0 ELSE o.montant > 0
    <2>1. k \in Int /\ Lot(q, f[k].ids, k)
      BY <1>1 DEF Lots
    <2> QED BY <2>1, LotGarde
  <1>2. Lots("depenses", lecture.debits)'
    BY <1>1 DEF Origines, Lots, Lot
  <1>3. Lots("revenus", lecture.credits)'
    BY <1>1 DEF Origines, Lots, Lot
  <1> QED BY <1>2, <1>3

\* A step that leaves the request alone keeps what is known of it.
LEMMA HorsLecture ==
    ASSUME Origines, UNCHANGED lecture, enregistrees' \subseteq Operations, jour' \in JoursDebut,
           LignesGardees
    PROVE  Origines'
  <1>1. Lots("depenses", lecture.debits)' /\ Lots("revenus", lecture.credits)'
    BY LotsGardes
  <1>2. lecture.brut # Vide => Lot(Etape[1], lecture.brut, Etape[2])'
    <2> SUFFICES ASSUME lecture.brut # Vide
                 PROVE  Lot(Etape[1], lecture.brut, Etape[2])'
      OBVIOUS
    <2>1. Lot(Etape[1], lecture.brut, Etape[2]) /\ lecture.brut' = lecture.brut
      BY DEF Origines
    <2>2. PICK q, k, f : q = Etape[1] /\ k = Etape[2] /\ f = lecture.brut
      OBVIOUS
    <2>3. q = Etape'[1] /\ k = Etape'[2] /\ f = lecture'.brut
      BY <2>1, <2>2 DEF Etape
    <2>4. /\ \A o \in DOMAIN f : o \in Operations /\ o \in enregistrees' /\ Situee(o, k)'
          /\ \A o \in DOMAIN f : IF q = "depenses" THEN o.montant < 0 ELSE o.montant > 0
      BY <2>1, <2>2, LotGarde
    <2> QED BY <2>3, <2>4 DEF Lot, Situee
  <1>3. Forme' /\ (EnCours' <=> EnCours) /\ Etape' = Etape /\ (lecture.brut # Vide)' = (lecture.brut # Vide)
    BY DEF Origines, Forme, EnCours, Etape, Vide
  <1>4. /\ lecture'.jour = lecture.jour /\ lecture'.mois = lecture.mois /\ lecture'.n = lecture.n
        /\ lecture'.debits = lecture.debits /\ lecture'.credits = lecture.credits
        /\ lecture'.brut = lecture.brut /\ Vide' = Vide
    BY DEF Vide
  <1> QED BY <1>1, <1>2, <1>3, <1>4 DEF Origines

\* A read that touches neither the aggregates nor the window goes one step on.
LEMMA AutreLecture ==
    ASSUME Origines, enregistrees' \subseteq Operations, jour' \in JoursDebut, LignesGardees,
           EnCours, lecture.jour # 0, lecture.brut = Vide,
           NEW s, NEW b, NEW c,
           lecture' = [lecture EXCEPT !.n = @ + 1, !.soldes = s, !.budgets = b, !.categories = c]
    PROVE  Origines'
  <1>1. /\ lecture'.ecran = lecture.ecran /\ lecture'.mois = lecture.mois
        /\ lecture'.n = lecture.n + 1 /\ lecture'.jour = lecture.jour
        /\ lecture'.debits = lecture.debits /\ lecture'.credits = lecture.credits
        /\ lecture'.brut = lecture.brut /\ Forme'
    BY DEF Origines, Forme
  <1>2. Lots("depenses", lecture.debits)' /\ Lots("revenus", lecture.credits)'
    BY <1>1, LotsGardes
  <1>3. lecture.brut' = Vide'
    BY <1>1 DEF Vide
  <1> QED BY <1>1, <1>2, <1>3 DEF Origines

\* An aggregate whose operations come from the cycle and the direction the plan
\* asks for takes its place among those of its direction.
LEMMA AgregatPlace ==
    ASSUME Origines, EnCours, lecture.jour # 0,
           NEW f, NEW noms, Etape[1] \in {"depenses", "revenus"},
           Lot(Etape[1], f, Etape[2]), Placer(f, noms),
           UNCHANGED <<enregistrees, definitives, redatees>>, jour' \in JoursDebut
    PROVE  Origines'
  <1> DEFINE k == Etape[2]
             r == [ids |-> f, noms |-> noms]
  <1>1. k \in Int
    BY EtapeDuPlan
  <1>2. /\ lecture'.ecran = lecture.ecran /\ lecture'.mois = lecture.mois
        /\ lecture'.n = lecture.n + 1 /\ lecture'.jour = lecture.jour
        /\ lecture'.brut = Vide /\ Forme'
        /\ \/ /\ Etape[1] = "depenses" /\ lecture'.debits = Avec(lecture.debits, k, r)
              /\ lecture'.credits = lecture.credits
           \/ /\ Etape[1] = "revenus" /\ lecture'.credits = Avec(lecture.credits, k, r)
              /\ lecture'.debits = lecture.debits
    BY DEF Origines, Forme, Placer, Avancer
  <1>3. ASSUME NEW q, NEW g, Lots(q, g), Lot(q, f, k)
        PROVE  Lots(q, Avec(g, k, r))
    BY <1>1, <1>3 DEF Lots, Avec
  <1>4. Lots("depenses", lecture'.debits) /\ Lots("revenus", lecture'.credits)
    BY <1>2, <1>3 DEF Origines
  <1>5. Lots("depenses", lecture.debits)' /\ Lots("revenus", lecture.credits)'
    BY <1>2, <1>4 DEF Lots, Lot, Situee, DansLaFenetre, DateLigne
  <1>6. lecture.brut' = Vide'
    BY <1>2 DEF Vide
  <1> QED BY <1>2, <1>5, <1>6 DEF Origines

\* No writer deletes a row; the one that replaces its dates notes it.
LEMMA EcrituresGardent ==
    ASSUME Synchroniser \/ Modifier \/ \E o \in Operations : Annoncer(o) \/ Passer(o)
    PROVE  LignesGardees /\ lecture' = lecture
  <1>1. ASSUME NEW o \in Operations, Inserer(o)
        PROVE  LignesGardees /\ lecture' = lecture
    <2>1. /\ enregistrees' = enregistrees \cup {o}
          /\ definitives' = definitives \cup ({o} \cap worker.conclues)
          /\ redatees' = redatees \cup ({o} \cap enregistrees)
          /\ lecture' = lecture
      BY <1>1 DEF Inserer
    <2> QED BY <2>1 DEF LignesGardees
  <1>2. ASSUME \/ \E c \in Range(Comptes) : DebutSynchro(c)
               \/ EnregistrerSolde \/ LireTransactions \/ FinSynchro
               \/ \E o \in Operations : Annoncer(o) \/ Passer(o)
               \/ Modifier
        PROVE  LignesGardees /\ lecture' = lecture
    <2>1. UNCHANGED <<enregistrees, definitives, redatees, lecture>>
      BY <1>2 DEF DebutSynchro, EnregistrerSolde, LireTransactions, FinSynchro, Annoncer, Passer, base,
                  Modifier, Categoriser, ReinitialiserInternes, MarquerInternes, DefinirJour,
                  EnregistrerBudget, SupprimerCategorie
    <2> QED BY <2>1 DEF LignesGardees
  <1> QED BY <1>1, <1>2 DEF Synchroniser

\* Every action keeps the invariant; LireMontants and NommerLignes are the ones
\* that read an aggregate, the others leave the request or its window alone.
LEMMA OriginesGardees == Origines /\ [Next]_vars => Origines'
  <1> SUFFICES ASSUME Origines, [Next]_vars
               PROVE  Origines'
    OBVIOUS
  <1> USE DEF Origines
  <1>1. ASSUME NEW e \in Ecrans, NEW m \in MoisDemandes, Demander(e, m)
        PROVE  Origines'
    <2>1. lecture' = [Repos EXCEPT !.ecran = e, !.mois = m]
      BY <1>1 DEF Demander
    <2>2. /\ Forme' /\ lecture'.mois = m /\ lecture'.jour = 0 /\ lecture'.n = 1
          /\ lecture'.debits = Vide /\ lecture'.credits = Vide /\ lecture'.brut = Vide
      BY <2>1 DEF Forme, Repos
    <2>3. m \in Int
      BY ParametresBienFormes
    <2>4. Lots("depenses", lecture.debits)' /\ Lots("revenus", lecture.credits)'
      BY <2>2, VideSansElement DEF Lots
    <2>5. enregistrees' = enregistrees /\ jour' = jour
      BY <1>1 DEF Demander, donnees, base
    <2>6. Vide' = Vide
      BY DEF Vide
    <2> QED BY <2>2, <2>3, <2>4, <2>5, <2>6
  <1>2. CASE LirePreference
    <2>1. /\ lecture' = [lecture EXCEPT !.jour = jour] /\ lecture.jour = 0
          /\ UNCHANGED <<enregistrees, definitives, redatees, jour>>
      BY <1>2 DEF LirePreference, donnees, base
    <2>2. /\ lecture.debits = Vide /\ lecture.credits = Vide /\ lecture.brut = Vide
      BY <2>1
    <2>3. /\ Forme' /\ lecture'.mois = lecture.mois /\ lecture'.jour = jour /\ lecture'.n = lecture.n
          /\ lecture'.debits = Vide /\ lecture'.credits = Vide /\ lecture'.brut = Vide
      BY <2>1, <2>2 DEF Forme
    <2>4. Lots("depenses", lecture.debits)' /\ Lots("revenus", lecture.credits)'
      BY <2>3, VideSansElement DEF Lots
    <2>5. Vide' = Vide
      BY DEF Vide
    <2> QED BY <2>1, <2>3, <2>4, <2>5
  <1>3. CASE LireSolde
    <2>1. /\ EnCours /\ lecture.jour # 0 /\ lecture.brut = Vide
          /\ UNCHANGED <<enregistrees, definitives, redatees, jour>>
      BY <1>3 DEF LireSolde, Prochaine, donnees, base
    <2>2. lecture' = [lecture EXCEPT !.n = @ + 1, !.soldes = Append(lecture.soldes, soldes[Comptes[Etape[2]]]),
                                     !.budgets = lecture.budgets, !.categories = lecture.categories]
      BY <1>3 DEF LireSolde, Avancer, Forme
    <2> QED BY <2>1, <2>2, AutreLecture DEF LignesGardees
  <1>4. CASE LireBudgets
    <2>1. /\ EnCours /\ lecture.jour # 0 /\ lecture.brut = Vide
          /\ UNCHANGED <<enregistrees, definitives, redatees, jour>>
      BY <1>4 DEF LireBudgets, Prochaine, donnees, base
    <2>2. PICK b : lecture' = [lecture EXCEPT !.n = @ + 1, !.budgets = b]
      BY <1>4 DEF LireBudgets, Avancer, Forme
    <2>3. lecture' = [lecture EXCEPT !.n = @ + 1, !.soldes = lecture.soldes,
                                     !.budgets = b, !.categories = lecture.categories]
      BY <2>2 DEF Forme
    <2> QED BY <2>1, <2>3, AutreLecture DEF LignesGardees
  <1>5. CASE LireCategories
    <2>1. /\ EnCours /\ lecture.jour # 0 /\ lecture.brut = Vide
          /\ UNCHANGED <<enregistrees, definitives, redatees, jour>>
      BY <1>5 DEF LireCategories, Prochaine, donnees, base
    <2>2. lecture' = [lecture EXCEPT !.n = @ + 1, !.soldes = lecture.soldes,
                                     !.budgets = lecture.budgets, !.categories = categories]
      BY <1>5 DEF LireCategories, Avancer, Forme
    <2> QED BY <2>1, <2>2, AutreLecture DEF LignesGardees
  <1>6. CASE LireMontants
    <2> DEFINE R == Retenues(Etape[1], Recul(Etape[2]), lecture.jour)
               f == [o \in R |-> rangee[o]]
    <2>1. /\ EnCours /\ lecture.jour # 0 /\ lecture.brut = Vide
          /\ Etape[1] \in {"depenses", "revenus"}
          /\ UNCHANGED <<enregistrees, definitives, redatees, jour>>
          /\ IF R = {} THEN Placer(Vide, {}) ELSE lecture' = [lecture EXCEPT !.brut = f]
      BY <1>6 DEF LireMontants, Prochaine, donnees, base
    <2>2. Lot(Etape[1], f, Etape[2])
      BY DEF Lot, Retenues, Recul, Situee
    <2>3. CASE R = {}
      <3>1. Lot(Etape[1], Vide, Etape[2])
        BY VideSansElement DEF Lot
      <3> QED BY <2>1, <2>3, <3>1, AgregatPlace
    <2>4. CASE R # {}
      <3>1. lecture' = [lecture EXCEPT !.brut = f]
        BY <2>1, <2>4
      <3>2. /\ Forme' /\ lecture'.ecran = lecture.ecran /\ lecture'.mois = lecture.mois
            /\ lecture'.n = lecture.n /\ lecture'.jour = lecture.jour
            /\ lecture'.debits = lecture.debits /\ lecture'.credits = lecture.credits
            /\ lecture'.brut = f
        BY <3>1 DEF Forme
      <3>3. EnCours' /\ Etape' = Etape
        BY <2>1, <3>2 DEF EnCours, Etape
      <3>4. Lot(Etape[1], lecture.brut, Etape[2])'
        BY <2>1, <2>2, <3>2, <3>3 DEF Lot, Situee, DansLaFenetre, DateLigne
      <3>5. Lots("depenses", lecture.debits)' /\ Lots("revenus", lecture.credits)'
        BY <2>1, <3>2, LotsGardes DEF LignesGardees
      <3> QED BY <2>1, <3>2, <3>3, <3>4, <3>5
    <2> QED BY <2>3, <2>4
  <1>7. CASE NommerLignes
    <2>1. /\ EnCours /\ lecture.brut # Vide /\ Placer(lecture.brut, categories)
          /\ UNCHANGED <<enregistrees, definitives, redatees, jour>>
      BY <1>7 DEF NommerLignes, donnees, base
    <2>2. Lot(Etape[1], lecture.brut, Etape[2]) /\ lecture.jour # 0
      BY <2>1
    <2>3. Etape[1] \in {"depenses", "revenus"}
      BY <2>1
    <2> QED BY <2>1, <2>2, <2>3, AgregatPlace
  <1>8. CASE Synchroniser
    <2>1. lecture' = lecture /\ jour' = jour /\ enregistrees' \subseteq Operations
      BY <1>8 DEF Synchroniser, DebutSynchro, EnregistrerSolde, LireTransactions, FinSynchro, Inserer, base
    <2>2. LignesGardees
      BY <1>8, EcrituresGardent
    <2> QED BY <2>1, <2>2, HorsLecture
  <1>9. CASE Modifier
    <2>1. UNCHANGED <<lecture, enregistrees, definitives, redatees>>
      BY <1>9 DEF Modifier, Categoriser, ReinitialiserInternes, MarquerInternes, DefinirJour, EnregistrerBudget, SupprimerCategorie
    <2>2. jour' \in JoursDebut
      BY <1>9, ParametresBienFormes
         DEF Modifier, Categoriser, ReinitialiserInternes, MarquerInternes, DefinirJour, EnregistrerBudget, SupprimerCategorie
    <2> QED BY <2>1, <2>2, HorsLecture DEF LignesGardees
  <1>10. CASE (\E o \in Operations : Annoncer(o) \/ Passer(o)) \/ UNCHANGED vars
    <2>1. UNCHANGED <<lecture, jour, enregistrees, definitives, redatees>>
      BY <1>10 DEF Annoncer, Passer, vars, donnees, base
    <2> QED BY <2>1, HorsLecture DEF LignesGardees
  <1> QED BY <1>1, <1>2, <1>3, <1>4, <1>5, <1>6, <1>7, <1>8, <1>9, <1>10 DEF Next, Lire

\* No answer counts a row twice, whatever the start day becomes while the answer
\* is put together (handlers/previsionnel.rs:36-70, handlers/budgets.rs:78-103),
\* but one the bank books meanwhile, whose dates the upsert replaces
\* (repository/bank_transactions.rs:104-108).
THEOREM OperationCompteeUneFois == Spec => []UneSeuleFenetre
  <1>1. Init => Origines
    <2> SUFFICES ASSUME Init
                 PROVE  Origines
      OBVIOUS
    <2>1. Forme /\ lecture = Repos
      BY DEF Init, Forme, Repos
    <2>2. /\ lecture.jour = 0 /\ lecture.mois = 0 /\ lecture.n = 1
          /\ lecture.debits = Vide /\ lecture.credits = Vide /\ lecture.brut = Vide
      BY <2>1 DEF Repos
    <2>3. enregistrees \subseteq Operations /\ jour \in JoursDebut
      BY OperationsBienFormees, ParametresBienFormes DEF Init
    <2>4. Lots("depenses", lecture.debits) /\ Lots("revenus", lecture.credits)
      BY <2>2, VideSansElement
    <2> QED BY <2>1, <2>2, <2>3, <2>4 DEF Origines
  <1>2. Origines => UneSeuleFenetre
    BY LotsDisjoints
  <1> QED BY <1>1, <1>2, OriginesGardees, PTL DEF Spec

-------------------------------------------------------------------------------
(* What is stored, and the expenses an answer must not lose. *)

\* The expenses recorded before the behaviour starts, which no reconciliation
\* marks as transfers.
DebitsStables == {o \in Anterieures : o.montant < 0 /\ ~o.virement}

Tables ==
    /\ annoncees \subseteq Operations /\ passees \subseteq Operations
    /\ enregistrees \subseteq annoncees \cup passees
    /\ definitives \subseteq enregistrees /\ definitives \subseteq passees
    /\ internes \subseteq enregistrees
    /\ soldes \in [Range(Comptes) -> SUBSET Operations]
    /\ \A c \in Range(Comptes) : soldes[c] \subseteq DuCompte(passees, c)
    /\ categories \subseteq Categories
    /\ rangee \in [Operations -> categories \cup {Aucune}]
    /\ \A k \in DOMAIN budgets : k[1] \in categories /\ budgets[k] \in MontantsPrevus
    /\ jour \in Jours

\* What the worker holds: the operations its account's balance counts, then the
\* lines it still has to store.
Synchronisation ==
    /\ worker = [compte |-> worker.compte, phase |-> worker.phase, recues |-> worker.recues,
                 conclues |-> worker.conclues]
    /\ worker.recues \subseteq annoncees \cup passees /\ worker.conclues \subseteq passees
    /\ worker.phase = "soldes" => worker.recues \subseteq DuCompte(passees, worker.compte)

\* An expense that is there stays, out of the transfers, in the category that
\* was expected or in none once that one is deleted.
DebitsGardes ==
    /\ \A o \in internes : o.virement
    /\ \A o \in DebitsStables :
         o \in enregistrees /\ (o.attendue \in categories => rangee[o] = o.attendue)

Comptages ==
    /\ lecture.jour \in Jours \cup {0}
    /\ redatees \subseteq enregistrees
    /\ remue \in BOOLEAN /\ ecritures \in 0..MaxEcritures

Stockage == Tables /\ Synchronisation /\ DebitsGardes

\* Everything the tables hold at first was shown by the bank and filed as expected.
LEMMA StockageInit == Init => Stockage
  <1> SUFFICES ASSUME Init PROVE Stockage
    OBVIOUS
  <1> USE OperationsBienFormees, ParametresBienFormes
  <1>1. Tables
    BY DEF Init, Tables, DuCompte, Vide
  <1>2. Synchronisation
    BY DEF Init, Synchronisation, Oisif, DuCompte
  <1>3. DebitsGardes
    BY DEF Init, DebitsGardes, DebitsStables
  <1> QED BY <1>1, <1>2, <1>3 DEF Stockage

\* A step that writes nothing keeps what is known of the tables.
LEMMA StockageIntact ==
    ASSUME Stockage, UNCHANGED donnees
    PROVE  Stockage'
  BY DEF Stockage, Tables, Synchronisation, DebitsGardes, DuCompte, donnees, banque, base

\* The bank shows one more operation pending, or books one more.
LEMMA StockagePasse ==
    ASSUME Stockage, NEW o \in Operations, Annoncer(o) \/ Passer(o)
    PROVE  Stockage'
  <1>1. /\ passees \subseteq passees' /\ passees' \subseteq Operations
        /\ annoncees \subseteq annoncees' /\ annoncees' \subseteq Operations
        /\ \A c : DuCompte(passees, c) \subseteq DuCompte(passees, c)'
        /\ UNCHANGED <<soldes, enregistrees, definitives, rangee, internes, categories, budgets, jour, worker>>
    BY DEF Annoncer, Passer, DuCompte, base, Stockage, Tables
  <1> QED BY <1>1 DEF Stockage, Tables, Synchronisation, DebitsGardes, DuCompte

\* The worker stores the balance, then the lines (domain/synchro.rs:235-279); an
\* INSERT that meets a row leaves its category.
LEMMA StockageSynchronise ==
    ASSUME Stockage, Synchroniser
    PROVE  Stockage'
  <1> USE DEF Stockage
  <1>1. ASSUME NEW c \in Range(Comptes), DebutSynchro(c) PROVE Stockage'
    <2>1. /\ worker' = [compte |-> c, phase |-> "soldes", recues |-> DuCompte(passees, c), conclues |-> {}]
          /\ UNCHANGED <<banque, base>>
      BY <1>1 DEF DebutSynchro, Oisif
    <2>2. UNCHANGED <<annoncees, passees, soldes, enregistrees, definitives, rangee, internes, categories,
                      budgets, jour>>
      BY <2>1 DEF banque, base
    <2> QED BY <2>1, <2>2 DEF Tables, Synchronisation, DebitsGardes, DuCompte
  <1>2. CASE EnregistrerSolde
    <2>1. /\ worker' = [worker EXCEPT !.phase = "interroge"]
          /\ worker.phase = "soldes"
          /\ \/ soldes' = [soldes EXCEPT ![worker.compte] = worker.recues]
             \/ soldes' = soldes
          /\ UNCHANGED <<annoncees, passees, enregistrees, definitives, rangee, internes, categories,
                         budgets, jour>>
      BY <1>2 DEF EnregistrerSolde, banque
    <2>2. worker' = [compte |-> worker.compte, phase |-> "interroge", recues |-> worker.recues,
                     conclues |-> worker.conclues]
      BY <2>1 DEF Synchronisation
    <2>3. worker.recues \subseteq DuCompte(passees, worker.compte) /\ worker.recues \subseteq Operations
      BY <2>1 DEF Synchronisation, Tables
    <2>4. Tables'
      <3>1. soldes' \in [Range(Comptes) -> SUBSET Operations]
        BY <2>1, <2>3 DEF Tables
      <3>2. \A c \in Range(Comptes) : soldes'[c] = soldes[c] \/ (c = worker.compte /\ soldes'[c] = worker.recues)
        BY <2>1 DEF Tables
      <3> QED BY <2>1, <2>3, <3>1, <3>2 DEF Tables, DuCompte
    <2> QED BY <2>1, <2>2, <2>4 DEF Synchronisation, DebitsGardes
  <1>3. CASE LireTransactions
    <2> DEFINE B == DuCompte(passees, worker.compte) \ definitives
               R == B \cup (DuCompte(annoncees \ passees, worker.compte) \ enregistrees)
    <2>1. /\ worker' = [worker EXCEPT !.phase = "insere", !.conclues = B, !.recues = R]
          /\ UNCHANGED <<banque, base>>
      BY <1>3 DEF LireTransactions
    <2>2. UNCHANGED <<annoncees, passees, soldes, enregistrees, definitives, rangee, internes, categories,
                      budgets, jour>>
      BY <2>1 DEF banque, base
    <2>3. worker' = [compte |-> worker.compte, phase |-> "insere", recues |-> R, conclues |-> B]
      BY <2>1 DEF Synchronisation
    <2>4. R \subseteq annoncees \cup passees /\ B \subseteq passees
      BY DEF DuCompte
    <2> HIDE DEF R, B
    <2>5. Synchronisation'
      BY <2>2, <2>3, <2>4 DEF Synchronisation
    <2> QED BY <2>2, <2>5 DEF Tables, DebitsGardes, DuCompte
  <1>4. CASE FinSynchro
    <2>1. worker' = Oisif
          /\ UNCHANGED <<annoncees, passees, soldes, enregistrees, definitives, rangee, internes, categories,
                         budgets, jour>>
      BY <1>4 DEF FinSynchro, banque, base
    <2> QED BY <2>1 DEF Tables, Synchronisation, DebitsGardes, DuCompte, Oisif
  <1>5. ASSUME NEW o \in Operations, Inserer(o) PROVE Stockage'
    <2>1. /\ worker.phase = "insere" /\ o \in worker.recues
          /\ worker' = [worker EXCEPT !.recues = @ \ {o}]
          /\ enregistrees' = enregistrees \cup {o}
          /\ definitives' = definitives \cup ({o} \cap worker.conclues)
          /\ UNCHANGED <<annoncees, passees, soldes, rangee, internes, categories, budgets, jour>>
      BY <1>5 DEF Inserer, banque
    <2>2. worker' = [compte |-> worker.compte, phase |-> "insere", recues |-> worker.recues \ {o},
                     conclues |-> worker.conclues]
      BY <2>1 DEF Synchronisation
    <2>3. o \in annoncees \cup passees /\ (o \in worker.conclues => o \in passees)
      BY <2>1 DEF Synchronisation
    <2>4. DebitsGardes'
      BY <2>1 DEF DebitsGardes
    <2>5. Tables'
      BY <2>1, <2>3 DEF Tables, DuCompte
    <2> QED BY <2>1, <2>2, <2>4, <2>5 DEF Synchronisation
  <1> QED BY <1>1, <1>2, <1>3, <1>4, <1>5 DEF Synchroniser

\* The owner and the reconciliation file, mark and delete; none of them takes an
\* expense that is no transfer out of its category but the deletion of that one.
LEMMA StockageModifie ==
    ASSUME Stockage, Modifier
    PROVE  Stockage'
  <1> USE DEF Stockage
  <1>1. ASSUME NEW o \in Operations, Categoriser(o) PROVE Stockage'
    <2>1. /\ o.attendue \in categories /\ internes' \subseteq internes
          /\ rangee' = [rangee EXCEPT ![o] = o.attendue]
          /\ UNCHANGED <<annoncees, passees, soldes, enregistrees, definitives, categories, budgets, jour, worker>>
      BY <1>1 DEF Categoriser, banque
    <2>2. Tables'
      BY <2>1 DEF Tables, DuCompte
    <2>3. DebitsGardes'
      BY <2>1 DEF DebitsGardes, Tables
    <2> QED BY <2>1, <2>2, <2>3 DEF Synchronisation, DuCompte
  <1>2. CASE ReinitialiserInternes
    BY <1>2 DEF ReinitialiserInternes, banque, Tables, Synchronisation, DebitsGardes, DuCompte
  <1>3. CASE MarquerInternes
    <2>1. PICK o \in enregistrees \ internes, p \in enregistrees \ internes :
            /\ o.virement /\ p.virement
            /\ internes' = internes \cup {o, p}
            /\ \E manuelles \in SUBSET {o, p} :
                 rangee' = [x \in Operations |-> IF x \in {o, p} \ manuelles THEN Aucune ELSE rangee[x]]
            /\ UNCHANGED <<annoncees, passees, soldes, enregistrees, definitives, categories, budgets, jour, worker>>
      BY <1>3 DEF MarquerInternes, banque
    <2>2. PICK M : rangee' = [x \in Operations |-> IF x \in {o, p} \ M THEN Aucune ELSE rangee[x]]
      BY <2>1
    <2>3. Tables'
      BY <2>1, <2>2 DEF Tables, DuCompte
    <2>4. DebitsGardes'
      <3>1. \A d \in DebitsStables : d # o /\ d # p /\ d \in Operations
        BY <2>1, OperationsBienFormees DEF DebitsStables
      <3> QED BY <2>1, <2>2, <3>1 DEF DebitsGardes
    <2> QED BY <2>1, <2>3, <2>4 DEF Synchronisation, DuCompte
  <1>4. ASSUME NEW j \in Jours, DefinirJour(j) PROVE Stockage'
    BY <1>4 DEF DefinirJour, banque, Tables, Synchronisation, DebitsGardes, DuCompte
  <1>5. ASSUME NEW c \in Categories, NEW m \in MoisDemandes, NEW a \in MontantsPrevus,
               EnregistrerBudget(c, m, a)
        PROVE  Stockage'
    <2>1. /\ c \in categories
          /\ budgets' = [k \in DOMAIN budgets \cup {<<c, m>>} |-> IF k = <<c, m>> THEN a ELSE budgets[k]]
          /\ UNCHANGED <<annoncees, passees, soldes, enregistrees, definitives, rangee, internes, categories, jour, worker>>
      BY <1>5 DEF EnregistrerBudget, banque
    <2>2. \A k \in DOMAIN budgets' : k[1] \in categories /\ budgets'[k] \in MontantsPrevus
      BY <2>1 DEF Tables
    <2> QED BY <2>1, <2>2 DEF Tables, Synchronisation, DebitsGardes, DuCompte
  <1>6. ASSUME NEW c \in Categories, SupprimerCategorie(c) PROVE Stockage'
    <2>1. /\ categories' = categories \ {c}
          /\ budgets' = [k \in {x \in DOMAIN budgets : x[1] # c} |-> budgets[k]]
          /\ rangee' = [o \in Operations |-> IF rangee[o] = c THEN Aucune ELSE rangee[o]]
          /\ UNCHANGED <<annoncees, passees, soldes, enregistrees, definitives, internes, jour, worker>>
      BY <1>6 DEF SupprimerCategorie, banque
    <2>2. Tables'
      BY <2>1 DEF Tables, DuCompte
    <2>3. DebitsGardes'
      <3>1. \A d \in DebitsStables : d \in Operations
        BY OperationsBienFormees DEF DebitsStables
      <3> QED BY <2>1, <3>1 DEF DebitsGardes, Tables
    <2> QED BY <2>1, <2>2, <2>3 DEF Synchronisation, DuCompte
  <1> QED BY <1>1, <1>2, <1>3, <1>4, <1>5, <1>6 DEF Modifier

\* The expenses of the month k cycles back that an aggregate must hold, but those
\* whose dates were replaced, under the category that was expected as long as it
\* exists.
Entier(ids, k) ==
    \A o \in DebitsStables \ redatees :
        DansLaFenetre(o, lecture.mois - k, lecture.jour) =>
            o \in DOMAIN ids /\ (o.attendue \in categories => ids[o] = o.attendue)

Nomme(noms, k) ==
    \A o \in DebitsStables \ redatees :
        DansLaFenetre(o, lecture.mois - k, lecture.jour) /\ o.attendue \in categories => o.attendue \in noms

\* The same of an aggregate whose names are still to be read.
DepensesLues ==
    /\ lecture.brut # Vide /\ Etape[1] = "depenses" => Entier(lecture.brut, Etape[2])
    /\ \A k \in DOMAIN lecture.debits : Entier(lecture.debits[k].ids, k) /\ Nomme(lecture.debits[k].noms, k)

\* An aggregate stays whole when rows are stored, and when one is replaced.
LEMMA EntierGarde ==
    ASSUME LignesGardees, DebitsGardes, categories' \subseteq categories,
           lecture'.mois = lecture.mois, lecture'.jour = lecture.jour,
           NEW ids, NEW noms, NEW k
    PROVE  (Entier(ids, k) => Entier(ids, k)') /\ (Nomme(noms, k) => Nomme(noms, k)')
  <1>1. ASSUME NEW o \in DebitsStables, o \notin redatees', DansLaFenetre(o, lecture.mois - k, lecture.jour)'
        PROVE  o \notin redatees /\ DansLaFenetre(o, lecture.mois - k, lecture.jour)
    <2>1. o \in enregistrees /\ o \notin redatees
      BY <1>1 DEF DebitsGardes, LignesGardees
    <2>2. DateLigne(o)' = DateLigne(o)
      BY <1>1, <2>1 DEF LignesGardees, DateLigne
    <2> QED BY <1>1, <2>1, <2>2 DEF DansLaFenetre, DansLeCycle, Debut, FinExclue, JourDansLeMois
  <1>2. DebitsStables' = DebitsStables
    BY DEF DebitsStables
  <1>3. ASSUME Entier(ids, k) PROVE Entier(ids, k)'
    BY <1>1, <1>2, <1>3 DEF Entier
  <1>4. ASSUME Nomme(noms, k) PROVE Nomme(noms, k)'
    BY <1>1, <1>2, <1>4 DEF Nomme
  <1> QED BY <1>3, <1>4

\* A step that leaves the request alone and creates no category.
LEMMA DepensesHorsLecture ==
    ASSUME DepensesLues, UNCHANGED lecture, categories' \subseteq categories, LignesGardees, DebitsGardes
    PROVE  DepensesLues'
  <1>1. (lecture.brut # Vide /\ Etape[1] = "depenses" => Entier(lecture.brut, Etape[2]))'
    <2>1. PICK f, k : f = lecture.brut /\ k = Etape[2]
      OBVIOUS
    <2>2. f = lecture'.brut /\ k = Etape'[2] /\ Etape' = Etape /\ Vide' = Vide
      BY <2>1 DEF Etape, Vide
    <2>3. Entier(f, k) => Entier(f, k)'
      BY EntierGarde
    <2>4. f # Vide /\ Etape[1] = "depenses" => Entier(f, k)
      BY <2>1 DEF DepensesLues
    <2> QED BY <2>2, <2>3, <2>4 DEF Entier
  <1>2. ASSUME NEW k \in DOMAIN lecture'.debits
        PROVE  (Entier(lecture.debits[k].ids, k) /\ Nomme(lecture.debits[k].noms, k))'
    <2>1. PICK f, g : f = lecture.debits[k].ids /\ g = lecture.debits[k].noms
      OBVIOUS
    <2>2. Entier(f, k) /\ Nomme(g, k)
      BY <1>2, <2>1 DEF DepensesLues
    <2>3. Entier(f, k)' /\ Nomme(g, k)'
      BY <2>2, EntierGarde
    <2> QED BY <2>1, <2>3 DEF Entier, Nomme
  <1> QED BY <1>1, <1>2 DEF DepensesLues

\* A step of the request that leaves its window and its expenses alone.
LEMMA DepensesAilleurs ==
    ASSUME DepensesLues, UNCHANGED <<categories, definitives, redatees>>,
           lecture'.mois = lecture.mois,
           lecture'.jour = lecture.jour \/ lecture.debits = Vide,
           lecture'.debits = lecture.debits, lecture'.brut = Vide
    PROVE  DepensesLues'
  BY VideSansElement DEF DepensesLues, Entier, Nomme, Vide, DansLaFenetre, DateLigne

\* An aggregate takes its place once its names are known.
LEMMA DepensesPlacees ==
    ASSUME Origines, DepensesLues, EnCours, UNCHANGED <<categories, definitives, redatees>>,
           NEW f, NEW noms, Etape[1] \in {"depenses", "revenus"}, Placer(f, noms),
           Etape[1] = "depenses" => Entier(f, Etape[2]) /\ Nomme(noms, Etape[2])
    PROVE  DepensesLues'
  <1> DEFINE k == Etape[2]
             r == [ids |-> f, noms |-> noms]
  <1>1. /\ lecture'.mois = lecture.mois /\ lecture'.jour = lecture.jour /\ lecture'.brut = Vide
        /\ IF Etape[1] = "depenses" THEN lecture'.debits = Avec(lecture.debits, k, r)
                                    ELSE lecture'.debits = lecture.debits
    BY DEF Origines, Forme, Placer, Avancer
  <1>2. CASE Etape[1] # "depenses"
    BY <1>1, <1>2, DepensesAilleurs
  <1>3. CASE Etape[1] = "depenses"
    <2>1. \A x \in DOMAIN Avec(lecture.debits, k, r) :
             /\ Entier(Avec(lecture.debits, k, r)[x].ids, x)
             /\ Nomme(Avec(lecture.debits, k, r)[x].noms, x)
      <3> SUFFICES ASSUME NEW x \in DOMAIN lecture.debits \cup {k}
                   PROVE  /\ Entier(Avec(lecture.debits, k, r)[x].ids, x)
                          /\ Nomme(Avec(lecture.debits, k, r)[x].noms, x)
        BY DEF Avec
      <3>1. CASE x = k
        <4>1. Avec(lecture.debits, k, r)[x] = r
          BY <3>1 DEF Avec
        <4> QED BY <1>3, <3>1, <4>1
      <3>2. CASE x # k
        <4>1. Avec(lecture.debits, k, r)[x] = lecture.debits[x]
          BY <3>2 DEF Avec
        <4> QED BY <3>2, <4>1 DEF DepensesLues
      <3> QED BY <3>1, <3>2
    <2>2. lecture'.debits = Avec(lecture.debits, k, r)
      BY <1>1, <1>3
    <2> HIDE DEF k, r
    <2>3. (\A x \in DOMAIN lecture.debits : Entier(lecture.debits[x].ids, x) /\ Nomme(lecture.debits[x].noms, x))'
      BY <1>1, <2>1, <2>2 DEF Entier, Nomme, DansLaFenetre, DateLigne
    <2>4. lecture'.brut = Vide'
      BY <1>1 DEF Vide
    <2> QED BY <2>3, <2>4 DEF DepensesLues
  <1> QED BY <1>2, <1>3

\* Between the first SELECT of the expenses and their names, nothing is lost:
\* what is read there is what the invariant of the tables says is stored.
LEMMA DepensesGardees ==
    ASSUME Origines, Stockage, DepensesLues, Next
    PROVE  DepensesLues'
  <1>1. ASSUME NEW e \in Ecrans, NEW m \in MoisDemandes, Demander(e, m)
        PROVE  DepensesLues'
    <2>1. lecture'.debits = Vide /\ lecture'.brut = Vide /\ Vide' = Vide
      BY <1>1 DEF Demander, Repos, Vide
    <2> QED BY <2>1, VideSansElement DEF DepensesLues
  <1>2. CASE LirePreference
    <2>1. /\ lecture.jour = 0 /\ lecture' = [lecture EXCEPT !.jour = jour]
          /\ UNCHANGED <<categories, definitives, redatees>>
      BY <1>2 DEF LirePreference, donnees, base
    <2>2. lecture.debits = Vide /\ lecture.brut = Vide
      BY <2>1 DEF Origines
    <2>3. /\ lecture'.mois = lecture.mois /\ lecture'.debits = lecture.debits
          /\ lecture'.brut = Vide
      BY <2>1, <2>2 DEF Origines, Forme
    <2> QED BY <2>1, <2>2, <2>3, DepensesAilleurs
  <1>3. CASE LireSolde \/ LireBudgets \/ LireCategories
    <2>1. lecture.brut = Vide /\ UNCHANGED <<categories, definitives, redatees>>
      BY <1>3 DEF LireSolde, LireBudgets, LireCategories, Prochaine, donnees, base
    <2>2. /\ lecture'.mois = lecture.mois /\ lecture'.jour = lecture.jour
          /\ lecture'.debits = lecture.debits /\ lecture'.brut = lecture.brut
      BY <1>3 DEF LireSolde, LireBudgets, LireCategories, Avancer, Origines, Forme
    <2> QED BY <2>1, <2>2, DepensesAilleurs
  <1>4. CASE LireMontants
    <2> DEFINE R == Retenues(Etape[1], Recul(Etape[2]), lecture.jour)
               f == [o \in R |-> rangee[o]]
    <2>1. /\ EnCours /\ lecture.brut = Vide /\ UNCHANGED <<categories, definitives, redatees>>
          /\ Etape[1] \in {"depenses", "revenus"}
          /\ IF R = {} THEN Placer(Vide, {}) ELSE lecture' = [lecture EXCEPT !.brut = f]
      BY <1>4 DEF LireMontants, Prochaine, donnees, base
    <2>2. ASSUME Etape[1] = "depenses", NEW o \in DebitsStables,
                 DansLaFenetre(o, lecture.mois - Etape[2], lecture.jour)
          PROVE  o \in R /\ (o.attendue \in categories => rangee[o] = o.attendue)
      <3>1. o \in enregistrees /\ o \notin internes /\ o.montant < 0
        BY DEF Stockage, DebitsGardes, DebitsStables
      <3>2. o \in R
        BY <2>2, <3>1 DEF Retenues, Recul
      <3> QED BY <3>2 DEF Stockage, DebitsGardes
    <2>3. Etape[1] = "depenses" => Entier(f, Etape[2])
      BY <2>2 DEF Entier
    <2>4. CASE R = {}
      <3>1. Etape[1] = "depenses" => Entier(Vide, Etape[2]) /\ Nomme({}, Etape[2])
        BY <2>2, <2>4 DEF Entier, Nomme
      <3>2. Placer(Vide, {})
        BY <2>1, <2>4
      <3> QED BY <2>1, <3>1, <3>2, DepensesPlacees
    <2>5. CASE R # {}
      <3>1. lecture' = [lecture EXCEPT !.brut = f]
        BY <2>1, <2>5
      <3>2. /\ lecture'.ecran = lecture.ecran /\ lecture'.mois = lecture.mois
            /\ lecture'.n = lecture.n /\ lecture'.jour = lecture.jour
            /\ lecture'.debits = lecture.debits /\ lecture'.brut = f
        BY <3>1 DEF Origines, Forme
      <3>3. Etape' = Etape
        BY <3>2 DEF Etape
      <3>4. (Etape[1] = "depenses" => Entier(lecture.brut, Etape[2]))'
        BY <2>1, <2>3, <3>2, <3>3 DEF Entier, DansLaFenetre, DateLigne
      <3>5. (\A k \in DOMAIN lecture.debits :
                Entier(lecture.debits[k].ids, k) /\ Nomme(lecture.debits[k].noms, k))'
        BY <2>1, <3>2 DEF DepensesLues, Entier, Nomme, DansLaFenetre, DateLigne
      <3> QED BY <3>4, <3>5 DEF DepensesLues
    <2> QED BY <2>4, <2>5
  <1>5. CASE NommerLignes
    <2>1. /\ EnCours /\ lecture.brut # Vide /\ Placer(lecture.brut, categories)
          /\ UNCHANGED <<categories, definitives, redatees>>
      BY <1>5 DEF NommerLignes, donnees, base
    <2>2. Etape[1] \in {"depenses", "revenus"}
      BY <2>1 DEF Origines
    <2>3. Etape[1] = "depenses" => Entier(lecture.brut, Etape[2]) /\ Nomme(categories, Etape[2])
      BY <2>1 DEF DepensesLues, Nomme
    <2> QED BY <2>1, <2>2, <2>3, DepensesPlacees
  <1>6. CASE Synchroniser \/ \E o \in Operations : Annoncer(o) \/ Passer(o)
    <2>1. categories' = categories
      BY <1>6 DEF Annoncer, Passer, Synchroniser, DebutSynchro, EnregistrerSolde, LireTransactions,
                  FinSynchro, Inserer, base
    <2> QED BY <1>6, <2>1, EcrituresGardent, DepensesHorsLecture DEF Stockage
  <1>7. CASE Modifier
    <2>1. categories' \subseteq categories
      BY <1>7 DEF Modifier, Categoriser, ReinitialiserInternes, MarquerInternes, DefinirJour,
                  EnregistrerBudget, SupprimerCategorie
    <2> QED BY <1>7, <2>1, EcrituresGardent, DepensesHorsLecture DEF Stockage
  <1> QED BY <1>1, <1>2, <1>3, <1>4, <1>5, <1>6, <1>7 DEF Next, Lire

\* All that is known of the screens and of the tables they read.
InvariantEcrans == Origines /\ Stockage /\ DepensesLues /\ Comptages

\* It holds before the first request.
LEMMA EcransInit == Init => InvariantEcrans
  <1> SUFFICES ASSUME Init PROVE InvariantEcrans
    OBVIOUS
  <1>1. Stockage
    BY StockageInit
  <1>2. /\ lecture = Repos /\ lecture.jour = 0 /\ lecture.mois = 0 /\ lecture.n = 1
        /\ lecture.debits = Vide /\ lecture.credits = Vide /\ lecture.brut = Vide
    BY DEF Init, Repos
  <1>3. Origines
    BY <1>2, VideSansElement, OperationsBienFormees, ParametresBienFormes
       DEF Init, Origines, Forme, Repos
  <1>4. DepensesLues
    BY <1>2, VideSansElement DEF DepensesLues
  <1>5. Comptages
    <2>1. lecture.jour = 0 /\ remue = FALSE /\ redatees = {} /\ ecritures = 0 /\ MaxEcritures \in Nat
      BY <1>2, ParametresBienFormes DEF Init
    <2>2. remue \in BOOLEAN
      BY <2>1, Zenon
    <2> QED BY <2>1, <2>2 DEF Comptages
  <1> QED BY <1>1, <1>3, <1>4, <1>5 DEF InvariantEcrans

\* The window is a start day that was read, the counters stay in their bounds.
LEMMA ComptagesGardes ==
    ASSUME Origines, Stockage, Comptages, Next
    PROVE  Comptages'
  <1> USE DEF Comptages
  <1>1. ASSUME NEW e \in Ecrans, NEW m \in MoisDemandes, Demander(e, m)
        PROVE  Comptages'
    <2>1. lecture'.jour = 0 /\ remue' = FALSE /\ redatees' = {} /\ ecritures' = ecritures
      BY <1>1 DEF Demander, Repos
    <2>2. remue' \in BOOLEAN
      BY <2>1, Zenon
    <2> QED BY <2>1, <2>2
  <1>2. CASE LirePreference
    BY <1>2 DEF LirePreference, donnees, base, Origines, Forme, Stockage, Tables
  <1>3. CASE LireSolde \/ LireBudgets \/ LireCategories \/ LireMontants \/ NommerLignes
    <2>1. lecture'.jour = lecture.jour
      BY <1>3 DEF LireSolde, LireBudgets, LireCategories, LireMontants, NommerLignes, Placer, Avancer,
                  Origines, Forme
    <2>2. UNCHANGED <<remue, redatees, enregistrees, ecritures>>
      BY <1>3 DEF LireSolde, LireBudgets, LireCategories, LireMontants, NommerLignes, donnees, base
    <2> QED BY <2>1, <2>2
  <1>4. CASE Synchroniser \/ \E o \in Operations : Annoncer(o) \/ Passer(o)
    <2>1. ASSUME NEW o \in Operations, Inserer(o)
          PROVE  redatees' \subseteq enregistrees'
      <3>1. enregistrees' = enregistrees \cup {o} /\ redatees' = redatees \cup ({o} \cap enregistrees)
        BY <2>1 DEF Inserer
      <3> QED BY <3>1
    <2>2. ASSUME \/ \E c \in Range(Comptes) : DebutSynchro(c)
                 \/ EnregistrerSolde \/ LireTransactions \/ FinSynchro
                 \/ \E o \in Operations : Annoncer(o) \/ Passer(o)
          PROVE  UNCHANGED <<redatees, enregistrees>>
      BY <2>2 DEF DebutSynchro, EnregistrerSolde, LireTransactions, FinSynchro, Annoncer, Passer, base
    <2>3. redatees' \subseteq enregistrees'
      BY <1>4, <2>1, <2>2 DEF Synchroniser
    <2>4. lecture' = lecture /\ ecritures' = ecritures /\ (remue' = TRUE \/ remue' = remue)
      BY <1>4 DEF Annoncer, Passer, Synchroniser, DebutSynchro, EnregistrerSolde, LireTransactions,
                  FinSynchro, Inserer, Bouger
    <2>5. remue' \in BOOLEAN
      BY <2>4, Zenon
    <2> QED BY <2>3, <2>4, <2>5
  <1>5. CASE Modifier
    <2>1. /\ lecture' = lecture /\ remue' = TRUE /\ UNCHANGED <<redatees, enregistrees>>
          /\ ecritures' = ecritures \/ (ecritures < MaxEcritures /\ ecritures' = ecritures + 1)
      BY <1>5 DEF Modifier, Categoriser, ReinitialiserInternes, MarquerInternes, DefinirJour,
                  EnregistrerBudget, SupprimerCategorie, Ecrire, Bouger
    <2>2. remue' \in BOOLEAN
      BY <2>1, Zenon
    <2> QED BY <2>1, <2>2, ParametresBienFormes
  <1> QED BY <1>1, <1>2, <1>3, <1>4, <1>5 DEF Next, Lire

\* Every step of the screens keeps it.
LEMMA EcransGardes ==
    ASSUME InvariantEcrans, Next
    PROVE  InvariantEcrans'
  <1> USE DEF InvariantEcrans
  <1>1. Stockage'
    <2>1. CASE Lire \/ \E e \in Ecrans, m \in MoisDemandes : Demander(e, m)
      <3>1. UNCHANGED donnees
        BY <2>1 DEF Demander, Lire, LirePreference, LireSolde, LireBudgets, LireCategories,
                    LireMontants, NommerLignes
      <3> QED BY <3>1, StockageIntact
    <2> QED BY <2>1, StockagePasse, StockageSynchronise, StockageModifie DEF Next
  <1>2. Origines'
    BY OriginesGardees
  <1>3. DepensesLues' /\ Comptages'
    BY DepensesGardees, ComptagesGardes
  <1> QED BY <1>1, <1>2, <1>3

\* What it says of the answers.
LEMMA EcransSuffisent ==
    ASSUME InvariantEcrans
    PROVE  TypeOK /\ UneSeuleFenetre /\ DepensesEntieres
  <1>1. TypeOK
    BY DEF InvariantEcrans, Stockage, Tables, Synchronisation, Comptages, TypeOK
  <1>2. UneSeuleFenetre
    BY LotsDisjoints DEF InvariantEcrans
  <1>3. DepensesEntieres
    BY DEF InvariantEcrans, DepensesLues, Entier, Nomme, DebitsStables, DepensesEntieres, Recul
  <1> QED BY <1>1, <1>2, <1>3

\* The rows, the synchronisation and the request keep their types: every row is
\* one the bank has shown, pending or booked, and none is stored as booked before
\* the bank has booked it (domain/synchro.rs:265-279).
THEOREM TypesDesEcrans == Spec => []TypeOK
  <1>1. InvariantEcrans /\ [Next]_vars => InvariantEcrans'
    <2> SUFFICES ASSUME InvariantEcrans, [Next]_vars PROVE InvariantEcrans'
      OBVIOUS
    <2>1. CASE UNCHANGED vars
      <3>1. UNCHANGED <<donnees, lecture, remue, redatees, ecritures>>
        BY <2>1 DEF vars
      <3>2. Stockage' /\ UNCHANGED <<categories, enregistrees, definitives>>
        BY <3>1, StockageIntact DEF InvariantEcrans, donnees, base
      <3>3. Origines'
        BY OriginesGardees DEF InvariantEcrans
      <3>4. DepensesLues'
        BY <3>1, <3>2, DepensesHorsLecture DEF InvariantEcrans, Stockage, LignesGardees
      <3> QED BY <3>1, <3>2, <3>3, <3>4 DEF InvariantEcrans, Comptages
    <2> QED BY <2>1, EcransGardes
  <1>2. InvariantEcrans => TypeOK
    BY EcransSuffisent
  <1> QED BY <1>1, <1>2, EcransInit, PTL DEF Spec

-------------------------------------------------------------------------------
(* The envelopes. *)

\* The request, field by field; an operation is in an envelope that exists, or
\* in none (the foreign key of migrations/0018_enveloppes.sql).
Formes ==
    /\ suivi = [etape |-> suivi.etape, vise |-> suivi.vise, listees |-> suivi.listees,
                lignes |-> suivi.lignes, presentes |-> suivi.presentes]
    /\ enveloppe \in [Budgets -> {"neuve", "existe", "supprimee"}]
    /\ affectee \in [Affectables -> Existantes \cup {Aucune}]

\* An operation that stayed where it was since the request began is there now,
\* in an envelope that existed all along; those are on the list.
Inchangees ==
    /\ \A f \in fideles :
         /\ f[1] \in Affectables /\ affectee[f[1]] = f[2]
         /\ f[2] \in suivi.presentes
    /\ suivi.presentes \subseteq Existantes
    /\ suivi.etape = "consommer" => suivi.presentes \subseteq suivi.listees

Recoupement == Formes /\ Inchangees /\ EnveloppeRecoupee

\* Nothing of the envelopes changes in a step of the screens but the answer,
\* which the next request forgets.
LEMMA RecoupementHorsEnveloppes ==
    ASSUME Recoupement, UNCHANGED <<enveloppe, affectee>>,
           \/ UNCHANGED <<suivi, fideles>>
           \/ suivi' = SuiviRepos /\ fideles' = {}
    PROVE  Recoupement'
  <1>1. CASE UNCHANGED <<suivi, fideles>>
    BY <1>1 DEF Recoupement, Formes, Inchangees, EnveloppeRecoupee, Existantes
  <1>2. CASE suivi' = SuiviRepos /\ fideles' = {}
    BY <1>2 DEF Recoupement, Formes, Inchangees, EnveloppeRecoupee, Existantes, SuiviRepos
  <1> QED BY <1>1, <1>2

\* GET, or the SELECT that follows an UPDATE: what is filed, and in which
\* envelopes, is noted as the request begins.
LEMMA RecoupementOuvert ==
    ASSUME Recoupement, NEW v, Ouvrir(v)
    PROVE  Recoupement'
  <1>1. /\ suivi' = [etape |-> "lister", vise |-> v, listees |-> {}, lignes |-> Vide,
                     presentes |-> Existantes]
        /\ fideles' = Affectations /\ enveloppe' = enveloppe /\ affectee' = affectee
    BY DEF Ouvrir, SuiviRepos
  <1>2. Formes'
    BY <1>1 DEF Recoupement, Formes, Existantes
  <1>3. \A f \in Affectations : /\ f[1] \in Affectables /\ affectee[f[1]] = f[2]
                                /\ f[2] \in Existantes
    BY DEF Affectations, Recoupement, Formes
  <1>4. Inchangees'
    BY <1>1, <1>3 DEF Inchangees, Existantes
  <1> QED BY <1>1, <1>2, <1>4 DEF Recoupement, EnveloppeRecoupee

\* First SELECT: what existed all along is on the list.
LEMMA RecoupementListe ==
    ASSUME Recoupement, ListerEnveloppes
    PROVE  Recoupement'
  <1>1. /\ suivi' = [etape |-> "consommer", vise |-> suivi.vise, listees |-> Existantes,
                     lignes |-> suivi.lignes, presentes |-> suivi.presentes]
        /\ fideles' = fideles /\ enveloppe' = enveloppe /\ affectee' = affectee
    BY DEF ListerEnveloppes, Recoupement, Formes
  <1>2. Formes'
    BY <1>1 DEF Recoupement, Formes, Existantes
  <1>3. Inchangees'
    BY <1>1 DEF Recoupement, Inchangees, Existantes
  <1> QED BY <1>1, <1>2, <1>3 DEF Recoupement, EnveloppeRecoupee

\* Second SELECT: one reading of all that is filed, so no operation is in two
\* lines, and one that stayed in its envelope is read there.
LEMMA RecoupementLu ==
    ASSUME Recoupement, LireConsommations
    PROVE  Recoupement'
  <1> DEFINE montrees == IF suivi.vise = Aucune THEN suivi.listees ELSE {suivi.vise}
             lignes == [e \in montrees |-> IF e \in suivi.listees THEN Consommees(e) ELSE {}]
  <1>1. /\ suivi.etape = "consommer"
        /\ suivi' = [etape |-> "rendue", vise |-> suivi.vise, listees |-> suivi.listees,
                     lignes |-> lignes, presentes |-> suivi.presentes]
        /\ fideles' = fideles /\ enveloppe' = enveloppe /\ affectee' = affectee
    BY DEF LireConsommations, Recoupement, Formes
  <1>2. Formes'
    BY <1>1 DEF Recoupement, Formes, Existantes
  <1>3. Inchangees'
    BY <1>1 DEF Recoupement, Inchangees, Existantes
  <1>4. \A e, f \in montrees : e # f => lignes[e] \cap lignes[f] = {}
    BY DEF Consommees
  <1>5. \A f \in fideles : f[2] \in montrees => f[1] \in lignes[f[2]]
    <2>1. \A f \in fideles : f[2] \in suivi.listees /\ f[1] \in Consommees(f[2])
      BY <1>1 DEF Recoupement, Inchangees, Consommees
    <2> QED BY <2>1
  <1>6. suivi.vise = Aucune => suivi.presentes \subseteq montrees
    BY <1>1 DEF Recoupement, Inchangees
  <1>7. EnveloppeRecoupee'
    <2>1. suivi'.lignes = lignes /\ suivi'.vise = suivi.vise /\ suivi'.presentes = suivi.presentes
      BY <1>1
    <2>2. DOMAIN lignes = montrees
      OBVIOUS
    <2> HIDE DEF lignes, montrees
    <2> QED BY <1>1, <1>4, <1>5, <1>6, <2>1, <2>2 DEF EnveloppeRecoupee
  <1> QED BY <1>2, <1>3, <1>7 DEF Recoupement

\* The other device: what it changes is no longer said to have stayed.
LEMMA RecoupementEcrit ==
    ASSUME Recoupement,
           \/ \E e \in Budgets : CreerEnveloppe(e) \/ SupprimerEnveloppe(e)
           \/ \E o \in Affectables, e \in Budgets \cup {Aucune} : Affecter(o, e)
    PROVE  Recoupement'
  <1>1. ASSUME NEW e \in Budgets, CreerEnveloppe(e)
        PROVE  Recoupement'
    <2>1. /\ Existantes \subseteq Existantes'
          /\ enveloppe' \in [Budgets -> {"neuve", "existe", "supprimee"}]
          /\ UNCHANGED <<affectee, suivi, fideles>>
      BY <1>1 DEF CreerEnveloppe, Existantes, Recoupement, Formes
    <2>2. Formes'
      BY <2>1 DEF Recoupement, Formes
    <2>3. Inchangees' /\ EnveloppeRecoupee'
      BY <2>1 DEF Recoupement, Inchangees, EnveloppeRecoupee
    <2> QED BY <2>2, <2>3 DEF Recoupement
  <1>2. ASSUME NEW e \in Budgets, SupprimerEnveloppe(e)
        PROVE  Recoupement'
    <2>1. /\ Existantes' = Existantes \ {e}
          /\ enveloppe' \in [Budgets -> {"neuve", "existe", "supprimee"}]
      BY <1>2 DEF SupprimerEnveloppe, Existantes, Recoupement, Formes
    <2>2. /\ affectee' = [o \in Affectables |-> IF affectee[o] = e THEN Aucune ELSE affectee[o]]
          /\ fideles' = {f \in fideles : f[2] # e}
          /\ suivi' = [etape |-> suivi.etape, vise |-> suivi.vise, listees |-> suivi.listees,
                       lignes |-> suivi.lignes, presentes |-> suivi.presentes \ {e}]
      BY <1>2 DEF SupprimerEnveloppe, Recoupement, Formes
    <2>3. Formes'
      BY <2>1, <2>2 DEF Recoupement, Formes
    <2>4. Inchangees'
      BY <2>1, <2>2 DEF Recoupement, Inchangees
    <2>5. EnveloppeRecoupee'
      BY <2>2 DEF Recoupement, EnveloppeRecoupee
    <2> QED BY <2>3, <2>4, <2>5 DEF Recoupement
  <1>3. ASSUME NEW o \in Affectables, NEW e \in Budgets \cup {Aucune}, Affecter(o, e)
        PROVE  Recoupement'
    <2>1. /\ e \in Existantes \cup {Aucune}
          /\ affectee' = [affectee EXCEPT ![o] = e]
          /\ fideles' = {f \in fideles : f[1] # o}
          /\ enveloppe' = enveloppe /\ suivi' = suivi
      BY <1>3 DEF Affecter
    <2>2. Existantes' = Existantes
      BY <2>1 DEF Existantes
    <2>3. Formes'
      BY <2>1, <2>2 DEF Recoupement, Formes
    <2>4. Inchangees'
      BY <2>1, <2>2 DEF Recoupement, Inchangees, Formes
    <2>5. EnveloppeRecoupee'
      BY <2>1 DEF Recoupement, EnveloppeRecoupee
    <2> QED BY <2>3, <2>4, <2>5 DEF Recoupement
  <1> QED BY <1>1, <1>2, <1>3

\* An answer on the envelopes can be added up, for every number of envelopes,
\* operations and writes between its SELECTs (repository/enveloppes.rs:95-126).
THEOREM EnveloppeToujoursRecoupee == SpecEnveloppes => []EnveloppeRecoupee
  <1>1. InitEnveloppes => Recoupement
    BY DEF InitEnveloppes, SuiviRepos, Recoupement, Formes, Inchangees, EnveloppeRecoupee
  <1>2. Recoupement /\ [NextEnveloppes]_varsEnveloppes => Recoupement'
    <2> SUFFICES ASSUME Recoupement, [NextEnveloppes]_varsEnveloppes
                 PROVE  Recoupement'
      OBVIOUS
    <2>1. CASE Ecran
      BY <2>1, RecoupementHorsEnveloppes DEF Ecran
    <2>2. CASE ListerDemande \/ \E e \in Budgets : ModifierEnveloppe(e)
      BY <2>2, RecoupementOuvert DEF ListerDemande, ModifierEnveloppe
    <2>3. CASE ListerEnveloppes \/ LireConsommations
      BY <2>3, RecoupementListe, RecoupementLu
    <2>4. CASE \/ \E e \in Budgets : CreerEnveloppe(e) \/ SupprimerEnveloppe(e)
               \/ \E o \in Affectables, e \in Budgets \cup {Aucune} : Affecter(o, e)
      BY <2>4, RecoupementEcrit
    <2>5. CASE UNCHANGED varsEnveloppes
      BY <2>5, RecoupementHorsEnveloppes DEF varsEnveloppes
    <2> QED BY <2>1, <2>2, <2>3, <2>4, <2>5 DEF NextEnveloppes
  <1>3. Recoupement => EnveloppeRecoupee
    BY DEF Recoupement
  <1> QED BY <1>1, <1>2, <1>3, PTL DEF SpecEnveloppes

\* The screens beside the envelopes: their requests answer one at a time, and
\* the other device writes nothing a screen reads.
LEMMA EcransParmiEnveloppes ==
    ASSUME InvariantEcrans, [NextEnveloppes]_varsEnveloppes
    PROVE  InvariantEcrans'
  <1>1. ASSUME NEW v, Ouvrir(v)
        PROVE  InvariantEcrans'
    <2>1. /\ UNCHANGED donnees /\ lecture' = Repos /\ remue' = FALSE /\ redatees' = {}
          /\ ecritures' = ecritures
      BY <1>1 DEF Ouvrir
    <2>2. /\ Stockage' /\ enregistrees' = enregistrees /\ jour' = jour
      BY <2>1, StockageIntact DEF InvariantEcrans, donnees, base
    <2>3. /\ lecture'.jour = 0 /\ lecture'.mois = 0 /\ lecture'.n = 1 /\ Forme'
          /\ lecture'.debits = Vide /\ lecture'.credits = Vide /\ lecture'.brut = Vide
      BY <2>1 DEF Repos, Forme
    <2>4. Vide' = Vide
      BY DEF Vide
    <2>5. Lots("depenses", lecture.debits)' /\ Lots("revenus", lecture.credits)'
      BY <2>3, VideSansElement DEF Lots
    <2>6. Origines'
      BY <2>2, <2>3, <2>4, <2>5 DEF InvariantEcrans, Origines
    <2>7. DepensesLues'
      BY <2>3, <2>4, VideSansElement DEF DepensesLues
    <2>8. Comptages'
      BY <2>1, <2>3 DEF InvariantEcrans, Comptages
    <2> QED BY <2>2, <2>6, <2>7, <2>8 DEF InvariantEcrans
  <1>2. ASSUME UNCHANGED <<donnees, lecture, redatees>>, remue' \in BOOLEAN, ecritures' \in 0..MaxEcritures
        PROVE  InvariantEcrans'
    <2>1. Stockage' /\ UNCHANGED <<enregistrees, definitives, jour, categories>>
      BY <1>2, StockageIntact DEF InvariantEcrans, donnees, base
    <2>2. enregistrees' \subseteq Operations /\ jour' \in JoursDebut
      BY <2>1 DEF InvariantEcrans, Origines
    <2>3. Origines'
      BY <1>2, <2>1, <2>2, HorsLecture DEF InvariantEcrans, LignesGardees
    <2>4. DepensesLues'
      BY <1>2, <2>1, DepensesHorsLecture DEF InvariantEcrans, Stockage, LignesGardees
    <2>5. Comptages'
      BY <1>2, <2>1 DEF InvariantEcrans, Comptages
    <2> QED BY <2>1, <2>3, <2>4, <2>5 DEF InvariantEcrans
  <1>3. CASE Ecran
    <2>1. Next
      BY <1>3 DEF Ecran, Next
    <2> QED BY <2>1, EcransGardes
  <1>4. CASE ListerDemande \/ \E e \in Budgets : ModifierEnveloppe(e)
    BY <1>4, <1>1 DEF ListerDemande, ModifierEnveloppe
  <1>5. CASE ListerEnveloppes \/ LireConsommations \/ UNCHANGED varsEnveloppes
    BY <1>5, <1>2 DEF ListerEnveloppes, LireConsommations, varsEnveloppes, vars,
                      InvariantEcrans, Comptages
  <1>6. CASE \/ \E e \in Budgets : CreerEnveloppe(e) \/ SupprimerEnveloppe(e)
             \/ \E o \in Affectables, e \in Budgets \cup {Aucune} : Affecter(o, e)
    <2>1. UNCHANGED <<donnees, lecture, redatees>> /\ Ecrire
      BY <1>6 DEF CreerEnveloppe, SupprimerEnveloppe, Affecter
    <2>2. remue' \in BOOLEAN /\ ecritures' \in 0..MaxEcritures
      BY <2>1, ParametresBienFormes DEF Ecrire, Bouger, InvariantEcrans, Comptages
    <2> QED BY <1>2, <2>1, <2>2
  <1> QED BY <1>3, <1>4, <1>5, <1>6 DEF NextEnveloppes

\* No dated expense gets lost between the SELECTs of an answer, whatever is filed,
\* deleted or synchronised meanwhile (repository/depenses.rs:103-135), and none is
\* counted twice, the requests on the envelopes included; both but for a row whose
\* dates the bank's booking replaces while the answer is put together.
THEOREM DepensesToujoursEntieres == SpecEnveloppes => [](DepensesEntieres /\ UneSeuleFenetre)
  <1>1. InitEnveloppes => InvariantEcrans
    BY EcransInit DEF InitEnveloppes
  <1>2. InvariantEcrans /\ [NextEnveloppes]_varsEnveloppes => InvariantEcrans'
    BY EcransParmiEnveloppes
  <1>3. InvariantEcrans => DepensesEntieres /\ UneSeuleFenetre
    BY EcransSuffisent
  <1> QED BY <1>1, <1>2, <1>3, PTL DEF SpecEnveloppes

-------------------------------------------------------------------------------
(* Sums over finite sets: the laws the accounts of a forecast rest on. *)

\* The element a fold takes first.
UnDe(T) == CHOOSE x \in T : TRUE

\* A set of naturals has a least element.
LEMMA PlusPetit ==
    ASSUME NEW T \in SUBSET Nat, T # {}
    PROVE  \E n \in T : \A m \in T : n <= m
  <1>1. PICK R : R = OpToRel(<, Nat)
    OBVIOUS
  <1>2. \A x, y \in Nat : <<x, y>> \in R <=> x < y
    BY <1>1 DEF OpToRel
  <1>3. IsWellFoundedOn(R, Nat)
    BY <1>1, NatLessThanWellFounded
  <1>4. PICK x \in T : \A y \in T : ~ (<<y, x>> \in R)
    BY <1>3, WFMin
  <1>5. ASSUME NEW y \in T
        PROVE  x <= y
    <2>1. x \in Nat /\ y \in Nat
      OBVIOUS
    <2>2. ~(y < x)
      BY <2>1, <1>2, <1>4
    <2> QED BY <2>1, <2>2
  <1> QED BY <1>5

\* Induction over the naturals, stated of a set rather than of an operator.
LEMMA Recurrence ==
    ASSUME NEW S, 0 \in S, \A n \in Nat : n \in S => n + 1 \in S
    PROVE  Nat \subseteq S
  <1> SUFFICES ASSUME Nat \ S # {}
               PROVE  FALSE
    OBVIOUS
  <1>1. PICK n \in Nat \ S : \A m \in Nat \ S : n <= m
    BY PlusPetit
  <1>2. n # 0 /\ n - 1 \in Nat
    BY <1>1
  <1> QED BY <1>1, <1>2

\* A finite set without one of its elements.
LEMMA UnDeMoins ==
    ASSUME NEW S, IsFiniteSet(S), NEW p \in S
    PROVE  /\ IsFiniteSet(S \ {p})
           /\ Cardinality(S) \in Nat \ {0}
           /\ Cardinality(S \ {p}) = Cardinality(S) - 1
  BY FS_RemoveElement, FS_CardinalityType, FS_EmptySet

\* The function SumFunctionOnSet iterates: one addition after another.
Addition(f, S, g) ==
    g = [T \in SUBSET S |-> IF T = {} THEN 0 ELSE f[UnDe(T)] + g[T \ {UnDe(T)}]]

Pas(f, T, g) == g[T] = IF T = {} THEN 0 ELSE f[UnDe(T)] + g[T \ {UnDe(T)}]

\* It exists: one more level of subsets at a time.
LEMMA AdditionExiste ==
    ASSUME NEW f, NEW S, IsFiniteSet(S)
    PROVE  \E g : Addition(f, S, g)
  <1> DEFINE P == {n \in Nat : \E g : \A T \in SUBSET S : Cardinality(T) <= n => Pas(f, T, g)}
  <1>1. \A T \in SUBSET S : IsFiniteSet(T) /\ Cardinality(T) \in Nat
    BY FS_Subset, FS_CardinalityType
  <1>2. ASSUME NEW T \in SUBSET S, T # {}
        PROVE  /\ T \ {UnDe(T)} \in SUBSET S
               /\ Cardinality(T \ {UnDe(T)}) = Cardinality(T) - 1
    <2>1. UnDe(T) \in T
      BY <1>2 DEF UnDe
    <2> QED BY <1>1, <2>1, UnDeMoins
  <1>3. 0 \in P
    <2> DEFINE g == [T \in SUBSET S |-> 0]
    <2>1. \A T \in SUBSET S : Cardinality(T) <= 0 => Pas(f, T, g)
      BY <1>1, FS_EmptySet DEF Pas
    <2> QED BY <2>1
  <1>4. ASSUME NEW n \in Nat, n \in P
        PROVE  n + 1 \in P
    <2>1. PICK g : \A T \in SUBSET S : Cardinality(T) <= n => Pas(f, T, g)
      BY <1>4
    <2> DEFINE h == [T \in SUBSET S |->
                       IF Cardinality(T) = n + 1 THEN f[UnDe(T)] + g[T \ {UnDe(T)}] ELSE g[T]]
    <2>2. ASSUME NEW T \in SUBSET S, Cardinality(T) <= n + 1
          PROVE  Pas(f, T, h)
      <3>1. CASE T = {}
        <4>1. Cardinality(T) = 0
          BY <3>1, FS_EmptySet
        <4>2. h[T] = g[T] /\ Pas(f, T, g)
          BY <2>1, <4>1
        <4> HIDE DEF h
        <4> QED BY <3>1, <4>2 DEF Pas
      <3>2. CASE T # {}
        <4> DEFINE U == T \ {UnDe(T)}
        <4>1. /\ U \in SUBSET S /\ Cardinality(U) = Cardinality(T) - 1
              /\ Cardinality(T) \in Nat
          BY <1>1, <1>2, <3>2
        <4> HIDE DEF U
        <4>2. h[U] = g[U]
          BY <2>2, <4>1
        <4>3. h[T] = f[UnDe(T)] + g[U]
          <5>1. CASE Cardinality(T) = n + 1
            BY <5>1 DEF U
          <5>2. CASE Cardinality(T) # n + 1
            <6>1. h[T] = g[T] /\ Pas(f, T, g)
              BY <2>1, <2>2, <4>1, <5>2
            <6> HIDE DEF h
            <6> QED BY <3>2, <6>1 DEF Pas, U
          <5> QED BY <5>1, <5>2
        <4> HIDE DEF h
        <4> QED BY <3>2, <4>2, <4>3 DEF Pas, U
      <3> QED BY <3>1, <3>2
    <2> HIDE DEF h
    <2> QED BY <2>2
  <1>5. Nat \subseteq P
    <2> HIDE DEF P
    <2> QED BY <1>3, <1>4, Recurrence
  <1>6. PICK g : \A T \in SUBSET S : Pas(f, T, g)
    <2>1. Cardinality(S) \in P
      BY <1>1, <1>5
    <2>2. \A T \in SUBSET S : Cardinality(T) <= Cardinality(S)
      BY FS_Subset
    <2> QED BY <2>1, <2>2
  <1> DEFINE h == [T \in SUBSET S |-> g[T]]
  <1>7. ASSUME NEW T \in SUBSET S
        PROVE  Pas(f, T, h)
    <2>1. h[T] = g[T] /\ h[T \ {UnDe(T)}] = g[T \ {UnDe(T)}]
      OBVIOUS
    <2> HIDE DEF h
    <2> QED BY <1>6, <2>1 DEF Pas
  <1>8. h = [T \in SUBSET S |-> h[T]]
    OBVIOUS
  <1> HIDE DEF h
  <1>9. Addition(f, S, h)
    BY <1>7, <1>8 DEF Addition, Pas
  <1> QED BY <1>9

\* The sum of the community modules is the last value of such a function.
LEMMA SommeEstAddition ==
    ASSUME NEW f, NEW S, IsFiniteSet(S)
    PROVE  \E g : Addition(f, S, g) /\ SumFunctionOnSet(f, S) = g[S]
  <1> DEFINE iter == CHOOSE g : g = [T \in SUBSET S |-> IF T = {} THEN 0
                        ELSE f[CHOOSE x \in T : TRUE] + g[T \ {CHOOSE x \in T : TRUE}]]
  <1>1. SumFunctionOnSet(f, S) = iter[S]
    BY DEF SumFunctionOnSet, FoldFunctionOnSet, MapThenFoldSet
  <1>2. \E g : g = [T \in SUBSET S |-> IF T = {} THEN 0
                        ELSE f[CHOOSE x \in T : TRUE] + g[T \ {CHOOSE x \in T : TRUE}]]
    <2>1. \E g : Addition(f, S, g)
      BY AdditionExiste
    <2> HIDE DEF iter
    <2> QED BY <2>1 DEF Addition, UnDe
  <1>3. iter = [T \in SUBSET S |-> IF T = {} THEN 0
                        ELSE f[CHOOSE x \in T : TRUE] + iter[T \ {CHOOSE x \in T : TRUE}]]
    BY <1>2
  <1> HIDE DEF iter
  <1>4. Addition(f, S, iter)
    BY <1>3 DEF Addition, UnDe
  <1> QED BY <1>1, <1>4

\* Two sums over parts of one set go through the same additions.
LEMMA AdditionUnique ==
    ASSUME NEW f, NEW S, IsFiniteSet(S), NEW R \in SUBSET S, NEW g, NEW h,
           Addition(f, S, g), Addition(f, R, h)
    PROVE  g[R] = h[R]
  <1> DEFINE P == {n \in Nat : \A T \in SUBSET R : Cardinality(T) <= n => g[T] = h[T]}
  <1>1. \A T \in SUBSET R : IsFiniteSet(T) /\ Cardinality(T) \in Nat
    BY FS_Subset, FS_CardinalityType
  <1>2. ASSUME NEW T \in SUBSET R
        PROVE  Pas(f, T, g) /\ Pas(f, T, h)
    BY DEF Addition, Pas
  <1>3. 0 \in P
    <2>1. ASSUME NEW T \in SUBSET R, Cardinality(T) <= 0
          PROVE  g[T] = h[T]
      <3>1. T = {}
        BY <1>1, <2>1, FS_EmptySet
      <3> QED BY <1>2, <3>1 DEF Pas
    <2> QED BY <2>1
  <1>4. ASSUME NEW n \in Nat, n \in P
        PROVE  n + 1 \in P
    <2>1. ASSUME NEW T \in SUBSET R, Cardinality(T) <= n + 1, T # {}
          PROVE  g[T] = h[T]
      <3>1. UnDe(T) \in T
        BY <2>1 DEF UnDe
      <3>2. T \ {UnDe(T)} \in SUBSET R /\ Cardinality(T \ {UnDe(T)}) <= n
        BY <1>1, <2>1, <3>1, UnDeMoins
      <3>3. g[T \ {UnDe(T)}] = h[T \ {UnDe(T)}]
        BY <1>4, <3>2
      <3> QED BY <1>2, <2>1, <3>3 DEF Pas
    <2>2. g[{}] = h[{}]
      BY <1>2 DEF Pas
    <2>3. \A T \in SUBSET R : Cardinality(T) <= n + 1 => g[T] = h[T]
      BY <2>1, <2>2
    <2> QED BY <2>3
  <1>5. Nat \subseteq P
    <2> HIDE DEF P
    <2> QED BY <1>3, <1>4, Recurrence
  <1>6. Cardinality(R) \in P
    BY <1>1, <1>5
  <1> QED BY <1>6

\* A sum is nothing, or one value and the sum of the others.
LEMMA SommeDeroulee ==
    ASSUME NEW f, NEW S, IsFiniteSet(S)
    PROVE  /\ SumFunctionOnSet(f, {}) = 0
           /\ S # {} => SumFunctionOnSet(f, S) = f[UnDe(S)] + SumFunctionOnSet(f, S \ {UnDe(S)})
  <1>1. PICK g : Addition(f, S, g) /\ SumFunctionOnSet(f, S) = g[S]
    BY SommeEstAddition
  <1>2. SumFunctionOnSet(f, {}) = 0
    <2>1. PICK h : Addition(f, {}, h) /\ SumFunctionOnSet(f, {}) = h[{}]
      BY FS_EmptySet, SommeEstAddition
    <2> QED BY <2>1 DEF Addition
  <1>3. ASSUME S # {}
        PROVE  SumFunctionOnSet(f, S) = f[UnDe(S)] + SumFunctionOnSet(f, S \ {UnDe(S)})
    <2> DEFINE R == S \ {UnDe(S)}
    <2>1. R \in SUBSET S /\ IsFiniteSet(R)
      BY FS_Subset
    <2> HIDE DEF R
    <2>2. PICK h : Addition(f, R, h) /\ SumFunctionOnSet(f, R) = h[R]
      BY <2>1, SommeEstAddition
    <2>3. g[R] = h[R]
      BY <1>1, <2>1, <2>2, AdditionUnique
    <2>4. g[S] = f[UnDe(S)] + g[R]
      BY <1>1, <1>3 DEF Addition, R
    <2> QED BY <1>1, <2>2, <2>3, <2>4 DEF R
  <1> QED BY <1>2, <1>3

\* A property of the empty set that one more element keeps holds of every finite
\* set; Q is the set of the parts of S that have it.
LEMMA RecurrenceFinie ==
    ASSUME NEW S, IsFiniteSet(S), NEW Q, {} \in Q,
           \A T \in SUBSET S : \A x \in S \ T : T \in Q => T \cup {x} \in Q
    PROVE  S \in Q
  <1> DEFINE P == {n \in Nat : \A T \in SUBSET S : Cardinality(T) = n => T \in Q}
  <1>1. \A T \in SUBSET S : IsFiniteSet(T) /\ Cardinality(T) \in Nat
    BY FS_Subset, FS_CardinalityType
  <1>2. 0 \in P
    BY <1>1, FS_EmptySet
  <1>3. ASSUME NEW n \in Nat, n \in P
        PROVE  n + 1 \in P
    <2>1. ASSUME NEW T \in SUBSET S, Cardinality(T) = n + 1
          PROVE  T \in Q
      <3>1. T # {}
        <4>1. Cardinality({}) = 0
          BY FS_EmptySet
        <4> QED BY <2>1, <4>1
      <3>2. PICK x \in T : TRUE
        BY <3>1
      <3>3. T \ {x} \in SUBSET S /\ Cardinality(T \ {x}) = n
        BY <1>1, <2>1, UnDeMoins
      <3>4. T \ {x} \in Q
        BY <1>3, <3>3
      <3>5. T = (T \ {x}) \cup {x} /\ x \in S \ (T \ {x})
        OBVIOUS
      <3> QED BY <3>3, <3>4, <3>5
    <2> QED BY <2>1
  <1>4. Nat \subseteq P
    <2> HIDE DEF P
    <2> QED BY <1>2, <1>3, Recurrence
  <1>5. Cardinality(S) \in P
    BY <1>1, <1>4
  <1> QED BY <1>5

\* A sum is an integer, whichever element is taken out of it first.
LEMMA SommeUnElement ==
    ASSUME NEW U, NEW f \in [U -> Int], NEW S \in SUBSET U, IsFiniteSet(S)
    PROVE  /\ SumFunctionOnSet(f, {}) = 0
           /\ SumFunctionOnSet(f, S) \in Int
           /\ \A x \in S : SumFunctionOnSet(f, S) = f[x] + SumFunctionOnSet(f, S \ {x})
  <1> DEFINE Sg(T) == SumFunctionOnSet(f, T)
             P == {n \in Nat : \A T \in SUBSET S : Cardinality(T) <= n =>
                      Sg(T) \in Int /\ \A x \in T : Sg(T) = f[x] + Sg(T \ {x})}
  <1>1. \A T \in SUBSET S : IsFiniteSet(T) /\ Cardinality(T) \in Nat
    BY FS_Subset, FS_CardinalityType
  <1>2. Sg({}) = 0
    BY SommeDeroulee
  <1>3. ASSUME NEW T \in SUBSET S, T # {}
        PROVE  UnDe(T) \in T /\ Sg(T) = f[UnDe(T)] + Sg(T \ {UnDe(T)})
    <2>1. IsFiniteSet(T)
      BY <1>1
    <2> QED BY <1>3, <2>1, SommeDeroulee DEF UnDe
  <1> HIDE DEF Sg
  <1>4. 0 \in P
    <2>1. ASSUME NEW T \in SUBSET S, Cardinality(T) <= 0
          PROVE  T = {}
      BY <1>1, <2>1, FS_EmptySet
    <2>2. \A T \in SUBSET S : Cardinality(T) <= 0 =>
                      Sg(T) \in Int /\ \A x \in T : Sg(T) = f[x] + Sg(T \ {x})
      <3> TAKE T \in SUBSET S
      <3> HAVE Cardinality(T) <= 0
      <3>1. T = {}
        BY <2>1
      <3>2. Sg(T) \in Int
        BY <1>2, <3>1
      <3> QED BY <3>1, <3>2
    <2> QED BY <2>2
  <1>5. ASSUME NEW n \in Nat, n \in P
        PROVE  n + 1 \in P
    <2>1. \A T \in SUBSET S : Cardinality(T) <= n =>
                      Sg(T) \in Int /\ \A x \in T : Sg(T) = f[x] + Sg(T \ {x})
      BY <1>5
    <2>2. ASSUME NEW T \in SUBSET S, Cardinality(T) <= n + 1, T # {}
          PROVE  Sg(T) \in Int /\ \A x \in T : Sg(T) = f[x] + Sg(T \ {x})
      <3> DEFINE c == UnDe(T)
      <3>1. c \in T /\ Sg(T) = f[c] + Sg(T \ {c})
        BY <1>3, <2>2
      <3> HIDE DEF c
      <3>2. \A x \in T : /\ T \ {x} \in SUBSET S /\ Cardinality(T \ {x}) <= n
                        /\ Sg(T \ {x}) \in Int /\ f[x] \in Int
        <4> TAKE x \in T
        <4>1. T \ {x} \in SUBSET S /\ Cardinality(T \ {x}) <= n
          BY <1>1, <2>2, UnDeMoins
        <4> QED BY <2>1, <4>1
      <3>3. Sg(T) \in Int
        BY <3>1, <3>2
      <3>4. ASSUME NEW x \in T, x # c
            PROVE  Sg(T) = f[x] + Sg(T \ {x})
        <4>1. Sg(T \ {c}) = f[x] + Sg((T \ {c}) \ {x})
          BY <2>1, <3>1, <3>2, <3>4
        <4>2. Sg(T \ {x}) = f[c] + Sg((T \ {x}) \ {c})
          BY <2>1, <3>1, <3>2, <3>4
        <4>3. (T \ {c}) \ {x} = (T \ {x}) \ {c}
          OBVIOUS
        <4>4. Sg((T \ {x}) \ {c}) \in Int
          <5>1. (T \ {x}) \ {c} \in SUBSET S /\ Cardinality((T \ {x}) \ {c}) <= n
            <6>1. IsFiniteSet(T \ {x}) /\ c \in T \ {x}
              BY <1>1, <3>1, <3>4
            <6>2. /\ Cardinality(T \ {x}) \in Nat \ {0}
                  /\ Cardinality((T \ {x}) \ {c}) = Cardinality(T \ {x}) - 1
              BY <6>1, UnDeMoins
            <6>3. T \ {x} \in SUBSET S /\ Cardinality(T \ {x}) <= n
              BY <3>2
            <6> QED BY <6>2, <6>3
          <5> QED BY <2>1, <5>1
        <4>5. f[x] \in Int /\ f[c] \in Int
          BY <3>1, <3>2
        <4>6. /\ Sg(T) = f[c] + (f[x] + Sg((T \ {x}) \ {c}))
              /\ Sg(T \ {x}) = f[c] + Sg((T \ {x}) \ {c})
          BY <3>1, <4>1, <4>2, <4>3
        <4> DEFINE a == f[x]
                   b == f[c]
                   r == Sg((T \ {x}) \ {c})
        <4>7. b + (a + r) = a + (b + r)
          <5> HIDE DEF a, b, r
          <5>1. a \in Int /\ b \in Int /\ r \in Int
            BY <4>4, <4>5 DEF a, b, r
          <5> QED BY <5>1
        <4> QED BY <4>6, <4>7
      <3> QED BY <3>1, <3>3, <3>4
    <2>3. ASSUME NEW T \in SUBSET S, Cardinality(T) <= n + 1
          PROVE  Sg(T) \in Int /\ \A x \in T : Sg(T) = f[x] + Sg(T \ {x})
      BY <1>2, <2>2, <2>3
    <2> QED BY <2>3
  <1>6. Nat \subseteq P
    <2> HIDE DEF P
    <2> QED BY <1>4, <1>5, Recurrence
  <1>7. Cardinality(S) \in P
    BY <1>1, <1>6
  <1>8. Sg(S) \in Int /\ \A x \in S : Sg(S) = f[x] + Sg(S \ {x})
    BY <1>1, <1>7
  <1> QED BY <1>2, <1>8 DEF Sg
\* Two functions that agree on a set have the same sum there.
LEMMA SommeEgale ==
    ASSUME NEW U, NEW f \in [U -> Int], NEW V, NEW h \in [V -> Int],
           NEW S, S \subseteq U, S \subseteq V, IsFiniteSet(S),
           \A x \in S : f[x] = h[x]
    PROVE  SumFunctionOnSet(f, S) = SumFunctionOnSet(h, S)
  <1> DEFINE Q == {T \in SUBSET S : SumFunctionOnSet(f, T) = SumFunctionOnSet(h, T)}
  <1>1. {} \in Q
    BY FS_EmptySet, SommeDeroulee
  <1>2. ASSUME NEW T \in SUBSET S, NEW x \in S \ T, T \in Q
        PROVE  T \cup {x} \in Q
    <2>1. /\ IsFiniteSet(T \cup {x}) /\ (T \cup {x}) \ {x} = T /\ x \in T \cup {x}
          /\ T \cup {x} \in SUBSET U /\ T \cup {x} \in SUBSET V
      BY FS_Subset, FS_AddElement
    <2>2. SumFunctionOnSet(f, T \cup {x}) = f[x] + SumFunctionOnSet(f, T)
      BY <2>1, SommeUnElement
    <2>3. SumFunctionOnSet(h, T \cup {x}) = h[x] + SumFunctionOnSet(h, T)
      BY <2>1, SommeUnElement
    <2> QED BY <1>2, <2>2, <2>3
  <1>3. S \in Q
    <2> HIDE DEF Q
    <2> QED BY <1>1, <1>2, RecurrenceFinie
  <1> QED BY <1>3

\* The sum of two functions, added or taken away one value at a time.
LEMMA SommeAjoutee ==
    ASSUME NEW U, NEW f \in [U -> Int], NEW g \in [U -> Int], NEW h \in [U -> Int],
           NEW S \in SUBSET U, IsFiniteSet(S),
           \A x \in S : h[x] = f[x] + g[x]
    PROVE  SumFunctionOnSet(h, S) = SumFunctionOnSet(f, S) + SumFunctionOnSet(g, S)
  <1> DEFINE Q == {T \in SUBSET S : SumFunctionOnSet(h, T)
                                     = SumFunctionOnSet(f, T) + SumFunctionOnSet(g, T)}
  <1>1. {} \in Q
    <2>1. /\ SumFunctionOnSet(f, {}) = 0 /\ SumFunctionOnSet(g, {}) = 0
          /\ SumFunctionOnSet(h, {}) = 0
      BY FS_EmptySet, SommeDeroulee
    <2> QED BY <2>1
  <1>2. ASSUME NEW T \in SUBSET S, NEW x \in S \ T, T \in Q
        PROVE  T \cup {x} \in Q
    <2> DEFINE a == SumFunctionOnSet(f, T)
               b == SumFunctionOnSet(g, T)
    <2>1. /\ IsFiniteSet(T) /\ IsFiniteSet(T \cup {x})
          /\ (T \cup {x}) \ {x} = T /\ x \in T \cup {x} /\ T \cup {x} \in SUBSET U
      BY FS_Subset, FS_AddElement
    <2>2. /\ SumFunctionOnSet(f, T \cup {x}) = f[x] + a /\ a \in Int
          /\ SumFunctionOnSet(g, T \cup {x}) = g[x] + b /\ b \in Int
      BY <2>1, SommeUnElement
    <2>3. SumFunctionOnSet(h, T \cup {x}) = h[x] + SumFunctionOnSet(h, T)
      BY <2>1, SommeUnElement
    <2>4. SumFunctionOnSet(h, T) = a + b /\ h[x] = f[x] + g[x]
      BY <1>2
    <2>5. f[x] \in Int /\ g[x] \in Int
      OBVIOUS
    <2>6. (f[x] + g[x]) + (a + b) = (f[x] + a) + (g[x] + b)
      <3> HIDE DEF a, b
      <3> QED BY <2>2, <2>5
    <2> QED BY <2>2, <2>3, <2>4, <2>6
  <1>3. S \in Q
    <2> HIDE DEF Q
    <2> QED BY <1>1, <1>2, RecurrenceFinie
  <1> QED BY <1>3

\* The sum over two sets that have nothing in common.
LEMMA SommeDisjointe ==
    ASSUME NEW U, NEW f \in [U -> Int], NEW A \in SUBSET U, NEW B \in SUBSET U,
           IsFiniteSet(A), IsFiniteSet(B), A \cap B = {}
    PROVE  SumFunctionOnSet(f, A \cup B) = SumFunctionOnSet(f, A) + SumFunctionOnSet(f, B)
  <1> DEFINE Q == {T \in SUBSET B : SumFunctionOnSet(f, A \cup T)
                                     = SumFunctionOnSet(f, A) + SumFunctionOnSet(f, T)}
             a == SumFunctionOnSet(f, A)
  <1>0. a \in Int
    BY SommeUnElement
  <1>1. {} \in Q
    <2>1. SumFunctionOnSet(f, {}) = 0 /\ A \cup {} = A
      BY FS_EmptySet, SommeDeroulee
    <2> QED BY <1>0, <2>1
  <1>2. ASSUME NEW T \in SUBSET B, NEW x \in B \ T, T \in Q
        PROVE  T \cup {x} \in Q
    <2> DEFINE b == SumFunctionOnSet(f, T)
    <2>1. /\ IsFiniteSet(T) /\ IsFiniteSet(T \cup {x})
          /\ (T \cup {x}) \ {x} = T /\ x \in T \cup {x} /\ T \cup {x} \in SUBSET U
      BY FS_Subset, FS_AddElement
    <2>2. /\ IsFiniteSet(A \cup (T \cup {x})) /\ A \cup (T \cup {x}) \in SUBSET U
          /\ (A \cup (T \cup {x})) \ {x} = A \cup T /\ x \in A \cup (T \cup {x})
      BY <2>1, FS_Union
    <2>3. SumFunctionOnSet(f, T \cup {x}) = f[x] + b /\ b \in Int
      BY <2>1, SommeUnElement
    <2>4. SumFunctionOnSet(f, A \cup (T \cup {x})) = f[x] + SumFunctionOnSet(f, A \cup T)
      BY <2>2, SommeUnElement
    <2>5. SumFunctionOnSet(f, A \cup T) = a + b
      BY <1>2
    <2>6. f[x] + (a + b) = a + (f[x] + b)
      <3>1. f[x] \in Int
        OBVIOUS
      <3> HIDE DEF a, b
      <3> QED BY <1>0, <2>3, <3>1
    <2> QED BY <2>3, <2>4, <2>5, <2>6
  <1>3. B \in Q
    <2> HIDE DEF Q
    <2> QED BY <1>1, <1>2, RecurrenceFinie
  <1> QED BY <1>3

\* A sum taken label by label: F[k] is the sum over the elements labelled k.
LEMMA SommeParGroupes ==
    ASSUME NEW U, NEW f \in [U -> Int], NEW S \in SUBSET U, IsFiniteSet(S),
           NEW lab, NEW K, IsFiniteSet(K), NEW F \in [K -> Int],
           \A k \in K : F[k] = SumFunctionOnSet(f, {x \in S : lab[x] = k})
    PROVE  SumFunctionOnSet(F, K) = SumFunctionOnSet(f, {x \in S : lab[x] \in K})
  <1> DEFINE Dans(T) == {x \in S : lab[x] \in T}
             Q == {T \in SUBSET K : SumFunctionOnSet(F, T) = SumFunctionOnSet(f, Dans(T))}
  <1>1. {} \in Q
    <2>1. Dans({}) = {}
      OBVIOUS
    <2>2. SumFunctionOnSet(F, {}) = 0 /\ SumFunctionOnSet(f, {}) = 0
      BY FS_EmptySet, SommeDeroulee
    <2> QED BY <2>1, <2>2
  <1>2. ASSUME NEW T \in SUBSET K, NEW k \in K \ T, T \in Q
        PROVE  T \cup {k} \in Q
    <2> DEFINE un == {x \in S : lab[x] = k}
    <2>1. /\ IsFiniteSet(T \cup {k})
          /\ (T \cup {k}) \ {k} = T /\ k \in T \cup {k} /\ T \cup {k} \in SUBSET K
      BY FS_Subset, FS_AddElement
    <2>2. /\ un \in SUBSET U /\ Dans(T) \in SUBSET U
          /\ IsFiniteSet(un) /\ IsFiniteSet(Dans(T))
      BY FS_Subset
    <2>3. Dans(T \cup {k}) = un \cup Dans(T) /\ un \cap Dans(T) = {}
      OBVIOUS
    <2>4. SumFunctionOnSet(F, T \cup {k}) = F[k] + SumFunctionOnSet(F, T)
      BY <2>1, SommeUnElement
    <2>5. SumFunctionOnSet(f, un \cup Dans(T))
            = SumFunctionOnSet(f, un) + SumFunctionOnSet(f, Dans(T))
      <3> HIDE DEF un, Dans
      <3> QED BY <2>2, <2>3, SommeDisjointe
    <2>6. F[k] = SumFunctionOnSet(f, un)
      OBVIOUS
    <2>7. SumFunctionOnSet(F, T) = SumFunctionOnSet(f, Dans(T))
      BY <1>2
    <2>8. SumFunctionOnSet(F, T \cup {k}) = SumFunctionOnSet(f, Dans(T \cup {k}))
      <3> HIDE DEF un, Dans
      <3> QED BY <2>3, <2>4, <2>5, <2>6, <2>7
    <2> QED BY <2>8
  <1>3. K \in Q
    <2> HIDE DEF Q
    <2> QED BY <1>1, <1>2, RecurrenceFinie
  <1> QED BY <1>3

-------------------------------------------------------------------------------
(* The forecast: while nothing is written, what was read is what is stored. *)

\* All that the bank has shown, pending or booked.
Montrees == annoncees \cup passees

AuPlus(a, b) == IF a <= b THEN a ELSE b

\* The aggregate of the month k cycles back, as the tables stand.
Agrege(quoi, k) ==
    LET R == Retenues(quoi, Recul(k), lecture.jour) IN
    [ids |-> [o \in R |-> rangee[o]], noms |-> IF R = {} THEN {} ELSE categories]

Lue(f, quoi, k) == k \in DOMAIN f /\ f[k] = Agrege(quoi, k)

\* The read number i of the forecast left the aggregate it asked for.
LueFidelement(i) ==
    LET lu == PlanPrevision[i] IN
    /\ lu[1] = "depenses" => Lue(lecture.debits, "depenses", lu[2])
    /\ lu[1] = "revenus"  => Lue(lecture.credits, "revenus", lu[2])

SoldesLus == lecture.soldes = [i \in 1..AuPlus(lecture.n - 1, Len(Comptes)) |-> soldes[Comptes[i]]]
BrutLu == lecture.brut # Vide => lecture.brut = Agrege(Etape[1], Etape[2]).ids
AgregatsLus == \A i \in 1..Len(PlanPrevision) : i < lecture.n => LueFidelement(i)

Fidele ==
    /\ IsFiniteSet(Montrees)
    /\ lecture.jour = 0 => lecture.n = 1
    /\ lecture.ecran = "forecast" /\ ~remue => SoldesLus /\ BrutLu /\ AgregatsLus

\* The reads of the forecast, one by one.
LEMMA LecturesPrevues ==
    /\ Len(Comptes) \in Nat
    /\ Len(PlanPrevision) = Len(Comptes) + 9
    /\ \A i \in 1..Len(Comptes) : PlanPrevision[i] = <<"solde", i>>
    /\ PlanPrevision[Len(Comptes) + 1] = <<"depenses", 0>>
    /\ PlanPrevision[Len(Comptes) + 2] = <<"revenus", 0>>
    /\ PlanPrevision[Len(Comptes) + 3] = <<"depenses", 1>>
    /\ PlanPrevision[Len(Comptes) + 4] = <<"revenus", 1>>
    /\ PlanPrevision[Len(Comptes) + 5] = <<"depenses", 2>>
    /\ PlanPrevision[Len(Comptes) + 6] = <<"revenus", 2>>
    /\ PlanPrevision[Len(Comptes) + 7] = <<"depenses", 3>>
    /\ PlanPrevision[Len(Comptes) + 8] = <<"revenus", 3>>
    /\ PlanPrevision[Len(Comptes) + 9] = <<"categories", 0>>
  <1> DEFINE N == Len(Comptes)
             A == [i \in 1..N |-> <<"solde", i>>]
             B == <<<<"depenses", 0>>, <<"revenus", 0>>>>
             D == <<<<"categories", 0>>>>
  <1>1. N \in Nat
    BY ParametresBienFormes
  <1>2. A \in Seq(Tailles)
    <2>1. \A i \in 1..N : <<"solde", i>> \in Tailles
      BY <1>1 DEF Tailles
    <2>2. A \in [1..N -> Tailles]
      BY <2>1
    <2> QED BY <1>1, <2>2, FonctionEstSuite
  <1>3. B \in Seq(Tailles) /\ D \in Seq(Tailles)
    <2>1. <<"depenses", 0>> \in Tailles /\ <<"revenus", 0>> \in Tailles /\ <<"categories", 0>> \in Tailles
      BY DEF Tailles
    <2> QED BY <2>1
  <1>4. Precedents \in Seq(Tailles) /\ Len(Precedents) = 6
    <2>1. ASSUME NEW k \in 1..6
          PROVE  <<IF k % 2 = 1 THEN "depenses" ELSE "revenus", (k + 1) \div 2>> \in Tailles
      <3>1. (k + 1) \div 2 \in Int
        OBVIOUS
      <3> QED BY <3>1 DEF Tailles
    <2>2. Precedents \in [1..6 -> Tailles] /\ DOMAIN Precedents = 1..6
      BY <2>1 DEF Precedents, MOIS_HISTORIQUE
    <2>3. Precedents \in Seq(Tailles)
      BY <2>2, FonctionEstSuite
    <2>4. Len(Precedents) \in Nat /\ DOMAIN Precedents = 1..Len(Precedents)
      BY <2>3
    <2> QED BY <2>2, <2>3, <2>4
  <1>5. /\ Precedents[1] = <<"depenses", 1>> /\ Precedents[2] = <<"revenus", 1>>
        /\ Precedents[3] = <<"depenses", 2>> /\ Precedents[4] = <<"revenus", 2>>
        /\ Precedents[5] = <<"depenses", 3>> /\ Precedents[6] = <<"revenus", 3>>
    BY DEF Precedents, MOIS_HISTORIQUE
  <1>6. Len(A) = N
    <2>1. DOMAIN A = 1..N /\ DOMAIN A = 1..Len(A) /\ Len(A) \in Nat
      BY <1>2
    <2> QED BY <1>1, <2>1
  <1>7. PlanPrevision = ((A \o B) \o Precedents) \o D
    BY DEF PlanPrevision
  <1>8. \A i \in 1..N : A[i] = <<"solde", i>>
    OBVIOUS
  <1>9. /\ Len(B) = 2 /\ B[1] = <<"depenses", 0>> /\ B[2] = <<"revenus", 0>>
        /\ Len(D) = 1 /\ D[1] = <<"categories", 0>>
    OBVIOUS
  <1> DEFINE AB == A \o B
             ABP == AB \o Precedents
  <1>10. /\ AB \in Seq(Tailles) /\ Len(AB) = N + 2
         /\ \A i \in 1..(N + 2) : AB[i] = IF i <= N THEN A[i] ELSE B[i - N]
    <2> HIDE DEF A, B, N
    <2>1. /\ A \o B \in Seq(Tailles) /\ Len(A \o B) = Len(A) + Len(B)
          /\ \A i \in 1..(Len(A) + Len(B)) :
               (A \o B)[i] = IF i <= Len(A) THEN A[i] ELSE B[i - Len(A)]
      BY <1>2, <1>3, ConcatProperties
    <2> QED BY <1>6, <1>9, <2>1
  <1>11. /\ ABP \in Seq(Tailles) /\ Len(ABP) = (N + 2) + 6
         /\ \A i \in 1..((N + 2) + 6) : ABP[i] = IF i <= N + 2 THEN AB[i] ELSE Precedents[i - (N + 2)]
    <2> HIDE DEF AB, N
    <2>1. /\ AB \o Precedents \in Seq(Tailles) /\ Len(AB \o Precedents) = Len(AB) + Len(Precedents)
          /\ \A i \in 1..(Len(AB) + Len(Precedents)) :
               (AB \o Precedents)[i] = IF i <= Len(AB) THEN AB[i] ELSE Precedents[i - Len(AB)]
      BY <1>4, <1>10, ConcatProperties
    <2> QED BY <1>4, <1>10, <2>1
  <1>12. /\ Len(ABP \o D) = ((N + 2) + 6) + 1
         /\ \A i \in 1..(((N + 2) + 6) + 1) :
              (ABP \o D)[i] = IF i <= (N + 2) + 6 THEN ABP[i] ELSE D[i - ((N + 2) + 6)]
    <2> HIDE DEF ABP, D, N
    <2>1. /\ ABP \o D \in Seq(Tailles) /\ Len(ABP \o D) = Len(ABP) + Len(D)
          /\ \A i \in 1..(Len(ABP) + Len(D)) :
               (ABP \o D)[i] = IF i <= Len(ABP) THEN ABP[i] ELSE D[i - Len(ABP)]
      BY <1>3, <1>11, ConcatProperties
    <2> QED BY <1>9, <1>11, <2>1
  <1>13. PlanPrevision = ABP \o D
    BY <1>7
  <1>14. /\ \A i \in 1..6 : PlanPrevision[(N + 2) + i] = Precedents[i]
         /\ \A i \in 1..N : PlanPrevision[i] = <<"solde", i>>
         /\ PlanPrevision[N + 1] = <<"depenses", 0>>
         /\ PlanPrevision[N + 2] = <<"revenus", 0>>
         /\ PlanPrevision[N + 9] = <<"categories", 0>>
         /\ Len(PlanPrevision) = N + 9
    <2> HIDE DEF A, B, D, N, AB, ABP
    <2>1. ASSUME NEW i \in 1..6
          PROVE  PlanPrevision[(N + 2) + i] = Precedents[i]
      <3>1. /\ (N + 2) + i \in 1..((N + 2) + 6) /\ (N + 2) + i \in 1..(((N + 2) + 6) + 1)
            /\ ~((N + 2) + i <= N + 2) /\ ((N + 2) + i) - (N + 2) = i
        BY <1>1
      <3> QED BY <1>11, <1>12, <1>13, <3>1
    <2>2. ASSUME NEW i \in 1..N
          PROVE  PlanPrevision[i] = <<"solde", i>>
      <3>1. /\ i \in 1..(N + 2) /\ i \in 1..((N + 2) + 6) /\ i \in 1..(((N + 2) + 6) + 1)
            /\ i <= N /\ i <= N + 2 /\ i <= (N + 2) + 6
        BY <1>1
      <3> QED BY <1>8, <1>10, <1>11, <1>12, <1>13, <3>1
    <2>3. PlanPrevision[N + 1] = B[1]
      <3>1. /\ N + 1 \in 1..(N + 2) /\ N + 1 \in 1..((N + 2) + 6) /\ N + 1 \in 1..(((N + 2) + 6) + 1)
            /\ ~(N + 1 <= N) /\ N + 1 <= N + 2 /\ N + 1 <= (N + 2) + 6 /\ (N + 1) - N = 1
        BY <1>1
      <3> QED BY <1>10, <1>11, <1>12, <1>13, <3>1
    <2>4. PlanPrevision[N + 2] = B[2]
      <3>1. /\ N + 2 \in 1..(N + 2) /\ N + 2 \in 1..((N + 2) + 6) /\ N + 2 \in 1..(((N + 2) + 6) + 1)
            /\ ~(N + 2 <= N) /\ N + 2 <= N + 2 /\ N + 2 <= (N + 2) + 6 /\ (N + 2) - N = 2
        BY <1>1
      <3> QED BY <1>10, <1>11, <1>12, <1>13, <3>1
    <2>5. PlanPrevision[N + 9] = D[1] /\ Len(PlanPrevision) = N + 9
      <3>1. /\ N + 9 \in 1..(((N + 2) + 6) + 1) /\ ~(N + 9 <= (N + 2) + 6)
            /\ (N + 9) - ((N + 2) + 6) = 1 /\ ((N + 2) + 6) + 1 = N + 9
        BY <1>1
      <3> QED BY <1>12, <1>13, <3>1
    <2> QED BY <1>9, <2>1, <2>2, <2>3, <2>4, <2>5
  <1> HIDE DEF A, B, D, AB, ABP
  <1>15. /\ PlanPrevision[N + 3] = Precedents[1] /\ PlanPrevision[N + 4] = Precedents[2]
         /\ PlanPrevision[N + 5] = Precedents[3] /\ PlanPrevision[N + 6] = Precedents[4]
         /\ PlanPrevision[N + 7] = Precedents[5] /\ PlanPrevision[N + 8] = Precedents[6]
    <2> HIDE DEF N
    <2>1. /\ (N + 2) + 1 = N + 3 /\ (N + 2) + 2 = N + 4 /\ (N + 2) + 3 = N + 5
          /\ (N + 2) + 4 = N + 6 /\ (N + 2) + 5 = N + 7 /\ (N + 2) + 6 = N + 8
      BY <1>1
    <2> QED BY <1>14, <2>1
  <1> QED BY <1>1, <1>5, <1>14, <1>15

\* The balances come first, in the order of the accounts.
LEMMA SoldesDAbord ==
    ASSUME Origines, EnCours, lecture.ecran = "forecast"
    PROVE  /\ Etape = PlanPrevision[lecture.n] /\ lecture.n \in 1..(Len(Comptes) + 9)
           /\ Etape[1] = "solde" => lecture.n \in 1..Len(Comptes) /\ Etape[2] = lecture.n
           /\ Etape[1] # "solde" => lecture.n > Len(Comptes)
  <1> DEFINE N == Len(Comptes)
             n == lecture.n
  <1>1. N \in Nat /\ Len(PlanPrevision) = N + 9
    BY LecturesPrevues
  <1>2. Etape = PlanPrevision[n] /\ n \in 1..(N + 9)
    BY <1>1 DEF EnCours, Etape, Plan, Origines
  <1>3. n \in 1..N => Etape = <<"solde", n>>
    BY <1>2, LecturesPrevues
  <1>4. n > N => Etape[1] # "solde"
    <2> SUFFICES ASSUME n > N PROVE Etape[1] # "solde"
      OBVIOUS
    <2>1. n \in {N + 1, N + 2, N + 3, N + 4, N + 5, N + 6, N + 7, N + 8, N + 9}
      <3> HIDE DEF N, n
      <3> QED BY <1>1, <1>2
    <2> QED BY <1>2, <2>1, LecturesPrevues
  <1> HIDE DEF N, n
  <1>5. n \in 1..N \/ n > N
    BY <1>1, <1>2
  <1> QED BY <1>2, <1>3, <1>4, <1>5 DEF N, n

\* Nothing is said of the answers of the other screens, nor of one during which
\* something was written.
LEMMA FideleSinon ==
    ASSUME IsFiniteSet(Montrees'), lecture'.jour = 0 => lecture'.n = 1,
           lecture'.ecran # "forecast" \/ remue' = TRUE
    PROVE  Fidele'
  BY DEF Fidele

\* A step that leaves the request and what it reads alone.
LEMMA FideleHorsLecture ==
    ASSUME Fidele, IsFiniteSet(Montrees'), UNCHANGED <<base, lecture, remue>>
    PROVE  Fidele'
  BY DEF Fidele, SoldesLus, BrutLu, AgregatsLus, LueFidelement, Lue, Agrege, Retenues, DansLaFenetre, DateLigne, Recul, Etape,
         Vide, base

\* An aggregate is the same after a step that writes nothing and keeps the window.
LEMMA AgregeStable ==
    ASSUME UNCHANGED base, lecture'.mois = lecture.mois, lecture'.jour = lecture.jour,
           NEW q, NEW k
    PROVE  Agrege(q, k)' = Agrege(q, k)
  BY DEF Agrege, Retenues, DansLaFenetre, DateLigne, Recul, base

\* A read that leaves the aggregates alone keeps those that were read.
LEMMA AgregatsAilleurs ==
    ASSUME UNCHANGED base, lecture'.mois = lecture.mois, lecture'.jour = lecture.jour,
           lecture'.debits = lecture.debits, lecture'.credits = lecture.credits,
           NEW i, LueFidelement(i)
    PROVE  LueFidelement(i)'
  BY DEF LueFidelement, Lue, Agrege, Retenues, DansLaFenetre, DateLigne, Recul, base

\* The reads that went before, and this one.
LEMMA UneDePlus ==
    ASSUME Origines, lecture'.n = lecture.n + 1,
           \A i \in 1..Len(PlanPrevision) : i < lecture.n \/ i = lecture.n => LueFidelement(i)'
    PROVE  AgregatsLus'
  <1>1. Len(PlanPrevision) \in Nat /\ lecture.n \in Nat
    BY LecturesPrevues DEF Origines
  <1>2. \A i \in 1..Len(PlanPrevision) : i < lecture'.n => i < lecture.n \/ i = lecture.n
    BY <1>1
  <1> QED BY <1>2 DEF AgregatsLus

\* A read that is not one of an aggregate: the balance of an account, which goes
\* behind those that were read, or something else.
LEMMA FideleAutre ==
    ASSUME Origines, Fidele, UNCHANGED <<Montrees, base, remue>>,
           EnCours, lecture.jour # 0, lecture.brut = Vide,
           Etape[1] \notin {"depenses", "revenus"},
           NEW s, NEW b, NEW c,
           lecture' = [lecture EXCEPT !.n = @ + 1, !.soldes = s, !.budgets = b, !.categories = c],
           s = IF Etape[1] = "solde" THEN Append(lecture.soldes, soldes[Comptes[Etape[2]]])
               ELSE lecture.soldes
    PROVE  Fidele'
  <1>1. /\ lecture'.ecran = lecture.ecran /\ lecture'.mois = lecture.mois
        /\ lecture'.n = lecture.n + 1 /\ lecture'.jour = lecture.jour
        /\ lecture'.debits = lecture.debits /\ lecture'.credits = lecture.credits
        /\ lecture'.brut = Vide /\ lecture'.soldes = s
    BY DEF Origines, Forme
  <1>2. IsFiniteSet(Montrees') /\ lecture'.jour # 0
    BY <1>1 DEF Fidele
  <1>3. CASE lecture.ecran # "forecast" \/ remue = TRUE
    BY <1>1, <1>2, <1>3, FideleSinon
  <1>4. CASE lecture.ecran = "forecast" /\ ~remue
    <2>1. SoldesLus /\ AgregatsLus
      BY <1>4 DEF Fidele
    <2>2. /\ Etape = PlanPrevision[lecture.n] /\ lecture.n \in 1..(Len(Comptes) + 9)
          /\ Etape[1] = "solde" => lecture.n \in 1..Len(Comptes) /\ Etape[2] = lecture.n
          /\ Etape[1] # "solde" => lecture.n > Len(Comptes)
      BY <1>4, SoldesDAbord
    <2>3. Len(Comptes) \in Nat /\ Len(PlanPrevision) = Len(Comptes) + 9
      BY LecturesPrevues
    <2>4. ASSUME NEW i \in 1..Len(PlanPrevision), i < lecture.n \/ i = lecture.n
          PROVE  LueFidelement(i)'
      <3>1. CASE i < lecture.n
        <4>1. LueFidelement(i)
          BY <2>1, <3>1 DEF AgregatsLus
        <4> QED BY <1>1, <4>1, AgregatsAilleurs
      <3>2. CASE i = lecture.n
        <4>1. PlanPrevision[i][1] \notin {"depenses", "revenus"}
          BY <2>2, <3>2
        <4> QED BY <4>1 DEF LueFidelement
      <3> QED BY <2>4, <3>1, <3>2
    <2>5. AgregatsLus'
      BY <1>1, <2>4, UneDePlus
    <2>6. SoldesLus'
      <3> DEFINE N == Len(Comptes)
                 n == lecture.n
      <3>1. CASE Etape[1] = "solde"
        <4>1. n \in 1..N /\ AuPlus(n - 1, N) = n - 1 /\ AuPlus((n + 1) - 1, N) = n
          BY <2>2, <2>3, <3>1 DEF AuPlus
        <4>2. lecture.soldes = [i \in 1..(n - 1) |-> soldes[Comptes[i]]]
          BY <2>1, <4>1 DEF SoldesLus
        <4>3. Append(lecture.soldes, soldes[Comptes[n]]) = [i \in 1..n |-> soldes[Comptes[i]]]
          <5> HIDE DEF n, N
          <5>1. n \in Nat /\ n - 1 \in Nat
            BY <4>1, <2>3 DEF N
          <5> DEFINE S == {soldes[Comptes[i]] : i \in 1..n}
                     t == Append(lecture.soldes, soldes[Comptes[n]])
          <5>2. n \in 1..n /\ \A i \in 1..(n - 1) : i \in 1..n
            BY <5>1
          <5>3. lecture.soldes \in [1..(n - 1) -> S] /\ soldes[Comptes[n]] \in S
            BY <4>2, <5>2
          <5> HIDE DEF S
          <5>4. lecture.soldes \in Seq(S)
            BY <5>1, <5>3, FonctionEstSuite
          <5>5. Len(lecture.soldes) = n - 1
            BY <5>1, <5>3, <5>4
          <5>6. /\ t \in Seq(S) /\ Len(t) = Len(lecture.soldes) + 1
                /\ \A i \in 1..Len(lecture.soldes) : t[i] = lecture.soldes[i]
                /\ t[Len(lecture.soldes) + 1] = soldes[Comptes[n]]
            BY <5>3, <5>4, AppendProperties
          <5> HIDE DEF t
          <5>7. (n - 1) + 1 = n
            BY <5>1
          <5>8. t \in [1..n -> S] /\ t[n] = soldes[Comptes[n]]
            BY <5>5, <5>6, <5>7
          <5>9. \A i \in 1..n : t[i] = soldes[Comptes[i]]
            <6> TAKE i \in 1..n
            <6>1. i = n \/ i \in 1..(n - 1)
              BY <5>1
            <6> QED BY <4>2, <5>5, <5>6, <5>8, <6>1
          <5> QED BY <5>8, <5>9 DEF t
        <4>4. s = [i \in 1..n |-> soldes[Comptes[i]]]
          BY <2>2, <3>1, <4>3
        <4> QED BY <1>1, <4>1, <4>4 DEF SoldesLus, base
      <3>2. CASE Etape[1] # "solde"
        <4>1. AuPlus(n - 1, N) = N /\ AuPlus((n + 1) - 1, N) = N
          BY <2>2, <2>3, <3>2 DEF AuPlus
        <4>2. lecture.soldes = [i \in 1..N |-> soldes[Comptes[i]]]
          BY <2>1, <4>1 DEF SoldesLus
        <4> QED BY <1>1, <3>2, <4>1, <4>2 DEF SoldesLus, base
      <3> QED BY <3>1, <3>2
    <2>7. BrutLu'
      BY <1>1 DEF BrutLu, Vide
    <2> QED BY <1>2, <2>5, <2>6, <2>7 DEF Fidele
  <1> QED BY <1>3, <1>4 DEF Fidele

\* An aggregate that is what the tables hold takes its place among the others.
LEMMA FidelePlace ==
    ASSUME Origines, Fidele, UNCHANGED <<Montrees, base, remue>>,
           EnCours, lecture.jour # 0, Etape[1] \in {"depenses", "revenus"},
           NEW f, NEW noms, Placer(f, noms),
           lecture.ecran = "forecast" /\ ~remue => [ids |-> f, noms |-> noms] = Agrege(Etape[1], Etape[2])
    PROVE  Fidele'
  <1> DEFINE r == [ids |-> f, noms |-> noms]
  <1>1. /\ lecture'.ecran = lecture.ecran /\ lecture'.mois = lecture.mois
        /\ lecture'.n = lecture.n + 1 /\ lecture'.jour = lecture.jour
        /\ lecture'.brut = Vide /\ lecture'.soldes = lecture.soldes
        /\ lecture'.debits = IF Etape[1] = "depenses" THEN Avec(lecture.debits, Etape[2], r)
                              ELSE lecture.debits
        /\ lecture'.credits = IF Etape[1] = "revenus" THEN Avec(lecture.credits, Etape[2], r)
                               ELSE lecture.credits
    BY DEF Origines, Forme, Placer, Avancer
  <1>2. IsFiniteSet(Montrees') /\ lecture'.jour # 0
    BY <1>1 DEF Fidele
  <1>3. CASE lecture.ecran # "forecast" \/ remue = TRUE
    BY <1>1, <1>2, <1>3, FideleSinon
  <1>4. CASE lecture.ecran = "forecast" /\ ~remue
    <2>1. SoldesLus /\ AgregatsLus /\ r = Agrege(Etape[1], Etape[2])
      BY <1>4 DEF Fidele
    <2>2. /\ Etape = PlanPrevision[lecture.n] /\ lecture.n \in 1..(Len(Comptes) + 9)
          /\ lecture.n > Len(Comptes)
      BY <1>4, SoldesDAbord
    <2>3. Len(Comptes) \in Nat
      BY LecturesPrevues
    <2>4. \A q, k : Agrege(q, k)' = Agrege(q, k)
      BY <1>1, AgregeStable
    <2> HIDE DEF r
    <2>5. ASSUME NEW q \in {"depenses", "revenus"}, NEW h, NEW g, NEW k, Lue(h, q, k),
                 g = IF Etape[1] = q THEN Avec(h, Etape[2], r) ELSE h
          PROVE  k \in DOMAIN g /\ g[k] = Agrege(q, k)
      BY <2>1, <2>5 DEF Lue, Avec
    <2>6. ASSUME NEW i \in 1..Len(PlanPrevision), i < lecture.n
          PROVE  LueFidelement(i)'
      <3>1. LueFidelement(i)
        BY <2>1, <2>6 DEF AgregatsLus
      <3> DEFINE lu == PlanPrevision[i]
      <3>2. lu[1] = "depenses" =>
              lu[2] \in DOMAIN lecture'.debits /\ lecture'.debits[lu[2]] = Agrege("depenses", lu[2])
        BY <1>1, <2>5, <3>1 DEF LueFidelement
      <3>3. lu[1] = "revenus" =>
              lu[2] \in DOMAIN lecture'.credits /\ lecture'.credits[lu[2]] = Agrege("revenus", lu[2])
        BY <1>1, <2>5, <3>1 DEF LueFidelement
      <3> QED BY <2>4, <3>2, <3>3 DEF LueFidelement, Lue
    <2>7. ASSUME NEW i \in 1..Len(PlanPrevision), i = lecture.n
          PROVE  LueFidelement(i)'
      <3> DEFINE lu == PlanPrevision[i]
      <3>1. lu = Etape /\ (lu[1] = "depenses" \/ lu[1] = "revenus")
        BY <2>2, <2>7
      <3>2. lu[1] = "depenses" =>
              lu[2] \in DOMAIN lecture'.debits /\ lecture'.debits[lu[2]] = Agrege("depenses", lu[2])
        BY <1>1, <2>1, <3>1 DEF Avec
      <3>3. lu[1] = "revenus" =>
              lu[2] \in DOMAIN lecture'.credits /\ lecture'.credits[lu[2]] = Agrege("revenus", lu[2])
        BY <1>1, <2>1, <3>1 DEF Avec
      <3> QED BY <2>4, <3>2, <3>3 DEF LueFidelement, Lue
    <2>8. AgregatsLus'
      BY <1>1, <2>6, <2>7, UneDePlus
    <2>9. SoldesLus'
      <3> DEFINE N == Len(Comptes)
                 n == lecture.n
      <3>1. AuPlus(n - 1, N) = N /\ AuPlus((n + 1) - 1, N) = N
        BY <2>2, <2>3 DEF AuPlus
      <3>2. lecture.soldes = [i \in 1..N |-> soldes[Comptes[i]]]
        BY <2>1, <3>1 DEF SoldesLus
      <3> QED BY <1>1, <3>1, <3>2 DEF SoldesLus, base
    <2>10. BrutLu'
      BY <1>1 DEF BrutLu, Vide
    <2> QED BY <1>2, <2>8, <2>9, <2>10 DEF Fidele
  <1> QED BY <1>3, <1>4 DEF Fidele

\* A request begins with nothing read.
LEMMA FideleAuDebut ==
    ASSUME IsFiniteSet(Montrees'), lecture'.n = 1, lecture'.soldes = <<>>, lecture'.brut = Vide
    PROVE  Fidele'
  <1>1. AuPlus(lecture.n - 1, Len(Comptes))' = 0
    BY LecturesPrevues DEF AuPlus
  <1>2. <<>> = [i \in 1..0 |-> soldes'[Comptes[i]]]
    OBVIOUS
  <1>3. SoldesLus'
    BY <1>1, <1>2 DEF SoldesLus
  <1>4. BrutLu'
    BY DEF BrutLu, Vide
  <1>5. AgregatsLus'
    BY LecturesPrevues DEF AgregatsLus
  <1> QED BY <1>3, <1>4, <1>5 DEF Fidele

\* Every write is noted, but the steps of the worker and of the bank that the
\* tables do not show.
LEMMA EcritureNotee ==
    ASSUME Stockage, Synchroniser \/ Modifier \/ \E o \in Operations : Annoncer(o) \/ Passer(o)
    PROVE  /\ lecture' = lecture
           /\ remue' = TRUE \/ (UNCHANGED <<base, remue>>)
           /\ Montrees' = Montrees \/ \E o \in Operations : Montrees' = Montrees \cup {o}
  <1>1. CASE \E o \in Operations : Annoncer(o) \/ Passer(o)
    BY <1>1 DEF Annoncer, Passer, Montrees
  <1>2. CASE Synchroniser
    BY <1>2 DEF Synchroniser, DebutSynchro, EnregistrerSolde, LireTransactions, FinSynchro, Inserer,
                Bouger, base, banque, Montrees
  <1>3. CASE Modifier
    BY <1>3 DEF Modifier, Categoriser, ReinitialiserInternes, MarquerInternes, DefinirJour,
                EnregistrerBudget, SupprimerCategorie, Ecrire, Bouger, banque, Montrees
  <1> QED BY <1>1, <1>2, <1>3

\* What was read stays what is stored, as long as nothing is written.
LEMMA FideleGardee ==
    ASSUME Origines, Stockage, Fidele, Next
    PROVE  Fidele'
  <1>1. ASSUME NEW e \in Ecrans, NEW m \in MoisDemandes, Demander(e, m)
        PROVE  Fidele'
    <2>1. /\ lecture'.n = 1 /\ lecture'.soldes = <<>> /\ lecture'.brut = Vide
          /\ Montrees' = Montrees
      BY <1>1 DEF Demander, Repos, donnees, banque, Montrees
    <2> QED BY <2>1, FideleAuDebut DEF Fidele
  <1>2. CASE LirePreference
    <2>1. /\ lecture.jour = 0 /\ lecture' = [lecture EXCEPT !.jour = jour]
          /\ Montrees' = Montrees /\ lecture.n = 1 /\ lecture.brut = Vide
      BY <1>2 DEF LirePreference, donnees, banque, Montrees, Origines, Fidele
    <2>2. /\ lecture'.n = 1 /\ lecture'.soldes = lecture.soldes /\ lecture'.brut = Vide
          /\ lecture'.ecran = lecture.ecran /\ remue' = remue
      BY <1>2, <2>1 DEF Origines, Forme, LirePreference
    <2>3. CASE lecture.ecran # "forecast" \/ remue = TRUE
      BY <2>1, <2>2, <2>3, FideleSinon DEF Fidele
    <2>4. CASE lecture.ecran = "forecast" /\ ~remue
      <3>1. lecture.soldes = [i \in 1..0 |-> soldes[Comptes[i]]]
        <4>1. AuPlus(lecture.n - 1, Len(Comptes)) = 0
          BY <2>1, LecturesPrevues DEF AuPlus
        <4> QED BY <2>4, <4>1 DEF Fidele, SoldesLus
      <3>2. lecture'.soldes = <<>>
        BY <2>2, <3>1
      <3> QED BY <2>1, <2>2, <3>2, FideleAuDebut DEF Fidele
    <2> QED BY <2>2, <2>3, <2>4, FideleSinon DEF Fidele
  <1>3. CASE LireSolde
    <2>1. /\ EnCours /\ lecture.jour # 0 /\ lecture.brut = Vide /\ Etape[1] = "solde"
          /\ UNCHANGED <<Montrees, base, remue>>
      BY <1>3 DEF LireSolde, Prochaine, donnees, banque, Montrees
    <2>2. lecture' = [lecture EXCEPT !.n = @ + 1, !.soldes = Append(lecture.soldes, soldes[Comptes[Etape[2]]]),
                                     !.budgets = lecture.budgets, !.categories = lecture.categories]
      BY <1>3 DEF LireSolde, Avancer, Origines, Forme
    <2> QED BY <2>1, <2>2, FideleAutre
  <1>4. CASE LireBudgets
    <2>1. /\ EnCours /\ lecture.jour # 0 /\ lecture.brut = Vide /\ Etape[1] = "budgets"
          /\ UNCHANGED <<Montrees, base, remue>>
      BY <1>4 DEF LireBudgets, Prochaine, donnees, banque, Montrees
    <2>2. PICK b : lecture' = [lecture EXCEPT !.n = @ + 1, !.budgets = b]
      BY <1>4 DEF LireBudgets, Avancer, Origines, Forme
    <2>3. lecture' = [lecture EXCEPT !.n = @ + 1, !.soldes = lecture.soldes,
                                     !.budgets = b, !.categories = lecture.categories]
      BY <2>2 DEF Origines, Forme
    <2> QED BY <2>1, <2>3, FideleAutre
  <1>5. CASE LireCategories
    <2>1. /\ EnCours /\ lecture.jour # 0 /\ lecture.brut = Vide /\ Etape[1] = "categories"
          /\ UNCHANGED <<Montrees, base, remue>>
      BY <1>5 DEF LireCategories, Prochaine, donnees, banque, Montrees
    <2>2. lecture' = [lecture EXCEPT !.n = @ + 1, !.soldes = lecture.soldes,
                                     !.budgets = lecture.budgets, !.categories = categories]
      BY <1>5 DEF LireCategories, Avancer, Origines, Forme
    <2> QED BY <2>1, <2>2, FideleAutre
  <1>6. CASE LireMontants
    <2> DEFINE R == Retenues(Etape[1], Recul(Etape[2]), lecture.jour)
               f == [o \in R |-> rangee[o]]
    <2>1. /\ EnCours /\ lecture.jour # 0 /\ lecture.brut = Vide
          /\ Etape[1] \in {"depenses", "revenus"}
          /\ UNCHANGED <<Montrees, base, remue>>
          /\ IF R = {} THEN Placer(Vide, {}) ELSE lecture' = [lecture EXCEPT !.brut = f]
      BY <1>6 DEF LireMontants, Prochaine, donnees, banque, Montrees
    <2>2. CASE R = {}
      <3>1. f = Vide
        BY <2>2 DEF Vide
      <3>2. [ids |-> Vide, noms |-> {}] = Agrege(Etape[1], Etape[2])
        BY <2>2, <3>1 DEF Agrege
      <3>3. Placer(Vide, {})
        BY <2>1, <2>2
      <3> QED BY <2>1, <3>2, <3>3, FidelePlace
    <2>3. CASE R # {}
      <3>1. lecture' = [lecture EXCEPT !.brut = f]
        BY <2>1, <2>3
      <3>2. /\ lecture'.ecran = lecture.ecran /\ lecture'.mois = lecture.mois
            /\ lecture'.n = lecture.n /\ lecture'.jour = lecture.jour
            /\ lecture'.debits = lecture.debits /\ lecture'.credits = lecture.credits
            /\ lecture'.soldes = lecture.soldes /\ lecture'.brut = f
        BY <3>1 DEF Origines, Forme
      <3>3. Etape' = Etape /\ \A q, k : Agrege(q, k)' = Agrege(q, k)
        BY <2>1, <3>2, AgregeStable DEF Etape
      <3>4. Agrege(Etape[1], Etape[2]).ids = f
        BY DEF Agrege
      <3>5. BrutLu'
        <4>1. Agrege(Etape[1], Etape[2])' = Agrege(Etape[1], Etape[2])
          BY <2>1, <3>2, <3>3 DEF Agrege, Retenues, DansLaFenetre, DateLigne, Recul, base
        <4> HIDE DEF f
        <4> QED BY <3>2, <3>4, <4>1 DEF BrutLu
      <3>6. SoldesLus => SoldesLus'
        BY <2>1, <3>2 DEF SoldesLus, base
      <3>7. AgregatsLus => AgregatsLus'
        BY <2>1, <3>2, AgregatsAilleurs DEF AgregatsLus
      <3> QED BY <2>1, <3>2, <3>5, <3>6, <3>7 DEF Fidele
    <2> QED BY <2>2, <2>3
  <1>7. CASE NommerLignes
    <2>1. /\ EnCours /\ lecture.brut # Vide /\ Placer(lecture.brut, categories)
          /\ UNCHANGED <<Montrees, base, remue>>
      BY <1>7 DEF NommerLignes, donnees, banque, Montrees
    <2>2. lecture.jour # 0 /\ Etape[1] \in {"depenses", "revenus"}
      BY <2>1 DEF Origines
    <2>3. ASSUME lecture.ecran = "forecast" /\ ~remue
          PROVE  [ids |-> lecture.brut, noms |-> categories] = Agrege(Etape[1], Etape[2])
      <3> DEFINE R == Retenues(Etape[1], Recul(Etape[2]), lecture.jour)
      <3>1. lecture.brut = [o \in R |-> rangee[o]]
        BY <2>1, <2>3 DEF Fidele, BrutLu, Agrege
      <3>2. R # {}
        <4> SUFFICES ASSUME R = {} PROVE FALSE
          OBVIOUS
        <4>1. lecture.brut = [o \in {} |-> rangee[o]]
          BY <3>1
        <4>2. lecture.brut = Vide
          BY <4>1 DEF Vide
        <4> QED BY <2>1, <4>2
      <3> QED BY <3>1, <3>2 DEF Agrege
    <2> QED BY <2>1, <2>2, <2>3, FidelePlace
  <1>8. CASE Synchroniser \/ Modifier \/ \E o \in Operations : Annoncer(o) \/ Passer(o)
    <2>1. /\ lecture' = lecture
          /\ remue' = TRUE \/ (UNCHANGED <<base, remue>>)
          /\ Montrees' = Montrees \/ \E o \in Operations : Montrees' = Montrees \cup {o}
      BY <1>8, EcritureNotee
    <2>2. IsFiniteSet(Montrees')
      BY <2>1, FS_AddElement DEF Fidele
    <2>3. CASE remue' = TRUE
      BY <2>1, <2>2, <2>3, FideleSinon DEF Fidele
    <2>4. CASE UNCHANGED <<base, remue>>
      BY <2>1, <2>2, <2>4, FideleHorsLecture
    <2> QED BY <2>1, <2>3, <2>4
  <1> QED BY <1>1, <1>2, <1>3, <1>4, <1>5, <1>6, <1>7, <1>8 DEF Next, Lire

\* The requests on the envelopes and the writes of the other device.
LEMMA FideleParmiEnveloppes ==
    ASSUME InvariantEcrans, Fidele, [NextEnveloppes]_varsEnveloppes
    PROVE  Fidele'
  <1>1. CASE Ecran
    <2>1. Next
      BY <1>1 DEF Ecran, Next
    <2> QED BY <2>1, FideleGardee DEF InvariantEcrans
  <1>2. ASSUME NEW v, Ouvrir(v)
        PROVE  Fidele'
    <2>1. /\ lecture'.n = 1 /\ lecture'.soldes = <<>> /\ lecture'.brut = Vide
          /\ Montrees' = Montrees
      BY <1>2 DEF Ouvrir, Repos, donnees, banque, Montrees
    <2> QED BY <2>1, FideleAuDebut DEF Fidele
  <1>3. CASE ListerDemande \/ \E e \in Budgets : ModifierEnveloppe(e)
    BY <1>2, <1>3 DEF ListerDemande, ModifierEnveloppe
  <1>4. CASE ListerEnveloppes \/ LireConsommations \/ UNCHANGED varsEnveloppes
    <2>1. UNCHANGED <<Montrees, base, lecture, remue>>
      BY <1>4 DEF ListerEnveloppes, LireConsommations, varsEnveloppes, vars, donnees, banque, Montrees
    <2> QED BY <2>1, FideleHorsLecture DEF Fidele
  <1>5. CASE \/ \E e \in Budgets : CreerEnveloppe(e) \/ SupprimerEnveloppe(e)
             \/ \E o \in Affectables, e \in Budgets \cup {Aucune} : Affecter(o, e)
    <2>1. UNCHANGED <<Montrees, lecture>> /\ remue' = TRUE
      BY <1>5 DEF CreerEnveloppe, SupprimerEnveloppe, Affecter, Ecrire, Bouger, donnees, banque, Montrees
    <2> QED BY <2>1, FideleSinon DEF Fidele
  <1> QED BY <1>1, <1>3, <1>4, <1>5 DEF NextEnveloppes

\* Nothing was read before the first request.
LEMMA FideleInit == Init => Fidele
  <1> SUFFICES ASSUME Init PROVE Fidele
    OBVIOUS
  <1>1. /\ lecture.ecran = "aucun" /\ lecture.n = 1 /\ Montrees = Anterieures
    BY DEF Init, Repos, Montrees
  <1> QED BY <1>1, OperationsBienFormees DEF Fidele

-------------------------------------------------------------------------------
(* The accounts of a forecast. *)

\* The opposite values have the opposite sum.
LEMMA SommeOpposee ==
    ASSUME NEW U, NEW f \in [U -> Int], NEW h \in [U -> Int],
           NEW S \in SUBSET U, IsFiniteSet(S),
           \A x \in S : h[x] = 0 - f[x]
    PROVE  SumFunctionOnSet(h, S) = 0 - SumFunctionOnSet(f, S)
  <1> DEFINE nul == [x \in U |-> 0]
             Q == {T \in SUBSET S : SumFunctionOnSet(nul, T) = 0}
  <1>1. nul \in [U -> Int]
    OBVIOUS
  <1>2. \A x \in S : nul[x] = f[x] + h[x]
    OBVIOUS
  <1>3. {} \in Q
    BY FS_EmptySet, SommeDeroulee
  <1>4. ASSUME NEW T \in SUBSET S, NEW x \in S \ T, T \in Q
        PROVE  T \cup {x} \in Q
    <2>1. /\ IsFiniteSet(T \cup {x}) /\ T \cup {x} \in SUBSET U
          /\ (T \cup {x}) \ {x} = T /\ x \in T \cup {x}
      BY FS_Subset, FS_AddElement
    <2>2. SumFunctionOnSet(nul, T \cup {x}) = nul[x] + SumFunctionOnSet(nul, T)
      <3> HIDE DEF nul, Q
      <3> QED BY <1>1, <2>1, SommeUnElement
    <2>3. SumFunctionOnSet(nul, T) = 0 /\ nul[x] = 0
      BY <1>4
    <2> QED BY <2>2, <2>3
  <1>5. S \in Q
    <2> HIDE DEF Q
    <2> QED BY <1>3, <1>4, RecurrenceFinie
  <1>6. SumFunctionOnSet(nul, S) = SumFunctionOnSet(f, S) + SumFunctionOnSet(h, S)
    <2> HIDE DEF nul, Q
    <2> QED BY <1>1, <1>2, SommeAjoutee
  <1>7. SumFunctionOnSet(f, S) \in Int /\ SumFunctionOnSet(h, S) \in Int
    BY SommeUnElement
  <1>8. SumFunctionOnSet(nul, S) = 0
    BY <1>5
  <1> HIDE DEF nul, Q
  <1> QED BY <1>6, <1>7, <1>8

\* A sum of naturals is one.
LEMMA SommePositive ==
    ASSUME NEW U, NEW f \in [U -> Int], NEW S \in SUBSET U, IsFiniteSet(S),
           \A x \in S : f[x] >= 0
    PROVE  SumFunctionOnSet(f, S) >= 0
  <1> DEFINE Q == {T \in SUBSET S : SumFunctionOnSet(f, T) >= 0}
  <1>1. {} \in Q
    <2>1. SumFunctionOnSet(f, {}) = 0
      BY FS_EmptySet, SommeDeroulee
    <2> QED BY <2>1
  <1>2. ASSUME NEW T \in SUBSET S, NEW x \in S \ T, T \in Q
        PROVE  T \cup {x} \in Q
    <2>1. /\ IsFiniteSet(T \cup {x}) /\ T \cup {x} \in SUBSET U /\ IsFiniteSet(T)
          /\ (T \cup {x}) \ {x} = T /\ x \in T \cup {x}
      BY FS_Subset, FS_AddElement
    <2>2. SumFunctionOnSet(f, T \cup {x}) = f[x] + SumFunctionOnSet(f, T)
      BY <2>1, SommeUnElement
    <2>3. SumFunctionOnSet(f, T) \in Int /\ f[x] \in Int
      BY <2>1, SommeUnElement
    <2>4. SumFunctionOnSet(f, T) >= 0 /\ f[x] >= 0
      BY <1>2
    <2>5. f[x] + SumFunctionOnSet(f, T) >= 0
      BY <2>3, <2>4
    <2> QED BY <2>2, <2>5
  <1>3. S \in Q
    <2> HIDE DEF Q
    <2> QED BY <1>1, <1>2, RecurrenceFinie
  <1> QED BY <1>3

\* A finite set of integers that is not empty has a least and a greatest element.
LEMMA Bornes ==
    ASSUME NEW S \in SUBSET Int, IsFiniteSet(S), S # {}
    PROVE  /\ \E x \in S : \A y \in S : x <= y
           /\ \E x \in S : \A y \in S : y <= x
  <1> DEFINE Bornee(T) == T # {} => /\ \E x \in T : \A y \in T : x <= y
                                   /\ \E x \in T : \A y \in T : y <= x
             Q == {T \in SUBSET S : Bornee(T)}
  <1>1. {} \in Q
    OBVIOUS
  <1>2. ASSUME NEW T \in SUBSET S, NEW z \in S \ T, T \in Q
        PROVE  T \cup {z} \in Q
    <2>1. CASE T = {}
      BY <2>1
    <2>2. CASE T # {}
      <3>1. PICK a \in T : \A y \in T : a <= y
        BY <1>2, <2>2
      <3>2. PICK b \in T : \A y \in T : y <= b
        BY <1>2, <2>2
      <3>3. \E x \in T \cup {z} : \A y \in T \cup {z} : x <= y
        <4>1. CASE z <= a
          <5>1. \A y \in T \cup {z} : z <= y
            BY <3>1, <4>1
          <5> QED BY <5>1
        <4>2. CASE a <= z
          <5>1. \A y \in T \cup {z} : a <= y
            BY <3>1, <4>2
          <5> QED BY <5>1
        <4> QED BY <4>1, <4>2
      <3>4. \E x \in T \cup {z} : \A y \in T \cup {z} : y <= x
        <4>1. CASE b <= z
          <5>1. \A y \in T \cup {z} : y <= z
            BY <3>2, <4>1
          <5> QED BY <5>1
        <4>2. CASE z <= b
          <5>1. \A y \in T \cup {z} : y <= b
            BY <3>2, <4>2
          <5> QED BY <5>1
        <4> QED BY <4>1, <4>2
      <3> QED BY <3>3, <3>4
    <2> QED BY <2>1, <2>2
  <1>3. S \in Q
    <2> HIDE DEF Q
    <2> QED BY <1>1, <1>2, RecurrenceFinie
  <1>4. Bornee(S)
    BY <1>3
  <1> QED BY <1>4

\* The values of a finite function.
LEMMA ImageFinie ==
    ASSUME NEW S, IsFiniteSet(S), NEW T, NEW f \in [S -> T]
    PROVE  IsFiniteSet(Range(f)) /\ Range(f) \subseteq T
  <1>1. f \in Surjection(S, Range(f))
    BY DEF Surjection, Range
  <1> QED BY <1>1, FS_Surjection DEF Range

\* Every rank of a series of amounts is one of them.
LEMMA RangEntier ==
    ASSUME NEW n \in Nat, NEW s \in [1..n -> Int], NEW k \in 1..n
    PROVE  Rang(s, k) \in Int
  <1> DEFINE T == {v \in Range(s) : Cardinality({i \in DOMAIN s : s[i] <= v}) >= k}
  <1>1. IsFiniteSet(1..n) /\ Cardinality(1..n) = n
    BY FS_Interval
  <1>2. IsFiniteSet(Range(s)) /\ Range(s) \subseteq Int /\ s[k] \in Range(s)
    <2>1. s[k] \in Range(s)
      BY DEF Range
    <2> QED BY <1>1, <2>1, ImageFinie
  <1>3. PICK v \in Range(s) : \A w \in Range(s) : w <= v
    BY <1>2, Bornes
  <1>4. {i \in DOMAIN s : s[i] <= v} = 1..n
    BY <1>3 DEF Range
  <1>5. T \in SUBSET Int /\ T # {} /\ IsFiniteSet(T)
    <2>1. v \in T
      <3>1. Cardinality({i \in DOMAIN s : s[i] <= v}) >= k
        <4> DEFINE W == {i \in DOMAIN s : s[i] <= v}
        <4>1. W = 1..n
          BY <1>4
        <4> HIDE DEF W
        <4>2. Cardinality(W) = n
          BY <1>1, <4>1
        <4>3. n >= k
          OBVIOUS
        <4>4. Cardinality(W) >= k
          BY <4>2, <4>3
        <4> QED BY <4>4 DEF W
      <3> QED BY <3>1
    <2>2. T \subseteq Range(s)
      OBVIOUS
    <2> HIDE DEF T
    <2> QED BY <1>2, <2>1, <2>2, FS_Subset
  <1> HIDE DEF T
  <1>6. \E x \in T : \A y \in T : x <= y
    BY <1>5, Bornes
  <1>7. Min(T) \in T
    BY <1>6 DEF Min
  <1> QED BY <1>5, <1>7 DEF Rang, T

\* The median of the cycles read is an amount.
LEMMA MedianeEntiere ==
    ASSUME NEW s \in [1..MOIS_HISTORIQUE -> Int]
    PROVE  Mediane(s) \in Int
  <1>1. s \in [1..3 -> Int] /\ s \in Seq(Int)
    BY FonctionEstSuite DEF MOIS_HISTORIQUE
  <1>2. Len(s) = 3
    <2>1. Len(s) \in Nat /\ DOMAIN s = 1..Len(s)
      BY <1>1, LenProperties
    <2>2. DOMAIN s = 1..3
      BY <1>1
    <2>3. \A n \in Nat : 1..n = 1..3 => n = 3
      OBVIOUS
    <2> QED BY <2>1, <2>2, <2>3
  <1>3. Rang(s, 2) \in Int
    <2>1. 3 \in Nat /\ 2 \in 1..3
      OBVIOUS
    <2> QED BY <1>1, <2>1, RangEntier
  <1> QED BY <1>2, <1>3 DEF Mediane

\* The amount of an operation, and its absolute value.
LEMMA MontantDe ==
    ASSUME NEW o \in Operations
    PROVE  /\ Montants[o] = o.montant /\ o.montant \in Int
           /\ Valeurs[o] \in Int /\ Valeurs[o] >= 0
           /\ o.montant > 0 => Valeurs[o] = o.montant
           /\ o.montant < 0 => Valeurs[o] = 0 - o.montant
           /\ o.compte \in Range(Comptes)
  <1>1. o.montant \in Int /\ o.compte \in Range(Comptes)
    BY OperationsBienFormees
  <1>2. Montants[o] = o.montant /\ Valeurs[o] = Valeur(o.montant)
    BY DEF Montants, Valeurs
  <1> QED BY <1>1, <1>2 DEF Valeur

\* Amounts and absolute values are integers.
LEMMA MontantsEntiers == Montants \in [Operations -> Int] /\ Valeurs \in [Operations -> Int]
  BY MontantDe DEF Montants, Valeurs

\* Movements of one direction add up to what their absolute values do.
LEMMA SommeDuSens ==
    ASSUME NEW S \in SUBSET Operations, IsFiniteSet(S)
    PROVE  /\ Somme(S) \in Int
           /\ SumFunctionOnSet(Valeurs, S) \in Int /\ SumFunctionOnSet(Valeurs, S) >= 0
           /\ (\A o \in S : o.montant > 0) => Somme(S) = SumFunctionOnSet(Valeurs, S)
           /\ (\A o \in S : o.montant < 0) => Somme(S) = 0 - SumFunctionOnSet(Valeurs, S)
  <1>1. Somme(S) \in Int /\ SumFunctionOnSet(Valeurs, S) \in Int
    BY MontantsEntiers, SommeUnElement DEF Somme
  <1>2. SumFunctionOnSet(Valeurs, S) >= 0
    <2>1. \A o \in S : Valeurs[o] >= 0
      <3> TAKE o \in S
      <3>1. o \in Operations
        OBVIOUS
      <3> QED BY <3>1, MontantDe
    <2> QED BY <2>1, MontantsEntiers, SommePositive
  <1>3. ASSUME \A o \in S : o.montant > 0
        PROVE  Somme(S) = SumFunctionOnSet(Valeurs, S)
    <2>1. \A o \in S : Montants[o] = Valeurs[o]
      <3> TAKE o \in S
      <3>1. o \in Operations /\ o.montant > 0
        BY <1>3
      <3> QED BY <3>1, MontantDe
    <2>2. S \subseteq Operations
      OBVIOUS
    <2> QED BY <2>1, <2>2, MontantsEntiers, SommeEgale DEF Somme
  <1>4. ASSUME \A o \in S : o.montant < 0
        PROVE  Somme(S) = 0 - SumFunctionOnSet(Valeurs, S)
    <2>1. \A o \in S : Montants[o] = 0 - Valeurs[o]
      <3> TAKE o \in S
      <3>1. o \in Operations /\ o.montant < 0
        BY <1>4
      <3>2. Montants[o] = o.montant /\ Valeurs[o] = 0 - o.montant /\ o.montant \in Int
        BY <3>1, MontantDe
      <3> QED BY <3>2
    <2> QED BY <2>1, MontantsEntiers, SommeOpposee DEF Somme
  <1> QED BY <1>1, <1>2, <1>3, <1>4

\* The movements an aggregate adds up in one category.
Classees(quoi, k, c) == {o \in Retenues(quoi, Recul(k), lecture.jour) : rangee[o] = c}

\* An aggregate adds up some of the stored transactions.
LEMMA RetenuesFinies ==
    ASSUME Stockage, Fidele, NEW q, NEW m, NEW j
    PROVE  /\ Retenues(q, m, j) \in SUBSET Operations /\ IsFiniteSet(Retenues(q, m, j))
           /\ Retenues(q, m, j) \subseteq enregistrees /\ IsFiniteSet(enregistrees)
  <1>1. Retenues(q, m, j) \subseteq enregistrees /\ enregistrees \subseteq Montrees /\ Montrees \subseteq Operations
    BY DEF Retenues, Stockage, Tables, Montrees
  <1>2. IsFiniteSet(Montrees)
    BY DEF Fidele
  <1> QED BY <1>1, <1>2, FS_Subset

\* What an aggregate says of a category that exists, or existed, is the sum of
\* the movements filed there: one without a name has none.
LEMMA RealiseJuste ==
    ASSUME Stockage, Fidele, NEW q, NEW k, NEW c \in Categories
    PROVE  /\ Realise(Agrege(q, k), c) = SumFunctionOnSet(Valeurs, Classees(q, k, c))
           /\ Realise(Agrege(q, k), c) \in Int
           /\ Classees(q, k, c) \in SUBSET Operations /\ IsFiniteSet(Classees(q, k, c))
  <1> DEFINE R == Retenues(q, Recul(k), lecture.jour)
             r == Agrege(q, k)
             S == {o \in R : rangee[o] = c}
  <1>1. R \in SUBSET Operations /\ IsFiniteSet(R)
    BY RetenuesFinies
  <1>2. S \in SUBSET Operations /\ IsFiniteSet(S)
    <2>1. S \in SUBSET R
      OBVIOUS
    <2> HIDE DEF R, S
    <2> QED BY <1>1, <2>1, FS_Subset
  <1>3. DOMAIN r.ids = R /\ (\A o \in R : r.ids[o] = rangee[o]) /\ r.noms = IF R = {} THEN {} ELSE categories
    BY DEF Agrege
  <1> HIDE DEF R, r
  <1>4. {o \in DOMAIN r.ids : r.ids[o] = c} = S
    BY <1>3
  <1>5. c \notin Attribuees(r) => S = {}
    <2> SUFFICES ASSUME c \notin Attribuees(r), NEW o \in R, rangee[o] = c
                 PROVE  FALSE
      OBVIOUS
    <2>1. c \in Lignes(r)
      BY <1>3 DEF Lignes, Range
    <2>2. c \in categories
      BY <1>1, ParametresBienFormes DEF Stockage, Tables
    <2> QED BY <1>3, <2>1, <2>2 DEF Attribuees
  <1>6. Realise(r, c) = SumFunctionOnSet(Valeurs, S)
    <2>1. Montant(r.ids, c) = SumFunctionOnSet(Valeurs, S)
      BY <1>4 DEF Montant
    <2>2. CASE c \in Attribuees(r)
      BY <2>1, <2>2 DEF Realise
    <2>3. CASE c \notin Attribuees(r)
      <3>1. S = {}
        BY <1>5, <2>3
      <3>2. SumFunctionOnSet(Valeurs, {}) = 0
        BY FS_EmptySet, SommeDeroulee
      <3> HIDE DEF S
      <3> QED BY <2>3, <3>1, <3>2 DEF Realise
    <2> QED BY <2>2, <2>3
  <1>7. SumFunctionOnSet(Valeurs, S) \in Int
    <2> HIDE DEF S
    <2> QED BY <1>2, SommeDuSens
  <1> QED BY <1>2, <1>6, <1>7 DEF R, r, Classees

\* The forecast of each category: an amount, for categories that exist.
LEMMA MedianesBienFormees ==
    ASSUME Stockage, Fidele, NEW q, NEW h, \A k \in 1..MOIS_HISTORIQUE : h[k] = Agrege(q, k)
    PROVE  /\ Medianes(h) \in [DOMAIN Medianes(h) -> Int]
           /\ DOMAIN Medianes(h) \subseteq Categories /\ IsFiniteSet(DOMAIN Medianes(h))
  <1> DEFINE med(c) == Mediane([k \in 1..MOIS_HISTORIQUE |-> Realise(h[k], c)])
             vues == UNION {Attribuees(h[k]) : k \in 1..MOIS_HISTORIQUE}
             D == {v \in vues : med(v) > 0}
  <1>1. vues \subseteq Categories /\ vues \subseteq Range([o \in enregistrees |-> rangee[o]])
    <2> SUFFICES ASSUME NEW k \in 1..MOIS_HISTORIQUE, NEW c \in Attribuees(h[k])
                 PROVE  c \in Categories /\ c \in Range([o \in enregistrees |-> rangee[o]])
      OBVIOUS
    <2>1. c \in Lignes(Agrege(q, k)) /\ c \in Agrege(q, k).noms
      BY DEF Attribuees
    <2>2. c \in Categories
      BY <2>1 DEF Agrege, Stockage, Tables
    <2>3. PICK o \in Retenues(q, Recul(k), lecture.jour) : rangee[o] = c
      BY <2>1 DEF Agrege, Lignes, Range
    <2>4. o \in enregistrees
      BY RetenuesFinies
    <2> QED BY <2>2, <2>3, <2>4 DEF Range
  <1>2. IsFiniteSet(vues)
    <2>1. IsFiniteSet(enregistrees)
      BY RetenuesFinies
    <2>2. [o \in enregistrees |-> rangee[o]] \in [enregistrees -> {rangee[o] : o \in enregistrees}]
      OBVIOUS
    <2>3. IsFiniteSet(Range([o \in enregistrees |-> rangee[o]]))
      BY <2>1, <2>2, ImageFinie
    <2> HIDE DEF vues
    <2> QED BY <1>1, <2>3, FS_Subset
  <1>3. ASSUME NEW c \in Categories
        PROVE  med(c) \in Int
    <2>1. \A k \in 1..MOIS_HISTORIQUE : Realise(h[k], c) \in Int
      <3> TAKE k \in 1..MOIS_HISTORIQUE
      <3>1. Realise(Agrege(q, k), c) \in Int
        BY RealiseJuste
      <3> QED BY <3>1
    <2>2. [k \in 1..MOIS_HISTORIQUE |-> Realise(h[k], c)] \in [1..MOIS_HISTORIQUE -> Int]
      BY <2>1
    <2> QED BY <2>2, MedianeEntiere
  <1>4. Medianes(h) = [c \in D |-> med(c)]
    BY DEF Medianes
  <1>5. D \subseteq vues
    OBVIOUS
  <1> HIDE DEF med, vues, D
  <1> QED BY <1>1, <1>2, <1>3, <1>4, <1>5, FS_Subset

\* What each category brings over the whole cycle, the larger of what was
\* expected and of what came, is what came and what is still expected.
LEMMA PrevuOuRealise ==
    ASSUME Stockage, Fidele, NEW q, NEW D, D \subseteq Categories, IsFiniteSet(D),
           NEW prevues \in [D -> Int]
    PROVE  LET r == Agrege(q, 0)
               lot == {o \in Retenues(q, Recul(0), lecture.jour) : rangee[o] \in D}
           IN /\ SumFunction([c \in D |-> PlusGrand(prevues[c], Realise(r, c))])
                   = SumFunctionOnSet(Valeurs, lot) + Restant(prevues, r)
              /\ Restant(prevues, r) \in Int
  <1> DEFINE r == Agrege(q, 0)
             R == Retenues(q, Recul(0), lecture.jour)
             F == [c \in D |-> PlusGrand(prevues[c], Realise(r, c))]
             T == [c \in D |-> Realise(r, c)]
             G == [c \in D |-> AuMoinsZero(prevues[c] - Realise(r, c))]
  <1>1. ASSUME NEW c \in D
        PROVE  /\ Realise(r, c) = SumFunctionOnSet(Valeurs, {o \in R : rangee[o] = c})
               /\ Realise(r, c) \in Int
    <2>1. c \in Categories
      OBVIOUS
    <2>2. /\ Realise(Agrege(q, 0), c) = SumFunctionOnSet(Valeurs, Classees(q, 0, c))
          /\ Realise(Agrege(q, 0), c) \in Int
      BY <2>1, RealiseJuste
    <2> QED BY <2>2 DEF Classees
  <1>2. R \in SUBSET Operations /\ IsFiniteSet(R)
    BY RetenuesFinies
  <1> HIDE DEF r, R
  <1>3. /\ F \in [D -> Int] /\ T \in [D -> Int] /\ G \in [D -> Int]
        /\ \A c \in D : F[c] = T[c] + G[c]
    <2>1. ASSUME NEW c \in D
          PROVE  /\ PlusGrand(prevues[c], Realise(r, c)) \in Int
                 /\ AuMoinsZero(prevues[c] - Realise(r, c)) \in Int
                 /\ PlusGrand(prevues[c], Realise(r, c))
                      = Realise(r, c) + AuMoinsZero(prevues[c] - Realise(r, c))
      <3>1. prevues[c] \in Int /\ Realise(r, c) \in Int
        BY <1>1
      <3>2. \A a, b \in Int : /\ PlusGrand(a, b) \in Int /\ AuMoinsZero(a - b) \in Int
                              /\ PlusGrand(a, b) = b + AuMoinsZero(a - b)
        BY DEF PlusGrand, AuMoinsZero
      <3> QED BY <3>1, <3>2
    <2> QED BY <1>1, <2>1
  <1>4. SumFunctionOnSet(T, D) = SumFunctionOnSet(Valeurs, {o \in R : rangee[o] \in D})
    <2>1. \A c \in D : T[c] = SumFunctionOnSet(Valeurs, {o \in R : rangee[o] = c})
      BY <1>1
    <2> HIDE DEF T
    <2> QED BY <1>2, <1>3, <2>1, MontantsEntiers, SommeParGroupes
  <1>5. DOMAIN F = D /\ SumFunction(F) = SumFunctionOnSet(F, D)
    BY DEF SumFunction
  <1>6. Restant(prevues, r) = SumFunctionOnSet(G, D)
    <2>1. DOMAIN prevues = D /\ DOMAIN G = D
      OBVIOUS
    <2>2. Restant(prevues, r) = SumFunction(G)
      BY <2>1 DEF Restant
    <2> HIDE DEF G
    <2> QED BY <2>1, <2>2 DEF SumFunction
  <1>7. SumFunctionOnSet(F, D) = SumFunctionOnSet(T, D) + SumFunctionOnSet(G, D)
        /\ SumFunctionOnSet(G, D) \in Int
    <2> HIDE DEF F, T, G
    <2>1. PICK f, t, g : f = F /\ t = T /\ g = G
      OBVIOUS
    <2>2. f \in [D -> Int] /\ t \in [D -> Int] /\ g \in [D -> Int]
      BY <1>3, <2>1
    <2>3. D \in SUBSET D /\ \A c \in D : f[c] = t[c] + g[c]
      BY <1>3, <2>1
    <2>4. SumFunctionOnSet(f, D) = SumFunctionOnSet(t, D) + SumFunctionOnSet(g, D)
      BY <2>2, <2>3, SommeAjoutee
    <2>5. SumFunctionOnSet(g, D) \in Int
      BY <2>2, <2>3, SommeUnElement
    <2> QED BY <2>1, <2>4, <2>5
  <1>8. SumFunction(F) = SumFunctionOnSet(Valeurs, {o \in R : rangee[o] \in D}) + Restant(prevues, r)
        /\ Restant(prevues, r) \in Int
    <2> HIDE DEF F, T, G
    <2> QED BY <1>4, <1>5, <1>6, <1>7
  <1> QED BY <1>8 DEF r, R

Etiquetees(S, lab, K) == {x \in S : lab[x] \in K}

\* The sum over what bears one of the labels, label by label.
LEMMA SommeParEtiquettes ==
    ASSUME NEW S \in SUBSET Operations, IsFiniteSet(S),
           NEW lab, NEW K, IsFiniteSet(K), NEW F \in [K -> Int],
           \A k \in K : F[k] = SumFunctionOnSet(Montants, Etiquetees(S, lab, {k}))
    PROVE  SumFunctionOnSet(F, K) = SumFunctionOnSet(Montants, Etiquetees(S, lab, K))
  <1>1. \A k \in K : F[k] = SumFunctionOnSet(Montants, {x \in S : lab[x] = k})
    <2> TAKE k \in K
    <2>1. Etiquetees(S, lab, {k}) = {x \in S : lab[x] = k}
      BY DEF Etiquetees
    <2> QED BY <2>1
  <1>2. SumFunctionOnSet(F, K) = SumFunctionOnSet(Montants, {x \in S : lab[x] \in K})
    BY <1>1, MontantsEntiers, SommeParGroupes
  <1> QED BY <1>2 DEF Etiquetees

\* Account by account, a set of operations adds up to its whole sum: every
\* operation is on one account, which is listed once.
LEMMA SommeParCompte ==
    ASSUME NEW P \in SUBSET Operations, IsFiniteSet(P),
           NEW K, K = DOMAIN Comptes, NEW F \in [K -> Int],
           \A i \in K : F[i] = Somme(DuCompte(P, Comptes[i]))
    PROVE  SumFunctionOnSet(F, K) = Somme(P)
  <1>1. IsFiniteSet(K)
    BY ParametresBienFormes, FS_Interval
  <1>2. \E rang : \A o \in Operations : rang[o] \in K /\ Comptes[rang[o]] = o.compte
    <2> DEFINE choix == [o \in Operations |-> CHOOSE i \in K : Comptes[i] = o.compte]
    <2>1. ASSUME NEW o \in Operations
          PROVE  choix[o] \in K /\ Comptes[choix[o]] = o.compte
      <3>1. \E i \in K : Comptes[i] = o.compte
        BY MontantDe DEF Range
      <3> QED BY <3>1
    <2> HIDE DEF choix
    <2> WITNESS choix
    <2> QED BY <2>1
  <1>3. PICK rang : \A o \in Operations : rang[o] \in K /\ Comptes[rang[o]] = o.compte
    BY <1>2
  <1>4. ASSUME NEW i \in K
        PROVE  F[i] = SumFunctionOnSet(Montants, Etiquetees(P, rang, {i}))
    <2>1. \A o \in P : o.compte = Comptes[i] <=> rang[o] = i
      BY <1>3, ParametresBienFormes DEF IsInjective
    <2>2. DuCompte(P, Comptes[i]) = Etiquetees(P, rang, {i})
      BY <2>1 DEF DuCompte, Etiquetees
    <2> QED BY <2>2 DEF Somme
  <1>5. Etiquetees(P, rang, K) = P
    BY <1>3 DEF Etiquetees
  <1>6. SumFunctionOnSet(F, K) = SumFunctionOnSet(Montants, Etiquetees(P, rang, K))
    BY <1>1, <1>4, SommeParEtiquettes
  <1> QED BY <1>5, <1>6 DEF Somme

\* What the stored balances count.
Comptees == UNION {soldes[c] : c \in Range(Comptes)}

\* Read account after account, the balances add up to all they count.
LEMMA SoldesComplets ==
    ASSUME Stockage, Fidele, lecture.soldes = [i \in 1..Len(Comptes) |-> soldes[Comptes[i]]]
    PROVE  /\ SoldeActuel = Ouverture + Somme(Comptees)
           /\ Comptees \in SUBSET Operations /\ IsFiniteSet(Comptees)
  <1> DEFINE F == [i \in 1..Len(Comptes) |-> Somme(soldes[Comptes[i]])]
  <1>1. Comptees \in SUBSET Operations /\ IsFiniteSet(Comptees)
    <2>1. Comptees \subseteq Montrees /\ Montrees \subseteq Operations
      BY DEF Comptees, Montrees, DuCompte, Stockage, Tables
    <2> QED BY <2>1, FS_Subset DEF Fidele
  <1>2. ASSUME NEW i \in 1..Len(Comptes)
        PROVE  /\ soldes[Comptes[i]] = DuCompte(Comptees, Comptes[i])
               /\ Somme(DuCompte(Comptees, Comptes[i])) \in Int
    <2>1. DuCompte(Comptees, Comptes[i]) \in SUBSET Comptees
      BY DEF DuCompte
    <2>2. Comptes[i] \in Range(Comptes)
      BY ParametresBienFormes DEF Range
    <2>3. DuCompte(Comptees, Comptes[i]) \in SUBSET Operations /\ IsFiniteSet(DuCompte(Comptees, Comptes[i]))
      BY <1>1, <2>1, FS_Subset
    <2>4. soldes[Comptes[i]] = DuCompte(Comptees, Comptes[i])
      BY <2>2 DEF Comptees, DuCompte, Stockage, Tables
    <2> QED BY <2>3, <2>4, SommeDuSens
  <1>3. F \in [1..Len(Comptes) -> Int] /\ \A i \in 1..Len(Comptes) : F[i] = Somme(DuCompte(Comptees, Comptes[i]))
    BY <1>2
  <1>4. SoldeActuel = Ouverture + SumFunction(F)
    <2>1. [i \in DOMAIN lecture.soldes |-> Somme(lecture.soldes[i])] = F
      BY <1>2
    <2> HIDE DEF F
    <2> QED BY <2>1 DEF SoldeActuel
  <1>5. DOMAIN F = 1..Len(Comptes)
    OBVIOUS
  <1>7. DOMAIN Comptes = 1..Len(Comptes)
    BY ParametresBienFormes
  <1> HIDE DEF F
  <1>6. SumFunctionOnSet(F, 1..Len(Comptes)) = Somme(Comptees)
    BY <1>1, <1>3, <1>7, SommeParCompte
  <1> QED BY <1>1, <1>4, <1>5, <1>6 DEF SumFunction

\* The movements of the cycle in one direction that fall in foreseen categories
\* (previsionnel.rs:34-52): the screen counts them as the tables do.
Attendues(q, D) == {o \in Retenues(q, Recul(0), lecture.jour) : rangee[o] \in D}

\* They all go the same way.
LEMMA SensDesAttendues ==
    ASSUME Stockage, Fidele, NEW q \in {"depenses", "revenus"}, NEW D
    PROVE  /\ Attendues(q, D) \in SUBSET Operations /\ IsFiniteSet(Attendues(q, D))
           /\ SumFunctionOnSet(Valeurs, Attendues(q, D)) \in Int
           /\ q = "revenus"  => Somme(Attendues(q, D)) = SumFunctionOnSet(Valeurs, Attendues(q, D))
           /\ q = "depenses" => Somme(Attendues(q, D)) = 0 - SumFunctionOnSet(Valeurs, Attendues(q, D))
  <1> DEFINE S == Attendues(q, D)
  <1>1. S \in SUBSET Retenues(q, Recul(0), lecture.jour)
    BY DEF Attendues
  <1>2. S \in SUBSET Operations /\ IsFiniteSet(S)
    BY <1>1, RetenuesFinies, FS_Subset
  <1>3. \A o \in S : IF q = "depenses" THEN o.montant < 0 ELSE o.montant > 0
    BY <1>1 DEF Retenues
  <1> HIDE DEF S
  <1>4. SumFunctionOnSet(Valeurs, S) \in Int
    BY <1>2, SommeDuSens
  <1>5. q = "revenus" => Somme(S) = SumFunctionOnSet(Valeurs, S)
    BY <1>2, <1>3, SommeDuSens
  <1>6. q = "depenses" => Somme(S) = 0 - SumFunctionOnSet(Valeurs, S)
    BY <1>2, <1>3, SommeDuSens
  <1> QED BY <1>2, <1>4, <1>5, <1>6 DEF S

\* What came in a foreseen category, read in the tables or in the aggregate.
LEMMA TotalAttendu ==
    ASSUME Stockage, Fidele, NEW q \in {"depenses", "revenus"}, NEW D,
           D \subseteq Categories, NEW c \in D
    PROVE  TotalDe(Attendues(q, D), c) = Realise(Agrege(q, 0), c)
  <1> DEFINE S == {o \in Attendues(q, D) : rangee[o] = c}
  <1>1. S = Classees(q, 0, c)
    BY DEF Attendues, Classees
  <1>2. c \in Categories
    OBVIOUS
  <1>3. /\ S \in SUBSET Operations /\ IsFiniteSet(S)
        /\ Realise(Agrege(q, 0), c) = SumFunctionOnSet(Valeurs, S)
    BY <1>1, <1>2, RealiseJuste
  <1>4. \A o \in S : IF q = "depenses" THEN o.montant < 0 ELSE o.montant > 0
    BY DEF Attendues, Retenues
  <1>5. TotalDe(Attendues(q, D), c) = Valeur(Somme(S))
    BY DEF TotalDe
  <1> HIDE DEF S
  <1>6. /\ SumFunctionOnSet(Valeurs, S) \in Int /\ SumFunctionOnSet(Valeurs, S) >= 0
        /\ \/ Somme(S) = SumFunctionOnSet(Valeurs, S)
           \/ Somme(S) = 0 - SumFunctionOnSet(Valeurs, S)
    BY <1>3, <1>4, SommeDuSens
  <1>7. Valeur(Somme(S)) = SumFunctionOnSet(Valeurs, S)
    BY <1>6 DEF Valeur
  <1> QED BY <1>3, <1>5, <1>7

\* One direction of the forecast: what each foreseen category brings over the
\* cycle is what came and what the screen still expects.
LEMMA AttenduOuVenu ==
    ASSUME Stockage, Fidele, NEW q \in {"depenses", "revenus"},
           NEW prevues, NEW D, prevues \in [D -> Int], D \subseteq Categories, IsFiniteSet(D)
    PROVE  /\ SumFunction([c \in D |-> PlusGrand(prevues[c], TotalDe(Attendues(q, D), c))])
                = SumFunctionOnSet(Valeurs, Attendues(q, D)) + Restant(prevues, Agrege(q, 0))
           /\ Restant(prevues, Agrege(q, 0)) \in Int
  <1>1. /\ SumFunction([c \in D |-> PlusGrand(prevues[c], Realise(Agrege(q, 0), c))])
             = SumFunctionOnSet(Valeurs, Attendues(q, D)) + Restant(prevues, Agrege(q, 0))
        /\ Restant(prevues, Agrege(q, 0)) \in Int
    BY PrevuOuRealise DEF Attendues
  <1>2. \A c \in D : TotalDe(Attendues(q, D), c) = Realise(Agrege(q, 0), c)
    BY TotalAttendu
  <1>3. [c \in D |-> PlusGrand(prevues[c], TotalDe(Attendues(q, D), c))]
          = [c \in D |-> PlusGrand(prevues[c], Realise(Agrege(q, 0), c))]
    BY <1>2
  <1> QED BY <1>1, <1>3

\* An answer during which nothing was written says what the tables say.
LEMMA ReponseEntiere ==
    ASSUME InvariantEcrans, Fidele, Rendue("forecast"), ~remue
    PROVE  /\ lecture.soldes = [i \in 1..Len(Comptes) |-> soldes[Comptes[i]]]
           /\ \A k \in 0..MOIS_HISTORIQUE : /\ lecture.debits[k] = Agrege("depenses", k)
                                            /\ lecture.credits[k] = Agrege("revenus", k)
           /\ lecture.mois \in Int
  <1> DEFINE N == Len(Comptes)
             n == lecture.n
  <1>1. N \in Nat /\ Len(PlanPrevision) = N + 9 /\ n \in Nat /\ lecture.mois \in Int
    BY LecturesPrevues DEF InvariantEcrans, Origines
  <1>2. n > N + 9
    BY <1>1 DEF Rendue, EnCours, Plan
  <1>3. SoldesLus /\ AgregatsLus
    BY DEF Fidele, Rendue
  <1>4. AuPlus(n - 1, N) = N
    BY <1>1, <1>2 DEF AuPlus
  <1>5. lecture.soldes = [i \in 1..N |-> soldes[Comptes[i]]]
    BY <1>3, <1>4 DEF SoldesLus
  <1>6. \A i \in 1..(N + 9) : LueFidelement(i)
    BY <1>1, <1>2, <1>3 DEF AgregatsLus
  <1> HIDE DEF N, n
  <1>7. /\ N + 1 \in 1..(N + 9) /\ N + 2 \in 1..(N + 9) /\ N + 3 \in 1..(N + 9) /\ N + 4 \in 1..(N + 9)
        /\ N + 5 \in 1..(N + 9) /\ N + 6 \in 1..(N + 9) /\ N + 7 \in 1..(N + 9) /\ N + 8 \in 1..(N + 9)
    BY <1>1
  <1>8. ASSUME NEW i \in 1..(N + 9), NEW k, PlanPrevision[i] = <<"depenses", k>>
        PROVE  lecture.debits[k] = Agrege("depenses", k)
    BY <1>6, <1>8 DEF LueFidelement, Lue
  <1>9. ASSUME NEW i \in 1..(N + 9), NEW k, PlanPrevision[i] = <<"revenus", k>>
        PROVE  lecture.credits[k] = Agrege("revenus", k)
    BY <1>6, <1>9 DEF LueFidelement, Lue
  <1>10. /\ lecture.debits[0] = Agrege("depenses", 0) /\ lecture.credits[0] = Agrege("revenus", 0)
         /\ lecture.debits[1] = Agrege("depenses", 1) /\ lecture.credits[1] = Agrege("revenus", 1)
    BY <1>7, <1>8, <1>9, LecturesPrevues DEF N
  <1>11. /\ lecture.debits[2] = Agrege("depenses", 2) /\ lecture.credits[2] = Agrege("revenus", 2)
         /\ lecture.debits[3] = Agrege("depenses", 3) /\ lecture.credits[3] = Agrege("revenus", 3)
    BY <1>7, <1>8, <1>9, LecturesPrevues DEF N
  <1>12. 0..MOIS_HISTORIQUE = {0, 1, 2, 3}
    BY DEF MOIS_HISTORIQUE
  <1> QED BY <1>1, <1>5, <1>10, <1>11, <1>12 DEF N

\* The forecast of each direction is an amount for each of its categories.
LEMMA PrevuesBienFormees ==
    ASSUME InvariantEcrans, Fidele, Rendue("forecast"), ~remue
    PROVE  /\ RevenusPrevus \in [DOMAIN RevenusPrevus -> Int]
           /\ DOMAIN RevenusPrevus \subseteq Categories /\ IsFiniteSet(DOMAIN RevenusPrevus)
           /\ DepensesPrevues \in [DOMAIN DepensesPrevues -> Int]
           /\ DOMAIN DepensesPrevues \subseteq Categories /\ IsFiniteSet(DOMAIN DepensesPrevues)
  <1> DEFINE Mr == Medianes(lecture.credits)
             Md == Medianes(lecture.debits)
             r == Revenus \cap lecture.categories
  <1>1. \A k \in 1..MOIS_HISTORIQUE : /\ lecture.debits[k] = Agrege("depenses", k)
                                      /\ lecture.credits[k] = Agrege("revenus", k)
    BY ReponseEntiere DEF MOIS_HISTORIQUE
  <1>2. Stockage
    BY DEF InvariantEcrans
  <1>3. Mr \in [DOMAIN Mr -> Int] /\ DOMAIN Mr \subseteq Categories /\ IsFiniteSet(DOMAIN Mr)
    BY <1>1, <1>2, MedianesBienFormees
  <1>4. Md \in [DOMAIN Md -> Int] /\ DOMAIN Md \subseteq Categories /\ IsFiniteSet(DOMAIN Md)
    BY <1>1, <1>2, MedianesBienFormees
  <1>5. /\ RevenusPrevus = [c \in DOMAIN Mr \cap r |-> Mr[c]]
        /\ DepensesPrevues = [c \in DOMAIN Md \ r |-> Md[c]]
    BY DEF RevenusPrevus, DepensesPrevues
  <1> HIDE DEF Mr, Md, r
  <1>6. IsFiniteSet(DOMAIN Mr \cap r) /\ IsFiniteSet(DOMAIN Md \ r)
    BY <1>3, <1>4, FS_Subset
  <1>7. /\ RevenusPrevus \in [DOMAIN Mr \cap r -> Int] /\ DOMAIN RevenusPrevus = DOMAIN Mr \cap r
        /\ DepensesPrevues \in [DOMAIN Md \ r -> Int] /\ DOMAIN DepensesPrevues = DOMAIN Md \ r
    BY <1>3, <1>4, <1>5
  <1> QED BY <1>3, <1>4, <1>6, <1>7

\* What is in a set and what is left of it, whatever the second set is.
LEMMA SommePartagee ==
    ASSUME NEW A \in SUBSET Operations, NEW B \in SUBSET Operations, IsFiniteSet(A)
    PROVE  /\ Somme(A) = Somme(A \ B) + Somme(A \cap B)
           /\ Somme(A \ B) \in Int /\ Somme(A \cap B) \in Int
  <1> DEFINE X == A \ B
             Y == A \cap B
  <1>1. X \in SUBSET A /\ Y \in SUBSET A /\ X \cup Y = A /\ X \cap Y = {}
    OBVIOUS
  <1> HIDE DEF X, Y
  <1>2. /\ X \in SUBSET Operations /\ Y \in SUBSET Operations
        /\ IsFiniteSet(X) /\ IsFiniteSet(Y)
    BY <1>1, FS_Subset
  <1>3. Somme(X \cup Y) = Somme(X) + Somme(Y)
    BY <1>1, <1>2, MontantsEntiers, SommeDisjointe DEF Somme
  <1>4. Somme(X) \in Int /\ Somme(Y) \in Int
    BY <1>2, SommeDuSens
  <1> QED BY <1>1, <1>3, <1>4 DEF X, Y

\* The movements that came, in the balance or not yet, and the others it counts.
LEMMA SoldesEtVenues ==
    ASSUME NEW C \in SUBSET Operations, NEW R \in SUBSET Operations, NEW D \in SUBSET Operations,
           IsFiniteSet(C), IsFiniteSet(R), IsFiniteSet(D), R \cap D = {}
    PROVE  /\ Somme(C) = Somme(C \ (R \cup D)) + Somme(R) + Somme(D) - Somme((R \cup D) \ C)
           /\ Somme(C \ (R \cup D)) \in Int /\ Somme((R \cup D) \ C) \in Int
           /\ Somme(R) \in Int /\ Somme(D) \in Int
  <1> DEFINE V == R \cup D
  <1>1. V \in SUBSET Operations /\ IsFiniteSet(V)
    BY FS_Union
  <1>2. Somme(R \cup D) = Somme(R) + Somme(D) /\ Somme(R) \in Int /\ Somme(D) \in Int
    BY MontantsEntiers, SommeDisjointe, SommeDuSens DEF Somme
  <1>3. C \cap V = V \cap C
    OBVIOUS
  <1> HIDE DEF V
  <1>4. /\ Somme(C) = Somme(C \ V) + Somme(C \cap V)
        /\ Somme(C \ V) \in Int /\ Somme(C \cap V) \in Int
    BY <1>1, SommePartagee
  <1>5. /\ Somme(V) = Somme(V \ C) + Somme(V \cap C)
        /\ Somme(V \ C) \in Int
    BY <1>1, SommePartagee
  <1>6. Somme(V) = Somme(R) + Somme(D)
    BY <1>2 DEF V
  <1>7. Somme(C) = Somme(C \ V) + Somme(R) + Somme(D) - Somme(V \ C)
    <2> DEFINE c == Somme(C)
               v == Somme(V)
               p == Somme(C \ V)
               i == Somme(C \cap V)
               q == Somme(V \ C)
               r == Somme(R)
               d == Somme(D)
    <2>1. c = p + i /\ v = q + i /\ v = r + d
      BY <1>3, <1>4, <1>5, <1>6
    <2>2. p \in Int /\ i \in Int /\ q \in Int /\ r \in Int /\ d \in Int
      BY <1>2, <1>4, <1>5
    <2> HIDE DEF c, v, p, i, q, r, d
    <2>3. c = p + r + d - q
      BY <2>1, <2>2
    <2> QED BY <2>3 DEF c, p, r, d, q
  <1> QED BY <1>2, <1>4, <1>5, <1>7 DEF V

\* An answer that read the tables as they stand shows the balance the property
\* announces: the two invariants are enough.
LEMMA TresorerieDesTables ==
    ASSUME InvariantEcrans, Fidele
    PROVE  TresorerieExacte
  <1> SUFFICES ASSUME Rendue("forecast"), ~remue PROVE TresorerieExacte
    BY DEF TresorerieExacte
  <1> DEFINE cycle  == {o \in enregistrees \ internes : DansLaFenetre(o, lecture.mois, lecture.jour)}
             recues == {o \in cycle : o.montant > 0 /\ rangee[o] \in DOMAIN RevenusPrevus}
             payees == {o \in cycle : o.montant < 0 /\ rangee[o] \in DOMAIN DepensesPrevues}
             venues == recues \cup payees
             viennent == SumFunction([c \in DOMAIN RevenusPrevus |-> PlusGrand(RevenusPrevus[c], TotalDe(recues, c))])
             partent  == SumFunction([c \in DOMAIN DepensesPrevues |-> PlusGrand(DepensesPrevues[c], TotalDe(payees, c))])
             Ar == Attendues("revenus", DOMAIN RevenusPrevus)
             Ad == Attendues("depenses", DOMAIN DepensesPrevues)
             Rr == Restant(RevenusPrevus, Agrege("revenus", 0))
             Rd == Restant(DepensesPrevues, Agrege("depenses", 0))
  <1>1. /\ lecture.soldes = [i \in 1..Len(Comptes) |-> soldes[Comptes[i]]]
        /\ lecture.debits[0] = Agrege("depenses", 0) /\ lecture.credits[0] = Agrege("revenus", 0)
        /\ lecture.mois \in Int /\ Stockage
    BY ReponseEntiere DEF MOIS_HISTORIQUE, InvariantEcrans
  <1>2. Recul(0) = lecture.mois /\ Ouverture \in Int
    BY <1>1, ParametresBienFormes DEF Recul
  <1>3. recues = Ar /\ payees = Ad
    BY <1>2 DEF Attendues, Retenues
  <1>4. /\ Ar \in SUBSET Operations /\ IsFiniteSet(Ar)
        /\ Ad \in SUBSET Operations /\ IsFiniteSet(Ad)
    BY <1>1, SensDesAttendues
  <1>5. /\ SumFunction([c \in DOMAIN RevenusPrevus |-> PlusGrand(RevenusPrevus[c], TotalDe(Ar, c))])
             = SumFunctionOnSet(Valeurs, Ar) + Rr
        /\ Rr \in Int /\ SumFunctionOnSet(Valeurs, Ar) \in Int
        /\ Somme(Ar) = SumFunctionOnSet(Valeurs, Ar)
    BY <1>1, PrevuesBienFormees, AttenduOuVenu, SensDesAttendues
  <1>6. /\ SumFunction([c \in DOMAIN DepensesPrevues |-> PlusGrand(DepensesPrevues[c], TotalDe(Ad, c))])
             = SumFunctionOnSet(Valeurs, Ad) + Rd
        /\ Rd \in Int /\ SumFunctionOnSet(Valeurs, Ad) \in Int
        /\ Somme(Ad) = 0 - SumFunctionOnSet(Valeurs, Ad)
    BY <1>1, PrevuesBienFormees, AttenduOuVenu, SensDesAttendues
  <1>7. viennent = Somme(recues) + Rr /\ partent = Rd - Somme(payees)
    <2>1. viennent = SumFunctionOnSet(Valeurs, Ar) + Rr /\ partent = SumFunctionOnSet(Valeurs, Ad) + Rd
      BY <1>3, <1>5, <1>6
    <2> HIDE DEF viennent, partent, recues, payees, Ar, Ad, Rr, Rd
    <2> QED BY <1>3, <1>5, <1>6, <2>1
  <1>8. recues \cap payees = {}
    <2>1. \A o \in Operations : ~ (o.montant > 0 /\ o.montant < 0)
      <3> TAKE o \in Operations
      <3>1. o.montant \in Int
        BY MontantDe
      <3> QED BY <3>1
    <2>2. \A o \in recues : o \in Operations
      BY <1>3, <1>4
    <2> QED BY <2>1, <2>2
  <1>9. /\ SoldeActuel = Ouverture + Somme(Comptees)
        /\ Comptees \in SUBSET Operations /\ IsFiniteSet(Comptees)
    BY <1>1, SoldesComplets
  <1>10. SoldePrevisionnel = SoldeActuel + Rr - Rd
    BY <1>1 DEF SoldePrevisionnel
  <1>11. /\ Somme(Comptees) = Somme(Comptees \ venues) + Somme(recues) + Somme(payees) - Somme(venues \ Comptees)
         /\ Somme(Comptees \ venues) \in Int /\ Somme(venues \ Comptees) \in Int
         /\ Somme(recues) \in Int /\ Somme(payees) \in Int
    <2>1. /\ recues \in SUBSET Operations /\ payees \in SUBSET Operations
          /\ IsFiniteSet(recues) /\ IsFiniteSet(payees)
      BY <1>3, <1>4
    <2> HIDE DEF recues, payees
    <2> QED BY <1>8, <1>9, <2>1, SoldesEtVenues
  <1>12. SoldePrevisionnel = Ouverture + Somme(Comptees \ venues) - Somme(venues \ Comptees) + viennent - partent
    <2> DEFINE a == Somme(Comptees \ venues)
               b == Somme(venues \ Comptees)
               x == Somme(recues)
               y == Somme(payees)
    <2> HIDE DEF a, b, x, y, viennent, partent, recues, payees, venues, Rr, Rd
    <2>1. SoldePrevisionnel = Ouverture + (a + x + y - b) + Rr - Rd
      BY <1>9, <1>10, <1>11 DEF a, b, x, y
    <2>2. a \in Int /\ b \in Int /\ x \in Int /\ y \in Int /\ Rr \in Int /\ Rd \in Int /\ Ouverture \in Int
      BY <1>2, <1>5, <1>6, <1>11 DEF a, b, x, y
    <2>3. viennent = x + Rr /\ partent = Rd - y
      BY <1>7 DEF x, y
    <2>4. SoldePrevisionnel = Ouverture + a - b + viennent - partent
      BY <2>1, <2>2, <2>3
    <2> QED BY <2>4 DEF a, b
  <1> HIDE DEF viennent, partent
  <1> QED BY <1>12 DEF TresorerieExacte, Comptees, viennent, partent

\* The balance foreseen at the end of the cycle, in an answer during which
\* nothing was written, counts each foreseen category once, for what was expected
\* or for what came if it is more, and each other movement of the balance for
\* what it is, up to what is in the balance and not stored yet, or stored and not
\* in the balance yet (domain/previsionnel.rs:34-52, handlers/previsionnel.rs):
\* whatever the accounts, the categories, the amounts and the start day, what is
\* pending or undated, and however the reads are interleaved with the worker and
\* with the requests on the envelopes.
THEOREM TresorerieToujoursExacte == SpecEnveloppes => []TresorerieExacte
  <1>1. InitEnveloppes => InvariantEcrans /\ Fidele
    BY EcransInit, FideleInit DEF InitEnveloppes
  <1>2. InvariantEcrans /\ Fidele /\ [NextEnveloppes]_varsEnveloppes => InvariantEcrans' /\ Fidele'
    BY EcransParmiEnveloppes, FideleParmiEnveloppes
  <1>3. InvariantEcrans /\ Fidele => TresorerieExacte
    BY TresorerieDesTables
  <1> QED BY <1>1, <1>2, <1>3, PTL DEF SpecEnveloppes

===============================================================================
