----------------------------- MODULE RelaisProofs -----------------------------
(***************************************************************************)
(* What the broker makes of the worker's queue (Relais.RelaisFidele), for  *)
(* every capacity of the queue, every number and length of synchronisations *)
(* and every number of broken links.                                       *)
(*                                                                         *)
(* The events stand in one line from the broker back to the worker: those  *)
(* received, those in flight, the queue, those still to be published.  The *)
(* invariant says that this line is in order, and that what is in flight    *)
(* overlaps what was received in a way that sending it again repairs.       *)
(***************************************************************************)
EXTENDS Relais, SequenceTheorems, WellFoundedInduction, TLAPS

Evenements == Nat \X Nat

(* Every event of S was published before every event of T. *)
Precedent(S, T) == \A e \in S, f \in T : Avant(e, f)

Trie(s) == \A i, j \in DOMAIN s : i < j => Avant(s[i], s[j])

Formes ==
    /\ aPublier \in Seq(Evenements)
    /\ canal \in Seq(Evenements)
    /\ enVol \in Seq(Evenements)
    /\ recus \in Seq(Evenements)
    /\ syncs \in Nat
    /\ coupures \in Nat

Ordre ==
    /\ Trie(recus) /\ Trie(enVol) /\ Trie(canal) /\ Trie(aPublier)
    /\ Precedent(ToSet(recus) \cup ToSet(enVol), ToSet(canal) \cup ToSet(aPublier))
    /\ Precedent(ToSet(canal), ToSet(aPublier))

(* What is in flight was received, or comes after all that was. *)
Reprise ==
    /\ \A e \in ToSet(enVol) : e \in ToSet(recus) \/ Precedent(ToSet(recus), {e})
    /\ lien => ToSet(enVol) \subseteq ToSet(recus)

(* No event of a synchronisation that has not begun. *)
Anciens ==
    \A e \in ToSet(recus) \cup ToSet(enVol) \cup ToSet(canal) \cup ToSet(aPublier) :
        e[1] <= syncs

Invariant == Formes /\ Ordre /\ Reprise /\ Anciens

-------------------------------------------------------------------------------
(* The two ends of a queue: an event goes in at one, and leaves at the     *)
(* other (relay/publisher.rs:97, 138).                                     *)
LEMMA FileAllongee ==
    ASSUME NEW S, NEW s \in Seq(S), NEW e \in S
    PROVE  /\ Append(s, e) \in Seq(S)
           /\ Len(Append(s, e)) = Len(s) + 1
           /\ \A i \in 1 .. Len(s) : Append(s, e)[i] = s[i]
           /\ Append(s, e)[Len(s) + 1] = e
           /\ ToSet(Append(s, e)) = ToSet(s) \cup {e}
<1>1. /\ Append(s, e) \in Seq(S)
      /\ Len(Append(s, e)) = Len(s) + 1
      /\ \A i \in 1 .. Len(s) : Append(s, e)[i] = s[i]
      /\ Append(s, e)[Len(s) + 1] = e
  BY AppendProperties
<1>2. Len(s) \in Nat /\ DOMAIN s = 1 .. Len(s) /\ DOMAIN Append(s, e) = 1 .. (Len(s) + 1)
  BY <1>1, LenProperties
<1>3. 1 .. (Len(s) + 1) = 1 .. Len(s) \cup {Len(s) + 1}
  BY <1>2
<1> QED
  BY <1>1, <1>2, <1>3 DEF ToSet

(* What is taken is the oldest, and the rest keeps its content. *)
LEMMA FileEntamee ==
    ASSUME NEW S, NEW s \in Seq(S), s # <<>>
    PROVE  /\ Head(s) \in S
           /\ Tail(s) \in Seq(S)
           /\ ToSet(s) = {Head(s)} \cup ToSet(Tail(s))
<1>1. /\ Head(s) \in S
      /\ Tail(s) \in Seq(S)
      /\ Head(s) = s[1]
      /\ Len(Tail(s)) = Len(s) - 1
      /\ \A i \in 1 .. Len(Tail(s)) : Tail(s)[i] = s[i + 1]
  BY HeadTailProperties
<1>2. Len(s) \in Nat \ {0} /\ DOMAIN s = 1 .. Len(s) /\ DOMAIN Tail(s) = 1 .. (Len(s) - 1)
  BY <1>1, LenProperties, EmptySeq
<1>3. ASSUME NEW x
      PROVE  x \in ToSet(s) <=> x = Head(s) \/ x \in ToSet(Tail(s))
  <2>1. ASSUME x \in ToSet(s) PROVE x = Head(s) \/ x \in ToSet(Tail(s))
    <3>1. PICK i \in 1 .. Len(s) : x = s[i]
      BY <2>1, <1>2 DEF ToSet
    <3>2. CASE i = 1
      BY <3>1, <3>2, <1>1
    <3>3. CASE i # 1
      <4>1. i - 1 \in 1 .. Len(Tail(s)) /\ Tail(s)[i - 1] = s[i]
        BY <3>3, <1>1, <1>2
      <4> QED
        BY <4>1, <3>1, <1>1, <1>2 DEF ToSet
    <3> QED
      BY <3>2, <3>3
  <2>2. ASSUME x = Head(s) \/ x \in ToSet(Tail(s)) PROVE x \in ToSet(s)
    <3>1. CASE x = Head(s)
      BY <3>1, <1>1, <1>2 DEF ToSet
    <3>2. CASE x \in ToSet(Tail(s))
      <4>1. PICK i \in 1 .. Len(Tail(s)) : x = Tail(s)[i]
        BY <3>2, <1>1, <1>2 DEF ToSet
      <4>2. i + 1 \in 1 .. Len(s) /\ x = s[i + 1]
        BY <4>1, <1>1, <1>2
      <4> QED
        BY <4>2, <1>2 DEF ToSet
    <3> QED
      BY <2>2, <3>1, <3>2
  <2> QED
    BY <2>1, <2>2
<1> QED
  BY <1>1, <1>3

(* One queue behind the other: the client's pending packets (Couper). *)
LEMMA FilesJointes ==
    ASSUME NEW S, NEW s \in Seq(S), NEW t \in Seq(S)
    PROVE  /\ s \o t \in Seq(S)
           /\ ToSet(s \o t) = ToSet(s) \cup ToSet(t)
<1>1. /\ s \o t \in Seq(S)
      /\ Len(s \o t) = Len(s) + Len(t)
      /\ \A i \in 1 .. Len(s) + Len(t) :
           (s \o t)[i] = IF i <= Len(s) THEN s[i] ELSE t[i - Len(s)]
  BY ConcatProperties
<1>2. /\ Len(s) \in Nat /\ DOMAIN s = 1 .. Len(s)
      /\ Len(t) \in Nat /\ DOMAIN t = 1 .. Len(t)
      /\ DOMAIN (s \o t) = 1 .. (Len(s) + Len(t))
  BY <1>1, LenProperties
<1>3. ASSUME NEW i \in DOMAIN (s \o t)
      PROVE  (s \o t)[i] \in ToSet(s) \cup ToSet(t)
  <2>1. CASE i <= Len(s)
    BY <2>1, <1>1, <1>2 DEF ToSet
  <2>2. CASE ~(i <= Len(s))
    <3>1. i - Len(s) \in DOMAIN t /\ (s \o t)[i] = t[i - Len(s)]
      BY <2>2, <1>1, <1>2
    <3> QED
      BY <3>1 DEF ToSet
  <2> QED
    BY <2>1, <2>2
<1>4. ASSUME NEW i \in DOMAIN s
      PROVE  s[i] \in ToSet(s \o t)
  <2>1. i \in DOMAIN (s \o t) /\ (s \o t)[i] = s[i]
    BY <1>1, <1>2
  <2> QED
    BY <2>1 DEF ToSet
<1>5. ASSUME NEW i \in DOMAIN t
      PROVE  t[i] \in ToSet(s \o t)
  <2>1. i + Len(s) \in DOMAIN (s \o t) /\ (s \o t)[i + Len(s)] = t[i]
    BY <1>1, <1>2
  <2> QED
    BY <2>1 DEF ToSet
<1> QED
  BY <1>1, <1>3, <1>4, <1>5 DEF ToSet

-------------------------------------------------------------------------------
(* A queue in order stays so at each of its ends. *)
LEMMA TriAllonge ==
    ASSUME NEW s \in Seq(Evenements), NEW e \in Evenements, Trie(s),
           Precedent(ToSet(s), {e})
    PROVE  Trie(Append(s, e))
<1>1. Len(s) \in Nat /\ DOMAIN s = 1 .. Len(s)
  BY LenProperties
<1>2. DOMAIN Append(s, e) = 1 .. (Len(s) + 1)
  BY <1>1, FileAllongee, LenProperties
<1>3. \A i \in DOMAIN s : Append(s, e)[i] = s[i] /\ s[i] \in ToSet(s)
  BY <1>1, FileAllongee DEF ToSet
<1>4. Append(s, e)[Len(s) + 1] = e
  BY FileAllongee
<1>5. ASSUME NEW i \in DOMAIN Append(s, e), NEW j \in DOMAIN Append(s, e), i < j
      PROVE  Avant(Append(s, e)[i], Append(s, e)[j])
  <2>1. i \in DOMAIN s
    BY <1>1, <1>2, <1>5
  <2>2. CASE j = Len(s) + 1
    BY <2>1, <2>2, <1>3, <1>4 DEF Precedent
  <2>3. CASE j # Len(s) + 1
    <3>1. j \in DOMAIN s
      BY <2>3, <1>1, <1>2
    <3> QED
      BY <2>1, <3>1, <1>3, <1>5 DEF Trie
  <2> QED
    BY <2>2, <2>3
<1> QED
  BY <1>5 DEF Trie

(* The head comes before the rest. *)
LEMMA TriEntame ==
    ASSUME NEW s \in Seq(Evenements), s # <<>>, Trie(s)
    PROVE  /\ Trie(Tail(s))
           /\ Precedent({Head(s)}, ToSet(Tail(s)))
<1>1. /\ Tail(s) \in Seq(Evenements)
      /\ Head(s) = s[1]
      /\ Len(Tail(s)) = Len(s) - 1
      /\ \A i \in 1 .. Len(Tail(s)) : Tail(s)[i] = s[i + 1]
  BY HeadTailProperties
<1>2. Len(s) \in Nat \ {0} /\ DOMAIN s = 1 .. Len(s) /\ DOMAIN Tail(s) = 1 .. (Len(s) - 1)
  BY <1>1, LenProperties, EmptySeq
<1>3. ASSUME NEW i \in DOMAIN Tail(s), NEW j \in DOMAIN Tail(s), i < j
      PROVE  Avant(Tail(s)[i], Tail(s)[j])
  <2>1. i + 1 \in DOMAIN s /\ j + 1 \in DOMAIN s /\ i + 1 < j + 1
    BY <1>2, <1>3
  <2> QED
    BY <2>1, <1>1, <1>2 DEF Trie
<1>4. ASSUME NEW i \in DOMAIN Tail(s)
      PROVE  Avant(Head(s), Tail(s)[i])
  <2>1. 1 \in DOMAIN s /\ i + 1 \in DOMAIN s /\ 1 < i + 1
    BY <1>2
  <2> QED
    BY <2>1, <1>1, <1>2 DEF Trie
<1> QED
  BY <1>3, <1>4 DEF Trie, Precedent, ToSet

(* The pending packets followed by what the queue held (Couper). *)
LEMMA TrisJoints ==
    ASSUME NEW s \in Seq(Evenements), NEW t \in Seq(Evenements), Trie(s), Trie(t),
           Precedent(ToSet(s), ToSet(t))
    PROVE  Trie(s \o t)
<1>1. /\ s \o t \in Seq(Evenements)
      /\ Len(s \o t) = Len(s) + Len(t)
      /\ \A i \in 1 .. Len(s) + Len(t) :
           (s \o t)[i] = IF i <= Len(s) THEN s[i] ELSE t[i - Len(s)]
  BY ConcatProperties
<1>2. /\ Len(s) \in Nat /\ DOMAIN s = 1 .. Len(s)
      /\ Len(t) \in Nat /\ DOMAIN t = 1 .. Len(t)
      /\ DOMAIN (s \o t) = 1 .. (Len(s) + Len(t))
  BY <1>1, LenProperties
<1>3. ASSUME NEW i \in DOMAIN (s \o t), NEW j \in DOMAIN (s \o t), i < j
      PROVE  Avant((s \o t)[i], (s \o t)[j])
  <2>1. CASE j <= Len(s)
    <3>1. i \in DOMAIN s /\ j \in DOMAIN s /\ (s \o t)[i] = s[i] /\ (s \o t)[j] = s[j]
      BY <2>1, <1>1, <1>2, <1>3
    <3> QED
      BY <3>1, <1>3 DEF Trie
  <2>2. CASE i <= Len(s) /\ ~(j <= Len(s))
    <3>1. i \in DOMAIN s /\ (s \o t)[i] = s[i]
      BY <2>2, <1>1, <1>2
    <3>2. j - Len(s) \in DOMAIN t /\ (s \o t)[j] = t[j - Len(s)]
      BY <2>2, <1>1, <1>2
    <3> QED
      BY <3>1, <3>2 DEF Precedent, ToSet
  <2>3. CASE ~(i <= Len(s))
    <3>1. i - Len(s) \in DOMAIN t /\ (s \o t)[i] = t[i - Len(s)]
      BY <2>3, <1>1, <1>2
    <3>2. j - Len(s) \in DOMAIN t /\ (s \o t)[j] = t[j - Len(s)]
      BY <2>3, <1>1, <1>2, <1>3
    <3>3. i - Len(s) < j - Len(s)
      BY <1>2, <1>3
    <3> QED
      BY <3>1, <3>2, <3>3 DEF Trie
  <2> QED
    BY <1>2, <2>1, <2>2, <2>3
<1> QED
  BY <1>3 DEF Trie

-------------------------------------------------------------------------------
(* Induction on the natural numbers, from the least element of a set.      *)
LEMMA PlusPetit ==
    ASSUME NEW T \in SUBSET Nat, T # {}
    PROVE  \E n \in T : \A m \in T : n <= m
<1>1. PICK R : R = OpToRel(<, Nat)
  OBVIOUS
<1>2. \A x, y \in Nat : <<x, y>> \in R <=> x < y
  BY <1>1 DEF OpToRel
<1>3. IsWellFoundedOn(R, Nat)
  BY <1>1, NatLessThanWellFounded
<1>4. PICK x \in T : \A y \in T : ~ (<<y, x>> \in R)
  BY <1>3, WFMin
<1>5. ASSUME NEW y \in T
      PROVE  x <= y
  <2>1. x \in Nat /\ y \in Nat
    OBVIOUS
  <2>2. ~(y < x)
    BY <2>1, <1>2, <1>4
  <2> QED
    BY <2>1, <2>2
<1> QED
  BY <1>5

(* A set that holds 0 and every successor holds every number: what FoldLeft *)
(* does to the pending packets (Relier) is proved one packet after another. *)
LEMMA Recurrence ==
    ASSUME NEW S, 0 \in S, \A n \in Nat : n \in S => n + 1 \in S
    PROVE  Nat \subseteq S
<1> SUFFICES ASSUME Nat \ S # {}
             PROVE  FALSE
  OBVIOUS
<1>1. PICK n \in Nat \ S : \A m \in Nat \ S : n <= m
  BY PlusPetit
<1>2. n # 0 /\ n - 1 \in Nat
  BY <1>1
<1>3. n - 1 \in S
  BY <1>1, <1>2
<1> QED
  BY <1>1, <1>2, <1>3

(* The largest element a fold takes off. *)
LEMMA PlusGrand ==
    ASSUME NEW k \in Nat, NEW S \in SUBSET (1 .. k), S # {}
    PROVE  Max(S) \in S /\ \A y \in S : Max(S) >= y
<1> DEFINE T == {k - x : x \in S}
<1>1. T \in SUBSET Nat /\ T # {}
  <2>1. \A x \in S : k - x \in Nat
    OBVIOUS
  <2> QED
    BY <2>1
<1>2. PICK n \in T : \A m \in T : n <= m
  <2> HIDE DEF T
  <2> QED
    BY <1>1, PlusPetit
<1>3. PICK x \in S : n = k - x
  BY <1>2
<1>4. \A y \in S : x >= y
  <2> TAKE y \in S
  <2>1. n <= k - y
    BY <1>2
  <2> QED
    BY <2>1, <1>3
<1> QED
  BY <1>4 DEF Max

(* The function FoldLeft iterates over the sets of indices. *)
Plie(b, s, k, g) ==
    g = [S \in SUBSET (1 .. k) |->
           IF S = {} THEN b ELSE Noter(g[S \ {Max(S)}], s[Max(S)])]

(* It exists, whatever the packets. *)
LEMMA PliagePossible ==
    ASSUME NEW b, NEW s, NEW n \in Nat
    PROVE  \E g : Plie(b, s, n, g)
<1> DEFINE P == {k \in Nat : \E g : Plie(b, s, k, g)}
<1>1. 0 \in P
  <2>1. SUBSET (1 .. 0) = {{}}
    OBVIOUS
  <2> DEFINE h == [S \in SUBSET (1 .. 0) |-> b]
  <2>2. h = [S \in SUBSET (1 .. 0) |->
               IF S = {} THEN b ELSE Noter(h[S \ {Max(S)}], s[Max(S)])]
    BY <2>1
  <2>3. Plie(b, s, 0, h)
    BY <2>2 DEF Plie
  <2> QED
    BY <2>3
<1>2. ASSUME NEW k \in Nat, k \in P
      PROVE  k + 1 \in P
  <2>1. PICK g : Plie(b, s, k, g)
    BY <1>2
  <2> DEFINE h == [S \in SUBSET (1 .. k + 1) |->
                     IF k + 1 \in S THEN Noter(g[S \ {k + 1}], s[k + 1]) ELSE g[S]]
  <2>2. ASSUME NEW S \in SUBSET (1 .. k + 1)
        PROVE  h[S] = IF S = {} THEN b ELSE Noter(h[S \ {Max(S)}], s[Max(S)])
    <3>1. CASE k + 1 \in S
      <4>1. Max(S) = k + 1
        <5>1. k + 1 \in Nat /\ S # {}
          BY <3>1
        <5>2. Max(S) \in S /\ Max(S) >= k + 1
          BY <3>1, <5>1, PlusGrand
        <5>3. Max(S) \in 1 .. k + 1
          BY <5>2
        <5> QED
          BY <5>2, <5>3
      <4>2. S \ {k + 1} \in SUBSET (1 .. k + 1) /\ k + 1 \notin S \ {k + 1}
        OBVIOUS
      <4>3. h[S \ {k + 1}] = g[S \ {k + 1}]
        BY <4>2
      <4> QED
        BY <3>1, <4>1, <4>3
    <3>2. CASE k + 1 \notin S
      <4>1. S \in SUBSET (1 .. k)
        BY <3>2
      <4>2. h[S] = g[S]
        BY <3>2
      <4>3. CASE S = {}
        BY <4>1, <4>2, <4>3, <2>1 DEF Plie
      <4>4. CASE S # {}
        <5>1. Max(S) \in S
          BY <4>1, <4>4, PlusGrand
        <5>2. S \ {Max(S)} \in SUBSET (1 .. k + 1) /\ k + 1 \notin S \ {Max(S)}
          BY <3>2
        <5>3. h[S \ {Max(S)}] = g[S \ {Max(S)}]
          BY <5>2
        <5>4. g[S] = Noter(g[S \ {Max(S)}], s[Max(S)])
          BY <4>1, <4>4, <2>1 DEF Plie
        <5> QED
          BY <4>2, <4>4, <5>3, <5>4
      <4> QED
        BY <4>3, <4>4
    <3> QED
      BY <3>1, <3>2
  <2>3. h = [S \in SUBSET (1 .. k + 1) |->
               IF S = {} THEN b ELSE Noter(h[S \ {Max(S)}], s[Max(S)])]
    <3>1. h = [S \in SUBSET (1 .. k + 1) |-> h[S]]
      OBVIOUS
    <3> HIDE DEF h
    <3> QED
      BY <2>2, <3>1
  <2>4. Plie(b, s, k + 1, h)
    BY <2>3 DEF Plie
  <2>5. k + 1 \in Nat
    OBVIOUS
  <2> QED
    BY <2>4, <2>5
<1>3. Nat \subseteq P
  <2> HIDE DEF P
  <2>1. \A k \in Nat : k \in P => k + 1 \in P
    BY <1>2
  <2> QED
    BY <1>1, <2>1, Recurrence
<1> QED
  BY <1>3

(* What the broker has after each packet. *)
Etapes(b, s, f) ==
    /\ f[0] = b
    /\ \A k \in Nat : k < Len(s) => f[k + 1] = Noter(f[k], s[k + 1])
    /\ NoterTous(b, s) = f[Len(s)]

(* NoterTous notes the packets of s one after another on what b holds. *)
LEMMA PliageParPas ==
    ASSUME NEW b, NEW s, Len(s) \in Nat, DOMAIN s = 1 .. Len(s)
    PROVE  \E f : Etapes(b, s, f)
<1>1. Len(s) \in Nat /\ DOMAIN s = 1 .. Len(s)
  OBVIOUS
<1> DEFINE iter == CHOOSE g : g = [S \in SUBSET (DOMAIN s) |->
                     IF S = {} THEN b ELSE Noter(g[S \ {Max(S)}], s[Max(S)])]
           f == [k \in 0 .. Len(s) |-> iter[1 .. k]]
<1>2. NoterTous(b, s) = iter[DOMAIN s]
  BY DEF NoterTous, FoldLeft, MapThenFoldSet
<1>3. iter = [S \in SUBSET (DOMAIN s) |->
                IF S = {} THEN b ELSE Noter(iter[S \ {Max(S)}], s[Max(S)])]
  <2>1. \E g : Plie(b, s, Len(s), g)
    BY <1>1, PliagePossible
  <2>2. \E g : g = [S \in SUBSET (DOMAIN s) |->
                     IF S = {} THEN b ELSE Noter(g[S \ {Max(S)}], s[Max(S)])]
    BY <2>1, <1>1 DEF Plie
  <2> QED
    BY <2>2
<1> HIDE DEF iter
<1>4. f[0] = b
  BY <1>1, <1>3
<1>5. ASSUME NEW k \in Nat, k < Len(s)
      PROVE  f[k + 1] = Noter(f[k], s[k + 1])
  <2>1. /\ k + 1 \in Nat
        /\ k + 1 \in 1 .. (k + 1)
        /\ 1 .. (k + 1) \in SUBSET (DOMAIN s)
    BY <1>1, <1>5
  <2>2. Max(1 .. k + 1) \in 1 .. k + 1 /\ \A y \in 1 .. k + 1 : Max(1 .. k + 1) >= y
    <3>1. 1 .. k + 1 \in SUBSET (1 .. k + 1) /\ 1 .. k + 1 # {}
      BY <2>1
    <3> QED
      BY <2>1, <3>1, PlusGrand
  <2>3. Max(1 .. k + 1) = k + 1
    BY <2>2
  <2>4. (1 .. k + 1) \ {k + 1} = 1 .. k
    OBVIOUS
  <2>5. iter[1 .. k + 1] = Noter(iter[1 .. k], s[k + 1])
    BY <1>3, <2>1, <2>3, <2>4
  <2> QED
    BY <1>1, <1>5, <2>5
<1>6. NoterTous(b, s) = f[Len(s)]
  BY <1>1, <1>2
<1>7. Etapes(b, s, f)
  <2> HIDE DEF f
  <2> QED
    BY <1>4, <1>5, <1>6 DEF Etapes
<1> QED
  BY <1>7

(* The packets sent again so far. *)
Debut(s, k) == {s[i] : i \in 1 .. k}

(* Sent again after a broken link, the packets in flight complete what the *)
(* broker had, in order: each was received, or comes after all that was.   *)
LEMMA RenvoiEnOrdre ==
    ASSUME NEW b \in Seq(Evenements), NEW s \in Seq(Evenements), Trie(b), Trie(s),
           \A e \in ToSet(s) : e \in ToSet(b) \/ Precedent(ToSet(b), {e})
    PROVE  /\ NoterTous(b, s) \in Seq(Evenements)
           /\ Trie(NoterTous(b, s))
           /\ ToSet(NoterTous(b, s)) = ToSet(b) \cup ToSet(s)
<1>1. Len(s) \in Nat /\ DOMAIN s = 1 .. Len(s)
  BY LenProperties
<1>a. PICK f : Etapes(b, s, f)
  BY <1>1, PliageParPas
<1>2. /\ f[0] = b
      /\ \A k \in Nat : k < Len(s) => f[k + 1] = Noter(f[k], s[k + 1])
      /\ NoterTous(b, s) = f[Len(s)]
  BY <1>a DEF Etapes
<1> DEFINE Notes(k) == /\ f[k] \in Seq(Evenements)
                       /\ Trie(f[k])
                       /\ ToSet(f[k]) = ToSet(b) \cup Debut(s, k)
           P == {k \in Nat : k <= Len(s) => Notes(k)}
<1>3. 0 \in P
  <2>1. Debut(s, 0) = {}
    BY DEF Debut
  <2>2. ToSet(f[0]) = ToSet(b) \cup Debut(s, 0)
    BY <1>2, <2>1
  <2>3. f[0] \in Seq(Evenements) /\ Trie(f[0])
    BY <1>2
  <2>4. Notes(0)
    BY <2>2, <2>3
  <2> HIDE DEF Notes
  <2> QED
    BY <2>4
<1>4. ASSUME NEW k \in Nat, k \in P
      PROVE  k + 1 \in P
  <2> SUFFICES ASSUME k + 1 <= Len(s)
               PROVE  Notes(k + 1)
    OBVIOUS
  <2> DEFINE e == s[k + 1]
  <2>1. Notes(k) /\ k < Len(s)
    BY <1>1, <1>4
  <2>2. k + 1 \in DOMAIN s /\ e \in ToSet(s) /\ e \in Evenements
    <3>1. k + 1 \in DOMAIN s
      BY <1>1
    <3> QED
      BY <1>1, <3>1, ElementOfSeq DEF ToSet
  <2>3. f[k + 1] = Noter(f[k], e)
    BY <1>2, <2>1
  <2>4. Debut(s, k + 1) = Debut(s, k) \cup {e}
    <3>1. 1 .. k + 1 = 1 .. k \cup {k + 1}
      OBVIOUS
    <3> QED
      BY <3>1 DEF Debut
  <2>5. CASE e \in ToSet(f[k])
    <3>1. f[k + 1] = f[k]
      BY <2>3, <2>5 DEF Noter
    <3> QED
      BY <2>1, <2>4, <2>5, <3>1
  <2>6. CASE e \notin ToSet(f[k])
    <3>1. f[k + 1] = Append(f[k], e)
      BY <2>3, <2>6 DEF Noter
    <3>2. Precedent(ToSet(b), {e})
      BY <2>1, <2>2, <2>6
    <3>3. \A i \in 1 .. k : Avant(s[i], e)
      BY <1>1, <2>2 DEF Trie
    <3>4. Precedent(ToSet(f[k]), {e})
      BY <2>1, <3>2, <3>3 DEF Precedent, Debut
    <3>5. Trie(Append(f[k], e))
      BY <2>1, <2>2, <3>4, TriAllonge
    <3>6. Append(f[k], e) \in Seq(Evenements) /\ ToSet(Append(f[k], e)) = ToSet(f[k]) \cup {e}
      BY <2>1, <2>2, FileAllongee
    <3> QED
      BY <2>1, <2>4, <3>1, <3>5, <3>6
  <2> QED
    BY <2>5, <2>6
<1>5. Nat \subseteq P
  <2> HIDE DEF P
  <2>1. \A k \in Nat : k \in P => k + 1 \in P
    BY <1>4
  <2> QED
    BY <1>3, <2>1, Recurrence
<1>6. Notes(Len(s))
  BY <1>1, <1>5
<1>7. ToSet(s) = Debut(s, Len(s))
  BY <1>1 DEF ToSet, Debut
<1> QED
  BY <1>2, <1>6, <1>7

(* So does what the client had time to send again before another cut. *)
LEMMA RenvoiDuDebut ==
    ASSUME NEW b \in Seq(Evenements), NEW s \in Seq(Evenements), Trie(b), Trie(s),
           \A e \in ToSet(s) : e \in ToSet(b) \/ Precedent(ToSet(b), {e}),
           NEW n \in 0 .. Len(s)
    PROVE  LET c == NoterTous(b, SubSeq(s, 1, n))
           IN  /\ c \in Seq(Evenements)
               /\ Trie(c)
               /\ ToSet(b) \subseteq ToSet(c)
               /\ ToSet(c) \subseteq ToSet(b) \cup ToSet(s)
<1> DEFINE t == SubSeq(s, 1, n)
<1>1. Len(s) \in Nat /\ DOMAIN s = 1 .. Len(s) /\ n \in Nat
  BY LenProperties
<1>2. \A i \in 1 .. n : s[i] \in Evenements
  BY <1>1, ElementOfSeq
<1>3. t \in Seq(Evenements) /\ Len(t) = n /\ \A i \in 1 .. n : t[i] = s[i]
  BY <1>1, <1>2, SubSeqProperties
<1> HIDE DEF t
<1>4. DOMAIN t = 1 .. n
  BY <1>3, LenProperties
<1>5. Trie(t)
  BY <1>1, <1>3, <1>4 DEF Trie
<1>6. ToSet(t) \subseteq ToSet(s)
  BY <1>1, <1>3, <1>4 DEF ToSet
<1>7. /\ NoterTous(b, t) \in Seq(Evenements)
      /\ Trie(NoterTous(b, t))
      /\ ToSet(NoterTous(b, t)) = ToSet(b) \cup ToSet(t)
  BY <1>3, <1>5, <1>6, RenvoiEnOrdre
<1> QED
  BY <1>6, <1>7 DEF t

-------------------------------------------------------------------------------
(* The elements of the queues are events. *)
LEMMA ContenuType ==
    ASSUME NEW S, NEW s \in Seq(S)
    PROVE  ToSet(s) \subseteq S
BY ElementOfSeq, LenProperties DEF ToSet

(* Nothing has been published yet. *)
LEMMA InvariantInitial == Init => Invariant
<1> SUFFICES ASSUME Init
             PROVE  Invariant
  OBVIOUS
<1>1. <<>> \in Seq(Evenements)
  BY EmptySeq
<1>2. DOMAIN <<>> = {} /\ ToSet(<<>>) = {}
  BY <1>1, EmptySeq, LenProperties DEF ToSet
<1>3. Formes
  BY <1>1 DEF Init, Formes
<1>4. Ordre
  BY <1>2 DEF Init, Ordre, Trie, Precedent
<1>5. Reprise
  BY <1>2 DEF Init, Reprise
<1>6. Anciens
  BY <1>2 DEF Init, Anciens
<1> QED
  BY <1>3, <1>4, <1>5, <1>6 DEF Invariant

(* No step breaks the line of events. *)
LEMMA InvariantGarde == Invariant /\ [Next]_vars => Invariant'
<1> USE ConstantesRelais DEF worker, client
<1> SUFFICES ASSUME Invariant, [Next]_vars
             PROVE  Invariant'
  OBVIOUS
<1>f. Formes /\ Ordre /\ Reprise /\ Anciens
  BY DEF Invariant
<1>v. ToSet(<<>>) = {} /\ Trie(<<>>) /\ <<>> \in Seq(Evenements)
  <2>1. <<>> \in Seq(Evenements)
    BY EmptySeq
  <2>2. DOMAIN <<>> = {}
    BY <2>1, EmptySeq, LenProperties
  <2> QED
    BY <2>1, <2>2 DEF ToSet, Trie
<1>e. ToSet(recus) \cup ToSet(enVol) \cup ToSet(canal) \cup ToSet(aPublier) \subseteq Evenements
  BY <1>f, ContenuType DEF Formes
<1>1. CASE DebutCycle
  <2>1. Formes'
    BY <1>f, <1>1 DEF Formes, DebutCycle
  <2>2. UNCHANGED <<recus, enVol, canal, aPublier, syncs, lien>>
    BY <1>1 DEF DebutCycle
  <2> QED
    BY <1>f, <2>1, <2>2 DEF Invariant, Ordre, Reprise, Anciens
<1>2. CASE DebutSync
  <2>1. PICK n \in Longueurs : aPublier' = [k \in 1 .. n |-> <<syncs + 1, k>>]
    BY <1>2 DEF DebutSync
  <2>2. n \in Nat /\ syncs \in Nat
    BY <1>f DEF Formes
  <2>3. aPublier' \in Seq(Evenements)
    BY <2>1, <2>2, IsASeq DEF Evenements
  <2>4. Formes'
    BY <1>f, <1>2, <2>3 DEF Formes, DebutSync
  <2>5. UNCHANGED <<recus, enVol, canal, lien>> /\ syncs' = syncs + 1
    BY <1>2 DEF DebutSync
  <2>6. Trie(aPublier')
    BY <2>1, <2>2 DEF Trie, Avant
  <2>7. \A e \in ToSet(aPublier') : e \in Evenements /\ e[1] = syncs + 1
    BY <2>1, <2>2 DEF ToSet, Evenements
  <2>8. \A e \in ToSet(recus) \cup ToSet(enVol) \cup ToSet(canal) : e \in Evenements /\ e[1] <= syncs
    BY <1>f, <1>e DEF Anciens
  <2>9. Precedent(ToSet(recus) \cup ToSet(enVol) \cup ToSet(canal), ToSet(aPublier'))
    BY <2>2, <2>7, <2>8 DEF Precedent, Avant, Evenements
  <2>10. Ordre'
    BY <1>f, <2>5, <2>6, <2>9 DEF Ordre, Precedent
  <2>11. Reprise'
    BY <1>f, <2>5 DEF Reprise
  <2>12. Anciens'
    BY <2>2, <2>5, <2>7, <2>8 DEF Anciens, Evenements
  <2> QED
    BY <2>4, <2>10, <2>11, <2>12 DEF Invariant
<1>3. CASE Publier
  <2> DEFINE e == Head(aPublier)
  <2>1. /\ e \in Evenements
        /\ Tail(aPublier) \in Seq(Evenements)
        /\ ToSet(aPublier) = {e} \cup ToSet(Tail(aPublier))
        /\ Trie(Tail(aPublier))
        /\ Precedent({e}, ToSet(Tail(aPublier)))
    BY <1>f, <1>3, FileEntamee, TriEntame DEF Formes, Ordre, Publier
  <2>2. Precedent(ToSet(canal), {e})
    BY <1>f, <2>1 DEF Ordre, Precedent
  <2>3. /\ Append(canal, e) \in Seq(Evenements)
        /\ ToSet(Append(canal, e)) = ToSet(canal) \cup {e}
        /\ Trie(Append(canal, e))
    <3>1. canal \in Seq(Evenements) /\ Trie(canal)
      BY <1>f DEF Formes, Ordre
    <3>2. e \in Evenements
      BY <2>1
    <3> HIDE DEF e
    <3>3. Append(canal, e) \in Seq(Evenements) /\ ToSet(Append(canal, e)) = ToSet(canal) \cup {e}
      BY <3>1, <3>2, FileAllongee
    <3> QED
      BY <2>2, <3>1, <3>2, <3>3, TriAllonge
  <2>4. /\ canal' = Append(canal, e) /\ aPublier' = Tail(aPublier)
        /\ UNCHANGED <<recus, enVol, lien, syncs, coupures>>
    BY <1>3 DEF Publier
  <2> HIDE DEF e
  <2>5. Formes'
    BY <1>f, <2>1, <2>3, <2>4 DEF Formes
  <2>6. Ordre'
    BY <1>f, <2>1, <2>3, <2>4 DEF Ordre, Precedent
  <2>7. Reprise'
    BY <1>f, <2>4 DEF Reprise
  <2>8. Anciens'
    BY <1>f, <2>1, <2>3, <2>4 DEF Anciens
  <2> QED
    BY <2>5, <2>6, <2>7, <2>8 DEF Invariant
<1>4. CASE Ignorer
  <2> DEFINE e == Head(aPublier)
  <2>1. /\ Tail(aPublier) \in Seq(Evenements)
        /\ ToSet(aPublier) = {e} \cup ToSet(Tail(aPublier))
        /\ Trie(Tail(aPublier))
    BY <1>f, <1>4, FileEntamee, TriEntame DEF Formes, Ordre, Ignorer
  <2>2. aPublier' = Tail(aPublier) /\ UNCHANGED <<recus, enVol, canal, lien, syncs, coupures>>
    BY <1>4 DEF Ignorer
  <2> HIDE DEF e
  <2>3. Formes'
    BY <1>f, <2>1, <2>2 DEF Formes
  <2>4. Ordre'
    BY <1>f, <2>1, <2>2 DEF Ordre, Precedent
  <2>5. Reprise'
    BY <1>f, <2>2 DEF Reprise
  <2>6. Anciens'
    BY <1>f, <2>1, <2>2 DEF Anciens
  <2> QED
    BY <2>3, <2>4, <2>5, <2>6 DEF Invariant
<1>5. CASE FinCycle
  <2>1. Formes'
    BY <1>f, <1>5 DEF Formes, FinCycle
  <2>2. UNCHANGED <<recus, enVol, canal, aPublier, syncs, lien>>
    BY <1>5 DEF FinCycle
  <2> QED
    BY <1>f, <2>1, <2>2 DEF Invariant, Ordre, Reprise, Anciens
<1>6. CASE FinTache
  <2>1. Formes'
    BY <1>f, <1>6 DEF Formes, FinTache
  <2>2. UNCHANGED <<recus, enVol, canal, aPublier, syncs, lien>>
    BY <1>6 DEF FinTache
  <2> QED
    BY <1>f, <2>1, <2>2 DEF Invariant, Ordre, Reprise, Anciens
<1>7. CASE DemanderArret
  <2>1. Formes'
    BY <1>f, <1>7 DEF Formes, DemanderArret
  <2>2. UNCHANGED <<recus, enVol, canal, aPublier, syncs, lien>>
    BY <1>7 DEF DemanderArret
  <2> QED
    BY <1>f, <2>1, <2>2 DEF Invariant, Ordre, Reprise, Anciens
<1>8. CASE Finir
  <2>1. /\ canal' = <<>> /\ enVol' = <<>> /\ UNCHANGED <<recus, aPublier, syncs, coupures>>
    BY <1>8 DEF Finir
  <2>2. Formes'
    BY <1>f, <1>v, <2>1 DEF Formes
  <2>3. Ordre'
    BY <1>f, <1>v, <2>1 DEF Ordre, Precedent
  <2>4. Reprise'
    BY <1>v, <2>1 DEF Reprise
  <2>5. Anciens'
    BY <1>f, <1>v, <2>1 DEF Anciens
  <2> QED
    BY <2>2, <2>3, <2>4, <2>5 DEF Invariant
<1>9. CASE Livrer
  <2> DEFINE e == Head(canal)
  <2>1. /\ e \in Evenements
        /\ Tail(canal) \in Seq(Evenements)
        /\ ToSet(canal) = {e} \cup ToSet(Tail(canal))
        /\ Trie(Tail(canal))
        /\ Precedent({e}, ToSet(Tail(canal)))
    BY <1>f, <1>9, FileEntamee, TriEntame DEF Formes, Ordre, Livrer
  <2>2. Precedent(ToSet(recus) \cup ToSet(enVol), {e}) /\ Precedent({e}, ToSet(aPublier))
    BY <1>f, <2>1 DEF Ordre, Precedent
  <2>3. /\ Append(enVol, e) \in Seq(Evenements)
        /\ ToSet(Append(enVol, e)) = ToSet(enVol) \cup {e}
        /\ Trie(Append(enVol, e))
    <3>1. Precedent(ToSet(enVol), {e})
      BY <2>2 DEF Precedent
    <3> QED
      BY <1>f, <2>1, <3>1, FileAllongee, TriAllonge DEF Formes, Ordre
  <2>4. /\ Noter(recus, e) \in Seq(Evenements)
        /\ ToSet(Noter(recus, e)) = ToSet(recus) \cup {e}
        /\ Trie(Noter(recus, e))
    <3>1. Precedent(ToSet(recus), {e})
      BY <2>2 DEF Precedent
    <3>2. /\ Append(recus, e) \in Seq(Evenements)
          /\ ToSet(Append(recus, e)) = ToSet(recus) \cup {e}
          /\ Trie(Append(recus, e))
      BY <1>f, <2>1, <3>1, FileAllongee, TriAllonge DEF Formes, Ordre
    <3> QED
      BY <1>f, <3>2 DEF Noter, Formes, Ordre
  <2>5. /\ lien /\ canal' = Tail(canal) /\ enVol' = Append(enVol, e) /\ recus' = Noter(recus, e)
        /\ UNCHANGED <<aPublier, lien, syncs, coupures>>
    BY <1>9 DEF Livrer
  <2> HIDE DEF e
  <2>6. Formes'
    BY <1>f, <2>1, <2>3, <2>4, <2>5 DEF Formes
  <2>7. Ordre'
    BY <1>f, <2>1, <2>2, <2>3, <2>4, <2>5 DEF Ordre, Precedent
  <2>8. Reprise'
    BY <1>f, <2>3, <2>4, <2>5 DEF Reprise
  <2>9. Anciens'
    BY <1>f, <2>1, <2>3, <2>4, <2>5 DEF Anciens
  <2> QED
    BY <2>6, <2>7, <2>8, <2>9 DEF Invariant
<1>10. CASE Accuser
  <2> DEFINE e == Head(enVol)
  <2>1. /\ Tail(enVol) \in Seq(Evenements)
        /\ ToSet(enVol) = {e} \cup ToSet(Tail(enVol))
        /\ Trie(Tail(enVol))
    BY <1>f, <1>10, FileEntamee, TriEntame DEF Formes, Ordre, Accuser
  <2>2. enVol' = Tail(enVol) /\ UNCHANGED <<recus, canal, aPublier, lien, syncs, coupures>>
    BY <1>10 DEF Accuser
  <2> HIDE DEF e
  <2>3. Formes'
    BY <1>f, <2>1, <2>2 DEF Formes
  <2>4. Ordre'
    BY <1>f, <2>1, <2>2 DEF Ordre, Precedent
  <2>5. Reprise'
    BY <1>f, <2>1, <2>2 DEF Reprise
  <2>6. Anciens'
    BY <1>f, <2>1, <2>2 DEF Anciens
  <2> QED
    BY <2>3, <2>4, <2>5, <2>6 DEF Invariant
<1>11. CASE Couper
  <2>1. Precedent(ToSet(enVol), ToSet(canal))
    BY <1>f DEF Ordre, Precedent
  <2>2. /\ enVol \o canal \in Seq(Evenements)
        /\ ToSet(enVol \o canal) = ToSet(enVol) \cup ToSet(canal)
        /\ Trie(enVol \o canal)
    BY <1>f, <2>1, FilesJointes, TrisJoints DEF Formes, Ordre
  <2>3. /\ enVol' = enVol \o canal /\ canal' = <<>> /\ lien' = FALSE /\ coupures' = coupures + 1
        /\ UNCHANGED <<recus, aPublier, syncs>>
    BY <1>11 DEF Couper
  <2>4. Formes'
    BY <1>f, <1>v, <2>2, <2>3 DEF Formes
  <2>5. Ordre'
    BY <1>f, <1>v, <2>2, <2>3 DEF Ordre, Precedent
  <2>6. Reprise'
    BY <1>f, <2>2, <2>3 DEF Reprise, Ordre, Precedent
  <2>7. Anciens'
    BY <1>f, <1>v, <2>2, <2>3 DEF Anciens
  <2> QED
    BY <2>4, <2>5, <2>6, <2>7 DEF Invariant
<1>12. CASE Relier
  <2>1. /\ recus' \in Seq(Evenements)
        /\ Trie(recus')
        /\ ToSet(recus') \subseteq ToSet(recus) \cup ToSet(enVol)
    <3>1. PICK n \in 0 .. Len(enVol) : recus' = NoterTous(recus, SubSeq(enVol, 1, n))
      BY <1>12 DEF Relier
    <3> QED
      BY <1>f, <3>1, RenvoiDuDebut DEF Formes, Ordre, Reprise
  <2>2. enVol' = <<>> /\ UNCHANGED <<canal, aPublier, syncs, coupures>>
    BY <1>12 DEF Relier
  <2>3. Formes'
    BY <1>f, <1>v, <2>1, <2>2 DEF Formes
  <2>4. Ordre'
    BY <1>f, <1>v, <2>1, <2>2 DEF Ordre, Precedent
  <2>5. Reprise'
    BY <1>v, <2>2 DEF Reprise
  <2>6. Anciens'
    BY <1>f, <1>v, <2>1, <2>2 DEF Anciens
  <2> QED
    BY <2>3, <2>4, <2>5, <2>6 DEF Invariant
<1>13. CASE UNCHANGED vars
  BY <1>f, <1>13 DEF vars, Invariant, Formes, Ordre, Reprise, Anciens
<1> QED
  BY <1>1, <1>2, <1>3, <1>4, <1>5, <1>6, <1>7, <1>8, <1>9, <1>10, <1>11, <1>12, <1>13 DEF Next, Worker, Client

(* The line of events is in order in every reachable state. *)
THEOREM InvariantDuRelais == Spec => []Invariant
BY InvariantInitial, InvariantGarde, PTL DEF Spec

(* The broker sees the start of a synchronisation before its outcome, and   *)
(* one account after another, whatever the number of broken links and what  *)
(* each of them loses or sends again (domain/synchro.rs:154-208,             *)
(* relay/publisher.rs:97-108).                                               *)
THEOREM OrdreToujoursConserve == Spec => []OrdreConserve
<1>1. Invariant => OrdreConserve
  BY DEF Invariant, Ordre, Trie, OrdreConserve
<1> QED
  BY <1>1, InvariantDuRelais, PTL

(* As long as no link has broken and the process lives, an accepted event   *)
(* is received or waits in the queue, however small the queue               *)
(* (relay/publisher.rs:118-147).                                             *)
THEOREM RienNEstPerduEnLigne == Spec => []RienPerduEnLigne
<1>1. Init => RienPerduEnLigne
  BY DEF Init, RienPerduEnLigne
<1>2. Invariant /\ RienPerduEnLigne /\ [Next]_vars => RienPerduEnLigne'
  <2> USE DEF worker, client, Vivant
  <2> SUFFICES ASSUME Invariant, RienPerduEnLigne, [Next]_vars, coupures' = 0, phase' # "fini"
               PROVE  emis' \subseteq ToSet(recus') \cup ToSet(canal')
    BY DEF RienPerduEnLigne
  <2>f. Formes /\ Ordre /\ Reprise
    BY DEF Invariant
  <2>r. coupures = 0 /\ phase # "fini" => emis \subseteq ToSet(recus) \cup ToSet(canal)
    BY DEF RienPerduEnLigne
  <2>1. CASE UNCHANGED <<phase, emis, recus, canal, coupures>>
    BY <2>1, <2>r
  <2>2. CASE Publier
    <3>1. aPublier # <<>> /\ aPublier \in Seq(Evenements) /\ canal \in Seq(Evenements)
      BY <2>2, <2>f DEF Publier, Formes
    <3>2. Head(aPublier) \in Evenements
      BY <3>1, FileEntamee
    <3>3. ToSet(Append(canal, Head(aPublier))) = ToSet(canal) \cup {Head(aPublier)}
      BY <3>1, <3>2, FileAllongee
    <3> QED
      BY <2>2, <2>r, <3>3 DEF Publier
  <2>3. CASE DemanderArret
    BY <2>3, <2>r DEF DemanderArret
  <2>4. CASE Finir
    BY <2>4 DEF Finir
  <2>5. CASE Livrer
    <3>1. canal # <<>> /\ canal \in Seq(Evenements) /\ recus \in Seq(Evenements)
      BY <2>5, <2>f DEF Livrer, Formes
    <3>2. Head(canal) \in Evenements /\ ToSet(canal) = {Head(canal)} \cup ToSet(Tail(canal))
      BY <3>1, FileEntamee
    <3>3. ToSet(Noter(recus, Head(canal))) = ToSet(recus) \cup {Head(canal)}
      BY <3>1, <3>2, FileAllongee DEF Noter
    <3> QED
      BY <2>5, <2>r, <3>2, <3>3 DEF Livrer
  <2>6. CASE Couper
    <3>1. coupures' = coupures + 1 /\ coupures \in Nat
      BY <2>6, <2>f DEF Couper, Formes
    <3> QED
      BY <3>1
  <2>7. CASE Relier
    <3>1. ToSet(recus) \subseteq ToSet(recus')
      <4>1. PICK n \in 0 .. Len(enVol) : recus' = NoterTous(recus, SubSeq(enVol, 1, n))
        BY <2>7 DEF Relier
      <4> QED
        BY <2>f, <4>1, RenvoiDuDebut DEF Formes, Ordre, Reprise
    <3> QED
      BY <2>7, <2>r, <3>1 DEF Relier
  <2>8. CASE DebutCycle \/ DebutSync \/ Ignorer \/ FinCycle \/ FinTache \/ Accuser
    BY <2>1, <2>8 DEF DebutCycle, DebutSync, Ignorer, FinCycle, FinTache, Accuser
  <2>9. CASE UNCHANGED vars
    BY <2>1, <2>9 DEF vars
  <2> QED
    BY <2>2, <2>3, <2>4, <2>5, <2>6, <2>7, <2>8, <2>9 DEF Next, Worker, Client
<1> QED
  BY <1>1, <1>2, InvariantDuRelais, PTL DEF Spec

(* What the broker makes of the queue, order and content                    *)
(* (relay/publisher.rs:97-147).                                              *)
THEOREM RelaisToujoursFidele == Spec => []RelaisFidele
<1>1. OrdreConserve /\ RienPerduEnLigne => RelaisFidele
  BY DEF RelaisFidele
<1> QED
  BY <1>1, OrdreToujoursConserve, RienNEstPerduEnLigne, PTL

=============================================================================
