---------------------------- MODULE ReadingProofs ----------------------------
(* Theorems about GraphReading and FindingsReading.                         *)
EXTENDS FindingsReading, FiniteSetTheorems, SequenceTheorems, WellFoundedInduction, TLAPS

-----------------------------------------------------------------------------
(* Numbers, folds and sequences.                                            *)

LEMMA LeastNumber == ASSUME NEW S, S \subseteq Nat, S # {} PROVE \E m \in S : \A k \in S : m <= k
<1> DEFINE R == OpToRel(<, Nat)
<1>1. IsWellFoundedOn(R, Nat) BY NatLessThanWellFounded
<1>2. \A x, y \in Nat : <<y, x>> \in R <=> y < x BY DEF OpToRel
<1> HIDE DEF R
<1>3. PICK m \in S : \A k \in S : <<k, m>> \notin R BY <1>1, WFMin
<1>4. ASSUME NEW k \in S PROVE m <= k
  <2>1. m \in Nat /\ k \in Nat OBVIOUS
  <2>2. ~(k < m) BY <1>2, <1>3, <2>1
  <2> QED BY <2>1, <2>2
<1> QED BY <1>4

LEMMA Counting ==
    ASSUME NEW n \in Nat, NEW T, 0 \in T, \A m \in 1 .. n : m - 1 \in T => m \in T
    PROVE  0 .. n \subseteq T
<1> DEFINE S == (0 .. n) \ T
<1> SUFFICES ASSUME S # {} PROVE FALSE
  OBVIOUS
<1>0. S \subseteq Nat
  OBVIOUS
<1>1. PICK m \in S : \A k \in S : m <= k
  <2> HIDE DEF S
  <2> QED BY <1>0, LeastNumber
<1>2. m \in 1 .. n /\ m - 1 \in 0 .. n
  BY <1>1
<1>3. m - 1 \notin S
  BY <1>1, <1>2
<1> QED BY <1>1, <1>2, <1>3

LEMMA GreatestNumber ==
    ASSUME NEW m \in Nat, NEW s \in SUBSET (1 .. m), s # {}
    PROVE  Max(s) \in s /\ \A k \in s : k <= Max(s)
<1> DEFINE S == {m - k : k \in s}
<1>1. \A k \in s : k \in Nat /\ m - k \in Nat OBVIOUS
<1>2. S \subseteq Nat /\ S # {} BY <1>1
<1> HIDE DEF S
<1>3. PICK j \in S : \A k \in S : j <= k BY <1>2, LeastNumber
<1>4. PICK q \in s : j = m - q BY DEF S
<1>5. ASSUME NEW k \in s PROVE q >= k
  <2>1. m - k \in S BY DEF S
  <2> QED BY <1>1, <1>3, <1>4, <2>1
<1>6. Max(s) \in s /\ \A k \in s : Max(s) >= k BY <1>5 DEF Max
<1> QED BY <1>1, <1>6

LEMMA LastIsMax ==
    ASSUME NEW m \in Nat, NEW s \in SUBSET (1 .. m), m \in s
    PROVE  Max(s) = m
<1>1. Max(s) \in s /\ m <= Max(s) BY GreatestNumber
<1>2. Max(s) \in 1 .. m BY <1>1
<1> QED BY <1>1, <1>2

\* The accumulator of a fold over n places, as a function of the places folded.
Accumulates(g, n, base, step) ==
    \A s \in SUBSET (1 .. n) : g[s] = IF s = {} THEN base ELSE step[Max(s)][g[s \ {Max(s)}]]

LEMMA FoldExists ==
    ASSUME NEW n \in Nat, NEW A, NEW base \in A, NEW step \in [1 .. n -> [A -> A]]
    PROVE  \E g \in [SUBSET (1 .. n) -> A] : Accumulates(g, n, base, step)
<1> DEFINE T == {m \in 0 .. n : \E g \in [SUBSET (1 .. m) -> A] : Accumulates(g, m, base, step)}
<1>1. 0 \in T
  <2> DEFINE g == [s \in SUBSET (1 .. 0) |-> base]
  <2>1. g \in [SUBSET (1 .. 0) -> A] /\ \A s \in SUBSET (1 .. 0) : s = {} /\ g[s] = base OBVIOUS
  <2>2. Accumulates(g, 0, base, step) BY <2>1 DEF Accumulates
  <2> HIDE DEF g
  <2> QED BY <2>1, <2>2
<1>2. ASSUME NEW m \in 1 .. n, m - 1 \in T PROVE m \in T
  <2>1. PICK g \in [SUBSET (1 .. m - 1) -> A] : Accumulates(g, m - 1, base, step) BY <1>2
  <2> DEFINE h == [s \in SUBSET (1 .. m) |-> IF m \in s THEN step[m][g[s \ {m}]] ELSE g[s]]
  <2>2. ASSUME NEW s \in SUBSET (1 .. m)
        PROVE  /\ h[s] \in A
               /\ h[s] = IF s = {} THEN base ELSE step[Max(s)][h[s \ {Max(s)}]]
    <3>1. CASE m \in s
      <4>1. Max(s) = m BY <3>1, LastIsMax
      <4>2. s \ {m} \in SUBSET (1 .. m - 1) /\ s \ {m} \in SUBSET (1 .. m) OBVIOUS
      <4>3. h[s \ {m}] = g[s \ {m}] /\ h[s] = step[m][g[s \ {m}]] BY <3>1, <4>2
      <4>4. g[s \ {m}] \in A /\ step[m] \in [A -> A] BY <4>2
      <4> HIDE DEF h
      <4> QED BY <3>1, <4>1, <4>3, <4>4
    <3>2. CASE m \notin s
      <4> DEFINE r == s \ {Max(s)}
      <4>0. \A k \in s : k \in 1 .. m - 1 BY <3>2
      <4>1. s \in SUBSET (1 .. m - 1) /\ r \in SUBSET (1 .. m - 1) /\ r \in SUBSET (1 .. m) /\ m \notin r
        <5> HIDE DEF h
        <5>1. \A k \in r : k \in s OBVIOUS
        <5> HIDE DEF r
        <5>2. \A k \in r : k \in 1 .. m - 1 BY <4>0, <5>1
        <5> QED BY <3>2, <4>0, <5>1, <5>2
      <4>2. h[s] = g[s] /\ h[r] = g[r] BY <3>2, <4>1
      <4>3. g[s] = IF s = {} THEN base ELSE step[Max(s)][g[r]] BY <2>1, <4>1 DEF Accumulates
      <4> HIDE DEF h, r
      <4>4. h[s] = IF s = {} THEN base ELSE step[Max(s)][h[r]] BY <4>2, <4>3
      <4> QED BY <4>1, <4>2, <4>4 DEF r
    <3> QED BY <3>1, <3>2
  <2>3. h \in [SUBSET (1 .. m) -> A]
    <3>1. \A s \in SUBSET (1 .. m) : h[s] \in A BY <2>2
    <3> QED BY <3>1
  <2>4. Accumulates(h, m, base, step) BY <2>2 DEF Accumulates
  <2> HIDE DEF h
  <2> QED BY <2>3, <2>4
<1> HIDE DEF T
<1>3. n \in T
  <2>1. 0 .. n \subseteq T BY <1>1, <1>2, Counting
  <2> QED BY <2>1
<1> QED BY <1>3 DEF T

To(i) == 1 .. i

LEMMA FirstPlaces ==
    ASSUME NEW n \in Nat, NEW i \in 1 .. n
    PROVE  /\ To(i) \in SUBSET (1 .. n) /\ To(i) # {}
           /\ Max(To(i)) = i /\ To(i) \ {i} = To(i - 1)
<1>1. i \in Nat /\ To(i) \in SUBSET (1 .. i) /\ i \in To(i) BY DEF To
<1>2. Max(To(i)) = i BY <1>1, LastIsMax
<1>3. To(i) \in SUBSET (1 .. n) /\ To(i) # {} BY <1>1
<1>4. To(i) \ {i} = To(i - 1) BY DEF To
<1> QED BY <1>2, <1>3, <1>4

LEMMA Joined ==
    ASSUME NEW A, NEW s \in Seq(A), NEW t \in Seq(A)
    PROVE  /\ s \o t \in Seq(A)
           /\ \A x : x \in Range(s \o t) <=> x \in Range(s) \/ x \in Range(t)
<1>1. s \o t \in Seq(A) BY ConcatProperties
<1>2. Range(s \o t) = Range(s) \cup Range(t) BY RangeConcatenation
<1> QED BY <1>1, <1>2

(* What FlattenSeq puts together is in the parts, and all of it.            *)
LEMMA Flattened ==
    ASSUME NEW A, NEW n \in Nat, NEW ss, ss = [i \in 1 .. n |-> ss[i]],
           \A i \in 1 .. n : ss[i] \in Seq(A)
    PROVE  /\ FlattenSeq(ss) \in Seq(A)
           /\ \A x : x \in Range(FlattenSeq(ss)) <=> \E i \in 1 .. n : x \in Range(ss[i])
<1>0. ss \in Seq(Seq(A)) /\ Len(ss) = n
  <2>1. ss \in [1 .. n -> Seq(A)] OBVIOUS
  <2> QED BY <2>1, IsASeq
<1>1. CASE n = 0
  <2>1. FlattenSeq(ss) = ss BY <1>0, <1>1 DEF FlattenSeq
  <2>2. ss = << >> BY <1>0, <1>1, EmptySeq
  <2>3. << >> \in Seq(A) /\ \A x : x \notin Range(<< >>) BY DEF Range
  <2>4. \A i : i \notin 1 .. n BY <1>1
  <2>5. FlattenSeq(ss) = << >> BY <2>1, <2>2
  <2> QED BY Zenon, <2>3, <2>4, <2>5
<1>2. CASE n > 0
  <2> DEFINE Body(g) == [i \in 1 .. n |-> IF i = 1 THEN ss[i] ELSE g[i - 1] \o ss[i]]
             flat == CHOOSE g : g = Body(g)
             Good(m, f) == /\ f \in [1 .. n -> Seq(A)]
                           /\ \A i \in 1 .. m : f[i] = IF i = 1 THEN ss[i] ELSE f[i - 1] \o ss[i]
             T == {m \in 0 .. n : \E f : Good(m, f)}
  <2>1. 0 \in T
    <3>1. Good(0, ss) BY <1>0
    <3> QED BY <1>2, <3>1
  <2>2. ASSUME NEW m \in 1 .. n, m - 1 \in T PROVE m \in T
    <3>1. PICK f : Good(m - 1, f) BY <2>2
    <3> DEFINE x == IF m = 1 THEN ss[m] ELSE f[m - 1] \o ss[m]
               h == [f EXCEPT ![m] = x]
    <3>2. x \in Seq(A)
      <4>1. CASE m = 1 BY <4>1
      <4>2. CASE m # 1
        <5>1. m - 1 \in 1 .. n BY <4>2
        <5>2. f[m - 1] \in Seq(A) /\ ss[m] \in Seq(A) BY <3>1, <5>1
        <5> QED BY <4>2, <5>2, ConcatProperties
      <4> QED BY <4>1, <4>2
    <3> HIDE DEF x
    <3>3. h \in [1 .. n -> Seq(A)] BY <3>1, <3>2
    <3>4. ASSUME NEW i \in 1 .. m PROVE h[i] = IF i = 1 THEN ss[i] ELSE h[i - 1] \o ss[i]
      <4>1. CASE i = m
        <5>1. h[i] = x /\ (i # 1 => h[i - 1] = f[i - 1]) BY <3>1, <4>1
        <5> QED BY <4>1, <5>1 DEF x
      <4>2. CASE i # m
        <5>1. i \in 1 .. m - 1 BY <4>2
        <5>2. h[i] = f[i] /\ (i # 1 => h[i - 1] = f[i - 1]) BY <3>1, <5>1
        <5> QED BY <3>1, <5>1, <5>2
      <4> QED BY <4>1, <4>2
    <3> HIDE DEF h
    <3>5. Good(m, h) BY <3>3, <3>4
    <3> HIDE DEF Good
    <3> QED BY <3>5
  <2>3. \E f : Good(n, f)
    <3> HIDE DEF T
    <3>1. 0 .. n \subseteq T BY <2>1, <2>2, Counting
    <3>2. n \in T BY <3>1
    <3> QED BY <3>2 DEF T
  <2>4. flat = Body(flat)
    <3>1. PICK f : Good(n, f) BY <2>3
    <3>2. f = Body(f) BY <3>1
    <3> HIDE DEF Body, Good
    <3> QED BY <3>2
  <2>5. FlattenSeq(ss) = flat[n] BY <1>0, <1>2 DEF FlattenSeq
  <2> HIDE DEF flat, Good, T
  <2>6. \A i \in 1 .. n : flat[i] = IF i = 1 THEN ss[i] ELSE flat[i - 1] \o ss[i]
    <3>1. \A i \in 1 .. n : flat[i] = Body(flat)[i] BY <2>4
    <3> QED BY <3>1
  <2> HIDE DEF Body
  <2> DEFINE Put(m) == /\ flat[m] \in Seq(A)
                          /\ \A x : x \in Range(flat[m]) <=> \E i \in 1 .. m : x \in Range(ss[i])
             U == {m \in 0 .. n : m > 0 => Put(m)}
  <2>7. 0 \in U OBVIOUS
  <2>8. ASSUME NEW m \in 1 .. n, m - 1 \in U PROVE m \in U
    <3>1. CASE m = 1
      <4>1. flat[m] = ss[1] /\ ss[1] \in Seq(A) BY <2>6, <3>1
      <4>2. Put(m) BY <3>1, <4>1
      <4> QED BY <4>2
    <3>2. CASE m # 1
      <4>1. m - 1 \in 1 .. n /\ Put(m - 1) BY <2>8, <3>2
      <4>2. flat[m] = flat[m - 1] \o ss[m] BY <2>6, <3>2
      <4>3. flat[m - 1] \in Seq(A) /\ ss[m] \in Seq(A) BY <4>1
      <4>4. /\ flat[m] \in Seq(A)
            /\ \A x : x \in Range(flat[m]) <=> x \in Range(flat[m - 1]) \/ x \in Range(ss[m])
        BY <4>2, <4>3, Joined
      <4>5. \A i : i \in 1 .. m <=> i \in 1 .. m - 1 \/ i = m BY <3>2
      <4>6. Put(m)
        <5>1. \A x : x \in Range(flat[m - 1]) <=> \E i \in 1 .. m - 1 : x \in Range(ss[i]) BY <4>1
        <5> QED BY <4>4, <4>5, <5>1
      <4> QED BY <4>6
    <3> QED BY <3>1, <3>2
  <2>9. Put(n)
    <3> HIDE DEF U
    <3>1. 0 .. n \subseteq U BY <2>7, <2>8, Counting
    <3>2. n \in U BY <3>1
    <3> QED BY <1>2, <3>2 DEF U
  <2> QED BY <2>5, <2>9
<1> QED BY <1>1, <1>2

LEMMA JoinedListing ==
    ASSUME NEW s, NEW t, Listing(s), Listing(t)
    PROVE  /\ Listing(s \o t)
           /\ \A x : x \in Range(s \o t) <=> x \in Range(s) \/ x \in Range(t)
<1> DEFINE A == Range(s) \cup Range(t)
<1>1. s \in Seq(A) /\ t \in Seq(A)
  <2>1. s \in Seq(Range(s)) /\ t \in Seq(Range(t)) BY DEF Listing
  <2>2. Range(s) \subseteq A /\ Range(t) \subseteq A OBVIOUS
  <2> HIDE DEF A
  <2> QED BY <2>1, <2>2, SeqMonotonic
<1>2. s \o t \in Seq(A) /\ \A x : x \in Range(s \o t) <=> x \in Range(s) \/ x \in Range(t)
  BY <1>1, Joined
<1>3. Listing(s \o t) BY <1>2, SeqOfRange DEF Listing
<1> QED BY <1>2, <1>3

LEMMA FlattenedListing ==
    ASSUME NEW n \in Nat, NEW ss, ss = [i \in 1 .. n |-> ss[i]], \A i \in 1 .. n : Listing(ss[i])
    PROVE  /\ Listing(FlattenSeq(ss))
           /\ \A x : x \in Range(FlattenSeq(ss)) <=> \E i \in 1 .. n : x \in Range(ss[i])
<1> DEFINE A == UNION {Range(ss[i]) : i \in 1 .. n}
<1>1. ASSUME NEW i \in 1 .. n PROVE ss[i] \in Seq(A)
  <2>1. Range(ss[i]) \subseteq A OBVIOUS
  <2>2. ss[i] \in Seq(Range(ss[i])) BY DEF Listing
  <2> HIDE DEF A
  <2> QED BY <2>1, <2>2, SeqMonotonic
<1> HIDE DEF A
<1>2. /\ FlattenSeq(ss) \in Seq(A)
      /\ \A x : x \in Range(FlattenSeq(ss)) <=> \E i \in 1 .. n : x \in Range(ss[i])
  BY <1>1, Flattened
<1>3. Listing(FlattenSeq(ss)) BY <1>2, SeqOfRange DEF Listing
<1> QED BY <1>2, <1>3

LEMMA ListingIs ==
    ASSUME NEW s, Listing(s)
    PROVE  /\ Len(s) \in Nat /\ DOMAIN s = 1 .. Len(s) /\ s = [i \in 1 .. Len(s) |-> s[i]]
           /\ \A x : x \in Range(s) <=> \E i \in 1 .. Len(s) : s[i] = x
<1>1. s \in Seq(Range(s)) BY DEF Listing
<1>2. Len(s) \in Nat /\ DOMAIN s = 1 .. Len(s) /\ s = [i \in 1 .. Len(s) |-> s[i]] BY <1>1, LenProperties
<1> QED BY <1>2 DEF Range

LEMMA ListingOf ==
    ASSUME NEW n \in Nat, NEW s, s = [i \in 1 .. n |-> s[i]]
    PROVE  Listing(s) /\ Len(s) = n
<1>1. \A i \in 1 .. n : s[i] \in Range(s) BY DEF Range
<1> DEFINE A == Range(s)
<1>2. s \in [1 .. n -> A] BY <1>1
<1> HIDE DEF A
<1>3. s \in Seq(A) /\ Len(s) = n BY <1>2
<1> QED BY <1>3 DEF Listing, A

-----------------------------------------------------------------------------
(* GraphBuild: the first row of each id, and spends.                        *)

Kept(kept, r) ==
    IF r.id \in DOMAIN kept THEN kept
    ELSE [id \in DOMAIN kept \cup {r.id} |-> IF id = r.id THEN r.attrs ELSE kept[id]]

LEMMA KeepSteps ==
    ASSUME NEW rows, Listing(rows)
    PROVE  \E a : /\ KeepFirst(rows) = a[Len(rows)] /\ a[0] = [id \in {} |-> {}]
                  /\ \A i \in 1 .. Len(rows) : a[i] = Kept(a[i - 1], rows[i])
<1> DEFINE n == Len(rows)
           I == {rows[i].id : i \in 1 .. n}
           V == {rows[i].attrs : i \in 1 .. n}
           A == UNION {[D -> V] : D \in SUBSET I}
           base == [id \in {} |-> {}]
           step == [i \in 1 .. n |-> [kept \in A |-> Kept(kept, rows[i])]]
           Body(g) == [s \in SUBSET (1 .. n) |->
                          IF s = {} THEN base ELSE Kept(g[s \ {Max(s)}], rows[Max(s)])]
           iter == CHOOSE g : g = Body(g)
<1>0. n \in Nat /\ DOMAIN rows = 1 .. n BY ListingIs
<1>1. ASSUME NEW kept \in A, NEW i \in 1 .. n PROVE Kept(kept, rows[i]) \in A
  <2>1. PICK D \in SUBSET I : kept \in [D -> V] OBVIOUS
  <2>2. rows[i].id \in I /\ rows[i].attrs \in V OBVIOUS
  <2> DEFINE E == D \cup {rows[i].id}
             f == [id \in E |-> IF id = rows[i].id THEN rows[i].attrs ELSE kept[id]]
  <2>3. E \in SUBSET I BY <2>2
  <2>4. f \in [E -> V] BY <2>1, <2>2
  <2>5. Kept(kept, rows[i]) \in {kept, f} BY <2>1 DEF Kept
  <2> HIDE DEF E, f, I, V
  <2> QED BY <2>3, <2>4, <2>5
<1>2. step \in [1 .. n -> [A -> A]]
  <2> HIDE DEF A, n
  <2> QED BY <1>1
<1>3. PICK g \in [SUBSET (1 .. n) -> A] : Accumulates(g, n, base, step)
  <2>1. base \in A
    <3>1. base \in [{} -> V] OBVIOUS
    <3> HIDE DEF base, I, V
    <3> QED BY <3>1
  <2> HIDE DEF A, step, n, base
  <2> QED BY <1>0, <1>2, <2>1, FoldExists
<1>4. g = Body(g)
  <2>1. ASSUME NEW s \in SUBSET (1 .. n), s # {}
        PROVE  step[Max(s)][g[s \ {Max(s)}]] = Kept(g[s \ {Max(s)}], rows[Max(s)])
    <3>1. Max(s) \in 1 .. n
      <4> HIDE DEF n
      <4>1. Max(s) \in s BY <1>0, <2>1, GreatestNumber
      <4> QED BY <4>1
    <3>2. g[s \ {Max(s)}] \in A
      <4>1. s \ {Max(s)} \in SUBSET (1 .. n) OBVIOUS
      <4> HIDE DEF A, n
      <4> QED BY <4>1
    <3> HIDE DEF A, n
    <3> QED BY <3>1, <3>2
  <2> HIDE DEF A, n, step, base
  <2> QED BY <1>3, <2>1 DEF Accumulates
<1>5. iter = Body(iter)
  <2> HIDE DEF Body
  <2> QED BY <1>4
<1>6. KeepFirst(rows) = iter[1 .. n]
  BY <1>0 DEF KeepFirst, FoldLeft, MapThenFoldSet, Kept
<1> DEFINE a == [i \in 0 .. n |-> iter[To(i)]]
<1> HIDE DEF iter, base
<1>7. a[0] = base
  <2>1. To(0) = {} /\ {} \in SUBSET (1 .. n) BY DEF To
  <2>2. iter[To(0)] = base
    <3>1. iter[To(0)] = Body(iter)[To(0)] BY <1>5
    <3> QED BY <2>1, <3>1
  <2> QED BY <1>0, <2>2
<1>8. ASSUME NEW i \in 1 .. n PROVE a[i] = Kept(a[i - 1], rows[i])
  <2>1. To(i) \in SUBSET (1 .. n) /\ To(i) # {} /\ Max(To(i)) = i /\ To(i) \ {i} = To(i - 1)
    <3> HIDE DEF n
    <3> QED BY <1>0, FirstPlaces
  <2>2. iter[To(i)] = Kept(iter[To(i - 1)], rows[i])
    <3>1. iter[To(i)] = Body(iter)[To(i)] BY <1>5
    <3> QED BY <2>1, <3>1
  <2> QED BY <1>0, <2>2
<1>9. a[n] = iter[1 .. n] BY <1>0 DEF To
<1> HIDE DEF a, n
<1> QED BY <1>6, <1>7, <1>8, <1>9 DEF n, base

(* Every id of a row is kept, with the attributes of one of its rows.       *)
LEMMA FirstIsKept ==
    ASSUME NEW rows, Listing(rows)
    PROVE  /\ \A id : id \in DOMAIN KeepFirst(rows) <=> \E r \in Range(rows) : r.id = id
           /\ \A id \in DOMAIN KeepFirst(rows) : \E r \in Range(rows) : r.id = id /\ KeepFirst(rows)[id] = r.attrs
           /\ IsFiniteSet(DOMAIN KeepFirst(rows))
<1> DEFINE n == Len(rows)
<1>0. /\ n \in Nat /\ \A i \in 1 .. n : rows[i] \in Range(rows)
      /\ \A x : x \in Range(rows) <=> \E i \in 1 .. n : rows[i] = x
  BY ListingIs
<1> HIDE DEF n
<1>1. PICK a : /\ KeepFirst(rows) = a[n] /\ a[0] = [id \in {} |-> {}]
               /\ \A i \in 1 .. n : a[i] = Kept(a[i - 1], rows[i])
  BY KeepSteps DEF n
<1> DEFINE Good(i) == /\ \A id : id \in DOMAIN a[i] <=> \E j \in 1 .. i : rows[j].id = id
                      /\ \A id \in DOMAIN a[i] : \E j \in 1 .. i : rows[j].id = id /\ a[i][id] = rows[j].attrs
           T == {i \in 0 .. n : Good(i)}
<1>2. 0 \in T BY <1>0, <1>1
<1>3. ASSUME NEW m \in 1 .. n, m - 1 \in T PROVE m \in T
  <2>1. Good(m - 1) /\ a[m] = Kept(a[m - 1], rows[m]) BY <1>1, <1>3
  <2>2. \A j : j \in 1 .. m <=> j \in 1 .. m - 1 \/ j = m OBVIOUS
  <2>3. CASE rows[m].id \in DOMAIN a[m - 1]
    <3>1. a[m] = a[m - 1] BY <2>1, <2>3 DEF Kept
    <3>2. \A id : id \in DOMAIN a[m] <=> \E j \in 1 .. m : rows[j].id = id
      <4>1. PICK j \in 1 .. m - 1 : rows[j].id = rows[m].id BY <2>1, <2>3
      <4> QED BY <2>1, <2>2, <3>1, <4>1
    <3>3. \A id \in DOMAIN a[m] : \E j \in 1 .. m : rows[j].id = id /\ a[m][id] = rows[j].attrs
      BY <2>1, <2>2, <3>1
    <3> QED BY <3>2, <3>3
  <2>4. CASE rows[m].id \notin DOMAIN a[m - 1]
    <3>1. a[m] = [id \in DOMAIN a[m - 1] \cup {rows[m].id} |->
                     IF id = rows[m].id THEN rows[m].attrs ELSE a[m - 1][id]]
      BY <2>1, <2>4 DEF Kept
    <3>2. \A id : id \in DOMAIN a[m] <=> id \in DOMAIN a[m - 1] \/ id = rows[m].id BY <3>1
    <3>3. \A id : id \in DOMAIN a[m] <=> \E j \in 1 .. m : rows[j].id = id BY <2>1, <2>2, <3>2
    <3>4. ASSUME NEW id \in DOMAIN a[m] PROVE \E j \in 1 .. m : rows[j].id = id /\ a[m][id] = rows[j].attrs
      <4>1. CASE id = rows[m].id BY <2>2, <3>1, <3>2, <4>1
      <4>2. CASE id # rows[m].id BY <2>1, <2>2, <3>1, <3>2, <4>2
      <4> QED BY <4>1, <4>2
    <3> QED BY <3>3, <3>4
  <2> QED BY <2>3, <2>4
<1>4. Good(n)
  <2> HIDE DEF T
  <2>1. 0 .. n \subseteq T BY <1>0, <1>2, <1>3, Counting
  <2>2. n \in T BY <1>0, <2>1
  <2> QED BY <2>2 DEF T
<1>5. IsFiniteSet(DOMAIN a[n])
  <2> DEFINE D == DOMAIN a[n]
             f == [i \in 1 .. n |-> rows[i].id]
  <2>1. f \in Surjection(1 .. n, D) BY <1>4 DEF Surjection
  <2>2. IsFiniteSet(1 .. n) BY <1>0, FS_Interval
  <2> HIDE DEF D, f
  <2>3. IsFiniteSet(D) BY <2>1, <2>2, FS_Surjection
  <2> QED BY <2>3 DEF D
<1>6. \A id : id \in DOMAIN a[n] <=> \E r \in Range(rows) : r.id = id
  BY Zenon, <1>0, <1>4
<1>7. \A id \in DOMAIN a[n] : \E r \in Range(rows) : r.id = id /\ a[n][id] = r.attrs
  BY Zenon, <1>0, <1>4
<1>8. KeepFirst(rows) = a[n] BY <1>1
<1> HIDE DEF Good, T
<1> QED BY <1>5, <1>6, <1>7, <1>8

Spending(points, ins) ==
    FoldLeft(LAMBDA acc, in : ResolveSpend(points, acc, in), NoSpends, ins)

Accounts(S, E) == [spender : S, edges : E, resolved : Nat, missing : Nat, unknown : Nat, conflicts : Nat]
Longer(acc, f, e) == [acc EXCEPT !.spender = f, !.edges = e, !.resolved = acc.resolved + 1]

LEMMA LongerAccount ==
    ASSUME NEW S, NEW E, NEW f \in S, NEW e \in E, NEW acc \in Accounts(S, E)
    PROVE  Longer(acc, f, e) \in Accounts(S, E)
<1> USE DEF Accounts
<1>1. PICK b \in Accounts(S, E) : b = [acc EXCEPT !.spender = f] OBVIOUS
<1>2. PICK c \in Accounts(S, E) : c = [b EXCEPT !.edges = e] OBVIOUS
<1>3. c.resolved = acc.resolved BY <1>1, <1>2
<1>4. Longer(acc, f, e) = [c EXCEPT !.resolved = c.resolved + 1] BY <1>1, <1>2, <1>3 DEF Longer
<1> QED BY <1>4

SpendsBySteps(points, ins) ==
    \E a : /\ Spending(points, ins) = a[Len(ins)]
           /\ a[0] = NoSpends
           /\ \A i \in 1 .. Len(ins) : a[i] = ResolveSpend(points, a[i - 1], ins[i])

LEMMA SpendSteps == ASSUME NEW points, NEW ins, Listing(ins) PROVE SpendsBySteps(points, ins)
<1> DEFINE n == Len(ins)
           P == {ins[i].prev : i \in 1 .. n}
           X == {ins[i].tx : i \in 1 .. n}
           S == UNION {[D -> X] : D \in SUBSET P}
           E == {SpendEdge(ins[i]) : i \in 1 .. n}
           A == Accounts(S, Seq(E))
           step == [i \in 1 .. n |-> [acc \in A |-> ResolveSpend(points, acc, ins[i])]]
           Body(g) == [s \in SUBSET (1 .. n) |->
                          IF s = {} THEN NoSpends ELSE ResolveSpend(points, g[s \ {Max(s)}], ins[Max(s)])]
           iter == CHOOSE g : g = Body(g)
<1>0. n \in Nat /\ DOMAIN ins = 1 .. n BY ListingIs
<1>1. ASSUME NEW acc \in A, NEW i \in 1 .. n PROVE ResolveSpend(points, acc, ins[i]) \in A
  <2> DEFINE in == ins[i]
             f == [p \in DOMAIN acc.spender \cup {in.prev} |-> IF p = in.prev THEN in.tx ELSE acc.spender[p]]
             e == Append(acc.edges, SpendEdge(in))
  <2>1. f \in S
    <3>1. PICK D \in SUBSET P : acc.spender \in [D -> X] BY DEF Accounts
    <3>2. in.prev \in P /\ in.tx \in X OBVIOUS
    <3>3. D \cup {in.prev} \in SUBSET P BY <3>2
    <3>4. f \in [D \cup {in.prev} -> X] BY <3>1, <3>2
    <3> HIDE DEF f, P, X
    <3> QED BY <3>3, <3>4
  <2>2. e \in Seq(E)
    <3>1. acc.edges \in Seq(E) /\ SpendEdge(in) \in E BY DEF Accounts
    <3> HIDE DEF E
    <3> QED BY <3>1
  <2>3. ResolveSpend(points, acc, in) \in
            {[acc EXCEPT !.missing = @ + 1], [acc EXCEPT !.unknown = @ + 1], [acc EXCEPT !.conflicts = @ + 1],
             Longer(acc, f, e)}
    BY DEF ResolveSpend, Longer
  <2> HIDE DEF f, e, S, E
  <2>4. Longer(acc, f, e) \in A BY <2>1, <2>2, LongerAccount
  <2>5. [acc EXCEPT !.missing = @ + 1] \in A BY DEF Accounts
  <2>6. [acc EXCEPT !.unknown = @ + 1] \in A BY DEF Accounts
  <2>7. [acc EXCEPT !.conflicts = @ + 1] \in A BY DEF Accounts
  <2> HIDE DEF A
  <2> QED BY <2>3, <2>4, <2>5, <2>6, <2>7
<1>2. step \in [1 .. n -> [A -> A]]
  <2> HIDE DEF A, n
  <2> QED BY <1>1
<1>3. PICK g \in [SUBSET (1 .. n) -> A] : Accumulates(g, n, NoSpends, step)
  <2>1. NoSpends \in A
    <3>1. NoSpends.spender \in [{} -> X] /\ NoSpends.edges \in Seq(E) BY DEF NoSpends
    <3>2. NoSpends.spender \in S
      <4> HIDE DEF X, P
      <4> QED BY <3>1
    <3> HIDE DEF S, E
    <3> QED BY <3>1, <3>2 DEF NoSpends, Accounts
  <2> HIDE DEF A, step, n
  <2> QED BY <1>0, <1>2, <2>1, FoldExists
<1>4. g = Body(g)
  <2>1. ASSUME NEW s \in SUBSET (1 .. n), s # {}
        PROVE  step[Max(s)][g[s \ {Max(s)}]] = ResolveSpend(points, g[s \ {Max(s)}], ins[Max(s)])
    <3>1. Max(s) \in 1 .. n
      <4> HIDE DEF n
      <4>1. Max(s) \in s BY <1>0, <2>1, GreatestNumber
      <4> QED BY <4>1
    <3>2. g[s \ {Max(s)}] \in A
      <4>1. s \ {Max(s)} \in SUBSET (1 .. n) OBVIOUS
      <4> HIDE DEF A, n
      <4> QED BY <4>1
    <3> HIDE DEF A, n
    <3> QED BY <3>1, <3>2
  <2> HIDE DEF A, n, step
  <2> QED BY <1>3, <2>1 DEF Accumulates
<1>5. iter = Body(iter)
  <2> HIDE DEF Body
  <2> QED BY <1>4
<1>6. Spending(points, ins) = iter[1 .. n]
  BY <1>0 DEF Spending, FoldLeft, MapThenFoldSet
<1> DEFINE a == [i \in 0 .. n |-> iter[To(i)]]
<1> HIDE DEF iter
<1>7. a[0] = NoSpends
  <2>1. To(0) = {} /\ {} \in SUBSET (1 .. n) BY DEF To
  <2>2. iter[To(0)] = NoSpends
    <3>1. iter[To(0)] = Body(iter)[To(0)] BY <1>5
    <3> QED BY <2>1, <3>1
  <2> QED BY <1>0, <2>2
<1>8. ASSUME NEW i \in 1 .. n PROVE a[i] = ResolveSpend(points, a[i - 1], ins[i])
  <2>1. To(i) \in SUBSET (1 .. n) /\ To(i) # {} /\ Max(To(i)) = i /\ To(i) \ {i} = To(i - 1)
    <3> HIDE DEF n
    <3> QED BY <1>0, FirstPlaces
  <2>2. iter[To(i)] = ResolveSpend(points, iter[To(i - 1)], ins[i])
    <3>1. iter[To(i)] = Body(iter)[To(i)] BY <1>5
    <3> QED BY <2>1, <3>1
  <2> QED BY <1>0, <2>2
<1>9. a[n] = iter[1 .. n] BY <1>0 DEF To
<1> HIDE DEF a, n
<1> QED BY <1>6, <1>7, <1>8, <1>9 DEF n, SpendsBySteps

(* An edge is made for an input that spends a known output, and all edges   *)
(* of one output lead to one transaction.                                   *)
SpendsOne(points, ins, acc) ==
    /\ Listing(acc.edges)
    /\ \A e \in Range(acc.edges) :
           \E in \in Range(ins) : /\ e = SpendEdge(in) /\ in.prev \in points
                                  /\ in.prev \in DOMAIN acc.spender /\ acc.spender[in.prev] = in.tx

LEMMA SpendsAre ==
    ASSUME NEW points, NEW ins, Listing(ins)
    PROVE  SpendsOne(points, ins, Spending(points, ins))
<1> DEFINE n == Len(ins)
           Fold == Spending(points, ins)
<1>0. n \in Nat /\ \A i \in 1 .. n : ins[i] \in Range(ins)
  BY ListingIs
<1> HIDE DEF n, Fold
<1>1. PICK a : /\ Fold = a[n] /\ a[0] = NoSpends
               /\ \A i \in 1 .. n : a[i] = ResolveSpend(points, a[i - 1], ins[i])
  <2>1. SpendsBySteps(points, ins) BY SpendSteps
  <2> QED BY <2>1 DEF n, Fold, SpendsBySteps
<1> DEFINE Good(acc) == /\ acc = [f \in DOMAIN acc |-> acc[f]] /\ {"spender", "edges"} \subseteq DOMAIN acc
                        /\ SpendsOne(points, ins, acc)
           T == {i \in 0 .. n : Good(a[i])}
<1>2. Good(NoSpends)
  <2>1. NoSpends.edges = << >> BY DEF NoSpends
  <2>2. Range(<< >>) = {} BY DEF Range
  <2>3. Listing(<< >>) BY <2>2 DEF Listing
  <2> QED BY <2>1, <2>2, <2>3 DEF SpendsOne, NoSpends
<1>3. ASSUME NEW acc, Good(acc), NEW in \in Range(ins) PROVE Good(ResolveSpend(points, acc, in))
  <2> DEFINE new == ResolveSpend(points, acc, in)
             f == [p \in DOMAIN acc.spender \cup {in.prev} |-> IF p = in.prev THEN in.tx ELSE acc.spender[p]]
             e == Append(acc.edges, SpendEdge(in))
             long == [acc EXCEPT !.spender = f, !.edges = e, !.resolved = @ + 1]
  <2>1. \/ new \in {[acc EXCEPT !.missing = @ + 1], [acc EXCEPT !.unknown = @ + 1], [acc EXCEPT !.conflicts = @ + 1]}
        \/ /\ new = long
           /\ in.prev \in points /\ ~(in.prev \in DOMAIN acc.spender /\ acc.spender[in.prev] # in.tx)
    BY DEF ResolveSpend
  <2> HIDE DEF new
  <2>2. CASE new \in {[acc EXCEPT !.missing = @ + 1], [acc EXCEPT !.unknown = @ + 1], [acc EXCEPT !.conflicts = @ + 1]}
    <3>1. /\ new = [g \in DOMAIN new |-> new[g]] /\ DOMAIN new = DOMAIN acc
          /\ new.spender = acc.spender /\ new.edges = acc.edges
      BY <1>3, <2>2
    <3>2. SpendsOne(points, ins, new) BY <1>3, <3>1 DEF SpendsOne
    <3> QED BY <1>3, <3>1, <3>2 DEF new
  <2>3. CASE /\ new = long
             /\ in.prev \in points /\ ~(in.prev \in DOMAIN acc.spender /\ acc.spender[in.prev] # in.tx)
    <3>1. /\ new = [g \in DOMAIN new |-> new[g]] /\ DOMAIN new = DOMAIN acc
          /\ new.spender = f /\ new.edges = e
      <4> HIDE DEF f, e
      <4> QED BY <1>3, <2>3
    <3> DEFINE B == Range(acc.edges) \cup {SpendEdge(in)}
    <3>2. e \in Seq(B) /\ \A x : x \in Range(e) => x \in Range(acc.edges) \/ x = SpendEdge(in)
      <4>1. acc.edges \in Seq(Range(acc.edges)) BY <1>3 DEF SpendsOne, Listing
      <4>2. acc.edges \in Seq(B) BY <4>1, SeqMonotonic
      <4>3. SpendEdge(in) \in B OBVIOUS
      <4> HIDE DEF B
      <4>4. e \in Seq(B) BY <4>2, <4>3
      <4>5. \A x : x \in Range(e) => x \in B
        <5> HIDE DEF e
        <5> QED BY <4>4, RangeOfSeq
      <4> QED BY <4>4, <4>5 DEF B
    <3>3. Listing(e) BY <3>2, SeqOfRange DEF Listing
    <3>4. ASSUME NEW x \in Range(e)
          PROVE  \E o \in Range(ins) : x = SpendEdge(o) /\ o.prev \in points /\ o.prev \in DOMAIN f /\ f[o.prev] = o.tx
      <4>1. CASE x \in Range(acc.edges)
        <5>1. PICK o \in Range(ins) : /\ x = SpendEdge(o) /\ o.prev \in points
                                      /\ o.prev \in DOMAIN acc.spender /\ acc.spender[o.prev] = o.tx
          BY <1>3, <4>1 DEF SpendsOne
        <5>2. o.prev \in DOMAIN f /\ f[o.prev] = o.tx BY <2>3, <5>1
        <5> HIDE DEF f
        <5> QED BY <5>1, <5>2
      <4>2. CASE x = SpendEdge(in)
        <5>1. in.prev \in DOMAIN f /\ f[in.prev] = in.tx OBVIOUS
        <5> HIDE DEF f
        <5> QED BY <2>3, <4>2, <5>1
      <4> QED BY <3>2, <4>1, <4>2
    <3> HIDE DEF f, e, long
    <3>5. SpendsOne(points, ins, new) BY <3>1, <3>3, <3>4 DEF SpendsOne
    <3> QED BY <1>3, <3>1, <3>5 DEF new
  <2> QED BY <2>1, <2>2, <2>3
<1> HIDE DEF Good
<1>4. 0 \in T BY <1>0, <1>1, <1>2
<1>5. ASSUME NEW m \in 1 .. n, m - 1 \in T PROVE m \in T
  <2>1. Good(a[m - 1]) /\ ins[m] \in Range(ins) /\ a[m] = ResolveSpend(points, a[m - 1], ins[m])
    BY <1>0, <1>1, <1>5
  <2>2. Good(a[m]) BY <1>3, <2>1
  <2> QED BY <2>2
<1>6. Good(a[n])
  <2> HIDE DEF T
  <2>1. 0 .. n \subseteq T BY <1>0, <1>4, <1>5, Counting
  <2>2. n \in T BY <1>0, <2>1
  <2> QED BY <2>2 DEF T
<1>7. SpendsOne(points, ins, Fold) BY <1>1, <1>6 DEF Good
<1> QED BY <1>7 DEF Fold

-----------------------------------------------------------------------------
(* Facts: lists, and every outpoint once.                                   *)

LEMMA ShortListings ==
    /\ Listing(<< >>) /\ \A x : x \notin Range(<< >>)
    /\ \A x : Listing(<<x>>) /\ \A y : y \in Range(<<x>>) <=> y = x
    /\ \A x, y : Listing(<<x, y>>) /\ \A z : z \in Range(<<x, y>>) <=> z = x \/ z = y
<1>1. Range(<< >>) = {} BY DEF Range
<1>2. ASSUME NEW x PROVE Range(<<x>>) = {x} BY DEF Range
<1>3. ASSUME NEW x, NEW y PROVE Range(<<x, y>>) = {x, y} BY DEF Range
<1>4. \A x : <<x>> \in Seq({x}) OBVIOUS
<1>5. \A x, y : <<x, y>> \in Seq({x, y}) OBVIOUS
<1> QED BY <1>1, <1>2, <1>3, <1>4, <1>5 DEF Listing

(* An import's evidence, as LedgersAssumption has it.                       *)
IsEvidence(rows) ==
    /\ Listing(rows)
    /\ \A i \in DOMAIN rows : Listing(rows[i].spends) /\ Listing(rows[i].pays)
    /\ \A i, j \in DOMAIN rows : rows[i].id = rows[j].id => i = j

FactLists(F) ==
    /\ Listing(F.txs) /\ Listing(F.ins) /\ Listing(F.outs) /\ Listing(F.obs)
    /\ \A o, p \in Range(F.outs) : Outpoint(o) = Outpoint(p) => o = p
    /\ \A in \in Range(F.ins) : \E t \in Range(F.txs) : t.tx = in.tx

LEMMA FactsAreLists ==
    ASSUME NEW rows, IsEvidence(rows)
    PROVE  FactLists(FactsOf(rows))
<1> DEFINE n == Len(rows)
           outs == [i \in DOMAIN rows |->
                       [k \in DOMAIN rows[i].pays |->
                           [tx |-> rows[i].id, vout |-> k - 1,
                            amount |-> rows[i].pays[k].amount, to |-> rows[i].pays[k].to]]]
           ins == [i \in DOMAIN rows |->
                      [k \in DOMAIN rows[i].spends |->
                          [tx |-> rows[i].id, vin |-> k - 1, prev |-> rows[i].spends[k], by |-> rows[i].by[k]]]]
           obs == [i \in DOMAIN rows |->
                      IF \A field \in DOMAIN rows[i].seen : rows[i].seen[field] = Null THEN << >>
                      ELSE <<[id |-> i, tx |-> rows[i].id] @@ rows[i].seen>>]
<1>1. n \in Nat /\ DOMAIN rows = 1 .. n BY ListingIs DEF IsEvidence
<1>2. Listing(FactsOf(rows).txs)
  <2> DEFINE txs == Transactions(rows)
  <2>1. txs = [i \in 1 .. n |-> txs[i]] BY <1>1 DEF Transactions
  <2> HIDE DEF txs, n
  <2>2. Listing(txs) BY <1>1, <2>1, ListingOf
  <2> QED BY <2>2 DEF txs, FactsOf
<1>3. ASSUME NEW i \in 1 .. n
      PROVE  /\ Listing(rows[i].pays) /\ Len(rows[i].pays) \in Nat /\ DOMAIN rows[i].pays = 1 .. Len(rows[i].pays)
             /\ Listing(rows[i].spends) /\ Len(rows[i].spends) \in Nat /\ DOMAIN rows[i].spends = 1 .. Len(rows[i].spends)
  <2>1. Listing(rows[i].pays) /\ Listing(rows[i].spends) BY <1>1 DEF IsEvidence
  <2> QED BY <2>1, ListingIs
<1>4. ASSUME NEW i \in 1 .. n PROVE Listing(outs[i])
  <2> DEFINE s == outs[i]
  <2>1. s = [k \in 1 .. Len(rows[i].pays) |-> s[k]] BY <1>1, <1>3
  <2> HIDE DEF s
  <2>2. Listing(s) BY <1>3, <2>1, ListingOf
  <2> QED BY <2>2 DEF s
<1>5. ASSUME NEW i \in 1 .. n PROVE Listing(ins[i])
  <2> DEFINE s == ins[i]
  <2>1. s = [k \in 1 .. Len(rows[i].spends) |-> s[k]] BY <1>1, <1>3
  <2> HIDE DEF s
  <2>2. Listing(s) BY <1>3, <2>1, ListingOf
  <2> QED BY <2>2 DEF s
<1>6. ASSUME NEW i \in 1 .. n PROVE Listing(obs[i])
  <2> DEFINE o == [id |-> i, tx |-> rows[i].id] @@ rows[i].seen
  <2>1. obs[i] = << >> \/ obs[i] = <<o>> BY <1>1
  <2> HIDE DEF o, obs
  <2> QED BY <2>1, ShortListings
<1>7. outs = [i \in 1 .. n |-> outs[i]] /\ ins = [i \in 1 .. n |-> ins[i]] /\ obs = [i \in 1 .. n |-> obs[i]]
  BY <1>1
<1>8. ASSUME NEW o PROVE o \in Range(FlattenSeq(outs)) <=> \E i \in 1 .. n : o \in Range(outs[i])
  <2> HIDE DEF outs, n
  <2> QED BY <1>1, <1>4, <1>7, FlattenedListing
<1>9. Listing(FlattenSeq(outs)) /\ Listing(FlattenSeq(ins)) /\ Listing(FlattenSeq(obs))
  <2> HIDE DEF outs, ins, obs, n
  <2> QED BY <1>1, <1>4, <1>5, <1>6, <1>7, FlattenedListing
<1>10. FactsOf(rows).ins = FlattenSeq(ins) /\ FactsOf(rows).outs = FlattenSeq(outs) /\ FactsOf(rows).obs = FlattenSeq(obs)
  BY DEF FactsOf, Inputs, Outputs, Observations
<1>11. ASSUME NEW i \in 1 .. n, NEW o \in Range(outs[i])
       PROVE  \E k \in 1 .. Len(rows[i].pays) :
                  o = [tx |-> rows[i].id, vout |-> k - 1,
                       amount |-> rows[i].pays[k].amount, to |-> rows[i].pays[k].to]
  BY <1>1, <1>3 DEF Range
<1>12. ASSUME NEW o \in Range(FlattenSeq(outs)), NEW p \in Range(FlattenSeq(outs)), Outpoint(o) = Outpoint(p)
       PROVE  o = p
  <2>1. PICK i \in 1 .. n : o \in Range(outs[i]) BY <1>8
  <2>2. PICK j \in 1 .. n : p \in Range(outs[j]) BY <1>8
  <2> HIDE DEF outs, ins, obs
  <2>3. PICK k \in 1 .. Len(rows[i].pays) :
            o = [tx |-> rows[i].id, vout |-> k - 1,
                 amount |-> rows[i].pays[k].amount, to |-> rows[i].pays[k].to]
    BY <1>11, <2>1
  <2>4. PICK l \in 1 .. Len(rows[j].pays) :
            p = [tx |-> rows[j].id, vout |-> l - 1,
                 amount |-> rows[j].pays[l].amount, to |-> rows[j].pays[l].to]
    BY <1>11, <2>2
  <2>5. rows[i].id = rows[j].id /\ k - 1 = l - 1 BY <1>12, <2>3, <2>4 DEF Outpoint
  <2>6. i = j
    <3>1. i \in DOMAIN rows /\ j \in DOMAIN rows BY <1>1
    <3> QED BY <2>5, <3>1 DEF IsEvidence
  <2>7. k = l BY <1>3, <2>5
  <2> QED BY <2>3, <2>4, <2>6, <2>7
<1>13. ASSUME NEW in \in Range(FlattenSeq(ins)) PROVE \E t \in Range(FactsOf(rows).txs) : t.tx = in.tx
  <2>1. PICK i \in 1 .. n : in \in Range(ins[i])
    <3> HIDE DEF ins, n
    <3> QED BY <1>1, <1>5, <1>7, FlattenedListing
  <2>2. in.tx = rows[i].id
    <3>1. PICK k \in DOMAIN ins[i] : ins[i][k] = in BY <2>1 DEF Range
    <3>2. k \in DOMAIN rows[i].spends BY <1>1, <3>1
    <3>3. ins[i][k] = [tx |-> rows[i].id, vin |-> k - 1, prev |-> rows[i].spends[k], by |-> rows[i].by[k]]
      BY <1>1, <3>2
    <3> QED BY <3>1, <3>3
  <2> DEFINE t == [tx |-> rows[i].id, at |-> rows[i].at]
  <2>3. t \in Range(FactsOf(rows).txs)
    <3>1. i \in DOMAIN Transactions(rows) /\ Transactions(rows)[i] = t BY <1>1 DEF Transactions
    <3> HIDE DEF t
    <3> QED BY <3>1 DEF FactsOf, Range
  <2> QED BY <2>2, <2>3
<1> HIDE DEF outs, ins, obs
<1> QED BY <1>2, <1>9, <1>10, <1>12, <1>13 DEF FactLists

-----------------------------------------------------------------------------
(* GraphBuild: what the edges and nodes of a graph are.                     *)

EdgeRows(F) ==
    FlattenSeq([i \in DOMAIN F.outs |-> OutputEdges(F.outs[i])])
        \o Spending(Outpoints(F), F.ins).edges
        \o FlattenSeq([i \in DOMAIN F.obs |-> ObservationEdges(F.obs[i])])

NodeRows(F) ==
    [i \in DOMAIN F.txs |-> Row(TxNode(F.txs[i].tx), <<F.txs[i].at>>)]
        \o FlattenSeq([i \in DOMAIN F.outs |-> OutputNodes(F.outs[i])])
        \o FlattenSeq([i \in DOMAIN F.obs |-> ObservationNodes(F.obs[i])])

LEMMA GraphIsKept ==
    ASSUME NEW F
    PROVE  MemoryGraph(F).nodes = KeepFirst(NodeRows(F)) /\ MemoryGraph(F).edges = KeepFirst(EdgeRows(F))
<1> DEFINE rows == EdgeRows(F)
<1>1. MemorySpends(F) = Spending(Outpoints(F), F.ins) BY DEF MemorySpends, Spending
<1>2. MemoryGraph(F).edges = KeepFirst(rows) BY <1>1 DEF MemoryGraph, EdgeRows
<1>3. MemoryGraph(F).nodes = KeepFirst(NodeRows(F)) BY DEF MemoryGraph, NodeRows
<1> QED BY <1>2, <1>3

CreatesEdge(o) == Edge(TxNode(o.tx), OutNode(Outpoint(o)), "CREATES_OUTPUT", <<o.amount>>)
LockedEdge(o) == Edge(OutNode(Outpoint(o)), AddressNode(o.to), "LOCKED_TO", << >>)

LEMMA OutputRowsAre ==
    ASSUME NEW o
    PROVE  /\ Listing(OutputEdges(o)) /\ Listing(OutputNodes(o))
           /\ \A r : r \in Range(OutputEdges(o)) <=> r = CreatesEdge(o) \/ (o.to # Null /\ r = LockedEdge(o))
           /\ \A r : r \in Range(OutputNodes(o)) <=>
                         \/ r = Row(TxNode(o.tx), << >>) \/ r = Row(OutNode(Outpoint(o)), <<o.amount>>)
                         \/ (o.to # Null /\ r = Row(AddressNode(o.to), << >>))
<1> DEFINE a == <<CreatesEdge(o)>>
           b == IF o.to = Null THEN << >> ELSE <<LockedEdge(o)>>
           c == <<Row(TxNode(o.tx), << >>), Row(OutNode(Outpoint(o)), <<o.amount>>)>>
           d == IF o.to = Null THEN << >> ELSE <<Row(AddressNode(o.to), << >>)>>
<1>1. OutputEdges(o) = a \o b BY DEF OutputEdges, CreatesEdge, LockedEdge
<1>2. OutputNodes(o) = c \o d BY DEF OutputNodes
<1>3. Listing(a) /\ \A r : r \in Range(a) <=> r = CreatesEdge(o) BY ShortListings
<1>4. Listing(b) /\ \A r : r \in Range(b) <=> o.to # Null /\ r = LockedEdge(o)
  BY ShortListings
<1>5. Listing(c) /\ \A r : r \in Range(c) <=> r = Row(TxNode(o.tx), << >>) \/ r = Row(OutNode(Outpoint(o)), <<o.amount>>)
  BY ShortListings
<1>6. Listing(d) /\ \A r : r \in Range(d) <=> o.to # Null /\ r = Row(AddressNode(o.to), << >>)
  BY ShortListings
<1> HIDE DEF a, b, c, d
<1>7. Listing(a \o b) /\ \A r : r \in Range(a \o b) <=> r \in Range(a) \/ r \in Range(b)
  BY <1>3, <1>4, JoinedListing
<1>8. Listing(c \o d) /\ \A r : r \in Range(c \o d) <=> r \in Range(c) \/ r \in Range(d)
  BY <1>5, <1>6, JoinedListing
<1>9. \A r : r \in Range(OutputEdges(o)) <=> r = CreatesEdge(o) \/ (o.to # Null /\ r = LockedEdge(o))
  BY <1>1, <1>3, <1>4, <1>7
<1>10. \A r : r \in Range(OutputNodes(o)) <=>
                         \/ r = Row(TxNode(o.tx), << >>) \/ r = Row(OutNode(Outpoint(o)), <<o.amount>>)
                         \/ (o.to # Null /\ r = Row(AddressNode(o.to), << >>))
  BY <1>2, <1>5, <1>6, <1>8
<1> QED BY <1>1, <1>2, <1>7, <1>8, <1>9, <1>10

SeenEdge(o, e) == Edge(ObsNode(o.id), EndpointNode(e.end), e.kind, << >>)

LEMMA ObservationRowsAre ==
    ASSUME NEW o
    PROVE  /\ Listing(ObservationEdges(o)) /\ Listing(ObservationNodes(o))
           /\ \A e \in Range(ObservationEnds(o)) : e.kind \in {"SEEN_FROM", "SEEN_TO"}
           /\ \A r : r \in Range(ObservationEdges(o)) <=>
                         \/ r = Edge(ObsNode(o.id), TxNode(o.tx), "OBSERVED_TX", << >>)
                         \/ \E e \in Range(ObservationEnds(o)) : r = SeenEdge(o, e)
           /\ \A r : r \in Range(ObservationNodes(o)) <=>
                         \/ r = Row(ObsNode(o.id), << >>) \/ r = Row(TxNode(o.tx), << >>)
                         \/ \E e \in Range(ObservationEnds(o)) : r = Row(EndpointNode(e.end), << >>)
<1> DEFINE ends == ObservationEnds(o)
           n == Len(ends)
           from == [kind |-> "SEEN_FROM", end |-> o.src]
           to == [kind |-> "SEEN_TO", end |-> o.dst]
           p == IF o.src = Null THEN << >> ELSE <<from>>
           q == IF o.dst = Null THEN << >> ELSE <<to>>
<1>1. Listing(ends) /\ \A e \in Range(ends) : e.kind \in {"SEEN_FROM", "SEEN_TO"}
  <2>1. ends = p \o q BY DEF ObservationEnds
  <2>2. Listing(p) /\ Listing(q) /\ (\A e \in Range(p) : e = from) /\ (\A e \in Range(q) : e = to)
    <3> HIDE DEF from, to
    <3> QED BY ShortListings
  <2> HIDE DEF p, q, ends
  <2>3. Listing(ends) /\ \A e : e \in Range(ends) => e = from \/ e = to BY <2>1, <2>2, JoinedListing
  <2> QED BY <2>3
<1> DEFINE a == <<Edge(ObsNode(o.id), TxNode(o.tx), "OBSERVED_TX", << >>)>>
           b == [k \in DOMAIN ends |-> SeenEdge(o, ends[k])]
           c == <<Row(ObsNode(o.id), << >>), Row(TxNode(o.tx), << >>)>>
           d == [k \in DOMAIN ends |-> Row(EndpointNode(ends[k].end), << >>)]
<1>2. ObservationEdges(o) = a \o b BY DEF ObservationEdges, SeenEdge
<1>3. ObservationNodes(o) = c \o d BY DEF ObservationNodes
<1> HIDE DEF ends
<1>4. n \in Nat /\ DOMAIN ends = 1 .. n /\ \A e : e \in Range(ends) <=> \E k \in 1 .. n : ends[k] = e
  BY <1>1, ListingIs
<1>5. Listing(b) /\ Listing(d)
  <2>1. b = [k \in 1 .. n |-> b[k]] /\ d = [k \in 1 .. n |-> d[k]] BY <1>4
  <2> HIDE DEF b, d, n
  <2> QED BY <1>4, <2>1, ListingOf
<1>6. \A r : r \in Range(b) <=> \E e \in Range(ends) : r = SeenEdge(o, e) BY <1>4 DEF Range
<1>7. \A r : r \in Range(d) <=> \E e \in Range(ends) : r = Row(EndpointNode(e.end), << >>) BY <1>4 DEF Range
<1>8. Listing(a) /\ \A r : r \in Range(a) <=> r = Edge(ObsNode(o.id), TxNode(o.tx), "OBSERVED_TX", << >>)
  BY ShortListings
<1>9. Listing(c) /\ \A r : r \in Range(c) <=> r = Row(ObsNode(o.id), << >>) \/ r = Row(TxNode(o.tx), << >>)
  BY ShortListings
<1> HIDE DEF a, b, c, d
<1>10. Listing(a \o b) /\ \A r : r \in Range(a \o b) <=> r \in Range(a) \/ r \in Range(b)
  BY <1>5, <1>8, JoinedListing
<1>11. Listing(c \o d) /\ \A r : r \in Range(c \o d) <=> r \in Range(c) \/ r \in Range(d)
  BY <1>5, <1>9, JoinedListing
<1>12. \A r : r \in Range(ObservationEdges(o)) <=>
                         \/ r = Edge(ObsNode(o.id), TxNode(o.tx), "OBSERVED_TX", << >>)
                         \/ \E e \in Range(ends) : r = SeenEdge(o, e)
  BY <1>2, <1>6, <1>8, <1>10
<1>13. \A r : r \in Range(ObservationNodes(o)) <=>
                         \/ r = Row(ObsNode(o.id), << >>) \/ r = Row(TxNode(o.tx), << >>)
                         \/ \E e \in Range(ends) : r = Row(EndpointNode(e.end), << >>)
  BY <1>3, <1>7, <1>9, <1>11
<1> QED BY <1>1, <1>2, <1>3, <1>10, <1>11, <1>12, <1>13 DEF ends

LEMMA EdgeRowsAre ==
    ASSUME NEW F, FactLists(F)
    PROVE  /\ Listing(EdgeRows(F))
           /\ \A r : r \in Range(EdgeRows(F)) <=>
                         \/ \E o \in Range(F.outs) : r \in Range(OutputEdges(o))
                         \/ r \in Range(Spending(Outpoints(F), F.ins).edges)
                         \/ \E o \in Range(F.obs) : r \in Range(ObservationEdges(o))
<1> DEFINE a == [i \in DOMAIN F.outs |-> OutputEdges(F.outs[i])]
           b == Spending(Outpoints(F), F.ins).edges
           c == [i \in DOMAIN F.obs |-> ObservationEdges(F.obs[i])]
           n == Len(F.outs)
           m == Len(F.obs)
<1>1. /\ n \in Nat /\ DOMAIN F.outs = 1 .. n /\ \A o : o \in Range(F.outs) <=> \E i \in 1 .. n : F.outs[i] = o
      /\ m \in Nat /\ DOMAIN F.obs = 1 .. m /\ \A o : o \in Range(F.obs) <=> \E i \in 1 .. m : F.obs[i] = o
  BY ListingIs DEF FactLists
<1>2. a = [i \in 1 .. n |-> a[i]] /\ \A i \in 1 .. n : a[i] = OutputEdges(F.outs[i]) BY <1>1
<1>3. c = [i \in 1 .. m |-> c[i]] /\ \A i \in 1 .. m : c[i] = ObservationEdges(F.obs[i]) BY <1>1
<1>4. Listing(b) BY SpendsAre DEF SpendsOne, FactLists
<1>5. EdgeRows(F) = FlattenSeq(a) \o b \o FlattenSeq(c) BY DEF EdgeRows
<1> HIDE DEF a, b, c, n, m
<1>6. \A i \in 1 .. n : Listing(a[i]) BY <1>2, OutputRowsAre
<1>7. \A i \in 1 .. m : Listing(c[i]) BY <1>3, ObservationRowsAre
<1>8. Listing(FlattenSeq(a)) /\ \A r : r \in Range(FlattenSeq(a)) <=> \E i \in 1 .. n : r \in Range(a[i])
  BY <1>1, <1>2, <1>6, FlattenedListing
<1>9. Listing(FlattenSeq(c)) /\ \A r : r \in Range(FlattenSeq(c)) <=> \E i \in 1 .. m : r \in Range(c[i])
  BY <1>1, <1>3, <1>7, FlattenedListing
<1>10. ASSUME NEW r PROVE r \in Range(FlattenSeq(a)) <=> \E o \in Range(F.outs) : r \in Range(OutputEdges(o))
  <2>1. ASSUME r \in Range(FlattenSeq(a)) PROVE \E o \in Range(F.outs) : r \in Range(OutputEdges(o))
    <3>1. PICK i \in 1 .. n : r \in Range(a[i]) BY <1>8, <2>1
    <3>2. F.outs[i] \in Range(F.outs) BY <1>1
    <3>3. a[i] = OutputEdges(F.outs[i]) BY <1>2
    <3> QED BY <3>1, <3>2, <3>3
  <2>2. ASSUME NEW o \in Range(F.outs), r \in Range(OutputEdges(o)) PROVE r \in Range(FlattenSeq(a))
    <3>1. PICK i \in 1 .. n : F.outs[i] = o BY <1>1
    <3>2. a[i] = OutputEdges(o) BY <1>2, <3>1
    <3> QED BY <1>8, <2>2, <3>2
  <2> QED BY <2>1, <2>2
<1>11. ASSUME NEW r PROVE r \in Range(FlattenSeq(c)) <=> \E o \in Range(F.obs) : r \in Range(ObservationEdges(o))
  <2>1. ASSUME r \in Range(FlattenSeq(c)) PROVE \E o \in Range(F.obs) : r \in Range(ObservationEdges(o))
    <3>1. PICK i \in 1 .. m : r \in Range(c[i]) BY <1>9, <2>1
    <3>2. F.obs[i] \in Range(F.obs) BY <1>1
    <3>3. c[i] = ObservationEdges(F.obs[i]) BY <1>3
    <3> QED BY <3>1, <3>2, <3>3
  <2>2. ASSUME NEW o \in Range(F.obs), r \in Range(ObservationEdges(o)) PROVE r \in Range(FlattenSeq(c))
    <3>1. PICK i \in 1 .. m : F.obs[i] = o BY <1>1
    <3>2. c[i] = ObservationEdges(o) BY <1>3, <3>1
    <3> QED BY <1>9, <2>2, <3>2
  <2> QED BY <2>1, <2>2
<1> DEFINE x == FlattenSeq(a)
           y == FlattenSeq(c)
<1> HIDE DEF x, y
<1>12. /\ Listing(x \o b) /\ \A r : r \in Range(x \o b) <=> r \in Range(x) \/ r \in Range(b)
  BY <1>4, <1>8, JoinedListing DEF x
<1>13. /\ Listing((x \o b) \o y) /\ \A r : r \in Range((x \o b) \o y) <=> r \in Range(x \o b) \/ r \in Range(y)
  BY <1>9, <1>12, JoinedListing DEF y
<1>14. EdgeRows(F) = (x \o b) \o y BY <1>5 DEF x, y
<1>15. \A r : r \in Range(EdgeRows(F)) <=> r \in Range(x) \/ r \in Range(b) \/ r \in Range(y)
  BY <1>12, <1>13, <1>14
<1> QED BY <1>10, <1>11, <1>13, <1>14, <1>15 DEF x, y, b

LEMMA NodeRowsAre ==
    ASSUME NEW F, FactLists(F)
    PROVE  /\ Listing(NodeRows(F))
           /\ \A r : r \in Range(NodeRows(F)) <=>
                         \/ \E t \in Range(F.txs) : r = Row(TxNode(t.tx), <<t.at>>)
                         \/ \E o \in Range(F.outs) : r \in Range(OutputNodes(o))
                         \/ \E o \in Range(F.obs) : r \in Range(ObservationNodes(o))
<1> DEFINE a == [i \in DOMAIN F.outs |-> OutputNodes(F.outs[i])]
           b == [i \in DOMAIN F.txs |-> Row(TxNode(F.txs[i].tx), <<F.txs[i].at>>)]
           c == [i \in DOMAIN F.obs |-> ObservationNodes(F.obs[i])]
           n == Len(F.outs)
           m == Len(F.obs)
           l == Len(F.txs)
<1>1. /\ n \in Nat /\ DOMAIN F.outs = 1 .. n /\ \A o : o \in Range(F.outs) <=> \E i \in 1 .. n : F.outs[i] = o
      /\ m \in Nat /\ DOMAIN F.obs = 1 .. m /\ \A o : o \in Range(F.obs) <=> \E i \in 1 .. m : F.obs[i] = o
      /\ l \in Nat /\ DOMAIN F.txs = 1 .. l /\ \A o : o \in Range(F.txs) <=> \E i \in 1 .. l : F.txs[i] = o
  BY ListingIs DEF FactLists
<1>2. a = [i \in 1 .. n |-> a[i]] /\ \A i \in 1 .. n : a[i] = OutputNodes(F.outs[i]) BY <1>1
<1>3. c = [i \in 1 .. m |-> c[i]] /\ \A i \in 1 .. m : c[i] = ObservationNodes(F.obs[i]) BY <1>1
<1>4. Listing(b) /\ \A r : r \in Range(b) <=> \E t \in Range(F.txs) : r = Row(TxNode(t.tx), <<t.at>>)
  <2>1. b = [i \in 1 .. l |-> b[i]] BY <1>1
  <2>2. Listing(b)
    <3> HIDE DEF b, l
    <3> QED BY <1>1, <2>1, ListingOf
  <2>3. \A r : r \in Range(b) <=> \E t \in Range(F.txs) : r = Row(TxNode(t.tx), <<t.at>>)
    BY <1>1 DEF Range
  <2> QED BY <2>2, <2>3
<1>5. NodeRows(F) = b \o FlattenSeq(a) \o FlattenSeq(c) BY DEF NodeRows
<1> HIDE DEF a, b, c, n, m, l
<1>6. \A i \in 1 .. n : Listing(a[i]) BY <1>2, OutputRowsAre
<1>7. \A i \in 1 .. m : Listing(c[i]) BY <1>3, ObservationRowsAre
<1>8. Listing(FlattenSeq(a)) /\ \A r : r \in Range(FlattenSeq(a)) <=> \E i \in 1 .. n : r \in Range(a[i])
  BY <1>1, <1>2, <1>6, FlattenedListing
<1>9. Listing(FlattenSeq(c)) /\ \A r : r \in Range(FlattenSeq(c)) <=> \E i \in 1 .. m : r \in Range(c[i])
  BY <1>1, <1>3, <1>7, FlattenedListing
<1>10. ASSUME NEW r PROVE r \in Range(FlattenSeq(a)) <=> \E o \in Range(F.outs) : r \in Range(OutputNodes(o))
  <2>1. ASSUME r \in Range(FlattenSeq(a)) PROVE \E o \in Range(F.outs) : r \in Range(OutputNodes(o))
    <3>1. PICK i \in 1 .. n : r \in Range(a[i]) BY <1>8, <2>1
    <3>2. F.outs[i] \in Range(F.outs) BY <1>1
    <3>3. a[i] = OutputNodes(F.outs[i]) BY <1>2
    <3> QED BY <3>1, <3>2, <3>3
  <2>2. ASSUME NEW o \in Range(F.outs), r \in Range(OutputNodes(o)) PROVE r \in Range(FlattenSeq(a))
    <3>1. PICK i \in 1 .. n : F.outs[i] = o BY <1>1
    <3>2. a[i] = OutputNodes(o) BY <1>2, <3>1
    <3> QED BY <1>8, <2>2, <3>2
  <2> QED BY <2>1, <2>2
<1>11. ASSUME NEW r PROVE r \in Range(FlattenSeq(c)) <=> \E o \in Range(F.obs) : r \in Range(ObservationNodes(o))
  <2>1. ASSUME r \in Range(FlattenSeq(c)) PROVE \E o \in Range(F.obs) : r \in Range(ObservationNodes(o))
    <3>1. PICK i \in 1 .. m : r \in Range(c[i]) BY <1>9, <2>1
    <3>2. F.obs[i] \in Range(F.obs) BY <1>1
    <3>3. c[i] = ObservationNodes(F.obs[i]) BY <1>3
    <3> QED BY <3>1, <3>2, <3>3
  <2>2. ASSUME NEW o \in Range(F.obs), r \in Range(ObservationNodes(o)) PROVE r \in Range(FlattenSeq(c))
    <3>1. PICK i \in 1 .. m : F.obs[i] = o BY <1>1
    <3>2. c[i] = ObservationNodes(o) BY <1>3, <3>1
    <3> QED BY <1>9, <2>2, <3>2
  <2> QED BY <2>1, <2>2
<1> DEFINE x == FlattenSeq(a)
           y == FlattenSeq(c)
<1> HIDE DEF x, y
<1>12. /\ Listing(b \o x) /\ \A r : r \in Range(b \o x) <=> r \in Range(b) \/ r \in Range(x)
  BY <1>4, <1>8, JoinedListing DEF x
<1>13. /\ Listing((b \o x) \o y) /\ \A r : r \in Range((b \o x) \o y) <=> r \in Range(b \o x) \/ r \in Range(y)
  BY <1>9, <1>12, JoinedListing DEF y
<1>14. NodeRows(F) = (b \o x) \o y BY <1>5 DEF x, y
<1>15. \A r : r \in Range(NodeRows(F)) <=> r \in Range(b) \/ r \in Range(x) \/ r \in Range(y)
  BY <1>12, <1>13, <1>14
<1> QED BY <1>4, <1>10, <1>11, <1>13, <1>14, <1>15 DEF x, y
-----------------------------------------------------------------------------
(* What query_flow relies on in a graph.                                    *)

Creates(G, tx, out) == <<tx, out, "CREATES_OUTPUT">> \in DOMAIN G.edges
Locks(G, out, address) == <<out, address, "LOCKED_TO">> \in DOMAIN G.edges
Spends(G, out, tx) == <<out, tx, "SPENT_BY">> \in DOMAIN G.edges

Ended(G) == \A e \in DOMAIN G.edges : e = <<e[1], e[2], e[3]>> /\ Ends(e) \subseteq DOMAIN G.nodes

(* An output is made by the transaction it names, and its row and the edge  *)
(* tell one amount.                                                         *)
Made(G, out) == out[1] = "out" /\ Creates(G, CreatorTx(out), out)
CreatedOnce(G) ==
    \A tx, out : Creates(G, tx, out) =>
        Made(G, out) /\ tx = CreatorTx(out) /\ G.nodes[out][1] = G.edges[<<tx, out, "CREATES_OUTPUT">>][1]

LockedOnce(G) ==
    /\ \A out, a : Locks(G, out, a) => Made(G, out) /\ a[1] = "address"
    /\ \A out, a, b : Locks(G, out, a) /\ Locks(G, out, b) => a = b

SpentOnce(G) ==
    /\ \A out, tx : Spends(G, out, tx) => Made(G, out) /\ tx[1] = "tx"
    /\ \A out, t, u : Spends(G, out, t) /\ Spends(G, out, u) => t = u

Shape(G) ==
    /\ IsFiniteSet(DOMAIN G.edges)
    /\ Ended(G) /\ CreatedOnce(G) /\ LockedOnce(G) /\ SpentOnce(G)
    /\ \A out \in DOMAIN G.nodes : out[1] = "out" => Made(G, out)
Spent(F) == Spending(Outpoints(F), F.ins)

IsSpend(F, in) ==
    /\ in \in Range(F.ins) /\ in.prev \in Outpoints(F)
    /\ in.prev \in DOMAIN Spent(F).spender /\ Spent(F).spender[in.prev] = in.tx

(* A row the edges of a graph come from, by its kind.                       *)
EdgeRow(F, r) ==
    \/ \E o \in Range(F.outs) : r = CreatesEdge(o)
    \/ \E o \in Range(F.outs) : o.to # Null /\ r = LockedEdge(o)
    \/ \E in : IsSpend(F, in) /\ r = SpendEdge(in)
    \/ \E o \in Range(F.obs) : r = Edge(ObsNode(o.id), TxNode(o.tx), "OBSERVED_TX", << >>)
    \/ \E o \in Range(F.obs) : \E x \in Range(ObservationEnds(o)) : r = SeenEdge(o, x)

NodeRow(F, r) ==
    \/ \E t \in Range(F.txs) : r = Row(TxNode(t.tx), <<t.at>>)
    \/ \E o \in Range(F.outs) : \/ r = Row(TxNode(o.tx), << >>)
                                \/ r = Row(OutNode(Outpoint(o)), <<o.amount>>)
                                \/ o.to # Null /\ r = Row(AddressNode(o.to), << >>)
    \/ \E o \in Range(F.obs) : \/ r = Row(ObsNode(o.id), << >>) \/ r = Row(TxNode(o.tx), << >>)
                               \/ \E x \in Range(ObservationEnds(o)) : r = Row(EndpointNode(x.end), << >>)

LEMMA EdgesAre ==
    ASSUME NEW F, FactLists(F), NEW G, G = MemoryGraph(F)
    PROVE  /\ IsFiniteSet(DOMAIN G.edges)
           /\ \A e \in DOMAIN G.edges : \E r : EdgeRow(F, r) /\ r.id = e /\ G.edges[e] = r.attrs
           /\ \A o \in Range(F.outs) : CreatesEdge(o).id \in DOMAIN G.edges
<1> DEFINE rows == EdgeRows(F)
<1>1. G.edges = KeepFirst(rows) BY GraphIsKept
<1>2. Listing(rows) BY EdgeRowsAre
<1>3. ASSUME NEW r PROVE r \in Range(rows) => EdgeRow(F, r)
  <2>1. ASSUME NEW o \in Range(F.outs), r \in Range(OutputEdges(o)) PROVE EdgeRow(F, r)
    <3>1. r = CreatesEdge(o) \/ (o.to # Null /\ r = LockedEdge(o)) BY <2>1, OutputRowsAre
    <3> QED BY <3>1 DEF EdgeRow
  <2>2. ASSUME r \in Range(Spent(F).edges) PROVE EdgeRow(F, r)
    <3>1. SpendsOne(Outpoints(F), F.ins, Spent(F)) BY SpendsAre DEF Spent, FactLists
    <3>2. PICK in \in Range(F.ins) : /\ r = SpendEdge(in) /\ in.prev \in Outpoints(F)
                                     /\ in.prev \in DOMAIN Spent(F).spender /\ Spent(F).spender[in.prev] = in.tx
      BY <2>2, <3>1 DEF SpendsOne
    <3>3. IsSpend(F, in) BY <3>2 DEF IsSpend
    <3> QED BY <3>2, <3>3 DEF EdgeRow
  <2>3. ASSUME NEW o \in Range(F.obs), r \in Range(ObservationEdges(o)) PROVE EdgeRow(F, r)
    <3>1. \/ r = Edge(ObsNode(o.id), TxNode(o.tx), "OBSERVED_TX", << >>)
          \/ \E e \in Range(ObservationEnds(o)) : r = SeenEdge(o, e)
      BY <2>3, ObservationRowsAre
    <3> QED BY <3>1 DEF EdgeRow
  <2>4. r \in Range(rows) => \/ \E o \in Range(F.outs) : r \in Range(OutputEdges(o))
                             \/ r \in Range(Spent(F).edges)
                             \/ \E o \in Range(F.obs) : r \in Range(ObservationEdges(o))
    BY EdgeRowsAre DEF Spent
  <2> HIDE DEF rows
  <2> QED BY <2>1, <2>2, <2>3, <2>4
<1>4. ASSUME NEW o \in Range(F.outs) PROVE CreatesEdge(o) \in Range(rows)
  <2>1. CreatesEdge(o) \in Range(OutputEdges(o)) BY OutputRowsAre
  <2> QED BY <2>1, EdgeRowsAre
<1> HIDE DEF rows
<1>5. /\ \A id : id \in DOMAIN KeepFirst(rows) <=> \E r \in Range(rows) : r.id = id
      /\ \A id \in DOMAIN KeepFirst(rows) : \E r \in Range(rows) : r.id = id /\ KeepFirst(rows)[id] = r.attrs
      /\ IsFiniteSet(DOMAIN KeepFirst(rows))
  BY <1>2, FirstIsKept
<1>6. \A e \in DOMAIN G.edges : \E r : EdgeRow(F, r) /\ r.id = e /\ G.edges[e] = r.attrs
  BY <1>1, <1>3, <1>5
<1> QED BY <1>1, <1>4, <1>5, <1>6

LEMMA NodesAre ==
    ASSUME NEW F, FactLists(F), NEW G, G = MemoryGraph(F)
    PROVE  /\ \A n \in DOMAIN G.nodes : \E r : NodeRow(F, r) /\ r.id = n /\ G.nodes[n] = r.attrs
           /\ \A r : NodeRow(F, r) => r.id \in DOMAIN G.nodes
<1> DEFINE rows == NodeRows(F)
<1>1. G.nodes = KeepFirst(rows) BY GraphIsKept
<1>2. Listing(rows) BY NodeRowsAre
<1>3. ASSUME NEW r PROVE r \in Range(rows) <=> NodeRow(F, r)
  <2>1. \A o : r \in Range(OutputNodes(o)) <=>
                         \/ r = Row(TxNode(o.tx), << >>) \/ r = Row(OutNode(Outpoint(o)), <<o.amount>>)
                         \/ (o.to # Null /\ r = Row(AddressNode(o.to), << >>))
    BY OutputRowsAre
  <2>2. \A o : r \in Range(ObservationNodes(o)) <=>
                         \/ r = Row(ObsNode(o.id), << >>) \/ r = Row(TxNode(o.tx), << >>)
                         \/ \E e \in Range(ObservationEnds(o)) : r = Row(EndpointNode(e.end), << >>)
    BY ObservationRowsAre
  <2>3. r \in Range(rows) <=>
                         \/ \E t \in Range(F.txs) : r = Row(TxNode(t.tx), <<t.at>>)
                         \/ \E o \in Range(F.outs) : r \in Range(OutputNodes(o))
                         \/ \E o \in Range(F.obs) : r \in Range(ObservationNodes(o))
    BY NodeRowsAre
  <2> HIDE DEF rows
  <2> QED BY Zenon, <2>1, <2>2, <2>3 DEF NodeRow
<1> HIDE DEF rows
<1>4. /\ \A id : id \in DOMAIN KeepFirst(rows) <=> \E r \in Range(rows) : r.id = id
      /\ \A id \in DOMAIN KeepFirst(rows) : \E r \in Range(rows) : r.id = id /\ KeepFirst(rows)[id] = r.attrs
  BY <1>2, FirstIsKept
<1>5. ASSUME NEW r, NodeRow(F, r) PROVE r.id \in DOMAIN G.nodes BY <1>1, <1>3, <1>4, <1>5
<1>6. \A n \in DOMAIN G.nodes : \E r : NodeRow(F, r) /\ r.id = n /\ G.nodes[n] = r.attrs
  BY <1>1, <1>3, <1>4
<1> QED BY <1>5, <1>6
LEMMA OutputsAreMade ==
    ASSUME NEW F, FactLists(F), NEW G, G = MemoryGraph(F), NEW o \in Range(F.outs)
    PROVE  /\ Made(G, OutNode(Outpoint(o))) /\ CreatorTx(OutNode(Outpoint(o))) = TxNode(o.tx)
           /\ OutNode(Outpoint(o)) \in DOMAIN G.nodes /\ TxNode(o.tx) \in DOMAIN G.nodes
           /\ o.to # Null => AddressNode(o.to) \in DOMAIN G.nodes
<1>1. CreatorTx(OutNode(Outpoint(o))) = TxNode(o.tx) /\ OutNode(Outpoint(o))[1] = "out"
  BY DEF CreatorTx, OutNode, Outpoint, TxNode
<1>2. CreatesEdge(o).id \in DOMAIN G.edges BY EdgesAre
<1>3. CreatesEdge(o).id = <<TxNode(o.tx), OutNode(Outpoint(o)), "CREATES_OUTPUT">>
  BY DEF CreatesEdge, Edge, Row
<1>4. NodeRow(F, Row(TxNode(o.tx), << >>)) /\ NodeRow(F, Row(OutNode(Outpoint(o)), <<o.amount>>))
  BY DEF NodeRow
<1>5. o.to # Null => NodeRow(F, Row(AddressNode(o.to), << >>)) BY DEF NodeRow
<1>6. \A n, x : NodeRow(F, Row(n, x)) => n \in DOMAIN G.nodes
  <2>1. \A n, x : Row(n, x).id = n BY DEF Row
  <2> QED BY <2>1, NodesAre
<1>7. Made(G, OutNode(Outpoint(o))) BY <1>1, <1>2, <1>3 DEF Made, Creates
<1> QED BY <1>1, <1>4, <1>5, <1>6, <1>7

LEMMA OutRowsAre ==
    ASSUME NEW F, FactLists(F), NEW G, G = MemoryGraph(F), NEW n \in DOMAIN G.nodes, n[1] = "out"
    PROVE  \E o \in Range(F.outs) : n = OutNode(Outpoint(o)) /\ G.nodes[n] = <<o.amount>>
<1>1. PICK r : NodeRow(F, r) /\ r.id = n /\ G.nodes[n] = r.attrs BY NodesAre
<1>2. \A x, y : /\ Row(TxNode(x), y).id[1] = "tx" /\ Row(AddressNode(x), y).id[1] = "address"
                /\ Row(ObsNode(x), y).id[1] = "obs" /\ Row(EndpointNode(x), y).id[1] = "endpoint"
  BY DEF Row, TxNode, AddressNode, ObsNode, EndpointNode
<1>3. \E o \in Range(F.outs) : r = Row(OutNode(Outpoint(o)), <<o.amount>>)
  <2>1. \A x : r # Row(TxNode(x), << >>) /\ r # Row(AddressNode(x), << >>) /\ r # Row(ObsNode(x), << >>)
               /\ r # Row(EndpointNode(x), << >>)
    BY <1>1, <1>2
  <2>2. \A x, y : r # Row(TxNode(x), <<y>>) BY <1>1, <1>2
  <2> QED BY Zenon, <1>1, <2>1, <2>2 DEF NodeRow
<1>4. \A x, y : Row(x, y).id = x /\ Row(x, y).attrs = y BY DEF Row
<1> QED BY <1>1, <1>3, <1>4

(* An edge of each kind query_flow follows, by the fact it comes from.      *)
LEMMA EdgesComeFrom ==
    ASSUME NEW F, FactLists(F), NEW G, G = MemoryGraph(F), NEW e \in DOMAIN G.edges
    PROVE  \/ /\ e[3] = "CREATES_OUTPUT"
              /\ \E o \in Range(F.outs) : /\ e = <<TxNode(o.tx), OutNode(Outpoint(o)), "CREATES_OUTPUT">>
                                          /\ G.edges[e] = <<o.amount>>
           \/ /\ e[3] = "LOCKED_TO"
              /\ \E o \in Range(F.outs) : o.to # Null /\ e = <<OutNode(Outpoint(o)), AddressNode(o.to), "LOCKED_TO">>
           \/ /\ e[3] = "SPENT_BY"
              /\ \E in : IsSpend(F, in) /\ e = <<OutNode(in.prev), TxNode(in.tx), "SPENT_BY">>
           \/ /\ e[3] \notin {"CREATES_OUTPUT", "LOCKED_TO", "SPENT_BY"}
              /\ \E o \in Range(F.obs) : \/ e = <<ObsNode(o.id), TxNode(o.tx), "OBSERVED_TX">>
                                         \/ \E x \in Range(ObservationEnds(o)) :
                                                e = <<ObsNode(o.id), EndpointNode(x.end), x.kind>>
<1>1. PICK r : EdgeRow(F, r) /\ r.id = e /\ G.edges[e] = r.attrs BY EdgesAre
<1>2. CASE \E o \in Range(F.outs) : r = CreatesEdge(o) BY <1>1, <1>2 DEF CreatesEdge, Edge, Row
<1>3. CASE \E o \in Range(F.outs) : o.to # Null /\ r = LockedEdge(o) BY <1>1, <1>3 DEF LockedEdge, Edge, Row
<1>4. CASE \E in : IsSpend(F, in) /\ r = SpendEdge(in) BY <1>1, <1>4 DEF SpendEdge, Edge, Row
<1>5. CASE \E o \in Range(F.obs) : r = Edge(ObsNode(o.id), TxNode(o.tx), "OBSERVED_TX", << >>)
  BY <1>1, <1>5 DEF Edge, Row
<1>6. CASE \E o \in Range(F.obs) : \E x \in Range(ObservationEnds(o)) : r = SeenEdge(o, x)
  <2>1. PICK o \in Range(F.obs) : \E x \in Range(ObservationEnds(o)) : r = SeenEdge(o, x) BY <1>6
  <2>2. PICK x \in Range(ObservationEnds(o)) : r = SeenEdge(o, x) BY <2>1
  <2>3. x.kind \in {"SEEN_FROM", "SEEN_TO"} BY ObservationRowsAre
  <2>4. e = <<ObsNode(o.id), EndpointNode(x.end), x.kind>> BY <1>1, <2>2 DEF SeenEdge, Edge, Row
  <2>5. e[3] = x.kind BY <2>4
  <2> QED BY <2>3, <2>4, <2>5
<1> QED BY <1>1, <1>2, <1>3, <1>4, <1>5, <1>6 DEF EdgeRow
LEMMA SpendsKnown ==
    ASSUME NEW F, FactLists(F), NEW in, IsSpend(F, in)
    PROVE  \E o \in Range(F.outs) : in.prev = Outpoint(o)
<1>1. \A i \in DOMAIN F.outs : F.outs[i] \in Range(F.outs) BY DEF Range
<1> QED BY <1>1 DEF IsSpend, Outpoints

LEMMA GraphsAreEnded ==
    ASSUME NEW F, FactLists(F), NEW G, G = MemoryGraph(F)
    PROVE  Ended(G)
<1> SUFFICES ASSUME NEW e \in DOMAIN G.edges
             PROVE  e = <<e[1], e[2], e[3]>> /\ e[1] \in DOMAIN G.nodes /\ e[2] \in DOMAIN G.nodes
  BY DEF Ended, Ends
<1>1. \A n, x : NodeRow(F, Row(n, x)) => n \in DOMAIN G.nodes
  <2>1. \A n, x : Row(n, x).id = n BY DEF Row
  <2> QED BY <2>1, NodesAre
<1>2. CASE \E o \in Range(F.outs) : e = <<TxNode(o.tx), OutNode(Outpoint(o)), "CREATES_OUTPUT">>
  <2>1. PICK o \in Range(F.outs) : e = <<TxNode(o.tx), OutNode(Outpoint(o)), "CREATES_OUTPUT">> BY <1>2
  <2> QED BY <2>1, OutputsAreMade
<1>3. CASE \E o \in Range(F.outs) : o.to # Null /\ e = <<OutNode(Outpoint(o)), AddressNode(o.to), "LOCKED_TO">>
  <2>1. PICK o \in Range(F.outs) : o.to # Null /\ e = <<OutNode(Outpoint(o)), AddressNode(o.to), "LOCKED_TO">> BY <1>3
  <2> QED BY <2>1, OutputsAreMade
<1>4. CASE \E in : IsSpend(F, in) /\ e = <<OutNode(in.prev), TxNode(in.tx), "SPENT_BY">>
  <2>1. PICK in : IsSpend(F, in) /\ e = <<OutNode(in.prev), TxNode(in.tx), "SPENT_BY">> BY <1>4
  <2>2. PICK o \in Range(F.outs) : in.prev = Outpoint(o) BY <2>1, SpendsKnown
  <2>3. OutNode(in.prev) \in DOMAIN G.nodes BY <2>2, OutputsAreMade
  <2>4. TxNode(in.tx) \in DOMAIN G.nodes
    <3>1. PICK t \in Range(F.txs) : t.tx = in.tx BY <2>1 DEF IsSpend, FactLists
    <3>2. NodeRow(F, Row(TxNode(t.tx), <<t.at>>)) BY DEF NodeRow
    <3> QED BY <1>1, <3>1, <3>2
  <2> QED BY <2>1, <2>3, <2>4
<1>5. CASE \E o \in Range(F.obs) : \/ e = <<ObsNode(o.id), TxNode(o.tx), "OBSERVED_TX">>
                                   \/ \E x \in Range(ObservationEnds(o)) :
                                          e = <<ObsNode(o.id), EndpointNode(x.end), x.kind>>
  <2>1. PICK o \in Range(F.obs) : \/ e = <<ObsNode(o.id), TxNode(o.tx), "OBSERVED_TX">>
                                  \/ \E x \in Range(ObservationEnds(o)) :
                                         e = <<ObsNode(o.id), EndpointNode(x.end), x.kind>>
    BY <1>5
  <2>2. ObsNode(o.id) \in DOMAIN G.nodes /\ TxNode(o.tx) \in DOMAIN G.nodes
    <3>1. NodeRow(F, Row(ObsNode(o.id), << >>)) /\ NodeRow(F, Row(TxNode(o.tx), << >>)) BY DEF NodeRow
    <3> QED BY <1>1, <3>1
  <2>3. ASSUME NEW x \in Range(ObservationEnds(o)) PROVE EndpointNode(x.end) \in DOMAIN G.nodes
    <3>1. NodeRow(F, Row(EndpointNode(x.end), << >>)) BY DEF NodeRow
    <3> QED BY <1>1, <3>1
  <2> QED BY <2>1, <2>2, <2>3
<1> QED BY <1>2, <1>3, <1>4, <1>5, EdgesComeFrom
(* The graph of every import's evidence is one query_flow can be followed in. *)
LEMMA GraphsAreShaped ==
    ASSUME NEW F, FactLists(F), NEW G, G = MemoryGraph(F)
    PROVE  Shape(G)
<1> DEFINE Out(o) == OutNode(Outpoint(o))
<1>0. \A p, q : TxNode(p) = TxNode(q) => p = q BY DEF TxNode
<1>1. \A o, p \in Range(F.outs) : Out(o) = Out(p) => o = p
  <2>1. \A o, p \in Range(F.outs) : Out(o) = Out(p) => Outpoint(o) = Outpoint(p) BY DEF OutNode, Outpoint
  <2> QED BY <2>1 DEF FactLists
<1>2. \A o \in Range(F.outs) : Made(G, Out(o)) /\ CreatorTx(Out(o)) = TxNode(o.tx) /\ Out(o) \in DOMAIN G.nodes
  BY OutputsAreMade
<1>3. \A o \in Range(F.outs) : G.nodes[Out(o)] = <<o.amount>>
  <2> SUFFICES ASSUME NEW o \in Range(F.outs) PROVE G.nodes[Out(o)] = <<o.amount>> OBVIOUS
  <2>1. Out(o) \in DOMAIN G.nodes /\ Out(o)[1] = "out" BY <1>2 DEF Made
  <2> HIDE DEF Out
  <2>2. PICK p \in Range(F.outs) : Out(o) = OutNode(Outpoint(p)) /\ G.nodes[Out(o)] = <<p.amount>>
    BY <2>1, OutRowsAre
  <2>3. p = o BY <1>1, <2>2 DEF Out
  <2> QED BY <2>2, <2>3
<1>4. ASSUME NEW tx, NEW out, Creates(G, tx, out)
      PROVE  \E o \in Range(F.outs) : tx = TxNode(o.tx) /\ out = Out(o)
                                      /\ G.edges[<<tx, out, "CREATES_OUTPUT">>] = <<o.amount>>
  <2> DEFINE e == <<tx, out, "CREATES_OUTPUT">>
  <2>1. e \in DOMAIN G.edges /\ e[3] = "CREATES_OUTPUT" BY <1>4 DEF Creates
  <2> HIDE DEF e
  <2>2. PICK o \in Range(F.outs) : /\ e = <<TxNode(o.tx), OutNode(Outpoint(o)), "CREATES_OUTPUT">>
                                   /\ G.edges[e] = <<o.amount>>
    BY <2>1, EdgesComeFrom
  <2>3. tx = TxNode(o.tx) /\ out = OutNode(Outpoint(o)) BY <2>2 DEF e
  <2> QED BY <2>2, <2>3 DEF e
<1>5. ASSUME NEW out, NEW a, Locks(G, out, a)
      PROVE  \E o \in Range(F.outs) : out = Out(o) /\ a = AddressNode(o.to)
  <2> DEFINE e == <<out, a, "LOCKED_TO">>
  <2>1. e \in DOMAIN G.edges /\ e[3] = "LOCKED_TO" BY <1>5 DEF Locks
  <2> HIDE DEF e
  <2>2. PICK o \in Range(F.outs) : e = <<OutNode(Outpoint(o)), AddressNode(o.to), "LOCKED_TO">>
    BY <2>1, EdgesComeFrom
  <2> QED BY <2>2 DEF e
<1>6. ASSUME NEW out, NEW tx, Spends(G, out, tx)
      PROVE  \E in : IsSpend(F, in) /\ out = OutNode(in.prev) /\ tx = TxNode(in.tx)
  <2> DEFINE e == <<out, tx, "SPENT_BY">>
  <2>1. e \in DOMAIN G.edges /\ e[3] = "SPENT_BY" BY <1>6 DEF Spends
  <2> HIDE DEF e
  <2>2. PICK in : IsSpend(F, in) /\ e = <<OutNode(in.prev), TxNode(in.tx), "SPENT_BY">>
    BY <2>1, EdgesComeFrom
  <2> QED BY <2>2 DEF e
<1>7. CreatedOnce(G)
  <2> SUFFICES ASSUME NEW tx, NEW out, Creates(G, tx, out)
               PROVE  Made(G, out) /\ tx = CreatorTx(out)
                      /\ G.nodes[out][1] = G.edges[<<tx, out, "CREATES_OUTPUT">>][1]
    BY DEF CreatedOnce
  <2>1. PICK o \in Range(F.outs) : tx = TxNode(o.tx) /\ out = Out(o)
                                   /\ G.edges[<<tx, out, "CREATES_OUTPUT">>] = <<o.amount>>
    BY <1>4
  <2> HIDE DEF Out
  <2> QED BY <1>2, <1>3, <2>1
<1>8. LockedOnce(G)
  <2>1. ASSUME NEW out, NEW a, Locks(G, out, a) PROVE Made(G, out) /\ a[1] = "address"
    <3>1. PICK o \in Range(F.outs) : out = Out(o) /\ a = AddressNode(o.to) BY <1>5, <2>1
    <3>2. a[1] = "address" BY <3>1 DEF AddressNode
    <3> HIDE DEF Out
    <3> QED BY <1>2, <3>1, <3>2
  <2>2. ASSUME NEW out, NEW a, NEW b, Locks(G, out, a), Locks(G, out, b) PROVE a = b
    <3>1. PICK o \in Range(F.outs) : out = Out(o) /\ a = AddressNode(o.to) BY <1>5, <2>2
    <3>2. PICK p \in Range(F.outs) : out = Out(p) /\ b = AddressNode(p.to) BY <1>5, <2>2
    <3> HIDE DEF Out
    <3> QED BY <1>1, <3>1, <3>2
  <2> QED BY <2>1, <2>2 DEF LockedOnce
<1>9. SpentOnce(G)
  <2>1. ASSUME NEW out, NEW tx, Spends(G, out, tx) PROVE Made(G, out) /\ tx[1] = "tx"
    <3>1. PICK in : IsSpend(F, in) /\ out = OutNode(in.prev) /\ tx = TxNode(in.tx) BY <1>6, <2>1
    <3>2. PICK o \in Range(F.outs) : in.prev = Outpoint(o) BY <3>1, SpendsKnown
    <3>3. out = Out(o) BY <3>1, <3>2
    <3>4. tx[1] = "tx" BY <3>1 DEF TxNode
    <3> HIDE DEF Out
    <3> QED BY <1>2, <3>3, <3>4
  <2>2. ASSUME NEW out, NEW t, NEW u, Spends(G, out, t), Spends(G, out, u) PROVE t = u
    <3>1. PICK in : IsSpend(F, in) /\ out = OutNode(in.prev) /\ t = TxNode(in.tx) BY <1>6, <2>2
    <3>2. PICK jn : IsSpend(F, jn) /\ out = OutNode(jn.prev) /\ u = TxNode(jn.tx) BY <1>6, <2>2
    <3>3. PICK o \in Range(F.outs) : in.prev = Outpoint(o) BY <3>1, SpendsKnown
    <3>4. PICK p \in Range(F.outs) : jn.prev = Outpoint(p) BY <3>2, SpendsKnown
    <3>5. in.prev = jn.prev
      <4>1. Out(o) = Out(p) BY <3>1, <3>2, <3>3, <3>4
      <4> HIDE DEF Out
      <4> QED BY <1>1, <3>3, <3>4, <4>1
    <3>6. in.tx = jn.tx BY <3>1, <3>2, <3>5 DEF IsSpend
    <3> QED BY <3>1, <3>2, <3>6
  <2> QED BY <2>1, <2>2 DEF SpentOnce
<1>10. ASSUME NEW out \in DOMAIN G.nodes, out[1] = "out" PROVE Made(G, out)
  <2>1. PICK o \in Range(F.outs) : out = OutNode(Outpoint(o)) BY <1>10, OutRowsAre
  <2> QED BY <1>2, <2>1
<1>11. IsFiniteSet(DOMAIN G.edges) BY EdgesAre
<1>12. Ended(G) BY GraphsAreEnded
<1> QED BY <1>7, <1>8, <1>9, <1>10, <1>11, <1>12 DEF Shape
-----------------------------------------------------------------------------
(* GraphReading: query_flow in a graph of that shape.                       *)

Follows(G) ==
    /\ \A tx, out : out \in SpentIn(G, tx) <=> Spends(G, out, tx)
    /\ \A tx, out : out \in CreatedBy(G, tx) <=> Creates(G, tx, out)
    /\ \A a, out : out \in LockedTo(G, a) <=> Locks(G, out, a)
    /\ \A out, a : a # Null => (Locked(G, out) = a <=> Locks(G, out, a))
    /\ \A out, tx : tx # Null => (SpenderOf(G, out) = tx <=> Spends(G, out, tx))
    /\ \A out, n : Locks(G, out, n) \/ Spends(G, out, n) \/ Creates(G, n, out) => n # Null

LEMMA FlowFollows == ASSUME NEW G, Shape(G), Null \notin DOMAIN G.nodes PROVE Follows(G)
<1>1. \A e \in DOMAIN G.edges : e = <<e[1], e[2], e[3]>> /\ e[1] \in DOMAIN G.nodes /\ e[2] \in DOMAIN G.nodes
  BY DEF Shape, Ended, Ends
<1>2. \A x, y, z : <<x, y, z>>[1] = x /\ <<x, y, z>>[2] = y /\ <<x, y, z>>[3] = z OBVIOUS
<1>3. ASSUME NEW tx, NEW out PROVE out \in SpentIn(G, tx) <=> Spends(G, out, tx)
  BY <1>1, <1>2 DEF SpentIn, OfKind, Spends
<1>4. ASSUME NEW tx, NEW out PROVE out \in CreatedBy(G, tx) <=> Creates(G, tx, out)
  BY <1>1, <1>2 DEF CreatedBy, OfKind, Creates
<1>5. ASSUME NEW a, NEW out PROVE out \in LockedTo(G, a) <=> Locks(G, out, a)
  BY <1>1, <1>2 DEF LockedTo, OfKind, Locks
<1>6. ASSUME NEW out, NEW a, a # Null PROVE Locked(G, out) = a <=> Locks(G, out, a)
  <2> DEFINE to == {e[2] : e \in {f \in OfKind(G, "LOCKED_TO") : f[1] = out}}
  <2>1. \A b : b \in to <=> Locks(G, out, b) BY <1>1, <1>2 DEF OfKind, Locks
  <2>2. \A b, c : b \in to /\ c \in to => b = c BY <2>1 DEF Shape, LockedOnce
  <2>3. Locked(G, out) = IF to = {} THEN Null ELSE CHOOSE b \in to : TRUE BY DEF Locked
  <2> HIDE DEF to
  <2> QED BY <1>6, <2>1, <2>2, <2>3
<1>7. ASSUME NEW out, NEW tx, tx # Null PROVE SpenderOf(G, out) = tx <=> Spends(G, out, tx)
  <2> DEFINE by == {e[2] : e \in {f \in OfKind(G, "SPENT_BY") : f[1] = out}}
  <2>1. \A b : b \in by <=> Spends(G, out, b) BY <1>1, <1>2 DEF OfKind, Spends
  <2>2. \A b, c : b \in by /\ c \in by => b = c BY <2>1 DEF Shape, SpentOnce
  <2>3. SpenderOf(G, out) = IF by = {} THEN Null ELSE CHOOSE b \in by : TRUE BY DEF SpenderOf
  <2> HIDE DEF by
  <2> QED BY <1>7, <2>1, <2>2, <2>3
<1>8. ASSUME NEW out, NEW n, Locks(G, out, n) \/ Spends(G, out, n) \/ Creates(G, n, out) PROVE n # Null
  BY <1>1, <1>2, <1>8 DEF Locks, Spends, Creates
<1> QED BY <1>3, <1>4, <1>5, <1>6, <1>7, <1>8 DEF Follows

LEMMA FlowIsFinite ==
    ASSUME NEW G, Shape(G), NEW n
    PROVE  IsFiniteSet(SpentIn(G, n)) /\ IsFiniteSet(CreatedBy(G, n)) /\ IsFiniteSet(LockedTo(G, n))
<1> DEFINE E == DOMAIN G.edges
           from(S) == [e \in S |-> e[1]]
           to(S) == [e \in S |-> e[2]]
<1>1. \A S \in SUBSET E : IsFiniteSet(S)
  <2>1. IsFiniteSet(E) BY DEF Shape
  <2> HIDE DEF E
  <2> QED BY <2>1, FS_Subset
<1>2. ASSUME NEW S \in SUBSET E PROVE IsFiniteSet({e[1] : e \in S}) /\ IsFiniteSet({e[2] : e \in S})
  <2> DEFINE T == {e[1] : e \in S}
             U == {e[2] : e \in S}
  <2>1. from(S) \in Surjection(S, T) /\ to(S) \in Surjection(S, U) BY DEF Surjection
  <2> HIDE DEF T, U, from, to, E
  <2>2. IsFiniteSet(T) /\ IsFiniteSet(U) BY <1>1, <2>1, FS_Surjection
  <2> QED BY <2>2 DEF T, U
<1>3. IsFiniteSet(SpentIn(G, n))
  <2> DEFINE S == {f \in OfKind(G, "SPENT_BY") : f[2] = n}
  <2>1. S \in SUBSET E BY DEF OfKind
  <2>2. SpentIn(G, n) = {e[1] : e \in S} BY DEF SpentIn
  <2> HIDE DEF S, E
  <2> QED BY <1>2, <2>1, <2>2
<1>4. IsFiniteSet(CreatedBy(G, n))
  <2> DEFINE S == {f \in OfKind(G, "CREATES_OUTPUT") : f[1] = n}
  <2>1. S \in SUBSET E BY DEF OfKind
  <2>2. CreatedBy(G, n) = {e[2] : e \in S} BY DEF CreatedBy
  <2> HIDE DEF S, E
  <2> QED BY <1>2, <2>1, <2>2
<1>5. IsFiniteSet(LockedTo(G, n))
  <2> DEFINE S == {f \in OfKind(G, "LOCKED_TO") : f[2] = n}
  <2>1. S \in SUBSET E BY DEF OfKind
  <2>2. LockedTo(G, n) = {e[1] : e \in S} BY DEF LockedTo
  <2> HIDE DEF S, E
  <2> QED BY <1>2, <2>1, <2>2
<1> QED BY <1>3, <1>4, <1>5

(* What an output counts as in its row it counts as on its edge.            *)
LEMMA AmountsAgree ==
    ASSUME NEW G, Shape(G), NEW outs, \A out \in outs : Made(G, out)
    PROVE  AmountIn(G, outs) = CreatedAmount(G, outs)
<1>1. \A out \in outs : G.nodes[out][1] = G.edges[<<CreatorTx(out), out, "CREATES_OUTPUT">>][1]
  BY DEF Shape, CreatedOnce, Made
<1> DEFINE one == [out \in outs |-> G.nodes[out][1]]
           two == [out \in outs |-> G.edges[<<CreatorTx(out), out, "CREATES_OUTPUT">>][1]]
           pick(s) == CHOOSE x \in s : TRUE
           BodyOne(g) == [s \in SUBSET outs |-> IF s = {} THEN 0 ELSE G.nodes[pick(s)][1] + g[s \ {pick(s)}]]
           BodyTwo(g) == [s \in SUBSET outs |->
                             IF s = {} THEN 0
                             ELSE G.edges[<<CreatorTx(pick(s)), pick(s), "CREATES_OUTPUT">>][1] + g[s \ {pick(s)}]]
<1>2. AmountIn(G, outs) = (CHOOSE g : g = BodyOne(g))[outs]
  BY DEF AmountIn, MapThenSumSet, MapThenFoldSet
<1>3. CreatedAmount(G, outs) = (CHOOSE g : g = BodyTwo(g))[outs]
  BY DEF CreatedAmount, MapThenSumSet, MapThenFoldSet
<1>4. ASSUME NEW g PROVE BodyOne(g) = BodyTwo(g)
  <2>1. \A s \in SUBSET outs : s # {} => pick(s) \in outs OBVIOUS
  <2> HIDE DEF pick
  <2> QED BY <1>1, <2>1
<1> HIDE DEF BodyOne, BodyTwo
<1>5. \A g : g = BodyOne(g) <=> g = BodyTwo(g) BY <1>4
<1>6. (CHOOSE g : g = BodyOne(g)) = (CHOOSE g : g = BodyTwo(g)) BY <1>5
<1> QED BY <1>2, <1>3, <1>6
LEMMA KeysAre ==
    ASSUME NEW G, Follows(G), NEW out, out[1] = "out", NEW a, a[1] = "address", a # Null
    PROVE  KeyOf(G, out) = a <=> Locks(G, out, a)
<1>1. "out" # "address" OBVIOUS
<1>2. out # a BY <1>1
<1>3. Locked(G, out) = a <=> Locks(G, out, a) BY DEF Follows
<1> QED BY <1>2, <1>3 DEF KeyOf

(* An empty count of what lies beyond is nothing beyond.                    *)
LEMMA NoneCounted == ASSUME NEW S, IsFiniteSet(S) PROVE Cardinality(S) \in Nat /\ (Cardinality(S) = 0 <=> S = {})
BY FS_CardinalityType, FS_EmptySet

LEMMA SumIsZero == \A m, n \in Nat : m + n = 0 <=> m = 0 /\ n = 0
OBVIOUS

LEMMA FlowsMatch ==
    ASSUME NEW G, Shape(G), Follows(G), NEW tx, tx[1] = "tx", tx # Null, NEW a, a[1] = "address", a # Null
    PROVE  /\ Under(G, SpentIn(G, tx), a) = {out \in LockedTo(G, a) : SpenderOf(G, out) = tx}
           /\ Under(G, CreatedBy(G, tx), a) = {out \in LockedTo(G, a) : CreatorTx(out) = tx}
           /\ a \in DOMAIN TxFlow(G, tx).inputs <=> tx \in DOMAIN AddressFlow(G, a).outputs
           /\ a \in DOMAIN TxFlow(G, tx).outputs <=> tx \in DOMAIN AddressFlow(G, a).inputs
<1>1. \A out : Spends(G, out, tx) => out[1] = "out" BY DEF Shape, SpentOnce, Made
<1>2. \A out : Creates(G, tx, out) => out[1] = "out" BY DEF Shape, CreatedOnce, Made
<1>3. \A out : out[1] = "out" => (KeyOf(G, out) = a <=> Locks(G, out, a)) BY KeysAre
<1>4. \A out : Locks(G, out, a) => (CreatorTx(out) = tx <=> Creates(G, tx, out))
  <2>1. \A out : Locks(G, out, a) => Creates(G, CreatorTx(out), out) BY DEF Shape, LockedOnce, Made
  <2>2. \A out : Creates(G, tx, out) => tx = CreatorTx(out) BY DEF Shape, CreatedOnce
  <2> QED BY <2>1, <2>2
<1>5. \A out : out \in Under(G, SpentIn(G, tx), a) <=> Spends(G, out, tx) /\ Locks(G, out, a)
  BY <1>1, <1>3 DEF Under, Follows
<1>6. \A out : out \in {o \in LockedTo(G, a) : SpenderOf(G, o) = tx} <=> Spends(G, out, tx) /\ Locks(G, out, a)
  BY DEF Follows
<1>7. \A out : out \in Under(G, CreatedBy(G, tx), a) <=> Creates(G, tx, out) /\ Locks(G, out, a)
  BY <1>2, <1>3 DEF Under, Follows
<1>8. \A out : out \in {o \in LockedTo(G, a) : CreatorTx(o) = tx} <=> Creates(G, tx, out) /\ Locks(G, out, a)
  BY <1>4 DEF Follows
<1>9. a \in DOMAIN TxFlow(G, tx).inputs <=> \E out : Spends(G, out, tx) /\ Locks(G, out, a)
  <2>1. DOMAIN TxFlow(G, tx).inputs = {KeyOf(G, out) : out \in SpentIn(G, tx)} BY DEF TxFlow
  <2> QED BY <1>1, <1>3, <2>1 DEF Follows
<1>10. a \in DOMAIN TxFlow(G, tx).outputs <=> \E out : Creates(G, tx, out) /\ Locks(G, out, a)
  <2>1. DOMAIN TxFlow(G, tx).outputs = {KeyOf(G, out) : out \in CreatedBy(G, tx)} BY DEF TxFlow
  <2> QED BY <1>2, <1>3, <2>1 DEF Follows
<1>11. tx \in DOMAIN AddressFlow(G, a).outputs <=> \E out : Spends(G, out, tx) /\ Locks(G, out, a)
  <2>1. DOMAIN AddressFlow(G, a).outputs = {SpenderOf(G, out) : out \in LockedTo(G, a)} \ {Null} BY DEF AddressFlow
  <2> QED BY <1>6, <2>1
<1>12. tx \in DOMAIN AddressFlow(G, a).inputs <=> \E out : Creates(G, tx, out) /\ Locks(G, out, a)
  <2>1. DOMAIN AddressFlow(G, a).inputs = {CreatorTx(out) : out \in LockedTo(G, a)} BY DEF AddressFlow
  <2> QED BY <1>8, <2>1
<1>13. Under(G, SpentIn(G, tx), a) = {out \in LockedTo(G, a) : SpenderOf(G, out) = tx}
  <2> DEFINE x == Under(G, SpentIn(G, tx), a)
             y == {out \in LockedTo(G, a) : SpenderOf(G, out) = tx}
  <2>1. \A out : out \in x <=> out \in y BY <1>5, <1>6
  <2> HIDE DEF x, y
  <2>2. x = y BY <2>1
  <2> QED BY <2>2 DEF x, y
<1>14. Under(G, CreatedBy(G, tx), a) = {out \in LockedTo(G, a) : CreatorTx(out) = tx}
  <2> DEFINE x == Under(G, CreatedBy(G, tx), a)
             y == {out \in LockedTo(G, a) : CreatorTx(out) = tx}
  <2>1. \A out : out \in x <=> out \in y BY <1>7, <1>8
  <2> HIDE DEF x, y
  <2>2. x = y BY <2>1
  <2> QED BY <2>2 DEF x, y
<1> QED BY <1>9, <1>10, <1>11, <1>12, <1>13, <1>14

(* The source an entry was reached from is all that lies beyond it, or not. *)
LEMMA DeadEndsMatch ==
    ASSUME NEW G, Shape(G), Follows(G), NEW tx, tx[1] = "tx", tx # Null, NEW a, a[1] = "address", a # Null
    PROVE  /\ AddressOnward(G, a, tx) = 0
                  <=> (DOMAIN AddressFlow(G, a).inputs \cup DOMAIN AddressFlow(G, a).outputs) \ {tx} = {}
           /\ TxOnward(G, tx, a) = 0
                  <=> (DOMAIN TxFlow(G, tx).inputs \cup DOMAIN TxFlow(G, tx).outputs) \ {a} = {}
<1> DEFINE coins == LockedTo(G, a)
           near == UNION {{CreatorTx(out), SpenderOf(G, out)} : out \in coins}
           beyond == near \ {tx, Null}
           spent == {out \in SpentIn(G, tx) : Locked(G, out) # a}
           made == {out \in CreatedBy(G, tx) : Locked(G, out) # a}
<1>1. \A out \in coins : CreatorTx(out) # Null
  BY DEF Shape, LockedOnce, Made, Follows
<1>2. beyond = (DOMAIN AddressFlow(G, a).inputs \cup DOMAIN AddressFlow(G, a).outputs) \ {tx}
  <2>1. DOMAIN AddressFlow(G, a).inputs = {CreatorTx(out) : out \in coins} BY DEF AddressFlow
  <2>2. DOMAIN AddressFlow(G, a).outputs = {SpenderOf(G, out) : out \in coins} \ {Null} BY DEF AddressFlow
  <2> HIDE DEF coins
  <2> QED BY <1>1, <2>1, <2>2
<1>3. IsFiniteSet(beyond)
  <2> DEFINE f == [out \in coins |-> CreatorTx(out)]
             g == [out \in coins |-> SpenderOf(G, out)]
             X == {CreatorTx(out) : out \in coins}
             Y == {SpenderOf(G, out) : out \in coins}
  <2>1. f \in Surjection(coins, X) /\ g \in Surjection(coins, Y) BY DEF Surjection
  <2>2. IsFiniteSet(coins) BY FlowIsFinite
  <2>3. beyond \subseteq X \cup Y OBVIOUS
  <2> HIDE DEF f, g, X, Y, coins, beyond
  <2>4. IsFiniteSet(X) /\ IsFiniteSet(Y) BY <2>1, <2>2, FS_Surjection
  <2>5. IsFiniteSet(X \cup Y) BY <2>4, FS_Union
  <2> QED BY <2>3, <2>5, FS_Subset
<1>4. AddressOnward(G, a, tx) = Cardinality(beyond) BY DEF AddressOnward
<1>5. TxOnward(G, tx, a) = Cardinality(spent) + Cardinality(made) BY DEF TxOnward
<1>6. IsFiniteSet(spent) /\ IsFiniteSet(made)
  <2>1. IsFiniteSet(SpentIn(G, tx)) /\ IsFiniteSet(CreatedBy(G, tx)) BY FlowIsFinite
  <2>2. spent \subseteq SpentIn(G, tx) /\ made \subseteq CreatedBy(G, tx) OBVIOUS
  <2> HIDE DEF spent, made
  <2> QED BY <2>1, <2>2, FS_Subset
<1>7. spent = {} /\ made = {} <=> (DOMAIN TxFlow(G, tx).inputs \cup DOMAIN TxFlow(G, tx).outputs) \ {a} = {}
  <2>1. DOMAIN TxFlow(G, tx).inputs = {KeyOf(G, out) : out \in SpentIn(G, tx)} BY DEF TxFlow
  <2>2. DOMAIN TxFlow(G, tx).outputs = {KeyOf(G, out) : out \in CreatedBy(G, tx)} BY DEF TxFlow
  <2>3. \A out \in SpentIn(G, tx) : out[1] = "out" BY DEF Follows, Shape, SpentOnce, Made
  <2>4. \A out \in CreatedBy(G, tx) : out[1] = "out" BY DEF Follows, Shape, CreatedOnce, Made
  <2>5. \A out : out[1] = "out" => (KeyOf(G, out) = a <=> Locked(G, out) = a)
    <3>1. \A out : out[1] = "out" => (KeyOf(G, out) = a <=> Locks(G, out, a)) BY KeysAre
    <3> QED BY <3>1 DEF Follows
  <2> QED BY <2>1, <2>2, <2>3, <2>4, <2>5
<1> HIDE DEF coins, near, beyond, spent, made
<1>8. Cardinality(beyond) = 0 <=> beyond = {} BY <1>3, NoneCounted
<1>9. /\ Cardinality(spent) \in Nat /\ (Cardinality(spent) = 0 <=> spent = {})
      /\ Cardinality(made) \in Nat /\ (Cardinality(made) = 0 <=> made = {})
  BY <1>6, NoneCounted
<1>10. TxOnward(G, tx, a) = 0 <=> spent = {} /\ made = {} BY <1>5, <1>9, SumIsZero
<1> QED BY <1>2, <1>4, <1>7, <1>8, <1>10

LEMMA MutualHolds ==
    ASSUME NEW G, Shape(G), Follows(G), NEW tx, tx[1] = "tx", tx # Null, NEW a, a[1] = "address", a # Null
    PROVE  Mutual(G, tx, a)
<1> DEFINE T == TxFlow(G, tx)
           A == AddressFlow(G, a)
           in == Under(G, SpentIn(G, tx), a)
           out == Under(G, CreatedBy(G, tx), a)
<1>0. a[1] # "out" OBVIOUS
<1>1. a \in DOMAIN T.inputs =>
         T.inputs[a].amount = AmountIn(G, in) /\ T.inputs[a].utxos = Cardinality(in)
         /\ T.inputs[a].onward = AddressOnward(G, a, tx)
  BY <1>0 DEF TxFlow, InputEntry
<1>2. a \in DOMAIN T.outputs =>
         T.outputs[a].amount = CreatedAmount(G, out) /\ T.outputs[a].utxos = Cardinality(out)
         /\ T.outputs[a].onward = AddressOnward(G, a, tx)
  BY <1>0 DEF TxFlow, OutputEntry
<1>3. tx \in DOMAIN A.outputs => A.outputs[tx] = LegEntry(G, a, tx, {o \in LockedTo(G, a) : SpenderOf(G, o) = tx})
  BY DEF AddressFlow
<1>4. tx \in DOMAIN A.inputs => A.inputs[tx] = LegEntry(G, a, tx, {o \in LockedTo(G, a) : CreatorTx(o) = tx})
  BY DEF AddressFlow
<1>5. /\ in = {o \in LockedTo(G, a) : SpenderOf(G, o) = tx}
      /\ out = {o \in LockedTo(G, a) : CreatorTx(o) = tx}
      /\ a \in DOMAIN T.inputs <=> tx \in DOMAIN A.outputs
      /\ a \in DOMAIN T.outputs <=> tx \in DOMAIN A.inputs
  BY FlowsMatch
<1>6. CreatedAmount(G, out) = AmountIn(G, out)
  <2>1. \A o \in LockedTo(G, a) : Made(G, o) BY DEF Follows, Shape, LockedOnce
  <2>2. \A o \in out : Made(G, o) BY <1>5, <2>1
  <2> HIDE DEF out
  <2> QED BY <2>2, AmountsAgree
<1>7. /\ AddressOnward(G, a, tx) = 0 <=> (DOMAIN A.inputs \cup DOMAIN A.outputs) \ {tx} = {}
      /\ TxOnward(G, tx, a) = 0 <=> (DOMAIN T.inputs \cup DOMAIN T.outputs) \ {a} = {}
  BY DeadEndsMatch
<1>8. tx \in DOMAIN A.outputs =>
         A.outputs[tx].amount = AmountIn(G, in) /\ A.outputs[tx].utxos = Cardinality(in)
         /\ A.outputs[tx].onward = TxOnward(G, tx, a)
  <2> HIDE DEF in, A
  <2> QED BY <1>3, <1>5 DEF LegEntry
<1>9. tx \in DOMAIN A.inputs =>
         A.inputs[tx].amount = AmountIn(G, out) /\ A.inputs[tx].utxos = Cardinality(out)
         /\ A.inputs[tx].onward = TxOnward(G, tx, a)
  <2> HIDE DEF out, A
  <2> QED BY <1>4, <1>5 DEF LegEntry
<1>10. Mutual(G, tx, a) <=>
       /\ a \in DOMAIN T.inputs <=> tx \in DOMAIN A.outputs
       /\ a \in DOMAIN T.outputs <=> tx \in DOMAIN A.inputs
       /\ a \in DOMAIN T.inputs =>
              /\ Same(T.inputs[a], A.outputs[tx])
              /\ T.inputs[a].onward = 0 <=> (DOMAIN A.inputs \cup DOMAIN A.outputs) \ {tx} = {}
              /\ A.outputs[tx].onward = 0 <=> (DOMAIN T.inputs \cup DOMAIN T.outputs) \ {a} = {}
       /\ a \in DOMAIN T.outputs =>
              /\ Same(T.outputs[a], A.inputs[tx])
              /\ T.outputs[a].onward = 0 <=> (DOMAIN A.inputs \cup DOMAIN A.outputs) \ {tx} = {}
              /\ A.inputs[tx].onward = 0 <=> (DOMAIN T.inputs \cup DOMAIN T.outputs) \ {a} = {}
  BY Zenon DEF Mutual
<1> HIDE DEF T, A, in, out
<1> QED BY <1>1, <1>2, <1>5, <1>6, <1>7, <1>8, <1>9, <1>10 DEF Same
FlowsOf(G) ==
    LET ids(kind) == {id \in DOMAIN G.nodes : id[1] = kind}
    IN /\ \A tx \in ids("tx"), a \in ids("address") : Mutual(G, tx, a)
       /\ \A out \in ids("out") : \E key \in DOMAIN Flow(G, out).inputs \cup DOMAIN Flow(G, out).outputs :
              key \in {CreatorTx(out), KeyOf(G, out)}

LEMMA OutputsAreShown ==
    ASSUME NEW G, Shape(G), Follows(G), NEW out, Made(G, out)
    PROVE  \E key \in DOMAIN Flow(G, out).inputs \cup DOMAIN Flow(G, out).outputs :
               key \in {CreatorTx(out), KeyOf(G, out)}
<1>0. out[1] = "out" BY DEF Made
<1>1. CASE Locked(G, out) # Null
  <2>1. PICK a : a = Locked(G, out) OBVIOUS
  <2>2. Locks(G, out, a) BY <1>1, <2>1 DEF Follows
  <2>3. a[1] = "address" BY <2>2 DEF Shape, LockedOnce
  <2>4. Centre(G, out) = a BY <1>0, <1>1, <2>1 DEF Centre
  <2>5. Flow(G, out) = AddressFlow(G, a) BY <2>3, <2>4 DEF Flow
  <2>6. out \in LockedTo(G, a) BY <2>2 DEF Follows
  <2>7. CreatorTx(out) \in DOMAIN AddressFlow(G, a).inputs BY <2>6 DEF AddressFlow
  <2> QED BY <2>5, <2>7
<1>2. CASE Locked(G, out) = Null
  <2>1. Centre(G, out) = CreatorTx(out) BY <1>0, <1>2 DEF Centre
  <2>2. CreatorTx(out)[1] = "tx" BY DEF CreatorTx, TxNode
  <2>3. Flow(G, out) = TxFlow(G, CreatorTx(out)) BY <2>1, <2>2 DEF Flow
  <2>4. out \in CreatedBy(G, CreatorTx(out)) BY DEF Follows, Made
  <2>5. KeyOf(G, out) \in DOMAIN TxFlow(G, CreatorTx(out)).outputs BY <2>4 DEF TxFlow
  <2> QED BY <2>3, <2>5
<1> QED BY <1>1, <1>2

LEMMA FlowsOfGraph == ASSUME NEW G, Shape(G), Null \notin DOMAIN G.nodes PROVE FlowsOf(G)
<1>1. Follows(G) BY FlowFollows
<1>2. \A tx, a : tx \in DOMAIN G.nodes /\ tx[1] = "tx" /\ a \in DOMAIN G.nodes /\ a[1] = "address" => Mutual(G, tx, a)
  BY <1>1, MutualHolds
<1>3. \A out \in DOMAIN G.nodes : out[1] = "out" => Made(G, out) BY DEF Shape
<1>4. \A out \in DOMAIN G.nodes : out[1] = "out" =>
          \E key \in DOMAIN Flow(G, out).inputs \cup DOMAIN Flow(G, out).outputs :
              key \in {CreatorTx(out), KeyOf(G, out)}
  BY <1>1, <1>3, OutputsAreShown
<1> QED BY Zenon, <1>2, <1>4 DEF FlowsOf

-----------------------------------------------------------------------------
(* FindingsReading: the published graphs are those of the case's evidence.  *)

GraphOf(i) == MemoryGraph(FactsOf(Ledgers[i]))
Published == \E n \in DOMAIN Ledgers : graphs = [i \in 1 .. n |-> GraphOf(i)]

LEMMA LedgersAreEvidence ==
    /\ Len(Ledgers) \in Nat \ {0} /\ DOMAIN Ledgers = 1 .. Len(Ledgers)
    /\ \A i \in DOMAIN Ledgers : IsEvidence(Ledgers[i])
<1>1. Listing(Ledgers) /\ Ledgers # << >> BY LedgersAssumption
<1>2. Len(Ledgers) \in Nat /\ DOMAIN Ledgers = 1 .. Len(Ledgers) BY <1>1, ListingIs
<1>3. Len(Ledgers) # 0
  <2>1. Ledgers \in Seq(Range(Ledgers)) BY <1>1 DEF Listing
  <2> QED BY <1>1, <2>1, EmptySeq
<1>4. \A i \in DOMAIN Ledgers : IsEvidence(Ledgers[i]) BY LedgersAssumption DEF IsEvidence
<1> QED BY <1>2, <1>3, <1>4

LEMMA GraphsArePublished == CaseSpec => []Published
<1>1. CaseInit => Published
  <2> SUFFICES ASSUME CaseInit PROVE Published OBVIOUS
  <2>1. graphs = <<GraphOf(1)>> BY DEF CaseInit, Init, ReadingInit, GraphOf
  <2>2. 1 \in DOMAIN Ledgers BY LedgersAreEvidence
  <2>3. <<GraphOf(1)>> = [i \in 1 .. 1 |-> GraphOf(i)]
    <3>1. \A i \in 1 .. 1 : i = 1 OBVIOUS
    <3> DEFINE s == [i \in 1 .. 1 |-> GraphOf(i)]
    <3>2. s = [i \in 1 .. 1 |-> GraphOf(1)] BY <3>1
    <3> HIDE DEF s
    <3> QED BY <3>2 DEF s
  <2> QED BY <2>1, <2>2, <2>3 DEF Published
<1>2. Published /\ [CaseNext]_allVars => Published'
  <2> SUFFICES ASSUME Published, [CaseNext]_allVars PROVE Published' OBVIOUS
  <2>1. CASE UNCHANGED graphs BY <2>1 DEF Published, GraphOf
  <2>2. CASE PublishNext
    <3>1. PICK n \in DOMAIN Ledgers : graphs = [i \in 1 .. n |-> GraphOf(i)] BY DEF Published
    <3>2. n \in Nat BY LedgersAreEvidence
    <3>3. Len(graphs) = n BY <3>1, <3>2, ListingOf
    <3>4. n + 1 \in DOMAIN Ledgers BY <2>2, <3>2, <3>3, LedgersAreEvidence DEF PublishNext
    <3>5. graphs' = Append(graphs, GraphOf(n + 1)) BY <2>2, <3>3 DEF PublishNext, GraphOf
    <3>6. Append(graphs, GraphOf(n + 1)) = [i \in 1 .. n + 1 |-> GraphOf(i)]
      BY <3>1, <3>2, <3>3
    <3>7. graphs' = [i \in 1 .. n + 1 |-> GraphOf(i)] BY <3>5, <3>6
    <3> QED BY <3>4, <3>7 DEF Published, GraphOf
  <2>3. PublishNext \/ UNCHANGED graphs
    BY DEF CaseNext, allVars, vars, Next, Mount, Load, Reset, Answer, Receive, Lose
  <2> QED BY <2>1, <2>2, <2>3
<1> QED BY <1>1, <1>2, PTL DEF CaseSpec

(* Following the funds is consistent in both directions, in the graph of    *)
(* any evidence: from a transaction to an address and back, an entry names  *)
(* the same coins and the same amount, and one shown as a dead end has      *)
(* nothing beyond it (engine/graph/query.py query_flow over what            *)
(* graph/builder.py _build makes of the rows).                              *)
THEOREM FlowsAreMutual == CaseSpec => []FlowIsMutual
<1>1. Published => FlowIsMutual
  <2> SUFFICES ASSUME Published, NEW i \in DOMAIN graphs PROVE FlowsOf(graphs[i])
    BY Zenon DEF FlowIsMutual, FlowsOf
  <2>1. PICK n \in DOMAIN Ledgers : graphs = [j \in 1 .. n |-> GraphOf(j)] BY DEF Published
  <2>2. i \in 1 .. n BY <2>1
  <2>3. i \in DOMAIN Ledgers BY <2>2, LedgersAreEvidence
  <2>4. graphs[i] = MemoryGraph(FactsOf(Ledgers[i])) BY <2>1, <2>2 DEF GraphOf
  <2>5. FactLists(FactsOf(Ledgers[i])) BY <2>3, LedgersAreEvidence, FactsAreLists
  <2>6. Shape(graphs[i]) BY <2>4, <2>5, GraphsAreShaped
  <2>7. Null \notin DOMAIN graphs[i].nodes
    <3>1. DOMAIN graphs[i].nodes \subseteq Seeds BY <2>3, <2>4 DEF Seeds
    <3> QED BY <3>1, NullAssumption
  <2> QED BY <2>6, <2>7, FlowsOfGraph
<1> QED BY <1>1, GraphsArePublished, PTL
-----------------------------------------------------------------------------
(* Facts: a set in the order of a relation.                                 *)

IsOrder(S, R) ==
    /\ \A a \in S : <<a, a>> \notin R
    /\ \A a, b \in S : a = b \/ <<a, b>> \in R \/ <<b, a>> \in R
    /\ \A a, b, c \in S : <<a, b>> \in R /\ <<b, c>> \in R => <<a, c>> \in R

Below(S, R, x) == {y \in S : <<y, x>> \in R}
RankIn(S, R, x) == Cardinality(Below(S, R, x))
InOrder(S, R) == [k \in 1 .. Cardinality(S) |-> CHOOSE x \in S : RankIn(S, R, x) = k - 1]

LEMMA RankCounts ==
    ASSUME NEW S, IsFiniteSet(S), NEW R, IsOrder(S, R), NEW x \in S
    PROVE  /\ RankIn(S, R, x) \in 0 .. Cardinality(S) - 1 /\ IsFiniteSet(Below(S, R, x))
           /\ \A y \in S : <<x, y>> \in R => RankIn(S, R, x) < RankIn(S, R, y)
<1>1. Cardinality(S) \in Nat BY FS_CardinalityType
<1>2. ASSUME NEW y \in S PROVE IsFiniteSet(Below(S, R, y)) /\ RankIn(S, R, y) \in Nat
  BY FS_Subset, FS_CardinalityType DEF Below, RankIn
<1>3. Below(S, R, x) \in SUBSET S /\ x \notin Below(S, R, x) BY DEF Below, IsOrder
<1>4. RankIn(S, R, x) < Cardinality(S)
  <2>1. Below(S, R, x) # S BY <1>3
  <2> QED BY <1>1, <1>2, <1>3, <2>1, FS_Subset DEF RankIn
<1>5. ASSUME NEW y \in S, <<x, y>> \in R PROVE RankIn(S, R, x) < RankIn(S, R, y)
  <2>1. Below(S, R, x) \in SUBSET Below(S, R, y) BY <1>5 DEF Below, IsOrder
  <2>2. x \in Below(S, R, y) BY <1>5 DEF Below
  <2>3. Below(S, R, x) # Below(S, R, y) BY <1>3, <2>2
  <2> QED BY <1>2, <2>1, <2>3, FS_Subset DEF RankIn
<1> QED BY <1>1, <1>2, <1>4, <1>5

\* A list of the set in that order: each member at the place of its rank.
OrderedList(s, S, R) ==
    /\ s = [i \in 1 .. Cardinality(S) |-> s[i]] /\ Cardinality(S) \in Nat
    /\ Listing(s) /\ Len(s) = Cardinality(S) /\ Range(s) = S
    /\ \A i \in 1 .. Cardinality(S) : s[i] \in S /\ RankIn(S, R, s[i]) = i - 1
    /\ \A x \in S : RankIn(S, R, x) + 1 \in 1 .. Cardinality(S) /\ s[RankIn(S, R, x) + 1] = x
    /\ \A i, j \in 1 .. Cardinality(S) : i < j <=> <<s[i], s[j]>> \in R

LEMMA InOrderIs ==
    ASSUME NEW S, IsFiniteSet(S), NEW R, IsOrder(S, R)
    PROVE  OrderedList(InOrder(S, R), S, R)
<1> DEFINE n == Cardinality(S)
           count == [x \in S |-> RankIn(S, R, x)]
           s == InOrder(S, R)
<1>1. n \in Nat BY FS_CardinalityType
<1>2. \A x \in S : count[x] \in 0 .. n - 1 BY RankCounts
<1>3. ASSUME NEW x \in S, NEW y \in S, RankIn(S, R, x) = RankIn(S, R, y) PROVE x = y
  <2>1. <<x, y>> \in R => RankIn(S, R, x) < RankIn(S, R, y) BY RankCounts
  <2>2. <<y, x>> \in R => RankIn(S, R, y) < RankIn(S, R, x) BY RankCounts
  <2>3. RankIn(S, R, x) \in Int BY <1>1, RankCounts
  <2>4. <<x, y>> \notin R /\ <<y, x>> \notin R BY <1>3, <2>1, <2>2, <2>3
  <2> QED BY <2>4 DEF IsOrder
<1>4. count \in Injection(S, 0 .. n - 1) BY <1>2, <1>3 DEF Injection, IsInjective
<1>5. IsFiniteSet(0 .. n - 1) /\ Cardinality(0 .. n - 1) = n
  <2> HIDE DEF n
  <2>1. 0 \in Int /\ n - 1 \in Int BY <1>1
  <2>2. IsFiniteSet(0 .. n - 1) /\ Cardinality(0 .. n - 1) = IF 0 > n - 1 THEN 0 ELSE n - 1 - 0 + 1
    BY <2>1, FS_Interval
  <2> QED BY <1>1, <2>2
<1>6. count \in Surjection(S, 0 .. n - 1)
  <2> HIDE DEF count
  <2>1. Cardinality(S) = Cardinality(0 .. n - 1) BY <1>5
  <2> HIDE DEF n
  <2> QED BY <1>4, <1>5, <2>1, FS_Injection
<1>7. ASSUME NEW i \in 1 .. n PROVE s[i] \in S /\ RankIn(S, R, s[i]) = i - 1
  <2>1. i - 1 \in 0 .. n - 1 BY <1>1
  <2>2. \E x \in S : RankIn(S, R, x) = i - 1
    <3>1. PICK x \in S : count[x] = i - 1
      <4> HIDE DEF count
      <4> QED BY <1>6, <2>1 DEF Surjection
    <3> QED BY <3>1
  <2>3. s[i] = CHOOSE x \in S : RankIn(S, R, x) = i - 1 BY DEF InOrder
  <2> QED BY <2>2, <2>3
<1>8. s = [i \in 1 .. n |-> s[i]] BY DEF InOrder
<1>9. ASSUME NEW x \in S PROVE RankIn(S, R, x) + 1 \in 1 .. n /\ s[RankIn(S, R, x) + 1] = x
  <2>1. RankIn(S, R, x) \in 0 .. n - 1 BY RankCounts
  <2> HIDE DEF s, n
  <2>2. PICK i \in 1 .. n : i = RankIn(S, R, x) + 1 BY <1>1, <2>1
  <2>3. s[i] \in S /\ RankIn(S, R, s[i]) = i - 1 BY <1>7
  <2>4. i - 1 = RankIn(S, R, x) BY <1>1, <2>1, <2>2
  <2>5. s[i] = x BY <1>3, <2>3, <2>4
  <2> QED BY <2>2, <2>5
<1>10. ASSUME NEW i \in 1 .. n, NEW j \in 1 .. n PROVE i < j <=> <<s[i], s[j]>> \in R
  <2> HIDE DEF s
  <2>1. s[i] \in S /\ RankIn(S, R, s[i]) = i - 1 /\ s[j] \in S /\ RankIn(S, R, s[j]) = j - 1 BY <1>7
  <2>2. <<s[i], s[j]>> \in R => RankIn(S, R, s[i]) < RankIn(S, R, s[j]) BY <2>1, RankCounts
  <2>3. <<s[j], s[i]>> \in R => RankIn(S, R, s[j]) < RankIn(S, R, s[i]) BY <2>1, RankCounts
  <2>4. i \in Int /\ j \in Int BY <1>1
  <2>5. i < j => <<s[i], s[j]>> \in R
    <3> SUFFICES ASSUME i < j PROVE <<s[i], s[j]>> \in R OBVIOUS
    <3>1. <<s[j], s[i]>> \notin R BY <2>1, <2>3, <2>4
    <3>2. s[i] # s[j] BY <2>1, <2>4
    <3> QED BY <2>1, <3>1, <3>2 DEF IsOrder
  <2> QED BY <2>1, <2>2, <2>4, <2>5
<1> HIDE DEF s
<1>11. Listing(s) /\ Len(s) = n
  <2> HIDE DEF n
  <2> QED BY <1>1, <1>8, ListingOf
<1>12. Range(s) = S
  <2>1. DOMAIN s = 1 .. n BY <1>8
  <2> HIDE DEF n
  <2>2. \A x \in S : x \in Range(s) BY <1>9, <2>1 DEF Range
  <2>3. \A x \in Range(s) : x \in S BY <1>7, <2>1 DEF Range
  <2> QED BY <2>2, <2>3
<1>13. \A i, j \in 1 .. n : i < j <=> <<s[i], s[j]>> \in R BY <1>10
<1>14. OrderedList(s, S, R) BY Zenon, <1>1, <1>7, <1>8, <1>9, <1>11, <1>12, <1>13 DEF OrderedList
<1> QED BY <1>14 DEF s

\* Numbers in their order.
LessThan(S) == {p \in S \X S : p[1] < p[2]}

Increasing(S) == Sorted(S, <)

LEMMA NumbersAreOrdered ==
    ASSUME NEW S, IsFiniteSet(S), S \subseteq Nat
    PROVE  /\ OrderedList(Increasing(S), S, LessThan(S))
           /\ \A a, b \in S : <<a, b>> \in LessThan(S) <=> a < b
<1>1. \A a, b \in S : <<a, b>> \in LessThan(S) <=> a < b BY DEF LessThan
<1>2. IsOrder(S, LessThan(S)) BY <1>1 DEF IsOrder
<1>3. Increasing(S) = InOrder(S, LessThan(S))
  <2>1. ASSUME NEW x \in S PROVE {y \in S : y < x} = Below(S, LessThan(S), x) BY <1>1 DEF Below
  <2>2. ASSUME NEW k PROVE (CHOOSE x \in S : Cardinality({y \in S : y < x}) = k - 1)
                            = CHOOSE x \in S : RankIn(S, LessThan(S), x) = k - 1
    <3>1. \A x \in S : Cardinality({y \in S : y < x}) = k - 1 <=> RankIn(S, LessThan(S), x) = k - 1
      BY <2>1 DEF RankIn
    <3> QED BY <3>1
  <2> QED BY <2>2 DEF Increasing, Sorted, InOrder
<1>4. OrderedList(InOrder(S, LessThan(S)), S, LessThan(S)) BY <1>2, InOrderIs
<1> QED BY <1>1, <1>3, <1>4
-----------------------------------------------------------------------------
(* Pages of a list.                                                         *)

LEMMA LesserOfTwo ==
    ASSUME NEW a \in Int, NEW b \in Int
    PROVE  /\ Min({a, b}) \in Int /\ Min({a, b}) <= a /\ Min({a, b}) <= b
           /\ Min({a, b}) = a \/ Min({a, b}) = b
<1>1. \E x \in {a, b} : \A y \in {a, b} : x <= y
  <2>1. CASE a <= b BY <2>1
  <2>2. CASE ~(a <= b) BY <2>2
  <2> QED BY <2>1, <2>2
<1>2. Min({a, b}) \in {a, b} /\ \A y \in {a, b} : Min({a, b}) <= y BY <1>1 DEF Min
<1> QED BY <1>2

\* Entries offset + 1 .. offset + n of the rows, n at most the limit.
PageOf(page, rows, offset, limit, n) ==
    /\ page = [i \in 1 .. n |-> rows[offset + i]] /\ Listing(page) /\ Len(page) = n
    /\ n \in 0 .. limit /\ (offset <= Len(rows) => offset + n <= Len(rows)) /\ (n < limit => Len(rows) <= offset + n)
    /\ \A i \in 1 .. n : offset + i \in 1 .. Len(rows)
    /\ \A x : x \in Range(page) <=> \E i \in 1 .. Len(rows) : offset < i /\ i <= offset + limit /\ x = rows[i]

LEMMA PageIs ==
    ASSUME NEW rows, Listing(rows), NEW offset \in Nat, NEW limit \in Nat
    PROVE  \E n \in Nat : PageOf(Page(rows, offset, limit), rows, offset, limit, n)
<1> DEFINE l == Len(rows)
           m == Min({offset + limit, l})
           n == IF m >= offset THEN m - offset ELSE 0
           page == Page(rows, offset, limit)
<1>1. l \in Nat /\ rows \in Seq(Range(rows)) BY ListingIs DEF Listing
<1>2. m \in Int /\ m <= offset + limit /\ m <= l /\ (m = offset + limit \/ m = l)
  <2>1. PICK e \in Int : e = offset + limit OBVIOUS
  <2>2. l \in Int BY <1>1
  <2> HIDE DEF l
  <2>3. m = Min({e, l}) BY <2>1
  <2> HIDE DEF m
  <2> QED BY <2>1, <2>2, <2>3, LesserOfTwo
<1>3. page = SubSeq(rows, offset + 1, m) BY DEF Page
<1> HIDE DEF m, l
<1>4. n \in Nat /\ n <= limit /\ (offset <= l => offset + n <= l) /\ (n < limit => l <= offset + n)
      /\ \A i \in 1 .. n : offset + i \in 1 .. l
  BY <1>1, <1>2
<1>5. page = [i \in 1 .. n |-> rows[offset + i]]
  <2> DEFINE A == Range(rows)
  <2>1. PICK f \in Int : f = offset + 1 OBVIOUS
  <2>2. \A i \in f .. m : rows[i] \in A
    <3>1. \A i \in f .. m : i \in 1 .. l BY <1>1, <1>2, <2>1
    <3> QED BY <1>1, <3>1, ListingIs DEF l
  <2>3. page = SubSeq(rows, f, m) BY <1>3, <2>1
  <2> HIDE DEF A, page
  <2>4. /\ page \in Seq(A) /\ Len(page) = IF f <= m THEN m - f + 1 ELSE 0
        /\ \A i \in 1 .. m - f + 1 : page[i] = rows[f + i - 1]
    BY <1>2, <2>2, <2>3, SubSeqProperties
  <2>5. Len(page) = n BY <1>1, <1>2, <2>1, <2>4
  <2>6. page = [i \in 1 .. n |-> page[i]]
    <3> HIDE DEF n
    <3> QED BY <2>4, <2>5, LenProperties
  <2>7. \A i \in 1 .. n : i \in 1 .. m - f + 1 /\ f + i - 1 = offset + i BY <1>2, <2>1
  <2> HIDE DEF n
  <2>8. \A i \in 1 .. n : page[i] = rows[offset + i] BY <2>4, <2>7
  <2> QED BY <2>6, <2>8
<1> HIDE DEF page
<1>6. page = [i \in 1 .. n |-> page[i]] BY <1>5
<1>7. Listing(page) /\ Len(page) = n
  <2> HIDE DEF n
  <2> QED BY <1>4, <1>6, ListingOf
<1>8. ASSUME NEW x
      PROVE  x \in Range(page) <=> \E i \in 1 .. l : offset < i /\ i <= offset + limit /\ x = rows[i]
  <2>1. ASSUME x \in Range(page) PROVE \E i \in 1 .. l : offset < i /\ i <= offset + limit /\ x = rows[i]
    <3> HIDE DEF n
    <3>1. PICK j \in 1 .. n : x = page[j] BY <1>5, <2>1 DEF Range
    <3>2. x = rows[offset + j] BY <1>5, <3>1
    <3>3. offset + j \in 1 .. l /\ offset < offset + j /\ offset + j <= offset + limit BY <1>4
    <3> QED BY <3>2, <3>3
  <2>2. ASSUME NEW i \in 1 .. l, offset < i, i <= offset + limit PROVE rows[i] \in Range(page)
    <3>1. i - offset \in 1 .. n /\ offset + (i - offset) = i BY <1>1, <1>2, <2>2
    <3> HIDE DEF n
    <3>2. PICK j \in 1 .. n : offset + j = i BY <3>1
    <3>3. page[j] = rows[i] /\ j \in DOMAIN page BY <1>5, <3>2
    <3> QED BY <3>3 DEF Range
  <2> QED BY <2>1, <2>2
<1> HIDE DEF n
<1>9. n \in 0 .. limit BY <1>4
<1>10. PageOf(page, rows, offset, limit, n) BY Zenon, <1>4, <1>5, <1>7, <1>8, <1>9 DEF PageOf, l
<1> QED BY <1>4, <1>10 DEF page

-----------------------------------------------------------------------------
(* FindingsReading: findings, decisions and feature files only add up.      *)

Statuses == Dispositions \cup {"open"}
Marks == [version : Nat \ {0}, status : Statuses]

MarksInv ==
    /\ DOMAIN findings \subseteq Findings
    /\ findings \in [DOMAIN findings -> Marks] /\ reviews \in [DOMAIN findings -> Seq(Dispositions)]
    /\ \A id \in DOMAIN findings :
           /\ findings[id].version = Len(reviews[id]) + 1
           /\ findings[id].status = IF findings[id].version = 1 THEN "open" ELSE reviews[id][findings[id].version - 1]
    /\ files \subseteq DOMAIN FileRows

IsPrefix0(s, t) == Len(s) <= Len(t) /\ \A i \in 1 .. Len(s) : s[i] = t[i]

Grows ==
    /\ DOMAIN findings \subseteq DOMAIN findings' /\ files \subseteq files'
    /\ \A id \in DOMAIN findings : IsPrefix0(reviews[id], reviews'[id])

LEMMA MarksGrow == MarksInv /\ [CaseNext]_allVars => MarksInv' /\ Grows
<1> SUFFICES ASSUME MarksInv, [CaseNext]_allVars PROVE MarksInv' /\ Grows
  OBVIOUS
<1>0. \A id \in DOMAIN findings : reviews[id] \in Seq(Dispositions) /\ Len(reviews[id]) \in Nat BY DEF MarksInv
<1>1. CASE UNCHANGED <<findings, reviews, files>>
  <2>1. MarksInv' BY <1>1 DEF MarksInv
  <2>2. Grows BY <1>0, <1>1 DEF Grows, IsPrefix0
  <2> QED BY <2>1, <2>2
<1>2. ASSUME NEW new \in SUBSET Findings, StoreFindings(new) PROVE MarksInv' /\ Grows
  <2> DEFINE open == [version |-> 1, status |-> "open"]
  <2>0. \A id \in DOMAIN findings : id \notin new BY <1>2 DEF StoreFindings
  <2>1. findings' = [id \in DOMAIN findings \cup new |-> IF id \in new THEN open ELSE findings[id]]
    BY <1>2 DEF StoreFindings
  <2>2. reviews' = [id \in DOMAIN findings \cup new |-> IF id \in new THEN << >> ELSE reviews[id]]
    BY <1>2 DEF StoreFindings
  <2>3. files' = files BY <1>2 DEF StoreFindings
  <2>4. DOMAIN findings' = DOMAIN findings \cup new BY <2>1
  <2>5. open \in Marks /\ open.version = 1 /\ open.status = "open" BY DEF Marks, Statuses
  <2> HIDE DEF open
  <2>6. findings' \in [DOMAIN findings' -> Marks] BY <2>1, <2>4, <2>5 DEF MarksInv
  <2>7. reviews' \in [DOMAIN findings' -> Seq(Dispositions)]
    <3>1. << >> \in Seq(Dispositions) OBVIOUS
    <3> QED BY <2>2, <2>4, <3>1, <1>0
  <2>8. ASSUME NEW id \in DOMAIN findings'
        PROVE  /\ findings'[id].version = Len(reviews'[id]) + 1
               /\ findings'[id].status = IF findings'[id].version = 1 THEN "open" ELSE reviews'[id][findings'[id].version - 1]
    <3>1. CASE id \in DOMAIN findings
      <4>1. findings'[id] = findings[id] /\ reviews'[id] = reviews[id] BY <2>0, <2>1, <2>2, <2>4, <3>1
      <4> QED BY <3>1, <4>1 DEF MarksInv
    <3>2. CASE id \notin DOMAIN findings
      <4>1. findings'[id] = open /\ reviews'[id] = << >> BY <2>1, <2>2, <2>4, <3>2
      <4> QED BY <2>5, <4>1
    <3> QED BY <3>1, <3>2
  <2>9. MarksInv' BY <2>3, <2>4, <2>6, <2>7, <2>8 DEF MarksInv
  <2>10. Grows
    <3>1. \A id \in DOMAIN findings : reviews'[id] = reviews[id] BY <2>0, <2>2
    <3> QED BY <1>0, <2>3, <2>4, <3>1 DEF Grows, IsPrefix0
  <2> QED BY <2>9, <2>10
<1>3. ASSUME NEW snapshot \in DOMAIN FileRows, StoreFeatures(snapshot) PROVE MarksInv' /\ Grows
  <2>1. MarksInv' BY <1>3 DEF StoreFeatures, MarksInv
  <2>2. Grows BY <1>0, <1>3 DEF StoreFeatures, Grows, IsPrefix0
  <2> QED BY <2>1, <2>2
<1>4. ASSUME NEW id \in DOMAIN findings, NEW disposition \in Dispositions, Decide(id, disposition)
      PROVE  MarksInv' /\ Grows
  <2> DEFINE old == findings[id]
             mark == [version |-> old.version + 1, status |-> disposition]
             told == Append(reviews[id], disposition)
  <2>1. findings' = [findings EXCEPT ![id] = mark] /\ files' = files BY <1>4 DEF Decide
  <2>2. reviews' = [reviews EXCEPT ![id] = told] BY <1>4 DEF Decide
  <2>3. old \in Marks /\ old.version = Len(reviews[id]) + 1 BY DEF MarksInv
  <2>4. mark \in Marks /\ mark.version = old.version + 1 /\ mark.status = disposition BY <2>3 DEF Marks, Statuses
  <2>5. told \in Seq(Dispositions) /\ Len(told) = Len(reviews[id]) + 1 /\ told[Len(reviews[id]) + 1] = disposition
        /\ \A i \in 1 .. Len(reviews[id]) : told[i] = reviews[id][i]
    BY <1>0
  <2> HIDE DEF mark, told
  <2>6. DOMAIN findings' = DOMAIN findings BY <2>1
  <2>7. \A o \in DOMAIN findings : findings'[o] = IF o = id THEN mark ELSE findings[o] BY <2>1
  <2>8. \A o \in DOMAIN findings : reviews'[o] = IF o = id THEN told ELSE reviews[o] BY <2>2 DEF MarksInv
  <2>9. findings' \in [DOMAIN findings' -> Marks] BY <2>1, <2>4, <2>6 DEF MarksInv
  <2>10. reviews' \in [DOMAIN findings' -> Seq(Dispositions)] BY <2>2, <2>5, <2>6 DEF MarksInv
  <2>11. ASSUME NEW o \in DOMAIN findings'
         PROVE  /\ findings'[o].version = Len(reviews'[o]) + 1
                /\ findings'[o].status = IF findings'[o].version = 1 THEN "open" ELSE reviews'[o][findings'[o].version - 1]
    <3>1. CASE o = id
      <4>1. findings'[o] = mark /\ reviews'[o] = told BY <2>6, <2>7, <2>8, <3>1
      <4>2. mark.version = Len(told) + 1 /\ mark.version # 1 /\ mark.version - 1 = Len(reviews[id]) + 1
        BY <1>0, <2>3, <2>4, <2>5
      <4> QED BY <2>4, <2>5, <4>1, <4>2
    <3>2. CASE o # id
      <4>1. findings'[o] = findings[o] /\ reviews'[o] = reviews[o] /\ o \in DOMAIN findings BY <2>6, <2>7, <2>8, <3>2
      <4> QED BY <4>1 DEF MarksInv
    <3> QED BY <3>1, <3>2
  <2>12. MarksInv'
    <3>1. DOMAIN findings' \subseteq Findings /\ files' \subseteq DOMAIN FileRows BY <2>1, <2>6 DEF MarksInv
    <3> QED BY <2>9, <2>10, <2>11, <3>1 DEF MarksInv
  <2>13. \A o \in DOMAIN findings : IsPrefix0(reviews[o], reviews'[o]) BY <1>0, <2>5, <2>8 DEF IsPrefix0
  <2> QED BY <2>1, <2>6, <2>12, <2>13 DEF Grows
<1>5. \/ UNCHANGED <<findings, reviews, files>>
      \/ \E new \in SUBSET Findings : StoreFindings(new)
      \/ \E snapshot \in DOMAIN FileRows : StoreFeatures(snapshot)
      \/ \E id \in DOMAIN findings, disposition \in Dispositions : Decide(id, disposition)
  BY DEF CaseNext, allVars, readingVars, ReadingNext, Stream, PageFeatures, Evidence, ReadFindings, ReadReviews,
         ReadAudits, ReadFeatures
<1> QED BY <1>1, <1>2, <1>3, <1>4, <1>5
-----------------------------------------------------------------------------
(* Exports of findings. What is on a page or sent, against the decisions.   *)

Rows == [id : Findings, version : Nat \ {0}, status : Statuses, history : Seq(Dispositions), audits : Nat]

StatusAt(version, decided) == IF version = 1 THEN "open" ELSE decided[version - 1]

Backed(row, told) ==
    /\ row \in Rows /\ row.id \in DOMAIN told
    /\ row.version <= Len(told[row.id]) + 1 /\ row.status = StatusAt(row.version, told[row.id])

Told(row, told) ==
    /\ row \in Rows /\ row.id \in DOMAIN told /\ IsPrefix0(row.history, told[row.id])
    /\ row.version <= Len(row.history) + 1 /\ row.status = StatusAt(row.version, row.history)

MoreTold(told, later) ==
    /\ DOMAIN told \subseteq DOMAIN later /\ DOMAIN told \subseteq Findings /\ DOMAIN later \subseteq Findings
    /\ \A id \in DOMAIN told : told[id] \in Seq(Dispositions) /\ IsPrefix0(told[id], later[id])
    /\ \A id \in DOMAIN later : later[id] \in Seq(Dispositions)

LEMMA BackedGrows ==
    ASSUME NEW told, NEW later, MoreTold(told, later), NEW row, Backed(row, told)
    PROVE  Backed(row, later)
<1>1. PICK id \in DOMAIN told : id = row.id BY DEF Backed
<1>2. told[id] \in Seq(Dispositions) /\ later[id] \in Seq(Dispositions) /\ IsPrefix0(told[id], later[id])
  BY DEF MoreTold
<1>3. row.version \in Nat \ {0} BY DEF Backed, Rows
<1>4. row.version <= Len(told[id]) + 1 /\ row.status = StatusAt(row.version, told[id]) BY <1>1 DEF Backed
<1>5. Len(told[id]) \in Nat /\ Len(later[id]) \in Nat BY <1>2
<1>6. StatusAt(row.version, told[id]) = StatusAt(row.version, later[id])
  <2>1. CASE row.version = 1 BY <2>1 DEF StatusAt
  <2>2. CASE row.version # 1
    <3>1. PICK i \in 1 .. Len(told[id]) : i = row.version - 1 BY <1>3, <1>4, <1>5, <2>2
    <3>2. told[id][i] = later[id][i] BY <1>2 DEF IsPrefix0
    <3> QED BY <2>2, <3>1, <3>2 DEF StatusAt
  <2> QED BY <2>1, <2>2
<1>7. row.version <= Len(later[id]) + 1 BY <1>2, <1>3, <1>4, <1>5 DEF IsPrefix0
<1>8. row \in Rows /\ row.id \in DOMAIN later BY <1>1 DEF Backed, MoreTold
<1> QED BY <1>1, <1>4, <1>6, <1>7, <1>8 DEF Backed

LEMMA ToldGrows ==
    ASSUME NEW told, NEW later, MoreTold(told, later), NEW row, Told(row, told)
    PROVE  Told(row, later)
<1>1. PICK id \in DOMAIN told : id = row.id BY DEF Told
<1>2. told[id] \in Seq(Dispositions) /\ later[id] \in Seq(Dispositions) /\ IsPrefix0(told[id], later[id])
  BY DEF MoreTold
<1>3. IsPrefix0(row.history, told[id]) /\ row.history \in Seq(Dispositions) BY <1>1 DEF Told, Rows
<1>4. Len(told[id]) \in Nat /\ Len(later[id]) \in Nat /\ Len(row.history) \in Nat BY <1>2, <1>3
<1>5. IsPrefix0(row.history, later[id]) BY <1>2, <1>3, <1>4 DEF IsPrefix0
<1>6. row \in Rows /\ row.id \in DOMAIN later BY <1>1 DEF Told, MoreTold
<1> QED BY <1>1, <1>5, <1>6 DEF Told

\* How many of the ids come before one.
RankOf(ids, x) == Cardinality({y \in ids : y < x})

LEMMA RankGrows ==
    ASSUME NEW more, IsFiniteSet(more), NEW ids \in SUBSET more, NEW x
    PROVE  RankOf(ids, x) \in Nat /\ RankOf(more, x) \in Nat /\ RankOf(ids, x) <= RankOf(more, x)
<1> DEFINE A == {y \in ids : y < x}
           B == {y \in more : y < x}
<1>1. A \in SUBSET B /\ B \in SUBSET more OBVIOUS
<1>2. IsFiniteSet(B) BY <1>1, FS_Subset
<1> HIDE DEF A, B
<1>3. IsFiniteSet(A) /\ Cardinality(A) <= Cardinality(B) BY <1>1, <1>2, FS_Subset
<1>4. Cardinality(A) \in Nat /\ Cardinality(B) \in Nat BY <1>2, <1>3, FS_CardinalityType
<1> QED BY <1>3, <1>4 DEF RankOf, A, B

\* A page of the ids: whatever is ranked from the offset on is on it, or on one after it.
PageShows(page, ids, offset) ==
    /\ Listing(page) /\ Len(page) \in Nat /\ \A k \in 1 .. Len(page) : page[k] \in ids
    /\ \A x \in ids : RankOf(ids, x) >= offset =>
           \/ \E k \in 1 .. Len(page) : page[k] = x
           \/ Len(page) = ExportPage /\ RankOf(ids, x) >= offset + ExportPage

LEMMA PagesShow ==
    ASSUME NEW ids, IsFiniteSet(ids), ids \subseteq Nat, NEW offset \in Nat
    PROVE  PageShows(Page(Increasing(ids), offset, ExportPage), ids, offset)
<1> DEFINE R == LessThan(ids)
           s == Increasing(ids)
           limit == ExportPage
           page == Page(s, offset, limit)
<1>0. \A a, b \in ids : <<a, b>> \in R <=> a < b BY DEF LessThan
<1>1. OrderedList(s, ids, R) BY NumbersAreOrdered
<1>2. ASSUME NEW x \in ids PROVE RankIn(ids, R, x) = RankOf(ids, x)
  <2>1. Below(ids, R, x) = {y \in ids : y < x} BY <1>0 DEF Below
  <2> QED BY <2>1 DEF RankIn, RankOf
<1>3. limit \in Nat BY StoreAssumption
<1> HIDE DEF R, s, limit
<1>4. Listing(s) /\ Range(s) = ids /\ Len(s) = Cardinality(ids) /\ Cardinality(ids) \in Nat
  BY <1>1 DEF OrderedList
<1>5. \A x \in ids : RankOf(ids, x) + 1 \in 1 .. Len(s) /\ s[RankOf(ids, x) + 1] = x
  BY <1>1, <1>2, <1>4 DEF OrderedList
<1>6. PICK n \in Nat : PageOf(page, s, offset, limit, n) BY <1>3, <1>4, PageIs
<1> HIDE DEF page
<1>7. Listing(page) /\ Len(page) = n /\ n <= limit /\ (n < limit => Len(s) <= offset + n) BY <1>6 DEF PageOf
<1>8. \A x : x \in Range(page) <=> \E i \in 1 .. Len(s) : offset < i /\ i <= offset + limit /\ x = s[i]
  BY <1>6 DEF PageOf
<1>9. \A x : x \in Range(page) <=> \E k \in 1 .. Len(page) : page[k] = x BY <1>7, ListingIs
<1>10. ASSUME NEW k \in 1 .. Len(page) PROVE page[k] \in ids
  <2>1. PICK i \in 1 .. Len(s) : page[k] = s[i] BY <1>8, <1>9
  <2>2. s[i] \in Range(s) BY <1>4, ListingIs
  <2> QED BY <1>4, <2>1, <2>2
<1>11. ASSUME NEW x \in ids, RankOf(ids, x) >= offset
       PROVE  \/ \E k \in 1 .. Len(page) : page[k] = x
              \/ Len(page) = limit /\ RankOf(ids, x) >= offset + limit
  <2>1. PICK i \in 1 .. Len(s) : i = RankOf(ids, x) + 1 BY <1>5
  <2>2. s[i] = x BY <1>5, <2>1
  <2>3. RankOf(ids, x) \in Nat BY RankGrows
  <2>4. i \in Nat /\ Len(s) \in Nat /\ i <= Len(s) BY <1>4
  <2>5. offset < i BY <1>11, <2>1, <2>3
  <2>6. CASE i <= offset + limit
    <3>1. x \in Range(page) BY <1>8, <2>2, <2>5, <2>6
    <3> QED BY <1>9, <3>1
  <2>7. CASE ~(i <= offset + limit)
    <3>1. RankOf(ids, x) >= offset + limit BY <1>3, <2>1, <2>3, <2>7
    <3>2. ~(n < limit) BY <1>3, <1>7, <2>4, <2>7
    <3>3. n = limit BY <1>3, <1>7, <3>2
    <3> QED BY <1>7, <3>1, <3>3
  <2> QED BY <2>6, <2>7
<1>12. PageShows(page, ids, offset)
  <2>1. ExportPage = limit BY DEF limit
  <2> QED BY <1>6, <1>7, <1>10, <1>11, <2>1 DEF PageShows
<1> QED BY <1>12 DEF page, s, limit

ReaderFields == {"kind", "step", "ids", "offset", "page", "out", "owed"}
Shaped(r) == r = [f \in ReaderFields |-> r[f]]

Advanced(q, r, page, out, offset, step) ==
    /\ Shaped(q) /\ q.kind = r.kind /\ q.ids = r.ids /\ q.owed = r.owed
    /\ q.page = page /\ q.out = out /\ q.offset = offset /\ q.step = step

WithPage(r, page, step) == [r EXCEPT !.page = page, !.step = step]
WithRows(r, out, offset, step) == [r EXCEPT !.out = out, !.offset = offset, !.step = step]
WithSent(r, out, page, offset, step) == [r EXCEPT !.out = out, !.page = page, !.offset = offset, !.step = step]

LEMMA PageAdvances ==
    ASSUME NEW r, Shaped(r), NEW page, NEW step
    PROVE  Advanced(WithPage(r, page, step), r, page, r.out, r.offset, step)
<1>1. PICK p : p = [r EXCEPT !.page = page] OBVIOUS
<1>2. Advanced(p, r, page, r.out, r.offset, r.step)
  BY <1>1 DEF Shaped, Advanced, ReaderFields
<1>3. PICK q : q = [p EXCEPT !.step = step] OBVIOUS
<1>4. Advanced(q, r, page, r.out, r.offset, step)
  BY <1>2, <1>3 DEF Shaped, Advanced, ReaderFields
<1> QED BY <1>1, <1>3, <1>4 DEF WithPage

LEMMA RowsAdvance ==
    ASSUME NEW r, Shaped(r), NEW out, NEW offset, NEW step
    PROVE  Advanced(WithRows(r, out, offset, step), r, r.page, out, offset, step)
<1>1. PICK p : p = [r EXCEPT !.out = out] OBVIOUS
<1>2. Advanced(p, r, r.page, out, r.offset, r.step)
  BY <1>1 DEF Shaped, Advanced, ReaderFields
<1>3. PICK t : t = [p EXCEPT !.offset = offset] OBVIOUS
<1>4. Advanced(t, r, r.page, out, offset, r.step)
  BY <1>2, <1>3 DEF Shaped, Advanced, ReaderFields
<1>5. PICK q : q = [t EXCEPT !.step = step] OBVIOUS
<1>6. Advanced(q, r, r.page, out, offset, step)
  BY <1>4, <1>5 DEF Shaped, Advanced, ReaderFields
<1> QED BY <1>1, <1>3, <1>5, <1>6 DEF WithRows

LEMMA SentAdvances ==
    ASSUME NEW r, Shaped(r), NEW out, NEW page, NEW offset, NEW step
    PROVE  Advanced(WithSent(r, out, page, offset, step), r, page, out, offset, step)
<1>1. PICK p : p = [r EXCEPT !.out = out] OBVIOUS
<1>2. Advanced(p, r, r.page, out, r.offset, r.step)
  BY <1>1 DEF Shaped, Advanced, ReaderFields
<1>3. PICK t : t = [p EXCEPT !.page = page] OBVIOUS
<1>4. Advanced(t, r, page, out, r.offset, r.step)
  BY <1>2, <1>3 DEF Shaped, Advanced, ReaderFields
<1>5. PICK u : u = [t EXCEPT !.offset = offset] OBVIOUS
<1>6. Advanced(u, r, page, out, offset, r.step)
  BY <1>4, <1>5 DEF Shaped, Advanced, ReaderFields
<1>7. PICK q : q = [u EXCEPT !.step = step] OBVIOUS
<1>8. Advanced(q, r, page, out, offset, step)
  BY <1>6, <1>7 DEF Shaped, Advanced, ReaderFields
<1> QED BY <1>1, <1>3, <1>5, <1>7, <1>8 DEF WithSent

\* What is owed was sent, is on the page, or is still to come.
Sent(r, x) == \E k \in 1 .. Len(r.out) : r.out[k].id = x
OnPage(r, x) == \E k \in 1 .. Len(r.page) : r.page[k].id = x

Accounted(r, ids, x) ==
    \/ Sent(r, x)
    \/ r.step = "findings" /\ (r.kind = "stream" => RankOf(ids, x) >= r.offset)
    \/ r.step \in {"reviews", "audits"} /\ OnPage(r, x)
    \/ /\ r.step \in {"reviews", "audits"} /\ r.kind = "stream" /\ Len(r.page) = ExportPage
       /\ RankOf(ids, x) >= r.offset + ExportPage

StreamOK(r, told) ==
    /\ Shaped(r) /\ r.kind \in {"stream", "evidence"} /\ r.offset \in Nat
    /\ r.step \in {"findings", "reviews", "audits", "done"}
    /\ r.owed \subseteq DOMAIN told
    /\ r.kind = "evidence" => \E id \in DOMAIN told : r.ids = {id} /\ r.owed = {id}
    /\ Listing(r.page) /\ Listing(r.out)
    /\ r.step = "reviews" => \A k \in 1 .. Len(r.page) : Backed(r.page[k], told)
    /\ r.step = "audits" => \A k \in 1 .. Len(r.page) : Told(r.page[k], told)
    /\ \A k \in 1 .. Len(r.out) : HistoryCovers(r.out[k])
    /\ \A x \in r.owed : Accounted(r, DOMAIN told, x)

LEMMA StreamGrows ==
    ASSUME NEW told, NEW later, MoreTold(told, later), NEW r, StreamOK(r, told)
    PROVE  StreamOK(r, later)
<1>1. DOMAIN told \in SUBSET DOMAIN later BY DEF MoreTold
<1>2. IsFiniteSet(DOMAIN later) /\ DOMAIN later \subseteq Findings BY StoreAssumption, FS_Subset DEF MoreTold
<1>3. ASSUME NEW x \in r.owed PROVE Accounted(r, DOMAIN later, x)
  <2>1. Accounted(r, DOMAIN told, x) BY DEF StreamOK
  <2>2. /\ RankOf(DOMAIN told, x) \in Nat /\ RankOf(DOMAIN later, x) \in Nat
        /\ RankOf(DOMAIN told, x) <= RankOf(DOMAIN later, x)
    BY <1>1, <1>2, RankGrows
  <2>3. r.offset \in Nat /\ ExportPage \in Nat BY StoreAssumption DEF StreamOK
  <2>4. /\ RankOf(DOMAIN told, x) >= r.offset => RankOf(DOMAIN later, x) >= r.offset
        /\ RankOf(DOMAIN told, x) >= r.offset + ExportPage => RankOf(DOMAIN later, x) >= r.offset + ExportPage
    BY <2>2, <2>3
  <2> QED BY <2>1, <2>4 DEF Accounted
<1>4. r.step = "reviews" => \A k \in 1 .. Len(r.page) : Backed(r.page[k], later) BY BackedGrows DEF StreamOK
<1>5. r.step = "audits" => \A k \in 1 .. Len(r.page) : Told(r.page[k], later) BY ToldGrows DEF StreamOK
<1>6. r.owed \subseteq DOMAIN later BY <1>1 DEF StreamOK
<1>7. r.kind = "evidence" => \E id \in DOMAIN later : r.ids = {id} /\ r.owed = {id} BY <1>1 DEF StreamOK
<1> QED BY <1>3, <1>4, <1>5, <1>6, <1>7 DEF StreamOK

LEMMA ViewsAreBacked ==
    ASSUME MarksInv, NEW id \in DOMAIN findings
    PROVE  FindingView(id).id = id /\ Backed(FindingView(id), reviews)
<1> DEFINE row == FindingView(id)
<1>1. /\ row = [id |-> id, version |-> findings[id].version, status |-> findings[id].status,
                history |-> << >>, audits |-> 0]
  BY DEF FindingView
<1>2. id \in Findings /\ findings[id] \in Marks /\ reviews[id] \in Seq(Dispositions) /\ id \in DOMAIN reviews
  BY DEF MarksInv
<1>3. /\ findings[id].version = Len(reviews[id]) + 1
      /\ findings[id].status = StatusAt(findings[id].version, reviews[id])
  BY DEF MarksInv, StatusAt
<1>4. findings[id].version \in Nat \ {0} /\ findings[id].status \in Statuses BY <1>2 DEF Marks
<1>5. << >> \in Seq(Dispositions) OBVIOUS
<1>6. row \in Rows BY <1>1, <1>2, <1>4, <1>5 DEF Rows
<1>7. row.id = id /\ row.version = findings[id].version /\ row.status = findings[id].status BY <1>1
<1> HIDE DEF row
<1>8. row.version <= Len(reviews[id]) + 1
  <2>1. Len(reviews[id]) \in Nat BY <1>2
  <2> QED BY <1>3, <1>7, <2>1
<1>9. Backed(row, reviews) BY <1>2, <1>3, <1>6, <1>7, <1>8 DEF Backed
<1> QED BY <1>7, <1>9 DEF row

LEMMA FindingsAreChosen ==
    ASSUME MarksInv, StreamOK(reader, reviews), reader.step = "findings"
    PROVE  /\ Listing(Chosen) /\ \A k \in 1 .. Len(Chosen) : Chosen[k] \in DOMAIN findings
           /\ \A x \in reader.owed : Accounted(reader, DOMAIN reviews, x) =>
                  \/ Sent(reader, x)
                  \/ \E k \in 1 .. Len(Chosen) : Chosen[k] = x
                  \/ /\ reader.kind = "stream" /\ Len(Chosen) = ExportPage
                     /\ RankOf(DOMAIN reviews, x) >= reader.offset + ExportPage
<1>1. DOMAIN reviews = DOMAIN findings /\ DOMAIN findings \subseteq Findings BY DEF MarksInv
<1>2. IsFiniteSet(DOMAIN findings) /\ DOMAIN findings \subseteq Nat BY <1>1, StoreAssumption, FS_Subset
<1>3. CASE reader.kind = "evidence"
  <2>1. PICK id \in DOMAIN reviews : reader.ids = {id} /\ reader.owed = {id} BY <1>3 DEF StreamOK
  <2>2. (CHOOSE i \in {id} : TRUE) = id OBVIOUS
  <2>3. Chosen = <<id>> BY <1>3, <2>1, <2>2 DEF Chosen
  <2>4. <<id>> = [i \in 1 .. 1 |-> <<id>>[i]] /\ <<id>>[1] = id OBVIOUS
  <2>5. Listing(<<id>>) /\ Len(<<id>>) = 1
    <3>1. PICK s : s = <<id>> OBVIOUS
    <3>2. s = [i \in 1 .. 1 |-> s[i]] BY <2>4, <3>1
    <3>3. 1 \in Nat OBVIOUS
    <3>4. Listing(s) /\ Len(s) = 1 BY <3>2, <3>3, ListingOf
    <3> QED BY <3>1, <3>4
  <2>6. \A k \in 1 .. Len(Chosen) : Chosen[k] = id BY <2>3, <2>4, <2>5
  <2>7. 1 \in 1 .. Len(Chosen) BY <2>3, <2>5
  <2>8. \A x \in reader.owed : x = id BY <2>1
  <2> QED BY <1>1, <2>1, <2>3, <2>5, <2>6, <2>7, <2>8
<1>4. CASE reader.kind # "evidence"
  <2>1. reader.kind = "stream" /\ reader.offset \in Nat BY <1>4 DEF StreamOK
  <2>2. Chosen = Page(Increasing(DOMAIN findings), reader.offset, ExportPage) BY <1>4 DEF Chosen, Increasing
  <2>3. PageShows(Chosen, DOMAIN findings, reader.offset) BY <1>2, <2>1, <2>2, PagesShow
  <2>4. reader.owed \subseteq DOMAIN findings BY <1>1 DEF StreamOK
  <2>5. \A x \in reader.owed : Accounted(reader, DOMAIN reviews, x) =>
            Sent(reader, x) \/ RankOf(DOMAIN findings, x) >= reader.offset
    BY <1>1, <2>1 DEF Accounted
  <2> QED BY <1>1, <2>1, <2>3, <2>4, <2>5 DEF PageShows
<1> QED BY <1>3, <1>4

LEMMA FindingsStep ==
    ASSUME MarksInv, StreamOK(reader, reviews), ReadFindings
    PROVE  StreamOK(reader', reviews)
<1> DEFINE list == Chosen
           page == [k \in DOMAIN list |-> FindingView(list[k])]
           q == reader'
<1>1. reader.step = "findings" /\ q = WithPage(reader, page, "reviews")
  BY DEF ReadFindings, WithPage
<1>2. /\ Listing(list) /\ \A k \in 1 .. Len(list) : list[k] \in DOMAIN findings
      /\ \A x \in reader.owed : Accounted(reader, DOMAIN reviews, x) =>
             \/ Sent(reader, x)
             \/ \E k \in 1 .. Len(list) : list[k] = x
             \/ /\ reader.kind = "stream" /\ Len(list) = ExportPage
                /\ RankOf(DOMAIN reviews, x) >= reader.offset + ExportPage
  BY <1>1, FindingsAreChosen
<1> HIDE DEF list
<1>3. DOMAIN list = 1 .. Len(list) /\ Len(list) \in Nat BY <1>2, ListingIs
<1>4. \A k \in 1 .. Len(list) : page[k] = FindingView(list[k]) BY <1>3
<1>5. page = [k \in 1 .. Len(list) |-> page[k]] BY <1>3
<1> HIDE DEF page
<1>6. Listing(page) /\ Len(page) = Len(list) BY <1>3, <1>5, ListingOf
<1>7. Shaped(reader) BY DEF StreamOK
<1>8. Advanced(q, reader, page, reader.out, reader.offset, "reviews")
  BY <1>1, <1>7, PageAdvances
<1> HIDE DEF q
<1>9. \A k \in 1 .. Len(list) : page[k].id = list[k] /\ Backed(page[k], reviews) BY <1>2, <1>4, ViewsAreBacked
<1>10. ASSUME NEW x \in reader.owed PROVE Accounted(q, DOMAIN reviews, x)
  <2>1. Accounted(reader, DOMAIN reviews, x) BY DEF StreamOK
  <2>2. CASE Sent(reader, x) BY <1>8, <2>2 DEF Advanced, Sent, Accounted
  <2>3. CASE \E k \in 1 .. Len(list) : list[k] = x BY <1>6, <1>8, <1>9, <2>3 DEF Advanced, OnPage, Accounted
  <2>4. CASE /\ reader.kind = "stream" /\ Len(list) = ExportPage
             /\ RankOf(DOMAIN reviews, x) >= reader.offset + ExportPage
    BY <1>6, <1>8, <2>4 DEF Advanced, Accounted
  <2> QED BY <1>2, <2>1, <2>2, <2>3, <2>4
<1>11. StreamOK(q, reviews) BY <1>6, <1>8, <1>9, <1>10 DEF StreamOK, Advanced
<1> QED BY <1>11 DEF q

LEMMA HistoryIsTold ==
    ASSUME MarksInv, NEW row, Backed(row, reviews)
    PROVE  WithHistory(row).id = row.id /\ Told(WithHistory(row), reviews)
<1> DEFINE new == WithHistory(row)
<1>1. PICK id \in DOMAIN reviews : id = row.id BY DEF Backed
<1>2. reviews[id] \in Seq(Dispositions) BY DEF MarksInv
<1>3. new = [row EXCEPT !.history = reviews[id]] BY <1>1 DEF WithHistory
<1>4. row \in Rows BY DEF Backed
<1>5. /\ new \in Rows /\ new.id = id /\ new.version = row.version /\ new.status = row.status
      /\ new.history = reviews[id]
  BY <1>1, <1>2, <1>3, <1>4 DEF Rows
<1> HIDE DEF new
<1>6. IsPrefix0(reviews[id], reviews[id])
  <2>1. Len(reviews[id]) \in Nat BY <1>2
  <2> QED BY <2>1 DEF IsPrefix0
<1>7. row.version <= Len(reviews[id]) + 1 /\ row.status = StatusAt(row.version, reviews[id]) BY <1>1 DEF Backed
<1>8. Told(new, reviews) BY <1>1, <1>5, <1>6, <1>7 DEF Told
<1> QED BY <1>1, <1>5, <1>8 DEF new

LEMMA ReviewsStep ==
    ASSUME MarksInv, StreamOK(reader, reviews), ReadReviews
    PROVE  StreamOK(reader', reviews)
<1> DEFINE page == [k \in DOMAIN reader.page |-> WithHistory(reader.page[k])]
           q == reader'
           n == Len(reader.page)
<1>1. reader.step = "reviews" /\ Shaped(reader) /\ Listing(reader.page) BY DEF ReadReviews, StreamOK
<1>2. "page" \in DOMAIN reader BY <1>1 DEF Shaped, ReaderFields
<1>3. q = WithPage(reader, page, "audits") BY <1>2 DEF ReadReviews, WithPage
<1>4. DOMAIN reader.page = 1 .. n /\ n \in Nat BY <1>1, ListingIs
<1>5. \A k \in 1 .. n : page[k] = WithHistory(reader.page[k]) BY <1>4
<1>6. page = [k \in 1 .. n |-> page[k]] BY <1>4
<1> HIDE DEF page, n
<1>7. Listing(page) /\ Len(page) = n BY <1>4, <1>6, ListingOf
<1>8. Advanced(q, reader, page, reader.out, reader.offset, "audits") BY <1>1, <1>3, PageAdvances
<1> HIDE DEF q
<1>9. \A k \in 1 .. n : Backed(reader.page[k], reviews) BY <1>1 DEF StreamOK, n
<1>10. \A k \in 1 .. n : page[k].id = reader.page[k].id /\ Told(page[k], reviews) BY <1>5, <1>9, HistoryIsTold
<1>11. ASSUME NEW x \in reader.owed PROVE Accounted(q, DOMAIN reviews, x)
  <2>1. Accounted(reader, DOMAIN reviews, x) BY DEF StreamOK
  <2>2. Sent(reader, x) => Sent(q, x) BY <1>8 DEF Advanced, Sent
  <2>3. OnPage(reader, x) => OnPage(q, x) BY <1>7, <1>8, <1>10 DEF Advanced, OnPage, n
  <2> QED BY <1>1, <1>7, <1>8, <2>1, <2>2, <2>3 DEF Advanced, Accounted, n
<1>12. StreamOK(q, reviews) BY <1>7, <1>8, <1>10, <1>11 DEF StreamOK, Advanced
<1> QED BY <1>12 DEF q

LEMMA SentIsCovered ==
    ASSUME MarksInv, NEW row, Told(row, reviews)
    PROVE  WithAudits(row).id = row.id /\ HistoryCovers(WithAudits(row))
<1> DEFINE new == WithAudits(row)
<1>1. PICK id \in DOMAIN reviews : id = row.id BY DEF Told
<1>2. reviews[id] \in Seq(Dispositions) /\ Len(reviews[id]) \in Nat BY DEF MarksInv
<1>3. new = [row EXCEPT !.audits = Len(reviews[id])] BY <1>1 DEF WithAudits
<1>4. row \in Rows BY DEF Told
<1>5. /\ new.id = id /\ new.version = row.version /\ new.status = row.status
      /\ new.history = row.history /\ new.audits = Len(reviews[id])
  BY <1>1, <1>2, <1>3, <1>4 DEF Rows
<1> HIDE DEF new
<1>6. Len(row.history) <= Len(reviews[id]) BY <1>1 DEF Told, IsPrefix0
<1>7. row.version <= Len(row.history) + 1 /\ row.status = StatusAt(row.version, row.history) BY DEF Told
<1>8. HistoryCovers(new) BY <1>5, <1>6, <1>7 DEF HistoryCovers, StatusAt
<1> QED BY <1>1, <1>5, <1>8 DEF new

LEMMA AuditsStep ==
    ASSUME MarksInv, StreamOK(reader, reviews), ReadAudits
    PROVE  StreamOK(reader', reviews)
<1> DEFINE sent == [k \in DOMAIN reader.page |-> WithAudits(reader.page[k])]
           more == reader.kind = "stream" /\ Len(sent) = ExportPage
           out == reader.out \o sent
           step == IF more THEN "findings" ELSE "done"
           offset == reader.offset + ExportPage
           q == reader'
           n == Len(reader.page)
<1>1. reader.step = "audits" /\ Shaped(reader) /\ Listing(reader.page) /\ Listing(reader.out) BY DEF ReadAudits, StreamOK
<1>2. "out" \in DOMAIN reader /\ "offset" \in DOMAIN reader BY <1>1 DEF Shaped, ReaderFields
<1>3. q = WithSent(reader, out, << >>, offset, step) BY <1>2 DEF ReadAudits, WithSent
<1>4. DOMAIN reader.page = 1 .. n /\ n \in Nat BY <1>1, ListingIs
<1>5. \A k \in 1 .. n : sent[k] = WithAudits(reader.page[k]) BY <1>4
<1>6. sent = [k \in 1 .. n |-> sent[k]] BY <1>4
<1> HIDE DEF sent, n
<1>7. Listing(sent) /\ Len(sent) = n BY <1>4, <1>6, ListingOf
<1>8. offset \in Nat
  <2>1. reader.offset \in Nat /\ ExportPage \in Nat BY StoreAssumption DEF StreamOK
  <2> QED BY <2>1
<1>9. step \in {"findings", "done"} /\ (step = "findings" <=> more) OBVIOUS
<1> HIDE DEF step
<1>10. Listing(out) /\ \A x : x \in Range(out) <=> x \in Range(reader.out) \/ x \in Range(sent)
  BY <1>1, <1>7, JoinedListing
<1> HIDE DEF out, offset
<1>11. Advanced(q, reader, << >>, out, offset, step) BY <1>1, <1>3, SentAdvances
<1> HIDE DEF q
<1>12. \A k \in 1 .. n : Told(reader.page[k], reviews) BY <1>1 DEF StreamOK, n
<1>13. \A k \in 1 .. n : sent[k].id = reader.page[k].id /\ HistoryCovers(sent[k]) BY <1>5, <1>12, SentIsCovered
<1>14. /\ \A row : row \in Range(out) <=> \E k \in 1 .. Len(out) : out[k] = row
       /\ \A row : row \in Range(sent) <=> \E k \in 1 .. n : sent[k] = row
       /\ \A row : row \in Range(reader.out) <=> \E k \in 1 .. Len(reader.out) : reader.out[k] = row
  BY <1>1, <1>7, <1>10, ListingIs
<1>15. ASSUME NEW k \in 1 .. Len(out) PROVE HistoryCovers(out[k])
  <2>1. out[k] \in Range(reader.out) \/ out[k] \in Range(sent) BY <1>10, <1>14
  <2>2. \A i \in 1 .. Len(reader.out) : HistoryCovers(reader.out[i]) BY DEF StreamOK
  <2> QED BY <1>13, <1>14, <2>1, <2>2
<1>16. ASSUME NEW x, Sent(reader, x) \/ OnPage(reader, x) PROVE Sent(q, x)
  <2>1. CASE Sent(reader, x)
    <3>1. PICK k \in 1 .. Len(reader.out) : reader.out[k].id = x BY <2>1 DEF Sent
    <3>2. reader.out[k] \in Range(out) BY <1>10, <1>14
    <3>3. PICK i \in 1 .. Len(out) : out[i] = reader.out[k] BY <1>14, <3>2
    <3> QED BY <1>11, <3>1, <3>3 DEF Advanced, Sent
  <2>2. CASE OnPage(reader, x)
    <3>1. PICK k \in 1 .. n : reader.page[k].id = x BY <2>2 DEF OnPage, n
    <3>2. sent[k].id = x /\ sent[k] \in Range(out) BY <1>10, <1>13, <1>14, <3>1
    <3>3. PICK i \in 1 .. Len(out) : out[i] = sent[k] BY <1>14, <3>2
    <3> QED BY <1>11, <3>2, <3>3 DEF Advanced, Sent
  <2> QED BY <1>16, <2>1, <2>2
<1>17. ASSUME NEW x \in reader.owed PROVE Accounted(q, DOMAIN reviews, x)
  <2>1. Accounted(reader, DOMAIN reviews, x) BY DEF StreamOK
  <2>2. CASE Sent(reader, x) \/ OnPage(reader, x) BY <1>16, <2>2 DEF Accounted
  <2>3. CASE ~(Sent(reader, x) \/ OnPage(reader, x))
    <3>1. /\ reader.kind = "stream" /\ Len(reader.page) = ExportPage
          /\ RankOf(DOMAIN reviews, x) >= reader.offset + ExportPage
      BY <1>1, <2>1, <2>3 DEF Accounted
    <3>2. more BY <1>7, <3>1 DEF n
    <3> QED BY <1>9, <1>11, <3>1, <3>2 DEF Advanced, Accounted, offset
  <2> QED BY <2>2, <2>3
<1>18. Listing(<< >>) /\ Len(<< >>) = 0
  <2>1. << >> = [i \in 1 .. 0 |-> << >>[i]] OBVIOUS
  <2>2. PICK s : s = << >> OBVIOUS
  <2>3. s = [i \in 1 .. 0 |-> s[i]] BY <2>1, <2>2
  <2>4. 0 \in Nat OBVIOUS
  <2>5. Listing(s) /\ Len(s) = 0 BY <2>3, <2>4, ListingOf
  <2> QED BY <2>2, <2>5
<1>19. /\ reader.kind \in {"stream", "evidence"} /\ reader.owed \subseteq DOMAIN reviews
       /\ reader.kind = "evidence" => \E id \in DOMAIN reviews : reader.ids = {id} /\ reader.owed = {id}
  BY DEF StreamOK
<1>20. StreamOK(q, reviews)
  BY <1>8, <1>9, <1>10, <1>11, <1>15, <1>17, <1>18, <1>19 DEF StreamOK, Advanced
<1> QED BY <1>20 DEF q
-----------------------------------------------------------------------------
(* Feature rows: legacy rows first, then the rows of each file.             *)

File(s, m) == {c \in {s} \X Nat : c[2] \in 1 .. m}
Cells(stored) == File(Null, LegacyRows) \cup UNION {File(s, FileRows[s]) : s \in stored}

CellLess(c, d) ==
    IF c[1] = d[1] THEN c[2] < d[2] ELSE c[1] = Null \/ (d[1] # Null /\ c[1] < d[1])

AheadOf(S, d) == {c \in S : CellLess(c, d)}
Position(S, d) == Cardinality(AheadOf(S, d)) + 1

LEMMA FileIs ==
    ASSUME NEW s, NEW m \in Nat
    PROVE  /\ IsFiniteSet(File(s, m)) /\ Cardinality(File(s, m)) = m
           /\ \A c : c \in File(s, m) <=> \E k \in 1 .. m : c = <<s, k>>
<1> DEFINE f == [k \in 1 .. m |-> <<s, k>>]
<1>1. \A c : c \in File(s, m) <=> \E k \in 1 .. m : c = <<s, k>>
  <2>1. ASSUME NEW k \in 1 .. m PROVE <<s, k>> \in File(s, m) BY DEF File
  <2>2. ASSUME NEW c \in File(s, m) PROVE \E k \in 1 .. m : c = <<s, k>>
    <3>1. c \in {s} \X Nat /\ c[2] \in 1 .. m BY DEF File
    <3>2. c = <<s, c[2]>> BY <3>1
    <3> QED BY <3>1, <3>2
  <2> QED BY <2>1, <2>2
<1>2. f \in Bijection(1 .. m, File(s, m))
  <2>1. \A k \in 1 .. m : f[k] = <<s, k>> /\ f[k] \in File(s, m) BY <1>1
  <2>2. f \in [1 .. m -> File(s, m)] BY <2>1
  <2>3. \A i, k \in 1 .. m : f[i] = f[k] => i = k OBVIOUS
  <2>4. \A c \in File(s, m) : \E k \in 1 .. m : f[k] = c BY <1>1, <2>1
  <2> HIDE DEF f
  <2> QED BY <2>2, <2>3, <2>4 DEF Bijection, Injection, Surjection, IsInjective
<1>3. ExistsBijection(1 .. m, File(s, m))
  <2> HIDE DEF f
  <2> QED BY <1>2 DEF ExistsBijection
<1>4. IsFiniteSet(1 .. m) /\ Cardinality(1 .. m) = m
  <2>1. PICK a \in Int : a = 1 OBVIOUS
  <2>2. m \in Int OBVIOUS
  <2>3. IsFiniteSet(a .. m) /\ Cardinality(a .. m) = IF a > m THEN 0 ELSE m - a + 1 BY <2>1, <2>2, FS_Interval
  <2> QED BY <2>1, <2>3
<1>5. IsFiniteSet(File(s, m)) /\ Cardinality(File(s, m)) = m BY <1>3, <1>4, FS_Bijection
<1> QED BY <1>1, <1>5

\* All of A come before any cell of file s.
Preceding(A, s) ==
    /\ IsFiniteSet(A)
    /\ \A c \in A : c[1] # s /\ \A k \in Nat : CellLess(c, <<s, k>>) /\ ~CellLess(<<s, k>>, c)

Positions(A, s, m) ==
    /\ IsFiniteSet(A \cup File(s, m)) /\ Cardinality(A) \in Nat
    /\ Cardinality(A \cup File(s, m)) = Cardinality(A) + m
    /\ \A c \in A : Position(A \cup File(s, m), c) = Position(A, c)
    /\ \A k \in 1 .. m : Position(A \cup File(s, m), <<s, k>>) = Cardinality(A) + k

LEMMA PositionsAre ==
    ASSUME NEW A, NEW s, Preceding(A, s), NEW m \in Nat
    PROVE  Positions(A, s, m)
<1>1. ASSUME NEW k \in Nat
      PROVE  IsFiniteSet(A \cup File(s, k)) /\ Cardinality(A \cup File(s, k)) = Cardinality(A) + k /\ Cardinality(A) \in Nat
  <2>1. IsFiniteSet(A) /\ IsFiniteSet(File(s, k)) /\ Cardinality(File(s, k)) = k BY FileIs DEF Preceding
  <2>2. A \cap File(s, k) = {} BY FileIs DEF Preceding
  <2>3. Cardinality(A) \in Nat /\ Cardinality(A \cap File(s, k)) = 0 BY <2>1, <2>2, FS_CardinalityType, FS_EmptySet
  <2>4. /\ IsFiniteSet(A \cup File(s, k))
        /\ Cardinality(A \cup File(s, k)) = Cardinality(A) + Cardinality(File(s, k)) - Cardinality(A \cap File(s, k))
    BY <2>1, FS_Union
  <2> QED BY <2>1, <2>3, <2>4
<1>2. ASSUME NEW c \in A PROVE Position(A \cup File(s, m), c) = Position(A, c)
  <2>1. \A d \in File(s, m) : ~CellLess(d, c) BY FileIs DEF Preceding
  <2>2. AheadOf(A \cup File(s, m), c) = AheadOf(A, c) BY <2>1 DEF AheadOf
  <2> QED BY <2>2 DEF Position
<1>3. ASSUME NEW k \in 1 .. m PROVE Position(A \cup File(s, m), <<s, k>>) = Cardinality(A) + k
  <2>1. k - 1 \in Nat OBVIOUS
  <2>2. \A d \in A : CellLess(d, <<s, k>>) BY DEF Preceding
  <2>3. ASSUME NEW d PROVE d \in File(s, m) /\ CellLess(d, <<s, k>>) <=> d \in File(s, k - 1)
    <3>1. d \in File(s, m) <=> \E i \in 1 .. m : d = <<s, i>> BY FileIs
    <3>2. d \in File(s, k - 1) <=> \E i \in 1 .. k - 1 : d = <<s, i>> BY <2>1, FileIs
    <3>3. \A i \in 1 .. m : CellLess(<<s, i>>, <<s, k>>) <=> i < k BY DEF CellLess
    <3>4. \A i : i \in 1 .. k - 1 <=> i \in 1 .. m /\ i < k OBVIOUS
    <3> QED BY <3>1, <3>2, <3>3, <3>4
  <2>4. AheadOf(A \cup File(s, m), <<s, k>>) = A \cup File(s, k - 1) BY <2>2, <2>3 DEF AheadOf
  <2>5. PICK i \in Nat : i = k - 1 BY <2>1
  <2>6. Cardinality(A \cup File(s, i)) = Cardinality(A) + i /\ Cardinality(A) \in Nat BY <1>1
  <2>7. Position(A \cup File(s, m), <<s, k>>) = Cardinality(A) + i + 1 BY <2>4, <2>5, <2>6 DEF Position
  <2> QED BY <2>5, <2>6, <2>7
<1> QED BY <1>1, <1>2, <1>3 DEF Positions

\* After the cells A: sk of them passed over, u the rows read, each at its place.
At(sk, u, A, a, offset) ==
    /\ IsFiniteSet(A) /\ Cardinality(A) = a /\ a \in Nat
    /\ sk \in Nat /\ sk <= offset /\ sk <= a /\ (sk = offset \/ sk = a)
    /\ Listing(u) /\ Len(u) = a - sk
    /\ \A x \in Range(u) : x \in A
    /\ \A c \in A : \E p \in 1 .. a : p = Position(A, c) /\ (p > offset => u[p - offset] = c)

Reads(acc, A, offset) ==
    /\ acc = [skipped |-> acc.skipped, rows |-> acc.rows]
    /\ At(acc.skipped, acc.rows, A, Cardinality(A), offset)

LEMMA SubSeqIs ==
    ASSUME NEW s, Listing(s), NEW lo \in Nat, NEW hi \in Nat, lo <= hi, hi <= Len(s)
    PROVE  /\ Listing(SubSeq(s, lo + 1, hi)) /\ Len(SubSeq(s, lo + 1, hi)) = hi - lo
           /\ \A i \in 1 .. hi - lo : lo + i \in 1 .. Len(s) /\ SubSeq(s, lo + 1, hi)[i] = s[lo + i]
<1> DEFINE A == Range(s)
           l == Len(s)
           part == SubSeq(s, lo + 1, hi)
<1>1. PICK f \in Int : f = lo + 1 OBVIOUS
<1>2. l \in Nat /\ \A i \in 1 .. l : s[i] \in A BY ListingIs
<1>3. part = SubSeq(s, f, hi) /\ hi \in Int BY <1>1
<1>4. hi <= l OBVIOUS
<1>5. \A i \in 1 .. hi - lo : lo + i \in 1 .. Len(s) BY <1>2
<1> HIDE DEF A, part, l
<1>6. \A i \in f .. hi : i \in 1 .. l BY <1>1, <1>2, <1>4
<1>7. \A i \in f .. hi : s[i] \in A BY <1>2, <1>6
<1>8. /\ part \in Seq(A) /\ Len(part) = IF f <= hi THEN hi - f + 1 ELSE 0
      /\ \A i \in 1 .. hi - f + 1 : part[i] = s[f + i - 1]
  BY <1>3, <1>7, SubSeqProperties
<1>9. Len(part) = hi - lo BY <1>1, <1>8
<1>10. \A i \in 1 .. hi - lo : i \in 1 .. hi - f + 1 /\ f + i - 1 = lo + i BY <1>1
<1>11. \A i \in 1 .. hi - lo : part[i] = s[lo + i] BY <1>8, <1>10
<1>12. Listing(part) BY <1>8, SeqOfRange DEF Listing
<1> QED BY <1>5, <1>9, <1>11, <1>12 DEF part

Joins(w, s, t) ==
    /\ Listing(w) /\ Len(w) = Len(s) + Len(t) /\ Len(s) \in Nat /\ Len(t) \in Nat
    /\ \A i \in 1 .. Len(s) : w[i] = s[i]
    /\ \A i \in 1 .. Len(t) : w[Len(s) + i] = t[i]

LEMMA ConcatIs ==
    ASSUME NEW s, NEW t, Listing(s), Listing(t)
    PROVE  Joins(s \o t, s, t)
<1> DEFINE A == Range(s) \cup Range(t)
<1>1. s \in Seq(A) /\ t \in Seq(A)
  <2>1. s \in Seq(Range(s)) /\ t \in Seq(Range(t)) BY DEF Listing
  <2>2. Range(s) \subseteq A /\ Range(t) \subseteq A OBVIOUS
  <2> HIDE DEF A
  <2> QED BY <2>1, <2>2, SeqMonotonic
<1> HIDE DEF A
<1>2. Listing(s \o t) BY JoinedListing
<1>3. Len(s) \in Nat /\ Len(t) \in Nat BY ListingIs
<1>4. Len(s \o t) = Len(s) + Len(t) BY <1>1, ConcatProperties
<1>5. \A i \in 1 .. Len(s) + Len(t) : (s \o t)[i] = IF i <= Len(s) THEN s[i] ELSE t[i - Len(s)]
  BY <1>1, ConcatProperties
<1>6. \A i \in 1 .. Len(s) : (s \o t)[i] = s[i] BY <1>3, <1>5
<1>7. ASSUME NEW i \in 1 .. Len(t) PROVE (s \o t)[Len(s) + i] = t[i]
  <2>1. PICK j \in 1 .. Len(s) + Len(t) : j = Len(s) + i BY <1>3
  <2>2. (s \o t)[j] = t[j - Len(s)] BY <1>3, <1>5, <2>1
  <2>3. j - Len(s) = i BY <1>3, <2>1
  <2> QED BY <2>1, <2>2, <2>3
<1> QED BY <1>2, <1>3, <1>4, <1>6, <1>7 DEF Joins

LEMMA AtMore ==
    ASSUME NEW offset \in Nat, NEW sk, NEW u, NEW A, NEW a, At(sk, u, A, a, offset), NEW s, Preceding(A, s), NEW m \in Nat,
           NEW skip \in Nat, skip <= m, skip <= offset - sk, skip = m \/ skip = offset - sk,
           NEW part, Listing(part), Len(part) = m - skip, \A i \in 1 .. m - skip : part[i] = <<s, skip + i>>,
           NEW w, w = u \o part, NEW B, B = A \cup File(s, m), NEW b, b = a + m, NEW t, t = sk + skip
    PROVE  At(t, w, B, b, offset)
<1>0. a \in Nat BY DEF At
<1>1. /\ Cardinality(A) = a /\ a \in Nat
      /\ sk \in Nat /\ sk <= offset /\ sk <= a /\ (sk = offset \/ sk = a)
      /\ Listing(u) /\ Len(u) = a - sk
  BY DEF At
<1>2. /\ IsFiniteSet(A \cup File(s, m)) /\ Cardinality(A \cup File(s, m)) = Cardinality(A) + m
      /\ \A c \in A : Position(A \cup File(s, m), c) = Position(A, c)
      /\ \A k \in 1 .. m : Position(A \cup File(s, m), <<s, k>>) = Cardinality(A) + k
  <2>1. Positions(A, s, m) BY PositionsAre
  <2> QED BY <2>1 DEF Positions
<1>3. /\ IsFiniteSet(B) /\ Cardinality(B) = b /\ b \in Nat
      /\ \A c \in A : Position(B, c) = Position(A, c)
      /\ \A k \in 1 .. m : Position(B, <<s, k>>) = a + k
  <2>1. b \in Nat BY <1>0
  <2> QED BY <1>1, <1>2, <2>1
<1>4. t \in Nat /\ t <= offset /\ t <= b /\ (t = offset \/ t = b) BY <1>1
<1>5. Joins(u \o part, u, part) BY <1>1, ConcatIs
<1>6. /\ Listing(w) /\ Len(w) = Len(u) + Len(part)
      /\ \A i \in 1 .. Len(u) : w[i] = u[i]
      /\ \A i \in 1 .. Len(part) : w[Len(u) + i] = part[i]
  BY <1>5 DEF Joins
<1>7. Len(w) = b - t BY <1>1, <1>6
<1>8. \A c : c \in File(s, m) <=> \E k \in 1 .. m : c = <<s, k>> BY FileIs
<1>9. ASSUME NEW x \in Range(w) PROVE x \in B
  <2>1. x \in Range(u) \/ x \in Range(part) BY <1>1, JoinedListing
  <2>2. CASE x \in Range(u) BY <2>2 DEF At
  <2>3. CASE x \in Range(part)
    <3>1. PICK i \in 1 .. Len(part) : part[i] = x BY <2>3, ListingIs
    <3>2. PICK k \in Int : k = skip + i OBVIOUS
    <3>3. k \in 1 .. m /\ i \in 1 .. m - skip BY <3>2
    <3>4. x = <<s, k>> BY <3>1, <3>2, <3>3
    <3> QED BY <1>8, <3>3, <3>4
  <2> QED BY <2>1, <2>2, <2>3
<1>10. ASSUME NEW c \in A
       PROVE  \E p \in 1 .. b : p = Position(B, c) /\ (p > offset => w[p - offset] = c)
  <2>1. PICK p \in 1 .. a : p = Position(A, c) /\ (p > offset => u[p - offset] = c) BY DEF At
  <2>2. p \in 1 .. b /\ p \in Int
    <3>1. a <= b /\ a \in Int /\ b \in Int BY <1>0
    <3>2. p \in Int /\ 1 <= p /\ p <= a BY <1>0
    <3>3. 1 <= p /\ p <= b BY <3>1, <3>2
    <3> QED BY <3>1, <3>2, <3>3
  <2>3. ASSUME p > offset PROVE w[p - offset] = c
    <3>1. PICK i \in Int : i = p - offset BY <2>2
    <3>2. a \in Int /\ sk \in Int /\ p \in Int /\ p <= a BY <1>0, <1>1
    <3>3. sk = offset /\ Len(u) = a - offset BY <1>1, <2>3, <3>2
    <3>4. 1 <= i /\ i <= a - offset BY <2>3, <3>1, <3>2
    <3>5. i \in 1 .. Len(u) BY <3>1, <3>2, <3>3, <3>4
    <3> QED BY <1>6, <2>1, <2>3, <3>1, <3>5
  <2> QED BY <1>3, <2>1, <2>2, <2>3
<1>11. ASSUME NEW k \in 1 .. m
       PROVE  \E p \in 1 .. b : p = Position(B, <<s, k>>) /\ (p > offset => w[p - offset] = <<s, k>>)
  <2>1. PICK p \in Int : p = a + k BY <1>0
  <2>2. p \in 1 .. b /\ p = Position(B, <<s, k>>)
    <3>1. Position(B, <<s, k>>) = a + k BY <1>3
    <3>2. p \in 1 .. b
      <4>1. 1 <= k /\ k <= m /\ k \in Int OBVIOUS
      <4> QED BY <1>0, <2>1, <4>1
    <3> QED BY <2>1, <3>1, <3>2
  <2>3. ASSUME p > offset PROVE w[p - offset] = <<s, k>>
    <3>1. skip = offset - sk /\ k > skip BY <1>1, <2>1, <2>3
    <3>2. PICK i \in Int : i = k - skip OBVIOUS
    <3>3. i \in 1 .. m - skip /\ skip + i = k BY <3>1, <3>2
    <3>4. part[i] = <<s, k>> BY <3>3
    <3>5. Len(u) + i = p - offset BY <1>1, <2>1, <3>1, <3>2
    <3>6. w[Len(u) + i] = part[i] BY <1>6, <3>3
    <3> QED BY <3>4, <3>5, <3>6
  <2> QED BY <2>2, <2>3
<1>12. \A c \in B : \E p \in 1 .. b : p = Position(B, c) /\ (p > offset => w[p - offset] = c)
  <2>1. SUFFICES ASSUME NEW c \in B PROVE \E p \in 1 .. b : p = Position(B, c) /\ (p > offset => w[p - offset] = c)
    OBVIOUS
  <2>2. CASE c \in A BY <1>10, <2>2
  <2>3. CASE c \in File(s, m)
    <3>1. PICK k \in 1 .. m : c = <<s, k>> BY <1>8, <2>3
    <3> QED BY <1>11, <3>1
  <2> QED BY <2>2, <2>3
<1> QED BY <1>3, <1>4, <1>6, <1>7, <1>9, <1>12 DEF At

LEMMA RowsRead ==
    ASSUME NEW offset \in Nat, NEW acc, NEW A, Reads(acc, A, offset), NEW s, Preceding(A, s),
           NEW m \in Nat, NEW rows, rows = [k \in 1 .. m |-> <<s, k>>]
    PROVE  Reads(ReadRows(acc, rows, offset), A \cup File(s, m), offset)
<1>1. PICK a, sk, u : a = Cardinality(A) /\ sk = acc.skipped /\ u = acc.rows OBVIOUS
<1>2. At(sk, u, A, a, offset) BY <1>1 DEF Reads
<1>3. a \in Nat /\ sk \in Nat /\ sk <= offset BY <1>2 DEF At
<1>4. Listing(rows) /\ Len(rows) = m /\ \A k \in 1 .. m : rows[k] = <<s, k>>
  <2>1. rows = [k \in 1 .. m |-> rows[k]] /\ \A k \in 1 .. m : rows[k] = <<s, k>> OBVIOUS
  <2> QED BY <2>1, ListingOf
<1>5. PICK d \in Nat : d = offset - sk BY <1>3
<1>6. PICK skip : skip = Min({Len(rows), offset - sk}) OBVIOUS
<1>7. skip \in Nat /\ skip <= m /\ skip <= d /\ (skip = m \/ skip = d)
  <2>1. skip = Min({m, d}) BY <1>4, <1>5, <1>6
  <2>2. m \in Int /\ d \in Int OBVIOUS
  <2>3. Min({m, d}) \in {m, d} /\ Min({m, d}) <= m /\ Min({m, d}) <= d BY <2>2, LesserOfTwo
  <2> QED BY <2>1, <2>3
<1>8. PICK part : part = SubSeq(rows, skip + 1, Len(rows)) OBVIOUS
<1>9. /\ Listing(part) /\ Len(part) = m - skip
      /\ \A i \in 1 .. m - skip : part[i] = <<s, skip + i>>
  <2>1. part = SubSeq(rows, skip + 1, m) BY <1>4, <1>8
  <2>2. m <= Len(rows) BY <1>4
  <2>3. /\ Listing(SubSeq(rows, skip + 1, m)) /\ Len(SubSeq(rows, skip + 1, m)) = m - skip
        /\ \A i \in 1 .. m - skip : skip + i \in 1 .. Len(rows) /\ SubSeq(rows, skip + 1, m)[i] = rows[skip + i]
    BY <1>4, <1>7, <2>2, SubSeqIs
  <2>4. \A i \in 1 .. m - skip : skip + i \in 1 .. m /\ part[i] = rows[skip + i] BY <1>4, <2>1, <2>3
  <2> QED BY <1>4, <2>1, <2>3, <2>4
<1>10. PICK q : q = ReadRows(acc, rows, offset) OBVIOUS
<1>11. q = [skipped |-> sk + skip, rows |-> u \o part] BY <1>1, <1>6, <1>8, <1>10 DEF ReadRows
<1>12. PICK t, w, B, b : t = sk + skip /\ w = u \o part /\ B = A \cup File(s, m) /\ b = a + m OBVIOUS
<1>13. At(t, w, B, b, offset) BY <1>2, <1>5, <1>7, <1>9, <1>12, AtMore
<1>14. b = Cardinality(B) BY <1>13 DEF At
<1>15. q = [skipped |-> q.skipped, rows |-> q.rows] /\ q.skipped = t /\ q.rows = w BY <1>11, <1>12
<1>16. Reads(q, B, offset) BY <1>13, <1>14, <1>15 DEF Reads
<1> QED BY <1>10, <1>12, <1>16

LEMMA FileIsRead ==
    ASSUME NEW offset \in Nat, NEW acc, NEW A, Reads(acc, A, offset), NEW s \in DOMAIN FileRows, Preceding(A, s)
    PROVE  Reads(ReadFile(acc, s, offset), A \cup File(s, FileRows[s]), offset)
<1>1. PICK a, sk, u, m : a = Cardinality(A) /\ sk = acc.skipped /\ u = acc.rows /\ m = FileRows[s] OBVIOUS
<1>2. At(sk, u, A, a, offset) BY <1>1 DEF Reads
<1>3. m \in Nat /\ a \in Nat /\ sk \in Nat /\ sk <= offset /\ Listing(u) BY <1>1, <1>2, StoreAssumption DEF At
<1>4. CASE offset - sk >= m
  <2>1. PICK q : q = ReadFile(acc, s, offset) OBVIOUS
  <2>2. acc = [skipped |-> sk, rows |-> u] BY <1>1 DEF Reads
  <2>3. q = [acc EXCEPT !.skipped = @ + m] BY <1>1, <1>4, <2>1 DEF ReadFile
  <2>4. q = [skipped |-> q.skipped, rows |-> q.rows] /\ q.skipped = sk + m /\ q.rows = u BY <2>2, <2>3
  <2>5. PICK part : part = << >> OBVIOUS
  <2>6. Listing(part) /\ Len(part) = 0
    <3>1. part = [i \in 1 .. 0 |-> part[i]] BY <2>5
    <3>2. 0 \in Nat OBVIOUS
    <3> QED BY <3>1, <3>2, ListingOf
  <2>7. u = u \o part
    <3>1. u \in Seq(Range(u)) BY <1>3 DEF Listing
    <3> QED BY <2>5, <3>1
  <2>8. PICK t, B, b : t = sk + m /\ B = A \cup File(s, m) /\ b = a + m OBVIOUS
  <2>9. m <= offset - sk /\ m <= m /\ Len(part) = m - m /\ \A i \in 1 .. m - m : part[i] = <<s, m + i>> BY <1>3, <1>4, <2>6
  <2>10. At(t, u, B, b, offset)
    <3>1. PICK skip \in Nat : skip = m BY <1>3
    <3>2. /\ skip <= m /\ skip <= offset - sk /\ Len(part) = m - skip
          /\ (\A i \in 1 .. m - skip : part[i] = <<s, skip + i>>) /\ t = sk + skip
      BY <2>8, <2>9, <3>1
    <3> QED BY <1>2, <1>3, <2>6, <2>7, <2>8, <3>1, <3>2, AtMore
  <2>11. b = Cardinality(B) BY <2>10 DEF At
  <2>12. q.skipped = t BY <2>4, <2>8
  <2>13. Reads(q, B, offset) BY <2>4, <2>10, <2>11, <2>12 DEF Reads
  <2> QED BY <1>1, <2>1, <2>8, <2>13
<1>5. CASE ~(offset - sk >= m)
  <2>1. ReadFile(acc, s, offset) = ReadRows(acc, RowsOf(s), offset) BY <1>1, <1>5 DEF ReadFile
  <2>2. RowsOf(s) = [k \in 1 .. m |-> <<s, k>>] BY <1>1 DEF RowsOf
  <2>3. PICK rows : rows = RowsOf(s) OBVIOUS
  <2>4. Reads(ReadRows(acc, rows, offset), A \cup File(s, m), offset) BY <1>3, <2>2, <2>3, RowsRead
  <2> QED BY <1>1, <2>1, <2>3, <2>4
<1> QED BY <1>4, <1>5
FilesOf(s) == UNION {File(x, FileRows[x]) : x \in s}

LEMMA OneMoreFile ==
    ASSUME NEW s \in SUBSET (DOMAIN FileRows), NEW x \in DOMAIN FileRows, x \notin s,
           IsFiniteSet(FilesOf(s)), Cardinality(FilesOf(s)) \in Nat
    PROVE  /\ IsFiniteSet(FilesOf(s \cup {x})) /\ Cardinality(FilesOf(s \cup {x})) \in Nat
           /\ Cardinality(FilesOf(s \cup {x})) = FileRows[x] + Cardinality(FilesOf(s))
<1>1. PICK A, B, m : A = FilesOf(s) /\ B = File(x, FileRows[x]) /\ m = FileRows[x] OBVIOUS
<1>2. FilesOf(s \cup {x}) = B \cup A BY <1>1 DEF FilesOf
<1>3. m \in Nat BY <1>1, StoreAssumption
<1>4. IsFiniteSet(B) /\ Cardinality(B) = m /\ \A c : c \in B <=> \E k \in 1 .. m : c = <<x, k>>
  <2>1. /\ IsFiniteSet(File(x, m)) /\ Cardinality(File(x, m)) = m
        /\ \A c : c \in File(x, m) <=> \E k \in 1 .. m : c = <<x, k>>
    BY <1>3, FileIs
  <2> QED BY <1>1, <2>1
<1>5. B \cap A = {}
  <2>1. ASSUME NEW c \in A PROVE c[1] \in s
    <3>1. PICK y \in s : c \in File(y, FileRows[y]) BY <1>1, <2>1 DEF FilesOf
    <3> QED BY <3>1 DEF File
  <2>2. \A c \in B : c[1] = x BY <1>4
  <2> QED BY <2>1, <2>2
<1>6. Cardinality(B \cap A) = 0 BY <1>5, FS_EmptySet
<1>7. IsFiniteSet(A) /\ Cardinality(A) \in Nat BY <1>1
<1>8. IsFiniteSet(B \cup A) /\ Cardinality(B \cup A) = Cardinality(B) + Cardinality(A) - Cardinality(B \cap A)
  BY <1>4, <1>7, FS_Union
<1>9. Cardinality(B \cup A) = m + Cardinality(A) BY <1>3, <1>4, <1>6, <1>7, <1>8
<1>10. PICK C : C = FilesOf(s \cup {x}) OBVIOUS
<1>11. IsFiniteSet(C) /\ Cardinality(C) = m + Cardinality(A) /\ Cardinality(C) \in Nat
  <2>1. C = B \cup A BY <1>2, <1>10
  <2>2. m + Cardinality(A) \in Nat BY <1>3, <1>7
  <2> QED BY <1>8, <1>9, <2>1, <2>2
<1> QED BY <1>1, <1>10, <1>11

LEMMA FilesAreFinite ==
    ASSUME NEW s \in SUBSET (DOMAIN FileRows)
    PROVE  /\ IsFiniteSet(s) /\ Cardinality(s) \in Nat
           /\ IsFiniteSet(FilesOf(s)) /\ Cardinality(FilesOf(s)) \in Nat
<1>1. IsFiniteSet(s) /\ Cardinality(s) \in Nat BY StoreAssumption, FS_Subset, FS_CardinalityType
<1> DEFINE T == {i \in 0 .. Cardinality(s) : \A r \in SUBSET s :
                     Cardinality(r) = i => IsFiniteSet(FilesOf(r)) /\ Cardinality(FilesOf(r)) \in Nat}
<1>2. ASSUME NEW r \in SUBSET s PROVE IsFiniteSet(r) /\ Cardinality(r) \in Nat BY <1>1, FS_Subset, FS_CardinalityType
<1>3. 0 \in T
  <2>1. ASSUME NEW r \in SUBSET s, Cardinality(r) = 0 PROVE IsFiniteSet(FilesOf(r)) /\ Cardinality(FilesOf(r)) \in Nat
    <3>1. r = {} BY <1>2, <2>1, FS_EmptySet
    <3>2. FilesOf(r) = {} BY <3>1 DEF FilesOf
    <3> QED BY <3>2, FS_EmptySet
  <2>2. 0 \in 0 .. Cardinality(s) BY <1>1
  <2> QED BY <2>1, <2>2
<1>4. ASSUME NEW m \in 1 .. Cardinality(s), m - 1 \in T PROVE m \in T
  <2>1. ASSUME NEW r \in SUBSET s, Cardinality(r) = m PROVE IsFiniteSet(FilesOf(r)) /\ Cardinality(FilesOf(r)) \in Nat
    <3>1. r # {} BY <2>1, FS_EmptySet
    <3>2. PICK x \in r : TRUE BY <3>1
    <3>3. PICK rest : rest = r \ {x} OBVIOUS
    <3>4. IsFiniteSet(r \ {x}) /\ Cardinality(r \ {x}) = Cardinality(r) - 1 BY <1>2, <3>2, FS_RemoveElement
    <3>5. Cardinality(rest) = m - 1 /\ rest \in SUBSET s BY <2>1, <3>3, <3>4
    <3>6. IsFiniteSet(FilesOf(rest)) /\ Cardinality(FilesOf(rest)) \in Nat BY <1>4, <3>5
    <3>7. x \notin rest /\ rest \in SUBSET (DOMAIN FileRows) /\ x \in DOMAIN FileRows /\ rest \cup {x} = r BY <3>2, <3>3
    <3> QED BY <3>6, <3>7, OneMoreFile
  <2>2. m \in 0 .. Cardinality(s) BY <1>1
  <2> QED BY <2>1, <2>2
<1>5. 0 .. Cardinality(s) \subseteq T
  <2> HIDE DEF T
  <2> QED BY <1>1, <1>3, <1>4, Counting
<1>6. Cardinality(s) \in T /\ s \in SUBSET s BY <1>1, <1>5
<1> QED BY <1>1, <1>6

LEMMA FilesCount ==
    ASSUME NEW stored \in SUBSET (DOMAIN FileRows)
    PROVE  FeatureCount(stored) = LegacyRows + Cardinality(FilesOf(stored))
<1> DEFINE Pick(s) == CHOOSE x \in s : TRUE
           Body(g) == [s \in SUBSET stored |-> IF s = {} THEN 0 ELSE FileRows[Pick(s)] + g[s \ {Pick(s)}]]
           h == [s \in SUBSET stored |-> Cardinality(FilesOf(s))]
           iter == CHOOSE g : g = Body(g)
<1>1. ASSUME NEW s \in SUBSET stored, s # {}
      PROVE  /\ Pick(s) \in s /\ s \ {Pick(s)} \in SUBSET stored
             /\ h[s] = FileRows[Pick(s)] + h[s \ {Pick(s)}]
  <2>1. PICK x : x = Pick(s) OBVIOUS
  <2>2. x \in s BY <1>1, <2>1
  <2>3. PICK rest : rest = s \ {x} OBVIOUS
  <2>4. rest \in SUBSET stored /\ rest \in SUBSET (DOMAIN FileRows) /\ x \in DOMAIN FileRows /\ x \notin rest /\ rest \cup {x} = s
    BY <2>2, <2>3
  <2>5. IsFiniteSet(FilesOf(rest)) /\ Cardinality(FilesOf(rest)) \in Nat BY <2>4, FilesAreFinite
  <2>6. Cardinality(FilesOf(s)) = FileRows[x] + Cardinality(FilesOf(rest)) BY <2>4, <2>5, OneMoreFile
  <2>7. h[s] = Cardinality(FilesOf(s)) /\ h[rest] = Cardinality(FilesOf(rest)) BY <2>4
  <2> HIDE DEF h, Pick
  <2> QED BY <2>1, <2>2, <2>3, <2>4, <2>6, <2>7
<1>2. h[{}] = 0
  <2>1. FilesOf({}) = {} BY DEF FilesOf
  <2> QED BY <2>1, FS_EmptySet
<1>3. h = Body(h)
  <2>1. h = [s \in SUBSET stored |-> h[s]] OBVIOUS
  <2> HIDE DEF h, Pick
  <2>2. \A s \in SUBSET stored : h[s] = IF s = {} THEN 0 ELSE FileRows[Pick(s)] + h[s \ {Pick(s)}] BY <1>1, <1>2
  <2> QED BY <2>1, <2>2
<1>4. iter = Body(iter)
  <2> HIDE DEF Body, h
  <2> QED BY <1>3
<1>5. FeatureCount(stored) = LegacyRows + iter[stored] BY DEF FeatureCount, MapThenSumSet, MapThenFoldSet
<1>6. IsFiniteSet(stored) /\ Cardinality(stored) \in Nat BY FilesAreFinite
<1>7. ASSUME NEW r \in SUBSET stored PROVE IsFiniteSet(r) /\ Cardinality(r) \in Nat BY FilesAreFinite
<1>8. ASSUME NEW r \in SUBSET stored PROVE iter[r] = IF r = {} THEN 0 ELSE FileRows[Pick(r)] + iter[r \ {Pick(r)}]
  <2>1. iter[r] = Body(iter)[r] BY <1>4
  <2> HIDE DEF iter, Pick
  <2> QED BY <2>1
<1> HIDE DEF iter, h, Pick
<1> DEFINE T == {i \in 0 .. Cardinality(stored) : \A r \in SUBSET stored : Cardinality(r) = i => iter[r] = h[r]}
<1>9. 0 \in T
  <2>1. ASSUME NEW r \in SUBSET stored, Cardinality(r) = 0 PROVE iter[r] = h[r]
    <3>1. r = {} BY <1>7, <2>1, FS_EmptySet
    <3> QED BY <1>2, <1>8, <3>1
  <2>2. 0 \in 0 .. Cardinality(stored) BY <1>6
  <2> QED BY <2>1, <2>2
<1>10. ASSUME NEW m \in 1 .. Cardinality(stored), m - 1 \in T PROVE m \in T
  <2>1. ASSUME NEW r \in SUBSET stored, Cardinality(r) = m PROVE iter[r] = h[r]
    <3>1. r # {} BY <2>1, FS_EmptySet
    <3>2. Pick(r) \in r /\ r \ {Pick(r)} \in SUBSET stored /\ h[r] = FileRows[Pick(r)] + h[r \ {Pick(r)}] BY <1>1, <3>1
    <3>3. Cardinality(r \ {Pick(r)}) = Cardinality(r) - 1 BY <1>7, <3>2, FS_RemoveElement
    <3>4. iter[r \ {Pick(r)}] = h[r \ {Pick(r)}] BY <1>10, <2>1, <3>2, <3>3
    <3> QED BY <1>8, <3>1, <3>2, <3>4
  <2>2. m \in 0 .. Cardinality(stored) BY <1>6
  <2> QED BY <2>1, <2>2
<1>11. 0 .. Cardinality(stored) \subseteq T
  <2> HIDE DEF T
  <2> QED BY <1>6, <1>9, <1>10, Counting
<1>12. Cardinality(stored) \in T /\ stored \in SUBSET stored BY <1>6, <1>11
<1>13. iter[stored] = h[stored] BY <1>12
<1>14. h[stored] = Cardinality(FilesOf(stored)) BY <1>12 DEF h
<1> QED BY <1>5, <1>13, <1>14

LEMMA CellsCount ==
    ASSUME NEW stored \in SUBSET (DOMAIN FileRows)
    PROVE  /\ IsFiniteSet(Cells(stored)) /\ Cardinality(Cells(stored)) \in Nat
           /\ FeatureCount(stored) = Cardinality(Cells(stored))
<1>1. PICK A, B : A = File(Null, LegacyRows) /\ B = FilesOf(stored) OBVIOUS
<1>2. Cells(stored) = A \cup B BY <1>1 DEF Cells, FilesOf
<1>3. IsFiniteSet(A) /\ Cardinality(A) = LegacyRows /\ LegacyRows \in Nat BY <1>1, StoreAssumption, FileIs
<1>4. IsFiniteSet(B) /\ Cardinality(B) \in Nat BY <1>1, FilesAreFinite
<1>5. A \cap B = {}
  <2>1. \A c \in A : c[1] = Null BY <1>1 DEF File
  <2>2. ASSUME NEW c \in B PROVE c[1] \in Nat
    <3>1. PICK y \in stored : c \in File(y, FileRows[y]) BY <1>1, <2>2 DEF FilesOf
    <3>2. c[1] = y BY <3>1 DEF File
    <3> QED BY <3>2, StoreAssumption
  <2> QED BY <2>1, <2>2, NullAssumption
<1>6. Cardinality(A \cap B) = 0 BY <1>5, FS_EmptySet
<1>7. IsFiniteSet(A \cup B) /\ Cardinality(A \cup B) = Cardinality(A) + Cardinality(B) - Cardinality(A \cap B)
  BY <1>3, <1>4, FS_Union
<1>8. FeatureCount(stored) = LegacyRows + Cardinality(B) BY <1>1, FilesCount
<1> QED BY <1>2, <1>3, <1>4, <1>6, <1>7, <1>8
(* The rows of all files, one file after another.                           *)
Cell == {<<s, k>> : s \in DOMAIN FileRows \cup {Null}, k \in Nat}
Parts(offset) == [skipped : 0 .. offset, rows : Seq(Cell)]

LEMMA RowsAreParts ==
    ASSUME NEW offset \in Nat, NEW acc \in Parts(offset), NEW rows \in Seq(Cell)
    PROVE  ReadRows(acc, rows, offset) \in Parts(offset)
<1>1. PICK sk, u : sk = acc.skipped /\ u = acc.rows OBVIOUS
<1>2. sk \in 0 .. offset /\ u \in Seq(Cell) BY <1>1 DEF Parts
<1>3. PICK l \in Nat : l = Len(rows) OBVIOUS
<1>4. PICK d \in Nat : d = offset - sk BY <1>2
<1>5. PICK skip : skip = Min({Len(rows), offset - sk}) OBVIOUS
<1>6. skip \in Int /\ skip >= 0 /\ skip <= l /\ skip <= d
  <2>1. l \in Int /\ d \in Int OBVIOUS
  <2>2. Min({l, d}) \in Int /\ Min({l, d}) <= l /\ Min({l, d}) <= d /\ (Min({l, d}) = l \/ Min({l, d}) = d)
    BY <2>1, LesserOfTwo
  <2>3. skip = Min({l, d}) BY <1>3, <1>4, <1>5
  <2> QED BY <2>2, <2>3
<1>7. PICK f \in Int : f = skip + 1 BY <1>6
<1>8. PICK part : part = SubSeq(rows, skip + 1, Len(rows)) OBVIOUS
<1>9. part \in Seq(Cell)
  <2>1. part = SubSeq(rows, f, l) BY <1>3, <1>7, <1>8
  <2>2. \A i \in f .. l : i \in 1 .. l BY <1>6, <1>7
  <2>3. \A i \in f .. l : rows[i] \in Cell
    <3>1. DOMAIN rows = 1 .. l /\ \A i \in 1 .. l : rows[i] \in Cell BY <1>3
    <3> QED BY <2>2, <3>1
  <2> HIDE DEF Cell
  <2>4. l \in Int OBVIOUS
  <2> QED BY <2>1, <2>3, <2>4, SubSeqProperties
<1>10. u \o part \in Seq(Cell) BY <1>2, <1>9, ConcatProperties
<1>11. ReadRows(acc, rows, offset) = [skipped |-> sk + skip, rows |-> u \o part] BY <1>1, <1>5, <1>8 DEF ReadRows
<1>12. sk + skip \in 0 .. offset BY <1>2, <1>4, <1>6
<1>13. PICK t, w : t = sk + skip /\ w = u \o part OBVIOUS
<1> QED BY <1>10, <1>11, <1>12, <1>13 DEF Parts

LEMMA FilesAreParts ==
    ASSUME NEW offset \in Nat, NEW acc \in Parts(offset), NEW s \in DOMAIN FileRows
    PROVE  ReadFile(acc, s, offset) \in Parts(offset)
<1>1. PICK sk, u, m : sk = acc.skipped /\ u = acc.rows /\ m = FileRows[s] OBVIOUS
<1>2. sk \in 0 .. offset /\ u \in Seq(Cell) /\ m \in Nat /\ acc = [skipped |-> sk, rows |-> u]
  BY <1>1, StoreAssumption DEF Parts
<1>3. CASE offset - sk >= m
  <2>1. ReadFile(acc, s, offset) = [acc EXCEPT !.skipped = @ + m] BY <1>1, <1>3 DEF ReadFile
  <2>2. ReadFile(acc, s, offset) = [skipped |-> sk + m, rows |-> u] BY <1>2, <2>1
  <2>3. sk + m \in 0 .. offset BY <1>2, <1>3
  <2>4. PICK t : t = sk + m OBVIOUS
  <2> QED BY <1>2, <2>2, <2>3, <2>4 DEF Parts
<1>4. CASE ~(offset - sk >= m)
  <2>1. ReadFile(acc, s, offset) = ReadRows(acc, RowsOf(s), offset) BY <1>1, <1>4 DEF ReadFile
  <2>2. PICK rows : rows = RowsOf(s) OBVIOUS
  <2>3. rows = [k \in 1 .. m |-> <<s, k>>] BY <1>1, <2>2 DEF RowsOf
  <2>4. rows \in Seq(Cell)
    <3>1. \A k \in 1 .. m : <<s, k>> \in Cell BY DEF Cell
    <3> HIDE DEF Cell
    <3> QED BY <1>2, <2>3, <3>1
  <2> QED BY <2>1, <2>2, <2>4, RowsAreParts
<1> QED BY <1>3, <1>4

AllRows(start, list, offset) == FoldLeft(LAMBDA acc, snapshot : ReadFile(acc, snapshot, offset), start, list)

FilesBySteps(start, list, offset) ==
    \E a : /\ AllRows(start, list, offset) = a[Len(list)]
           /\ a[0] = start
           /\ \A i \in 1 .. Len(list) : a[i] = ReadFile(a[i - 1], list[i], offset)

LEMMA FileSteps ==
    ASSUME NEW offset \in Nat, NEW start \in Parts(offset), NEW list, Listing(list), Range(list) \subseteq DOMAIN FileRows
    PROVE  FilesBySteps(start, list, offset)
<1> DEFINE n == Len(list)
           A == Parts(offset)
           step == [i \in 1 .. n |-> [acc \in A |-> ReadFile(acc, list[i], offset)]]
           Body(g) == [s \in SUBSET (1 .. n) |->
                          IF s = {} THEN start ELSE ReadFile(g[s \ {Max(s)}], list[Max(s)], offset)]
           iter == CHOOSE g : g = Body(g)
<1>0. n \in Nat /\ DOMAIN list = 1 .. n BY ListingIs
<1>1. ASSUME NEW acc \in A, NEW i \in 1 .. n PROVE ReadFile(acc, list[i], offset) \in A
  <2>1. list[i] \in DOMAIN FileRows BY ListingIs
  <2> QED BY <2>1, FilesAreParts
<1>2. step \in [1 .. n -> [A -> A]]
  <2> HIDE DEF A, n
  <2> QED BY <1>1
<1>3. PICK g \in [SUBSET (1 .. n) -> A] : Accumulates(g, n, start, step)
  <2> HIDE DEF step, n
  <2> QED BY <1>0, <1>2, FoldExists
<1>4. g = Body(g)
  <2>1. ASSUME NEW s \in SUBSET (1 .. n), s # {}
        PROVE  step[Max(s)][g[s \ {Max(s)}]] = ReadFile(g[s \ {Max(s)}], list[Max(s)], offset)
    <3>1. Max(s) \in 1 .. n
      <4> HIDE DEF n
      <4>1. Max(s) \in s BY <1>0, <2>1, GreatestNumber
      <4> QED BY <4>1
    <3>2. g[s \ {Max(s)}] \in A
      <4>1. s \ {Max(s)} \in SUBSET (1 .. n) OBVIOUS
      <4> HIDE DEF A, n
      <4> QED BY <4>1
    <3> HIDE DEF A, n
    <3> QED BY <3>1, <3>2
  <2> HIDE DEF A, n, step
  <2> QED BY <1>3, <2>1 DEF Accumulates
<1>5. iter = Body(iter)
  <2> HIDE DEF Body
  <2> QED BY <1>4
<1>6. AllRows(start, list, offset) = iter[1 .. n]
  BY <1>0 DEF AllRows, FoldLeft, MapThenFoldSet
<1> DEFINE a == [i \in 0 .. n |-> iter[To(i)]]
<1> HIDE DEF iter
<1>7. a[0] = start
  <2>1. To(0) = {} /\ {} \in SUBSET (1 .. n) BY DEF To
  <2>2. iter[To(0)] = start
    <3>1. iter[To(0)] = Body(iter)[To(0)] BY <1>5
    <3> QED BY <2>1, <3>1
  <2> QED BY <1>0, <2>2
<1>8. ASSUME NEW i \in 1 .. n PROVE a[i] = ReadFile(a[i - 1], list[i], offset)
  <2>1. To(i) \in SUBSET (1 .. n) /\ To(i) # {} /\ Max(To(i)) = i /\ To(i) \ {i} = To(i - 1)
    <3> HIDE DEF n
    <3> QED BY <1>0, FirstPlaces
  <2>2. iter[To(i)] = ReadFile(iter[To(i - 1)], list[i], offset)
    <3>1. iter[To(i)] = Body(iter)[To(i)] BY <1>5
    <3> QED BY <2>1, <3>1
  <2> QED BY <1>0, <2>2
<1>9. a[n] = iter[1 .. n] BY <1>0 DEF To
<1> HIDE DEF a, n
<1> QED BY <1>6, <1>7, <1>8, <1>9 DEF n, FilesBySteps
\* The cells of the legacy rows and of the first i files of a list.
CellsTo(list, i) == File(Null, LegacyRows) \cup UNION {File(list[j], FileRows[list[j]]) : j \in 1 .. i}

LEMMA FilesInOrder ==
    ASSUME NEW stored \in SUBSET (DOMAIN FileRows), NEW list, list = Increasing(stored)
    PROVE  /\ Listing(list) /\ Range(list) = stored
           /\ \A i \in 1 .. Len(list) : list[i] \in stored
           /\ \A i, j \in 1 .. Len(list) : j < i => list[j] < list[i]
<1>1. IsFiniteSet(stored) /\ stored \subseteq Nat BY FilesAreFinite, StoreAssumption
<1>2. OrderedList(list, stored, LessThan(stored)) /\ \A a, b \in stored : <<a, b>> \in LessThan(stored) <=> a < b
  BY <1>1, NumbersAreOrdered
<1> QED BY <1>2 DEF OrderedList

LEMMA NextFilePrecedes ==
    ASSUME NEW stored \in SUBSET (DOMAIN FileRows), NEW list, list = Increasing(stored), NEW i \in 1 .. Len(list),
           IsFiniteSet(CellsTo(list, i - 1))
    PROVE  /\ Preceding(CellsTo(list, i - 1), list[i])
           /\ CellsTo(list, i) = CellsTo(list, i - 1) \cup File(list[i], FileRows[list[i]])
<1>1. /\ Listing(list) /\ \A j \in 1 .. Len(list) : list[j] \in stored /\ list[j] \in Nat
      /\ \A k, j \in 1 .. Len(list) : j < k => list[j] < list[k]
  BY FilesInOrder, StoreAssumption
<1>2. Len(list) \in Nat BY <1>1, ListingIs
<1>3. PICK s \in Nat : s = list[i] BY <1>1
<1>4. s # Null BY NullAssumption
<1>5. ASSUME NEW c \in CellsTo(list, i - 1) PROVE c[1] # s /\ (c[1] = Null \/ (c[1] \in Nat /\ c[1] < s))
  <2>1. CASE c \in File(Null, LegacyRows)
    <3>1. c[1] = Null BY <2>1 DEF File
    <3> QED BY <1>4, <3>1
  <2>2. ASSUME NEW j \in 1 .. i - 1, c \in File(list[j], FileRows[list[j]])
        PROVE  c[1] # s /\ c[1] \in Nat /\ c[1] < s
    <3>1. c[1] = list[j] BY <2>2 DEF File
    <3>2. j \in 1 .. Len(list) /\ j < i BY <1>2
    <3> QED BY <1>1, <1>3, <3>1, <3>2
  <2> QED BY <1>5, <2>1, <2>2 DEF CellsTo
<1>6. \A c \in CellsTo(list, i - 1) : \A k \in Nat : CellLess(c, <<s, k>>) /\ ~CellLess(<<s, k>>, c)
  BY <1>4, <1>5 DEF CellLess
<1>7. Preceding(CellsTo(list, i - 1), s) BY <1>5, <1>6 DEF Preceding
<1>8. \A j : j \in 1 .. i <=> j \in 1 .. i - 1 \/ j = i BY <1>2
<1>9. CellsTo(list, i) = CellsTo(list, i - 1) \cup File(list[i], FileRows[list[i]]) BY <1>8 DEF CellsTo
<1> QED BY <1>3, <1>7, <1>9

LEMMA AllAreRead ==
    ASSUME NEW stored \in SUBSET (DOMAIN FileRows), NEW offset \in Nat, NEW start,
           start = ReadRows([skipped |-> 0, rows |-> << >>], Legacy, offset)
    PROVE  Reads(AllRows(start, Increasing(stored), offset), Cells(stored), offset)
<1>1. PICK none : none = [skipped |-> 0, rows |-> << >>] OBVIOUS
<1>2. PICK list : list = Increasing(stored) OBVIOUS
<1>3. PICK n : n = Len(list) OBVIOUS
<1>4. /\ Listing(list) /\ Range(list) = stored /\ \A i \in 1 .. n : list[i] \in stored
  BY <1>2, <1>3, FilesInOrder
<1>5. n \in Nat /\ \A x : x \in Range(list) <=> \E i \in 1 .. n : list[i] = x BY <1>3, <1>4, ListingIs
<1>6. Reads(none, {}, offset)
  <2>1. PICK u : u = << >> OBVIOUS
  <2>2. u = [i \in 1 .. 0 |-> u[i]] /\ 0 \in Nat BY <2>1
  <2>3. Listing(u) /\ Len(u) = 0 BY <2>2, ListingOf
  <2>4. \A x : x \notin Range(u) BY <2>3, ListingIs
  <2>5. IsFiniteSet({}) /\ Cardinality({}) = 0 BY FS_EmptySet
  <2>6. At(0, u, {}, 0, offset) BY <2>3, <2>4, <2>5 DEF At
  <2> QED BY <1>1, <2>1, <2>5, <2>6 DEF Reads
<1>7. none \in Parts(offset)
  <2>1. << >> \in Seq(Cell) /\ 0 \in 0 .. offset OBVIOUS
  <2> QED BY <1>1, <2>1 DEF Parts
<1>8. LegacyRows \in Nat BY StoreAssumption
<1>9. PICK m \in Nat : m = LegacyRows BY <1>8
<1>10. PICK rows : rows = Legacy OBVIOUS
<1>11. rows = [k \in 1 .. m |-> <<Null, k>>] BY <1>9, <1>10 DEF Legacy
<1>12. rows \in Seq(Cell)
  <2>1. \A k \in 1 .. m : <<Null, k>> \in Cell BY DEF Cell
  <2> HIDE DEF Cell
  <2> QED BY <1>11, <2>1
<1>13. start = ReadRows(none, rows, offset) BY <1>1, <1>10
<1>14. start \in Parts(offset) BY <1>7, <1>12, <1>13, RowsAreParts
<1>15. Reads(start, CellsTo(list, 0), offset)
  <2>1. Preceding({}, Null)
    <3>1. IsFiniteSet({}) BY FS_EmptySet
    <3> QED BY <3>1 DEF Preceding
  <2>2. Reads(ReadRows(none, rows, offset), {} \cup File(Null, m), offset) BY <1>6, <1>11, <2>1, RowsRead
  <2>3. CellsTo(list, 0) = {} \cup File(Null, m)
    <3>1. \A j : j \notin 1 .. 0 OBVIOUS
    <3> QED BY <1>9, <3>1 DEF CellsTo
  <2> QED BY <1>13, <2>2, <2>3
<1>16. PICK a : /\ AllRows(start, list, offset) = a[n] /\ a[0] = start
                /\ \A i \in 1 .. n : a[i] = ReadFile(a[i - 1], list[i], offset)
  <2>1. FilesBySteps(start, list, offset) BY <1>4, <1>14, FileSteps
  <2> QED BY <1>3, <2>1 DEF FilesBySteps
<1> DEFINE T == {i \in 0 .. n : Reads(a[i], CellsTo(list, i), offset)}
<1>17. 0 \in T
  <2>1. 0 \in 0 .. n BY <1>5
  <2> QED BY <1>15, <1>16, <2>1
<1>18. ASSUME NEW i \in 1 .. n, i - 1 \in T PROVE i \in T
  <2>1. PICK A, before, s : A = CellsTo(list, i - 1) /\ before = a[i - 1] /\ s = list[i] OBVIOUS
  <2>2. Reads(before, A, offset) BY <1>18, <2>1
  <2>3. IsFiniteSet(A) BY <2>2 DEF Reads, At
  <2>4. Preceding(A, s) /\ CellsTo(list, i) = A \cup File(s, FileRows[s])
    BY <1>2, <1>3, <2>1, <2>3, NextFilePrecedes
  <2>5. s \in DOMAIN FileRows BY <1>4, <2>1
  <2>6. Reads(ReadFile(before, s, offset), A \cup File(s, FileRows[s]), offset) BY <2>2, <2>4, <2>5, FileIsRead
  <2>7. a[i] = ReadFile(before, s, offset) BY <1>16, <2>1
  <2>8. i \in 0 .. n BY <1>5
  <2> QED BY <2>4, <2>6, <2>7, <2>8
<1>19. 0 .. n \subseteq T
  <2> HIDE DEF T
  <2> QED BY <1>5, <1>17, <1>18, Counting
<1>20. n \in T BY <1>5, <1>19
<1>21. CellsTo(list, n) = Cells(stored)
  <2>1. UNION {File(list[j], FileRows[list[j]]) : j \in 1 .. n} = UNION {File(s, FileRows[s]) : s \in stored}
    BY <1>4, <1>5
  <2> QED BY <2>1 DEF CellsTo, Cells
<1> QED BY <1>2, <1>16, <1>20, <1>21

LEMMA FeaturesAreRead ==
    ASSUME NEW stored \in SUBSET (DOMAIN FileRows), NEW offset \in Nat, NEW limit \in Nat
    PROVE  /\ Listing(FeatureRows(stored, offset, limit))
           /\ \A c \in Range(FeatureRows(stored, offset, limit)) : c \in Cells(stored)
           /\ \A c \in Cells(stored) :
                  /\ Position(Cells(stored), c) \in 1 .. Cardinality(Cells(stored))
                  /\ offset < Position(Cells(stored), c) /\ Position(Cells(stored), c) <= offset + limit
                     => c \in Range(FeatureRows(stored, offset, limit))
<1>1. PICK start : start = ReadRows([skipped |-> 0, rows |-> << >>], Legacy, offset) OBVIOUS
<1>2. PICK acc : acc = AllRows(start, Increasing(stored), offset) OBVIOUS
<1>3. PICK A, all, sk : A = Cells(stored) /\ all = acc.rows /\ sk = acc.skipped OBVIOUS
<1>4. PICK rows : rows = FeatureRows(stored, offset, limit) OBVIOUS
<1>5. rows = SubSeq(all, 1, Min({limit, Len(all)}))
  BY <1>1, <1>2, <1>3, <1>4 DEF FeatureRows, AllRows, Increasing, Sorted, FoldLeft, MapThenFoldSet
<1>6. Reads(acc, A, offset) BY <1>1, <1>2, <1>3, AllAreRead
<1>7. PICK n : n = Cardinality(A) OBVIOUS
<1>8. At(sk, all, A, n, offset) BY <1>3, <1>6, <1>7 DEF Reads
<1>9. /\ n \in Nat /\ sk \in Nat /\ sk <= offset /\ sk <= n /\ (sk = offset \/ sk = n)
      /\ Listing(all) /\ Len(all) = n - sk
  BY <1>8 DEF At
<1>10. PICK l \in Nat : l = Len(all) BY <1>9, ListingIs
<1>11. PICK h : h = Min({limit, l}) OBVIOUS
<1>12. h \in Nat /\ h <= limit /\ h <= l /\ (h = limit \/ h = l)
  <2>1. l \in Int /\ limit \in Int OBVIOUS
  <2>2. Min({limit, l}) \in Int /\ Min({limit, l}) <= limit /\ Min({limit, l}) <= l
        /\ (Min({limit, l}) = limit \/ Min({limit, l}) = l)
    BY <2>1, LesserOfTwo
  <2> QED BY <1>11, <2>2
<1>13. /\ Listing(rows) /\ Len(rows) = h /\ \A i \in 1 .. h : rows[i] = all[i]
  <2>1. PICK z \in Nat : z = 0 OBVIOUS
  <2>2. rows = SubSeq(all, z + 1, h)
    <3>1. z + 1 = 1 BY <2>1
    <3> QED BY <1>5, <1>10, <1>11, <3>1
  <2>3. z <= h /\ h <= Len(all) BY <1>10, <1>12, <2>1
  <2>4. /\ Listing(SubSeq(all, z + 1, h)) /\ Len(SubSeq(all, z + 1, h)) = h - z
        /\ \A i \in 1 .. h - z : z + i \in 1 .. Len(all) /\ SubSeq(all, z + 1, h)[i] = all[z + i]
    BY <1>9, <1>12, <2>3, SubSeqIs
  <2>5. h - z = h /\ \A i \in 1 .. h : z + i = i BY <1>12, <2>1
  <2> QED BY <2>2, <2>4, <2>5
<1>14. ASSUME NEW c \in Range(rows) PROVE c \in A
  <2>1. PICK i \in 1 .. h : rows[i] = c BY <1>13, <1>14, ListingIs
  <2>2. i \in 1 .. Len(all) BY <1>10, <1>12
  <2>3. c \in Range(all) BY <1>9, <1>13, <2>1, <2>2, ListingIs
  <2> QED BY <1>8, <2>3 DEF At
<1>15. ASSUME NEW c \in A
       PROVE  \E p \in 1 .. n : p = Position(A, c) /\ (offset < p /\ p <= offset + limit => c \in Range(rows))
  <2>1. PICK p \in 1 .. n : p = Position(A, c) /\ (p > offset => all[p - offset] = c) BY <1>8 DEF At
  <2>2. ASSUME offset < p, p <= offset + limit PROVE c \in Range(rows)
    <3>1. PICK i \in Int : i = p - offset BY <2>1
    <3>2. p \in Int /\ 1 <= p /\ p <= n BY <1>9
    <3>3. sk = offset BY <1>9, <2>2, <3>2
    <3>4. 1 <= i /\ i <= limit /\ i <= l BY <1>9, <1>10, <2>2, <3>1, <3>2, <3>3
    <3>5. i \in 1 .. h BY <1>12, <3>4
    <3>6. rows[i] = c BY <1>13, <2>1, <2>2, <3>1, <3>5
    <3> QED BY <1>13, <3>5, <3>6, ListingIs
  <2> QED BY <2>1, <2>2
<1>16. \A c \in A : /\ Position(A, c) \in 1 .. n
                    /\ offset < Position(A, c) /\ Position(A, c) <= offset + limit => c \in Range(rows)
  BY <1>15
<1> QED BY <1>3, <1>4, <1>7, <1>13, <1>14, <1>16
FeaturesOK(r, stored) ==
    /\ Shaped(r) /\ r.kind = "features" /\ r.step \in {"rows", "done"} /\ r.offset \in Nat
    /\ Listing(r.out) /\ r.owed \subseteq Cells(stored)
    /\ \A c \in r.owed : c \in Range(r.out) \/ (r.step = "rows" /\ Position(Cells(stored), c) > r.offset)

LEMMA PositionGrows ==
    ASSUME NEW more, IsFiniteSet(more), NEW S \in SUBSET more, NEW c
    PROVE  Position(S, c) \in Nat /\ Position(more, c) \in Nat /\ Position(S, c) <= Position(more, c)
<1> DEFINE A == AheadOf(S, c)
           B == AheadOf(more, c)
<1>1. A \in SUBSET B /\ B \in SUBSET more BY DEF AheadOf
<1>2. IsFiniteSet(B) BY <1>1, FS_Subset
<1>3. Position(S, c) = Cardinality(A) + 1 /\ Position(more, c) = Cardinality(B) + 1 BY DEF Position
<1> HIDE DEF A, B
<1>4. IsFiniteSet(A) /\ Cardinality(A) <= Cardinality(B) BY <1>1, <1>2, FS_Subset
<1>5. Cardinality(A) \in Nat /\ Cardinality(B) \in Nat BY <1>2, <1>4, FS_CardinalityType
<1> QED BY <1>3, <1>4, <1>5

LEMMA FeaturesGrow ==
    ASSUME NEW later \in SUBSET (DOMAIN FileRows), NEW stored \in SUBSET later, NEW r, FeaturesOK(r, stored)
    PROVE  FeaturesOK(r, later)
<1>1. PICK A, B : A = Cells(stored) /\ B = Cells(later) OBVIOUS
<1>2. A \in SUBSET B BY <1>1 DEF Cells
<1>3. IsFiniteSet(B) BY <1>1, CellsCount
<1>4. ASSUME NEW c \in r.owed PROVE c \in Range(r.out) \/ (r.step = "rows" /\ Position(B, c) > r.offset)
  <2>1. Position(A, c) \in Nat /\ Position(B, c) \in Nat /\ Position(A, c) <= Position(B, c) BY <1>2, <1>3, PositionGrows
  <2>2. PICK p, q \in Nat : p = Position(A, c) /\ q = Position(B, c) BY <2>1
  <2>3. c \in Range(r.out) \/ (r.step = "rows" /\ p > r.offset) BY <1>1, <2>2 DEF FeaturesOK
  <2>4. r.offset \in Nat /\ p <= q BY <2>1, <2>2 DEF FeaturesOK
  <2> QED BY <2>2, <2>3, <2>4
<1> QED BY <1>1, <1>2, <1>4 DEF FeaturesOK

LEMMA FeaturesStep ==
    ASSUME MarksInv, FeaturesOK(reader, files), ReadFeatures
    PROVE  FeaturesOK(reader', files)
<1>1. PICK rows, A, n : rows = FeatureRows(files, reader.offset, ExportPage) /\ A = Cells(files) /\ n = Cardinality(A)
  OBVIOUS
<1>2. files \in SUBSET (DOMAIN FileRows) BY DEF MarksInv
<1>3. reader.offset \in Nat /\ ExportPage \in Nat /\ Shaped(reader) /\ Listing(reader.out) BY StoreAssumption DEF FeaturesOK
<1>4. PICK upto \in Nat : upto = reader.offset + ExportPage BY <1>3
<1>5. n \in Nat /\ FeatureCount(files) = n BY <1>1, <1>2, CellsCount
<1>6. /\ Listing(rows)
      /\ \A c \in A : /\ Position(A, c) \in 1 .. n
                      /\ reader.offset < Position(A, c) /\ Position(A, c) <= upto => c \in Range(rows)
  BY <1>1, <1>2, <1>3, <1>4, FeaturesAreRead
<1>7. PICK out, step : out = reader.out \o rows /\ step = (IF upto < n THEN "rows" ELSE "done") OBVIOUS
<1>8. Listing(out) /\ \A x : x \in Range(out) <=> x \in Range(reader.out) \/ x \in Range(rows)
  BY <1>3, <1>6, <1>7, JoinedListing
<1>9. reader.step = "rows" BY DEF ReadFeatures
<1>10. "out" \in DOMAIN reader /\ "offset" \in DOMAIN reader BY <1>3 DEF Shaped, ReaderFields
<1>11. PICK q : q = reader' OBVIOUS
<1>12. q = [reader EXCEPT !.out = out, !.offset = upto, !.step = step]
  BY <1>1, <1>4, <1>5, <1>7, <1>10, <1>11 DEF ReadFeatures
<1>13. q = WithRows(reader, out, upto, step) BY <1>12 DEF WithRows
<1>14. Advanced(q, reader, reader.page, out, upto, step) BY <1>3, <1>13, RowsAdvance
<1>15. ASSUME NEW c \in reader.owed PROVE c \in Range(out) \/ (step = "rows" /\ Position(A, c) > upto)
  <2>1. c \in Range(reader.out) \/ Position(A, c) > reader.offset BY <1>1 DEF FeaturesOK
  <2>2. c \in A BY <1>1 DEF FeaturesOK
  <2>3. PICK p \in 1 .. n : p = Position(A, c) /\ (reader.offset < p /\ p <= upto => c \in Range(rows)) BY <1>6, <2>2
  <2>4. CASE c \in Range(reader.out) BY <1>8, <2>4
  <2>5. CASE p > reader.offset /\ p <= upto BY <1>3, <1>8, <2>3, <2>5
  <2>6. CASE ~(p <= upto)
    <3>1. p > upto /\ upto < n BY <1>5, <2>6
    <3> QED BY <1>7, <2>3, <3>1
  <2> QED BY <2>1, <2>3, <2>4, <2>5, <2>6
<1>16. reader.owed \subseteq A /\ reader.kind = "features" BY <1>1 DEF FeaturesOK
<1>17. step \in {"rows", "done"} BY <1>7
<1>18. FeaturesOK(q, files)
  BY <1>1, <1>4, <1>8, <1>14, <1>15, <1>16, <1>17 DEF FeaturesOK, Advanced
<1> QED BY <1>11, <1>18

LEMMA FeaturesStart == ASSUME MarksInv, PageFeatures PROVE FeaturesOK(reader', files)
<1>1. PICK rows, A, n, none : /\ rows = FeatureRows(files, 0, n) /\ A = Cells(files) /\ n = FeatureCount(files)
                              /\ none = << >>
  OBVIOUS
<1>2. files \in SUBSET (DOMAIN FileRows) BY DEF MarksInv
<1>3. n \in Nat /\ n = Cardinality(A) BY <1>1, <1>2, CellsCount
<1>4. PICK z \in Nat : z = 0 OBVIOUS
<1>5. (\A c \in Range(rows) : c \in A) /\ \A c \in A : Position(A, c) \in 1 .. n
  BY <1>1, <1>2, <1>3, <1>4, FeaturesAreRead
<1>6. PICK q : q = reader' OBVIOUS
<1>7. PICK owed : owed = Range(rows) OBVIOUS
<1>8. q = [Started("features", {}, owed) EXCEPT !.step = "rows"] BY <1>1, <1>6, <1>7 DEF PageFeatures
<1>9. q = [kind |-> "features", step |-> "rows", ids |-> {}, offset |-> 0, page |-> none, out |-> none, owed |-> owed]
  BY <1>1, <1>8 DEF Started
<1>10. Shaped(q) BY <1>9 DEF Shaped, ReaderFields
<1>11. Listing(none)
  <2>1. none = [i \in 1 .. z |-> none[i]] BY <1>1, <1>4
  <2> QED BY <2>1, ListingOf
<1>12. \A c \in owed : c \in A /\ Position(A, c) > 0 BY <1>3, <1>5, <1>7
<1>13. FeaturesOK(q, files) BY <1>1, <1>9, <1>10, <1>11, <1>12 DEF FeaturesOK
<1> QED BY <1>6, <1>13

LEMMA StreamStarts ==
    ASSUME MarksInv, NEW kind \in {"stream", "evidence"}, NEW ids, NEW owed \in SUBSET (DOMAIN findings),
           kind = "evidence" => \E id \in DOMAIN findings : ids = {id} /\ owed = {id},
           NEW q, q = Started(kind, ids, owed)
    PROVE  StreamOK(q, reviews)
<1>1. PICK none : none = << >> OBVIOUS
<1>2. q = [kind |-> kind, step |-> "findings", ids |-> ids, offset |-> 0, page |-> none, out |-> none, owed |-> owed]
  BY <1>1 DEF Started
<1>3. Shaped(q) BY <1>2 DEF Shaped, ReaderFields
<1>4. Listing(none) /\ Len(none) = 0
  <2>1. PICK z \in Nat : z = 0 OBVIOUS
  <2>2. none = [i \in 1 .. z |-> none[i]] BY <1>1, <2>1
  <2> QED BY <2>1, <2>2, ListingOf
<1>5. DOMAIN reviews = DOMAIN findings /\ DOMAIN findings \subseteq Findings BY DEF MarksInv
<1>6. IsFiniteSet(DOMAIN findings) BY <1>5, StoreAssumption, FS_Subset
<1>7. ASSUME NEW x PROVE RankOf(DOMAIN reviews, x) >= 0
  <2>1. RankOf(DOMAIN findings, x) \in Nat BY <1>6, RankGrows
  <2> QED BY <1>5, <2>1
<1>8. \A x \in owed : Accounted(q, DOMAIN reviews, x) BY <1>2, <1>7 DEF Accounted
<1> QED BY <1>2, <1>3, <1>4, <1>5, <1>8 DEF StreamOK

-----------------------------------------------------------------------------
(* Whatever is exported, the export is on its way to being whole.           *)

ReaderInv(r, told, stored) == r # Null => StreamOK(r, told) \/ FeaturesOK(r, stored)

ExportInv == MarksInv /\ ReaderInv(reader, reviews, files)

LEMMA ExportsStep == ExportInv /\ [CaseNext]_allVars => ExportInv'
<1> SUFFICES ASSUME ExportInv, [CaseNext]_allVars PROVE ExportInv'
  OBVIOUS
<1>1. MarksInv /\ MarksInv' /\ Grows BY MarksGrow DEF ExportInv
<1>2. ReaderInv(reader, reviews, files) BY DEF ExportInv
<1>3. CASE reader' = reader
  <2>1. PICK told, later, stored, more, r :
            told = reviews /\ later = reviews' /\ stored = files /\ more = files' /\ r = reader
    OBVIOUS
  <2>2. MoreTold(told, later)
    <3>1. DOMAIN told = DOMAIN findings /\ DOMAIN later = DOMAIN findings' BY <1>1, <2>1 DEF MarksInv
    <3>2. DOMAIN told \subseteq DOMAIN later BY <1>1, <3>1 DEF Grows
    <3>3. DOMAIN told \subseteq Findings /\ DOMAIN later \subseteq Findings BY <1>1, <3>1 DEF MarksInv
    <3>4. \A id \in DOMAIN told : told[id] \in Seq(Dispositions) /\ IsPrefix0(told[id], later[id])
      BY <1>1, <2>1, <3>1 DEF MarksInv, Grows
    <3>5. \A id \in DOMAIN later : later[id] \in Seq(Dispositions) BY <1>1, <2>1, <3>1 DEF MarksInv
    <3> QED BY <3>2, <3>3, <3>4, <3>5 DEF MoreTold
  <2>3. StreamOK(r, told) => StreamOK(r, later) BY <2>2, StreamGrows
  <2>4. more \in SUBSET (DOMAIN FileRows) /\ stored \in SUBSET more BY <1>1, <2>1 DEF MarksInv, Grows
  <2>5. FeaturesOK(r, stored) => FeaturesOK(r, more) BY <2>4, FeaturesGrow
  <2>6. ReaderInv(r, later, more) BY <1>2, <2>1, <2>3, <2>5 DEF ReaderInv
  <2> QED BY <1>1, <1>3, <2>1, <2>6 DEF ExportInv
<1>4. ASSUME reviews' = reviews, files' = files, StreamOK(reader', reviews) \/ FeaturesOK(reader', files)
      PROVE  ExportInv'
  BY <1>1, <1>4 DEF ExportInv, ReaderInv
<1>5. CASE Stream
  <2>1. PICK owed, q : owed = DOMAIN findings /\ q = reader' OBVIOUS
  <2>2. q = Started("stream", {}, owed) BY <1>5, <2>1 DEF Stream
  <2>3. StreamOK(q, reviews) BY <1>1, <2>1, <2>2, StreamStarts
  <2> QED BY <1>4, <1>5, <2>1, <2>3 DEF Stream
<1>6. ASSUME NEW id \in DOMAIN findings, Evidence(id) PROVE ExportInv'
  <2>1. PICK ids, q : ids = {id} /\ q = reader' OBVIOUS
  <2>2. q = Started("evidence", ids, ids) BY <1>6, <2>1 DEF Evidence
  <2>3. ids \in SUBSET (DOMAIN findings) /\ \E i \in DOMAIN findings : ids = {i} /\ ids = {i} BY <2>1
  <2>4. StreamOK(q, reviews) BY <1>1, <2>2, <2>3, StreamStarts
  <2> QED BY <1>4, <1>6, <2>1, <2>4 DEF Evidence
<1>7. CASE PageFeatures
  <2>1. FeaturesOK(reader', files) BY <1>1, <1>7, FeaturesStart
  <2> QED BY <1>4, <1>7, <2>1 DEF PageFeatures
<1>8. ASSUME reader # Null, reader.step \in {"findings", "reviews", "audits"} PROVE StreamOK(reader, reviews)
  BY <1>2, <1>8 DEF ReaderInv, FeaturesOK
<1>9. CASE ReadFindings
  <2>1. StreamOK(reader, reviews) BY <1>8, <1>9 DEF ReadFindings
  <2>2. StreamOK(reader', reviews) BY <1>1, <1>9, <2>1, FindingsStep
  <2> QED BY <1>4, <1>9, <2>2 DEF ReadFindings
<1>10. CASE ReadReviews
  <2>1. StreamOK(reader, reviews) BY <1>8, <1>10 DEF ReadReviews
  <2>2. StreamOK(reader', reviews) BY <1>1, <1>10, <2>1, ReviewsStep
  <2> QED BY <1>4, <1>10, <2>2 DEF ReadReviews
<1>11. CASE ReadAudits
  <2>1. StreamOK(reader, reviews) BY <1>8, <1>11 DEF ReadAudits
  <2>2. StreamOK(reader', reviews) BY <1>1, <1>11, <2>1, AuditsStep
  <2> QED BY <1>4, <1>11, <2>2 DEF ReadAudits
<1>12. CASE ReadFeatures
  <2>1. FeaturesOK(reader, files) BY <1>2, <1>12 DEF ReadFeatures, ReaderInv, StreamOK
  <2>2. FeaturesOK(reader', files) BY <1>1, <1>12, <2>1, FeaturesStep
  <2> QED BY <1>4, <1>12, <2>2 DEF ReadFeatures
<1>13. \/ reader' = reader
       \/ Stream \/ PageFeatures \/ \E id \in DOMAIN findings : Evidence(id)
       \/ ReadFindings \/ ReadReviews \/ ReadAudits \/ ReadFeatures
  BY DEF CaseNext, allVars, readingVars, ReadingNext, StoreFindings, StoreFeatures, Decide
<1> QED BY <1>3, <1>5, <1>6, <1>7, <1>9, <1>10, <1>11, <1>12, <1>13

LEMMA ExportsAreWhole == ExportInv => ExportIsWhole
<1> SUFFICES ASSUME ExportInv, reader # Null
             PROVE  /\ reader.step = "done" =>
                           reader.owed \subseteq
                               IF reader.kind = "features" THEN Range(reader.out) ELSE {reader.out[k].id : k \in DOMAIN reader.out}
                    /\ reader.kind # "features" => \A k \in DOMAIN reader.out : HistoryCovers(reader.out[k])
  BY DEF ExportIsWhole
<1>1. CASE StreamOK(reader, reviews)
  <2>1. DOMAIN reader.out = 1 .. Len(reader.out) BY <1>1, ListingIs DEF StreamOK
  <2>2. reader.kind # "features" BY <1>1 DEF StreamOK
  <2>3. reader.step = "done" => \A x \in reader.owed : Sent(reader, x) BY <1>1 DEF StreamOK, Accounted
  <2> QED BY <1>1, <2>1, <2>2, <2>3 DEF StreamOK, Sent
<1>2. CASE FeaturesOK(reader, files) BY <1>2 DEF FeaturesOK
<1> QED BY <1>1, <1>2 DEF ExportInv, ReaderInv

LEMMA ExportsBegin == CaseInit => ExportInv
<1> SUFFICES ASSUME CaseInit PROVE ExportInv
  OBVIOUS
<1>1. findings = << >> /\ reviews = << >> /\ files = {} /\ reader = Null BY DEF CaseInit, ReadingInit
<1>2. DOMAIN findings = {} /\ DOMAIN reviews = {} BY <1>1
<1>3. findings \in [DOMAIN findings -> Marks] /\ reviews \in [DOMAIN findings -> Seq(Dispositions)]
  <2>1. findings = [x \in {} |-> findings[x]] /\ reviews = [x \in {} |-> reviews[x]] BY <1>1
  <2> QED BY <1>2, <2>1
<1>4. MarksInv BY <1>1, <1>2, <1>3 DEF MarksInv
<1> QED BY <1>1, <1>4 DEF ExportInv, ReaderInv
-----------------------------------------------------------------------------
(* The findings list.                                                       *)

Before(marks, S) == {p \in S \X S : Earlier(marks, p[1], p[2])}

LEMMA PlacesAre ==
    ASSUME NEW marks, IsFiniteSet(DOMAIN marks), NEW id
    PROVE  Band(marks, id) \in {0, 1, 2} /\ FamilyRank(marks, id) \in Nat
<1>1. Band(marks, id) \in {0, 1, 2} BY DEF Band
<1> DEFINE S == {o \in DOMAIN marks : /\ Family[o] = Family[id]
                                      /\ Score[o] > Score[id] \/ (Score[o] = Score[id] /\ o <= id)}
<1>2. S \in SUBSET (DOMAIN marks) OBVIOUS
<1>3. FamilyRank(marks, id) = Cardinality(S) BY DEF FamilyRank
<1> HIDE DEF S
<1>4. Cardinality(S) \in Nat BY <1>2, FS_Subset, FS_CardinalityType
<1> QED BY <1>1, <1>3, <1>4

LEMMA EarlierIs ==
    ASSUME NEW marks, NEW a, NEW b
    PROVE  Earlier(marks, a, b) <=>
               \/ Band(marks, a) < Band(marks, b)
               \/ Band(marks, a) = Band(marks, b) /\ FamilyRank(marks, a) < FamilyRank(marks, b)
               \/ /\ Band(marks, a) = Band(marks, b) /\ FamilyRank(marks, a) = FamilyRank(marks, b)
                  /\ Family[a] < Family[b]
               \/ /\ Band(marks, a) = Band(marks, b) /\ FamilyRank(marks, a) = FamilyRank(marks, b)
                  /\ Family[a] = Family[b] /\ a < b
<1>1. PICK p, q : p = Place(marks, a) /\ q = Place(marks, b) OBVIOUS
<1>2. /\ p[1] = Band(marks, a) /\ p[2] = FamilyRank(marks, a) /\ p[3] = Family[a] /\ p[4] = a
      /\ q[1] = Band(marks, b) /\ q[2] = FamilyRank(marks, b) /\ q[3] = Family[b] /\ q[4] = b
  BY <1>1 DEF Place
<1>3. Earlier(marks, a, b) <=> \E k \in 1 .. 4 : p[k] < q[k] /\ \A j \in 1 .. k - 1 : p[j] = q[j]
  BY <1>1 DEF Earlier
<1>4. \A k : k \in 1 .. 4 <=> k = 1 \/ k = 2 \/ k = 3 \/ k = 4 OBVIOUS
<1>5. /\ \A j : j \notin 1 .. 1 - 1
      /\ \A j : j \in 1 .. 2 - 1 <=> j = 1
      /\ \A j : j \in 1 .. 3 - 1 <=> j = 1 \/ j = 2
      /\ \A j : j \in 1 .. 4 - 1 <=> j = 1 \/ j = 2 \/ j = 3
  OBVIOUS
<1>6. Earlier(marks, a, b) <=>
          \/ p[1] < q[1]
          \/ p[1] = q[1] /\ p[2] < q[2]
          \/ p[1] = q[1] /\ p[2] = q[2] /\ p[3] < q[3]
          \/ p[1] = q[1] /\ p[2] = q[2] /\ p[3] = q[3] /\ p[4] < q[4]
  <2>1. ASSUME NEW k \in 1 .. 4, p[k] < q[k], \A j \in 1 .. k - 1 : p[j] = q[j]
        PROVE  \/ p[1] < q[1]
               \/ p[1] = q[1] /\ p[2] < q[2]
               \/ p[1] = q[1] /\ p[2] = q[2] /\ p[3] < q[3]
               \/ p[1] = q[1] /\ p[2] = q[2] /\ p[3] = q[3] /\ p[4] < q[4]
    <3>1. CASE k = 1 BY <2>1, <3>1
    <3>2. CASE k = 2
      <4>1. p[1] = q[1] BY <1>5, <2>1, <3>2
      <4> QED BY <2>1, <3>2, <4>1
    <3>3. CASE k = 3
      <4>1. p[1] = q[1] /\ p[2] = q[2] BY <1>5, <2>1, <3>3
      <4> QED BY <2>1, <3>3, <4>1
    <3>4. CASE k = 4
      <4>1. p[1] = q[1] /\ p[2] = q[2] /\ p[3] = q[3] BY <1>5, <2>1, <3>4
      <4> QED BY <2>1, <3>4, <4>1
    <3> QED BY <1>4, <3>1, <3>2, <3>3, <3>4
  <2>2. ASSUME NEW k \in 1 .. 4, p[k] < q[k], \A j \in 1 .. k - 1 : p[j] = q[j] PROVE Earlier(marks, a, b)
    BY <1>3, <2>2
  <2>3. ASSUME p[1] < q[1] PROVE Earlier(marks, a, b)
    <3>1. \A j \in 1 .. 1 - 1 : p[j] = q[j] BY <1>5
    <3> QED BY <1>4, <2>2, <2>3, <3>1
  <2>4. ASSUME p[1] = q[1], p[2] < q[2] PROVE Earlier(marks, a, b)
    <3>1. \A j \in 1 .. 2 - 1 : p[j] = q[j] BY <1>5, <2>4
    <3> QED BY <1>4, <2>2, <2>4, <3>1
  <2>5. ASSUME p[1] = q[1], p[2] = q[2], p[3] < q[3] PROVE Earlier(marks, a, b)
    <3>1. \A j \in 1 .. 3 - 1 : p[j] = q[j] BY <1>5, <2>5
    <3> QED BY <1>4, <2>2, <2>5, <3>1
  <2>6. ASSUME p[1] = q[1], p[2] = q[2], p[3] = q[3], p[4] < q[4] PROVE Earlier(marks, a, b)
    <3>1. \A j \in 1 .. 4 - 1 : p[j] = q[j] BY <1>5, <2>6
    <3> QED BY <1>4, <2>2, <2>6, <3>1
  <2> QED BY <1>3, <2>1, <2>3, <2>4, <2>5, <2>6
<1> QED BY <1>2, <1>6

LEMMA EarlierIsOrder ==
    ASSUME NEW marks, IsFiniteSet(DOMAIN marks), NEW S, S \subseteq Findings
    PROVE  IsOrder(S, Before(marks, S)) /\ \A a, b \in S : <<a, b>> \in Before(marks, S) <=> Earlier(marks, a, b)
<1>1. \A a, b \in S : <<a, b>> \in Before(marks, S) <=> Earlier(marks, a, b) BY DEF Before
<1>2. \A a \in S : /\ Band(marks, a) \in Int /\ FamilyRank(marks, a) \in Int /\ Family[a] \in Int /\ a \in Int
  <2>1. \A a \in S : Family[a] \in Nat /\ a \in Nat BY StoreAssumption
  <2>2. \A a \in S : Band(marks, a) \in {0, 1, 2} /\ FamilyRank(marks, a) \in Nat BY PlacesAre
  <2> QED BY <2>1, <2>2
<1>3. ASSUME NEW a \in S PROVE ~Earlier(marks, a, a) BY <1>2, EarlierIs
<1>4. ASSUME NEW a \in S, NEW b \in S PROVE a = b \/ Earlier(marks, a, b) \/ Earlier(marks, b, a)
  <2>1. PICK a1, a2, a3, b1, b2, b3 \in Int :
            /\ a1 = Band(marks, a) /\ a2 = FamilyRank(marks, a) /\ a3 = Family[a]
            /\ b1 = Band(marks, b) /\ b2 = FamilyRank(marks, b) /\ b3 = Family[b]
    BY <1>2
  <2>2. Earlier(marks, a, b) <=> \/ a1 < b1 \/ (a1 = b1 /\ a2 < b2) \/ (a1 = b1 /\ a2 = b2 /\ a3 < b3)
                                 \/ (a1 = b1 /\ a2 = b2 /\ a3 = b3 /\ a < b)
    BY <2>1, EarlierIs
  <2>3. Earlier(marks, b, a) <=> \/ b1 < a1 \/ (b1 = a1 /\ b2 < a2) \/ (b1 = a1 /\ b2 = a2 /\ b3 < a3)
                                 \/ (b1 = a1 /\ b2 = a2 /\ b3 = a3 /\ b < a)
    BY <2>1, EarlierIs
  <2> QED BY <1>2, <2>2, <2>3
<1>5. ASSUME NEW a \in S, NEW b \in S, NEW c \in S, Earlier(marks, a, b), Earlier(marks, b, c)
      PROVE  Earlier(marks, a, c)
  <2>1. PICK a1, a2, a3, b1, b2, b3, c1, c2, c3 \in Int :
            /\ a1 = Band(marks, a) /\ a2 = FamilyRank(marks, a) /\ a3 = Family[a]
            /\ b1 = Band(marks, b) /\ b2 = FamilyRank(marks, b) /\ b3 = Family[b]
            /\ c1 = Band(marks, c) /\ c2 = FamilyRank(marks, c) /\ c3 = Family[c]
    BY <1>2
  <2>2. Earlier(marks, a, b) <=> \/ a1 < b1 \/ (a1 = b1 /\ a2 < b2) \/ (a1 = b1 /\ a2 = b2 /\ a3 < b3)
                                 \/ (a1 = b1 /\ a2 = b2 /\ a3 = b3 /\ a < b)
    BY <2>1, EarlierIs
  <2>3. Earlier(marks, b, c) <=> \/ b1 < c1 \/ (b1 = c1 /\ b2 < c2) \/ (b1 = c1 /\ b2 = c2 /\ b3 < c3)
                                 \/ (b1 = c1 /\ b2 = c2 /\ b3 = c3 /\ b < c)
    BY <2>1, EarlierIs
  <2>4. Earlier(marks, a, c) <=> \/ a1 < c1 \/ (a1 = c1 /\ a2 < c2) \/ (a1 = c1 /\ a2 = c2 /\ a3 < c3)
                                 \/ (a1 = c1 /\ a2 = c2 /\ a3 = c3 /\ a < c)
    BY <2>1, EarlierIs
  <2> QED BY <1>2, <1>5, <2>2, <2>3, <2>4
<1>6. IsOrder(S, Before(marks, S)) BY Zenon, <1>1, <1>3, <1>4, <1>5 DEF IsOrder
<1> QED BY <1>1, <1>6

\* The list of one state, or of all, is in the order of places.
ListedOK(list, marks, S) ==
    /\ Lists(list, S)
    /\ \A a, b \in S : Precedes(list, a, b) <=> Earlier(marks, a, b)

LEMMA ListIsOrdered ==
    ASSUME NEW marks, IsFiniteSet(DOMAIN marks), DOMAIN marks \subseteq Findings, NEW state,
           NEW S, S = {id \in DOMAIN marks : state \in {Null, marks[id].status}}
    PROVE  ListedOK(Listed(marks, state), marks, S)
<1>1. PICK R : R = Before(marks, S) OBVIOUS
<1>2. S \in SUBSET (DOMAIN marks) /\ S \subseteq Findings OBVIOUS
<1>3. IsFiniteSet(S) BY <1>2, FS_Subset
<1>4. IsOrder(S, R) /\ \A a, b \in S : <<a, b>> \in R <=> Earlier(marks, a, b) BY <1>1, <1>2, EarlierIsOrder
<1>5. Listed(marks, state) = InOrder(S, R)
  <2> DEFINE V(k) == CHOOSE x \in S : RankIn(S, R, x) = k - 1
             W(k) == CHOOSE x \in S : Cardinality({y \in S : Earlier(marks, y, x)}) = k - 1
  <2>1. ASSUME NEW x \in S PROVE {y \in S : Earlier(marks, y, x)} = Below(S, R, x) BY <1>4 DEF Below
  <2>2. ASSUME NEW k PROVE W(k) = V(k)
    <3>1. \A x \in S : Cardinality({y \in S : Earlier(marks, y, x)}) = k - 1 <=> RankIn(S, R, x) = k - 1
      BY <2>1 DEF RankIn
    <3> QED BY <3>1
  <2>3. Listed(marks, state) = [k \in 1 .. Cardinality(S) |-> W(k)] BY DEF Listed, Sorted
  <2>4. InOrder(S, R) = [k \in 1 .. Cardinality(S) |-> V(k)] BY DEF InOrder
  <2> HIDE DEF V, W
  <2> QED BY <2>2, <2>3, <2>4
<1>6. PICK list : list = Listed(marks, state) OBVIOUS
<1>7. OrderedList(list, S, R) BY <1>3, <1>4, <1>5, <1>6, InOrderIs
<1>8. PICK n : n = Cardinality(S) OBVIOUS
<1>9. /\ list = [i \in 1 .. n |-> list[i]] /\ Range(list) = S
      /\ \A i \in 1 .. n : list[i] \in S /\ RankIn(S, R, list[i]) = i - 1
      /\ \A x \in S : RankIn(S, R, x) + 1 \in 1 .. n /\ list[RankIn(S, R, x) + 1] = x
      /\ \A i, j \in 1 .. n : i < j <=> <<list[i], list[j]>> \in R
  BY <1>7, <1>8 DEF OrderedList
<1>10. DOMAIN list = 1 .. n BY <1>9
<1>11. ASSUME NEW i \in DOMAIN list, NEW j \in DOMAIN list, list[i] = list[j] PROVE i = j
  <2>1. i - 1 = j - 1 BY <1>9, <1>10, <1>11
  <2>2. i \in Int /\ j \in Int BY <1>10
  <2> QED BY <2>1, <2>2
<1>12. ASSUME NEW a \in S, NEW b \in S PROVE Precedes(list, a, b) <=> Earlier(marks, a, b)
  <2>1. PICK i, j \in 1 .. n : list[i] = a /\ list[j] = b BY <1>9
  <2>2. \A k, l \in 1 .. n : list[k] = a /\ list[l] = b => k = i /\ l = j BY <1>10, <1>11, <2>1
  <2>3. Precedes(list, a, b) <=> i < j BY <1>10, <2>1, <2>2 DEF Precedes
  <2>4. i < j <=> <<a, b>> \in R BY <1>9, <2>1
  <2> QED BY <1>4, <2>3, <2>4
<1> QED BY <1>6, <1>9, <1>11, <1>12 DEF ListedOK, Lists

LEMMA BetterRanksFirst ==
    ASSUME NEW marks, IsFiniteSet(DOMAIN marks), DOMAIN marks \subseteq Findings, NEW a \in DOMAIN marks,
           NEW b \in DOMAIN marks, Family[a] = Family[b], FamilyRank(marks, a) <= FamilyRank(marks, b)
    PROVE  Score[a] >= Score[b]
<1>0. \A o \in Findings : Score[o] \in Nat /\ o \in Nat BY StoreAssumption
<1>1. \A o \in DOMAIN marks : Score[o] \in Int /\ o \in Int BY <1>0
<1> DEFINE A == {o \in DOMAIN marks : /\ Family[o] = Family[a]
                                      /\ Score[o] > Score[a] \/ (Score[o] = Score[a] /\ o <= a)}
           B == {o \in DOMAIN marks : /\ Family[o] = Family[b]
                                      /\ Score[o] > Score[b] \/ (Score[o] = Score[b] /\ o <= b)}
<1> SUFFICES ASSUME Score[a] < Score[b] PROVE FALSE
  BY <1>1
<1>2. B \in SUBSET A /\ A \in SUBSET (DOMAIN marks) BY <1>1
<1>3. a \in A /\ a \notin B BY <1>1
<1>4. FamilyRank(marks, a) = Cardinality(A) /\ FamilyRank(marks, b) = Cardinality(B) BY DEF FamilyRank
<1> HIDE DEF A, B
<1>5. IsFiniteSet(A) BY <1>2, FS_Subset
<1>6. IsFiniteSet(A \ {a}) /\ Cardinality(A \ {a}) = Cardinality(A) - 1 BY <1>3, <1>5, FS_RemoveElement
<1>7. PICK rest : rest = A \ {a} OBVIOUS
<1>8. B \in SUBSET rest BY <1>2, <1>3, <1>7
<1>9. IsFiniteSet(B) /\ Cardinality(B) <= Cardinality(rest) BY <1>6, <1>7, <1>8, FS_Subset
<1>10. Cardinality(A) \in Nat /\ Cardinality(B) \in Nat BY <1>5, <1>9, FS_CardinalityType
<1> QED BY <1>4, <1>6, <1>7, <1>9, <1>10

Redecided(marks, id, disposition) == [marks EXCEPT ![id].status = disposition]

LEMMA DecidingMovesOne ==
    ASSUME NEW marks, NEW id \in DOMAIN marks, NEW disposition, NEW after, after = Redecided(marks, id, disposition),
           NEW a \in DOMAIN marks, NEW b \in DOMAIN marks, a # id, b # id
    PROVE  DOMAIN after = DOMAIN marks /\ (Earlier(after, a, b) <=> Earlier(marks, a, b))
<1>1. DOMAIN after = DOMAIN marks /\ \A o \in DOMAIN marks : o # id => after[o] = marks[o] BY DEF Redecided
<1>2. \A o \in DOMAIN marks : o # id => Band(after, o) = Band(marks, o) BY <1>1 DEF Band
<1>3. \A o : FamilyRank(after, o) = FamilyRank(marks, o) BY <1>1 DEF FamilyRank
<1> QED BY <1>1, <1>2, <1>3, EarlierIs

LEMMA ListsAreSteady == MarksInv => ListIsSteady
<1> SUFFICES ASSUME MarksInv PROVE ListIsSteady
  OBVIOUS
<1>1. PICK marks, all, S : marks = findings /\ all = Listed(findings, Null) /\ S = DOMAIN findings OBVIOUS
<1>2. S \subseteq Findings /\ IsFiniteSet(S) /\ DOMAIN marks = S BY <1>1, StoreAssumption, FS_Subset DEF MarksInv
<1>3. ASSUME NEW other, DOMAIN other = S PROVE ListedOK(Listed(other, Null), other, S)
  <2>1. S = {id \in DOMAIN other : Null \in {Null, other[id].status}} BY <1>3
  <2> QED BY <1>2, <1>3, <2>1, ListIsOrdered
<1>4. ListedOK(all, marks, S) BY <1>1, <1>2, <1>3
<1>5. ASSUME NEW id \in S, NEW disposition \in Dispositions, NEW after, after = Redecided(marks, id, disposition),
             NEW a \in S \ {id}, NEW b \in S \ {id}
      PROVE  Precedes(Listed(after, Null), a, b) <=> Precedes(all, a, b)
  <2>1. DOMAIN after = S /\ (Earlier(after, a, b) <=> Earlier(marks, a, b)) BY <1>2, <1>5, DecidingMovesOne
  <2>2. ListedOK(Listed(after, Null), after, S) BY <1>3, <2>1
  <2> QED BY <1>4, <2>1, <2>2 DEF ListedOK
<1>6. ASSUME NEW a \in S, NEW b \in S, Precedes(all, a, b)
      PROVE  /\ Band(marks, a) <= Band(marks, b)
             /\ Family[a] = Family[b] /\ Band(marks, a) = Band(marks, b) => Score[a] >= Score[b]
  <2>1. Earlier(marks, a, b) BY <1>4, <1>6 DEF ListedOK
  <2>2. /\ Band(marks, a) \in {0, 1, 2} /\ Band(marks, b) \in {0, 1, 2}
        /\ FamilyRank(marks, a) \in Nat /\ FamilyRank(marks, b) \in Nat
    BY <1>2, PlacesAre
  <2>3. Family[a] \in Int /\ Family[b] \in Int /\ a \in Int /\ b \in Int BY <1>2, StoreAssumption
  <2>4. PICK a1, a2, b1, b2 \in Int : /\ a1 = Band(marks, a) /\ a2 = FamilyRank(marks, a)
                                      /\ b1 = Band(marks, b) /\ b2 = FamilyRank(marks, b)
    BY <2>2
  <2>5. \/ a1 < b1 \/ (a1 = b1 /\ a2 < b2) \/ (a1 = b1 /\ a2 = b2 /\ Family[a] < Family[b])
        \/ (a1 = b1 /\ a2 = b2 /\ Family[a] = Family[b] /\ a < b)
    BY <2>1, <2>4, EarlierIs
  <2>6. a1 <= b1 BY <2>5
  <2>7. ASSUME Family[a] = Family[b], a1 = b1 PROVE Score[a] >= Score[b]
    <3>1. a2 <= b2 BY <2>5, <2>7
    <3> QED BY <1>2, <2>4, <2>7, <3>1, BetterRanksFirst
  <2> QED BY <2>4, <2>6, <2>7
<1>7. ASSUME NEW state \in Dispositions, NEW shown, shown = {id \in S : marks[id].status = state}
      PROVE  /\ Lists(Listed(marks, state), shown)
             /\ \A a, b \in shown : Precedes(Listed(marks, state), a, b) <=> Precedes(all, a, b)
  <2>1. state # Null BY StoreAssumption
  <2>2. shown = {id \in DOMAIN marks : state \in {Null, marks[id].status}} BY <1>2, <1>7, <2>1
  <2>3. ListedOK(Listed(marks, state), marks, shown) BY <1>2, <2>2, ListIsOrdered
  <2>4. shown \subseteq S BY <1>7
  <2> QED BY <1>4, <2>3, <2>4 DEF ListedOK
<1>8. Lists(all, S) BY <1>4 DEF ListedOK
<1>9. ASSUME NEW id \in DOMAIN findings, NEW disposition \in Dispositions
      PROVE  \A a, b \in DOMAIN findings \ {id} :
                 Precedes(Listed([findings EXCEPT ![id].status = disposition], Null), a, b) <=> Precedes(all, a, b)
  <2>1. PICK after : after = Redecided(marks, id, disposition) OBVIOUS
  <2>2. after = [findings EXCEPT ![id].status = disposition] BY <1>1, <2>1 DEF Redecided
  <2> QED BY <1>1, <1>5, <2>1, <2>2
<1>10. ASSUME NEW state \in Dispositions
       PROVE  /\ Lists(Listed(findings, state), {id \in DOMAIN findings : findings[id].status = state})
              /\ \A a, b \in {id \in DOMAIN findings : findings[id].status = state} :
                     Precedes(Listed(findings, state), a, b) <=> Precedes(all, a, b)
  <2>1. PICK shown : shown = {id \in S : marks[id].status = state} OBVIOUS
  <2>2. shown = {id \in DOMAIN findings : findings[id].status = state} BY <1>1, <2>1
  <2> QED BY <1>1, <1>7, <2>1, <2>2
<1>11. \A a, b \in DOMAIN findings : Precedes(all, a, b) =>
           /\ Band(findings, a) <= Band(findings, b)
           /\ Family[a] = Family[b] /\ Band(findings, a) = Band(findings, b) => Score[a] >= Score[b]
  BY <1>1, <1>6
<1>12. Lists(all, DOMAIN findings) /\ all = Listed(findings, Null) BY <1>1, <1>8
<1> QED BY Zenon, <1>9, <1>10, <1>11, <1>12 DEF ListIsSteady
-----------------------------------------------------------------------------
(* GraphReading: a set written out in some order.                           *)

Chosen1(s) == CHOOSE x \in s : TRUE

SetAccumulates(g, S, base, step) ==
    \A s \in SUBSET S : g[s] = IF s = {} THEN base ELSE step[Chosen1(s)][g[s \ {Chosen1(s)}]]

SmallSubsets(S, m) == {s \in SUBSET S : Cardinality(s) <= m}

LEMMA SetFoldExists ==
    ASSUME NEW S, IsFiniteSet(S), NEW A, NEW base \in A, NEW step \in [S -> [A -> A]]
    PROVE  \E g \in [SUBSET S -> A] : SetAccumulates(g, S, base, step)
<1> DEFINE Rule(g, s) == g[s] = IF s = {} THEN base ELSE step[Chosen1(s)][g[s \ {Chosen1(s)}]]
           n == Cardinality(S)
           T == {m \in 0 .. n : \E g \in [SmallSubsets(S, m) -> A] : \A s \in SmallSubsets(S, m) : Rule(g, s)}
<1>0. n \in Nat BY FS_CardinalityType
<1>1. ASSUME NEW s \in SUBSET S PROVE IsFiniteSet(s) /\ Cardinality(s) \in Nat /\ Cardinality(s) <= n
  BY FS_Subset, FS_CardinalityType
<1>2. ASSUME NEW s \in SUBSET S, s # {}
      PROVE  /\ Chosen1(s) \in s /\ Chosen1(s) \in S /\ s \ {Chosen1(s)} \in SUBSET S
             /\ Cardinality(s \ {Chosen1(s)}) = Cardinality(s) - 1
  <2>1. Chosen1(s) \in s BY <1>2 DEF Chosen1
  <2> QED BY <1>1, <2>1, FS_RemoveElement
<1>3. 0 \in T
  <2> DEFINE g == [s \in SmallSubsets(S, 0) |-> base]
  <2>1. ASSUME NEW s \in SmallSubsets(S, 0) PROVE s = {} /\ g[s] = base
    <3>1. s \in SUBSET S /\ Cardinality(s) <= 0 BY DEF SmallSubsets
    <3>2. Cardinality(s) = 0 BY <1>1, <3>1
    <3> QED BY <1>1, <3>1, <3>2, FS_EmptySet
  <2>2. g \in [SmallSubsets(S, 0) -> A] /\ \A s \in SmallSubsets(S, 0) : Rule(g, s) BY <2>1
  <2>3. 0 \in 0 .. n BY <1>0
  <2> HIDE DEF g, Rule
  <2> QED BY <2>2, <2>3
<1>4. ASSUME NEW m \in 1 .. n, m - 1 \in T PROVE m \in T
  <2>1. PICK g \in [SmallSubsets(S, m - 1) -> A] : \A s \in SmallSubsets(S, m - 1) : Rule(g, s) BY <1>4
  <2> DEFINE h == [s \in SmallSubsets(S, m) |->
                       IF s = {} THEN base ELSE step[Chosen1(s)][g[s \ {Chosen1(s)}]]]
  <2>2. ASSUME NEW s \in SmallSubsets(S, m), s # {}
        PROVE  s \ {Chosen1(s)} \in SmallSubsets(S, m - 1) /\ s \ {Chosen1(s)} \in SmallSubsets(S, m) /\ Chosen1(s) \in S
    <3>1. s \in SUBSET S /\ Cardinality(s) <= m BY DEF SmallSubsets
    <3>2. /\ Chosen1(s) \in S /\ s \ {Chosen1(s)} \in SUBSET S
          /\ Cardinality(s \ {Chosen1(s)}) = Cardinality(s) - 1
      BY <1>2, <2>2, <3>1
    <3>3. Cardinality(s) - 1 <= m - 1 /\ Cardinality(s) - 1 <= m BY <1>1, <3>1
    <3> QED BY <3>2, <3>3 DEF SmallSubsets
  <2>3. ASSUME NEW s \in SmallSubsets(S, m - 1) PROVE s \in SmallSubsets(S, m) /\ h[s] = g[s]
    <3>1. s \in SUBSET S /\ Cardinality(s) <= m - 1 BY DEF SmallSubsets
    <3>2. s \in SmallSubsets(S, m)
      <4>1. Cardinality(s) <= m BY <1>1, <3>1
      <4> QED BY <3>1, <4>1 DEF SmallSubsets
    <3>3. Rule(g, s) BY <2>1
    <3> HIDE DEF SmallSubsets
    <3> QED BY <3>2, <3>3
  <2>4. ASSUME NEW s \in SmallSubsets(S, m) PROVE h[s] \in A /\ Rule(h, s)
    <3>1. CASE s = {} BY <3>1
    <3>2. CASE s # {}
      <4>1. PICK x, r : x = Chosen1(s) /\ r = s \ {Chosen1(s)} OBVIOUS
      <4>2. r \in SmallSubsets(S, m - 1) /\ r \in SmallSubsets(S, m) /\ x \in S BY <2>2, <3>2, <4>1
      <4>3. h[s] = step[x][g[r]] BY <3>2, <4>1
      <4>4. h[r] = g[r] /\ g[r] \in A BY <2>3, <4>2
      <4>5. step[x][g[r]] \in A BY <4>2, <4>4
      <4> HIDE DEF h
      <4> QED BY <3>2, <4>1, <4>3, <4>4, <4>5
    <3> QED BY <3>1, <3>2
  <2>5. h \in [SmallSubsets(S, m) -> A]
    <3>1. \A s \in SmallSubsets(S, m) : h[s] \in A BY <2>4
    <3> QED BY <3>1
  <2>6. m \in 0 .. n BY <1>0
  <2> HIDE DEF h, Rule
  <2> QED BY <2>4, <2>5, <2>6
<1>5. 0 .. n \subseteq T
  <2> HIDE DEF T, n
  <2> QED BY <1>0, <1>3, <1>4, Counting
<1>6. n \in T
  <2> HIDE DEF T, n
  <2> QED BY <1>0, <1>5
<1>7. SmallSubsets(S, n) = SUBSET S BY <1>1 DEF SmallSubsets
<1>8. PICK g \in [SUBSET S -> A] : \A s \in SUBSET S : Rule(g, s)
  <2> HIDE DEF Rule
  <2> QED BY <1>6, <1>7
<1> QED BY <1>8 DEF SetAccumulates

\* A listing of a set, each member once.
ListingOfSet(list, ids) ==
    /\ Listing(list) /\ Len(list) = Cardinality(ids) /\ Len(list) \in Nat /\ Range(list) = ids
    /\ \A i, j \in 1 .. Len(list) : list[i] = list[j] => i = j

LEMMA AppendedListing ==
    ASSUME NEW list, NEW ids, IsFiniteSet(ids), ListingOfSet(list, ids), NEW x, x \notin ids
    PROVE  ListingOfSet(Append(list, x), ids \cup {x})
<1> DEFINE S == ids \cup {x}
           n == Len(list)
           more == Append(list, x)
<1>1. list \in Seq(S)
  <2>1. list \in Seq(ids) BY DEF ListingOfSet, Listing
  <2>2. ids \subseteq S OBVIOUS
  <2> HIDE DEF S
  <2> QED BY <2>1, <2>2, SeqMonotonic
<1>2. x \in S OBVIOUS
<1>3. n \in Nat /\ (\A i \in 1 .. n : list[i] \in ids) /\ \A y \in ids : \E i \in 1 .. n : list[i] = y
  BY ListingIs DEF ListingOfSet
<1>4. /\ more \in Seq(S) /\ Len(more) = n + 1 /\ \A i \in 1 .. n : more[i] = list[i]
      /\ more[n + 1] = x
  <2> HIDE DEF S
  <2> QED BY <1>1, <1>2, AppendProperties
<1>5. Cardinality(S) = Cardinality(ids) + 1 BY FS_AddElement
<1> HIDE DEF S, n, more
<1>6. Listing(more) BY <1>4, SeqOfRange DEF Listing
<1>7. \A y : y \in Range(more) <=> \E i \in 1 .. n + 1 : more[i] = y BY <1>4, <1>6, ListingIs
<1>8. PICK l \in Nat : l = n + 1 BY <1>3
<1>9. \A i : i \in 1 .. l <=> i \in 1 .. n \/ i = l BY <1>3, <1>8
<1>10. \A y : y \in Range(more) <=> (\E i \in 1 .. n : list[i] = y) \/ y = x BY <1>4, <1>7, <1>8, <1>9
<1>11. Range(more) = S BY <1>3, <1>10 DEF S
<1>12. ASSUME NEW i \in 1 .. l, NEW j \in 1 .. l, more[i] = more[j] PROVE i = j
  <2>1. \A a, b \in 1 .. n : list[a] = list[b] => a = b BY DEF ListingOfSet, n
  <2>2. \A a \in 1 .. n : more[a] = list[a] /\ list[a] # x BY <1>3, <1>4
  <2> QED BY <1>4, <1>8, <1>9, <1>12, <2>1, <2>2
<1>13. Len(more) = l /\ Len(more) = Cardinality(S)
  <2>1. n = Cardinality(ids) BY DEF ListingOfSet, n
  <2> QED BY <1>4, <1>5, <1>8, <2>1
<1>14. ListingOfSet(more, S) BY <1>6, <1>8, <1>11, <1>12, <1>13 DEF ListingOfSet
<1> QED BY <1>14 DEF more, S

LEMMA OrderedIs ==
    ASSUME NEW ids, IsFiniteSet(ids)
    PROVE  ListingOfSet(Ordered(ids), ids)
<1> DEFINE n == Cardinality(ids)
           A == Seq(ids)
           step == [x \in ids |-> [rows \in A |-> Append(rows, x)]]
           Body(g) == [s \in SUBSET ids |-> IF s = {} THEN << >> ELSE Append(g[s \ {Chosen1(s)}], Chosen1(s))]
           iter == CHOOSE g : g = Body(g)
<1>0. n \in Nat BY FS_CardinalityType
<1>1. step \in [ids -> [A -> A]]
  <2>1. \A x \in ids, rows \in A : Append(rows, x) \in A OBVIOUS
  <2> HIDE DEF A
  <2> QED BY <2>1
<1>2. PICK g \in [SUBSET ids -> A] : SetAccumulates(g, ids, << >>, step)
  <2>1. << >> \in A OBVIOUS
  <2> HIDE DEF A, step
  <2> QED BY <1>1, <2>1, SetFoldExists
<1>3. g = Body(g)
  <2>1. ASSUME NEW s \in SUBSET ids, s # {}
        PROVE  step[Chosen1(s)][g[s \ {Chosen1(s)}]] = Append(g[s \ {Chosen1(s)}], Chosen1(s))
    <3>1. Chosen1(s) \in s BY <2>1 DEF Chosen1
    <3>2. Chosen1(s) \in ids BY <3>1
    <3>3. s \ {Chosen1(s)} \in SUBSET ids OBVIOUS
    <3>4. g[s \ {Chosen1(s)}] \in A
      <4> HIDE DEF A
      <4> QED BY <3>3
    <3> HIDE DEF A
    <3> QED BY <3>2, <3>4
  <2> HIDE DEF A, step
  <2> QED BY <1>2, <2>1 DEF SetAccumulates
<1>4. iter = Body(iter)
  <2> HIDE DEF Body
  <2> QED BY <1>3
<1>5. Ordered(ids) = iter[ids] BY DEF Ordered, FoldSet, MapThenFoldSet, Chosen1
<1>6. ASSUME NEW s \in SUBSET ids
      PROVE  iter[s] = IF s = {} THEN << >> ELSE Append(iter[s \ {Chosen1(s)}], Chosen1(s))
  <2>1. iter[s] = Body(iter)[s] BY <1>4
  <2> HIDE DEF iter
  <2> QED BY <2>1
<1> HIDE DEF iter
<1>7. ASSUME NEW s \in SUBSET ids PROVE IsFiniteSet(s) /\ Cardinality(s) \in Nat BY FS_Subset, FS_CardinalityType
<1> DEFINE T == {m \in 0 .. n : \A s \in SUBSET ids : Cardinality(s) = m => ListingOfSet(iter[s], s)}
<1>8. 0 \in T
  <2>1. ASSUME NEW s \in SUBSET ids, Cardinality(s) = 0 PROVE ListingOfSet(iter[s], s)
    <3>1. s = {} BY <1>7, <2>1, FS_EmptySet
    <3>2. PICK none : none = << >> OBVIOUS
    <3>3. iter[s] = none BY <1>6, <3>1, <3>2
    <3>4. PICK z \in Nat : z = 0 OBVIOUS
    <3>5. none = [i \in 1 .. z |-> none[i]] BY <3>2, <3>4
    <3>6. Listing(none) /\ Len(none) = z BY <3>5, ListingOf
    <3>7. \A y : y \notin Range(none) BY <3>4, <3>6, ListingIs
    <3>8. ListingOfSet(none, s) BY <2>1, <3>1, <3>4, <3>6, <3>7 DEF ListingOfSet
    <3> QED BY <3>3, <3>8
  <2>2. 0 \in 0 .. n BY <1>0
  <2> QED BY <2>1, <2>2
<1>9. ASSUME NEW m \in 1 .. n, m - 1 \in T PROVE m \in T
  <2>1. ASSUME NEW s \in SUBSET ids, Cardinality(s) = m PROVE ListingOfSet(iter[s], s)
    <3>1. s # {}
      <4>1. m # 0 BY <1>0
      <4>2. Cardinality({}) = 0 BY FS_EmptySet
      <4> QED BY <2>1, <4>1, <4>2
    <3>2. PICK x, rest : x = Chosen1(s) /\ rest = s \ {Chosen1(s)} OBVIOUS
    <3>3. x \in s BY <3>1, <3>2 DEF Chosen1
    <3>4. Cardinality(s \ {x}) = Cardinality(s) - 1 BY <1>7, <3>3, FS_RemoveElement
    <3>5. rest \in SUBSET ids /\ x \notin rest /\ s = rest \cup {x} /\ Cardinality(rest) = m - 1 BY <2>1, <3>2, <3>3, <3>4
    <3>6. ListingOfSet(iter[rest], rest) BY <1>9, <3>5
    <3>7. PICK list : list = iter[rest] OBVIOUS
    <3>8. IsFiniteSet(rest) BY <1>7, <3>5
    <3>9. ListingOfSet(Append(list, x), rest \cup {x}) BY <3>5, <3>6, <3>7, <3>8, AppendedListing
    <3>10. iter[s] = Append(list, x) BY <1>6, <3>1, <3>2, <3>7
    <3> QED BY <3>5, <3>9, <3>10
  <2>2. m \in 0 .. n BY <1>0
  <2> QED BY <2>1, <2>2
<1>10. 0 .. n \subseteq T
  <2> HIDE DEF T, n
  <2> QED BY <1>0, <1>8, <1>9, Counting
<1>11. n \in T /\ ids \in SUBSET ids BY <1>0, <1>10
<1>12. ListingOfSet(iter[ids], ids) BY <1>11
<1> QED BY <1>5, <1>12
-----------------------------------------------------------------------------
(* GraphReading: the neighbourhood of a source.                             *)

Touching(G, seen) == {e \in DOMAIN G.edges : Ends(e) \cap seen # {}}
Wider(G, seen) == seen \cup UNION {Ends(e) : e \in Touching(G, seen)}

\* The widening of a source, depth by depth.
Widens(a, G, source, depth) == a[0] = {source} /\ \A i \in 1 .. depth : a[i] = Wider(G, a[i - 1])

LEMMA ReachSteps ==
    ASSUME NEW G, NEW source, NEW depth \in Nat
    PROVE  \E a : Widens(a, G, source, depth) /\ Reach(G, source, depth) = a[depth]
<1> DEFINE n == depth
           levels == [level \in 1 .. n |-> level]
           N == {source} \cup UNION {Ends(e) : e \in DOMAIN G.edges}
           A == SUBSET N
           step == [i \in 1 .. n |-> [seen \in A |-> Wider(G, seen)]]
           Body(g) == [s \in SUBSET (1 .. n) |-> IF s = {} THEN {source} ELSE Wider(G, g[s \ {Max(s)}])]
           iter == CHOOSE g : g = Body(g)
<1>1. ASSUME NEW seen \in A PROVE Wider(G, seen) \in A BY DEF Wider, Touching
<1>2. step \in [1 .. n -> [A -> A]]
  <2> HIDE DEF A, n
  <2> QED BY <1>1
<1>3. PICK g \in [SUBSET (1 .. n) -> A] : Accumulates(g, n, {source}, step)
  <2>1. {source} \in A OBVIOUS
  <2> HIDE DEF A, step
  <2> QED BY <1>2, <2>1, FoldExists
<1>4. g = Body(g)
  <2>1. ASSUME NEW s \in SUBSET (1 .. n), s # {}
        PROVE  step[Max(s)][g[s \ {Max(s)}]] = Wider(G, g[s \ {Max(s)}])
    <3>1. Max(s) \in 1 .. n
      <4> HIDE DEF n
      <4>1. n \in Nat BY DEF n
      <4>2. Max(s) \in s BY <2>1, <4>1, GreatestNumber
      <4> QED BY <4>2
    <3>2. g[s \ {Max(s)}] \in A
      <4>1. s \ {Max(s)} \in SUBSET (1 .. n) OBVIOUS
      <4> HIDE DEF A, n
      <4> QED BY <4>1
    <3> HIDE DEF A, n
    <3> QED BY <3>1, <3>2
  <2> HIDE DEF A, n, step
  <2> QED BY <1>3, <2>1 DEF Accumulates
<1>5. iter = Body(iter)
  <2> HIDE DEF Body
  <2> QED BY <1>4
<1>6. Reach(G, source, depth) = iter[1 .. n]
  <2>1. DOMAIN levels = 1 .. n OBVIOUS
  <2> QED BY <2>1 DEF Reach, FoldLeft, MapThenFoldSet, Wider, Touching
<1> DEFINE a == [i \in 0 .. n |-> iter[To(i)]]
<1> HIDE DEF iter
<1>7. a[0] = {source}
  <2>1. To(0) = {} /\ {} \in SUBSET (1 .. n) BY DEF To
  <2>2. iter[To(0)] = {source}
    <3>1. iter[To(0)] = Body(iter)[To(0)] BY <1>5
    <3> QED BY <2>1, <3>1
  <2> QED BY <2>2
<1>8. ASSUME NEW i \in 1 .. n PROVE a[i] = Wider(G, a[i - 1])
  <2>1. To(i) \in SUBSET (1 .. n) /\ To(i) # {} /\ Max(To(i)) = i /\ To(i) \ {i} = To(i - 1) BY FirstPlaces
  <2>2. iter[To(i)] = Wider(G, iter[To(i - 1)])
    <3>1. iter[To(i)] = Body(iter)[To(i)] BY <1>5
    <3> QED BY <2>1, <3>1
  <2> QED BY <2>2
<1>9. a[n] = iter[1 .. n] BY DEF To
<1> HIDE DEF a
<1> QED BY <1>6, <1>7, <1>8, <1>9 DEF Widens

LEMMA WideningsAgree ==
    ASSUME NEW G, NEW source, NEW depth \in Nat, NEW a, NEW b, Widens(a, G, source, depth), Widens(b, G, source, depth)
    PROVE  a[depth] = b[depth]
<1> DEFINE T == {i \in 0 .. depth : a[i] = b[i]}
<1>1. 0 \in T BY DEF Widens
<1>2. ASSUME NEW i \in 1 .. depth, i - 1 \in T PROVE i \in T
  <2>1. a[i] = Wider(G, a[i - 1]) /\ b[i] = Wider(G, b[i - 1]) BY DEF Widens
  <2> QED BY <1>2, <2>1
<1>3. 0 .. depth \subseteq T
  <2> HIDE DEF T
  <2> QED BY <1>1, <1>2, Counting
<1> QED BY <1>3

LEMMA FurtherReach ==
    ASSUME NEW G, NEW source, NEW depth \in Nat
    PROVE  /\ Reach(G, source, 0) = {source}
           /\ depth # 0 => Reach(G, source, depth) = Wider(G, Reach(G, source, depth - 1))
<1>1. Reach(G, source, 0) = {source}
  <2>1. PICK z \in Nat : z = 0 OBVIOUS
  <2>2. PICK a : Widens(a, G, source, z) /\ Reach(G, source, z) = a[z] BY ReachSteps
  <2> QED BY <2>1, <2>2 DEF Widens
<1>2. ASSUME depth # 0 PROVE Reach(G, source, depth) = Wider(G, Reach(G, source, depth - 1))
  <2>1. PICK m \in Nat : m = depth - 1 BY <1>2
  <2>2. PICK a : Widens(a, G, source, depth) /\ Reach(G, source, depth) = a[depth] BY ReachSteps
  <2>3. PICK b : Widens(b, G, source, m) /\ Reach(G, source, m) = b[m] BY ReachSteps
  <2>4. Widens(a, G, source, m) BY <2>1, <2>2 DEF Widens
  <2>5. a[m] = b[m] BY <2>3, <2>4, WideningsAgree
  <2>6. depth \in 1 .. depth BY <1>2
  <2>7. a[depth] = Wider(G, a[depth - 1]) BY <2>2, <2>6 DEF Widens
  <2> QED BY <2>1, <2>2, <2>3, <2>5, <2>7
<1> QED BY <1>1, <1>2

GoodGraph(G) == Ended(G) /\ IsFiniteSet(DOMAIN G.nodes) /\ IsFiniteSet(DOMAIN G.edges)

\* Every node reached but the source is the end of an edge at a node reached before.
Reached(G, source, S) ==
    /\ source \in S /\ (source \in DOMAIN G.nodes => S \subseteq DOMAIN G.nodes)
    /\ S \subseteq {source} \cup UNION {Ends(e) : e \in Touching(G, S)}

LEMMA ReachIsConnected ==
    ASSUME NEW G, Ended(G), NEW source, NEW depth \in Nat
    PROVE  Reached(G, source, Reach(G, source, depth))
<1> DEFINE T == {i \in 0 .. depth : Reached(G, source, Reach(G, source, i))}
<1>1. 0 \in T
  <2>1. Reach(G, source, 0) = {source} BY FurtherReach
  <2>2. Reached(G, source, {source}) BY DEF Reached
  <2> QED BY <2>1, <2>2
<1>2. ASSUME NEW i \in 1 .. depth, i - 1 \in T PROVE i \in T
  <2>1. PICK S, W : S = Reach(G, source, i - 1) /\ W = Reach(G, source, i) OBVIOUS
  <2>2. Reached(G, source, S) BY <1>2, <2>1
  <2>3. W = Wider(G, S)
    <3>1. i \in Nat /\ i # 0 OBVIOUS
    <3> QED BY <2>1, <3>1, FurtherReach
  <2>4. S \subseteq W /\ Touching(G, S) \subseteq Touching(G, W) BY <2>3 DEF Wider, Touching
  <2>5. source \in W BY <2>2, <2>4 DEF Reached
  <2>6. ASSUME source \in DOMAIN G.nodes PROVE W \subseteq DOMAIN G.nodes
    <3>1. \A e \in Touching(G, S) : Ends(e) \subseteq DOMAIN G.nodes BY DEF Touching, Ended
    <3> QED BY <2>2, <2>3, <2>6, <3>1 DEF Wider, Reached
  <2>7. W \subseteq {source} \cup UNION {Ends(e) : e \in Touching(G, W)} BY <2>2, <2>3, <2>4 DEF Wider, Reached
  <2>8. Reached(G, source, W) BY <2>5, <2>6, <2>7 DEF Reached
  <2> QED BY <2>1, <2>8
<1>3. 0 .. depth \subseteq T
  <2> HIDE DEF T
  <2> QED BY <1>1, <1>2, Counting
<1> QED BY <1>3

LEMMA NeighbourhoodIsWhole ==
    ASSUME NEW G, Ended(G), NEW source
    PROVE  /\ ReachEdges(G, source, Depth) = {e \in DOMAIN G.edges : Ends(e) \cap Reach(G, source, Depth - 1) # {}}
           /\ Reach(G, source, Depth) = {source} \cup UNION {Ends(e) : e \in ReachEdges(G, source, Depth)}
           /\ source \in Reach(G, source, Depth)
           /\ source \in DOMAIN G.nodes => Reach(G, source, Depth) \subseteq DOMAIN G.nodes
<1>1. PICK d \in Nat : d = Depth - 1 /\ Depth \in Nat /\ Depth # 0 BY PagesAssumption
<1>2. PICK S, W : S = Reach(G, source, Depth - 1) /\ W = Reach(G, source, Depth) OBVIOUS
<1>3. ReachEdges(G, source, Depth) = Touching(G, S) BY <1>2 DEF ReachEdges, Touching
<1>4. W = Wider(G, S) BY <1>1, <1>2, FurtherReach
<1>5. Reached(G, source, S) BY <1>1, <1>2, ReachIsConnected
<1>6. Reached(G, source, W) BY <1>1, <1>2, ReachIsConnected
<1>7. W = {source} \cup UNION {Ends(e) : e \in Touching(G, S)} BY <1>4, <1>5 DEF Reached, Wider
<1> QED BY <1>2, <1>3, <1>6, <1>7 DEF Reached, Touching
-----------------------------------------------------------------------------
(* GraphReading: the pages of a published graph.                            *)

PublishedAs(gs) == \E n \in DOMAIN Ledgers : gs = [i \in 1 .. n |-> GraphOf(i)]

LEMMA GraphsAreGood ==
    ASSUME NEW gs, PublishedAs(gs)
    PROVE  /\ Len(gs) \in Nat \ {0} /\ DOMAIN gs = 1 .. Len(gs)
           /\ \A i \in DOMAIN gs : GoodGraph(gs[i])
<1>1. PICK n \in DOMAIN Ledgers : gs = [i \in 1 .. n |-> GraphOf(i)] BY DEF PublishedAs
<1>2. n \in Nat \ {0} /\ 1 .. n \subseteq DOMAIN Ledgers BY LedgersAreEvidence
<1>3. Len(gs) = n
  <2>1. gs = [i \in 1 .. n |-> gs[i]] BY <1>1
  <2> QED BY <1>2, <2>1, ListingOf
<1>4. DOMAIN gs = 1 .. n BY <1>1
<1>5. ASSUME NEW i \in DOMAIN gs PROVE GoodGraph(gs[i])
  <2>1. PICK F, G : F = FactsOf(Ledgers[i]) /\ G = MemoryGraph(F) OBVIOUS
  <2>2. G = gs[i] BY <1>1, <1>4, <2>1 DEF GraphOf
  <2>3. FactLists(F) BY <1>2, <1>4, <2>1, LedgersAreEvidence, FactsAreLists
  <2>4. Ended(G) BY <2>1, <2>3, GraphsAreEnded
  <2>5. Listing(NodeRows(F)) /\ Listing(EdgeRows(F)) BY <2>3, NodeRowsAre, EdgeRowsAre
  <2>6. IsFiniteSet(DOMAIN KeepFirst(NodeRows(F))) /\ IsFiniteSet(DOMAIN KeepFirst(EdgeRows(F)))
    BY <2>5, FirstIsKept
  <2>7. G.nodes = KeepFirst(NodeRows(F)) /\ G.edges = KeepFirst(EdgeRows(F)) BY <2>1, GraphIsKept
  <2> QED BY <2>2, <2>4, <2>6, <2>7 DEF GoodGraph
<1> QED BY <1>2, <1>3, <1>4, <1>5

LEMMA NodeOrderIs ==
    ASSUME NEW ids, IsFiniteSet(ids), NEW source \in ids
    PROVE  ListingOfSet(NodeOrder(source, ids), ids)
<1> DEFINE rest == ids \ {source}
<1>1. IsFiniteSet(rest) /\ Cardinality(rest) = Cardinality(ids) - 1 /\ Cardinality(ids) \in Nat
  BY FS_RemoveElement, FS_CardinalityType
<1>2. ids = rest \cup {source} /\ source \notin rest OBVIOUS
<1> HIDE DEF rest
<1>3. PICK s, t, w : s = <<source>> /\ t = Ordered(rest) /\ w = s \o t OBVIOUS
<1>4. w = NodeOrder(source, ids) BY <1>3 DEF NodeOrder, rest
<1>5. ListingOfSet(t, rest) BY <1>1, <1>3, OrderedIs
<1>6. PICK m \in Nat : m = Len(t) BY <1>5 DEF ListingOfSet
<1>7. Listing(s) /\ Len(s) = 1 /\ s[1] = source /\ \A x : x \in Range(s) <=> x = source BY <1>3, ShortListings
<1>8. Listing(t) /\ Range(t) = rest BY <1>5 DEF ListingOfSet
<1>9. Listing(w) /\ \A x : x \in Range(w) <=> x \in Range(s) \/ x \in Range(t) BY <1>3, <1>7, <1>8, JoinedListing
<1>10. Joins(w, s, t) BY <1>3, <1>7, <1>8, ConcatIs
<1>11. Len(w) = 1 + m /\ w[1] = source /\ \A i \in 1 .. m : w[1 + i] = t[i] BY <1>6, <1>7, <1>10 DEF Joins
<1>12. Range(w) = ids BY <1>2, <1>7, <1>8, <1>9
<1>13. \A i \in 1 .. m : t[i] \in rest BY <1>6, <1>8, ListingIs
<1>14. \A i, j \in 1 .. m : t[i] = t[j] => i = j BY <1>5, <1>6 DEF ListingOfSet
<1>15. ASSUME NEW i \in 1 .. 1 + m, NEW j \in 1 .. 1 + m, w[i] = w[j] PROVE i = j
  <2>1. \A k \in 1 .. 1 + m : k = 1 \/ \E l \in 1 .. m : k = 1 + l
    <3> SUFFICES ASSUME NEW k \in 1 .. 1 + m, k # 1 PROVE \E l \in 1 .. m : k = 1 + l OBVIOUS
    <3>1. k - 1 \in 1 .. m /\ k = 1 + (k - 1) OBVIOUS
    <3> QED BY <3>1
  <2>2. \A l \in 1 .. m : w[1 + l] # source BY <1>2, <1>11, <1>13
  <2>3. CASE i = 1 /\ j = 1 BY <2>3
  <2>4. CASE i # 1 /\ j # 1
    <3>1. PICK a \in 1 .. m : i = 1 + a BY <2>1, <2>4
    <3>2. PICK b \in 1 .. m : j = 1 + b BY <2>1, <2>4
    <3>3. t[a] = t[b] BY <1>11, <1>15, <3>1, <3>2
    <3> QED BY <1>14, <3>1, <3>2, <3>3
  <2> QED BY <1>11, <1>15, <2>1, <2>2, <2>3, <2>4
<1>16. Len(w) = Cardinality(ids)
  <2>1. m = Cardinality(rest) BY <1>5, <1>6 DEF ListingOfSet
  <2> QED BY <1>1, <1>11, <2>1
<1>17. ListingOfSet(w, ids) BY <1>6, <1>9, <1>11, <1>12, <1>15, <1>16 DEF ListingOfSet
<1> QED BY <1>4, <1>17

\* What is paged: nothing, where the source is not of the graph.
NodesFrom(G, source) ==
    IF source \in DOMAIN G.nodes THEN NodeOrder(source, Reach(G, source, Depth) \cap DOMAIN G.nodes) ELSE << >>
EdgesFrom(G, source) == IF source \in DOMAIN G.nodes THEN Ordered(ReachEdges(G, source, Depth)) ELSE << >>

\* A list of different things.
Distinct(list) ==
    /\ Listing(list) /\ Len(list) \in Nat
    /\ \A i, j \in 1 .. Len(list) : list[i] = list[j] => i = j

LEMMA PagedLists ==
    ASSUME NEW G, GoodGraph(G), NEW source
    PROVE  /\ Distinct(NodesFrom(G, source)) /\ Distinct(EdgesFrom(G, source))
           /\ source \in DOMAIN G.nodes =>
                  /\ ListingOfSet(NodesFrom(G, source), Reach(G, source, Depth))
                  /\ ListingOfSet(EdgesFrom(G, source), ReachEdges(G, source, Depth))
                  /\ Reach(G, source, Depth) \cap DOMAIN G.nodes = Reach(G, source, Depth)
           /\ source \notin DOMAIN G.nodes => Len(NodesFrom(G, source)) = 0 /\ Len(EdgesFrom(G, source)) = 0
<1>1. \A list, ids : ListingOfSet(list, ids) => Distinct(list) BY DEF ListingOfSet, Distinct
<1>2. CASE source \in DOMAIN G.nodes
  <2>1. PICK S, E : S = Reach(G, source, Depth) /\ E = ReachEdges(G, source, Depth) OBVIOUS
  <2>2. source \in S /\ S \subseteq DOMAIN G.nodes BY <1>2, <2>1, NeighbourhoodIsWhole DEF GoodGraph
  <2>3. E \subseteq DOMAIN G.edges BY <2>1 DEF ReachEdges
  <2>4. IsFiniteSet(S) /\ IsFiniteSet(E) BY <2>2, <2>3, FS_Subset DEF GoodGraph
  <2>5. S \cap DOMAIN G.nodes = S BY <2>2
  <2>6. NodesFrom(G, source) = NodeOrder(source, S) /\ EdgesFrom(G, source) = Ordered(E)
    BY <1>2, <2>1, <2>5 DEF NodesFrom, EdgesFrom
  <2>7. ListingOfSet(NodesFrom(G, source), S) BY <2>2, <2>4, <2>6, NodeOrderIs
  <2>8. ListingOfSet(EdgesFrom(G, source), E) BY <2>4, <2>6, OrderedIs
  <2> QED BY <1>1, <1>2, <2>1, <2>5, <2>7, <2>8
<1>3. CASE source \notin DOMAIN G.nodes
  <2>1. IsFiniteSet({}) /\ Cardinality({}) = 0 BY FS_EmptySet
  <2>2. PICK none : none = << >> OBVIOUS
  <2>3. PICK z \in Nat : z = 0 OBVIOUS
  <2>4. none = [i \in 1 .. z |-> none[i]] BY <2>2, <2>3
  <2>5. Listing(none) /\ Len(none) = z BY <2>4, ListingOf
  <2>6. Distinct(none) BY <2>3, <2>5 DEF Distinct
  <2>7. NodesFrom(G, source) = none /\ EdgesFrom(G, source) = none BY <1>3, <2>2 DEF NodesFrom, EdgesFrom
  <2> QED BY <1>3, <2>3, <2>5, <2>6, <2>7
<1> QED BY <1>2, <1>3
-----------------------------------------------------------------------------
(* GraphReading: pages put together (mergeGraphPage).                       *)

Joining(kept, x) == IF x \in Range(kept) THEN kept ELSE Append(kept, x)

Merging(old, new) ==
    FoldLeft(LAMBDA kept, x : IF x \in Range(kept) THEN kept ELSE Append(kept, x), old, new)

LEMMA MergeSteps ==
    ASSUME NEW old, NEW new, Listing(old), Listing(new)
    PROVE  \E a : /\ Merging(old, new) = a[Len(new)]
                  /\ a[0] = old
                  /\ \A i \in 1 .. Len(new) : a[i] = Joining(a[i - 1], new[i])
<1> DEFINE n == Len(new)
           B == Range(old) \cup Range(new)
           A == Seq(B)
           step == [i \in 1 .. n |-> [kept \in A |-> Joining(kept, new[i])]]
           Body(g) == [s \in SUBSET (1 .. n) |-> IF s = {} THEN old ELSE Joining(g[s \ {Max(s)}], new[Max(s)])]
           iter == CHOOSE g : g = Body(g)
<1>0. n \in Nat /\ DOMAIN new = 1 .. n /\ \A i \in 1 .. n : new[i] \in Range(new) BY ListingIs
<1>1. ASSUME NEW kept \in A, NEW i \in 1 .. n PROVE Joining(kept, new[i]) \in A
  <2>1. new[i] \in B BY <1>0
  <2> HIDE DEF B
  <2>2. Append(kept, new[i]) \in A BY <2>1
  <2> QED BY <2>2 DEF Joining
<1>2. step \in [1 .. n -> [A -> A]]
  <2> HIDE DEF A, n
  <2> QED BY <1>1
<1>3. old \in A
  <2>1. old \in Seq(Range(old)) BY DEF Listing
  <2>2. Range(old) \subseteq B OBVIOUS
  <2> HIDE DEF B
  <2> QED BY <2>1, <2>2, SeqMonotonic
<1>4. PICK g \in [SUBSET (1 .. n) -> A] : Accumulates(g, n, old, step)
  <2> HIDE DEF A, step, n
  <2> QED BY <1>0, <1>2, <1>3, FoldExists
<1>5. g = Body(g)
  <2>1. ASSUME NEW s \in SUBSET (1 .. n), s # {}
        PROVE  step[Max(s)][g[s \ {Max(s)}]] = Joining(g[s \ {Max(s)}], new[Max(s)])
    <3>1. Max(s) \in 1 .. n
      <4> HIDE DEF n
      <4>1. Max(s) \in s BY <1>0, <2>1, GreatestNumber
      <4> QED BY <4>1
    <3>2. g[s \ {Max(s)}] \in A
      <4>1. s \ {Max(s)} \in SUBSET (1 .. n) OBVIOUS
      <4> HIDE DEF A, n
      <4> QED BY <4>1
    <3> HIDE DEF A, n
    <3> QED BY <3>1, <3>2
  <2> HIDE DEF A, n, step
  <2> QED BY <1>4, <2>1 DEF Accumulates
<1>6. iter = Body(iter)
  <2> HIDE DEF Body
  <2> QED BY <1>5
<1>7. Merging(old, new) = iter[1 .. n]
  BY <1>0 DEF Merging, FoldLeft, MapThenFoldSet, Joining
<1> DEFINE a == [i \in 0 .. n |-> iter[To(i)]]
<1> HIDE DEF iter
<1>8. a[0] = old
  <2>1. To(0) = {} /\ {} \in SUBSET (1 .. n) BY DEF To
  <2>2. iter[To(0)] = old
    <3>1. iter[To(0)] = Body(iter)[To(0)] BY <1>6
    <3> QED BY <2>1, <3>1
  <2> QED BY <1>0, <2>2
<1>9. ASSUME NEW i \in 1 .. n PROVE a[i] = Joining(a[i - 1], new[i])
  <2>1. To(i) \in SUBSET (1 .. n) /\ To(i) # {} /\ Max(To(i)) = i /\ To(i) \ {i} = To(i - 1)
    <3> HIDE DEF n
    <3> QED BY <1>0, FirstPlaces
  <2>2. iter[To(i)] = Joining(iter[To(i - 1)], new[i])
    <3>1. iter[To(i)] = Body(iter)[To(i)] BY <1>6
    <3> QED BY <2>1, <3>1
  <2> QED BY <1>0, <2>2
<1>10. a[n] = iter[1 .. n] BY <1>0 DEF To
<1> HIDE DEF a, n
<1> QED BY <1>7, <1>8, <1>9, <1>10 DEF n

\* The first k of a list are loaded, and as many of them kept as may be.
Upto(rows, list, k, most) ==
    /\ k \in Nat /\ k <= Len(list)
    /\ Listing(rows) /\ Len(rows) \in Nat /\ Len(rows) <= k /\ Len(rows) <= most /\ (Len(rows) = k \/ Len(rows) = most)
    /\ \A i \in 1 .. Len(rows) : rows[i] = list[i]

\* A page of a list after its first k.
Follow(page, list, k, n, limit) ==
    /\ n \in Nat /\ k + n <= Len(list) /\ (n < limit => k + n = Len(list))
    /\ Listing(page) /\ Len(page) = n
    /\ \A i \in 1 .. n : page[i] = list[k + i]

LEMMA MergeIs ==
    ASSUME NEW list, Distinct(list), NEW k, NEW most \in Nat, NEW rows, Upto(rows, list, k, most), Len(rows) = k,
           NEW limit, NEW n, NEW page, Follow(page, list, k, n, limit), NEW to, to = k + n
    PROVE  Upto(Merge(rows, page, most), list, to, most)
<1> DEFINE merged == Merging(rows, page)
           l == Len(list)
           low == Min({most, Len(merged)})
<1>0. /\ k \in Nat /\ n \in Nat /\ to \in Nat /\ l \in Nat /\ to <= l /\ Listing(rows) /\ Listing(page) /\ Len(page) = n
      /\ \A i \in 1 .. k : rows[i] = list[i]
      /\ \A i \in 1 .. n : page[i] = list[k + i]
  BY DEF Upto, Follow, Distinct
<1>1. PICK a : merged = a[n] /\ a[0] = rows /\ \A i \in 1 .. n : a[i] = Joining(a[i - 1], page[i])
  BY <1>0, MergeSteps
<1> HIDE DEF merged, l
<1> DEFINE Good(s, m) == Listing(s) /\ Len(s) = m /\ \A i \in 1 .. m : s[i] = list[i]
           T == {i \in 0 .. n : Good(a[i], k + i)}
<1>2. 0 \in T
  <2>1. PICK z \in 0 .. n : z = 0 BY <1>0
  <2>2. k + z = k BY <1>0, <2>1
  <2> QED BY <1>0, <1>1, <2>1, <2>2
<1>3. ASSUME NEW i \in 1 .. n, i - 1 \in T PROVE i \in T
  <2>1. PICK s, x, j, m : s = a[i - 1] /\ x = page[i] /\ j = k + (i - 1) /\ m = k + i OBVIOUS
  <2>2. Good(s, j) /\ a[i] = Joining(s, x) /\ x = list[m] /\ m = j + 1 /\ j \in Nat /\ m \in 1 .. l
    BY <1>0, <1>1, <1>3, <2>1
  <2>3. x \notin Range(s)
    <3> SUFFICES ASSUME x \in Range(s) PROVE FALSE OBVIOUS
    <3>1. PICK b \in 1 .. j : s[b] = x BY <2>2, ListingIs
    <3>2. b \in 1 .. l /\ b # m BY <1>0, <2>2
    <3>3. list[b] = list[m] BY <2>2, <3>1
    <3> QED BY <2>2, <3>2, <3>3 DEF Distinct, l
  <2>4. a[i] = Append(s, x) BY <2>2, <2>3 DEF Joining
  <2>5. Good(Append(s, x), m)
    <3>1. PICK B : B = Range(s) \cup {x} OBVIOUS
    <3>2. s \in Seq(B)
      <4>1. s \in Seq(Range(s)) BY <2>2 DEF Listing
      <4>2. Range(s) \subseteq B BY <3>1
      <4> QED BY <4>1, <4>2, SeqMonotonic
    <3>3. x \in B BY <3>1
    <3>4. /\ Append(s, x) \in Seq(B) /\ Len(Append(s, x)) = Len(s) + 1
          /\ \A b \in 1 .. Len(s) : Append(s, x)[b] = s[b]
          /\ Append(s, x)[Len(s) + 1] = x
      BY <3>2, <3>3, AppendProperties
    <3>5. Listing(Append(s, x)) BY <3>4, SeqOfRange DEF Listing
    <3>6. \A b : b \in 1 .. m <=> b \in 1 .. j \/ b = m BY <2>2
    <3>7. Len(s) = j /\ \A b \in 1 .. j : s[b] = list[b] BY <2>2
    <3>8. Append(s, x)[m] = list[m] BY <2>2, <3>4, <3>7
    <3>9. \A b \in 1 .. m : Append(s, x)[b] = list[b] BY <3>4, <3>6, <3>7, <3>8
    <3> QED BY <2>2, <3>4, <3>5, <3>7, <3>9
  <2>6. i \in 0 .. n OBVIOUS
  <2> HIDE DEF Good
  <2> QED BY <2>1, <2>4, <2>5, <2>6
<1> HIDE DEF Good
<1>4. 0 .. n \subseteq T
  <2> HIDE DEF T
  <2> QED BY <1>0, <1>2, <1>3, Counting
<1>5. Good(merged, to)
  <2>1. n \in T BY <1>0, <1>4
  <2> QED BY <1>1, <2>1
<1>6. Listing(merged) /\ Len(merged) = to /\ \A i \in 1 .. to : merged[i] = list[i] BY <1>5 DEF Good
<1>7. low \in Int /\ low <= most /\ low <= to /\ (low = most \/ low = to)
  <2>1. most \in Int /\ to \in Int BY <1>0
  <2> QED BY <1>6, <2>1, LesserOfTwo
<1>8. low \in Nat BY <1>0, <1>7
<1> HIDE DEF low
<1>9. PICK z \in Nat : z = 0 OBVIOUS
<1>10. z \in Nat /\ z <= low /\ low <= Len(merged) BY <1>6, <1>7, <1>8, <1>9
<1>11. /\ Listing(SubSeq(merged, z + 1, low)) /\ Len(SubSeq(merged, z + 1, low)) = low - z
       /\ \A i \in 1 .. low - z : z + i \in 1 .. Len(merged) /\ SubSeq(merged, z + 1, low)[i] = merged[z + i]
  BY <1>6, <1>8, <1>10, SubSeqIs
<1>12. PICK cut : cut = SubSeq(merged, 1, low) OBVIOUS
<1>13. z + 1 = 1 /\ low - z = low /\ \A i \in 1 .. low : z + i = i BY <1>8, <1>9
<1>14. Listing(cut) /\ Len(cut) = low /\ \A i \in 1 .. low : cut[i] = merged[i] BY <1>11, <1>12, <1>13
<1>15. \A i \in 1 .. low : i \in 1 .. to BY <1>0, <1>7, <1>8
<1>16. cut = Merge(rows, page, most)
  <2>1. Merge(rows, page, most) = SubSeq(Merging(rows, page), 1, Min({most, Len(Merging(rows, page))}))
    BY DEF Merge, Merging, FoldLeft, MapThenFoldSet
  <2> QED BY <1>12, <2>1 DEF merged, low
<1>17. Upto(cut, list, to, most) BY <1>0, <1>6, <1>7, <1>8, <1>14, <1>15 DEF Upto, l
<1> QED BY <1>16, <1>17
-----------------------------------------------------------------------------
(* GraphReading: what a page answers, and the view it is put into.          *)

EdgeLimit(mt) == Min({EdgeCap, 2 * mt.size})

Spot(g, mt, kn, ke) ==
    [binding |-> [graph |-> g, seed |-> mt.seed, depth |-> Depth, nodeLimit |-> mt.size, edgeLimit |-> EdgeLimit(mt)],
     offsets |-> [nodes |-> kn, edges |-> ke]]

MountOK(mt) == mt.n \in Nat /\ mt.seed \in Seeds /\ mt.size \in PageSizes /\ mt.pin \in {Null, 1}

LEMMA SpotIsCursor ==
    ASSUME NEW mt, MountOK(mt)
    PROVE  /\ mt.size \in Nat \ {0} /\ EdgeLimit(mt) \in Nat \ {0}
           /\ \A g, kn, ke \in Nat : Spot(g, mt, kn, ke) # Null
<1>1. mt.size \in Nat \ {0} /\ EdgeCap \in Nat \ {0} /\ Depth \in Nat BY PagesAssumption DEF MountOK
<1>2. PICK b, c \in Int : b = EdgeCap /\ c = 2 * mt.size BY <1>1
<1>3. EdgeLimit(mt) = Min({b, c}) BY <1>2 DEF EdgeLimit
<1>4. PICK l : l = Min({b, c}) OBVIOUS
<1>5. l = b \/ l = c BY <1>4, LesserOfTwo
<1>6. EdgeLimit(mt) \in Nat \ {0} BY <1>1, <1>2, <1>3, <1>4, <1>5
<1>7. ASSUME NEW g \in Nat, NEW kn \in Nat, NEW ke \in Nat PROVE Spot(g, mt, kn, ke) # Null
  <2>1. Spot(g, mt, kn, ke) \in Cursors BY <1>1, <1>6 DEF Spot, Cursors, MountOK
  <2> QED BY <2>1, NullAssumption
<1> QED BY <1>1, <1>6, <1>7

LEMMA PageFollows ==
    ASSUME NEW list, Distinct(list), NEW k \in Nat, k <= Len(list), NEW limit \in Nat
    PROVE  \E n \in Nat : Follow(Page(list, k, limit), list, k, n, limit)
<1>1. Listing(list) /\ Len(list) \in Nat BY DEF Distinct
<1>2. PICK n \in Nat : PageOf(Page(list, k, limit), list, k, limit, n) BY <1>1, PageIs
<1>3. PICK page : page = Page(list, k, limit) OBVIOUS
<1>4. /\ page = [i \in 1 .. n |-> list[k + i]] /\ Listing(page) /\ Len(page) = n
      /\ k + n <= Len(list) /\ (n < limit => Len(list) <= k + n)
  BY <1>2, <1>3 DEF PageOf
<1>5. \A i \in 1 .. n : page[i] = list[k + i] BY <1>4
<1>6. Follow(page, list, k, n, limit) BY <1>1, <1>4, <1>5 DEF Follow
<1> QED BY <1>3, <1>6

Continues(page, G, g, mt, kn, ke) ==
    \E n, m \in Nat :
        LET nodes == NodesFrom(G, mt.seed)
            edges == EdgesFrom(G, mt.seed)
        IN /\ page.ok /\ page.graph = g
           /\ Follow(page.nodes, nodes, kn, n, mt.size) /\ Follow(page.edges, edges, ke, m, EdgeLimit(mt))
           /\ page.left = (Len(nodes) - (kn + n)) + (Len(edges) - (ke + m))
           /\ page.cursor = IF page.left = 0 THEN Null ELSE Spot(g, mt, kn + n, ke + m)

PageWith(g, b, nodes, edges, left, to) ==
    [ok |-> TRUE, graph |-> g, nodes |-> nodes, edges |-> edges, left |-> left,
     cursor |-> IF left = 0 THEN Null ELSE [binding |-> b, offsets |-> to]]

LEMMA PageContinues ==
    ASSUME NEW G, GoodGraph(G), NEW g, NEW mt, MountOK(mt), NEW kn \in Nat, NEW ke \in Nat,
           kn <= Len(NodesFrom(G, mt.seed)), ke <= Len(EdgesFrom(G, mt.seed)),
           NEW req, req.seed = mt.seed, req.depth = Depth, req.nodeLimit = mt.size, req.edgeLimit = EdgeLimit(mt),
           \/ req.cursor = Null /\ kn = 0 /\ ke = 0
           \/ req.cursor # Null /\ req.cursor.offsets = [nodes |-> kn, edges |-> ke]
    PROVE  Continues(Neighbourhood(req, g, G), G, g, mt, kn, ke)
<1>1. PICK s, L, M, a, b, page :
          /\ s = mt.seed /\ L = NodesFrom(G, mt.seed) /\ M = EdgesFrom(G, mt.seed) /\ a = mt.size /\ b = EdgeLimit(mt)
          /\ page = Neighbourhood(req, g, G)
  OBVIOUS
<1>2. Distinct(L) /\ Distinct(M) BY <1>1, PagedLists
<1>3. a \in Nat \ {0} /\ b \in Nat \ {0} BY <1>1, SpotIsCursor
<1>4. kn <= Len(L) /\ ke <= Len(M) /\ Len(L) \in Nat /\ Len(M) \in Nat BY <1>1, <1>2 DEF Distinct
<1>5. PICK n \in Nat : Follow(Page(L, kn, a), L, kn, n, a) BY <1>2, <1>3, <1>4, PageFollows
<1>6. PICK m \in Nat : Follow(Page(M, ke, b), M, ke, m, b) BY <1>2, <1>3, <1>4, PageFollows
<1>7. CASE s \in DOMAIN G.nodes
  <2>1. PICK S, E : S = Reach(G, s, Depth) /\ E = ReachEdges(G, s, Depth) OBVIOUS
  <2>2. ListingOfSet(L, S) /\ ListingOfSet(M, E) /\ S \cap DOMAIN G.nodes = S BY <1>1, <1>7, <2>1, PagedLists
  <2>3. L = NodeOrder(s, S) /\ M = Ordered(E) BY <1>1, <1>7, <2>1, <2>2 DEF NodesFrom, EdgesFrom
  <2>4. PICK from : from = [nodes |-> kn, edges |-> ke] OBVIOUS
  <2>5. (IF req.cursor = Null THEN [nodes |-> 0, edges |-> 0] ELSE req.cursor.offsets) = from BY <2>4
  <2>6. PICK nodes, edges, x, y, left :
            /\ nodes = Page(L, kn, a) /\ edges = Page(M, ke, b) /\ x = kn + n /\ y = ke + m
            /\ left = (Len(L) - x) + (Len(M) - y)
    OBVIOUS
  <2>7. Len(nodes) = n /\ Len(edges) = m BY <1>5, <1>6, <2>6 DEF Follow
  <2>8. Cardinality(S) = Len(L) /\ Cardinality(E) = Len(M) BY <2>2 DEF ListingOfSet
  <2>9. Binding(req, g) = [graph |-> g, seed |-> s, depth |-> Depth, nodeLimit |-> a, edgeLimit |-> b] BY <1>1 DEF Binding
  <2>10. page = [ok |-> TRUE, graph |-> g, nodes |-> nodes, edges |-> edges, left |-> left,
                 cursor |-> IF left = 0 THEN Null ELSE [binding |-> Binding(req, g), offsets |-> [nodes |-> x, edges |-> y]]]
    <3>1. req.seed = s /\ req.depth = Depth /\ req.nodeLimit = a /\ req.edgeLimit = b BY <1>1
    <3>2. Reach(G, req.seed, req.depth) = S /\ ReachEdges(G, req.seed, req.depth) = E BY <2>1, <3>1
    <3>3. from.nodes = kn /\ from.edges = ke BY <2>4
    <3>4. /\ Page(NodeOrder(req.seed, S \cap DOMAIN G.nodes), from.nodes, req.nodeLimit) = nodes
          /\ Page(Ordered(E), from.edges, req.edgeLimit) = edges
      BY <2>2, <2>3, <2>6, <3>1, <3>3
    <3>5. PICK upto : upto = [nodes |-> from.nodes + Len(nodes), edges |-> from.edges + Len(edges)] OBVIOUS
    <3>6. upto = [nodes |-> x, edges |-> y] BY <2>6, <2>7, <3>3, <3>5
    <3>7. (Cardinality(S) - upto.nodes) + (Cardinality(E) - upto.edges) = left BY <2>6, <2>8, <3>6
    <3>8. page = Neighbourhood(req, g, G) /\ req.seed \in DOMAIN G.nodes BY <1>1, <1>7
    <3>9. Neighbourhood(req, g, G) =
              LET at == IF req.cursor = Null THEN [nodes |-> 0, edges |-> 0] ELSE req.cursor.offsets
                  ns == Page(NodeOrder(req.seed, S \cap DOMAIN G.nodes), at.nodes, req.nodeLimit)
                  es == Page(Ordered(E), at.edges, req.edgeLimit)
                  to == [nodes |-> at.nodes + Len(ns), edges |-> at.edges + Len(es)]
              IN PageWith(g, Binding(req, g), ns, es, (Cardinality(S) - to.nodes) + (Cardinality(E) - to.edges), to)
      BY <3>2, <3>8 DEF Neighbourhood, PageWith
    <3>10. Neighbourhood(req, g, G) =
               PageWith(g, Binding(req, g), nodes, edges, (Cardinality(S) - upto.nodes) + (Cardinality(E) - upto.edges), upto)
      BY <2>5, <3>4, <3>5, <3>9
    <3>11. page = PageWith(g, Binding(req, g), nodes, edges, left, [nodes |-> x, edges |-> y]) BY <3>6, <3>7, <3>8, <3>10
    <3> QED BY <3>11 DEF PageWith
  <2>11. Spot(g, mt, x, y) = [binding |-> Binding(req, g), offsets |-> [nodes |-> x, edges |-> y]]
    BY <1>1, <2>9 DEF Spot
  <2>12. /\ page.ok /\ page.graph = g /\ page.nodes = nodes /\ page.edges = edges /\ page.left = left
         /\ page.cursor = IF left = 0 THEN Null ELSE Spot(g, mt, x, y)
    BY <2>10, <2>11
  <2> QED BY <1>1, <1>5, <1>6, <2>6, <2>12 DEF Continues
<1>8. CASE s \notin DOMAIN G.nodes
  <2>1. Len(L) = 0 /\ Len(M) = 0 BY <1>1, <1>8, PagedLists
  <2>2. kn = 0 /\ ke = 0 BY <1>4, <2>1
  <2>3. PICK none, z \in Nat : z = 0 /\ none = 0 OBVIOUS
  <2>4. PICK e : e = << >> OBVIOUS
  <2>5. e = [i \in 1 .. z |-> e[i]] BY <2>3, <2>4
  <2>6. Listing(e) /\ Len(e) = z BY <2>5, ListingOf
  <2>7. Follow(e, L, kn, z, a) /\ Follow(e, M, ke, z, b) BY <2>1, <2>2, <2>3, <2>6 DEF Follow
  <2>8. page = Empty(g) BY <1>1, <1>8 DEF Neighbourhood
  <2>9. page.ok /\ page.graph = g /\ page.nodes = e /\ page.edges = e /\ page.left = 0 /\ page.cursor = Null
    BY <2>4, <2>8 DEF Empty
  <2>10. (Len(L) - (kn + z)) + (Len(M) - (ke + z)) = 0 BY <2>1, <2>2, <2>3
  <2> QED BY <1>1, <2>7, <2>9, <2>10 DEF Continues
<1> QED BY <1>7, <1>8
\* A view, and how much of the neighbourhood it has been given.
Sees(G, mt, v, kn, ke) ==
    LET nodes == NodesFrom(G, mt.seed)
        edges == EdgesFrom(G, mt.seed)
    IN /\ Upto(v.nodes, nodes, kn, LoadedNodes) /\ Upto(v.edges, edges, ke, LoadedEdges)
       /\ v.left = (Len(nodes) - kn) + (Len(edges) - ke)
       /\ v.cursor = IF v.left = 0 THEN Null ELSE Spot(v.graph, mt, kn, ke)

ViewOK(gs, mt, v) == v.graph \in DOMAIN gs /\ \E kn, ke \in Nat : Sees(gs[v.graph], mt, v, kn, ke)

Requested(mt, v) ==
    [of |-> mt.n, kind |-> "request", seed |-> mt.seed, depth |-> Depth, nodeLimit |-> mt.size, edgeLimit |-> EdgeLimit(mt),
     cursor |-> IF v = Null THEN Null ELSE v.cursor, graph |-> IF v = Null THEN mt.pin ELSE v.graph]

\* A view that goes on loading.
More(gs, mt, v) ==
    v # Null => ViewOK(gs, mt, v) /\ v.cursor # Null /\ Len(v.nodes) < LoadedNodes /\ Len(v.edges) < LoadedEdges

ShownWith(v, page) ==
    [graph |-> page.graph,
     nodes |-> Merge(IF v = Null THEN << >> ELSE v.nodes, page.nodes, LoadedNodes),
     edges |-> Merge(IF v = Null THEN << >> ELSE v.edges, page.edges, LoadedEdges),
     cursor |-> page.cursor, left |-> page.left]

LEMMA ViewContinues ==
    ASSUME NEW gs, PublishedAs(gs), NEW mt, MountOK(mt), NEW v, More(gs, mt, v), NEW g \in DOMAIN gs, v # Null => g = v.graph,
           NEW page, page = Neighbourhood(Requested(mt, v), g, gs[g])
    PROVE  /\ page.ok /\ page.graph = g
           /\ ViewOK(gs, mt, ShownWith(v, page))
           /\ v # Null => page.left < v.left
<1>1. PICK G, s, L, M, a, b, req :
          /\ G = gs[g] /\ s = mt.seed /\ L = NodesFrom(G, s) /\ M = EdgesFrom(G, s)
          /\ a = mt.size /\ b = EdgeLimit(mt) /\ req = Requested(mt, v)
  OBVIOUS
<1>2. GoodGraph(G) BY <1>1, GraphsAreGood
<1>3. g \in Nat BY GraphsAreGood
<1>4. Distinct(L) /\ Distinct(M) /\ Len(L) \in Nat /\ Len(M) \in Nat BY <1>1, <1>2, PagedLists DEF Distinct
<1>5. a \in Nat \ {0} /\ b \in Nat \ {0} BY <1>1, SpotIsCursor
<1>6. LoadedNodes \in Nat /\ LoadedEdges \in Nat BY PagesAssumption
<1>7. PICK nodes, edges : /\ nodes = IF v = Null THEN << >> ELSE v.nodes
                          /\ edges = IF v = Null THEN << >> ELSE v.edges
  OBVIOUS
<1>8. \E kn, ke \in Nat :
          /\ Upto(nodes, L, kn, LoadedNodes) /\ Len(nodes) = kn /\ Upto(edges, M, ke, LoadedEdges) /\ Len(edges) = ke
          /\ v # Null => v.left = (Len(L) - kn) + (Len(M) - ke) /\ v.left # 0 /\ v.cursor = Spot(g, mt, kn, ke)
          /\ v = Null => kn = 0 /\ ke = 0
  <2>1. CASE v = Null
    <3>1. PICK z \in Nat : z = 0 OBVIOUS
    <3>2. PICK e : e = << >> OBVIOUS
    <3>3. e = [i \in 1 .. z |-> e[i]] BY <3>1, <3>2
    <3>4. Listing(e) /\ Len(e) = z BY <3>3, ListingOf
    <3>5. Upto(e, L, z, LoadedNodes) /\ Upto(e, M, z, LoadedEdges) BY <1>4, <1>6, <3>1, <3>4 DEF Upto
    <3>6. nodes = e /\ edges = e BY <1>7, <2>1, <3>2
    <3> QED BY <2>1, <3>1, <3>4, <3>5, <3>6
  <2>2. CASE v # Null
    <3>1. ViewOK(gs, mt, v) /\ v.cursor # Null /\ Len(v.nodes) < LoadedNodes /\ Len(v.edges) < LoadedEdges BY <2>2 DEF More
    <3>2. v.graph = g /\ nodes = v.nodes /\ edges = v.edges BY <1>7, <2>2
    <3>3. PICK kn, ke \in Nat : Sees(G, mt, v, kn, ke) BY <1>1, <3>1, <3>2 DEF ViewOK
    <3>4. /\ Upto(nodes, L, kn, LoadedNodes) /\ Upto(edges, M, ke, LoadedEdges)
          /\ v.left = (Len(L) - kn) + (Len(M) - ke) /\ v.left # 0 /\ v.cursor = Spot(g, mt, kn, ke)
      BY <1>1, <3>1, <3>2, <3>3 DEF Sees
    <3>5. Len(nodes) = kn BY <1>6, <3>1, <3>2, <3>4 DEF Upto
    <3>6. Len(edges) = ke BY <1>6, <3>1, <3>2, <3>4 DEF Upto
    <3> QED BY <2>2, <3>4, <3>5, <3>6
  <2> QED BY <2>1, <2>2
<1>9. PICK kn, ke \in Nat :
          /\ Upto(nodes, L, kn, LoadedNodes) /\ Len(nodes) = kn /\ Upto(edges, M, ke, LoadedEdges) /\ Len(edges) = ke
          /\ v # Null => v.left = (Len(L) - kn) + (Len(M) - ke) /\ v.left # 0 /\ v.cursor = Spot(g, mt, kn, ke)
          /\ v = Null => kn = 0 /\ ke = 0
  BY <1>8
<1>10. kn <= Len(L) /\ ke <= Len(M) BY <1>9 DEF Upto
<1>11. /\ req.seed = mt.seed /\ req.depth = Depth /\ req.nodeLimit = mt.size /\ req.edgeLimit = EdgeLimit(mt)
       /\ req.cursor = IF v = Null THEN Null ELSE v.cursor
  BY <1>1 DEF Requested
<1>12. \/ req.cursor = Null /\ kn = 0 /\ ke = 0
       \/ req.cursor # Null /\ req.cursor.offsets = [nodes |-> kn, edges |-> ke]
  <2>1. CASE v = Null BY <1>9, <1>11, <2>1
  <2>2. CASE v # Null
    <3>1. req.cursor = Spot(g, mt, kn, ke) BY <1>9, <1>11, <2>2
    <3>2. Spot(g, mt, kn, ke) # Null BY <1>3, SpotIsCursor
    <3> QED BY <3>1, <3>2 DEF Spot
  <2> QED BY <2>1, <2>2
<1>13. Continues(page, G, g, mt, kn, ke)
  <2>1. kn <= Len(NodesFrom(G, mt.seed)) /\ ke <= Len(EdgesFrom(G, mt.seed)) BY <1>1, <1>10
  <2>2. Continues(Neighbourhood(req, g, G), G, g, mt, kn, ke) BY <1>2, <1>11, <1>12, <2>1, PageContinues
  <2> QED BY <1>1, <2>2
<1>14. PICK n, m \in Nat :
           /\ page.ok /\ page.graph = g
           /\ Follow(page.nodes, L, kn, n, a) /\ Follow(page.edges, M, ke, m, b)
           /\ page.left = (Len(L) - (kn + n)) + (Len(M) - (ke + m))
           /\ page.cursor = IF page.left = 0 THEN Null ELSE Spot(g, mt, kn + n, ke + m)
  BY <1>1, <1>13 DEF Continues
<1>15. PICK x, y \in Nat : x = kn + n /\ y = ke + m OBVIOUS
<1>16. PICK pn, pe, new : pn = page.nodes /\ pe = page.edges /\ new = ShownWith(v, page) OBVIOUS
<1>17. Upto(Merge(nodes, pn, LoadedNodes), L, x, LoadedNodes) BY <1>4, <1>6, <1>9, <1>14, <1>15, <1>16, MergeIs
<1>18. Upto(Merge(edges, pe, LoadedEdges), M, y, LoadedEdges) BY <1>4, <1>6, <1>9, <1>14, <1>15, <1>16, MergeIs
<1>19. /\ new.graph = g /\ new.nodes = Merge(nodes, pn, LoadedNodes) /\ new.edges = Merge(edges, pe, LoadedEdges)
       /\ new.cursor = page.cursor /\ new.left = page.left
  BY <1>7, <1>14, <1>16 DEF ShownWith
<1>20. Sees(G, mt, new, x, y) BY <1>1, <1>14, <1>15, <1>17, <1>18, <1>19 DEF Sees
<1>21. ViewOK(gs, mt, new) BY <1>1, <1>19, <1>20 DEF ViewOK
<1>22. ASSUME v # Null PROVE page.left < v.left
  <2>1. v.left = (Len(L) - kn) + (Len(M) - ke) /\ v.left # 0 BY <1>9, <1>22
  <2>2. kn + n <= Len(L) /\ (n < a => kn + n = Len(L)) BY <1>14 DEF Follow
  <2>3. ke + m <= Len(M) /\ (m < b => ke + m = Len(M)) BY <1>14 DEF Follow
  <2>4. page.left = (Len(L) - (kn + n)) + (Len(M) - (ke + m)) BY <1>14
  <2>5. PICK c, d \in Nat : c = Len(L) /\ d = Len(M) BY <1>4
  <2>6. a >= 1 /\ b >= 1 /\ a \in Nat /\ b \in Nat BY <1>5
  <2>7. kn # c \/ ke # d BY <2>1, <2>5
  <2>8. n + m >= 1
    <3>1. CASE kn # c
      <4>1. n # 0 BY <2>2, <2>5, <2>6, <3>1
      <4> QED BY <4>1
    <3>2. CASE ke # d
      <4>1. m # 0 BY <2>3, <2>5, <2>6, <3>2
      <4> QED BY <4>1
    <3> QED BY <2>7, <3>1, <3>2
  <2>9. page.left = (c - (kn + n)) + (d - (ke + m)) /\ v.left = (c - kn) + (d - ke) BY <2>1, <2>4, <2>5
  <2> QED BY <2>8, <2>9
<1> QED BY <1>14, <1>16, <1>21, <1>22
-----------------------------------------------------------------------------
(* GraphReading: one mount loads page after page of one graph.              *)

Response(of, page) == [of |-> of, kind |-> "response", page |-> page]

\* The one message of the mount: the request of what is shown, or its answer.
Current(gs, mt, v, m) ==
    /\ More(gs, mt, v)
    /\ \/ m = Requested(mt, v)
       \/ \E g \in DOMAIN gs : /\ v # Null => g = v.graph
                               /\ m = Response(mt.n, Neighbourhood(Requested(mt, v), g, gs[g]))

WireOK(gs, mt, v, w) ==
    /\ \A m \in w : m.of \in Nat /\ m.of <= mt.n
    /\ \A m, k \in w : m.of = mt.n /\ k.of = mt.n => m = k
    /\ \A m \in w : m.of = mt.n => Current(gs, mt, v, m)

ViewInv(gs, mt, v, w) ==
    mt # Null => MountOK(mt) /\ (v # Null => ViewOK(gs, mt, v)) /\ WireOK(gs, mt, v, w)

LEMMA PublishingKeeps ==
    ASSUME NEW gs, NEW more, DOMAIN gs \subseteq DOMAIN more, \A i \in DOMAIN gs : more[i] = gs[i],
           NEW mt, NEW v, NEW w, ViewInv(gs, mt, v, w)
    PROVE  ViewInv(more, mt, v, w)
<1>1. ViewOK(gs, mt, v) => ViewOK(more, mt, v)
  <2> SUFFICES ASSUME ViewOK(gs, mt, v) PROVE ViewOK(more, mt, v) OBVIOUS
  <2>1. v.graph \in DOMAIN gs /\ v.graph \in DOMAIN more /\ more[v.graph] = gs[v.graph] BY DEF ViewOK
  <2> QED BY <2>1 DEF ViewOK
<1>2. More(gs, mt, v) => More(more, mt, v) BY <1>1 DEF More
<1>3. ASSUME NEW m, Current(gs, mt, v, m) PROVE Current(more, mt, v, m)
  <2>1. CASE m = Requested(mt, v) BY <1>2, <1>3, <2>1 DEF Current
  <2>2. CASE \E g \in DOMAIN gs : /\ v # Null => g = v.graph
                                  /\ m = Response(mt.n, Neighbourhood(Requested(mt, v), g, gs[g]))
    <3>1. PICK g \in DOMAIN gs : /\ v # Null => g = v.graph
                                 /\ m = Response(mt.n, Neighbourhood(Requested(mt, v), g, gs[g]))
      BY <2>2
    <3>2. g \in DOMAIN more /\ more[g] = gs[g] OBVIOUS
    <3> QED BY <1>2, <1>3, <3>1, <3>2 DEF Current
  <2> QED BY <1>3, <2>1, <2>2 DEF Current
<1>4. WireOK(gs, mt, v, w) => WireOK(more, mt, v, w) BY <1>3 DEF WireOK
<1> QED BY <1>1, <1>4 DEF ViewInv

LEMMA MountingKeeps ==
    ASSUME NEW gs, NEW mt, mt # Null, NEW v, NEW w, ViewInv(gs, mt, v, w),
           NEW seed \in Seeds, NEW size \in PageSizes, NEW pin \in {Null, 1}
    PROVE  ViewInv(gs, Mounted(mt.n + 1, seed, size, pin), Null, w)
<1>1. PICK new : new = Mounted(mt.n + 1, seed, size, pin) OBVIOUS
<1>2. mt.n \in Nat /\ \A m \in w : m.of \in Nat /\ m.of <= mt.n BY DEF ViewInv, MountOK, WireOK
<1>3. new.n = mt.n + 1 /\ new.seed = seed /\ new.size = size /\ new.pin = pin BY <1>1 DEF Mounted
<1>4. MountOK(new) BY <1>2, <1>3 DEF MountOK
<1>5. \A m \in w : m.of <= new.n /\ m.of # new.n BY <1>2, <1>3
<1>6. WireOK(gs, new, Null, w) BY <1>2, <1>5 DEF WireOK
<1> QED BY <1>1, <1>4, <1>6 DEF ViewInv

LEMMA LoadingKeeps ==
    ASSUME NEW gs, NEW mt, mt # Null, NEW v, NEW w, ViewInv(gs, mt, v, w),
           \A m \in w : m.of # mt.n, More(gs, mt, v)
    PROVE  ViewInv(gs, mt, v, w \cup {Requested(mt, v)})
<1>1. PICK req, wider : req = Requested(mt, v) /\ wider = w \cup {req} OBVIOUS
<1>2. mt.n \in Nat /\ \A m \in w : m.of \in Nat /\ m.of <= mt.n BY DEF ViewInv, MountOK, WireOK
<1>3. req.of = mt.n BY <1>1 DEF Requested
<1>4. \A m \in wider : m \in w \/ m = req BY <1>1
<1>5. Current(gs, mt, v, req) BY <1>1 DEF Current
<1>6. WireOK(gs, mt, v, wider) BY <1>2, <1>3, <1>4, <1>5 DEF WireOK
<1> QED BY <1>1, <1>6 DEF ViewInv

LEMMA LosingKeeps ==
    ASSUME NEW gs, NEW mt, NEW v, NEW w, ViewInv(gs, mt, v, w), NEW less, less \subseteq w
    PROVE  ViewInv(gs, mt, v, less)
BY DEF ViewInv, WireOK

LEMMA ResettingKeeps ==
    ASSUME NEW gs, NEW mt, NEW v, NEW w, ViewInv(gs, mt, v, w), \A m \in w : m.of # mt.n
    PROVE  ViewInv(gs, mt, Null, w)
BY DEF ViewInv, WireOK

\* What get_graph answers a request with.
AskedOf(gs, req) == IF req.graph # Null THEN req.graph ELSE Len(gs)
ServedOf(gs, req) ==
    IF ~InScope(req, AskedOf(gs, req)) THEN Failed ELSE Neighbourhood(req, AskedOf(gs, req), gs[AskedOf(gs, req)])

LEMMA RequestsAreServed ==
    ASSUME NEW gs, PublishedAs(gs), NEW mt, MountOK(mt), NEW v, More(gs, mt, v), NEW req, req = Requested(mt, v)
    PROVE  \E g \in DOMAIN gs : (v # Null => g = v.graph) /\ ServedOf(gs, req) = Neighbourhood(req, g, gs[g])
<1>1. PICK g : g = AskedOf(gs, req) OBVIOUS
<1>2. Len(gs) \in Nat \ {0} /\ DOMAIN gs = 1 .. Len(gs) BY GraphsAreGood
<1>3. Len(gs) \in DOMAIN gs /\ 1 \in DOMAIN gs BY <1>2
<1>4. /\ req.graph = IF v = Null THEN mt.pin ELSE v.graph
      /\ req.cursor = IF v = Null THEN Null ELSE v.cursor
      /\ Binding(req, g) = [graph |-> g, seed |-> mt.seed, depth |-> Depth, nodeLimit |-> mt.size, edgeLimit |-> EdgeLimit(mt)]
  BY DEF Requested, Binding
<1>5. CASE v = Null
  <2>1. g \in DOMAIN gs BY <1>1, <1>3, <1>4, <1>5 DEF AskedOf, MountOK
  <2>2. InScope(req, g) BY <1>4, <1>5 DEF InScope
  <2> QED BY <1>1, <1>5, <2>1, <2>2 DEF ServedOf
<1>6. CASE v # Null
  <2>1. v.graph \in DOMAIN gs /\ v.cursor # Null /\ \E kn, ke \in Nat : Sees(gs[v.graph], mt, v, kn, ke)
    BY <1>6 DEF More, ViewOK
  <2>2. v.graph \in Nat BY <1>2, <2>1
  <2>3. g = v.graph BY <1>1, <1>4, <1>6, <2>2, NullAssumption DEF AskedOf
  <2>4. PICK kn, ke \in Nat : v.cursor = Spot(g, mt, kn, ke) BY <2>1, <2>3 DEF Sees
  <2>5. req.cursor = Spot(g, mt, kn, ke) BY <1>4, <1>6, <2>4
  <2>6. req.cursor.binding = Binding(req, g) BY <1>4, <2>5 DEF Spot
  <2>7. InScope(req, g) BY <2>6 DEF InScope
  <2> QED BY <1>1, <1>6, <2>1, <2>3, <2>7 DEF ServedOf
<1> QED BY <1>5, <1>6

LEMMA AnsweringKeeps ==
    ASSUME NEW gs, PublishedAs(gs), NEW mt, NEW v, NEW w, ViewInv(gs, mt, v, w),
           NEW req \in w, req.kind = "request"
    PROVE  ViewInv(gs, mt, v, (w \ {req}) \cup {Response(req.of, ServedOf(gs, req))})
<1> SUFFICES ASSUME mt # Null
             PROVE  WireOK(gs, mt, v, (w \ {req}) \cup {Response(req.of, ServedOf(gs, req))})
  BY DEF ViewInv
<1>1. PICK n, page : n = req.of /\ page = ServedOf(gs, req) OBVIOUS
<1>2. PICK answer, after : answer = Response(n, page) /\ after = (w \ {req}) \cup {answer} OBVIOUS
<1>3. answer.of = req.of BY <1>1, <1>2 DEF Response
<1>4. MountOK(mt) /\ WireOK(gs, mt, v, w) BY DEF ViewInv
<1>5. \A m \in after : (m \in w /\ m # req) \/ m = answer BY <1>2
<1>6. ASSUME req.of = mt.n PROVE Current(gs, mt, v, answer)
  <2>1. Current(gs, mt, v, req) BY <1>4, <1>6 DEF WireOK
  <2>2. req = Requested(mt, v)
    <3>1. \A of, p : Response(of, p).kind = "response" BY DEF Response
    <3> QED BY <2>1, <3>1 DEF Current
  <2>3. More(gs, mt, v) BY <2>1 DEF Current
  <2>4. PICK g \in DOMAIN gs : (v # Null => g = v.graph) /\ ServedOf(gs, req) = Neighbourhood(req, g, gs[g])
    BY <1>4, <2>2, <2>3, RequestsAreServed
  <2>5. answer = Response(mt.n, Neighbourhood(Requested(mt, v), g, gs[g])) BY <1>1, <1>2, <1>6, <2>2, <2>4
  <2> QED BY <2>3, <2>4, <2>5 DEF Current
<1>7. WireOK(gs, mt, v, after) BY <1>3, <1>4, <1>5, <1>6 DEF WireOK
<1> QED BY <1>1, <1>2, <1>7

LEMMA ReceivingKeeps ==
    ASSUME NEW gs, PublishedAs(gs), NEW mt, NEW v, NEW w, ViewInv(gs, mt, v, w), mt # Null,
           NEW msg \in w, msg.kind = "response", msg.of = mt.n, NEW page, page = msg.page
    PROVE  /\ ViewInv(gs, mt, ShownWith(v, page), w \ {msg})
           /\ v # Null => page.left < v.left
<1>1. MountOK(mt) /\ WireOK(gs, mt, v, w) BY DEF ViewInv
<1>2. Current(gs, mt, v, msg) BY <1>1 DEF WireOK
<1>3. More(gs, mt, v) BY <1>2 DEF Current
<1>4. PICK g \in DOMAIN gs : (v # Null => g = v.graph) /\ msg = Response(mt.n, Neighbourhood(Requested(mt, v), g, gs[g]))
  <2>1. Requested(mt, v).kind = "request" BY DEF Requested
  <2> QED BY <1>2, <2>1 DEF Current
<1>5. page = Neighbourhood(Requested(mt, v), g, gs[g])
  <2>1. \A of, p : Response(of, p).page = p BY DEF Response
  <2> QED BY <1>4, <2>1
<1>6. ViewOK(gs, mt, ShownWith(v, page)) /\ (v # Null => page.left < v.left) BY <1>1, <1>3, <1>4, <1>5, ViewContinues
<1>7. PICK new, less : new = ShownWith(v, page) /\ less = w \ {msg} OBVIOUS
<1>8. \A m \in less : m \in w /\ m.of # mt.n BY <1>1, <1>7 DEF WireOK
<1>9. WireOK(gs, mt, new, less) BY <1>1, <1>8 DEF WireOK
<1> QED BY <1>1, <1>6, <1>7, <1>9 DEF ViewInv
LoadInv == ViewInv(graphs, mount, view, wire)

LEMMA LoadsBegin == CaseInit => LoadInv
<1> SUFFICES ASSUME CaseInit PROVE LoadInv OBVIOUS
<1>1. CASE ReadingInit BY <1>1 DEF ReadingInit, LoadInv, ViewInv
<1>2. CASE Init
  <2>1. view = Null /\ wire = {} BY <1>2 DEF Init
  <2>2. PICK seed \in Seeds : \E size \in PageSizes, pin \in {Null, 1} : mount = Mounted(1, seed, size, pin)
    BY <1>2 DEF Init
  <2>3. PICK size \in PageSizes : \E pin \in {Null, 1} : mount = Mounted(1, seed, size, pin) BY <2>2
  <2>4. PICK pin \in {Null, 1} : mount = Mounted(1, seed, size, pin) BY <2>3
  <2>5. mount.n = 1 /\ mount.seed = seed /\ mount.size = size /\ mount.pin = pin BY <2>4 DEF Mounted
  <2>6. MountOK(mount) BY <2>5 DEF MountOK
  <2>7. WireOK(graphs, mount, view, wire) BY <2>1 DEF WireOK
  <2> QED BY <2>1, <2>6, <2>7 DEF LoadInv, ViewInv
<1> QED BY <1>1, <1>2 DEF CaseInit

LEMMA LoadsStep == Published /\ LoadInv /\ [CaseNext]_allVars => LoadInv'
<1> SUFFICES ASSUME Published, LoadInv, [CaseNext]_allVars PROVE LoadInv'
  OBVIOUS
<1> DEFINE Keeps == ViewInv(graphs', mount', view', wire')
<1>1. PublishedAs(graphs) BY DEF Published, PublishedAs
<1>2. ViewInv(graphs, mount, view, wire) BY DEF LoadInv
<1>3. ASSUME UNCHANGED vars PROVE Keeps BY <1>2, <1>3 DEF vars
<1>4. ASSUME mount # Null, PublishNext PROVE Keeps
  <2>1. PICK G : graphs' = Append(graphs, G) BY <1>4 DEF PublishNext
  <2>2. Listing(graphs)
    <3>1. PICK n \in DOMAIN Ledgers : graphs = [i \in 1 .. n |-> GraphOf(i)] BY DEF Published
    <3>2. n \in Nat BY LedgersAreEvidence
    <3>3. graphs = [i \in 1 .. n |-> graphs[i]] BY <3>1
    <3> QED BY <3>2, <3>3, ListingOf
  <2>3. PICK gs, more : gs = graphs /\ more = graphs' OBVIOUS
  <2>4. Len(gs) \in Nat /\ DOMAIN gs = 1 .. Len(gs) BY <2>2, <2>3, ListingIs
  <2>5. PICK B : B = Range(gs) \cup {G} OBVIOUS
  <2>6. gs \in Seq(B)
    <3>1. gs \in Seq(Range(gs)) BY <2>2, <2>3 DEF Listing
    <3>2. Range(gs) \subseteq B BY <2>5
    <3> QED BY <3>1, <3>2, SeqMonotonic
  <2>7. G \in B BY <2>5
  <2>8. /\ more \in Seq(B) /\ Len(more) = Len(gs) + 1 /\ \A i \in 1 .. Len(gs) : more[i] = gs[i]
    BY <2>1, <2>3, <2>6, <2>7, AppendProperties
  <2>9. DOMAIN more = 1 .. Len(gs) + 1 BY <2>8, LenProperties
  <2>10. DOMAIN gs \subseteq DOMAIN more /\ \A i \in DOMAIN gs : more[i] = gs[i] BY <2>4, <2>8, <2>9
  <2>11. ViewInv(more, mount, view, wire) BY <1>2, <2>3, <2>10, PublishingKeeps
  <2> QED BY <1>4, <2>3, <2>11 DEF PublishNext
<1>5. ASSUME mount # Null, NEW seed \in Seeds, NEW size \in PageSizes, NEW pin \in {Null, 1}, Mount(seed, size, pin)
      PROVE  Keeps
  <2>1. ViewInv(graphs, Mounted(mount.n + 1, seed, size, pin), Null, wire) BY <1>2, <1>5, MountingKeeps
  <2> QED BY <1>5, <2>1 DEF Mount
<1>6. ASSUME mount # Null, Load PROVE Keeps
  <2>1. MountOK(mount) /\ (view # Null => ViewOK(graphs, mount, view)) BY <1>2, <1>6 DEF ViewInv
  <2>2. \A m \in wire : m.of # mount.n BY <1>6 DEF Load, Loading
  <2>3. ASSUME view # Null PROVE Len(view.nodes) < LoadedNodes /\ Len(view.edges) < LoadedEdges
    <3>1. ~(Len(view.nodes) >= LoadedNodes) /\ ~(Len(view.edges) >= LoadedEdges) BY <1>6, <2>3 DEF Load, Capped
    <3>2. Len(view.nodes) \in Nat /\ Len(view.edges) \in Nat BY <2>1, <2>3 DEF ViewOK, Sees, Upto
    <3>3. LoadedNodes \in Nat /\ LoadedEdges \in Nat BY PagesAssumption
    <3> QED BY <3>1, <3>2, <3>3
  <2>4. More(graphs, mount, view) BY <1>6, <2>1, <2>3 DEF More, Load
  <2>5. ViewInv(graphs, mount, view, wire \cup {Requested(mount, view)}) BY <1>2, <1>6, <2>2, <2>4, LoadingKeeps
  <2>6. wire' = wire \cup {Requested(mount, view)} BY <1>6 DEF Load, Requested, EdgeLimit
  <2> QED BY <1>6, <2>5, <2>6 DEF Load
<1>7. ASSUME mount # Null, Reset PROVE Keeps
  <2>1. \A m \in wire : m.of # mount.n BY <1>7 DEF Reset, Loading
  <2>2. ViewInv(graphs, mount, Null, wire) BY <1>2, <2>1, ResettingKeeps
  <2> QED BY <1>7, <2>2 DEF Reset
<1>8. ASSUME mount # Null, NEW msg \in wire, Answer(msg) PROVE Keeps
  <2>1. ViewInv(graphs, mount, view, (wire \ {msg}) \cup {Response(msg.of, ServedOf(graphs, msg))})
    <3>1. msg.kind = "request" BY <1>8 DEF Answer
    <3> QED BY <1>1, <1>2, <3>1, AnsweringKeeps
  <2>2. wire' = (wire \ {msg}) \cup {Response(msg.of, ServedOf(graphs, msg))}
    BY <1>8 DEF Answer, Response, Served, ServedOf, Asked, AskedOf
  <2> QED BY <1>8, <2>1, <2>2 DEF Answer
<1>9. ASSUME mount # Null, NEW msg \in wire, Receive(msg) PROVE Keeps
  <2>1. msg.kind = "response" /\ wire' = wire \ {msg} /\ view' = IF Usable(msg) THEN Shown(msg.page) ELSE view BY <1>9 DEF Receive
  <2>2. CASE Usable(msg)
    <3>1. msg.of = mount.n BY <2>2 DEF Usable
    <3>2. PICK page : page = msg.page OBVIOUS
    <3>3. ViewInv(graphs, mount, ShownWith(view, page), wire \ {msg}) BY <1>1, <1>2, <1>9, <2>1, <3>1, <3>2, ReceivingKeeps
    <3>4. view' = ShownWith(view, page) BY <2>1, <2>2, <3>2 DEF Shown, ShownWith
    <3> QED BY <1>9, <2>1, <3>3, <3>4 DEF Receive
  <2>3. CASE ~Usable(msg)
    <3>1. PICK less : less = wire \ {msg} OBVIOUS
    <3>2. less \subseteq wire BY <3>1
    <3>3. ViewInv(graphs, mount, view, less) BY <1>2, <3>2, LosingKeeps
    <3> QED BY <1>9, <2>1, <2>3, <3>1, <3>3 DEF Receive
  <2> QED BY <2>2, <2>3
<1>10. ASSUME mount # Null, NEW msg \in wire, Lose(msg) PROVE Keeps
  <2>1. PICK less : less = wire \ {msg} OBVIOUS
  <2>2. less \subseteq wire BY <2>1
  <2>3. ViewInv(graphs, mount, view, less) BY <1>2, <2>2, LosingKeeps
  <2> QED BY <1>10, <2>1, <2>3 DEF Lose
<1>11. Keeps
  <2>1. (mount # Null /\ Next) \/ UNCHANGED vars BY DEF CaseNext, allVars
  <2> HIDE DEF Keeps
  <2> QED BY <1>3, <1>4, <1>5, <1>6, <1>7, <1>8, <1>9, <1>10, <2>1 DEF Next
<1> QED BY <1>11 DEF LoadInv

LEMMA LoadsAreWhole == Published /\ LoadInv /\ mount # Null => ReadingIsWhole
<1> SUFFICES ASSUME Published, LoadInv, mount # Null PROVE ReadingIsWhole
  OBVIOUS
<1>1. PublishedAs(graphs) BY DEF Published, PublishedAs
<1>2. ViewInv(graphs, mount, view, wire) BY DEF LoadInv
<1>3. EveryPageProgresses
  <2> SUFFICES ASSUME NEW m \in wire, m.kind = "response", Usable(m), view # Null PROVE m.page.left < view.left
    BY DEF EveryPageProgresses
  <2>1. PICK page : page = m.page OBVIOUS
  <2>2. m.of = mount.n BY DEF Usable
  <2> QED BY <1>1, <1>2, <2>1, <2>2, ReceivingKeeps
<1>4. ASSUME view # Null, ~Capped, NEW G, G = graphs[view.graph], NEW nodes, nodes = Range(view.nodes), NEW edges, edges = Range(view.edges)
      PROVE  /\ nodes \subseteq DOMAIN G.nodes /\ edges \subseteq DOMAIN G.edges
             /\ Loaded + view.left = Whole(G)
             /\ view.cursor = Null /\ mount.seed \in DOMAIN G.nodes =>
                    /\ nodes = {mount.seed} \cup UNION {Ends(e) : e \in edges}
                    /\ edges = {e \in DOMAIN G.edges : Ends(e) \cap Reach(G, mount.seed, Depth - 1) # {}}
  <2>1. MountOK(mount) /\ ViewOK(graphs, mount, view) BY <1>2, <1>4 DEF ViewInv
  <2>2. GoodGraph(G) /\ view.graph \in Nat BY <1>1, <1>4, <2>1, GraphsAreGood DEF ViewOK
  <2>3. PICK s, L, M, x, y :
            s = mount.seed /\ L = NodesFrom(G, s) /\ M = EdgesFrom(G, s) /\ x = view.nodes /\ y = view.edges
    OBVIOUS
  <2>4. PICK kn \in Nat, ke \in Nat : Sees(G, mount, view, kn, ke) BY <1>4, <2>1 DEF ViewOK
  <2>5. /\ Upto(x, L, kn, LoadedNodes) /\ Upto(y, M, ke, LoadedEdges)
        /\ view.left = (Len(L) - kn) + (Len(M) - ke)
        /\ view.cursor = IF view.left = 0 THEN Null ELSE Spot(view.graph, mount, kn, ke)
    BY <2>3, <2>4 DEF Sees
  <2>6. LoadedNodes \in Nat /\ LoadedEdges \in Nat BY PagesAssumption
  <2>7. Len(x) = kn /\ Len(y) = ke
    <3>1. ~(Len(x) >= LoadedNodes) /\ ~(Len(y) >= LoadedEdges) BY <1>4, <2>3 DEF Capped
    <3>2. Len(x) \in Nat /\ (Len(x) = kn \/ Len(x) = LoadedNodes) BY <2>5 DEF Upto
    <3>3. Len(y) \in Nat /\ (Len(y) = ke \/ Len(y) = LoadedEdges) BY <2>5 DEF Upto
    <3> QED BY <2>6, <3>1, <3>2, <3>3
  <2>8. PICK c, d \in Nat : c = Len(L) /\ d = Len(M) BY <2>2, <2>3, PagedLists DEF Distinct
  <2>9. /\ Listing(x) /\ kn <= c /\ \A i \in 1 .. kn : x[i] = L[i]
        /\ Listing(y) /\ ke <= d /\ \A i \in 1 .. ke : y[i] = M[i]
    BY <2>5, <2>7, <2>8 DEF Upto
  <2>10. Listing(L) /\ Listing(M) BY <2>2, <2>3, PagedLists DEF Distinct
  <2>11. /\ \A z : z \in nodes <=> \E i \in 1 .. kn : L[i] = z
         /\ \A z : z \in edges <=> \E i \in 1 .. ke : M[i] = z
    <3>1. \A z : z \in Range(x) <=> \E i \in 1 .. kn : x[i] = z BY <2>7, <2>9, ListingIs
    <3>2. \A z : z \in Range(y) <=> \E i \in 1 .. ke : y[i] = z BY <2>7, <2>9, ListingIs
    <3> QED BY <1>4, <2>3, <2>9, <3>1, <3>2
  <2>12. nodes \subseteq Range(L) /\ edges \subseteq Range(M)
    <3>1. \A i \in 1 .. kn : i \in 1 .. c BY <2>9
    <3>2. \A i \in 1 .. ke : i \in 1 .. d BY <2>9
    <3>3. \A z : z \in Range(L) <=> \E i \in 1 .. c : L[i] = z BY <2>8, <2>10, ListingIs
    <3>4. \A z : z \in Range(M) <=> \E i \in 1 .. d : M[i] = z BY <2>8, <2>10, ListingIs
    <3> QED BY <2>11, <3>1, <3>2, <3>3, <3>4
  <2>13. Loaded + view.left = c + d
    <3>1. Loaded = kn + ke BY <2>3, <2>7 DEF Loaded
    <3>2. view.left = (c - kn) + (d - ke) BY <2>5, <2>8
    <3> QED BY <3>1, <3>2
  <2>14. CASE s \notin DOMAIN G.nodes
    <3>1. c = 0 /\ d = 0 BY <2>2, <2>3, <2>8, <2>14, PagedLists
    <3>2. nodes = {} /\ edges = {}
      <4>1. kn = 0 /\ ke = 0 BY <2>9, <3>1
      <4>2. (\A i \in 1 .. kn : FALSE) /\ (\A i \in 1 .. ke : FALSE) BY <4>1
      <4> QED BY <2>11, <4>2
    <3>3. Whole(G) = 0 BY <2>3, <2>14 DEF Whole
    <3>4. Loaded + view.left = Whole(G) BY <2>13, <3>1, <3>3
    <3> QED BY <2>3, <2>14, <3>2, <3>4
  <2>15. CASE s \in DOMAIN G.nodes
    <3>1. PICK S, E : S = Reach(G, s, Depth) /\ E = ReachEdges(G, s, Depth) OBVIOUS
    <3>2. /\ ListingOfSet(L, S) /\ ListingOfSet(M, E) BY <2>2, <2>3, <2>15, <3>1, PagedLists
    <3>3. Range(L) = S /\ Range(M) = E /\ c = Cardinality(S) /\ d = Cardinality(E) BY <2>8, <3>2 DEF ListingOfSet
    <3>4. /\ E = {e \in DOMAIN G.edges : Ends(e) \cap Reach(G, s, Depth - 1) # {}}
          /\ S = {s} \cup UNION {Ends(e) : e \in E} /\ S \subseteq DOMAIN G.nodes
      BY <2>2, <2>15, <3>1, NeighbourhoodIsWhole DEF GoodGraph
    <3>5. E \subseteq DOMAIN G.edges BY <3>4
    <3>6. Whole(G) = c + d BY <2>3, <2>15, <3>1, <3>3 DEF Whole
    <3>7. ASSUME view.cursor = Null PROVE nodes = S /\ edges = E
      <4>1. view.left = 0
        <5>1. Spot(view.graph, mount, kn, ke) # Null BY <2>1, <2>2, SpotIsCursor
        <5> QED BY <2>5, <3>7, <5>1
      <4>2. kn = c /\ ke = d
        <5>1. (c - kn) + (d - ke) = 0 BY <2>5, <2>8, <4>1
        <5> QED BY <2>9, <5>1
      <4>3. \A z : z \in Range(L) <=> \E i \in 1 .. c : L[i] = z BY <2>8, <2>10, ListingIs
      <4>4. \A z : z \in Range(M) <=> \E i \in 1 .. d : M[i] = z BY <2>8, <2>10, ListingIs
      <4>5. \A z : z \in nodes <=> z \in Range(L) BY <2>11, <4>2, <4>3
      <4>6. \A z : z \in edges <=> z \in Range(M) BY <2>11, <4>2, <4>4
      <4> QED BY <1>4, <3>3, <4>5, <4>6
    <3>8. Loaded + view.left = Whole(G) BY <2>13, <3>6
    <3>9. nodes \subseteq DOMAIN G.nodes /\ edges \subseteq DOMAIN G.edges BY <2>12, <3>3, <3>4, <3>5
    <3> QED BY <2>3, <3>4, <3>7, <3>8, <3>9
  <2> QED BY <2>14, <2>15
<1> QED BY Zenon, <1>3, <1>4 DEF ReadingIsWhole

(* However the case goes on meanwhile, it is read whole. A view that loads  *)
(* page after page shows one graph's neighbourhood, with true counts of     *)
(* what is left, and all of it in the end; an export leaves out nothing     *)
(* stored when it began and shows no finding ahead of its history; and the  *)
(* list of findings moves only what is decided (engine/graph/query.py       *)
(* query_neighbourhood, GraphContinuation.tsx, api/routes.py).              *)
THEOREM CaseReadWhole == CaseSpec => []CaseIsReadWhole
<1>1. Published /\ ExportInv /\ LoadInv => CaseIsReadWhole
  <2>1. ExportInv => ExportIsWhole /\ ListIsSteady BY ExportsAreWhole, ListsAreSteady DEF ExportInv
  <2> QED BY <2>1, LoadsAreWhole DEF CaseIsReadWhole
<1>2. CaseInit => ExportInv /\ LoadInv BY ExportsBegin, LoadsBegin
<1>3. Published /\ ExportInv /\ LoadInv /\ [CaseNext]_allVars => ExportInv' /\ LoadInv' BY ExportsStep, LoadsStep
<1>4. CaseSpec => []Published BY GraphsArePublished
<1> QED BY <1>1, <1>2, <1>3, <1>4, PTL DEF CaseSpec

=============================================================================
