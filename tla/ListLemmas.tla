-------------------------- MODULE ListLemmas ----------------------------
(***************************************************************************)
(* Lemmas about sequences used as queues: what inserting an element,       *)
(* appending one, removing one and taking the head leave behind.           *)
(***************************************************************************)
EXTENDS Integers, FiniteSets, Sequences, SequencesExt, FiniteSetTheorems, SequenceTheorems, WellFoundedInduction, TLAPS

----------------------------------------------------------------------------
(* Sequences.                                                              *)

\* Every set of natural numbers with an element has a least one.
LEMMA LeastExists ==
    ASSUME NEW T \in SUBSET Nat, T # {}
    PROVE  \E x \in T : \A y \in T : x <= y
<1> DEFINE U == {0..x : x \in T}
<1>1. U \subseteq FiniteSubsetsOf(Nat)
  <2> SUFFICES ASSUME NEW x \in T PROVE 0..x \in FiniteSubsetsOf(Nat)
    OBVIOUS
  <2> QED BY FS_Interval DEF FiniteSubsetsOf
<1>2. U # {}
  OBVIOUS
<1> HIDE DEF U
<1>3. \E X \in U : \A Y \in U : ~ (<<Y, X>> \in StrictSubsetOrdering(Nat))
  BY <1>1, <1>2, FS_StrictSubsetOrderingWellFounded, WFMin
<1>4. PICK x \in T : \A y \in T : <<0..y, 0..x>> \notin StrictSubsetOrdering(Nat)
  BY <1>3 DEF U
<1>5. ASSUME NEW y \in T, y < x PROVE FALSE
  <2>1. x \in 0..x /\ x \notin 0..y
    BY <1>5
  <2>2. 0..y \subseteq 0..x /\ 0..y # 0..x /\ 0..y \in SUBSET Nat /\ 0..x \in SUBSET Nat
    BY <2>1, <1>5
  <2> QED BY <2>2, <1>4 DEF StrictSubsetOrdering
<1> QED BY <1>5

\* A scan of v keeps the place of the greatest value so far, and moves to another
\* only for a greater one: such a function exists.
LEMMA RunningGreatestExists ==
    ASSUME NEW n \in Nat, NEW v \in [1..n -> Int]
    PROVE  \E g \in [1..n -> Nat] : \A i \in 1..n :
               g[i] = IF i = 1 THEN 1 ELSE IF v[g[i - 1]] < v[i] THEN i ELSE g[i - 1]
<1> DEFINE Step(g, i) == IF i = 1 THEN 1 ELSE IF v[g[i - 1]] < v[i] THEN i ELSE g[i - 1]
           Scans(m) == \E g \in [1..m -> Nat] : \A i \in 1..m : g[i] = Step(g, i)
           NoScan == {m \in 0..n : ~ Scans(m)}
<1> SUFFICES ASSUME NoScan # {} PROVE FALSE
  <2>1. n \in 0..n
    OBVIOUS
  <2> QED BY <2>1
<1>1. PICK m \in NoScan : \A k \in NoScan : m <= k
  <2>1. NoScan \in SUBSET Nat
    OBVIOUS
  <2> QED BY <2>1, LeastExists
<1>2. m \in 0..n /\ ~ Scans(m)
  BY <1>1
<1>3. CASE m = 0
  <2>1. Scans(0)
    <3> DEFINE h == [i \in 1..0 |-> 1]
    <3>1. h \in [1..0 -> Nat] /\ \A i \in 1..0 : h[i] = Step(h, i)
      OBVIOUS
    <3> QED BY <3>1
  <2> QED BY <1>2, <1>3, <2>1
<1>4. CASE m # 0
  <2>1. m - 1 \in 0..n /\ m \in 1..n
    BY <1>2, <1>4
  <2>2. Scans(m - 1)
    <3> HIDE DEF Scans
    <3>1. ~ (m <= m - 1)
      BY <2>1
    <3> QED BY <1>1, <2>1, <3>1
  <2>3. PICK g \in [1..(m - 1) -> Nat] : \A i \in 1..(m - 1) : g[i] = Step(g, i)
    BY <2>2
  <2> DEFINE h == [i \in 1..m |-> Step(g, i)]
  <2>4. \A i \in 1..m : h[i] = Step(g, i)
    OBVIOUS
  <2>5. \A i \in 1..m : i = 1 \/ i - 1 \in 1..(m - 1)
    BY <2>1
  <2>6. h \in [1..m -> Nat]
    BY <2>1, <2>3, <2>5
  <2>7. \A i \in 1..(m - 1) : h[i] = g[i]
    <3>1. \A i \in 1..(m - 1) : i \in 1..m
      BY <2>1
    <3> HIDE DEF h, Step
    <3> QED BY <2>3, <2>4, <3>1
  <2>8. \A i \in 1..m : h[i] = Step(h, i)
    <3> HIDE DEF h
    <3> QED BY <2>4, <2>5, <2>7
  <2>9. Scans(m)
    <3> HIDE DEF h, Step
    <3> QED BY <2>6, <2>8
  <2> QED BY <1>2, <2>9
<1> QED BY <1>3, <1>4

\* It ends at the first place where the value is greatest.
LEMMA RunningGreatest ==
    ASSUME NEW n \in Nat \ {0}, NEW v, \A i \in 1..n : v[i] \in Int, NEW f,
           \A i \in 1..n :
               f[i] = IF i = 1 THEN 1 ELSE IF v[f[i - 1]] < v[i] THEN i ELSE f[i - 1]
    PROVE  /\ f[n] \in 1..n
           /\ \A j \in 1..n : v[j] <= v[f[n]]
           /\ \A j \in 1..(f[n] - 1) : v[j] < v[f[n]]
<1> DEFINE Step(i) == IF i = 1 THEN 1 ELSE IF v[f[i - 1]] < v[i] THEN i ELSE f[i - 1]
           First(k, m) == /\ k \in 1..m
                          /\ \A j \in 1..m : v[j] <= v[k]
                          /\ \A j \in 1..(k - 1) : v[j] < v[k]
           Bad == {m \in 1..n : ~ First(f[m], m)}
<1>1. \A i \in 1..n : f[i] = Step(i)
  OBVIOUS
<1>2. Bad = {}
  <2> SUFFICES ASSUME Bad # {} PROVE FALSE
    OBVIOUS
  <2>1. PICK m \in Bad : \A k \in Bad : m <= k
    <3>1. Bad \in SUBSET Nat
      OBVIOUS
    <3> QED BY <3>1, LeastExists
  <2>2. m \in 1..n /\ ~ First(f[m], m) /\ f[m] = Step(m)
    BY <1>1, <2>1
  <2>3. CASE m = 1
    BY <2>2, <2>3
  <2>4. CASE m # 1
    <3>1. m - 1 \in 1..n /\ m - 1 \notin Bad
      BY <2>1, <2>2, <2>4
    <3>2. First(f[m - 1], m - 1)
      BY <3>1
    <3> DEFINE k == f[m - 1]
    <3>3. f[m] = IF v[k] < v[m] THEN m ELSE k
      BY <2>2, <2>4
    <3>4. k \in 1..(m - 1) /\ k \in 1..n
      BY <3>2, <2>2
    <3>5. /\ \A j \in 1..(m - 1) : v[j] <= v[k]
          /\ \A j \in 1..(k - 1) : v[j] < v[k]
      BY <3>2
    <3> HIDE DEF k
    <3>6. \A j \in 1..m : j \in 1..(m - 1) \/ j = m
      BY <2>2
    <3>7. CASE v[k] < v[m]
      <4>1. \A j \in 1..(m - 1) : v[j] < v[m]
        BY <2>2, <3>4, <3>5, <3>7
      <4>2. First(m, m)
        BY <2>2, <3>6, <4>1
      <4> QED BY <2>2, <3>3, <3>7, <4>2
    <3>8. CASE ~ (v[k] < v[m])
      <4>1. v[m] <= v[k]
        BY <2>2, <3>4, <3>8
      <4>2. First(k, m)
        BY <2>2, <3>4, <3>5, <3>6, <4>1
      <4> QED BY <2>2, <3>3, <3>8, <4>2
    <3> QED BY <3>7, <3>8
  <2> QED BY <2>3, <2>4
<1>3. n \in 1..n /\ n \notin Bad
  BY <1>2
<1> QED BY <1>3

\* What InsertAt puts where.
LEMMA InsertAtFacts ==
    ASSUME NEW S, NEW s \in Seq(S), NEW e \in S, NEW k \in 1..(Len(s) + 1)
    PROVE  /\ InsertAt(s, k, e) \in Seq(S)
           /\ Len(InsertAt(s, k, e)) = Len(s) + 1
           /\ \A i \in 1..(Len(s) + 1) :
                InsertAt(s, k, e)[i] = IF i < k THEN s[i] ELSE IF i = k THEN e ELSE s[i - 1]
<1> DEFINE a == SubSeq(s, 1, k - 1)
           c == SubSeq(s, k, Len(s))
<1>1. a \in Seq(S) /\ Len(a) = k - 1 /\ \A i \in 1..(k - 1) : a[i] = s[i]
  BY SubSeqProperties
<1>2. c \in Seq(S) /\ Len(c) = Len(s) - k + 1 /\ \A i \in 1..(Len(s) - k + 1) : c[i] = s[k + i - 1]
  BY SubSeqProperties
<1> HIDE DEF a, c
<1>3. /\ a \o <<e>> \in Seq(S) /\ Len(a \o <<e>>) = k
      /\ \A i \in 1..k : (a \o <<e>>)[i] = IF i < k THEN a[i] ELSE e
  BY <1>1
<1>4. /\ (a \o <<e>>) \o c \in Seq(S) /\ Len((a \o <<e>>) \o c) = Len(s) + 1
      /\ \A i \in 1..(Len(s) + 1) :
           ((a \o <<e>>) \o c)[i] = IF i <= k THEN (a \o <<e>>)[i] ELSE c[i - k]
  BY <1>2, <1>3
<1>5. InsertAt(s, k, e) = (a \o <<e>>) \o c
  BY DEF InsertAt, a, c
<1>6. \A i \in 1..(Len(s) + 1) : i > k => c[i - k] = s[i - 1]
  <2> SUFFICES ASSUME NEW i \in 1..(Len(s) + 1), i > k PROVE c[i - k] = s[i - 1]
    OBVIOUS
  <2>1. i - k \in 1..(Len(s) - k + 1) /\ k + (i - k) - 1 = i - 1
    OBVIOUS
  <2> QED BY <2>1, <1>2
<1> QED BY <1>1, <1>3, <1>4, <1>5, <1>6

\* What RemoveAt leaves where.
LEMMA RemoveAtFacts ==
    ASSUME NEW S, NEW s \in Seq(S), NEW k \in 1..Len(s)
    PROVE  /\ RemoveAt(s, k) \in Seq(S)
           /\ Len(RemoveAt(s, k)) = Len(s) - 1
           /\ \A i \in 1..(Len(s) - 1) : RemoveAt(s, k)[i] = IF i < k THEN s[i] ELSE s[i + 1]
<1> DEFINE a == SubSeq(s, 1, k - 1)
           c == SubSeq(s, k + 1, Len(s))
<1>1. a \in Seq(S) /\ Len(a) = k - 1 /\ \A i \in 1..(k - 1) : a[i] = s[i]
  BY SubSeqProperties
<1>2. c \in Seq(S) /\ Len(c) = Len(s) - k /\ \A i \in 1..(Len(s) - k) : c[i] = s[k + i]
  <2>1. k + 1 \in 1..(Len(s) + 1) /\ Len(s) \in k..Len(s)
    OBVIOUS
  <2> QED BY <2>1, SubSeqProperties
<1> HIDE DEF a, c
<1>3. RemoveAt(s, k) = a \o c
  BY DEF RemoveAt, a, c
<1>4. a \o c \in Seq(S) /\ Len(a \o c) = Len(s) - 1
  BY <1>1, <1>2
<1>5. \A i \in 1..(Len(s) - 1) : (a \o c)[i] = IF i < k THEN a[i] ELSE c[i - (k - 1)]
  <2>1. \A i \in 1..(Len(a) + Len(c)) : (a \o c)[i] = IF i <= Len(a) THEN a[i] ELSE c[i - Len(a)]
    BY <1>1, <1>2, ConcatProperties
  <2> QED BY <1>1, <1>2, <2>1
<1>6. \A i \in 1..(Len(s) - 1) : i >= k => c[i - (k - 1)] = s[i + 1]
  <2> SUFFICES ASSUME NEW i \in 1..(Len(s) - 1), i >= k PROVE c[i - (k - 1)] = s[i + 1]
    OBVIOUS
  <2>1. i - (k - 1) \in 1..(Len(s) - k) /\ k + (i - (k - 1)) = i + 1
    OBVIOUS
  <2> QED BY <2>1, <1>2
<1> QED BY <1>1, <1>2, <1>3, <1>4, <1>5, <1>6

----------------------------------------------------------------------------
(* Queues: the set of elements, and that none occurs twice.                *)

\* An inserted element joins the set; a new one occurs once.
LEMMA InsertAtSet ==
    ASSUME NEW S, NEW s \in Seq(S), NEW e \in S, NEW k \in 1..(Len(s) + 1)
    PROVE  /\ ToSet(InsertAt(s, k, e)) = ToSet(s) \cup {e}
           /\ IsInjective(s) /\ e \notin ToSet(s) => IsInjective(InsertAt(s, k, e))
<1> DEFINE r == InsertAt(s, k, e)
<1>1. /\ r \in Seq(S) /\ Len(r) = Len(s) + 1
      /\ \A i \in 1..(Len(s) + 1) : r[i] = IF i < k THEN s[i] ELSE IF i = k THEN e ELSE s[i - 1]
  <2>1. r \in Seq(S)
    BY InsertAtFacts
  <2>2. Len(r) = Len(s) + 1
    BY InsertAtFacts
  <2>3. \A i \in 1..(Len(s) + 1) : r[i] = IF i < k THEN s[i] ELSE IF i = k THEN e ELSE s[i - 1]
    BY InsertAtFacts
  <2> QED BY <2>1, <2>2, <2>3
<1>2. DOMAIN r = 1..(Len(s) + 1) /\ DOMAIN s = 1..Len(s)
  BY <1>1
<1> HIDE DEF r
<1>3. ToSet(r) \subseteq ToSet(s) \cup {e}
  <2> SUFFICES ASSUME NEW i \in 1..(Len(s) + 1) PROVE r[i] \in ToSet(s) \cup {e}
    BY <1>2 DEF ToSet
  <2>1. CASE i < k
    <3>1. i \in 1..Len(s) /\ r[i] = s[i]
      BY <2>1, <1>1
    <3> QED BY <3>1, <1>2 DEF ToSet
  <2>2. CASE i = k
    BY <2>2, <1>1
  <2>3. CASE i > k
    <3>1. i - 1 \in 1..Len(s) /\ r[i] = s[i - 1]
      BY <2>3, <1>1
    <3> QED BY <3>1, <1>2 DEF ToSet
  <2> QED BY <2>1, <2>2, <2>3
<1>4. e \in ToSet(r)
  BY <1>1, <1>2 DEF ToSet
<1>5. ToSet(s) \subseteq ToSet(r)
  <2> SUFFICES ASSUME NEW i \in 1..Len(s) PROVE s[i] \in ToSet(r)
    BY <1>2 DEF ToSet
  <2>1. CASE i < k
    <3>1. i \in 1..(Len(s) + 1) /\ r[i] = s[i]
      BY <2>1, <1>1
    <3> QED BY <3>1, <1>2 DEF ToSet
  <2>2. CASE i >= k
    <3>1. i + 1 \in 1..(Len(s) + 1) /\ r[i + 1] = s[i]
      BY <2>2, <1>1
    <3> QED BY <3>1, <1>2 DEF ToSet
  <2> QED BY <2>1, <2>2
<1>6. ASSUME IsInjective(s), e \notin ToSet(s) PROVE IsInjective(r)
  <2>1. \A i, j \in 1..Len(s) : s[i] = s[j] => i = j
    BY <1>6, <1>2 DEF IsInjective
  <2>2. \A i \in 1..Len(s) : s[i] # e
    BY <1>6, <1>2 DEF ToSet
  <2> DEFINE from(i) == IF i < k THEN i ELSE i - 1
  <2>3. \A i \in 1..(Len(s) + 1) : i # k => from(i) \in 1..Len(s) /\ r[i] = s[from(i)]
    BY <1>1
  <2>4. \A i, j \in 1..(Len(s) + 1) : i # k /\ j # k /\ from(i) = from(j) => i = j
    OBVIOUS
  <2>5. r[k] = e
    BY <1>1
  <2> HIDE DEF from
  <2>6. ASSUME NEW i \in 1..(Len(s) + 1), NEW j \in 1..(Len(s) + 1), r[i] = r[j] PROVE i = j
    BY <2>1, <2>2, <2>3, <2>4, <2>5, <2>6
  <2> QED BY <2>6, <1>2 DEF IsInjective
<1> QED BY <1>3, <1>4, <1>5, <1>6 DEF r

\* Removing a position takes its element, which occurs nowhere else, off the set.
LEMMA RemoveAtSet ==
    ASSUME NEW S, NEW s \in Seq(S), IsInjective(s), NEW k \in 1..Len(s)
    PROVE  /\ ToSet(RemoveAt(s, k)) = ToSet(s) \ {s[k]}
           /\ IsInjective(RemoveAt(s, k))
<1> DEFINE r == RemoveAt(s, k)
<1>1. /\ r \in Seq(S) /\ Len(r) = Len(s) - 1
      /\ \A i \in 1..(Len(s) - 1) : r[i] = IF i < k THEN s[i] ELSE s[i + 1]
  BY RemoveAtFacts
<1>2. DOMAIN r = 1..(Len(s) - 1) /\ DOMAIN s = 1..Len(s)
  BY <1>1
<1>3. \A i, j \in 1..Len(s) : s[i] = s[j] => i = j
  BY <1>2 DEF IsInjective
<1> HIDE DEF r
<1>4. ToSet(r) \subseteq ToSet(s) \ {s[k]}
  <2> SUFFICES ASSUME NEW i \in 1..(Len(s) - 1) PROVE r[i] \in ToSet(s) \ {s[k]}
    BY <1>2 DEF ToSet
  <2>1. PICK j \in 1..Len(s) : j # k /\ r[i] = s[j]
    <3>1. CASE i < k
      BY <3>1, <1>1
    <3>2. CASE i >= k
      <4>1. i + 1 \in 1..Len(s) /\ i + 1 # k /\ r[i] = s[i + 1]
        BY <3>2, <1>1
      <4> QED BY <4>1
    <3> QED BY <3>1, <3>2
  <2> QED BY <2>1, <1>2, <1>3 DEF ToSet
<1>5. ToSet(s) \ {s[k]} \subseteq ToSet(r)
  <2> SUFFICES ASSUME NEW i \in 1..Len(s), i # k PROVE s[i] \in ToSet(r)
    BY <1>2 DEF ToSet
  <2>1. CASE i < k
    <3>1. i \in 1..(Len(s) - 1) /\ r[i] = s[i]
      BY <2>1, <1>1
    <3> QED BY <3>1, <1>2 DEF ToSet
  <2>2. CASE i > k
    <3>1. i - 1 \in 1..(Len(s) - 1) /\ r[i - 1] = s[i]
      BY <2>2, <1>1
    <3> QED BY <3>1, <1>2 DEF ToSet
  <2> QED BY <2>1, <2>2
<1>6. IsInjective(r)
  <2> DEFINE from(i) == IF i < k THEN i ELSE i + 1
  <2>1. \A i \in 1..(Len(s) - 1) : from(i) \in 1..Len(s) /\ r[i] = s[from(i)]
    BY <1>1
  <2>2. \A i, j \in 1..(Len(s) - 1) : from(i) = from(j) => i = j
    OBVIOUS
  <2> HIDE DEF from
  <2>3. ASSUME NEW i \in 1..(Len(s) - 1), NEW j \in 1..(Len(s) - 1), r[i] = r[j] PROVE i = j
    BY <2>1, <2>2, <2>3, <1>3
  <2> QED BY <2>3, <1>2 DEF IsInjective
<1> QED BY <1>4, <1>5, <1>6 DEF r

\* Removing an element by what it is, where it occurs once.
LEMMA RemoveFirstSet ==
    ASSUME NEW S, NEW s \in Seq(S), IsInjective(s), NEW e \in ToSet(s)
    PROVE  /\ RemoveFirst(s, e) \in Seq(S)
           /\ ToSet(RemoveFirst(s, e)) = ToSet(s) \ {e}
           /\ IsInjective(RemoveFirst(s, e))
<1> DEFINE I == {i \in 1..Len(s) : s[i] = e}
<1>1. DOMAIN s = 1..Len(s) /\ Len(s) \in Nat
  OBVIOUS
<1>2. I # {} /\ I \in SUBSET Nat
  BY <1>1 DEF ToSet
<1> HIDE DEF I
<1>3. \E k \in I : \A i \in I : k <= i
  BY <1>2, LeastExists
<1>4. Min(I) \in I
  BY <1>3 DEF Min
<1>5. SelectInSeq(s, LAMBDA v : v = e) = Min(I)
  BY <1>2 DEF SelectInSeq, I
<1>6. PICK k \in 1..Len(s) : s[k] = e /\ RemoveFirst(s, e) = RemoveAt(s, k)
  BY <1>4, <1>5 DEF RemoveFirst, I
<1> QED BY <1>6, RemoveAtFacts, RemoveAtSet

\* The same for list_push_back ...
LEMMA AppendSet ==
    ASSUME NEW S, NEW s \in Seq(S), NEW e \in S
    PROVE  /\ Append(s, e) \in Seq(S)
           /\ ToSet(Append(s, e)) = ToSet(s) \cup {e}
           /\ IsInjective(s) /\ e \notin ToSet(s) => IsInjective(Append(s, e))
<1> DEFINE r == Append(s, e)
<1>1. /\ r \in Seq(S) /\ DOMAIN r = 1..(Len(s) + 1) /\ DOMAIN s = 1..Len(s)
      /\ \A i \in 1..Len(s) : r[i] = s[i]
      /\ r[Len(s) + 1] = e
  BY AppendProperties
<1> HIDE DEF r
<1>2. \A i \in 1..(Len(s) + 1) : i \in 1..Len(s) \/ i = Len(s) + 1
  OBVIOUS
<1>3. Len(s) + 1 \in 1..(Len(s) + 1) /\ 1..Len(s) \subseteq 1..(Len(s) + 1)
  OBVIOUS
<1>4. ToSet(r) = ToSet(s) \cup {e}
  BY <1>1, <1>2, <1>3 DEF ToSet
<1>5. ASSUME IsInjective(s), e \notin ToSet(s) PROVE IsInjective(r)
  <2>1. \A i, j \in 1..Len(s) : s[i] = s[j] => i = j
    BY <1>5, <1>1 DEF IsInjective
  <2>2. \A i \in 1..Len(s) : s[i] # e
    BY <1>5, <1>1 DEF ToSet
  <2>3. ASSUME NEW i \in 1..(Len(s) + 1), NEW j \in 1..(Len(s) + 1), r[i] = r[j] PROVE i = j
    BY <2>1, <2>2, <2>3, <1>1, <1>2
  <2> QED BY <2>3, <1>1 DEF IsInjective
<1> QED BY <1>1, <1>4, <1>5 DEF r

\* ... and for list_pop_front.
LEMMA TailSet ==
    ASSUME NEW S, NEW s \in Seq(S), s # <<>>, IsInjective(s)
    PROVE  /\ Head(s) \in ToSet(s)
           /\ Tail(s) \in Seq(S)
           /\ ToSet(Tail(s)) = ToSet(s) \ {Head(s)}
           /\ IsInjective(Tail(s))
<1> DEFINE r == Tail(s)
<1>1. /\ Len(s) \in Nat /\ Len(s) > 0 /\ Head(s) = s[1]
      /\ r \in Seq(S) /\ DOMAIN r = 1..(Len(s) - 1) /\ DOMAIN s = 1..Len(s)
      /\ \A i \in 1..(Len(s) - 1) : r[i] = s[i + 1]
  BY EmptySeq, HeadTailProperties
<1>2. \A i, j \in 1..Len(s) : s[i] = s[j] => i = j
  BY <1>1 DEF IsInjective
<1> HIDE DEF r
<1>3. Head(s) \in ToSet(s)
  BY <1>1 DEF ToSet
<1>4. ToSet(r) \subseteq ToSet(s) \ {Head(s)}
  <2> SUFFICES ASSUME NEW i \in 1..(Len(s) - 1) PROVE r[i] \in ToSet(s) \ {Head(s)}
    BY <1>1 DEF ToSet
  <2>1. i + 1 \in 1..Len(s) /\ i + 1 # 1 /\ 1 \in 1..Len(s) /\ r[i] = s[i + 1]
    BY <1>1
  <2> QED BY <2>1, <1>1, <1>2 DEF ToSet
<1>5. ToSet(s) \ {Head(s)} \subseteq ToSet(r)
  <2> SUFFICES ASSUME NEW i \in 1..Len(s), i # 1 PROVE s[i] \in ToSet(r)
    BY <1>1 DEF ToSet
  <2>1. i - 1 \in 1..(Len(s) - 1) /\ r[i - 1] = s[i]
    BY <1>1
  <2> QED BY <2>1, <1>1 DEF ToSet
<1>6. IsInjective(r)
  <2>1. ASSUME NEW i \in 1..(Len(s) - 1), NEW j \in 1..(Len(s) - 1), r[i] = r[j] PROVE i = j
    BY <2>1, <1>1, <1>2
  <2> QED BY <2>1, <1>1 DEF IsInjective
<1> QED BY <1>1, <1>3, <1>4, <1>5, <1>6 DEF r
============================================================================
