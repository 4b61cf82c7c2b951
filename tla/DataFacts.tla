----------------------------- MODULE DataFacts -----------------------------
(***************************************************************************)
(* Facts about data that several proofs use.  A set of naturals has a      *)
(* first element, a bounded one a last one: they take the place of         *)
(* induction, and with them a computation has its rounds.  Lists that name *)
(* every element of a set once: queues, and what readdir and a scan        *)
(* return.                                                                 *)
(***************************************************************************)
EXTENDS Integers, Sequences, FiniteSetTheorems, WellFoundedInduction, TLAPS

-----------------------------------------------------------------------------
(* Natural numbers.                                                        *)

\* A set of naturals has a first one.
LEMMA LeastNatural ==
    ASSUME NEW S, S \subseteq Nat, S # {}
    PROVE  \E i \in S : \A j \in S : i <= j
<1>1. \E x \in S : \A y \in S : ~ (<<y, x>> \in OpToRel(<, Nat))
  <2>1. IsWellFoundedOn(OpToRel(<, Nat), Nat)
    BY NatLessThanWellFounded
  <2> DEFINE R == OpToRel(<, Nat)
  <2>2. IsWellFoundedOn(R, Nat)
    BY <2>1
  <2> HIDE DEF R
  <2>3. \E x \in S : \A y \in S : ~ (<<y, x>> \in R)
    BY <2>2, WFMin
  <2> QED
    BY <2>3 DEF R
<1>2. \A x, y \in Nat : y < x => <<y, x>> \in OpToRel(<, Nat)
  BY DEF OpToRel
<1>3. PICK x \in S : \A y \in S : ~ (<<y, x>> \in OpToRel(<, Nat))
  BY <1>1
<1>4. x \in S
  BY <1>3
<1>5. \A y \in S : ~(y < x)
  BY <1>2, <1>3
<1> QED
  BY <1>4, <1>5

\* One with a bound has a last one.
LEMMA GreatestNatural ==
    ASSUME NEW S, S \subseteq Nat, S # {}, NEW b \in Nat, \A x \in S : x <= b
    PROVE  \E i \in S : \A j \in S : i >= j
<1> DEFINE T == {b - x : x \in S}
<1>1. T \subseteq Nat /\ T # {}
  <2>1. \A x \in S : b - x \in Nat /\ b - x \in T
    OBVIOUS
  <2> QED
    BY <2>1
<1>2. PICK t \in T : \A u \in T : t <= u
  <2> HIDE DEF T
  <2> QED
    BY <1>1, LeastNatural
<1>3. PICK i \in S : t = b - i
  BY <1>2
<1>4. \A j \in S : b - i <= b - j
  BY <1>2, <1>3
<1> QED
  BY <1>3, <1>4

\* Induction, with a set for the induction hypothesis.
LEMMA InductiveSet ==
    ASSUME NEW T, 0 \in T, \A k \in Nat : k \in T => k + 1 \in T
    PROVE  Nat \subseteq T
<1> SUFFICES ASSUME Nat \ T # {} PROVE FALSE
  OBVIOUS
<1>1. PICK i \in Nat \ T : \A j \in Nat \ T : i <= j
  BY LeastNatural
<1>2. i # 0 /\ i - 1 \in Nat /\ i - 1 + 1 = i
  BY <1>1
<1>3. i - 1 \in T
  BY <1>1, <1>2
<1> QED
  BY <1>1, <1>2, <1>3

\* The rounds of a computation: a function on the naturals defined by what
\* each round makes of the one before.
AreRounds(r, S, first, G) ==
    r \in [Nat -> S] /\ r[0] = first /\ \A k \in Nat : r[k + 1] = G[r[k]]
LEMMA Rounds ==
    ASSUME NEW S, NEW first \in S, NEW G \in [S -> S]
    PROVE  \E r : AreRounds(r, S, first, G)
<1> DEFINE Upto(n, f) == /\ f \in [0..n -> S] /\ f[0] = first
                         /\ \A k \in 0..(n - 1) : f[k + 1] = G[f[k]]
           Exists == {n \in Nat : \E f : Upto(n, f)}
<1>1. Nat \subseteq Exists
  <2>1. 0 \in Exists
    <3> DEFINE f == [k \in 0..0 |-> first]
    <3>1. Upto(0, f)
      OBVIOUS
    <3> QED
      BY <3>1
  <2>2. ASSUME NEW n \in Nat, n \in Exists
        PROVE  n + 1 \in Exists
    <3>1. PICK f : Upto(n, f)
      BY <2>2
    <3> DEFINE g == [k \in 0..(n + 1) |-> IF k = n + 1 THEN G[f[n]] ELSE f[k]]
    <3>2. G[f[n]] \in S
      BY <3>1
    <3>3. g \in [0..(n + 1) -> S]
      BY <3>1, <3>2
    <3>4. g[0] = first
      BY <3>1
    <3>5. ASSUME NEW k \in 0..(n + 1 - 1)
          PROVE  g[k + 1] = G[g[k]]
      <4>1. CASE k = n
        BY <4>1
      <4>2. CASE k # n
        <5>1. k \in 0..(n - 1) /\ k + 1 \in 0..n /\ k + 1 # n + 1 /\ k # n + 1
          BY <4>2
        <5>2. g[k + 1] = f[k + 1] /\ g[k] = f[k]
          BY <5>1
        <5> QED
          BY <3>1, <5>1, <5>2
      <4> QED
        BY <4>1, <4>2
    <3> HIDE DEF g
    <3>6. Upto(n + 1, g)
      BY <3>3, <3>4, <3>5
    <3> QED
      BY <3>6
  <2> HIDE DEF Exists
  <2> QED
    BY <2>1, <2>2, InductiveSet
<1>2. ASSUME NEW n \in Nat, NEW f, Upto(n, f), NEW g, Upto(n + 1, g)
      PROVE  f[n] = g[n]
  <2> DEFINE Same == {k \in Nat : k <= n => f[k] = g[k]}
  <2>1. 0 \in Same
    BY <1>2
  <2>2. ASSUME NEW k \in Nat, k \in Same
        PROVE  k + 1 \in Same
    <3> SUFFICES ASSUME k + 1 <= n PROVE f[k + 1] = g[k + 1]
      OBVIOUS
    <3>1. k \in 0..(n - 1) /\ k \in 0..(n + 1 - 1)
      OBVIOUS
    <3>2. f[k] = g[k]
      BY <2>2
    <3> QED
      BY <1>2, <3>1, <3>2
  <2> HIDE DEF Same
  <2>3. Nat \subseteq Same
    BY <2>1, <2>2, InductiveSet
  <2> QED
    BY <2>3 DEF Same
<1> DEFINE F(n) == CHOOSE f : Upto(n, f)
           r == [n \in Nat |-> F(n)[n]]
<1>3. \A n \in Nat : Upto(n, F(n))
  BY <1>1
<1> HIDE DEF F
<1>4. \A n \in Nat : F(n)[n] \in S
  BY <1>3
<1>5. r \in [Nat -> S]
  BY <1>4
<1>6. r[0] = first
  BY <1>3
<1>7. ASSUME NEW k \in Nat
      PROVE  r[k + 1] = G[r[k]]
  <2>1. Upto(k, F(k)) /\ Upto(k + 1, F(k + 1)) /\ k + 1 \in Nat
    BY <1>3
  <2>2. F(k)[k] = F(k + 1)[k]
    BY <1>2, <2>1
  <2>3. F(k + 1)[k + 1] = G[F(k + 1)[k]]
    BY <2>1
  <2> QED
    BY <2>1, <2>2, <2>3
<1> HIDE DEF r
<1>8. AreRounds(r, S, first, G)
  BY <1>5, <1>6, <1>7 DEF AreRounds
<1> QED
  BY <1>8

-----------------------------------------------------------------------------
(* Lists.                                                                  *)

\* q has every element of S, once, and no other.
Lists(q, S) ==
    /\ q \in Seq(S)
    /\ \A e \in S : \E i \in DOMAIN q : q[i] = e
    /\ \A i, j \in DOMAIN q : q[i] = q[j] => i = j

\* The rest of a list is one of the other elements.
LEMMA ListsTail ==
    ASSUME NEW S, NEW q, Lists(q, S), q # <<>>
    PROVE  Head(q) \in S /\ Lists(Tail(q), S \ {Head(q)})
<1>1. /\ q \in Seq(S) /\ Len(q) \in Nat \ {0} /\ DOMAIN q = 1..Len(q)
      /\ Head(q) = q[1] /\ Head(q) \in S
      /\ Tail(q) \in Seq(S) /\ DOMAIN Tail(q) = 1..(Len(q) - 1) /\ Len(Tail(q)) = Len(q) - 1
      /\ \A i \in DOMAIN Tail(q) : Tail(q)[i] = q[i + 1]
  BY DEF Lists
<1>2. \A i \in DOMAIN Tail(q) : Tail(q)[i] \in S \ {Head(q)}
  BY <1>1 DEF Lists
<1>3. Tail(q) \in Seq(S \ {Head(q)})
  <2> DEFINE t == Tail(q)
             T == S \ {Head(q)}
  <2>1. t \in Seq(S) /\ \A i \in 1..Len(t) : t[i] \in T
    BY <1>1, <1>2
  <2> HIDE DEF t, T
  <2>2. t \in Seq(T)
    BY <2>1
  <2> QED
    BY <2>2 DEF t, T
<1>4. ASSUME NEW e \in S \ {Head(q)} PROVE \E i \in DOMAIN Tail(q) : Tail(q)[i] = e
  <2>1. PICK i \in DOMAIN q : q[i] = e
    BY <1>4 DEF Lists
  <2>2. i \in 2..Len(q) /\ i - 1 \in DOMAIN Tail(q) /\ (i - 1) + 1 = i
    BY <1>1, <1>4, <2>1
  <2>3. Tail(q)[i - 1] = q[(i - 1) + 1]
    BY <1>1, <2>2
  <2> QED
    BY <2>1, <2>2, <2>3
<1>5. ASSUME NEW i \in DOMAIN Tail(q), NEW j \in DOMAIN Tail(q), Tail(q)[i] = Tail(q)[j]
      PROVE  i = j
  <2>1. i \in Nat /\ j \in Nat /\ i + 1 \in DOMAIN q /\ j + 1 \in DOMAIN q
    BY <1>1
  <2>2. q[i + 1] = q[j + 1]
    BY <1>1, <1>5
  <2>3. i + 1 = j + 1
    BY <2>1, <2>2 DEF Lists
  <2> QED
    BY <2>1, <2>3
<1> QED
  BY <1>1, <1>3, <1>4, <1>5 DEF Lists

\* Lists of different elements after each other.
LEMMA ListsConcat ==
    ASSUME NEW S, NEW T, NEW s, NEW t, Lists(s, S), Lists(t, T), S \cap T = {}
    PROVE  Lists(s \o t, S \cup T)
<1> DEFINE r == s \o t
<1>1. /\ s \in Seq(S \cup T) /\ t \in Seq(S \cup T)
      /\ \A i \in DOMAIN s : s[i] \in S
      /\ \A i \in DOMAIN t : t[i] \in T
  BY DEF Lists
<1>2. /\ r \in Seq(S \cup T) /\ Len(s) \in Nat /\ Len(t) \in Nat
      /\ DOMAIN s = 1..Len(s) /\ DOMAIN t = 1..Len(t) /\ DOMAIN r = 1..(Len(s) + Len(t))
      /\ \A i \in DOMAIN s : r[i] = s[i]
      /\ \A i \in DOMAIN t : r[Len(s) + i] = t[i]
  BY <1>1
<1>3. \A i \in DOMAIN r : i \in DOMAIN s \/ (i - Len(s) \in DOMAIN t /\ r[i] = t[i - Len(s)])
  <2>1. ASSUME NEW i \in DOMAIN r, i \notin DOMAIN s
        PROVE  i - Len(s) \in DOMAIN t /\ Len(s) + (i - Len(s)) = i
    BY <1>2, <2>1
  <2> QED
    BY <1>2, <2>1
<1> HIDE DEF r
<1>4. ASSUME NEW e \in S \cup T PROVE \E i \in DOMAIN r : r[i] = e
  <2>1. CASE e \in S
    <3>1. PICK i \in DOMAIN s : s[i] = e
      BY <2>1 DEF Lists
    <3> QED
      BY <1>2, <3>1
  <2>2. CASE e \in T
    <3>1. PICK i \in DOMAIN t : t[i] = e
      BY <2>2 DEF Lists
    <3>2. Len(s) + i \in DOMAIN r
      BY <1>2, <3>1
    <3> QED
      BY <1>2, <3>1, <3>2
  <2> QED
    BY <1>4, <2>1, <2>2
<1>5. ASSUME NEW i \in DOMAIN r, NEW j \in DOMAIN r, r[i] = r[j]
      PROVE  i = j
  <2>1. CASE i \in DOMAIN s /\ j \in DOMAIN s
    BY <1>2, <1>5, <2>1 DEF Lists
  <2>2. CASE i \notin DOMAIN s /\ j \notin DOMAIN s
    <3>1. i - Len(s) = j - Len(s)
      BY <1>3, <1>5, <2>2 DEF Lists
    <3> QED
      BY <1>2, <3>1
  <2>3. CASE i \in DOMAIN s /\ j \notin DOMAIN s
    BY <1>1, <1>2, <1>3, <1>5, <2>3
  <2>4. CASE i \notin DOMAIN s /\ j \in DOMAIN s
    BY <1>1, <1>2, <1>3, <1>5, <2>4
  <2> QED
    BY <2>1, <2>2, <2>3, <2>4
<1>6. r \in Seq(S \cup T)
  BY <1>2
<1>7. Lists(r, S \cup T)
  BY <1>4, <1>5, <1>6 DEF Lists
<1> QED
  BY <1>7 DEF r

\* A one-to-one numbering of a finite set lists it.
LEMMA ListsNumbering ==
    ASSUME NEW S, IsFiniteSet(S), NEW s \in [1..Cardinality(S) -> S],
           \A i, j \in 1..Cardinality(S) : s[i] = s[j] => i = j
    PROVE  Lists(s, S)
<1> DEFINE D == 1..Cardinality(S)
<1>1. Cardinality(S) \in Nat /\ IsFiniteSet(D) /\ Cardinality(D) = Cardinality(S)
  BY FS_CardinalityType, FS_Interval
<1>2. s \in [D -> S] /\ \A i, j \in D : s[i] = s[j] => i = j
  OBVIOUS
<1>3. s \in Seq(S) /\ DOMAIN s = D
  BY <1>1, <1>2
<1> HIDE DEF D
<1>4. s \in Injection(D, S)
  BY <1>2 DEF Injection, IsInjective
<1>5. s \in Surjection(D, S)
  BY <1>1, <1>4, FS_Injection
<1>6. \A e \in S : \E i \in D : s[i] = e
  BY <1>5 DEF Surjection
<1> QED
  BY <1>2, <1>3, <1>6 DEF Lists
=============================================================================
