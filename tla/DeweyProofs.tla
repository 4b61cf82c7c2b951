---------------------------- MODULE DeweyProofs ----------------------------
(***************************************************************************)
(* Proofs that the best installed match does not depend on the order in    *)
(* which readdir returns the packages, for any packages and patterns whose *)
(* version components are ints at least three below the largest one, that  *)
(* ranges have no holes, and that the suffixes of a version sort as the    *)
(* manual says, for which what a token adds must be known to stand at the  *)
(* end of the vector.                                                      *)
(***************************************************************************)
EXTENDS Dewey, DataFacts, SequenceTheorems, TLAPS

Index == Nat \ {0}
Size(l) == Len(l.v)

\* Versions that compare equal.
Same(l, r) ==
    (\A i \in Index : Digit(l, i) = Digit(r, i)) /\ l.netbsd = r.netbsd

\* A component is an int far enough from the largest one, and is zero past the
\* end of the version.
LEMMA DigitFacts ==
    ASSUME NEW l, InRange(l), NEW i \in Index
    PROVE  /\ Digit(l, i) \in Alpha..(IntMax + Alpha)
           /\ i > Size(l) => Digit(l, i) = 0
           /\ Size(l) \in Nat
           /\ l.netbsd \in 0..IntMax
BY IntAssumption DEF InRange, Digit, Index, Alpha, Dot, Size

\* Comparing the components up to the end of both versions is comparing all.
LEMMA OlderPadded ==
    ASSUME NEW l, NEW r, InRange(l), InRange(r)
    PROVE  Older(l, r) <=>
              \/ \E i \in Index :
                    /\ Digit(l, i) < Digit(r, i)
                    /\ \A j \in Index : j < i => Digit(l, j) = Digit(r, j)
              \/ /\ \A i \in Index : Digit(l, i) = Digit(r, i)
                 /\ l.netbsd < r.netbsd
<1> DEFINE n == Size(l) + Size(r)
<1>0. 1 \in Index
  BY DEF Index
<1>1. Size(l) \in Nat /\ Size(r) \in Nat
  BY <1>0, DigitFacts
<1>2. n \in Nat
  BY <1>1
<1>3. \A i \in Index : i > n => Digit(l, i) = Digit(r, i)
  <2>1. ASSUME NEW i \in Index, i > n PROVE Digit(l, i) = Digit(r, i)
    <3>1. i > Size(l) /\ i > Size(r)
      BY <1>1, <2>1 DEF Index
    <3> QED
      BY <3>1, DigitFacts
  <2> QED
    BY <2>1
<1>4. \A i \in Index : Digit(l, i) \in Int /\ Digit(r, i) \in Int
  BY DigitFacts, IntAssumption DEF Alpha
<1>5. \A i \in 1..n : i \in Index
  BY <1>2 DEF Index
<1>6. \A i \in Index : i \in 1..n \/ i > n
  <2> HIDE DEF n
  <2> QED
    BY <1>2 DEF Index
<1>7. \A i \in Index : 1..(i - 1) = {j \in Index : j < i}
  BY DEF Index
<1>8. Older(l, r) <=>
         \/ \E i \in 1..n :
               /\ Digit(l, i) < Digit(r, i)
               /\ \A j \in 1..(i - 1) : Digit(l, j) = Digit(r, j)
         \/ /\ \A i \in 1..n : Digit(l, i) = Digit(r, i)
            /\ l.netbsd < r.netbsd
  BY DEF Older, Size
<1> HIDE DEF n
<1> DEFINE dl == [i \in Index |-> Digit(l, i)]
           dr == [i \in Index |-> Digit(r, i)]
<1>9. \A i \in Index : dl[i] = Digit(l, i) /\ dr[i] = Digit(r, i)
  OBVIOUS
<1> HIDE DEF dl, dr
<1> QED
  BY <1>2, <1>3, <1>4, <1>5, <1>6, <1>7, <1>8

\* The sign of the difference of two components is exact.
LEMMA MinusSign ==
    ASSUME NEW x \in Alpha..(IntMax + Alpha), NEW y \in Alpha..(IntMax + Alpha)
    PROVE  Minus(x, y) = x - y
BY IntAssumption DEF Minus, Alpha

\* So is that of two nb numbers.
LEMMA MinusNb ==
    ASSUME NEW x \in 0..IntMax, NEW y \in 0..IntMax
    PROVE  Minus(x, y) = x - y
BY IntAssumption DEF Minus

\* vtest is the reference order.
LEMMA CmpIsOlder ==
    ASSUME NEW l, NEW r, InRange(l), InRange(r)
    PROVE  /\ cmp(l, r) \in Int
           /\ cmp(l, r) < 0 <=> Older(l, r)
           /\ cmp(l, r) > 0 <=> Older(r, l)
           /\ cmp(l, r) = 0 => Same(l, r)
<1> DEFINE n == Size(l) + Size(r)
           D == Differing(l, r)
<1>0. 1 \in Index
  BY DEF Index
<1>1. Size(l) \in Nat /\ Size(r) \in Nat /\ n \in Nat
  BY <1>0, DigitFacts
<1>2. \A i \in 1..n : i \in Index
  BY <1>1 DEF Index
<1>3. \A i \in Index : /\ Digit(l, i) \in Alpha..(IntMax + Alpha)
                       /\ Digit(r, i) \in Alpha..(IntMax + Alpha)
  BY DigitFacts
<1>4. Digit(l, 1) \in Int /\ l.netbsd \in 0..IntMax /\ r.netbsd \in 0..IntMax
  BY <1>0, DigitFacts, IntAssumption DEF Alpha
<1>5. D = {i \in 1..n : Digit(l, i) # Digit(r, i)}
  BY DEF Differing, Size
<1>6. \A i \in Index : i > n => Digit(l, i) = Digit(r, i)
  <2>1. ASSUME NEW i \in Index, i > n PROVE Digit(l, i) = Digit(r, i)
    <3>1. i > Size(l) /\ i > Size(r)
      BY <1>1, <2>1 DEF Index
    <3> QED
      BY <3>1, DigitFacts
  <2> QED
    BY <2>1
<1> HIDE DEF n
<1>7. CASE D = {}
  <2>1. \A i \in Index : Digit(l, i) = Digit(r, i)
    BY <1>1, <1>5, <1>6, <1>7 DEF Index
  <2>2. cmp(l, r) = l.netbsd - r.netbsd
    BY <1>4, <1>7, MinusNb DEF cmp
  <2>3. Older(l, r) <=> l.netbsd < r.netbsd
    BY <2>1, <1>3, OlderPadded, IntAssumption DEF Alpha
  <2>4. Older(r, l) <=> r.netbsd < l.netbsd
    BY <2>1, <1>3, OlderPadded, IntAssumption DEF Alpha
  <2>5. l.netbsd = r.netbsd => Same(l, r)
    BY <2>1 DEF Same
  <2> QED
    BY <1>4, <2>2, <2>3, <2>4, <2>5, IntAssumption
<1>8. CASE D # {}
  <2> DEFINE i == CHOOSE i \in D : \A j \in D : i <= j
  <2>1. D \subseteq Nat
    BY <1>1, <1>5
  <2>2. i \in D /\ \A j \in D : i <= j
    BY <2>1, <1>8, LeastNatural
  <2>3. cmp(l, r) = Minus(Digit(l, i), Digit(r, i))
    BY <1>8 DEF cmp
  <2> HIDE DEF i, D
  <2>4. i \in 1..n /\ i \in Index /\ Digit(l, i) # Digit(r, i)
    BY <1>2, <1>5, <2>2
  <2>5. cmp(l, r) = Digit(l, i) - Digit(r, i)
    BY <1>3, <2>3, <2>4, MinusSign
  <2>6. \A j \in Index : j < i => Digit(l, j) = Digit(r, j)
    BY <1>1, <1>5, <2>2, <2>4 DEF Index
  <2>7. Digit(l, i) \in Int /\ Digit(r, i) \in Int
    BY <1>3, <2>4, IntAssumption DEF Alpha
  <2>8. Digit(l, i) < Digit(r, i) => Older(l, r)
    BY <2>4, <2>6, OlderPadded
  <2>9. Digit(r, i) < Digit(l, i) => Older(r, l)
    BY <2>4, <2>6, OlderPadded
  <2>10. ~(Older(l, r) /\ Older(r, l))
    <3>1. \A j \in Index : Digit(l, j) \in Int /\ Digit(r, j) \in Int
      BY <1>3, IntAssumption DEF Alpha
    <3>2. \A j, k \in Index : j < k \/ k < j \/ j = k
      BY DEF Index
    <3> QED
      BY <2>4, <3>1, <3>2, OlderPadded
  <2> QED
    BY <2>4, <2>5, <2>7, <2>8, <2>9, <2>10
<1> QED
  BY <1>7, <1>8

\* The reference order is a strict order whose incomparable versions are equal.
LEMMA OlderOrder ==
    ASSUME NEW k, NEW l, NEW r, InRange(k), InRange(l), InRange(r)
    PROVE  /\ ~(Older(k, l) /\ Older(l, k))
           /\ Older(k, l) /\ Older(l, r) => Older(k, r)
           /\ Older(k, l) /\ ~Older(r, l) => Older(k, r)
           /\ ~Older(l, k) /\ Older(l, r) => Older(k, r)
           /\ ~Older(l, k) /\ ~Older(r, l) => ~Older(r, k)
<1>1. \A i \in Index : /\ Digit(k, i) \in Int /\ Digit(l, i) \in Int
                       /\ Digit(r, i) \in Int
  BY DigitFacts, IntAssumption DEF Alpha
<1>2. 1 \in Index
  BY DEF Index
<1>3. k.netbsd \in Int /\ l.netbsd \in Int /\ r.netbsd \in Int
  BY <1>2, DigitFacts, IntAssumption
<1>4. \A i, j \in Index : i < j \/ j < i \/ i = j
  BY DEF Index
<1>5. cmp(k, l) \in Int /\ cmp(l, r) \in Int /\ cmp(k, r) \in Int
  BY CmpIsOlder
<1>6. ~(Older(k, l) /\ Older(l, k))
  BY <1>5, CmpIsOlder
<1>7. \A i, j, m \in Index : i < j /\ j < m => i < m
  BY DEF Index
<1>8. Older(k, l) /\ Older(l, r) => Older(k, r)
  BY <1>1, <1>3, <1>4, <1>7, OlderPadded
<1>9. ~Older(r, l) => Older(l, r) \/ Same(l, r)
  BY <1>5, CmpIsOlder
<1>10. ~Older(l, k) => Older(k, l) \/ Same(k, l)
  BY <1>5, CmpIsOlder
<1>11. Same(l, r) => (Older(k, l) <=> Older(k, r)) /\ (Older(l, k) <=> Older(r, k))
  BY OlderPadded DEF Same
<1>12. Same(k, l) => (Older(k, r) <=> Older(l, r)) /\ (Older(r, k) <=> Older(r, l))
  BY OlderPadded DEF Same
<1>13. cmp(k, r) \in Int /\ ~(Older(k, r) /\ Older(r, k))
  BY <1>5, CmpIsOlder
<1> QED
  BY <1>6, <1>8, <1>9, <1>10, <1>11, <1>12, <1>13

-----------------------------------------------------------------------------
\* Being a worse match is a strict total order of the packages.
LEMMA WorseOrder ==
    ASSUME NEW p \in Pkg, NEW q \in Pkg, NEW r \in Pkg
    PROVE  /\ ~(Worse(p, q) /\ Worse(q, p))
           /\ p # q => Worse(p, q) \/ Worse(q, p)
           /\ Worse(p, q) /\ Worse(q, r) => Worse(p, r)
<1> DEFINE V(x) == mkversion(Version[x])
<1>1. \A x \in Pkg : InRange(V(x)) /\ StrOrder[x] \in Nat
  BY VersionAssumption, StrOrderAssumption
<1>2. \A x, y \in Pkg : Worse(x, y) <=>
         Older(V(x), V(y)) \/ (~Older(V(y), V(x)) /\ StrOrder[y] < StrOrder[x])
  BY DEF Worse
<1>3. p # q => StrOrder[p] # StrOrder[q]
  BY StrOrderAssumption
<1> HIDE DEF V
<1>4. ~(Older(V(p), V(q)) /\ Older(V(q), V(p)))
  BY <1>1, OlderOrder
<1>5. /\ Older(V(p), V(q)) /\ Older(V(q), V(r)) => Older(V(p), V(r))
      /\ Older(V(p), V(q)) /\ ~Older(V(r), V(q)) => Older(V(p), V(r))
      /\ ~Older(V(q), V(p)) /\ Older(V(q), V(r)) => Older(V(p), V(r))
      /\ ~Older(V(q), V(p)) /\ ~Older(V(r), V(q)) => ~Older(V(r), V(p))
  BY <1>1, OlderOrder
<1> QED
  BY <1>1, <1>2, <1>3, <1>4, <1>5

\* pkg_order prefers the package that is not the worse match.
LEMMA OrderDecides ==
    ASSUME NEW pt, NEW p \in Pkg, NEW q \in Pkg,
           pkg_match(pt, p), pkg_match(pt, q), p # q
    PROVE  pkg_order(pt, p, q) = 1 <=> Worse(q, p)
<1> DEFINE l == mkversion(Version[p])
           r == mkversion(Version[q])
<1>1. /\ cmp(l, r) \in Int
      /\ cmp(l, r) < 0 <=> Older(l, r)
      /\ cmp(l, r) > 0 <=> Older(r, l)
  BY VersionAssumption, CmpIsOlder
<1>2. dewey_cmp(Version[p], ">", Version[q]) <=> cmp(l, r) > 0
  BY DEF dewey_cmp, result
<1>3. dewey_cmp(Version[p], "<", Version[q]) <=> cmp(l, r) < 0
  BY DEF dewey_cmp, result
<1>4. q # NoPkg
  BY NoPkgAssumption
<1>5. pkg_order(pt, p, q) = IF dewey_cmp(Version[p], ">", Version[q]) THEN 1
                            ELSE IF dewey_cmp(Version[p], "<", Version[q]) THEN 2
                            ELSE IF StrOrder[p] < StrOrder[q] THEN 1 ELSE 2
  BY <1>4 DEF pkg_order
<1>6. Worse(q, p) <=> Older(r, l) \/ (~Older(l, r) /\ StrOrder[p] < StrOrder[q])
  BY DEF Worse
<1> HIDE DEF l, r
<1>7. pkg_order(pt, p, q) = IF Older(r, l) THEN 1
                            ELSE IF Older(l, r) THEN 2
                            ELSE IF StrOrder[p] < StrOrder[q] THEN 1 ELSE 2
  BY <1>1, <1>2, <1>3, <1>5
<1>8. ~(Older(l, r) /\ Older(r, l))
  BY <1>1
<1> QED
  BY <1>6, <1>7, <1>8

\* The invariant of the search, with the types.
BestInv == TypeOK /\ BestExact

\* Reading an entry keeps it.
LEMMA ReadEntryKeeps ==
    ASSUME BestInv, NEW p \in Pkg, ReadEntry(p)
    PROVE  BestInv'
<1> DEFINE found == {x \in installed \ unread : pkg_match(pattern, x)}
<1>1. /\ p \in unread /\ unread' = unread \ {p}
      /\ best' = IF pkg_order(pattern, p, best) = 1 THEN p ELSE best
      /\ pattern' = pattern /\ installed' = installed
  BY DEF ReadEntry
<1>2. TypeOK'
  BY <1>1 DEF BestInv, TypeOK
<1>3. /\ installed \subseteq Pkg /\ unread \subseteq installed
      /\ best \in Pkg \cup {NoPkg}
  BY DEF BestInv, TypeOK
<1>4. /\ best = NoPkg <=> found = {}
      /\ best # NoPkg => best \in found /\ \A q \in found \ {best} : Worse(q, best)
  BY DEF BestInv, BestExact
<1>5. found' = IF pkg_match(pattern, p) THEN found \cup {p} ELSE found
  <2>1. installed' \ unread' = (installed \ unread) \cup {p}
    BY <1>1, <1>3
  <2>2. found' = {x \in (installed \ unread) \cup {p} : pkg_match(pattern, x)}
    BY <1>1, <2>1
  <2> QED
    BY <2>2
<1>6. found \subseteq Pkg /\ p \notin found
  BY <1>1, <1>3
<1>7. \A q \in found : pkg_match(pattern, q)
  OBVIOUS
<1> HIDE DEF found
<1>8. /\ best' = NoPkg <=> found' = {}
      /\ best' # NoPkg => /\ best' \in found'
                          /\ \A q \in found' \ {best'} : Worse(q, best')
  <2>1. CASE ~pkg_match(pattern, p)
    <3>1. pkg_order(pattern, p, best) # 1
      BY <2>1 DEF pkg_order
    <3> QED
      BY <1>1, <1>4, <1>5, <2>1, <3>1
  <2>2. CASE pkg_match(pattern, p) /\ best = NoPkg
    <3>1. pkg_order(pattern, p, best) = 1
      BY <2>2 DEF pkg_order
    <3> QED
      BY <1>1, <1>4, <1>5, <2>2, <3>1, NoPkgAssumption
  <2>3. CASE pkg_match(pattern, p) /\ best # NoPkg
    <3>1. best \in found /\ best \in Pkg /\ best # p /\ pkg_match(pattern, best)
      BY <1>3, <1>4, <1>6, <1>7, <2>3
    <3>2. pkg_order(pattern, p, best) = 1 <=> Worse(best, p)
      BY <2>3, <3>1, OrderDecides
    <3>3. \A q \in found \ {best} : Worse(q, best)
      BY <1>4, <2>3
    <3>4. CASE Worse(best, p)
      <4>1. \A q \in found : Worse(q, p)
        BY <1>6, <3>1, <3>3, <3>4, WorseOrder
      <4> QED
        BY <1>1, <1>5, <2>3, <3>2, <3>4, <4>1, NoPkgAssumption
    <3>5. CASE ~Worse(best, p)
      <4>1. Worse(p, best)
        BY <3>1, <3>5, WorseOrder
      <4>2. best' = best
        BY <1>1, <3>2, <3>5
      <4> QED
        BY <1>5, <2>3, <3>1, <3>3, <4>1, <4>2
    <3> QED
      BY <3>4, <3>5
  <2> QED
    BY <2>1, <2>2, <2>3
<1>9. BestExact'
  BY <1>8 DEF BestExact, found
<1> QED
  BY <1>2, <1>9 DEF BestInv

\* find_best_matching_installed_pkg returns the best of the matching packages,
\* in whatever order readdir returns them.
THEOREM BestExactCorrect == Spec => []BestExact
<1>1. Init => BestInv
  BY DEF Init, BestInv, TypeOK, BestExact
<1>2. BestInv /\ [Next]_vars => BestInv'
  <2> SUFFICES ASSUME BestInv, [Next]_vars PROVE BestInv'
    OBVIOUS
  <2>1. CASE Next
    BY <2>1, ReadEntryKeeps DEF Next
  <2>2. CASE UNCHANGED vars
    BY <2>2 DEF BestInv, TypeOK, BestExact, vars
  <2> QED
    BY <2>1, <2>2
<1>3. BestInv => BestExact
  BY DEF BestInv
<1> QED
  BY <1>1, <1>2, <1>3, PTL DEF Spec

-----------------------------------------------------------------------------
\* A lower bound that a version satisfies is satisfied by every later version,
\* and an upper bound by every earlier one.
LEMMA BoundMonotone ==
    ASSUME NEW k, NEW l, NEW b, InRange(k), InRange(l), InRange(b), ~Older(l, k)
    PROVE  /\ \A op \in {">", ">="} : result(cmp(k, b), op) => result(cmp(l, b), op)
           /\ \A op \in {"<", "<="} : result(cmp(l, b), op) => result(cmp(k, b), op)
<1>1. /\ cmp(k, b) \in Int /\ cmp(l, b) \in Int
      /\ (cmp(k, b) < 0 <=> Older(k, b)) /\ (cmp(k, b) > 0 <=> Older(b, k))
      /\ (cmp(l, b) < 0 <=> Older(l, b)) /\ (cmp(l, b) > 0 <=> Older(b, l))
  BY CmpIsOlder
<1>2. Older(b, k) => Older(b, l)
  BY OlderOrder
<1>3. Older(l, b) => Older(k, b)
  BY OlderOrder
<1>4. result(cmp(k, b), ">") => result(cmp(l, b), ">")
  BY <1>1, <1>2 DEF result
<1>5. result(cmp(k, b), ">=") => result(cmp(l, b), ">=")
  BY <1>1, <1>3 DEF result
<1>6. result(cmp(l, b), "<") => result(cmp(k, b), "<")
  BY <1>1, <1>3 DEF result
<1>7. result(cmp(l, b), "<=") => result(cmp(k, b), "<=")
  BY <1>1, <1>2 DEF result
<1> QED
  BY <1>4, <1>5, <1>6, <1>7

\* A range has no holes.
LEMMA RangeHasNoHoles ==
    ASSUME NEW pt \in Patterns, NEW alt \in pt, alt.text # <<>>,
           NEW p \in Pkg, NEW q \in Pkg, NEW r \in Pkg,
           dewey_match(alt.text, Version[p]), dewey_match(alt.text, Version[r]),
           ~Older(mkversion(Version[q]), mkversion(Version[p])),
           ~Older(mkversion(Version[r]), mkversion(Version[q]))
    PROVE  dewey_match(alt.text, Version[q])
<1> DEFINE text == alt.text
           op == Head(text).kind
           Upper == {i \in 2..Len(text) : text[i].kind \in {"<", "<="}}
           k == Min(Upper)
           lo == SubSeq(text, 2, k - 1)
           hi == SubSeq(text, k + 1, Len(text))
           V(x) == mkversion(Version[x])
<1>1. \A x \in Pkg : InRange(V(x))
  BY VersionAssumption
<1>2. alt \in {x \in pt : x.text # <<>>}
  OBVIOUS
<1>3. /\ op \in Ops
      /\ InRange(mkversion(Tail(text)))
      /\ \A i \in 2..Len(text) : /\ InRange(mkversion(SubSeq(text, i + 1, Len(text))))
                                /\ InRange(mkversion(SubSeq(text, 2, i - 1)))
  BY <1>2, PatternAssumption
<1>4. ~Older(V(q), V(p)) /\ ~Older(V(r), V(q))
  OBVIOUS
<1>5. \A x \in Pkg : dewey_match(text, Version[x]) <=>
         IF op \in {">", ">="} /\ Upper # {}
         THEN /\ dewey_cmp(Version[x], text[k].kind, hi)
              /\ dewey_cmp(Version[x], op, lo)
         ELSE dewey_cmp(Version[x], op, Tail(text))
  BY DEF dewey_match
<1>6. \A x \in Pkg : \A o, t : dewey_cmp(Version[x], o, t) <=> result(cmp(V(x), mkversion(t)), o)
  BY DEF dewey_cmp
<1>7. dewey_match(text, Version[p]) /\ dewey_match(text, Version[r])
  OBVIOUS
<1>8. CASE op \in {">", ">="} /\ Upper # {}
  <2>1. Upper \subseteq Nat
    OBVIOUS
  <2>2. k \in Upper
    BY <1>8, <2>1, LeastNatural DEF Min
  <2>3. InRange(mkversion(lo)) /\ InRange(mkversion(hi)) /\ text[k].kind \in {"<", "<="}
    BY <1>3, <2>2
  <2> HIDE DEF V, lo, hi, k, Upper, op, text
  <2>4. result(cmp(V(p), mkversion(lo)), op)
    BY <1>5, <1>6, <1>7, <1>8
  <2>5. result(cmp(V(r), mkversion(hi)), text[k].kind)
    BY <1>5, <1>6, <1>7, <1>8
  <2>6. result(cmp(V(q), mkversion(lo)), op)
    BY <1>1, <1>4, <1>8, <2>3, <2>4, BoundMonotone
  <2>7. result(cmp(V(q), mkversion(hi)), text[k].kind)
    BY <1>1, <1>4, <2>3, <2>5, BoundMonotone
  <2>8. dewey_match(text, Version[q])
    BY <1>5, <1>6, <1>8, <2>6, <2>7
  <2> QED
    BY <2>8 DEF text
<1>9. CASE ~(op \in {">", ">="} /\ Upper # {})
  <2> DEFINE b == mkversion(Tail(text))
  <2>1. InRange(b)
    BY <1>3
  <2>2. \A x \in Pkg : dewey_match(text, Version[x]) <=> result(cmp(V(x), b), op)
    BY <1>5, <1>6, <1>9
  <2> HIDE DEF V, op, Upper, b, text
  <2>3. result(cmp(V(p), b), op) /\ result(cmp(V(r), b), op)
    BY <1>7, <2>2
  <2>4. op \in {">", ">="} \/ op \in {"<", "<="}
    BY <1>3 DEF Ops
  <2>5. result(cmp(V(q), b), op)
    BY <1>1, <1>4, <2>1, <2>3, <2>4, BoundMonotone
  <2>6. dewey_match(text, Version[q])
    BY <2>2, <2>5
  <2> QED
    BY <2>6 DEF text
<1> QED
  BY <1>8, <1>9

\* What lies between two versions that match an alternative matches it, too.
THEOREM RangeConvexCorrect == Spec => []RangeConvex
<1>1. TypeOK => RangeConvex
  <2> SUFFICES ASSUME TypeOK, NEW alt \in pattern,
                      NEW p \in {x \in installed : Name[x] = alt.name},
                      NEW q \in {x \in installed : Name[x] = alt.name},
                      NEW r \in {x \in installed : Name[x] = alt.name},
                      pkg_match({alt}, p), pkg_match({alt}, r),
                      ~Older(mkversion(Version[q]), mkversion(Version[p])),
                      ~Older(mkversion(Version[r]), mkversion(Version[q]))
               PROVE  pkg_match({alt}, q)
    BY DEF RangeConvex
  <2>1. pattern \in Patterns /\ p \in Pkg /\ q \in Pkg /\ r \in Pkg
    BY DEF TypeOK
  <2>2. \A x \in {p, q, r} : pkg_match({alt}, x) <=>
           (alt.text # <<>> => dewey_match(alt.text, Version[x]))
    BY DEF pkg_match
  <2>3. alt.text # <<>> => dewey_match(alt.text, Version[q])
    BY <2>1, <2>2, RangeHasNoHoles
  <2> QED
    BY <2>2, <2>3
<1>2. Init => TypeOK
  BY DEF Init, TypeOK
<1>3. TypeOK /\ [Next]_vars => TypeOK'
  BY DEF TypeOK, Next, ReadEntry, vars
<1> QED
  BY <1>1, <1>2, <1>3, PTL DEF Spec

-----------------------------------------------------------------------------
(* The vectors of longer versions.                                         *)

\* What FlattenSeq computes.
Flattens(f, ss) ==
    f = [i \in 1..Len(ss) |-> IF i = 1 THEN ss[i] ELSE f[i - 1] \o ss[i]]

\* There is such a function.
LEMMA FlattensExists ==
    ASSUME NEW T, NEW ss \in Seq(Seq(T))
    PROVE  \E f : Flattens(f, ss)
<1> DEFINE n == Len(ss)
           S == Seq(T)
           States == [k : Nat, v : S]
           next(s) == IF s.k + 1 \in 1..n THEN s.v \o ss[s.k + 1] ELSE s.v
           G == [s \in States |-> [k |-> s.k + 1, v |-> next(s)]]
           none == <<>>
           first == [k |-> 0, v |-> none]
<1>1. n \in Nat /\ none \in S /\ \A i \in 1..n : ss[i] \in S /\ none \o ss[i] = ss[i]
  BY ConcatEmptySeq
<1>2. \A s, t \in S : s \o t \in S
  OBVIOUS
<1> HIDE DEF n, S, none
<1>3. first \in States /\ G \in [States -> States]
  <2>1. \A s \in States : next(s) \in S
    BY <1>1, <1>2
  <2> HIDE DEF next
  <2> QED
    BY <1>1, <2>1
<1>4. \A s \in States : G[s].k = s.k + 1 /\ G[s].v = next(s)
  OBVIOUS
<1>5. PICK r : AreRounds(r, States, first, G)
  <2> HIDE DEF States, G, first
  <2> QED
    BY <1>3, Rounds
<1> HIDE DEF G, States
<1>6. /\ r[0].k = 0 /\ r[0].v = none
      /\ \A k \in Nat : r[k + 1].k = r[k].k + 1 /\ r[k + 1].v = next(r[k])
  <2>1. r[0] = first /\ \A k \in Nat : r[k] \in States /\ r[k + 1] = G[r[k]]
    BY <1>5 DEF AreRounds
  <2> HIDE DEF next
  <2>2. ASSUME NEW k \in Nat
        PROVE  G[r[k]].k = r[k].k + 1 /\ G[r[k]].v = next(r[k])
    BY <1>4, <2>1
  <2>3. first.k = 0 /\ first.v = none
    OBVIOUS
  <2> QED
    BY ONLY <2>1, <2>2, <2>3
<1>7. \A k \in Nat : r[k].k = k
  <2> DEFINE K == {k \in Nat : r[k].k = k}
  <2>1. 0 \in K
    BY <1>6
  <2>2. ASSUME NEW k \in Nat, k \in K
        PROVE  k + 1 \in K
    BY <1>6, <2>2, k + 1 \in Nat
  <2> HIDE DEF K
  <2>3. Nat \subseteq K
    BY <2>1, <2>2, InductiveSet
  <2> QED
    BY <2>3 DEF K
<1>8. \A k \in Nat : k + 1 \in 1..n => r[k + 1].v = r[k].v \o ss[k + 1]
  BY <1>6, <1>7
<1> DEFINE f == [i \in 1..n |-> r[i].v]
<1>9. ASSUME NEW i \in 1..n
      PROVE  f[i] = IF i = 1 THEN ss[i] ELSE f[i - 1] \o ss[i]
  <2>1. i - 1 \in Nat /\ i - 1 + 1 = i /\ i - 1 + 1 \in 1..n
    BY <1>1
  <2>2. r[i].v = r[i - 1].v \o ss[i]
    BY <1>8, <2>1
  <2>3. CASE i = 1
    <3>1. i - 1 = 0
      BY <2>3
    <3>2. r[i].v = none \o ss[i]
      BY <1>6, <2>2, <3>1
    <3> QED
      BY <1>1, <2>3, <3>2
  <2>4. CASE i # 1
    <3>1. i - 1 \in 1..n
      BY <1>1, <2>4
    <3> QED
      BY <2>2, <2>4, <3>1
  <2> QED
    BY <2>3, <2>4
<1>10. f = [i \in 1..n |-> IF i = 1 THEN ss[i] ELSE f[i - 1] \o ss[i]]
  BY <1>9
<1> HIDE DEF f
<1>11. Flattens(f, ss)
  BY <1>10 DEF Flattens, n
<1> QED
  BY <1>11

\* What it computes of the first sequences does not depend on the others.
LEMMA FlattensPrefix ==
    ASSUME NEW T, NEW ss \in Seq(Seq(T)), NEW tt \in Seq(Seq(T)),
           NEW f, Flattens(f, ss), NEW g, Flattens(g, tt),
           Len(ss) <= Len(tt), \A i \in 1..Len(ss) : ss[i] = tt[i]
    PROVE  \A i \in 1..Len(ss) : f[i] = g[i] /\ f[i] \in Seq(T)
<1> DEFINE K == {k \in Nat : k + 1 \in 1..Len(ss) => f[k + 1] = g[k + 1] /\ f[k + 1] \in Seq(T)}
<1>1. /\ Len(ss) \in Nat /\ Len(tt) \in Nat
      /\ \A i \in 1..Len(ss) : ss[i] \in Seq(T) /\ i \in 1..Len(tt)
  OBVIOUS
<1>2. \A i \in 1..Len(ss) : f[i] = IF i = 1 THEN ss[i] ELSE f[i - 1] \o ss[i]
  BY DEF Flattens
<1>3. \A i \in 1..Len(ss) : g[i] = IF i = 1 THEN ss[i] ELSE g[i - 1] \o ss[i]
  BY <1>1 DEF Flattens
<1>4. 0 \in K
  <2> SUFFICES ASSUME 1 \in 1..Len(ss)
               PROVE  f[1] = g[1] /\ f[1] \in Seq(T)
    OBVIOUS
  <2>1. f[1] = ss[1] /\ g[1] = ss[1]
    BY <1>2, <1>3
  <2> QED
    BY <1>1, <2>1
<1>5. ASSUME NEW k \in Nat, k \in K
      PROVE  k + 1 \in K
  <2> SUFFICES ASSUME k + 1 + 1 \in 1..Len(ss)
               PROVE  f[k + 1 + 1] = g[k + 1 + 1] /\ f[k + 1 + 1] \in Seq(T)
    OBVIOUS
  <2> DEFINE i == k + 1 + 1
  <2>1. i \in 1..Len(ss) /\ i # 1 /\ i - 1 = k + 1 /\ k + 1 \in 1..Len(ss)
    BY <1>1
  <2>2. f[k + 1] = g[k + 1] /\ f[k + 1] \in Seq(T)
    BY <1>5, <2>1
  <2> HIDE DEF i
  <2>3. f[i] = f[k + 1] \o ss[i] /\ g[i] = g[k + 1] \o ss[i]
    BY <1>2, <1>3, <2>1
  <2>4. f[i] = g[i] /\ f[i] \in Seq(T)
    BY <1>1, <2>1, <2>2, <2>3
  <2> QED
    BY <2>4 DEF i
<1>6. Nat \subseteq K
  <2> HIDE DEF K
  <2> QED
    BY <1>4, <1>5, InductiveSet
<1>7. ASSUME NEW i \in 1..Len(ss)
      PROVE  f[i] = g[i] /\ f[i] \in Seq(T)
  <2>1. i - 1 \in Nat /\ i - 1 + 1 = i
    BY <1>1
  <2>2. i - 1 \in K
    BY <1>6, <2>1
  <2> QED
    BY <2>1, <2>2
<1> QED
  BY <1>7

\* FlattenSeq is the last of it.
LEMMA FlattenSeqIs ==
    ASSUME NEW T, NEW ss \in Seq(Seq(T)), Len(ss) # 0
    PROVE  \E f : Flattens(f, ss) /\ FlattenSeq(ss) = f[Len(ss)]
<1> DEFINE f == CHOOSE f : Flattens(f, ss)
<1>1. FlattenSeq(ss) = f[Len(ss)]
  BY DEF FlattenSeq, Flattens
<1>2. Flattens(f, ss)
  BY FlattensExists
<1> QED
  BY <1>1, <1>2

\* One more sequence.
LEMMA FlattenAppend ==
    ASSUME NEW T, NEW ss \in Seq(Seq(T)), NEW x \in Seq(T)
    PROVE  /\ FlattenSeq(ss) \in Seq(T)
           /\ FlattenSeq(Append(ss, x)) = FlattenSeq(ss) \o x
<1> DEFINE n == Len(ss)
           tt == Append(ss, x)
<1>1. /\ n \in Nat /\ tt \in Seq(Seq(T)) /\ Len(tt) = n + 1 /\ tt[n + 1] = x
      /\ \A i \in 1..n : tt[i] = ss[i]
  OBVIOUS
<1> HIDE DEF n, tt
<1>2. PICK g : Flattens(g, tt) /\ FlattenSeq(tt) = g[n + 1]
  BY <1>1, FlattenSeqIs
<1>3. \A i \in 1..(n + 1) : g[i] = IF i = 1 THEN tt[i] ELSE g[i - 1] \o tt[i]
  BY <1>1, <1>2 DEF Flattens
<1>4. CASE n = 0
  <2>1. ss = <<>> /\ FlattenSeq(ss) = <<>>
    BY <1>4 DEF n, FlattenSeq
  <2>2. FlattenSeq(tt) = x
    BY <1>1, <1>2, <1>3, <1>4
  <2>3. <<>> \in Seq(T) /\ <<>> \o x = x
    BY ConcatEmptySeq
  <2> QED
    BY <2>1, <2>2, <2>3 DEF tt
<1>5. CASE n # 0
  <2>1. PICK f : Flattens(f, ss) /\ FlattenSeq(ss) = f[n]
    BY <1>5, FlattenSeqIs DEF n
  <2>2. \A i \in 1..n : f[i] = g[i] /\ f[i] \in Seq(T)
    <3>1. Len(ss) <= Len(tt) /\ \A i \in 1..Len(ss) : ss[i] = tt[i]
      BY <1>1 DEF n
    <3> QED
      BY <1>1, <1>2, <2>1, <3>1, FlattensPrefix DEF n
  <2>3. n \in 1..n /\ n + 1 \in 1..(n + 1) /\ n + 1 # 1 /\ n + 1 - 1 = n
    BY <1>1, <1>5
  <2>4. ASSUME NEW i \in 1..(n + 1), i = n + 1
        PROVE  g[i] = g[n] \o tt[i]
    <3>1. i # 1 /\ i - 1 = n
      BY <2>3, <2>4
    <3> QED
      BY <1>3, <3>1
  <2>5. g[n + 1] = g[n] \o x
    BY <1>1, <2>3, <2>4
  <2> QED
    BY <1>2, <2>1, <2>2, <2>3, <2>5 DEF tt
<1> QED
  BY <1>4, <1>5

\* An int that is no int's overflow is what it is.
LEMMA WrapSmall ==
    ASSUME NEW n \in 0..IntMax
    PROVE  Wrap(n) = n
<1> DEFINE a == n + IntMax + 1
           b == 2 * IntMax + 2
<1>1. a \in Nat /\ b \in Nat /\ b > 0 /\ a < b
  BY IntAssumption
<1>2. a % b = a
  <2> HIDE DEF a, b
  <2> QED
    BY <1>1
<1> QED
  BY <1>2, IntAssumption DEF Wrap

\* What a token adds are ints.
LEMMA ComponentTyped ==
    ASSUME NEW t \in Token
    PROVE  mkcomponent(t) \in Seq(Int)
<1>1. t.n \in Int
  BY DEF Token
<1>2. Wrap(t.n) \in Int
  <2> DEFINE a == t.n + IntMax + 1
             b == 2 * IntMax + 2
  <2>1. a \in Int /\ b \in Nat /\ b > 0
    BY <1>1, IntAssumption
  <2>2. a % b \in Int
    <3> HIDE DEF a, b
    <3> QED
      BY <2>1
  <2> QED
    BY <2>2, IntAssumption DEF Wrap
<1>3. <<Wrap(t.n)>> \in Seq(Int) /\ <<t.n>> \in Seq(Int) /\ <<Dot, t.n>> \in Seq(Int)
  BY <1>1, <1>2 DEF Dot
<1> QED
  BY <1>3 DEF mkcomponent

\* A token at the end adds its components at the end, and no nb number.
LEMMA VersionAppend ==
    ASSUME NEW s \in Seq(Token), NEW t \in Token, t.kind # "nb"
    PROVE  /\ mkversion(s).v \in Seq(Int)
           /\ mkversion(Append(s, t)).v = mkversion(s).v \o mkcomponent(t)
           /\ mkversion(Append(s, t)).netbsd = mkversion(s).netbsd
<1> DEFINE n == Len(s)
           u == Append(s, t)
           parts == [i \in 1..n |-> mkcomponent(s[i])]
           more == [i \in 1..Len(u) |-> mkcomponent(u[i])]
<1>1. /\ n \in Nat /\ u \in Seq(Token) /\ Len(u) = n + 1 /\ u[n + 1] = t
      /\ \A i \in 1..n : u[i] = s[i] /\ s[i] \in Token
  OBVIOUS
<1> HIDE DEF n, u
<1>2. parts \in Seq(Seq(Int)) /\ Len(parts) = n
  BY <1>1, ComponentTyped
<1>3. more = Append(parts, mkcomponent(t))
  <2> DEFINE longer == Append(parts, mkcomponent(t))
  <2>1. /\ longer = [i \in 1..(n + 1) |-> longer[i]] /\ longer[n + 1] = mkcomponent(t)
        /\ \A i \in 1..n : longer[i] = parts[i]
    <3> HIDE DEF parts
    <3>1. mkcomponent(t) \in Seq(Int)
      BY ComponentTyped
    <3>2. longer \in Seq(Seq(Int)) /\ Len(longer) = n + 1
      BY <1>1, <1>2, <3>1
    <3>3. /\ longer[n + 1] = mkcomponent(t)
          /\ \A i \in 1..n : longer[i] = parts[i]
      BY <1>1, <1>2, <3>1
    <3>4. longer = [i \in 1..(n + 1) |-> longer[i]]
      <4> HIDE DEF longer
      <4> QED
        BY <3>2
    <3> QED
      BY <3>3, <3>4
  <2> HIDE DEF longer
  <2>2. ASSUME NEW i \in 1..(n + 1)
        PROVE  more[i] = longer[i]
    <3>1. CASE i = n + 1
      BY <1>1, <2>1, <3>1
    <3>2. CASE i # n + 1
      <4>1. i \in 1..n
        BY <1>1, <3>2
      <4> QED
        BY <1>1, <2>1, <4>1
    <3> QED
      BY <3>1, <3>2
  <2>3. more = [i \in 1..(n + 1) |-> more[i]]
    BY <1>1
  <2>4. more = longer
    <3> HIDE DEF more
    <3> QED
      BY <2>1, <2>2, <2>3
  <2> QED
    BY <2>4 DEF longer
<1>4. mkcomponent(t) \in Seq(Int)
  BY ComponentTyped
<1>5. /\ FlattenSeq(parts) \in Seq(Int)
      /\ FlattenSeq(more) = FlattenSeq(parts) \o mkcomponent(t)
  <2> HIDE DEF parts, more
  <2> QED
    BY <1>2, <1>3, <1>4, FlattenAppend
<1>6. netbsd(u) = netbsd(s)
  <2> DEFINE I == {i \in 1..Len(s) : s[i].kind = "nb"}
             J == {i \in 1..Len(u) : u[i].kind = "nb"}
  <2>1. I = J
    <3>1. \A i \in 1..Len(u) : i \in 1..n \/ i = n + 1
      BY <1>1
    <3>2. \A i \in 1..n : i \in 1..Len(u)
      BY <1>1
    <3> QED
      BY <1>1, <3>1, <3>2 DEF n
  <2>2. /\ netbsd(s) = LET i == IF I # {} THEN Max(I) ELSE 0
                       IN IF i = 0 THEN 0 ELSE Wrap(s[i].n)
        /\ netbsd(u) = LET i == IF J # {} THEN Max(J) ELSE 0
                       IN IF i = 0 THEN 0 ELSE Wrap(u[i].n)
    BY DEF netbsd, SelectLastInSeq
  <2>3. I # {} => Max(I) \in I
    <3> SUFFICES ASSUME I # {} PROVE Max(I) \in I
      OBVIOUS
    <3>1. I \subseteq Nat /\ \A i \in I : i <= n
      BY <1>1 DEF n
    <3> HIDE DEF I
    <3>2. \E i \in I : \A j \in I : i >= j
      BY <1>1, <3>1, GreatestNatural
    <3> QED
      BY <3>2 DEF Max
  <2>4. I # {} => u[Max(I)] = s[Max(I)]
    BY <1>1, <2>3 DEF n
  <2> HIDE DEF I, J
  <2> QED
    BY <2>1, <2>2, <2>4
<1>7. mkversion(s).v = FlattenSeq(parts) /\ mkversion(u).v = FlattenSeq(more)
  BY DEF mkversion, n
<1> QED
  BY <1>5, <1>6, <1>7 DEF mkversion, u

\* w is the version l with two more components.
Suffixed(w, l, x, m) == w.v = l.v \o <<x, m>> /\ w.netbsd = l.netbsd

\* Its components are those of l and the two.
LEMMA SuffixDigits ==
    ASSUME NEW l, InRange(l), NEW w, NEW x \in Alpha..Dot, NEW m \in 0..2, Suffixed(w, l, x, m)
    PROVE  /\ InRange(w)
           /\ \A i \in Index : i < Size(l) + 1 => Digit(w, i) = Digit(l, i)
           /\ Digit(w, Size(l) + 1) = x
           /\ Digit(w, Size(l) + 2) = m
<1> DEFINE v == l.v
           n == Len(v)
           R == Alpha..(IntMax + Alpha)
<1>1. v \in Seq(R) /\ l.netbsd \in 0..IntMax
  BY DEF InRange
<1>2. x \in R /\ m \in R
  BY IntAssumption DEF Alpha, Dot
<1> HIDE DEF R, v
<1>3. <<x, m>> \in Seq(R) /\ Len(<<x, m>>) = 2 /\ <<x, m>>[1] = x /\ <<x, m>>[2] = m
  BY <1>2
<1> DEFINE e == <<x, m>>
<1> HIDE DEF e
<1>4. /\ v \o e \in Seq(R) /\ n \in Nat /\ Len(v \o e) = n + 2
      /\ \A i \in 1..n : (v \o e)[i] = v[i]
      /\ (v \o e)[n + 1] = x /\ (v \o e)[n + 2] = m
  <2>1. e \in Seq(R) /\ Len(e) = 2 /\ e[1] = x /\ e[2] = m
    BY <1>3 DEF e
  <2>2. /\ n \in Nat /\ v \o e \in Seq(R) /\ Len(v \o e) = n + Len(e)
        /\ \A i \in 1..(n + Len(e)) : (v \o e)[i] = IF i <= n THEN v[i] ELSE e[i - n]
    <3>1. v \o e \in Seq(R) /\ Len(v \o e) = n + Len(e)
      BY <1>1, <2>1, ConcatProperties
    <3>2. \A i \in 1..(n + Len(e)) : (v \o e)[i] = IF i <= n THEN v[i] ELSE e[i - n]
      BY <1>1, <2>1, ConcatProperties
    <3> QED
      BY <1>1, <3>1, <3>2
  <2>3. v \o e \in Seq(R) /\ n \in Nat /\ Len(v \o e) = n + 2
    BY <2>1, <2>2
  <2>4. n + 1 \in 1..(n + 2) /\ n + 2 \in 1..(n + 2) /\ n + 1 - n = 1 /\ n + 2 - n = 2
    BY <2>3
  <2>5. (v \o e)[n + 1] = e[n + 1 - n] /\ (v \o e)[n + 2] = e[n + 2 - n]
    BY <2>1, <2>2, <2>3, <2>4
  <2>6. \A i \in 1..n : (v \o e)[i] = v[i]
    BY <2>1, <2>2, <2>3
  <2> QED
    BY <2>1, <2>3, <2>4, <2>5, <2>6
<1>5. w.v = v \o e
  BY DEF v, e, Suffixed
<1>6. InRange(w)
  BY <1>1, <1>4, <1>5 DEF InRange, R, Suffixed
<1>7. Size(l) = n
  BY DEF Size, v
<1> HIDE DEF n
<1>8. \A i \in Index : i < n + 1 => Digit(w, i) = Digit(l, i)
  <2> SUFFICES ASSUME NEW i \in Index, i < n + 1 PROVE Digit(w, i) = Digit(l, i)
    OBVIOUS
  <2>1. i \in 1..n /\ i <= n /\ i <= n + 2
    BY <1>4 DEF Index
  <2>2. Digit(l, i) = v[i] /\ Digit(w, i) = w.v[i]
    BY <1>4, <1>5, <2>1 DEF Digit, v, n
  <2> QED
    BY <1>4, <1>5, <2>1, <2>2
<1>9. Digit(w, n + 1) = x /\ Digit(w, n + 2) = m
  <2>1. n + 1 <= n + 2 /\ n + 2 <= n + 2
    BY <1>4
  <2> QED
    BY <1>4, <1>5, <2>1 DEF Digit
<1> QED
  BY <1>6, <1>7, <1>8, <1>9

\* A sequence of two is two of one.
LEMMA PairConcat ==
    ASSUME NEW x \in Int, NEW m \in Int
    PROVE  <<x>> \o <<m>> = <<x, m>>
<1> DEFINE p == <<x>>
           q == <<m>>
           c == p \o q
           d == <<x, m>>
<1>1. p \in Seq(Int) /\ q \in Seq(Int) /\ Len(p) = 1 /\ Len(q) = 1 /\ p[1] = x /\ q[1] = m
  OBVIOUS
<1>2. d \in Seq(Int) /\ Len(d) = 2 /\ d[1] = x /\ d[2] = m
  OBVIOUS
<1> HIDE DEF p, q, d
<1>3. /\ c \in Seq(Int) /\ Len(c) = Len(p) + Len(q)
      /\ \A i \in 1..(Len(p) + Len(q)) : c[i] = IF i <= Len(p) THEN p[i] ELSE q[i - Len(p)]
  BY <1>1, ConcatProperties
<1> HIDE DEF c
<1>4. Len(c) = 2 /\ \A i \in 1..2 : c[i] = IF i <= 1 THEN p[i] ELSE q[i - 1]
  BY <1>1, <1>3
<1>5. 2 - 1 = 1 /\ c[1] = p[1] /\ c[2] = q[2 - 1]
  BY <1>4
<1>6. c[1] = d[1] /\ c[2] = d[2]
  BY <1>1, <1>2, <1>5
<1>7. \A i \in 1..2 : c[i] = d[i]
  <2>1. \A i \in 1..2 : i = 1 \/ i = 2
    OBVIOUS
  <2> QED
    BY <1>6, <2>1
<1>8. c = d
  <2>1. c = [i \in 1..Len(c) |-> c[i]] /\ d = [i \in 1..Len(d) |-> d[i]]
    BY <1>2, <1>3
  <2>2. c = [i \in 1..2 |-> c[i]] /\ d = [i \in 1..2 |-> d[i]]
    BY <1>2, <1>4, <2>1
  <2> QED
    BY <1>7, <2>2
<1> QED
  BY <1>8 DEF c, d, p, q

\* What a suffix of two tokens makes of a version.
LEMMA SuffixVersion ==
    ASSUME NEW s \in Seq(Token), NEW x \in Alpha..Dot, NEW m \in 0..2
    PROVE  LET w == mkversion(Append(Append(s, [kind |-> "modifier", n |-> x]),
                                     [kind |-> "digits", n |-> m]))
               u == mkversion(Append(s, [kind |-> "letter", n |-> m]))
           IN Suffixed(w, mkversion(s), x, m) /\ Suffixed(u, mkversion(s), Dot, m)
<1> DEFINE a == [kind |-> "modifier", n |-> x]
           b == [kind |-> "digits", n |-> m]
           c == [kind |-> "letter", n |-> m]
           v == mkversion(s).v
<1>1. /\ a \in Token /\ b \in Token /\ c \in Token
      /\ a.kind # "nb" /\ b.kind # "nb" /\ c.kind # "nb"
      /\ x \in Int /\ m \in Int
  BY DEF Token, Alpha, Dot
<1>2. mkcomponent(a) = <<x>> /\ mkcomponent(c) = <<Dot, m>>
  BY DEF mkcomponent
<1>3. mkcomponent(b) = <<m>>
  <2>1. Wrap(m) = m
    BY WrapSmall, IntAssumption
  <2> QED
    BY <2>1 DEF mkcomponent
<1> HIDE DEF a, b, c
<1>4. Append(s, a) \in Seq(Token)
  BY <1>1
<1>5. /\ v \in Seq(Int)
      /\ mkversion(Append(s, a)).v = v \o <<x>>
      /\ mkversion(Append(s, a)).netbsd = mkversion(s).netbsd
      /\ mkversion(Append(s, c)).v = v \o <<Dot, m>>
      /\ mkversion(Append(s, c)).netbsd = mkversion(s).netbsd
  BY <1>1, <1>2, VersionAppend
<1>6. /\ mkversion(Append(Append(s, a), b)).v = (v \o <<x>>) \o <<m>>
      /\ mkversion(Append(Append(s, a), b)).netbsd = mkversion(s).netbsd
  <2> HIDE DEF v
  <2> QED
    BY <1>1, <1>3, <1>4, <1>5, VersionAppend
<1>7. (v \o <<x>>) \o <<m>> = v \o <<x, m>>
  <2>1. <<x>> \in Seq(Int) /\ <<m>> \in Seq(Int)
    BY <1>1
  <2>2. <<x>> \o <<m>> = <<x, m>>
    BY <1>1, PairConcat
  <2> DEFINE p == <<x>>
             q == <<m>>
  <2>3. p \in Seq(Int) /\ q \in Seq(Int)
    BY <2>1 DEF p, q
  <2> HIDE DEF v, p, q
  <2>4. v \in Seq(Int)
    BY <1>5
  <2>5. (v \o p) \o q = v \o (p \o q)
    BY <2>3, <2>4, ConcatAssociative
  <2> QED
    BY <2>2, <2>5 DEF p, q
<1> QED
  BY <1>5, <1>6, <1>7 DEF a, b, c, Suffixed

\* A version with the smaller suffix is older.
LEMMA SuffixOlder ==
    ASSUME NEW l, InRange(l), NEW w, InRange(w), NEW n \in Index,
           \A i \in Index : i < n => Digit(l, i) = Digit(w, i), Digit(l, n) < Digit(w, n)
    PROVE  cmp(l, w) < 0
BY OlderPadded, CmpIsOlder

\* The suffixes that stand for what comes before a release are in order before
\* it, and a patch level and a letter after it, in the same place.
LEMMA Collating ==
    ASSUME NEW s \in Seq(Token), InRange(mkversion(s)), NEW j \in 0..2, NEW k \in 0..2
    PROVE  LET With(x, m) == Append(Append(s, [kind |-> "modifier", n |-> x]),
                                    [kind |-> "digits", n |-> m])
           IN /\ cmp(mkversion(With(Alpha, j)), mkversion(With(Beta, k))) < 0
              /\ cmp(mkversion(With(Beta, j)), mkversion(With(RC, k))) < 0
              /\ cmp(mkversion(With(RC, j)), mkversion(s)) < 0
              /\ j > 0 => cmp(mkversion(s), mkversion(With(Dot, j))) < 0
              /\ cmp(mkversion(With(Dot, j)),
                     mkversion(Append(s, [kind |-> "letter", n |-> j]))) = 0
<1> DEFINE With(x, m) == Append(Append(s, [kind |-> "modifier", n |-> x]),
                                [kind |-> "digits", n |-> m])
           W(x, m) == mkversion(With(x, m))
           u == mkversion(Append(s, [kind |-> "letter", n |-> j]))
           l == mkversion(s)
           n == Size(l)
<1>1. n \in Nat /\ 1 \in Index
  BY DigitFacts DEF Index
<1>2. /\ Alpha \in Alpha..Dot /\ Beta \in Alpha..Dot /\ RC \in Alpha..Dot /\ Dot \in Alpha..Dot
      /\ Alpha < Beta /\ Beta < RC /\ RC < Dot /\ Dot = 0
  BY DEF Alpha, Beta, RC, Dot
<1>3. ASSUME NEW x \in Alpha..Dot, NEW m \in 0..2
      PROVE  Suffixed(W(x, m), l, x, m)
  BY SuffixVersion
<1>4. InRange(l) /\ \A i \in Index : i > n => Digit(l, i) = Dot
  BY <1>2, DigitFacts
<1>5. Suffixed(u, l, Dot, j)
  BY <1>2, SuffixVersion
<1> HIDE DEF W, u, l
<1>6. /\ n + 1 \in Index /\ n + 2 \in Index
      /\ \A i \in Index : i < n + 2 => i < n + 1 \/ i = n + 1
  <2> HIDE DEF n
  <2> QED
    BY <1>1 DEF Index
<1> HIDE DEF n
<1>7. ASSUME NEW x \in Alpha..Dot, NEW y \in Alpha..Dot, x < y, NEW p \in 0..2, NEW q \in 0..2
      PROVE  cmp(W(x, p), W(y, q)) < 0
  <2> DEFINE a == W(x, p)
             b == W(y, q)
  <2>1. Suffixed(a, l, x, p) /\ Suffixed(b, l, y, q)
    BY <1>3
  <2> HIDE DEF a, b
  <2>2. /\ InRange(a) /\ Digit(a, n + 1) = x
        /\ \A i \in Index : i < n + 1 => Digit(a, i) = Digit(l, i)
    BY <1>4, <2>1, SuffixDigits DEF n
  <2>3. /\ InRange(b) /\ Digit(b, n + 1) = y
        /\ \A i \in Index : i < n + 1 => Digit(b, i) = Digit(l, i)
    BY <1>4, <2>1, SuffixDigits DEF n
  <2>4. cmp(a, b) < 0
    BY <1>6, <1>7, <2>2, <2>3, SuffixOlder
  <2> QED
    BY <2>4 DEF a, b
<1>8. ASSUME NEW w, NEW x \in Alpha..Dot, NEW m \in 0..2, Suffixed(w, l, x, m)
      PROVE  /\ x < Dot => cmp(w, l) < 0
             /\ x = Dot /\ m > 0 => cmp(l, w) < 0
  <2>1. /\ InRange(w)
        /\ \A i \in Index : i < n + 1 => Digit(w, i) = Digit(l, i)
        /\ Digit(w, n + 1) = x /\ Digit(w, n + 2) = m
    BY <1>4, <1>8, SuffixDigits DEF n
  <2>2. Digit(l, n + 1) = Dot /\ Digit(l, n + 2) = Dot
    BY <1>1, <1>4, <1>6
  <2>3. x < Dot => cmp(w, l) < 0
    BY <1>4, <1>6, <2>1, <2>2, SuffixOlder
  <2>4. ASSUME x = Dot, m > 0
        PROVE  cmp(l, w) < 0
    <3>1. \A i \in Index : i < n + 2 => Digit(l, i) = Digit(w, i)
      BY <1>6, <2>1, <2>2, <2>4
    <3>2. Digit(l, n + 2) < Digit(w, n + 2)
      BY <1>2, <1>6, <2>1, <2>2, <2>4
    <3> QED
      BY <1>4, <1>6, <2>1, <3>1, <3>2, SuffixOlder
  <2> QED
    BY <2>3, <2>4
<1>9. cmp(W(Dot, j), u) = 0
  <2> DEFINE a == W(Dot, j)
  <2>1. Suffixed(a, l, Dot, j) /\ Suffixed(u, l, Dot, j)
    BY <1>2, <1>3, <1>5
  <2> HIDE DEF a
  <2>2. InRange(a) /\ InRange(u)
    BY <1>2, <1>4, <2>1, SuffixDigits
  <2>3. a.netbsd = u.netbsd /\ \A i \in Index : Digit(a, i) = Digit(u, i)
    BY <2>1 DEF Digit, Suffixed
  <2>4. \A i \in Index : Digit(a, i) \in Int /\ a.netbsd \in Int
    BY <2>2, DigitFacts, IntAssumption DEF Alpha
  <2>5. ~Older(a, u) /\ ~Older(u, a)
    BY <1>1, <2>2, <2>3, <2>4, OlderPadded
  <2>6. cmp(a, u) = 0
    BY <2>2, <2>5, CmpIsOlder
  <2> QED
    BY <2>6 DEF a
<1>10. /\ cmp(W(Alpha, j), W(Beta, k)) < 0
       /\ cmp(W(Beta, j), W(RC, k)) < 0
  BY <1>2, <1>7
<1>11. /\ cmp(W(RC, j), l) < 0
       /\ j > 0 => cmp(l, W(Dot, j)) < 0
  BY <1>2, <1>3, <1>8
<1> QED
  BY <1>9, <1>10, <1>11 DEF W, l, u

\* The collating sequence of pkg_info(1): the suffixes of a version sort as it
\* says, whatever the version is.
THEOREM CollatingSequenceCorrect == Spec => []CollatingSequence
<1>1. CollatingSequence
  <2> DEFINE numbers == {[kind |-> "digits", n |-> x] : x \in 0..2}
             With(p, x) == Append(Version[p], [kind |-> "modifier", n |-> x])
  <2>1. ASSUME NEW p \in Pkg, NEW n \in numbers, NEW k \in numbers
        PROVE  /\ dewey_cmp(Append(With(p, Alpha), n), "<", Append(With(p, Beta), k))
               /\ dewey_cmp(Append(With(p, Beta), n), "<", Append(With(p, RC), k))
               /\ dewey_cmp(Append(With(p, RC), n), "<", Version[p])
               /\ n.n > 0 =>
                     /\ dewey_cmp(Version[p], "<", Append(With(p, Dot), n))
                     /\ cmp(mkversion(Append(With(p, Dot), n)),
                            mkversion(Append(Version[p], [kind |-> "letter", n |-> n.n]))) = 0
    <3>1. PICK i \in 0..2, j \in 0..2 :
             n = [kind |-> "digits", n |-> i] /\ k = [kind |-> "digits", n |-> j]
      OBVIOUS
    <3>2. n.n = i
      BY <3>1
    <3>3. Version[p] \in Seq(Token) /\ InRange(mkversion(Version[p]))
      BY VersionAssumption
    <3> QED
      BY <3>1, <3>2, <3>3, Collating DEF dewey_cmp, result
  <2> QED
    BY <2>1 DEF CollatingSequence
<1> QED
  BY <1>1, PTL
=============================================================================
