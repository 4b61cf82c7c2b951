------------------------------- MODULE Dewey -------------------------------
(***************************************************************************)
(* Versions, patterns and the choice of the best installed match: dewey.c, *)
(* opattern.c and find_best_matching_installed_pkg of iterate.c.           *)
(*                                                                         *)
(* A version is a sequence of tokens, the pieces mkcomponent takes off the *)
(* front of the string: a run of digits, a modifier, "nb" with its digits, *)
(* a letter, or a character that is skipped.  A pattern is the set of the  *)
(* alternatives its braces expand to, each of them a package name and the  *)
(* text that follows it, a sequence of tokens that starts with an operator.*)
(***************************************************************************)
EXTENDS Integers, SequencesExt

CONSTANTS
    Pkg,        \* package names, version included
    NoPkg,      \* NULL
    Name,       \* Name[p]: p up to the last dash
    Version,    \* Version[p]: the tokens after it
    StrOrder,   \* StrOrder[p]: the place of p in the order of strcmp
    Patterns,   \* dependency patterns
    IntMax      \* the largest int

Alpha == -3
Beta == -2
RC == -1
Dot == 0

Ops == {"<", "<=", ">", ">="}
Token == [kind : {"digits", "modifier", "letter", "nb", "other"} \cup Ops, n : Int]

VARIABLES
    pattern,    \* what find_best_matching_installed_pkg is asked for
    installed,  \* the entries of PKG_DBDIR
    unread,     \* entries readdir has not returned
    best        \* best_current_match

vars == <<pattern, installed, unread, best>>

-----------------------------------------------------------------------------
(* dewey.c                                                                 *)

\* The int that n = n * 10 + digit leaves after the last digit.
Wrap(n) == ((n + IntMax + 1) % (2 * IntMax + 2)) - (IntMax + 1)

\* Mutant: a letter is a component of its own.
BareLetter(t) ==
    CASE t.kind = "digits" -> <<Wrap(t.n)>>
      [] t.kind \in {"modifier", "letter"} -> <<t.n>>
      [] OTHER -> <<>>

\* What a token adds to the vector of a version.
mkcomponent(t) ==
    CASE t.kind = "digits" -> <<Wrap(t.n)>>
      [] t.kind = "modifier" -> <<t.n>>
      [] t.kind = "letter" -> <<Dot, t.n>>
      [] OTHER -> <<>>

\* The number after the last "nb".
netbsd(s) == LET i == SelectLastInSeq(s, LAMBDA t : t.kind = "nb")
             IN IF i = 0 THEN 0 ELSE Wrap(s[i].n)

mkversion(s) ==
    [v |-> FlattenSeq([i \in 1..Len(s) |-> mkcomponent(s[i])]),
     netbsd |-> netbsd(s)]

\* DIGIT: a missing component is zero.
Digit(l, i) == IF i <= Len(l.v) THEN l.v[i] ELSE Dot

\* Mutant: one bit of the difference is lost.
MinusNarrow(x, y) ==
    LET d == x - y IN
    IF d > IntMax \div 2 THEN d - IntMax - 1
    ELSE IF d < -(IntMax \div 2) - 1 THEN d + IntMax + 1 ELSE d

\* The difference of two ints, as an int.
Minus(x, y) ==
    LET d == x - y IN
    IF d > IntMax THEN d - 2 * IntMax - 2
    ELSE IF d < -IntMax - 1 THEN d + 2 * IntMax + 2 ELSE d

\* The components in which two versions differ.
Differing(l, r) ==
    {i \in 1..(Len(l.v) + Len(r.v)) : Digit(l, i) # Digit(r, i)}

\* The value vtest hands to result().
cmp(l, r) ==
    IF Differing(l, r) = {} THEN Minus(l.netbsd, r.netbsd)
    ELSE LET i == CHOOSE i \in Differing(l, r) :
                      \A j \in Differing(l, r) : i <= j
         IN Minus(Digit(l, i), Digit(r, i))

result(c, op) ==
    CASE op = "<" -> c < 0
      [] op = "<=" -> c <= 0
      [] op = ">" -> c > 0
      [] op = ">=" -> c >= 0

dewey_cmp(s, op, t) == result(cmp(mkversion(s), mkversion(t)), op)

\* The text of a range: op version, or op version op2 version, where op is >
\* or >= and op2 < or <=.  Any other operator is skipped like a stray
\* character.
dewey_match(text, s) ==
    LET op == Head(text).kind
        Upper == {i \in 2..Len(text) : text[i].kind \in {"<", "<="}}
    IN IF op \in {">", ">="} /\ Upper # {}
       THEN LET k == Min(Upper) IN
            /\ dewey_cmp(s, text[k].kind, SubSeq(text, k + 1, Len(text)))
            /\ dewey_cmp(s, op, SubSeq(text, 2, k - 1))
       ELSE dewey_cmp(s, op, Tail(text))

-----------------------------------------------------------------------------
(* opattern.c                                                              *)

\* A name with a range, or a name alone, which any version satisfies.
pkg_match(pt, p) ==
    \E alt \in pt : /\ alt.name = Name[p]
                    /\ alt.text # <<>> => dewey_match(alt.text, Version[p])

\* Mutant: of two names with equal versions the one seen last is taken.
LaterWins(pt, p, q) ==
    IF q = NoPkg THEN (IF pkg_match(pt, p) THEN 1 ELSE 0)
    ELSE IF ~pkg_match(pt, p) THEN (IF pkg_match(pt, q) THEN 2 ELSE 0)
    ELSE IF ~pkg_match(pt, q) THEN 1
    ELSE IF dewey_cmp(Version[p], "<", Version[q]) THEN 2 ELSE 1

\* Which of two packages is the better match: 1, 2, or 0 for none of them.
pkg_order(pt, p, q) ==
    IF q = NoPkg THEN (IF pkg_match(pt, p) THEN 1 ELSE 0)
    ELSE IF ~pkg_match(pt, p) THEN (IF pkg_match(pt, q) THEN 2 ELSE 0)
    ELSE IF ~pkg_match(pt, q) THEN 1
    ELSE IF dewey_cmp(Version[p], ">", Version[q]) THEN 1
    ELSE IF dewey_cmp(Version[p], "<", Version[q]) THEN 2
    ELSE IF StrOrder[p] < StrOrder[q] THEN 1 ELSE 2

-----------------------------------------------------------------------------
(* iterate.c                                                               *)

Init ==
    /\ pattern \in Patterns
    /\ installed \in SUBSET Pkg
    /\ unread = installed
    /\ best = NoPkg

\* match_best_installed for the next entry readdir returns.
ReadEntry(p) ==
    /\ p \in unread
    /\ unread' = unread \ {p}
    /\ best' = IF pkg_order(pattern, p, best) = 1 THEN p ELSE best
    /\ UNCHANGED <<pattern, installed>>

Next == \E p \in Pkg : ReadEntry(p)

Spec == Init /\ [][Next]_vars

-----------------------------------------------------------------------------
(* Properties.                                                             *)

\* The components of a version that differ from each other by an int.
InRange(l) ==
    /\ l.v \in Seq(Alpha..(IntMax + Alpha))
    /\ l.netbsd \in 0..IntMax

ASSUME IntAssumption == IntMax \in Nat /\ IntMax >= 5
ASSUME NoPkgAssumption == NoPkg \notin Pkg
ASSUME StrOrderAssumption ==
    /\ StrOrder \in [Pkg -> Nat]
    /\ \A p, q \in Pkg : StrOrder[p] = StrOrder[q] => p = q
ASSUME VersionAssumption ==
    \A p \in Pkg : Version[p] \in Seq(Token) /\ InRange(mkversion(Version[p]))
\* Patterns are sets of alternatives; the bounds of a range are in range.
ASSUME PatternAssumption ==
    \A pt \in Patterns : \A alt \in {x \in pt : x.text # <<>>} :
        /\ alt.text \in Seq(Token)
        /\ Head(alt.text).kind \in Ops
        /\ InRange(mkversion(Tail(alt.text)))
        /\ \A i \in 2..Len(alt.text) :
              /\ InRange(mkversion(SubSeq(alt.text, i + 1, Len(alt.text))))
              /\ InRange(mkversion(SubSeq(alt.text, 2, i - 1)))

\* Reference: the order of pkg_info(1), on the vectors, with exact integers:
\* the first component that differs decides, then the nb number.
Older(l, r) ==
    \/ \E i \in 1..(Len(l.v) + Len(r.v)) :
          /\ Digit(l, i) < Digit(r, i)
          /\ \A j \in 1..(i - 1) : Digit(l, j) = Digit(r, j)
    \/ /\ \A i \in 1..(Len(l.v) + Len(r.v)) : Digit(l, i) = Digit(r, i)
       /\ l.netbsd < r.netbsd

\* Reference: p is a worse match than q.
Worse(p, q) ==
    LET l == mkversion(Version[p])
        r == mkversion(Version[q])
    IN Older(l, r) \/ (~Older(r, l) /\ StrOrder[q] < StrOrder[p])

TypeOK ==
    /\ pattern \in Patterns
    /\ installed \subseteq Pkg
    /\ unread \subseteq installed
    /\ best \in Pkg \cup {NoPkg}

\* find_best_matching_installed_pkg returns the newest matching package,
\* whatever order readdir returns the entries in, as long as no component is
\* within two of the largest int: pkg_order then is a strict order.
BestExact ==
    LET found == {p \in installed \ unread : pkg_match(pattern, p)} IN
    /\ best = NoPkg <=> found = {}
    /\ best # NoPkg => /\ best \in found
                       /\ \A q \in found \ {best} : Worse(q, best)

\* A range has no holes: what lies between two versions that match one
\* alternative of a pattern matches it, too.  It is looked at in the databases
\* that hold the three packages.
RangeConvex ==
    \A alt \in pattern : \A p, q, r \in {x \in installed : Name[x] = alt.name} :
        LET V(x) == mkversion(Version[x]) IN
        /\ installed = {p, q, r} /\ unread = {}
        /\ pkg_match({alt}, p) /\ pkg_match({alt}, r)
        /\ ~Older(V(q), V(p)) /\ ~Older(V(r), V(q))
        => pkg_match({alt}, q)

\* "alpha" "sorts before a beta version", "beta" "before a release candidate",
\* "rc" "before a release", a patch level after it, and letters "sort in the
\* same place as their numeric counterparts": whatever the version is that the
\* suffixes are appended to, and whatever numbers follow.  It is looked at in
\* the databases that hold one package.
CollatingSequence ==
    \A p \in {x \in Pkg : installed = {x} /\ unread = {}} :
    \A n, k \in {[kind |-> "digits", n |-> x] : x \in 0..2} :
        LET s == Version[p]
            With(x) == Append(s, [kind |-> "modifier", n |-> x])
        IN netbsd(s) = 0 =>
           /\ dewey_cmp(Append(With(Alpha), n), "<", Append(With(Beta), k))
           /\ dewey_cmp(Append(With(Beta), n), "<", Append(With(RC), k))
           /\ dewey_cmp(Append(With(RC), n), "<", s)
           /\ n.n > 0 => /\ dewey_cmp(s, "<", Append(With(Dot), n))
                         /\ cmp(mkversion(Append(With(Dot), n)),
                                mkversion(Append(s, [kind |-> "letter", n |-> n.n]))) = 0
=============================================================================
