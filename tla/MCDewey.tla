------------------------------ MODULE MCDewey ------------------------------
(***************************************************************************)
(* Packages g-1, g-1.0, g-1.0alpha28, g-1.0rc1, g-1.0nb3, g-1.28, g-1a and *)
(* h-1.0, with six bits to an int.                                         *)
(***************************************************************************)
EXTENDS Dewey

CONSTANTS g1, g10, galpha, grc, gnb, g128, g1a, h10

Digits(x) == [kind |-> "digits", n |-> x]
Modifier(x) == [kind |-> "modifier", n |-> x]
Letter(x) == [kind |-> "letter", n |-> x]
Nb(x) == [kind |-> "nb", n |-> x]
Is(o) == [kind |-> o, n |-> 0]

V1 == <<Digits(1)>>
V10 == <<Digits(1), Modifier(Dot), Digits(0)>>

MCVersion ==
    (g1 :> V1) @@ (g10 :> V10) @@ (h10 :> V10)
    @@ (galpha :> V10 \o <<Modifier(Alpha), Digits(28)>>)
    @@ (grc :> V10 \o <<Modifier(RC), Digits(1)>>)
    @@ (gnb :> V10 \o <<Nb(3)>>)
    @@ (g128 :> V1 \o <<Modifier(Dot), Digits(28)>>)
    @@ (g1a :> V1 \o <<Letter(1)>>)

MCName == [p \in Pkg |-> IF p = h10 THEN "h" ELSE "g"]

\* The order of strcmp: digits precede letters, a prefix precedes the whole.
MCStrOrder ==
    (g1 :> 1) @@ (g10 :> 2) @@ (galpha :> 3) @@ (gnb :> 4) @@ (grc :> 5)
    @@ (g128 :> 6) @@ (g1a :> 7) @@ (h10 :> 8)

Alt(x, t) == [name |-> x, text |-> t]

\* g, {g,h}, g>=1.0, g>1.0alpha<1.0nb2, g<1a, {g<=1.0,h>=1}, g<1a>1.0
MCPatterns ==
    {{Alt("g", <<>>)},
     {Alt("g", <<>>), Alt("h", <<>>)},
     {Alt("g", <<Is(">=")>> \o V10)},
     {Alt("g", <<Is(">")>> \o V10 \o <<Modifier(Alpha), Is("<")>> \o V10 \o <<Nb(2)>>)},
     {Alt("g", <<Is("<")>> \o V1 \o <<Letter(1)>>)},
     {Alt("g", <<Is("<=")>> \o V10), Alt("h", <<Is(">=")>> \o V1)},
     {Alt("g", <<Is("<")>> \o V1 \o <<Letter(1), Is(">")>> \o V10)}}
=============================================================================
