------------------------------ MODULE MCBmake ------------------------------
(***************************************************************************)
(* Small instances of Bmake: makes that run makes, and a single make with   *)
(* the shapes of dependency lines, .WAIT and .ORDER.                        *)
(***************************************************************************)
EXTENDS Bmake, TLC

CONSTANTS m0, m1, m2, R, S, T, w, x, y, z, p, q, u, v, none

MMakeOf == [n \in Node |-> IF n \in {S, p, q} THEN m1 ELSE IF n \in {T, u, v} THEN m2 ELSE m0]
MMain == (m0 :> R) @@ (m1 :> S) @@ (m2 :> T)
MKeep == {{}, Make}

Empty == [n \in Node |-> <<>>]
Unordered == [n \in Node |-> {}]
Alone == [n \in Node |-> none]

\* The root runs two makes, or one that runs the other.
Family ==
    {[children |-> (R :> <<x, y>>) @@ (S :> <<p, q>>) @@ (T :> <<u, v>>) @@ Empty,
      order |-> Unordered,
      sub |-> s @@ Alone] : s \in {(x :> m1) @@ (y :> m2), (x :> m1) @@ (p :> m2)}}

\* All lines over D, without a .WAIT and with one.
Lines(D) == UNION {SetToSeqs(E) : E \in SUBSET D}
Split(D) == {s \in UNION {SetToSeqs(E \cup {w}) : E \in (SUBSET D) \ {{}}} : Head(s) # w}

\* The .WAIT is on the line of the target, or on that of z; y and z may have to
\* wait for others.
Shapes ==
    UNION {{[children |-> (R :> top) @@ (y :> c) @@ (z :> d) @@ Empty,
             order |-> (y :> a) @@ (z :> b) @@ Unordered,
             sub |-> Alone] :
               top \in tops, c \in {<<>>, <<x>>}, d \in subs,
               a \in SUBSET {x}, b \in SUBSET {x, y}} :
           <<tops, subs>> \in {<<Split({x, y, z}), Lines({x, y})>>,
                              <<Lines({x, y, z}), Split({x, y})>>}}

\* A target that is named twice.
Twice == {[children |-> (R :> <<y, x, y>>) @@ (y :> <<x, x>>) @@ Empty,
           order |-> Unordered, sub |-> Alone]}

MGraphs ==
    Family \cup Twice \cup
    {g \in Shapes : /\ {y, z} \subseteq Remade(g.children)
                    /\ \A n \in {y, z} : g.order[n] \cap ToSet(g.children[n]) = {}}
MForms == [n \in Node |-> CASE n \in {R, S, T, w} -> {"empty"}
                              [] n \in {x, z} -> {"commands"}
                              [] n = y -> {"uptodate", "commands"}
                              [] OTHER -> {"commands", "unknown"}]

-----------------------------------------------------------------------------
(* A target q that needs p and, by .ORDER, y.                              *)

OneMakeOf == [n \in Node |-> m0]
OneMain == m0 :> R
WaitGraphs == {[children |-> (R :> <<y, p, q>>) @@ (p :> <<x, w, z>>) @@ (q :> <<p>>) @@ Empty,
                order |-> (q :> {y}) @@ Unordered, sub |-> Alone]}
=============================================================================
