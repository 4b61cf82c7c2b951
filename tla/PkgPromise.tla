----------------------------- MODULE PkgPromise -----------------------------
(***************************************************************************)
(* What the package tools promise to somebody who uses the packages: one   *)
(* that works finds a match for each of its dependencies among the         *)
(* installed ones, at every moment, until the user overrides the tools.    *)
(* pkg_delete and pkg_add are shown to implement this specification.       *)
(***************************************************************************)
CONSTANTS Pkg, Pattern, Match, Deps     \* as in PkgDB

VARIABLES
    installed,  \* packages that are recorded
    working,    \* recorded packages that are complete
    trusted     \* the tools have not been overridden (-f, -k)

vars == <<installed, working, trusted>>

\* A match for each dependency of q is in S.
Fulfilled(q, S) == \A pt \in Deps[q] : Match[pt] \cap S # {}

\* The step keeps the promise to the packages that work after it.
Kept == trusted => \A q \in working' : Fulfilled(q, installed')

Init ==
    /\ installed \subseteq Pkg /\ working \subseteq installed
    /\ trusted = TRUE
    /\ \A q \in working : Fulfilled(q, installed)

\* A package is recorded; it does not work yet.
Record(p) ==
    /\ installed' = installed \cup {p}
    /\ UNCHANGED <<working, trusted>>

\* A recorded package begins to work.
Complete(p) ==
    /\ p \in installed
    /\ trusted => Fulfilled(p, installed)
    /\ working' = working \cup {p}
    /\ UNCHANGED <<installed, trusted>>

\* Packages lose their files or their registration.
Break ==
    /\ working' \subseteq working
    /\ UNCHANGED <<installed, trusted>>

\* The record of a package goes.
Forget(p) ==
    /\ installed' = installed \ {p} /\ working' = working \ {p}
    /\ Kept
    /\ UNCHANGED trusted

\* A package gets another name in the same step.
Rename(t, p) ==
    /\ installed' = (installed \ {t}) \cup {p}
    /\ Kept
    /\ UNCHANGED <<working, trusted>>

\* The user overrides the tools.
Override == trusted' = FALSE /\ UNCHANGED <<installed, working>>

Next ==
    \/ \E p \in Pkg : Record(p) \/ Complete(p) \/ Forget(p)
    \/ \E t, p \in Pkg : Rename(t, p)
    \/ Break \/ Override

Spec == Init /\ [][Next]_vars
=============================================================================
