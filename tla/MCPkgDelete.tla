---------------------------- MODULE MCPkgDelete ----------------------------
(***************************************************************************)
(* Small instances of PkgDelete.                                           *)
(***************************************************************************)
EXTENDS PkgDelete, TLC

CONSTANTS a, b, c, fa, fb, fc, pa, pb, pab

With(r) ==
    [k \in DOMAIN NoOptions |-> IF k \in DOMAIN r THEN r[k] ELSE NoOptions[k]]

-----------------------------------------------------------------------------
(* Sorting and leaves: any +REQUIRED_BY relation on three packages, with    *)
(* self-loops, cycles and lines of missing packages.  The runs use -n, so   *)
(* that nothing but the choice of the packages is explored.                 *)

NoMatch == [pt \in Pattern |-> {}]
NoDeps == [p \in Pkg |-> {}]
NoContents == [p \in Pkg |-> {}]

SortOptions ==
    {With([fake |-> TRUE, force |-> n, recursive |-> r, new_leaves |-> l,
           automatic_leaves |-> m]) : n \in 0..1, r, l, m \in BOOLEAN}
SortRequests == {<<a>>, <<a, b, a>>}
SortInit ==
    /\ Init
    /\ contents \in {Pkg, Pkg \ {c}}
    /\ preserved \subseteq {c}
    /\ automatic = contents \ {a}
SortSpec == SortInit /\ [][Next]_vars /\ WF_vars(Step)

-----------------------------------------------------------------------------
(* Removal: c needs b, and a or b; b needs a.  Every database that registers*)
(* these dependencies, two invocations, failures and kills between any two  *)
(* steps; the second may follow a forced one.                               *)

ABCMatch == (pa :> {a}) @@ (pb :> {b}) @@ (pab :> {a, b})
ABCDeps == (a :> {}) @@ (b :> {pa}) @@ (c :> {pb, pab})
ABCContents == (a :> {fa}) @@ (b :> {fb}) @@ (c :> {fc})

CarefulOptions ==
    {NoOptions, With([recursive |-> TRUE]), With([automatic_leaves |-> TRUE]),
     With([by_filename |-> TRUE, no_deinstall |-> TRUE]),
     With([pkgdb_update_only |-> TRUE, fake |-> TRUE])}

\* -O, -N, -k and the levels of -f.
FormOptions ==
    {With([force |-> 1, unregister_only |-> TRUE]), With([force |-> 1]),
     With([force |-> 2]),
     With([force |-> 1, recursive |-> TRUE, keep_preserve |-> TRUE]),
     With([pkgdb_update_only |-> TRUE, force |-> 1, recursive |-> TRUE])}

RemoveOptions == CarefulOptions \cup FormOptions
RemoveRequests == {<<c>>, <<pab>>, <<fa>>}
ShapedInit ==
    /\ Init
    /\ \A d \in Pkg : reqby[d] \subseteq {q \in contents : \E pt \in Deps[q] : d \in Match[pt]}
RemoveInit ==
    /\ ShapedInit
    /\ contents \in {Pkg, {a, b}} /\ preserved \in {{}, {b}} /\ automatic = {a, b}
RemoveSpec == RemoveInit /\ [][Next]_vars /\ WF_vars(Step)
=============================================================================
