------------------------------ MODULE MCPkgAdd ------------------------------
(***************************************************************************)
(* Small instances of PkgAdd.                                              *)
(***************************************************************************)
EXTENDS PkgAdd, TLC

CONSTANTS a, b, c, d1, d2, d3, t1, t2, tb, fa, fb, fd, fe, pa, pb, pc, pd, pd2

With(r) ==
    [k \in DOMAIN NoOptions |-> IF k \in DOMAIN r THEN r[k] ELSE NoOptions[k]]

\* Databases in which exactly the dependencies are registered.
RegisteredInit(S) ==
    /\ contents \in S
    /\ reqby = [p \in Pkg |->
                  IF p \notin contents THEN {}
                  ELSE {q \in contents : \E pt \in Deps[q] : p \in Match[pt]}]
    /\ entries = contents
    /\ disk = UNION {Contents[p] : p \in contents}
    /\ owner = [f \in File |-> IF f \in disk
                               THEN CHOOSE p \in contents : f \in Contents[p]
                               ELSE NoPkg]
    /\ automatic = contents \ {a, b}
    /\ Init

-----------------------------------------------------------------------------
(* One universe: a needs d and b; b needs a recent d, d2 or d3; c conflicts *)
(* with b and shares files with a and d; t1, t2 and tb are the temporary    *)
(* directories of d1, d2 and b.  Only some instances have d3.               *)

Recent == {d2, d3, t2} \cap Pkg

UMatch == (pa :> {a}) @@ (pb :> {b, tb}) @@ (pc :> {c})
            @@ (pd :> {d1, t1} \cup Recent) @@ (pd2 :> Recent)
UBase == [p \in Pkg |-> IF p = a THEN pa ELSE IF p \in {b, tb} THEN pb
                        ELSE IF p = c THEN pc ELSE pd]
UDeps == [p \in Pkg |-> IF p = a THEN {pd, pb}
                        ELSE IF p \in {b, tb} THEN {pd2} ELSE {}]
UContents == [p \in Pkg |-> IF p = a THEN {fa} ELSE IF p = c THEN {fa, fd}
                            ELSE IF p \in {b, tb} THEN {fb}
                            ELSE IF p = d3 THEN {fe} ELSE {fd}]
URank == [p \in Pkg |-> IF p \in {t1, tb} THEN 1 ELSE IF p = d2 THEN 2
                        ELSE IF p = t2 THEN 3 ELSE IF p = d3 THEN 4 ELSE 0]
UConflicts == [p \in Pkg |-> IF p = c THEN {pb} ELSE {}]
UTemp == [p \in Pkg |-> IF p = d1 THEN t1 ELSE IF p = d2 THEN t2
                        ELSE IF p = b THEN tb ELSE p]

\* Plain installations, with every failure that happens before an installation
\* is complete, and updates, with kills only.  Updates of a are left out, which
\* needs any d and, through b, a recent one: the d that check_dependencies has
\* found is replaced before a is registered with it.
PlainOptions == {With([automatic |-> x]) : x \in BOOLEAN}
UpdateOptions == {With([replace |-> TRUE]),
                  With([replace |-> TRUE, replace_same |-> TRUE])}
InstallOptions == PlainOptions \cup UpdateOptions
InstallFaults == [o \in InstallOptions |->
                    IF o.replace THEN {} ELSE {"archive", "meta", "pre", "extract"}]
InstallRequests == [o \in InstallOptions |->
    IF o.replace THEN {<<b>>, <<d1>>, <<d2>>, <<d3>>, <<b, d2>>}
    ELSE {<<a>>, <<c, a>>, <<b>>, <<d1>>, <<pd>>}]

\* Layers of this universe, for the theorem about OwnersRegistered.
ULevel == [p \in Pkg |-> IF p = a THEN 2 ELSE IF p \in {b, tb} THEN 1 ELSE 0]
ASSUME LayersAssumption == Options = InstallOptions => Layered(ULevel)

\* What may be installed for a package, for those about FilesDisjoint and
\* OneVersion, and about DependenciesRegistered for the plain installations.
UUnder == [p \in Pkg |-> IF p = a THEN {b, d1, t1, tb} \cup Recent
                         ELSE IF p \in {b, tb} THEN Recent ELSE {}]
ASSUME UnderAssumption ==
    Options = InstallOptions =>
        Apart(UUnder) /\ Versioned(UUnder) /\ Acyclic(UUnder) /\ Unforced(PlainOptions)

InstallInit == RegisteredInit({{}, {d1}, {d2}, {b, d2}, {c}, {a, b, d2}})
                 /\ preserved \subseteq {d1}
InstallSpec == InstallInit /\ [][Next]_vars /\ WF_vars(Step)

-----------------------------------------------------------------------------
(* An instance in which the program departs from its manual: pkg_add -u d1  *)
(* after a killed pkg_add d1.                                               *)

RetryOptions == {NoOptions, With([replace |-> TRUE])}
RetryRequests == [o \in RetryOptions |-> {<<d1>>}]
RetryFaults == [o \in RetryOptions |-> {}]
=============================================================================
