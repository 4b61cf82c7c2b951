------------------------------- MODULE PkgDB -------------------------------
(***************************************************************************)
(* The installed-package database that pkg_add, pkg_delete and pkg_admin   *)
(* share: one directory per package under PKG_DBDIR, holding its +CONTENTS *)
(* and, when present, +REQUIRED_BY, +PRESERVE and +INSTALLED_INFO, and the *)
(* file index pkgdb.byfile.db that names the package owning a file.        *)
(*                                                                         *)
(* Package names, files and dependency patterns are opaque values.  Which  *)
(* packages a pattern matches (pkg_match) is the constant Match.           *)
(* +REQUIRED_BY is a set of names: every reader scans the whole file, so   *)
(* the order and the multiplicity of its lines are never observed, except  *)
(* for the order in which pkg_delete -r meets them, which is left open.    *)
(***************************************************************************)
EXTENDS Naturals, Sequences, FiniteSets

CONSTANTS
    Pkg,        \* package names, version included
    Pattern,    \* dependency patterns and basenames
    File,       \* installed paths
    NoPkg,      \* pkgdb_retrieve's NULL
    Match,      \* Match[pt]: the packages pkg_match accepts for pt
    Deps,       \* Deps[p]: the @pkgdep patterns of p's packing list
    Contents    \* Contents[p]: the files of p's packing list

ASSUME PkgFinite == IsFiniteSet(Pkg)
ASSUME NoPkgAssumption == NoPkg \notin Pkg
ASSUME MatchAssumption == Match \in [Pattern -> SUBSET Pkg]
ASSUME DepsAssumption == Deps \in [Pkg -> SUBSET Pattern]
ASSUME ContentsAssumption == Contents \in [Pkg -> SUBSET File]

VARIABLES
    entries,    \* packages with a directory in PKG_DBDIR (what readdir shows)
    contents,   \* packages whose directory holds a +CONTENTS
    reqby,      \* reqby[p]: the lines of p's +REQUIRED_BY, {} if it is missing
    preserved,  \* packages whose directory holds a +PRESERVE
    automatic,  \* packages whose +INSTALLED_INFO says automatic=YES
    disk,       \* files present in the file system
    owner       \* pkgdb.byfile.db: file -> owning package

dbVars == <<entries, contents, reqby, preserved, automatic, disk, owner>>

DBTypeOK ==
    /\ entries \subseteq Pkg
    /\ contents \subseteq entries
    /\ reqby \in [Pkg -> SUBSET Pkg]
    /\ preserved \subseteq entries
    /\ automatic \subseteq entries
    /\ disk \subseteq File
    /\ owner \in [File -> Pkg \cup {NoPkg}]

-----------------------------------------------------------------------------
\* Every dependency pattern of q is registered: some installed package that
\* the pattern matches lists q in its +REQUIRED_BY.
Registered(q) ==
    \A pt \in Deps[q] : \E d \in Match[pt] \cap contents : q \in reqby[d]

(***************************************************************************)
(* The databases an invocation may find: whatever unforced installations   *)
(* leave behind.  +REQUIRED_BY lists may also hold lines no pattern        *)
(* accounts for (a dependency replaced with pkg_add -D), lines of packages *)
(* that are gone, and cycles (pkg_add -f, then pkg_admin rebuild-tree).    *)
(***************************************************************************)
DBInit ==
    /\ contents \in SUBSET Pkg
    /\ entries = contents
    /\ reqby \in [Pkg -> SUBSET Pkg]
    /\ \A p \in Pkg \ contents : reqby[p] = {}
    /\ \A q \in contents : Registered(q)
    /\ preserved \in SUBSET contents
    /\ automatic \in SUBSET contents
    /\ disk = UNION {Contents[p] : p \in contents}
    /\ owner \in [File -> Pkg \cup {NoPkg}]
    /\ \A f \in File : IF f \in disk
                       THEN owner[f] \in contents /\ f \in Contents[owner[f]]
                       ELSE owner[f] = NoPkg

\* Mutant: pkgdb_cleanup is skipped for a file that was kept.
WithoutDeletedKeys(S) ==
    [f \in File |-> IF f \in S \ disk THEN NoPkg ELSE owner[f]]

\* Mutant: delete_package returns without closing the index.
WithoutNoKeys(S) == IF S = {} THEN owner ELSE [f \in File |-> owner[f]]

\* pkgdb_remove of every file in S: the key goes, whoever the value names.
WithoutKeys(S) == [f \in File |-> IF f \in S THEN NoPkg ELSE owner[f]]

\* pkgdb_remove_pkg(p): the entries whose value is p go.
WithoutPkg(p) == [f \in File |-> IF owner[f] = p THEN NoPkg ELSE owner[f]]
=============================================================================
