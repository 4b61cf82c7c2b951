----------------------------- MODULE PkgDelete -----------------------------
(***************************************************************************)
(* pkg_delete(1): expand the arguments into a list of packages, sort it so *)
(* that a package precedes what it needs (pulling in depending packages    *)
(* with -r), add new leaves (-R, -A), check for preserved packages, then   *)
(* remove the packages one after the other.                                *)
(*                                                                         *)
(* The list pkgs of the program is kept \o todo, cut at the cursor of the  *)
(* TAILQ_FOREACH_SAFE loop that is running.  One behaviour is a sequence   *)
(* of at most MaxRuns invocations on the same database; an invocation may  *)
(* be killed between any two of its steps.                                 *)
(***************************************************************************)
EXTENDS PkgDB

CONSTANTS
    Dirs,       \* files of packing lists in whose place a directory may stand
    Saved,      \* files of which an @option preserve copy may be waiting
    Options,    \* the option combinations an invocation may be given
    Requests,   \* the argument lists an invocation may be given
    MaxRuns,    \* bound on the number of invocations
    IoErrors,   \* whether file system operations may fail
    Crashes     \* whether an invocation may be killed

OptionSpace ==
    [force : Nat, recursive : BOOLEAN, new_leaves : BOOLEAN,
     automatic_leaves : BOOLEAN, keep_preserve : BOOLEAN,
     unregister_only : BOOLEAN, no_deinstall : BOOLEAN, fake : BOOLEAN,
     pkgdb_update_only : BOOLEAN, by_filename : BOOLEAN]

\* The static variables of pkg_delete.c before getopt.
NoOptions ==
    [force |-> 0, recursive |-> FALSE, new_leaves |-> FALSE,
     automatic_leaves |-> FALSE, keep_preserve |-> FALSE,
     unregister_only |-> FALSE, no_deinstall |-> FALSE, fake |-> FALSE,
     pkgdb_update_only |-> FALSE, by_filename |-> FALSE]

ASSUME PlacesAssumption == Dirs \subseteq File /\ Saved \subseteq File
ASSUME OptionsAssumption == Options \subseteq OptionSpace
ASSUME RequestsAssumption == Requests \subseteq Seq(Pkg \cup Pattern \cup File)
ASSUME BoundsAssumption ==
    MaxRuns \in Nat /\ IoErrors \in BOOLEAN /\ Crashes \in BOOLEAN

VARIABLES
    pc,         \* where the invocation is; "idle" between invocations
    opt,        \* its options
    args,       \* arguments not yet expanded
    has_error,  \* an argument matched nothing
    kept, todo, \* the list pkgs, before and from the cursor on
    sorted,     \* the list sorted_pkgs
    old,        \* length of sorted_pkgs and head of pkgs at the last round start
    visit,      \* packages find_new_leaves has not visited in this pass
    progress,   \* this pass added a leaf
    cur,        \* the package remove_pkg is working on
    files,      \* its files delete_package has not handled yet
    keys,       \* its pkgdb_remove calls that have not reached the disk
    deps,       \* dependencies whose +REQUIRED_BY remove_depend has to edit
    late,       \* late_error: its POST-DEINSTALL script failed
    bad,        \* bad_count > 0
    request,    \* history: the packages asked for, once expanded
    careful,    \* history: no invocation was forced or given -k
    runs        \* invocations so far

cmdVars == <<opt, args, has_error, request, careful, runs>>
listVars == <<kept, todo, old>>
leafVars == <<visit, progress>>
pkgVars == <<cur, files, keys, deps, late>>
vars == <<dbVars, pc, cmdVars, listVars, sorted, leafVars, pkgVars, bad>>

Rng(s) == {s[i] : i \in 1..Len(s)}
pkgs == kept \o todo

\* The lists that hold every element of S once.
Orders(S) == {s \in [1..Cardinality(S) -> S] :
                 \A i, j \in 1..Cardinality(S) : s[i] = s[j] => i = j}

-----------------------------------------------------------------------------
(* Command line.                                                           *)

\* getopt and the start of main().
Invoke(o, a) ==
    /\ pc = "idle" /\ runs < MaxRuns
    /\ pc' = "gather"
    /\ opt' = o /\ args' = a
    /\ has_error' = FALSE /\ bad' = FALSE
    /\ kept' = <<>> /\ todo' = <<>> /\ sorted' = <<>>
    /\ request' = {}
    /\ careful' = (careful /\ o.force = 0 /\ ~o.keep_preserve)
    /\ runs' = runs + 1
    /\ UNCHANGED <<dbVars, leafVars, pkgVars, old>>

\* The packages one argument stands for: the recorded owner of a file (-F),
\* the packages a pattern or basename matches, or a package that has a
\* +CONTENTS.
Expand(a) ==
    IF opt.by_filename THEN {owner[f] : f \in {a} \cap File} \ {NoPkg}
    ELSE IF a \in Pattern THEN Match[a] \cap entries
    ELSE {a} \cap contents

\* add_by_filename, add_by_pattern, add_by_pkgname for the next argument.
GatherArg ==
    /\ pc = "gather" /\ args # <<>>
    /\ args' = Tail(args)
    /\ LET found == Expand(Head(args)) IN
       \/ /\ found # {}
          /\ \E s \in Orders(found) : todo' = todo \o s
          /\ UNCHANGED has_error
       \/ /\ found = {} \/ IoErrors
          /\ has_error' = TRUE
          /\ UNCHANGED todo
    /\ UNCHANGED <<dbVars, leafVars, pkgVars, pc, opt, kept, sorted, old, bad,
                   request, careful, runs>>

Exit == pc' = "idle"

\* All arguments are known; a bad one ends the run unless -f is given.
GatherDone ==
    /\ pc = "gather" /\ args = <<>>
    /\ IF has_error /\ opt.force = 0 THEN Exit ELSE pc' = "dedup"
    /\ request' = Rng(todo)
    /\ UNCHANGED <<dbVars, listVars, leafVars, pkgVars, opt, args, has_error,
                   sorted, bad, careful, runs>>

-----------------------------------------------------------------------------
(* sort_and_recurse.                                                       *)

\* First loop: drop a name that occurs elsewhere in the list.
Dedup ==
    /\ pc = "dedup" /\ todo # <<>>
    /\ todo' = Tail(todo)
    /\ kept' = IF Head(todo) \in Rng(kept) \cup Rng(Tail(todo))
               THEN kept ELSE Append(kept, Head(todo))
    /\ UNCHANGED <<dbVars, cmdVars, leafVars, pkgVars, pc, sorted, old, bad>>

\* Start of a round of the while loop; the list is scanned from its head.
\* Names occur once in pkgs and sorted_pkgs together, so comparing the length
\* and the head name stands for comparing the two list pointers.
StartRound(l) ==
    /\ kept' = <<>> /\ todo' = l
    /\ IF l = <<>> THEN pc' = "sorted" /\ UNCHANGED old
       ELSE /\ pc' = "scan"
            /\ old' = [n |-> Len(sorted), head |-> Head(l)]

DedupDone ==
    /\ pc = "dedup" /\ todo = <<>>
    /\ StartRound(kept)
    /\ UNCHANGED <<dbVars, cmdVars, leafVars, pkgVars, sorted, bad>>

\* Mutant: a depending package that waits on pkgs is not a miss.
MissingUnlessWaiting(p) == reqby[p] \ (Rng(sorted) \cup Rng(pkgs))

\* process_required_by(p, pkgs, sorted_pkgs, 0 or 1): the depending packages
\* in neither list are prepended to pkgs with -r, in the order of the lines.
Missing(p) == reqby[p] \ Rng(sorted)
NewlyRequired(p) ==
    IF opt.recursive THEN Missing(p) \ Rng(pkgs) ELSE {}

ScanMove ==
    /\ pc = "scan" /\ todo # <<>>
    /\ Missing(Head(todo)) = {}
    /\ sorted' = Append(sorted, Head(todo))
    /\ todo' = Tail(todo)
    /\ UNCHANGED <<dbVars, cmdVars, leafVars, pkgVars, pc, kept, old, bad>>

ScanKeep ==
    /\ pc = "scan" /\ todo # <<>>
    /\ Missing(Head(todo)) # {}
    /\ \E s \in Orders(NewlyRequired(Head(todo))) :
          kept' = Append(s \o kept, Head(todo))
    /\ todo' = Tail(todo)
    /\ UNCHANGED <<dbVars, cmdVars, leafVars, pkgVars, pc, sorted, old, bad>>

\* +REQUIRED_BY exists but cannot be opened: process_required_by returns -1.
ScanUnreadable ==
    /\ pc = "scan" /\ todo # <<>> /\ IoErrors
    /\ reqby[Head(todo)] # {}
    /\ kept' = Append(kept, Head(todo))
    /\ todo' = Tail(todo)
    /\ UNCHANGED <<dbVars, cmdVars, leafVars, pkgVars, pc, sorted, old, bad>>

\* Mutant: only the tail of sorted_pkgs is compared.
TailUnchanged == kept # <<>> /\ old.n = Len(sorted)

\* Mutant: the loop runs until pkgs is empty.
PkgsEmpty == kept # kept

\* End of a round: go on while the tail of sorted_pkgs or the head of pkgs
\* has changed and packages are left.
NoProgress == kept # <<>> /\ old = [n |-> Len(sorted), head |-> Head(kept)]

RoundDone ==
    /\ pc = "scan" /\ todo = <<>>
    /\ \/ /\ NoProgress
          /\ pc' = "sorted"
          /\ kept' = <<>> /\ todo' = kept
          /\ UNCHANGED old
       \/ /\ ~NoProgress
          /\ StartRound(kept)
    /\ UNCHANGED <<dbVars, cmdVars, leafVars, pkgVars, sorted, bad>>

\* End of the sort.  Packages left over are still required: an error, or with
\* -f they go to the end of the list as they are.  Then find_new_leaves.
SortDone ==
    /\ pc = "sorted"
    /\ todo' = <<>>
    /\ sorted' = IF opt.force > 0 THEN sorted \o todo ELSE sorted
    /\ IF todo # <<>> /\ opt.force = 0 THEN Exit
       ELSE IF opt.new_leaves \/ opt.automatic_leaves THEN pc' = "leaves"
       ELSE pc' = "check"
    /\ visit' = entries
    /\ progress' = FALSE
    /\ UNCHANGED <<dbVars, cmdVars, pkgVars, kept, old, bad>>

-----------------------------------------------------------------------------
(* find_new_leaves.                                                        *)

\* The packages find_new_leaves_iter considers at all.
LeafCandidate(p) ==
    /\ p \notin preserved
    /\ opt.automatic_leaves /\ ~opt.new_leaves => p \in automatic

\* Mutant: got_miss is consulted instead of got_match.
RequiredByNoOther(p, l) == reqby[p] \subseteq l

\* process_required_by(p, NULL, l, 3) == 1: p is required by packages of the
\* list only, and by at least one.
RequiredOnlyBy(p, l) == reqby[p] # {} /\ reqby[p] \subseteq l

\* find_new_leaves_iter for the next entry of the directory, in any order.
VisitLeaf(p) ==
    /\ pc = "leaves" /\ p \in visit
    /\ visit' = visit \ {p}
    /\ \/ /\ LeafCandidate(p)
          /\ p \notin Rng(sorted)
          /\ RequiredOnlyBy(p, Rng(sorted))
          /\ sorted' = Append(sorted, p)
          /\ progress' = TRUE
       \/ /\ \/ ~LeafCandidate(p)
             \/ p \in Rng(sorted)
             \/ ~RequiredOnlyBy(p, Rng(sorted))
             \/ IoErrors
          /\ UNCHANGED <<sorted, progress>>
    /\ UNCHANGED <<dbVars, cmdVars, listVars, pkgVars, pc, bad>>

LeafPassDone ==
    /\ pc = "leaves" /\ visit = {}
    /\ IF progress THEN visit' = entries /\ UNCHANGED pc
                   ELSE pc' = "check" /\ UNCHANGED visit
    /\ progress' = FALSE
    /\ UNCHANGED <<dbVars, cmdVars, listVars, pkgVars, sorted, bad>>

-----------------------------------------------------------------------------
(* find_preserve_pkgs.                                                     *)

\* Mutant: one -f is enough.
Forced == opt.force > 0

MayDeletePreserved ==
    ~(opt.force = 0 \/ (~opt.unregister_only /\ opt.force = 1))

\* The list s without the members of S, in the same order.
Without(s, S) ==
    {[i \in DOMAIN g |-> s[g[i]]] :
        g \in {h \in Orders({i \in 1..Len(s) : s[i] \notin S}) :
                  \A i, j \in DOMAIN h : i < j => h[i] < h[j]}}

\* With -k the preserved packages leave the list, otherwise one of them ends
\* the run unless -f is given often enough.
CheckPreserve ==
    /\ pc = "check"
    /\ IF opt.keep_preserve
       THEN /\ sorted' \in Without(sorted, preserved)
            /\ pc' = "remove"
       ELSE /\ IF Rng(sorted) \cap preserved = {} \/ MayDeletePreserved
               THEN pc' = "remove" ELSE Exit
            /\ UNCHANGED sorted
    /\ UNCHANGED <<dbVars, cmdVars, listVars, leafVars, pkgVars, bad>>

-----------------------------------------------------------------------------
(* remove_pkg, for the packages of the list in order.                      *)

\* Mutant: the loop goes on after a failure.
GoOn(ok) == bad' = (bad \/ ~ok) /\ pc' = "remove"

\* remove_pkg returned; without -f the first failure ends the loop.
Returned(ok) ==
    /\ bad' = (bad \/ ~ok)
    /\ pc' = IF ok \/ opt.force > 0 THEN "remove" ELSE "idle"

RemoveNext ==
    /\ pc = "remove" /\ sorted # <<>> /\ ~opt.pkgdb_update_only
    /\ cur' = Head(sorted) /\ sorted' = Tail(sorted)
    /\ \/ /\ Head(sorted) \in contents
          /\ pc' = "deinstall"
          /\ UNCHANGED bad
       \/ /\ Head(sorted) \notin contents \/ IoErrors
          /\ Returned(FALSE)
    /\ UNCHANGED <<dbVars, cmdVars, listVars, leafVars, files, keys, deps, late>>

\* -O: only the file index is edited; with -n it is open read-only.
RemoveFromIndex ==
    /\ pc = "remove" /\ sorted # <<>> /\ opt.pkgdb_update_only
    /\ cur' = Head(sorted) /\ sorted' = Tail(sorted)
    /\ IF opt.fake
       THEN /\ Returned(\A f \in File : owner[f] # Head(sorted))
            /\ UNCHANGED owner
       ELSE /\ Returned(TRUE)
            /\ owner' = WithoutPkg(Head(sorted))
    /\ UNCHANGED <<cmdVars, listVars, leafVars, entries, contents, reqby,
                   preserved, automatic, disk, files, keys, deps, late>>

\* The loop is over; its exit status is bad.
RemoveDone ==
    /\ pc = "remove" /\ sorted = <<>>
    /\ Exit
    /\ UNCHANGED <<dbVars, cmdVars, listVars, leafVars, pkgVars, sorted, bad>>

\* The +DEINSTALL script may fail; -D and -N skip it and -n only prints.
ScriptRuns == ~opt.no_deinstall /\ ~opt.unregister_only /\ ~opt.fake

RunDeinstall ==
    /\ pc = "deinstall"
    /\ \/ /\ pc' = "files"
          /\ files' = IF opt.fake THEN {} ELSE Contents[cur]
          /\ keys' = {}
          /\ UNCHANGED bad
       \/ /\ ScriptRuns /\ opt.force = 0
          /\ Returned(FALSE)
          /\ UNCHANGED <<files, keys>>
    /\ UNCHANGED <<dbVars, cmdVars, listVars, leafVars, sorted, cur, deps,
                   late>>

\* delete_package, one file: unlinked, or kept because of -N, a checksum
\* mismatch without -f, or a failing remove().  The key goes in all of these;
\* it stays, and delete_package still succeeds, when a directory is in the
\* place of the file, or the copy that pkg_add saved has been renamed back.
DeleteFile(f) ==
    /\ pc = "files" /\ f \in files
    /\ files' = files \ {f}
    /\ \/ ~opt.unregister_only /\ disk' = disk \ {f} /\ keys' = keys \cup {f}
       \/ /\ opt.unregister_only \/ opt.force = 0 \/ IoErrors
          /\ keys' = keys \cup {f} /\ UNCHANGED disk
       \/ f \in Dirs /\ UNCHANGED <<disk, keys>>
       \/ /\ f \in Saved /\ ~opt.unregister_only
          /\ disk' = disk \cup {f} /\ UNCHANGED keys
    /\ UNCHANGED <<cmdVars, listVars, leafVars, entries, contents, reqby,
                   preserved, automatic, owner, pc, sorted, cur, deps, late,
                   bad>>

\* delete_package closes the index: its pkgdb_remove calls reach the disk.
\* Then the packages the @pkgdep patterns match are looked up.
FilesDone ==
    /\ pc = "files" /\ files = {}
    /\ owner' = IF opt.fake THEN owner ELSE WithoutKeys(keys)
    /\ deps' = IF opt.fake THEN {}
               ELSE entries \cap UNION {Match[pt] : pt \in Deps[cur]}
    /\ keys' = {}
    /\ pc' = "deps"
    /\ UNCHANGED <<cmdVars, listVars, leafVars, entries, contents, reqby,
                   preserved, automatic, disk, sorted, cur, files, late, bad>>

\* remove_depend: drop cur from the +REQUIRED_BY of one matched package.  A
\* failing remove_line leaves the file as it was.
RemoveDepend(d) ==
    /\ pc = "deps" /\ d \in deps
    /\ deps' = deps \ {d}
    /\ \/ reqby' = [reqby EXCEPT ![d] = @ \ {cur}]
       \/ IoErrors /\ UNCHANGED reqby
    /\ UNCHANGED <<cmdVars, listVars, leafVars, entries, contents, preserved,
                   automatic, disk, owner, pc, sorted, cur, files, keys, late,
                   bad>>

\* POST-DEINSTALL; its failure only counts (late_error).  -n ends here.
DepsDone ==
    /\ pc = "deps" /\ deps = {}
    /\ late' \in {FALSE, ScriptRuns}
    /\ pc' = IF opt.fake THEN "remove" ELSE "unlink"
    /\ UNCHANGED <<dbVars, cmdVars, listVars, leafVars, sorted, cur, files,
                   keys, deps, bad>>

\* remove_files(pkgdir, "+*"): glob order is unspecified.
UnlinkMeta ==
    /\ pc = "unlink"
    /\ \/ /\ cur \in contents
          /\ contents' = contents \ {cur}
          /\ UNCHANGED <<reqby, preserved, automatic>>
       \/ /\ reqby[cur] # {}
          /\ reqby' = [reqby EXCEPT ![cur] = {}]
          /\ UNCHANGED <<contents, preserved, automatic>>
       \/ /\ cur \in preserved
          /\ preserved' = preserved \ {cur}
          /\ UNCHANGED <<contents, reqby, automatic>>
       \/ /\ cur \in automatic
          /\ automatic' = automatic \ {cur}
          /\ UNCHANGED <<contents, reqby, preserved>>
    /\ UNCHANGED <<cmdVars, listVars, leafVars, pkgVars, entries, disk, owner,
                   pc, sorted, bad>>

\* Mutant: the directory is removed whatever it holds.
Unchecked == cur \in Pkg

\* No file named +* is left (isemptydir).
MetaGone ==
    /\ cur \notin contents \cup preserved \cup automatic
    /\ reqby[cur] = {}

\* rmdir of the package directory.  A directory that still holds a foreign
\* file is an error; -f then removes it recursively but reports it as failed.
RemoveDir ==
    /\ pc = "unlink"
    /\ MetaGone
    /\ \/ entries' = entries \ {cur} /\ Returned(~late)
       \/ IoErrors /\ opt.force > 0 /\ entries' = entries \ {cur} /\ Returned(FALSE)
       \/ IoErrors /\ UNCHANGED entries /\ Returned(FALSE)
    /\ UNCHANGED <<cmdVars, listVars, leafVars, pkgVars, contents, reqby,
                   preserved, automatic, disk, owner, sorted>>

\* The process is killed; the database stays as it is.
Crash ==
    /\ Crashes /\ pc # "idle"
    /\ Exit
    /\ UNCHANGED <<dbVars, cmdVars, listVars, leafVars, pkgVars, sorted, bad>>

-----------------------------------------------------------------------------
ProcInit ==
    /\ pc = "idle"
    /\ opt = NoOptions
    /\ args = <<>> /\ has_error = FALSE
    /\ kept = <<>> /\ todo = <<>> /\ sorted = <<>>
    /\ old = [n |-> 0, head |-> NoPkg]
    /\ visit = {} /\ progress = FALSE
    /\ cur = NoPkg /\ files = {} /\ keys = {} /\ deps = {} /\ late = FALSE
    /\ bad = FALSE
    /\ request = {} /\ careful = TRUE /\ runs = 0

Init == DBInit /\ ProcInit

Step ==
    \/ GatherArg \/ GatherDone
    \/ Dedup \/ DedupDone \/ ScanMove \/ ScanKeep \/ ScanUnreadable \/ RoundDone
    \/ SortDone
    \/ (\E p \in Pkg : VisitLeaf(p)) \/ LeafPassDone
    \/ CheckPreserve
    \/ RemoveNext \/ RemoveFromIndex \/ RemoveDone
    \/ RunDeinstall
    \/ (\E f \in File : DeleteFile(f)) \/ FilesDone
    \/ (\E d \in Pkg : RemoveDepend(d)) \/ DepsDone
    \/ UnlinkMeta \/ RemoveDir

Next ==
    \/ \E o \in Options, a \in Requests : Invoke(o, a)
    \/ Step
    \/ Crash

\* A started program keeps running: it waits for nobody.
Spec == Init /\ [][Next]_vars /\ WF_vars(Step)

-----------------------------------------------------------------------------
(* Properties.                                                             *)

Locations == {"idle", "gather", "dedup", "scan", "sorted", "leaves", "check",
              "remove", "deinstall", "files", "deps", "unlink"}

\* The type invariant of the database and of an invocation.
TypeOK ==
    /\ DBTypeOK
    /\ pc \in Locations
    /\ opt \in OptionSpace
    /\ args \in Seq(Pkg \cup Pattern \cup File)
    /\ has_error \in BOOLEAN /\ progress \in BOOLEAN
    /\ late \in BOOLEAN /\ bad \in BOOLEAN
    /\ kept \in Seq(Pkg) /\ todo \in Seq(Pkg) /\ sorted \in Seq(Pkg)
    /\ old \in [n : Nat, head : Pkg \cup {NoPkg}]
    /\ visit \subseteq Pkg
    /\ cur \in Pkg \cup {NoPkg}
    /\ pc \in {"deinstall", "files", "deps", "unlink"} => cur \in Pkg
    /\ files \subseteq File /\ keys \subseteq File
    /\ deps \subseteq Pkg
    /\ request \subseteq Pkg
    /\ careful \in BOOLEAN
    /\ runs \in 0..MaxRuns

\* remove_pkg is at work on cur and has not touched its +REQUIRED_BY.
Removing == pc \in {"deinstall", "files", "deps"} /\ ~opt.fake

\* "The given packages are sorted, so that the dependencies needed by a
\* package are deleted after the package": when remove_pkg works on a package
\* in a run without -f and -k, no package listed in its +REQUIRED_BY is
\* installed any more, whatever -r, -R and -A added and whichever earlier
\* removal failed (main, sort_and_recurse, find_new_leaves).
RemovedIsUnrequired ==
    Removing /\ opt.force = 0 /\ ~opt.keep_preserve =>
        reqby[cur] \cap contents = {}

\* The files of a package whose key goes whenever the package is deleted.
Plainly(p) == Contents[p] \ (Dirs \cup Saved)

\* The package owns every file of its packing list, not all of them special.
Owned(p) == Plainly(p) # {} /\ \A f \in Contents[p] : owner[f] = p

\* However often pkg_delete is run, without -f and -k, and killed, or stopped
\* by an error, a registered package that still
\* owns its files keeps an installed package for each of its dependency
\* patterns: remove_pkg takes the lines of a package out of +REQUIRED_BY only
\* once delete_package has dropped its file entries, and a package leaves
\* the database only after those that list it.
DependenciesKept ==
    careful =>
        \A q \in contents : Owned(q) =>
            \A pt \in Deps[q] : Match[pt] \cap contents # {}

Promise == INSTANCE PkgPromise WITH
    installed <- contents, working <- {q \in contents : Owned(q)}, trusted <- careful

\* pkg_delete implements PkgPromise, step by step: packages stop to own their
\* files before their record goes, one at a time, and never while a package
\* that owns its files would be left without a match.
KeepsPromise == Promise!Spec

\* pkgdb.byfile.db names a package without a directory in PKG_DBDIR only for a
\* file that a directory had replaced, or whose saved copy went back in place:
\* there delete_package skips pkgdb_remove and succeeds, so the key outlives
\* the package, and pkg_delete -F finds a package that is not installed.  For
\* all other files -F may trust the index: their keys go before the
\* directory, also when the run fails or is killed in between.
OwnersRegistered ==
    \A f \in File \ (Dirs \cup Saved) : owner[f] # NoPkg => owner[f] \in entries

\* A package with a +PRESERVE is removed only with -f -f, or -f -N, and never
\* with -k, also when -r, -R or -A put it on the list.
PreservedKept ==
    Removing /\ cur \in preserved =>
        /\ ~opt.keep_preserve
        /\ opt.force >= (IF opt.unregister_only THEN 1 ELSE 2)

\* Reference: the least set of packages that contains S and is closed under C.
Least(S, C(_)) == {p \in Pkg : \A T \in SUBSET Pkg : S \subseteq T /\ C(T) => p \in T}

\* Reference: what the run has to delete before leaves are looked for.
Wanted ==
    IF opt.recursive
    THEN Least(request, LAMBDA T : \A p \in T : reqby[p] \subseteq T)
    ELSE request

\* Reference: the packages of Wanted that no order can put after all packages
\* requiring them, because of a cycle or of a requirer that is not wanted.
Stuck ==
    UNION {S \in SUBSET Wanted :
             \A p \in S : reqby[p] \cap (S \cup (Pkg \ Wanted)) # {}}

\* sort_and_recurse ends with exactly the sortable packages on sorted_pkgs and
\* the others on pkgs: its progress test neither stops early nor reports a
\* package that could have been ordered.
SortExact ==
    pc = "sorted" /\ ~IoErrors =>
        /\ Rng(todo) = Stuck
        /\ Rng(sorted) = Wanted \ Stuck

\* Reference: Wanted with the leaves it uncovers.
WithLeaves ==
    IF opt.new_leaves \/ opt.automatic_leaves
    THEN Least(Wanted, LAMBDA T :
            \A p \in entries \ preserved :
                /\ opt.new_leaves \/ p \in automatic
                /\ reqby[p] # {} /\ reqby[p] \subseteq T
                => p \in T)
    ELSE Wanted

\* find_new_leaves adds the same packages whatever order readdir returns, and
\* exactly those that only packages of the list require.
LeavesExact ==
    pc = "check" /\ ~IoErrors => Rng(sorted) = WithLeaves

\* Every invocation ends, also on cyclic +REQUIRED_BY lists.
Terminates == pc # "idle" ~> pc = "idle"

-----------------------------------------------------------------------------
(* The inductive strengthenings the proofs use.                            *)

InRemovePkg == pc \in {"deinstall", "files", "deps", "unlink"}

\* The file index: an entry belongs to a package whose packing list has the
\* file, and once delete_package is through, no plain entry names cur.
IndexInv ==
    /\ \A f \in File : owner[f] # NoPkg => f \in Contents[owner[f]]
    /\ OwnersRegistered
    /\ pc = "files" /\ ~opt.fake => Plainly(cur) \subseteq files \cup keys
    /\ pc \in {"deps", "unlink"} /\ ~opt.fake =>
          \A f \in File \ (Dirs \cup Saved) : owner[f] # cur

\* Options that cannot occur, or change nothing, at a location.
OptionInv ==
    /\ careful /\ pc # "idle" => opt.force = 0 /\ ~opt.keep_preserve
    /\ InRemovePkg => ~opt.pkgdb_update_only
    /\ pc = "deps" /\ opt.fake => deps = {}
    /\ pc = "unlink" => ~opt.fake

\* Installed packages that require an element of sorted are in S or precede it.
Ordered(S) ==
    \A i \in 1..Len(sorted) :
        reqby[sorted[i]] \cap contents \subseteq S \cup {sorted[j] : j \in 1..(i - 1)}

\* Runs that remove packages and remove all of the sorted list.
Plain == /\ opt.force = 0 /\ ~opt.keep_preserve
         /\ ~opt.fake /\ ~opt.pkgdb_update_only

OrderInv ==
    Plain =>
      /\ pc \in {"gather", "dedup"} => sorted = <<>>
      /\ pc \in {"scan", "sorted", "leaves", "check", "remove"} => Ordered({})
      /\ InRemovePkg => Ordered({cur}) /\ reqby[cur] \cap contents = {}

\* A package that owns its files is registered with its dependencies.
RegInv == careful => \A q \in contents : Owned(q) => Registered(q)

\* A preserved package is on the final list only if it may be deleted.
PreserveInv ==
    (pc = "remove" \/ InRemovePkg) =>
        \/ ~opt.keep_preserve /\ MayDeletePreserved
        \/ /\ Rng(sorted) \cap preserved = {}
           /\ InRemovePkg => cur \notin preserved

\* No name occurs twice.
Once(s) == \A i, j \in 1..Len(s) : s[i] = s[j] => i = j

\* While packages are sorted: the lists name wanted packages, each once, and
\* whoever requires an element of sorted precedes it.
ListInv ==
    LET waiting == Rng(kept) \cup Rng(todo) IN
    /\ request \subseteq waiting \cup Rng(sorted)
    /\ waiting \cup Rng(sorted) \subseteq Wanted
    /\ Once(kept) /\ Rng(kept) \cap Rng(todo) = {} /\ waiting \cap Rng(sorted) = {}
    /\ \A i \in 1..Len(sorted) : reqby[sorted[i]] \subseteq {sorted[j] : j \in 1..(i - 1)}

\* The packages of S are missing a requirer, all of which -r has listed.
Waits(S) ==
    \A p \in S : /\ Missing(p) # {}
                 /\ opt.recursive => Missing(p) \subseteq Rng(kept) \cup Rng(todo)

\* What the test for progress stands for: as long as nothing has been sorted in
\* this round and the head is the old one, nothing was prepended either.
RoundInv ==
    /\ old.n <= Len(sorted)
    /\ old.n = Len(sorted) =>
          /\ old.head \in Rng(kept) \cup Rng(todo)
          /\ kept = <<>> => Head(todo) = old.head
          /\ kept # <<>> /\ Head(kept) = old.head => Waits(Rng(kept))

\* find_new_leaves_iter may add the package.
NewLeaf(p) == LeafCandidate(p) /\ p \notin Rng(sorted) /\ RequiredOnlyBy(p, Rng(sorted))

SortInv ==
    ~IoErrors =>
      /\ pc = "gather" => kept = <<>> /\ sorted = <<>>
      /\ pc = "dedup" => ListInv /\ sorted = <<>>
      /\ pc = "scan" => ListInv /\ Once(todo) /\ RoundInv
      /\ pc = "sorted" => ListInv /\ kept = <<>> /\ Waits(Rng(todo))
      /\ pc = "leaves" =>
            /\ opt.new_leaves \/ opt.automatic_leaves
            /\ Wanted \subseteq Rng(sorted) /\ Rng(sorted) \subseteq WithLeaves
            /\ visit \subseteq entries
            /\ progress \/ \A p \in entries \ visit : ~NewLeaf(p)
      /\ pc = "check" => Rng(sorted) = WithLeaves
=============================================================================
