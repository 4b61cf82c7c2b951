------------------------------- MODULE PkgAdd -------------------------------
(***************************************************************************)
(* pkg_add(1): pkg_perform calls pkg_do for every argument; pkg_do checks  *)
(* the package against the database, calls itself for every missing        *)
(* dependency, writes the meta data, extracts the files, and registers the *)
(* package with its dependencies.  With -u or -U it moves the meta data of *)
(* the installed version aside and runs pkg_delete on it first.            *)
(*                                                                         *)
(* The recursion of pkg_do is an explicit stack of frames, one per struct  *)
(* pkg_task.  A frame checks the database before it recurses and relies on *)
(* the result afterwards.                                                  *)
(***************************************************************************)
EXTENDS PkgDB

CONSTANTS
    Rank,       \* Rank[p]: place of p in the order pkg_order gives versions
    Base,       \* Base[p]: the pattern that matches every version of p
    Conflicts,  \* Conflicts[p]: the @pkgcfl patterns of p's packing list
    Repo,       \* packages find_archive can open
    Script,     \* packages that come with a +INSTALL
    Info,       \* packages that come with a +INSTALLED_INFO
    Keep,       \* packages that come with a +PRESERVE
    Temp,       \* Temp[p]: the name of the directory p.xxxxxx of pkg_add -U
    Options,    \* the option combinations an invocation may be given
    Requests,   \* Requests[o]: the argument lists that may come with the options o
    MaxRuns,    \* bound on the number of invocations
    MaxDepth,   \* archives a process can have open: file descriptors run out
    Faults,     \* Faults[o]: the steps that may fail in an invocation with options o
    Crashes     \* whether an invocation may be killed

OptionSpace ==
    [force : BOOLEAN, force_depending : BOOLEAN, replace : BOOLEAN,
     replace_same : BOOLEAN, no_record : BOOLEAN, no_install : BOOLEAN,
     fake : BOOLEAN, automatic : BOOLEAN]

\* The global variables of add/main.c before getopt.
NoOptions == [k \in {"force", "force_depending", "replace", "replace_same",
                     "no_record", "no_install", "fake", "automatic"} |-> FALSE]

FaultSpace == {"archive", "meta", "pre", "extract", "post", "register",
               "delete", "move", "rmdir"}

ASSUME RankAssumption ==
    /\ Rank \in [Pkg -> Nat]
    /\ \A pt \in Pattern : \A p, q \in Match[pt] : Rank[p] = Rank[q] => p = q
ASSUME BaseAssumption == Base \in [Pkg -> Pattern]
ASSUME ConflictsAssumption == Conflicts \in [Pkg -> SUBSET Pattern]
ASSUME RepoAssumption ==
    Repo \subseteq Pkg /\ Script \subseteq Pkg /\ Info \subseteq Pkg /\ Keep \subseteq Pkg
ASSUME TempAssumption == Temp \in [Pkg -> Pkg]
ASSUME OptionsAssumption == Options \subseteq OptionSpace
ASSUME RequestsAssumption == Requests \in [Options -> SUBSET Seq(Pkg \cup Pattern)]
ASSUME BoundsAssumption ==
    MaxRuns \in Nat /\ MaxDepth \in Nat \ {0} /\ Crashes \in BOOLEAN
ASSUME FaultsAssumption == Faults \in [Options -> SUBSET FaultSpace]

VARIABLES
    opt,        \* options of the invocation
    args,       \* arguments pkg_perform has not handled
    stack,      \* the frames of pkg_do, innermost last; <<>> between packages
    files,      \* files extract_files has not written
    bad,        \* errors > 0
    running,    \* an invocation is under way
    runs,       \* invocations so far
    complete,   \* history: packages whose installation ran to its end
    undone,     \* history: packages an update has deleted as its own old version
    late        \* history: an update found, or left, more than one version

treeVars == <<entries, contents, reqby, preserved, automatic>>
indexVars == <<disk, owner>>
cmdVars == <<opt, args, running, runs>>
histVars == <<complete, undone, late>>
vars == <<dbVars, cmdVars, stack, files, bad, histVars>>

Locations == {"find", "already", "other", "conflict", "mkdir", "write", "move",
              "moverest", "delete", "rename", "deps", "again", "missing", "pre",
              "extract", "post", "register", "nukepkg", "nukedb"}

Frame ==
    [arg : Pkg \cup Pattern,        \* pkgpath
     mark : BOOLEAN,                \* mark_automatic
     at : Locations,
     pkg : Pkg \cup {NoPkg},        \* pkgname, known once the archive is open
     other : Pkg \cup {NoPkg},      \* other_version
     dir : Pkg \cup {NoPkg},        \* install_logdir; NoPkg outside PKG_DBDIR
     todo : SUBSET Pattern,         \* @pkgdep patterns still to be checked
     dep : Pattern \cup {NoPkg},    \* the pattern being installed
     deps : SUBSET Pkg]             \* dependencies

depth == Len(stack)
top == stack[depth]
At(l) == stack # <<>> /\ top.at = l
Goto(l) == stack' = [stack EXCEPT ![depth].at = l]

Push(a, mark) ==
    Append(stack, [arg |-> a, mark |-> mark, at |-> "find", pkg |-> NoPkg,
                   other |-> NoPkg, dir |-> NoPkg, todo |-> {}, dep |-> NoPkg,
                   deps |-> {}])

\* clean_memory and the return of pkg_do to check_dependencies or pkg_perform.
Return(ok) ==
    LET up == SubSeq(stack, 1, depth - 1) IN
    /\ stack' = IF up = <<>> THEN <<>>
                ELSE [up EXCEPT ![depth - 1].at = IF ok THEN "again" ELSE "missing"]
    /\ bad' = (bad \/ (up = <<>> /\ ~ok))

MayFail(kind) == kind \in Faults[opt]

\* The package of S that pkg_order prefers to all others, if S is not empty.
Best(S) == {p \in S : \A q \in S : Rank[q] <= Rank[p]}

\* The candidates of find_best_matching_installed_pkg.
Installed(pt) == Match[pt] \cap entries

Updates(o) == o.replace \/ o.replace_same

\* A directory that should go has stayed.
Left == late' = (late \/ Updates(opt))

\* The database lists two versions of one package.
TwoVersions == \E p, q \in entries : q # p /\ q \in Match[Base[p]]

-----------------------------------------------------------------------------
(* pkg_perform.                                                            *)

Invoke(o, a) ==
    /\ ~running /\ runs < MaxRuns
    /\ running' = TRUE /\ runs' = runs + 1
    /\ opt' = o /\ args' = a
    /\ bad' = FALSE
    /\ late' = (late \/ (Updates(o) /\ TwoVersions))
    /\ UNCHANGED <<dbVars, stack, files, complete, undone>>

NextArg ==
    /\ running /\ stack = <<>> /\ args # <<>>
    /\ stack' = Push(Head(args), opt.automatic)
    /\ args' = Tail(args)
    /\ UNCHANGED <<dbVars, opt, files, bad, running, runs, histVars>>

Finish ==
    /\ running /\ stack = <<>> /\ args = <<>>
    /\ running' = FALSE
    /\ UNCHANGED <<dbVars, opt, args, stack, files, bad, runs, histVars>>

-----------------------------------------------------------------------------
(* Checks.                                                                 *)

\* find_archive: the named package, or the best match of a pattern.
Candidates(a) == IF a \in Pkg THEN {a} \cap Repo ELSE Best(Match[a] \cap Repo)

\* read_meta_data or pkg_parse_plist fails, or a check of the signature, the
\* build information, the tool version, vulnerabilities or the license does.
MayBeRejected == MayFail("archive")

\* check_platform: a package for another system needs -f.
MayBeForeign == MayFail("archive") /\ ~opt.force

\* The archive is found, opened and passes the checks that do not look at the
\* database, or pkg_do gives up.
OpenArchive ==
    /\ At("find")
    /\ \/ /\ depth <= MaxDepth
          /\ \E p \in Candidates(top.arg) :
                stack' = [stack EXCEPT
                    ![depth].at = "already", ![depth].pkg = p,
                    ![depth].dir = IF opt.no_record /\ ~opt.fake THEN NoPkg ELSE p,
                    ![depth].todo = Deps[p]]
          /\ UNCHANGED bad
       \/ /\ depth > MaxDepth \/ Candidates(top.arg) = {} \/ MayBeRejected
          /\ Return(FALSE)
    /\ UNCHANGED <<dbVars, cmdVars, files, histVars>>

\* The package is installed already: -U prepares to replace it, otherwise it
\* is at most marked as requested by the user.
CheckAlreadyInstalled ==
    /\ At("already")
    /\ \/ /\ top.pkg \notin contents
          /\ Goto("other")
          /\ UNCHANGED <<automatic, bad>>
       \/ /\ top.pkg \in contents /\ opt.replace_same
          /\ IF top.dir # NoPkg /\ Temp[top.pkg] \in entries
             THEN Return(FALSE)
             ELSE /\ stack' = [stack EXCEPT
                        ![depth].at = "other", ![depth].other = top.pkg,
                        ![depth].dir = IF @ = NoPkg THEN NoPkg ELSE Temp[top.pkg]]
                  /\ UNCHANGED bad
          /\ UNCHANGED automatic
       \/ /\ top.pkg \in contents /\ ~opt.replace_same
          /\ automatic' = IF opt.automatic \/ opt.fake THEN automatic
                          ELSE automatic \ {top.pkg}
          /\ Return(TRUE)
    /\ UNCHANGED <<entries, contents, reqby, preserved, indexVars, cmdVars,
                   files, histVars>>

\* A package that requires o has a pattern that p would no longer satisfy.
Breaks(o, p) ==
    \E q \in reqby[o] : \E pt \in Deps[q] : o \in Match[pt] /\ p \notin Match[pt]

\* Mutant: -u does not look at the packages that require the old version.
ReplaceAlways(o, p) == opt.replace

\* The installed version may be replaced by p.
MayReplace(o, p) ==
    /\ opt.replace
    /\ reqby[o] \subseteq contents
    /\ opt.force \/ opt.force_depending \/ ~Breaks(o, p)

\* The version of p that check_other_installed finds.
OtherVersion(p) == Best(Installed(Base[p]))

\* check_platform, then check_other_installed.
CheckOtherInstalled ==
    /\ At("other")
    /\ \/ /\ MayBeForeign
          /\ Return(FALSE)
       \/ /\ top.other # NoPkg \/ OtherVersion(top.pkg) = {}
          /\ Goto("conflict")
          /\ UNCHANGED bad
       \/ /\ top.other = NoPkg
          /\ \E o \in OtherVersion(top.pkg) :
                IF MayReplace(o, top.pkg)
                THEN /\ stack' = [stack EXCEPT ![depth].at = "conflict",
                                               ![depth].other = o]
                     /\ UNCHANGED bad
                ELSE Return(FALSE)
    /\ UNCHANGED <<dbVars, cmdVars, files, histVars>>

\* The package's own @pkgcfl lines name an installed package.
OwnConflict(t) == \E pt \in Conflicts[t.pkg] : Installed(pt) \ {t.other} # {}

\* some_installed_package_conflicts_with
ForeignConflict(t) ==
    \E q \in (entries \cap contents) \ {t.other} :
        \E pt \in Conflicts[q] : t.pkg \in Match[pt]

\* A directory without +CONTENTS: fopen_contents exits.
Unreadable(t) == entries \ (contents \cup {t.other}) # {}

\* Mutant: an entry of the index is ignored, whoever owns the file.
NoOverlap(t) == FALSE

\* The index names another package for one of the files.
ImplicitConflict(t) ==
    \E f \in Contents[t.pkg] : owner[f] \notin {NoPkg, t.other}

\* check_explicit_conflict, check_implicit_conflict, and the choice between
\* replacing and installing.
CheckConflicts ==
    /\ At("conflict")
    /\ \/ /\ Unreadable(top)
          /\ stack' = <<>> /\ args' = <<>> /\ bad' = TRUE
       \/ /\ ~Unreadable(top) \/ ForeignConflict(top)
          /\ IF \/ OwnConflict(top) \/ ForeignConflict(top)
                \/ ~opt.force /\ ImplicitConflict(top)
             THEN Return(FALSE)
             ELSE /\ Goto(IF top.other # NoPkg THEN "mkdir" ELSE "deps")
                  /\ UNCHANGED bad
          /\ UNCHANGED args
    /\ UNCHANGED <<dbVars, opt, running, runs, files, histVars>>

-----------------------------------------------------------------------------
(* write_meta_data.                                                        *)

\* Mutant: -n is forgotten.
RecordingAlways == top.dir # NoPkg

\* The meta data are written to a directory of PKG_DBDIR.
Recording == ~opt.fake /\ top.dir # NoPkg

\* Mutant: the directory is expected to be there.
MakeNoDir ==
    /\ At("mkdir")
    /\ Goto("write")
    /\ UNCHANGED <<dbVars, cmdVars, files, bad, histVars>>

\* The directory is created.
MakeDir ==
    /\ At("mkdir")
    /\ \/ /\ entries' = IF Recording THEN entries \cup {top.dir} ELSE entries
          /\ Goto("write")
       \/ /\ MayFail("meta") /\ ~opt.fake
          /\ Goto("nukedb")
          /\ UNCHANGED entries
    /\ UNCHANGED <<contents, reqby, preserved, automatic, indexVars, cmdVars,
                   files, bad, histVars>>

\* +CONTENTS and the other meta data files are written over what is there.
WriteMeta ==
    /\ At("write")
    /\ \/ /\ contents' = IF Recording THEN contents \cup {top.dir} ELSE contents
          /\ preserved' = IF Recording /\ top.pkg \in Keep
                          THEN preserved \cup {top.dir} ELSE preserved
          /\ automatic' = IF Recording /\ top.pkg \in Info
                          THEN automatic \ {top.dir} ELSE automatic
          /\ Goto(IF top.other # NoPkg THEN "move" ELSE "pre")
       \/ /\ MayFail("meta") /\ ~opt.fake
          /\ Goto("nukedb")
          /\ UNCHANGED <<contents, preserved, automatic>>
    /\ UNCHANGED <<entries, reqby, indexVars, cmdVars, files, bad, histVars>>

-----------------------------------------------------------------------------
(* start_replacing.                                                        *)

\* The lines of d's +REQUIRED_BY once the file of o has been renamed to d.
RequiredAfterMove(o, d) ==
    [p \in Pkg |-> IF p = d /\ reqby[o] # {} THEN reqby[o]
                   ELSE IF p = o THEN {} ELSE reqby[p]]

\* S once the file of o that S stands for has been renamed to d.
MovedFlag(S, o, d) ==
    IF o \in S THEN (S \ {o}) \cup ({d} \ {NoPkg}) ELSE S

\* preserve_meta_data_file(+REQUIRED_BY).
MoveRequiredBy ==
    /\ At("move")
    /\ \/ /\ reqby' = IF opt.fake THEN reqby ELSE RequiredAfterMove(top.other, top.dir)
          /\ Goto("moverest")
       \/ /\ MayFail("move") /\ ~opt.fake
          /\ Goto("nukedb")
          /\ UNCHANGED reqby
    /\ UNCHANGED <<entries, contents, preserved, automatic, indexVars, cmdVars,
                   files, bad, histVars>>

\* preserve_meta_data_file(+PRESERVE) and, if the package has none of its own,
\* preserve_meta_data_file(+INSTALLED_INFO).
MoveRest ==
    /\ At("moverest")
    /\ \/ /\ preserved' = IF opt.fake THEN preserved
                          ELSE MovedFlag(preserved, top.other, top.dir)
          /\ automatic' = IF opt.fake \/ top.pkg \in Info THEN automatic
                          ELSE MovedFlag(automatic, top.other, top.dir)
          /\ Goto("delete")
       \/ /\ MayFail("move") /\ ~opt.fake
          /\ Goto("nukedb")
          /\ UNCHANGED <<preserved, automatic>>
    /\ UNCHANGED <<entries, contents, reqby, indexVars, cmdVars, files, bad,
                   histVars>>

\* Mutant: the old version only loses its files.
DeleteFilesOnly(o) ==
    /\ disk' = disk \ Contents[o]
    /\ owner' = WithoutKeys(Contents[o])
    /\ UNCHANGED <<treeVars, complete>>

\* pkg_delete of one package without +REQUIRED_BY, as a whole, with the index
\* entries of all its files: those that delete_package keeps, because there is a
\* directory in the place of the file or -U's copy was restored, are left out
\* here and in nuke_pkg (PkgDelete has them).
DeletePackage(o) ==
    /\ entries' = entries \ {o}
    /\ contents' = contents \ {o}
    /\ reqby' = [d \in Pkg |->
                    IF d = o THEN {}
                    ELSE IF \E pt \in Deps[o] : d \in Installed(pt)
                    THEN reqby[d] \ {o} ELSE reqby[d]]
    /\ preserved' = preserved \ {o}
    /\ automatic' = automatic \ {o}
    /\ disk' = disk \ Contents[o]
    /\ owner' = WithoutKeys(Contents[o])
    /\ complete' = complete \ {o}

\* pkg_delete, which is given neither -f nor -r, agrees to delete o.
Deletable(o) == o \in contents /\ o \notin preserved /\ reqby[o] = {}

\* fexec pkg_delete; its exit status is not looked at.  It changes nothing if
\* its PRE-DEINSTALL script fails.
DeleteOld ==
    /\ At("delete")
    /\ Goto("rename")
    /\ \/ /\ ~opt.fake /\ Deletable(top.other)
          /\ DeletePackage(top.other)
          /\ undone' = undone \cup ({top.other} \cap {top.dir})
          /\ UNCHANGED late
       \/ /\ opt.fake
          /\ UNCHANGED <<dbVars, histVars>>
       \/ /\ ~opt.fake /\ (~Deletable(top.other) \/ MayFail("delete"))
          /\ Left
          /\ UNCHANGED <<dbVars, complete, undone>>
    /\ UNCHANGED <<cmdVars, files, bad>>

\* S once the directory o has been renamed to d.
Renamed(S, o, d) == IF o \in S THEN (S \ {o}) \cup {d} ELSE S

\* rename(p.xxxxxx, p) of pkg_add -U, unchecked: it does nothing if p is still
\* there.
RenameDir ==
    /\ At("rename")
    /\ LET p == top.pkg
           t == Temp[top.pkg] IN
       IF top.dir = t /\ t # p /\ p \notin entries /\ ~opt.fake
       THEN /\ entries' = Renamed(entries, t, p)
            /\ contents' = Renamed(contents, t, p)
            /\ reqby' = [reqby EXCEPT ![p] = reqby[t], ![t] = {}]
            /\ preserved' = Renamed(preserved, t, p)
            /\ automatic' = Renamed(automatic, t, p)
       ELSE UNCHANGED treeVars
    /\ stack' = [stack EXCEPT ![depth].at = "deps",
                              ![depth].dir = IF @ = NoPkg THEN NoPkg ELSE top.pkg]
    /\ UNCHANGED <<indexVars, cmdVars, files, bad, histVars>>

-----------------------------------------------------------------------------
(* check_dependencies.                                                     *)

\* status = -1: the caller leaves, undoing the meta data it has written.
DependencyFailed ==
    IF top.other # NoPkg THEN Goto("nukedb") /\ UNCHANGED bad
    ELSE Return(FALSE)

\* Mutant: a failed dependency is only warned about.
WarnOnly == opt.force \/ top.deps = {}

\* ForceDepends and, for a missing package that is not looked for, Force.
Tolerated == opt.force

\* The next @pkgdep pattern: an installed package is recorded, a missing one
\* is installed by a nested pkg_do.
CheckDependency(pt) ==
    /\ At("deps") /\ pt \in top.todo
    /\ LET rest == top.todo \ {pt} IN
       \/ \E d \in Best(Installed(pt)) :
             /\ stack' = [stack EXCEPT ![depth].todo = rest,
                                       ![depth].deps = @ \cup {d}]
             /\ UNCHANGED bad
       \/ /\ Installed(pt) = {} /\ (opt.fake \/ opt.no_record)
          /\ IF Tolerated
             THEN stack' = [stack EXCEPT ![depth].todo = rest] /\ UNCHANGED bad
             ELSE DependencyFailed
       \/ /\ Installed(pt) = {} /\ ~opt.fake /\ ~opt.no_record
          /\ stack' = Append(
                [stack EXCEPT ![depth].todo = rest, ![depth].dep = pt],
                Push(pt, TRUE)[depth + 1])
          /\ UNCHANGED bad
    /\ UNCHANGED <<dbVars, cmdVars, files, histVars>>

\* Mutant: a dependency installed just now is not looked up.
DependencyForgotten ==
    /\ At("again")
    /\ stack' = [stack EXCEPT ![depth].at = "deps", ![depth].dep = NoPkg]
    /\ UNCHANGED <<dbVars, cmdVars, files, bad, histVars>>

\* The nested pkg_do has returned 0: the pattern is looked up again.
DependencyInstalled ==
    /\ At("again")
    /\ \/ \E d \in Best(Installed(top.dep)) :
             /\ stack' = [stack EXCEPT ![depth].at = "deps", ![depth].dep = NoPkg,
                                       ![depth].deps = @ \cup {d}]
             /\ UNCHANGED bad
       \/ /\ Installed(top.dep) = {}
          /\ IF Tolerated
             THEN /\ stack' = [stack EXCEPT ![depth].at = "deps", ![depth].dep = NoPkg]
                  /\ UNCHANGED bad
             ELSE DependencyFailed
    /\ UNCHANGED <<dbVars, cmdVars, files, histVars>>

\* Mutant: a failed dependency is tried again.
DependencyRetried ==
    /\ At("missing")
    /\ stack' = [stack EXCEPT ![depth].at = "deps", ![depth].todo = @ \cup {top.dep}]
    /\ UNCHANGED <<dbVars, cmdVars, files, bad, histVars>>

\* The nested pkg_do has failed.
DependencyMissing ==
    /\ At("missing")
    /\ IF Tolerated
       THEN /\ stack' = [stack EXCEPT ![depth].at = "deps", ![depth].dep = NoPkg]
            /\ UNCHANGED bad
       ELSE DependencyFailed
    /\ UNCHANGED <<dbVars, cmdVars, files, histVars>>

DependenciesDone ==
    /\ At("deps") /\ top.todo = {}
    /\ Goto(IF top.other # NoPkg THEN "pre" ELSE "mkdir")
    /\ UNCHANGED <<dbVars, cmdVars, files, bad, histVars>>

-----------------------------------------------------------------------------
(* Installation.                                                           *)

\* run_install_script runs something; with -R the script has not been written
\* to PKG_DBDIR, and the exec fails.
ScriptRuns == top.pkg \in Script /\ ~opt.no_install /\ ~opt.fake
ScriptFails(kind) == ScriptRuns /\ (MayFail(kind) \/ top.dir \notin entries)

PreInstall ==
    /\ At("pre")
    /\ \/ /\ ~ScriptRuns \/ top.dir \in entries
          /\ Goto("extract")
          /\ files' = IF opt.fake THEN {} ELSE Contents[top.pkg]
       \/ /\ ScriptFails("pre")
          /\ Goto("nukedb")
          /\ UNCHANGED files
    /\ UNCHANGED <<dbVars, cmdVars, bad, histVars>>

\* One file of the packing list is written.
ExtractFile(f) ==
    /\ At("extract") /\ f \in files
    /\ files' = files \ {f}
    /\ disk' = disk \cup {f}
    /\ UNCHANGED <<treeVars, owner, cmdVars, stack, bad, histVars>>

\* The index once pkgdb_store has been called for the files in S and the
\* database closed: an entry that exists is not overwritten (R_NOOVERWRITE).
Stored(S, p) ==
    [f \in File |-> IF f \in S /\ owner[f] = NoPkg THEN p ELSE owner[f]]

\* All files are there.
ExtractDone ==
    /\ At("extract") /\ files = {}
    /\ owner' = IF opt.no_record \/ opt.fake THEN owner
                ELSE Stored(Contents[top.pkg], top.pkg)
    /\ Goto("post")
    /\ UNCHANGED <<treeVars, disk, cmdVars, files, bad, histVars>>

\* A file cannot be written, or the archive and the packing list differ.  The
\* file at hand may have been stored in the index before.
ExtractFail ==
    /\ At("extract") /\ MayFail("extract") /\ ~opt.fake
    /\ \E S \in {{}} \cup {{f} : f \in files} :
          owner' = IF opt.no_record THEN owner
                   ELSE Stored((Contents[top.pkg] \ files) \cup S, top.pkg)
    /\ files' = {}
    /\ Goto("nukepkg")
    /\ UNCHANGED <<treeVars, disk, cmdVars, bad, histVars>>

PostInstall ==
    /\ At("post")
    /\ \/ /\ ~ScriptRuns \/ top.dir \in entries
          /\ automatic' = IF top.mark /\ top.pkg \in entries
                          THEN automatic \cup {top.pkg} ELSE automatic
          /\ Goto("register")
       \/ /\ ScriptFails("post")
          /\ Goto("nukedb")
          /\ UNCHANGED automatic
    /\ UNCHANGED <<entries, contents, reqby, preserved, indexVars, cmdVars,
                   files, bad, histVars>>

\* pkg_register_depends: append to the +REQUIRED_BY of one dependency.  It
\* goes wrong if the directory has gone, and that is only warned about.
RegisterDepend(d) ==
    /\ At("register") /\ d \in top.deps
    /\ stack' = [stack EXCEPT ![depth].deps = @ \ {d}]
    /\ \/ /\ ~opt.fake /\ d \in entries
          /\ reqby' = [reqby EXCEPT ![d] = @ \cup {top.pkg}]
       \/ /\ opt.fake \/ d \notin entries \/ MayFail("register")
          /\ UNCHANGED reqby
    /\ UNCHANGED <<entries, contents, preserved, automatic, indexVars, cmdVars,
                   files, bad, histVars>>

RegisterDone ==
    /\ At("register") /\ top.deps = {}
    /\ complete' = IF opt.fake \/ opt.no_record THEN complete
                   ELSE complete \cup {top.pkg}
    /\ Return(TRUE)
    /\ UNCHANGED <<dbVars, cmdVars, files, undone, late>>

-----------------------------------------------------------------------------
(* Failure.                                                                *)

\* Mutant: the index is left to the next pkg_admin rebuild.
NukeFilesOnly ==
    /\ At("nukepkg")
    /\ disk' = disk \ Contents[top.pkg]
    /\ Goto("nukedb")
    /\ UNCHANGED <<treeVars, owner, cmdVars, files, bad, histVars>>

\* nuke_pkg: delete_package removes the whole packing list and its entries in
\* the index.
NukePkg ==
    /\ At("nukepkg")
    /\ disk' = disk \ Contents[top.pkg]
    /\ owner' = WithoutKeys(Contents[top.pkg])
    /\ Goto("nukedb")
    /\ UNCHANGED <<treeVars, cmdVars, files, bad, histVars>>

\* nuke_pkgdb: remove_files(install_logdir, "+*"), in glob order.
NukeMeta ==
    /\ At("nukedb") /\ Recording
    /\ \/ /\ top.dir \in contents
          /\ contents' = contents \ {top.dir}
          /\ UNCHANGED <<reqby, preserved, automatic>>
       \/ /\ reqby[top.dir] # {}
          /\ reqby' = [reqby EXCEPT ![top.dir] = {}]
          /\ UNCHANGED <<contents, preserved, automatic>>
       \/ /\ top.dir \in preserved
          /\ preserved' = preserved \ {top.dir}
          /\ UNCHANGED <<contents, reqby, automatic>>
       \/ /\ top.dir \in automatic
          /\ automatic' = automatic \ {top.dir}
          /\ UNCHANGED <<contents, reqby, preserved>>
    /\ complete' = complete \ {top.dir}
    /\ UNCHANGED <<entries, indexVars, cmdVars, stack, files, bad, undone, late>>

\* recursive_remove(install_logdir); that it fails is only warned about.
NukeDir ==
    /\ At("nukedb")
    /\ Recording => /\ top.dir \notin contents \cup preserved \cup automatic
                    /\ reqby[top.dir] = {}
    /\ \/ /\ entries' = IF Recording THEN entries \ {top.dir} ELSE entries
          /\ UNCHANGED late
       \/ MayFail("rmdir") /\ Left /\ UNCHANGED entries
    /\ Return(FALSE)
    /\ UNCHANGED <<contents, reqby, preserved, automatic, indexVars, cmdVars,
                   files, complete, undone>>

\* The process is killed; the database stays as it is.
Crash ==
    /\ Crashes /\ running
    /\ running' = FALSE /\ stack' = <<>> /\ args' = <<>> /\ files' = {}
    /\ UNCHANGED <<dbVars, opt, bad, runs, complete, undone, late>>

-----------------------------------------------------------------------------
ProcInit ==
    /\ opt = NoOptions /\ args = <<>> /\ stack = <<>> /\ files = {}
    /\ bad = FALSE /\ running = FALSE /\ runs = 0
    /\ complete = contents /\ undone = {} /\ late = FALSE

Init == DBInit /\ ProcInit

Step ==
    \/ NextArg \/ Finish
    \/ OpenArchive \/ CheckAlreadyInstalled \/ CheckOtherInstalled \/ CheckConflicts
    \/ MakeDir \/ WriteMeta
    \/ MoveRequiredBy \/ MoveRest \/ DeleteOld \/ RenameDir
    \/ (\E pt \in Pattern : CheckDependency(pt))
    \/ DependencyInstalled \/ DependencyMissing \/ DependenciesDone
    \/ PreInstall \/ (\E f \in File : ExtractFile(f)) \/ ExtractDone \/ ExtractFail
    \/ PostInstall
    \/ (\E d \in Pkg : RegisterDepend(d)) \/ RegisterDone
    \/ NukePkg \/ NukeMeta \/ NukeDir

Next ==
    \/ \E o \in Options : \E a \in Requests[o] : Invoke(o, a)
    \/ Step
    \/ Crash

\* A started program keeps running: it waits for nobody.
Spec == Init /\ [][Next]_vars /\ WF_vars(Step)

-----------------------------------------------------------------------------
(* Properties.                                                             *)

\* The type invariant of the database and of an invocation.
TypeOK ==
    /\ DBTypeOK
    /\ opt \in OptionSpace
    /\ args \in Seq(Pkg \cup Pattern)
    /\ stack \in Seq(Frame)
    /\ files \subseteq File
    /\ bad \in BOOLEAN /\ running \in BOOLEAN
    /\ runs \in 0..MaxRuns
    /\ complete \subseteq Pkg /\ undone \subseteq Pkg
    /\ late \in BOOLEAN

\* The packages can be put in layers: dependencies, whatever their versions,
\* form no cycle.  Names differ from patterns, and neither a POST-INSTALL script
\* nor the pkg_delete of an update fails.
Layered(Level) ==
    /\ Level \in [Pkg -> Nat]
    /\ \A p \in Pkg : \A pt \in Deps[p] : \A q \in Match[pt] : Level[q] < Level[p]
    /\ \A p \in Pkg : \A q \in Match[Base[p]] \cup {Temp[p]} : Level[q] = Level[p]
    /\ Pkg \cap Pattern = {}
    /\ \A o \in Options : {"post", "delete"} \cap Faults[o] = {}

\* Under[p] holds the packages that may be installed for p: those that match
\* its dependencies, theirs, and so on.  Names differ from patterns.
Closed(Under) ==
    /\ Under \in [Pkg -> SUBSET Pkg]
    /\ \A p \in Pkg : \A pt \in Deps[p] : Match[pt] \cap Repo \subseteq Under[p]
    /\ \A p \in Pkg : \A q \in Under[p] : Under[q] \subseteq Under[p]
    /\ Pkg \cap Pattern = {}

\* No package shares a file with one that may be installed for it.
Apart(Under) ==
    Closed(Under) /\ \A p \in Pkg : \A q \in Under[p] : Contents[q] \cap Contents[p] = {}

\* The versions of a package, and the directories in which -U stages them, are
\* those its Base matches, and none of them is installed for another.
Versioned(Under) ==
    /\ Closed(Under)
    /\ \A p \in Pkg : {p, Temp[p]} \subseteq Match[Base[p]]
    /\ \A p \in Pkg : \A q \in Match[Base[p]] : Base[q] = Base[p]
    /\ \A p \in Pkg : \A q \in Under[p] : Base[q] # Base[p]

Updating == \E o \in Options : Updates(o)

\* If there are updates, then no invocation is killed, no pkg_delete of an update
\* fails, and every directory can be removed.
UpdatesEnd ==
    Updating => ~Crashes /\ \A o \in Options : {"delete", "rmdir"} \cap Faults[o] = {}

\* No package may come to be installed for itself.
Acyclic(Under) ==
    Closed(Under) /\ NoPkg \notin Pattern /\ \A p \in Pkg : p \notin Under[p]

\* The options O are for installations only, none with -f, that can write the
\* +REQUIRED_BY of a dependency.
Unforced(O) ==
    \A o \in O : ~o.force /\ ~o.replace /\ ~o.replace_same /\ "register" \notin Faults[o]

\* pkgdb.byfile.db never names a package without a directory in PKG_DBDIR,
\* wherever a run fails or is killed, as long as no POST-INSTALL script fails:
\* extract_files stores names only after write_meta_data made the directory,
\* nuke_pkg drops the names before nuke_pkgdb removes it, and an update has
\* pkg_delete drop those of the old version.  The packages of which an update
\* deleted the record that it had just written are the exception, as are the
\* entries that delete_package keeps and DeletePackage leaves out.
OwnersRegistered ==
    \A f \in File : owner[f] \notin undone \cup {NoPkg} => owner[f] \in entries

\* "After installation is complete, a copy of the packing list, deinstall
\* script, description, and display files are copied into PKG_DBDIR/pkg-name
\* for subsequent possible use by pkg_delete": what was installed is recorded.
CompleteRecorded == complete \subseteq contents

\* Every package whose installation ran to its end is registered with an
\* installed package for each of its dependency patterns: what
\* pkg_register_depends writes is what pkg_delete later relies on, also after
\* other installations were killed, failed, or replaced a dependency.
DependenciesRegistered == \A q \in complete \cap contents : Registered(q)

Promise == INSTANCE PkgPromise WITH
    installed <- contents, working <- complete \cap contents, trusted <- TRUE

\* pkg_add implements PkgPromise, also while it replaces a package that others
\* need, whose record goes only when that of the new version is there, and
\* whatever installation fails or is killed on the way.
KeepsPromise == Promise!Spec

\* The installation of the top frame is past its dependency check.
Installing == stack # <<>> /\ ~opt.fake
                /\ top.at \in {"pre", "extract", "post", "register"}

\* "if the missing package cannot be found or installed, the installation is
\* terminated": from PRE-INSTALL on, unless -f is given, a package for each
\* dependency pattern is there.
DependenciesFirst ==
    Installing /\ ~opt.force => \A pt \in Deps[top.pkg] : Installed(pt) # {}

\* "If there is any overlap, the installation is terminated": a package is
\* extracted without -f only over files no other installed package owns.
FilesDisjoint ==
    At("extract") /\ ~opt.fake /\ ~opt.force =>
        \A f \in Contents[top.pkg] : owner[f] \in {NoPkg, top.pkg, top.other}

\* Two versions of a package are never installed together: without -u
\* check_other_installed refuses the second, with -u the first is removed, also
\* where runs are killed and updates follow.  It is not claimed after an update
\* whose pkg_delete or whose removal of a directory has failed, nor after one that
\* found two versions in the database, as a killed one leaves them: then
\* check_other_installed looks at the better one only, and a third version
\* replaces that one beside the other.
OneVersion ==
    ~running /\ ~late =>
        \A p, q \in complete \cap contents : q \in Match[Base[p]] => q = p

\* "Don't actually install a package, just report the steps": -n changes
\* nothing but, with -A and -u or -U, the automatic mark of a package that is
\* there, which pkg_do sets without a look at Fake.
FakeChangesNothing ==
    [][opt.fake /\ running =>
         /\ UNCHANGED <<entries, contents, reqby, preserved, indexVars>>
         /\ automatic \subseteq automatic'
         /\ ~(opt.automatic /\ (opt.replace \/ opt.replace_same)) => UNCHANGED automatic]_vars

\* Every invocation ends, also when dependencies are cyclic.
Terminates == running ~> ~running
=============================================================================
