------------------------------ MODULE Refcount ------------------------------
(***************************************************************************)
(* mk/pkginstall: the scripts +USERGROUP, +DIRS and +FILES, by which the   *)
(* packages register the users, directories and configuration files they   *)
(* need.  Each resource has a shadow directory under PKG_DBDIR.refcount    *)
(* with one token per package and, if the resource was there before,       *)
(* +PREEXISTING.  install and deinstall run the scripts in the stages of   *)
(* pkg_add and pkg_delete; a stage may be killed between two commands.     *)
(*                                                                         *)
(* A token holds the line of its own package only: its name is PKGNAME and *)
(* the line is the package's directory in PKG_DBDIR.  Groups are handled   *)
(* like users.  +PERMISSIONS, which is never read, and the copy of the     *)
(* token that REMOVE counts the lines of are left out: both go with the    *)
(* note or the token, unless a kill leaves them in a shadow directory.     *)
(***************************************************************************)
EXTENDS Naturals, SequencesExt

CONSTANTS
    Pkg,        \* package names
    NoPkg,      \* no stage is running
    User,       \* user names
    Dir,        \* directories
    File,       \* configuration files
    Users,      \* Users[p]: the USER lines of p's +USERGROUP, sorted
    Dirs,       \* Dirs[p]: the DIR lines of p's +DIRS, sorted
    Files,      \* Files[p]: the FILE lines of p's +FILES, sorted
    Above,      \* Above[r]: the directories that lead to r
    Managed,    \* the users, and what has the flag "f", or all with PKG_CONFIG=yes
    MaxStages,  \* bound on the number of stages that are run
    Kills       \* whether a stage may be killed

Resource == User \cup Dir \cup File

ASSUME NoPkgAssumption == NoPkg \notin Pkg
ASSUME KindAssumption ==
    User \cap Dir = {} /\ User \cap File = {} /\ Dir \cap File = {}
ASSUME ListAssumption ==
    Users \in [Pkg -> Seq(User)] /\ Dirs \in [Pkg -> Seq(Dir)] /\ Files \in [Pkg -> Seq(File)]
ASSUME AboveAssumption ==
    /\ Above \in [Resource -> SUBSET Dir]
    /\ \A r \in Resource : \A d \in Above[r] : d # r /\ Above[d] \subseteq Above[r]
ASSUME BoundsAssumption ==
    User \subseteq Managed /\ Managed \subseteq Resource /\ MaxStages \in Nat /\ Kills \in BOOLEAN

VARIABLES
    present,    \* resources that exist
    changed,    \* files whose contents differ from the example of the package
    shadow,     \* resources that have a shadow directory
    preexist,   \* resources with a +PREEXISTING
    token,      \* token[r]: the packages with a token in r's shadow directory
    recorded,   \* packages with a directory in PKG_DBDIR
    done,       \* packages whose POST-INSTALL stage has ended
    pkg,        \* PKGNAME of the running stage
    stage,      \* the running stage
    todo,       \* resources the stage has not finished with
    at,         \* where the script is with the first of them
    stages,     \* stages so far
    before,     \* history: what was there before the packages
    shared,     \* history: resources that have had two tokens at a time
    lost,       \* history: resources at which a stage was killed that was noting
                \* or clearing what was there before
    broken      \* history: a stage was killed or an installation failed

dbVars == <<shadow, preexist, token>>
cmdVars == <<recorded, done, pkg, stage, stages>>
histVars == <<before, shared, lost, broken>>
vars == <<present, changed, dbVars, cmdVars, todo, at, histVars>>

cur == Head(todo)
Adding == stage \in {"PRE-INSTALL", "POST-INSTALL"}

\* S and the directories that lead to r: mkdir -p.
WithPath(S, r) == S \cup {r} \cup (IF r \in Dir THEN Above[r] ELSE {})

\* What rmdir -p removes of the directories in S, where those in Busy hold
\* something besides directories: r and what leads to it, up to the first
\* directory that is not empty.
RmdirP(S, Busy, r) ==
    LET path == {r} \cup (IF r \in Dir THEN Above[r] ELSE {}) IN
    {d \in path : /\ r \in S
                  /\ {x \in S : d \in Above[x]} \subseteq path
                  /\ {x \in path : x = d \/ d \in Above[x]} \cap Busy = {}}

\* The shadow directories under one top with r's: those of directories are
\* in a tree of their own.
Tree(r) == IF r \in Dir THEN Dir ELSE {r}

-----------------------------------------------------------------------------
(* The stages of install and deinstall.                                    *)

Start(p, s, list) ==
    /\ stages < MaxStages /\ stages' = stages + 1
    /\ pkg' = p /\ stage' = s /\ todo' = list
    /\ at' = IF s \in {"PRE-INSTALL", "POST-INSTALL"} THEN "shadow" ELSE "check"
    /\ UNCHANGED <<present, changed, dbVars, histVars>>

\* pkg_add p, from write_meta_data on; +FILES follows once p is extracted.
Install(p) ==
    /\ pkg = NoPkg /\ p \notin recorded
    /\ Start(p, "PRE-INSTALL", Users[p] \o Dirs[p])
    /\ recorded' = recorded \cup {p}
    /\ UNCHANGED done

\* pkg_delete p.
Deinstall(p) ==
    /\ pkg = NoPkg /\ p \in recorded
    /\ Start(p, "DEINSTALL", Reverse(Files[p]))
    /\ done' = done \ {p}
    /\ UNCHANGED recorded

\* The next stage, or the end of pkg_add or pkg_delete.
StageDone ==
    /\ pkg # NoPkg /\ todo = <<>>
    /\ \/ /\ stage = "PRE-INSTALL"
          /\ stage' = "POST-INSTALL" /\ todo' = Files[pkg] /\ at' = "shadow"
          /\ UNCHANGED <<recorded, done, pkg>>
       \/ /\ stage = "DEINSTALL"
          /\ stage' = "POST-DEINSTALL" /\ at' = "check"
          /\ todo' = Reverse(Dirs[pkg]) \o Users[pkg]
          /\ UNCHANGED <<recorded, done, pkg>>
       \/ /\ stage = "POST-INSTALL"
          /\ pkg' = NoPkg /\ done' = done \cup {pkg}
          /\ UNCHANGED <<recorded, stage, todo, at>>
       \/ /\ stage = "POST-DEINSTALL"
          /\ pkg' = NoPkg /\ recorded' = recorded \ {pkg}
          /\ UNCHANGED <<done, stage, todo, at>>
    /\ UNCHANGED <<present, changed, dbVars, stages, histVars>>

\* The installation fails: +USERGROUP CHECK-ADD finds a user missing, a file
\* cannot be extracted, or the last script of POST-INSTALL fails.  pkg_add
\* takes the package out again without running its +DEINSTALL.
InstallFails ==
    /\ pkg # NoPkg /\ Adding
    /\ todo = <<>> \/ (stage = "PRE-INSTALL" /\ at = "shadow" /\ todo = Dirs[pkg])
    /\ pkg' = NoPkg /\ todo' = <<>>
    /\ recorded' = recorded \ {pkg}
    /\ broken' = TRUE
    /\ UNCHANGED <<present, changed, dbVars, done, stage, at, stages,
                   before, shared, lost>>

\* The process is killed: the package stays recorded, the rest is not done.
Kill ==
    /\ Kills /\ pkg # NoPkg
    /\ pkg' = NoPkg
    /\ lost' = IF todo # <<>> /\ at \in {"note", "untoken", "unshadow"}
               THEN lost \cup {cur} ELSE lost
    /\ todo' = <<>> /\ broken' = TRUE
    /\ UNCHANGED <<present, changed, dbVars, recorded, done, stage, at, stages,
                   before, shared>>

\* The administrator edits a file.
Edit(f) ==
    /\ pkg = NoPkg /\ f \in present \ changed
    /\ changed' = changed \cup {f}
    /\ UNCHANGED <<present, dbVars, cmdVars, todo, at, histVars>>

-----------------------------------------------------------------------------
(* ADD, for one resource.                                                  *)

\* mkdir -p $shadow_dir, if it is not there.
AddShadow ==
    /\ pkg # NoPkg /\ Adding /\ todo # <<>> /\ at = "shadow"
    /\ IF cur \in shadow THEN at' = "token" /\ UNCHANGED shadow
       ELSE at' = "note" /\ shadow' = WithPath(shadow, cur)
    /\ UNCHANGED <<present, changed, preexist, token, cmdVars, todo, histVars>>

\* Mutant: what is there before is only noted for directories.
NoteDir ==
    /\ pkg # NoPkg /\ Adding /\ todo # <<>> /\ at = "note"
    /\ preexist' = IF cur \in present \cap Dir THEN preexist \cup {cur} ELSE preexist
    /\ at' = "token"
    /\ UNCHANGED <<present, changed, shadow, token, cmdVars, todo, histVars>>

\* echo > $preexist, if the resource is there.
AddNote ==
    /\ pkg # NoPkg /\ Adding /\ todo # <<>> /\ at = "note"
    /\ preexist' = IF cur \in present THEN preexist \cup {cur} ELSE preexist
    /\ at' = "token"
    /\ UNCHANGED <<present, changed, shadow, token, cmdVars, todo, histVars>>

\* echo >> $token, unless the line is there.
AddToken ==
    /\ pkg # NoPkg /\ Adding /\ todo # <<>> /\ at = "token"
    /\ token' = [token EXCEPT ![cur] = @ \cup {pkg}]
    /\ shared' = IF token[cur] \ {pkg} # {} THEN shared \cup {cur} ELSE shared
    /\ at' = "create"
    /\ UNCHANGED <<present, changed, shadow, preexist, cmdVars, todo, before, lost,
                   broken>>

\* mkdir -p, addgroup and adduser, or cp of the example.
AddCreate ==
    /\ pkg # NoPkg /\ Adding /\ todo # <<>> /\ at = "create"
    /\ present' = IF cur \notin Managed \/ (cur \in File /\ ~(Above[cur] \subseteq present))
                  THEN present ELSE WithPath(present, cur)
    /\ todo' = Tail(todo) /\ at' = "shadow"
    /\ UNCHANGED <<changed, dbVars, cmdVars, histVars>>

-----------------------------------------------------------------------------
(* REMOVE, for one resource.                                               *)

\* The token holds the line of the package, or there is nothing to do.
RemoveCheck ==
    /\ pkg # NoPkg /\ ~Adding /\ todo # <<>> /\ at = "check"
    /\ IF pkg \in token[cur] THEN at' = "resource" /\ UNCHANGED todo
       ELSE todo' = Tail(todo) /\ UNCHANGED at
    /\ UNCHANGED <<present, changed, dbVars, cmdVars, histVars>>

\* Mutant: the file is removed without comparing it with the example.
Uncompared ==
    IF cur \in preexist \cup User \/ cur \notin Managed THEN {}
    ELSE IF cur \in File THEN {cur}
    ELSE RmdirP(present, {}, cur)

\* What goes with the registration: nothing that was there before, a file
\* that is still the example (cmp), a directory that is empty and then those
\* above it; never a user.
Removable ==
    IF cur \in preexist \cup User \/ cur \notin Managed THEN {}
    ELSE IF cur \in File THEN {cur} \ changed
    ELSE RmdirP(present, {}, cur)

\* rmdir -p $dir, or rm -f $file.
RemoveResource ==
    /\ pkg # NoPkg /\ ~Adding /\ todo # <<>> /\ at = "resource"
    /\ present' = present \ Removable
    /\ at' = "forget"
    /\ UNCHANGED <<changed, dbVars, cmdVars, todo, histVars>>

\* Mutant: +PREEXISTING is left behind.
KeepNote ==
    /\ pkg # NoPkg /\ ~Adding /\ todo # <<>> /\ at = "forget"
    /\ at' = "untoken"
    /\ UNCHANGED <<present, changed, dbVars, cmdVars, todo, histVars>>

\* rm -f $preexist $token removes the note, whoever else has a token, ...
RemoveNote ==
    /\ pkg # NoPkg /\ ~Adding /\ todo # <<>> /\ at = "forget"
    /\ preexist' = preexist \ {cur}
    /\ at' = "untoken"
    /\ UNCHANGED <<present, changed, shadow, token, cmdVars, todo, histVars>>

\* ... and then the token.
RemoveToken ==
    /\ pkg # NoPkg /\ ~Adding /\ todo # <<>> /\ at = "untoken"
    /\ token' = [token EXCEPT ![cur] = @ \ {pkg}]
    /\ at' = "unshadow"
    /\ UNCHANGED <<present, changed, shadow, preexist, cmdVars, todo, histVars>>

\* rmdir -p $shadow_dir, which fails while it holds anything.
RemoveShadow ==
    /\ pkg # NoPkg /\ ~Adding /\ todo # <<>> /\ at = "unshadow"
    /\ LET busy == preexist \cup {r \in Resource : token[r] # {}} IN
       shadow' = shadow \ RmdirP(shadow \cap Tree(cur), busy, cur)
    /\ todo' = Tail(todo) /\ at' = "check"
    /\ UNCHANGED <<present, changed, preexist, token, cmdVars, histVars>>

-----------------------------------------------------------------------------
Init ==
    /\ before \in SUBSET Resource
    /\ \A r \in before : Above[r] \subseteq before
    /\ present = before
    /\ changed \in SUBSET (before \cap File)
    /\ shadow = {} /\ preexist = {} /\ token = [r \in Resource |-> {}]
    /\ recorded = {} /\ done = {} /\ pkg = NoPkg
    /\ stage = "PRE-INSTALL" /\ todo = <<>> /\ at = "shadow"
    /\ stages = 0 /\ shared = {} /\ lost = {} /\ broken = FALSE

Next ==
    \/ \E p \in Pkg : Install(p) \/ Deinstall(p)
    \/ StageDone \/ InstallFails \/ Kill
    \/ \E f \in File : Edit(f)
    \/ AddShadow \/ AddNote \/ AddToken \/ AddCreate
    \/ RemoveCheck \/ RemoveResource \/ RemoveNote \/ RemoveToken \/ RemoveShadow

Spec == Init /\ [][Next]_vars

-----------------------------------------------------------------------------
(* Properties.                                                             *)

\* The type invariant.
TypeOK ==
    /\ present \subseteq Resource /\ changed \subseteq File
    /\ shadow \subseteq Resource /\ preexist \subseteq Resource
    /\ token \in [Resource -> SUBSET Pkg]
    /\ recorded \subseteq Pkg /\ done \subseteq Pkg
    /\ pkg \in Pkg \cup {NoPkg}
    /\ stage \in {"PRE-INSTALL", "POST-INSTALL", "DEINSTALL", "POST-DEINSTALL"}
    /\ todo \in Seq(Resource)
    /\ at \in {"shadow", "note", "token", "create", "check", "resource", "forget",
               "untoken", "unshadow"}
    /\ stages \in 0..MaxStages
    /\ before \subseteq Resource /\ shared \subseteq Resource /\ lost \subseteq Resource
    /\ broken \in BOOLEAN

\* "Remove configuration files if they don't differ from the default config
\* file": no stage of any package removes a file that was edited, or that was
\* there before and differs, and none writes over it.
ChangedKept == [][\A f \in changed \cap present : f \in changed' /\ f \in present']_vars

\* A file or user that was there before the packages is there still, as long
\* as one package at a time has registered it and no stage was killed at it
\* between the steps that belong together: making the shadow directory and the
\* note, and removing the note, the token and the shadow directory.
PreexistingKept ==
    \A r \in (before \cap (File \cup User)) \ (shared \cup lost) : r \in present

\* Once all packages are gone, nothing is left of the reference counts, with
\* nested and shared resources, too, unless a stage was killed or failed.
NothingLeft ==
    recorded = {} /\ pkg = NoPkg /\ ~broken =>
        shadow = {} /\ preexist = {} /\ \A r \in Resource : token[r] = {}

\* Directory and file management is "reference-counted": what a package has
\* registered stays until the last package that registered it is removed.
RegisteredPresent ==
    \A p \in done : \A r \in Managed : p \in token[r] => r \in present

-----------------------------------------------------------------------------
(* The inductive strengthening of PreexistingKept.                         *)

\* A script is at the first resource of todo, at one of the places S.
Active(S) == pkg # NoPkg /\ todo # <<>> /\ at \in S

\* The files PreexistingKept speaks of.
Guarded == (before \cap File) \ (shared \cup lost)

\* A guarded file is noted in +PREEXISTING from its shadow directory's first
\* command to its last, its token is that of one package, and where a script
\* removes its registration the token is the script's own and goes last.
KeepInv ==
    /\ Active({"note", "token"}) => cur \in shadow
    /\ Active({"resource", "forget", "untoken"}) => pkg \in token[cur]
    /\ before \cap User \subseteq present
    /\ \A r \in Guarded :
          /\ r \in present
          /\ r \in shadow => r \in preexist \/ (Active({"note", "untoken", "unshadow"}) /\ cur = r)
          /\ token[r] # {} => r \in shadow
          /\ \A p, q \in token[r] : p = q
          /\ Active({"untoken", "unshadow"}) /\ cur = r =>
                r \notin preexist /\ (at = "unshadow" => token[r] = {})

-----------------------------------------------------------------------------
(* The inductive strengthening of NothingLeft.                             *)

\* The resources on the lists of p.
Listed(p) == Range(Users[p]) \cup Range(Dirs[p]) \cup Range(Files[p])

\* x is the shadow directory of y or on the way to it.
Leads(x, y) == x = y \/ (y \in Dir /\ x \in Above[y])

\* A package with a token is recorded, lists the resource, and while it is
\* being removed, the resource is still to come.
TokenInv ==
    \A r \in Resource : \A p \in token[r] :
        /\ p \in recorded /\ r \in Listed(p)
        /\ p = pkg /\ stage = "DEINSTALL" /\ r \in File => r \in Range(todo)
        /\ p = pkg /\ stage = "POST-DEINSTALL" => r \in Range(todo)

\* What the running stage handles, and where it is with the first resource.
StageInv ==
    pkg # NoPkg =>
        /\ pkg \in recorded
        /\ Adding => Range(todo) \subseteq Listed(pkg)
        /\ todo # <<>> =>
              /\ at \in {"note", "token", "resource", "forget", "untoken", "unshadow"} =>
                    cur \in shadow
              /\ at \in {"resource", "forget", "untoken"} => pkg \in token[cur]
              /\ at = "untoken" => cur \notin preexist
              /\ at = "unshadow" => pkg \notin token[cur]

\* A shadow directory is there because of a token, in it or below, or of the
\* script that is at work there, and whatever leads to it is there; a note is
\* beside a token.
ShadowInv ==
    /\ \A r \in Resource : token[r] # {} => r \in shadow
    /\ \A r \in preexist : token[r] # {} \/ (Active({"token"}) /\ cur = r)
    /\ \A r \in shadow \cap Dir : Above[r] \subseteq shadow
    /\ \A x \in shadow : \E y \in Resource :
          /\ Leads(x, y)
          /\ token[y] # {} \/ (Active({"note", "token", "unshadow"}) /\ cur = y)

CountInv == ~broken => TokenInv /\ StageInv /\ ShadowInv
=============================================================================
