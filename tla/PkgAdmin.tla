------------------------------ MODULE PkgAdmin ------------------------------
(***************************************************************************)
(* pkg_admin(1) on the databases that pkg_add leaves behind: rebuild writes*)
(* the file index again from the packing lists, rebuild-tree the files     *)
(* +REQUIRED_BY from the dependencies, add enters the files of named       *)
(* packages, set and unset change the automatic mark.  The tools run one   *)
(* after the other.  The other commands leave the package database alone.  *)
(*                                                                         *)
(* rebuild and add store files under the @name of the packing list, which  *)
(* differs from the directory's for one that pkg_add -U has left.          *)
(***************************************************************************)
EXTENDS PkgAdd

CONSTANT MaxAdmin   \* bound on the number of invocations of pkg_admin
ASSUME MaxAdminAssumption == MaxAdmin \in Nat

VARIABLES
    cmd,        \* what pkg_admin is at, or which command it has finished
    left,       \* entries of PKG_DBDIR it has not read in this pass
    who,        \* package whose dependencies are being resolved
    pats,       \* its @pkgdep patterns that are not resolved
    admins      \* invocations so far

adminVars == <<cmd, left, who, pats, admins>>
toolsVars == <<vars, adminVars>>

\* pkg_admin is not running; the last two right after a command succeeded.
Idle == {"none", "indexed", "treed"}

\* @name of the packing list in the directory d.
Name(d) == IF \E p \in Pkg : Temp[p] = d /\ p # d
           THEN CHOOSE p \in Pkg : Temp[p] = d /\ p # d ELSE d

Begin(c) ==
    /\ ~running /\ cmd \in Idle /\ admins < MaxAdmin
    /\ admins' = admins + 1
    /\ cmd' = c /\ left' = entries /\ who' = NoPkg /\ pats' = {}
    /\ UNCHANGED <<cmdVars, stack, files, bad, histVars>>

\* An entry without +CONTENTS: errx.
Abort == cmd' = "none" /\ left' = {} /\ who' = NoPkg /\ pats' = {}

-----------------------------------------------------------------------------
(* rebuild.                                                                *)

\* The index is unlinked.
Rebuild ==
    /\ Begin("index")
    /\ owner' = [f \in File |-> NoPkg]
    /\ UNCHANGED <<treeVars, disk>>

\* Mutant: files are stored without a look at the file system.
Unlooked(d) == Contents[d]

\* The files of the packing list that are there.
OnFilesystem(d) == Contents[d] \cap disk

\* add_pkg for the next entry, in any order.
AddPkg(d) ==
    /\ cmd = "index" /\ d \in left
    /\ \/ /\ d \in contents
          /\ owner' = Stored(OnFilesystem(d), Name(d))
          /\ left' = left \ {d}
          /\ UNCHANGED <<cmd, who, pats>>
       \/ /\ d \notin contents
          /\ Abort
          /\ UNCHANGED owner
    /\ UNCHANGED <<treeVars, disk, cmdVars, stack, files, bad, histVars, admins>>

-----------------------------------------------------------------------------
(* rebuild-tree.                                                           *)

RebuildTree == Begin("remove") /\ UNCHANGED dbVars

\* Mutant: the lines are left, and only appended to.
RemoveNothing(d) ==
    /\ cmd = "remove" /\ d \in left
    /\ left' = left \ {d}
    /\ UNCHANGED <<dbVars, cmdVars, stack, files, bad, histVars, cmd, who, pats, admins>>

\* The +REQUIRED_BY of the next entry is unlinked.
RemoveRequiredBy(d) ==
    /\ cmd = "remove" /\ d \in left
    /\ reqby' = [reqby EXCEPT ![d] = {}]
    /\ left' = left \ {d}
    /\ UNCHANGED <<entries, contents, preserved, automatic, indexVars, cmdVars, stack,
                   files, bad, histVars, cmd, who, pats, admins>>

\* add_depends_of for the next entry.
AddDependsOf(d) ==
    /\ cmd = "add" /\ who = NoPkg /\ d \in left
    /\ \/ /\ d \in contents
          /\ who' = d /\ pats' = Deps[d] /\ left' = left \ {d}
          /\ UNCHANGED cmd
       \/ /\ d \notin contents
          /\ Abort
    /\ UNCHANGED <<dbVars, cmdVars, stack, files, bad, histVars, admins>>

\* add_required_by: the best installed match gets the line, if there is one.
AddRequiredBy(pt) ==
    /\ cmd = "add" /\ who # NoPkg /\ pt \in pats
    /\ pats' = pats \ {pt}
    /\ \/ \E d \in Best(Installed(pt)) : reqby' = [reqby EXCEPT ![d] = @ \cup {who}]
       \/ Installed(pt) = {} /\ UNCHANGED reqby
    /\ UNCHANGED <<entries, contents, preserved, automatic, indexVars, cmdVars, stack,
                   files, bad, histVars, cmd, left, who, admins>>

DependsAdded ==
    /\ cmd = "add" /\ who # NoPkg /\ pats = {}
    /\ who' = NoPkg
    /\ UNCHANGED <<vars, cmd, left, pats, admins>>

\* A pass over PKG_DBDIR ends.
PassDone ==
    /\ cmd \notin Idle /\ left = {} /\ who = NoPkg
    /\ cmd' = CASE cmd = "index" -> "indexed"
                [] cmd = "remove" -> "add"
                [] cmd = "add" -> "treed"
    /\ left' = IF cmd = "remove" THEN entries ELSE {}
    /\ UNCHANGED <<vars, who, pats, admins>>

-----------------------------------------------------------------------------
\* pkg_admin add d: add_pkg without the unlink.  The index is closed after every
\* package, so that several arguments are as many commands.
Add(d) ==
    /\ Begin("none") /\ d \in contents
    /\ owner' = Stored(OnFilesystem(d), Name(d))
    /\ UNCHANGED <<treeVars, disk>>

\* pkg_admin set automatic=..., unset automatic.
SetAutomatic(d) ==
    /\ Begin("none") /\ d \in entries
    /\ automatic' \in {automatic \cup {d}, automatic \ {d}}
    /\ UNCHANGED <<entries, contents, reqby, preserved, indexVars>>

\* pkg_admin is killed, or an operation on a file fails.
AdminCrash ==
    /\ Crashes /\ cmd \notin Idle
    /\ Abort
    /\ UNCHANGED <<vars, admins>>

AdminStep ==
    \/ \E d \in Pkg : AddPkg(d) \/ RemoveRequiredBy(d) \/ AddDependsOf(d)
    \/ \E pt \in Pattern : AddRequiredBy(pt)
    \/ DependsAdded \/ PassDone

ToolsInit ==
    /\ Init
    /\ cmd = "none" /\ left = {} /\ who = NoPkg /\ pats = {} /\ admins = 0

\* pkg_add, while pkg_admin does not run.
Adds(A) == cmd \in Idle /\ A /\ cmd' = "none" /\ UNCHANGED <<left, who, pats, admins>>

ToolsNext ==
    \/ Adds(Next)
    \/ Rebuild \/ RebuildTree \/ \E d \in Pkg : Add(d) \/ SetAutomatic(d)
    \/ AdminStep \/ AdminCrash

\* A tool that has been started is scheduled until it ends.
ToolsFairness == WF_toolsVars(Adds(Step)) /\ WF_toolsVars(AdminStep)

ToolsSpec == ToolsInit /\ [][ToolsNext]_toolsVars /\ ToolsFairness

-----------------------------------------------------------------------------
(* Properties.                                                             *)

\* "Rebuild the package database mapping from scratch": whatever failures and
\* kills have left, and in whatever order readdir shows the packages, a rebuild
\* that succeeds indexes just the files that are there and that a packing list
\* has, under the name of a package that has them.
IndexRebuilt ==
    cmd = "indexed" => \A f \in File :
        LET S == {Name(d) : d \in {e \in entries : f \in Contents[e]}} IN
        IF f \in disk /\ S # {} THEN owner[f] \in S ELSE owner[f] = NoPkg

\* "Rebuild the +REQUIRED_BY files from scratch": after a rebuild-tree that
\* succeeds, every installed package is listed at the newest installed match of
\* each of its patterns and nowhere else, lines of packages that are gone
\* included.
TreeRebuilt ==
    cmd = "treed" => \A d \in Pkg :
        reqby[d] = {q \in contents : \E pt \in Deps[q] : d \in Best(Installed(pt))}

\* Every invocation of pkg_add and pkg_admin ends.
ToolsTerminate == running \/ cmd \notin Idle ~> ~running /\ cmd \in Idle
=============================================================================
