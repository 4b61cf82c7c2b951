--------------------------- MODULE PkgAdminProofs ---------------------------
(***************************************************************************)
(* Proofs for pkg_admin: a rebuild that succeeds repairs whatever          *)
(* installations, their failures and kills have left.                      *)
(***************************************************************************)
EXTENDS PkgAdmin, PkgAddProofs

\* Where pkg_admin is; it does not run beside pkg_add.
PlaceInv ==
    /\ cmd \in Idle \cup {"index", "remove", "add"}
    /\ cmd \notin Idle => ~running /\ left \subseteq entries
    /\ who \in Pkg \cup {NoPkg} /\ pats \subseteq Pattern
    /\ cmd # "add" => who = NoPkg

\* A +REQUIRED_BY is in a directory of PKG_DBDIR.
RequiredByInv == \A d \in Pkg \ entries : reqby[d] = {}

\* The index w is that of the packages in S, whose files are on the disk k.
IndexOf(S, w, k) ==
    \A f \in File :
       /\ w[f] # NoPkg => f \in k /\ \E d \in S : f \in Contents[d] /\ w[f] = Name(d)
       /\ w[f] = NoPkg => f \notin k \/ \A d \in S : f \notin Contents[d]

\* The index while it is rebuilt, and after.
RebuildInv ==
    /\ cmd = "index" => IndexOf(entries \ left, owner, disk)
    /\ cmd = "indexed" => IndexOf(entries, owner, disk)

\* The lines that rebuild-tree writes for the packages in S, save those for the
\* patterns P of p.
Lines(d, S, p, P) ==
    {q \in S : \E pt \in Deps[q] : ~(q = p /\ pt \in P) /\ d \in Best(Installed(pt))}

\* The +REQUIRED_BY files while they are rebuilt, and after.
TreeInv ==
    /\ cmd = "remove" => \A d \in Pkg \ left : reqby[d] = {}
    /\ cmd = "add" => /\ entries \ left \subseteq contents
                      /\ who # NoPkg => who \in entries \ left /\ pats \subseteq Deps[who]
                      /\ \A d \in Pkg : reqby[d] = Lines(d, entries \ left, who, pats)
    /\ cmd = "treed" => /\ entries \subseteq contents
                        /\ \A d \in Pkg : reqby[d] = Lines(d, entries, NoPkg, {})

AdminInv == TypeInv /\ PlaceInv /\ RequiredByInv /\ RebuildInv /\ TreeInv

-----------------------------------------------------------------------------
(* +REQUIRED_BY under pkg_add.                                             *)

\* No step of pkg_add leaves a +REQUIRED_BY without a directory.
LEMMA RequiredByStep ==
    ASSUME TypeInv, RequiredByInv, [Next]_vars
    PROVE  RequiredByInv'
<1> USE DEF RequiredByInv
<1>1. /\ reqby \in [Pkg -> SUBSET Pkg] /\ entries \subseteq Pkg
  BY DEF TypeInv, DataOK, DBTypeOK
<1> USE DEF dbVars, cmdVars, histVars, indexVars, treeVars
<1>2. CASE UNCHANGED <<entries, reqby>>
  BY <1>2
<1>3. CASE Step /\ stack # <<>>
  <2>1. CASE \/ NextArg \/ Finish
             \/ OpenArchive \/ CheckAlreadyInstalled \/ CheckOtherInstalled \/ CheckConflicts
             \/ WriteMeta \/ MoveRest
             \/ (\E pt \in Pattern : CheckDependency(pt))
             \/ DependencyInstalled \/ DependencyMissing \/ DependenciesDone
    BY <1>2, <2>1 DEF NextArg, Finish, OpenArchive, CheckAlreadyInstalled,
       CheckOtherInstalled, CheckConflicts, WriteMeta, MoveRest, CheckDependency,
       DependencyInstalled, DependencyMissing, DependenciesDone
  <2>2. CASE \/ PreInstall \/ (\E f \in File : ExtractFile(f)) \/ ExtractDone \/ ExtractFail
             \/ PostInstall \/ RegisterDone \/ NukePkg
    BY <1>2, <2>2 DEF PreInstall, ExtractFile, ExtractDone, ExtractFail, PostInstall,
       RegisterDone, NukePkg
  <2>3. CASE MakeDir
    BY <2>3 DEF MakeDir
  <2>4. CASE MoveRequiredBy
    <3>1. top.at = "move" /\ entries' = entries
      BY <2>4 DEF MoveRequiredBy, At
    <3>2. \/ reqby' = reqby
          \/ ~opt.fake /\ reqby' = RequiredAfterMove(top.other, top.dir)
      BY <2>4 DEF MoveRequiredBy
    <3>3. ~opt.fake => top.dir = NoPkg \/ top.dir \in entries
      BY <1>3, <3>1 DEF TypeInv, DirInv, Recording
    <3> QED BY <1>1, <3>1, <3>2, <3>3, NoPkgAssumption DEF RequiredAfterMove
  <2>5. CASE DeleteOld
    <3>1. CASE DeletePackage(top.other)
      BY <1>1, <3>1 DEF DeletePackage
    <3> QED BY <1>2, <2>5, <3>1 DEF DeleteOld
  <2>6. CASE RenameDir
    <3> DEFINE p == top.pkg
               t == Temp[top.pkg]
    <3>1. CASE /\ t # p /\ entries' = Renamed(entries, t, p)
               /\ reqby' = [reqby EXCEPT ![p] = reqby[t], ![t] = {}]
      <4>1. p \in Pkg /\ t \in Pkg
        BY <1>3, <2>6, TopIsFrame, TempAssumption DEF RenameDir, At, FrameOK
      <4>2. \A d \in Pkg : reqby'[d] = IF d = t THEN {} ELSE IF d = p THEN reqby[t] ELSE reqby[d]
        BY <1>1, <3>1, <4>1
      <4> QED BY <3>1, <4>1, <4>2 DEF Renamed
    <3> QED BY <1>2, <2>6, <3>1 DEF RenameDir
  <2>7. CASE \E d \in Pkg : RegisterDepend(d)
    BY <1>1, <2>7 DEF RegisterDepend
  <2>8. CASE NukeMeta
    BY <1>1, <2>8 DEF NukeMeta
  <2>9. CASE NukeDir
    BY <1>1, <2>9 DEF NukeDir
  <2> QED BY <1>3, <2>1, <2>2, <2>3, <2>4, <2>5, <2>6, <2>7, <2>8, <2>9 DEF Step
<1>4. CASE \/ NextArg \/ Finish \/ Crash \/ UNCHANGED vars
           \/ \E o \in Options : \E a \in Requests[o] : Invoke(o, a)
  BY <1>2, <1>4 DEF NextArg, Finish, Crash, Invoke, vars
<1> QED BY <1>3, <1>4, StepHasFrame DEF Next

-----------------------------------------------------------------------------
(* The steps of pkg_admin.                                                 *)

\* @name is a package.
LEMMA NameType == \A d \in Pkg : Name(d) \in Pkg
  BY DEF Name

\* The database stays well-typed.
LEMMA AdminType ==
    ASSUME TypeInv, stack = <<>>, UNCHANGED <<cmdVars, stack, files, bad, histVars>>, DBTypeOK'
    PROVE  TypeInv'
<1>1. DataOK'
  BY DEF TypeInv, DataOK, cmdVars, histVars
<1>2. StackInv' /\ DirInv'
  <2>1. depth = 0 /\ depth' = 0
    BY EmptySeq DEF depth
  <2> QED BY <2>1 DEF StackInv, DirInv
<1> QED BY <1>1, <1>2 DEF TypeInv

\* At most one match is the best.
LEMMA BestUnique ==
    ASSUME NEW pt \in Pattern, NEW d \in Best(Installed(pt)), NEW e \in Best(Installed(pt))
    PROVE  d = e
<1>1. d \in Match[pt] /\ e \in Match[pt] /\ d \in Pkg /\ e \in Pkg
  BY MatchAssumption DEF Best, Installed
<1>2. Rank[d] <= Rank[e] /\ Rank[e] <= Rank[d] /\ Rank[d] \in Nat /\ Rank[e] \in Nat
  BY <1>1, RankAssumption DEF Best
<1> QED BY <1>1, <1>2, RankAssumption

\* A line of S for p that is still to be written is one of none.
LEMMA NoLines ==
    ASSUME NEW d, NEW S \in SUBSET Pkg, NEW P
    PROVE  Lines(d, S, NoPkg, P) = Lines(d, S, NoPkg, {})
  BY NoPkgAssumption DEF Lines

\* Begin of a command.
LEMMA BeginFacts ==
    ASSUME AdminInv, NEW c, Begin(c)
    PROVE  /\ ~running /\ stack = <<>> /\ running' = running
           /\ UNCHANGED <<cmdVars, stack, files, bad, histVars>>
           /\ cmd' = c /\ left' = entries /\ who' = NoPkg /\ pats' = {}
  BY DEF Begin, AdminInv, TypeInv, StackInv, cmdVars

\* One that changes neither entries nor +REQUIRED_BY files.
LEMMA BeginKeeps ==
    ASSUME AdminInv, NEW c \in {"none", "index", "remove"}, Begin(c), DBTypeOK',
           UNCHANGED <<entries, reqby>>, c = "index" => owner' = [f \in File |-> NoPkg]
    PROVE  AdminInv'
<1>1. /\ ~running /\ stack = <<>> /\ running' = running
      /\ UNCHANGED <<cmdVars, stack, files, bad, histVars>>
      /\ cmd' = c /\ left' = entries /\ who' = NoPkg /\ pats' = {}
  BY BeginFacts
<1>2. TypeInv'
  BY <1>1, AdminType DEF AdminInv
<1>3. PlaceInv' /\ RequiredByInv'
  BY <1>1 DEF AdminInv, PlaceInv, RequiredByInv, Idle
<1>4. RebuildInv'
  BY <1>1 DEF RebuildInv, IndexOf
<1>5. TreeInv'
  BY <1>1 DEF AdminInv, RequiredByInv, TreeInv
<1> QED BY <1>2, <1>3, <1>4, <1>5 DEF AdminInv

\* rebuild and rebuild-tree begin, and add, set and unset.
LEMMA CommandKeeps ==
    ASSUME AdminInv, Rebuild \/ RebuildTree \/ \E d \in Pkg : Add(d) \/ SetAutomatic(d)
    PROVE  AdminInv'
<1>1. DBTypeOK
  BY DEF AdminInv, TypeInv, DataOK
<1>2. CASE Rebuild
  BY <1>1, <1>2, BeginKeeps DEF Rebuild, treeVars, DBTypeOK
<1>3. CASE RebuildTree
  BY <1>1, <1>3, BeginKeeps DEF RebuildTree, dbVars, DBTypeOK
<1>4. CASE \E d \in Pkg : SetAutomatic(d)
  BY <1>1, <1>4, BeginKeeps DEF SetAutomatic, indexVars, DBTypeOK
<1>5. ASSUME NEW d \in Pkg, Add(d) PROVE AdminInv'
  <2>1. Name(d) \in Pkg
    BY NameType
  <2>2. owner' \in [File -> Pkg \cup {NoPkg}]
    BY <1>1, <1>5, <2>1 DEF Add, Stored, DBTypeOK
  <2>3. Begin("none") /\ UNCHANGED <<entries, contents, reqby, preserved, automatic, disk>>
    BY <1>5 DEF Add, treeVars
  <2>4. DBTypeOK'
    BY <1>1, <2>2, <2>3 DEF DBTypeOK
  <2> QED BY <2>3, <2>4, BeginKeeps
<1> QED BY <1>2, <1>3, <1>4, <1>5

\* A command ends before it is done.
LEMMA AbortKeeps ==
    ASSUME AdminInv, Abort, UNCHANGED vars
    PROVE  AdminInv'
<1>1. TypeInv'
  BY TypeStep DEF AdminInv
<1>2. cmd' = "none" /\ left' = {} /\ who' = NoPkg /\ pats' = {} /\ UNCHANGED <<entries, reqby>>
  BY DEF Abort, vars, dbVars
<1>3. PlaceInv' /\ RequiredByInv'
  BY <1>2 DEF AdminInv, PlaceInv, RequiredByInv, Idle
<1>4. RebuildInv' /\ TreeInv'
  BY <1>2 DEF RebuildInv, TreeInv
<1> QED BY <1>1, <1>3, <1>4 DEF AdminInv

\* add_pkg enters the files of one package more.
LEMMA AddPkgKeeps ==
    ASSUME AdminInv, NEW d \in Pkg, AddPkg(d)
    PROVE  AdminInv'
<1>1. CASE Abort
  <2>1. d \notin contents => owner' = owner
    BY DEF AddPkg, Abort, AdminInv, PlaceInv
  <2>2. cmd' # cmd
    BY <1>1 DEF AddPkg, Abort
  <2>3. UNCHANGED vars
    BY <2>1, <2>2 DEF AddPkg, vars, dbVars, treeVars
  <2> QED BY <1>1, <2>3, AbortKeeps
<1>2. CASE /\ owner' = Stored(OnFilesystem(d), Name(d))
           /\ left' = left \ {d} /\ UNCHANGED <<cmd, who, pats>>
  <2>1. /\ cmd = "index" /\ d \in left
        /\ UNCHANGED <<treeVars, disk, cmdVars, stack, files, bad, histVars>>
    BY DEF AddPkg
  <2>2. /\ UNCHANGED <<entries, contents, reqby, preserved, automatic, disk, running>>
        /\ stack = <<>> /\ DBTypeOK /\ left \subseteq entries
    BY <2>1 DEF AdminInv, TypeInv, StackInv, DataOK, PlaceInv, Idle, treeVars, cmdVars
  <2>3. Name(d) \in Pkg /\ Name(d) # NoPkg
    BY NameType, NoPkgAssumption
  <2>4. \A f \in File : owner'[f] = IF f \in Contents[d] /\ f \in disk /\ owner[f] = NoPkg
                                    THEN Name(d) ELSE owner[f]
    BY <1>2 DEF Stored, OnFilesystem
  <2>5. owner' \in [File -> Pkg \cup {NoPkg}]
    BY <1>2, <2>2, <2>3 DEF Stored, DBTypeOK
  <2>6. TypeInv'
    <3>1. DBTypeOK'
      BY <2>2, <2>5 DEF DBTypeOK
    <3> QED BY <2>1, <2>2, <3>1, AdminType DEF AdminInv
  <2>7. PlaceInv' /\ RequiredByInv'
    BY <1>2, <2>1, <2>2 DEF AdminInv, PlaceInv, RequiredByInv
  <2>8. RebuildInv'
    <3>1. IndexOf(entries \ left, owner, disk)
      BY <2>1 DEF AdminInv, RebuildInv
    <3>2. entries \ left' = (entries \ left) \cup {d}
      BY <1>2, <2>1, <2>2
    <3>3. IndexOf((entries \ left) \cup {d}, owner', disk)
      BY <2>3, <2>4, <3>1 DEF IndexOf
    <3>4. IndexOf(entries' \ left', owner', disk')
      BY <2>2, <3>2, <3>3
    <3> QED BY <1>2, <2>1, <3>4 DEF RebuildInv
  <2>9. TreeInv'
    BY <1>2, <2>1 DEF TreeInv
  <2> QED BY <2>6, <2>7, <2>8, <2>9 DEF AdminInv
<1> QED BY <1>1, <1>2 DEF AddPkg

\* The first pass of rebuild-tree.
LEMMA RemoveKeeps ==
    ASSUME AdminInv, NEW d \in Pkg, RemoveRequiredBy(d)
    PROVE  AdminInv'
<1>1. /\ cmd = "remove" /\ d \in left /\ reqby' = [reqby EXCEPT ![d] = {}]
      /\ left' = left \ {d} /\ UNCHANGED <<cmd, who, pats>>
      /\ UNCHANGED <<entries, contents, preserved, automatic, disk, owner>>
      /\ UNCHANGED <<cmdVars, stack, files, bad, histVars>>
  BY DEF RemoveRequiredBy, indexVars
<1>2. stack = <<>> /\ DBTypeOK /\ running' = running /\ left \subseteq entries
  BY <1>1 DEF AdminInv, TypeInv, StackInv, DataOK, PlaceInv, Idle, cmdVars
<1>3. reqby' \in [Pkg -> SUBSET Pkg]
      /\ \A e \in Pkg : reqby'[e] = IF e = d THEN {} ELSE reqby[e]
  BY <1>1, <1>2 DEF DBTypeOK
<1>4. TypeInv'
  <2>1. DBTypeOK'
    BY <1>1, <1>2, <1>3 DEF DBTypeOK
  <2> QED BY <1>1, <1>2, <2>1, AdminType DEF AdminInv
<1>5. PlaceInv' /\ RequiredByInv'
  BY <1>1, <1>2, <1>3 DEF AdminInv, PlaceInv, RequiredByInv
<1>6. RebuildInv'
  BY <1>1 DEF RebuildInv
<1>7. TreeInv'
  BY <1>1, <1>3 DEF AdminInv, TreeInv
<1> QED BY <1>4, <1>5, <1>6, <1>7 DEF AdminInv

\* What is left to show of a step of the second pass.
LEMMA AddingKeeps ==
    ASSUME AdminInv, cmd = "add", cmd' = "add", left' \subseteq entries,
           who' \in Pkg \cup {NoPkg}, pats' \subseteq Pattern,
           reqby' \in [Pkg -> SUBSET Pkg], \A e \in Pkg \ entries : reqby'[e] = {},
           UNCHANGED <<entries, contents, preserved, automatic, disk, owner>>,
           UNCHANGED <<cmdVars, stack, files, bad, histVars>>, TreeInv'
    PROVE  AdminInv'
<1>1. stack = <<>> /\ DBTypeOK /\ running' = running
  BY DEF AdminInv, TypeInv, StackInv, DataOK, PlaceInv, Idle, cmdVars
<1>2. TypeInv'
  <2>1. DBTypeOK'
    BY <1>1 DEF DBTypeOK
  <2> QED BY <1>1, <2>1, AdminType DEF AdminInv
<1>3. PlaceInv' /\ RequiredByInv'
  BY <1>1 DEF AdminInv, PlaceInv, RequiredByInv
<1>4. RebuildInv'
  BY DEF RebuildInv
<1> QED BY <1>2, <1>3, <1>4 DEF AdminInv

\* The next package of the second pass has no lines yet.
LEMMA AddDependsKeeps ==
    ASSUME AdminInv, NEW d \in Pkg, AddDependsOf(d)
    PROVE  AdminInv'
<1>1. cmd = "add" /\ who = NoPkg /\ d \in left /\ UNCHANGED vars
  BY DEF AddDependsOf, vars
<1>2. CASE Abort
  BY <1>1, <1>2, AbortKeeps
<1>3. CASE /\ d \in contents /\ who' = d /\ pats' = Deps[d] /\ left' = left \ {d}
           /\ cmd' = cmd
  <2>1. /\ UNCHANGED <<entries, contents, preserved, automatic, disk, owner, reqby>>
        /\ UNCHANGED <<cmdVars, stack, files, bad, histVars>>
    BY <1>1 DEF vars, dbVars
  <2>2. /\ left \subseteq entries /\ entries \subseteq Pkg /\ reqby \in [Pkg -> SUBSET Pkg]
        /\ \A e \in Pkg \ entries : reqby[e] = {}
    BY <1>1 DEF AdminInv, TypeInv, DataOK, DBTypeOK, PlaceInv, Idle, RequiredByInv
  <2>3. /\ entries \ left \subseteq contents
        /\ \A e \in Pkg : reqby[e] = Lines(e, entries \ left, NoPkg, pats)
    BY <1>1 DEF AdminInv, TreeInv
  <2>4. entries \ left' = (entries \ left) \cup {d} /\ d # NoPkg
    BY <1>1, <1>3, <2>2, NoPkgAssumption
  <2>5. \A e \in Pkg : Lines(e, entries \ left', d, Deps[d]) = Lines(e, entries \ left, NoPkg, pats)
    <3> TAKE e \in Pkg
    <3>1. \A q \in entries \ left : q # d /\ q # NoPkg
      BY <1>1, <2>2, NoPkgAssumption
    <3> QED BY <2>4, <3>1 DEF Lines
  <2>6. TreeInv'
    <3>1. \A e \in Pkg : reqby'[e] = Lines(e, entries \ left', who', pats')
      BY <1>3, <2>1, <2>3, <2>5
    <3>2. \A e \in Pkg : reqby'[e] = Lines(e, entries \ left, who, pats)'
      BY <2>1, <3>1 DEF Lines, Best, Installed
    <3> QED BY <1>1, <1>3, <2>1, <2>3, <2>4, <3>2 DEF TreeInv
  <2> QED BY <1>1, <1>3, <2>1, <2>2, <2>6, DepsAssumption, AddingKeeps
<1> QED BY <1>2, <1>3 DEF AddDependsOf

\* add_required_by writes the line for one pattern more.
LEMMA AddRequiredByKeeps ==
    ASSUME AdminInv, NEW pt \in Pattern, AddRequiredBy(pt)
    PROVE  AdminInv'
<1>1. /\ cmd = "add" /\ who # NoPkg /\ pt \in pats /\ pats' = pats \ {pt}
      /\ UNCHANGED <<entries, contents, preserved, automatic, disk, owner>>
      /\ UNCHANGED <<cmdVars, stack, files, bad, histVars>>
      /\ UNCHANGED <<cmd, left, who, admins>>
  BY DEF AddRequiredBy, indexVars
<1>2. /\ left \subseteq entries /\ entries \subseteq Pkg /\ reqby \in [Pkg -> SUBSET Pkg]
      /\ who \in Pkg /\ pats \subseteq Pattern
      /\ \A e \in Pkg \ entries : reqby[e] = {}
  BY <1>1 DEF AdminInv, TypeInv, DataOK, DBTypeOK, PlaceInv, Idle, RequiredByInv
<1>3. /\ who \in entries \ left /\ pt \in Deps[who]
      /\ \A e \in Pkg : reqby[e] = Lines(e, entries \ left, who, pats)
  BY <1>1 DEF AdminInv, TreeInv
<1>4. \A e \in Pkg : Lines(e, entries \ left, who, pats \ {pt})
                       = Lines(e, entries \ left, who, pats)
                           \cup (IF e \in Best(Installed(pt)) THEN {who} ELSE {})
  BY <1>1, <1>3 DEF Lines
<1>5. /\ reqby' \in [Pkg -> SUBSET Pkg]
      /\ \A e \in Pkg : reqby'[e] = reqby[e] \cup (IF e \in Best(Installed(pt)) THEN {who} ELSE {})
  <2>1. CASE Installed(pt) = {} /\ UNCHANGED reqby
    <3>1. Best(Installed(pt)) = {}
      BY <2>1 DEF Best
    <3> QED BY <1>2, <2>1, <3>1
  <2>2. CASE \E d \in Best(Installed(pt)) : reqby' = [reqby EXCEPT ![d] = @ \cup {who}]
    <3>1. PICK d \in Best(Installed(pt)) : reqby' = [reqby EXCEPT ![d] = @ \cup {who}]
      BY <2>2
    <3>2. \A e \in Best(Installed(pt)) : e = d
      BY BestUnique
    <3>3. d \in Pkg
      BY MatchAssumption DEF Best, Installed
    <3> QED BY <1>2, <3>1, <3>2, <3>3
  <2> QED BY <2>1, <2>2 DEF AddRequiredBy
<1>6. \A e \in Pkg \ entries : reqby'[e] = {}
  <2>1. Best(Installed(pt)) \subseteq entries
    BY DEF Best, Installed
  <2> QED BY <1>2, <1>5, <2>1
<1>7. TreeInv'
  <2>1. \A e \in Pkg : reqby'[e] = Lines(e, entries \ left, who, pats \ {pt})
    BY <1>3, <1>4, <1>5
  <2>2. \A e \in Pkg : reqby'[e] = Lines(e, entries \ left, who, pats)'
    BY <1>1, <2>1 DEF Lines, Best, Installed
  <2> QED BY <1>1, <2>2 DEF AdminInv, TreeInv
<1> QED BY <1>1, <1>2, <1>5, <1>6, <1>7, AddingKeeps

\* The package has all its lines.
LEMMA DependsAddedKeeps ==
    ASSUME AdminInv, DependsAdded
    PROVE  AdminInv'
<1>1. /\ cmd = "add" /\ pats = {} /\ who' = NoPkg /\ UNCHANGED <<vars, cmd, left, pats>>
  BY DEF DependsAdded
<1>2. /\ UNCHANGED <<entries, contents, preserved, automatic, disk, owner, reqby>>
      /\ UNCHANGED <<cmdVars, stack, files, bad, histVars>>
  BY <1>1 DEF vars, dbVars
<1>3. /\ left \subseteq entries /\ reqby \in [Pkg -> SUBSET Pkg]
      /\ \A e \in Pkg \ entries : reqby[e] = {}
  BY <1>1 DEF AdminInv, TypeInv, DataOK, DBTypeOK, PlaceInv, Idle, RequiredByInv
<1>4. TreeInv'
  <2>1. \A e \in Pkg : reqby'[e] = Lines(e, entries \ left, NoPkg, {})
    BY <1>1, <1>2 DEF AdminInv, TreeInv, Lines
  <2>2. \A e \in Pkg : reqby'[e] = Lines(e, entries \ left, who, pats)'
    BY <1>1, <1>2, <2>1 DEF Lines, Best, Installed
  <2> QED BY <1>1, <1>2, <2>2 DEF AdminInv, TreeInv
<1> QED BY <1>1, <1>2, <1>3, <1>4, AddingKeeps

\* A pass ends with all directories read.
LEMMA PassDoneKeeps ==
    ASSUME AdminInv, PassDone
    PROVE  AdminInv'
<1>1. /\ cmd \in {"index", "remove", "add"} /\ left = {} /\ who = NoPkg /\ who' = who
      /\ pats' = pats /\ UNCHANGED vars /\ ~running
      /\ cmd' = CASE cmd = "index" -> "indexed" [] cmd = "remove" -> "add" [] cmd = "add" -> "treed"
      /\ left' = IF cmd = "remove" THEN entries ELSE {}
  BY DEF PassDone, AdminInv, PlaceInv
<1>2. TypeInv' /\ UNCHANGED <<entries, contents, disk, owner, reqby, running>>
  BY <1>1, TypeStep DEF AdminInv, vars, dbVars, cmdVars
<1>3. PlaceInv' /\ RequiredByInv'
  BY <1>1, <1>2 DEF AdminInv, PlaceInv, RequiredByInv, Idle
<1>4. RebuildInv'
  <2>1. entries \ left = entries
    BY <1>1
  <2>2. cmd = "index" => IndexOf(entries, owner, disk)
    BY <2>1 DEF AdminInv, RebuildInv
  <2> QED BY <1>1, <1>2, <2>2 DEF RebuildInv
<1>5. TreeInv'
  <2>1. CASE cmd = "index"
    BY <1>1, <2>1 DEF TreeInv
  <2>2. CASE cmd = "remove"
    <3>1. \A d \in Pkg : reqby[d] = {}
      BY <1>1, <2>2 DEF AdminInv, TreeInv
    <3>2. \A d \in Pkg : Lines(d, {}, NoPkg, pats') = {}
      BY DEF Lines
    <3>3. \A d \in Pkg : reqby'[d] = Lines(d, entries \ left, who, pats)'
      <4>1. entries' \ left' = {}
        BY <1>1, <1>2, <2>2
      <4> QED BY <1>1, <1>2, <3>1, <4>1 DEF Lines
    <3> QED BY <1>1, <1>2, <2>2, <3>3 DEF TreeInv
  <2>3. CASE cmd = "add"
    <3>1. entries \ left = entries /\ entries \subseteq Pkg
      BY <1>1 DEF AdminInv, TypeInv, DataOK, DBTypeOK
    <3>2. entries \subseteq contents /\ \A d \in Pkg : reqby[d] = Lines(d, entries, NoPkg, pats)
      BY <1>1, <2>3, <3>1 DEF AdminInv, TreeInv
    <3>3. \A d \in Pkg : reqby[d] = Lines(d, entries, NoPkg, {})
      BY <3>1, <3>2, NoLines
    <3>4. \A d \in Pkg : reqby'[d] = Lines(d, entries, NoPkg, {})'
      BY <1>2, <3>3 DEF Lines, Best, Installed
    <3> QED BY <1>1, <1>2, <2>3, <3>2, <3>4 DEF TreeInv
  <2> QED BY <1>1, <2>1, <2>2, <2>3
<1> QED BY <1>2, <1>3, <1>4, <1>5 DEF AdminInv

-----------------------------------------------------------------------------
\* The condition holds at first.
LEMMA AdminInit == ToolsInit => AdminInv
<1> SUFFICES ASSUME ToolsInit PROVE AdminInv
  OBVIOUS
<1>1. TypeInv
  BY TypeInit DEF ToolsInit
<1>2. PlaceInv /\ RebuildInv /\ TreeInv
  BY DEF ToolsInit, PlaceInv, RebuildInv, TreeInv, Idle
<1>3. RequiredByInv
  BY DEF ToolsInit, Init, DBInit, RequiredByInv
<1> QED BY <1>1, <1>2, <1>3 DEF AdminInv

\* It is kept by every tool, failure and kill.
LEMMA AdminStepKeeps == AdminInv /\ [ToolsNext]_toolsVars => AdminInv'
<1> SUFFICES ASSUME AdminInv, [ToolsNext]_toolsVars PROVE AdminInv'
  OBVIOUS
<1>1. CASE Adds(Next)
  <2>1. /\ cmd' = "none" /\ cmd \in Idle /\ who' = who /\ left' = left /\ pats' = pats
        /\ [Next]_vars
    BY <1>1 DEF Adds
  <2>2. TypeInv' /\ RequiredByInv'
    BY <2>1, TypeStep, RequiredByStep DEF AdminInv
  <2>3. PlaceInv'
    BY <2>1 DEF AdminInv, PlaceInv, Idle
  <2>4. RebuildInv' /\ TreeInv'
    BY <2>1 DEF RebuildInv, TreeInv
  <2> QED BY <2>2, <2>3, <2>4 DEF AdminInv
<1>2. CASE Rebuild \/ RebuildTree \/ \E d \in Pkg : Add(d) \/ SetAutomatic(d)
  BY <1>2, CommandKeeps
<1>3. CASE AdminStep
  BY <1>3, AddPkgKeeps, RemoveKeeps, AddDependsKeeps, AddRequiredByKeeps, DependsAddedKeeps,
     PassDoneKeeps DEF AdminStep
<1>4. CASE AdminCrash
  BY <1>4, AbortKeeps DEF AdminCrash
<1>5. CASE UNCHANGED toolsVars
  <2>1. /\ UNCHANGED vars /\ UNCHANGED <<cmd, left, who, pats>>
        /\ UNCHANGED <<entries, contents, disk, owner, reqby, running>>
    BY <1>5 DEF toolsVars, adminVars, vars, dbVars, cmdVars
  <2>2. TypeInv'
    BY <2>1, TypeStep DEF AdminInv
  <2>3. PlaceInv' /\ RequiredByInv' /\ RebuildInv'
    BY <2>1 DEF AdminInv, PlaceInv, RequiredByInv, RebuildInv
  <2>4. TreeInv'
    BY <2>1 DEF AdminInv, TreeInv, Lines, Best, Installed
  <2> QED BY <2>2, <2>3, <2>4 DEF AdminInv
<1> QED BY <1>1, <1>2, <1>3, <1>4, <1>5 DEF ToolsNext

\* A rebuild that succeeds indexes what is there, whatever was left.
THEOREM IndexCorrect == ToolsSpec => []IndexRebuilt
<1>1. AdminInv => IndexRebuilt
  <2> SUFFICES ASSUME AdminInv, cmd = "indexed", NEW f \in File
               PROVE  LET S == {Name(d) : d \in {e \in entries : f \in Contents[e]}} IN
                      IF f \in disk /\ S # {} THEN owner[f] \in S ELSE owner[f] = NoPkg
    BY DEF IndexRebuilt
  <2> DEFINE S == {Name(d) : d \in {e \in entries : f \in Contents[e]}}
  <2>1. IndexOf(entries, owner, disk)
    BY DEF AdminInv, RebuildInv
  <2>2. owner[f] # NoPkg => f \in disk /\ owner[f] \in S
    BY <2>1 DEF IndexOf
  <2>3. f \in disk /\ S # {} => owner[f] # NoPkg
    BY <2>1 DEF IndexOf
  <2> QED BY <2>2, <2>3
<1> QED BY <1>1, AdminInit, AdminStepKeeps, PTL DEF ToolsSpec

\* A rebuild-tree that succeeds writes just the lines the patterns call for,
\* whatever was left.
THEOREM TreeCorrect == ToolsSpec => []TreeRebuilt
<1>1. AdminInv => TreeRebuilt
  <2> SUFFICES ASSUME AdminInv, cmd = "treed", NEW d \in Pkg
               PROVE  reqby[d] = {q \in contents : \E pt \in Deps[q] : d \in Best(Installed(pt))}
    BY DEF TreeRebuilt
  <2>1. entries = contents
    BY DEF AdminInv, TypeInv, DataOK, DBTypeOK, TreeInv
  <2>2. reqby[d] = Lines(d, entries, NoPkg, {})
    BY DEF AdminInv, TreeInv
  <2> QED BY <2>1, <2>2 DEF Lines
<1> QED BY <1>1, AdminInit, AdminStepKeeps, PTL DEF ToolsSpec
=============================================================================
