-------------------------- MODULE RefcountProofs --------------------------
(***************************************************************************)
(* Proofs for the scripts of mk/pkginstall: no stage touches an edited     *)
(* file, what was there before the packages stays, and the last package    *)
(* leaves no count, for any packages, resources and orders of stages.      *)
(***************************************************************************)
EXTENDS Refcount, TLAPS

Places == {"shadow", "note", "token", "create", "check", "resource", "forget", "untoken",
           "unshadow"}

-----------------------------------------------------------------------------
(* mkdir -p and rmdir -p.                                                  *)

\* What leads to a resource are directories.
LEMMA AboveDir ==
    ASSUME NEW x \in Resource
    PROVE  Above[x] \subseteq Dir
  BY AboveAssumption

\* mkdir -p makes the resource, and else only directories.
LEMMA WithPathDirs ==
    ASSUME NEW S, NEW x \in Resource
    PROVE  S \cup {x} \subseteq WithPath(S, x) /\ WithPath(S, x) \subseteq S \cup {x} \cup Dir
  BY AboveDir DEF WithPath

\* rmdir -p removes the resource, and else only directories.
LEMMA RmdirDirs ==
    ASSUME NEW S, NEW Busy, NEW x \in Resource
    PROVE  RmdirP(S, Busy, x) \subseteq {x} \cup Dir
  BY AboveDir DEF RmdirP

\* rmdir -p removes the shadow directory of a file once it is empty.
LEMMA RmdirFile ==
    ASSUME NEW S \in SUBSET Resource, NEW Busy, NEW x \in File, x \in S, x \notin Busy
    PROVE  x \in RmdirP(S, Busy, x)
<1>1. x \notin Dir /\ x \in Resource
  BY KindAssumption DEF Resource
<1>2. \A y \in S : x \notin Above[y]
  BY <1>1, AboveDir
<1>3. x \notin Above[x]
  BY <1>1, AboveDir
<1> QED
  BY <1>1, <1>2, <1>3 DEF RmdirP

\* A script is at a resource.
LEMMA CurTyped ==
    ASSUME TypeOK, todo # <<>>
    PROVE  cur \in Resource /\ Tail(todo) \in Seq(Resource)
<1>1. todo \in Seq(Resource)
  BY DEF TypeOK
<1> QED
  BY <1>1 DEF cur

\* What REMOVE takes is the file it is at, if that is the example of the
\* package and was not there before, or directories.
LEMMA RemovableKinds ==
    ASSUME TypeOK, todo # <<>>, NEW x \in Removable
    PROVE  x \in Dir \/ (x = cur /\ x \in File \ (changed \cup preexist))
<1>1. cur \in Resource
  BY CurTyped
<1>2. cur \notin preexist \cup User
  BY DEF Removable
<1>3. CASE cur \in File
  BY <1>2, <1>3 DEF Removable
<1>4. CASE cur \notin File
  <2>1. cur \in Dir
    BY <1>1, <1>2, <1>4 DEF Resource
  <2>2. x \in RmdirP(present, {}, cur)
    BY <1>2, <1>4 DEF Removable
  <2> QED
    BY <1>1, <2>1, <2>2, RmdirDirs
<1> QED
  BY <1>3, <1>4

-----------------------------------------------------------------------------
(* Type correctness.                                                       *)

\* The lists of a package are lists of resources, also in reverse.
LEMMA ListsTyped ==
    ASSUME NEW p \in Pkg
    PROVE  /\ Users[p] \o Dirs[p] \in Seq(Resource)
           /\ Reverse(Files[p]) \in Seq(Resource)
           /\ Files[p] \in Seq(Resource)
           /\ Reverse(Dirs[p]) \o Users[p] \in Seq(Resource)
<1>1. Users[p] \in Seq(Resource) /\ Dirs[p] \in Seq(Resource) /\ Files[p] \in Seq(Resource)
  <2>1. Users[p] \in Seq(User) /\ Dirs[p] \in Seq(Dir) /\ Files[p] \in Seq(File)
    BY ListAssumption
  <2> QED
    BY <2>1 DEF Resource
<1>2. ASSUME NEW s \in Seq(Resource) PROVE Reverse(s) \in Seq(Resource)
  <2>1. Len(s) \in Nat /\ \A i \in 1..Len(s) : (Len(s) - i) + 1 \in 1..Len(s)
    OBVIOUS
  <2>2. \A i \in 1..Len(s) : s[(Len(s) - i) + 1] \in Resource
    BY <2>1
  <2> QED
    BY <2>1, <2>2 DEF Reverse
<1>3. Reverse(Files[p]) \in Seq(Resource) /\ Reverse(Dirs[p]) \in Seq(Resource)
  BY <1>1, <1>2
<1> QED
  BY <1>1, <1>3

\* The parts of TypeOK, to prove them one by one.
FileTypes ==
    /\ present \subseteq Resource /\ changed \subseteq File
    /\ shadow \subseteq Resource /\ preexist \subseteq Resource
    /\ token \in [Resource -> SUBSET Pkg]

StageTypes ==
    /\ recorded \subseteq Pkg /\ done \subseteq Pkg
    /\ pkg \in Pkg \cup {NoPkg}
    /\ stage \in {"PRE-INSTALL", "POST-INSTALL", "DEINSTALL", "POST-DEINSTALL"}
    /\ todo \in Seq(Resource)
    /\ at \in Places
    /\ stages \in 0..MaxStages

HistoryTypes ==
    /\ before \subseteq Resource /\ shared \subseteq Resource /\ lost \subseteq Resource
    /\ broken \in BOOLEAN

\* TypeOK is its parts.
LEMMA TypeParts == TypeOK <=> FileTypes /\ StageTypes /\ HistoryTypes
  BY DEF TypeOK, FileTypes, StageTypes, HistoryTypes, Places

\* The initial state has the types.
LEMMA TypeInit == Init => TypeOK
<1> SUFFICES ASSUME Init PROVE FileTypes /\ StageTypes /\ HistoryTypes
  BY TypeParts
<1>1. FileTypes
  BY DEF Init, FileTypes
<1>2. StageTypes
  BY BoundsAssumption DEF Init, StageTypes, Places
<1>3. HistoryTypes
  BY DEF Init, HistoryTypes
<1> QED
  BY <1>1, <1>2, <1>3

\* Every step keeps the types.
LEMMA TypeStep == TypeOK /\ [Next]_vars => TypeOK'
<1> SUFFICES ASSUME TypeOK, [Next]_vars PROVE FileTypes' /\ StageTypes' /\ HistoryTypes'
  BY DEF TypeOK, FileTypes, StageTypes, HistoryTypes, Places
<1>0. FileTypes /\ StageTypes /\ HistoryTypes
  BY TypeParts
<1> USE BoundsAssumption
<1>1. CASE UNCHANGED vars
  BY <1>0, <1>1 DEF vars, dbVars, cmdVars, histVars, FileTypes, StageTypes, HistoryTypes
<1>2. ASSUME NEW p \in Pkg, Install(p) \/ Deinstall(p)
      PROVE  FileTypes' /\ StageTypes' /\ HistoryTypes'
  <2>1. FileTypes' /\ HistoryTypes'
    BY <1>0, <1>2 DEF Install, Deinstall, Start, dbVars, histVars, FileTypes, HistoryTypes
  <2>2. todo' \in Seq(Resource)
    BY <1>2, ListsTyped DEF Install, Deinstall, Start
  <2>3. recorded' \subseteq Pkg /\ done' \subseteq Pkg /\ pkg' \in Pkg
    BY <1>0, <1>2 DEF Install, Deinstall, Start, StageTypes
  <2>4. stage' \in {"PRE-INSTALL", "DEINSTALL"} /\ at' \in Places
    BY <1>2 DEF Install, Deinstall, Start, Places
  <2>5. stages' \in 0..MaxStages
    <3>1. stages < MaxStages /\ stages' = stages + 1
      BY <1>2 DEF Install, Deinstall, Start
    <3>2. stages \in 0..MaxStages
      BY <1>0 DEF StageTypes
    <3> QED
      BY <3>1, <3>2
  <2> QED
    BY <2>1, <2>2, <2>3, <2>4, <2>5 DEF StageTypes
<1>3. CASE StageDone
  <2>1. FileTypes' /\ HistoryTypes'
    BY <1>0, <1>3 DEF StageDone, dbVars, histVars, FileTypes, HistoryTypes
  <2>2. pkg \in Pkg
    BY <1>0, <1>3 DEF StageDone, StageTypes
  <2>3. Files[pkg] \in Seq(Resource) /\ Reverse(Dirs[pkg]) \o Users[pkg] \in Seq(Resource)
    BY <2>2, ListsTyped
  <2>4. todo' \in Seq(Resource)
    BY <1>0, <1>3, <2>3 DEF StageDone, StageTypes
  <2>5. /\ recorded' \subseteq Pkg /\ done' \subseteq Pkg /\ pkg' \in Pkg \cup {NoPkg}
        /\ stage' \in {"PRE-INSTALL", "POST-INSTALL", "DEINSTALL", "POST-DEINSTALL"}
        /\ at' \in Places /\ stages' \in 0..MaxStages
    BY <1>0, <1>3, <2>2 DEF StageDone, StageTypes, Places
  <2> QED
    BY <2>1, <2>4, <2>5 DEF StageTypes
<1>4. CASE InstallFails
  BY <1>0, <1>4 DEF InstallFails, dbVars, FileTypes, StageTypes, HistoryTypes
<1>5. CASE Kill
  <2>1. FileTypes' /\ StageTypes'
    BY <1>0, <1>5 DEF Kill, dbVars, FileTypes, StageTypes
  <2>2. lost' \subseteq Resource
    BY <1>0, <1>5, CurTyped DEF Kill, HistoryTypes
  <2> QED
    BY <1>0, <1>5, <2>1, <2>2 DEF Kill, HistoryTypes
<1>6. ASSUME NEW f \in File, Edit(f) PROVE FileTypes' /\ StageTypes' /\ HistoryTypes'
  BY <1>0, <1>6 DEF Edit, dbVars, cmdVars, histVars, FileTypes, StageTypes, HistoryTypes
<1>7. CASE AddShadow
  <2>1. shadow' \subseteq Resource
    BY <1>0, <1>7, CurTyped, WithPathDirs DEF AddShadow, FileTypes, Resource
  <2>2. at' \in Places
    BY <1>7 DEF AddShadow, Places
  <2> QED
    BY <1>0, <1>7, <2>1, <2>2 DEF AddShadow, cmdVars, histVars, FileTypes, StageTypes, HistoryTypes
<1>8. CASE AddNote
  <2>1. preexist' \subseteq Resource
    BY <1>0, <1>8, CurTyped DEF AddNote, FileTypes
  <2> QED
    BY <1>0, <1>8, <2>1 DEF AddNote, cmdVars, histVars, FileTypes, StageTypes, HistoryTypes, Places
<1>9. CASE AddToken
  <2>1. cur \in Resource /\ pkg \in Pkg
    BY <1>0, <1>9, CurTyped DEF AddToken, StageTypes
  <2>2. token' \in [Resource -> SUBSET Pkg]
    BY <1>0, <1>9, <2>1 DEF AddToken, FileTypes
  <2>3. shared' \subseteq Resource
    BY <1>0, <1>9, <2>1 DEF AddToken, HistoryTypes
  <2> QED
    BY <1>0, <1>9, <2>2, <2>3 DEF AddToken, cmdVars, FileTypes, StageTypes, HistoryTypes, Places
<1>10. CASE AddCreate
  <2>1. cur \in Resource /\ Tail(todo) \in Seq(Resource)
    BY <1>10, CurTyped DEF AddCreate
  <2>2. present' \subseteq Resource
    BY <1>0, <1>10, <2>1, WithPathDirs DEF AddCreate, FileTypes, Resource
  <2> QED
    BY <1>0, <1>10, <2>1, <2>2 DEF AddCreate, dbVars, cmdVars, histVars, FileTypes, StageTypes,
                                   HistoryTypes, Places
<1>11. CASE RemoveCheck
  <2>1. Tail(todo) \in Seq(Resource)
    BY <1>11, CurTyped DEF RemoveCheck
  <2> QED
    BY <1>0, <1>11, <2>1 DEF RemoveCheck, dbVars, cmdVars, histVars, FileTypes, StageTypes,
                             HistoryTypes, Places
<1>12. CASE RemoveResource
  BY <1>0, <1>12 DEF RemoveResource, dbVars, cmdVars, histVars, FileTypes, StageTypes,
                     HistoryTypes, Places
<1>13. CASE RemoveNote
  <2>1. preexist' \subseteq Resource
    BY <1>0, <1>13 DEF RemoveNote, FileTypes
  <2> QED
    BY <1>0, <1>13, <2>1 DEF RemoveNote, cmdVars, histVars, FileTypes, StageTypes,
                             HistoryTypes, Places
<1>14. CASE RemoveToken
  <2>1. token' \in [Resource -> SUBSET Pkg]
    BY <1>0, <1>14 DEF RemoveToken, FileTypes
  <2> QED
    BY <1>0, <1>14, <2>1 DEF RemoveToken, cmdVars, histVars, FileTypes, StageTypes,
                             HistoryTypes, Places
<1>15. CASE RemoveShadow
  <2>1. Tail(todo) \in Seq(Resource)
    BY <1>15, CurTyped DEF RemoveShadow
  <2> QED
    BY <1>0, <1>15, <2>1 DEF RemoveShadow, cmdVars, histVars, FileTypes, StageTypes,
                             HistoryTypes, Places
<1> QED
  BY <1>1, <1>2, <1>3, <1>4, <1>5, <1>6, <1>7, <1>8, <1>9, <1>10, <1>11, <1>12, <1>13, <1>14,
     <1>15
  DEF Next

\* The scripts keep their state well formed.
THEOREM TypeCorrect == Spec => []TypeOK
  BY TypeInit, TypeStep, PTL DEF Spec

-----------------------------------------------------------------------------
(* Edited files.                                                           *)

\* A step removes no edited file and does not undo an edit.
LEMMA ChangedStep ==
    ASSUME TypeOK, [Next]_vars, NEW f \in changed \cap present
    PROVE  f \in changed' /\ f \in present'
<1>1. f \in File /\ f \notin Dir
  BY KindAssumption DEF TypeOK
<1>2. changed \subseteq changed'
  BY DEF Next, vars, Install, Deinstall, Start, StageDone, InstallFails, Kill, Edit, AddShadow,
         AddNote, AddToken, AddCreate, RemoveCheck, RemoveResource, RemoveNote,
         RemoveToken, RemoveShadow
<1>3. CASE RemoveResource
  <2>1. f \notin Removable
    BY <1>1, <1>3, RemovableKinds DEF RemoveResource
  <2> QED
    BY <1>2, <1>3, <2>1 DEF RemoveResource
<1>4. CASE AddCreate
  <2>1. f \in present'
    BY <1>4, CurTyped, WithPathDirs DEF AddCreate
  <2> QED
    BY <1>2, <2>1
<1>5. CASE ~RemoveResource /\ ~AddCreate
  <2>1. present' = present
    BY <1>5 DEF Next, vars, Install, Deinstall, Start, StageDone, InstallFails, Kill, Edit,
         AddShadow, AddNote, AddToken, RemoveCheck, RemoveNote, RemoveToken,
         RemoveShadow
  <2> QED
    BY <1>2, <2>1
<1> QED
  BY <1>3, <1>4, <1>5

\* +FILES REMOVE takes a configuration file only if it is still the example of
\* the package: no stage of any package removes or overwrites an edited one.
THEOREM ChangedCorrect == Spec => ChangedKept
<1>1. TypeOK /\ [Next]_vars =>
        [\A f \in changed \cap present : f \in changed' /\ f \in present']_vars
  BY ChangedStep
<1> QED
  BY <1>1, TypeInit, TypeStep, PTL DEF Spec, ChangedKept

-----------------------------------------------------------------------------
(* What was there before.                                                  *)

\* A step that leaves no script in the middle of a resource, and takes nothing
\* away, leaves KeepInv, provided that a script killed in the middle is noted.
LEMMA FreshStep ==
    ASSUME KeepInv, present \subseteq present', UNCHANGED dbVars,
           before' = before, shared' = shared, lost \subseteq lost',
           Active({"note", "untoken", "unshadow"}) => cur \in lost',
           pkg' # NoPkg /\ todo' # <<>> => at' \in {"shadow", "create", "check"}
    PROVE  KeepInv'
<1>1. /\ ~Active({"note", "token"})' /\ ~Active({"resource", "forget", "untoken"})'
      /\ ~Active({"note", "untoken", "unshadow"})' /\ ~Active({"untoken", "unshadow"})'
  BY DEF Active
<1>2. Guarded' \subseteq Guarded /\ \A r \in Guarded' : r \notin lost'
  BY DEF Guarded
<1>3. shadow' = shadow /\ preexist' = preexist /\ token' = token
  BY DEF dbVars
<1>4. ASSUME NEW r \in Guarded'
      PROVE  /\ r \in present' /\ (r \in shadow' => r \in preexist')
             /\ token'[r] # {} => r \in shadow'
             /\ \A p, q \in token'[r] : p = q
  <2>1. r \in Guarded /\ ~(Active({"note", "untoken", "unshadow"}) /\ cur = r)
    BY <1>2
  <2> QED
    BY <1>3, <2>1 DEF KeepInv
<1>5. before' \cap User \subseteq present'
  BY DEF KeepInv
<1> QED
  BY <1>1, <1>4, <1>5 DEF KeepInv

\* mkdir of the shadow directory.
LEMMA ShadowStep == ASSUME TypeOK, KeepInv, AddShadow PROVE KeepInv'
<1>1. cur \in Resource /\ cur' = cur /\ todo' = todo /\ pkg' = pkg /\ todo # <<>> /\ pkg # NoPkg
  BY CurTyped DEF AddShadow, cmdVars, cur
<1>2. /\ present' = present /\ preexist' = preexist /\ token' = token
      /\ Guarded' = Guarded /\ before' = before
  BY DEF AddShadow, histVars, Guarded
<1>3. /\ at' \in {"token", "note"} /\ cur \in shadow'
      /\ shadow \subseteq shadow' /\ shadow' \subseteq shadow \cup {cur} \cup Dir
      /\ at' = "token" => shadow' = shadow
  BY <1>1, WithPathDirs DEF AddShadow
<1>4. ~Active({"note", "untoken", "unshadow"})
  BY DEF AddShadow, Active
<1>5. ASSUME NEW r \in Guarded
      PROVE  /\ r \in present'
             /\ r \in shadow' =>
                   r \in preexist' \/ (Active({"note", "untoken", "unshadow"})' /\ cur' = r)
             /\ token'[r] # {} => r \in shadow'
             /\ \A p, q \in token'[r] : p = q
  <2>1. r \notin Dir
    BY KindAssumption DEF Guarded
  <2>2. r \in shadow => r \in preexist
    BY <1>4 DEF KeepInv
  <2>3. r \in shadow' => r \in shadow \/ (r = cur /\ at' = "note")
    BY <1>3, <2>1
  <2>4. r = cur /\ at' = "note" => Active({"note", "untoken", "unshadow"})' /\ cur' = r
    BY <1>1 DEF Active
  <2>5. r \in present /\ (token[r] # {} => r \in shadow) /\ \A p, q \in token[r] : p = q
    BY DEF KeepInv
  <2> QED
    BY <1>2, <1>3, <2>2, <2>3, <2>4, <2>5
<1>6. /\ Active({"note", "token"})' => cur' \in shadow'
      /\ ~Active({"resource", "forget", "untoken"})' /\ ~Active({"untoken", "unshadow"})'
  BY <1>1, <1>3 DEF Active
<1>7. before' \cap User \subseteq present'
  BY <1>2 DEF KeepInv
<1> QED
  BY <1>2, <1>5, <1>6, <1>7 DEF KeepInv

\* The note +PREEXISTING.
LEMMA NoteStep == ASSUME TypeOK, KeepInv, AddNote PROVE KeepInv'
<1>1. /\ cur' = cur /\ todo' = todo /\ pkg' = pkg /\ todo # <<>> /\ pkg # NoPkg
      /\ at = "note" /\ at' = "token"
  BY DEF AddNote, cmdVars, cur
<1>2. /\ present' = present /\ shadow' = shadow /\ token' = token
      /\ Guarded' = Guarded /\ before' = before
  BY DEF AddNote, histVars, Guarded
<1>3. preexist \subseteq preexist' /\ (cur \in present => cur \in preexist')
  BY DEF AddNote
<1>4. cur \in shadow
  BY <1>1 DEF KeepInv, Active
<1>5. ASSUME NEW r \in Guarded
      PROVE  /\ r \in present' /\ (r \in shadow' => r \in preexist')
             /\ token'[r] # {} => r \in shadow'
             /\ \A p, q \in token'[r] : p = q
  <2>1. /\ r \in present /\ (r \in shadow => r \in preexist \/ cur = r)
        /\ token[r] # {} => r \in shadow
        /\ \A p, q \in token[r] : p = q
    BY DEF KeepInv
  <2> QED
    BY <1>2, <1>3, <2>1
<1>6. /\ cur' \in shadow'
      /\ ~Active({"resource", "forget", "untoken"})' /\ ~Active({"untoken", "unshadow"})'
  BY <1>1, <1>2, <1>4 DEF Active
<1>7. before' \cap User \subseteq present'
  BY <1>2 DEF KeepInv
<1> QED
  BY <1>2, <1>5, <1>6, <1>7 DEF KeepInv

\* The token of the package.
LEMMA TokenStep == ASSUME TypeOK, KeepInv, AddToken PROVE KeepInv'
<1>1. /\ cur' = cur /\ todo' = todo /\ pkg' = pkg /\ todo # <<>> /\ pkg # NoPkg
      /\ at = "token" /\ at' = "create" /\ cur \in Resource
  BY CurTyped DEF AddToken, cmdVars, cur
<1>2. /\ present' = present /\ shadow' = shadow /\ preexist' = preexist /\ before' = before
      /\ Guarded' \subseteq Guarded
      /\ cur \in Guarded' => token[cur] \subseteq {pkg}
  BY DEF AddToken, Guarded
<1>3. \A r \in Resource : token'[r] = IF r = cur THEN token[r] \cup {pkg} ELSE token[r]
  BY <1>1 DEF AddToken, TypeOK
<1>4. cur \in shadow
  BY <1>1 DEF KeepInv, Active
<1>5. ASSUME NEW r \in Guarded'
      PROVE  /\ r \in present' /\ (r \in shadow' => r \in preexist')
             /\ token'[r] # {} => r \in shadow'
             /\ \A p, q \in token'[r] : p = q
  <2>1. r \in Guarded /\ r \in Resource
    BY <1>2 DEF Guarded, Resource
  <2>2. /\ r \in present /\ (r \in shadow => r \in preexist)
        /\ token[r] # {} => r \in shadow
        /\ \A p, q \in token[r] : p = q
    BY <1>1, <2>1 DEF KeepInv, Active
  <2> QED
    BY <1>2, <1>3, <1>4, <2>1, <2>2
<1>6. /\ ~Active({"note", "token"})' /\ ~Active({"resource", "forget", "untoken"})'
      /\ ~Active({"untoken", "unshadow"})'
  BY <1>1 DEF Active
<1>7. before' \cap User \subseteq present'
  BY <1>2 DEF KeepInv
<1> QED
  BY <1>5, <1>6, <1>7 DEF KeepInv

\* The removal of the resource, or of nothing.
LEMMA ResourceStep == ASSUME TypeOK, KeepInv, RemoveResource PROVE KeepInv'
<1>1. /\ cur' = cur /\ todo' = todo /\ pkg' = pkg /\ todo # <<>> /\ pkg # NoPkg
      /\ at = "resource" /\ at' = "forget"
  BY DEF RemoveResource, cmdVars, cur
<1>2. /\ shadow' = shadow /\ preexist' = preexist /\ token' = token
      /\ Guarded' = Guarded /\ before' = before
  BY DEF RemoveResource, dbVars, histVars, Guarded
<1>3. pkg \in token[cur]
  BY <1>1 DEF KeepInv, Active
<1>4. ASSUME NEW r \in Guarded
      PROVE  /\ r \in present' /\ (r \in shadow' => r \in preexist')
             /\ token'[r] # {} => r \in shadow'
             /\ \A p, q \in token'[r] : p = q
  <2>1. /\ r \in present /\ (r \in shadow => r \in preexist)
        /\ token[r] # {} => r \in shadow
        /\ \A p, q \in token[r] : p = q
    BY <1>1 DEF KeepInv, Active
  <2>2. r \notin Removable
    <3>1. r \notin Dir
      BY KindAssumption DEF Guarded
    <3>2. r = cur => r \in preexist
      BY <1>3, <2>1
    <3> QED
      BY <1>1, <3>1, <3>2, RemovableKinds
  <2>3. r \in present'
    BY <2>1, <2>2 DEF RemoveResource
  <2> QED
    BY <1>2, <2>1, <2>3
<1>5. ASSUME NEW u \in before' \cap User PROVE u \in present'
  <2>1. u \in present
    BY <1>2, <1>5 DEF KeepInv
  <2>2. u \notin Dir /\ u \notin File
    BY <1>5, KindAssumption
  <2>3. u \notin Removable
    BY <1>1, <2>2, RemovableKinds
  <2> QED
    BY <2>1, <2>3 DEF RemoveResource
<1>6. /\ ~Active({"note", "token"})' /\ ~Active({"untoken", "unshadow"})'
      /\ pkg' \in token'[cur']
  BY <1>1, <1>2, <1>3 DEF Active
<1> QED
  BY <1>2, <1>4, <1>5, <1>6 DEF KeepInv

\* rm of +PREEXISTING.
LEMMA ForgetStep == ASSUME TypeOK, KeepInv, RemoveNote PROVE KeepInv'
<1>1. /\ cur' = cur /\ todo' = todo /\ pkg' = pkg /\ todo # <<>> /\ pkg # NoPkg
      /\ at = "forget" /\ at' = "untoken"
  BY DEF RemoveNote, cmdVars, cur
<1>2. /\ present' = present /\ shadow' = shadow /\ preexist' = preexist \ {cur}
      /\ token' = token /\ Guarded' = Guarded /\ before' = before
  BY DEF RemoveNote, histVars, Guarded
<1>3. pkg' \in token'[cur']
  BY <1>1, <1>2 DEF KeepInv, Active
<1>4. Active({"note", "untoken", "unshadow"})' /\ ~Active({"note", "token"})'
  BY <1>1 DEF Active
<1>5. ASSUME NEW r \in Guarded
      PROVE  /\ r \in present' /\ (r \in shadow' => r \in preexist' \/ cur' = r)
             /\ token'[r] # {} => r \in shadow'
             /\ \A p, q \in token'[r] : p = q
             /\ cur' = r => r \notin preexist'
  <2>1. /\ r \in present /\ (r \in shadow => r \in preexist)
        /\ token[r] # {} => r \in shadow
        /\ \A p, q \in token[r] : p = q
    BY <1>1 DEF KeepInv, Active
  <2> QED
    BY <1>1, <1>2, <2>1
<1>6. before' \cap User \subseteq present'
  BY <1>2 DEF KeepInv
<1> QED
  BY <1>1, <1>2, <1>3, <1>4, <1>5, <1>6 DEF KeepInv

\* rm of the token.
LEMMA UntokenStep == ASSUME TypeOK, KeepInv, RemoveToken PROVE KeepInv'
<1>1. /\ cur' = cur /\ todo' = todo /\ pkg' = pkg /\ todo # <<>> /\ pkg # NoPkg
      /\ at = "untoken" /\ at' = "unshadow" /\ cur \in Resource
  BY CurTyped DEF RemoveToken, cmdVars, cur
<1>2. /\ present' = present /\ shadow' = shadow /\ preexist' = preexist
      /\ Guarded' = Guarded /\ before' = before
  BY DEF RemoveToken, histVars, Guarded
<1>3. \A r \in Resource : token'[r] = IF r = cur THEN token[r] \ {pkg} ELSE token[r]
  BY <1>1 DEF RemoveToken, TypeOK
<1>4. pkg \in token[cur]
  BY <1>1 DEF KeepInv, Active
<1>5. Active({"note", "untoken", "unshadow"})' /\ Active({"untoken", "unshadow"})'
  BY <1>1 DEF Active
<1>6. ASSUME NEW r \in Guarded
      PROVE  /\ r \in present' /\ (r \in shadow' => r \in preexist' \/ cur' = r)
             /\ token'[r] # {} => r \in shadow'
             /\ \A p, q \in token'[r] : p = q
             /\ cur' = r => token'[r] = {} /\ r \notin preexist'
  <2>1. /\ r \in present /\ (r \in shadow => r \in preexist \/ cur = r)
        /\ token[r] # {} => r \in shadow
        /\ \A p, q \in token[r] : p = q
        /\ cur = r => r \notin preexist
    BY <1>1 DEF KeepInv, Active
  <2>2. r \in Resource
    BY DEF Guarded, Resource
  <2>3. r = cur => token'[r] = {}
    BY <1>3, <1>4, <2>1, <2>2
  <2> QED
    BY <1>1, <1>2, <1>3, <2>1, <2>2, <2>3
<1>7. ~Active({"note", "token"})' /\ ~Active({"resource", "forget", "untoken"})'
  BY <1>1 DEF Active
<1>8. before' \cap User \subseteq present'
  BY <1>2 DEF KeepInv
<1> QED
  BY <1>2, <1>5, <1>6, <1>7, <1>8 DEF KeepInv

\* rmdir of the shadow directory.
LEMMA UnshadowStep == ASSUME TypeOK, KeepInv, RemoveShadow PROVE KeepInv'
<1> DEFINE Busy == preexist \cup {x \in Resource : token[x] # {}}
<1>1. /\ todo # <<>> /\ pkg # NoPkg /\ at = "unshadow" /\ at' = "check"
      /\ cur \in Resource
  BY CurTyped DEF RemoveShadow
<1>2. /\ present' = present /\ preexist' = preexist /\ token' = token
      /\ Guarded' = Guarded /\ before' = before
      /\ shadow' = shadow \ RmdirP(shadow \cap Tree(cur), Busy, cur)
  BY DEF RemoveShadow, histVars, Guarded
<1>3. ASSUME NEW r \in Guarded
      PROVE  /\ r \in present' /\ (r \in shadow' => r \in preexist')
             /\ token'[r] # {} => r \in shadow'
             /\ \A p, q \in token'[r] : p = q
  <2>1. /\ r \in present /\ (r \in shadow => r \in preexist \/ cur = r)
        /\ token[r] # {} => r \in shadow
        /\ \A p, q \in token[r] : p = q
        /\ cur = r => token[r] = {} /\ r \notin preexist
    BY <1>1 DEF KeepInv, Active
  <2>2. r \in File /\ r \notin Dir
    BY KindAssumption DEF Guarded
  <2>3. CASE cur = r
    <3>1. r \notin Busy
      BY <2>1, <2>3
    <3>2. r \in shadow => r \in RmdirP(shadow \cap Tree(r), Busy, r)
      BY <2>2, <3>1, RmdirFile DEF TypeOK, Tree
    <3>3. r \notin shadow'
      BY <1>2, <2>3, <3>2
    <3> QED
      BY <1>2, <2>1, <2>3, <3>3
  <2>4. CASE cur # r
    <3>1. r \notin RmdirP(shadow \cap Tree(cur), Busy, cur)
      BY <1>1, <2>2, <2>4, RmdirDirs
    <3>2. r \in shadow' <=> r \in shadow
      BY <1>2, <3>1
    <3> QED
      BY <1>2, <2>1, <2>4, <3>2
  <2> QED
    BY <2>3, <2>4
<1>4. /\ ~Active({"note", "token"})' /\ ~Active({"resource", "forget", "untoken"})'
      /\ ~Active({"untoken", "unshadow"})'
  BY <1>1 DEF Active
<1>5. before' \cap User \subseteq present'
  BY <1>2 DEF KeepInv
<1> QED
  BY <1>2, <1>3, <1>4, <1>5 DEF KeepInv

\* Every step keeps KeepInv.
LEMMA KeepInvStep == TypeOK /\ KeepInv /\ [Next]_vars => KeepInv'
<1> SUFFICES ASSUME TypeOK, KeepInv, [Next]_vars PROVE KeepInv'
  OBVIOUS
<1>1. CASE UNCHANGED vars
  <2>1. /\ \A S : Active(S)' <=> Active(S)
        /\ cur' = cur /\ Guarded' = Guarded
    BY <1>1 DEF vars, cmdVars, histVars, Active, cur, Guarded
  <2>2. /\ present' = present /\ shadow' = shadow /\ preexist' = preexist /\ token' = token
        /\ pkg' = pkg /\ at' = at /\ before' = before
    BY <1>1 DEF vars, dbVars, cmdVars, histVars
  <2> QED
    BY <2>1, <2>2 DEF KeepInv
<1>2. ASSUME NEW p \in Pkg, Install(p) \/ Deinstall(p) PROVE KeepInv'
  <2>1. /\ present' = present /\ UNCHANGED dbVars
        /\ before' = before /\ shared' = shared /\ lost' = lost
        /\ at' \in {"shadow", "check"} /\ pkg = NoPkg
    BY <1>2 DEF Install, Deinstall, Start, histVars
  <2> QED
    BY <2>1, FreshStep DEF Active
<1>3. CASE StageDone
  <2>1. /\ present' = present /\ UNCHANGED dbVars
        /\ before' = before /\ shared' = shared /\ lost' = lost
        /\ todo = <<>>
    BY <1>3 DEF StageDone, histVars
  <2>2. pkg' # NoPkg => at' \in {"shadow", "check"}
    BY <1>3 DEF StageDone
  <2> QED
    BY <2>1, <2>2, FreshStep DEF Active
<1>4. CASE InstallFails
  <2>1. /\ present' = present /\ UNCHANGED dbVars
        /\ before' = before /\ shared' = shared /\ lost' = lost
        /\ todo = <<>> \/ at = "shadow"
        /\ pkg' = NoPkg
    BY <1>4 DEF InstallFails, histVars
  <2> QED
    BY <2>1, FreshStep DEF Active
<1>5. CASE Kill
  <2>1. /\ present' = present /\ UNCHANGED dbVars
        /\ before' = before /\ shared' = shared /\ lost \subseteq lost'
        /\ Active({"note", "untoken", "unshadow"}) => cur \in lost'
        /\ pkg' = NoPkg
    BY <1>5 DEF Kill, Active
  <2> QED
    BY <2>1, FreshStep
<1>6. ASSUME NEW f \in File, Edit(f) PROVE KeepInv'
  <2>1. /\ present' = present /\ UNCHANGED dbVars
        /\ before' = before /\ shared' = shared /\ lost' = lost
        /\ pkg = NoPkg /\ pkg' = NoPkg
    BY <1>6 DEF Edit, histVars, cmdVars
  <2> QED
    BY <2>1, FreshStep DEF Active
<1>7. CASE AddCreate
  <2>1. present \subseteq present'
    BY <1>7, CurTyped, WithPathDirs DEF AddCreate
  <2>2. /\ UNCHANGED dbVars
        /\ before' = before /\ shared' = shared /\ lost' = lost
        /\ at = "create" /\ at' = "shadow"
    BY <1>7 DEF AddCreate, histVars
  <2> QED
    BY <2>1, <2>2, FreshStep DEF Active
<1>8. CASE RemoveCheck
  <2>1. /\ present' = present /\ UNCHANGED dbVars
        /\ before' = before /\ shared' = shared /\ lost' = lost
        /\ pkg' = pkg /\ pkg # NoPkg /\ todo # <<>> /\ at = "check"
    BY <1>8 DEF RemoveCheck, histVars, cmdVars
  <2>2. CASE pkg \notin token[cur]
    <3>1. at' = "check"
      BY <1>8, <2>2 DEF RemoveCheck
    <3> QED
      BY <2>1, <3>1, FreshStep DEF Active
  <2>3. CASE pkg \in token[cur]
    <3>1. at' = "resource" /\ todo' = todo /\ cur' = cur
      BY <1>8, <2>3 DEF RemoveCheck, cur
    <3>2. Guarded' = Guarded /\ shadow' = shadow /\ preexist' = preexist /\ token' = token
      BY <2>1 DEF Guarded, dbVars
    <3>3. /\ ~Active({"note", "token"})' /\ ~Active({"note", "untoken", "unshadow"})
          /\ ~Active({"untoken", "unshadow"})' /\ pkg' \in token'[cur']
      BY <2>1, <2>3, <3>1, <3>2 DEF Active
    <3> QED
      BY <2>1, <3>2, <3>3 DEF KeepInv
  <2> QED
    BY <2>2, <2>3
<1> QED
  BY <1>1, <1>2, <1>3, <1>4, <1>5, <1>6, <1>7, <1>8, ShadowStep, NoteStep, TokenStep,
     ResourceStep, ForgetStep, UntokenStep, UnshadowStep
  DEF Next

\* Before the first stage there is no shadow directory.
LEMMA KeepInvInit == Init => KeepInv
<1> SUFFICES ASSUME Init PROVE KeepInv
  OBVIOUS
<1>1. \A S : ~Active(S)
  BY DEF Init, Active
<1>2. \A r \in Guarded : r \in Resource /\ r \in present
  BY DEF Init, Guarded, Resource
<1> QED
  BY <1>1, <1>2 DEF Init, KeepInv

\* KeepInv says of files and users what PreexistingKept says.
LEMMA KeepInvKeeps == KeepInv => PreexistingKept
  BY DEF KeepInv, PreexistingKept, Guarded

\* +PREEXISTING protects what was there before the packages: as long as one
\* package at a time registers a file or user, and no stage is killed at it while
\* the note is made or cleared, it stays, whatever is installed, removed,
\* edited, killed or fails.
THEOREM PreexistingCorrect == Spec => []PreexistingKept
  BY TypeInit, TypeStep, KeepInvInit, KeepInvStep, KeepInvKeeps, PTL DEF Spec
-----------------------------------------------------------------------------
(* What is left after the last package.                                    *)

\* One list after the other.
LEMMA RangeConcat ==
    ASSUME NEW T, NEW s \in Seq(T), NEW r \in Seq(T)
    PROVE  Range(s \o r) = Range(s) \cup Range(r)
<1>1. /\ Len(s) \in Nat /\ DOMAIN s = 1..Len(s)
      /\ Len(r) \in Nat /\ DOMAIN r = 1..Len(r) /\ DOMAIN (s \o r) = 1..(Len(s) + Len(r))
      /\ \A i \in 1..Len(s) : (s \o r)[i] = s[i]
      /\ \A i \in 1..Len(r) : (s \o r)[Len(s) + i] = r[i]
  OBVIOUS
<1>2. ASSUME NEW x \in Range(s \o r) PROVE x \in Range(s) \cup Range(r)
  <2>1. PICK i \in 1..(Len(s) + Len(r)) : x = (s \o r)[i]
    BY <1>1 DEF Range
  <2>2. CASE i <= Len(s)
    BY <1>1, <2>1, <2>2 DEF Range
  <2>3. CASE i > Len(s)
    <3>1. i - Len(s) \in 1..Len(r) /\ Len(s) + (i - Len(s)) = i
      BY <1>1, <2>3
    <3>2. x = r[i - Len(s)]
      BY <1>1, <2>1, <3>1
    <3> QED
      BY <1>1, <3>1, <3>2 DEF Range
  <2> QED
    BY <1>1, <2>2, <2>3
<1>3. Range(s) \subseteq Range(s \o r)
  BY <1>1 DEF Range
<1>4. ASSUME NEW x \in Range(r) PROVE x \in Range(s \o r)
  <2>1. PICK i \in 1..Len(r) : x = r[i]
    BY <1>1 DEF Range
  <2>2. Len(s) + i \in DOMAIN (s \o r) /\ (s \o r)[Len(s) + i] = x
    BY <1>1, <2>1
  <2> QED
    BY <2>2 DEF Range
<1> QED
  BY <1>2, <1>3, <1>4

\* What the lists of a package and of a stage name.
LEMMA RangeFacts ==
    ASSUME NEW T, NEW s \in Seq(T)
    PROVE  /\ Range(s) \subseteq T /\ Range(<<>>) = {}
           /\ Reverse(s) \in Seq(T) /\ Range(Reverse(s)) = Range(s)
           /\ s # <<>> => Range(s) = {Head(s)} \cup Range(Tail(s))
<1>1. Len(s) \in Nat /\ DOMAIN s = 1..Len(s) /\ \A i \in 1..Len(s) : s[i] \in T
  OBVIOUS
<1>2. Range(s) \subseteq T /\ Range(<<>>) = {}
  BY <1>1 DEF Range
<1>4. Reverse(s) \in Seq(T) /\ Range(Reverse(s)) = Range(s)
  <2>1. /\ \A i \in 1..Len(s) : (Len(s) - i) + 1 \in 1..Len(s)
        /\ Reverse(s) = [i \in 1..Len(s) |-> s[(Len(s) - i) + 1]]
    BY <1>1 DEF Reverse
  <2>2. Reverse(s) \in Seq(T) /\ DOMAIN Reverse(s) = 1..Len(s)
    BY <1>1, <2>1
  <2>3. Range(Reverse(s)) \subseteq Range(s)
    BY <1>1, <2>1, <2>2 DEF Range
  <2>4. ASSUME NEW i \in 1..Len(s) PROVE s[i] \in Range(Reverse(s))
    <3>1. (Len(s) - i) + 1 \in 1..Len(s) /\ (Len(s) - ((Len(s) - i) + 1)) + 1 = i
      BY <1>1
    <3>2. Reverse(s)[(Len(s) - i) + 1] = s[i]
      BY <2>1, <3>1
    <3> QED
      BY <2>2, <3>1, <3>2 DEF Range
  <2> QED
    BY <1>1, <2>2, <2>3, <2>4 DEF Range
<1>5. s # <<>> => Range(s) = {Head(s)} \cup Range(Tail(s))
  <2> SUFFICES ASSUME s # <<>> PROVE Range(s) = {Head(s)} \cup Range(Tail(s))
    OBVIOUS
  <2>1. /\ Len(s) # 0 /\ Head(s) = s[1] /\ DOMAIN Tail(s) = 1..(Len(s) - 1)
        /\ \A i \in 1..(Len(s) - 1) : Tail(s)[i] = s[i + 1]
    OBVIOUS
  <2>2. ASSUME NEW i \in 1..Len(s) PROVE s[i] \in {Head(s)} \cup Range(Tail(s))
    <3>1. CASE i = 1
      BY <2>1, <3>1
    <3>2. CASE i # 1
      <4>1. i - 1 \in 1..(Len(s) - 1) /\ (i - 1) + 1 = i
        BY <1>1, <3>2
      <4>2. Tail(s)[i - 1] = s[i]
        BY <2>1, <4>1
      <4> QED
        BY <2>1, <4>1, <4>2 DEF Range
    <3> QED
      BY <3>1, <3>2
  <2>3. Head(s) \in Range(s) /\ Range(Tail(s)) \subseteq Range(s)
    BY <1>1, <2>1 DEF Range
  <2> QED
    BY <1>1, <2>2, <2>3 DEF Range
<1> QED
  BY <1>2, <1>4, <1>5

\* Shadow directories on the way to one that is on the way.
LEMMA LeadsOn ==
    ASSUME NEW x, NEW y \in Resource, NEW z \in Resource, Leads(x, y), Leads(y, z)
    PROVE  Leads(x, z)
  BY AboveAssumption DEF Leads

\* A script goes on to the next resource.
LEMMA CurNext ==
    ASSUME TypeOK, todo # <<>>
    PROVE  /\ cur \in Range(todo) /\ Range(Tail(todo)) \subseteq Range(todo)
           /\ Range(todo) = {cur} \cup Range(Tail(todo))
<1>1. todo \in Seq(Resource)
  BY DEF TypeOK
<1>2. Range(todo) = {Head(todo)} \cup Range(Tail(todo))
  BY <1>1, RangeFacts
<1> QED
  BY <1>2 DEF cur

\* The invariant when only the contents of files change.
LEMMA CountFrame ==
    ASSUME UNCHANGED <<dbVars, recorded, pkg, stage, todo, at>>
    PROVE  (TokenInv /\ StageInv /\ ShadowInv)' <=> (TokenInv /\ StageInv /\ ShadowInv)
<1>1. /\ \A S : Active(S)' <=> Active(S)
      /\ cur' = cur /\ (Adding' <=> Adding)
      /\ UNCHANGED <<shadow, preexist, token, recorded, pkg, stage, todo, at>>
  BY DEF dbVars, Active, cur, Adding
<1>2. TokenInv' <=> TokenInv
  BY <1>1 DEF TokenInv
<1>3. StageInv' <=> StageInv
  BY <1>1 DEF StageInv
<1>4. ShadowInv' <=> ShadowInv
  BY <1>1 DEF ShadowInv
<1> QED
  BY <1>2, <1>3, <1>4

\* The counts outside the commands that belong together at a resource.
LEMMA ShadowFrame ==
    ASSUME ShadowInv, UNCHANGED dbVars, ~Active({"note", "token", "unshadow"})
    PROVE  ShadowInv'
<1>1. ~Active({"token"})
  BY DEF Active
<1>2. UNCHANGED <<shadow, preexist, token>>
  BY DEF dbVars
<1> QED
  BY <1>1, <1>2 DEF ShadowInv

\* The resource a script leaves behind has no token of its package, unless the
\* script has just put it there.
LEMMA TokenNext ==
    ASSUME TypeOK, TokenInv, todo # <<>>, todo' = Tail(todo), Adding \/ pkg \notin token[cur],
           UNCHANGED <<token, recorded, pkg, stage>>
    PROVE  TokenInv'
<1> SUFFICES ASSUME NEW r \in Resource, NEW p \in token[r]
             PROVE  /\ p \in recorded /\ r \in Listed(p)
                    /\ p = pkg /\ stage = "DEINSTALL" /\ r \in File => r \in Range(Tail(todo))
                    /\ p = pkg /\ stage = "POST-DEINSTALL" => r \in Range(Tail(todo))
  BY DEF TokenInv
<1>1. /\ p \in recorded /\ r \in Listed(p)
      /\ p = pkg /\ stage = "DEINSTALL" /\ r \in File => r \in Range(todo)
      /\ p = pkg /\ stage = "POST-DEINSTALL" => r \in Range(todo)
  BY DEF TokenInv
<1>2. Range(todo) = {cur} \cup Range(Tail(todo))
  BY CurNext
<1>3. p = pkg /\ stage \in {"DEINSTALL", "POST-DEINSTALL"} => r # cur
  BY DEF Adding
<1> QED
  BY <1>1, <1>2, <1>3

\* A stage starts on the list of its resources.
LEMMA CountStart ==
    ASSUME TypeOK, TokenInv, StageInv, ShadowInv, NEW p \in Pkg, Install(p) \/ Deinstall(p)
    PROVE  TokenInv' /\ StageInv' /\ ShadowInv'
<1>1. /\ pkg = NoPkg /\ pkg' = p /\ token' = token /\ UNCHANGED dbVars
  BY DEF Install, Deinstall, Start, dbVars
<1>2. ShadowInv'
  BY <1>1, ShadowFrame DEF Active
<1>3. /\ Users[p] \in Seq(Resource) /\ Dirs[p] \in Seq(Resource) /\ Files[p] \in Seq(Resource)
  <2>1. Users[p] \in Seq(User) /\ Dirs[p] \in Seq(Dir) /\ Files[p] \in Seq(File)
    BY ListAssumption
  <2> QED
    BY <2>1 DEF Resource
<1>4. CASE Install(p)
  <2>1. /\ recorded' = recorded \cup {p} /\ p \notin recorded /\ stage' = "PRE-INSTALL"
        /\ todo' = Users[p] \o Dirs[p] /\ at' = "shadow"
    BY <1>4 DEF Install, Start
  <2>2. TokenInv'
    BY <1>1, <2>1 DEF TokenInv
  <2>3. Range(todo') \subseteq Listed(p)
    BY <1>3, <2>1, RangeConcat DEF Listed
  <2> QED
    BY <1>1, <1>2, <2>1, <2>2, <2>3 DEF StageInv
<1>5. CASE Deinstall(p)
  <2>1. /\ recorded' = recorded /\ p \in recorded /\ stage' = "DEINSTALL"
        /\ todo' = Reverse(Files[p]) /\ at' = "check"
    BY <1>5 DEF Deinstall, Start
  <2>2. Range(todo') = Range(Files[p])
    BY <1>3, <2>1, RangeFacts
  <2>3. ASSUME NEW r \in File, r \in Listed(p) PROVE r \in Range(Files[p])
    <3>1. Range(Users[p]) \subseteq User /\ Range(Dirs[p]) \subseteq Dir
      <4>1. Users[p] \in Seq(User) /\ Dirs[p] \in Seq(Dir)
        BY ListAssumption
      <4> QED
        BY <4>1, RangeFacts
    <3> QED
      BY <2>3, <3>1, KindAssumption DEF Listed
  <2>4. TokenInv'
    BY <1>1, <2>1, <2>2, <2>3 DEF TokenInv
  <2> QED
    BY <1>1, <1>2, <2>1, <2>4 DEF StageInv, Adding
<1> QED
  BY <1>4, <1>5

\* After the stages of a removal no token of the package is left.
LEMMA CountDone ==
    ASSUME TypeOK, TokenInv, StageInv, ShadowInv, StageDone
    PROVE  TokenInv' /\ StageInv' /\ ShadowInv'
<1>1. /\ pkg # NoPkg /\ pkg \in Pkg /\ pkg \in recorded /\ todo = <<>> /\ token' = token
      /\ UNCHANGED dbVars /\ Range(<<>>) = {}
  BY DEF StageDone, StageInv, TypeOK, dbVars, Range
<1>2. ShadowInv'
  BY <1>1, ShadowFrame DEF Active
<1>3. CASE stage = "PRE-INSTALL"
  <2>1. /\ stage' = "POST-INSTALL" /\ todo' = Files[pkg] /\ at' = "shadow"
        /\ UNCHANGED <<recorded, pkg>>
    BY <1>3 DEF StageDone
  <2> QED
    BY <1>1, <1>2, <2>1 DEF TokenInv, StageInv, Listed
<1>4. CASE stage = "DEINSTALL"
  <2>1. /\ stage' = "POST-DEINSTALL" /\ todo' = Reverse(Dirs[pkg]) \o Users[pkg] /\ at' = "check"
        /\ UNCHANGED <<recorded, pkg>>
    BY <1>4 DEF StageDone
  <2>2. Range(todo') = Range(Dirs[pkg]) \cup Range(Users[pkg])
    <3>1. Users[pkg] \in Seq(Resource) /\ Dirs[pkg] \in Seq(Resource)
      <4>1. Users[pkg] \in Seq(User) /\ Dirs[pkg] \in Seq(Dir)
        BY <1>1, ListAssumption
      <4> QED
        BY <4>1 DEF Resource
    <3>2. Reverse(Dirs[pkg]) \in Seq(Resource) /\ Range(Reverse(Dirs[pkg])) = Range(Dirs[pkg])
      BY <3>1, RangeFacts
    <3> QED
      BY <2>1, <3>1, <3>2, RangeConcat
  <2>3. ASSUME NEW r \in Resource, pkg \in token[r] PROVE r \in Range(todo')
    <3>1. r \in Listed(pkg) /\ r \notin File
      BY <1>1, <1>4, <2>3 DEF TokenInv
    <3>2. Range(Files[pkg]) \subseteq File
      <4>1. Files[pkg] \in Seq(File)
        BY <1>1, ListAssumption
      <4> QED
        BY <4>1, RangeFacts
    <3> QED
      BY <2>2, <3>1, <3>2 DEF Listed
  <2>4. TokenInv'
    BY <1>1, <2>1, <2>3 DEF TokenInv
  <2> QED
    BY <1>1, <1>2, <2>1, <2>4 DEF StageInv, Adding
<1>5. CASE stage = "POST-INSTALL"
  <2>1. pkg' = NoPkg /\ UNCHANGED <<recorded, stage, todo>>
    BY <1>5 DEF StageDone
  <2>2. \A r \in Resource : NoPkg \notin token[r]
    BY NoPkgAssumption DEF TypeOK
  <2> QED
    BY <1>1, <1>2, <2>1, <2>2 DEF TokenInv, StageInv
<1>6. CASE stage = "POST-DEINSTALL"
  <2>1. pkg' = NoPkg /\ recorded' = recorded \ {pkg}
    BY <1>6 DEF StageDone
  <2>2. \A r \in Resource : pkg \notin token[r] /\ NoPkg \notin token[r]
    BY <1>1, <1>6, NoPkgAssumption DEF TokenInv, TypeOK
  <2> QED
    BY <1>1, <1>2, <2>1, <2>2 DEF TokenInv, StageInv
<1> QED
  BY <1>3, <1>4, <1>5, <1>6 DEF StageDone

\* mkdir of the shadow directory, with what leads to it.
LEMMA CountShadow ==
    ASSUME TypeOK, TokenInv, StageInv, ShadowInv, AddShadow
    PROVE  TokenInv' /\ StageInv' /\ ShadowInv'
<1>1. /\ cur \in Resource /\ pkg # NoPkg /\ todo # <<>> /\ at = "shadow"
      /\ UNCHANGED <<preexist, token, recorded, pkg, stage, todo>>
      /\ cur' = cur /\ (Adding' <=> Adding)
  BY CurTyped DEF AddShadow, cmdVars, cur, Adding
<1>2. TokenInv'
  BY <1>1 DEF TokenInv
<1>3. /\ at' \in {"token", "note"} /\ cur \in shadow' /\ shadow \subseteq shadow'
      /\ at' = "token" => shadow' = shadow
      /\ at' = "note" => shadow' = WithPath(shadow, cur)
  BY <1>1, WithPathDirs DEF AddShadow
<1>4. StageInv'
  BY <1>1, <1>3 DEF StageInv
<1>5. ~Active({"note", "token", "unshadow"}) /\ ~Active({"token"})
  BY <1>1 DEF Active
<1>6. CASE at' = "token"
  BY <1>1, <1>2, <1>3, <1>4, <1>5, <1>6 DEF ShadowInv
<1>7. CASE at' = "note"
  <2>1. shadow' = shadow \cup {cur} \cup (IF cur \in Dir THEN Above[cur] ELSE {})
    BY <1>3, <1>7 DEF WithPath
  <2>2. ASSUME NEW r \in shadow' \cap Dir PROVE Above[r] \subseteq shadow'
    <3>1. CASE r \in shadow
      BY <1>3, <2>2, <3>1 DEF ShadowInv
    <3>2. CASE r = cur
      BY <2>1, <2>2, <3>2
    <3>3. CASE cur \in Dir /\ r \in Above[cur]
      <4>1. Above[r] \subseteq Above[cur]
        BY <1>1, <3>3, AboveAssumption
      <4> QED
        BY <2>1, <3>3, <4>1
    <3> QED
      BY <2>1, <2>2, <3>1, <3>2, <3>3
  <2>3. Active({"note", "token", "unshadow"})'
    BY <1>1, <1>7 DEF Active
  <2>4. ASSUME NEW x \in shadow'
        PROVE  \E y \in Resource :
                 /\ Leads(x, y)
                 /\ token'[y] # {} \/ (Active({"note", "token", "unshadow"})' /\ cur' = y)
    <3>1. CASE x \in shadow
      BY <1>1, <1>5, <3>1 DEF ShadowInv
    <3>2. CASE x \notin shadow
      <4>1. Leads(x, cur)
        BY <2>1, <2>4, <3>2 DEF Leads
      <4> QED
        BY <1>1, <2>3, <4>1
    <3> QED
      BY <3>1, <3>2
  <2>5. /\ \A r \in Resource : token'[r] # {} => r \in shadow'
        /\ \A r \in preexist' : token'[r] # {}
    BY <1>1, <1>3, <1>5 DEF ShadowInv
  <2> QED
    BY <1>2, <1>4, <2>2, <2>4, <2>5 DEF ShadowInv
<1> QED
  BY <1>3, <1>6, <1>7

\* The note and the token.
LEMMA CountAdd ==
    ASSUME TypeOK, TokenInv, StageInv, ShadowInv, AddNote \/ AddToken
    PROVE  TokenInv' /\ StageInv' /\ ShadowInv'
<1>1. /\ cur \in Resource /\ pkg # NoPkg /\ pkg \in Pkg /\ todo # <<>> /\ Adding
      /\ UNCHANGED <<shadow, recorded, pkg, stage, todo>>
      /\ cur' = cur /\ (Adding' <=> Adding) /\ at \in {"note", "token"}
  BY CurTyped DEF AddNote, AddToken, cmdVars, cur, Adding, TypeOK
<1>2. /\ pkg \in recorded /\ Range(todo) \subseteq Listed(pkg) /\ cur \in shadow
      /\ cur \in Range(todo)
  BY <1>1, CurNext DEF StageInv
<1>3. CASE AddNote
  <2>1. /\ token' = token /\ at = "note" /\ at' = "token" /\ preexist' \subseteq preexist \cup {cur}
    BY <1>3 DEF AddNote
  <2>2. /\ Active({"token"})' /\ Active({"note", "token", "unshadow"})' /\ ~Active({"token"})
    BY <1>1, <2>1 DEF Active
  <2>3. TokenInv'
    BY <1>1, <2>1 DEF TokenInv
  <2>4. StageInv'
    BY <1>1, <1>2, <2>1 DEF StageInv
  <2>5. ShadowInv'
    BY <1>1, <2>1, <2>2 DEF ShadowInv
  <2> QED
    BY <2>3, <2>4, <2>5
<1>4. CASE AddToken
  <2>1. /\ preexist' = preexist /\ at = "token" /\ at' = "create"
        /\ \A r \in Resource : token'[r] = IF r = cur THEN token[r] \cup {pkg} ELSE token[r]
    BY <1>1, <1>4 DEF AddToken, TypeOK
  <2>2. TokenInv'
    BY <1>1, <1>2, <2>1 DEF TokenInv, Adding
  <2>3. StageInv'
    BY <1>1, <1>2, <2>1 DEF StageInv
  <2>4. \A r \in Resource : token[r] # {} => token'[r] # {}
    BY <2>1
  <2>5. token'[cur] # {}
    BY <1>1, <2>1
  <2>6. preexist \subseteq Resource
    BY DEF TypeOK
  <2>7. \A r \in preexist' : token'[r] # {}
    BY <2>1, <2>4, <2>5, <2>6 DEF ShadowInv
  <2>8. \A r \in Resource : token'[r] # {} => r \in shadow'
    BY <1>1, <1>2, <2>1 DEF ShadowInv
  <2>9. \A x \in shadow' : \E y \in Resource : Leads(x, y) /\ token'[y] # {}
    BY <1>1, <2>4, <2>5 DEF ShadowInv
  <2>10. \A r \in shadow' \cap Dir : Above[r] \subseteq shadow'
    BY <1>1 DEF ShadowInv
  <2> QED
    BY <2>2, <2>3, <2>7, <2>8, <2>9, <2>10 DEF ShadowInv
<1> QED
  BY <1>3, <1>4

\* The commands that leave the counts alone.
LEMMA CountLook ==
    ASSUME TypeOK, TokenInv, StageInv, ShadowInv, AddCreate \/ RemoveCheck \/ RemoveResource
    PROVE  TokenInv' /\ StageInv' /\ ShadowInv'
<1>1. /\ cur \in Resource /\ pkg # NoPkg /\ todo # <<>>
      /\ UNCHANGED dbVars /\ UNCHANGED <<shadow, token, recorded, pkg, stage>>
      /\ (Adding' <=> Adding) /\ Range(todo) = {cur} \cup Range(Tail(todo))
  BY CurTyped, CurNext DEF AddCreate, RemoveCheck, RemoveResource, cmdVars, dbVars, Adding
<1>2. ~Active({"note", "token", "unshadow"})
  BY DEF Active, AddCreate, RemoveCheck, RemoveResource
<1>3. ShadowInv'
  BY <1>1, <1>2, ShadowFrame
<1>4. CASE AddCreate
  <2>1. todo' = Tail(todo) /\ at' = "shadow" /\ Adding
    BY <1>4 DEF AddCreate
  <2>2. TokenInv'
    BY <1>1, <2>1, TokenNext
  <2> QED
    BY <1>1, <1>3, <2>1, <2>2 DEF StageInv
<1>5. CASE RemoveCheck /\ pkg \notin token[cur]
  <2>1. todo' = Tail(todo) /\ at' = "check" /\ ~Adding
    BY <1>5 DEF RemoveCheck
  <2>2. TokenInv'
    BY <1>1, <1>5, <2>1, TokenNext
  <2> QED
    BY <1>1, <1>3, <2>1, <2>2 DEF StageInv
<1>6. CASE RemoveCheck /\ pkg \in token[cur]
  <2>1. todo' = todo /\ cur' = cur /\ at' = "resource" /\ ~Adding
    BY <1>6 DEF RemoveCheck, cur
  <2>2. TokenInv'
    BY <1>1, <2>1 DEF TokenInv
  <2>3. cur \in shadow
    BY <1>1, <1>6 DEF ShadowInv
  <2> QED
    BY <1>1, <1>3, <1>6, <2>1, <2>2, <2>3 DEF StageInv
<1>7. CASE RemoveResource
  <2>1. todo' = todo /\ cur' = cur /\ at = "resource" /\ at' = "forget" /\ ~Adding
    BY <1>7 DEF RemoveResource, cur, cmdVars
  <2>2. TokenInv'
    BY <1>1, <2>1 DEF TokenInv
  <2> QED
    BY <1>1, <1>3, <2>1, <2>2 DEF StageInv
<1> QED
  BY <1>4, <1>5, <1>6, <1>7

\* rm of the note: the token is still there.
LEMMA CountForget ==
    ASSUME TypeOK, TokenInv, StageInv, ShadowInv, RemoveNote
    PROVE  TokenInv' /\ StageInv' /\ ShadowInv'
<1>1. /\ pkg # NoPkg /\ todo # <<>> /\ ~Adding
      /\ UNCHANGED <<shadow, token, recorded, pkg, stage, todo>>
      /\ cur' = cur /\ (Adding' <=> Adding) /\ at = "forget" /\ at' = "untoken"
      /\ preexist' = preexist \ {cur}
  BY DEF RemoveNote, cmdVars, cur, Adding
<1>2. TokenInv'
  BY <1>1 DEF TokenInv
<1>3. cur \in shadow /\ pkg \in token[cur]
  BY <1>1 DEF StageInv
<1>4. StageInv'
  BY <1>1, <1>3 DEF StageInv
<1>5. ~Active({"note", "token", "unshadow"}) /\ ~Active({"token"})
  BY <1>1 DEF Active
<1>6. ShadowInv'
  BY <1>1, <1>5 DEF ShadowInv
<1> QED
  BY <1>2, <1>4, <1>6

\* rm of the token: the shadow directory is left to the script.
LEMMA CountUntoken ==
    ASSUME TypeOK, TokenInv, StageInv, ShadowInv, RemoveToken
    PROVE  TokenInv' /\ StageInv' /\ ShadowInv'
<1>1. /\ cur \in Resource /\ pkg # NoPkg /\ todo # <<>> /\ ~Adding
      /\ UNCHANGED <<shadow, preexist, recorded, pkg, stage, todo>>
      /\ cur' = cur /\ (Adding' <=> Adding) /\ at = "untoken" /\ at' = "unshadow"
      /\ preexist \subseteq Resource
      /\ \A r \in Resource : token'[r] = IF r = cur THEN token[r] \ {pkg} ELSE token[r]
  BY CurTyped DEF RemoveToken, cmdVars, cur, Adding, TypeOK
<1>2. cur \in shadow /\ cur \notin preexist
  BY <1>1 DEF StageInv
<1>3. TokenInv'
  BY <1>1 DEF TokenInv
<1>4. StageInv'
  BY <1>1, <1>2 DEF StageInv
<1>5. /\ Active({"note", "token", "unshadow"})' /\ ~Active({"note", "token", "unshadow"})
      /\ ~Active({"token"})
  BY <1>1 DEF Active
<1>6. ShadowInv'
  <2>1. \A r \in Resource : token'[r] # {} => r \in shadow'
    BY <1>1 DEF ShadowInv
  <2>2. \A r \in preexist' : token'[r] # {}
    BY <1>1, <1>2, <1>5 DEF ShadowInv
  <2>3. \A r \in shadow' \cap Dir : Above[r] \subseteq shadow'
    BY <1>1 DEF ShadowInv
  <2>4. \A x \in shadow' : \E y \in Resource :
           Leads(x, y) /\ (token'[y] # {} \/ (Active({"note", "token", "unshadow"})' /\ cur' = y))
    BY <1>1, <1>5 DEF ShadowInv
  <2> QED
    BY <2>1, <2>2, <2>3, <2>4 DEF ShadowInv
<1> QED
  BY <1>3, <1>4, <1>6

\* rmdir -p of the shadow directory: what it leaves leads to something else.
LEMMA CountUnshadow ==
    ASSUME TypeOK, TokenInv, StageInv, ShadowInv, RemoveShadow
    PROVE  TokenInv' /\ StageInv' /\ ShadowInv'
<1> DEFINE S == shadow \cap Tree(cur)
           busy == preexist \cup {r \in Resource : token[r] # {}}
           path == {cur} \cup (IF cur \in Dir THEN Above[cur] ELSE {})
           Under(d) == {x \in S : d \in Above[x]}
           Below(d) == {x \in path : x = d \/ d \in Above[x]}
           gone == RmdirP(S, busy, cur)
<1>1. /\ cur \in Resource /\ pkg # NoPkg /\ todo # <<>> /\ ~Adding
      /\ UNCHANGED <<preexist, token, recorded, pkg, stage>>
      /\ (Adding' <=> Adding) /\ at = "unshadow" /\ at' = "check" /\ todo' = Tail(todo)
      /\ shadow' = shadow \ gone
  BY CurTyped DEF RemoveShadow, cmdVars, Adding
<1>2. cur \in shadow /\ pkg \notin token[cur]
  BY <1>1 DEF StageInv
<1>3. TokenInv'
  BY <1>1, <1>2, TokenNext
<1>4. StageInv'
  BY <1>1 DEF StageInv
<1>5. /\ Active({"note", "token", "unshadow"}) /\ ~Active({"token"})
  BY <1>1 DEF Active
<1>6. /\ \A d : d \in gone <=>
             d \in path /\ Under(d) \subseteq path /\ Below(d) \cap busy = {}
      /\ cur \in S /\ shadow \subseteq Resource
  BY <1>2 DEF RmdirP, Tree, TypeOK
<1>7. /\ busy = {r \in Resource : token[r] # {}} /\ busy \subseteq shadow
  BY <1>5 DEF ShadowInv, TypeOK
<1>8. \A r \in Resource : Above[r] \subseteq Dir /\ \A d \in Above[r] : Above[d] \subseteq Above[r]
  BY AboveAssumption
<1>9. Dir \subseteq Resource
  BY DEF Resource
<1>10. /\ cur \in Dir => path \subseteq Dir /\ S = shadow \cap Dir
       /\ cur \notin Dir => path = {cur} /\ S = {cur} /\ cur \notin Above[cur]
       /\ path \subseteq Resource
  BY <1>1, <1>2, <1>8, <1>9 DEF Tree
<1>11. \A r \in Resource : token'[r] # {} => r \in shadow'
  BY <1>1, <1>6, <1>7
<1>12. \A r \in preexist' : token'[r] # {}
  BY <1>1, <1>7
<1> HIDE DEF S, busy, path, gone
<1>13. ASSUME NEW r \in shadow' \cap Dir, NEW a \in Above[r] PROVE a \in shadow'
  <2>1. r \in shadow /\ r \notin gone /\ r \in Dir /\ r \in Resource /\ a \in shadow
    BY <1>1, <1>9, <1>13 DEF ShadowInv
  <2>2. SUFFICES ASSUME a \in gone PROVE FALSE
    BY <1>1, <2>1
  <2>3. a \in path /\ Under(a) \subseteq path /\ Below(a) \cap busy = {} /\ a \in Dir
    BY <1>6, <1>8, <2>1, <2>2
  <2>4. cur \in Dir /\ r \in S
    BY <1>10, <2>1, <2>3
  <2>5. r \in path
    BY <2>3, <2>4
  <2>6. CASE ~(Under(r) \subseteq path)
    <3>1. PICK x \in Under(r) : x \notin path
      BY <2>6
    <3>2. x \in S /\ r \in Above[x] /\ x \in Resource
      BY <1>6, <3>1 DEF S
    <3>3. a \in Above[x]
      BY <1>8, <3>2
    <3> QED
      BY <2>3, <3>1, <3>2, <3>3
  <2>7. CASE Below(r) \cap busy # {}
    <3>1. PICK x \in busy : x \in path /\ (x = r \/ r \in Above[x])
      BY <2>7
    <3>2. a \in Above[x]
      BY <1>8, <1>10, <3>1
    <3> QED
      BY <2>3, <3>1, <3>2
  <2> QED
    BY <1>6, <2>1, <2>5, <2>6, <2>7
<1>14. ASSUME NEW x \in shadow' PROVE \E y \in Resource : Leads(x, y) /\ token'[y] # {}
  <2>1. x \in shadow /\ x \notin gone /\ x \in Resource
    BY <1>1, <1>6
  <2>2. PICK y \in Resource : Leads(x, y) /\ (token[y] # {} \/ y = cur)
    BY <2>1 DEF ShadowInv
  <2>3. CASE token[y] # {}
    BY <1>1, <2>2, <2>3
  <2>4. CASE y = cur
    <3>1. x \in path
      BY <2>2, <2>4 DEF Leads, path
    <3>2. CASE ~(Under(x) \subseteq path)
      <4>1. PICK z \in S : x \in Above[z] /\ z \notin path
        BY <3>2
      <4>2. cur \in Dir /\ z \in shadow \cap Dir /\ z \in Resource
        BY <1>6, <1>10, <4>1
      <4>3. PICK w \in Resource : Leads(z, w) /\ (token[w] # {} \/ w = cur)
        BY <4>2 DEF ShadowInv
      <4>4. w # cur
        BY <4>1, <4>3 DEF Leads, path
      <4>5. Leads(x, z)
        BY <4>1, <4>2 DEF Leads
      <4>6. Leads(x, w)
        BY <4>2, <4>3, <4>5, LeadsOn
      <4> QED
        BY <1>1, <4>3, <4>4, <4>6
    <3>3. CASE Below(x) \cap busy # {}
      <4>1. PICK z \in busy : z \in path /\ (z = x \/ x \in Above[z])
        BY <3>3
      <4>2. z \in Resource /\ token[z] # {}
        BY <1>7, <4>1
      <4>3. Leads(x, z)
        BY <1>10, <2>1, <3>1, <4>1 DEF Leads
      <4> QED
        BY <1>1, <4>2, <4>3
    <3> QED
      BY <1>6, <2>1, <3>1, <3>2, <3>3
  <2> QED
    BY <2>2, <2>3, <2>4
<1>15. ShadowInv'
  BY <1>11, <1>12, <1>13, <1>14 DEF ShadowInv
<1> QED
  BY <1>3, <1>4, <1>15

\* Every step keeps CountInv.
LEMMA CountStep == TypeOK /\ CountInv /\ [Next]_vars => CountInv'
<1> SUFFICES ASSUME TypeOK, CountInv, [Next]_vars, ~broken'
             PROVE  TokenInv' /\ StageInv' /\ ShadowInv'
  BY DEF CountInv
<1>1. ~InstallFails /\ ~Kill
  BY DEF InstallFails, Kill
<1>2. ~broken
  BY <1>1 DEF Next, vars, histVars, Install, Deinstall, Start, StageDone, Edit, AddShadow, AddNote,
         AddToken, AddCreate, RemoveCheck, RemoveResource, RemoveNote,
         RemoveToken, RemoveShadow
<1>3. TokenInv /\ StageInv /\ ShadowInv
  BY <1>2 DEF CountInv
<1>4. CASE UNCHANGED vars
  BY <1>3, <1>4, CountFrame DEF vars, cmdVars
<1>5. ASSUME NEW f \in File, Edit(f) PROVE TokenInv' /\ StageInv' /\ ShadowInv'
  BY <1>3, <1>5, CountFrame DEF Edit, cmdVars
<1> QED
  BY <1>1, <1>3, <1>4, <1>5, CountStart, CountDone, CountShadow, CountAdd, CountLook, CountForget,
     CountUntoken, CountUnshadow
  DEF Next

\* Once all packages are gone, and no stage was killed and no installation
\* failed, there is no shadow directory, note or token left, with nested and
\* shared resources and in any order of removal.
THEOREM NothingLeftCorrect == Spec => []NothingLeft
<1>1. Init => CountInv
  <2> SUFFICES ASSUME Init PROVE TokenInv /\ StageInv /\ ShadowInv
    BY DEF CountInv
  <2> QED
    BY DEF Init, TokenInv, StageInv, ShadowInv
<1>2. TypeOK /\ CountInv => NothingLeft
  <2> SUFFICES ASSUME TypeOK, CountInv, recorded = {}, pkg = NoPkg, ~broken
               PROVE  shadow = {} /\ preexist = {} /\ \A r \in Resource : token[r] = {}
    BY DEF NothingLeft
  <2>1. TokenInv /\ ShadowInv
    BY DEF CountInv
  <2>2. \A r \in Resource : token[r] = {}
    BY <2>1 DEF TokenInv
  <2>3. \A S : ~Active(S)
    BY DEF Active
  <2> QED
    BY <2>1, <2>2, <2>3 DEF ShadowInv, TypeOK
<1> QED
  BY <1>1, <1>2, TypeInit, TypeStep, CountStep, PTL DEF Spec
=============================================================================
