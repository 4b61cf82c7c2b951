--------------------------- MODULE LockingProofs ---------------------------
(***************************************************************************)
(* Proof that the lock files of locking.mk exclude until a reboot, and that*)
(* the edits of +REQUIRED_BY made under the lock of the prefix then lose   *)
(* nothing, for any number of processes and locks and any phases that      *)
(* release what they acquire.                                              *)
(***************************************************************************)
EXTENDS Locking, TLAPS

\* The target p is running is one of its plan.
LEMMA DoingOp ==
    ASSUME TypeOK, NEW p \in Proc, NEW o, Doing(p, o)
    PROVE  /\ step[p] \in 1..Len(Plan[p])
           /\ o \in {"acquire", "release"} =>
                 /\ lockfile(p) \in Lock
                 /\ Plan[p][step[p]] = [op |-> o, lock |-> lockfile(p)]
           /\ o \in {"append", "register", "remove"} =>
                 Plan[p][step[p]] \in Edit /\ target(p) \in Pkg
<1>1. Plan[p] \in Seq(Op)
  BY PlanAssumption
<1>2. step[p] \in 1..Len(Plan[p])
  BY <1>1 DEF TypeOK, Doing, Ended
<1>3. Plan[p][step[p]] \in Op /\ Plan[p][step[p]].op = o
  BY <1>1, <1>2 DEF Doing
<1>4. ASSUME o \in {"acquire", "release"}
      PROVE  Plan[p][step[p]] \in [op : {"acquire", "release"}, lock : Lock]
  BY <1>3, <1>4 DEF Op, Edit
<1>5. ASSUME o \in {"append", "register", "remove"}
      PROVE  Plan[p][step[p]] \in Edit
  BY <1>3, <1>5 DEF Op
<1> QED
  BY <1>2, <1>3, <1>4, <1>5 DEF lockfile, target, Edit

\* What is held after a target, by what the target is.
LEMMA HeldSplit ==
    ASSUME NEW p \in Proc, NEW i \in Nat \ {0}, NEW m \in Lock
    PROVE  m \in HeldAt(p, i + 1) <=>
              \/ m \in HeldAt(p, i) /\ Plan[p][i] # [op |-> "release", lock |-> m]
              \/ Plan[p][i] = [op |-> "acquire", lock |-> m]
<1> DEFINE Acq(j) == Plan[p][j] = [op |-> "acquire", lock |-> m]
           Rel(j) == Plan[p][j] = [op |-> "release", lock |-> m]
<1>1. 1..(i + 1 - 1) = 1..(i - 1) \cup {i}
  OBVIOUS
<1>2. \A j \in 1..(i - 1) : (j + 1)..(i + 1 - 1) = (j + 1)..(i - 1) \cup {i}
  OBVIOUS
<1>3. (i + 1)..(i + 1 - 1) = {}
  OBVIOUS
<1>4. m \in HeldAt(p, i) <=>
         \E j \in 1..(i - 1) : Acq(j) /\ \A k \in (j + 1)..(i - 1) : ~Rel(k)
  BY DEF HeldAt
<1>5. m \in HeldAt(p, i + 1) <=>
         \E j \in 1..(i + 1 - 1) : Acq(j) /\ \A k \in (j + 1)..(i + 1 - 1) : ~Rel(k)
  BY DEF HeldAt
<1>6. m \in HeldAt(p, i + 1) <=> (m \in HeldAt(p, i) /\ ~Rel(i)) \/ Acq(i)
  <2> HIDE DEF Acq, Rel
  <2> QED
    BY <1>1, <1>2, <1>3, <1>4, <1>5
<1> QED
  BY <1>6

\* What is held after an acquire or a release target.
LEMMA HeldNext ==
    ASSUME NEW p \in Proc, NEW i \in Nat \ {0}, NEW l \in Lock, NEW o,
           Plan[p][i] = [op |-> o, lock |-> l]
    PROVE  /\ o = "acquire" => HeldAt(p, i + 1) = HeldAt(p, i) \cup {l}
           /\ o = "release" => HeldAt(p, i + 1) = HeldAt(p, i) \ {l}
<1>1. \A m \in Lock : /\ Plan[p][i] = [op |-> "acquire", lock |-> m]
                            <=> (o = "acquire" /\ m = l)
                      /\ Plan[p][i] = [op |-> "release", lock |-> m]
                            <=> (o = "release" /\ m = l)
  OBVIOUS
<1>2. HeldAt(p, i) \subseteq Lock /\ HeldAt(p, i + 1) \subseteq Lock
  BY DEF HeldAt
<1>3. \A m \in Lock :
         m \in HeldAt(p, i + 1) <=>
            \/ m \in HeldAt(p, i) /\ ~(o = "release" /\ m = l)
            \/ o = "acquire" /\ m = l
  <2> TAKE m \in Lock
  <2>1. m \in HeldAt(p, i + 1) <=>
           \/ m \in HeldAt(p, i) /\ Plan[p][i] # [op |-> "release", lock |-> m]
           \/ Plan[p][i] = [op |-> "acquire", lock |-> m]
    BY HeldSplit
  <2> QED
    BY <1>1, <2>1
<1>4. ASSUME o = "acquire"
      PROVE  HeldAt(p, i + 1) = HeldAt(p, i) \cup {l}
  <2>1. \A m \in Lock : m \in HeldAt(p, i + 1) <=> m \in HeldAt(p, i) \/ m = l
    BY <1>3, <1>4
  <2> QED BY <1>2, <2>1
<1>5. ASSUME o = "release"
      PROVE  HeldAt(p, i + 1) = HeldAt(p, i) \ {l}
  <2>1. \A m \in Lock : m \in HeldAt(p, i + 1) <=> m \in HeldAt(p, i) /\ m # l
    BY <1>3, <1>5
  <2> QED BY <1>2, <2>1
<1> QED BY <1>4, <1>5

\* A target that edits leaves the locks alone.
LEMMA HeldEdit ==
    ASSUME NEW p \in Proc, NEW i \in Nat \ {0}, Plan[p][i] \in Edit
    PROVE  HeldAt(p, i + 1) = HeldAt(p, i)
<1>1. \A m \in Lock : /\ Plan[p][i] # [op |-> "acquire", lock |-> m]
                      /\ Plan[p][i] # [op |-> "release", lock |-> m]
  BY DEF Edit
<1>2. HeldAt(p, i) \subseteq Lock /\ HeldAt(p, i + 1) \subseteq Lock
  BY DEF HeldAt
<1>3. \A m \in Lock : m \in HeldAt(p, i + 1) <=> m \in HeldAt(p, i)
  BY <1>1, HeldSplit
<1> QED
  BY <1>2, <1>3

\* The state facts of LockInv before a reboot.
Exclusive ==
    /\ old = {}
    /\ \A p \in Proc : at[p] # "remove"
    /\ \A p \in Proc : \A l \in held[p] : file[l] = p
    /\ \A p \in Proc : held[p] = IF p \in alive THEN HeldAt(p, step[p]) ELSE {}

\* The invariant holds when no lock file exists.
LEMMA LockInvInit == Init => LockInv
<1> SUFFICES ASSUME Init PROVE LockInv
  OBVIOUS
<1>1. TypeOK
  <2>1. /\ work \in [Proc -> {"start", "copied", "truncated"}]
        /\ copy \in [Proc -> SUBSET Pkg] /\ held \in [Proc -> SUBSET Lock]
    BY DEF Init
  <2>2. /\ file \in [Lock -> Proc \cup {NoProc}] /\ step \in [Proc -> Nat \ {0}]
        /\ at \in [Proc -> {"check", "remove", "shlock"}]
    BY DEF Init
  <2>3. /\ old \subseteq Lock /\ alive \subseteq Proc
        /\ lines \subseteq Pkg /\ due \subseteq Pkg
    BY DEF Init
  <2>4. torn \in BOOLEAN
    BY DEF Init
  <2>5. boots \in 0..MaxBoots
    BY BoundsAssumption DEF Init
  <2> QED
    BY <2>1, <2>2, <2>3, <2>4, <2>5 DEF TypeOK
<1>2. \A p \in Proc : HeldAt(p, 1) = {}
  BY DEF HeldAt
<1> QED
  BY <1>1, <1>2 DEF Init, LockInv

\* Going on to the next target keeps the types.
LEMMA TargetTyped ==
    ASSUME TypeOK, NEW p \in Proc, NextTarget(p)
    PROVE  /\ step' \in [Proc -> Nat \ {0}]
           /\ at' \in [Proc -> {"check", "remove", "shlock"}]
  BY DEF TypeOK, NextTarget

\* The end of an edit keeps the types of all but the lines.
LEMMA EditedTyped ==
    ASSUME TypeOK, NEW p \in Proc, Edited(p), lines' \subseteq Pkg, due' \subseteq Pkg
    PROVE  TypeOK'
<1>1. step' \in [Proc -> Nat \ {0}] /\ at' \in [Proc -> {"check", "remove", "shlock"}]
  BY TargetTyped DEF Edited
<1>2. work' \in [Proc -> {"start", "copied", "truncated"}] /\ copy' \in [Proc -> SUBSET Pkg]
  BY DEF Edited, TypeOK
<1> QED
  BY <1>1, <1>2 DEF Edited, TypeOK

\* A process that dies keeps the types.
LEMMA DiesTyped ==
    ASSUME TypeOK, NEW p \in Proc, Dies(p),
           at' \in [Proc -> {"check", "remove", "shlock"}]
    PROVE  TypeOK'
<1>1. work' \in [Proc -> {"start", "copied", "truncated"}] /\ copy' \in [Proc -> SUBSET Pkg]
  BY DEF Dies, TypeOK
<1>2. torn' \in BOOLEAN
  BY DEF Dies, TypeOK
<1> QED
  BY <1>1, <1>2 DEF Dies, TypeOK

\* Every step keeps the types.
LEMMA TypeStep == TypeOK /\ [Next]_vars => TypeOK'
<1> SUFFICES ASSUME TypeOK, [Next]_vars PROVE TypeOK'
  OBVIOUS
<1> USE BoundsAssumption
<1>1. CASE UNCHANGED vars
  BY <1>1 DEF vars, lockVars, editVars, TypeOK
<1>2. CASE Reboot
  <2>1. /\ work' \in [Proc -> {"start", "copied", "truncated"}]
        /\ copy' \in [Proc -> SUBSET Pkg] /\ held' \in [Proc -> SUBSET Lock]
    BY <1>2 DEF Reboot
  <2>2. /\ file' \in [Lock -> Proc \cup {NoProc}] /\ step' \in [Proc -> Nat \ {0}]
        /\ at' \in [Proc -> {"check", "remove", "shlock"}]
    BY <1>2 DEF Reboot, TypeOK
  <2>3. /\ old' \subseteq Lock /\ alive' \subseteq Proc
        /\ lines' \subseteq Pkg /\ due' \subseteq Pkg
    BY <1>2 DEF Reboot, TypeOK
  <2>4. torn' \in BOOLEAN
    BY <1>2 DEF Reboot
  <2>5. boots' \in 0..MaxBoots
    BY <1>2 DEF Reboot, TypeOK
  <2> QED
    BY <2>1, <2>2, <2>3, <2>4, <2>5 DEF TypeOK
<1>3. ASSUME NEW p \in Proc, Step(p) \/ Kill(p) PROVE TypeOK'
  <2>1. CASE CheckBoot(p)
    BY <2>1 DEF CheckBoot, TypeOK, editVars
  <2>2. CASE RemoveStale(p)
    BY <2>2, DoingOp DEF RemoveStale, TypeOK, editVars
  <2>3. CASE Acquire(p)
    <3>1. lockfile(p) \in Lock
      BY <2>3, DoingOp DEF Acquire
    <3>2. step' \in [Proc -> Nat \ {0}] /\ at' \in [Proc -> {"check", "remove", "shlock"}]
      BY <2>3, TargetTyped DEF Acquire
    <3> QED
      BY <2>3, <3>1, <3>2 DEF Acquire, TypeOK, editVars
  <2>4. CASE Busy(p)
    <3>1. at' \in [Proc -> {"check", "remove", "shlock"}]
      BY <2>4 DEF Busy, TypeOK
    <3>2. CASE Dies(p)
      BY <3>1, <3>2, DiesTyped
    <3>3. CASE UNCHANGED <<file, old, alive, step, held, boots, editVars>>
      BY <3>1, <3>3 DEF TypeOK, editVars
    <3> QED
      BY <2>4, <3>2, <3>3 DEF Busy
  <2>5. CASE Release(p)
    <3>1. lockfile(p) \in Lock
      BY <2>5, DoingOp DEF Release
    <3>2. step' \in [Proc -> Nat \ {0}] /\ at' \in [Proc -> {"check", "remove", "shlock"}]
      BY <2>5, TargetTyped DEF Release
    <3> QED
      BY <2>5, <3>1, <3>2 DEF Release, TypeOK, editVars
  <2>6. CASE Exit(p) \/ Kill(p)
    <3>1. Dies(p) /\ at' \in [Proc -> {"check", "remove", "shlock"}]
      BY <2>6 DEF Exit, Kill, TypeOK
    <3> QED
      BY <3>1, DiesTyped
  <2>7. CASE AppendLine(p)
    <3>1. target(p) \in Pkg
      BY <2>7, DoingOp DEF AppendLine
    <3>2. lines' \subseteq Pkg /\ due' \subseteq Pkg
      BY <2>7, <3>1 DEF AppendLine, TypeOK
    <3> QED
      BY <2>7, <3>2, EditedTyped DEF AppendLine
  <2>8. CASE Copy(p)
    <3>1. target(p) \in Pkg
      BY <2>8, DoingOp DEF Copy
    <3>2. copy' \in [Proc -> SUBSET Pkg]
      BY <2>8, <3>1 DEF Copy, TypeOK
    <3>3. work' \in [Proc -> {"start", "copied", "truncated"}]
      BY <2>8 DEF Copy, TypeOK
    <3> QED
      BY <2>8, <3>2, <3>3 DEF Copy, TypeOK, lockVars
  <2>9. CASE Rename(p)
    <3>1. lines' \subseteq Pkg /\ due' \subseteq Pkg
      BY <2>9 DEF Rename, TypeOK
    <3> QED
      BY <2>9, <3>1, EditedTyped DEF Rename
  <2>10. CASE Truncate(p)
    BY <2>10 DEF Truncate, TypeOK, lockVars
  <2>11. CASE Write(p)
    <3>1. target(p) \in Pkg
      BY <2>11, DoingOp DEF Write
    <3>2. lines' \subseteq Pkg /\ due' \subseteq Pkg
      BY <2>11, <3>1 DEF Write, TypeOK
    <3> QED
      BY <2>11, <3>2, EditedTyped DEF Write
  <2> QED
    BY <1>3, <2>1, <2>2, <2>3, <2>4, <2>5, <2>6, <2>7, <2>8, <2>9, <2>10, <2>11 DEF Step
<1> QED
  BY <1>1, <1>2, <1>3 DEF Next

\* A process that dies, with its lock files left in place, disturbs nothing.
LEMMA DiesExclusive ==
    ASSUME TypeOK, Exclusive, NEW p \in Proc, Dies(p),
           at' = at \/ at' = [at EXCEPT ![p] = "check"]
    PROVE  Exclusive'
<1>1. \A q \in Proc : at'[q] # "remove"
  BY DEF TypeOK, Exclusive
<1>2. \A q \in Proc : held'[q] = IF q = p THEN {} ELSE held[q]
  BY DEF Dies, TypeOK
<1>3. /\ old' = {} /\ file' = file /\ step' = step
      /\ \A q \in Proc : q \in alive' <=> q \in alive /\ q # p
  BY DEF Dies, Exclusive
<1>4. \A q \in Proc : HeldAt(q, step[q])' = HeldAt(q, step[q])
  BY <1>3 DEF HeldAt
<1> QED
  BY <1>1, <1>2, <1>3, <1>4 DEF Exclusive

\* An edit, and going on to the next target after it, changes no lock.
LEMMA EditExclusive ==
    ASSUME TypeOK, Exclusive, NEW p \in Proc,
           Doing(p, "append") \/ Doing(p, "register") \/ Doing(p, "remove"),
           UNCHANGED lockVars \/ Edited(p)
    PROVE  Exclusive'
<1>1. CASE UNCHANGED lockVars
  <2>1. \A q \in Proc : HeldAt(q, step[q])' = HeldAt(q, step[q])
    BY <1>1 DEF lockVars, HeldAt
  <2> QED
    BY <1>1, <2>1 DEF lockVars, Exclusive
<1>2. CASE Edited(p)
  <2>1. Plan[p][step[p]] \in Edit /\ step[p] \in Nat \ {0}
    BY DoingOp DEF TypeOK
  <2>2. HeldAt(p, step[p] + 1) = HeldAt(p, step[p])
    BY <2>1, HeldEdit
  <2>3. /\ \A q \in Proc : step'[q] = IF q = p THEN step[p] + 1 ELSE step[q]
        /\ \A q \in Proc : at'[q] = IF q = p THEN "check" ELSE at[q]
        /\ old' = {} /\ file' = file /\ alive' = alive /\ held' = held
    BY <1>2 DEF Edited, NextTarget, TypeOK, Exclusive
  <2>4. \A q \in Proc : HeldAt(q, step'[q]) = HeldAt(q, step[q])
    BY <2>2, <2>3
  <2>5. \A q \in Proc : HeldAt(q, step[q])' = HeldAt(q, step'[q])
    BY DEF HeldAt
  <2>6. \A q \in Proc : at'[q] # "remove"
    BY <2>3 DEF Exclusive
  <2> QED
    BY <2>3, <2>4, <2>5, <2>6 DEF Exclusive
<1> QED
  BY <1>1, <1>2

\* No step of a process, and no kill, lets a second one into a lock.
LEMMA ExclusiveStep ==
    ASSUME TypeOK, Exclusive, NEW p \in Proc, Step(p) \/ Kill(p)
    PROVE  Exclusive'
<1> DEFINE l == lockfile(p)
<1>1. CASE CheckBoot(p)
  <2>1. at'[p] = "shlock" /\ \A q \in Proc : q # p => at'[q] = at[q]
    BY <1>1 DEF CheckBoot, Exclusive, TypeOK
  <2>2. \A q \in Proc : at'[q] # "remove"
    BY <2>1 DEF Exclusive
  <2>3. /\ old' = {} /\ file' = file /\ step' = step
        /\ alive' = alive /\ held' = held
    BY <1>1 DEF CheckBoot, Exclusive
  <2>4. \A q \in Proc : HeldAt(q, step[q])' = HeldAt(q, step[q])
    BY <2>3 DEF HeldAt
  <2> QED
    BY <2>2, <2>3, <2>4 DEF Exclusive
<1>2. CASE RemoveStale(p)
  BY <1>2 DEF RemoveStale, Exclusive
<1>3. CASE Acquire(p)
  <2>1. l \in Lock /\ Plan[p][step[p]] = [op |-> "acquire", lock |-> l]
    BY <1>3, DoingOp DEF Acquire
  <2>2. p \in alive /\ step[p] \in Nat \ {0}
    BY <1>3 DEF Acquire, Doing, TypeOK
  <2>3. \A q \in Proc : l \notin held[q]
    <3>1. \A q \in Proc : l \in held[q] => file[l] = q /\ q \in alive
      BY DEF Exclusive
    <3> QED
      BY <1>3, <3>1, NoProcAssumption DEF Acquire, Free
  <2>4. HeldAt(p, step[p] + 1) = HeldAt(p, step[p]) \cup {l}
    BY <2>1, <2>2, HeldNext
  <2>5. /\ \A q \in Proc : step'[q] = IF q = p THEN step[p] + 1 ELSE step[q]
        /\ \A q \in Proc : at'[q] = IF q = p THEN "check" ELSE at[q]
        /\ \A q \in Proc : held'[q] = IF q = p THEN held[p] \cup {l} ELSE held[q]
        /\ \A m \in Lock : file'[m] = IF m = l THEN p ELSE file[m]
        /\ old' = {} /\ alive' = alive
    BY <1>3, <2>1 DEF Acquire, NextTarget, TypeOK, Exclusive
  <2>6. \A q \in Proc : \A m \in held'[q] : file'[m] = q
    BY <2>1, <2>3, <2>5 DEF Exclusive, TypeOK
  <2>7. \A q \in Proc : held'[q] = IF q \in alive' THEN HeldAt(q, step'[q]) ELSE {}
    BY <2>2, <2>4, <2>5 DEF Exclusive
  <2>8. \A q \in Proc : HeldAt(q, step[q])' = HeldAt(q, step'[q])
    BY DEF HeldAt
  <2>9. \A q \in Proc : at'[q] # "remove"
    BY <2>5 DEF Exclusive
  <2> QED
    BY <2>5, <2>6, <2>7, <2>8, <2>9 DEF Exclusive
<1>4. CASE Busy(p)
  <2>1. CASE Dies(p)
    BY <1>4, <2>1, DiesExclusive DEF Busy
  <2>2. CASE UNCHANGED <<file, old, alive, step, held, boots, editVars>>
    <3>1. \A q \in Proc : at'[q] # "remove"
      BY <1>4 DEF Busy, Exclusive, TypeOK
    <3>2. /\ old' = {} /\ file' = file /\ step' = step
          /\ alive' = alive /\ held' = held
      BY <2>2 DEF Exclusive
    <3>3. \A q \in Proc : HeldAt(q, step[q])' = HeldAt(q, step[q])
      BY <3>2 DEF HeldAt
    <3> QED
      BY <3>1, <3>2, <3>3 DEF Exclusive
  <2> QED
    BY <1>4, <2>1, <2>2 DEF Busy
<1>5. CASE Release(p)
  <2>1. /\ l \in Lock /\ Plan[p][step[p]] = [op |-> "release", lock |-> l]
        /\ step[p] \in 1..Len(Plan[p])
    BY <1>5, DoingOp DEF Release
  <2>2. p \in alive /\ step[p] \in Nat \ {0}
    BY <1>5 DEF Release, Doing, TypeOK
  <2>3. l \in held[p]
    BY <2>1, <2>2, PairedAssumption DEF Exclusive
  <2>4. \A q \in Proc : q # p => l \notin held[q]
    BY <2>3 DEF Exclusive
  <2>5. HeldAt(p, step[p] + 1) = HeldAt(p, step[p]) \ {l}
    BY <2>1, <2>2, HeldNext
  <2>6. /\ \A q \in Proc : step'[q] = IF q = p THEN step[p] + 1 ELSE step[q]
        /\ \A q \in Proc : at'[q] = IF q = p THEN "check" ELSE at[q]
        /\ \A q \in Proc : held'[q] = IF q = p THEN held[p] \ {l} ELSE held[q]
        /\ \A m \in Lock : file'[m] = IF m = l THEN NoProc ELSE file[m]
        /\ old' = {} /\ alive' = alive
    BY <1>5, <2>1 DEF Release, NextTarget, TypeOK, Exclusive
  <2>7. \A q \in Proc : \A m \in held'[q] : file'[m] = q
    BY <2>4, <2>6 DEF Exclusive, TypeOK
  <2>8. \A q \in Proc : held'[q] = IF q \in alive' THEN HeldAt(q, step'[q]) ELSE {}
    BY <2>2, <2>5, <2>6 DEF Exclusive
  <2>9. \A q \in Proc : HeldAt(q, step[q])' = HeldAt(q, step'[q])
    BY DEF HeldAt
  <2>10. \A q \in Proc : at'[q] # "remove"
    BY <2>6 DEF Exclusive
  <2> QED
    BY <2>6, <2>7, <2>8, <2>9, <2>10 DEF Exclusive
<1>6. CASE Exit(p) \/ Kill(p)
  BY <1>6, DiesExclusive DEF Exit, Kill
<1>7. CASE AppendLine(p) \/ Copy(p) \/ Rename(p) \/ Truncate(p) \/ Write(p)
  BY <1>7, EditExclusive DEF AppendLine, Copy, Rename, Truncate, Write
<1> QED
  BY <1>1, <1>2, <1>3, <1>4, <1>5, <1>6, <1>7 DEF Step

\* The invariant is inductive; a reboot leaves the states it speaks of.
LEMMA LockInvStep == LockInv /\ [Next]_vars => LockInv'
<1> SUFFICES ASSUME LockInv, [Next]_vars PROVE LockInv'
  OBVIOUS
<1>1. TypeOK'
  BY TypeStep DEF LockInv
<1>2. ASSUME boots' = 0 PROVE Exclusive'
  <2>1. ~Reboot
    BY <1>2 DEF Reboot, LockInv, TypeOK
  <2>2. boots = 0
    BY <1>2, <2>1 DEF Next, Step, Kill, CheckBoot, RemoveStale, Acquire, Busy,
                      Release, Exit, Dies, AppendLine, Copy, Rename, Truncate, Write,
                      Edited, vars, lockVars
  <2>3. TypeOK /\ Exclusive
    BY <2>2 DEF LockInv, Exclusive
  <2>4. CASE UNCHANGED vars
    <3>1. \A q \in Proc : HeldAt(q, step[q])' = HeldAt(q, step[q])
      BY <2>4 DEF vars, lockVars, HeldAt
    <3> QED
      BY <2>3, <2>4, <3>1 DEF vars, lockVars, Exclusive
  <2>5. CASE \E p \in Proc : Step(p) \/ Kill(p)
    BY <2>3, <2>5, ExclusiveStep
  <2> QED
    BY <2>1, <2>4, <2>5 DEF Next
<1> QED
  BY <1>1, <1>2 DEF LockInv, Exclusive

\* One lock file names one holder.
LEMMA LockInvExcludes == LockInv => ExclusionUntilReboot
  BY DEF LockInv, ExclusionUntilReboot, MutualExclusion

\* acquire and release of locking.mk exclude: until a reboot no two processes
\* hold the same lock, however many there are, whatever phases they run, and
\* wherever they are killed.
THEOREM ExclusionCorrect == Spec => []ExclusionUntilReboot
  BY LockInvInit, LockInvStep, LockInvExcludes, PTL DEF Spec

-----------------------------------------------------------------------------
(* The edits.                                                              *)

\* p and its target do not change.
LEMMA SameTarget ==
    ASSUME NEW q \in Proc, step'[q] = step[q], q \in alive' <=> q \in alive
    PROVE  (\A o : Doing(q, o)' <=> Doing(q, o)) /\ target(q)' = target(q)
  BY DEF Doing, Ended, target

\* Until a reboot, who edits holds the lock of the prefix.
LEMMA EditorHolds ==
    ASSUME LockInv, boots = 0, NEW p \in Proc,
           Doing(p, "append") \/ Doing(p, "register") \/ Doing(p, "remove")
    PROVE  Prefix \in held[p]
<1>1. TypeOK
  BY DEF LockInv
<1>2. step[p] \in 1..Len(Plan[p]) /\ Plan[p][step[p]] \in Edit
  BY <1>1, DoingOp
<1>3. p \in alive
  BY DEF Doing
<1> QED
  BY <1>2, <1>3, PrefixAssumption DEF LockInv

\* Until a reboot, nobody else has an edit under way.
LEMMA OneEditor ==
    ASSUME LockInv, EditInv, boots = 0, NEW p \in Proc,
           Doing(p, "append") \/ Doing(p, "register") \/ Doing(p, "remove"),
           NEW q \in Proc, q # p
    PROVE  work[q] = "start"
<1> SUFFICES ASSUME work[q] # "start" PROVE FALSE
  OBVIOUS
<1>1. Doing(q, "register") \/ Doing(q, "remove")
  BY DEF EditInv
<1>2. Prefix \in held[p] /\ Prefix \in held[q]
  BY <1>1, EditorHolds
<1> QED
  BY <1>2 DEF LockInv

\* A target is one thing.
LEMMA DoingOne ==
    ASSUME NEW p, NEW o1, NEW o2, Doing(p, o1), Doing(p, o2)
    PROVE  o1 = o2
  BY DEF Doing

\* What a process does that has no edit under way, and touches none, leaves
\* EditInv.
LEMMA LockEdit ==
    ASSUME TypeOK, EditInv, NEW p \in Proc, work[p] = "start",
           UNCHANGED editVars, boots' = boots,
           \A q \in Proc : q # p => step'[q] = step[q] /\ (q \in alive' <=> q \in alive)
    PROVE  EditInv'
<1>1. /\ lines' = lines /\ work' = work /\ copy' = copy /\ due' = due /\ torn' = torn
  BY DEF editVars
<1>2. ASSUME NEW q \in Proc, work'[q] # "start"
      PROVE  /\ Doing(q, "register")' \/ Doing(q, "remove")'
             /\ boots' = 0 /\ ~torn' => CopyCurrent(q)'
  <2>1. q # p /\ work[q] # "start"
    BY <1>1, <1>2
  <2>2. (\A o : Doing(q, o)' <=> Doing(q, o)) /\ target(q)' = target(q)
    BY <2>1, SameTarget
  <2>3. CopyCurrent(q)' <=> CopyCurrent(q)
    BY <1>1, <2>2 DEF CopyCurrent
  <2> QED
    BY <1>1, <2>1, <2>2, <2>3 DEF EditInv
<1>3. boots' = 0 /\ ~torn' /\ (\A q \in Proc : work'[q] # "truncated") => lines' = due'
  BY <1>1 DEF EditInv
<1> QED
  BY <1>2, <1>3 DEF EditInv

\* Nor does a process that dies: an edit is done by one command at its end,
\* and a kill between the two steps of cp is noted in torn.
LEMMA DiesEdit ==
    ASSUME TypeOK, EditInv, NEW p \in Proc, Dies(p)
    PROVE  EditInv'
<1>1. /\ \A q \in Proc : work'[q] = IF q = p THEN "start" ELSE work[q]
      /\ \A q \in Proc : q # p => copy'[q] = copy[q]
      /\ \A q \in Proc : q # p => step'[q] = step[q] /\ (q \in alive' <=> q \in alive)
      /\ lines' = lines /\ due' = due /\ boots' = boots
  BY DEF Dies, TypeOK
<1>2. ~torn' => ~torn /\ work[p] # "truncated"
  BY DEF Dies
<1>3. ASSUME NEW q \in Proc, work'[q] # "start"
      PROVE  /\ Doing(q, "register")' \/ Doing(q, "remove")'
             /\ boots' = 0 /\ ~torn' => CopyCurrent(q)'
  <2>1. q # p /\ work[q] # "start"
    BY <1>1, <1>3
  <2>2. (\A o : Doing(q, o)' <=> Doing(q, o)) /\ target(q)' = target(q)
    BY <1>1, <2>1, SameTarget
  <2>3. CopyCurrent(q)' <=> CopyCurrent(q)
    BY <1>1, <2>1, <2>2 DEF CopyCurrent
  <2> QED
    BY <1>1, <1>2, <2>1, <2>2, <2>3 DEF EditInv
<1>4. boots' = 0 /\ ~torn' /\ (\A q \in Proc : work'[q] # "truncated") => lines' = due'
  <2> SUFFICES ASSUME boots' = 0, ~torn', \A q \in Proc : work'[q] # "truncated"
               PROVE  lines' = due'
    OBVIOUS
  <2>1. \A q \in Proc : work[q] # "truncated"
    BY <1>1, <1>2
  <2> QED
    BY <1>1, <1>2, <2>1 DEF EditInv
<1> QED
  BY <1>3, <1>4 DEF EditInv

\* The end of an edit: it is right if what is written is what is due.
LEMMA EditedInv ==
    ASSUME TypeOK, LockInv, EditInv, NEW p \in Proc, Edited(p),
           Doing(p, "append") \/ Doing(p, "register") \/ Doing(p, "remove"),
           boots = 0 /\ ~torn => lines' = due'
    PROVE  EditInv'
<1>1. /\ \A q \in Proc : work'[q] = IF q = p THEN "start" ELSE work[q]
      /\ \A q \in Proc : q # p => step'[q] = step[q] /\ (q \in alive' <=> q \in alive)
      /\ torn' = torn /\ boots' = boots
  BY DEF Edited, NextTarget, TypeOK
<1>2. ASSUME NEW q \in Proc, work'[q] # "start"
      PROVE  /\ Doing(q, "register")' \/ Doing(q, "remove")'
             /\ boots' # 0
  <2>1. q # p /\ work[q] # "start"
    BY <1>1, <1>2
  <2>2. \A o : Doing(q, o)' <=> Doing(q, o)
    BY <1>1, <2>1, SameTarget
  <2>3. boots # 0
    BY <2>1, OneEditor
  <2> QED
    BY <1>1, <2>1, <2>2, <2>3 DEF EditInv
<1> QED
  BY <1>1, <1>2 DEF EditInv

\* A step of an edit that stays at its target.
LEMMA WithinEdit ==
    ASSUME TypeOK, LockInv, EditInv, NEW p \in Proc, UNCHANGED lockVars,
           due' = due, torn' = torn,
           Doing(p, "register") \/ Doing(p, "remove"),
           \A q \in Proc : q # p => work'[q] = work[q],
           boots = 0 /\ ~torn => CopyCurrent(p)',
           boots = 0 /\ ~torn => work'[p] = "truncated" \/ lines' = due
    PROVE  EditInv'
<1>1. \A q \in Proc : (\A o : Doing(q, o)' <=> Doing(q, o))
  BY SameTarget DEF lockVars
<1>2. boots' = boots
  BY DEF lockVars
<1>3. ASSUME NEW q \in Proc, work'[q] # "start"
      PROVE  /\ Doing(q, "register")' \/ Doing(q, "remove")'
             /\ boots' = 0 /\ ~torn' => q = p
  <2>1. CASE q = p
    BY <1>1, <2>1
  <2>2. CASE q # p
    <3>1. work[q] # "start"
      BY <1>3, <2>2
    <3>2. boots # 0
      BY <2>2, <3>1, OneEditor
    <3> QED
      BY <1>1, <1>2, <3>1, <3>2 DEF EditInv
  <2> QED
    BY <2>1, <2>2
<1> QED
  BY <1>2, <1>3 DEF EditInv

\* Every step keeps EditInv.
LEMMA EditInvStep == LockInv /\ EditInv /\ [Next]_vars => EditInv'
<1> SUFFICES ASSUME LockInv, EditInv, [Next]_vars PROVE EditInv'
  OBVIOUS
<1>0. TypeOK
  BY DEF LockInv
<1>1. CASE UNCHANGED vars
  <2>1. \A q \in Proc : (\A o : Doing(q, o)' <=> Doing(q, o)) /\ target(q)' = target(q)
    BY <1>1, SameTarget DEF vars, lockVars
  <2>2. \A q \in Proc : CopyCurrent(q)' <=> CopyCurrent(q)
    BY <1>1, <2>1 DEF CopyCurrent, vars, editVars
  <2> QED
    BY <1>1, <2>1, <2>2 DEF EditInv, vars, lockVars, editVars
<1>2. CASE Reboot
  <2>1. boots' # 0
    BY <1>0, <1>2 DEF Reboot, TypeOK
  <2>2. \A q \in Proc : work'[q] = "start"
    BY <1>2 DEF Reboot
  <2> QED
    BY <2>1, <2>2 DEF EditInv
<1>3. ASSUME NEW p \in Proc, Step(p) \/ Kill(p) PROVE EditInv'
  <2>1. Doing(p, "acquire") \/ Doing(p, "release") \/ Doing(p, "append") => work[p] = "start"
    BY DoingOne DEF EditInv
  <2>2. CASE CheckBoot(p) \/ RemoveStale(p)
    BY <1>0, <2>1, <2>2, LockEdit DEF CheckBoot, RemoveStale
  <2>3. CASE Acquire(p) \/ Release(p)
    <3>1. \A q \in Proc : q # p => step'[q] = step[q] /\ (q \in alive' <=> q \in alive)
      BY <1>0, <2>3 DEF Acquire, Release, NextTarget, TypeOK
    <3>2. work[p] = "start" /\ UNCHANGED editVars /\ boots' = boots
      BY <2>1, <2>3 DEF Acquire, Release
    <3> QED
      BY <1>0, <3>1, <3>2, LockEdit
  <2>4. CASE Busy(p)
    <3>1. CASE Dies(p)
      BY <1>0, <3>1, DiesEdit
    <3>2. CASE UNCHANGED <<file, old, alive, step, held, boots, editVars>>
      BY <1>0, <2>1, <2>4, <3>2, LockEdit DEF Busy
    <3> QED
      BY <2>4, <3>1, <3>2 DEF Busy
  <2>5. CASE Exit(p) \/ Kill(p)
    BY <1>0, <2>5, DiesEdit DEF Exit, Kill
  <2>6. ASSUME boots = 0, ~torn, work[p] = "start",
               Doing(p, "append") \/ Doing(p, "register") \/ Doing(p, "remove")
        PROVE  lines = due
    <3>1. \A q \in Proc : work[q] = "start"
      BY <2>6, OneEditor
    <3> QED
      BY <2>6, <3>1 DEF EditInv
  <2>7. CASE AppendLine(p)
    <3>1. boots = 0 /\ ~torn => lines' = due'
      BY <2>1, <2>6, <2>7 DEF AppendLine
    <3> QED
      BY <1>0, <2>7, <3>1, EditedInv DEF AppendLine
  <2>8. CASE Copy(p)
    <3>1. boots = 0 /\ ~torn => lines = due
      BY <2>6, <2>8 DEF Copy
    <3>2. /\ UNCHANGED lockVars /\ due' = due /\ torn' = torn /\ lines' = lines
          /\ \A q \in Proc : q # p => work'[q] = work[q]
      BY <1>0, <2>8 DEF Copy, TypeOK
    <3>3. (\A o : Doing(p, o)' <=> Doing(p, o)) /\ target(p)' = target(p)
      BY <3>2, SameTarget DEF lockVars
    <3>4. copy'[p] = IF Doing(p, "register") THEN lines \cup {target(p)}
                                             ELSE lines \ {target(p)}
      BY <1>0, <2>8 DEF Copy, TypeOK
    <3>5. boots = 0 /\ ~torn => CopyCurrent(p)'
      BY <3>1, <3>2, <3>3, <3>4 DEF CopyCurrent
    <3>6. Doing(p, "register") \/ Doing(p, "remove")
      BY <2>8 DEF Copy
    <3> QED
      BY <1>0, <3>1, <3>2, <3>5, <3>6, WithinEdit
  <2>9. CASE Rename(p)
    <3>1. ~Doing(p, "register")
      BY <2>9, DoingOne DEF Rename
    <3>2. boots = 0 /\ ~torn => copy[p] = due \ {target(p)}
      BY <2>9, <3>1 DEF Rename, EditInv, CopyCurrent
    <3> QED
      BY <1>0, <2>9, <3>2, EditedInv DEF Rename
  <2>10. CASE Truncate(p)
    <3>1. /\ UNCHANGED lockVars /\ due' = due /\ torn' = torn /\ copy' = copy
          /\ \A q \in Proc : q # p => work'[q] = work[q]
          /\ work'[p] = "truncated"
      BY <1>0, <2>10 DEF Truncate, TypeOK
    <3>2. (\A o : Doing(p, o)' <=> Doing(p, o)) /\ target(p)' = target(p)
      BY <3>1, SameTarget DEF lockVars
    <3>3. boots = 0 /\ ~torn => CopyCurrent(p)
      BY <2>10 DEF Truncate, EditInv
    <3>4. boots = 0 /\ ~torn => CopyCurrent(p)'
      BY <3>1, <3>2, <3>3 DEF CopyCurrent
    <3>5. Doing(p, "register")
      BY <2>10 DEF Truncate
    <3> QED
      BY <1>0, <3>1, <3>4, <3>5, WithinEdit
  <2>11. CASE Write(p)
    <3>1. boots = 0 /\ ~torn => copy[p] = due \cup {target(p)}
      BY <2>11 DEF Write, EditInv, CopyCurrent
    <3> QED
      BY <1>0, <2>11, <3>1, EditedInv DEF Write
  <2> QED
    BY <1>3, <2>2, <2>3, <2>4, <2>5, <2>7, <2>8, <2>9, <2>10, <2>11 DEF Step
<1> QED
  BY <1>1, <1>2, <1>3 DEF Next

\* EditInv holds before the first edit.
LEMMA EditInvInit == Init => EditInv
  BY DEF Init, EditInv

\* While nobody holds the lock of the prefix, no edit is under way.
LEMMA EditInvKeeps == LockInv /\ EditInv => RegistrationsKept
<1> SUFFICES ASSUME LockInv, EditInv, boots = 0, ~torn,
                    \A p \in Proc : Prefix \notin held[p]
             PROVE  lines = due
  BY DEF RegistrationsKept
<1>1. ASSUME NEW p \in Proc PROVE work[p] = "start"
  BY EditorHolds DEF EditInv
<1> QED
  BY <1>1 DEF EditInv

\* The lock of the prefix makes the edits of +REQUIRED_BY by pkg_add,
\* register-dependencies and pkg_delete safe: until a reboot no line is lost
\* and none comes back, unless cp is killed while it writes.
THEOREM RegistrationsCorrect == Spec => []RegistrationsKept
  BY LockInvInit, LockInvStep, EditInvInit, EditInvStep, EditInvKeeps, PTL DEF Spec
=============================================================================
