---------------------------- MODULE PkgAddProofs ----------------------------
(***************************************************************************)
(* Proofs for pkg_add: type correctness with the shape of the stack, that  *)
(* -n changes nothing, that the index of files names no package that is    *)
(* not there, that dependencies come first without -u, that no package is  *)
(* extracted over the files of another, that two versions of a package are *)
(* never installed together, and that plain installations register every   *)
(* package and implement PkgPromise, for any packages.                     *)
(***************************************************************************)
EXTENDS PkgAdd, SequenceTheorems, TLAPS

\* What the place of a frame says about its other fields.
FrameOK(t) ==
    /\ t \in Frame
    /\ t.at # "find" => t.pkg \in Pkg
    /\ t.at \in {"move", "moverest", "delete", "rename"} => t.other \in Pkg
    /\ t.at \in {"again", "missing"} => t.dep \in Pattern

\* A frame below the top waits for a nested pkg_do.
Suspended(t) == t.at = "deps" /\ t.dep \in Pattern

StackInv ==
    /\ stack # <<>> => running
    /\ \A i \in 1..depth : FrameOK(stack[i])
    /\ \A i \in 1..(depth - 1) : Suspended(stack[i])

\* write_meta_data finds its directory, and pkg_delete no +REQUIRED_BY.
DirInv ==
    /\ stack # <<>> /\ top.at \in {"write", "move", "moverest"} /\ Recording
         => top.dir \in entries
    /\ stack # <<>> /\ top.at \in {"moverest", "delete"} /\ ~opt.fake
            /\ top.dir # top.other
         => reqby[top.other] = {}

\* TypeOK without the stack.
DataOK ==
    /\ DBTypeOK
    /\ opt \in OptionSpace
    /\ args \in Seq(Pkg \cup Pattern)
    /\ files \subseteq File
    /\ bad \in BOOLEAN /\ running \in BOOLEAN
    /\ runs \in 0..MaxRuns
    /\ complete \subseteq Pkg /\ undone \subseteq Pkg
    /\ late \in BOOLEAN

TypeInv == DataOK /\ stack \in Seq(Frame) /\ StackInv /\ DirInv

-----------------------------------------------------------------------------
(* The three ways in which the stack changes.                              *)

\* The top frame becomes t.
Moved(t) ==
    /\ stack' \in Seq(Frame) /\ stack' # <<>>
    /\ depth' = depth /\ top' = t
    /\ \A i \in 1..(depth - 1) : stack'[i] = stack[i]

\* The top frame is gone, and the one below knows how it ended.
Popped ==
    /\ stack' \in Seq(Frame)
    /\ \/ stack' = <<>>
       \/ /\ depth > 1 /\ stack' # <<>> /\ depth' = depth - 1
          /\ \E l \in {"again", "missing"} : top' = [stack[depth - 1] EXCEPT !.at = l]
          /\ \A i \in 1..(depth - 2) : stack'[i] = stack[i]

\* t is put on top of the stack, whose top becomes s.
Nested(s, t) ==
    /\ stack' \in Seq(Frame) /\ stack' # <<>>
    /\ depth' = depth + 1 /\ top' = t
    /\ stack'[depth] = s
    /\ \A i \in 1..(depth - 1) : stack'[i] = stack[i]

\* The top frame is one of the stack.
LEMMA TopIsFrame ==
    ASSUME TypeInv, stack # <<>>
    PROVE  depth \in Nat \ {0} /\ depth \in 1..depth /\ FrameOK(top) /\ top \in Frame
<1>1. stack \in Seq(Frame)
  BY DEF TypeInv
<1>2. depth \in Nat \ {0}
  BY <1>1, EmptySeq DEF depth
<1> QED BY <1>2 DEF TypeInv, StackInv, FrameOK, top

\* Replacing the top frame by one that is well-formed.
LEMMA MovedKeeps ==
    ASSUME TypeInv, stack # <<>>, NEW t, FrameOK(t), running' = running,
           stack' = [stack EXCEPT ![depth] = t]
    PROVE  Moved(t) /\ StackInv'
<1>1. stack \in Seq(Frame) /\ t \in Frame
  BY DEF TypeInv, FrameOK
<1>2. depth \in Nat \ {0} /\ depth \in 1..depth
  BY TopIsFrame
<1>3. /\ stack' \in Seq(Frame) /\ Len(stack') = depth
      /\ \A j \in 1..depth : stack'[j] = IF j = depth THEN t ELSE stack[j]
  BY <1>1, <1>2, ExceptSeq DEF depth
<1>4. stack' # <<>>
  BY <1>2, <1>3, EmptySeq
<1>5. Moved(t)
  <2>1. depth' = depth
    BY <1>3 DEF depth
  <2>2. top' = t
    BY <1>2, <1>3, <2>1 DEF top
  <2>3. \A i \in 1..(depth - 1) : stack'[i] = stack[i]
    BY <1>2, <1>3
  <2> QED BY <1>3, <1>4, <2>1, <2>2, <2>3 DEF Moved
<1>6. StackInv'
  <2>1. \A i \in 1..depth : FrameOK(stack'[i])
    BY <1>3 DEF TypeInv, StackInv
  <2>2. \A i \in 1..(depth - 1) : Suspended(stack'[i])
    BY <1>2, <1>3 DEF TypeInv, StackInv
  <2>3. running'
    BY DEF TypeInv, StackInv
  <2> QED BY <1>3, <2>1, <2>2, <2>3 DEF StackInv, FrameOK, Suspended, depth
<1> QED BY <1>5, <1>6

\* Moving to another place in pkg_do.
LEMMA GotoKeeps ==
    ASSUME TypeInv, stack # <<>>, running' = running, top.at # "find",
           NEW l \in Locations \ {"again", "missing"}, Goto(l),
           l \in {"move", "moverest", "delete", "rename"} => top.other \in Pkg
    PROVE  Moved([top EXCEPT !.at = l]) /\ StackInv'
<1> DEFINE t == [top EXCEPT !.at = l]
<1>1. FrameOK(top) /\ top \in Frame
  BY TopIsFrame
<1>2. t \in Frame
  BY <1>1 DEF Frame
<1>3. FrameOK(t)
  BY <1>1, <1>2 DEF FrameOK, Frame
<1>4. stack' = [stack EXCEPT ![depth] = t]
  BY DEF Goto, top
<1> QED BY <1>3, <1>4, MovedKeeps

\* A return from pkg_do.
LEMMA ReturnKeeps ==
    ASSUME TypeInv, stack # <<>>, running' = running, NEW ok \in BOOLEAN, Return(ok)
    PROVE  Popped /\ StackInv' /\ bad' \in BOOLEAN
<1> DEFINE up == SubSeq(stack, 1, depth - 1)
<1>1. stack \in Seq(Frame) /\ depth \in Nat \ {0}
  BY TopIsFrame DEF TypeInv
<1>2. /\ up \in Seq(Frame) /\ Len(up) = depth - 1
      /\ \A i \in 1..(depth - 1) : up[i] = stack[i]
  <2>1. \A i \in 1..(depth - 1) : stack[i] \in Frame
    BY <1>1, ElementOfSeq DEF depth
  <2> HIDE DEF up
  <2> QED BY <1>1, <2>1, SubSeqProperties DEF up
<1>3. bad' \in BOOLEAN
  BY DEF Return, TypeInv, DataOK
<1>4. PICK l \in {"again", "missing"} : l = IF ok THEN "again" ELSE "missing"
  OBVIOUS
<1>5. stack' = IF up = <<>> THEN <<>> ELSE [up EXCEPT ![depth - 1].at = l]
  BY <1>4 DEF Return
<1> HIDE DEF up
<1>6. CASE up = <<>>
  BY <1>3, <1>5, <1>6, EmptySeq DEF Popped, StackInv, depth
<1>7. CASE up # <<>>
  <2>1. depth - 1 \in Nat \ {0} /\ depth > 1 /\ depth - 1 \in 1..depth
    BY <1>1, <1>2, <1>7, EmptySeq
  <2> DEFINE t == [stack[depth - 1] EXCEPT !.at = l]
  <2>2. stack' = [up EXCEPT ![depth - 1] = t]
    <3>1. up[depth - 1] = stack[depth - 1]
      BY <1>2, <2>1
    <3>2. stack' = [up EXCEPT ![depth - 1].at = l]
      BY <1>5, <1>7
    <3>3. stack' = [up EXCEPT ![depth - 1] = [up[depth - 1] EXCEPT !.at = l]]
      BY <3>2, Zenon
    <3> QED BY <3>1, <3>3, Zenon
  <2>3. FrameOK(stack[depth - 1]) /\ Suspended(stack[depth - 1])
    BY <1>1, <2>1 DEF TypeInv, StackInv
  <2>4. t \in Frame
    BY <2>3 DEF FrameOK, Frame, Locations
  <2>5. FrameOK(t)
    BY <2>3, <2>4 DEF FrameOK, Frame, Suspended
  <2>6. t = [stack[depth - 1] EXCEPT !.at = l]
    OBVIOUS
  <2> HIDE DEF t
  <2>7. /\ stack' \in Seq(Frame) /\ Len(stack') = depth - 1
        /\ \A j \in 1..(depth - 1) : stack'[j] = IF j = depth - 1 THEN t ELSE up[j]
    BY <1>2, <2>1, <2>2, <2>4, ExceptSeq
  <2>8. \A j \in 1..(depth - 1) : stack'[j] = IF j = depth - 1 THEN t ELSE stack[j]
    BY <1>2, <2>7
  <2>9. stack' # <<>> /\ depth' = depth - 1
    BY <2>1, <2>7, EmptySeq DEF depth
  <2>10. top' = t
    BY <2>1, <2>8, <2>9 DEF top
  <2>11. Popped
    <3>1. \A i \in 1..(depth - 2) : stack'[i] = stack[i]
      BY <1>1, <2>1, <2>8
    <3> QED BY <2>1, <2>6, <2>7, <2>9, <2>10, <3>1 DEF Popped
  <2>12. StackInv'
    <3>1. \A i \in 1..(depth - 1) : FrameOK(stack'[i])
      BY <1>1, <2>1, <2>5, <2>8 DEF TypeInv, StackInv
    <3>2. \A i \in 1..(depth - 2) : Suspended(stack'[i])
      BY <1>1, <2>1, <2>8 DEF TypeInv, StackInv
    <3>3. running'
      BY DEF TypeInv, StackInv
    <3>4. (depth - 1) - 1 = depth - 2
      BY <1>1
    <3> QED BY <2>9, <3>1, <3>2, <3>3, <3>4 DEF StackInv, FrameOK, Suspended
  <2> QED BY <1>3, <2>11, <2>12
<1> QED BY <1>6, <1>7

\* A frame put on a stack.
LEMMA AppendFrame ==
    ASSUME NEW u \in Seq(Frame), NEW t \in Frame
    PROVE  /\ Append(u, t) \in Seq(Frame) /\ Append(u, t) # <<>>
           /\ Len(Append(u, t)) = Len(u) + 1
           /\ \A j \in 1..Len(u) : Append(u, t)[j] = u[j]
           /\ Append(u, t)[Len(u) + 1] = t
BY AppendProperties

NewFrame(a, mark) ==
    [arg |-> a, mark |-> mark, at |-> "find", pkg |-> NoPkg, other |-> NoPkg,
     dir |-> NoPkg, todo |-> {}, dep |-> NoPkg, deps |-> {}]

\* A call of pkg_do for the dependency s.dep.
LEMMA NestedKeeps ==
    ASSUME TypeInv, stack # <<>>, running' = running, NEW s, FrameOK(s), Suspended(s),
           NEW a \in Pkg \cup Pattern, NEW mark \in BOOLEAN,
           stack' = Append([stack EXCEPT ![depth] = s], NewFrame(a, mark))
    PROVE  Nested(s, NewFrame(a, mark)) /\ StackInv'
<1> DEFINE t == NewFrame(a, mark)
           u == [stack EXCEPT ![depth] = s]
<1>1. stack \in Seq(Frame) /\ depth \in Nat \ {0} /\ depth \in 1..depth /\ s \in Frame
  BY TopIsFrame DEF TypeInv, FrameOK
<1>2. t \in Frame /\ FrameOK(t)
  BY DEF NewFrame, Frame, FrameOK, Locations
<1>3. /\ u \in Seq(Frame) /\ Len(u) = depth
      /\ \A j \in 1..depth : u[j] = IF j = depth THEN s ELSE stack[j]
  BY <1>1, ExceptSeq DEF depth
<1>4. /\ stack' \in Seq(Frame) /\ stack' # <<>> /\ Len(stack') = depth + 1
      /\ \A j \in 1..depth : stack'[j] = IF j = depth THEN s ELSE stack[j]
      /\ stack'[depth + 1] = t
  <2> HIDE DEF u, t
  <2>1. stack' = Append(u, t)
    BY DEF u, t
  <2>2. /\ Append(u, t) \in Seq(Frame) /\ Append(u, t) # <<>>
        /\ Len(Append(u, t)) = Len(u) + 1
        /\ \A j \in 1..Len(u) : Append(u, t)[j] = u[j]
        /\ Append(u, t)[Len(u) + 1] = t
    BY <1>2, <1>3, AppendFrame
  <2>3. /\ stack' \in Seq(Frame) /\ stack' # <<>> /\ Len(stack') = depth + 1
        /\ \A j \in 1..depth : stack'[j] = u[j]
        /\ stack'[depth + 1] = t
    BY <1>3, <2>1, <2>2, Zenon
  <2> QED BY <1>3, <2>3
<1>5. Nested(s, t)
  BY <1>1, <1>4 DEF Nested, depth, top
<1>6. StackInv'
  <2>1. \A i \in 1..(depth + 1) : FrameOK(stack'[i])
    <3> HIDE DEF t
    <3> QED BY <1>1, <1>2, <1>4 DEF TypeInv, StackInv
  <2>2. \A i \in 1..depth : Suspended(stack'[i])
    BY <1>1, <1>4 DEF TypeInv, StackInv
  <2>3. running'
    BY DEF TypeInv, StackInv
  <2> QED BY <1>1, <1>4, <2>1, <2>2, <2>3 DEF StackInv, FrameOK, Suspended, depth
<1> QED BY <1>5, <1>6

-----------------------------------------------------------------------------
(* Type correctness.                                                       *)

\* Every database pkg_add may find, and an idle process, are well-typed.
LEMMA TypeInit == Init => TypeInv
<1> SUFFICES ASSUME Init PROVE TypeInv
  OBVIOUS
<1>1. DBTypeOK
  BY ContentsAssumption DEF Init, DBInit, DBTypeOK
<1>2. opt \in OptionSpace /\ runs \in 0..MaxRuns
  <2>1. opt \in OptionSpace
    BY DEF Init, ProcInit, NoOptions, OptionSpace
  <2>2. runs \in 0..MaxRuns
    BY BoundsAssumption DEF Init, ProcInit
  <2> QED BY <2>1, <2>2
<1>3. args \in Seq(Pkg \cup Pattern) /\ stack \in Seq(Frame) /\ stack = <<>>
  BY EmptySeq DEF Init, ProcInit
<1>4. depth = 0
  BY <1>3, EmptySeq DEF depth
<1>5. StackInv /\ DirInv
  BY <1>3, <1>4 DEF StackInv, DirInv
<1>6. DataOK
  BY <1>1, <1>2, <1>3 DEF Init, ProcInit, DBTypeOK, DataOK
<1> QED BY <1>3, <1>5, <1>6 DEF TypeInv

\* What is left to show of a step that replaces the top frame.
LEMMA MovedType ==
    ASSUME NEW t, Moved(t), StackInv', DataOK', opt' = opt,
           /\ t.at \in {"write", "move", "moverest"} /\ ~opt.fake /\ t.dir # NoPkg
             => t.dir \in entries',
           t.at \in {"moverest", "delete"} /\ ~opt.fake /\ t.dir # t.other
             => reqby'[t.other] = {}
    PROVE  TypeInv'
<1>1. top' = t /\ stack' \in Seq(Frame)
  BY DEF Moved
<1>2. DirInv'
  BY <1>1 DEF DirInv, Recording
<1> QED BY <1>1, <1>2 DEF TypeInv

\* And of one that returns.
LEMMA PoppedType ==
    ASSUME TypeInv, stack # <<>>, Popped, StackInv', DataOK'
    PROVE  TypeInv'
<1>1. stack' # <<>> => top'.at \notin {"write", "move", "moverest", "delete"}
  <2>1. SUFFICES ASSUME stack' # <<>>
                 PROVE  top'.at \notin {"write", "move", "moverest", "delete"}
    OBVIOUS
  <2>2. PICK l \in {"again", "missing"} : depth > 1 /\ top' = [stack[depth - 1] EXCEPT !.at = l]
    BY <2>1 DEF Popped
  <2>3. stack[depth - 1] \in Frame
    BY <2>2, TopIsFrame DEF TypeInv, StackInv, FrameOK
  <2> QED BY <2>2, <2>3 DEF Frame
<1>2. DirInv'
  BY <1>1 DEF DirInv
<1> QED BY <1>2 DEF TypeInv, Popped

\* Candidates are packages.
LEMMA CandidatesType ==
    ASSUME NEW a \in Pkg \cup Pattern
    PROVE  Candidates(a) \subseteq Pkg /\ Candidates(a) \subseteq Repo
BY MatchAssumption, RepoAssumption DEF Candidates, Best

\* What OpenArchive makes of the frame on top.
Opened(p) ==
    [top EXCEPT !.at = "already", !.pkg = p,
                !.dir = IF opt.no_record /\ ~opt.fake THEN NoPkg ELSE p,
                !.todo = Deps[p]]

\* What CheckAlreadyInstalled makes of it when the package is to be replaced by itself.
Replacing ==
    [top EXCEPT !.at = "other", !.other = top.pkg,
                !.dir = IF @ = NoPkg THEN NoPkg ELSE Temp[top.pkg]]

\* The frame whose archive is open, field by field.
LEMMA OpenedFrame ==
    ASSUME top \in Frame, NEW p \in Pkg, Deps[p] \subseteq Pattern
    PROVE  /\ Opened(p) \in Frame
           /\ Opened(p).at = "already" /\ Opened(p).pkg = p /\ Opened(p).todo = Deps[p]
           /\ Opened(p).dir = IF opt.no_record /\ ~opt.fake THEN NoPkg ELSE p
           /\ Opened(p).arg = top.arg /\ Opened(p).mark = top.mark
           /\ Opened(p).other = top.other /\ Opened(p).dep = top.dep
           /\ Opened(p).deps = top.deps
<1> DEFINE d == IF opt.no_record /\ ~opt.fake THEN NoPkg ELSE p
           t == [top EXCEPT !.at = "already", !.pkg = p, !.dir = d, !.todo = Deps[p]]
<1>1. Opened(p) = t
  BY DEF Opened
<1>2. d \in Pkg \cup {NoPkg}
  OBVIOUS
<1> HIDE DEF d
<1>3. /\ t.at = "already" /\ t.pkg = p /\ t.todo = Deps[p] /\ t.dir = d
      /\ t.arg = top.arg /\ t.mark = top.mark /\ t.other = top.other
      /\ t.dep = top.dep /\ t.deps = top.deps
  BY DEF Frame
<1>4. "already" \in Locations
  BY DEF Locations
<1>5. t \in Frame
  BY <1>2, <1>4 DEF Frame
<1> QED BY <1>1, <1>3, <1>5 DEF d

\* The frame of a package that replaces itself, field by field.
LEMMA ReplacingFrame ==
    ASSUME top \in Frame, top.pkg \in Pkg
    PROVE  /\ Replacing \in Frame
           /\ Replacing.at = "other" /\ Replacing.other = top.pkg
           /\ Replacing.dir = IF top.dir = NoPkg THEN NoPkg ELSE Temp[top.pkg]
           /\ Replacing.arg = top.arg /\ Replacing.mark = top.mark
           /\ Replacing.pkg = top.pkg /\ Replacing.todo = top.todo
           /\ Replacing.dep = top.dep /\ Replacing.deps = top.deps
<1> DEFINE d == IF top.dir = NoPkg THEN NoPkg ELSE Temp[top.pkg]
           t == [top EXCEPT !.at = "other", !.other = top.pkg, !.dir = d]
<1>1. Replacing = t
  BY DEF Replacing
<1>2. d \in Pkg \cup {NoPkg}
  BY TempAssumption
<1> HIDE DEF d
<1>3. /\ t.at = "other" /\ t.other = top.pkg /\ t.dir = d
      /\ t.arg = top.arg /\ t.mark = top.mark /\ t.pkg = top.pkg
      /\ t.todo = top.todo /\ t.dep = top.dep /\ t.deps = top.deps
  BY DEF Frame
<1>4. "other" \in Locations
  BY DEF Locations
<1>5. t \in Frame
  BY <1>2, <1>4 DEF Frame
<1> QED BY <1>1, <1>3, <1>5 DEF d

\* The checks of pkg_do before it recurses.
LEMMA TypeChecks ==
    ASSUME TypeInv, stack # <<>>,
           OpenArchive \/ CheckAlreadyInstalled \/ CheckOtherInstalled \/ CheckConflicts
    PROVE  TypeInv'
<1>1. FrameOK(top) /\ top \in Frame /\ depth \in 1..depth
  BY TopIsFrame
<1> USE DEF dbVars, cmdVars, histVars, indexVars
<1>2. CASE OpenArchive
  <2>1. CASE Return(FALSE)
    <3>1. Popped /\ StackInv' /\ bad' \in BOOLEAN
      BY <1>2, <2>1, ReturnKeeps DEF OpenArchive
    <3>2. DataOK'
      BY <1>2, <3>1 DEF OpenArchive, TypeInv, DataOK, DBTypeOK
    <3> QED BY <3>1, <3>2, PoppedType
  <2>2. CASE ~Return(FALSE)
    <3>1. PICK p \in Candidates(top.arg) :
             stack' = [stack EXCEPT
                    ![depth].at = "already", ![depth].pkg = p,
                    ![depth].dir = IF opt.no_record /\ ~opt.fake THEN NoPkg ELSE p,
                    ![depth].todo = Deps[p]]
      BY <1>2, <2>2 DEF OpenArchive
    <3> DEFINE t == Opened(p)
    <3>2. stack' = [stack EXCEPT ![depth] = t]
      BY <3>1 DEF top, Opened
    <3>3. p \in Pkg /\ Deps[p] \subseteq Pattern
      BY <1>1, CandidatesType, DepsAssumption DEF Frame
    <3>4. t \in Frame /\ t.at = "already" /\ t.pkg = p
      BY <1>1, <3>3, OpenedFrame
    <3>5. FrameOK(t)
      BY <3>3, <3>4 DEF FrameOK
    <3>6. Moved(t) /\ StackInv'
      BY <1>2, <3>2, <3>5, MovedKeeps DEF OpenArchive
    <3>7. DataOK'
      BY <1>2, <2>2 DEF OpenArchive, TypeInv, DataOK, DBTypeOK
    <3> QED BY <1>2, <3>4, <3>6, <3>7, MovedType DEF OpenArchive
  <2> QED BY <2>1, <2>2
<1>3. CASE CheckAlreadyInstalled
  <2>1. At("already") /\ top.pkg \in Pkg
    BY <1>1, <1>3 DEF CheckAlreadyInstalled, At, FrameOK
  <2>2. DataOK' \/ ~(bad' \in BOOLEAN)
    BY <1>3, <2>1 DEF CheckAlreadyInstalled, TypeInv, DataOK, DBTypeOK
  <2>3. running' = running /\ opt' = opt
    BY <1>3 DEF CheckAlreadyInstalled
  <2>4. CASE \E ok \in BOOLEAN : Return(ok)
    BY <2>2, <2>3, <2>4, ReturnKeeps, PoppedType
  <2>5. CASE Goto("other") /\ UNCHANGED bad
    <3>1. Moved([top EXCEPT !.at = "other"]) /\ StackInv'
      BY <2>1, <2>3, <2>5, GotoKeeps DEF At, Locations
    <3>2. [top EXCEPT !.at = "other"].at = "other"
      BY <1>1 DEF Frame
    <3> QED BY <2>2, <2>3, <2>5, <3>1, <3>2, MovedType DEF TypeInv, DataOK
  <2>6. CASE stack' = [stack EXCEPT
                        ![depth].at = "other", ![depth].other = top.pkg,
                        ![depth].dir = IF @ = NoPkg THEN NoPkg ELSE Temp[top.pkg]]
             /\ UNCHANGED bad
    <3> DEFINE t == Replacing
    <3>1. stack' = [stack EXCEPT ![depth] = t]
      BY <2>6 DEF top, Replacing
    <3>2. t \in Frame /\ t.at = "other" /\ t.pkg = top.pkg
      BY <1>1, <2>1, ReplacingFrame
    <3>3. FrameOK(t)
      BY <2>1, <3>2 DEF FrameOK
    <3>4. Moved(t) /\ StackInv'
      BY <2>3, <3>1, <3>3, MovedKeeps
    <3> QED BY <2>2, <2>3, <2>6, <3>2, <3>4, MovedType DEF TypeInv, DataOK
  <2> QED BY <1>3, <2>4, <2>5, <2>6 DEF CheckAlreadyInstalled
<1>4. CASE CheckOtherInstalled
  <2>1. At("other") /\ top.pkg \in Pkg
    BY <1>1, <1>4 DEF CheckOtherInstalled, At, FrameOK
  <2>2. DataOK' \/ ~(bad' \in BOOLEAN)
    BY <1>4 DEF CheckOtherInstalled, TypeInv, DataOK, DBTypeOK
  <2>3. running' = running /\ opt' = opt
    BY <1>4 DEF CheckOtherInstalled
  <2>4. CASE Return(FALSE)
    BY <2>2, <2>3, <2>4, ReturnKeeps, PoppedType
  <2>5. CASE Goto("conflict") /\ UNCHANGED bad
    <3>1. Moved([top EXCEPT !.at = "conflict"]) /\ StackInv'
      BY <2>1, <2>3, <2>5, GotoKeeps DEF At, Locations
    <3>2. [top EXCEPT !.at = "conflict"].at = "conflict"
      BY <1>1 DEF Frame
    <3> QED BY <2>2, <2>3, <2>5, <3>1, <3>2, MovedType DEF TypeInv, DataOK
  <2>6. CASE \E o \in OtherVersion(top.pkg) :
               stack' = [stack EXCEPT ![depth].at = "conflict", ![depth].other = o]
               /\ UNCHANGED bad
    <3>1. PICK o \in OtherVersion(top.pkg) :
             stack' = [stack EXCEPT ![depth].at = "conflict", ![depth].other = o]
      BY <2>6
    <3>2. o \in Pkg
      BY <2>1, <3>1, MatchAssumption, BaseAssumption DEF OtherVersion, Best, Installed
    <3> DEFINE t == [top EXCEPT !.at = "conflict", !.other = o]
    <3>3. stack' = [stack EXCEPT ![depth] = t]
      BY <3>1 DEF top
    <3>4. t \in Frame /\ t.at = "conflict" /\ t.pkg = top.pkg
      BY <1>1, <3>2 DEF Frame, Locations
    <3>5. FrameOK(t)
      BY <2>1, <3>4 DEF FrameOK
    <3>6. Moved(t) /\ StackInv'
      BY <2>3, <3>3, <3>5, MovedKeeps
    <3> QED BY <2>2, <2>3, <2>6, <3>4, <3>6, MovedType DEF TypeInv, DataOK
  <2> QED BY <1>4, <2>4, <2>5, <2>6 DEF CheckOtherInstalled
<1>5. CASE CheckConflicts
  <2>1. At("conflict")
    BY <1>5 DEF CheckConflicts
  <2>2. running' = running /\ opt' = opt
    BY <1>5 DEF CheckConflicts
  <2>3. CASE stack' = <<>> /\ args' = <<>> /\ bad' = TRUE
    <3>1. DataOK'
      BY <1>5, <2>3, EmptySeq DEF CheckConflicts, TypeInv, DataOK, DBTypeOK
    <3>2. stack' \in Seq(Frame) /\ depth' = 0
      BY <2>3, EmptySeq DEF depth
    <3> QED BY <2>3, <3>1, <3>2 DEF TypeInv, StackInv, DirInv
  <2>4. CASE UNCHANGED args
    <3>1. DataOK' \/ ~(bad' \in BOOLEAN)
      BY <1>5, <2>4 DEF CheckConflicts, TypeInv, DataOK, DBTypeOK
    <3>2. CASE Return(FALSE)
      BY <2>2, <3>1, <3>2, ReturnKeeps, PoppedType
    <3>3. CASE \E l \in {"mkdir", "deps"} : Goto(l) /\ UNCHANGED bad
      <4>1. PICK l \in {"mkdir", "deps"} : Goto(l)
        BY <3>3
      <4>2. Moved([top EXCEPT !.at = l]) /\ StackInv'
        BY <2>1, <2>2, <4>1, GotoKeeps DEF At, Locations
      <4>3. [top EXCEPT !.at = l].at = l
        BY <1>1 DEF Frame
      <4> QED BY <2>2, <3>1, <3>3, <4>2, <4>3, MovedType DEF TypeInv, DataOK
    <3> QED BY <1>5, <2>3, <3>2, <3>3 DEF CheckConflicts
  <2> QED BY <1>5, <2>3, <2>4 DEF CheckConflicts
<1> QED BY <1>2, <1>3, <1>4, <1>5

\* Moving to another place, once the data are well-typed.
LEMMA GotoType ==
    ASSUME TypeInv, stack # <<>>, running' = running, opt' = opt, top.at # "find",
           NEW l \in Locations \ {"again", "missing"}, Goto(l), DataOK',
           l \in {"move", "moverest", "delete", "rename"} => top.other \in Pkg,
           l \in {"write", "move", "moverest"} /\ Recording => top.dir \in entries',
           l \in {"moverest", "delete"} /\ ~opt.fake /\ top.dir # top.other
             => reqby'[top.other] = {}
    PROVE  TypeInv'
<1> DEFINE t == [top EXCEPT !.at = l]
<1>1. Moved(t) /\ StackInv'
  BY GotoKeeps
<1>2. t.at = l /\ t.dir = top.dir /\ t.other = top.other
  BY TopIsFrame DEF Frame
<1> HIDE DEF t
<1> QED BY <1>1, <1>2, MovedType DEF Recording

\* write_meta_data and start_replacing.
LEMMA TypeMeta ==
    ASSUME TypeInv, stack # <<>>,
           \/ MakeDir \/ WriteMeta \/ MoveRequiredBy \/ MoveRest
           \/ DeleteOld \/ RenameDir
    PROVE  TypeInv'
<1>1. FrameOK(top) /\ top \in Frame
  BY TopIsFrame
<1>2. /\ top.dir \in Pkg \cup {NoPkg} /\ top.other \in Pkg \cup {NoPkg}
      /\ Recording => top.dir \in Pkg
  BY <1>1 DEF Frame, Recording
<1> USE DEF dbVars, cmdVars, histVars, indexVars, treeVars
<1>3. CASE MakeDir
  <2>1. top.at = "mkdir" /\ running' = running /\ opt' = opt
    BY <1>3 DEF MakeDir, At
  <2>2. DataOK'
    BY <1>2, <1>3 DEF MakeDir, TypeInv, DataOK, DBTypeOK
  <2>3. PICK l \in {"write", "nukedb"} :
           Goto(l) /\ (l = "write" /\ Recording => top.dir \in entries')
    BY <1>3 DEF MakeDir
  <2> QED BY <2>1, <2>2, <2>3, GotoType DEF Locations
<1>4. CASE WriteMeta
  <2>1. top.at = "write" /\ running' = running /\ opt' = opt /\ entries' = entries
    BY <1>4 DEF WriteMeta, At
  <2>2. Recording => top.dir \in entries
    BY <2>1 DEF TypeInv, DirInv
  <2>3. DataOK'
    BY <1>2, <1>4, <2>2 DEF WriteMeta, TypeInv, DataOK, DBTypeOK
  <2>4. PICK l \in {"move", "pre", "nukedb"} : Goto(l) /\ (l = "move" => top.other # NoPkg)
    BY <1>4 DEF WriteMeta
  <2> QED BY <1>2, <2>1, <2>2, <2>3, <2>4, GotoType DEF Locations
<1>5. CASE MoveRequiredBy
  <2>1. /\ top.at = "move" /\ running' = running /\ opt' = opt /\ entries' = entries
        /\ top.other \in Pkg
    BY <1>1, <1>5 DEF MoveRequiredBy, At, FrameOK
  <2>2. Recording => top.dir \in entries
    BY <2>1 DEF TypeInv, DirInv
  <2>3. reqby' \in [Pkg -> SUBSET Pkg]
    BY <1>5, <2>1 DEF MoveRequiredBy, RequiredAfterMove, TypeInv, DataOK, DBTypeOK
  <2>4. DataOK'
    BY <1>5, <2>3 DEF MoveRequiredBy, TypeInv, DataOK, DBTypeOK
  <2>5. PICK l \in {"moverest", "nukedb"} :
             /\ Goto(l)
             /\ l = "moverest" /\ ~opt.fake => reqby' = RequiredAfterMove(top.other, top.dir)
    BY <1>5 DEF MoveRequiredBy
  <2>6. l = "moverest" /\ ~opt.fake /\ top.dir # top.other => reqby'[top.other] = {}
    BY <2>1, <2>5 DEF RequiredAfterMove
  <2> QED BY <2>1, <2>2, <2>4, <2>5, <2>6, GotoType DEF Locations
<1>6. CASE MoveRest
  <2>1. /\ top.at = "moverest" /\ running' = running /\ opt' = opt /\ entries' = entries
        /\ top.other \in Pkg
    BY <1>1, <1>6 DEF MoveRest, At, FrameOK
  <2>2. Recording => top.dir \in entries
    BY <2>1 DEF TypeInv, DirInv
  <2>3. preserved' \subseteq entries /\ automatic' \subseteq entries
    BY <1>6, <2>2 DEF MoveRest, MovedFlag, Recording, TypeInv, DataOK, DBTypeOK
  <2>4. DataOK'
    BY <1>6, <2>3 DEF MoveRest, TypeInv, DataOK, DBTypeOK
  <2>5. PICK l \in {"delete", "nukedb"} : Goto(l)
    BY <1>6 DEF MoveRest
  <2>6. ~opt.fake /\ top.dir # top.other => reqby'[top.other] = {}
    BY <1>6, <2>1 DEF MoveRest, TypeInv, DirInv
  <2> QED BY <2>1, <2>4, <2>5, <2>6, GotoType DEF Locations
<1>7. CASE DeleteOld
  <2>1. top.at = "delete" /\ running' = running /\ opt' = opt /\ top.other \in Pkg
    BY <1>1, <1>7 DEF DeleteOld, At, FrameOK
  <2>2. DataOK'
    <3>1. CASE UNCHANGED <<dbVars, complete, undone>> /\ (UNCHANGED late \/ Left)
      BY <1>7, <3>1 DEF DeleteOld, TypeInv, DataOK, DBTypeOK, Left
    <3>2. CASE /\ DeletePackage(top.other)
               /\ undone' = undone \cup ({top.other} \cap {top.dir})
               /\ UNCHANGED late
      <4>1. reqby' \in [Pkg -> SUBSET Pkg]
        BY <3>2 DEF DeletePackage, TypeInv, DataOK, DBTypeOK
      <4>2. owner' \in [File -> Pkg \cup {NoPkg}]
        BY <3>2 DEF DeletePackage, WithoutKeys, TypeInv, DataOK, DBTypeOK
      <4>3. /\ entries' \subseteq Pkg /\ contents' \subseteq entries'
            /\ preserved' \subseteq entries' /\ automatic' \subseteq entries'
            /\ disk' \subseteq File /\ complete' \subseteq Pkg /\ undone' \subseteq Pkg
        BY <2>1, <3>2 DEF DeletePackage, TypeInv, DataOK, DBTypeOK
      <4>4. late' \in BOOLEAN
        BY <3>2 DEF TypeInv, DataOK
      <4> QED BY <1>7, <4>1, <4>2, <4>3, <4>4 DEF DeleteOld, TypeInv, DataOK, DBTypeOK
    <3> QED BY <1>7, <3>1, <3>2 DEF DeleteOld
  <2>3. Goto("rename")
    BY <1>7 DEF DeleteOld
  <2> QED BY <2>1, <2>2, <2>3, GotoType DEF Locations
<1>8. CASE RenameDir
  <2>1. top.at = "rename" /\ running' = running /\ opt' = opt /\ top.pkg \in Pkg
    BY <1>1, <1>8 DEF RenameDir, At, FrameOK
  <2>2. DataOK'
    <3>1. CASE UNCHANGED treeVars
      BY <1>8, <3>1 DEF RenameDir, TypeInv, DataOK, DBTypeOK
    <3>2. CASE ~UNCHANGED treeVars
      <4> DEFINE p == top.pkg
                 d == Temp[top.pkg]
      <4>1. /\ entries' = Renamed(entries, d, p) /\ contents' = Renamed(contents, d, p)
            /\ reqby' = [reqby EXCEPT ![p] = reqby[d], ![d] = {}]
            /\ preserved' = Renamed(preserved, d, p)
            /\ automatic' = Renamed(automatic, d, p)
        BY <1>8, <3>2 DEF RenameDir
      <4>2. p \in Pkg /\ d \in Pkg
        BY <2>1, TempAssumption
      <4>3. reqby' \in [Pkg -> SUBSET Pkg]
        BY <4>1, <4>2 DEF TypeInv, DataOK, DBTypeOK
      <4>4. /\ entries' \subseteq Pkg /\ contents' \subseteq entries'
            /\ preserved' \subseteq entries' /\ automatic' \subseteq entries'
        BY <4>1, <4>2 DEF Renamed, TypeInv, DataOK, DBTypeOK
      <4> QED BY <1>8, <4>3, <4>4 DEF RenameDir, TypeInv, DataOK, DBTypeOK
    <3> QED BY <3>1, <3>2
  <2>3. stack' = [stack EXCEPT ![depth].at = "deps",
                              ![depth].dir = IF @ = NoPkg THEN NoPkg ELSE top.pkg]
    BY <1>8 DEF RenameDir
  <2> DEFINE t == [top EXCEPT !.at = "deps",
                              !.dir = IF @ = NoPkg THEN NoPkg ELSE top.pkg]
  <2>4. stack' = [stack EXCEPT ![depth] = t]
    BY <2>3 DEF top
  <2>5. t \in Frame /\ t.at = "deps" /\ t.pkg = top.pkg
    BY <1>1, <2>1 DEF Frame, Locations
  <2>6. FrameOK(t)
    BY <2>1, <2>5 DEF FrameOK
  <2>7. Moved(t) /\ StackInv'
    BY <2>1, <2>4, <2>6, MovedKeeps
  <2> QED BY <2>1, <2>2, <2>5, <2>7, MovedType
<1> QED BY <1>3, <1>4, <1>5, <1>6, <1>7, <1>8

\* status = -1 from check_dependencies.
LEMMA DependencyFailedType ==
    ASSUME TypeInv, stack # <<>>, UNCHANGED <<dbVars, cmdVars, files, histVars>>,
           top.at # "find", DependencyFailed
    PROVE  TypeInv'
<1> USE DEF dbVars, cmdVars, histVars, indexVars, treeVars
<1>1. DataOK' \/ ~(bad' \in BOOLEAN)
  BY DEF TypeInv, DataOK, DBTypeOK
<1>2. running' = running /\ opt' = opt /\ entries' = entries
  OBVIOUS
<1>3. CASE Return(FALSE)
  BY <1>1, <1>2, <1>3, ReturnKeeps, PoppedType
<1>4. CASE Goto("nukedb") /\ UNCHANGED bad
  <2>1. DataOK'
    BY <1>1, <1>4 DEF TypeInv, DataOK
  <2> QED BY <1>2, <1>4, <2>1, GotoType DEF Locations
<1> QED BY <1>3, <1>4 DEF DependencyFailed

\* check_dependencies.
LEMMA TypeDeps ==
    ASSUME TypeInv, stack # <<>>,
           \/ \E pt \in Pattern : CheckDependency(pt)
           \/ DependencyInstalled \/ DependencyMissing \/ DependenciesDone
    PROVE  TypeInv'
<1>1. FrameOK(top) /\ top \in Frame
  BY TopIsFrame
<1>2. DataOK' \/ ~(bad' \in BOOLEAN)
  BY DEF CheckDependency, DependencyInstalled, DependencyMissing, DependenciesDone,
         dbVars, cmdVars, histVars, indexVars, treeVars, TypeInv, DataOK, DBTypeOK
<1>3. UNCHANGED <<dbVars, cmdVars, files, histVars>>
  BY DEF CheckDependency, DependencyInstalled, DependencyMissing, DependenciesDone
<1>4. running' = running /\ opt' = opt /\ entries' = entries
  BY <1>3 DEF cmdVars, dbVars
<1>5. UNCHANGED bad => DataOK'
  BY <1>2 DEF TypeInv, DataOK
<1>6. top.at # "find"
  BY DEF CheckDependency, DependencyInstalled, DependencyMissing, DependenciesDone, At
<1>7. top.pkg \in Pkg
  BY <1>1, <1>6 DEF FrameOK
<1>8. CASE DependencyFailed
  BY <1>3, <1>6, <1>8, DependencyFailedType
<1>9. ASSUME NEW t \in Frame, t.at = "deps", t.pkg = top.pkg,
             stack' = [stack EXCEPT ![depth] = t], UNCHANGED bad
      PROVE  TypeInv'
  <2>1. FrameOK(t)
    BY <1>7, <1>9 DEF FrameOK
  <2>2. Moved(t) /\ StackInv'
    BY <1>4, <1>9, <2>1, MovedKeeps
  <2> QED BY <1>4, <1>5, <1>9, <2>2, MovedType
<1>10. ASSUME NEW pt \in Pattern, CheckDependency(pt) PROVE TypeInv'
  <2> DEFINE rest == top.todo \ {pt}
  <2>1. CASE \E d \in Best(Installed(pt)) :
                /\ stack' = [stack EXCEPT ![depth].todo = rest, ![depth].deps = @ \cup {d}]
                /\ UNCHANGED bad
    <3>1. PICK d \in Best(Installed(pt)) :
             stack' = [stack EXCEPT ![depth].todo = rest, ![depth].deps = @ \cup {d}]
      BY <2>1
    <3> DEFINE t == [top EXCEPT !.todo = rest, !.deps = @ \cup {d}]
    <3>2. d \in Pkg
      BY MatchAssumption DEF Best, Installed
    <3>3. t \in Frame /\ t.at = "deps" /\ t.pkg = top.pkg
      BY <1>1, <1>10, <3>2 DEF Frame, CheckDependency, At
    <3>4. stack' = [stack EXCEPT ![depth] = t]
      BY <3>1 DEF top
    <3> QED BY <1>9, <2>1, <3>3, <3>4
  <2>2. CASE stack' = [stack EXCEPT ![depth].todo = rest] /\ UNCHANGED bad
    <3> DEFINE t == [top EXCEPT !.todo = rest]
    <3>1. t \in Frame /\ t.at = "deps" /\ t.pkg = top.pkg
      BY <1>1, <1>10 DEF Frame, CheckDependency, At
    <3>2. stack' = [stack EXCEPT ![depth] = t]
      BY <2>2 DEF top
    <3> QED BY <1>9, <2>2, <3>1, <3>2
  <2>3. CASE /\ stack' = Append([stack EXCEPT ![depth].todo = rest, ![depth].dep = pt],
                                Push(pt, TRUE)[depth + 1])
             /\ UNCHANGED bad
    <3> DEFINE t == [top EXCEPT !.todo = rest, !.dep = pt]
    <3>1. t \in Frame /\ t.at = "deps" /\ t.pkg = top.pkg /\ t.dep = pt
      BY <1>1, <1>10 DEF Frame, CheckDependency, At
    <3>2. FrameOK(t) /\ Suspended(t)
      BY <1>7, <1>10, <3>1 DEF FrameOK, Suspended
    <3>3. Push(pt, TRUE)[depth + 1] = NewFrame(pt, TRUE)
      <4>1. NewFrame(pt, TRUE) \in Frame
        BY DEF NewFrame, Frame, Locations
      <4>2. stack \in Seq(Frame)
        BY DEF TypeInv
      <4>3. Push(pt, TRUE) = Append(stack, NewFrame(pt, TRUE))
        BY DEF Push, NewFrame
      <4> QED BY <4>1, <4>2, <4>3, AppendFrame DEF depth
    <3>4. stack' = Append([stack EXCEPT ![depth] = t], NewFrame(pt, TRUE))
      BY <2>3, <3>3 DEF top
    <3>5. Nested(t, NewFrame(pt, TRUE)) /\ StackInv'
      BY <1>4, <3>2, <3>4, NestedKeeps
    <3>6. DirInv'
      BY <3>5 DEF DirInv, Nested, NewFrame
    <3> QED BY <1>5, <2>3, <3>5, <3>6 DEF TypeInv, Nested
  <2> QED BY <1>8, <1>10, <2>1, <2>2, <2>3 DEF CheckDependency
<1>11. CASE DependencyInstalled
  <2>1. CASE \E d \in Best(Installed(top.dep)) :
                /\ stack' = [stack EXCEPT ![depth].at = "deps", ![depth].dep = NoPkg,
                                          ![depth].deps = @ \cup {d}]
                /\ UNCHANGED bad
    <3>1. PICK d \in Best(Installed(top.dep)) :
             stack' = [stack EXCEPT ![depth].at = "deps", ![depth].dep = NoPkg,
                                    ![depth].deps = @ \cup {d}]
      BY <2>1
    <3> DEFINE t == [top EXCEPT !.at = "deps", !.dep = NoPkg, !.deps = @ \cup {d}]
    <3>2. top.dep \in Pattern
      BY <1>1, <1>11 DEF DependencyInstalled, At, FrameOK
    <3>3. d \in Pkg
      BY <3>2, MatchAssumption DEF Best, Installed
    <3>4. t \in Frame /\ t.at = "deps" /\ t.pkg = top.pkg
      BY <1>1, <3>3 DEF Frame, Locations
    <3>5. stack' = [stack EXCEPT ![depth] = t]
      BY <3>1 DEF top
    <3> QED BY <1>9, <2>1, <3>4, <3>5
  <2>2. CASE /\ stack' = [stack EXCEPT ![depth].at = "deps", ![depth].dep = NoPkg]
             /\ UNCHANGED bad
    <3> DEFINE t == [top EXCEPT !.at = "deps", !.dep = NoPkg]
    <3>1. t \in Frame /\ t.at = "deps" /\ t.pkg = top.pkg
      BY <1>1 DEF Frame, Locations
    <3>2. stack' = [stack EXCEPT ![depth] = t]
      BY <2>2 DEF top
    <3> QED BY <1>9, <2>2, <3>1, <3>2
  <2> QED BY <1>8, <1>11, <2>1, <2>2 DEF DependencyInstalled
<1>12. CASE DependencyMissing
  <2>1. CASE /\ stack' = [stack EXCEPT ![depth].at = "deps", ![depth].dep = NoPkg]
             /\ UNCHANGED bad
    <3> DEFINE t == [top EXCEPT !.at = "deps", !.dep = NoPkg]
    <3>1. t \in Frame /\ t.at = "deps" /\ t.pkg = top.pkg
      BY <1>1 DEF Frame, Locations
    <3>2. stack' = [stack EXCEPT ![depth] = t]
      BY <2>1 DEF top
    <3> QED BY <1>9, <2>1, <3>1, <3>2
  <2> QED BY <1>8, <1>12, <2>1 DEF DependencyMissing
<1>13. CASE DependenciesDone
  <2>1. PICK l \in {"pre", "mkdir"} : Goto(l) /\ UNCHANGED bad
    BY <1>13 DEF DependenciesDone
  <2> QED BY <1>4, <1>5, <1>6, <2>1, GotoType DEF Locations
<1> QED BY <1>10, <1>11, <1>12, <1>13

\* Scripts, extraction and registration.
LEMMA TypeInstall ==
    ASSUME TypeInv, stack # <<>>,
           \/ PreInstall \/ (\E f \in File : ExtractFile(f)) \/ ExtractDone \/ ExtractFail
           \/ PostInstall \/ (\E d \in Pkg : RegisterDepend(d)) \/ RegisterDone
    PROVE  TypeInv'
<1>1. FrameOK(top) /\ top \in Frame
  BY TopIsFrame
<1>2. top.at \in {"pre", "extract", "post", "register"}
  BY DEF PreInstall, ExtractFile, ExtractDone, ExtractFail, PostInstall,
         RegisterDepend, RegisterDone, At
<1>3. top.pkg \in Pkg /\ Contents[top.pkg] \subseteq File
  BY <1>1, <1>2, ContentsAssumption DEF FrameOK
<1> USE DEF dbVars, cmdVars, histVars, indexVars, treeVars
<1>4. running' = running /\ opt' = opt
  BY DEF PreInstall, ExtractFile, ExtractDone, ExtractFail, PostInstall,
         RegisterDepend, RegisterDone
<1>5. CASE PreInstall
  <2>1. DataOK'
    BY <1>3, <1>5 DEF PreInstall, TypeInv, DataOK, DBTypeOK
  <2>2. PICK l \in {"extract", "nukedb"} : Goto(l)
    BY <1>5 DEF PreInstall
  <2> QED BY <1>2, <1>4, <2>1, <2>2, GotoType DEF Locations
<1>6. ASSUME NEW f \in File, ExtractFile(f) PROVE TypeInv'
  <2>1. DataOK'
    BY <1>6 DEF ExtractFile, TypeInv, DataOK, DBTypeOK
  <2>2. UNCHANGED <<stack, running, opt, entries>>
    BY <1>6 DEF ExtractFile
  <2> QED BY <1>2, <2>1, <2>2
          DEF TypeInv, StackInv, DirInv, depth, top, FrameOK, Suspended, Recording
<1>7. CASE ExtractDone
  <2>1. owner' \in [File -> Pkg \cup {NoPkg}]
    BY <1>3, <1>7 DEF ExtractDone, Stored, TypeInv, DataOK, DBTypeOK
  <2>2. DataOK'
    BY <1>7, <2>1 DEF ExtractDone, TypeInv, DataOK, DBTypeOK
  <2>3. Goto("post")
    BY <1>7 DEF ExtractDone
  <2> QED BY <1>2, <1>4, <2>2, <2>3, GotoType DEF Locations
<1>8. CASE ExtractFail
  <2>1. owner' \in [File -> Pkg \cup {NoPkg}]
    BY <1>3, <1>8 DEF ExtractFail, Stored, TypeInv, DataOK, DBTypeOK
  <2>2. DataOK'
    BY <1>8, <2>1 DEF ExtractFail, TypeInv, DataOK, DBTypeOK
  <2>3. Goto("nukepkg")
    BY <1>8 DEF ExtractFail
  <2> QED BY <1>2, <1>4, <2>2, <2>3, GotoType DEF Locations
<1>9. CASE PostInstall
  <2>1. DataOK'
    BY <1>3, <1>9 DEF PostInstall, TypeInv, DataOK, DBTypeOK
  <2>2. PICK l \in {"register", "nukedb"} : Goto(l)
    BY <1>9 DEF PostInstall
  <2> QED BY <1>2, <1>4, <2>1, <2>2, GotoType DEF Locations
<1>10. ASSUME NEW d \in Pkg, RegisterDepend(d) PROVE TypeInv'
  <2>1. reqby' \in [Pkg -> SUBSET Pkg]
    BY <1>3, <1>10 DEF RegisterDepend, TypeInv, DataOK, DBTypeOK
  <2>2. DataOK'
    BY <1>10, <2>1 DEF RegisterDepend, TypeInv, DataOK, DBTypeOK
  <2>3. stack' = [stack EXCEPT ![depth].deps = @ \ {d}] /\ top.at = "register"
    BY <1>10 DEF RegisterDepend, At
  <2> DEFINE t == [top EXCEPT !.deps = @ \ {d}]
  <2>4. stack' = [stack EXCEPT ![depth] = t]
    BY <2>3 DEF top
  <2>5. t \in Frame /\ t.at = "register" /\ t.pkg = top.pkg
    BY <1>1, <2>3 DEF Frame
  <2>6. FrameOK(t)
    BY <1>3, <2>5 DEF FrameOK
  <2>7. Moved(t) /\ StackInv'
    BY <1>4, <2>4, <2>6, MovedKeeps
  <2> QED BY <1>4, <2>2, <2>5, <2>7, MovedType
<1>11. CASE RegisterDone
  <2>1. Popped /\ StackInv' /\ bad' \in BOOLEAN
    BY <1>4, <1>11, ReturnKeeps DEF RegisterDone
  <2>2. DataOK'
    BY <1>3, <1>11, <2>1 DEF RegisterDone, TypeInv, DataOK, DBTypeOK
  <2> QED BY <2>1, <2>2, PoppedType
<1> QED BY <1>5, <1>6, <1>7, <1>8, <1>9, <1>10, <1>11

\* Undoing an installation.
LEMMA TypeNuke ==
    ASSUME TypeInv, stack # <<>>, NukePkg \/ NukeMeta \/ NukeDir
    PROVE  TypeInv'
<1>1. FrameOK(top) /\ top \in Frame
  BY TopIsFrame
<1>2. top.at \in {"nukepkg", "nukedb"}
  BY DEF NukePkg, NukeMeta, NukeDir, At
<1>3. Recording => top.dir \in Pkg
  BY <1>1 DEF Recording, Frame
<1> USE DEF dbVars, cmdVars, histVars, indexVars, treeVars
<1>4. running' = running /\ opt' = opt
  BY DEF NukePkg, NukeMeta, NukeDir
<1>5. CASE NukePkg
  <2>1. DataOK'
    BY <1>5 DEF NukePkg, WithoutKeys, TypeInv, DataOK, DBTypeOK
  <2>2. Goto("nukedb")
    BY <1>5 DEF NukePkg
  <2> QED BY <1>2, <1>4, <2>1, <2>2, GotoType DEF Locations
<1>6. CASE NukeMeta
  <2>1. reqby' \in [Pkg -> SUBSET Pkg]
    BY <1>3, <1>6 DEF NukeMeta, TypeInv, DataOK, DBTypeOK
  <2>2. /\ contents' \subseteq contents /\ preserved' \subseteq preserved
        /\ automatic' \subseteq automatic /\ complete' \subseteq complete
    BY <1>6 DEF NukeMeta
  <2>3. DataOK'
    BY <1>6, <2>1, <2>2 DEF NukeMeta, TypeInv, DataOK, DBTypeOK
  <2>4. UNCHANGED <<stack, running, opt, entries>>
    BY <1>6 DEF NukeMeta
  <2> QED BY <1>2, <2>3, <2>4
          DEF TypeInv, StackInv, DirInv, depth, top, FrameOK, Suspended, Recording
<1>7. CASE NukeDir
  <2>1. Popped /\ StackInv' /\ bad' \in BOOLEAN
    BY <1>4, <1>7, ReturnKeeps DEF NukeDir
  <2>2. DataOK'
    BY <1>7, <2>1 DEF NukeDir, TypeInv, DataOK, DBTypeOK, Left
  <2> QED BY <2>1, <2>2, PoppedType
<1> QED BY <1>5, <1>6, <1>7

\* pkg_perform, and a kill.
LEMMA TypePerform ==
    ASSUME TypeInv,
           \/ \E o \in Options : \E a \in Requests[o] : Invoke(o, a)
           \/ NextArg \/ Finish \/ Crash
    PROVE  TypeInv'
<1> USE DEF dbVars, cmdVars, histVars, indexVars, treeVars
<1>1. ASSUME NEW o \in Options, NEW a \in Requests[o], Invoke(o, a) PROVE TypeInv'
  <2>1. a \in Seq(Pkg \cup Pattern) /\ o \in OptionSpace
    BY RequestsAssumption, OptionsAssumption
  <2>2. runs' \in 0..MaxRuns
    BY <1>1, BoundsAssumption DEF Invoke, TypeInv, DataOK
  <2>3. DataOK'
    BY <1>1, <2>1, <2>2 DEF Invoke, TypeInv, DataOK, DBTypeOK
  <2>4. stack = <<>> /\ stack' = <<>>
    BY <1>1 DEF Invoke, TypeInv, StackInv
  <2> QED BY <2>3, <2>4, EmptySeq DEF TypeInv, StackInv, DirInv, depth
<1>2. CASE NextArg
  <2> DEFINE t == NewFrame(Head(args), opt.automatic)
  <2>1. Head(args) \in Pkg \cup Pattern /\ args' \in Seq(Pkg \cup Pattern)
    BY <1>2, HeadTailProperties DEF NextArg, TypeInv, DataOK
  <2>2. opt.automatic \in BOOLEAN
    BY DEF TypeInv, DataOK, OptionSpace
  <2>3. t \in Frame /\ FrameOK(t) /\ t.at = "find"
    BY <2>1, <2>2 DEF NewFrame, Frame, FrameOK, Locations
  <2>4. stack \in Seq(Frame) /\ Len(stack) = 0
    BY <1>2, EmptySeq DEF NextArg
  <2>5. stack' = Append(stack, t)
    BY <1>2 DEF NextArg, Push, NewFrame
  <2> HIDE DEF t
  <2>6. stack' \in Seq(Frame) /\ Len(stack') = 1 /\ stack'[1] = t
    BY <2>3, <2>4, <2>5, AppendFrame
  <2>7. DataOK'
    BY <1>2, <2>1 DEF NextArg, TypeInv, DataOK, DBTypeOK
  <2>8. StackInv'
    <3>1. running'
      BY <1>2 DEF NextArg
    <3> QED BY <2>3, <2>6, <3>1 DEF StackInv, FrameOK, depth
  <2>9. DirInv'
    BY <2>3, <2>6 DEF DirInv, top, depth
  <2> QED BY <2>6, <2>7, <2>8, <2>9 DEF TypeInv
<1>3. CASE Finish
  <2>1. DataOK'
    BY <1>3 DEF Finish, TypeInv, DataOK, DBTypeOK
  <2>2. stack' = <<>>
    BY <1>3 DEF Finish
  <2> QED BY <2>1, <2>2, EmptySeq DEF TypeInv, StackInv, DirInv, depth
<1>4. CASE Crash
  <2>1. DataOK'
    BY <1>4, EmptySeq DEF Crash, TypeInv, DataOK, DBTypeOK
  <2>2. stack' = <<>>
    BY <1>4 DEF Crash
  <2> QED BY <2>1, <2>2, EmptySeq DEF TypeInv, StackInv, DirInv, depth
<1> QED BY <1>1, <1>2, <1>3, <1>4

\* A step of pkg_do has a frame to work on.
LEMMA StepHasFrame ==
    ASSUME Step, ~NextArg, ~Finish
    PROVE  stack # <<>>
BY DEF Step, OpenArchive, CheckAlreadyInstalled, CheckOtherInstalled, CheckConflicts,
       MakeDir, WriteMeta, MoveRequiredBy, MoveRest, DeleteOld, RenameDir,
       CheckDependency, DependencyInstalled, DependencyMissing, DependenciesDone,
       PreInstall, ExtractFile, ExtractDone, ExtractFail, PostInstall, RegisterDepend,
       RegisterDone, NukePkg, NukeMeta, NukeDir, At

\* No step leaves the types.
LEMMA TypeStep == TypeInv /\ [Next]_vars => TypeInv'
<1> SUFFICES ASSUME TypeInv, [Next]_vars PROVE TypeInv'
  OBVIOUS
<1>1. CASE Step /\ ~NextArg /\ ~Finish
  <2>1. stack # <<>>
    BY <1>1, StepHasFrame
  <2> QED BY <1>1, <2>1, TypeChecks, TypeMeta, TypeDeps, TypeInstall, TypeNuke DEF Step
<1>2. CASE \/ \E o \in Options : \E a \in Requests[o] : Invoke(o, a)
           \/ NextArg \/ Finish \/ Crash
  BY <1>2, TypePerform
<1>3. CASE UNCHANGED vars
  BY <1>3 DEF vars, dbVars, cmdVars, histVars, TypeInv, DataOK, DBTypeOK, StackInv, DirInv,
              depth, top, FrameOK, Suspended, Recording
<1> QED BY <1>1, <1>2, <1>3 DEF Next

\* The types of the database and of an invocation are kept by every invocation,
\* failure and kill: in particular the flags and +CONTENTS are in directories.
THEOREM TypeCorrect == Spec => []TypeOK
<1>1. TypeInv => TypeOK
  BY DEF TypeInv, DataOK, TypeOK
<1> QED BY <1>1, TypeInit, TypeStep, PTL DEF Spec

-----------------------------------------------------------------------------
(* -n.                                                                     *)

\* The frame of a package that is only reported.  Without -u and -U it is not
\* there once its installation is "under way".
FakeFrame(t) ==
    /\ t.mark = opt.automatic
    /\ t.at # "nukepkg"
    /\ t.other # NoPkg => opt.replace \/ opt.replace_same
    /\ t.other = NoPkg /\ t.at \in {"other", "conflict"} => t.pkg \notin contents
    /\ t.other = NoPkg /\ t.at \notin {"find", "already", "other", "conflict"}
         => t.pkg \notin entries

FakeInv ==
    opt.fake /\ stack # <<>> =>
        /\ depth = 1
        /\ FakeFrame(top)
        /\ top.at = "extract" => files = {}

\* A step of a reported installation changes nothing but the automatic mark.
LEMMA FakeStep ==
    ASSUME TypeInv, FakeInv, opt.fake, stack # <<>>, Step
    PROVE  /\ UNCHANGED <<entries, contents, reqby, preserved, disk, owner, opt, running>>
           /\ automatic \subseteq automatic'
           /\ ~(opt.automatic /\ (opt.replace \/ opt.replace_same)) => UNCHANGED automatic
<1> USE DEF dbVars, cmdVars, histVars, indexVars, treeVars
<1>1. FakeFrame(top) /\ (top.at = "extract" => files = {}) /\ ~Recording
  BY DEF FakeInv, Recording
<1>2. CASE OpenArchive \/ CheckAlreadyInstalled \/ CheckOtherInstalled \/ CheckConflicts
  BY <1>2 DEF OpenArchive, CheckAlreadyInstalled, CheckOtherInstalled, CheckConflicts
<1>3. CASE MakeDir \/ WriteMeta \/ MoveRequiredBy \/ MoveRest
  BY <1>1, <1>3 DEF MakeDir, WriteMeta, MoveRequiredBy, MoveRest
<1>4. CASE DeleteOld \/ RenameDir
  BY <1>4 DEF DeleteOld, RenameDir
<1>5. CASE \/ \E pt \in Pattern : CheckDependency(pt)
           \/ DependencyInstalled \/ DependencyMissing \/ DependenciesDone
  BY <1>5 DEF CheckDependency, DependencyInstalled, DependencyMissing, DependenciesDone
<1>6. CASE \/ PreInstall \/ (\E f \in File : ExtractFile(f)) \/ ExtractDone \/ ExtractFail
  BY <1>1, <1>6 DEF PreInstall, ExtractFile, ExtractDone, ExtractFail, At
<1>7. CASE PostInstall
  <2>1. /\ top.at = "post"
        /\ UNCHANGED <<entries, contents, reqby, preserved, disk, owner, opt, running>>
        /\ \/ UNCHANGED automatic
           \/ /\ top.mark /\ top.pkg \in entries
              /\ automatic' = automatic \cup {top.pkg}
    BY <1>7 DEF PostInstall, At
  <2>2. top.mark /\ top.pkg \in entries => opt.automatic /\ (opt.replace \/ opt.replace_same)
    BY <1>1, <2>1 DEF FakeFrame
  <2> QED BY <2>1, <2>2
<1>8. CASE (\E d \in Pkg : RegisterDepend(d)) \/ RegisterDone
  BY <1>8 DEF RegisterDepend, RegisterDone
<1>9. CASE NukePkg \/ NukeMeta \/ NukeDir
  BY <1>1, <1>9 DEF NukePkg, NukeMeta, NukeDir, At, FakeFrame
<1>10. CASE NextArg \/ Finish
  BY <1>10 DEF NextArg, Finish
<1> QED BY <1>2, <1>3, <1>4, <1>5, <1>6, <1>7, <1>8, <1>9, <1>10 DEF Step

\* A top frame for which the condition holds.
LEMMA FakeMoved ==
    ASSUME TypeInv, NEW t, Moved(t), depth = 1, FakeFrame(t),
           UNCHANGED <<entries, contents, opt>>, t.at = "extract" => files' = {}
    PROVE  FakeInv'
BY DEF Moved, FakeInv, FakeFrame

\* The same for a change of place only.
LEMMA FakeGoto ==
    ASSUME TypeInv, FakeInv, opt.fake, stack # <<>>, running' = running, top.at # "find",
           NEW l \in Locations \ {"again", "missing", "find", "nukepkg", "other"}, Goto(l),
           l \in {"move", "moverest", "delete", "rename"} => top.other \in Pkg,
           l \notin {"other", "conflict"} /\ top.other = NoPkg => top.pkg \notin entries,
           l = "conflict" /\ top.other = NoPkg => top.pkg \notin contents,
           UNCHANGED <<entries, contents, opt>>, l = "extract" => files' = {}
    PROVE  FakeInv'
<1> DEFINE t == [top EXCEPT !.at = l]
<1>1. Moved(t)
  BY GotoKeeps
<1>2. /\ t.at = l /\ t.dir = top.dir /\ t.other = top.other
      /\ t.mark = top.mark /\ t.pkg = top.pkg
  BY TopIsFrame DEF Frame
<1>3. FakeFrame(top) /\ depth = 1
  BY DEF FakeInv
<1> HIDE DEF t
<1>4. FakeFrame(t)
  BY <1>2, <1>3 DEF FakeFrame
<1> QED BY <1>1, <1>2, <1>3, <1>4, FakeMoved

\* A return ends the invocation's only frame.
LEMMA FakePopped ==
    ASSUME TypeInv, FakeInv, opt.fake, stack # <<>>, opt' = opt, running' = running,
           NEW ok \in BOOLEAN, Return(ok)
    PROVE  FakeInv'
BY ReturnKeeps DEF FakeInv, Popped

\* The condition is kept.
LEMMA FakeKeeps ==
    ASSUME TypeInv, FakeInv, opt.fake, stack # <<>>, Step
    PROVE  FakeInv'
<1>1. UNCHANGED <<entries, contents, opt, running>>
  BY FakeStep
<1>2. depth = 1 /\ FakeFrame(top) /\ FrameOK(top) /\ top \in Frame
  BY TopIsFrame DEF FakeInv
<1>3. ASSUME NEW t \in Frame, stack' = [stack EXCEPT ![depth] = t], FrameOK(t),
             FakeFrame(t), t.at # "extract"
      PROVE  FakeInv'
  BY <1>1, <1>2, <1>3, MovedKeeps, FakeMoved
<1> USE DEF dbVars, cmdVars, histVars, indexVars, treeVars
<1>4. CASE OpenArchive
  <2>1. CASE Return(FALSE)
    BY <1>1, <2>1, FakePopped
  <2>2. CASE ~Return(FALSE)
    <3>1. PICK p \in Candidates(top.arg) :
             stack' = [stack EXCEPT
                    ![depth].at = "already", ![depth].pkg = p,
                    ![depth].dir = IF opt.no_record /\ ~opt.fake THEN NoPkg ELSE p,
                    ![depth].todo = Deps[p]]
      BY <1>4, <2>2 DEF OpenArchive
    <3> DEFINE t == Opened(p)
    <3>2. stack' = [stack EXCEPT ![depth] = t]
      BY <3>1 DEF top, Opened
    <3>3. p \in Pkg /\ Deps[p] \subseteq Pattern
      BY <1>2, CandidatesType, DepsAssumption DEF Frame
    <3>4. /\ t \in Frame /\ t.at = "already" /\ t.pkg = p
          /\ t.other = top.other /\ t.mark = top.mark
      BY <1>2, <3>3, OpenedFrame
    <3>5. FrameOK(t) /\ FakeFrame(t)
      BY <1>2, <3>3, <3>4 DEF FrameOK, FakeFrame
    <3> QED BY <1>3, <3>2, <3>4, <3>5
  <2> QED BY <2>1, <2>2
<1>5. CASE CheckAlreadyInstalled
  <2>1. top.at = "already" /\ top.pkg \in Pkg
    BY <1>2, <1>5 DEF CheckAlreadyInstalled, At, FrameOK
  <2>2. CASE \E ok \in BOOLEAN : Return(ok)
    BY <1>1, <2>2, FakePopped
  <2>3. CASE top.pkg \notin contents /\ Goto("other")
    <3> DEFINE t == [top EXCEPT !.at = "other"]
    <3>1. /\ t \in Frame /\ t.at = "other" /\ t.pkg = top.pkg
          /\ t.other = top.other /\ t.mark = top.mark
      BY <1>2 DEF Frame, Locations
    <3>2. FrameOK(t) /\ FakeFrame(t)
      BY <1>2, <2>1, <2>3, <3>1 DEF FrameOK, FakeFrame
    <3>3. stack' = [stack EXCEPT ![depth] = t]
      BY <2>3 DEF Goto, top
    <3> QED BY <1>3, <3>1, <3>2, <3>3
  <2>4. CASE opt.replace_same /\ stack' = [stack EXCEPT
                        ![depth].at = "other", ![depth].other = top.pkg,
                        ![depth].dir = IF @ = NoPkg THEN NoPkg ELSE Temp[top.pkg]]
    <3> DEFINE t == Replacing
    <3>1. stack' = [stack EXCEPT ![depth] = t]
      BY <2>4 DEF top, Replacing
    <3>2. /\ t \in Frame /\ t.at = "other" /\ t.pkg = top.pkg
          /\ t.other = top.pkg /\ t.mark = top.mark
      BY <1>2, <2>1, ReplacingFrame
    <3>3. FrameOK(t) /\ FakeFrame(t)
      BY <1>2, <2>1, <2>4, <3>2, NoPkgAssumption DEF FrameOK, FakeFrame
    <3> QED BY <1>3, <3>1, <3>2, <3>3
  <2> QED BY <1>5, <2>2, <2>3, <2>4 DEF CheckAlreadyInstalled
<1>6. CASE CheckOtherInstalled
  <2>1. top.at = "other" /\ top.pkg \in Pkg
    BY <1>2, <1>6 DEF CheckOtherInstalled, At, FrameOK
  <2>2. CASE Return(FALSE)
    BY <1>1, <2>2, FakePopped
  <2>3. CASE Goto("conflict")
    BY <1>1, <1>2, <2>1, <2>3, FakeGoto DEF FakeFrame, Locations
  <2>4. CASE \E o \in OtherVersion(top.pkg) :
               /\ MayReplace(o, top.pkg)
               /\ stack' = [stack EXCEPT ![depth].at = "conflict", ![depth].other = o]
    <3>1. PICK o \in OtherVersion(top.pkg) :
             /\ MayReplace(o, top.pkg)
             /\ stack' = [stack EXCEPT ![depth].at = "conflict", ![depth].other = o]
      BY <2>4
    <3>2. o \in Pkg /\ opt.replace
      BY <2>1, <3>1, MatchAssumption, BaseAssumption
         DEF OtherVersion, Best, Installed, MayReplace
    <3> DEFINE t == [top EXCEPT !.at = "conflict", !.other = o]
    <3>3. stack' = [stack EXCEPT ![depth] = t]
      BY <3>1 DEF top
    <3>4. /\ t \in Frame /\ t.at = "conflict" /\ t.pkg = top.pkg
          /\ t.other = o /\ t.mark = top.mark
      BY <1>2, <3>2 DEF Frame, Locations
    <3>5. FrameOK(t) /\ FakeFrame(t)
      BY <1>2, <2>1, <3>2, <3>4, NoPkgAssumption DEF FrameOK, FakeFrame
    <3> QED BY <1>3, <3>3, <3>4, <3>5
  <2> QED BY <1>6, <2>2, <2>3, <2>4 DEF CheckOtherInstalled
<1>7. CASE CheckConflicts
  <2>1. top.at = "conflict" /\ top.pkg \in Pkg
    BY <1>2, <1>7 DEF CheckConflicts, At, FrameOK
  <2>2. CASE stack' = <<>>
    BY <2>2 DEF FakeInv
  <2>3. CASE Return(FALSE)
    BY <1>1, <2>3, FakePopped
  <2>4. CASE ~Unreadable(top) /\ \E l \in {"mkdir", "deps"} : Goto(l)
    <3>1. top.other = NoPkg => top.pkg \notin entries
      BY <1>2, <2>1, <2>4, NoPkgAssumption DEF FakeFrame, Unreadable
    <3> QED BY <1>1, <1>2, <2>1, <2>4, <3>1, FakeGoto DEF Locations
  <2> QED BY <1>7, <2>2, <2>3, <2>4 DEF CheckConflicts
<1>8. CASE \/ MakeDir \/ WriteMeta \/ MoveRequiredBy \/ MoveRest \/ DeleteOld
           \/ DependenciesDone \/ PreInstall \/ ExtractDone \/ PostInstall
  <2>1. /\ top.at \in {"mkdir", "write", "move", "moverest", "delete", "deps", "pre",
                       "extract", "post"}
        /\ top.at \in {"move", "moverest", "delete"} \/ top.other # NoPkg
             => top.other \in Pkg
        /\ top.other = NoPkg => top.pkg \notin entries
    BY <1>2, <1>8 DEF MakeDir, WriteMeta, MoveRequiredBy, MoveRest, DeleteOld,
         DependenciesDone, PreInstall, ExtractDone, PostInstall, At, FrameOK, FakeFrame, Frame
  <2>2. PICK l \in {"write", "pre", "move", "moverest", "delete", "rename", "mkdir",
                    "extract", "post", "register", "nukedb"} :
           Goto(l) /\ (l \in {"move", "moverest", "delete", "rename"} => top.other \in Pkg)
                  /\ (l = "extract" => files' = {})
    BY <1>8, <2>1 DEF MakeDir, WriteMeta, MoveRequiredBy, MoveRest, DeleteOld,
         DependenciesDone, PreInstall, ExtractDone, PostInstall, At
  <2> QED BY <1>1, <2>1, <2>2, FakeGoto DEF Locations
<1>9. CASE RenameDir
  <2>1. stack' = [stack EXCEPT ![depth].at = "deps",
                              ![depth].dir = IF @ = NoPkg THEN NoPkg ELSE top.pkg]
        /\ top.at = "rename" /\ top.pkg \in Pkg
    BY <1>2, <1>9 DEF RenameDir, At, FrameOK
  <2> DEFINE t == [top EXCEPT !.at = "deps",
                              !.dir = IF @ = NoPkg THEN NoPkg ELSE top.pkg]
  <2>2. stack' = [stack EXCEPT ![depth] = t]
    BY <2>1 DEF top
  <2>3. /\ t \in Frame /\ t.at = "deps" /\ t.pkg = top.pkg
        /\ t.other = top.other /\ t.mark = top.mark
    BY <1>2, <2>1 DEF Frame, Locations
  <2>4. FrameOK(t) /\ FakeFrame(t)
    BY <1>2, <2>1, <2>3 DEF FrameOK, FakeFrame
  <2> QED BY <1>3, <2>2, <2>3, <2>4
<1>10. ASSUME top.at \in {"deps", "again", "missing"}, DependencyFailed PROVE FakeInv'
  <2>1. CASE Return(FALSE)
    BY <1>1, <2>1, FakePopped
  <2>2. CASE Goto("nukedb")
    BY <1>1, <1>2, <1>10, <2>2, FakeGoto DEF FakeFrame, Locations
  <2> QED BY <1>10, <2>1, <2>2 DEF DependencyFailed
<1>11. ASSUME top.at \in {"deps", "again", "missing"}, NEW t \in Frame, t.at = "deps",
              t.pkg = top.pkg, t.other = top.other, t.mark = top.mark,
              stack' = [stack EXCEPT ![depth] = t]
       PROVE  FakeInv'
  BY <1>2, <1>3, <1>11 DEF FrameOK, FakeFrame
<1>12. ASSUME NEW pt \in Pattern, CheckDependency(pt) PROVE FakeInv'
  <2>1. top.at = "deps"
    BY <1>12 DEF CheckDependency, At
  <2>2. CASE \E d \in Best(Installed(pt)) :
           stack' = [stack EXCEPT ![depth].todo = top.todo \ {pt}, ![depth].deps = @ \cup {d}]
    <3>1. PICK d \in Best(Installed(pt)) :
           stack' = [stack EXCEPT ![depth].todo = top.todo \ {pt}, ![depth].deps = @ \cup {d}]
      BY <2>2
    <3>2. d \in Pkg
      BY MatchAssumption DEF Best, Installed
    <3> DEFINE t == [top EXCEPT !.todo = top.todo \ {pt}, !.deps = @ \cup {d}]
    <3>3. /\ t \in Frame /\ t.at = "deps" /\ t.pkg = top.pkg
          /\ t.other = top.other /\ t.mark = top.mark
      BY <1>2, <2>1, <3>2 DEF Frame
    <3>4. stack' = [stack EXCEPT ![depth] = t]
      BY <3>1 DEF top
    <3> QED BY <1>11, <2>1, <3>3, <3>4
  <2>3. CASE stack' = [stack EXCEPT ![depth].todo = top.todo \ {pt}]
    <3> DEFINE t == [top EXCEPT !.todo = top.todo \ {pt}]
    <3>1. /\ t \in Frame /\ t.at = "deps" /\ t.pkg = top.pkg
          /\ t.other = top.other /\ t.mark = top.mark
      BY <1>2, <2>1 DEF Frame
    <3>2. stack' = [stack EXCEPT ![depth] = t]
      BY <2>3 DEF top
    <3> QED BY <1>11, <2>1, <3>1, <3>2
  <2> QED BY <1>10, <1>12, <2>1, <2>2, <2>3 DEF CheckDependency
<1>13. CASE DependencyInstalled \/ DependencyMissing
  <2>1. top.at \in {"again", "missing"} /\ top.dep \in Pattern
    BY <1>2, <1>13 DEF DependencyInstalled, DependencyMissing, At, FrameOK
  <2>2. CASE \E d \in Best(Installed(top.dep)) :
           stack' = [stack EXCEPT ![depth].at = "deps", ![depth].dep = NoPkg,
                                  ![depth].deps = @ \cup {d}]
    <3>1. PICK d \in Best(Installed(top.dep)) :
           stack' = [stack EXCEPT ![depth].at = "deps", ![depth].dep = NoPkg,
                                  ![depth].deps = @ \cup {d}]
      BY <2>2
    <3>2. d \in Pkg
      BY <2>1, MatchAssumption DEF Best, Installed
    <3> DEFINE t == [top EXCEPT !.at = "deps", !.dep = NoPkg, !.deps = @ \cup {d}]
    <3>3. /\ t \in Frame /\ t.at = "deps" /\ t.pkg = top.pkg
          /\ t.other = top.other /\ t.mark = top.mark
      BY <1>2, <3>2 DEF Frame, Locations
    <3>4. stack' = [stack EXCEPT ![depth] = t]
      BY <3>1 DEF top
    <3> QED BY <1>11, <2>1, <3>3, <3>4
  <2>3. CASE stack' = [stack EXCEPT ![depth].at = "deps", ![depth].dep = NoPkg]
    <3> DEFINE t == [top EXCEPT !.at = "deps", !.dep = NoPkg]
    <3>1. /\ t \in Frame /\ t.at = "deps" /\ t.pkg = top.pkg
          /\ t.other = top.other /\ t.mark = top.mark
      BY <1>2 DEF Frame, Locations
    <3>2. stack' = [stack EXCEPT ![depth] = t]
      BY <2>3 DEF top
    <3> QED BY <1>11, <2>1, <3>1, <3>2
  <2> QED BY <1>10, <1>13, <2>1, <2>2, <2>3 DEF DependencyInstalled, DependencyMissing
<1>14. CASE \E f \in File : ExtractFile(f)
  BY <1>1, <1>2, <1>14 DEF ExtractFile, At, FakeInv
<1>15. CASE \E d \in Pkg : RegisterDepend(d)
  <2>1. PICK d \in Pkg : stack' = [stack EXCEPT ![depth].deps = @ \ {d}]
    BY <1>15 DEF RegisterDepend
  <2>2. top.at = "register"
    BY <1>15 DEF RegisterDepend, At
  <2> DEFINE t == [top EXCEPT !.deps = @ \ {d}]
  <2>3. /\ t \in Frame /\ t.at = "register" /\ t.pkg = top.pkg
        /\ t.other = top.other /\ t.mark = top.mark
    BY <1>2, <2>2 DEF Frame
  <2>4. stack' = [stack EXCEPT ![depth] = t]
    BY <2>1 DEF top
  <2>5. FrameOK(t) /\ FakeFrame(t)
    BY <1>2, <2>2, <2>3 DEF FrameOK, FakeFrame
  <2> QED BY <1>3, <2>3, <2>4, <2>5
<1>16. CASE RegisterDone \/ NukeDir
  BY <1>1, <1>16, FakePopped DEF RegisterDone, NukeDir
<1>17. CASE ExtractFail \/ NukePkg \/ NukeMeta
  BY <1>2, <1>17 DEF ExtractFail, NukePkg, NukeMeta, At, FakeFrame, Recording
<1>18. CASE NextArg \/ Finish
  BY <1>18 DEF NextArg, Finish
<1> QED BY <1>4, <1>5, <1>6, <1>7, <1>8, <1>9, <1>12, <1>13, <1>14, <1>15, <1>16, <1>17,
           <1>18 DEF Step

\* With -n, whatever fails, the database is as before, and the automatic mark
\* is set only with -A and -u or -U.
THEOREM FakeCorrect == Spec => FakeChangesNothing
<1>1. Init => FakeInv
  BY DEF Init, ProcInit, FakeInv
<1>2. TypeInv /\ FakeInv /\ [Next]_vars => FakeInv'
  <2> SUFFICES ASSUME TypeInv, FakeInv, [Next]_vars, opt'.fake, stack' # <<>> PROVE FakeInv'
    BY DEF FakeInv
  <2>1. CASE Step /\ stack # <<>>
    <3>1. opt' = opt
      BY <2>1 DEF Step, NextArg, Finish, OpenArchive, CheckAlreadyInstalled, CheckOtherInstalled,
         CheckConflicts, MakeDir, WriteMeta, MoveRequiredBy, MoveRest, DeleteOld, RenameDir,
         CheckDependency, DependencyInstalled, DependencyMissing, DependenciesDone,
         PreInstall, ExtractFile, ExtractDone, ExtractFail, PostInstall, RegisterDepend,
         RegisterDone, NukePkg, NukeMeta, NukeDir, cmdVars
    <3> QED BY <2>1, <3>1, FakeKeeps
  <2>2. CASE NextArg
    <3>1. opt.automatic \in BOOLEAN /\ stack \in Seq(Frame) /\ Len(stack) = 0
      BY <2>2, EmptySeq DEF NextArg, TypeInv, DataOK, OptionSpace
    <3>2. Head(args) \in Pkg \cup Pattern
      BY <2>2, HeadTailProperties DEF NextArg, TypeInv, DataOK
    <3> DEFINE t == NewFrame(Head(args), opt.automatic)
    <3>3. t \in Frame /\ t.at = "find" /\ t.mark = opt.automatic /\ t.other = NoPkg
      BY <3>1, <3>2 DEF NewFrame, Frame, Locations
    <3>4. stack' = Append(stack, t) /\ opt' = opt
      BY <2>2 DEF NextArg, Push, NewFrame
    <3> HIDE DEF t
    <3>5. Len(stack') = 1 /\ stack'[1] = t
      BY <3>1, <3>3, <3>4, AppendFrame
    <3> QED BY <3>3, <3>4, <3>5 DEF FakeInv, FakeFrame, depth, top
  <2>3. CASE Finish \/ Crash \/ \E o \in Options : \E a \in Requests[o] : Invoke(o, a)
    BY <2>3 DEF Finish, Crash, Invoke, TypeInv, StackInv
  <2>4. CASE UNCHANGED vars
    BY <2>4 DEF vars, dbVars, cmdVars, histVars, FakeInv, FakeFrame, depth, top
  <2> QED BY <2>1, <2>2, <2>3, <2>4, StepHasFrame DEF Next
<1>3. TypeInv /\ FakeInv /\ [Next]_vars =>
        [opt.fake /\ running =>
         /\ UNCHANGED <<entries, contents, reqby, preserved, indexVars>>
         /\ automatic \subseteq automatic'
         /\ ~(opt.automatic /\ (opt.replace \/ opt.replace_same)) => UNCHANGED automatic]_vars
  <2> SUFFICES ASSUME TypeInv, FakeInv, Next, opt.fake, running
               PROVE  /\ UNCHANGED <<entries, contents, reqby, preserved, indexVars>>
                      /\ automatic \subseteq automatic'
                      /\ ~(opt.automatic /\ (opt.replace \/ opt.replace_same))
                           => UNCHANGED automatic
    OBVIOUS
  <2>1. CASE Step /\ stack # <<>>
    BY <2>1, FakeStep DEF indexVars
  <2>2. CASE \/ NextArg \/ Finish \/ Crash
            \/ \E o \in Options : \E a \in Requests[o] : Invoke(o, a)
    BY <2>2 DEF NextArg, Finish, Crash, Invoke, dbVars, indexVars
  <2> QED BY <2>1, <2>2, StepHasFrame DEF Next
<1> QED BY <1>1, <1>2, <1>3, TypeInit, TypeStep, PTL DEF Spec, FakeChangesNothing

-----------------------------------------------------------------------------
(* The file index.                                                         *)

\* The index w does not name p, unless p is in u.
Unowned(p, w, u) == \A f \in File : w[f] = p => p \in u

\* Places at which none of the package's files is in the index.
Unextracted == {"other", "conflict", "mkdir", "write", "move", "moverest", "delete",
                "rename", "deps", "again", "missing", "pre", "extract", "nukedb"}

\* Places at which -U may be working in p.xxxxxx.
Staged == {"other", "conflict", "mkdir", "write", "move", "moverest", "delete",
           "rename", "nukedb"}

\* Places past write_meta_data.
Written(t) ==
    \/ t.at \in {"pre", "extract", "post", "register", "nukepkg"}
    \/ t.at \in {"deps", "again", "missing"} /\ t.other # NoPkg

\* What a frame knows of its directory, for options o, and where c, e, k, w
\* and u are contents, entries, preserved, owner and undone.
FrameInv(t, o, c, e, k, w, u) ==
    /\ t.at # "find" =>
         /\ t.pkg \in Repo /\ t.todo \subseteq Deps[t.pkg]
         /\ t.other # NoPkg => t.other \in Match[Base[t.pkg]] \cup {t.pkg}
         /\ t.dir = NoPkg => o.no_record
    /\ t.at = "find" => t.dir = NoPkg
    /\ t.at \in {"find", "already"} => t.other = NoPkg
    /\ t.dir \notin {NoPkg, t.pkg} =>
         t.at \in Staged /\ t.dir = Temp[t.pkg] /\ t.other = t.pkg
    /\ ~o.fake /\ t.dir # NoPkg =>
         /\ t.at \in Unextracted => Unowned(t.dir, w, u)
         /\ t.at \in {"move", "moverest", "delete"} => t.dir \in c
         /\ t.at = "rename" => t.dir \in c \cup ({t.pkg} \cap u)
         /\ Written(t) => t.pkg \in c \cup u
    /\ ~o.fake /\ t.dir \notin {NoPkg, t.pkg} =>
         /\ t.at \in {"other", "conflict", "mkdir", "write", "move", "moverest", "delete"}
              => t.pkg \in c
         /\ t.at = "delete" => t.pkg \notin k
         /\ t.at = "rename" => t.pkg \notin e

\* Nested frames are of lower levels.
LevelInv(Level) ==
    /\ \A i \in 2..depth : stack[i].arg \in Deps[stack[i - 1].pkg]
    /\ \A i, j \in 1..depth : i < j /\ stack[j].at # "find"
          => Level[stack[j].pkg] < Level[stack[i].pkg]

\* An entry of the index is of a package that has the file, and that has a
\* +CONTENTS or was deleted by its own update.
IndexInv ==
    /\ \A f \in File : owner[f] # NoPkg => f \in Contents[owner[f]]
    /\ \A p \in Pkg : p \in contents \/ Unowned(p, owner, undone)

FramesInv ==
    /\ running => opt \in Options
    /\ \A i \in 1..depth :
          FrameInv(stack[i], opt, contents, entries, preserved, owner, undone)
    /\ stack # <<>> /\ top.at = "extract" => files \subseteq Contents[top.pkg]

OwnersInv(Level) == IndexInv /\ FramesInv /\ LevelInv(Level)

\* Frames below the top keep what they know, when only packages of the level of
\* the top frame's lose their +CONTENTS or gain files.
LEMMA LowerKeeps ==
    ASSUME NEW Level, Layered(Level), TypeInv, OwnersInv(Level), stack # <<>>,
           top.at # "find", undone \subseteq undone',
           \A q \in Pkg : Level[q] # Level[top.pkg] =>
              /\ q \in contents => q \in contents'
              /\ \A f \in File : owner'[f] = q => owner[f] = q,
           NEW i \in 1..(depth - 1)
    PROVE  FrameInv(stack[i], opt, contents', entries', preserved', owner', undone')
<1> DEFINE t == stack[i]
<1>1. depth \in Nat /\ i \in 1..depth /\ depth \in 1..depth /\ i < depth
  BY TopIsFrame
<1>2. FrameOK(t) /\ Suspended(t) /\ t.at = "deps" /\ t.pkg \in Pkg
  BY <1>1 DEF TypeInv, StackInv, FrameOK, Suspended
<1>3. FrameInv(t, opt, contents, entries, preserved, owner, undone)
  BY <1>1 DEF OwnersInv, FramesInv
<1>4. Level[t.pkg] # Level[top.pkg]
  <2>1. Level[top.pkg] < Level[t.pkg]
    BY <1>1 DEF OwnersInv, LevelInv, top
  <2>2. top.pkg \in Pkg
    BY TopIsFrame DEF FrameOK
  <2> QED BY <1>2, <2>1, <2>2 DEF Layered
<1>5. /\ t.pkg \in contents => t.pkg \in contents'
      /\ \A f \in File : owner'[f] = t.pkg => owner[f] = t.pkg
  BY <1>2, <1>4
<1>6. t.dir \in {NoPkg, t.pkg}
  BY <1>2, <1>3 DEF FrameInv, Staged
<1> HIDE DEF t
<1>7. t.dir # NoPkg /\ Unowned(t.dir, owner, undone) => Unowned(t.dir, owner', undone')
  BY <1>5, <1>6 DEF Unowned
<1>8. FrameInv(t, opt, contents', entries', preserved', owner', undone')
  BY <1>2, <1>3, <1>5, <1>6, <1>7 DEF FrameInv, Unextracted, Staged, Written
<1> QED BY <1>8 DEF t

\* What is left to show of a step that replaces the top frame.
LEMMA MovedOwners ==
    ASSUME NEW Level, Layered(Level), TypeInv, OwnersInv(Level), stack # <<>>,
           top.at # "find", undone \subseteq undone',
           \A q \in Pkg : Level[q] # Level[top.pkg] =>
              /\ q \in contents => q \in contents'
              /\ \A f \in File : owner'[f] = q => owner[f] = q,
           opt' = opt, running' = running, IndexInv',
           NEW t, Moved(t), t.arg = top.arg, t.pkg = top.pkg, t.at # "find",
           FrameInv(t, opt, contents', entries', preserved', owner', undone'),
           t.at = "extract" => files' \subseteq Contents[t.pkg]
    PROVE  OwnersInv(Level)'
<1>1. depth \in Nat \ {0} /\ depth' = depth /\ top' = t /\ stack' # <<>>
  BY TopIsFrame DEF Moved
<1>2. /\ stack'[depth] = t /\ stack[depth] = top
      /\ \A i \in 1..(depth - 1) : stack'[i] = stack[i]
  BY <1>1 DEF Moved, top
<1>3. \A i \in 1..depth :
         FrameInv(stack'[i], opt, contents', entries', preserved', owner', undone')
  <2> TAKE i \in 1..depth
  <2>1. CASE i = depth
    BY <1>2, <2>1
  <2>2. CASE i # depth
    <3>1. i \in 1..(depth - 1)
      BY <1>1, <2>2
    <3> QED BY <1>2, <3>1, LowerKeeps
  <2> QED BY <2>1, <2>2
<1>4. FramesInv'
  BY <1>1, <1>3 DEF OwnersInv, FramesInv
<1>5. \A i \in 1..depth : stack'[i].arg = stack[i].arg /\ stack'[i].pkg = stack[i].pkg
  <2> TAKE i \in 1..depth
  <2>1. i = depth \/ i \in 1..(depth - 1)
    BY <1>1
  <2> QED BY <1>2, <2>1
<1>6. \A i \in 1..depth : stack'[i].at # "find" => stack[i].at # "find"
  <2> TAKE i \in 1..depth
  <2>1. i = depth \/ i \in 1..(depth - 1)
    BY <1>1
  <2> QED BY <1>2, <2>1
<1>7. LevelInv(Level)'
  BY <1>1, <1>5, <1>6 DEF OwnersInv, LevelInv
<1> QED BY <1>4, <1>7 DEF OwnersInv

\* What is left to show of one that returns.
LEMMA PoppedOwners ==
    ASSUME NEW Level, Layered(Level), TypeInv, OwnersInv(Level), stack # <<>>,
           undone \subseteq undone', opt' = opt, running' = running, IndexInv', Popped,
           \/ top.at # "find" /\ \A q \in Pkg : Level[q] # Level[top.pkg] =>
              /\ q \in contents => q \in contents'
              /\ \A f \in File : owner'[f] = q => owner[f] = q
           \/ UNCHANGED <<contents, entries, preserved, owner, undone>>
    PROVE  OwnersInv(Level)'
<1>1. depth \in Nat \ {0}
  BY TopIsFrame
<1>2. CASE stack' = <<>>
  <2>1. depth' = 0
    BY <1>2, EmptySeq DEF depth
  <2> QED BY <1>2, <2>1 DEF OwnersInv, FramesInv, LevelInv
<1>3. CASE stack' # <<>>
  <2>1. /\ depth > 1 /\ depth' = depth - 1
        /\ \A i \in 1..(depth - 2) : stack'[i] = stack[i]
    BY <1>3 DEF Popped
  <2>2. PICK l \in {"again", "missing"} : top' = [stack[depth - 1] EXCEPT !.at = l]
    BY <1>3 DEF Popped
  <2>3. stack[depth - 1] \in Frame /\ stack[depth - 1].at = "deps"
    BY <1>1, <2>1 DEF TypeInv, StackInv, FrameOK, Suspended
  <2> DEFINE s == stack[depth - 1]
             t == [s EXCEPT !.at = l]
  <2>4. /\ t.at = l /\ t.arg = s.arg /\ t.pkg = s.pkg /\ t.other = s.other
        /\ t.dir = s.dir /\ t.todo = s.todo
    BY <2>3 DEF Frame
  <2>5. stack'[depth - 1] = t
    BY <2>1, <2>2 DEF top
  <2>6. \A i \in 1..(depth - 1) :
           FrameInv(stack[i], opt, contents', entries', preserved', owner', undone')
    <3>1. CASE UNCHANGED <<contents, entries, preserved, owner, undone>>
      BY <1>1, <3>1 DEF OwnersInv, FramesInv
    <3> QED BY <3>1, LowerKeeps
  <2>7. depth - 1 \in 1..(depth - 1)
    BY <1>1, <2>1
  <2>8. FrameInv(s, opt, contents', entries', preserved', owner', undone')
    BY <2>6, <2>7
  <2> HIDE DEF t, s
  <2>9. FrameInv(t, opt, contents', entries', preserved', owner', undone')
    <3>1. s.at = "deps"
      BY <2>3 DEF s
    <3> QED BY <2>4, <2>8, <3>1 DEF FrameInv, Unextracted, Staged, Written
  <2>10. \A i \in 1..(depth - 1) :
           FrameInv(stack'[i], opt, contents', entries', preserved', owner', undone')
    <3> TAKE i \in 1..(depth - 1)
    <3>1. i = depth - 1 \/ i \in 1..(depth - 2)
      BY <1>1
    <3>2. i \in 1..(depth - 2) => stack'[i] = stack[i]
      BY <2>1
    <3> QED BY <2>5, <2>6, <2>9, <3>1, <3>2
  <2>11. top'.at # "extract"
    BY <2>2, <2>4 DEF t, s
  <2>12. FramesInv'
    BY <2>1, <2>10, <2>11 DEF OwnersInv, FramesInv
  <2>13. \A i \in 1..(depth - 1) : stack'[i].arg = stack[i].arg /\ stack'[i].pkg = stack[i].pkg
    <3> TAKE i \in 1..(depth - 1)
    <3>1. i = depth - 1 \/ i \in 1..(depth - 2)
      BY <1>1
    <3>2. CASE i = depth - 1
      BY <2>4, <2>5, <3>2 DEF s
    <3> QED BY <2>1, <3>1, <3>2
  <2>14. \A i \in 1..(depth - 1) : stack'[i].at # "find" => stack[i].at # "find"
    <3> TAKE i \in 1..(depth - 1)
    <3>1. i = depth - 1 \/ i \in 1..(depth - 2)
      BY <1>1
    <3>2. CASE i = depth - 1
      BY <2>3, <3>2
    <3> QED BY <2>1, <3>1, <3>2
  <2>15. LevelInv(Level)'
    <3>1. \A i \in 2..depth' : i \in 1..(depth - 1) /\ i - 1 \in 1..(depth - 1) /\ i \in 2..depth
      BY <1>1, <2>1
    <3>2. \A i \in 1..depth' : i \in 1..(depth - 1) /\ i \in 1..depth
      BY <1>1, <2>1
    <3>3. \A i \in 2..depth' : stack'[i].arg \in Deps[stack'[i - 1].pkg]
      BY <2>13, <3>1 DEF OwnersInv, LevelInv
    <3>4. \A i, j \in 1..depth' : i < j /\ stack'[j].at # "find"
             => Level[stack'[j].pkg] < Level[stack'[i].pkg]
      BY <2>13, <2>14, <3>2 DEF OwnersInv, LevelInv
    <3> QED BY <3>3, <3>4 DEF LevelInv
  <2> QED BY <2>12, <2>15 DEF OwnersInv
<1> QED BY <1>2, <1>3

\* The top frame's part of the condition.
LEMMA TopOwners ==
    ASSUME NEW Level, TypeInv, OwnersInv(Level), stack # <<>>
    PROVE  /\ FrameInv(top, opt, contents, entries, preserved, owner, undone)
           /\ running /\ opt \in Options
BY TopIsFrame DEF OwnersInv, FramesInv, TypeInv, StackInv, top

\* t is the top frame at l.
TopAt(t, l) ==
    /\ t \in Frame /\ t.at = l
    /\ t.arg = top.arg /\ t.mark = top.mark /\ t.pkg = top.pkg /\ t.other = top.other
    /\ t.dir = top.dir /\ t.todo = top.todo /\ t.dep = top.dep

\* A change of place.
LEMMA GotoOwners ==
    ASSUME NEW Level, Layered(Level), TypeInv, OwnersInv(Level), stack # <<>>,
           top.at # "find", undone \subseteq undone',
           \A q \in Pkg : Level[q] # Level[top.pkg] =>
              /\ q \in contents => q \in contents'
              /\ \A f \in File : owner'[f] = q => owner[f] = q,
           opt' = opt, running' = running, IndexInv',
           NEW l \in Locations \ {"find", "again", "missing"}, Goto(l),
           l \in {"move", "moverest", "delete", "rename"} => top.other \in Pkg,
           \A t : TopAt(t, l)
              => FrameInv(t, opt, contents', entries', preserved', owner', undone'),
           l = "extract" => files' \subseteq Contents[top.pkg]
    PROVE  OwnersInv(Level)'
<1> DEFINE t == [top EXCEPT !.at = l]
<1>1. Moved(t)
  BY GotoKeeps
<1>2. TopAt(t, l)
  BY TopIsFrame DEF Frame, TopAt
<1> HIDE DEF t
<1>3. /\ FrameInv(t, opt, contents', entries', preserved', owner', undone')
      /\ t.at = l /\ t.arg = top.arg /\ t.pkg = top.pkg
  BY <1>2 DEF TopAt
<1> QED BY <1>1, <1>3, MovedOwners

\* A new top frame and the same database.
LEMMA StillOwners ==
    ASSUME NEW Level, Layered(Level), TypeInv, OwnersInv(Level), stack # <<>>,
           top.at # "find", UNCHANGED <<contents, entries, preserved, owner, undone>>,
           opt' = opt, running' = running,
           NEW t, FrameOK(t), stack' = [stack EXCEPT ![depth] = t],
           t.arg = top.arg, t.pkg = top.pkg, t.at \notin {"find", "extract"},
           FrameInv(t, opt, contents, entries, preserved, owner, undone)
    PROVE  OwnersInv(Level)'
<1>1. Moved(t)
  BY MovedKeeps
<1>2. IndexInv'
  BY DEF OwnersInv, IndexInv, Unowned
<1>3. FrameInv(t, opt, contents', entries', preserved', owner', undone')
  OBVIOUS
<1> QED BY <1>1, <1>2, <1>3, MovedOwners

\* A return and the same index.
LEMMA ReturnOwners ==
    ASSUME NEW Level, Layered(Level), TypeInv, OwnersInv(Level), stack # <<>>,
           UNCHANGED <<contents, owner, undone, opt, running>>,
           UNCHANGED <<entries, preserved>> \/ top.at # "find",
           NEW ok \in BOOLEAN, Return(ok)
    PROVE  OwnersInv(Level)'
<1>1. Popped
  BY ReturnKeeps
<1>2. IndexInv'
  BY DEF OwnersInv, IndexInv, Unowned
<1> QED BY <1>1, <1>2, PoppedOwners

\* An archive that is opened is of a lower level than the packages it is
\* installed for.
LEMMA OpenOwners ==
    ASSUME NEW Level, Layered(Level), TypeInv, OwnersInv(Level), stack # <<>>, OpenArchive
    PROVE  OwnersInv(Level)'
<1>1. /\ FrameInv(top, opt, contents, entries, preserved, owner, undone)
      /\ depth \in Nat \ {0} /\ FrameOK(top) /\ top \in Frame
  BY TopOwners, TopIsFrame
<1>2. /\ UNCHANGED <<contents, entries, preserved, owner, undone, opt, running>>
      /\ top.at = "find"
  BY DEF OpenArchive, At, dbVars, cmdVars, histVars
<1>3. CASE Return(FALSE)
  BY <1>2, <1>3, ReturnOwners
<1>4. CASE ~Return(FALSE)
  <2>1. PICK p \in Candidates(top.arg) :
             stack' = [stack EXCEPT
                    ![depth].at = "already", ![depth].pkg = p,
                    ![depth].dir = IF opt.no_record /\ ~opt.fake THEN NoPkg ELSE p,
                    ![depth].todo = Deps[p]]
    BY <1>4 DEF OpenArchive
  <2> DEFINE t == Opened(p)
  <2>2. stack' = [stack EXCEPT ![depth] = t]
    BY <2>1 DEF top, Opened
  <2>3. p \in Pkg /\ p \in Repo /\ Deps[p] \subseteq Pattern
    BY <1>1, CandidatesType, DepsAssumption DEF Frame
  <2>4. /\ t \in Frame /\ t.at = "already" /\ t.arg = top.arg /\ t.pkg = p
        /\ t.other = top.other /\ t.dir \in {NoPkg, p} /\ t.todo = Deps[p]
    BY <1>1, <2>3, OpenedFrame
  <2>5. t.dir = NoPkg => opt.no_record
    BY <1>1, <2>3, OpenedFrame, NoPkgAssumption DEF Frame
  <2> HIDE DEF t
  <2>6. FrameOK(t)
    BY <1>1, <2>3, <2>4 DEF FrameOK
  <2>7. Moved(t)
    BY <1>2, <2>2, <2>6, MovedKeeps
  <2>8. FrameInv(t, opt, contents, entries, preserved, owner, undone)
    BY <1>1, <1>2, <2>3, <2>4, <2>5 DEF FrameInv, Unextracted, Written
  <2>9. /\ depth' = depth /\ stack' # <<>> /\ top' = t /\ stack'[depth] = t
        /\ \A i \in 1..(depth - 1) : stack'[i] = stack[i]
    BY <2>7 DEF Moved, top
  <2>10. FramesInv'
    <3>1. \A i \in 1..depth :
             FrameInv(stack'[i], opt, contents, entries, preserved, owner, undone)
      <4> TAKE i \in 1..depth
      <4>1. i = depth \/ i \in 1..(depth - 1)
        BY <1>1
      <4> QED BY <2>8, <2>9, <4>1 DEF OwnersInv, FramesInv
    <3> QED BY <1>2, <2>4, <2>9, <3>1 DEF OwnersInv, FramesInv
  <2>11. IndexInv'
    BY <1>2 DEF OwnersInv, IndexInv, Unowned
  <2>12. \A i \in 1..(depth - 1) : Level[p] < Level[stack[i].pkg]
    <3> TAKE i \in 1..(depth - 1)
    <3> DEFINE s == stack[depth - 1]
    <3>1. /\ depth \in 2..depth /\ depth - 1 \in 1..(depth - 1) /\ depth - 1 \in 1..depth
          /\ i \in 1..depth
      BY <1>1
    <3>2. s.pkg \in Pkg /\ stack[i].pkg \in Pkg /\ s.at = "deps"
      BY <3>1 DEF TypeInv, StackInv, FrameOK, Suspended
    <3>3. top.arg \in Deps[s.pkg]
      BY <3>1 DEF OwnersInv, LevelInv, top
    <3>4. top.arg \in Pattern /\ top.arg \notin Pkg
      BY <3>2, <3>3, DepsAssumption DEF Layered
    <3>5. p \in Match[top.arg]
      BY <2>1, <3>4 DEF Candidates, Best
    <3>6. Level[p] < Level[s.pkg]
      BY <3>2, <3>3, <3>5 DEF Layered
    <3>7. i < depth - 1 => Level[s.pkg] < Level[stack[i].pkg]
      BY <3>1, <3>2 DEF OwnersInv, LevelInv
    <3>8. Level[p] \in Nat /\ Level[s.pkg] \in Nat /\ Level[stack[i].pkg] \in Nat
      BY <2>3, <3>2 DEF Layered
    <3>9. i = depth - 1 => Level[stack[i].pkg] = Level[s.pkg]
      OBVIOUS
    <3> HIDE DEF s
    <3>10. i = depth - 1 \/ i < depth - 1
      BY <1>1
    <3> QED BY <3>6, <3>7, <3>8, <3>9, <3>10
  <2>13. \A i \in 1..depth : stack'[i].arg = stack[i].arg
    <3> TAKE i \in 1..depth
    <3>1. i = depth \/ i \in 1..(depth - 1)
      BY <1>1
    <3> QED BY <2>4, <2>9, <3>1 DEF top
  <2>14. \A i \in 2..depth : stack'[i].arg \in Deps[stack'[i - 1].pkg]
    <3>1. \A i \in 2..depth : i - 1 \in 1..(depth - 1) /\ i \in 1..depth
      BY <1>1
    <3> QED BY <2>9, <2>13, <3>1 DEF OwnersInv, LevelInv
  <2>15. \A i, j \in 1..depth : i < j /\ stack'[j].at # "find"
            => Level[stack'[j].pkg] < Level[stack'[i].pkg]
    <3> SUFFICES ASSUME NEW i \in 1..depth, NEW j \in 1..depth, i < j, stack'[j].at # "find"
                 PROVE  Level[stack'[j].pkg] < Level[stack'[i].pkg]
      OBVIOUS
    <3>1. i \in 1..(depth - 1) /\ (j = depth \/ j \in 1..(depth - 1))
      BY <1>1
    <3>2. stack'[i] = stack[i]
      BY <2>9, <3>1
    <3>3. CASE j = depth
      BY <2>4, <2>9, <2>12, <3>1, <3>2, <3>3
    <3>4. CASE j \in 1..(depth - 1)
      <4>1. stack'[j] = stack[j]
        BY <2>9, <3>4
      <4> QED BY <3>2, <4>1 DEF OwnersInv, LevelInv
    <3> QED BY <3>1, <3>3, <3>4
  <2>16. LevelInv(Level)'
    BY <2>9, <2>14, <2>15 DEF LevelInv
  <2> QED BY <2>10, <2>11, <2>16 DEF OwnersInv
<1> QED BY <1>3, <1>4

\* The other checks: a package without +CONTENTS has no entries in the index.
LEMMA CheckOwners ==
    ASSUME NEW Level, Layered(Level), TypeInv, OwnersInv(Level), stack # <<>>,
           CheckAlreadyInstalled \/ CheckOtherInstalled \/ CheckConflicts
    PROVE  OwnersInv(Level)'
<1>1. /\ FrameInv(top, opt, contents, entries, preserved, owner, undone)
      /\ FrameOK(top) /\ top \in Frame
  BY TopOwners, TopIsFrame
<1>2. UNCHANGED <<contents, entries, preserved, owner, undone, opt, running>>
  BY DEF CheckAlreadyInstalled, CheckOtherInstalled, CheckConflicts, dbVars, cmdVars,
         histVars, indexVars
<1>3. top.at \in {"already", "other", "conflict"} /\ top.pkg \in Pkg /\ top.pkg \in Repo
  BY <1>1 DEF CheckAlreadyInstalled, CheckOtherInstalled, CheckConflicts, At, FrameOK, FrameInv
<1>4. ASSUME NEW ok \in BOOLEAN, Return(ok) PROVE OwnersInv(Level)'
  BY <1>2, <1>4, ReturnOwners
<1>5. IndexInv'
  BY <1>2 DEF OwnersInv, IndexInv, Unowned
<1>6. CASE CheckAlreadyInstalled
  <2>1. top.at = "already" /\ top.other = NoPkg /\ top.dir \in {NoPkg, top.pkg}
    BY <1>1, <1>6 DEF CheckAlreadyInstalled, At, FrameInv, Staged
  <2>2. CASE top.pkg \notin contents /\ Goto("other")
    <3>1. Unowned(top.pkg, owner, undone)
      BY <1>3, <2>2 DEF OwnersInv, IndexInv
    <3>2. \A t : TopAt(t, "other")
            => FrameInv(t, opt, contents, entries, preserved, owner, undone)
      BY <1>1, <1>3, <2>1, <3>1 DEF TopAt, FrameInv, Unextracted, Written
    <3> QED BY <1>2, <1>3, <1>5, <2>2, <3>2, GotoOwners DEF Locations
  <2>3. CASE /\ top.pkg \in contents
             /\ ~(top.dir # NoPkg /\ Temp[top.pkg] \in entries)
             /\ stack' = [stack EXCEPT
                    ![depth].at = "other", ![depth].other = top.pkg,
                    ![depth].dir = IF @ = NoPkg THEN NoPkg ELSE Temp[top.pkg]]
    <3> DEFINE t == Replacing
    <3>1. stack' = [stack EXCEPT ![depth] = t]
      BY <2>3 DEF top, Replacing
    <3>2. /\ t \in Frame /\ t.at = "other" /\ t.arg = top.arg /\ t.pkg = top.pkg
          /\ t.other = top.pkg /\ t.todo = top.todo
          /\ t.dir = IF top.dir = NoPkg THEN NoPkg ELSE Temp[top.pkg]
      BY <1>1, <1>3, ReplacingFrame
    <3> HIDE DEF t
    <3>3. FrameOK(t)
      BY <1>3, <3>2 DEF FrameOK
    <3>4. /\ Temp[top.pkg] \in Pkg /\ Temp[top.pkg] # NoPkg
          /\ contents \subseteq entries
          /\ top.dir # NoPkg => Temp[top.pkg] # top.pkg
      BY <1>3, <2>3, TempAssumption, NoPkgAssumption DEF TypeInv, DataOK, DBTypeOK
    <3>5. t.dir # NoPkg => Unowned(t.dir, owner, undone)
      BY <2>3, <3>2, <3>4 DEF OwnersInv, IndexInv
    <3>6. FrameInv(t, opt, contents, entries, preserved, owner, undone)
      BY <1>1, <1>3, <2>1, <2>3, <3>2, <3>4, <3>5 DEF FrameInv, Unextracted, Staged, Written
    <3> QED BY <1>2, <1>3, <3>1, <3>2, <3>3, <3>6, StillOwners
  <2> QED BY <1>4, <1>6, <2>2, <2>3 DEF CheckAlreadyInstalled
<1>7. CASE CheckOtherInstalled
  <2>1. top.at = "other"
    BY <1>7 DEF CheckOtherInstalled, At
  <2>2. CASE Goto("conflict")
    <3>1. \A t : TopAt(t, "conflict")
            => FrameInv(t, opt, contents, entries, preserved, owner, undone)
      BY <1>1, <2>1 DEF TopAt, FrameInv, Unextracted, Staged, Written
    <3> QED BY <1>2, <1>3, <1>5, <2>2, <3>1, GotoOwners DEF Locations
  <2>3. CASE top.other = NoPkg /\ \E o \in OtherVersion(top.pkg) :
               stack' = [stack EXCEPT ![depth].at = "conflict", ![depth].other = o]
    <3>1. PICK o \in OtherVersion(top.pkg) :
             stack' = [stack EXCEPT ![depth].at = "conflict", ![depth].other = o]
      BY <2>3
    <3>2. o \in Pkg /\ o \in Match[Base[top.pkg]]
      BY <1>3, <3>1, MatchAssumption, BaseAssumption DEF OtherVersion, Best, Installed
    <3> DEFINE t == [top EXCEPT !.at = "conflict", !.other = o]
    <3>3. stack' = [stack EXCEPT ![depth] = t]
      BY <3>1 DEF top
    <3>4. /\ t \in Frame /\ t.at = "conflict" /\ t.arg = top.arg /\ t.pkg = top.pkg
          /\ t.other = o /\ t.todo = top.todo /\ t.dir = top.dir
      BY <1>1, <3>2 DEF Frame, Locations
    <3> HIDE DEF t
    <3>5. FrameOK(t)
      BY <1>3, <3>4 DEF FrameOK
    <3>6. top.dir \in {NoPkg, top.pkg}
      BY <1>1, <1>3, <2>3, NoPkgAssumption DEF FrameInv
    <3>7. FrameInv(t, opt, contents, entries, preserved, owner, undone)
      BY <1>1, <1>3, <2>1, <3>2, <3>4, <3>6 DEF FrameInv, Unextracted, Written
    <3> QED BY <1>2, <1>3, <3>3, <3>4, <3>5, <3>7, StillOwners
  <2> QED BY <1>4, <1>7, <2>2, <2>3 DEF CheckOtherInstalled
<1>8. CASE CheckConflicts
  <2>1. top.at = "conflict"
    BY <1>8 DEF CheckConflicts, At
  <2>2. CASE stack' = <<>>
    <3>1. depth' = 0
      BY <2>2, EmptySeq DEF depth
    <3> QED BY <1>2, <1>5, <2>2, <3>1 DEF OwnersInv, FramesInv, LevelInv
  <2>3. CASE Goto("mkdir")
    <3>1. \A t : TopAt(t, "mkdir")
            => FrameInv(t, opt, contents, entries, preserved, owner, undone)
      BY <1>1, <2>1 DEF TopAt, FrameInv, Unextracted, Staged, Written
    <3> QED BY <1>2, <1>3, <1>5, <2>3, <3>1, GotoOwners DEF Locations
  <2>4. CASE top.other = NoPkg /\ Goto("deps")
    <3>1. top.dir \in {NoPkg, top.pkg}
      BY <1>1, <1>3, <2>4, NoPkgAssumption DEF FrameInv
    <3>2. \A t : TopAt(t, "deps")
            => FrameInv(t, opt, contents, entries, preserved, owner, undone)
      BY <1>1, <2>1, <2>4, <3>1 DEF TopAt, FrameInv, Unextracted, Staged, Written
    <3> QED BY <1>2, <1>3, <1>5, <2>4, <3>2, GotoOwners DEF Locations
  <2> QED BY <1>4, <1>8, <2>2, <2>3, <2>4 DEF CheckConflicts
<1> QED BY <1>6, <1>7, <1>8

\* write_meta_data and start_replacing before pkg_delete: the directory gets
\* its +CONTENTS before anything is removed.
LEMMA MetaOwners ==
    ASSUME NEW Level, Layered(Level), TypeInv, OwnersInv(Level), stack # <<>>,
           MakeDir \/ WriteMeta \/ MoveRequiredBy \/ MoveRest
    PROVE  OwnersInv(Level)'
<1>1. /\ FrameInv(top, opt, contents, entries, preserved, owner, undone)
      /\ FrameOK(top) /\ top \in Frame
  BY TopOwners, TopIsFrame
<1>2. UNCHANGED <<owner, undone, opt, running>> /\ contents \subseteq contents'
  BY DEF MakeDir, WriteMeta, MoveRequiredBy, MoveRest, cmdVars, histVars, indexVars
<1>3. /\ top.at \in {"mkdir", "write", "move", "moverest"}
      /\ top.pkg \in Pkg /\ top.pkg \in Repo
  BY <1>1 DEF MakeDir, WriteMeta, MoveRequiredBy, MoveRest, At, FrameOK, FrameInv
<1>4. IndexInv'
  BY <1>2 DEF OwnersInv, IndexInv, Unowned
<1>5. \A q \in Pkg : Level[q] # Level[top.pkg] =>
         /\ q \in contents => q \in contents'
         /\ \A f \in File : owner'[f] = q => owner[f] = q
  BY <1>2
<1>6. ASSUME NEW l \in {"write", "move", "moverest", "delete", "pre", "nukedb"}, Goto(l),
             l \in {"move", "moverest", "delete"} => top.other \in Pkg,
             \A t : TopAt(t, l)
                => FrameInv(t, opt, contents', entries', preserved', owner', undone')
      PROVE  OwnersInv(Level)'
  BY <1>2, <1>3, <1>4, <1>5, <1>6, GotoOwners DEF Locations
<1>7. CASE Goto("nukedb")
  <2>1. \A t : TopAt(t, "nukedb")
           => FrameInv(t, opt, contents', entries', preserved', owner', undone')
    BY <1>1, <1>2, <1>3 DEF TopAt, FrameInv, Unextracted, Staged, Written
  <2> QED BY <1>6, <1>7, <2>1
<1>8. CASE MakeDir /\ Goto("write")
  <2>1. top.at = "mkdir" /\ UNCHANGED <<contents, preserved>>
    BY <1>8 DEF MakeDir, At
  <2>2. \A t : TopAt(t, "write")
           => FrameInv(t, opt, contents', entries', preserved', owner', undone')
    BY <1>1, <1>2, <2>1 DEF TopAt, FrameInv, Unextracted, Staged, Written
  <2> QED BY <1>6, <1>8, <2>2
<1>9. CASE WriteMeta /\ ~Goto("nukedb")
  <2>1. /\ top.at = "write"
        /\ contents' = IF Recording THEN contents \cup {top.dir} ELSE contents
        /\ Goto(IF top.other # NoPkg THEN "move" ELSE "pre")
    BY <1>9 DEF WriteMeta, At
  <2>2. ~opt.fake /\ top.dir # NoPkg => top.dir \in contents'
    BY <2>1 DEF Recording
  <2>3. CASE top.other # NoPkg
    <3>1. \A t : TopAt(t, "move")
             => FrameInv(t, opt, contents', entries', preserved', owner', undone')
      BY <1>1, <1>2, <2>1, <2>2 DEF TopAt, FrameInv, Unextracted, Staged, Written
    <3>2. Goto("move") /\ top.other \in Pkg
      BY <1>1, <2>1, <2>3 DEF Frame
    <3> QED BY <1>6, <3>1, <3>2
  <2>4. CASE top.other = NoPkg
    <3>1. top.dir \in {NoPkg, top.pkg}
      BY <1>1, <1>3, <2>4, NoPkgAssumption DEF FrameInv
    <3>2. \A t : TopAt(t, "pre")
             => FrameInv(t, opt, contents', entries', preserved', owner', undone')
      BY <1>1, <1>2, <2>1, <2>2, <3>1 DEF TopAt, FrameInv, Unextracted, Staged, Written
    <3>3. Goto("pre")
      BY <2>1, <2>4
    <3> QED BY <1>6, <3>2, <3>3
  <2> QED BY <2>3, <2>4
<1>10. CASE MoveRequiredBy /\ Goto("moverest")
  <2>1. top.at = "move" /\ UNCHANGED <<contents, entries, preserved>> /\ top.other \in Pkg
    BY <1>1, <1>10 DEF MoveRequiredBy, At, FrameOK
  <2>2. \A t : TopAt(t, "moverest")
           => FrameInv(t, opt, contents', entries', preserved', owner', undone')
    BY <1>1, <1>2, <2>1 DEF TopAt, FrameInv, Unextracted, Staged, Written
  <2> QED BY <1>6, <1>10, <2>1, <2>2
<1>11. CASE MoveRest /\ Goto("delete") /\ ~Goto("nukedb")
  <2>1. /\ top.at = "moverest" /\ UNCHANGED <<contents, entries>> /\ top.other \in Pkg
        /\ preserved' = IF opt.fake THEN preserved
                        ELSE MovedFlag(preserved, top.other, top.dir)
    BY <1>1, <1>11 DEF MoveRest, At, FrameOK
  <2>2. ~opt.fake /\ top.dir \notin {NoPkg, top.pkg} => top.pkg \notin preserved'
    BY <1>1, <1>3, <2>1 DEF FrameInv, MovedFlag
  <2>3. \A t : TopAt(t, "delete")
           => FrameInv(t, opt, contents', entries', preserved', owner', undone')
    BY <1>1, <1>2, <2>1, <2>2 DEF TopAt, FrameInv, Unextracted, Staged, Written
  <2> QED BY <1>6, <1>11, <2>1, <2>3
<1> QED BY <1>7, <1>8, <1>9, <1>10, <1>11
        DEF MakeDir, WriteMeta, MoveRequiredBy, MoveRest

\* pkg_delete of the old version, and the rename after it.
LEMMA UpdateOwners ==
    ASSUME NEW Level, Layered(Level), TypeInv, OwnersInv(Level), stack # <<>>,
           DeleteOld \/ RenameDir
    PROVE  OwnersInv(Level)'
<1>1. /\ FrameInv(top, opt, contents, entries, preserved, owner, undone)
      /\ FrameOK(top) /\ top \in Frame /\ opt \in Options
  BY TopOwners, TopIsFrame
<1>2. UNCHANGED <<opt, running>> /\ undone \subseteq undone'
  BY DEF DeleteOld, RenameDir, cmdVars, histVars, indexVars
<1>3. top.at \in {"delete", "rename"} /\ top.pkg \in Pkg /\ top.pkg \in Repo
  BY <1>1 DEF DeleteOld, RenameDir, At, FrameOK, FrameInv
<1>4. Temp[top.pkg] \in Pkg /\ Temp[top.pkg] # NoPkg
  BY <1>3, TempAssumption, NoPkgAssumption
<1>5. CASE DeleteOld
  <2>1. /\ top.at = "delete" /\ Goto("rename") /\ top.other \in Pkg
        /\ top.other \in Match[Base[top.pkg]] \cup {top.pkg}
    BY <1>1, <1>3, <1>5, NoPkgAssumption DEF DeleteOld, At, FrameOK, FrameInv
  <2>2. Level[top.other] = Level[top.pkg]
    BY <1>3, <2>1 DEF Layered
  <2>3. CASE /\ ~opt.fake /\ top.other \in contents /\ top.other \notin preserved
             /\ DeletePackage(top.other)
             /\ undone' = undone \cup ({top.other} \cap {top.dir})
    <3>1. /\ contents' = contents \ {top.other} /\ entries' = entries \ {top.other}
          /\ owner' = [f \in File |-> IF f \in Contents[top.other] THEN NoPkg ELSE owner[f]]
      BY <2>3 DEF DeletePackage, WithoutKeys
    <3>2. \A f \in File : owner'[f] # NoPkg => owner'[f] = owner[f] /\ f \notin Contents[top.other]
      BY <3>1
    <3>3. IndexInv'
      <4>1. \A f \in File : owner'[f] # NoPkg => f \in Contents[owner'[f]]
        BY <3>2 DEF OwnersInv, IndexInv
      <4>2. \A p \in Pkg : p \in contents' \/ Unowned(p, owner', undone')
        <5> TAKE p \in Pkg
        <5>1. p # NoPkg
          BY NoPkgAssumption
        <5>2. CASE p = top.other
          BY <3>2, <5>1, <5>2 DEF OwnersInv, IndexInv, Unowned
        <5>3. CASE p # top.other
          BY <1>2, <3>1, <3>2, <5>1, <5>3 DEF OwnersInv, IndexInv, Unowned
        <5> QED BY <5>2, <5>3
      <4> QED BY <4>1, <4>2 DEF IndexInv
    <3>4. \A q \in Pkg : Level[q] # Level[top.pkg] =>
             /\ q \in contents => q \in contents'
             /\ \A f \in File : owner'[f] = q => owner[f] = q
      BY <2>2, <3>1, <3>2, NoPkgAssumption
    <3>5. top.dir # NoPkg => Unowned(top.dir, owner', undone')
      BY <1>1, <1>2, <2>1, <2>3, <3>2 DEF FrameInv, Unextracted, Unowned
    <3>6. top.dir # NoPkg => top.dir \in contents' \cup ({top.pkg} \cap undone')
      <4>1. top.dir # NoPkg => top.dir \in contents
        BY <1>1, <2>1, <2>3 DEF FrameInv
      <4>2. top.dir = top.other => top.dir \in undone'
        BY <2>3
      <4>3. top.dir = top.other => top.dir \in {NoPkg, top.pkg}
        BY <1>1 DEF FrameInv
      <4> QED BY <3>1, <4>1, <4>2, <4>3
    <3>7. top.dir \notin {NoPkg, top.pkg} => top.pkg \notin entries'
      BY <1>1, <3>1 DEF FrameInv
    <3>8. \A t : TopAt(t, "rename")
             => FrameInv(t, opt, contents', entries', preserved', owner', undone')
      BY <1>1, <2>1, <3>5, <3>6, <3>7 DEF TopAt, FrameInv, Unextracted, Staged, Written
    <3> QED BY <1>2, <1>3, <2>1, <3>3, <3>4, <3>8, GotoOwners DEF Locations
  <2>4. CASE /\ UNCHANGED <<contents, entries, preserved, owner, undone>>
             /\ \/ opt.fake \/ top.other \notin contents \/ top.other \in preserved
                \/ reqby[top.other] # {} \/ MayFail("delete")
    <3>1. ~MayFail("delete")
      BY <1>1 DEF MayFail, Layered
    <3>2. opt.fake \/ top.dir \in {NoPkg, top.pkg}
      <4>1. opt.fake \/ top.dir = top.other \/ reqby[top.other] = {}
        BY <2>1 DEF TypeInv, DirInv
      <4> QED BY <1>1, <2>1, <2>4, <3>1, <4>1 DEF FrameInv
    <3>3. \A t : TopAt(t, "rename")
             => FrameInv(t, opt, contents, entries, preserved, owner, undone)
      BY <1>1, <2>1, <3>2 DEF TopAt, FrameInv, Unextracted, Staged, Written
    <3>4. IndexInv'
      BY <2>4 DEF OwnersInv, IndexInv, Unowned
    <3> QED BY <1>2, <1>3, <2>1, <2>4, <3>3, <3>4, GotoOwners DEF Locations
  <2> QED BY <1>5, <2>3, <2>4 DEF DeleteOld, Deletable, dbVars, histVars
<1>6. CASE RenameDir
  <2>1. /\ top.at = "rename" /\ UNCHANGED <<owner, undone>>
        /\ stack' = [stack EXCEPT ![depth].at = "deps",
                              ![depth].dir = IF @ = NoPkg THEN NoPkg ELSE top.pkg]
    BY <1>6 DEF RenameDir, At, indexVars, histVars
  <2> DEFINE t == [top EXCEPT !.at = "deps", !.dir = IF @ = NoPkg THEN NoPkg ELSE top.pkg]
  <2>2. stack' = [stack EXCEPT ![depth] = t]
    BY <2>1 DEF top
  <2>3. /\ t \in Frame /\ t.at = "deps" /\ t.arg = top.arg /\ t.pkg = top.pkg
        /\ t.other = top.other /\ t.todo = top.todo
        /\ t.dir = IF top.dir = NoPkg THEN NoPkg ELSE top.pkg
    BY <1>1, <1>3 DEF Frame, Locations
  <2> HIDE DEF t
  <2>4. FrameOK(t)
    BY <1>3, <2>3 DEF FrameOK
  <2>5. Moved(t)
    BY <1>2, <2>2, <2>4, MovedKeeps
  <2>6. ~opt.fake /\ top.dir # NoPkg =>
           Unowned(top.dir, owner, undone) /\ top.dir \in contents \cup ({top.pkg} \cap undone)
    BY <1>1, <2>1 DEF FrameInv, Unextracted
  <2>7. CASE /\ top.dir = Temp[top.pkg] /\ Temp[top.pkg] # top.pkg
             /\ top.pkg \notin entries /\ ~opt.fake
    <3>1. contents' = Renamed(contents, Temp[top.pkg], top.pkg)
      BY <1>4, <1>6, <2>7 DEF RenameDir
    <3>2. top.dir \in contents /\ top.pkg \in contents' /\ Unowned(Temp[top.pkg], owner, undone)
      BY <1>4, <2>6, <2>7, <3>1 DEF Renamed
    <3>3. \A q \in Pkg : q # Temp[top.pkg] /\ q \in contents => q \in contents'
      BY <3>1 DEF Renamed
    <3>4. IndexInv'
      BY <2>1, <3>2, <3>3 DEF OwnersInv, IndexInv, Unowned
    <3>5. \A q \in Pkg : Level[q] # Level[top.pkg] =>
             /\ q \in contents => q \in contents'
             /\ \A f \in File : owner'[f] = q => owner[f] = q
      BY <1>3, <2>1, <3>3 DEF Layered
    <3>6. Unowned(top.pkg, owner', undone')
      <4>1. top.pkg \notin contents
        BY <2>7 DEF TypeInv, DataOK, DBTypeOK
      <4> QED BY <1>3, <2>1, <4>1 DEF OwnersInv, IndexInv
    <3>7. FrameInv(t, opt, contents', entries', preserved', owner', undone')
      BY <1>1, <1>3, <1>4, <2>1, <2>3, <2>7, <3>2, <3>6, NoPkgAssumption
         DEF FrameInv, Unextracted, Staged, Written
    <3> QED BY <1>2, <1>3, <2>1, <2>3, <2>5, <3>4, <3>5, <3>7, MovedOwners
  <2>8. CASE ~(/\ top.dir = Temp[top.pkg] /\ Temp[top.pkg] # top.pkg
               /\ top.pkg \notin entries /\ ~opt.fake)
    <3>1. UNCHANGED <<contents, entries, preserved, owner, undone>>
      BY <1>4, <1>6, <2>1, <2>8 DEF RenameDir, treeVars
    <3>2. ~opt.fake => top.dir \in {NoPkg, top.pkg}
      BY <1>1, <2>1, <2>8 DEF FrameInv
    <3>3. ~opt.fake => t.dir = top.dir
      BY <2>3, <3>2
    <3>4. FrameInv(t, opt, contents, entries, preserved, owner, undone)
      BY <1>1, <1>3, <2>1, <2>3, <2>6, <3>2, <3>3, NoPkgAssumption
         DEF FrameInv, Unextracted, Staged, Written
    <3> QED BY <1>2, <1>3, <2>2, <2>3, <2>4, <3>1, <3>4, StillOwners
  <2> QED BY <2>7, <2>8
<1> QED BY <1>5, <1>6

\* A frame between its dependencies.
LEMMA DepFrameOwners ==
    ASSUME NEW Level, Layered(Level), TypeInv, OwnersInv(Level), stack # <<>>,
           top.at \in {"deps", "again", "missing"}, NEW t, t.at = "deps", t.arg = top.arg,
           t.pkg = top.pkg, t.other = top.other, t.dir = top.dir, t.todo \subseteq top.todo
    PROVE  FrameInv(t, opt, contents, entries, preserved, owner, undone)
<1>1. FrameInv(top, opt, contents, entries, preserved, owner, undone)
  BY TopOwners
<1> QED BY <1>1 DEF FrameInv, Unextracted, Staged, Written

\* check_dependencies fails.
LEMMA DependencyFailedOwners ==
    ASSUME NEW Level, Layered(Level), TypeInv, OwnersInv(Level), stack # <<>>,
           top.at \in {"deps", "again", "missing"}, DependencyFailed,
           UNCHANGED <<contents, entries, preserved, owner, undone, opt, running>>
    PROVE  OwnersInv(Level)'
<1>1. CASE Return(FALSE)
  BY <1>1, ReturnOwners
<1>2. CASE Goto("nukedb")
  <2>1. FrameInv(top, opt, contents, entries, preserved, owner, undone)
    BY TopOwners
  <2>2. \A t : TopAt(t, "nukedb")
          => FrameInv(t, opt, contents, entries, preserved, owner, undone)
    BY <2>1 DEF TopAt, FrameInv, Unextracted, Staged, Written
  <2>3. IndexInv'
    BY DEF OwnersInv, IndexInv, Unowned
  <2> QED BY <1>2, <2>2, <2>3, GotoOwners DEF Locations
<1> QED BY <1>1, <1>2 DEF DependencyFailed

\* check_dependencies: a nested pkg_do is for a pattern of the packing list.
LEMMA DepsOwners ==
    ASSUME NEW Level, Layered(Level), TypeInv, OwnersInv(Level), stack # <<>>,
           \/ \E pt \in Pattern : CheckDependency(pt)
           \/ DependencyInstalled \/ DependencyMissing \/ DependenciesDone
    PROVE  OwnersInv(Level)'
<1>1. /\ FrameInv(top, opt, contents, entries, preserved, owner, undone)
      /\ depth \in Nat \ {0} /\ FrameOK(top) /\ top \in Frame
  BY TopOwners, TopIsFrame
<1>2. UNCHANGED <<contents, entries, preserved, owner, undone, opt, running>>
  BY DEF CheckDependency, DependencyInstalled, DependencyMissing, DependenciesDone,
         dbVars, cmdVars, histVars
<1>3. top.at \in {"deps", "again", "missing"} /\ top.pkg \in Pkg /\ top.pkg \in Repo
  BY <1>1 DEF CheckDependency, DependencyInstalled, DependencyMissing, DependenciesDone, At,
              FrameOK, FrameInv
<1>4. IndexInv'
  BY <1>2 DEF OwnersInv, IndexInv, Unowned
<1>5. DependencyFailed => OwnersInv(Level)'
  BY <1>2, <1>3, DependencyFailedOwners
<1>6. ASSUME NEW t \in Frame, t.at = "deps", t.arg = top.arg, t.pkg = top.pkg,
             t.other = top.other, t.dir = top.dir, t.todo \subseteq top.todo,
             stack' = [stack EXCEPT ![depth] = t]
      PROVE  OwnersInv(Level)'
  <2>1. FrameOK(t)
    BY <1>3, <1>6 DEF FrameOK
  <2>2. FrameInv(t, opt, contents, entries, preserved, owner, undone)
    BY <1>3, <1>6, DepFrameOwners
  <2> QED BY <1>2, <1>3, <1>6, <2>1, <2>2, StillOwners
<1>7. ASSUME NEW pt \in Pattern, CheckDependency(pt) PROVE OwnersInv(Level)'
  <2>1. top.at = "deps" /\ pt \in top.todo
    BY <1>7 DEF CheckDependency, At
  <2>2. CASE \E d \in Best(Installed(pt)) :
           stack' = [stack EXCEPT ![depth].todo = top.todo \ {pt}, ![depth].deps = @ \cup {d}]
    <3>1. PICK d \in Best(Installed(pt)) :
           stack' = [stack EXCEPT ![depth].todo = top.todo \ {pt}, ![depth].deps = @ \cup {d}]
      BY <2>2
    <3>2. d \in Pkg
      BY MatchAssumption DEF Best, Installed
    <3> DEFINE t == [top EXCEPT !.todo = top.todo \ {pt}, !.deps = @ \cup {d}]
    <3>3. /\ t \in Frame /\ t.at = "deps" /\ t.arg = top.arg /\ t.pkg = top.pkg
          /\ t.other = top.other /\ t.dir = top.dir /\ t.todo \subseteq top.todo
      BY <1>1, <2>1, <3>2 DEF Frame
    <3>4. stack' = [stack EXCEPT ![depth] = t]
      BY <3>1 DEF top
    <3> QED BY <1>6, <3>3, <3>4
  <2>3. CASE stack' = [stack EXCEPT ![depth].todo = top.todo \ {pt}]
    <3> DEFINE t == [top EXCEPT !.todo = top.todo \ {pt}]
    <3>1. /\ t \in Frame /\ t.at = "deps" /\ t.arg = top.arg /\ t.pkg = top.pkg
          /\ t.other = top.other /\ t.dir = top.dir /\ t.todo \subseteq top.todo
      BY <1>1, <2>1 DEF Frame
    <3>2. stack' = [stack EXCEPT ![depth] = t]
      BY <2>3 DEF top
    <3> QED BY <1>6, <3>1, <3>2
  <2>4. CASE stack' = Append([stack EXCEPT ![depth].todo = top.todo \ {pt}, ![depth].dep = pt],
                             Push(pt, TRUE)[depth + 1])
    <3> DEFINE s == [top EXCEPT !.todo = top.todo \ {pt}, !.dep = pt]
               t == NewFrame(pt, TRUE)
    <3>1. /\ s \in Frame /\ s.at = "deps" /\ s.arg = top.arg /\ s.pkg = top.pkg
          /\ s.other = top.other /\ s.dir = top.dir /\ s.todo \subseteq top.todo /\ s.dep = pt
      BY <1>1, <2>1 DEF Frame
    <3>2. t.at = "find" /\ t.arg = pt /\ t.dir = NoPkg /\ t.other = NoPkg
      BY DEF NewFrame
    <3>3. stack' = Append([stack EXCEPT ![depth] = s], t)
      <4>1. Push(pt, TRUE)[depth + 1] = t
        BY <1>1, AppendFrame DEF Push, NewFrame, TypeInv, depth, Frame, Locations
      <4>2. [stack EXCEPT ![depth].todo = top.todo \ {pt}, ![depth].dep = pt]
              = [stack EXCEPT ![depth] = s]
        BY DEF top
      <4> QED BY <2>4, <4>1, <4>2
    <3> HIDE DEF s
    <3>4. FrameOK(s) /\ Suspended(s)
      BY <1>3, <3>1 DEF FrameOK, Suspended
    <3>5. Nested(s, t)
      BY <1>2, <3>3, <3>4, NestedKeeps
    <3> HIDE DEF t
    <3>6. /\ depth' = depth + 1 /\ stack' # <<>> /\ top' = t /\ stack'[depth + 1] = t
          /\ stack'[depth] = s /\ \A i \in 1..(depth - 1) : stack'[i] = stack[i]
      BY <3>5 DEF Nested, top
    <3>7. FrameInv(s, opt, contents, entries, preserved, owner, undone)
      BY <1>3, <3>1, DepFrameOwners
    <3>8. FrameInv(t, opt, contents, entries, preserved, owner, undone)
      BY <3>2 DEF FrameInv, Unextracted, Written
    <3>9. \A i \in 1..(depth + 1) : i = depth + 1 \/ i = depth \/ i \in 1..(depth - 1)
      BY <1>1
    <3>10. FramesInv'
      <4>1. \A i \in 1..(depth + 1) :
               FrameInv(stack'[i], opt, contents, entries, preserved, owner, undone)
        <5> TAKE i \in 1..(depth + 1)
        <5>1. i \in 1..(depth - 1) =>
                 FrameInv(stack[i], opt, contents, entries, preserved, owner, undone)
          BY <1>1 DEF OwnersInv, FramesInv
        <5> QED BY <3>6, <3>7, <3>8, <3>9, <5>1
      <4> QED BY <1>2, <3>2, <3>6, <4>1 DEF OwnersInv, FramesInv
    <3>11. \A i \in 1..depth : stack'[i].arg = stack[i].arg /\ stack'[i].pkg = stack[i].pkg
      <4> TAKE i \in 1..depth
      <4>1. i = depth \/ i \in 1..(depth - 1)
        BY <1>1
      <4> QED BY <3>1, <3>6, <4>1 DEF top
    <3>12. \A i \in 1..depth : stack'[i].at # "find" => stack[i].at # "find"
      <4> TAKE i \in 1..depth
      <4>1. i = depth \/ i \in 1..(depth - 1)
        BY <1>1
      <4> QED BY <2>1, <3>6, <4>1 DEF top
    <3>13. \A i \in 2..(depth + 1) : stack'[i].arg \in Deps[stack'[i - 1].pkg]
      <4> TAKE i \in 2..(depth + 1)
      <4>1. CASE i = depth + 1
        <5>1. i - 1 = depth
          BY <1>1, <4>1
        <5>2. pt \in Deps[top.pkg]
          BY <1>1, <2>1 DEF FrameInv
        <5> QED BY <3>1, <3>2, <3>6, <4>1, <5>1, <5>2
      <4>2. CASE i # depth + 1
        <5>1. i \in 2..depth /\ i \in 1..depth /\ i - 1 \in 1..depth
          BY <1>1, <4>2
        <5> QED BY <3>11, <5>1 DEF OwnersInv, LevelInv
      <4> QED BY <4>1, <4>2
    <3>14. \A i, j \in 1..(depth + 1) : i < j /\ stack'[j].at # "find"
             => Level[stack'[j].pkg] < Level[stack'[i].pkg]
      <4> SUFFICES ASSUME NEW i \in 1..(depth + 1), NEW j \in 1..(depth + 1), i < j,
                          stack'[j].at # "find"
                   PROVE  Level[stack'[j].pkg] < Level[stack'[i].pkg]
        OBVIOUS
      <4>1. j # depth + 1
        BY <3>2, <3>6
      <4>2. i \in 1..depth /\ j \in 1..depth
        BY <1>1, <4>1
      <4>3. stack[j].at # "find"
        BY <3>12, <4>2
      <4>4. stack'[i].pkg = stack[i].pkg /\ stack'[j].pkg = stack[j].pkg
        BY <3>11, <4>2
      <4> QED BY <4>2, <4>3, <4>4 DEF OwnersInv, LevelInv
    <3>15. LevelInv(Level)'
      BY <3>6, <3>13, <3>14 DEF LevelInv
    <3> QED BY <1>4, <3>10, <3>15 DEF OwnersInv
  <2> QED BY <1>5, <1>7, <2>2, <2>3, <2>4 DEF CheckDependency
<1>8. CASE DependencyInstalled \/ DependencyMissing
  <2>1. top.at \in {"again", "missing"} /\ top.dep \in Pattern
    BY <1>1, <1>8 DEF DependencyInstalled, DependencyMissing, At, FrameOK
  <2>2. CASE \E d \in Best(Installed(top.dep)) :
           stack' = [stack EXCEPT ![depth].at = "deps", ![depth].dep = NoPkg,
                                  ![depth].deps = @ \cup {d}]
    <3>1. PICK d \in Best(Installed(top.dep)) :
           stack' = [stack EXCEPT ![depth].at = "deps", ![depth].dep = NoPkg,
                                  ![depth].deps = @ \cup {d}]
      BY <2>2
    <3>2. d \in Pkg
      BY <2>1, MatchAssumption DEF Best, Installed
    <3> DEFINE t == [top EXCEPT !.at = "deps", !.dep = NoPkg, !.deps = @ \cup {d}]
    <3>3. /\ t \in Frame /\ t.at = "deps" /\ t.arg = top.arg /\ t.pkg = top.pkg
          /\ t.other = top.other /\ t.dir = top.dir /\ t.todo \subseteq top.todo
      BY <1>1, <3>2 DEF Frame, Locations
    <3>4. stack' = [stack EXCEPT ![depth] = t]
      BY <3>1 DEF top
    <3> QED BY <1>6, <3>3, <3>4
  <2>3. CASE stack' = [stack EXCEPT ![depth].at = "deps", ![depth].dep = NoPkg]
    <3> DEFINE t == [top EXCEPT !.at = "deps", !.dep = NoPkg]
    <3>1. /\ t \in Frame /\ t.at = "deps" /\ t.arg = top.arg /\ t.pkg = top.pkg
          /\ t.other = top.other /\ t.dir = top.dir /\ t.todo \subseteq top.todo
      BY <1>1 DEF Frame, Locations
    <3>2. stack' = [stack EXCEPT ![depth] = t]
      BY <2>3 DEF top
    <3> QED BY <1>6, <3>1, <3>2
  <2> QED BY <1>5, <1>8, <2>2, <2>3 DEF DependencyInstalled, DependencyMissing
<1>9. CASE DependenciesDone
  <2>1. top.at = "deps" /\ Goto(IF top.other # NoPkg THEN "pre" ELSE "mkdir")
    BY <1>9 DEF DependenciesDone, At
  <2>2. CASE top.other # NoPkg
    <3>1. \A t : TopAt(t, "pre")
            => FrameInv(t, opt, contents, entries, preserved, owner, undone)
      BY <1>1, <2>1, <2>2 DEF TopAt, FrameInv, Unextracted, Staged, Written
    <3> QED BY <1>2, <1>3, <1>4, <2>1, <2>2, <3>1, GotoOwners DEF Locations
  <2>3. CASE top.other = NoPkg
    <3>1. \A t : TopAt(t, "mkdir")
            => FrameInv(t, opt, contents, entries, preserved, owner, undone)
      BY <1>1, <2>1, <2>3 DEF TopAt, FrameInv, Unextracted, Staged, Written
    <3> QED BY <1>2, <1>3, <1>4, <2>1, <2>3, <3>1, GotoOwners DEF Locations
  <2> QED BY <2>2, <2>3
<1> QED BY <1>7, <1>8, <1>9

\* pkgdb_store: names are entered for a package that has its +CONTENTS.
LEMMA StoredOwners ==
    ASSUME NEW Level, Layered(Level), TypeInv, OwnersInv(Level), stack # <<>>,
           top.at = "extract", UNCHANGED <<contents, entries, preserved, undone, opt, running>>,
           NEW S \in SUBSET Contents[top.pkg],
           \/ owner' = owner
           \/ ~opt.no_record /\ ~opt.fake /\ owner' = Stored(S, top.pkg),
           NEW l \in {"post", "nukepkg"}, Goto(l)
    PROVE  OwnersInv(Level)'
<1>1. /\ FrameInv(top, opt, contents, entries, preserved, owner, undone)
      /\ top.pkg \in Pkg /\ top.pkg # NoPkg
  BY TopOwners, TopIsFrame, NoPkgAssumption DEF FrameOK
<1>2. \A f \in File : \/ owner'[f] = owner[f]
                      \/ owner'[f] = top.pkg /\ f \in S /\ ~opt.no_record /\ ~opt.fake
  BY DEF Stored
<1>3. ~opt.no_record /\ ~opt.fake => top.pkg \in contents \cup undone
  BY <1>1 DEF FrameInv, Written
<1>4. IndexInv'
  <2>1. \A f \in File : owner'[f] # NoPkg => f \in Contents[owner'[f]]
    BY <1>2 DEF OwnersInv, IndexInv
  <2>2. \A p \in Pkg : p \in contents \/ Unowned(p, owner', undone)
    BY <1>2, <1>3 DEF OwnersInv, IndexInv, Unowned
  <2> QED BY <2>1, <2>2 DEF IndexInv
<1>5. \A q \in Pkg : Level[q] # Level[top.pkg] =>
         /\ q \in contents => q \in contents'
         /\ \A f \in File : owner'[f] = q => owner[f] = q
  BY <1>2
<1>6. \A t : TopAt(t, l)
         => FrameInv(t, opt, contents', entries', preserved', owner', undone')
  BY <1>1 DEF TopAt, FrameInv, Unextracted, Staged, Written
<1> QED BY <1>4, <1>5, <1>6, GotoOwners DEF Locations

\* The installation proper.
LEMMA InstallOwners ==
    ASSUME NEW Level, Layered(Level), TypeInv, OwnersInv(Level), stack # <<>>,
           \/ PreInstall \/ (\E f \in File : ExtractFile(f)) \/ ExtractDone \/ ExtractFail
           \/ PostInstall \/ (\E d \in Pkg : RegisterDepend(d)) \/ RegisterDone
    PROVE  OwnersInv(Level)'
<1>1. /\ FrameInv(top, opt, contents, entries, preserved, owner, undone)
      /\ depth \in Nat \ {0} /\ FrameOK(top) /\ top \in Frame /\ opt \in Options
  BY TopOwners, TopIsFrame
<1>2. UNCHANGED <<contents, entries, preserved, undone, opt, running>>
  BY DEF PreInstall, ExtractFile, ExtractDone, ExtractFail, PostInstall, RegisterDepend,
         RegisterDone, dbVars, treeVars, cmdVars, histVars
<1>3. top.at \in {"pre", "extract", "post", "register"} /\ top.pkg \in Pkg /\ top.pkg \in Repo
  BY <1>1 DEF PreInstall, ExtractFile, ExtractDone, ExtractFail, PostInstall, RegisterDepend,
         RegisterDone, At, FrameOK, FrameInv
<1>4. owner' = owner => IndexInv'
  BY <1>2 DEF OwnersInv, IndexInv, Unowned
<1>5. top.dir \in {NoPkg, top.pkg}
  BY <1>1, <1>3 DEF FrameInv, Staged
<1>6. ~opt.fake /\ top.dir # NoPkg => top.pkg \in contents \cup undone
  BY <1>1, <1>3 DEF FrameInv, Written
<1>7. ASSUME owner' = owner, NEW l \in {"extract", "register", "nukedb"}, Goto(l),
             l = "nukedb" /\ ~opt.fake /\ top.dir # NoPkg => Unowned(top.dir, owner, undone),
             l = "extract" => files' \subseteq Contents[top.pkg] /\ top.at = "pre"
      PROVE  OwnersInv(Level)'
  <2>1. \A t : TopAt(t, l)
          => FrameInv(t, opt, contents, entries, preserved, owner, undone)
    BY <1>1, <1>3, <1>5, <1>6, <1>7 DEF TopAt, FrameInv, Unextracted, Staged, Written
  <2> QED BY <1>2, <1>3, <1>4, <1>7, <2>1, GotoOwners DEF Locations
<1>8. CASE PreInstall
  <2>1. /\ top.at = "pre" /\ owner' = owner
        /\ \/ Goto("extract") /\ files' = IF opt.fake THEN {} ELSE Contents[top.pkg]
           \/ Goto("nukedb")
    BY <1>8 DEF PreInstall, At, dbVars
  <2>2. ~opt.fake /\ top.dir # NoPkg => Unowned(top.dir, owner, undone)
    BY <1>1, <2>1 DEF FrameInv, Unextracted
  <2> QED BY <1>7, <2>1, <2>2
<1>9. CASE \E f \in File : ExtractFile(f)
  <2>1. /\ top.at = "extract" /\ stack' = stack /\ owner' = owner /\ files' \subseteq files
    BY <1>9 DEF ExtractFile, At
  <2>2. top' = top /\ depth' = depth
    BY <2>1 DEF top, depth
  <2> QED BY <1>2, <1>4, <2>1, <2>2 DEF OwnersInv, FramesInv, LevelInv
<1>10. CASE ExtractDone
  <2>1. /\ top.at = "extract" /\ Goto("post")
        /\ owner' = IF opt.no_record \/ opt.fake THEN owner
                    ELSE Stored(Contents[top.pkg], top.pkg)
    BY <1>10 DEF ExtractDone, At
  <2>2. \/ owner' = owner
        \/ ~opt.no_record /\ ~opt.fake /\ owner' = Stored(Contents[top.pkg], top.pkg)
    BY <2>1
  <2> QED BY <1>2, <2>1, <2>2, StoredOwners
<1>11. CASE ExtractFail
  <2>1. top.at = "extract" /\ Goto("nukepkg") /\ ~opt.fake
    BY <1>11 DEF ExtractFail, At
  <2>2. PICK S \in {{}} \cup {{f} : f \in files} :
           owner' = IF opt.no_record THEN owner
                    ELSE Stored((Contents[top.pkg] \ files) \cup S, top.pkg)
    BY <1>11 DEF ExtractFail
  <2>3. files \subseteq Contents[top.pkg]
    BY <2>1 DEF OwnersInv, FramesInv
  <2> DEFINE W == (Contents[top.pkg] \ files) \cup S
  <2>4. W \in SUBSET Contents[top.pkg]
    BY <2>3
  <2>5. \/ owner' = owner
        \/ ~opt.no_record /\ ~opt.fake /\ owner' = Stored(W, top.pkg)
    BY <2>1, <2>2
  <2> HIDE DEF W
  <2> QED BY <1>2, <2>1, <2>4, <2>5, StoredOwners
<1>12. CASE PostInstall
  <2>1. /\ top.at = "post" /\ owner' = owner
        /\ Goto("register") \/ (ScriptFails("post") /\ Goto("nukedb"))
    BY <1>12 DEF PostInstall, At, indexVars
  <2>2. ScriptFails("post") /\ ~opt.fake /\ top.dir # NoPkg => Unowned(top.dir, owner, undone)
    <3> SUFFICES ASSUME ScriptFails("post"), ~opt.fake, top.dir # NoPkg
                 PROVE  Unowned(top.dir, owner, undone)
      OBVIOUS
    <3>1. ~MayFail("post")
      BY <1>1 DEF MayFail, Layered
    <3>2. top.pkg \notin entries /\ top.dir = top.pkg
      BY <1>5, <3>1 DEF ScriptFails
    <3>3. contents \subseteq entries
      BY DEF TypeInv, DataOK, DBTypeOK
    <3> QED BY <1>6, <3>2, <3>3 DEF Unowned
  <2> QED BY <1>7, <2>1, <2>2
<1>13. CASE \E d \in Pkg : RegisterDepend(d)
  <2>1. PICK d \in Pkg : stack' = [stack EXCEPT ![depth].deps = @ \ {d}]
    BY <1>13 DEF RegisterDepend
  <2>2. top.at = "register" /\ owner' = owner
    BY <1>13 DEF RegisterDepend, At, indexVars
  <2> DEFINE t == [top EXCEPT !.deps = @ \ {d}]
  <2>3. TopAt(t, "register")
    BY <1>1, <2>2 DEF Frame, TopAt
  <2>4. stack' = [stack EXCEPT ![depth] = t]
    BY <2>1 DEF top
  <2> HIDE DEF t
  <2>5. FrameOK(t)
    BY <1>3, <2>3 DEF TopAt, FrameOK
  <2>6. FrameInv(t, opt, contents, entries, preserved, owner, undone)
    BY <1>1, <2>2, <2>3 DEF TopAt, FrameInv, Unextracted, Staged, Written
  <2>7. t.arg = top.arg /\ t.pkg = top.pkg /\ t.at = "register"
    BY <2>3 DEF TopAt
  <2> QED BY <1>2, <1>3, <2>2, <2>4, <2>5, <2>6, <2>7, StillOwners
<1>14. CASE RegisterDone
  BY <1>2, <1>3, <1>14, ReturnOwners DEF RegisterDone, dbVars
<1> QED BY <1>8, <1>9, <1>10, <1>11, <1>12, <1>13, <1>14

\* Failure: nuke_pkg drops the names before nuke_pkgdb removes the +CONTENTS.
LEMMA NukeOwners ==
    ASSUME NEW Level, Layered(Level), TypeInv, OwnersInv(Level), stack # <<>>,
           NukePkg \/ NukeMeta \/ NukeDir
    PROVE  OwnersInv(Level)'
<1>1. /\ FrameInv(top, opt, contents, entries, preserved, owner, undone)
      /\ depth \in Nat \ {0} /\ FrameOK(top) /\ top \in Frame
  BY TopOwners, TopIsFrame
<1>2. UNCHANGED <<undone, opt, running>>
  BY DEF NukePkg, NukeMeta, NukeDir, cmdVars, histVars
<1>3. top.at \in {"nukepkg", "nukedb"} /\ top.pkg \in Pkg /\ top.pkg \in Repo
  BY <1>1 DEF NukePkg, NukeMeta, NukeDir, At, FrameOK, FrameInv
<1>4. CASE NukePkg
  <2>1. /\ top.at = "nukepkg" /\ Goto("nukedb") /\ UNCHANGED <<contents, entries, preserved>>
        /\ owner' = [f \in File |-> IF f \in Contents[top.pkg] THEN NoPkg ELSE owner[f]]
    BY <1>4 DEF NukePkg, At, treeVars, WithoutKeys
  <2>2. \A f \in File : owner'[f] # NoPkg => owner'[f] = owner[f] /\ f \notin Contents[top.pkg]
    BY <2>1
  <2>3. \A p \in Pkg : p # NoPkg
    BY NoPkgAssumption
  <2>4. IndexInv'
    BY <1>2, <2>1, <2>2, <2>3 DEF OwnersInv, IndexInv, Unowned
  <2>5. \A q \in Pkg : Level[q] # Level[top.pkg] =>
           /\ q \in contents => q \in contents'
           /\ \A f \in File : owner'[f] = q => owner[f] = q
    BY <2>1, <2>2, <2>3
  <2>6. Unowned(top.pkg, owner', undone')
    BY <1>3, <2>2, <2>3 DEF OwnersInv, IndexInv, Unowned
  <2>7. top.dir \in {NoPkg, top.pkg}
    BY <1>1, <2>1 DEF FrameInv, Staged
  <2>8. \A t : TopAt(t, "nukedb")
          => FrameInv(t, opt, contents', entries', preserved', owner', undone')
    BY <1>1, <2>1, <2>6, <2>7 DEF TopAt, FrameInv, Unextracted, Staged, Written
  <2> QED BY <1>2, <2>1, <2>4, <2>5, <2>8, GotoOwners DEF Locations
<1>5. CASE NukeMeta
  <2>1. /\ top.at = "nukedb" /\ ~opt.fake /\ top.dir # NoPkg
        /\ stack' = stack /\ owner' = owner
        /\ contents \ {top.dir} \subseteq contents'
    BY <1>5 DEF NukeMeta, At, Recording, indexVars
  <2>2. Unowned(top.dir, owner, undone)
    BY <1>1, <2>1 DEF FrameInv, Unextracted
  <2>3. IndexInv'
    BY <1>2, <2>1, <2>2 DEF OwnersInv, IndexInv, Unowned
  <2>4. top.dir \in {top.pkg, Temp[top.pkg]}
    BY <1>1, <2>1 DEF FrameInv
  <2>5. \A q \in Pkg : Level[q] # Level[top.pkg] =>
           /\ q \in contents => q \in contents'
           /\ \A f \in File : owner'[f] = q => owner[f] = q
    BY <1>3, <2>1, <2>4 DEF Layered
  <2>6. Goto("nukedb")
    <3>1. top = [top EXCEPT !.at = "nukedb"]
      BY <1>1, <2>1 DEF Frame
    <3>2. stack = [stack EXCEPT ![depth] = top]
      BY DEF TypeInv, top
    <3> QED BY <2>1, <3>1, <3>2 DEF Goto, top
  <2>7. \A t : TopAt(t, "nukedb")
          => FrameInv(t, opt, contents', entries', preserved', owner', undone')
    BY <1>1, <1>2, <2>1 DEF TopAt, FrameInv, Unextracted, Staged, Written
  <2> QED BY <1>2, <2>1, <2>3, <2>5, <2>6, <2>7, GotoOwners DEF Locations
<1>6. CASE NukeDir
  BY <1>2, <1>3, <1>6, ReturnOwners DEF NukeDir, indexVars
<1> QED BY <1>4, <1>5, <1>6

\* The condition is kept.
LEMMA OwnersKeeps ==
    ASSUME NEW Level, Layered(Level), TypeInv, OwnersInv(Level), [Next]_vars
    PROVE  OwnersInv(Level)'
<1>1. CASE Step /\ stack # <<>>
  <2>1. CASE NextArg \/ Finish
    BY <1>1, <2>1 DEF NextArg, Finish
  <2> QED BY <1>1, <2>1, OpenOwners, CheckOwners, MetaOwners, UpdateOwners, DepsOwners,
             InstallOwners, NukeOwners DEF Step
<1>2. CASE UNCHANGED <<dbVars, undone>> /\ stack' = <<>> /\ (running' => opt' \in Options)
  <2>1. IndexInv'
    BY <1>2 DEF OwnersInv, IndexInv, Unowned, dbVars
  <2>2. depth' = 0
    BY <1>2, EmptySeq DEF depth
  <2> QED BY <1>2, <2>1, <2>2 DEF OwnersInv, FramesInv, LevelInv
<1>3. CASE NextArg
  <2> DEFINE t == NewFrame(Head(args), opt.automatic)
  <2>1. stack = <<>> /\ stack' = Append(<<>>, t)
    BY <1>3 DEF NextArg, Push, NewFrame
  <2>2. t.at = "find" /\ t.dir = NoPkg /\ t.other = NoPkg
    BY DEF NewFrame
  <2> HIDE DEF t
  <2>3. stack' # <<>> /\ Len(stack') = 1 /\ stack'[1] = t
    BY <2>1, EmptySeq
  <2>4. depth' = 1 /\ top' = t
    BY <2>3 DEF depth, top
  <2>5. /\ UNCHANGED <<contents, entries, preserved, owner, undone, opt, running>>
    BY <1>3 DEF NextArg, dbVars, histVars
  <2>6. FrameInv(t, opt, contents, entries, preserved, owner, undone)
    BY <2>2 DEF FrameInv, Unextracted, Written
  <2>7. FramesInv'
    BY <2>2, <2>3, <2>4, <2>5, <2>6 DEF OwnersInv, FramesInv
  <2>8. IndexInv'
    BY <2>5 DEF OwnersInv, IndexInv, Unowned
  <2>9. LevelInv(Level)'
    BY <2>4 DEF LevelInv
  <2> QED BY <2>7, <2>8, <2>9 DEF OwnersInv
<1>4. CASE UNCHANGED vars
  <2>1. /\ UNCHANGED <<contents, entries, preserved, owner, undone, opt, running, stack, files>>
        /\ top' = top /\ depth' = depth
    BY <1>4 DEF vars, dbVars, cmdVars, histVars, top, depth
  <2> QED BY <2>1 DEF OwnersInv, IndexInv, FramesInv, LevelInv, Unowned
<1>5. CASE Finish \/ Crash \/ \E o \in Options : \E a \in Requests[o] : Invoke(o, a)
  BY <1>2, <1>5 DEF Finish, Crash, Invoke, histVars, OwnersInv, FramesInv, TypeInv, StackInv
<1> QED BY <1>1, <1>3, <1>4, <1>5, StepHasFrame DEF Next

\* The file index never names a package without a directory, wherever a run
\* fails or is killed, if the packages can be layered.
THEOREM OwnersCorrect ==
    ASSUME NEW Level, Layered(Level)
    PROVE  Spec => []OwnersRegistered
<1>1. Init => OwnersInv(Level)
  <2> SUFFICES ASSUME Init PROVE OwnersInv(Level)
    OBVIOUS
  <2>1. stack = <<>> /\ depth = 0 /\ ~running
    BY EmptySeq DEF Init, ProcInit, depth
  <2>2. \A p \in Pkg : p # NoPkg
    BY NoPkgAssumption
  <2>3. \A f \in File : owner[f] # NoPkg => owner[f] \in contents /\ f \in Contents[owner[f]]
    BY DEF Init, DBInit
  <2>4. IndexInv
    BY <2>2, <2>3 DEF IndexInv, Unowned
  <2> QED BY <2>1, <2>4 DEF OwnersInv, FramesInv, LevelInv
<1>2. TypeInv /\ OwnersInv(Level) /\ [Next]_vars => OwnersInv(Level)'
  BY OwnersKeeps
<1>3. TypeInv /\ OwnersInv(Level) => OwnersRegistered
  BY DEF TypeInv, DataOK, DBTypeOK, OwnersInv, IndexInv, Unowned, OwnersRegistered
<1> QED BY <1>1, <1>2, <1>3, TypeInit, TypeStep, PTL DEF Spec

-----------------------------------------------------------------------------
(* Dependencies.                                                           *)

\* An invocation without -u and -U; names differ from patterns.
Plain == Pkg \cap Pattern = {} /\ ~opt.replace /\ ~opt.replace_same

\* Places that pkg_do reaches without -u and -U.
PlainPlaces == Locations \ {"move", "moverest", "delete", "rename"}

\* An installation that replaces nothing, in its place of the stack.
PlainFrame(t) ==
    /\ t.at \in PlainPlaces /\ t.other = NoPkg
    /\ t.at = "find" => t.dir = NoPkg
    /\ t.dir \in {NoPkg, t.pkg}
    /\ t.at \in {"mkdir", "write", "pre", "extract", "post", "register"} => t.todo = {}

\* A package for the pattern is there, and no frame above the i-th has made its
\* directory, or will remove it.
Found(pt, i) ==
    \E d \in Match[pt] \cap entries : \A j \in (i + 1)..depth : stack[j].dir # d

\* The i-th frame has not come to the pattern yet, is waiting for it, or has
\* found it.
Sought(pt, i) ==
    \/ pt \in stack[i].todo
    \/ pt = stack[i].dep /\ (i < depth \/ stack[i].at \in {"again", "missing"})
    \/ Found(pt, i)

DepsInv ==
    /\ \A i \in 1..depth : PlainFrame(stack[i])
    /\ depth > 1 /\ top.at = "find" => top.arg \in Pattern /\ Installed(top.arg) = {}
    /\ ~opt.force /\ ~opt.fake =>
         \A i \in 1..depth : stack[i].at # "find" =>
            \A pt \in Deps[stack[i].pkg] : Sought(pt, i)

\* The top frame's part of the condition.
LEMMA TopDeps ==
    ASSUME Plain, TypeInv, DepsInv, stack # <<>>
    PROVE  /\ PlainFrame(top)
           /\ ~opt.force /\ ~opt.fake /\ top.at # "find" => \A pt \in Deps[top.pkg] :
                 \/ pt \in top.todo
                 \/ pt = top.dep /\ top.at \in {"again", "missing"}
                 \/ Match[pt] \cap entries # {}
<1>1. depth \in Nat \ {0} /\ depth \in 1..depth /\ top = stack[depth]
  BY TopIsFrame DEF top
<1>2. PlainFrame(top)
  BY <1>1 DEF DepsInv
<1>3. ASSUME ~opt.force, ~opt.fake, top.at # "find", NEW pt \in Deps[top.pkg]
      PROVE  \/ pt \in top.todo
             \/ pt = top.dep /\ top.at \in {"again", "missing"}
             \/ Match[pt] \cap entries # {}
  <2>1. Sought(pt, depth)
    BY <1>1, <1>3 DEF DepsInv
  <2>2. ~(depth < depth)
    BY <1>1
  <2> QED BY <1>1, <2>1, <2>2 DEF Sought, Found
<1> QED BY <1>2, <1>3

\* What is left to show of a step that replaces the top frame.
LEMMA MovedDeps ==
    ASSUME Plain, TypeInv, DepsInv, stack # <<>>, opt' = opt, running' = running,
           entries \subseteq entries',
           NEW t, Moved(t), PlainFrame(t), t.at # "find",
           depth > 1 /\ t.dir # top.dir => t.dir \notin entries,
           ~opt.force /\ ~opt.fake => \A pt \in Deps[t.pkg] :
              \/ pt \in t.todo
              \/ pt = t.dep /\ t.at \in {"again", "missing"}
              \/ Match[pt] \cap entries' # {}
    PROVE  DepsInv'
<1>1. /\ depth \in Nat \ {0} /\ depth' = depth /\ top' = t /\ stack'[depth] = t
      /\ stack[depth] = top
      /\ \A i \in 1..(depth - 1) : stack'[i] = stack[i]
  BY TopIsFrame DEF Moved, top
<1>2. \A i \in 1..depth : i = depth \/ i \in 1..(depth - 1)
  BY <1>1
<1>3. \A i \in 1..depth : PlainFrame(stack'[i])
  BY <1>1, <1>2 DEF DepsInv
<1>4. ASSUME ~opt.force, ~opt.fake, NEW i \in 1..depth, stack'[i].at # "find",
             NEW pt \in Deps[stack'[i].pkg]
      PROVE  \/ pt \in stack'[i].todo
             \/ pt = stack'[i].dep /\ (i < depth \/ stack'[i].at \in {"again", "missing"})
             \/ \E d \in Match[pt] \cap entries' : \A j \in (i + 1)..depth : stack'[j].dir # d
  <2>1. CASE i = depth
    <3>1. \A j \in (i + 1)..depth : FALSE
      BY <1>1, <2>1
    <3> QED BY <1>1, <1>4, <2>1, <3>1
  <2>2. CASE i \in 1..(depth - 1)
    <3>1. stack'[i] = stack[i]
      BY <1>1, <2>2
    <3>2. Sought(pt, i)
      BY <1>4, <3>1 DEF DepsInv
    <3>3. CASE Found(pt, i)
      <4>1. PICK d \in Match[pt] \cap entries : \A j \in (i + 1)..depth : stack[j].dir # d
        BY <3>3 DEF Found
      <4>2. depth \in (i + 1)..depth
        BY <1>1, <2>2
      <4>3. \A j \in (i + 1)..depth : j = depth \/ j \in 1..(depth - 1)
        BY <1>1, <2>2
      <4>4. t.dir # d
        <5>1. depth > 1 /\ stack[depth].dir # d
          BY <1>1, <2>2, <4>1, <4>2
        <5> QED BY <1>1, <4>1, <5>1
      <4> QED BY <1>1, <4>1, <4>3, <4>4
    <3> QED BY <3>1, <3>2, <3>3 DEF Sought
  <2> QED BY <1>2, <2>1, <2>2
<1>5. ~opt'.force /\ ~opt'.fake => \A i \in 1..depth' : stack'[i].at # "find" =>
            \A pt \in Deps[stack'[i].pkg] : Sought(pt, i)'
  BY <1>1, <1>4 DEF Sought, Found
<1> QED BY <1>1, <1>3, <1>5 DEF DepsInv, PlainFrame

\* What is left to show of one that returns: it has removed at most its own
\* directory.
LEMMA PoppedDeps ==
    ASSUME Plain, TypeInv, DepsInv, stack # <<>>, opt' = opt, running' = running, Popped,
           entries \ {top.dir} \subseteq entries'
    PROVE  DepsInv'
<1>1. depth \in Nat \ {0}
  BY TopIsFrame
<1>2. CASE stack' = <<>>
  <2>1. depth' = 0
    BY <1>2, EmptySeq DEF depth
  <2> QED BY <1>1, <1>2, <2>1 DEF DepsInv
<1>3. CASE stack' # <<>>
  <2>1. /\ depth \in Nat \ {0} /\ depth > 1 /\ depth' = depth - 1
        /\ \A i \in 1..(depth - 2) : stack'[i] = stack[i]
    BY <1>3, TopIsFrame DEF Popped
  <2>2. PICK l \in {"again", "missing"} : top' = [stack[depth - 1] EXCEPT !.at = l]
    BY <1>3 DEF Popped
  <2>3. stack[depth - 1] \in Frame /\ stack[depth - 1].at = "deps"
    BY <2>1 DEF TypeInv, StackInv, FrameOK, Suspended
  <2> DEFINE s == stack[depth - 1]
             t == [s EXCEPT !.at = l]
  <2>4. /\ t.at = l /\ t.pkg = s.pkg /\ t.other = s.other /\ t.dir = s.dir
        /\ t.todo = s.todo /\ t.dep = s.dep
    BY <2>3 DEF Frame
  <2>5. stack'[depth - 1] = t
    BY <2>1, <2>2 DEF top
  <2>6. s = stack[depth - 1] /\ s.at = "deps"
    BY <2>3
  <2> HIDE DEF s, t
  <2>7. \A i \in 1..(depth - 1) : i = depth - 1 \/ i \in 1..(depth - 2)
    BY <2>1
  <2>8. \A i \in 1..(depth - 1) : i \in 1..depth
    BY <2>1
  <2>9. PlainFrame(t)
    <3>1. PlainFrame(s)
      BY <2>1, <2>6 DEF DepsInv
    <3> QED BY <2>4, <3>1 DEF PlainFrame, PlainPlaces, Locations
  <2>10. \A i \in 1..(depth - 1) : PlainFrame(stack'[i])
    BY <2>1, <2>5, <2>7, <2>8, <2>9 DEF DepsInv
  <2>11. \A i \in 1..(depth - 1) : /\ stack'[i].pkg = stack[i].pkg
                                  /\ stack'[i].dir = stack[i].dir
                                  /\ stack'[i].todo = stack[i].todo
                                  /\ stack'[i].dep = stack[i].dep
    <3> TAKE i \in 1..(depth - 1)
    <3>1. CASE i = depth - 1
      BY <2>4, <2>5, <2>6, <3>1
    <3> QED BY <2>1, <2>7, <3>1
  <2>12. \A i \in 1..(depth - 1) : stack[i].at # "find"
    BY <2>1 DEF TypeInv, StackInv, Suspended
  <2>13. stack'[depth - 1].at \in {"again", "missing"}
    BY <2>4, <2>5
  <2>14. ASSUME ~opt.force, ~opt.fake, NEW i \in 1..(depth - 1), NEW pt \in Deps[stack'[i].pkg]
         PROVE  \/ pt \in stack'[i].todo
                \/ pt = stack'[i].dep /\ (i < depth - 1 \/ stack'[i].at \in {"again", "missing"})
                \/ \E d \in Match[pt] \cap entries' :
                      \A j \in (i + 1)..(depth - 1) : stack'[j].dir # d
    <3>1. Sought(pt, i)
      BY <2>8, <2>11, <2>12, <2>14 DEF DepsInv
    <3>2. CASE Found(pt, i)
      <4>1. PICK d \in Match[pt] \cap entries : \A j \in (i + 1)..depth : stack[j].dir # d
        BY <3>2 DEF Found
      <4>2. depth \in (i + 1)..depth
        BY <2>1
      <4>3. d \in entries'
        BY <4>1, <4>2 DEF top
      <4>4. \A j \in (i + 1)..(depth - 1) : j \in 1..(depth - 1) /\ j \in (i + 1)..depth
        BY <2>1
      <4> QED BY <2>11, <4>1, <4>3, <4>4
    <3>3. i < depth - 1 \/ i = depth - 1
      BY <2>1
    <3> QED BY <2>11, <2>13, <3>1, <3>2, <3>3 DEF Sought
  <2>15. ~opt'.force /\ ~opt'.fake => \A i \in 1..depth' : stack'[i].at # "find" =>
              \A pt \in Deps[stack'[i].pkg] : Sought(pt, i)'
    BY <2>1, <2>14 DEF Sought, Found
  <2>16. top'.at # "find"
    BY <2>1, <2>13 DEF top
  <2> QED BY <1>1, <2>1, <2>10, <2>15, <2>16 DEF DepsInv, PlainFrame
<1> QED BY <1>2, <1>3

\* A change of place.
LEMMA GotoDeps ==
    ASSUME Plain, TypeInv, DepsInv, stack # <<>>, opt' = opt, running' = running,
           entries \subseteq entries', top.at \notin {"find", "again", "missing"},
           NEW l \in PlainPlaces \ {"find", "again", "missing"}, Goto(l),
           l \in {"mkdir", "write", "pre", "extract", "post", "register"} => top.todo = {}
    PROVE  DepsInv'
<1> DEFINE t == [top EXCEPT !.at = l]
<1>1. l \in Locations \ {"again", "missing"} /\ l \notin {"move", "moverest", "delete", "rename"}
  BY DEF PlainPlaces
<1>2. Moved(t)
  BY <1>1, GotoKeeps
<1>3. /\ t.at = l /\ t.pkg = top.pkg /\ t.other = top.other /\ t.dir = top.dir
      /\ t.todo = top.todo /\ t.dep = top.dep
  BY TopIsFrame DEF Frame
<1> HIDE DEF t
<1>4. PlainFrame(t)
  <2>1. PlainFrame(top)
    BY TopDeps
  <2> QED BY <1>3, <2>1 DEF PlainFrame
<1>5. ~opt.force /\ ~opt.fake => \A pt \in Deps[t.pkg] :
              \/ pt \in t.todo
              \/ pt = t.dep /\ t.at \in {"again", "missing"}
              \/ Match[pt] \cap entries' # {}
  <2>1. ~opt.force /\ ~opt.fake /\ top.at # "find" => \A pt \in Deps[top.pkg] :
                 \/ pt \in top.todo
                 \/ pt = top.dep /\ top.at \in {"again", "missing"}
                 \/ Match[pt] \cap entries # {}
    BY TopDeps
  <2> QED BY <1>3, <2>1
<1> QED BY <1>2, <1>3, <1>4, <1>5, MovedDeps

\* A return with the same database.
LEMMA ReturnDeps ==
    ASSUME Plain, TypeInv, DepsInv, stack # <<>>, UNCHANGED <<opt, running, entries>>,
           NEW ok \in BOOLEAN, Return(ok)
    PROVE  DepsInv'
BY ReturnKeeps, PoppedDeps

\* The archive of a dependency is that of a package that is not there.
LEMMA OpenDeps ==
    ASSUME Plain, TypeInv, DepsInv, stack # <<>>, OpenArchive
    PROVE  DepsInv'
<1>1. top.at = "find" /\ UNCHANGED <<opt, running, entries>>
  BY DEF OpenArchive, At, dbVars, cmdVars, treeVars
<1>2. CASE Return(FALSE)
  BY <1>1, <1>2, ReturnDeps
<1>3. CASE ~Return(FALSE)
  <2>1. FrameOK(top) /\ top \in Frame /\ PlainFrame(top)
    BY TopIsFrame, TopDeps
  <2>2. PICK p \in Candidates(top.arg) :
             stack' = [stack EXCEPT
                    ![depth].at = "already", ![depth].pkg = p,
                    ![depth].dir = IF opt.no_record /\ ~opt.fake THEN NoPkg ELSE p,
                    ![depth].todo = Deps[p]]
    BY <1>3 DEF OpenArchive
  <2> DEFINE t == Opened(p)
  <2>3. stack' = [stack EXCEPT ![depth] = t]
    BY <2>2 DEF top, Opened
  <2>4. p \in Pkg /\ Deps[p] \subseteq Pattern
    BY <2>1, CandidatesType, DepsAssumption DEF Frame
  <2>5. /\ t \in Frame /\ t.at = "already" /\ t.pkg = p /\ t.other = top.other
        /\ t.dir \in {NoPkg, p} /\ t.todo = Deps[p]
    BY <2>1, <2>4, OpenedFrame
  <2> HIDE DEF t
  <2>6. FrameOK(t)
    BY <2>1, <2>4, <2>5 DEF FrameOK
  <2>7. Moved(t)
    BY <1>1, <2>3, <2>6, MovedKeeps
  <2>8. PlainFrame(t)
    BY <2>1, <2>5 DEF PlainFrame, PlainPlaces, Locations
  <2>9. depth > 1 => t.dir \notin entries
    <3>1. NoPkg \notin entries
      BY NoPkgAssumption DEF TypeInv, DataOK, DBTypeOK
    <3>2. depth > 1 => p \notin entries
      <4>1. SUFFICES ASSUME depth > 1 PROVE p \notin entries
        OBVIOUS
      <4>2. top.arg \in Pattern /\ Installed(top.arg) = {}
        BY <1>1, <4>1 DEF DepsInv
      <4>3. top.arg \notin Pkg
        BY <4>2 DEF Plain
      <4>4. p \in Match[top.arg]
        BY <2>2, <4>3 DEF Candidates, Best
      <4> QED BY <4>2, <4>4 DEF Installed
    <3> QED BY <2>5, <3>1, <3>2
  <2> QED BY <1>1, <2>5, <2>7, <2>8, <2>9, MovedDeps
<1> QED BY <1>2, <1>3

\* check_dependencies: a pattern is done with when a package has been found.
LEMMA CheckDeps ==
    ASSUME Plain, TypeInv, DepsInv, stack # <<>>, NEW pt \in Pattern, CheckDependency(pt)
    PROVE  DepsInv'
<1>1. top.at = "deps" /\ pt \in top.todo /\ UNCHANGED <<opt, running, entries>>
  BY DEF CheckDependency, At, dbVars, cmdVars, treeVars
<1>2. /\ depth \in Nat \ {0} /\ FrameOK(top) /\ top \in Frame /\ PlainFrame(top)
      /\ top.pkg \in Pkg
  BY <1>1, TopIsFrame, TopDeps DEF FrameOK
<1>3. ~opt.force /\ ~opt.fake => \A u \in Deps[top.pkg] :
         u \in top.todo \/ Match[u] \cap entries # {}
  BY <1>1, TopDeps
<1>4. CASE DependencyFailed
  <2>1. Return(FALSE)
    BY <1>2, <1>4 DEF DependencyFailed, PlainFrame
  <2> QED BY <1>1, <2>1, ReturnDeps
<1>5. ASSUME NEW t \in Frame, t.at = "deps", t.pkg = top.pkg, t.other = top.other,
             t.dir = top.dir, t.todo = top.todo \ {pt},
             stack' = [stack EXCEPT ![depth] = t],
             opt.force \/ Match[pt] \cap entries # {}
      PROVE  DepsInv'
  <2>1. FrameOK(t)
    BY <1>2, <1>5 DEF FrameOK
  <2>2. Moved(t)
    BY <1>1, <1>5, <2>1, MovedKeeps
  <2>3. PlainFrame(t)
    BY <1>2, <1>5 DEF PlainFrame, PlainPlaces, Locations
  <2>4. ~opt.force /\ ~opt.fake => \A u \in Deps[t.pkg] :
           u \in t.todo \/ Match[u] \cap entries' # {}
    BY <1>1, <1>3, <1>5
  <2> QED BY <1>1, <1>5, <2>2, <2>3, <2>4, MovedDeps
<1>6. CASE \E d \in Best(Installed(pt)) :
              stack' = [stack EXCEPT ![depth].todo = top.todo \ {pt},
                                     ![depth].deps = @ \cup {d}]
  <2>1. PICK d \in Best(Installed(pt)) :
           stack' = [stack EXCEPT ![depth].todo = top.todo \ {pt}, ![depth].deps = @ \cup {d}]
    BY <1>6
  <2>2. d \in Pkg /\ Match[pt] \cap entries # {}
    BY MatchAssumption DEF Best, Installed
  <2> DEFINE t == [top EXCEPT !.todo = top.todo \ {pt}, !.deps = @ \cup {d}]
  <2>3. /\ t \in Frame /\ t.at = "deps" /\ t.pkg = top.pkg /\ t.other = top.other
        /\ t.dir = top.dir /\ t.todo = top.todo \ {pt}
    BY <1>1, <1>2, <2>2 DEF Frame
  <2>4. stack' = [stack EXCEPT ![depth] = t]
    BY <2>1 DEF top
  <2> QED BY <1>5, <2>2, <2>3, <2>4
<1>7. CASE opt.force /\ stack' = [stack EXCEPT ![depth].todo = top.todo \ {pt}]
  <2> DEFINE t == [top EXCEPT !.todo = top.todo \ {pt}]
  <2>1. /\ t \in Frame /\ t.at = "deps" /\ t.pkg = top.pkg /\ t.other = top.other
        /\ t.dir = top.dir /\ t.todo = top.todo \ {pt}
    BY <1>1, <1>2 DEF Frame
  <2>2. stack' = [stack EXCEPT ![depth] = t]
    BY <1>7 DEF top
  <2> QED BY <1>5, <1>7, <2>1, <2>2
<1>8. CASE /\ Installed(pt) = {}
           /\ stack' = Append([stack EXCEPT ![depth].todo = top.todo \ {pt},
                                            ![depth].dep = pt],
                              Push(pt, TRUE)[depth + 1])
  <2> DEFINE s == [top EXCEPT !.todo = top.todo \ {pt}, !.dep = pt]
             t == NewFrame(pt, TRUE)
  <2>1. /\ s \in Frame /\ s.at = "deps" /\ s.pkg = top.pkg /\ s.other = top.other
        /\ s.dir = top.dir /\ s.todo = top.todo \ {pt} /\ s.dep = pt
    BY <1>1, <1>2 DEF Frame
  <2>2. t.at = "find" /\ t.arg = pt /\ t.dir = NoPkg /\ t.other = NoPkg
    BY DEF NewFrame
  <2>3. stack' = Append([stack EXCEPT ![depth] = s], t)
    <3>1. Push(pt, TRUE)[depth + 1] = t
      BY <1>2, AppendFrame DEF Push, NewFrame, TypeInv, depth, Frame, Locations
    <3>2. [stack EXCEPT ![depth].todo = top.todo \ {pt}, ![depth].dep = pt]
            = [stack EXCEPT ![depth] = s]
      BY DEF top
    <3> QED BY <1>8, <3>1, <3>2
  <2> HIDE DEF s
  <2>4. FrameOK(s) /\ Suspended(s)
    BY <1>2, <2>1 DEF FrameOK, Suspended
  <2>5. Nested(s, t)
    BY <1>1, <2>3, <2>4, NestedKeeps
  <2> HIDE DEF t
  <2>6. /\ depth' = depth + 1 /\ top' = t /\ stack'[depth + 1] = t
        /\ stack'[depth] = s /\ \A i \in 1..(depth - 1) : stack'[i] = stack[i]
    BY <2>5 DEF Nested, top
  <2>7. \A i \in 1..(depth + 1) : i = depth + 1 \/ i = depth \/ i \in 1..(depth - 1)
    BY <1>2
  <2>8. \A i \in 1..(depth + 1) : PlainFrame(stack'[i])
    <3>1. PlainFrame(s)
      BY <1>2, <2>1 DEF PlainFrame, PlainPlaces, Locations
    <3>2. PlainFrame(t)
      BY <2>2 DEF PlainFrame, PlainPlaces, Locations
    <3>3. \A i \in 1..(depth - 1) : PlainFrame(stack[i])
      <4>1. \A i \in 1..(depth - 1) : i \in 1..depth
        BY <1>2
      <4> QED BY <4>1 DEF DepsInv
    <3> QED BY <2>6, <2>7, <3>1, <3>2, <3>3
  <2>9. \A j \in 1..(depth + 1) : \A d \in entries :
           stack'[j].dir = d => j \in 1..depth /\ stack[j].dir = d
    <3>1. NoPkg \notin entries
      BY NoPkgAssumption DEF TypeInv, DataOK, DBTypeOK
    <3> TAKE j \in 1..(depth + 1)
    <3>2. CASE j = depth + 1
      BY <2>2, <2>6, <3>1, <3>2
    <3>3. CASE j = depth
      <4>1. stack[depth] = top /\ stack'[depth] = s /\ depth \in 1..depth
        BY <1>2, <2>6 DEF top
      <4> QED BY <2>1, <3>3, <4>1
    <3>4. CASE j \in 1..(depth - 1)
      <4>1. j \in 1..depth /\ stack'[j] = stack[j]
        BY <1>2, <2>6, <3>4
      <4> QED BY <4>1
    <3> QED BY <2>7, <3>2, <3>3, <3>4
  <2>10. ASSUME ~opt.force, ~opt.fake, NEW i \in 1..(depth + 1), stack'[i].at # "find",
                NEW u \in Deps[stack'[i].pkg]
         PROVE  \/ u \in stack'[i].todo
                \/ u = stack'[i].dep /\ i < depth + 1
                \/ \E d \in Match[u] \cap entries :
                      \A j \in (i + 1)..(depth + 1) : stack'[j].dir # d
    <3>1. i # depth + 1
      BY <2>2, <2>6, <2>10
    <3>2. i \in 1..depth /\ i < depth + 1
      BY <1>2, <3>1
    <3>3. stack[i].pkg = stack'[i].pkg /\ stack[i].at # "find"
      <4>1. CASE i = depth
        BY <1>1, <2>1, <2>6, <4>1 DEF top
      <4>2. CASE i \in 1..(depth - 1)
        BY <2>6, <2>10, <4>2
      <4> QED BY <2>7, <3>1, <4>1, <4>2
    <3>4. Sought(u, i)
      BY <2>10, <3>2, <3>3 DEF DepsInv
    <3>5. CASE Found(u, i)
      <4>1. PICK d \in Match[u] \cap entries : \A j \in (i + 1)..depth : stack[j].dir # d
        BY <3>5 DEF Found
      <4>2. \A j \in (i + 1)..(depth + 1) :
               j \in 1..(depth + 1) /\ (j \in 1..depth => j \in (i + 1)..depth)
        BY <1>2, <3>2
      <4> QED BY <2>9, <4>1, <4>2
    <3>6. CASE i = depth /\ ~Found(u, i)
      <4>1. u \in top.todo
        BY <1>1, <1>2, <3>4, <3>6 DEF Sought, top
      <4>2. u \in s.todo \/ u = s.dep
        BY <2>1, <4>1
      <4> QED BY <2>6, <3>2, <3>6, <4>2
    <3>7. CASE i \in 1..(depth - 1) /\ ~Found(u, i)
      <4>1. u \in stack[i].todo \/ u = stack[i].dep
        BY <3>4, <3>7 DEF Sought
      <4> QED BY <2>6, <3>2, <3>7, <4>1
    <3> QED BY <2>7, <3>1, <3>5, <3>6, <3>7
  <2>11. ~opt'.force /\ ~opt'.fake => \A i \in 1..depth' : stack'[i].at # "find" =>
              \A u \in Deps[stack'[i].pkg] : Sought(u, i)'
    BY <1>1, <2>6, <2>10 DEF Sought, Found
  <2>12. (top.arg \in Pattern /\ Installed(top.arg) = {})'
    <3>1. top'.arg = pt
      BY <2>2, <2>6
    <3>2. Match[pt] \cap entries' = {}
      BY <1>1, <1>8 DEF Installed
    <3> QED BY <3>1, <3>2 DEF Installed
  <2> QED BY <2>6, <2>8, <2>11, <2>12 DEF DepsInv, PlainFrame
<1> QED BY <1>4, <1>6, <1>7, <1>8 DEF CheckDependency, Tolerated

\* After a nested pkg_do: the package is there, or the caller fails too.
LEMMA AgainDeps ==
    ASSUME Plain, TypeInv, DepsInv, stack # <<>>, DependencyInstalled \/ DependencyMissing
    PROVE  DepsInv'
<1>1. top.at \in {"again", "missing"} /\ UNCHANGED <<opt, running, entries>>
  BY DEF DependencyInstalled, DependencyMissing, At, dbVars, cmdVars, treeVars
<1>2. /\ FrameOK(top) /\ top \in Frame /\ PlainFrame(top) /\ top.pkg \in Pkg
      /\ top.dep \in Pattern
  BY <1>1, TopIsFrame, TopDeps DEF FrameOK
<1>3. ~opt.force /\ ~opt.fake => \A u \in Deps[top.pkg] :
         u \in top.todo \/ u = top.dep \/ Match[u] \cap entries # {}
  BY <1>1, TopDeps
<1>4. CASE DependencyFailed
  <2>1. Return(FALSE)
    BY <1>2, <1>4 DEF DependencyFailed, PlainFrame
  <2> QED BY <1>1, <2>1, ReturnDeps
<1>5. ASSUME NEW t \in Frame, t.at = "deps", t.pkg = top.pkg, t.other = top.other,
             t.dir = top.dir, t.todo = top.todo,
             stack' = [stack EXCEPT ![depth] = t],
             opt.force \/ Match[top.dep] \cap entries # {}
      PROVE  DepsInv'
  <2>1. FrameOK(t)
    BY <1>2, <1>5 DEF FrameOK
  <2>2. Moved(t)
    BY <1>1, <1>5, <2>1, MovedKeeps
  <2>3. PlainFrame(t)
    BY <1>2, <1>5 DEF PlainFrame, PlainPlaces, Locations
  <2>4. ~opt.force /\ ~opt.fake => \A u \in Deps[t.pkg] :
           u \in t.todo \/ Match[u] \cap entries' # {}
    BY <1>1, <1>3, <1>5
  <2> QED BY <1>1, <1>5, <2>2, <2>3, <2>4, MovedDeps
<1>6. CASE \E d \in Best(Installed(top.dep)) :
              stack' = [stack EXCEPT ![depth].at = "deps", ![depth].dep = NoPkg,
                                     ![depth].deps = @ \cup {d}]
  <2>1. PICK d \in Best(Installed(top.dep)) :
           stack' = [stack EXCEPT ![depth].at = "deps", ![depth].dep = NoPkg,
                                  ![depth].deps = @ \cup {d}]
    BY <1>6
  <2>2. d \in Pkg /\ Match[top.dep] \cap entries # {}
    BY <1>2, MatchAssumption DEF Best, Installed
  <2> DEFINE t == [top EXCEPT !.at = "deps", !.dep = NoPkg, !.deps = @ \cup {d}]
  <2>3. /\ t \in Frame /\ t.at = "deps" /\ t.pkg = top.pkg /\ t.other = top.other
        /\ t.dir = top.dir /\ t.todo = top.todo
    BY <1>2, <2>2 DEF Frame, Locations
  <2>4. stack' = [stack EXCEPT ![depth] = t]
    BY <2>1 DEF top
  <2> QED BY <1>5, <2>2, <2>3, <2>4
<1>7. CASE opt.force /\ stack' = [stack EXCEPT ![depth].at = "deps", ![depth].dep = NoPkg]
  <2> DEFINE t == [top EXCEPT !.at = "deps", !.dep = NoPkg]
  <2>1. /\ t \in Frame /\ t.at = "deps" /\ t.pkg = top.pkg /\ t.other = top.other
        /\ t.dir = top.dir /\ t.todo = top.todo
    BY <1>2 DEF Frame, Locations
  <2>2. stack' = [stack EXCEPT ![depth] = t]
    BY <1>7 DEF top
  <2> QED BY <1>5, <1>7, <2>1, <2>2
<1> QED BY <1>4, <1>6, <1>7 DEF DependencyInstalled, DependencyMissing, Tolerated

\* The other steps: directories are made, and only that of the top frame goes.
LEMMA OtherDeps ==
    ASSUME Plain, TypeInv, DepsInv, stack # <<>>, Step,
           ~OpenArchive, ~\E pt \in Pattern : CheckDependency(pt),
           ~DependencyInstalled, ~DependencyMissing
    PROVE  DepsInv'
<1>1. /\ PlainFrame(top) /\ ~opt.replace /\ ~opt.replace_same
      /\ FrameOK(top) /\ top \in Frame
  BY TopDeps, TopIsFrame DEF Plain
<1>2. top.at \in PlainPlaces /\ top.other = NoPkg
  BY <1>1 DEF PlainFrame
<1> USE DEF dbVars, cmdVars, treeVars, histVars, indexVars
<1>3. CASE CheckAlreadyInstalled
  <2>1. top.at = "already" /\ UNCHANGED <<opt, running, entries>>
    BY <1>3 DEF CheckAlreadyInstalled, At
  <2>2. Return(TRUE) \/ Goto("other")
    BY <1>1, <1>3 DEF CheckAlreadyInstalled
  <2> QED BY <2>1, <2>2, ReturnDeps, GotoDeps DEF PlainPlaces, Locations
<1>4. CASE CheckOtherInstalled
  <2>1. top.at = "other" /\ UNCHANGED <<opt, running, entries>>
    BY <1>4 DEF CheckOtherInstalled, At
  <2>2. Return(FALSE) \/ Goto("conflict")
    BY <1>1, <1>4 DEF CheckOtherInstalled, MayReplace
  <2> QED BY <2>1, <2>2, ReturnDeps, GotoDeps DEF PlainPlaces, Locations
<1>5. CASE CheckConflicts
  <2>1. top.at = "conflict" /\ UNCHANGED <<opt, running, entries>>
    BY <1>5 DEF CheckConflicts, At
  <2>2. stack' = <<>> \/ Return(FALSE) \/ Goto("deps")
    BY <1>2, <1>5 DEF CheckConflicts
  <2>3. CASE stack' = <<>>
    <3>1. depth' = 0
      BY <2>3, EmptySeq DEF depth
    <3> QED BY <2>3, <3>1 DEF DepsInv
  <2> QED BY <2>1, <2>2, <2>3, ReturnDeps, GotoDeps DEF PlainPlaces, Locations
<1>6. CASE MakeDir \/ WriteMeta
  <2>1. /\ top.at \in {"mkdir", "write"} /\ UNCHANGED <<opt, running>>
        /\ entries \subseteq entries'
    BY <1>6 DEF MakeDir, WriteMeta, At
  <2>2. Goto("write") \/ Goto("pre") \/ Goto("nukedb")
    BY <1>2, <1>6 DEF MakeDir, WriteMeta
  <2>3. top.todo = {}
    BY <1>1, <2>1 DEF PlainFrame
  <2> QED BY <2>1, <2>2, <2>3, GotoDeps DEF PlainPlaces, Locations
<1>7. CASE MoveRequiredBy \/ MoveRest \/ DeleteOld \/ RenameDir
  BY <1>2, <1>7 DEF PlainPlaces, MoveRequiredBy, MoveRest, DeleteOld, RenameDir, At
<1>8. CASE DependenciesDone
  <2>1. top.at = "deps" /\ top.todo = {} /\ UNCHANGED <<opt, running, entries>>
    BY <1>8 DEF DependenciesDone, At
  <2>2. Goto("mkdir")
    BY <1>2, <1>8 DEF DependenciesDone
  <2> QED BY <2>1, <2>2, GotoDeps DEF PlainPlaces, Locations
<1>9. CASE PreInstall \/ ExtractDone \/ ExtractFail \/ PostInstall
  <2>1. top.at \in {"pre", "extract", "post"} /\ UNCHANGED <<opt, running, entries>>
    BY <1>9 DEF PreInstall, ExtractDone, ExtractFail, PostInstall, At
  <2>2. \/ Goto("extract") \/ Goto("post") \/ Goto("register")
        \/ Goto("nukepkg") \/ Goto("nukedb")
    BY <1>9 DEF PreInstall, ExtractDone, ExtractFail, PostInstall
  <2>3. top.todo = {}
    BY <1>1, <2>1 DEF PlainFrame
  <2> QED BY <2>1, <2>2, <2>3, GotoDeps DEF PlainPlaces, Locations
<1>10. CASE \/ \E f \in File : ExtractFile(f)
            \/ NukeMeta
  <2>1. UNCHANGED <<opt, running, entries, stack>>
    BY <1>10 DEF ExtractFile, NukeMeta
  <2>2. depth' = depth /\ top' = top
    BY <2>1 DEF depth, top
  <2> QED BY <2>1, <2>2 DEF DepsInv, Sought, Found, Installed, PlainFrame
<1>11. CASE \E d \in Pkg : RegisterDepend(d)
  <2>1. PICK d \in Pkg : RegisterDepend(d)
    BY <1>11
  <2>2. top.at = "register" /\ UNCHANGED <<opt, running, entries>>
    BY <2>1 DEF RegisterDepend, At
  <2> DEFINE t == [top EXCEPT !.deps = @ \ {d}]
  <2>3. stack' = [stack EXCEPT ![depth] = t]
    BY <2>1 DEF RegisterDepend, top
  <2>4. /\ t \in Frame /\ t.at = top.at /\ t.pkg = top.pkg /\ t.other = top.other
        /\ t.dir = top.dir /\ t.todo = top.todo /\ t.dep = top.dep
    BY <1>1 DEF Frame
  <2> HIDE DEF t
  <2>5. FrameOK(t)
    BY <1>1, <2>4 DEF FrameOK
  <2>6. Moved(t)
    BY <2>2, <2>3, <2>5, MovedKeeps
  <2>7. PlainFrame(t)
    BY <1>1, <2>4 DEF PlainFrame
  <2>8. ~opt.force /\ ~opt.fake => \A pt \in Deps[t.pkg] :
           pt \in t.todo \/ Match[pt] \cap entries' # {}
    BY <2>2, <2>4, TopDeps
  <2> QED BY <2>2, <2>4, <2>6, <2>7, <2>8, MovedDeps
<1>12. CASE RegisterDone
  BY <1>12, ReturnDeps DEF RegisterDone
<1>13. CASE NukePkg
  <2>1. top.at = "nukepkg" /\ Goto("nukedb") /\ UNCHANGED <<opt, running, entries>>
    BY <1>13 DEF NukePkg, At
  <2> QED BY <2>1, GotoDeps DEF PlainPlaces, Locations
<1>14. CASE NukeDir
  <2>1. UNCHANGED <<opt, running>> /\ entries \ {top.dir} \subseteq entries' /\ Return(FALSE)
    BY <1>14 DEF NukeDir
  <2>2. Popped
    BY <2>1, ReturnKeeps
  <2> QED BY <2>1, <2>2, PoppedDeps
<1>15. CASE NextArg \/ Finish
  BY <1>15 DEF NextArg, Finish
<1> QED BY <1>3, <1>4, <1>5, <1>6, <1>7, <1>8, <1>9, <1>10, <1>11, <1>12, <1>13, <1>14,
           <1>15 DEF Step

\* The condition is kept.
LEMMA DepsKeeps ==
    ASSUME TypeInv, Plain => DepsInv, [Next]_vars
    PROVE  (Plain => DepsInv)'
<1> SUFFICES ASSUME Plain' PROVE DepsInv'
  OBVIOUS
<1>1. CASE Step /\ stack # <<>>
  <2>1. opt' = opt
    BY <1>1 DEF Step, NextArg, Finish, OpenArchive, CheckAlreadyInstalled,
       CheckOtherInstalled, CheckConflicts, MakeDir, WriteMeta, MoveRequiredBy, MoveRest,
       DeleteOld, RenameDir, CheckDependency, DependencyInstalled, DependencyMissing,
       DependenciesDone, PreInstall, ExtractFile, ExtractDone, ExtractFail, PostInstall,
       RegisterDepend, RegisterDone, NukePkg, NukeMeta, NukeDir, cmdVars
  <2>2. Plain /\ DepsInv
    BY <2>1 DEF Plain
  <2> QED BY <1>1, <2>2, OpenDeps, CheckDeps, AgainDeps, OtherDeps
<1>2. CASE stack' = <<>>
  <2>1. depth' = 0
    BY <1>2, EmptySeq DEF depth
  <2> QED BY <1>2, <2>1 DEF DepsInv
<1>3. CASE NextArg
  <2> DEFINE t == NewFrame(Head(args), opt.automatic)
  <2>1. stack = <<>> /\ stack' = Append(<<>>, t)
    BY <1>3 DEF NextArg, Push, NewFrame
  <2>2. t.at = "find" /\ t.dir = NoPkg /\ t.other = NoPkg
    BY DEF NewFrame
  <2> HIDE DEF t
  <2>3. Len(stack') = 1 /\ stack'[1] = t
    BY <2>1, EmptySeq
  <2>4. depth' = 1 /\ top' = t
    BY <2>3 DEF depth, top
  <2>5. PlainFrame(t)
    BY <2>2 DEF PlainFrame, PlainPlaces, Locations
  <2>6. \A i \in 1..1 : stack'[i] = t
    BY <2>3
  <2> QED BY <2>2, <2>4, <2>5, <2>6 DEF DepsInv
<1>4. CASE UNCHANGED vars
  <2>1. UNCHANGED <<opt, running, entries, stack>>
    BY <1>4 DEF vars, dbVars, cmdVars, treeVars
  <2>2. depth' = depth /\ top' = top
    BY <2>1 DEF depth, top
  <2>3. DepsInv
    BY <2>1 DEF Plain
  <2> QED BY <2>1, <2>2, <2>3 DEF DepsInv, Sought, Found, Installed, PlainFrame
<1>5. CASE Finish \/ Crash \/ \E o \in Options : \E a \in Requests[o] : Invoke(o, a)
  BY <1>2, <1>5 DEF Finish, Crash, Invoke, TypeInv, StackInv
<1> QED BY <1>1, <1>3, <1>4, <1>5, StepHasFrame DEF Next

\* "if the missing package cannot be found or installed, the installation is
\* terminated": without -f, -u and -U no installation comes to PRE-INSTALL
\* before a package for each of its dependency patterns is there.
THEOREM DependenciesFirstCorrect ==
    ASSUME Pkg \cap Pattern = {}
    PROVE  Spec => [](~opt.replace /\ ~opt.replace_same => DependenciesFirst)
<1>1. Init => (Plain => DepsInv)
  BY EmptySeq DEF Init, ProcInit, DepsInv, depth
<1>2. TypeInv /\ (Plain => DepsInv) /\ [Next]_vars => (Plain => DepsInv)'
  BY DepsKeeps
<1>3. TypeInv /\ (Plain => DepsInv) => (~opt.replace /\ ~opt.replace_same => DependenciesFirst)
  <2> SUFFICES ASSUME TypeInv, Plain => DepsInv, ~opt.replace, ~opt.replace_same,
                      Installing, ~opt.force, NEW pt \in Deps[top.pkg]
               PROVE  Installed(pt) # {}
    BY DEF DependenciesFirst
  <2>1. stack # <<>> /\ ~opt.fake /\ top.at \in {"pre", "extract", "post", "register"}
    BY DEF Installing
  <2>2. Plain /\ DepsInv
    BY DEF Plain
  <2>3. top.todo = {}
    BY <2>1, <2>2, TopDeps DEF PlainFrame
  <2> QED BY <2>1, <2>2, <2>3, TopDeps DEF Installed
<1> QED BY <1>1, <1>2, <1>3, TypeInit, TypeStep, PTL DEF Spec

-----------------------------------------------------------------------------
(* What a step does to the stack, and what frames are nested for.          *)

\* The packages that a frame may come to install.
Wanted(t) == IF t.at = "find" THEN Match[t.arg] \cap Repo ELSE {t.pkg}

\* Whatever a frame installs may be installed for the packages below it.
NestInv(Under) ==
    /\ \A i \in 1..depth : stack[i].at # "find" => stack[i].todo \subseteq Deps[stack[i].pkg]
    /\ \A i, j \in 1..depth : i < j =>
          /\ stack[j].at = "find" => stack[j].arg \in Pattern
          /\ Wanted(stack[j]) \subseteq Under[stack[i].pkg]

\* The top frame becomes t, which is of the same package.
Onward(t) ==
    /\ top.at # "find" /\ Moved(t)
    /\ t.at # "find" /\ t.pkg = top.pkg /\ t.todo \subseteq top.todo

\* What a step does to the stack.
Shape ==
    \/ stack' = <<>> \/ stack' = stack \/ Popped
    \/ \E t \in Frame : Onward(t)
    \/ \E p \in Candidates(top.arg) : \E t \in Frame :
          top.at = "find" /\ Moved(t) /\ t.at = "already" /\ t.pkg = p /\ t.todo = Deps[p]
    \/ \E pt \in top.todo : \E s \in Frame :
          /\ top.at = "deps" /\ Nested(s, NewFrame(pt, TRUE)) /\ s.at = "deps"
          /\ s.pkg = top.pkg /\ s.other = top.other /\ s.dir = top.dir
          /\ s.todo \subseteq top.todo

\* A change of place.
LEMMA GotoShape ==
    ASSUME TypeInv, stack # <<>>, running' = running, top.at # "find",
           NEW l \in Locations \ {"find", "again", "missing"}, Goto(l),
           l \in {"move", "moverest", "delete", "rename"} => top.other \in Pkg
    PROVE  Shape
<1> DEFINE t == [top EXCEPT !.at = l]
<1>1. Moved(t)
  BY GotoKeeps
<1>2. t \in Frame /\ t.at = l /\ t.pkg = top.pkg /\ t.todo = top.todo
  BY TopIsFrame DEF Frame
<1> HIDE DEF t
<1> QED BY <1>1, <1>2 DEF Shape, Onward

\* Any other change of the top frame.
LEMMA FrameShape ==
    ASSUME TypeInv, stack # <<>>, running' = running, top.at # "find",
           NEW t, FrameOK(t), stack' = [stack EXCEPT ![depth] = t],
           t.at # "find", t.pkg = top.pkg, t.todo \subseteq top.todo
    PROVE  Shape
<1>1. Moved(t) /\ t \in Frame
  BY MovedKeeps DEF FrameOK
<1> QED BY <1>1 DEF Shape, Onward

\* The checks.
LEMMA ChecksShape ==
    ASSUME TypeInv, stack # <<>>,
           OpenArchive \/ CheckAlreadyInstalled \/ CheckOtherInstalled \/ CheckConflicts
    PROVE  Shape
<1>1. FrameOK(top) /\ top \in Frame
  BY TopIsFrame
<1>2. running' = running
  BY DEF OpenArchive, CheckAlreadyInstalled, CheckOtherInstalled, CheckConflicts, cmdVars
<1>3. ASSUME NEW ok \in BOOLEAN, Return(ok) PROVE Shape
  BY <1>2, <1>3, ReturnKeeps DEF Shape
<1>4. CASE OpenArchive
  <2>1. top.at = "find"
    BY <1>4 DEF OpenArchive, At
  <2>2. CASE ~Return(FALSE)
    <3>1. PICK p \in Candidates(top.arg) :
               stack' = [stack EXCEPT
                      ![depth].at = "already", ![depth].pkg = p,
                      ![depth].dir = IF opt.no_record /\ ~opt.fake THEN NoPkg ELSE p,
                      ![depth].todo = Deps[p]]
      BY <1>4, <2>2 DEF OpenArchive
    <3> DEFINE t == Opened(p)
    <3>2. stack' = [stack EXCEPT ![depth] = t]
      BY <3>1 DEF top, Opened
    <3>3. p \in Pkg /\ Deps[p] \subseteq Pattern
      BY <1>1, CandidatesType, DepsAssumption DEF Frame
    <3>4. t \in Frame /\ t.at = "already" /\ t.pkg = p /\ t.todo = Deps[p]
      BY <1>1, <3>3, OpenedFrame
    <3> HIDE DEF t
    <3>5. FrameOK(t)
      BY <1>1, <3>3, <3>4 DEF FrameOK
    <3>6. Moved(t)
      BY <1>2, <3>2, <3>5, MovedKeeps
    <3> QED BY <2>1, <3>4, <3>6 DEF Shape
  <2> QED BY <1>3, <2>2
<1>5. CASE CheckAlreadyInstalled
  <2>1. top.at = "already" /\ top.pkg \in Pkg
    BY <1>1, <1>5 DEF CheckAlreadyInstalled, At, FrameOK
  <2>2. CASE Goto("other")
    BY <1>2, <2>1, <2>2, GotoShape DEF Locations
  <2>3. CASE stack' = [stack EXCEPT
                        ![depth].at = "other", ![depth].other = top.pkg,
                        ![depth].dir = IF @ = NoPkg THEN NoPkg ELSE Temp[top.pkg]]
    <3> DEFINE t == Replacing
    <3>1. stack' = [stack EXCEPT ![depth] = t]
      BY <2>3 DEF top, Replacing
    <3>2. t \in Frame /\ t.at = "other" /\ t.pkg = top.pkg /\ t.todo = top.todo
      BY <1>1, <2>1, ReplacingFrame
    <3> HIDE DEF t
    <3>3. FrameOK(t) /\ top.at # "find"
      BY <2>1, <3>2 DEF FrameOK
    <3> QED BY <1>2, <3>1, <3>2, <3>3, FrameShape
  <2> QED BY <1>3, <1>5, <2>2, <2>3 DEF CheckAlreadyInstalled
<1>6. CASE CheckOtherInstalled
  <2>1. top.at = "other" /\ top.pkg \in Pkg
    BY <1>1, <1>6 DEF CheckOtherInstalled, At, FrameOK
  <2>2. CASE Goto("conflict")
    BY <1>2, <2>1, <2>2, GotoShape DEF Locations
  <2>3. ASSUME NEW o \in OtherVersion(top.pkg),
               stack' = [stack EXCEPT ![depth].at = "conflict", ![depth].other = o]
        PROVE  Shape
    <3> DEFINE t == [top EXCEPT !.at = "conflict", !.other = o]
    <3>1. o \in Pkg
      BY <2>1, BaseAssumption, MatchAssumption DEF OtherVersion, Best, Installed
    <3>2. stack' = [stack EXCEPT ![depth] = t]
      BY <2>3 DEF top
    <3>3. t \in Frame /\ t.at = "conflict" /\ t.pkg = top.pkg /\ t.todo = top.todo
      BY <1>1, <3>1 DEF Frame, Locations
    <3> HIDE DEF t
    <3>4. FrameOK(t) /\ top.at # "find"
      BY <2>1, <3>3 DEF FrameOK
    <3> QED BY <1>2, <3>2, <3>3, <3>4, FrameShape
  <2> QED BY <1>3, <1>6, <2>2, <2>3 DEF CheckOtherInstalled
<1>7. CASE CheckConflicts
  <2>1. top.at = "conflict"
    BY <1>7 DEF CheckConflicts, At
  <2>2. stack' = <<>> \/ Return(FALSE) \/ Goto("mkdir") \/ Goto("deps")
    BY <1>7 DEF CheckConflicts
  <2>3. CASE stack' = <<>>
    BY <2>3 DEF Shape
  <2> QED BY <1>2, <1>3, <2>1, <2>2, <2>3, GotoShape DEF Locations
<1> QED BY <1>4, <1>5, <1>6, <1>7

\* check_dependencies.
LEMMA DepsShape ==
    ASSUME TypeInv, stack # <<>>,
           \/ \E pt \in Pattern : CheckDependency(pt)
           \/ DependencyInstalled \/ DependencyMissing \/ DependenciesDone
    PROVE  Shape
<1>1. depth \in Nat \ {0} /\ FrameOK(top) /\ top \in Frame
  BY TopIsFrame
<1>2. running' = running
  BY DEF CheckDependency, DependencyInstalled, DependencyMissing, DependenciesDone, cmdVars
<1>3. top.at \in {"deps", "again", "missing"} /\ top.pkg \in Pkg /\ top.at # "find"
  BY <1>1 DEF CheckDependency, DependencyInstalled, DependencyMissing, DependenciesDone,
              At, FrameOK
<1>4. CASE DependencyFailed
  BY <1>2, <1>3, <1>4, ReturnKeeps, GotoShape DEF DependencyFailed, Shape, Locations
<1>5. ASSUME NEW t \in Frame, stack' = [stack EXCEPT ![depth] = t], t.at = "deps",
             t.pkg = top.pkg, t.todo \subseteq top.todo
      PROVE  Shape
  <2>1. FrameOK(t)
    BY <1>3, <1>5 DEF FrameOK
  <2> QED BY <1>2, <1>3, <1>5, <2>1, FrameShape
<1>6. CASE \E pt \in Pattern : CheckDependency(pt)
  <2>1. PICK pt \in Pattern : CheckDependency(pt)
    BY <1>6
  <2>2. top.at = "deps" /\ pt \in top.todo
    BY <2>1 DEF CheckDependency, At
  <2>3. CASE \E d \in Best(Installed(pt)) :
                stack' = [stack EXCEPT ![depth].todo = top.todo \ {pt},
                                       ![depth].deps = @ \cup {d}]
    <3>1. PICK d \in Best(Installed(pt)) :
             stack' = [stack EXCEPT ![depth].todo = top.todo \ {pt}, ![depth].deps = @ \cup {d}]
      BY <2>3
    <3>2. d \in Pkg
      BY MatchAssumption DEF Best, Installed
    <3> DEFINE t == [top EXCEPT !.todo = top.todo \ {pt}, !.deps = @ \cup {d}]
    <3>3. t \in Frame /\ t.at = "deps" /\ t.pkg = top.pkg /\ t.todo = top.todo \ {pt}
      BY <1>1, <2>2, <3>2 DEF Frame
    <3>4. stack' = [stack EXCEPT ![depth] = t]
      BY <3>1 DEF top
    <3> HIDE DEF t
    <3> QED BY <1>5, <3>3, <3>4
  <2>4. CASE stack' = [stack EXCEPT ![depth].todo = top.todo \ {pt}]
    <3> DEFINE t == [top EXCEPT !.todo = top.todo \ {pt}]
    <3>1. t \in Frame /\ t.at = "deps" /\ t.pkg = top.pkg /\ t.todo = top.todo \ {pt}
      BY <1>1, <2>2 DEF Frame
    <3>2. stack' = [stack EXCEPT ![depth] = t]
      BY <2>4 DEF top
    <3> HIDE DEF t
    <3> QED BY <1>5, <3>1, <3>2
  <2>5. CASE stack' = Append([stack EXCEPT ![depth].todo = top.todo \ {pt},
                                            ![depth].dep = pt],
                              Push(pt, TRUE)[depth + 1])
    <3> DEFINE s == [top EXCEPT !.todo = top.todo \ {pt}, !.dep = pt]
               t == NewFrame(pt, TRUE)
    <3>1. /\ s \in Frame /\ s.at = "deps" /\ s.pkg = top.pkg /\ s.other = top.other
          /\ s.dir = top.dir /\ s.todo = top.todo \ {pt} /\ s.dep = pt
      BY <1>1, <2>2 DEF Frame
    <3>2. stack' = Append([stack EXCEPT ![depth] = s], t)
      <4>1. Push(pt, TRUE)[depth + 1] = t
        BY <1>1, AppendFrame DEF Push, NewFrame, TypeInv, depth, Frame, Locations
      <4>2. [stack EXCEPT ![depth].todo = top.todo \ {pt}, ![depth].dep = pt]
              = [stack EXCEPT ![depth] = s]
        BY DEF top
      <4> QED BY <2>5, <4>1, <4>2
    <3> HIDE DEF s
    <3>3. FrameOK(s) /\ Suspended(s)
      BY <1>3, <3>1 DEF FrameOK, Suspended
    <3>4. Nested(s, t)
      BY <1>2, <3>2, <3>3, NestedKeeps
    <3> QED BY <2>2, <3>1, <3>4 DEF Shape
  <2> QED BY <1>4, <2>1, <2>3, <2>4, <2>5 DEF CheckDependency
<1>7. CASE DependencyInstalled \/ DependencyMissing
  <2>1. CASE stack' = [stack EXCEPT ![depth].at = "deps", ![depth].dep = NoPkg]
    <3> DEFINE t == [top EXCEPT !.at = "deps", !.dep = NoPkg]
    <3>1. t \in Frame /\ t.at = "deps" /\ t.pkg = top.pkg /\ t.todo = top.todo
      BY <1>1 DEF Frame, Locations
    <3>2. stack' = [stack EXCEPT ![depth] = t]
      BY <2>1 DEF top
    <3> HIDE DEF t
    <3> QED BY <1>5, <3>1, <3>2
  <2>2. CASE \E d \in Best(Installed(top.dep)) :
                stack' = [stack EXCEPT ![depth].at = "deps", ![depth].dep = NoPkg,
                                       ![depth].deps = @ \cup {d}]
    <3>1. PICK d \in Best(Installed(top.dep)) :
             stack' = [stack EXCEPT ![depth].at = "deps", ![depth].dep = NoPkg,
                                    ![depth].deps = @ \cup {d}]
      BY <2>2
    <3>2. d \in Pkg
      BY DEF Best, Installed, TypeInv, DataOK, DBTypeOK
    <3> DEFINE t == [top EXCEPT !.at = "deps", !.dep = NoPkg, !.deps = @ \cup {d}]
    <3>3. t \in Frame /\ t.at = "deps" /\ t.pkg = top.pkg /\ t.todo = top.todo
      BY <1>1, <3>2 DEF Frame, Locations
    <3>4. stack' = [stack EXCEPT ![depth] = t]
      BY <3>1 DEF top
    <3> HIDE DEF t
    <3> QED BY <1>5, <3>3, <3>4
  <2> QED BY <1>4, <1>7, <2>1, <2>2 DEF DependencyInstalled, DependencyMissing
<1>8. CASE DependenciesDone
  <2>1. Goto("pre") \/ Goto("mkdir")
    BY <1>8 DEF DependenciesDone
  <2> QED BY <1>2, <1>3, <2>1, GotoShape DEF Locations
<1> QED BY <1>6, <1>7, <1>8

\* The other steps.
LEMMA OtherShape ==
    ASSUME TypeInv, stack # <<>>,
           \/ MakeDir \/ WriteMeta \/ MoveRequiredBy \/ MoveRest \/ DeleteOld \/ RenameDir
           \/ PreInstall \/ (\E f \in File : ExtractFile(f)) \/ ExtractDone \/ ExtractFail
           \/ PostInstall \/ (\E d \in Pkg : RegisterDepend(d)) \/ RegisterDone
           \/ NukePkg \/ NukeMeta \/ NukeDir
    PROVE  Shape
<1>1. FrameOK(top) /\ top \in Frame
  BY TopIsFrame
<1>2. running' = running
  BY DEF MakeDir, WriteMeta, MoveRequiredBy, MoveRest, DeleteOld, RenameDir, PreInstall,
         ExtractFile, ExtractDone, ExtractFail, PostInstall, RegisterDepend, RegisterDone,
         NukePkg, NukeMeta, NukeDir, cmdVars
<1>3. CASE \/ MakeDir \/ WriteMeta \/ MoveRequiredBy \/ MoveRest \/ DeleteOld
           \/ PreInstall \/ ExtractDone \/ ExtractFail \/ PostInstall \/ NukePkg
  <2>1. \/ Goto("write") \/ Goto("pre") \/ Goto("nukedb") \/ Goto("extract") \/ Goto("post")
        \/ Goto("nukepkg") \/ Goto("register")
        \/ Goto("move") /\ top.other # NoPkg
        \/ /\ top.at \in {"move", "moverest", "delete"}
           /\ Goto("moverest") \/ Goto("delete") \/ Goto("rename")
    BY <1>3 DEF MakeDir, WriteMeta, MoveRequiredBy, MoveRest, DeleteOld, PreInstall,
                ExtractDone, ExtractFail, PostInstall, NukePkg, At
  <2>2. top.at # "find"
    BY <1>3 DEF MakeDir, WriteMeta, MoveRequiredBy, MoveRest, DeleteOld, PreInstall,
                ExtractDone, ExtractFail, PostInstall, NukePkg, At
  <2>3. /\ top.other # NoPkg => top.other \in Pkg
        /\ top.at \in {"move", "moverest", "delete"} => top.other \in Pkg
    BY <1>1 DEF FrameOK, Frame
  <2> QED BY <1>2, <2>1, <2>2, <2>3, GotoShape DEF Locations
<1>4. CASE RenameDir
  <2> DEFINE t == [top EXCEPT !.at = "deps", !.dir = IF @ = NoPkg THEN NoPkg ELSE top.pkg]
  <2>1. top.at = "rename" /\ top.pkg \in Pkg
    BY <1>1, <1>4 DEF RenameDir, At, FrameOK
  <2>2. stack' = [stack EXCEPT ![depth] = t]
    BY <1>4 DEF RenameDir, top
  <2>3. t \in Frame /\ t.at = "deps" /\ t.pkg = top.pkg /\ t.todo = top.todo
    BY <1>1, <2>1 DEF Frame, Locations
  <2> HIDE DEF t
  <2>4. FrameOK(t) /\ top.at # "find"
    BY <2>1, <2>3 DEF FrameOK
  <2> QED BY <1>2, <2>2, <2>3, <2>4, FrameShape
<1>5. CASE (\E f \in File : ExtractFile(f)) \/ NukeMeta
  BY <1>5 DEF ExtractFile, NukeMeta, Shape
<1>6. CASE \E d \in Pkg : RegisterDepend(d)
  <2>1. PICK d \in Pkg : RegisterDepend(d)
    BY <1>6
  <2> DEFINE t == [top EXCEPT !.deps = @ \ {d}]
  <2>2. stack' = [stack EXCEPT ![depth] = t] /\ top.at = "register"
    BY <2>1 DEF RegisterDepend, At, top
  <2>3. t \in Frame /\ t.at = top.at /\ t.pkg = top.pkg /\ t.todo = top.todo
    BY <1>1 DEF Frame
  <2> HIDE DEF t
  <2>4. FrameOK(t) /\ top.at # "find"
    BY <1>1, <2>2, <2>3 DEF FrameOK
  <2> QED BY <1>2, <2>2, <2>3, <2>4, FrameShape
<1>7. CASE RegisterDone \/ NukeDir
  <2>1. Return(TRUE) \/ Return(FALSE)
    BY <1>7 DEF RegisterDone, NukeDir
  <2> QED BY <1>2, <2>1, ReturnKeeps DEF Shape
<1> QED BY <1>3, <1>4, <1>5, <1>6, <1>7

\* The packages a frame wants are known where it is installed for.
LEMMA NestMoved ==
    ASSUME NEW Under, TypeInv, NestInv(Under), stack # <<>>,
           NEW t, Moved(t), t.at # "find", t.todo \subseteq Deps[t.pkg],
           \A i \in 1..(depth - 1) : t.pkg \in Under[stack[i].pkg]
    PROVE  NestInv(Under)'
<1>1. depth \in Nat \ {0} /\ depth' = depth
  BY TopIsFrame DEF Moved
<1>2. /\ stack'[depth] = t /\ stack[depth] = top
      /\ \A i \in 1..(depth - 1) : stack'[i] = stack[i]
  BY <1>1 DEF Moved, top
<1>3. \A i \in 1..depth : i = depth \/ i \in 1..(depth - 1)
  BY <1>1
<1>4. \A i \in 1..depth : stack'[i].at # "find" => stack'[i].todo \subseteq Deps[stack'[i].pkg]
  BY <1>2, <1>3 DEF NestInv
<1>5. ASSUME NEW i \in 1..depth, NEW j \in 1..depth, i < j
      PROVE  /\ stack'[j].at = "find" => stack'[j].arg \in Pattern
             /\ Wanted(stack'[j]) \subseteq Under[stack'[i].pkg]
  <2>1. i \in 1..(depth - 1) /\ stack'[i] = stack[i]
    BY <1>1, <1>2, <1>5
  <2>2. CASE j = depth
    BY <1>2, <2>1, <2>2 DEF Wanted
  <2>3. CASE j \in 1..(depth - 1)
    <3>1. stack'[j] = stack[j]
      BY <1>2, <2>3
    <3> QED BY <1>5, <2>1, <3>1 DEF NestInv
  <2> QED BY <1>3, <2>2, <2>3
<1> QED BY <1>1, <1>4, <1>5 DEF NestInv, Wanted

\* The package of the top frame may be installed for those below.
LEMMA TopNest ==
    ASSUME NEW Under, TypeInv, NestInv(Under), stack # <<>>,
           NEW i \in 1..(depth - 1)
    PROVE  /\ stack[i].pkg \in Pkg /\ stack[i].at = "deps" /\ FrameOK(stack[i])
           /\ top.at = "find" => top.arg \in Pattern
           /\ Wanted(top) \subseteq Under[stack[i].pkg]
<1>1. i \in 1..depth /\ depth \in 1..depth /\ i < depth /\ top = stack[depth]
  BY TopIsFrame DEF top
<1>2. FrameOK(stack[i]) /\ Suspended(stack[i])
  BY <1>1 DEF TypeInv, StackInv
<1>3. stack[i].pkg \in Pkg /\ stack[i].at = "deps"
  BY <1>2 DEF FrameOK, Suspended
<1> QED BY <1>1, <1>2, <1>3 DEF NestInv

\* A return leaves the packages of the frames below.
LEMMA NestPopped ==
    ASSUME NEW Under, TypeInv, NestInv(Under), stack # <<>>, stack' # <<>>, Popped
    PROVE  NestInv(Under)'
<1>1. depth \in Nat \ {0}
  BY TopIsFrame
<1>2. /\ depth > 1 /\ depth' = depth - 1
      /\ \A i \in 1..(depth - 2) : stack'[i] = stack[i]
  BY DEF Popped
<1>3. PICK l \in {"again", "missing"} : top' = [stack[depth - 1] EXCEPT !.at = l]
  BY DEF Popped
<1>4. stack[depth - 1] \in Frame /\ stack[depth - 1].at = "deps"
  BY <1>1, <1>2 DEF TypeInv, StackInv, FrameOK, Suspended
<1> DEFINE s == stack[depth - 1]
           t == [s EXCEPT !.at = l]
<1>5. t.at = l /\ t.pkg = s.pkg /\ t.todo = s.todo /\ s = stack[depth - 1]
  BY <1>4 DEF Frame
<1>6. stack'[depth - 1] = t
  BY <1>2, <1>3 DEF top
<1> HIDE DEF t, s
<1>7. \A i \in 1..(depth - 1) : i \in 1..depth /\ (i = depth - 1 \/ i \in 1..(depth - 2))
  BY <1>1
<1>8. \A i \in 1..(depth - 1) : /\ stack'[i].pkg = stack[i].pkg
                                /\ stack'[i].todo = stack[i].todo
                                /\ stack'[i].at # "find" /\ stack[i].at # "find"
  <2> TAKE i \in 1..(depth - 1)
  <2>1. stack[i].at # "find"
    BY DEF TypeInv, StackInv, Suspended
  <2>2. CASE i = depth - 1
    BY <1>5, <1>6, <2>1, <2>2
  <2>3. CASE i \in 1..(depth - 2)
    BY <1>2, <2>1, <2>3
  <2> QED BY <1>7, <2>2, <2>3
<1>9. \A i \in 1..(depth - 1) : stack'[i].todo \subseteq Deps[stack'[i].pkg]
  BY <1>7, <1>8 DEF NestInv
<1>10. \A i, j \in 1..(depth - 1) : i < j => Wanted(stack'[j]) \subseteq Under[stack'[i].pkg]
  BY <1>7, <1>8 DEF NestInv, Wanted
<1> QED BY <1>2, <1>8, <1>9, <1>10 DEF NestInv, Wanted

\* A nested call is for a dependency.
LEMMA NestNested ==
    ASSUME NEW Under, Closed(Under), TypeInv, NestInv(Under), stack # <<>>,
           NEW pt \in top.todo, NEW s \in Frame, Nested(s, NewFrame(pt, TRUE)),
           top.at = "deps", s.at = "deps", s.pkg = top.pkg, s.todo \subseteq top.todo
    PROVE  NestInv(Under)'
<1> DEFINE t == NewFrame(pt, TRUE)
<1>1. /\ depth \in Nat \ {0} /\ depth \in 1..depth /\ FrameOK(top) /\ top \in Frame
      /\ top = stack[depth]
  BY TopIsFrame DEF top
<1>2. t.at = "find" /\ t.arg = pt
  BY DEF NewFrame
<1>3. pt \in Pattern /\ top.pkg \in Pkg
  BY <1>1 DEF Frame, FrameOK
<1> HIDE DEF t
<1>4. /\ depth' = depth + 1 /\ stack'[depth + 1] = t /\ stack'[depth] = s
      /\ \A i \in 1..(depth - 1) : stack'[i] = stack[i]
  BY DEF Nested, top, t
<1>5. \A i \in 1..(depth + 1) : i = depth + 1 \/ i = depth \/ i \in 1..(depth - 1)
  BY <1>1
<1>6. \A i \in 1..(depth - 1) : i \in 1..depth /\ i < depth
  BY <1>1
<1>7. top.todo \subseteq Deps[top.pkg]
  BY <1>1 DEF NestInv
<1>8. \A i \in 1..(depth + 1) :
         stack'[i].at # "find" => stack'[i].todo \subseteq Deps[stack'[i].pkg]
  <2>1. \A i \in 1..(depth - 1) :
           stack'[i].at # "find" => stack'[i].todo \subseteq Deps[stack'[i].pkg]
    BY <1>4, <1>6 DEF NestInv
  <2> QED BY <1>2, <1>4, <1>5, <1>7, <2>1
<1>9. \A i \in 1..depth : stack'[i].pkg = stack[i].pkg
  BY <1>1, <1>4, <1>5
<1>10. \A i \in 1..(depth - 1) : stack[i].pkg \in Pkg /\ top.pkg \in Under[stack[i].pkg]
  BY TopNest DEF Wanted
<1>11. \A i \in 1..depth : Match[pt] \cap Repo \subseteq Under[stack[i].pkg]
  <2> TAKE i \in 1..depth
  <2>1. Match[pt] \cap Repo \subseteq Under[top.pkg]
    BY <1>3, <1>7 DEF Closed
  <2>2. CASE i \in 1..(depth - 1)
    <3>1. Under[top.pkg] \subseteq Under[stack[i].pkg]
      BY <1>10, <2>2 DEF Closed
    <3> QED BY <2>1, <3>1
  <2> QED BY <1>1, <1>5, <2>1, <2>2
<1>12. ASSUME NEW i \in 1..(depth + 1), NEW j \in 1..(depth + 1), i < j
       PROVE  /\ stack'[j].at = "find" => stack'[j].arg \in Pattern
              /\ Wanted(stack'[j]) \subseteq Under[stack'[i].pkg]
  <2>1. i \in 1..depth
    BY <1>1, <1>12
  <2>2. CASE j = depth + 1
    BY <1>2, <1>3, <1>4, <1>9, <1>11, <2>1, <2>2 DEF Wanted
  <2>3. CASE j = depth
    <3>1. i \in 1..(depth - 1)
      BY <1>1, <1>12, <2>3
    <3> QED BY <1>4, <1>9, <1>10, <2>1, <2>3, <3>1 DEF Wanted
  <2>4. CASE j \in 1..(depth - 1)
    <3>1. stack'[j] = stack[j] /\ j \in 1..depth
      BY <1>4, <1>6, <2>4
    <3> QED BY <1>9, <1>12, <2>1, <3>1 DEF NestInv
  <2> QED BY <1>5, <2>2, <2>3, <2>4
<1> QED BY <1>4, <1>8, <1>12 DEF NestInv, Wanted

\* A stack of at most one frame that has not been looked at is nested well.
LEMMA NestShort ==
    ASSUME NEW Under, stack' = <<>> \/ (Len(stack') = 1 /\ stack'[1].at = "find")
    PROVE  NestInv(Under)'
<1>1. CASE stack' = <<>>
  <2>1. depth' = 0
    BY <1>1, EmptySeq DEF depth
  <2> QED BY <2>1 DEF NestInv
<1>2. CASE Len(stack') = 1 /\ stack'[1].at = "find"
  <2>1. depth' = 1 /\ (\A i \in 1..1 : stack'[i].at = "find") /\ \A i, j \in 1..1 : ~(i < j)
    BY <1>2 DEF depth
  <2> QED BY <2>1 DEF NestInv
<1> QED BY <1>1, <1>2

\* What is pushed by pkg_perform.
LEMMA FirstFrame ==
    ASSUME NextArg
    PROVE  /\ Len(stack') = 1 /\ depth' = 1 /\ top' = NewFrame(Head(args), opt.automatic)
           /\ \A i \in 1..1 : stack'[i] = NewFrame(Head(args), opt.automatic)
<1> DEFINE t == NewFrame(Head(args), opt.automatic)
<1>1. stack' = Append(<<>>, t)
  BY DEF NextArg, Push, NewFrame
<1> HIDE DEF t
<1>2. Len(stack') = 1 /\ stack'[1] = t
  BY <1>1, EmptySeq
<1>3. depth' = 1 /\ top' = t
  BY <1>2 DEF depth, top
<1> QED BY <1>2, <1>3 DEF t

\* Frames stay nested as their packages need each other.
LEMMA NestKeeps ==
    ASSUME NEW Under, Closed(Under), TypeInv, NestInv(Under), [Next]_vars
    PROVE  NestInv(Under)'
<1>1. CASE Step /\ ~NextArg /\ ~Finish
  <2>1. stack # <<>> /\ Shape
    BY <1>1, StepHasFrame, ChecksShape, DepsShape, OtherShape DEF Step
  <2>2. CASE stack' = <<>>
    BY <2>2, NestShort
  <2>3. CASE stack' = stack
    BY <2>3 DEF NestInv, Wanted, depth
  <2>4. CASE Popped /\ stack' # <<>>
    BY <2>1, <2>4, NestPopped
  <2>5. ASSUME NEW t \in Frame, Onward(t) PROVE NestInv(Under)'
    <3>1. \A i \in 1..(depth - 1) : t.pkg \in Under[stack[i].pkg]
      BY <2>1, <2>5, TopNest DEF Onward, Wanted
    <3>2. t.todo \subseteq Deps[t.pkg]
      <4>1. top = stack[depth] /\ depth \in 1..depth
        BY <2>1, TopIsFrame DEF top
      <4> QED BY <2>5, <4>1 DEF Onward, NestInv
    <3> QED BY <2>1, <2>5, <3>1, <3>2, NestMoved DEF Onward
  <2>6. ASSUME NEW p \in Candidates(top.arg), NEW t \in Frame,
               top.at = "find", Moved(t), t.at = "already", t.pkg = p, t.todo = Deps[p]
        PROVE  NestInv(Under)'
    <3>1. \A i \in 1..(depth - 1) : p \in Under[stack[i].pkg]
      <4> TAKE i \in 1..(depth - 1)
      <4>1. top.arg \in Pattern /\ Wanted(top) \subseteq Under[stack[i].pkg]
        BY <2>1, <2>6, TopNest
      <4>2. p \in Match[top.arg] \cap Repo
        BY <2>6, <4>1 DEF Closed, Candidates, Best
      <4> QED BY <2>6, <4>1, <4>2 DEF Wanted
    <3>2. t.at # "find"
      BY <2>6
    <3> QED BY <2>1, <2>6, <3>1, <3>2, NestMoved
  <2>7. ASSUME NEW pt \in top.todo, NEW s \in Frame, Nested(s, NewFrame(pt, TRUE)),
               top.at = "deps", s.at = "deps", s.pkg = top.pkg, s.todo \subseteq top.todo
        PROVE  NestInv(Under)'
    BY <2>1, <2>7, NestNested
  <2> QED BY <2>1, <2>2, <2>3, <2>4, <2>5, <2>6, <2>7 DEF Shape
<1>2. CASE NextArg
  BY <1>2, FirstFrame, NestShort DEF NewFrame
<1>3. CASE UNCHANGED vars
  BY <1>3 DEF vars, NestInv, Wanted, depth
<1>4. CASE Finish \/ Crash \/ \E o \in Options : \E a \in Requests[o] : Invoke(o, a)
  BY <1>4, NestShort DEF Finish, Crash, Invoke, TypeInv, StackInv
<1> QED BY <1>1, <1>2, <1>3, <1>4 DEF Next

-----------------------------------------------------------------------------
(* No installed file is overwritten.                                       *)

\* Places from which the package will still be extracted, its conflicts being
\* checked.
Checked == {"mkdir", "write", "move", "moverest", "delete", "rename", "deps", "again",
            "missing", "pre", "extract"}

\* No file of the frame's package is in the index w, but those of the version
\* that it replaces.
ApartFrame(t, w) ==
    t.at \in Checked => \A f \in Contents[t.pkg] : w[f] \in {NoPkg, t.other}

ApartInv ==
    ~opt.force /\ ~opt.fake =>
        /\ \A i \in 1..depth : ApartFrame(stack[i], owner)
        /\ stack # <<>> /\ top.at = "extract" => files \subseteq Contents[top.pkg]

\* Names are only stored for files of the top frame's package.
StoresOwn == \A f \in File : owner'[f] \in {NoPkg, owner[f]} \/ f \in Contents[top.pkg]

\* The top frame's part of the condition.
LEMMA TopApart ==
    ASSUME TypeInv, ApartInv, stack # <<>>, ~opt.force, ~opt.fake
    PROVE  /\ ApartFrame(top, owner)
           /\ top.at = "extract" => files \subseteq Contents[top.pkg]
BY TopIsFrame DEF ApartInv, top

\* Frames below the top keep what they know.
LEMMA LowerApart ==
    ASSUME NEW Under, Apart(Under), TypeInv, NestInv(Under), ApartInv, stack # <<>>,
           ~opt.force, ~opt.fake, StoresOwn, top.at # "find" \/ UNCHANGED owner,
           NEW i \in 1..(depth - 1)
    PROVE  ApartFrame(stack[i], owner')
<1> DEFINE t == stack[i]
<1>1. depth \in Nat \ {0} /\ i \in 1..depth /\ depth \in 1..depth /\ i < depth
  BY TopIsFrame
<1>2. FrameOK(t) /\ t.at = "deps" /\ t.pkg \in Pkg /\ t \in Frame
  BY <1>1 DEF TypeInv, StackInv, FrameOK, Suspended
<1>3. ApartFrame(t, owner)
  BY <1>1 DEF ApartInv
<1>4. CASE UNCHANGED owner
  BY <1>3, <1>4
<1>5. CASE top.at # "find"
  <2>1. top.pkg \in Under[t.pkg]
    <3>1. Wanted(top) \subseteq Under[t.pkg]
      BY TopNest
    <3> QED BY <1>5, <3>1 DEF Wanted
  <2>2. Contents[top.pkg] \cap Contents[t.pkg] = {}
    BY <1>2, <2>1 DEF Apart
  <2>3. \A f \in Contents[t.pkg] : f \in File
    BY <1>2, ContentsAssumption
  <2> HIDE DEF t
  <2>4. \A f \in Contents[t.pkg] : owner'[f] \in {NoPkg, owner[f]}
    BY <2>2, <2>3 DEF StoresOwn
  <2>5. t.at \in Checked
    BY <1>2 DEF Checked
  <2>6. \A f \in Contents[t.pkg] : owner[f] \in {NoPkg, t.other}
    BY <1>3, <2>5 DEF ApartFrame
  <2>7. ApartFrame(t, owner')
    BY <2>4, <2>6 DEF ApartFrame
  <2> QED BY <2>7 DEF t
<1> QED BY <1>4, <1>5

\* What is left to show of a step that replaces the top frame.
LEMMA MovedApart ==
    ASSUME NEW Under, Apart(Under), TypeInv, NestInv(Under), ApartInv, stack # <<>>,
           opt' = opt, running' = running, StoresOwn, top.at # "find" \/ UNCHANGED owner,
           NEW t, Moved(t), t.at # "find",
           ~opt.force /\ ~opt.fake =>
              /\ ApartFrame(t, owner')
              /\ t.at = "extract" => files' \subseteq Contents[t.pkg]
    PROVE  ApartInv'
<1> SUFFICES ASSUME ~opt.force, ~opt.fake PROVE ApartInv'
  BY DEF ApartInv
<1>1. depth \in Nat \ {0} /\ depth' = depth /\ top' = t /\ stack' # <<>>
  BY TopIsFrame DEF Moved
<1>2. /\ stack'[depth] = t /\ stack[depth] = top
      /\ \A i \in 1..(depth - 1) : stack'[i] = stack[i]
  BY <1>1 DEF Moved, top
<1>3. \A i \in 1..depth : i = depth \/ i \in 1..(depth - 1)
  BY <1>1
<1>4. \A i \in 1..depth : ApartFrame(stack'[i], owner')
  <2> TAKE i \in 1..depth
  <2>1. CASE i = depth
    BY <1>2, <2>1
  <2>2. CASE i \in 1..(depth - 1)
    BY <1>2, <2>2, LowerApart
  <2> QED BY <1>3, <2>1, <2>2
<1> QED BY <1>1, <1>4 DEF ApartInv, ApartFrame

\* What is left to show of one that returns.
LEMMA PoppedApart ==
    ASSUME NEW Under, Apart(Under), TypeInv, NestInv(Under), ApartInv, stack # <<>>,
           opt' = opt, running' = running, owner' = owner, Popped
    PROVE  ApartInv'
<1> SUFFICES ASSUME ~opt.force, ~opt.fake PROVE ApartInv'
  BY DEF ApartInv
<1>1. depth \in Nat \ {0}
  BY TopIsFrame
<1>2. CASE stack' = <<>>
  <2>1. depth' = 0
    BY <1>2, EmptySeq DEF depth
  <2> QED BY <1>2, <2>1 DEF ApartInv
<1>3. CASE stack' # <<>>
  <2>1. /\ depth > 1 /\ depth' = depth - 1
        /\ \A i \in 1..(depth - 2) : stack'[i] = stack[i]
    BY <1>3 DEF Popped
  <2>2. PICK l \in {"again", "missing"} : top' = [stack[depth - 1] EXCEPT !.at = l]
    BY <1>3 DEF Popped
  <2>3. stack[depth - 1] \in Frame /\ stack[depth - 1].at = "deps"
    BY <1>1, <2>1 DEF TypeInv, StackInv, FrameOK, Suspended
  <2> DEFINE s == stack[depth - 1]
             t == [s EXCEPT !.at = l]
  <2>4. /\ t.at = l /\ t.arg = s.arg /\ t.pkg = s.pkg /\ t.other = s.other
        /\ t.dir = s.dir /\ t.todo = s.todo
    BY <2>3 DEF Frame
  <2>5. stack'[depth - 1] = t /\ top' = t
    BY <2>1, <2>2 DEF top
  <2>6. s.at = "deps" /\ depth - 1 \in 1..depth
    BY <1>1, <2>1, <2>3
  <2>7. ApartFrame(s, owner)
    BY <2>6 DEF ApartInv
  <2>8. s = stack[depth - 1]
    OBVIOUS
  <2> HIDE DEF t, s
  <2>9. ApartFrame(t, owner)
    BY <2>4, <2>6, <2>7 DEF ApartFrame, Checked
  <2>10. \A i \in 1..(depth - 1) : i \in 1..depth /\ (i = depth - 1 \/ i \in 1..(depth - 2))
    BY <1>1
  <2>11. \A i \in 1..(depth - 1) : ApartFrame(stack'[i], owner)
    <3> TAKE i \in 1..(depth - 1)
    <3>1. CASE i = depth - 1
      BY <2>5, <2>9, <3>1
    <3>2. CASE i \in 1..(depth - 2)
      BY <2>1, <2>10, <3>2 DEF ApartInv
    <3> QED BY <2>10, <3>1, <3>2
  <2>12. top'.at # "extract"
    BY <2>4, <2>5
  <2> QED BY <2>1, <2>11, <2>12 DEF ApartInv, ApartFrame
<1> QED BY <1>2, <1>3

\* A change of place.
LEMMA GotoApart ==
    ASSUME NEW Under, Apart(Under), TypeInv, NestInv(Under), ApartInv, stack # <<>>,
           top.at # "find", opt' = opt, running' = running, StoresOwn,
           NEW l \in Locations \ {"find", "again", "missing"}, Goto(l),
           l \in {"move", "moverest", "delete", "rename"} => top.other \in Pkg,
           ~opt.force /\ ~opt.fake =>
              /\ l \in Checked => \A f \in Contents[top.pkg] : owner'[f] \in {NoPkg, top.other}
              /\ l = "extract" => files' \subseteq Contents[top.pkg]
    PROVE  ApartInv'
<1> DEFINE t == [top EXCEPT !.at = l]
<1>1. Moved(t)
  BY GotoKeeps
<1>2. TopAt(t, l)
  BY TopIsFrame DEF Frame, TopAt
<1> HIDE DEF t
<1>3. ASSUME ~opt.force, ~opt.fake
      PROVE  /\ ApartFrame(t, owner')
             /\ t.at = "extract" => files' \subseteq Contents[t.pkg]
  BY <1>2, <1>3 DEF TopAt, ApartFrame
<1>4. t.at # "find"
  BY <1>2 DEF TopAt
<1> QED BY <1>1, <1>3, <1>4, MovedApart

\* A new top frame in check_dependencies or earlier, and the same index.
LEMMA StillApart ==
    ASSUME NEW Under, Apart(Under), TypeInv, NestInv(Under), ApartInv, stack # <<>>,
           top.at # "find", UNCHANGED <<opt, running, owner>>,
           NEW t, FrameOK(t), stack' = [stack EXCEPT ![depth] = t],
           t.pkg = top.pkg, t.at \notin {"find", "extract"}, t.todo \subseteq top.todo,
           t.at \in Checked => top.at \in Checked /\ t.other = top.other
    PROVE  ApartInv'
<1>1. Moved(t)
  BY MovedKeeps
<1>2. StoresOwn
  BY DEF StoresOwn
<1>3. ASSUME ~opt.force, ~opt.fake
      PROVE  ApartFrame(t, owner')
  <2>1. ApartFrame(top, owner)
    BY <1>3, TopApart
  <2> QED BY <2>1 DEF ApartFrame
<1> QED BY <1>1, <1>2, <1>3, MovedApart

\* The archive that is opened is of a package wanted below.
LEMMA OpenApart ==
    ASSUME NEW Under, Apart(Under), TypeInv, NestInv(Under), ApartInv, stack # <<>>, OpenArchive
    PROVE  ApartInv'
<1>1. top.at = "find" /\ UNCHANGED <<opt, running, owner>>
  BY DEF OpenArchive, At, dbVars, cmdVars
<1>2. CASE Return(FALSE)
  BY <1>1, <1>2, ReturnKeeps, PoppedApart
<1>3. CASE ~Return(FALSE)
  <2>1. FrameOK(top) /\ top \in Frame
    BY TopIsFrame
  <2>2. PICK p \in Candidates(top.arg) :
             stack' = [stack EXCEPT
                    ![depth].at = "already", ![depth].pkg = p,
                    ![depth].dir = IF opt.no_record /\ ~opt.fake THEN NoPkg ELSE p,
                    ![depth].todo = Deps[p]]
    BY <1>3 DEF OpenArchive
  <2> DEFINE t == Opened(p)
  <2>3. stack' = [stack EXCEPT ![depth] = t]
    BY <2>2 DEF top, Opened
  <2>4. p \in Pkg /\ p \in Repo /\ Deps[p] \subseteq Pattern
    BY <2>1, CandidatesType, DepsAssumption DEF Frame
  <2>5. t \in Frame /\ t.at = "already" /\ t.pkg = p /\ t.todo = Deps[p]
    BY <2>1, <2>4, OpenedFrame
  <2> HIDE DEF t
  <2>6. FrameOK(t)
    BY <2>1, <2>4, <2>5 DEF FrameOK
  <2>7. Moved(t)
    BY <1>1, <2>3, <2>6, MovedKeeps
  <2>8. ApartFrame(t, owner')
    BY <2>5 DEF ApartFrame, Checked
  <2>9. StoresOwn
    BY <1>1 DEF StoresOwn
  <2> QED BY <1>1, <2>5, <2>7, <2>8, <2>9, MovedApart
<1> QED BY <1>2, <1>3

\* The other checks: what check_implicit_conflict has found out.
LEMMA ChecksApart ==
    ASSUME NEW Under, Apart(Under), TypeInv, NestInv(Under), ApartInv, stack # <<>>,
           CheckAlreadyInstalled \/ CheckOtherInstalled \/ CheckConflicts
    PROVE  ApartInv'
<1>1. FrameOK(top) /\ top \in Frame
  BY TopIsFrame
<1>2. UNCHANGED <<opt, running, owner>> /\ StoresOwn /\ top.at # "find"
  BY DEF CheckAlreadyInstalled, CheckOtherInstalled, CheckConflicts, dbVars, cmdVars,
         indexVars, StoresOwn, At
<1>3. ASSUME NEW ok \in BOOLEAN, Return(ok) PROVE ApartInv'
  BY <1>2, <1>3, ReturnKeeps, PoppedApart
<1>4. ASSUME Goto("other") \/ Goto("conflict") PROVE ApartInv'
  BY <1>2, <1>4, GotoApart DEF Locations, Checked
<1>5. CASE CheckAlreadyInstalled
  <2>1. top.at = "already" /\ top.pkg \in Pkg
    BY <1>1, <1>5 DEF CheckAlreadyInstalled, At, FrameOK
  <2>2. CASE stack' = [stack EXCEPT
                        ![depth].at = "other", ![depth].other = top.pkg,
                        ![depth].dir = IF @ = NoPkg THEN NoPkg ELSE Temp[top.pkg]]
    <3> DEFINE t == Replacing
    <3>1. stack' = [stack EXCEPT ![depth] = t]
      BY <2>2 DEF top, Replacing
    <3>2. t \in Frame /\ t.at = "other" /\ t.pkg = top.pkg /\ t.todo = top.todo
      BY <1>1, <2>1, ReplacingFrame
    <3> HIDE DEF t
    <3>3. FrameOK(t)
      BY <2>1, <3>2 DEF FrameOK
    <3> QED BY <1>2, <3>1, <3>2, <3>3, StillApart DEF Checked
  <2> QED BY <1>3, <1>4, <1>5, <2>2 DEF CheckAlreadyInstalled
<1>6. CASE CheckOtherInstalled
  <2>1. top.at = "other" /\ top.pkg \in Pkg
    BY <1>1, <1>6 DEF CheckOtherInstalled, At, FrameOK
  <2>2. ASSUME NEW o \in OtherVersion(top.pkg),
               stack' = [stack EXCEPT ![depth].at = "conflict", ![depth].other = o]
        PROVE  ApartInv'
    <3> DEFINE t == [top EXCEPT !.at = "conflict", !.other = o]
    <3>1. o \in Pkg
      BY <2>1, BaseAssumption, MatchAssumption DEF OtherVersion, Best, Installed
    <3>2. stack' = [stack EXCEPT ![depth] = t]
      BY <2>2 DEF top
    <3>3. t \in Frame /\ t.at = "conflict" /\ t.pkg = top.pkg /\ t.todo = top.todo
      BY <1>1, <3>1 DEF Frame, Locations
    <3> HIDE DEF t
    <3>4. FrameOK(t)
      BY <2>1, <3>3 DEF FrameOK
    <3> QED BY <1>2, <3>2, <3>3, <3>4, StillApart DEF Checked
  <2> QED BY <1>3, <1>4, <1>6, <2>2 DEF CheckOtherInstalled
<1>7. CASE CheckConflicts
  <2>1. CASE stack' = <<>>
    <3>1. depth' = 0
      BY <2>1, EmptySeq DEF depth
    <3> QED BY <2>1, <3>1 DEF ApartInv
  <2>2. CASE Return(FALSE)
    BY <1>3, <2>2
  <2>3. CASE (Goto("mkdir") \/ Goto("deps")) /\ (~opt.force => ~ImplicitConflict(top))
    <3>1. ~opt.force /\ ~opt.fake =>
             \A f \in Contents[top.pkg] : owner'[f] \in {NoPkg, top.other}
      BY <1>2, <2>3 DEF ImplicitConflict
    <3> QED BY <1>2, <2>3, <3>1, GotoApart DEF Locations
  <2> QED BY <1>7, <2>1, <2>2, <2>3 DEF CheckConflicts
<1> QED BY <1>5, <1>6, <1>7

\* write_meta_data and start_replacing, which takes names from the index.
LEMMA MetaApart ==
    ASSUME NEW Under, Apart(Under), TypeInv, NestInv(Under), ApartInv, stack # <<>>,
           \/ MakeDir \/ WriteMeta \/ MoveRequiredBy \/ MoveRest
           \/ DeleteOld \/ RenameDir
    PROVE  ApartInv'
<1>1. FrameOK(top) /\ top \in Frame
  BY TopIsFrame
<1>2. opt' = opt /\ running' = running
  BY DEF MakeDir, WriteMeta, MoveRequiredBy, MoveRest, DeleteOld, RenameDir, cmdVars
<1>3. ASSUME top.at \in Checked, ~opt.force, ~opt.fake
      PROVE  \A f \in Contents[top.pkg] : owner[f] \in {NoPkg, top.other}
  BY <1>3, TopApart DEF ApartFrame
<1>4. CASE MakeDir \/ WriteMeta \/ MoveRequiredBy \/ MoveRest
  <2>1. /\ top.at \in {"mkdir", "write", "move", "moverest"} /\ owner' = owner /\ StoresOwn
        /\ \/ Goto("write") \/ Goto("pre") \/ Goto("nukedb")
           \/ Goto("move") /\ top.other # NoPkg
           \/ top.at \in {"move", "moverest"} /\ (Goto("moverest") \/ Goto("delete"))
    BY <1>4 DEF MakeDir, WriteMeta, MoveRequiredBy, MoveRest, At, indexVars, StoresOwn
  <2>2. top.other # NoPkg => top.other \in Pkg
    BY <1>1 DEF Frame
  <2>3. top.at \in {"move", "moverest"} => top.other \in Pkg
    BY <1>1 DEF FrameOK
  <2>4. ~opt.force /\ ~opt.fake => \A f \in Contents[top.pkg] : owner'[f] \in {NoPkg, top.other}
    BY <1>3, <2>1 DEF Checked
  <2> QED BY <1>2, <2>1, <2>2, <2>3, <2>4, GotoApart DEF Locations
<1>5. CASE DeleteOld
  <2>1. top.at = "delete" /\ Goto("rename") /\ top.other \in Pkg /\ top.pkg \in Pkg
    BY <1>1, <1>5 DEF DeleteOld, At, FrameOK
  <2>2. \A f \in File : owner'[f] \in {NoPkg, owner[f]}
    BY <1>5 DEF DeleteOld, DeletePackage, WithoutKeys, dbVars, indexVars
  <2>3. StoresOwn
    BY <2>2 DEF StoresOwn
  <2>4. ~opt.force /\ ~opt.fake => \A f \in Contents[top.pkg] : owner'[f] \in {NoPkg, top.other}
    BY <1>3, <2>1, <2>2, ContentsAssumption DEF Checked
  <2> QED BY <1>2, <2>1, <2>3, <2>4, GotoApart DEF Locations
<1>6. CASE RenameDir
  <2> DEFINE t == [top EXCEPT !.at = "deps", !.dir = IF @ = NoPkg THEN NoPkg ELSE top.pkg]
  <2>1. top.at = "rename" /\ top.pkg \in Pkg /\ owner' = owner
    BY <1>1, <1>6 DEF RenameDir, At, FrameOK, indexVars
  <2>2. stack' = [stack EXCEPT ![depth] = t]
    BY <1>6 DEF RenameDir, top
  <2>3. /\ t \in Frame /\ t.at = "deps" /\ t.pkg = top.pkg /\ t.todo = top.todo
        /\ t.other = top.other
    BY <1>1, <2>1 DEF Frame, Locations
  <2> HIDE DEF t
  <2>4. FrameOK(t)
    BY <2>1, <2>3 DEF FrameOK
  <2>5. top.at # "find" /\ t.at \notin {"find", "extract"} /\ top.at \in Checked
    BY <2>1, <2>3 DEF Checked
  <2> QED BY <1>2, <2>1, <2>2, <2>3, <2>4, <2>5, StillApart
<1> QED BY <1>4, <1>5, <1>6

\* check_dependencies: what is installed for the package is under it.
LEMMA DepsApart ==
    ASSUME NEW Under, Apart(Under), TypeInv, NestInv(Under), ApartInv, stack # <<>>,
           \/ \E pt \in Pattern : CheckDependency(pt)
           \/ DependencyInstalled \/ DependencyMissing \/ DependenciesDone
    PROVE  ApartInv'
<1>1. /\ depth \in Nat \ {0} /\ depth \in 1..depth /\ FrameOK(top) /\ top \in Frame
      /\ top = stack[depth]
  BY TopIsFrame DEF top
<1>2. UNCHANGED <<opt, running, owner>> /\ StoresOwn
  BY DEF CheckDependency, DependencyInstalled, DependencyMissing, DependenciesDone,
         dbVars, cmdVars, indexVars, StoresOwn
<1>3. top.at \in {"deps", "again", "missing"} /\ top.pkg \in Pkg
  BY <1>1 DEF CheckDependency, DependencyInstalled, DependencyMissing, DependenciesDone,
              At, FrameOK
<1>4. top.at \in Checked /\ top.at # "find"
  BY <1>3 DEF Checked
<1>5. ~opt.force /\ ~opt.fake => \A f \in Contents[top.pkg] : owner'[f] \in {NoPkg, top.other}
  BY <1>2, <1>4, TopApart DEF ApartFrame
<1>6. CASE DependencyFailed
  <2>1. CASE Return(FALSE)
    BY <1>2, <2>1, ReturnKeeps, PoppedApart
  <2>2. CASE Goto("nukedb")
    BY <1>2, <1>4, <2>2, GotoApart DEF Locations, Checked
  <2> QED BY <1>6, <2>1, <2>2 DEF DependencyFailed
<1>7. ASSUME NEW t \in Frame, stack' = [stack EXCEPT ![depth] = t], t.at = "deps",
             t.pkg = top.pkg, t.other = top.other, t.todo \subseteq top.todo
      PROVE  ApartInv'
  <2>1. FrameOK(t)
    BY <1>3, <1>7 DEF FrameOK
  <2> QED BY <1>2, <1>4, <1>7, <2>1, StillApart
<1>8. CASE \E pt \in Pattern : CheckDependency(pt)
  <2>1. PICK pt \in Pattern : CheckDependency(pt)
    BY <1>8
  <2>2. top.at = "deps" /\ pt \in top.todo
    BY <2>1 DEF CheckDependency, At
  <2>3. CASE \E d \in Best(Installed(pt)) :
                stack' = [stack EXCEPT ![depth].todo = top.todo \ {pt},
                                       ![depth].deps = @ \cup {d}]
    <3>1. PICK d \in Best(Installed(pt)) :
             stack' = [stack EXCEPT ![depth].todo = top.todo \ {pt}, ![depth].deps = @ \cup {d}]
      BY <2>3
    <3>2. d \in Pkg
      BY MatchAssumption DEF Best, Installed
    <3> DEFINE t == [top EXCEPT !.todo = top.todo \ {pt}, !.deps = @ \cup {d}]
    <3>3. /\ t \in Frame /\ t.at = "deps" /\ t.pkg = top.pkg /\ t.other = top.other
          /\ t.todo = top.todo \ {pt}
      BY <1>1, <2>2, <3>2 DEF Frame
    <3>4. stack' = [stack EXCEPT ![depth] = t]
      BY <3>1 DEF top
    <3> HIDE DEF t
    <3> QED BY <1>7, <3>3, <3>4
  <2>4. CASE stack' = [stack EXCEPT ![depth].todo = top.todo \ {pt}]
    <3> DEFINE t == [top EXCEPT !.todo = top.todo \ {pt}]
    <3>1. /\ t \in Frame /\ t.at = "deps" /\ t.pkg = top.pkg /\ t.other = top.other
          /\ t.todo = top.todo \ {pt}
      BY <1>1, <2>2 DEF Frame
    <3>2. stack' = [stack EXCEPT ![depth] = t]
      BY <2>4 DEF top
    <3> HIDE DEF t
    <3> QED BY <1>7, <3>1, <3>2
  <2>5. CASE /\ ~opt.fake
             /\ stack' = Append([stack EXCEPT ![depth].todo = top.todo \ {pt},
                                              ![depth].dep = pt],
                                Push(pt, TRUE)[depth + 1])
    <3> SUFFICES ASSUME ~opt.force, ~opt.fake PROVE ApartInv'
      BY <1>2 DEF ApartInv
    <3> DEFINE s == [top EXCEPT !.todo = top.todo \ {pt}, !.dep = pt]
               t == NewFrame(pt, TRUE)
    <3>1. /\ s \in Frame /\ s.at = "deps" /\ s.pkg = top.pkg /\ s.other = top.other
          /\ s.todo = top.todo \ {pt} /\ s.dep = pt
      BY <1>1, <2>2 DEF Frame
    <3>2. t.at = "find" /\ t.arg = pt
      BY DEF NewFrame
    <3>3. stack' = Append([stack EXCEPT ![depth] = s], t)
      <4>1. Push(pt, TRUE)[depth + 1] = t
        BY <1>1, AppendFrame DEF Push, NewFrame, TypeInv, depth, Frame, Locations
      <4>2. [stack EXCEPT ![depth].todo = top.todo \ {pt}, ![depth].dep = pt]
              = [stack EXCEPT ![depth] = s]
        BY DEF top
      <4> QED BY <2>5, <4>1, <4>2
    <3> HIDE DEF s
    <3>4. FrameOK(s) /\ Suspended(s)
      BY <1>3, <3>1 DEF FrameOK, Suspended
    <3>5. Nested(s, t)
      BY <1>2, <3>3, <3>4, NestedKeeps
    <3> HIDE DEF t
    <3>6. /\ depth' = depth + 1 /\ top' = t /\ stack'[depth + 1] = t
          /\ stack'[depth] = s /\ \A i \in 1..(depth - 1) : stack'[i] = stack[i]
      BY <3>5 DEF Nested, top
    <3>7. \A i \in 1..(depth + 1) : i = depth + 1 \/ i = depth \/ i \in 1..(depth - 1)
      BY <1>1
    <3>8. ApartFrame(top, owner)
      BY TopApart
    <3>9. \A i \in 1..(depth - 1) : i \in 1..depth /\ i < depth
      BY <1>1
    <3>10. \A i \in 1..(depth + 1) : ApartFrame(stack'[i], owner')
      <4>1. ApartFrame(s, owner')
        BY <1>2, <1>4, <3>1, <3>8 DEF ApartFrame
      <4>2. ApartFrame(t, owner')
        BY <3>2 DEF ApartFrame, Checked
      <4>3. \A i \in 1..(depth - 1) : ApartFrame(stack'[i], owner')
        BY <1>2, <3>6, <3>9 DEF ApartInv
      <4> QED BY <3>6, <3>7, <4>1, <4>2, <4>3
    <3>11. top'.at # "extract"
      BY <3>2, <3>6
    <3> QED BY <3>6, <3>10, <3>11 DEF ApartInv, ApartFrame
  <2> QED BY <1>6, <2>1, <2>3, <2>4, <2>5 DEF CheckDependency
<1>9. CASE DependencyInstalled \/ DependencyMissing
  <2>1. CASE stack' = [stack EXCEPT ![depth].at = "deps", ![depth].dep = NoPkg]
    <3> DEFINE t == [top EXCEPT !.at = "deps", !.dep = NoPkg]
    <3>1. /\ t \in Frame /\ t.at = "deps" /\ t.pkg = top.pkg /\ t.other = top.other
          /\ t.todo = top.todo
      BY <1>1 DEF Frame, Locations
    <3>2. stack' = [stack EXCEPT ![depth] = t]
      BY <2>1 DEF top
    <3> HIDE DEF t
    <3> QED BY <1>7, <3>1, <3>2
  <2>2. CASE \E d \in Best(Installed(top.dep)) :
                stack' = [stack EXCEPT ![depth].at = "deps", ![depth].dep = NoPkg,
                                       ![depth].deps = @ \cup {d}]
    <3>1. PICK d \in Best(Installed(top.dep)) :
             stack' = [stack EXCEPT ![depth].at = "deps", ![depth].dep = NoPkg,
                                    ![depth].deps = @ \cup {d}]
      BY <2>2
    <3>2. d \in Pkg
      BY DEF Best, Installed, TypeInv, DataOK, DBTypeOK
    <3> DEFINE t == [top EXCEPT !.at = "deps", !.dep = NoPkg, !.deps = @ \cup {d}]
    <3>3. /\ t \in Frame /\ t.at = "deps" /\ t.pkg = top.pkg /\ t.other = top.other
          /\ t.todo = top.todo
      BY <1>1, <3>2 DEF Frame, Locations
    <3>4. stack' = [stack EXCEPT ![depth] = t]
      BY <3>1 DEF top
    <3> HIDE DEF t
    <3> QED BY <1>7, <3>3, <3>4
  <2> QED BY <1>6, <1>9, <2>1, <2>2 DEF DependencyInstalled, DependencyMissing
<1>10. CASE DependenciesDone
  <2>1. Goto("pre") \/ Goto("mkdir")
    BY <1>10 DEF DependenciesDone
  <2> QED BY <1>2, <1>4, <1>5, <2>1, GotoApart DEF Locations
<1> QED BY <1>8, <1>9, <1>10

\* Installation, registration and failure.
LEMMA InstallApart ==
    ASSUME NEW Under, Apart(Under), TypeInv, NestInv(Under), ApartInv, stack # <<>>,
           \/ PreInstall \/ (\E f \in File : ExtractFile(f)) \/ ExtractDone \/ ExtractFail
           \/ PostInstall \/ (\E d \in Pkg : RegisterDepend(d)) \/ RegisterDone
           \/ NukePkg \/ NukeMeta \/ NukeDir
    PROVE  ApartInv'
<1>1. FrameOK(top) /\ top \in Frame /\ depth \in Nat \ {0}
  BY TopIsFrame
<1>2. opt' = opt /\ running' = running
  BY DEF PreInstall, ExtractFile, ExtractDone, ExtractFail, PostInstall, RegisterDepend,
         RegisterDone, NukePkg, NukeMeta, NukeDir, cmdVars
<1>3. CASE PreInstall
  <2>1. top.at = "pre" /\ owner' = owner /\ StoresOwn
    BY <1>3 DEF PreInstall, At, dbVars, indexVars, StoresOwn
  <2>2. \/ Goto("extract") /\ files' = IF opt.fake THEN {} ELSE Contents[top.pkg]
        \/ Goto("nukedb")
    BY <1>3 DEF PreInstall
  <2>3. ~opt.force /\ ~opt.fake => \A f \in Contents[top.pkg] : owner'[f] \in {NoPkg, top.other}
    BY <2>1, TopApart DEF ApartFrame, Checked
  <2> QED BY <1>2, <2>1, <2>2, <2>3, GotoApart DEF Locations, Checked
<1>4. CASE (\E f \in File : ExtractFile(f)) \/ NukeMeta
  <2>1. stack' = stack /\ owner' = owner /\ (files' \subseteq files)
    BY <1>4 DEF ExtractFile, NukeMeta, indexVars
  <2>2. depth' = depth /\ top' = top
    BY <2>1 DEF depth, top
  <2> QED BY <1>2, <2>1, <2>2 DEF ApartInv, ApartFrame
<1>5. CASE ExtractDone \/ ExtractFail \/ PostInstall \/ NukePkg
  <2>1. top.at \in {"extract", "post", "nukepkg"}
        /\ (Goto("post") \/ Goto("nukepkg") \/ Goto("register") \/ Goto("nukedb"))
    BY <1>5 DEF ExtractDone, ExtractFail, PostInstall, NukePkg, At
  <2>2. ~opt.force /\ ~opt.fake => StoresOwn
    <3> SUFFICES ASSUME ~opt.force, ~opt.fake PROVE StoresOwn
      OBVIOUS
    <3>1. CASE PostInstall \/ NukePkg
      BY <3>1 DEF PostInstall, NukePkg, WithoutKeys, StoresOwn, indexVars
    <3>2. CASE ExtractDone
      BY <3>2 DEF ExtractDone, Stored, StoresOwn
    <3>3. CASE ExtractFail
      <4>1. files \subseteq Contents[top.pkg]
        BY <3>3, TopApart DEF ExtractFail, At
      <4>2. PICK S \in {{}} \cup {{f} : f \in files} :
               owner' = IF opt.no_record THEN owner
                        ELSE Stored((Contents[top.pkg] \ files) \cup S, top.pkg)
        BY <3>3 DEF ExtractFail
      <4>3. (Contents[top.pkg] \ files) \cup S \subseteq Contents[top.pkg]
        BY <4>1
      <4> HIDE DEF Stored
      <4>4. CASE opt.no_record
        BY <4>2, <4>4 DEF StoresOwn
      <4>5. CASE ~opt.no_record
        BY <4>2, <4>3, <4>5 DEF StoresOwn, Stored
      <4> QED BY <4>4, <4>5
    <3> QED BY <1>5, <3>1, <3>2, <3>3
  <2>3. CASE ~opt.force /\ ~opt.fake
    BY <1>2, <2>1, <2>2, <2>3, GotoApart DEF Locations, Checked
  <2> QED BY <1>2, <2>3 DEF ApartInv
<1>6. CASE \E d \in Pkg : RegisterDepend(d)
  <2>1. PICK d \in Pkg : RegisterDepend(d)
    BY <1>6
  <2>2. top.at = "register" /\ owner' = owner
    BY <2>1 DEF RegisterDepend, At, indexVars
  <2> DEFINE t == [top EXCEPT !.deps = @ \ {d}]
  <2>3. stack' = [stack EXCEPT ![depth] = t]
    BY <2>1 DEF RegisterDepend, top
  <2>4. /\ t \in Frame /\ t.at = top.at /\ t.pkg = top.pkg /\ t.todo = top.todo
    BY <1>1 DEF Frame
  <2> HIDE DEF t
  <2>5. FrameOK(t)
    BY <1>1, <2>2, <2>4 DEF FrameOK
  <2> QED BY <1>2, <2>2, <2>3, <2>4, <2>5, StillApart DEF Checked
<1>7. CASE RegisterDone \/ NukeDir
  <2>1. owner' = owner /\ (Return(TRUE) \/ Return(FALSE))
    BY <1>7 DEF RegisterDone, NukeDir, dbVars, indexVars
  <2> QED BY <1>2, <2>1, ReturnKeeps, PoppedApart
<1> QED BY <1>3, <1>4, <1>5, <1>6, <1>7

\* The condition is kept.
LEMMA ApartKeeps ==
    ASSUME NEW Under, Apart(Under), TypeInv, NestInv(Under), ApartInv, [Next]_vars
    PROVE  ApartInv'
<1>1. CASE Step /\ ~NextArg /\ ~Finish
  BY <1>1, StepHasFrame, OpenApart, ChecksApart, MetaApart, DepsApart, InstallApart DEF Step
<1>2. CASE stack' = <<>>
  <2>1. depth' = 0
    BY <1>2, EmptySeq DEF depth
  <2> QED BY <1>2, <2>1 DEF ApartInv
<1>3. CASE NextArg
  BY <1>3, FirstFrame DEF ApartInv, ApartFrame, Checked, NewFrame
<1>4. CASE UNCHANGED vars
  <2>1. UNCHANGED <<opt, owner, stack, files>>
    BY <1>4 DEF vars, dbVars, cmdVars, indexVars
  <2>2. depth' = depth /\ top' = top
    BY <2>1 DEF depth, top
  <2> QED BY <2>1, <2>2 DEF ApartInv, ApartFrame
<1>5. CASE Finish \/ Crash \/ \E o \in Options : \E a \in Requests[o] : Invoke(o, a)
  BY <1>2, <1>5 DEF Finish, Crash, Invoke, TypeInv, StackInv
<1> QED BY <1>1, <1>3, <1>4, <1>5 DEF Next

\* "If there is any overlap, the installation is terminated": without -f no
\* package is extracted over a file that the index has for a package other than
\* the version it replaces, although dependencies are installed between the
\* check and the extraction, if those share no file with it.
THEOREM FilesDisjointCorrect ==
    ASSUME NEW Under, Apart(Under)
    PROVE  Spec => []FilesDisjoint
<1>1. Init => NestInv(Under) /\ ApartInv
  BY EmptySeq DEF Init, ProcInit, NestInv, ApartInv, depth
<1>2. TypeInv /\ NestInv(Under) /\ ApartInv /\ [Next]_vars => (NestInv(Under) /\ ApartInv)'
  BY NestKeeps, ApartKeeps DEF Apart
<1>3. TypeInv /\ ApartInv => FilesDisjoint
  <2> SUFFICES ASSUME TypeInv, ApartInv, At("extract"), ~opt.fake, ~opt.force
               PROVE  \A f \in Contents[top.pkg] : owner[f] \in {NoPkg, top.pkg, top.other}
    BY DEF FilesDisjoint
  <2> QED BY TopApart DEF At, ApartFrame, Checked
<1> QED BY <1>1, <1>2, <1>3, TypeInit, TypeStep, PTL DEF Spec

-----------------------------------------------------------------------------
(* One version of a package.                                               *)

\* q is another version of p.
Two(p, q) == q \in Match[Base[p]] /\ q # p

\* Places at which the old and the new version may be in the database.
Doubled == {"write", "move", "moverest", "delete", "nukedb"}

\* Places from which on the old version is known, until it is deleted.
Current == {"other", "conflict", "mkdir", "write", "move", "moverest", "delete"}

\* Places past the deletion of the old version.
Replaced == {"rename", "pre", "extract", "post", "register", "nukepkg"}

\* The versions of the frame's package that are in the database, where e, c and
\* k are entries, contents and preserved.
Versions(t, e, c, k) ==
    /\ t.at \in {"conflict", "mkdir"} => Match[Base[t.pkg]] \cap e \subseteq {t.other}
    /\ t.at = "other" => IF t.other = NoPkg THEN t.pkg \notin c
                         ELSE Match[Base[t.pkg]] \cap e \subseteq {t.other}
    /\ t.at \in {"deps", "again", "missing"} =>
         Match[Base[t.pkg]] \cap e \subseteq IF t.other = NoPkg THEN {} ELSE {t.dir}
    /\ t.at \in Doubled => Match[Base[t.pkg]] \cap e \subseteq {t.other, t.dir}
    /\ t.at \in Replaced => Match[Base[t.pkg]] \cap e \subseteq {t.dir}
    /\ t.other # NoPkg /\ t.at \in Current => t.other \in c /\ t.other # t.dir
    /\ t.at = "delete" => t.other \notin k

VersionFrame(t, o, e, c, k) ==
    /\ t.at \in {"find", "already"} => t.other = NoPkg
    /\ t.at = "find" => t.dir = NoPkg
    /\ t.dir \notin {NoPkg, t.pkg} =>
         t.at \in Staged /\ t.dir = Temp[t.pkg] /\ t.other = t.pkg
    /\ t.other # NoPkg => t.other \in Match[Base[t.pkg]] /\ (o.replace \/ o.replace_same)
    /\ ~o.fake => Versions(t, e, c, k)

\* Two versions are in the database only while the top frame replaces one.
PairInv ==
    \A p, q \in entries : Two(p, q) =>
        /\ stack # <<>> /\ ~opt.fake /\ top.at \in Doubled
        /\ p \in {top.other, top.dir} /\ q \in {top.other, top.dir}

\* Where nothing is killed, only the directory at work lacks a +CONTENTS.
JunkInv ==
    Updating => \A p \in entries \ contents :
        stack # <<>> /\ ~opt.fake /\ top.at \in {"write", "nukedb"} /\ p = top.dir

VersionInv ==
    /\ PairInv /\ JunkInv /\ (running => opt \in Options)
    /\ \A i \in 1..depth : VersionFrame(stack[i], opt, entries, contents, preserved)

\* Versions of a package are versions of each other.
LEMMA Kin ==
    ASSUME NEW Under, Versioned(Under), NEW p \in Pkg, NEW q \in Match[Base[p]]
    PROVE  /\ q \in Pkg /\ Base[q] = Base[p] /\ Match[Base[q]] = Match[Base[p]]
           /\ p \in Match[Base[q]] /\ Match[Base[p]] \subseteq Pkg
BY BaseAssumption, MatchAssumption DEF Versioned

\* The top frame's part of the condition.
LEMMA TopVersion ==
    ASSUME TypeInv, VersionInv, stack # <<>>
    PROVE  /\ VersionFrame(top, opt, entries, contents, preserved)
           /\ running /\ opt \in Options
BY TopIsFrame DEF VersionInv, TypeInv, StackInv, top

\* Options without -u and -U are given to no update.
LEMMA NotUpdating ==
    ASSUME TypeInv, VersionInv, stack # <<>>, ~Updating
    PROVE  top.other = NoPkg
BY TopVersion DEF VersionFrame, Updating, Updates

\* Frames below the top keep what they know: directories are made only for
\* versions of the top frame's package.
LEMMA LowerVersion ==
    ASSUME NEW Under, Versioned(Under), TypeInv, NestInv(Under), VersionInv, stack # <<>>,
           \A q \in entries' \ entries : top.at # "find" /\ q \in Match[Base[top.pkg]],
           NEW i \in 1..(depth - 1)
    PROVE  VersionFrame(stack[i], opt, entries', contents', preserved')
<1> DEFINE t == stack[i]
<1>1. i \in 1..depth
  BY TopIsFrame
<1>2. /\ t.pkg \in Pkg /\ t.at = "deps" /\ FrameOK(t)
      /\ Wanted(top) \subseteq Under[t.pkg]
  BY TopNest
<1>3. VersionFrame(t, opt, entries, contents, preserved)
  BY <1>1 DEF VersionInv
<1>4. Match[Base[t.pkg]] \cap entries' \subseteq Match[Base[t.pkg]] \cap entries
  <2> SUFFICES ASSUME NEW q \in Match[Base[t.pkg]], q \in entries', q \notin entries
               PROVE  FALSE
    OBVIOUS
  <2>1. top.at # "find" /\ q \in Match[Base[top.pkg]]
    OBVIOUS
  <2>2. top.pkg \in Pkg
    BY <2>1, TopIsFrame DEF FrameOK
  <2>3. Base[q] = Base[t.pkg] /\ Base[q] = Base[top.pkg]
    BY <1>2, <2>1, <2>2, Kin
  <2>4. top.pkg \in Under[t.pkg]
    BY <1>2, <2>1 DEF Wanted
  <2>5. Base[top.pkg] # Base[t.pkg]
    BY <1>2, <2>4 DEF Versioned
  <2> QED BY <2>3, <2>5
<1> HIDE DEF t
<1>5. VersionFrame(t, opt, entries', contents', preserved')
  BY <1>2, <1>3, <1>4 DEF VersionFrame, Versions, Current, Doubled, Replaced, Staged
<1> QED BY <1>5 DEF t

\* What is left to show of a step that replaces the top frame.
LEMMA MovedVersion ==
    ASSUME NEW Under, Versioned(Under), TypeInv, NestInv(Under), VersionInv, stack # <<>>,
           opt' = opt, running' = running,
           \A q \in entries' \ entries : top.at # "find" /\ q \in Match[Base[top.pkg]],
           NEW t, Moved(t), VersionFrame(t, opt, entries', contents', preserved'),
           \A p, q \in entries' : Two(p, q) =>
              /\ ~opt.fake /\ t.at \in Doubled
              /\ p \in {t.other, t.dir} /\ q \in {t.other, t.dir},
           Updating => \A p \in entries' \ contents' :
              ~opt.fake /\ t.at \in {"write", "nukedb"} /\ p = t.dir
    PROVE  VersionInv'
<1>1. depth \in Nat \ {0} /\ depth' = depth /\ top' = t /\ stack' # <<>>
  BY TopIsFrame DEF Moved
<1>2. /\ stack'[depth] = t
      /\ \A i \in 1..(depth - 1) : stack'[i] = stack[i]
  BY <1>1 DEF Moved, top
<1>3. \A i \in 1..depth : VersionFrame(stack'[i], opt, entries', contents', preserved')
  <2> TAKE i \in 1..depth
  <2>1. i = depth \/ i \in 1..(depth - 1)
    BY <1>1
  <2>2. CASE i = depth
    BY <1>2, <2>2
  <2>3. CASE i \in 1..(depth - 1)
    BY <1>2, <2>3, LowerVersion
  <2> QED BY <2>1, <2>2, <2>3
<1>4. PairInv'
  BY <1>1 DEF PairInv, Two
<1>5. JunkInv'
  BY <1>1 DEF JunkInv
<1>6. running' => opt' \in Options
  BY DEF VersionInv
<1> QED BY <1>1, <1>3, <1>4, <1>5, <1>6 DEF VersionInv

\* And of one that returns.
LEMMA PoppedVersion ==
    ASSUME NEW Under, Versioned(Under), TypeInv, NestInv(Under), VersionInv, stack # <<>>,
           opt' = opt, running' = running, entries' \subseteq entries, Popped,
           \A p, q \in entries' : ~Two(p, q),
           Updating => entries' \subseteq contents'
    PROVE  VersionInv'
<1>1. depth \in Nat \ {0}
  BY TopIsFrame
<1>2. PairInv' /\ JunkInv' /\ (running' => opt' \in Options)
  BY DEF PairInv, JunkInv, VersionInv, Two
<1>3. CASE stack' = <<>>
  <2>1. depth' = 0
    BY <1>3, EmptySeq DEF depth
  <2> QED BY <1>2, <2>1 DEF VersionInv
<1>4. CASE stack' # <<>>
  <2>1. /\ depth > 1 /\ depth' = depth - 1
        /\ \A i \in 1..(depth - 2) : stack'[i] = stack[i]
    BY <1>4 DEF Popped
  <2>2. PICK l \in {"again", "missing"} : top' = [stack[depth - 1] EXCEPT !.at = l]
    BY <1>4 DEF Popped
  <2>3. stack[depth - 1] \in Frame /\ stack[depth - 1].at = "deps"
    BY <1>1, <2>1 DEF TypeInv, StackInv, FrameOK, Suspended
  <2> DEFINE s == stack[depth - 1]
             t == [s EXCEPT !.at = l]
  <2>4. t.at = l /\ t.pkg = s.pkg /\ t.other = s.other /\ t.dir = s.dir
    BY <2>3 DEF Frame
  <2>5. stack'[depth - 1] = t
    BY <2>1, <2>2 DEF top
  <2>6. \A i \in 1..(depth - 1) : VersionFrame(stack[i], opt, entries', contents', preserved')
    BY LowerVersion
  <2>7. depth - 1 \in 1..(depth - 1) /\ s.at = "deps"
    BY <1>1, <2>1, <2>3
  <2>8. VersionFrame(s, opt, entries', contents', preserved')
    BY <2>6, <2>7
  <2> HIDE DEF t, s
  <2>9. VersionFrame(t, opt, entries', contents', preserved')
    BY <2>4, <2>7, <2>8 DEF VersionFrame, Versions, Current, Doubled, Replaced, Staged
  <2>10. \A i \in 1..(depth - 1) :
            VersionFrame(stack'[i], opt, entries', contents', preserved')
    <3> TAKE i \in 1..(depth - 1)
    <3>1. i = depth - 1 \/ i \in 1..(depth - 2)
      BY <1>1
    <3>2. i \in 1..(depth - 2) => stack'[i] = stack[i]
      BY <2>1
    <3> QED BY <2>5, <2>6, <2>9, <3>1, <3>2
  <2> QED BY <1>2, <2>1, <2>10 DEF VersionInv
<1> QED BY <1>3, <1>4

\* A change of place with the same database.
LEMMA GotoVersion ==
    ASSUME NEW Under, Versioned(Under), TypeInv, NestInv(Under), VersionInv, stack # <<>>,
           top.at # "find", opt' = opt, running' = running,
           UNCHANGED <<entries, contents>>,
           NEW l \in Locations \ {"find", "again", "missing"}, Goto(l),
           l \in {"move", "moverest", "delete", "rename"} => top.other \in Pkg,
           \A t : TopAt(t, l) => VersionFrame(t, opt, entries, contents, preserved'),
           top.at \in Doubled => l \in Doubled,
           top.at \in {"write", "nukedb"} => l \in {"write", "nukedb"}
    PROVE  VersionInv'
<1> DEFINE t == [top EXCEPT !.at = l]
<1>1. Moved(t)
  BY GotoKeeps
<1>2. TopAt(t, l)
  BY TopIsFrame DEF Frame, TopAt
<1> HIDE DEF t
<1>3. VersionFrame(t, opt, entries', contents', preserved')
  BY <1>2
<1>4. /\ \A p, q \in entries' : Two(p, q) =>
            /\ ~opt.fake /\ t.at \in Doubled
            /\ p \in {t.other, t.dir} /\ q \in {t.other, t.dir}
      /\ Updating => \A p \in entries' \ contents' :
            ~opt.fake /\ t.at \in {"write", "nukedb"} /\ p = t.dir
  BY <1>2 DEF VersionInv, PairInv, JunkInv, TopAt
<1> QED BY <1>1, <1>3, <1>4, MovedVersion

\* A new top frame, and the same database.
LEMMA StillVersion ==
    ASSUME NEW Under, Versioned(Under), TypeInv, NestInv(Under), VersionInv, stack # <<>>,
           top.at \notin Doubled, UNCHANGED <<opt, running, entries, contents>>,
           NEW t, FrameOK(t), stack' = [stack EXCEPT ![depth] = t],
           VersionFrame(t, opt, entries, contents, preserved')
    PROVE  VersionInv'
<1>1. Moved(t)
  BY MovedKeeps
<1>2. VersionFrame(t, opt, entries', contents', preserved')
  OBVIOUS
<1>3. (\A p, q \in entries' : ~Two(p, q)) /\ (Updating => entries' \subseteq contents')
  BY DEF VersionInv, PairInv, JunkInv, Doubled
<1> QED BY <1>1, <1>2, <1>3, MovedVersion

\* A return with the same database.
LEMMA ReturnVersion ==
    ASSUME NEW Under, Versioned(Under), TypeInv, NestInv(Under), VersionInv, stack # <<>>,
           top.at \notin Doubled, UNCHANGED <<opt, running, entries, contents>>,
           NEW ok \in BOOLEAN, Return(ok)
    PROVE  VersionInv'
<1>1. Popped
  BY ReturnKeeps
<1>2. (\A p, q \in entries' : ~Two(p, q)) /\ (Updating => entries' \subseteq contents')
  BY DEF VersionInv, PairInv, JunkInv, Doubled
<1> QED BY <1>1, <1>2, PoppedVersion

\* The archive that is opened.
LEMMA OpenVersion ==
    ASSUME NEW Under, Versioned(Under), TypeInv, NestInv(Under), VersionInv, stack # <<>>,
           OpenArchive
    PROVE  VersionInv'
<1>1. top.at = "find" /\ UNCHANGED <<opt, running, entries, contents>>
  BY DEF OpenArchive, At, dbVars, cmdVars
<1>2. top.at \notin Doubled
  BY <1>1 DEF Doubled
<1>3. CASE Return(FALSE)
  BY <1>1, <1>2, <1>3, ReturnVersion
<1>4. CASE ~Return(FALSE)
  <2>1. FrameOK(top) /\ top \in Frame
    BY TopIsFrame
  <2>2. PICK p \in Candidates(top.arg) :
             stack' = [stack EXCEPT
                    ![depth].at = "already", ![depth].pkg = p,
                    ![depth].dir = IF opt.no_record /\ ~opt.fake THEN NoPkg ELSE p,
                    ![depth].todo = Deps[p]]
    BY <1>4 DEF OpenArchive
  <2> DEFINE t == Opened(p)
  <2>3. stack' = [stack EXCEPT ![depth] = t]
    BY <2>2 DEF top, Opened
  <2>4. p \in Pkg /\ Deps[p] \subseteq Pattern
    BY <2>1, CandidatesType, DepsAssumption DEF Frame
  <2>5. /\ t \in Frame /\ t.at = "already" /\ t.pkg = p /\ t.other = top.other
        /\ t.dir \in {NoPkg, p}
    BY <2>1, <2>4, OpenedFrame
  <2> HIDE DEF t
  <2>6. FrameOK(t)
    BY <2>1, <2>4, <2>5 DEF FrameOK
  <2>7. top.other = NoPkg
    BY <1>1, TopVersion DEF VersionFrame
  <2>8. VersionFrame(t, opt, entries, contents, preserved')
    BY <2>5, <2>7 DEF VersionFrame, Versions, Current, Doubled, Replaced
  <2> QED BY <1>1, <1>2, <2>3, <2>6, <2>8, StillVersion
<1> QED BY <1>3, <1>4

\* At most one version is there where none is being replaced.
LEMMA NoTwo ==
    ASSUME NEW Under, Versioned(Under), TypeInv, VersionInv, stack # <<>>,
           top.at \notin Doubled
    PROVE  /\ \A p, q \in entries : ~Two(p, q)
           /\ Updating => entries \subseteq contents
           /\ \A p \in Pkg : \A o, q \in Match[Base[p]] \cap entries : q = o
<1>1. (\A p, q \in entries : ~Two(p, q)) /\ (Updating => entries \subseteq contents)
  BY DEF VersionInv, PairInv, JunkInv, Doubled
<1>2. ASSUME NEW p \in Pkg, NEW o \in Match[Base[p]] \cap entries,
             NEW q \in Match[Base[p]] \cap entries
      PROVE  q = o
  <2>1. Match[Base[o]] = Match[Base[p]]
    BY Kin
  <2> QED BY <1>1, <2>1 DEF Two
<1> QED BY <1>1, <1>2

\* The package that -U replaces is the only version of it.
LEMMA AlreadyVersion ==
    ASSUME NEW Under, Versioned(Under), TypeInv, NestInv(Under), VersionInv, stack # <<>>,
           CheckAlreadyInstalled
    PROVE  VersionInv'
<1>1. FrameOK(top) /\ top \in Frame
  BY TopIsFrame
<1>2. /\ top.at = "already" /\ top.at \notin Doubled
      /\ UNCHANGED <<opt, running, entries, contents>> /\ preserved' = preserved
  BY DEF CheckAlreadyInstalled, At, cmdVars, Doubled
<1>3. ASSUME NEW ok \in BOOLEAN, Return(ok) PROVE VersionInv'
  BY <1>2, <1>3, ReturnVersion
<1>4. /\ top.pkg \in Pkg /\ top.other = NoPkg /\ top.dir \in {NoPkg, top.pkg}
      /\ opt \in Options
  BY <1>1, <1>2, TopVersion DEF FrameOK, VersionFrame, Staged
<1>5. CASE top.pkg \notin contents /\ Goto("other")
  <2>1. ASSUME NEW t, TopAt(t, "other")
        PROVE  VersionFrame(t, opt, entries, contents, preserved')
    BY <1>4, <1>5, <2>1
       DEF TopAt, VersionFrame, Versions, Current, Doubled, Replaced
  <2> QED BY <1>2, <1>5, <2>1, GotoVersion DEF Locations
<1>6. CASE /\ top.pkg \in contents /\ opt.replace_same
           /\ ~(top.dir # NoPkg /\ Temp[top.pkg] \in entries)
           /\ stack' = [stack EXCEPT
                    ![depth].at = "other", ![depth].other = top.pkg,
                    ![depth].dir = IF @ = NoPkg THEN NoPkg ELSE Temp[top.pkg]]
  <2> DEFINE t == Replacing
  <2>1. stack' = [stack EXCEPT ![depth] = t]
    BY <1>6 DEF top, Replacing
  <2>2. /\ t \in Frame /\ t.at = "other" /\ t.pkg = top.pkg /\ t.other = top.pkg
        /\ t.dir = IF top.dir = NoPkg THEN NoPkg ELSE Temp[top.pkg]
    BY <1>1, <1>4, ReplacingFrame
  <2> HIDE DEF t
  <2>3. FrameOK(t)
    BY <1>4, <2>2 DEF FrameOK
  <2>4. top.pkg \in entries /\ top.pkg \in Match[Base[top.pkg]] /\ top.pkg # NoPkg
    BY <1>4, <1>6, NoPkgAssumption DEF TypeInv, DataOK, DBTypeOK, Versioned
  <2>5. t.dir # top.pkg
    BY <1>6, <2>2, <2>4
  <2>6. Match[Base[top.pkg]] \cap entries \subseteq {top.pkg}
    BY <1>2, <1>4, <2>4, NoTwo
  <2>7. VersionFrame(t, opt, entries, contents, preserved')
    BY <1>4, <1>6, <2>2, <2>4, <2>5, <2>6
       DEF VersionFrame, Versions, Current, Doubled, Replaced, Staged
  <2> QED BY <1>2, <2>1, <2>3, <2>7, StillVersion
<1> QED BY <1>3, <1>5, <1>6 DEF CheckAlreadyInstalled

\* check_other_installed finds the only other version.
LEMMA OtherVersionFound ==
    ASSUME NEW Under, Versioned(Under), TypeInv, NestInv(Under), VersionInv, stack # <<>>,
           CheckOtherInstalled
    PROVE  VersionInv'
<1>1. FrameOK(top) /\ top \in Frame
  BY TopIsFrame
<1>2. /\ top.at = "other" /\ top.at \notin Doubled
      /\ UNCHANGED <<opt, running, entries, contents>>
  BY DEF CheckOtherInstalled, At, dbVars, cmdVars, Doubled
<1>3. /\ top.pkg \in Pkg /\ Match[Base[top.pkg]] \subseteq Pkg /\ opt \in Options
      /\ VersionFrame(top, opt, entries, contents, preserved)
  BY <1>1, <1>2, TopVersion, BaseAssumption, MatchAssumption DEF FrameOK
<1>4. CASE Return(FALSE)
  BY <1>2, <1>4, ReturnVersion
<1>5. CASE (top.other # NoPkg \/ OtherVersion(top.pkg) = {}) /\ Goto("conflict")
  <2>1. ~opt.fake => Match[Base[top.pkg]] \cap entries \subseteq {top.other}
    <3>1. CASE top.other # NoPkg
      BY <1>2, <1>3, <3>1 DEF VersionFrame, Versions
    <3>2. CASE OtherVersion(top.pkg) = {}
      <4> SUFFICES ASSUME NEW o \in Match[Base[top.pkg]] \cap entries PROVE FALSE
        OBVIOUS
      <4>1. \A q \in Match[Base[top.pkg]] \cap entries : q = o
        BY <1>2, <1>3, NoTwo
      <4>2. Rank[o] \in Nat
        BY <1>3, RankAssumption
      <4>3. \A q \in Match[Base[top.pkg]] \cap entries : Rank[q] <= Rank[o]
        BY <4>1, <4>2
      <4> QED BY <3>2, <4>3 DEF OtherVersion, Best, Installed
    <3> QED BY <1>5, <3>1, <3>2
  <2>2. ASSUME NEW t, TopAt(t, "conflict")
        PROVE  VersionFrame(t, opt, entries, contents, preserved')
    BY <1>2, <1>3, <2>1, <2>2
       DEF TopAt, VersionFrame, Versions, Current, Doubled, Replaced, Staged
  <2> QED BY <1>2, <1>5, <2>2, GotoVersion DEF Locations
<1>6. ASSUME top.other = NoPkg, NEW o \in OtherVersion(top.pkg), MayReplace(o, top.pkg),
             stack' = [stack EXCEPT ![depth].at = "conflict", ![depth].other = o]
      PROVE  VersionInv'
  <2> DEFINE t == [top EXCEPT !.at = "conflict", !.other = o]
  <2>1. o \in Pkg /\ o \in Match[Base[top.pkg]] /\ o \in entries /\ opt.replace
    BY <1>3, <1>6 DEF OtherVersion, Best, Installed, MayReplace
  <2>2. stack' = [stack EXCEPT ![depth] = t]
    BY <1>6 DEF top
  <2>3. /\ t \in Frame /\ t.at = "conflict" /\ t.pkg = top.pkg /\ t.other = o
        /\ t.dir = top.dir
    BY <1>1, <2>1 DEF Frame, Locations
  <2> HIDE DEF t
  <2>4. FrameOK(t)
    BY <1>3, <2>3 DEF FrameOK
  <2>5. o \in contents /\ o # NoPkg /\ top.pkg # NoPkg
    BY <1>2, <1>3, <2>1, NoTwo, NoPkgAssumption DEF Updating, Updates
  <2>6. top.dir \in {NoPkg, top.pkg} /\ (~opt.fake => top.pkg \notin contents)
    BY <1>2, <1>3, <1>6, <2>5 DEF VersionFrame, Versions
  <2>7. Match[Base[top.pkg]] \cap entries \subseteq {o}
    BY <1>2, <1>3, <2>1, NoTwo
  <2>8. VersionFrame(t, opt, entries, contents, preserved')
    BY <2>1, <2>3, <2>5, <2>6, <2>7
       DEF VersionFrame, Versions, Current, Doubled, Replaced
  <2> QED BY <1>2, <2>2, <2>4, <2>8, StillVersion
<1> QED BY <1>4, <1>5, <1>6 DEF CheckOtherInstalled

\* The checks for conflicts, and the choice between replacing and installing.
LEMMA ConflictVersion ==
    ASSUME NEW Under, Versioned(Under), TypeInv, NestInv(Under), VersionInv, stack # <<>>,
           CheckConflicts
    PROVE  VersionInv'
<1>1. FrameOK(top) /\ top \in Frame
  BY TopIsFrame
<1>2. /\ top.at = "conflict" /\ top.at \notin Doubled /\ opt' = opt /\ running' = running
      /\ UNCHANGED <<entries, contents>>
  BY DEF CheckConflicts, At, dbVars, Doubled
<1>3. /\ top.pkg \in Pkg /\ VersionFrame(top, opt, entries, contents, preserved)
      /\ NoPkg \notin entries
  BY <1>1, <1>2, TopVersion, NoPkgAssumption DEF FrameOK, TypeInv, DataOK, DBTypeOK
<1>4. CASE stack' = <<>>
  <2>1. Popped
    BY <1>4, EmptySeq DEF Popped
  <2> QED BY <1>2, <2>1, NoTwo, PoppedVersion
<1>5. CASE Return(FALSE)
  BY <1>2, <1>5, ReturnVersion
<1>6. CASE Goto("mkdir") /\ top.other # NoPkg
  <2>1. ASSUME NEW t, TopAt(t, "mkdir")
        PROVE  VersionFrame(t, opt, entries, contents, preserved')
    BY <1>2, <1>3, <2>1 DEF TopAt, VersionFrame, Versions, Current, Doubled, Replaced, Staged
  <2> QED BY <1>2, <1>6, <2>1, GotoVersion DEF Locations
<1>7. CASE Goto("deps") /\ top.other = NoPkg
  <2>1. ~opt.fake => Match[Base[top.pkg]] \cap entries \subseteq {}
    BY <1>2, <1>3, <1>7 DEF VersionFrame, Versions
  <2>2. top.dir \in {NoPkg, top.pkg}
    BY <1>1, <1>3, <1>7, NoPkgAssumption DEF VersionFrame
  <2>3. ASSUME NEW t, TopAt(t, "deps")
        PROVE  VersionFrame(t, opt, entries, contents, preserved')
    BY <1>7, <2>1, <2>2, <2>3
       DEF TopAt, VersionFrame, Versions, Current, Doubled, Replaced
  <2> QED BY <1>2, <1>7, <2>3, GotoVersion DEF Locations
<1> QED BY <1>4, <1>5, <1>6, <1>7 DEF CheckConflicts

\* What is known of the directory of a frame.
LEMMA DirVersion ==
    ASSUME NEW Under, Versioned(Under), TypeInv, VersionInv, stack # <<>>, top.at # "find"
    PROVE  /\ top.pkg \in Pkg /\ top.pkg # NoPkg /\ NoPkg \notin entries
           /\ top.dir \in {NoPkg, top.pkg, Temp[top.pkg]}
           /\ top.pkg \in Match[Base[top.pkg]] /\ Temp[top.pkg] \in Match[Base[top.pkg]]
           /\ VersionFrame(top, opt, entries, contents, preserved)
BY TopIsFrame, TopVersion, NoPkgAssumption
   DEF FrameOK, VersionFrame, Versioned, TypeInv, DataOK, DBTypeOK

\* The directory of the new version is made.
LEMMA MakeVersion ==
    ASSUME NEW Under, Versioned(Under), TypeInv, NestInv(Under), VersionInv, stack # <<>>,
           MakeDir
    PROVE  VersionInv'
<1>1. /\ top.at = "mkdir" /\ top.at \notin Doubled /\ top.at # "find"
      /\ UNCHANGED <<opt, running, contents, preserved>>
  BY DEF MakeDir, At, cmdVars, Doubled
<1>2. /\ top.pkg \in Pkg /\ top.pkg # NoPkg /\ NoPkg \notin entries
      /\ top.dir \in {NoPkg, top.pkg, Temp[top.pkg]}
      /\ top.pkg \in Match[Base[top.pkg]] /\ Temp[top.pkg] \in Match[Base[top.pkg]]
      /\ VersionFrame(top, opt, entries, contents, preserved)
  BY <1>1, DirVersion
<1>3. ~opt.fake => Match[Base[top.pkg]] \cap entries \subseteq {top.other}
  BY <1>1, <1>2 DEF VersionFrame, Versions
<1>4. CASE entries' = entries /\ (Goto("nukedb") \/ Goto("write"))
  <2>1. ASSUME NEW l \in {"nukedb", "write"}, NEW t, TopAt(t, l)
        PROVE  VersionFrame(t, opt, entries, contents, preserved')
    BY <1>1, <1>2, <1>3, <2>1
       DEF TopAt, VersionFrame, Versions, Current, Doubled, Replaced, Staged
  <2>2. CASE Goto("nukedb")
    BY <1>1, <1>4, <2>1, <2>2, GotoVersion DEF Locations
  <2>3. CASE Goto("write")
    <3>1. \A t : TopAt(t, "write") => VersionFrame(t, opt, entries, contents, preserved')
      BY <1>1, <1>2, <1>3 DEF TopAt, VersionFrame, Versions, Current, Doubled, Replaced, Staged
    <3> QED BY <1>1, <1>4, <2>3, <3>1, GotoVersion DEF Locations
  <2> QED BY <1>4, <2>2, <2>3
<1>5. CASE Recording /\ entries' = entries \cup {top.dir} /\ Goto("write")
  <2> DEFINE t == [top EXCEPT !.at = "write"]
             d == top.dir
  <2>1. Moved(t)
    BY <1>1, <1>5, GotoKeeps DEF Locations
  <2>2. TopAt(t, "write")
    BY TopIsFrame DEF Frame, TopAt, Locations
  <2> HIDE DEF t
  <2>3. d \in Match[Base[top.pkg]] /\ ~opt.fake
    BY <1>2, <1>5 DEF Recording
  <2>4. \A q \in entries' \ entries : top.at # "find" /\ q \in Match[Base[top.pkg]]
    BY <1>1, <1>5, <2>3
  <2>5. VersionFrame(t, opt, entries', contents', preserved')
    BY <1>1, <1>2, <1>3, <1>5, <2>2
       DEF TopAt, VersionFrame, Versions, Current, Doubled, Replaced, Staged
  <2>6. ASSUME NEW p \in entries', NEW q \in entries', Two(p, q)
        PROVE  p \in {t.other, t.dir} /\ q \in {t.other, t.dir}
    <3>1. p = d \/ q = d
      BY <1>1, <1>5, <2>6, NoTwo
    <3>2. \A r \in Match[Base[d]] \cap entries : r = top.other
      BY <1>2, <1>3, <2>3, Kin
    <3>3. p \in Pkg /\ p \in Match[Base[q]]
      <4>1. p \in Pkg
        BY <1>2, <1>5, <2>3, Kin DEF TypeInv, DataOK, DBTypeOK
      <4> QED BY <2>6, <4>1, Kin DEF Two
    <3>4. q \in Match[Base[p]]
      BY <2>6 DEF Two
    <3>5. (p = d \/ p = top.other) /\ (q = d \/ q = top.other)
      BY <1>5, <3>1, <3>2, <3>3, <3>4
    <3> QED BY <2>2, <3>5 DEF TopAt
  <2>7. Updating => \A p \in entries' \ contents' : p = t.dir
    BY <1>1, <1>5, <2>2, NoTwo DEF TopAt
  <2> QED BY <1>1, <2>1, <2>2, <2>3, <2>4, <2>5, <2>6, <2>7, MovedVersion DEF TopAt, Doubled
<1> QED BY <1>4, <1>5 DEF MakeDir

\* The directory of the new version becomes that of a package.
LEMMA WriteVersion ==
    ASSUME NEW Under, Versioned(Under), TypeInv, NestInv(Under), VersionInv, stack # <<>>,
           WriteMeta
    PROVE  VersionInv'
<1>1. /\ top.at = "write" /\ top.at \in Doubled /\ top.at # "find"
      /\ UNCHANGED <<opt, running, entries>>
  BY DEF WriteMeta, At, cmdVars, Doubled
<1>2. /\ top.pkg \in Pkg /\ top.pkg # NoPkg /\ NoPkg \notin entries
      /\ VersionFrame(top, opt, entries, contents, preserved)
  BY <1>1, DirVersion
<1>3. ~opt.fake => Match[Base[top.pkg]] \cap entries \subseteq {top.other, top.dir}
  BY <1>1, <1>2 DEF VersionFrame, Versions
<1>4. CASE Goto("nukedb") /\ UNCHANGED <<contents, preserved>>
  <2>1. ASSUME NEW t, TopAt(t, "nukedb")
        PROVE  VersionFrame(t, opt, entries, contents, preserved')
    BY <1>1, <1>2, <1>3, <2>1
       DEF TopAt, VersionFrame, Versions, Current, Doubled, Replaced, Staged
  <2> QED BY <1>1, <1>4, <2>1, GotoVersion DEF Locations, Doubled
<1>5. CASE /\ contents' = IF Recording THEN contents \cup {top.dir} ELSE contents
           /\ Goto(IF top.other # NoPkg THEN "move" ELSE "pre")
  <2> DEFINE l == IF top.other # NoPkg THEN "move" ELSE "pre"
             t == [top EXCEPT !.at = l]
  <2>1. l \in {"move", "pre"} /\ (l = "move" => top.other \in Pkg) /\ Goto(l)
    BY <1>5, TopIsFrame DEF Frame
  <2>2. Moved(t)
    BY <1>1, <2>1, GotoKeeps DEF Locations
  <2>3. TopAt(t, l)
    BY <2>1, TopIsFrame DEF Frame, TopAt, Locations
  <2> HIDE DEF t
  <2>4. t.at = l /\ t.pkg = top.pkg /\ t.other = top.other /\ t.dir = top.dir
    BY <2>3 DEF TopAt
  <2>5. VersionFrame(t, opt, entries', contents', preserved')
    <3>1. t.dir \notin {NoPkg, t.pkg} =>
            t.at \in Staged /\ t.dir = Temp[t.pkg] /\ t.other = t.pkg
      BY <1>2, <2>4 DEF VersionFrame, Staged
    <3>2. t.other # NoPkg => t.other \in Match[Base[t.pkg]] /\ (opt.replace \/ opt.replace_same)
      BY <1>2, <2>4 DEF VersionFrame
    <3>3. ~opt.fake => Match[Base[t.pkg]] \cap entries \subseteq {t.other, t.dir}
      BY <1>3, <2>4
    <3>4. ~opt.fake /\ t.other # NoPkg => t.other \in contents' /\ t.other # t.dir
      BY <1>1, <1>2, <1>5, <2>4 DEF VersionFrame, Versions, Current
    <3>5. ~opt.fake => Versions(t, entries', contents', preserved')
      BY <1>1, <1>2, <2>4, <3>3, <3>4 DEF Versions, Current, Doubled, Replaced
    <3> QED BY <2>1, <2>4, <3>1, <3>2, <3>5 DEF VersionFrame
  <2>6. ASSUME NEW p \in entries', NEW q \in entries', Two(p, q)
        PROVE  /\ ~opt.fake /\ t.at \in Doubled
               /\ p \in {t.other, t.dir} /\ q \in {t.other, t.dir}
    <3>1. ~opt.fake /\ p \in {top.other, top.dir} /\ q \in {top.other, top.dir}
      BY <1>1, <2>6 DEF VersionInv, PairInv
    <3>2. q # p /\ p # NoPkg /\ q # NoPkg
      BY <1>1, <1>2, <2>6 DEF Two
    <3>3. top.other # NoPkg
      BY <3>1, <3>2
    <3> QED BY <2>4, <3>1, <3>3 DEF Doubled
  <2>7. Updating => \A p \in entries' \ contents' : FALSE
    <3> SUFFICES ASSUME Updating, NEW p \in entries, p \notin contents' PROVE FALSE
      BY <1>1
    <3>1. p \notin contents
      BY <1>5
    <3>2. ~opt.fake /\ p = top.dir
      BY <3>1 DEF VersionInv, JunkInv
    <3> QED BY <1>2, <1>5, <3>2 DEF Recording
  <2> QED BY <1>1, <2>2, <2>5, <2>6, <2>7, MovedVersion
<1> QED BY <1>4, <1>5 DEF WriteMeta

\* The meta data of the old version are moved.
LEMMA MoveVersion ==
    ASSUME NEW Under, Versioned(Under), TypeInv, NestInv(Under), VersionInv, stack # <<>>,
           MoveRequiredBy \/ MoveRest
    PROVE  VersionInv'
<1>1. /\ top.at \in {"move", "moverest"} /\ top.at \in Doubled /\ top.at # "find"
      /\ UNCHANGED <<opt, running, entries, contents>>
  BY DEF MoveRequiredBy, MoveRest, At, cmdVars, Doubled
<1>2. /\ top.pkg \in Pkg /\ VersionFrame(top, opt, entries, contents, preserved)
      /\ top.other \in Pkg /\ top.other # NoPkg
  BY <1>1, DirVersion, TopIsFrame, NoPkgAssumption DEF FrameOK
<1>3. /\ ~opt.fake => Match[Base[top.pkg]] \cap entries \subseteq {top.other, top.dir}
      /\ ~opt.fake => top.other \in contents /\ top.other # top.dir
  BY <1>1, <1>2 DEF VersionFrame, Versions, Current
<1>4. CASE (Goto("nukedb") \/ Goto("moverest"))
  <2>1. \A t : TopAt(t, "nukedb") => VersionFrame(t, opt, entries, contents, preserved')
    BY <1>1, <1>2, <1>3 DEF TopAt, VersionFrame, Versions, Current, Doubled, Replaced, Staged
  <2>2. \A t : TopAt(t, "moverest") => VersionFrame(t, opt, entries, contents, preserved')
    BY <1>1, <1>2, <1>3 DEF TopAt, VersionFrame, Versions, Current, Doubled, Replaced, Staged
  <2>3. CASE Goto("nukedb")
    BY <1>1, <2>1, <2>3, GotoVersion DEF Locations, Doubled
  <2>4. CASE Goto("moverest")
    BY <1>1, <1>2, <2>2, <2>4, GotoVersion DEF Locations, Doubled
  <2> QED BY <1>4, <2>3, <2>4
<1>5. CASE /\ Goto("delete")
           /\ preserved' = IF opt.fake THEN preserved
                           ELSE MovedFlag(preserved, top.other, top.dir)
  <2>1. ~opt.fake => top.other \notin preserved'
    BY <1>3, <1>5 DEF MovedFlag
  <2>2. \A t : TopAt(t, "delete") => VersionFrame(t, opt, entries, contents, preserved')
    BY <1>1, <1>2, <1>3, <2>1
       DEF TopAt, VersionFrame, Versions, Current, Doubled, Replaced, Staged
  <2> QED BY <1>1, <1>2, <1>5, <2>2, GotoVersion DEF Locations, Doubled
<1> QED BY <1>4, <1>5 DEF MoveRequiredBy, MoveRest

\* pkg_delete removes the old version, which is there and has no +PRESERVE.
LEMMA DeleteVersion ==
    ASSUME NEW Under, Versioned(Under), UpdatesEnd,
           TypeInv, NestInv(Under), VersionInv, stack # <<>>, DeleteOld
    PROVE  VersionInv'
<1>1. /\ top.at = "delete" /\ top.at \in Doubled /\ top.at # "find"
      /\ UNCHANGED <<opt, running>> /\ Goto("rename")
  BY DEF DeleteOld, At, cmdVars, Doubled
<1>2. /\ top.pkg \in Pkg /\ VersionFrame(top, opt, entries, contents, preserved)
      /\ top.other \in Pkg /\ top.other # NoPkg /\ opt \in Options
  BY <1>1, DirVersion, TopVersion, TopIsFrame, NoPkgAssumption DEF FrameOK
<1>3. ~opt.fake =>
         /\ Match[Base[top.pkg]] \cap entries \subseteq {top.other, top.dir}
         /\ top.other \in contents /\ top.other # top.dir /\ top.other \notin preserved
  BY <1>1, <1>2 DEF VersionFrame, Versions, Current
<1>4. ~MayFail("delete")
  BY <1>2 DEF VersionFrame, Updating, Updates, UpdatesEnd, MayFail
<1>5. /\ opt.fake => UNCHANGED <<entries, contents>>
      /\ ~opt.fake => entries' = entries \ {top.other} /\ contents' = contents \ {top.other}
  <2>1. ~opt.fake => reqby[top.other] = {}
    BY <1>1, <1>3 DEF TypeInv, DirInv
  <2> QED BY <1>3, <1>4, <2>1 DEF DeleteOld, Deletable, DeletePackage, dbVars
<1> DEFINE t == [top EXCEPT !.at = "rename"]
<1>6. Moved(t)
  BY <1>1, <1>2, GotoKeeps DEF Locations
<1>7. TopAt(t, "rename")
  BY TopIsFrame DEF Frame, TopAt, Locations
<1> HIDE DEF t
<1>8. t.at = "rename" /\ t.pkg = top.pkg /\ t.other = top.other /\ t.dir = top.dir
  BY <1>7 DEF TopAt
<1>9. VersionFrame(t, opt, entries', contents', preserved')
  BY <1>2, <1>3, <1>5, <1>8 DEF VersionFrame, Versions, Current, Doubled, Replaced, Staged
<1>10. \A p, q \in entries' : ~Two(p, q)
  BY <1>5 DEF VersionInv, PairInv, Two
<1>11. Updating => \A p \in entries' \ contents' : FALSE
  BY <1>1, <1>5 DEF VersionInv, JunkInv
<1>12. entries' \subseteq entries
  BY <1>5
<1> QED BY <1>1, <1>6, <1>9, <1>10, <1>11, <1>12, MovedVersion

\* The directory gets the name of the package.
LEMMA RenameVersion ==
    ASSUME NEW Under, Versioned(Under), TypeInv, NestInv(Under), VersionInv, stack # <<>>,
           RenameDir
    PROVE  VersionInv'
<1>1. /\ top.at = "rename" /\ top.at \notin Doubled /\ top.at # "find"
      /\ UNCHANGED <<opt, running>>
  BY DEF RenameDir, At, cmdVars, Doubled
<1>2. /\ top.pkg \in Pkg /\ top.pkg # NoPkg /\ NoPkg \notin entries
      /\ top.dir \in {NoPkg, top.pkg, Temp[top.pkg]}
      /\ top.pkg \in Match[Base[top.pkg]] /\ Temp[top.pkg] \in Match[Base[top.pkg]]
      /\ VersionFrame(top, opt, entries, contents, preserved)
      /\ top.other \in Pkg /\ top.other # NoPkg
  BY <1>1, DirVersion, TopIsFrame, NoPkgAssumption DEF FrameOK
<1>3. ~opt.fake => Match[Base[top.pkg]] \cap entries \subseteq {top.dir}
  BY <1>1, <1>2 DEF VersionFrame, Versions, Replaced
<1> DEFINE t == [top EXCEPT !.at = "deps", !.dir = IF @ = NoPkg THEN NoPkg ELSE top.pkg]
<1>4. stack' = [stack EXCEPT ![depth] = t]
  BY DEF RenameDir, top
<1>5. /\ t \in Frame /\ t.at = "deps" /\ t.pkg = top.pkg /\ t.other = top.other
      /\ t.dir = IF top.dir = NoPkg THEN NoPkg ELSE top.pkg
  BY <1>2, TopIsFrame DEF Frame, Locations
<1> HIDE DEF t
<1>6. FrameOK(t)
  BY <1>2, <1>5 DEF FrameOK
<1>7. CASE /\ top.dir = Temp[top.pkg] /\ Temp[top.pkg] # top.pkg /\ ~opt.fake
           /\ entries' = Renamed(entries, Temp[top.pkg], top.pkg)
           /\ contents' = Renamed(contents, Temp[top.pkg], top.pkg)
  <2>1. \A p \in entries' : p \in entries \ {top.dir} \/ p = top.pkg
    BY <1>7 DEF Renamed
  <2>2. t.dir = top.pkg
    BY <1>2, <1>5, <1>7, TempAssumption, NoPkgAssumption
  <2>3. Match[Base[top.pkg]] \cap entries' \subseteq {top.pkg}
    BY <1>3, <1>7, <2>1
  <2>4. VersionFrame(t, opt, entries', contents', preserved')
    BY <1>2, <1>5, <2>2, <2>3 DEF VersionFrame, Versions, Current, Doubled, Replaced
  <2>5. ASSUME NEW p \in entries', NEW q \in entries', Two(p, q) PROVE FALSE
    <3>1. p = top.pkg \/ q = top.pkg
      BY <1>1, <2>1, <2>5, NoTwo
    <3>2. p \in Pkg /\ q \in Match[Base[p]] /\ q # p
      BY <1>2, <2>1, <2>5 DEF Two, TypeInv, DataOK, DBTypeOK
    <3>3. p \in Match[Base[q]]
      BY <3>2, Kin
    <3> QED BY <2>3, <3>1, <3>2, <3>3
  <2>6. Updating => entries' \subseteq contents'
    BY <1>1, <1>7, NoTwo DEF Renamed
  <2>7. \A q \in entries' \ entries : top.at # "find" /\ q \in Match[Base[top.pkg]]
    BY <1>1, <1>2, <2>1
  <2>8. Moved(t)
    BY <1>1, <1>4, <1>6, MovedKeeps
  <2> QED BY <1>1, <2>4, <2>5, <2>6, <2>7, <2>8, MovedVersion
<1>8. CASE /\ UNCHANGED <<entries, contents>>
           /\ \/ top.dir # Temp[top.pkg] \/ Temp[top.pkg] = top.pkg
              \/ top.pkg \in entries \/ opt.fake
  <2>1. ~opt.fake => Match[Base[top.pkg]] \cap entries \subseteq {t.dir}
    BY <1>2, <1>3, <1>5, <1>8
  <2>2. t.dir \in {NoPkg, t.pkg}
    BY <1>5
  <2>3. VersionFrame(t, opt, entries, contents, preserved')
    BY <1>2, <1>5, <2>1, <2>2 DEF VersionFrame, Versions, Current, Doubled, Replaced
  <2> QED BY <1>1, <1>4, <1>6, <1>8, <2>3, StillVersion
<1> QED BY <1>7, <1>8 DEF RenameDir, treeVars

\* check_dependencies, which may call pkg_do for another package.
LEMMA DepsVersion ==
    ASSUME NEW Under, Versioned(Under), TypeInv, NestInv(Under), VersionInv, stack # <<>>,
           \/ \E pt \in Pattern : CheckDependency(pt)
           \/ DependencyInstalled \/ DependencyMissing \/ DependenciesDone
    PROVE  VersionInv'
<1>1. /\ depth \in Nat \ {0} /\ depth \in 1..depth /\ FrameOK(top) /\ top \in Frame
      /\ top = stack[depth]
  BY TopIsFrame DEF top
<1>2. /\ UNCHANGED <<opt, running, entries, contents>> /\ preserved' = preserved
      /\ top.at \in {"deps", "again", "missing"}
  BY DEF CheckDependency, DependencyInstalled, DependencyMissing, DependenciesDone,
         dbVars, cmdVars, At
<1>3. top.at \notin Doubled /\ top.at # "find"
  BY <1>2 DEF Doubled
<1>4. /\ top.pkg \in Pkg /\ NoPkg \notin entries
      /\ VersionFrame(top, opt, entries, contents, preserved)
  BY <1>3, DirVersion
<1>5. ~opt.fake => Match[Base[top.pkg]] \cap entries
                     \subseteq IF top.other = NoPkg THEN {} ELSE {top.dir}
  BY <1>2, <1>4 DEF VersionFrame, Versions
<1>6. top.dir \in {NoPkg, top.pkg}
  BY <1>2, <1>4 DEF VersionFrame, Staged
<1>7. ASSUME NEW t, t.at = "deps", t.pkg = top.pkg, t.other = top.other, t.dir = top.dir
      PROVE  VersionFrame(t, opt, entries, contents, preserved')
  BY <1>4, <1>5, <1>6, <1>7 DEF VersionFrame, Versions, Current, Doubled, Replaced
<1>8. CASE DependencyFailed
  <2>1. CASE Return(FALSE)
    BY <1>2, <1>3, <2>1, ReturnVersion
  <2>2. CASE Goto("nukedb")
    <3>1. \A t : TopAt(t, "nukedb") => VersionFrame(t, opt, entries, contents, preserved')
      BY <1>4, <1>5, <1>6
         DEF TopAt, VersionFrame, Versions, Current, Doubled, Replaced, Staged
    <3> QED BY <1>2, <1>3, <2>2, <3>1, GotoVersion DEF Locations
  <2> QED BY <1>8, <2>1, <2>2 DEF DependencyFailed
<1>9. ASSUME NEW t \in Frame, stack' = [stack EXCEPT ![depth] = t], t.at = "deps",
             t.pkg = top.pkg, t.other = top.other, t.dir = top.dir
      PROVE  VersionInv'
  <2>1. FrameOK(t)
    BY <1>4, <1>9 DEF FrameOK
  <2>2. VersionFrame(t, opt, entries, contents, preserved')
    BY <1>7, <1>9
  <2> QED BY <1>2, <1>3, <1>9, <2>1, <2>2, StillVersion
<1>10. ASSUME NEW pt \in Pattern, CheckDependency(pt) PROVE VersionInv'
  <2>1. top.at = "deps" /\ pt \in top.todo
    BY <1>10 DEF CheckDependency, At
  <2>2. CASE \E d \in Best(Installed(pt)) :
                stack' = [stack EXCEPT ![depth].todo = top.todo \ {pt},
                                       ![depth].deps = @ \cup {d}]
    <3>1. PICK d \in Best(Installed(pt)) :
             stack' = [stack EXCEPT ![depth].todo = top.todo \ {pt}, ![depth].deps = @ \cup {d}]
      BY <2>2
    <3>2. d \in Pkg
      BY MatchAssumption DEF Best, Installed
    <3> DEFINE t == [top EXCEPT !.todo = top.todo \ {pt}, !.deps = @ \cup {d}]
    <3>3. /\ t \in Frame /\ t.at = "deps" /\ t.pkg = top.pkg /\ t.other = top.other
          /\ t.dir = top.dir
      BY <1>1, <2>1, <3>2 DEF Frame
    <3>4. stack' = [stack EXCEPT ![depth] = t]
      BY <3>1 DEF top
    <3> HIDE DEF t
    <3> QED BY <1>9, <3>3, <3>4
  <2>3. CASE stack' = [stack EXCEPT ![depth].todo = top.todo \ {pt}]
    <3> DEFINE t == [top EXCEPT !.todo = top.todo \ {pt}]
    <3>1. /\ t \in Frame /\ t.at = "deps" /\ t.pkg = top.pkg /\ t.other = top.other
          /\ t.dir = top.dir
      BY <1>1, <2>1 DEF Frame
    <3>2. stack' = [stack EXCEPT ![depth] = t]
      BY <2>3 DEF top
    <3> HIDE DEF t
    <3> QED BY <1>9, <3>1, <3>2
  <2>4. CASE stack' = Append([stack EXCEPT ![depth].todo = top.todo \ {pt},
                                            ![depth].dep = pt],
                              Push(pt, TRUE)[depth + 1])
    <3> DEFINE s == [top EXCEPT !.todo = top.todo \ {pt}, !.dep = pt]
               t == NewFrame(pt, TRUE)
    <3>1. /\ s \in Frame /\ s.at = "deps" /\ s.pkg = top.pkg /\ s.other = top.other
          /\ s.dir = top.dir /\ s.dep = pt
      BY <1>1, <2>1 DEF Frame
    <3>2. t.at = "find" /\ t.other = NoPkg /\ t.dir = NoPkg
      BY DEF NewFrame
    <3>3. stack' = Append([stack EXCEPT ![depth] = s], t)
      <4>1. Push(pt, TRUE)[depth + 1] = t
        BY <1>1, AppendFrame DEF Push, NewFrame, TypeInv, depth, Frame, Locations
      <4>2. [stack EXCEPT ![depth].todo = top.todo \ {pt}, ![depth].dep = pt]
              = [stack EXCEPT ![depth] = s]
        BY DEF top
      <4> QED BY <2>4, <4>1, <4>2
    <3> HIDE DEF s
    <3>4. FrameOK(s) /\ Suspended(s)
      BY <1>4, <3>1 DEF FrameOK, Suspended
    <3>5. Nested(s, t)
      BY <1>2, <3>3, <3>4, NestedKeeps
    <3> HIDE DEF t
    <3>6. /\ depth' = depth + 1 /\ stack'[depth + 1] = t
          /\ stack'[depth] = s /\ \A i \in 1..(depth - 1) : stack'[i] = stack[i]
      BY <3>5 DEF Nested, top
    <3>7. \A i \in 1..(depth + 1) : i = depth + 1 \/ i = depth \/ i \in 1..(depth - 1)
      BY <1>1
    <3>8. \A i \in 1..(depth - 1) : i \in 1..depth
      BY <1>1
    <3>9. \A i \in 1..(depth + 1) :
             VersionFrame(stack'[i], opt', entries', contents', preserved')
      <4>1. VersionFrame(s, opt', entries', contents', preserved')
        BY <1>2, <1>7, <3>1
      <4>2. VersionFrame(t, opt', entries', contents', preserved')
        BY <3>2 DEF VersionFrame, Versions, Current, Doubled, Replaced
      <4>3. \A i \in 1..(depth - 1) :
               VersionFrame(stack'[i], opt', entries', contents', preserved')
        BY <1>2, <3>6, <3>8 DEF VersionInv
      <4> QED BY <3>6, <3>7, <4>1, <4>2, <4>3
    <3>10. PairInv' /\ JunkInv' /\ (running' => opt' \in Options)
      BY <1>2, <1>3, NoTwo DEF PairInv, JunkInv, VersionInv, Two
    <3> QED BY <3>6, <3>9, <3>10 DEF VersionInv
  <2> QED BY <1>8, <1>10, <2>2, <2>3, <2>4 DEF CheckDependency
<1>11. CASE DependencyInstalled \/ DependencyMissing
  <2>1. CASE stack' = [stack EXCEPT ![depth].at = "deps", ![depth].dep = NoPkg]
    <3> DEFINE t == [top EXCEPT !.at = "deps", !.dep = NoPkg]
    <3>1. /\ t \in Frame /\ t.at = "deps" /\ t.pkg = top.pkg /\ t.other = top.other
          /\ t.dir = top.dir
      BY <1>1 DEF Frame, Locations
    <3>2. stack' = [stack EXCEPT ![depth] = t]
      BY <2>1 DEF top
    <3> HIDE DEF t
    <3> QED BY <1>9, <3>1, <3>2
  <2>2. CASE \E d \in Best(Installed(top.dep)) :
                stack' = [stack EXCEPT ![depth].at = "deps", ![depth].dep = NoPkg,
                                       ![depth].deps = @ \cup {d}]
    <3>1. PICK d \in Best(Installed(top.dep)) :
             stack' = [stack EXCEPT ![depth].at = "deps", ![depth].dep = NoPkg,
                                    ![depth].deps = @ \cup {d}]
      BY <2>2
    <3>2. d \in Pkg
      BY DEF Best, Installed, TypeInv, DataOK, DBTypeOK
    <3> DEFINE t == [top EXCEPT !.at = "deps", !.dep = NoPkg, !.deps = @ \cup {d}]
    <3>3. /\ t \in Frame /\ t.at = "deps" /\ t.pkg = top.pkg /\ t.other = top.other
          /\ t.dir = top.dir
      BY <1>1, <3>2 DEF Frame, Locations
    <3>4. stack' = [stack EXCEPT ![depth] = t]
      BY <3>1 DEF top
    <3> HIDE DEF t
    <3> QED BY <1>9, <3>3, <3>4
  <2> QED BY <1>8, <1>11, <2>1, <2>2 DEF DependencyInstalled, DependencyMissing
<1>12. CASE DependenciesDone
  <2>1. CASE Goto("pre") /\ top.other # NoPkg
    <3>1. \A t : TopAt(t, "pre") => VersionFrame(t, opt, entries, contents, preserved')
      BY <1>4, <1>5, <1>6, <2>1
         DEF TopAt, VersionFrame, Versions, Current, Doubled, Replaced
    <3> QED BY <1>2, <1>3, <2>1, <3>1, GotoVersion DEF Locations
  <2>2. CASE Goto("mkdir") /\ top.other = NoPkg
    <3>1. \A t : TopAt(t, "mkdir") => VersionFrame(t, opt, entries, contents, preserved')
      BY <1>4, <1>5, <1>6, <2>2
         DEF TopAt, VersionFrame, Versions, Current, Doubled, Replaced
    <3> QED BY <1>2, <1>3, <2>2, <3>1, GotoVersion DEF Locations
  <2> QED BY <1>12, <2>1, <2>2 DEF DependenciesDone
<1> QED BY <1>10, <1>11, <1>12

\* Installation and registration.
LEMMA InstallVersion ==
    ASSUME NEW Under, Versioned(Under), TypeInv, NestInv(Under), VersionInv, stack # <<>>,
           \/ PreInstall \/ (\E f \in File : ExtractFile(f)) \/ ExtractDone \/ ExtractFail
           \/ PostInstall \/ (\E d \in Pkg : RegisterDepend(d)) \/ RegisterDone \/ NukePkg
    PROVE  VersionInv'
<1>1. FrameOK(top) /\ top \in Frame
  BY TopIsFrame
<1>2. /\ UNCHANGED <<opt, running, entries, contents>> /\ preserved' = preserved
      /\ top.at \in Replaced
  BY DEF PreInstall, ExtractFile, ExtractDone, ExtractFail, PostInstall, RegisterDepend,
         RegisterDone, NukePkg, dbVars, treeVars, cmdVars, At, Replaced
<1>3. top.at \notin Doubled /\ top.at # "find"
  BY <1>2 DEF Doubled, Replaced
<1>4. top.pkg \in Pkg /\ VersionFrame(top, opt, entries, contents, preserved)
  BY <1>3, DirVersion
<1>5. ~opt.fake => Match[Base[top.pkg]] \cap entries \subseteq {top.dir}
  BY <1>2, <1>4 DEF VersionFrame, Versions
<1>6. CASE PreInstall \/ ExtractDone \/ ExtractFail \/ PostInstall \/ NukePkg
  <2>1. PICK l \in {"extract", "post", "register", "nukepkg", "nukedb"} : Goto(l)
    BY <1>6 DEF PreInstall, ExtractDone, ExtractFail, PostInstall, NukePkg
  <2>2. top.at \in {"pre", "extract", "post", "nukepkg"}
    BY <1>6 DEF PreInstall, ExtractDone, ExtractFail, PostInstall, NukePkg, At
  <2>3. top.dir \in {NoPkg, top.pkg}
    BY <1>4, <2>2 DEF VersionFrame, Staged
  <2>4. ASSUME NEW t, TopAt(t, l)
        PROVE  VersionFrame(t, opt, entries, contents, preserved')
    BY <1>4, <1>5, <2>1, <2>3, <2>4
       DEF TopAt, VersionFrame, Versions, Current, Doubled, Replaced
  <2>5. l \in Locations \ {"find", "again", "missing"}
    BY DEF Locations
  <2> QED BY <1>2, <1>3, <2>1, <2>2, <2>4, <2>5, GotoVersion
<1>7. CASE \E f \in File : ExtractFile(f)
  <2>1. stack' = stack
    BY <1>7 DEF ExtractFile
  <2>2. depth' = depth /\ top' = top
    BY <2>1 DEF depth, top
  <2> QED BY <1>2, <2>1, <2>2 DEF VersionInv, PairInv, JunkInv, Two
<1>8. CASE \E d \in Pkg : RegisterDepend(d)
  <2>1. PICK d \in Pkg : RegisterDepend(d)
    BY <1>8
  <2> DEFINE t == [top EXCEPT !.deps = @ \ {d}]
  <2>2. stack' = [stack EXCEPT ![depth] = t] /\ top.at = "register"
    BY <2>1 DEF RegisterDepend, At, top
  <2>3. /\ t \in Frame /\ t.at = top.at /\ t.pkg = top.pkg /\ t.other = top.other
        /\ t.dir = top.dir
    BY <1>1 DEF Frame
  <2> HIDE DEF t
  <2>4. FrameOK(t)
    BY <1>1, <2>2, <2>3 DEF FrameOK
  <2>5. VersionFrame(t, opt, entries, contents, preserved')
    BY <1>2, <1>4, <2>3 DEF VersionFrame, Versions
  <2> QED BY <1>2, <1>3, <2>2, <2>4, <2>5, StillVersion
<1>9. CASE RegisterDone
  <2>1. Return(TRUE)
    BY <1>9 DEF RegisterDone
  <2> QED BY <1>2, <1>3, <2>1, ReturnVersion
<1> QED BY <1>6, <1>7, <1>8, <1>9

\* nuke_pkgdb removes the new version, or the only one.
LEMMA NukeVersion ==
    ASSUME NEW Under, Versioned(Under), UpdatesEnd,
           TypeInv, NestInv(Under), VersionInv, stack # <<>>, NukeMeta \/ NukeDir
    PROVE  VersionInv'
<1>1. /\ top.at = "nukedb" /\ top.at \in Doubled /\ top.at # "find"
      /\ UNCHANGED <<opt, running>>
  BY DEF NukeMeta, NukeDir, At, cmdVars, Doubled
<1>2. /\ top.pkg \in Pkg /\ NoPkg \notin entries /\ opt \in Options
      /\ VersionFrame(top, opt, entries, contents, preserved)
  BY <1>1, DirVersion, TopVersion
<1>3. ~opt.fake => Match[Base[top.pkg]] \cap entries \subseteq {top.other, top.dir}
  BY <1>1, <1>2 DEF VersionFrame, Versions
<1>4. CASE NukeMeta
  <2>1. /\ stack' = stack /\ entries' = entries /\ Recording
        /\ \A p \in contents : p \in contents' \/ p = top.dir
    BY <1>4 DEF NukeMeta
  <2>2. Moved(top)
    <3>1. stack \in Seq(Frame) /\ depth' = depth /\ top' = top
      BY <2>1 DEF TypeInv, depth, top
    <3> QED BY <2>1, <3>1 DEF Moved
  <2>3. VersionFrame(top, opt, entries', contents', preserved')
    BY <1>1, <1>2, <1>3, <2>1 DEF VersionFrame, Versions, Current, Doubled, Replaced
  <2>4. \A p, q \in entries' : Two(p, q) =>
           /\ ~opt.fake /\ top.at \in Doubled
           /\ p \in {top.other, top.dir} /\ q \in {top.other, top.dir}
    BY <2>1 DEF VersionInv, PairInv
  <2>5. Updating => \A p \in entries' \ contents' :
           ~opt.fake /\ top.at \in {"write", "nukedb"} /\ p = top.dir
    BY <1>1, <2>1 DEF VersionInv, JunkInv, Recording
  <2> QED BY <1>1, <2>1, <2>2, <2>3, <2>4, <2>5, MovedVersion
<1>5. CASE NukeDir
  <2>1. /\ Return(FALSE) /\ contents' = contents
        /\ \/ entries' = IF Recording THEN entries \ {top.dir} ELSE entries
           \/ MayFail("rmdir") /\ UNCHANGED entries
    BY <1>5 DEF NukeDir
  <2>2. Popped /\ entries' \subseteq entries
    BY <1>1, <2>1, ReturnKeeps
  <2>3. \A p, q \in entries : Two(p, q) =>
           ~opt.fake /\ q # p /\ p \in {top.other, top.dir} /\ q \in {top.other, top.dir}
    BY DEF VersionInv, PairInv, Two
  <2>4. CASE top.other = NoPkg
    <3>1. \A p, q \in entries' : ~Two(p, q)
      BY <1>2, <2>2, <2>3, <2>4
    <3>2. Updating => entries' \subseteq contents'
      <4> SUFFICES ASSUME Updating, NEW p \in entries', p \notin contents' PROVE FALSE
        OBVIOUS
      <4>1. ~opt.fake /\ p = top.dir /\ p # NoPkg
        BY <1>2, <2>1, <2>2 DEF VersionInv, JunkInv
      <4>2. ~MayFail("rmdir")
        BY <1>2 DEF UpdatesEnd, MayFail
      <4> QED BY <2>1, <4>1, <4>2 DEF Recording
    <3> QED BY <1>1, <2>2, <3>1, <3>2, PoppedVersion
  <2>5. CASE top.other # NoPkg
    <3>1. Updating
      BY <2>5, NotUpdating
    <3>2. entries' = IF Recording THEN entries \ {top.dir} ELSE entries
      BY <1>2, <2>1, <3>1 DEF UpdatesEnd, MayFail
    <3>3. ~opt.fake => top.dir \notin entries'
      BY <1>2, <3>2 DEF Recording
    <3>4. \A p, q \in entries' : ~Two(p, q)
      BY <2>2, <2>3, <3>3
    <3>5. entries' \subseteq contents'
      <4> SUFFICES ASSUME NEW p \in entries', p \notin contents' PROVE FALSE
        OBVIOUS
      <4>1. ~opt.fake /\ p = top.dir
        BY <2>1, <2>2, <3>1 DEF VersionInv, JunkInv
      <4> QED BY <3>3, <4>1
    <3> QED BY <1>1, <2>2, <3>4, <3>5, PoppedVersion
  <2> QED BY <2>4, <2>5
<1> QED BY <1>4, <1>5

\* The condition is kept.
LEMMA VersionKeeps ==
    ASSUME NEW Under, Versioned(Under), UpdatesEnd,
           TypeInv, NestInv(Under), VersionInv, [Next]_vars
    PROVE  VersionInv'
<1>1. CASE Step /\ ~NextArg /\ ~Finish
  <2>1. stack # <<>>
    BY <1>1, StepHasFrame
  <2> QED BY <1>1, <2>1, OpenVersion, AlreadyVersion, OtherVersionFound, ConflictVersion,
             MakeVersion, WriteVersion, MoveVersion, DeleteVersion, RenameVersion,
             DepsVersion, InstallVersion, NukeVersion DEF Step
<1>2. ASSUME stack' = <<>>, \A p, q \in entries' : ~Two(p, q),
             Updating => entries' \subseteq contents', running' => opt' \in Options
      PROVE  VersionInv'
  <2>1. depth' = 0
    BY <1>2, EmptySeq DEF depth
  <2>2. PairInv' /\ JunkInv'
    BY <1>2 DEF PairInv, JunkInv, Two
  <2> QED BY <1>2, <2>1, <2>2 DEF VersionInv
<1>3. stack = <<>> =>
         (\A p, q \in entries : ~Two(p, q)) /\ (Updating => entries \subseteq contents)
  BY DEF VersionInv, PairInv, JunkInv
<1>4. CASE NextArg
  <2>1. /\ stack = <<>> /\ UNCHANGED <<entries, contents, preserved, opt>> /\ running
    BY <1>4 DEF NextArg, dbVars
  <2>2. PairInv' /\ JunkInv' /\ (running' => opt' \in Options)
    BY <1>3, <2>1 DEF PairInv, JunkInv, Two, VersionInv
  <2>3. \A i \in 1..1 : VersionFrame(stack'[i], opt', entries', contents', preserved')
    BY <1>4, FirstFrame DEF VersionFrame, Versions, Current, Doubled, Replaced, NewFrame
  <2> QED BY <1>4, <2>2, <2>3, FirstFrame DEF VersionInv
<1>5. CASE UNCHANGED vars
  <2>1. UNCHANGED <<opt, running, entries, contents, preserved, stack>>
    BY <1>5 DEF vars, dbVars, cmdVars
  <2>2. depth' = depth /\ top' = top
    BY <2>1 DEF depth, top
  <2>3. PairInv' /\ JunkInv' /\ (running' => opt' \in Options)
    BY <2>1, <2>2 DEF VersionInv, PairInv, JunkInv, Two
  <2> QED BY <2>1, <2>2, <2>3 DEF VersionInv
<1>6. CASE Finish \/ \E o \in Options : \E a \in Requests[o] : Invoke(o, a)
  <2>1. /\ stack = <<>> /\ stack' = <<>> /\ UNCHANGED <<entries, contents>>
        /\ running' => opt' \in Options
    BY <1>6 DEF Finish, Invoke, dbVars, TypeInv, StackInv
  <2>2. (\A p, q \in entries' : ~Two(p, q)) /\ (Updating => entries' \subseteq contents')
    BY <1>3, <2>1
  <2> QED BY <1>2, <2>1, <2>2
<1>7. CASE Crash
  <2>1. /\ stack' = <<>> /\ UNCHANGED <<entries, contents>> /\ ~running' /\ ~Updating
    BY <1>7 DEF Crash, UpdatesEnd, dbVars
  <2>2. ASSUME NEW p \in entries, NEW q \in entries, Two(p, q) PROVE FALSE
    <3>1. stack # <<>> /\ p \in {top.other, top.dir} /\ q \in {top.other, top.dir}
      BY <2>2 DEF VersionInv, PairInv
    <3>2. top.other = NoPkg /\ NoPkg \notin entries
      BY <2>1, <3>1, NotUpdating, NoPkgAssumption DEF TypeInv, DataOK, DBTypeOK
    <3> QED BY <2>2, <3>1, <3>2 DEF Two
  <2> QED BY <1>2, <2>1, <2>2
<1> QED BY <1>1, <1>4, <1>5, <1>6, <1>7 DEF Next

\* Two versions of a package are never installed together, if none were at the
\* start: check_other_installed refuses the second or has the first removed,
\* and what it has seen still holds when the package is registered, although
\* other packages are installed, replaced and given up in between.
THEOREM OneVersionCorrect ==
    ASSUME NEW Under, Versioned(Under), UpdatesEnd
    PROVE  Spec /\ OneVersion => []OneVersion
<1>1. Init /\ OneVersion => NestInv(Under) /\ VersionInv
  <2> SUFFICES ASSUME Init, OneVersion PROVE NestInv(Under) /\ VersionInv
    OBVIOUS
  <2>1. /\ stack = <<>> /\ depth = 0 /\ ~running /\ ~late
        /\ entries = contents /\ complete = contents
    BY EmptySeq DEF Init, ProcInit, DBInit, depth
  <2>2. \A p, q \in entries : ~Two(p, q)
    BY <2>1 DEF OneVersion, Two
  <2> QED BY <2>1, <2>2 DEF NestInv, VersionInv, PairInv, JunkInv
<1>2. /\ TypeInv /\ NestInv(Under) /\ VersionInv /\ [Next]_vars
      => (NestInv(Under) /\ VersionInv)'
  BY NestKeeps, VersionKeeps DEF Versioned
<1>3. TypeInv /\ VersionInv => OneVersion
  <2> SUFFICES ASSUME TypeInv, VersionInv, ~running,
                      NEW p \in complete \cap contents, NEW q \in complete \cap contents,
                      q \in Match[Base[p]], q # p
               PROVE  FALSE
    BY DEF OneVersion
  <2>1. stack = <<>> /\ p \in entries /\ q \in entries
    BY DEF TypeInv, DataOK, DBTypeOK, StackInv
  <2> QED BY <2>1 DEF VersionInv, PairInv, Two
<1> QED BY <1>1, <1>2, <1>3, TypeInit, TypeStep, PTL DEF Spec

-----------------------------------------------------------------------------
(* Dependencies are registered, and the promise is kept.                   *)

\* Places at which a package without +REQUIRED_BY is in the database, until it is
\* complete or removed.
Claims == {"write", "pre", "extract", "post", "register", "nukepkg", "nukedb"}

\* Its directory, of a frame t with options o.
ClaimedBy(t, o) ==
    IF t.at \in Claims /\ ~o.fake /\ t.dir # NoPkg THEN {t.dir} ELSE {}

\* The packages that stay recorded.
Firm == contents \ IF stack = <<>> THEN {} ELSE ClaimedBy(top, opt)

\* Places past the checks, up to the registration.
Decided == {"deps", "again", "missing", "mkdir", "write", "pre", "extract", "post", "register"}

\* The frame's package is in S, and listed by it or going to be.
Met(t, pt, S, r) == \E d \in Match[pt] \cap S : d \in t.deps \/ t.pkg \in r[d]

\* What a frame that records its package knows, where c, S and r are contents,
\* Firm and reqby.
RecordFrame(t, c, S, r) ==
    /\ t.at # "find" => t.dir = t.pkg
    /\ t.at \in {"already", "other", "conflict"} => t.todo = Deps[t.pkg]
    /\ t.at \in Decided => \A pt \in Deps[t.pkg] : pt \in t.todo \/ pt = t.dep \/ Met(t, pt, S, r)
    /\ t.at \in Decided \ {"deps", "again", "missing"} => t.todo = {} /\ t.dep = NoPkg
    /\ t.at \in {"find", "already", "other", "conflict"} => t.dep = NoPkg
    /\ t.at \in {"pre", "extract", "post", "register"} => t.pkg \in c

RegFrame(t, o, c, S, r) ==
    /\ t.other = NoPkg /\ t.dir \in {NoPkg, t.pkg}
    /\ t.at \in {"other", "conflict", "deps", "again", "missing", "mkdir", "write"} =>
         t.pkg \notin c
    /\ ~o.fake /\ ~o.no_record => RecordFrame(t, c, S, r)

\* Directories without a +CONTENTS are noticed before dependencies are looked up,
\* where n, e and c are depth, entries and contents.
CleanFrame(t, n, o, e, c) ==
    ~o.fake /\ ~o.no_record =>
        /\ t.at \in Decided \ {"missing", "write"} => e \subseteq c
        /\ n > 1 /\ t.at \in {"find", "already", "other", "conflict"} => e \subseteq c
        /\ t.at = "write" => e \subseteq c \cup {t.dir}
        /\ t.at = "deps" => t.dep = NoPkg

RegInv ==
    /\ running => opt \in Options
    /\ complete \subseteq Firm
    /\ \A q \in complete : \A pt \in Deps[q] : \E d \in Match[pt] \cap Firm : q \in reqby[d]
    /\ \A i \in 1..depth : RegFrame(stack[i], opt, contents, Firm, reqby)
    /\ stack # <<>> => CleanFrame(top, depth, opt, entries, contents)

\* The top frame's part of the condition.
LEMMA TopReg ==
    ASSUME TypeInv, RegInv, stack # <<>>
    PROVE  /\ RegFrame(top, opt, contents, Firm, reqby)
           /\ CleanFrame(top, depth, opt, entries, contents)
           /\ Firm = contents \ ClaimedBy(top, opt)
           /\ running /\ opt \in Options
BY TopIsFrame DEF RegInv, TypeInv, StackInv, top, Firm

\* Without updates nothing is replaced.
LEMMA UnforcedTop ==
    ASSUME Unforced(Options), TypeInv, RegInv, stack # <<>>
    PROVE  /\ ~opt.force /\ ~opt.replace /\ ~opt.replace_same /\ ~MayFail("register")
           /\ top.other = NoPkg
BY TopReg DEF Unforced, RegFrame, MayFail

\* A frame keeps what it knows, as long as what is found stays.
LEMMA FrameKeeps ==
    ASSUME NEW t, NEW o, NEW c, NEW S, NEW r, NEW cc, NEW SS, NEW rr,
           RegFrame(t, o, c, S, r), t.pkg \notin cc \ c, S \subseteq SS,
           \A d \in S : r[d] \subseteq rr[d],
           t.at \in {"pre", "extract", "post", "register"} /\ t.pkg \in c => t.pkg \in cc
    PROVE  RegFrame(t, o, cc, SS, rr)
<1>1. \A pt : Met(t, pt, S, r) => Met(t, pt, SS, rr)
  BY DEF Met
<1>2. RecordFrame(t, c, S, r) => RecordFrame(t, cc, SS, rr)
  BY <1>1 DEF RecordFrame
<1> QED BY <1>2 DEF RegFrame

\* What is installed now is none of the packages that wait for it.
LEMMA LowerReg ==
    ASSUME NEW Under, Acyclic(Under), TypeInv, NestInv(Under), RegInv, stack # <<>>,
           \A p \in contents' \ contents : top.at # "find" /\ p = top.pkg,
           NEW S, Firm \subseteq S, \A d \in Firm : reqby[d] \subseteq reqby'[d],
           NEW i \in 1..(depth - 1)
    PROVE  RegFrame(stack[i], opt, contents', S, reqby')
<1> DEFINE t == stack[i]
<1>1. i \in 1..depth
  BY TopIsFrame
<1>2. t.pkg \in Pkg /\ t.at = "deps" /\ Wanted(top) \subseteq Under[t.pkg]
  BY TopNest
<1>3. RegFrame(t, opt, contents, Firm, reqby)
  BY <1>1 DEF RegInv
<1>4. t.pkg \notin contents' \ contents
  <2>1. t.pkg \notin Under[t.pkg]
    BY <1>2 DEF Acyclic
  <2> QED BY <1>2, <2>1 DEF Wanted
<1>5. t.at \notin {"pre", "extract", "post", "register"}
  BY <1>2
<1> HIDE DEF t
<1>6. RegFrame(t, opt, contents', S, reqby')
  BY <1>3, <1>4, <1>5, FrameKeeps
<1> QED BY <1>6 DEF t

\* Complete packages stay registered, as what is found stays.
LEMMA CompleteKeeps ==
    ASSUME TypeInv, RegInv, complete' = complete, NEW S, Firm \subseteq S,
           \A d \in Firm : reqby[d] \subseteq reqby'[d]
    PROVE  /\ complete' \subseteq S
           /\ \A q \in complete' : \A pt \in Deps[q] : \E d \in Match[pt] \cap S : q \in reqby'[d]
<1>1. ASSUME NEW q \in complete, NEW pt \in Deps[q]
      PROVE  \E d \in Match[pt] \cap S : q \in reqby'[d]
  <2>1. PICK d \in Match[pt] \cap Firm : q \in reqby[d]
    BY <1>1 DEF RegInv
  <2> QED BY <2>1
<1> QED BY <1>1 DEF RegInv

\* What is left to show of a step that replaces the top frame.
LEMMA MovedReg ==
    ASSUME NEW Under, Acyclic(Under), TypeInv, NestInv(Under), RegInv, stack # <<>>,
           opt' = opt, running' = running, complete' = complete,
           \A p \in contents' \ contents : top.at # "find" /\ p = top.pkg,
           \A d \in Firm : reqby[d] \subseteq reqby'[d],
           NEW t, Moved(t), Firm \subseteq contents' \ ClaimedBy(t, opt),
           RegFrame(t, opt, contents', contents' \ ClaimedBy(t, opt), reqby'),
           CleanFrame(t, depth, opt, entries', contents')
    PROVE  RegInv'
<1>1. depth \in Nat \ {0} /\ depth' = depth /\ top' = t /\ stack' # <<>>
  BY TopIsFrame DEF Moved
<1>2. /\ stack'[depth] = t
      /\ \A i \in 1..(depth - 1) : stack'[i] = stack[i]
  BY <1>1 DEF Moved, top
<1>3. Firm' = contents' \ ClaimedBy(t, opt)
  BY <1>1 DEF Firm, ClaimedBy
<1> DEFINE S == contents' \ ClaimedBy(t, opt)
<1>4. \A i \in 1..depth : RegFrame(stack'[i], opt, contents', S, reqby')
  <2> HIDE DEF S
  <2>1. Firm \subseteq S /\ RegFrame(t, opt, contents', S, reqby')
    BY DEF S
  <2> TAKE i \in 1..depth
  <2>2. i = depth \/ i \in 1..(depth - 1)
    BY <1>1
  <2>3. CASE i = depth
    BY <1>2, <2>1, <2>3
  <2>4. CASE i \in 1..(depth - 1)
    BY <1>2, <2>1, <2>4, LowerReg
  <2> QED BY <2>2, <2>3, <2>4
<1>5. /\ complete' \subseteq S
      /\ \A q \in complete' : \A pt \in Deps[q] : \E d \in Match[pt] \cap S : q \in reqby'[d]
  <2>1. Firm \subseteq S
    OBVIOUS
  <2> HIDE DEF S
  <2> QED BY <2>1, CompleteKeeps
<1>6. running' => opt' \in Options
  BY DEF RegInv
<1> HIDE DEF S
<1>7. Firm' = S
  BY <1>3 DEF S
<1> QED BY <1>1, <1>4, <1>5, <1>6, <1>7 DEF RegInv

\* Which place the caller comes to.
LEMMA ReturnPlace ==
    ASSUME TypeInv, stack # <<>>, NEW ok \in BOOLEAN, Return(ok), stack' # <<>>,
           running' = running
    PROVE  top' = [stack[depth - 1] EXCEPT !.at = IF ok THEN "again" ELSE "missing"]
<1> DEFINE up == SubSeq(stack, 1, depth - 1)
           l == IF ok THEN "again" ELSE "missing"
<1>1. stack \in Seq(Frame) /\ depth \in Nat \ {0}
  BY TopIsFrame DEF TypeInv
<1>2. depth > 1 /\ depth' = depth - 1
  BY ReturnKeeps DEF Popped
<1>3. /\ up \in Seq(Frame) /\ Len(up) = depth - 1
      /\ \A i \in 1..(depth - 1) : up[i] = stack[i]
  <2>1. \A i \in 1..(depth - 1) : stack[i] \in Frame
    BY <1>1, ElementOfSeq DEF depth
  <2> HIDE DEF up
  <2> QED BY <1>1, <2>1, SubSeqProperties DEF up
<1>4. stack' = [up EXCEPT ![depth - 1].at = l]
  BY DEF Return
<1>5. depth - 1 \in DOMAIN up
  BY <1>1, <1>2, <1>3
<1>6. up[depth - 1] = stack[depth - 1]
  BY <1>1, <1>2, <1>3
<1> HIDE DEF up, l
<1>7. stack'[depth - 1] = [up[depth - 1] EXCEPT !.at = l]
  BY <1>4, <1>5
<1> QED BY <1>2, <1>6, <1>7 DEF top, l

\* What is left to show of a step that returns.
LEMMA PoppedReg ==
    ASSUME NEW Under, Acyclic(Under), TypeInv, NestInv(Under), RegInv, stack # <<>>,
           UNCHANGED <<opt, running, contents, reqby>>,
           NEW ok \in BOOLEAN, Return(ok), complete' \subseteq contents,
           \A q \in complete' \ complete : \A pt \in Deps[q] :
              \E d \in Match[pt] \cap contents : q \in reqby[d],
           ok /\ depth > 1 /\ ~opt.fake /\ ~opt.no_record => entries' \subseteq contents
    PROVE  RegInv'
<1>1. depth \in Nat \ {0} /\ Popped /\ Firm \subseteq contents
  BY TopIsFrame, ReturnKeeps DEF Firm
<1>2. \A q \in complete' : \A pt \in Deps[q] : \E d \in Match[pt] \cap contents' : q \in reqby'[d]
  <2> TAKE q \in complete'
  <2> TAKE pt \in Deps[q]
  <2>1. CASE q \in complete
    <3>1. PICK d \in Match[pt] \cap Firm : q \in reqby[d]
      BY <2>1 DEF RegInv
    <3> QED BY <1>1, <3>1
  <2>2. CASE q \notin complete
    BY <2>2
  <2> QED BY <2>1, <2>2
<1>3. running' => opt' \in Options
  BY DEF RegInv
<1>4. CASE stack' = <<>>
  <2>1. depth' = 0 /\ Firm' = contents'
    BY <1>4, EmptySeq DEF depth, Firm
  <2> QED BY <1>2, <1>3, <1>4, <2>1 DEF RegInv
<1>5. CASE stack' # <<>>
  <2>1. /\ depth > 1 /\ depth' = depth - 1
        /\ \A i \in 1..(depth - 2) : stack'[i] = stack[i]
    BY <1>1, <1>5 DEF Popped
  <2> DEFINE l == IF ok THEN "again" ELSE "missing"
             s == stack[depth - 1]
             t == [s EXCEPT !.at = l]
  <2>2. top' = t
    BY <1>5, ReturnPlace
  <2>3. s \in Frame /\ s.at = "deps"
    BY <1>1, <2>1 DEF TypeInv, StackInv, FrameOK, Suspended
  <2>4. /\ t.at = l /\ t.pkg = s.pkg /\ t.other = s.other /\ t.dir = s.dir /\ t.todo = s.todo
        /\ t.dep = s.dep /\ t.deps = s.deps
    BY <2>3 DEF Frame
  <2>5. stack'[depth - 1] = t
    BY <2>1, <2>2 DEF top
  <2>6. \A i \in 1..(depth - 1) : RegFrame(stack[i], opt, contents', contents', reqby')
    BY <1>1, LowerReg
  <2>7. depth - 1 \in 1..(depth - 1)
    BY <1>1, <2>1
  <2>8. RegFrame(s, opt, contents', contents', reqby')
    BY <2>6, <2>7
  <2>9. l \in {"again", "missing"} /\ (l = "again" => ok)
    OBVIOUS
  <2> HIDE DEF l, s, t
  <2>10. RegFrame(t, opt, contents', contents', reqby')
    <3>1. \A pt : Met(s, pt, contents', reqby') => Met(t, pt, contents', reqby')
      BY <2>4 DEF Met
    <3> QED BY <2>3, <2>4, <2>8, <2>9, <3>1 DEF RegFrame, RecordFrame, Decided
  <2>11. \A i \in 1..(depth - 1) : RegFrame(stack'[i], opt, contents', contents', reqby')
    <3> TAKE i \in 1..(depth - 1)
    <3>1. i = depth - 1 \/ i \in 1..(depth - 2)
      BY <1>1
    <3>2. i \in 1..(depth - 2) => stack'[i] = stack[i]
      BY <2>1
    <3> QED BY <2>5, <2>6, <2>10, <3>1, <3>2
  <2>12. Firm' = contents'
    BY <1>5, <2>2, <2>4, <2>9 DEF Firm, ClaimedBy, Claims
  <2>13. CleanFrame(t, depth', opt, entries', contents')
    BY <2>1, <2>4, <2>9 DEF CleanFrame, Decided
  <2> QED BY <1>2, <1>3, <2>1, <2>2, <2>11, <2>12, <2>13 DEF RegInv
<1> QED BY <1>4, <1>5

\* An empty stack claims nothing.
LEMMA EmptyReg ==
    ASSUME TypeInv, RegInv, stack' = <<>>, UNCHANGED <<contents, reqby, complete>>,
           running' => opt' \in Options
    PROVE  RegInv'
<1>1. depth' = 0 /\ Firm' = contents /\ Firm \subseteq contents
  BY EmptySeq DEF depth, Firm
<1>2. /\ complete' \subseteq contents
      /\ \A q \in complete' : \A pt \in Deps[q] : \E d \in Match[pt] \cap contents : q \in reqby'[d]
  BY <1>1, CompleteKeeps
<1> QED BY <1>1, <1>2 DEF RegInv
\* A change of place.
LEMMA GotoReg ==
    ASSUME NEW Under, Acyclic(Under), TypeInv, NestInv(Under), RegInv, stack # <<>>,
           top.at # "find", UNCHANGED <<opt, running, contents, reqby, complete>>,
           NEW l \in Locations \ {"find", "again", "missing", "move", "moverest", "delete",
                                  "rename"},
           Goto(l), l \in Claims => top.at \in Claims \/ top.dir \notin contents,
           \A t, S : /\ TopAt(t, l) /\ t.deps = top.deps
                     /\ RegFrame(top, opt, contents, S, reqby)
                     => RegFrame(t, opt, contents, S, reqby),
           \A t : TopAt(t, l) => CleanFrame(t, depth, opt, entries', contents)
    PROVE  RegInv'
<1> DEFINE t == [top EXCEPT !.at = l]
           S == contents' \ ClaimedBy(t, opt)
<1>1. Moved(t)
  BY GotoKeeps
<1>2. TopAt(t, l) /\ t.deps = top.deps /\ t.dir = top.dir /\ t.at = l
  BY TopIsFrame DEF Frame, TopAt
<1> HIDE DEF t
<1>3. Firm \subseteq S
  BY <1>2, TopReg DEF ClaimedBy
<1>4. RegFrame(top, opt, contents, Firm, reqby)
  BY TopReg
<1> HIDE DEF S
<1>5. RegFrame(top, opt, contents, S, reqby)
  BY <1>3, <1>4, FrameKeeps
<1>6. RegFrame(t, opt, contents, S, reqby)
  BY <1>2, <1>5
<1>7. CleanFrame(t, depth, opt, entries', contents')
  BY <1>2
<1> QED BY <1>1, <1>3, <1>6, <1>7, MovedReg DEF S

\* A return with nothing more complete than before.
LEMMA ReturnReg ==
    ASSUME NEW Under, Acyclic(Under), TypeInv, NestInv(Under), RegInv, stack # <<>>,
           UNCHANGED <<opt, running, contents, reqby, complete>>,
           NEW ok \in BOOLEAN, Return(ok),
           ok /\ depth > 1 /\ ~opt.fake /\ ~opt.no_record => entries' \subseteq contents
    PROVE  RegInv'
<1>1. complete' \subseteq contents
  BY DEF RegInv, Firm
<1> QED BY <1>1, PoppedReg

\* The archive that is opened.
LEMMA OpenReg ==
    ASSUME NEW Under, Acyclic(Under), Unforced(Options), TypeInv, NestInv(Under), RegInv,
           stack # <<>>, OpenArchive
    PROVE  RegInv'
<1>1. top.at = "find" /\ UNCHANGED <<opt, running, entries, contents, reqby, complete>>
  BY DEF OpenArchive, At, dbVars, cmdVars, histVars
<1>2. CASE Return(FALSE)
  BY <1>1, <1>2, ReturnReg
<1>3. CASE ~Return(FALSE)
  <2>1. FrameOK(top) /\ top \in Frame
    BY TopIsFrame
  <2>2. PICK p \in Candidates(top.arg) :
             stack' = [stack EXCEPT
                    ![depth].at = "already", ![depth].pkg = p,
                    ![depth].dir = IF opt.no_record /\ ~opt.fake THEN NoPkg ELSE p,
                    ![depth].todo = Deps[p]]
    BY <1>3 DEF OpenArchive
  <2> DEFINE t == Opened(p)
  <2>3. stack' = [stack EXCEPT ![depth] = t]
    BY <2>2 DEF top, Opened
  <2>4. p \in Pkg /\ Deps[p] \subseteq Pattern
    BY <2>1, CandidatesType, DepsAssumption DEF Frame
  <2>5. /\ t \in Frame /\ t.at = "already" /\ t.pkg = p /\ t.other = top.other
        /\ t.dir = IF opt.no_record /\ ~opt.fake THEN NoPkg ELSE p
        /\ t.todo = Deps[p] /\ t.dep = top.dep
    BY <2>1, <2>4, OpenedFrame
  <2> HIDE DEF t
  <2>6. FrameOK(t)
    BY <2>1, <2>4, <2>5 DEF FrameOK
  <2>7. Moved(t)
    BY <1>1, <2>3, <2>6, MovedKeeps
  <2>8. ClaimedBy(t, opt) = {}
    BY <2>5 DEF ClaimedBy, Claims
  <2>9. /\ RegFrame(top, opt, contents, Firm, reqby)
        /\ CleanFrame(top, depth, opt, entries, contents) /\ Firm \subseteq contents
    BY TopReg
  <2>10. \A S : RegFrame(t, opt, contents', S, reqby')
    BY <1>1, <2>5, <2>9 DEF RegFrame, RecordFrame, Decided
  <2>11. CleanFrame(t, depth, opt, entries', contents')
    BY <1>1, <2>5, <2>9 DEF CleanFrame, Decided
  <2> QED BY <1>1, <2>7, <2>8, <2>9, <2>10, <2>11, MovedReg
<1> QED BY <1>2, <1>3

\* The package is not there, or is left alone.
LEMMA AlreadyReg ==
    ASSUME NEW Under, Acyclic(Under), Unforced(Options), TypeInv, NestInv(Under), RegInv,
           stack # <<>>, CheckAlreadyInstalled
    PROVE  RegInv'
<1>1. top.at = "already" /\ UNCHANGED <<opt, running, entries, contents, reqby, complete>>
  BY DEF CheckAlreadyInstalled, At, cmdVars, histVars
<1>2. /\ RegFrame(top, opt, contents, Firm, reqby)
      /\ CleanFrame(top, depth, opt, entries, contents)
      /\ ~opt.replace_same
  BY TopReg, UnforcedTop
<1>3. CASE Return(TRUE)
  <2>1. depth > 1 /\ ~opt.fake /\ ~opt.no_record => entries' \subseteq contents
    BY <1>1, <1>2 DEF CleanFrame
  <2> QED BY <1>1, <1>3, <2>1, ReturnReg
<1>4. CASE top.pkg \notin contents /\ Goto("other")
  <2>1. ASSUME NEW t, NEW S, TopAt(t, "other"), t.deps = top.deps,
               RegFrame(top, opt, contents, S, reqby)
        PROVE  RegFrame(t, opt, contents, S, reqby)
    BY <1>1, <1>4, <2>1 DEF TopAt, RegFrame, RecordFrame, Decided
  <2>2. ASSUME NEW t, TopAt(t, "other")
        PROVE  CleanFrame(t, depth, opt, entries', contents)
    BY <1>1, <1>2, <2>2 DEF TopAt, CleanFrame, Decided
  <2> QED BY <1>1, <1>4, <2>1, <2>2, GotoReg DEF Locations, Claims
<1> QED BY <1>2, <1>3, <1>4 DEF CheckAlreadyInstalled

\* No other version is replaced.
LEMMA OtherReg ==
    ASSUME NEW Under, Acyclic(Under), Unforced(Options), TypeInv, NestInv(Under), RegInv,
           stack # <<>>, CheckOtherInstalled
    PROVE  RegInv'
<1>1. top.at = "other" /\ UNCHANGED <<opt, running, entries, contents, reqby, complete>>
  BY DEF CheckOtherInstalled, At, dbVars, cmdVars, histVars
<1>2. CleanFrame(top, depth, opt, entries, contents) /\ ~opt.replace
  BY TopReg, UnforcedTop
<1>3. CASE Return(FALSE)
  BY <1>1, <1>3, ReturnReg
<1>4. CASE Goto("conflict")
  <2>1. ASSUME NEW t, NEW S, TopAt(t, "conflict"), t.deps = top.deps,
               RegFrame(top, opt, contents, S, reqby)
        PROVE  RegFrame(t, opt, contents, S, reqby)
    BY <1>1, <2>1 DEF TopAt, RegFrame, RecordFrame, Decided
  <2>2. ASSUME NEW t, TopAt(t, "conflict")
        PROVE  CleanFrame(t, depth, opt, entries', contents)
    BY <1>1, <1>2, <2>2 DEF TopAt, CleanFrame, Decided
  <2> QED BY <1>1, <1>4, <2>1, <2>2, GotoReg DEF Locations, Claims
<1> QED BY <1>2, <1>3, <1>4 DEF CheckOtherInstalled, MayReplace

\* Every directory has a +CONTENTS when the dependencies are looked up.
LEMMA ConflictReg ==
    ASSUME NEW Under, Acyclic(Under), Unforced(Options), TypeInv, NestInv(Under), RegInv,
           stack # <<>>, CheckConflicts
    PROVE  RegInv'
<1>1. /\ top.at = "conflict" /\ opt' = opt /\ running' = running
      /\ UNCHANGED <<entries, contents, reqby, complete>>
  BY DEF CheckConflicts, At, dbVars, histVars
<1>2. /\ RegFrame(top, opt, contents, Firm, reqby) /\ opt \in Options
      /\ top.other = NoPkg /\ NoPkg \notin entries
  BY TopReg, UnforcedTop, NoPkgAssumption DEF TypeInv, DataOK, DBTypeOK
<1>3. CASE stack' = <<>>
  BY <1>1, <1>2, <1>3, EmptyReg
<1>4. CASE Return(FALSE)
  BY <1>1, <1>4, ReturnReg
<1>5. CASE Goto("deps") /\ ~Unreadable(top)
  <2>1. entries \subseteq contents
    BY <1>2, <1>5 DEF Unreadable
  <2>2. ASSUME NEW t, NEW S, TopAt(t, "deps"), t.deps = top.deps,
               RegFrame(top, opt, contents, S, reqby)
        PROVE  RegFrame(t, opt, contents, S, reqby)
    BY <1>1, <2>2 DEF TopAt, RegFrame, RecordFrame, Decided
  <2>3. ASSUME NEW t, TopAt(t, "deps")
        PROVE  CleanFrame(t, depth, opt, entries', contents)
    BY <1>1, <1>2, <2>1, <2>3 DEF TopAt, CleanFrame, Decided, RegFrame, RecordFrame
  <2> QED BY <1>1, <1>5, <2>2, <2>3, GotoReg DEF Locations, Claims
<1> QED BY <1>2, <1>3, <1>4, <1>5 DEF CheckConflicts

\* The directory at work is that of the package, which is not recorded yet.
LEMMA DirReg ==
    ASSUME TypeInv, RegInv, stack # <<>>, top.at # "find"
    PROVE  /\ top.dir \in {NoPkg, top.pkg} /\ NoPkg \notin contents
           /\ ~opt.fake /\ ~opt.no_record => Recording /\ top.dir = top.pkg
<1>1. RegFrame(top, opt, contents, Firm, reqby)
  BY TopReg
<1>2. top.pkg \in Pkg /\ NoPkg \notin contents /\ top.pkg # NoPkg
  BY TopIsFrame, NoPkgAssumption DEF FrameOK, TypeInv, DataOK, DBTypeOK
<1> QED BY <1>1, <1>2 DEF RegFrame, RecordFrame, Recording

\* The directory is made.
LEMMA MakeReg ==
    ASSUME NEW Under, Acyclic(Under), Unforced(Options), TypeInv, NestInv(Under), RegInv,
           stack # <<>>, MakeDir
    PROVE  RegInv'
<1>1. top.at = "mkdir" /\ UNCHANGED <<opt, running, contents, reqby, complete>>
  BY DEF MakeDir, At, cmdVars, histVars
<1>2. /\ RegFrame(top, opt, contents, Firm, reqby)
      /\ CleanFrame(top, depth, opt, entries, contents)
  BY TopReg
<1>3. top.dir \notin contents
  BY <1>1, <1>2, DirReg DEF RegFrame
<1>4. CASE Goto("write") /\ entries' = IF Recording THEN entries \cup {top.dir} ELSE entries
  <2>1. ASSUME NEW t, NEW S, TopAt(t, "write"), t.deps = top.deps,
               RegFrame(top, opt, contents, S, reqby)
        PROVE  RegFrame(t, opt, contents, S, reqby)
    BY <1>1, <2>1 DEF TopAt, RegFrame, RecordFrame, Decided, Met
  <2>2. ASSUME NEW t, TopAt(t, "write")
        PROVE  CleanFrame(t, depth, opt, entries', contents)
    BY <1>1, <1>2, <1>4, <2>2 DEF TopAt, CleanFrame, Decided
  <2> QED BY <1>1, <1>3, <1>4, <2>1, <2>2, GotoReg DEF Locations
<1>5. CASE Goto("nukedb")
  <2>1. ASSUME NEW t, NEW S, TopAt(t, "nukedb"), t.deps = top.deps,
               RegFrame(top, opt, contents, S, reqby)
        PROVE  RegFrame(t, opt, contents, S, reqby)
    BY <1>1, <2>1 DEF TopAt, RegFrame, RecordFrame, Decided
  <2>2. ASSUME NEW t, TopAt(t, "nukedb")
        PROVE  CleanFrame(t, depth, opt, entries', contents)
    BY <2>2 DEF TopAt, CleanFrame, Decided
  <2> QED BY <1>1, <1>3, <1>5, <2>1, <2>2, GotoReg DEF Locations
<1> QED BY <1>4, <1>5 DEF MakeDir

\* The package is recorded.
LEMMA WriteReg ==
    ASSUME NEW Under, Acyclic(Under), Unforced(Options), TypeInv, NestInv(Under), RegInv,
           stack # <<>>, WriteMeta
    PROVE  RegInv'
<1>1. top.at = "write" /\ UNCHANGED <<opt, running, entries, reqby, complete>>
  BY DEF WriteMeta, At, cmdVars, histVars
<1>2. /\ RegFrame(top, opt, contents, Firm, reqby)
      /\ CleanFrame(top, depth, opt, entries, contents)
      /\ Firm = contents \ ClaimedBy(top, opt) /\ top.other = NoPkg
  BY TopReg, UnforcedTop
<1>3. CASE Goto("nukedb") /\ contents' = contents
  <2>1. ASSUME NEW t, NEW S, TopAt(t, "nukedb"), t.deps = top.deps,
               RegFrame(top, opt, contents, S, reqby)
        PROVE  RegFrame(t, opt, contents, S, reqby)
    BY <1>1, <2>1 DEF TopAt, RegFrame, RecordFrame, Decided
  <2>2. ASSUME NEW t, TopAt(t, "nukedb")
        PROVE  CleanFrame(t, depth, opt, entries', contents)
    BY <2>2 DEF TopAt, CleanFrame, Decided
  <2> QED BY <1>1, <1>3, <2>1, <2>2, GotoReg DEF Locations, Claims
<1>4. CASE /\ Goto("pre")
           /\ contents' = IF Recording THEN contents \cup {top.dir} ELSE contents
  <2> DEFINE t == [top EXCEPT !.at = "pre"]
  <2>1. Moved(t)
    BY <1>1, <1>4, GotoKeeps DEF Locations
  <2>2. TopAt(t, "pre") /\ t.deps = top.deps
    BY TopIsFrame DEF Frame, TopAt, Locations
  <2> HIDE DEF t
  <2>3. \A p \in contents' \ contents : top.at # "find" /\ p = top.pkg
    BY <1>1, <1>4, DirReg DEF Recording
  <2>4. contents' \ ClaimedBy(t, opt) = Firm
    BY <1>1, <1>2, <1>4, <2>2 DEF TopAt, ClaimedBy, Claims, Recording
  <2>5. ~opt.fake /\ ~opt.no_record => contents' = contents \cup {top.pkg}
    BY <1>1, <1>4, DirReg
  <2>6. RegFrame(t, opt, contents', Firm, reqby')
    BY <1>1, <1>2, <2>2, <2>5 DEF TopAt, RegFrame, RecordFrame, Decided, Met
  <2>7. CleanFrame(t, depth, opt, entries', contents')
    BY <1>1, <1>2, <2>2, <2>5, DirReg DEF TopAt, CleanFrame, Decided
  <2> QED BY <1>1, <2>1, <2>3, <2>4, <2>6, <2>7, MovedReg
<1> QED BY <1>2, <1>3, <1>4 DEF WriteMeta

\* What is left to show of a nested call.
LEMMA NestedReg ==
    ASSUME NEW Under, Acyclic(Under), TypeInv, NestInv(Under), RegInv, stack # <<>>,
           UNCHANGED <<opt, running, entries, contents, reqby, complete>>,
           top.at = "deps", NEW pt \in Pattern, NEW s, Nested(s, NewFrame(pt, TRUE)),
           RegFrame(s, opt, contents, contents, reqby)
    PROVE  RegInv'
<1> DEFINE t == NewFrame(pt, TRUE)
<1>1. depth \in Nat \ {0} /\ Firm = contents /\ CleanFrame(top, depth, opt, entries, contents)
  BY TopIsFrame, TopReg DEF ClaimedBy, Claims
<1>2. t.at = "find" /\ t.other = NoPkg /\ t.dir = NoPkg /\ t.dep = NoPkg
  BY DEF NewFrame
<1> HIDE DEF t
<1>3. /\ depth' = depth + 1 /\ stack'[depth + 1] = t /\ stack'[depth] = s /\ top' = t
      /\ stack' # <<>> /\ \A i \in 1..(depth - 1) : stack'[i] = stack[i]
  BY DEF Nested, top, t
<1>4. Firm' = contents
  BY <1>2, <1>3 DEF Firm, ClaimedBy, Claims
<1>5. RegFrame(t, opt, contents, contents, reqby)
  BY <1>2 DEF RegFrame, RecordFrame, Decided
<1>6. \A i \in 1..(depth + 1) : RegFrame(stack'[i], opt, contents, contents, reqby)
  <2> TAKE i \in 1..(depth + 1)
  <2>1. i = depth + 1 \/ i = depth \/ (i \in 1..(depth - 1) /\ i \in 1..depth)
    BY <1>1
  <2>2. CASE i \in 1..(depth - 1) /\ i \in 1..depth
    <3>1. RegFrame(stack[i], opt, contents, contents, reqby)
      BY <1>1, <2>2 DEF RegInv
    <3> QED BY <1>3, <2>2, <3>1
  <2> QED BY <1>3, <1>5, <2>1, <2>2
<1>7. CleanFrame(t, depth + 1, opt, entries, contents)
  BY <1>1, <1>2 DEF CleanFrame, Decided
<1>8. /\ complete' \subseteq contents
      /\ \A q \in complete' : \A px \in Deps[q] : \E d \in Match[px] \cap contents : q \in reqby'[d]
  BY <1>1, CompleteKeeps
<1>9. running' => opt' \in Options
  BY DEF RegInv
<1> QED BY <1>3, <1>4, <1>6, <1>7, <1>8, <1>9 DEF RegInv

\* A dependency that was looked up is there for good.
LEMMA FoundReg ==
    ASSUME NEW Under, Acyclic(Under), Unforced(Options), TypeInv, NestInv(Under), RegInv,
           stack # <<>>, UNCHANGED <<opt, running, entries, contents, reqby, complete>>,
           top.at \in {"deps", "again"}, NEW pt \in Pattern,
           NEW d \in Match[pt] \cap entries, NEW t, FrameOK(t),
           stack' = [stack EXCEPT ![depth] = t], t.at = "deps", t.pkg = top.pkg,
           t.other = top.other, t.dir = top.dir, t.dep = NoPkg,
           top.todo \subseteq t.todo \cup {pt}, top.dep \in {pt, NoPkg},
           t.deps = top.deps \cup {d}
    PROVE  RegInv'
<1>1. Moved(t)
  BY MovedKeeps
<1>2. /\ RegFrame(top, opt, contents, Firm, reqby) /\ Firm = contents
      /\ CleanFrame(top, depth, opt, entries, contents)
  BY TopReg DEF ClaimedBy, Claims
<1>3. contents' \ ClaimedBy(t, opt) = contents
  BY DEF ClaimedBy, Claims
<1>4. RegFrame(t, opt, contents, contents, reqby)
  <2>1. CASE ~opt.fake /\ ~opt.no_record
    <3>1. d \in Match[pt] \cap contents
      BY <1>2, <2>1 DEF CleanFrame, Decided
    <3>2. \A px : px = pt \/ Met(top, px, contents, reqby) => Met(t, px, contents, reqby)
      BY <3>1 DEF Met
    <3>3. RecordFrame(t, contents, contents, reqby)
      <4>1. RecordFrame(top, contents, contents, reqby)
        BY <1>2, <2>1 DEF RegFrame
      <4>2. \A px \in Deps[t.pkg] :
               px \in top.todo \/ px = top.dep \/ Met(top, px, contents, reqby)
        BY <4>1 DEF RecordFrame, Decided
      <4>3. \A px \in Deps[t.pkg] : px # NoPkg
        BY TopIsFrame, DepsAssumption DEF FrameOK, Acyclic
      <4>4. \A px \in Deps[t.pkg] : px \in t.todo \/ Met(t, px, contents, reqby)
        BY <3>2, <4>2, <4>3
      <4> QED BY <4>1, <4>4 DEF RecordFrame, Decided
    <3> QED BY <1>2, <3>3 DEF RegFrame
  <2>2. CASE opt.fake \/ opt.no_record
    BY <1>2, <2>2 DEF RegFrame
  <2> QED BY <2>1, <2>2
<1>5. CleanFrame(t, depth, opt, entries, contents)
  BY <1>2 DEF CleanFrame, Decided
<1> QED BY <1>1, <1>2, <1>3, <1>4, <1>5, MovedReg

\* check_dependencies: what it finds stays, what it does not find is installed,
\* and it gives up otherwise.
LEMMA DepsReg ==
    ASSUME NEW Under, Acyclic(Under), Unforced(Options), TypeInv, NestInv(Under), RegInv,
           stack # <<>>,
           \/ \E pt \in Pattern : CheckDependency(pt)
           \/ DependencyInstalled \/ DependencyMissing \/ DependenciesDone
    PROVE  RegInv'
<1>1. FrameOK(top) /\ top \in Frame /\ depth \in Nat \ {0}
  BY TopIsFrame
<1>2. /\ top.at \in {"deps", "again", "missing"} /\ top.at # "find"
      /\ UNCHANGED <<opt, running, entries, contents, reqby, complete>>
  BY DEF CheckDependency, DependencyInstalled, DependencyMissing, DependenciesDone, At,
         dbVars, cmdVars, histVars
<1>3. /\ top.pkg \in Pkg /\ top.other = NoPkg /\ ~opt.force
      /\ RegFrame(top, opt, contents, Firm, reqby)
      /\ CleanFrame(top, depth, opt, entries, contents) /\ Firm = contents
  BY <1>1, <1>2, TopReg, UnforcedTop DEF FrameOK, ClaimedBy, Claims
<1>4. CASE DependencyFailed
  BY <1>2, <1>3, <1>4, ReturnReg DEF DependencyFailed
<1>5. CASE \E pt \in Pattern : CheckDependency(pt)
  <2>1. PICK pt \in Pattern : CheckDependency(pt)
    BY <1>5
  <2>2. top.at = "deps" /\ pt \in top.todo
    BY <2>1 DEF CheckDependency, At
  <2>3. CASE \E d \in Best(Installed(pt)) :
                stack' = [stack EXCEPT ![depth].todo = top.todo \ {pt},
                                       ![depth].deps = @ \cup {d}]
    <3>1. PICK d \in Best(Installed(pt)) :
             stack' = [stack EXCEPT ![depth].todo = top.todo \ {pt}, ![depth].deps = @ \cup {d}]
      BY <2>3
    <3>2. d \in Match[pt] \cap entries /\ d \in Pkg
      BY MatchAssumption DEF Best, Installed
    <3> DEFINE t == [top EXCEPT !.todo = top.todo \ {pt}, !.deps = @ \cup {d}]
    <3>3. /\ t \in Frame /\ t.at = "deps" /\ t.pkg = top.pkg /\ t.todo = top.todo \ {pt}
          /\ t.other = top.other /\ t.dir = top.dir /\ t.dep = top.dep
          /\ t.deps = top.deps \cup {d}
      BY <1>1, <2>2, <3>2 DEF Frame
    <3>4. stack' = [stack EXCEPT ![depth] = t]
      BY <3>1 DEF top
    <3> HIDE DEF t
    <3>5. FrameOK(t)
      BY <1>3, <3>3 DEF FrameOK
    <3>6. CASE top.dep = NoPkg
      BY <1>2, <2>2, <3>2, <3>3, <3>4, <3>5, <3>6, FoundReg
    <3>7. CASE top.dep # NoPkg
      <4>1. opt.fake \/ opt.no_record
        BY <1>3, <2>2, <3>7 DEF CleanFrame
      <4>2. Moved(t)
        BY <1>2, <3>4, <3>5, MovedKeeps
      <4>3. ClaimedBy(t, opt) = {}
        BY <3>3 DEF ClaimedBy, Claims
      <4>4. RegFrame(t, opt, contents', contents', reqby')
        BY <1>2, <1>3, <2>2, <3>3, <4>1 DEF RegFrame
      <4>5. CleanFrame(t, depth, opt, entries', contents')
        BY <4>1 DEF CleanFrame
      <4> QED BY <1>2, <1>3, <4>2, <4>3, <4>4, <4>5, MovedReg
    <3> QED BY <3>6, <3>7
  <2>4. CASE /\ ~opt.fake /\ ~opt.no_record
             /\ stack' = Append([stack EXCEPT ![depth].todo = top.todo \ {pt},
                                              ![depth].dep = pt],
                                Push(pt, TRUE)[depth + 1])
    <3> DEFINE s == [top EXCEPT !.todo = top.todo \ {pt}, !.dep = pt]
               t == NewFrame(pt, TRUE)
    <3>1. /\ s \in Frame /\ s.at = "deps" /\ s.pkg = top.pkg /\ s.other = top.other
          /\ s.dir = top.dir /\ s.todo = top.todo \ {pt} /\ s.dep = pt /\ s.deps = top.deps
      BY <1>1, <2>2 DEF Frame
    <3>2. stack' = Append([stack EXCEPT ![depth] = s], t)
      <4>1. Push(pt, TRUE)[depth + 1] = t
        BY <1>1, AppendFrame DEF Push, NewFrame, TypeInv, depth, Frame, Locations
      <4>2. [stack EXCEPT ![depth].todo = top.todo \ {pt}, ![depth].dep = pt]
              = [stack EXCEPT ![depth] = s]
        BY DEF top
      <4> QED BY <2>4, <4>1, <4>2
    <3> HIDE DEF s
    <3>3. FrameOK(s) /\ Suspended(s)
      BY <1>3, <3>1 DEF FrameOK, Suspended
    <3>4. Nested(s, t)
      BY <1>2, <3>2, <3>3, NestedKeeps
    <3>5. top.dep = NoPkg
      BY <1>3, <2>2, <2>4 DEF CleanFrame
    <3>6. RegFrame(s, opt, contents, contents, reqby)
      <4>1. \A px \in Deps[s.pkg] : px # NoPkg
        BY <1>3, <3>1, DepsAssumption DEF Acyclic
      <4>2. \A px : Met(top, px, contents, reqby) => Met(s, px, contents, reqby)
        BY <3>1 DEF Met
      <4>3. RecordFrame(top, contents, contents, reqby)
        BY <1>3, <2>4 DEF RegFrame
      <4>4. RecordFrame(s, contents, contents, reqby)
        BY <2>2, <3>1, <3>5, <4>1, <4>2, <4>3 DEF RecordFrame, Decided
      <4> QED BY <1>3, <2>2, <3>1, <4>4 DEF RegFrame
    <3> QED BY <1>2, <2>2, <3>4, <3>6, NestedReg
  <2> QED BY <1>3, <1>4, <2>1, <2>3, <2>4 DEF CheckDependency, Tolerated
<1>6. CASE DependencyInstalled
  <2>1. top.at = "again" /\ top.dep \in Pattern
    BY <1>1, <1>6 DEF DependencyInstalled, At, FrameOK
  <2>2. CASE \E d \in Best(Installed(top.dep)) :
                stack' = [stack EXCEPT ![depth].at = "deps", ![depth].dep = NoPkg,
                                       ![depth].deps = @ \cup {d}]
    <3>1. PICK d \in Best(Installed(top.dep)) :
             stack' = [stack EXCEPT ![depth].at = "deps", ![depth].dep = NoPkg,
                                    ![depth].deps = @ \cup {d}]
      BY <2>2
    <3>2. d \in Match[top.dep] \cap entries /\ d \in Pkg
      BY <2>1, MatchAssumption DEF Best, Installed
    <3> DEFINE t == [top EXCEPT !.at = "deps", !.dep = NoPkg, !.deps = @ \cup {d}]
    <3>3. /\ t \in Frame /\ t.at = "deps" /\ t.pkg = top.pkg /\ t.todo = top.todo
          /\ t.other = top.other /\ t.dir = top.dir /\ t.dep = NoPkg
          /\ t.deps = top.deps \cup {d}
      BY <1>1, <3>2 DEF Frame, Locations
    <3>4. stack' = [stack EXCEPT ![depth] = t]
      BY <3>1 DEF top
    <3> HIDE DEF t
    <3>5. FrameOK(t)
      BY <1>3, <3>3 DEF FrameOK
    <3> QED BY <1>2, <2>1, <3>2, <3>3, <3>4, <3>5, FoundReg
  <2> QED BY <1>3, <1>4, <1>6, <2>2 DEF DependencyInstalled, Tolerated
<1>7. CASE DependencyMissing
  BY <1>3, <1>4, <1>7 DEF DependencyMissing, Tolerated
<1>8. CASE DependenciesDone
  <2>1. top.at = "deps" /\ top.todo = {} /\ Goto("mkdir")
    BY <1>3, <1>8 DEF DependenciesDone, At
  <2>2. ASSUME NEW t, NEW S, TopAt(t, "mkdir"), t.deps = top.deps,
               RegFrame(top, opt, contents, S, reqby)
        PROVE  RegFrame(t, opt, contents, S, reqby)
    BY <1>3, <2>1, <2>2 DEF TopAt, RegFrame, RecordFrame, CleanFrame, Decided, Met
  <2>3. ASSUME NEW t, TopAt(t, "mkdir")
        PROVE  CleanFrame(t, depth, opt, entries', contents)
    BY <1>2, <1>3, <2>1, <2>3 DEF TopAt, CleanFrame, Decided
  <2> QED BY <1>2, <2>1, <2>2, <2>3, GotoReg DEF Locations, Claims
<1> QED BY <1>5, <1>6, <1>7, <1>8

\* Installation up to the registration.
LEMMA InstallReg ==
    ASSUME NEW Under, Acyclic(Under), Unforced(Options), TypeInv, NestInv(Under), RegInv,
           stack # <<>>,
           \/ PreInstall \/ (\E f \in File : ExtractFile(f)) \/ ExtractDone \/ ExtractFail
           \/ PostInstall \/ NukePkg
    PROVE  RegInv'
<1>1. /\ top.at \in {"pre", "extract", "post", "nukepkg"} /\ top.at # "find"
      /\ UNCHANGED <<opt, running, entries, contents, reqby, complete>>
  BY DEF PreInstall, ExtractFile, ExtractDone, ExtractFail, PostInstall, NukePkg, At,
         dbVars, treeVars, cmdVars, histVars
<1>2. CleanFrame(top, depth, opt, entries, contents)
  BY TopReg
<1>3. ASSUME NEW l \in {"extract", "post", "register"}, Goto(l), top.at # "nukepkg"
      PROVE  RegInv'
  <2>1. ASSUME NEW t, NEW S, TopAt(t, l), t.deps = top.deps,
               RegFrame(top, opt, contents, S, reqby)
        PROVE  RegFrame(t, opt, contents, S, reqby)
    BY <1>1, <1>3, <2>1 DEF TopAt, RegFrame, RecordFrame, Decided, Met
  <2>2. ASSUME NEW t, TopAt(t, l)
        PROVE  CleanFrame(t, depth, opt, entries', contents)
    BY <1>1, <1>2, <1>3, <2>2 DEF TopAt, CleanFrame, Decided
  <2> QED BY <1>1, <1>3, <2>1, <2>2, GotoReg DEF Locations, Claims
<1>4. ASSUME NEW l \in {"nukepkg", "nukedb"}, Goto(l)
      PROVE  RegInv'
  <2>1. ASSUME NEW t, NEW S, TopAt(t, l), t.deps = top.deps,
               RegFrame(top, opt, contents, S, reqby)
        PROVE  RegFrame(t, opt, contents, S, reqby)
    BY <1>1, <1>4, <2>1 DEF TopAt, RegFrame, RecordFrame, Decided
  <2>2. ASSUME NEW t, TopAt(t, l)
        PROVE  CleanFrame(t, depth, opt, entries', contents)
    BY <1>4, <2>2 DEF TopAt, CleanFrame, Decided
  <2> QED BY <1>1, <1>4, <2>1, <2>2, GotoReg DEF Locations, Claims
<1>5. CASE \E f \in File : ExtractFile(f)
  <2>1. stack' = stack /\ depth' = depth /\ top' = top /\ Firm' = Firm
    BY <1>1, <1>5 DEF ExtractFile, depth, top, Firm, ClaimedBy
  <2> QED BY <1>1, <2>1 DEF RegInv
<1>6. \/ Goto("extract") /\ top.at # "nukepkg"
      \/ Goto("post") /\ top.at # "nukepkg"
      \/ Goto("register") /\ top.at # "nukepkg"
      \/ Goto("nukepkg")
      \/ Goto("nukedb")
      \/ \E f \in File : ExtractFile(f)
  BY DEF PreInstall, ExtractDone, ExtractFail, PostInstall, NukePkg, At
<1> QED BY <1>3, <1>4, <1>5, <1>6

\* A dependency gets a line for the package, which is complete in the end.
LEMMA RegisterReg ==
    ASSUME NEW Under, Acyclic(Under), Unforced(Options), TypeInv, NestInv(Under), RegInv,
           stack # <<>>, (\E d \in Pkg : RegisterDepend(d)) \/ RegisterDone
    PROVE  RegInv'
<1>1. /\ top.at = "register" /\ top.at # "find"
      /\ UNCHANGED <<opt, running, entries, contents>>
  BY DEF RegisterDepend, RegisterDone, At, dbVars, cmdVars
<1>2. /\ RegFrame(top, opt, contents, Firm, reqby) /\ Firm = contents \ ClaimedBy(top, opt)
      /\ CleanFrame(top, depth, opt, entries, contents)
      /\ top \in Frame /\ FrameOK(top) /\ top.pkg \in Pkg
      /\ contents \subseteq entries /\ entries \subseteq Pkg /\ reqby \in [Pkg -> SUBSET Pkg]
  BY <1>1, TopReg, TopIsFrame DEF FrameOK, TypeInv, DataOK, DBTypeOK
<1>3. ASSUME NEW d \in Pkg, RegisterDepend(d) PROVE RegInv'
  <2> DEFINE t == [top EXCEPT !.deps = @ \ {d}]
  <2>1. stack' = [stack EXCEPT ![depth] = t] /\ complete' = complete
    BY <1>3 DEF RegisterDepend, top, histVars
  <2>2. /\ t \in Frame /\ t.at = top.at /\ t.pkg = top.pkg /\ t.todo = top.todo
        /\ t.other = top.other /\ t.dir = top.dir /\ t.dep = top.dep
        /\ t.deps = top.deps \ {d}
    BY <1>2 DEF Frame
  <2> HIDE DEF t
  <2>3. FrameOK(t)
    BY <1>2, <2>2 DEF FrameOK
  <2>4. Moved(t)
    BY <1>1, <2>1, <2>3, MovedKeeps
  <2>5. \/ ~opt.fake /\ d \in entries /\ reqby' = [reqby EXCEPT ![d] = @ \cup {top.pkg}]
        \/ (opt.fake \/ d \notin entries) /\ reqby' = reqby
    BY <1>3, UnforcedTop DEF RegisterDepend
  <2>6. \A e \in Firm : reqby[e] \subseteq reqby'[e]
    BY <1>2, <2>5
  <2>7. contents' \ ClaimedBy(t, opt) = Firm
    BY <1>1, <1>2, <2>2 DEF ClaimedBy
  <2>8. RegFrame(t, opt, contents', Firm, reqby')
    <3>1. ASSUME ~opt.fake, NEW pt, Met(top, pt, Firm, reqby)
          PROVE  Met(t, pt, Firm, reqby')
      <4>1. PICK e \in Match[pt] \cap Firm : e \in top.deps \/ top.pkg \in reqby[e]
        BY <3>1 DEF Met
      <4>2. e \in entries /\ e \in Pkg
        BY <1>2, <4>1
      <4>3. CASE e = d
        BY <1>2, <2>2, <2>5, <3>1, <4>1, <4>2, <4>3 DEF Met
      <4>4. CASE e # d
        BY <2>2, <2>6, <4>1, <4>4 DEF Met
      <4> QED BY <4>3, <4>4
    <3> QED BY <1>1, <1>2, <2>2, <3>1 DEF RegFrame, RecordFrame, Decided
  <2>9. CleanFrame(t, depth, opt, entries', contents')
    BY <1>1, <1>2, <2>2 DEF CleanFrame, Decided
  <2> QED BY <1>1, <2>1, <2>4, <2>6, <2>7, <2>8, <2>9, MovedReg
<1>4. CASE RegisterDone
  <2>1. /\ top.deps = {} /\ Return(TRUE) /\ reqby' = reqby
        /\ complete' = IF opt.fake \/ opt.no_record THEN complete
                       ELSE complete \cup {top.pkg}
    BY <1>4 DEF RegisterDone, dbVars
  <2>2. CASE opt.fake \/ opt.no_record
    BY <1>1, <2>1, <2>2, ReturnReg
  <2>3. CASE ~opt.fake /\ ~opt.no_record
    <3>1. entries' \subseteq contents
      BY <1>1, <1>2, <2>3 DEF CleanFrame, Decided
    <3>2. RecordFrame(top, contents, Firm, reqby) /\ complete \subseteq Firm
      BY <1>2, <2>3 DEF RegFrame, RegInv
    <3>3. complete' \subseteq contents
      BY <1>1, <1>2, <2>1, <2>3, <3>2 DEF RecordFrame
    <3>4. ASSUME NEW pt \in Deps[top.pkg]
          PROVE  \E d \in Match[pt] \cap contents : top.pkg \in reqby[d]
      <4>1. pt # NoPkg
        BY <1>2, DepsAssumption DEF Acyclic
      <4>2. Met(top, pt, Firm, reqby)
        BY <1>1, <3>2, <4>1 DEF RecordFrame, Decided
      <4> QED BY <1>2, <2>1, <4>2 DEF Met
    <3>5. \A q \in complete' \ complete : \A pt \in Deps[q] :
             \E d \in Match[pt] \cap contents : q \in reqby[d]
      BY <2>1, <2>3, <3>4
    <3> QED BY <1>1, <2>1, <3>1, <3>3, <3>4, <3>5, PoppedReg
  <2> QED BY <2>2, <2>3
<1> QED BY <1>3, <1>4

\* nuke_pkgdb removes what no package relies on.
LEMMA NukeReg ==
    ASSUME NEW Under, Acyclic(Under), Unforced(Options), TypeInv, NestInv(Under), RegInv,
           stack # <<>>, NukeMeta \/ NukeDir
    PROVE  /\ RegInv'
           /\ NukeMeta => complete' = complete
<1>1. top.at = "nukedb" /\ top.at # "find" /\ UNCHANGED <<opt, running>>
  BY DEF NukeMeta, NukeDir, At, cmdVars
<1>2. /\ RegFrame(top, opt, contents, Firm, reqby) /\ Firm = contents \ ClaimedBy(top, opt)
      /\ complete \subseteq Firm /\ reqby \in [Pkg -> SUBSET Pkg]
  BY TopReg DEF RegInv, TypeInv, DataOK, DBTypeOK
<1>3. CASE NukeMeta
  <2>1. /\ stack' = stack /\ entries' = entries /\ Recording
        /\ complete' = complete \ {top.dir}
        /\ contents' \subseteq contents /\ \A p \in contents : p \in contents' \/ p = top.dir
        /\ \A p \in Pkg : reqby'[p] = reqby[p] \/ p = top.dir
    BY <1>2, <1>3 DEF NukeMeta
  <2>2. ClaimedBy(top, opt) = {top.dir}
    BY <1>1, <2>1 DEF ClaimedBy, Claims, Recording
  <2>3. complete' = complete /\ contents' \ ClaimedBy(top, opt) = Firm
    BY <1>2, <2>1, <2>2
  <2>4. Moved(top)
    <3>1. stack \in Seq(Frame) /\ depth' = depth /\ top' = top
      BY <2>1 DEF TypeInv, depth, top
    <3> QED BY <2>1, <3>1 DEF Moved
  <2>5. \A d \in Firm : reqby[d] \subseteq reqby'[d]
    <3>1. Firm \subseteq Pkg
      BY DEF Firm, TypeInv, DataOK, DBTypeOK
    <3> QED BY <1>2, <2>1, <2>2, <3>1
  <2>6. RegFrame(top, opt, contents', Firm, reqby')
    BY <1>1, <1>2 DEF RegFrame, RecordFrame, Decided
  <2>7. CleanFrame(top, depth, opt, entries', contents')
    BY <1>1 DEF CleanFrame, Decided
  <2> QED BY <1>1, <2>1, <2>3, <2>4, <2>5, <2>6, <2>7, MovedReg
<1>4. CASE NukeDir
  <2>1. Return(FALSE) /\ UNCHANGED <<contents, reqby, complete>>
    BY <1>4 DEF NukeDir, histVars
  <2>2. ~NukeMeta
    BY <1>4 DEF NukeMeta, NukeDir
  <2> QED BY <1>1, <2>1, <2>2, ReturnReg
<1> QED BY <1>3, <1>4

\* Nothing is moved aside, deleted or renamed.
LEMMA NoUpdateStep ==
    ASSUME Unforced(Options), TypeInv, RegInv, stack # <<>>
    PROVE  ~MoveRequiredBy /\ ~MoveRest /\ ~DeleteOld /\ ~RenameDir
<1>1. top.other \notin Pkg
  BY UnforcedTop, NoPkgAssumption
<1>2. FrameOK(top)
  BY TopIsFrame
<1> QED BY <1>1, <1>2 DEF FrameOK, MoveRequiredBy, MoveRest, DeleteOld, RenameDir, At

\* The condition is kept.
LEMMA RegKeeps ==
    ASSUME NEW Under, Acyclic(Under), Unforced(Options), TypeInv, NestInv(Under), RegInv,
           [Next]_vars
    PROVE  RegInv'
<1>1. CASE Step /\ ~NextArg /\ ~Finish
  <2>1. stack # <<>>
    BY <1>1, StepHasFrame
  <2> QED BY <1>1, <2>1, NoUpdateStep, OpenReg, AlreadyReg, OtherReg, ConflictReg, MakeReg,
             WriteReg, DepsReg, InstallReg, RegisterReg, NukeReg DEF Step
<1>2. CASE NextArg
  <2>1. /\ stack = <<>> /\ running
        /\ UNCHANGED <<entries, contents, reqby, complete, opt, running>>
    BY <1>2 DEF NextArg, dbVars, histVars
  <2>2. Firm = contents
    BY <2>1 DEF Firm
  <2> DEFINE t == NewFrame(Head(args), opt.automatic)
  <2>3. t.at = "find" /\ t.other = NoPkg /\ t.dir = NoPkg /\ t.dep = NoPkg
    BY DEF NewFrame
  <2>4. /\ depth' = 1 /\ top' = t /\ stack' # <<>>
        /\ \A i \in 1..1 : stack'[i] = t
    <3>1. Len(stack') = 1
      BY <1>2, FirstFrame
    <3>2. stack' # <<>>
      BY <3>1, EmptySeq
    <3> QED BY <1>2, <3>2, FirstFrame
  <2> HIDE DEF t
  <2>5. Firm' = contents'
    BY <2>3, <2>4 DEF Firm, ClaimedBy, Claims
  <2>6. RegFrame(t, opt', contents', contents', reqby')
    BY <2>3 DEF RegFrame, RecordFrame, Decided
  <2>7. CleanFrame(t, 1, opt', entries', contents')
    BY <2>3 DEF CleanFrame, Decided
  <2>8. /\ complete' \subseteq contents'
        /\ \A q \in complete' : \A pt \in Deps[q] :
              \E d \in Match[pt] \cap contents' : q \in reqby'[d]
    BY <2>1, <2>2 DEF RegInv
  <2>9. opt' \in Options
    BY <2>1 DEF RegInv
  <2> QED BY <2>4, <2>5, <2>6, <2>7, <2>8, <2>9 DEF RegInv
<1>3. CASE UNCHANGED vars
  <2>1. UNCHANGED <<opt, running, entries, contents, reqby, complete, stack>>
    BY <1>3 DEF vars, dbVars, cmdVars, histVars
  <2>2. depth' = depth /\ top' = top /\ Firm' = Firm
    BY <2>1 DEF depth, top, Firm, ClaimedBy
  <2> QED BY <2>1, <2>2 DEF RegInv
<1>4. CASE Finish \/ Crash \/ \E o \in Options : \E a \in Requests[o] : Invoke(o, a)
  <2>1. /\ stack' = <<>> /\ UNCHANGED <<contents, reqby, complete>>
        /\ running' => opt' \in Options
    BY <1>4 DEF Finish, Crash, Invoke, dbVars, histVars, TypeInv, StackInv
  <2> QED BY <2>1, EmptyReg
<1> QED BY <1>1, <1>2, <1>3, <1>4 DEF Next

\* At the start every recorded package is complete and registered.
LEMMA RegInit == Init => RegInv
<1> SUFFICES ASSUME Init PROVE RegInv
  OBVIOUS
<1>1. /\ stack = <<>> /\ depth = 0 /\ ~running /\ complete = contents
      /\ \A q \in contents : Registered(q)
  BY EmptySeq DEF Init, ProcInit, DBInit, depth
<1>2. Firm = contents
  BY <1>1 DEF Firm
<1> QED BY <1>1, <1>2 DEF RegInv, Registered

\* Where no -f is given, nothing is updated and every +REQUIRED_BY can be written,
\* a package whose installation has run to its end is registered with an installed
\* package for each of its dependencies: check_dependencies finds it in the database
\* or installs it, and neither a nested installation, one that is given up, nor the
\* death of the process takes it away before pkg_register_depends writes the line.
THEOREM DependenciesRegisteredCorrect ==
    ASSUME NEW Under, Acyclic(Under), Unforced(Options)
    PROVE  Spec => []DependenciesRegistered
<1>1. Init => NestInv(Under) /\ RegInv
  <2>1. Init => stack = <<>> /\ depth = 0
    BY EmptySeq DEF Init, ProcInit, depth
  <2> QED BY <2>1, RegInit DEF NestInv
<1>2. TypeInv /\ NestInv(Under) /\ RegInv /\ [Next]_vars => (NestInv(Under) /\ RegInv)'
  BY NestKeeps, RegKeeps DEF Acyclic
<1>3. RegInv => DependenciesRegistered
  BY DEF RegInv, DependenciesRegistered, Registered, Firm
<1> QED BY <1>1, <1>2, <1>3, TypeInit, TypeStep, PTL DEF Spec

\* A step that leaves +CONTENTS and the complete packages alone is a stutter.
LEMMA PromiseStutter ==
    ASSUME UNCHANGED <<contents, complete>>
    PROVE  UNCHANGED Promise!vars
  BY DEF Promise!vars

\* A package that works has a match for each dependency.
LEMMA WorkingFulfilled ==
    ASSUME RegInv, NEW q \in complete
    PROVE  q \in contents /\ Promise!Fulfilled(q, contents)
  BY DEF RegInv, Firm, Promise!Fulfilled

\* Every step of pkg_add is a step of the promise, or none.
LEMMA PromiseStep ==
    ASSUME NEW Under, Acyclic(Under), Unforced(Options), TypeInv, NestInv(Under), RegInv, RegInv',
           [Next]_vars
    PROVE  [Promise!Next]_Promise!vars
<1>1. complete \subseteq contents /\ complete' \subseteq contents'
  BY DEF RegInv, Firm
<1>2. \A q \in complete' : Promise!Fulfilled(q, contents')
  BY DEF RegInv, Firm, Promise!Fulfilled
<1>3. CASE WriteMeta
  <2>1. /\ complete' = complete /\ top.at = "write" /\ stack # <<>>
        /\ contents' = contents \/ contents' = contents \cup {top.dir}
        /\ contents' # contents => Recording
    BY <1>3 DEF WriteMeta, At, histVars
  <2>2. CASE contents' = contents
    BY <2>1, <2>2, PromiseStutter
  <2>3. CASE contents' = contents \cup {top.dir} /\ Recording
    <3>1. top.dir \in Pkg
      BY <2>1, <2>3, DirReg, TopIsFrame DEF Recording, FrameOK
    <3>2. Promise!Record(top.dir)
      BY <1>1, <2>1, <2>3 DEF Promise!Record
    <3> QED BY <3>1, <3>2 DEF Promise!Next
  <2> QED BY <2>1, <2>2, <2>3
<1>4. CASE NukeMeta
  <2>1. /\ top.at = "nukedb" /\ stack # <<>> /\ Recording
        /\ contents' = contents \/ contents' = contents \ {top.dir}
        /\ complete' = complete \ {top.dir}
    BY <1>4 DEF NukeMeta, At
  <2>2. complete' = complete
    BY <1>4, <2>1, NukeReg
  <2>3. CASE contents' = contents
    BY <2>2, <2>3, PromiseStutter
  <2>4. CASE contents' = contents \ {top.dir}
    <3>1. top.dir \in Pkg
      BY <2>1, DirReg, TopIsFrame DEF Recording, FrameOK
    <3>2. Promise!Forget(top.dir)
      BY <1>1, <1>2, <2>1, <2>4 DEF Promise!Forget, Promise!Kept
    <3> QED BY <3>1, <3>2 DEF Promise!Next
  <2> QED BY <2>1, <2>3, <2>4
<1>5. CASE RegisterDone
  <2>1. /\ top.at = "register" /\ stack # <<>> /\ contents' = contents
        /\ complete' = complete \/ complete' = complete \cup {top.pkg}
    BY <1>5 DEF RegisterDone, At, dbVars
  <2>2. CASE complete' = complete
    BY <2>1, <2>2, PromiseStutter
  <2>3. CASE complete' = complete \cup {top.pkg}
    <3>1. top.pkg \in contents /\ top.pkg \in Pkg
      BY <1>1, <2>1, <2>3 DEF TypeInv, DataOK, DBTypeOK
    <3>2. Promise!Fulfilled(top.pkg, contents)
      BY <1>2, <2>1, <2>3
    <3>3. Promise!Complete(top.pkg)
      BY <1>1, <2>1, <2>3, <3>1, <3>2 DEF Promise!Complete
    <3> QED BY <3>1, <3>3 DEF Promise!Next
  <2> QED BY <2>1, <2>2, <2>3
<1>6. CASE \/ OpenArchive \/ CheckAlreadyInstalled \/ CheckOtherInstalled \/ CheckConflicts
           \/ MakeDir \/ (\E pt \in Pattern : CheckDependency(pt))
           \/ DependencyInstalled \/ DependencyMissing \/ DependenciesDone
           \/ PreInstall \/ (\E f \in File : ExtractFile(f)) \/ ExtractDone \/ ExtractFail
           \/ PostInstall \/ (\E d \in Pkg : RegisterDepend(d)) \/ NukePkg \/ NukeDir
           \/ NextArg \/ Finish \/ Crash \/ UNCHANGED vars
           \/ (\E o \in Options : \E a \in Requests[o] : Invoke(o, a))
  <2>1. UNCHANGED <<contents, complete>>
    BY <1>6 DEF OpenArchive, CheckAlreadyInstalled, CheckOtherInstalled, CheckConflicts,
                MakeDir, CheckDependency, DependencyInstalled, DependencyMissing,
                DependenciesDone, PreInstall, ExtractFile, ExtractDone, ExtractFail,
                PostInstall, RegisterDepend, NukePkg, NukeDir, NextArg, Finish, Crash, Invoke,
                vars, dbVars, treeVars, histVars
  <2> QED BY <2>1, PromiseStutter
<1>7. ~MoveRequiredBy /\ ~MoveRest /\ ~DeleteOld /\ ~RenameDir
  <2>1. CASE stack = <<>>
    BY <2>1 DEF MoveRequiredBy, MoveRest, DeleteOld, RenameDir, At
  <2> QED BY <2>1, NoUpdateStep
<1> QED BY <1>3, <1>4, <1>5, <1>6, <1>7 DEF Next, Step

\* pkg_add implements the promise, where no -f is given, nothing is updated and
\* every +REQUIRED_BY can be written: the record of a package goes only while no
\* package that works needs it, whatever is given up or killed.
THEOREM PromiseCorrect ==
    ASSUME NEW Under, Acyclic(Under), Unforced(Options)
    PROVE  Spec => KeepsPromise
<1>1. Init => NestInv(Under) /\ RegInv
  <2>1. Init => stack = <<>> /\ depth = 0
    BY EmptySeq DEF Init, ProcInit, depth
  <2> QED BY <2>1, RegInit DEF NestInv
<1>2. TypeInv /\ NestInv(Under) /\ RegInv /\ [Next]_vars => (NestInv(Under) /\ RegInv)'
  BY NestKeeps, RegKeeps DEF Acyclic
<1>3. TypeInv /\ RegInv => contents \subseteq Pkg /\ complete \subseteq contents
  BY DEF TypeInv, DataOK, DBTypeOK, RegInv, Firm
<1>4. Init /\ TypeInv /\ RegInv => Promise!Init
  <2> SUFFICES ASSUME TypeInv, RegInv PROVE Promise!Init
    OBVIOUS
  <2>1. \A q \in complete : Promise!Fulfilled(q, contents)
    BY WorkingFulfilled
  <2> QED BY <1>3, <2>1 DEF Promise!Init
<1>5. TypeInv /\ NestInv(Under) /\ RegInv /\ RegInv' /\ [Next]_vars
      => [Promise!Next]_Promise!vars
  BY PromiseStep
<1> QED BY <1>1, <1>2, <1>4, <1>5, TypeInit, TypeStep, PTL DEF Spec, KeepsPromise, Promise!Spec
=============================================================================
