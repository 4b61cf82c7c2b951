-------------------------- MODULE PkgDeleteProofs --------------------------
(***************************************************************************)
(* Proofs of the safety properties of PkgDelete, for every set of packages,*)
(* patterns, files, options and requests.                                  *)
(***************************************************************************)
EXTENDS PkgDelete, DataFacts, SequenceTheorems, TLAPS

\* A list that Orders enumerates is a sequence over the set.
LEMMA OrdersType ==
    ASSUME NEW S, IsFiniteSet(S), NEW s \in Orders(S)
    PROVE  s \in Seq(S) /\ Len(s) = Cardinality(S) /\ Len(s) \in Nat
<1>1. Cardinality(S) \in Nat
  BY FS_CardinalityType
<1>2. s \in [1..Cardinality(S) -> S]
  BY DEF Orders
<1>3. s \in Seq(S)
  BY <1>1, <1>2, SeqDef
<1>4. Len(s) = Cardinality(S)
  BY <1>1, <1>2, <1>3, LenProperties
<1> QED BY <1>1, <1>3, <1>4

\* Without returns sequences over the same set, and none of their elements is
\* in the set that was filtered out.
LEMMA WithoutType ==
    ASSUME NEW T, NEW s \in Seq(T), NEW S, NEW r \in Without(s, S)
    PROVE  r \in Seq(T) /\ Rng(r) \cap S = {}
<1> DEFINE K == {i \in 1..Len(s) : s[i] \notin S}
<1>1. PICK g \in Orders(K) : r = [i \in DOMAIN g |-> s[g[i]]]
  BY DEF Without
<1>2. IsFiniteSet(K)
  <2>1. IsFiniteSet(1..Len(s))
    BY LenProperties, FS_Interval
  <2>2. K \subseteq 1..Len(s)
    OBVIOUS
  <2> QED BY <2>1, <2>2, FS_Subset
<1>3. g \in Seq(K) /\ Len(g) \in Nat
  BY <1>1, <1>2, OrdersType
<1>4. DOMAIN g = 1..Len(g) /\ \A i \in 1..Len(g) : g[i] \in K
  BY <1>3, LenProperties, ElementOfSeq
<1>5. r \in [1..Len(g) -> T \ S]
  BY <1>1, <1>4, ElementOfSeq
<1>6. r \in Seq(T \ S)
  <2> DEFINE U == T \ S
  <2>1. r \in [1..Len(g) -> U]
    BY <1>5
  <2> HIDE DEF U
  <2>2. r \in Seq(U)
    BY <1>3, <2>1, SeqDef
  <2> QED BY <2>2 DEF U
<1>7. r \in Seq(T)
  BY <1>6, SeqMonotonic
<1>8. Rng(r) \cap S = {}
  BY <1>6, ElementOfSeq DEF Rng
<1> QED BY <1>7, <1>8

\* The list Head and Tail split, the ranges of the lists the actions build.
LEMMA RngFacts ==
    ASSUME NEW T, NEW s \in Seq(T), NEW r \in Seq(T), NEW e \in T
    PROVE  /\ Rng(s) \subseteq T
           /\ Rng(Append(s, e)) = Rng(s) \cup {e}
           /\ Rng(s \o r) = Rng(s) \cup Rng(r)
           /\ s # <<>> => Rng(s) = {Head(s)} \cup Rng(Tail(s))
<1>1. Rng(s) \subseteq T
  BY ElementOfSeq DEF Rng
<1>2. Rng(Append(s, e)) = Rng(s) \cup {e}
  BY AppendProperties, LenProperties DEF Rng
<1>3. Rng(s \o r) = Rng(s) \cup Rng(r)
  <2>1. \A x \in Rng(s \o r) : x \in Rng(s) \cup Rng(r)
    BY ConcatProperties, LenProperties DEF Rng
  <2>2. \A x \in Rng(s) : x \in Rng(s \o r)
    BY ConcatProperties, LenProperties DEF Rng
  <2>3. \A x \in Rng(r) : x \in Rng(s \o r)
    <3>1. TAKE x \in Rng(r)
    <3>2. PICK i \in 1..Len(r) : x = r[i]
      BY <3>1 DEF Rng
    <3>3. /\ Len(s) + i \in 1..Len(s \o r)
          /\ (s \o r)[Len(s) + i] = r[i]
      BY <3>2, ConcatProperties, LenProperties
    <3> QED BY <3>2, <3>3 DEF Rng
  <2> QED BY <2>1, <2>2, <2>3
<1>4. s # <<>> => Rng(s) = {Head(s)} \cup Rng(Tail(s))
  <2>1. SUFFICES ASSUME s # <<>> PROVE Rng(s) = {Head(s)} \cup Rng(Tail(s))
    OBVIOUS
  <2>2. /\ Len(s) \in Nat \ {0} /\ Len(Tail(s)) = Len(s) - 1 /\ Head(s) = s[1]
        /\ \A i \in 1..Len(Tail(s)) : Tail(s)[i] = s[i + 1]
    BY <2>1, EmptySeq, HeadTailProperties
  <2>3. \A x \in Rng(s) : x \in {Head(s)} \cup Rng(Tail(s))
    <3>1. TAKE x \in Rng(s)
    <3>2. PICK i \in 1..Len(s) : x = s[i]
      BY <3>1 DEF Rng
    <3>3. CASE i = 1
      BY <2>2, <3>2, <3>3
    <3>4. CASE i # 1
      <4>1. i - 1 \in 1..Len(Tail(s)) /\ Tail(s)[i - 1] = s[i]
        BY <2>2, <3>2, <3>4
      <4> QED BY <3>2, <4>1 DEF Rng
    <3> QED BY <3>3, <3>4
  <2>4. \A x \in {Head(s)} \cup Rng(Tail(s)) : x \in Rng(s)
    BY <2>2 DEF Rng
  <2> QED BY <2>3, <2>4
<1> QED BY <1>1, <1>2, <1>3, <1>4

-----------------------------------------------------------------------------
(* Type correctness.                                                       *)

\* Every list of arguments expands to installed or recorded packages.
LEMMA ExpandType ==
    ASSUME TypeOK, NEW x
    PROVE  Expand(x) \subseteq Pkg /\ IsFiniteSet(Expand(x))
<1>1. Expand(x) \subseteq Pkg
  BY MatchAssumption DEF Expand, TypeOK, DBTypeOK
<1> QED BY <1>1, PkgFinite, FS_Subset

\* Every database an invocation may find, and an idle process, are well-typed.
LEMMA TypeInit == Init => TypeOK
<1> SUFFICES ASSUME Init PROVE TypeOK
  OBVIOUS
<1>1. DBTypeOK
  BY ContentsAssumption DEF Init, DBInit, DBTypeOK
<1>2. opt \in OptionSpace
  BY DEF Init, ProcInit, NoOptions, OptionSpace
<1>3. runs \in 0..MaxRuns /\ old \in [n : Nat, head : Pkg \cup {NoPkg}]
  BY BoundsAssumption DEF Init, ProcInit
<1>4. /\ args \in Seq(Pkg \cup Pattern \cup File)
      /\ kept \in Seq(Pkg) /\ todo \in Seq(Pkg) /\ sorted \in Seq(Pkg)
  BY EmptySeq DEF Init, ProcInit
<1> QED BY <1>1, <1>2, <1>3, <1>4 DEF Init, ProcInit, TypeOK, Locations

\* The arguments and the sort.
LEMMA TypeSort ==
    ASSUME TypeOK,
           \/ GatherArg \/ GatherDone \/ Dedup \/ DedupDone
           \/ ScanMove \/ ScanKeep \/ ScanUnreadable \/ RoundDone \/ SortDone
    PROVE  TypeOK'
<1> USE DEF TypeOK, DBTypeOK, Locations, dbVars, cmdVars, listVars, leafVars, pkgVars
<1>1. CASE GatherArg
  <2>1. args' \in Seq(Pkg \cup Pattern \cup File)
    BY <1>1 DEF GatherArg
  <2>2. todo' \in Seq(Pkg)
    <3>1. CASE UNCHANGED todo
      BY <3>1
    <3>2. CASE todo' # todo
      <4>1. PICK s \in Orders(Expand(Head(args))) : todo' = todo \o s
        BY <1>1, <3>2 DEF GatherArg
      <4>2. s \in Seq(Pkg)
        BY <4>1, OrdersType, ExpandType, SeqMonotonic
      <4> QED BY <4>1, <4>2, ConcatProperties
    <3> QED BY <3>1, <3>2
  <2> QED BY <1>1, <2>1, <2>2 DEF GatherArg
<1>2. CASE GatherDone
  BY <1>2, ElementOfSeq DEF GatherDone, Exit, Rng
<1>3. CASE Dedup
  BY <1>3 DEF Dedup
<1>4. CASE DedupDone
  BY <1>4 DEF DedupDone, StartRound
<1>5. CASE ScanMove
  BY <1>5 DEF ScanMove
<1>6. CASE ScanKeep
  <2>1. PICK s \in Orders(NewlyRequired(Head(todo))) :
            kept' = Append(s \o kept, Head(todo))
    BY <1>6 DEF ScanKeep
  <2>2. NewlyRequired(Head(todo)) \subseteq Pkg
    BY <1>6 DEF ScanKeep, NewlyRequired, Missing
  <2>3. IsFiniteSet(NewlyRequired(Head(todo)))
    BY <2>2, PkgFinite, FS_Subset
  <2>4. s \in Seq(NewlyRequired(Head(todo)))
    BY <2>1, <2>3, OrdersType
  <2>5. s \in Seq(Pkg)
    BY <2>2, <2>4, SeqMonotonic
  <2>6. s \o kept \in Seq(Pkg) /\ Head(todo) \in Pkg
    BY <1>6, <2>5, ConcatProperties, HeadTailProperties DEF ScanKeep
  <2>7. kept' \in Seq(Pkg)
    BY <2>1, <2>6, AppendProperties
  <2>8. todo' \in Seq(Pkg)
    BY <1>6 DEF ScanKeep
  <2>9. UNCHANGED <<dbVars, cmdVars, leafVars, pkgVars, pc, sorted, old, bad>>
    BY <1>6 DEF ScanKeep
  <2> QED BY <2>7, <2>8, <2>9
<1>7. CASE ScanUnreadable
  BY <1>7 DEF ScanUnreadable
<1>8. CASE RoundDone
  <2>1. old' \in [n : Nat, head : Pkg \cup {NoPkg}]
    BY <1>8, HeadTailProperties, LenProperties DEF RoundDone, StartRound
  <2>2. kept' \in Seq(Pkg) /\ todo' \in Seq(Pkg) /\ pc' \in {"sorted", "scan"}
    BY <1>8, EmptySeq DEF RoundDone, StartRound
  <2> QED BY <1>8, <2>1, <2>2 DEF RoundDone
<1>9. CASE SortDone
  <2>1. sorted' \in Seq(Pkg) /\ todo' \in Seq(Pkg)
    BY <1>9, ConcatProperties, EmptySeq DEF SortDone
  <2>2. pc' \in {"idle", "leaves", "check"}
    BY <1>9 DEF SortDone, Exit
  <2> QED BY <1>9, <2>1, <2>2 DEF SortDone
<1> QED BY <1>1, <1>2, <1>3, <1>4, <1>5, <1>6, <1>7, <1>8, <1>9

\* The leaves and the check for preserved packages.
LEMMA TypeCheck ==
    ASSUME TypeOK,
           (\E p \in Pkg : VisitLeaf(p)) \/ LeafPassDone \/ CheckPreserve
    PROVE  TypeOK'
<1> USE DEF TypeOK, DBTypeOK, Locations, dbVars, cmdVars, listVars, leafVars, pkgVars
<1>1. ASSUME NEW p \in Pkg, VisitLeaf(p) PROVE TypeOK'
  <2>1. \/ UNCHANGED <<sorted, progress>>
        \/ sorted' = Append(sorted, p) /\ progress' = TRUE
    BY <1>1 DEF VisitLeaf
  <2>2. sorted' \in Seq(Pkg)
    <3>1. sorted \in Seq(Pkg) /\ p \in Pkg
      BY <1>1
    <3>2. Append(sorted, p) \in Seq(Pkg)
      BY <3>1, AppendProperties
    <3> QED BY <2>1, <3>1, <3>2
  <2>3. progress' \in BOOLEAN
    BY <2>1
  <2> QED BY <1>1, <2>2, <2>3 DEF VisitLeaf
<1>2. CASE LeafPassDone
  BY <1>2 DEF LeafPassDone
<1>3. CASE CheckPreserve
  <2>1. sorted' \in Seq(Pkg)
    BY <1>3, WithoutType DEF CheckPreserve
  <2> QED BY <1>3, <2>1 DEF CheckPreserve, Exit
<1> QED BY <1>1, <1>2, <1>3

\* remove_pkg.
LEMMA TypeRemove ==
    ASSUME TypeOK,
           \/ RemoveNext \/ RemoveFromIndex \/ RemoveDone \/ RunDeinstall
           \/ (\E f \in File : DeleteFile(f)) \/ FilesDone
           \/ (\E d \in Pkg : RemoveDepend(d)) \/ DepsDone
           \/ UnlinkMeta \/ RemoveDir
    PROVE  TypeOK'
<1> USE DEF TypeOK, DBTypeOK, Locations, dbVars, cmdVars, listVars, leafVars, pkgVars
<1>1. CASE RemoveNext
  <2>1. cur' \in Pkg /\ sorted' \in Seq(Pkg)
    BY <1>1, HeadTailProperties DEF RemoveNext
  <2>2. pc' \in {"deinstall", "remove", "idle"} /\ bad' \in BOOLEAN
    BY <1>1 DEF RemoveNext, Returned
  <2> QED BY <1>1, <2>1, <2>2 DEF RemoveNext
<1>2. CASE RemoveFromIndex
  <2>1. cur' \in Pkg /\ sorted' \in Seq(Pkg)
    BY <1>2, HeadTailProperties DEF RemoveFromIndex
  <2>2. pc' \in {"remove", "idle"} /\ bad' \in BOOLEAN
    BY <1>2 DEF RemoveFromIndex, Returned
  <2>3. owner' \in [File -> Pkg \cup {NoPkg}]
    BY <1>2 DEF RemoveFromIndex, WithoutPkg
  <2> QED BY <1>2, <2>1, <2>2, <2>3 DEF RemoveFromIndex
<1>3. CASE RemoveDone
  BY <1>3 DEF RemoveDone, Exit
<1>4. CASE RunDeinstall
  BY <1>4, ContentsAssumption DEF RunDeinstall, Returned
<1>5. ASSUME NEW f \in File, DeleteFile(f) PROVE TypeOK'
  BY <1>5 DEF DeleteFile
<1>6. CASE FilesDone
  BY <1>6 DEF FilesDone, WithoutKeys
<1>7. ASSUME NEW d \in Pkg, RemoveDepend(d) PROVE TypeOK'
  BY <1>7 DEF RemoveDepend
<1>8. CASE DepsDone
  <2>1. late' \in BOOLEAN
    BY <1>8 DEF DepsDone, ScriptRuns
  <2> QED BY <1>8, <2>1 DEF DepsDone
<1>9. CASE UnlinkMeta
  BY <1>9 DEF UnlinkMeta
<1>10. CASE RemoveDir
  BY <1>10 DEF RemoveDir, MetaGone, Returned
<1> QED BY <1>1, <1>2, <1>3, <1>4, <1>5, <1>6, <1>7, <1>8, <1>9, <1>10

\* Every step keeps the types.
LEMMA TypeNext == TypeOK /\ [Next]_vars => TypeOK'
<1> SUFFICES ASSUME TypeOK, [Next]_vars PROVE TypeOK'
  OBVIOUS
<1>1. ASSUME NEW o \in Options, NEW x \in Requests, Invoke(o, x) PROVE TypeOK'
  <2>1. runs' \in 0..MaxRuns
    BY <1>1, BoundsAssumption DEF Invoke, TypeOK
  <2>2. opt' \in OptionSpace /\ args' \in Seq(Pkg \cup Pattern \cup File)
    BY <1>1, OptionsAssumption, RequestsAssumption DEF Invoke
  <2>3. kept' \in Seq(Pkg) /\ todo' \in Seq(Pkg) /\ sorted' \in Seq(Pkg)
    BY <1>1, EmptySeq DEF Invoke
  <2> QED BY <1>1, <2>1, <2>2, <2>3
          DEF Invoke, TypeOK, DBTypeOK, Locations, dbVars, leafVars, pkgVars
<1>2. CASE Step
  BY <1>2, TypeSort, TypeCheck, TypeRemove DEF Step
<1>3. CASE Crash
  BY <1>3 DEF Crash, Exit, TypeOK, DBTypeOK, Locations, dbVars, cmdVars,
              listVars, leafVars, pkgVars
<1>4. CASE UNCHANGED vars
  BY <1>4 DEF vars, TypeOK, DBTypeOK, dbVars, cmdVars, listVars, leafVars, pkgVars
<1> QED BY <1>1, <1>2, <1>3, <1>4 DEF Next

\* The database and the process state of pkg_delete stay well-typed.
THEOREM TypeCorrect == Spec => []TypeOK
  BY TypeInit, TypeNext, PTL DEF Spec

-----------------------------------------------------------------------------
(* The inductive invariant.                                                *)

\* The steps before remove_pkg, which only read the database.
Early ==
    \/ GatherArg \/ GatherDone \/ Dedup \/ DedupDone
    \/ ScanMove \/ ScanKeep \/ ScanUnreadable \/ RoundDone \/ SortDone
    \/ (\E p \in Pkg : VisitLeaf(p)) \/ LeafPassDone \/ CheckPreserve

\* Choosing and sorting packages leaves the database and the options alone.
LEMMA EarlyFrame ==
    ASSUME Early
    PROVE  /\ UNCHANGED <<entries, contents, reqby, preserved, automatic, disk, owner>>
           /\ UNCHANGED <<opt, careful>>
           /\ pc # "idle"
           /\ pc' \notin {"deinstall", "files", "deps", "unlink"}
<1> USE DEF dbVars, cmdVars, Exit
<1>1. CASE GatherArg \/ GatherDone \/ Dedup
  BY <1>1 DEF GatherArg, GatherDone, Dedup
<1>2. CASE DedupDone \/ RoundDone
  BY <1>2 DEF DedupDone, RoundDone, StartRound
<1>3. CASE ScanMove \/ ScanKeep \/ ScanUnreadable
  BY <1>3 DEF ScanMove, ScanKeep, ScanUnreadable
<1>4. CASE SortDone \/ LeafPassDone \/ CheckPreserve
  BY <1>4 DEF SortDone, LeafPassDone, CheckPreserve
<1>5. CASE \E p \in Pkg : VisitLeaf(p)
  BY <1>5 DEF VisitLeaf
<1> QED BY <1>1, <1>2, <1>3, <1>4, <1>5 DEF Early

\* The steps of remove_pkg and of the loop around it.
Late ==
    \/ RemoveNext \/ RemoveFromIndex \/ RemoveDone \/ RunDeinstall
    \/ (\E f \in File : DeleteFile(f)) \/ FilesDone
    \/ (\E d \in Pkg : RemoveDepend(d)) \/ DepsDone
    \/ UnlinkMeta \/ RemoveDir

\* The steps that start or end an invocation, or change nothing.
Outer ==
    \/ \E o \in Options, x \in Requests : Invoke(o, x)
    \/ Crash
    \/ UNCHANGED vars

\* Every step starts or ends an invocation, chooses packages, or removes one.
LEMMA NextCases == [Next]_vars => Outer \/ Early \/ Late
  BY DEF Next, Step, Outer, Early, Late

\* Starting an invocation or killing one leaves the database alone.
LEMMA OuterFrame ==
    ASSUME Outer
    PROVE  /\ UNCHANGED <<entries, contents, reqby, preserved, automatic, disk, owner>>
           /\ \/ /\ pc' = "gather" /\ sorted' = <<>>
                 /\ careful' => careful /\ opt'.force = 0 /\ ~opt'.keep_preserve
              \/ pc' = "idle" /\ UNCHANGED careful
              \/ UNCHANGED vars
<1>1. ASSUME NEW o \in Options, NEW x \in Requests, Invoke(o, x)
      PROVE  /\ UNCHANGED dbVars
             /\ pc' = "gather" /\ sorted' = <<>>
             /\ careful' => careful /\ opt'.force = 0 /\ ~opt'.keep_preserve
  BY <1>1 DEF Invoke
<1>2. CASE Crash
  BY <1>2 DEF Crash, Exit, dbVars, cmdVars
<1>3. CASE UNCHANGED vars
  BY <1>3 DEF vars, dbVars
<1> QED BY <1>1, <1>2, <1>3 DEF Outer, dbVars

\* The files whose key always goes.
LEMMA PlainFiles == \A p \in Pkg : Plainly(p) \subseteq File \ (Dirs \cup Saved)
  BY ContentsAssumption DEF Plainly

\* What the file index says of the packages holds as long as no entry is new
\* and no directory goes.
LEMMA IndexKept ==
    ASSUME IndexInv, entries \subseteq entries',
           \A f \in File : owner'[f] = NoPkg \/ owner'[f] = owner[f]
    PROVE  /\ \A f \in File : owner'[f] # NoPkg => f \in Contents[owner'[f]]
           /\ OwnersRegistered'
  BY DEF IndexInv, OwnersRegistered

\* The file index.
LEMMA IndexStep ==
    ASSUME TypeOK, IndexInv, OptionInv, [Next]_vars
    PROVE  IndexInv'
<1> USE DEF dbVars, cmdVars, pkgVars
<1> DEFINE Ends == pc' \notin {"files", "deps", "unlink"}
<1>1. ASSUME UNCHANGED <<entries, owner>>, Ends
      PROVE  IndexInv'
  BY <1>1, IndexKept DEF IndexInv
<1>2. CASE Outer
  <2>1. CASE UNCHANGED vars
    BY <2>1 DEF vars, IndexInv, OwnersRegistered, Plainly
  <2>2. CASE ~UNCHANGED vars
    BY <1>1, <1>2, <2>2, OuterFrame
  <2> QED BY <2>1, <2>2
<1>3. CASE Early
  BY <1>1, <1>3, EarlyFrame
<1>4. CASE RemoveNext \/ RemoveDone
  <2>1. UNCHANGED <<entries, owner>> /\ Ends
    BY <1>4 DEF RemoveNext, RemoveDone, Returned, Exit
  <2> QED BY <1>1, <2>1
<1>5. CASE RunDeinstall
  <2>1. UNCHANGED <<entries, owner, opt, cur>>
    BY <1>5 DEF RunDeinstall
  <2>2. CASE pc' = "files" /\ files' = IF opt.fake THEN {} ELSE Contents[cur]
    BY <2>1, <2>2, IndexKept DEF IndexInv, Plainly
  <2>3. CASE Ends
    BY <1>1, <2>1, <2>3
  <2> QED BY <1>5, <2>2, <2>3 DEF RunDeinstall, Returned
<1>6. CASE RemoveFromIndex
  <2>1. UNCHANGED entries /\ Ends
    BY <1>6 DEF RemoveFromIndex, Returned
  <2>2. \A f \in File : owner'[f] = NoPkg \/ owner'[f] = owner[f]
    BY <1>6 DEF RemoveFromIndex, WithoutPkg
  <2> QED BY <2>1, <2>2, IndexKept DEF IndexInv
<1>7. ASSUME NEW f \in File, DeleteFile(f) PROVE IndexInv'
  <2>1. /\ UNCHANGED <<entries, owner, opt, cur, pc>> /\ pc = "files"
        /\ files' = files \ {f} /\ cur \in Pkg
    BY <1>7 DEF DeleteFile, TypeOK
  <2>2. keys' = keys \cup {f} \/ (f \in Dirs \cup Saved /\ keys' = keys)
    BY <1>7 DEF DeleteFile
  <2>3. ~opt.fake => Plainly(cur) \subseteq files' \cup keys'
    <3> SUFFICES ASSUME ~opt.fake, NEW g \in Plainly(cur) PROVE g \in files' \cup keys'
      OBVIOUS
    <3>1. g \in files \cup keys
      BY <2>1 DEF IndexInv
    <3>2. g \notin Dirs \cup Saved
      BY DEF Plainly
    <3>3. CASE g = f
      BY <2>2, <3>2, <3>3
    <3>4. CASE g # f
      BY <2>1, <2>2, <3>1, <3>4
    <3> QED BY <3>3, <3>4
  <2> QED BY <2>1, <2>3, IndexKept DEF IndexInv, Plainly
<1>8. CASE FilesDone
  <2>1. /\ UNCHANGED <<entries, cur, opt>> /\ pc' = "deps" /\ cur \in Pkg
        /\ pc = "files" /\ files = {}
    BY <1>8 DEF FilesDone, TypeOK
  <2>2. \A f \in File : owner'[f] = NoPkg \/ owner'[f] = owner[f]
    BY <1>8 DEF FilesDone, WithoutKeys
  <2>3. ~opt.fake => \A f \in File \ (Dirs \cup Saved) : owner'[f] # cur
    <3> SUFFICES ASSUME ~opt.fake, NEW f \in File \ (Dirs \cup Saved), owner'[f] = cur
                 PROVE  FALSE
      OBVIOUS
    <3>1. cur # NoPkg
      BY <2>1, NoPkgAssumption
    <3>2. f \notin keys /\ owner[f] = cur
      BY <1>8, <3>1 DEF FilesDone, WithoutKeys
    <3>3. f \in Contents[cur]
      BY <3>1, <3>2 DEF IndexInv
    <3>4. f \in Plainly(cur)
      BY <3>3 DEF Plainly
    <3>5. Plainly(cur) \subseteq keys
      BY <2>1 DEF IndexInv
    <3> QED BY <3>2, <3>4, <3>5
  <2> QED BY <2>1, <2>2, <2>3, IndexKept DEF IndexInv
<1>9. CASE (\E d \in Pkg : RemoveDepend(d)) \/ DepsDone \/ UnlinkMeta
  <2>1. /\ UNCHANGED <<entries, owner, opt, cur>>
        /\ pc \in {"deps", "unlink"} /\ pc' \in {"deps", "unlink", "remove"}
    BY <1>9 DEF RemoveDepend, DepsDone, UnlinkMeta
  <2> QED BY <2>1, IndexKept DEF IndexInv
<1>10. CASE RemoveDir
  <2>1. pc = "unlink" /\ UNCHANGED <<owner, cur, opt>> /\ pc' \in {"remove", "idle"}
    BY <1>10 DEF RemoveDir, Returned
  <2>2. entries' = entries \/ entries' = entries \ {cur}
    BY <1>10 DEF RemoveDir
  <2> QED BY <2>1, <2>2 DEF IndexInv, OwnersRegistered, OptionInv
<1> QED BY <1>2, <1>3, <1>4, <1>5, <1>6, <1>7, <1>8, <1>9, <1>10, NextCases DEF Late

\* The options.
LEMMA OptionStep ==
    ASSUME TypeOK, OptionInv, [Next]_vars
    PROVE  OptionInv'
<1> USE DEF dbVars, cmdVars, pkgVars
<1>1. CASE Outer
  BY <1>1, OuterFrame DEF OptionInv, InRemovePkg, vars
<1>2. CASE Early
  BY <1>2, EarlyFrame DEF OptionInv, InRemovePkg
<1>3. CASE RemoveNext \/ RemoveFromIndex \/ RemoveDone \/ RunDeinstall
  <2>1. UNCHANGED <<opt, careful>> /\ pc # "idle" /\ pc' \notin {"deps", "unlink"}
    BY <1>3 DEF RemoveNext, RemoveFromIndex, RemoveDone, RunDeinstall, Returned, Exit
  <2>2. InRemovePkg' => ~opt.pkgdb_update_only
    BY <1>3 DEF OptionInv, InRemovePkg, RemoveNext, RemoveFromIndex, RemoveDone,
                RunDeinstall, Returned, Exit
  <2> QED BY <2>1, <2>2 DEF OptionInv
<1>4. CASE (\E f \in File : DeleteFile(f)) \/ FilesDone
  BY <1>4 DEF OptionInv, InRemovePkg, DeleteFile, FilesDone
<1>5. CASE (\E d \in Pkg : RemoveDepend(d)) \/ DepsDone
  <2>1. /\ UNCHANGED <<opt, careful>> /\ pc = "deps"
        /\ \/ pc' = "deps" /\ deps' \subseteq deps
           \/ pc' = IF opt.fake THEN "remove" ELSE "unlink"
    BY <1>5 DEF RemoveDepend, DepsDone
  <2> QED BY <2>1 DEF OptionInv, InRemovePkg
<1>6. CASE UnlinkMeta \/ RemoveDir
  BY <1>6 DEF OptionInv, InRemovePkg, UnlinkMeta, RemoveDir, Returned
<1> QED BY <1>1, <1>2, <1>3, <1>4, <1>5, <1>6, NextCases DEF Late

\* An element whose requirers are listed may be appended to an ordered list.
LEMMA OrderedAppend ==
    ASSUME TypeOK, Ordered({}), UNCHANGED <<reqby, contents>>,
           NEW p \in Pkg, sorted' = Append(sorted, p),
           reqby[p] \cap contents \subseteq Rng(sorted)
    PROVE  Ordered({})'
<1>1. /\ sorted \in Seq(Pkg) /\ Len(sorted) \in Nat
      /\ Len(sorted') = Len(sorted) + 1
      /\ \A i \in 1..Len(sorted) : sorted'[i] = sorted[i]
      /\ sorted'[Len(sorted) + 1] = p
  BY AppendProperties, LenProperties DEF TypeOK
<1> SUFFICES ASSUME NEW i \in 1..Len(sorted')
             PROVE  reqby[sorted'[i]] \cap contents
                        \subseteq {sorted'[j] : j \in 1..(i - 1)}
  BY DEF Ordered
<1>2. CASE i \in 1..Len(sorted)
  <2>1. reqby[sorted[i]] \cap contents \subseteq {sorted[j] : j \in 1..(i - 1)}
    BY <1>2 DEF Ordered
  <2>2. \A j \in 1..(i - 1) : sorted'[j] = sorted[j]
    BY <1>1, <1>2
  <2> QED BY <1>1, <1>2, <2>1, <2>2
<1>3. CASE i = Len(sorted) + 1
  BY <1>1, <1>3 DEF Rng
<1> QED BY <1>1, <1>2, <1>3

\* The head of an ordered list is required by nothing that is installed, and
\* without it the list is ordered up to the head.
LEMMA OrderedTail ==
    ASSUME TypeOK, Ordered({}), UNCHANGED <<reqby, contents>>,
           sorted # <<>>, cur' = Head(sorted), sorted' = Tail(sorted)
    PROVE  reqby[Head(sorted)] \cap contents = {} /\ Ordered({cur})'
<1>1. /\ Len(sorted) \in Nat \ {0} /\ Head(sorted) = sorted[1]
      /\ Len(sorted') = Len(sorted) - 1
      /\ \A i \in 1..Len(sorted') : sorted'[i] = sorted[i + 1]
  BY EmptySeq, HeadTailProperties DEF TypeOK
<1>2. reqby[Head(sorted)] \cap contents = {}
  <2>1. 1 \in 1..Len(sorted) /\ 1..(1 - 1) = {}
    BY <1>1
  <2> QED BY <1>1, <2>1 DEF Ordered
<1>3. ASSUME NEW i \in 1..Len(sorted')
      PROVE  reqby[sorted'[i]] \cap contents
                 \subseteq {cur'} \cup {sorted'[j] : j \in 1..(i - 1)}
  <2>1. /\ i + 1 \in 1..Len(sorted) /\ (i + 1) - 1 = i
        /\ sorted'[i] = sorted[i + 1]
    BY <1>1
  <2>2. reqby[sorted'[i]] \cap contents \subseteq {sorted[j] : j \in 1..i}
    BY <2>1 DEF Ordered
  <2>3. \A j \in 1..i : \/ sorted[j] = cur'
                        \/ j - 1 \in 1..(i - 1) /\ sorted'[j - 1] = sorted[j]
    BY <1>1
  <2>4. ASSUME NEW x \in {sorted[j] : j \in 1..i}
        PROVE  x \in {cur'} \cup {sorted'[j] : j \in 1..(i - 1)}
    <3>1. PICK j \in 1..i : x = sorted[j]
      BY <2>4
    <3>2. CASE sorted[j] = cur'
      BY <3>1, <3>2
    <3>3. CASE j - 1 \in 1..(i - 1) /\ sorted'[j - 1] = sorted[j]
      BY <3>1, <3>3
    <3> QED BY <2>3, <3>2, <3>3
  <2> QED BY <2>2, <2>4
<1> QED BY <1>2, <1>3 DEF Ordered

\* Shorter +REQUIRED_BY files and fewer packages keep the list ordered.
LEMMA OrderedShrink ==
    ASSUME TypeOK, Ordered({cur}), UNCHANGED <<sorted, cur>>,
           contents' \subseteq contents,
           \A p \in Pkg : reqby'[p] \subseteq reqby[p]
    PROVE  Ordered({cur})'
<1>1. \A i \in 1..Len(sorted) : sorted[i] \in Pkg
  BY ElementOfSeq DEF TypeOK
<1> QED BY <1>1 DEF Ordered

\* Sorting, adding leaves and dropping preserved packages keep the list ordered.
LEMMA OrderEarly ==
    ASSUME TypeOK, OrderInv, Early
    PROVE  OrderInv'
<1> USE DEF cmdVars, listVars
<1> SUFFICES ASSUME Plain' PROVE OrderInv'
  BY DEF OrderInv
<1>1. /\ Plain /\ UNCHANGED <<reqby, contents, opt>>
      /\ pc' \notin {"deinstall", "files", "deps", "unlink"}
  BY EarlyFrame DEF Plain
<1>2. CASE GatherArg \/ GatherDone \/ Dedup
  BY <1>1, <1>2 DEF OrderInv, InRemovePkg, GatherArg, GatherDone, Dedup, Exit
<1>3. CASE DedupDone
  <2>1. sorted' = <<>> /\ pc' \in {"scan", "sorted"}
    BY <1>1, <1>3 DEF OrderInv, DedupDone, StartRound
  <2>2. Ordered({})'
    BY <2>1, EmptySeq DEF Ordered
  <2> QED BY <1>1, <2>1, <2>2 DEF OrderInv, InRemovePkg
<1>4. CASE ScanMove
  <2>1. /\ Ordered({}) /\ Head(todo) \in Pkg /\ pc' = "scan"
        /\ sorted' = Append(sorted, Head(todo))
        /\ reqby[Head(todo)] \subseteq Rng(sorted)
    BY <1>1, <1>4, HeadTailProperties DEF OrderInv, ScanMove, Missing, TypeOK
  <2>2. Ordered({})'
    BY <1>1, <2>1, OrderedAppend
  <2> QED BY <1>1, <2>1, <2>2 DEF OrderInv, InRemovePkg
<1>5. CASE ScanKeep \/ ScanUnreadable \/ RoundDone
  <2>1. Ordered({}) /\ UNCHANGED sorted /\ pc' \in {"scan", "sorted"}
    BY <1>1, <1>5 DEF OrderInv, ScanKeep, ScanUnreadable, RoundDone, StartRound
  <2> QED BY <1>1, <2>1 DEF OrderInv, InRemovePkg, Ordered
<1>6. CASE SortDone \/ LeafPassDone \/ CheckPreserve
  <2>1. Ordered({}) /\ UNCHANGED sorted
        /\ pc' \in {"idle", "leaves", "check", "remove"}
    BY <1>1, <1>6 DEF OrderInv, Plain, SortDone, LeafPassDone, CheckPreserve, Exit
  <2> QED BY <1>1, <2>1 DEF OrderInv, InRemovePkg, Ordered
<1>7. ASSUME NEW p \in Pkg, VisitLeaf(p) PROVE OrderInv'
  <2>1. /\ Ordered({}) /\ pc' = "leaves"
        /\ \/ UNCHANGED sorted
           \/ sorted' = Append(sorted, p) /\ reqby[p] \subseteq Rng(sorted)
    BY <1>1, <1>7 DEF OrderInv, VisitLeaf, RequiredOnlyBy
  <2>2. Ordered({})'
    <3>1. CASE UNCHANGED sorted
      BY <1>1, <2>1, <3>1 DEF Ordered
    <3>2. CASE sorted' = Append(sorted, p) /\ reqby[p] \subseteq Rng(sorted)
      BY <1>1, <1>7, <2>1, <3>2, OrderedAppend
    <3> QED BY <2>1, <3>1, <3>2
  <2> QED BY <1>1, <2>1, <2>2 DEF OrderInv, InRemovePkg
<1> QED BY <1>2, <1>3, <1>4, <1>5, <1>6, <1>7 DEF Early

\* Removing a package keeps the rest of the list ordered.
LEMMA OrderLate ==
    ASSUME TypeOK, OptionInv, OrderInv, Late
    PROVE  OrderInv'
<1> USE DEF dbVars, cmdVars, pkgVars
<1> SUFFICES ASSUME Plain' PROVE OrderInv'
  BY DEF OrderInv
<1>1. CASE RemoveNext
  <2>1. /\ Plain /\ Ordered({}) /\ UNCHANGED <<reqby, contents>> /\ sorted # <<>>
        /\ cur' = Head(sorted) /\ sorted' = Tail(sorted)
        /\ pc' \in {"deinstall", "idle"}
    BY <1>1 DEF OrderInv, Plain, RemoveNext, Returned
  <2>2. reqby[Head(sorted)] \cap contents = {} /\ Ordered({cur})'
    BY <2>1, OrderedTail
  <2> QED BY <2>1, <2>2 DEF OrderInv, InRemovePkg
<1>2. CASE RemoveFromIndex
  BY <1>2 DEF Plain, RemoveFromIndex
<1>3. CASE RemoveDone
  BY <1>3 DEF OrderInv, InRemovePkg, RemoveDone, Exit
<1>4. ASSUME Plain, InRemovePkg, InRemovePkg', UNCHANGED <<sorted, cur>>,
             contents' \subseteq contents,
             \A p \in Pkg : reqby'[p] \subseteq reqby[p]
      PROVE  OrderInv'
  <2>1. Ordered({cur})' /\ reqby[cur] \cap contents = {} /\ cur \in Pkg
    BY <1>4, OrderedShrink DEF OrderInv, InRemovePkg, TypeOK
  <2> QED BY <1>4, <2>1 DEF OrderInv, InRemovePkg
<1>5. CASE RunDeinstall
  <2>1. Plain /\ InRemovePkg /\ UNCHANGED <<sorted, cur, reqby, contents>>
        /\ pc' \in {"files", "idle"}
    BY <1>5 DEF Plain, InRemovePkg, RunDeinstall, Returned
  <2> QED BY <1>4, <2>1 DEF OrderInv, InRemovePkg
<1>6. CASE (\E f \in File : DeleteFile(f)) \/ FilesDone \/ DepsDone
  <2>1. Plain /\ InRemovePkg /\ InRemovePkg' /\ UNCHANGED <<sorted, cur, reqby, contents>>
    BY <1>6 DEF Plain, InRemovePkg, DeleteFile, FilesDone, DepsDone
  <2> QED BY <1>4, <2>1
<1>7. ASSUME NEW d \in Pkg, RemoveDepend(d) PROVE OrderInv'
  <2>1. Plain /\ InRemovePkg /\ InRemovePkg' /\ UNCHANGED <<sorted, cur, contents>>
    BY <1>7 DEF Plain, InRemovePkg, RemoveDepend
  <2>2. \A p \in Pkg : reqby'[p] \subseteq reqby[p]
    BY <1>7 DEF RemoveDepend, TypeOK, DBTypeOK
  <2> QED BY <1>4, <2>1, <2>2
<1>8. CASE UnlinkMeta
  <2>1. Plain /\ InRemovePkg /\ InRemovePkg' /\ UNCHANGED <<sorted, cur>>
        /\ contents' \subseteq contents
    BY <1>8 DEF Plain, InRemovePkg, UnlinkMeta
  <2>2. \A p \in Pkg : reqby'[p] \subseteq reqby[p]
    BY <1>8 DEF UnlinkMeta, TypeOK, DBTypeOK
  <2> QED BY <1>4, <2>1, <2>2
<1>9. CASE RemoveDir
  <2>1. Plain /\ InRemovePkg /\ UNCHANGED <<sorted, reqby, contents>>
        /\ cur \notin contents /\ pc' \in {"remove", "idle"}
    BY <1>9 DEF Plain, InRemovePkg, RemoveDir, MetaGone, Returned
  <2>2. Ordered({cur})
    BY <2>1 DEF OrderInv
  <2>3. Ordered({})'
    BY <2>1, <2>2 DEF Ordered
  <2> QED BY <2>1, <2>3 DEF OrderInv, InRemovePkg
<1> QED BY <1>1, <1>2, <1>3, <1>5, <1>6, <1>7, <1>8, <1>9 DEF Late

\* The sorted list.
LEMMA OrderStep ==
    ASSUME TypeOK, OptionInv, OrderInv, [Next]_vars
    PROVE  OrderInv'
<1>1. CASE Outer
  <2>1. CASE UNCHANGED vars
    BY <2>1 DEF vars, dbVars, cmdVars, pkgVars, OrderInv, Plain, InRemovePkg, Ordered
  <2>2. CASE pc' = "idle" \/ (pc' = "gather" /\ sorted' = <<>>)
    BY <2>2 DEF OrderInv, InRemovePkg
  <2> QED BY <1>1, <2>1, <2>2, OuterFrame
<1> QED BY <1>1, OrderEarly, OrderLate, NextCases

\* Once delete_package is through, cur does not own its files.
LEMMA Disowned ==
    ASSUME IndexInv, pc \in {"deps", "unlink"}, ~opt.fake, cur \in Pkg
    PROVE  ~Owned(cur)
<1> SUFFICES ASSUME Owned(cur) PROVE FALSE
  OBVIOUS
<1>1. PICK f \in Plainly(cur) : TRUE
  BY DEF Owned
<1>2. owner[f] = cur
  BY <1>1 DEF Owned, Plainly
<1>3. f \in File \ (Dirs \cup Saved)
  BY <1>1, PlainFiles
<1> QED BY <1>2, <1>3 DEF IndexInv

\* Registration: only the lines of cur leave a +REQUIRED_BY file, when cur owns
\* no file any more, and cur leaves the database when nobody requires it.
LEMMA RegStep ==
    ASSUME TypeOK, IndexInv, OptionInv, OrderInv, RegInv, [Next]_vars
    PROVE  RegInv'
<1> USE DEF dbVars, cmdVars, pkgVars
<1> SUFFICES ASSUME careful', NEW q \in contents', Owned(q)',
                    NEW pt \in Deps[q]
             PROVE  \E d \in Match[pt] \cap contents' : q \in reqby'[d]
  BY DEF RegInv, Registered
<1>0. careful
  <2>1. CASE Outer
    BY <2>1, OuterFrame DEF vars
  <2>2. CASE Early
    BY <2>2, EarlyFrame
  <2>3. CASE Late
    BY <2>3 DEF Late, RemoveNext, RemoveFromIndex, RemoveDone, RunDeinstall,
          DeleteFile, FilesDone, RemoveDepend, DepsDone, UnlinkMeta, RemoveDir
  <2> QED BY <2>1, <2>2, <2>3, NextCases
<1>1. ASSUME UNCHANGED <<contents, reqby, owner>>
      PROVE  \E d \in Match[pt] \cap contents' : q \in reqby'[d]
  BY <1>0, <1>1 DEF RegInv, Registered, Owned, Plainly
<1>2. ASSUME q \in contents, Owned(q)
      PROVE  \E d \in Match[pt] \cap contents : q \in reqby[d]
  BY <1>0, <1>2 DEF RegInv, Registered
<1>3. CASE Outer \/ Early
  BY <1>1, <1>3, OuterFrame, EarlyFrame
<1>4. CASE RemoveNext \/ RemoveDone \/ RunDeinstall \/ DepsDone \/ RemoveDir
  <2>1. UNCHANGED <<contents, reqby, owner>>
    BY <1>4 DEF RemoveNext, RemoveDone, RunDeinstall, DepsDone, RemoveDir
  <2> QED BY <1>1, <2>1
<1>5. CASE \E f \in File : DeleteFile(f)
  <2>1. UNCHANGED <<contents, reqby, owner>>
    BY <1>5 DEF DeleteFile
  <2> QED BY <1>1, <2>1
<1>6. CASE RemoveFromIndex \/ FilesDone
  <2>1. UNCHANGED <<contents, reqby>>
    BY <1>6 DEF RemoveFromIndex, FilesDone
  <2>2. q \in Pkg /\ \A f \in File : owner'[f] = NoPkg \/ owner'[f] = owner[f]
    BY <1>6, <2>1 DEF RemoveFromIndex, FilesDone, WithoutPkg, WithoutKeys, TypeOK, DBTypeOK
  <2>3. Owned(q)
    BY <2>1, <2>2, ContentsAssumption, NoPkgAssumption DEF Owned, Plainly
  <2> QED BY <1>2, <2>1, <2>3
<1>7. ASSUME NEW d \in Pkg, RemoveDepend(d)
      PROVE  \E e \in Match[pt] \cap contents' : q \in reqby'[e]
  <2>1. /\ UNCHANGED <<contents, owner>> /\ pc = "deps" /\ d \in deps
        /\ \/ reqby' = [reqby EXCEPT ![d] = @ \ {cur}]
           \/ UNCHANGED reqby
    BY <1>7 DEF RemoveDepend
  <2>2. ~opt.fake
    BY <2>1 DEF OptionInv
  <2>3. q \in Pkg /\ Owned(q) /\ q \in contents
    BY <2>1 DEF TypeOK, DBTypeOK, Owned, Plainly
  <2>4. q # cur
    BY <2>1, <2>2, <2>3, Disowned
  <2>5. PICK e \in Match[pt] \cap contents : q \in reqby[e]
    BY <1>2, <2>3
  <2>6. e \in Pkg
    BY <2>5 DEF TypeOK, DBTypeOK
  <2>7. q \in reqby'[e]
    BY <2>1, <2>4, <2>5, <2>6 DEF TypeOK, DBTypeOK
  <2> QED BY <2>1, <2>5, <2>7
<1>8. CASE UnlinkMeta
  <2>1. /\ UNCHANGED owner /\ contents' \subseteq contents /\ cur \in Pkg
        /\ contents \ {cur} \subseteq contents' /\ pc = "unlink"
    BY <1>8 DEF UnlinkMeta, TypeOK
  <2>2. \A e \in Pkg : e # cur => reqby'[e] = reqby[e]
    BY <1>8 DEF UnlinkMeta, TypeOK, DBTypeOK
  <2>3. q \in contents /\ Owned(q)
    BY <2>1 DEF Owned, Plainly
  <2>4. PICK e \in Match[pt] \cap contents : q \in reqby[e]
    BY <1>2, <2>3
  <2>5. Plain
    BY <2>1, <1>0 DEF OptionInv, InRemovePkg, Plain
  <2>6. reqby[cur] \cap contents = {}
    BY <2>1, <2>5 DEF OrderInv, InRemovePkg
  <2>7. e # cur /\ e \in Pkg
    BY <2>3, <2>4, <2>6 DEF TypeOK, DBTypeOK
  <2> QED BY <2>1, <2>2, <2>4, <2>7
<1> QED BY <1>3, <1>4, <1>5, <1>6, <1>7, <1>8, NextCases DEF Late

\* Preserved packages.
LEMMA PreserveStep ==
    ASSUME TypeOK, PreserveInv, [Next]_vars
    PROVE  PreserveInv'
<1> USE DEF dbVars, cmdVars, listVars, pkgVars
<1>1. CASE Outer
  BY <1>1, OuterFrame DEF PreserveInv, InRemovePkg, MayDeletePreserved, Rng, vars
<1>2. CASE CheckPreserve
  <2>1. UNCHANGED <<opt, preserved>> /\ pc' \in {"remove", "idle"}
    BY <1>2 DEF CheckPreserve, Exit
  <2>2. CASE opt.keep_preserve
    <3>1. sorted' \in Without(sorted, preserved)
      BY <1>2, <2>2 DEF CheckPreserve
    <3>2. Rng(sorted') \cap preserved = {}
      BY <3>1, WithoutType DEF TypeOK
    <3> QED BY <2>1, <3>2 DEF PreserveInv, InRemovePkg, Rng
  <2>3. CASE ~opt.keep_preserve
    <3>1. UNCHANGED sorted
      BY <1>2, <2>3 DEF CheckPreserve
    <3>2. pc' = "idle" \/ Rng(sorted) \cap preserved = {} \/ MayDeletePreserved
      BY <1>2, <2>3 DEF CheckPreserve, Exit
    <3> QED BY <2>1, <2>3, <3>1, <3>2
            DEF PreserveInv, InRemovePkg, Rng, MayDeletePreserved
  <2> QED BY <2>2, <2>3
<1>3. CASE Early /\ ~CheckPreserve
  <2>1. pc' # "remove" /\ ~InRemovePkg'
    BY <1>3 DEF Early, InRemovePkg, GatherArg, GatherDone, Dedup, DedupDone,
          ScanMove, ScanKeep, ScanUnreadable, RoundDone, StartRound, SortDone,
          VisitLeaf, LeafPassDone, Exit
  <2> QED BY <2>1 DEF PreserveInv
<1>4. CASE RemoveNext
  <2>1. /\ UNCHANGED <<opt, preserved>> /\ pc = "remove"
        /\ cur' = Head(sorted) /\ sorted' = Tail(sorted)
    BY <1>4 DEF RemoveNext
  <2>2. Rng(sorted) = {cur'} \cup Rng(sorted')
    BY <1>4, <2>1, RngFacts, HeadTailProperties DEF RemoveNext, TypeOK
  <2> QED BY <2>1, <2>2 DEF PreserveInv, MayDeletePreserved, Rng, InRemovePkg
<1>5. CASE RemoveFromIndex
  <2>1. /\ UNCHANGED <<opt, preserved>> /\ pc = "remove" /\ ~InRemovePkg'
        /\ cur' = Head(sorted) /\ sorted' = Tail(sorted)
    BY <1>5 DEF RemoveFromIndex, Returned, InRemovePkg
  <2>2. Rng(sorted) = {cur'} \cup Rng(sorted')
    BY <1>5, <2>1, RngFacts, HeadTailProperties DEF RemoveFromIndex, TypeOK
  <2> QED BY <2>1, <2>2 DEF PreserveInv, MayDeletePreserved, Rng
<1>6. CASE RemoveDone
  BY <1>6 DEF RemoveDone, Exit, PreserveInv, InRemovePkg
<1>7. CASE \/ RunDeinstall \/ (\E f \in File : DeleteFile(f)) \/ FilesDone
           \/ (\E d \in Pkg : RemoveDepend(d)) \/ DepsDone \/ UnlinkMeta \/ RemoveDir
  <2>1. UNCHANGED <<opt, sorted, cur>> /\ preserved' \subseteq preserved /\ InRemovePkg
    BY <1>7 DEF RunDeinstall, DeleteFile, FilesDone, RemoveDepend, DepsDone,
                UnlinkMeta, RemoveDir, InRemovePkg
  <2> QED BY <2>1 DEF PreserveInv, MayDeletePreserved, Rng
<1> QED BY <1>1, <1>2, <1>3, <1>4, <1>5, <1>6, <1>7, NextCases DEF Late

-----------------------------------------------------------------------------
(* The sort.                                                               *)

\* A list without repetitions lists its range.
LEMMA OnceLists ==
    ASSUME NEW T, NEW s \in Seq(T)
    PROVE  /\ Once(s) <=> Lists(s, Rng(s))
           /\ \A S : Lists(s, S) => Once(s) /\ Rng(s) = S
<1>1. Len(s) \in Nat /\ DOMAIN s = 1..Len(s) /\ s \in Seq(Rng(s))
  <2> DEFINE R == Rng(s)
  <2>1. Len(s) \in Nat /\ DOMAIN s = 1..Len(s) /\ \A i \in 1..Len(s) : s[i] \in R
    BY LenProperties DEF Rng
  <2> HIDE DEF R
  <2>2. s \in Seq(R)
    BY <2>1
  <2> QED BY <2>1, <2>2 DEF R
<1>2. Once(s) <=> Lists(s, Rng(s))
  BY <1>1 DEF Once, Lists, Rng
<1>3. ASSUME NEW S, Lists(s, S) PROVE Once(s) /\ Rng(s) = S
  BY <1>1, <1>3, ElementOfSeq DEF Once, Lists, Rng
<1> QED BY <1>2, <1>3

\* The lists of Orders have every element, once.
LEMMA OrdersOnce ==
    ASSUME NEW S, IsFiniteSet(S), NEW s \in Orders(S)
    PROVE  s \in Seq(S) /\ Once(s) /\ Rng(s) = S
<1>1. s \in Seq(S)
  BY OrdersType
<1>2. Lists(s, S)
  BY ListsNumbering DEF Orders
<1> QED BY <1>1, <1>2, OnceLists

\* The head of a list without repetitions is not in the rest.
LEMMA OnceTail ==
    ASSUME NEW T, NEW s \in Seq(T), Once(s), s # <<>>
    PROVE  /\ Once(Tail(s)) /\ Head(s) \notin Rng(Tail(s))
           /\ Rng(s) = {Head(s)} \cup Rng(Tail(s))
<1>1. Lists(Tail(s), Rng(s) \ {Head(s)}) /\ Head(s) \in Rng(s)
  BY OnceLists, ListsTail
<1>2. Tail(s) \in Seq(T)
  BY HeadTailProperties
<1>3. Once(Tail(s)) /\ Rng(Tail(s)) = Rng(s) \ {Head(s)}
  BY <1>1, <1>2, OnceLists
<1> QED BY <1>1, <1>3

\* Two such lists with nothing in common.
LEMMA OnceConcat ==
    ASSUME NEW T, NEW s \in Seq(T), NEW r \in Seq(T), Once(s), Once(r),
           Rng(s) \cap Rng(r) = {}
    PROVE  Once(s \o r)
<1>1. Lists(s \o r, Rng(s) \cup Rng(r))
  BY OnceLists, ListsConcat
<1>2. s \o r \in Seq(T)
  BY ConcatProperties
<1> QED BY <1>1, <1>2, OnceLists

\* Another name at the end.
LEMMA OnceAppend ==
    ASSUME NEW T, NEW s \in Seq(T), NEW e \in T, Once(s), e \notin Rng(s)
    PROVE  Once(Append(s, e))
<1>1. <<e>> \in Seq(T) /\ Len(<<e>>) = 1 /\ <<e>>[1] = e
  OBVIOUS
<1>2. Once(<<e>>) /\ Rng(<<e>>) = {e}
  BY <1>1 DEF Once, Rng
<1>3. Once(s \o <<e>>)
  BY <1>1, <1>2, OnceConcat
<1>4. Append(s, e) = s \o <<e>>
  OBVIOUS
<1> QED BY <1>3, <1>4

\* What is wanted, and with the leaves: the references are packages, contain
\* what they start from, are closed, and are the least such sets.
LEMMA LeastFacts ==
    ASSUME TypeOK
    PROVE  /\ request \subseteq Wanted /\ Wanted \subseteq Pkg
           /\ ~opt.recursive => Wanted = request
           /\ opt.recursive => \A p \in Wanted : reqby[p] \subseteq Wanted
           /\ \A T \in SUBSET Pkg :
                 request \subseteq T /\ (opt.recursive => \A p \in T : reqby[p] \subseteq T)
                    => Wanted \subseteq T
<1>1. request \subseteq Pkg /\ reqby \in [Pkg -> SUBSET Pkg]
  BY DEF TypeOK, DBTypeOK
<1>2. CASE ~opt.recursive
  BY <1>1, <1>2 DEF Wanted
<1>3. CASE opt.recursive
  <2> DEFINE C(T) == \A p \in T : reqby[p] \subseteq T
  <2>1. Wanted = {p \in Pkg : \A T \in SUBSET Pkg : request \subseteq T /\ C(T) => p \in T}
    BY <1>3 DEF Wanted, Least
  <2>2. ASSUME NEW p \in Wanted, NEW q \in reqby[p] PROVE q \in Wanted
    <3>1. q \in Pkg
      BY <1>1, <2>1, <2>2
    <3>2. \A T \in SUBSET Pkg : request \subseteq T /\ C(T) => q \in T
      BY <2>1, <2>2
    <3> QED BY <2>1, <3>1, <3>2
  <2> QED BY <1>1, <1>3, <2>1, <2>2
<1> QED BY <1>2, <1>3

\* The references look at nothing that a scan changes.
LEMMA WantedFrame ==
    ASSUME UNCHANGED <<request, opt, reqby>>
    PROVE  Wanted' = Wanted
BY DEF Wanted, Least

\* The start of a round, at the end of the deduplication and of another round.
LEMMA StartRoundKept ==
    ASSUME TypeOK, ListInv, todo = <<>>, StartRound(kept), ~IoErrors,
           UNCHANGED <<request, opt, reqby, sorted>>
    PROVE  SortInv'
<1>1. /\ kept' = <<>> /\ todo' = kept /\ kept \in Seq(Pkg) /\ Rng(<<>>) = {} /\ Once(<<>>)
      /\ Wanted' = Wanted
  BY WantedFrame DEF StartRound, TypeOK, Rng, Once
<1>2. ListInv'
  BY <1>1 DEF ListInv
<1>3. CASE kept = <<>>
  BY <1>1, <1>2, <1>3 DEF SortInv, StartRound, Waits
<1>4. CASE kept # <<>>
  <2>1. /\ pc' = "scan" /\ old'.n = Len(sorted) /\ old'.head = Head(kept)
        /\ Len(sorted) \in Nat
    BY <1>4, LenProperties DEF StartRound, TypeOK
  <2>2. Head(kept) \in Rng(kept)
    BY <1>1, <1>4, RngFacts, HeadTailProperties
  <2>3. RoundInv'
    BY <1>1, <2>1, <2>2 DEF RoundInv
  <2>4. Once(todo)'
    BY <1>1 DEF ListInv
  <2> QED BY <1>2, <2>1, <2>3, <2>4 DEF SortInv
<1> QED BY <1>3, <1>4

\* The arguments and the removal of repeated ones.
LEMMA SortGather ==
    ASSUME TypeOK, SortInv, GatherArg \/ GatherDone \/ Dedup \/ DedupDone, ~IoErrors
    PROVE  SortInv'
<1> USE DEF dbVars, cmdVars, listVars, leafVars
<1>1. CASE GatherArg
  BY <1>1 DEF GatherArg, SortInv
<1>2. CASE GatherDone
  <2>1. /\ kept = <<>> /\ sorted = <<>> /\ UNCHANGED <<kept, todo, sorted, opt, reqby>>
        /\ request' = Rng(todo) /\ pc' \in {"idle", "dedup"} /\ TypeOK'
    BY <1>2, TypeSort DEF GatherDone, SortInv, Exit
  <2>2. request' \subseteq Wanted'
    BY <2>1 DEF Wanted, Least, TypeOK
  <2>3. Rng(<<>>) = {} /\ Once(<<>>) /\ Len(<<>>) = 0
    BY DEF Rng, Once
  <2>4. ListInv'
    BY <2>1, <2>2, <2>3 DEF ListInv
  <2> QED BY <2>1, <2>4 DEF SortInv
<1>3. CASE Dedup
  <2> DEFINE h == Head(todo)
             t == Tail(todo)
  <2>1. /\ ListInv /\ sorted = <<>> /\ pc' = "dedup" /\ Wanted' = Wanted
        /\ UNCHANGED <<request, sorted, reqby>> /\ todo' = t
        /\ kept' = IF h \in Rng(kept) \cup Rng(t) THEN kept ELSE Append(kept, h)
    BY <1>3, WantedFrame DEF Dedup, SortInv
  <2>2. /\ h \in Pkg /\ t \in Seq(Pkg) /\ kept \in Seq(Pkg)
        /\ Rng(todo) = {h} \cup Rng(t) /\ Rng(Append(kept, h)) = Rng(kept) \cup {h}
    BY <1>3, HeadTailProperties, RngFacts DEF Dedup, TypeOK
  <2> HIDE DEF h, t
  <2>3. CASE h \in Rng(kept) \cup Rng(t)
    BY <2>1, <2>2, <2>3 DEF ListInv, SortInv
  <2>4. CASE h \notin Rng(kept) \cup Rng(t)
    <3>1. Once(kept')
      BY <2>1, <2>2, <2>4, OnceAppend DEF ListInv
    <3>2. ListInv'
      BY <2>1, <2>2, <2>4, <3>1 DEF ListInv
    <3> QED BY <2>1, <3>2 DEF SortInv
  <2> QED BY <2>3, <2>4
<1>4. CASE DedupDone
  BY <1>4, StartRoundKept DEF DedupDone, SortInv
<1> QED BY <1>1, <1>2, <1>3, <1>4

\* A package whose requirers are sorted goes to the end of sorted.
LEMMA SortMove ==
    ASSUME TypeOK, SortInv, ScanMove, ~IoErrors
    PROVE  SortInv'
<1> USE DEF dbVars, cmdVars, listVars, leafVars
<1> DEFINE h == Head(todo)
           t == Tail(todo)
<1>1. /\ ListInv /\ Once(todo) /\ RoundInv /\ pc' = "scan" /\ Wanted' = Wanted
      /\ UNCHANGED <<request, reqby, opt, kept, old>> /\ todo' = t /\ todo # <<>>
      /\ sorted' = Append(sorted, h) /\ reqby[h] \subseteq Rng(sorted)
  BY WantedFrame DEF ScanMove, SortInv, Missing
<1>2. /\ h \in Pkg /\ t \in Seq(Pkg) /\ Rng(todo) = {h} \cup Rng(t) /\ h \notin Rng(t)
      /\ Once(t) /\ Rng(sorted') = Rng(sorted) \cup {h}
  BY <1>1, HeadTailProperties, RngFacts, OnceTail DEF TypeOK
<1>3. /\ Len(sorted) \in Nat /\ Len(sorted') = Len(sorted) + 1
      /\ \A i \in 1..Len(sorted) : sorted'[i] = sorted[i]
      /\ sorted'[Len(sorted) + 1] = h
  BY <1>1, <1>2, AppendProperties, LenProperties DEF TypeOK
<1> HIDE DEF h, t
<1>4. ASSUME NEW i \in 1..Len(sorted')
      PROVE  reqby[sorted'[i]] \subseteq {sorted'[j] : j \in 1..(i - 1)}
  <2>1. CASE i \in 1..Len(sorted)
    <3>1. reqby[sorted[i]] \subseteq {sorted[j] : j \in 1..(i - 1)}
      BY <1>1, <2>1 DEF ListInv
    <3>2. \A j \in 1..(i - 1) : sorted'[j] = sorted[j]
      BY <1>3, <2>1
    <3> QED BY <1>3, <2>1, <3>1, <3>2
  <2>2. CASE i = Len(sorted) + 1
    BY <1>1, <1>3, <2>2 DEF Rng
  <2> QED BY <1>3, <2>1, <2>2
<1>5. ListInv'
  BY <1>1, <1>2, <1>4 DEF ListInv
<1>6. RoundInv'
  <2>1. old.n \in Nat /\ old.n <= Len(sorted)
    BY <1>1 DEF TypeOK, RoundInv
  <2>2. old'.n < Len(sorted')
    BY <1>1, <1>3, <2>1
  <2> QED BY <1>3, <2>1, <2>2, <1>1 DEF RoundInv
<1> QED BY <1>1, <1>2, <1>5, <1>6 DEF SortInv

\* A package that misses a requirer is kept, with -r behind those that are new.
LEMMA SortKeep ==
    ASSUME TypeOK, SortInv, ScanKeep, ~IoErrors
    PROVE  SortInv'
<1> USE DEF dbVars, cmdVars, listVars, leafVars
<1> DEFINE h == Head(todo)
           t == Tail(todo)
           N == NewlyRequired(h)
<1>1. /\ ListInv /\ Once(todo) /\ RoundInv /\ pc' = "scan" /\ Wanted' = Wanted
      /\ UNCHANGED <<request, reqby, opt, sorted, old>> /\ todo' = t /\ todo # <<>>
      /\ Missing(h) # {}
  BY WantedFrame DEF ScanKeep, SortInv
<1>2. PICK s \in Orders(N) : kept' = Append(s \o kept, h)
  BY DEF ScanKeep
<1>3. /\ h \in Pkg /\ t \in Seq(Pkg) /\ Rng(todo) = {h} \cup Rng(t) /\ h \notin Rng(t)
      /\ Once(t) /\ kept \in Seq(Pkg) /\ Rng(pkgs) = Rng(kept) \cup Rng(todo)
  BY <1>1, HeadTailProperties, RngFacts, OnceTail DEF TypeOK, pkgs
<1>4. /\ N \subseteq Pkg /\ N \cap (Rng(kept) \cup Rng(todo)) = {} /\ N \cap Rng(sorted) = {}
      /\ opt.recursive => Missing(h) \subseteq N \cup Rng(kept) \cup Rng(todo)
      /\ ~opt.recursive => N = {}
      /\ N \subseteq reqby[h]
  BY <1>3 DEF NewlyRequired, Missing, TypeOK, DBTypeOK
<1>5. N \subseteq Wanted
  <2>1. h \in Wanted
    BY <1>1, <1>3 DEF ListInv
  <2> QED BY <1>4, <2>1, LeastFacts
<1> HIDE DEF h, t, N
<1>6. s \in Seq(N) /\ Once(s) /\ Rng(s) = N
  BY <1>4, PkgFinite, FS_Subset, OrdersOnce
<1>7. s \in Seq(Pkg)
  BY <1>4, <1>6, SeqMonotonic
<1>8. /\ s \o kept \in Seq(Pkg) /\ Rng(s \o kept) = N \cup Rng(kept) /\ Once(s \o kept)
      /\ Rng(kept') = N \cup Rng(kept) \cup {h} /\ Once(kept')
  <2>1. s \o kept \in Seq(Pkg)
    BY <1>3, <1>7, ConcatProperties
  <2>2. Rng(s \o kept) = N \cup Rng(kept)
    BY <1>3, <1>6, <1>7, RngFacts
  <2>3. Once(s \o kept)
    BY <1>1, <1>3, <1>4, <1>6, <1>7, OnceConcat DEF ListInv
  <2>4. h \notin Rng(s \o kept)
    BY <1>1, <1>3, <1>4, <2>2 DEF ListInv
  <2> DEFINE r == s \o kept
  <2>5. r \in Seq(Pkg) /\ Once(r) /\ h \notin Rng(r) /\ h \in Pkg
    BY <1>3, <2>1, <2>3, <2>4
  <2>6. kept' = Append(r, h)
    BY <1>2
  <2> HIDE DEF r
  <2>7. Once(Append(r, h)) /\ Rng(Append(r, h)) = Rng(r) \cup {h}
    BY <2>5, OnceAppend, RngFacts
  <2>8. Once(kept') /\ Rng(kept') = Rng(r) \cup {h}
    BY <2>6, <2>7
  <2> QED BY <2>1, <2>2, <2>3, <2>8 DEF r
<1>9. ListInv'
  BY <1>1, <1>3, <1>4, <1>5, <1>8 DEF ListInv
<1>10. RoundInv'
  <2> SUFFICES ASSUME old.n = Len(sorted)
               PROVE  /\ old.head \in Rng(kept') \cup Rng(t)
                      /\ kept' # <<>>
                      /\ Head(kept') = old.head => Waits(Rng(kept))'
    BY <1>1 DEF RoundInv
  <2>1. /\ old.head \in Rng(kept) \cup Rng(todo)
        /\ kept = <<>> => h = old.head
        /\ kept # <<>> /\ Head(kept) = old.head => Waits(Rng(kept))
    BY <1>1 DEF RoundInv, h
  <2>2. kept' # <<>>
    BY <1>2, <1>3, <1>8, AppendProperties
  <2>3. ASSUME Head(kept') = old.head PROVE N = {}
    <3> SUFFICES ASSUME N # {} PROVE FALSE
      OBVIOUS
    <3>1. s # <<>>
      BY <1>6 DEF Rng
    <3>2. Head(kept') = Head(s) /\ Head(s) \in N
      BY <1>2, <1>3, <1>6, <1>7, <3>1
    <3> QED BY <1>4, <2>1, <2>3, <3>2
  <2>4. ASSUME Head(kept') = old.head, NEW p \in Rng(kept')
        PROVE  /\ Missing(p) # {}
               /\ opt.recursive => Missing(p) \subseteq Rng(kept) \cup Rng(todo)
    <3>1. N = {} /\ p \in Rng(kept) \cup {h} /\ s = <<>> /\ kept' = Append(kept, h)
      BY <1>2, <1>3, <1>6, <1>8, <2>3, <2>4
    <3>2. CASE p = h
      BY <1>1, <1>4, <3>1, <3>2
    <3>3. CASE p \in Rng(kept)
      <4>1. kept # <<>>
        BY <3>3 DEF Rng
      <4>2. Head(kept) = old.head
        BY <1>3, <2>4, <3>1, <4>1
      <4> QED BY <2>1, <3>3, <4>1, <4>2 DEF Waits
    <3> QED BY <3>1, <3>2, <3>3
  <2>5. Rng(kept') \cup Rng(todo') = N \cup Rng(kept) \cup Rng(todo)
    BY <1>1, <1>3, <1>8
  <2>6. \A p : Missing(p)' = Missing(p)
    BY <1>1 DEF Missing
  <2>7. Head(kept') = old.head => Waits(Rng(kept))'
    BY <1>1, <2>4, <2>5, <2>6 DEF Waits
  <2> QED BY <1>1, <2>1, <2>2, <2>5, <2>7
<1> QED BY <1>1, <1>3, <1>9, <1>10 DEF SortInv

\* A round that moved no package and left the head in place ends the sort with
\* packages that all wait for another one.
LEMMA SortRound ==
    ASSUME TypeOK, SortInv, RoundDone, ~IoErrors
    PROVE  SortInv'
<1> USE DEF dbVars, cmdVars, listVars, leafVars
<1>1. /\ ListInv /\ RoundInv /\ todo = <<>> /\ Wanted' = Wanted
      /\ UNCHANGED <<request, opt, reqby, sorted>>
  BY WantedFrame DEF RoundDone, SortInv
<1>2. CASE StartRound(kept)
  BY <1>1, <1>2, StartRoundKept
<1>3. CASE NoProgress /\ pc' = "sorted" /\ kept' = <<>> /\ todo' = kept
  <2>1. /\ kept # <<>> /\ old.n = Len(sorted) /\ old.head = Head(kept)
        /\ Rng(<<>>) = {} /\ Once(<<>>)
    BY <1>3 DEF NoProgress, Rng, Once
  <2>2. Waits(Rng(kept))
    BY <1>1, <2>1 DEF RoundInv
  <2>3. Waits(Rng(todo))'
    BY <1>1, <1>3, <2>1, <2>2 DEF Waits, Missing
  <2>4. ListInv'
    BY <1>1, <1>3, <2>1 DEF ListInv
  <2> QED BY <1>3, <2>3, <2>4 DEF SortInv
<1> QED BY <1>2, <1>3 DEF RoundDone

\* No stuck package gets sorted: the first of them on the list would follow a
\* requirer that is stuck as well or not wanted at all.
LEMMA SortedFree ==
    ASSUME TypeOK, ListInv, NEW S, S \subseteq Wanted,
           \A p \in S : reqby[p] \cap (S \cup (Pkg \ Wanted)) # {}
    PROVE  S \cap Rng(sorted) = {}
<1> SUFFICES ASSUME S \cap Rng(sorted) # {} PROVE FALSE
  OBVIOUS
<1> DEFINE I == {i \in 1..Len(sorted) : sorted[i] \in S}
<1>1. I \subseteq Nat /\ I # {}
  BY LenProperties DEF Rng, TypeOK
<1>2. PICK i \in I : \A j \in I : i <= j
  <2> HIDE DEF I
  <2> QED BY <1>1, LeastNatural
<1>3. PICK q \in reqby[sorted[i]] : q \in S \cup (Pkg \ Wanted)
  BY <1>2
<1>4. PICK j \in 1..(i - 1) : q = sorted[j]
  BY <1>2, <1>3 DEF ListInv
<1>5. Len(sorted) \in Nat /\ j \in 1..Len(sorted) /\ j < i
  BY <1>2, <1>4, LenProperties DEF TypeOK
<1>6. q \in Wanted
  BY <1>4, <1>5 DEF ListInv, Rng
<1> QED BY <1>2, <1>3, <1>4, <1>5, <1>6

\* The sort ends with everything wanted on one of the lists, and what is left
\* over is what no order can place.
LEMMA SortedExact ==
    ASSUME TypeOK, ListInv, kept = <<>>, Waits(Rng(todo))
    PROVE  /\ Wanted = Rng(todo) \cup Rng(sorted)
           /\ Rng(todo) = Stuck
           /\ Rng(sorted) = Wanted \ Stuck
<1> DEFINE K == Rng(todo)
           L == Rng(sorted)
<1>1. /\ K \subseteq Pkg /\ L \subseteq Pkg /\ Rng(kept) = {} /\ K \cap L = {}
      /\ request \subseteq K \cup L /\ K \cup L \subseteq Wanted
      /\ reqby \in [Pkg -> SUBSET Pkg]
  <2>1. K \subseteq Pkg /\ L \subseteq Pkg /\ reqby \in [Pkg -> SUBSET Pkg]
    BY ElementOfSeq DEF TypeOK, DBTypeOK, Rng
  <2>2. Rng(kept) = {}
    BY DEF Rng
  <2> QED BY <2>1, <2>2 DEF ListInv
<1>2. \A p \in L : reqby[p] \subseteq L
  <2> SUFFICES ASSUME NEW p \in L, NEW q \in reqby[p] PROVE q \in L
    OBVIOUS
  <2>1. PICK i \in 1..Len(sorted) : p = sorted[i]
    BY DEF Rng
  <2>2. PICK j \in 1..(i - 1) : q = sorted[j]
    BY <2>1 DEF ListInv
  <2>3. j \in 1..Len(sorted)
    BY <2>1, <2>2, LenProperties DEF TypeOK
  <2> QED BY <2>2, <2>3 DEF Rng
<1>3. \A p \in K : /\ reqby[p] \ L # {}
                   /\ opt.recursive => reqby[p] \subseteq K \cup L
  BY <1>1 DEF Waits, Missing
<1>4. Wanted = K \cup L
  <2>1. opt.recursive => \A p \in K \cup L : reqby[p] \subseteq K \cup L
    BY <1>2, <1>3
  <2>2. Wanted \subseteq K \cup L
    <3> HIDE DEF K, L
    <3> QED BY <1>1, <2>1, LeastFacts
  <2> QED BY <1>1, <2>2
<1>5. \A p \in K : reqby[p] \cap (K \cup (Pkg \ Wanted)) # {}
  <2> SUFFICES ASSUME NEW p \in K PROVE reqby[p] \cap (K \cup (Pkg \ Wanted)) # {}
    OBVIOUS
  <2>1. PICK q \in reqby[p] : q \notin L
    BY <1>3
  <2>2. q \in Pkg
    BY <1>1, <2>1
  <2> QED BY <1>4, <2>1, <2>2
<1>6. K \subseteq Stuck
  <2>1. K \in SUBSET Wanted
    BY <1>1
  <2> HIDE DEF K
  <2> QED BY <1>5, <2>1 DEF Stuck
<1>7. Stuck \subseteq Wanted /\ Stuck \cap L = {}
  <2> SUFFICES ASSUME NEW p \in Stuck PROVE p \in Wanted /\ p \notin L
    OBVIOUS
  <2>1. PICK S \in SUBSET Wanted :
            p \in S /\ \A x \in S : reqby[x] \cap (S \cup (Pkg \ Wanted)) # {}
    BY DEF Stuck
  <2>2. S \cap Rng(sorted) = {}
    BY <2>1, SortedFree
  <2> QED BY <2>1, <2>2
<1> QED BY <1>1, <1>4, <1>6, <1>7

\* With -R or -A the reference contains what is wanted, is closed under adding
\* a leaf, and is the least such set.
LEMMA LeafFacts ==
    ASSUME TypeOK, opt.new_leaves \/ opt.automatic_leaves
    PROVE  /\ Wanted \subseteq WithLeaves /\ WithLeaves \subseteq Pkg
           /\ \A p \in entries :
                 LeafCandidate(p) /\ RequiredOnlyBy(p, WithLeaves) => p \in WithLeaves
           /\ \A T \in SUBSET Pkg :
                 /\ Wanted \subseteq T
                 /\ \A p \in entries : LeafCandidate(p) /\ RequiredOnlyBy(p, T) => p \in T
                 => WithLeaves \subseteq T
<1> DEFINE C(T) == \A p \in entries : LeafCandidate(p) /\ RequiredOnlyBy(p, T) => p \in T
           D(T) == \A p \in entries \ preserved :
                     /\ opt.new_leaves \/ p \in automatic
                     /\ reqby[p] # {} /\ reqby[p] \subseteq T
                     => p \in T
<1>1. \A T : C(T) <=> D(T)
  BY DEF LeafCandidate, RequiredOnlyBy
<1>2. WithLeaves = {p \in Pkg : \A T \in SUBSET Pkg : Wanted \subseteq T /\ D(T) => p \in T}
  BY DEF WithLeaves, Least
<1>3. Wanted \subseteq Pkg /\ entries \subseteq Pkg
  BY LeastFacts DEF TypeOK, DBTypeOK
<1>4. ASSUME NEW p \in entries, LeafCandidate(p), RequiredOnlyBy(p, WithLeaves)
      PROVE  p \in WithLeaves
  <2>1. ASSUME NEW T \in SUBSET Pkg, Wanted \subseteq T, D(T) PROVE p \in T
    <3>1. C(T)
      BY <1>1, <2>1
    <3>2. WithLeaves \subseteq T
      BY <1>2, <2>1
    <3>3. RequiredOnlyBy(p, T)
      BY <1>4, <3>2 DEF RequiredOnlyBy
    <3> QED BY <1>4, <3>1, <3>3
  <2> QED BY <1>2, <1>3, <2>1
<1>5. ASSUME NEW T \in SUBSET Pkg, Wanted \subseteq T, C(T) PROVE WithLeaves \subseteq T
  <2>1. D(T)
    BY <1>1, <1>5
  <2> QED BY <1>2, <1>5, <2>1
<1>6. Wanted \subseteq WithLeaves
  BY <1>2, <1>3
<1>7. WithLeaves \subseteq Pkg
  BY <1>2
<1> QED BY <1>4, <1>5, <1>6, <1>7

\* The references look at nothing that looking for leaves changes.
LEMMA LeafFrame ==
    ASSUME UNCHANGED <<request, opt, reqby, entries, preserved, automatic>>
    PROVE  WithLeaves' = WithLeaves
BY WantedFrame DEF WithLeaves, Least

\* The sorted list is handed on when nothing is left over or -f is given.
LEMMA SortEnd ==
    ASSUME TypeOK, SortInv, SortDone, ~IoErrors
    PROVE  SortInv'
<1> USE DEF dbVars, cmdVars
<1>1. /\ ListInv /\ kept = <<>> /\ Waits(Rng(todo))
      /\ UNCHANGED <<request, opt, reqby, entries, preserved, automatic>>
      /\ Wanted' = Wanted /\ WithLeaves' = WithLeaves
      /\ visit' = entries /\ progress' = FALSE
      /\ pc' \in {"idle", "leaves", "check"}
      /\ pc' # "idle" => opt.force > 0 \/ todo = <<>>
      /\ pc' = "leaves" <=> pc' # "idle" /\ (opt.new_leaves \/ opt.automatic_leaves)
  BY WantedFrame, LeafFrame DEF SortDone, SortInv, Exit, TypeOK, OptionSpace
<1>2. Wanted = Rng(todo) \cup Rng(sorted)
  BY <1>1, SortedExact
<1>3. todo \in Seq(Pkg) /\ sorted \in Seq(Pkg)
  BY DEF TypeOK
<1>4. ASSUME pc' # "idle" PROVE Rng(sorted') = Wanted
  <2>1. CASE opt.force > 0
    <3>1. sorted' = sorted \o todo
      BY <2>1 DEF SortDone
    <3>2. Rng(sorted \o todo) = Rng(sorted) \cup Rng(todo)
      <4>1. CASE Pkg = {}
        BY <1>3, <4>1, ElementOfSeq, LenProperties DEF Rng
      <4>2. CASE Pkg # {}
        BY <1>3, <4>2, RngFacts
      <4> QED BY <4>1, <4>2
    <3> QED BY <1>2, <3>1, <3>2
  <2>2. CASE ~(opt.force > 0)
    <3>1. sorted' = sorted /\ todo = <<>>
      BY <1>1, <1>4, <2>2 DEF SortDone
    <3>2. Rng(<<>>) = {}
      BY DEF Rng
    <3> QED BY <1>2, <3>1, <3>2
  <2> QED BY <2>1, <2>2
<1>5. CASE pc' = "idle"
  BY <1>5 DEF SortInv
<1>6. CASE pc' = "leaves"
  <2>1. /\ opt'.new_leaves \/ opt'.automatic_leaves
        /\ Wanted' \subseteq Rng(sorted')
        /\ Rng(sorted') \subseteq WithLeaves'
        /\ visit' \subseteq entries'
    BY <1>1, <1>4, <1>6, LeafFacts
  <2>2. entries' \ visit' = {}
    BY <1>1
  <2>3. progress' \/ \A p \in entries' \ visit' : ~NewLeaf(p)'
    BY <2>2
  <2> QED BY <1>6, <2>1, <2>3 DEF SortInv
<1>7. CASE pc' = "check"
  <2>1. WithLeaves = Wanted
    BY <1>1, <1>7 DEF WithLeaves
  <2> QED BY <1>1, <1>4, <1>7, <2>1 DEF SortInv
<1> QED BY <1>1, <1>5, <1>6, <1>7

\* A leaf that is added belongs to the reference; one that is not is none yet.
LEMMA SortVisit ==
    ASSUME TypeOK, SortInv, NEW p \in Pkg, VisitLeaf(p), ~IoErrors
    PROVE  SortInv'
<1> USE DEF dbVars, cmdVars
<1>1. /\ pc = "leaves" /\ pc' = "leaves"
      /\ UNCHANGED <<request, opt, reqby, entries, preserved, automatic>>
      /\ Wanted' = Wanted /\ WithLeaves' = WithLeaves
      /\ p \in visit /\ visit' = visit \ {p}
  BY WantedFrame, LeafFrame DEF VisitLeaf
<1>2. /\ opt.new_leaves \/ opt.automatic_leaves
      /\ Wanted \subseteq Rng(sorted) /\ Rng(sorted) \subseteq WithLeaves
      /\ visit \subseteq entries
      /\ progress \/ \A q \in entries \ visit : ~NewLeaf(q)
  BY <1>1 DEF SortInv
<1>3. CASE NewLeaf(p) /\ sorted' = Append(sorted, p) /\ progress' = TRUE
  <2>1. Rng(sorted') = Rng(sorted) \cup {p}
    BY <1>3, RngFacts DEF TypeOK
  <2>2. RequiredOnlyBy(p, WithLeaves) /\ LeafCandidate(p) /\ p \in entries
    BY <1>1, <1>2, <1>3 DEF NewLeaf, RequiredOnlyBy
  <2>3. p \in WithLeaves
    BY <1>2, <2>2, LeafFacts
  <2> QED BY <1>1, <1>2, <1>3, <2>1, <2>3 DEF SortInv
<1>4. CASE ~NewLeaf(p) /\ UNCHANGED <<sorted, progress>>
  <2>1. \A q : NewLeaf(q)' <=> NewLeaf(q)
    BY <1>1, <1>4 DEF NewLeaf, LeafCandidate, RequiredOnlyBy
  <2>2. progress' \/ \A q \in entries' \ visit' : ~NewLeaf(q)'
    BY <1>1, <1>2, <1>4, <2>1
  <2> QED BY <1>1, <1>2, <1>4, <2>2 DEF SortInv
<1> QED BY <1>3, <1>4 DEF VisitLeaf, NewLeaf

\* A pass that added nothing has found every leaf.
LEMMA SortPass ==
    ASSUME TypeOK, SortInv, LeafPassDone, ~IoErrors
    PROVE  SortInv'
<1> USE DEF dbVars, cmdVars
<1>1. /\ pc = "leaves" /\ visit = {} /\ progress' = FALSE
      /\ UNCHANGED <<request, opt, reqby, entries, preserved, automatic, sorted>>
      /\ Wanted' = Wanted /\ WithLeaves' = WithLeaves
  BY WantedFrame, LeafFrame DEF LeafPassDone
<1>2. /\ opt.new_leaves \/ opt.automatic_leaves
      /\ Wanted \subseteq Rng(sorted) /\ Rng(sorted) \subseteq WithLeaves
      /\ visit \subseteq entries
      /\ progress \/ \A q \in entries \ visit : ~NewLeaf(q)
  BY <1>1 DEF SortInv
<1>3. CASE progress
  <2>1. pc' = "leaves" /\ visit' = entries
    BY <1>1, <1>3 DEF LeafPassDone
  <2>2. \A q \in entries' \ visit' : ~NewLeaf(q)'
    BY <1>1, <2>1
  <2> QED BY <1>1, <1>2, <2>1, <2>2 DEF SortInv
<1>4. CASE ~progress
  <2>1. \A q \in entries :
            LeafCandidate(q) /\ RequiredOnlyBy(q, Rng(sorted)) => q \in Rng(sorted)
    BY <1>1, <1>2, <1>4 DEF NewLeaf
  <2>2. Rng(sorted) \subseteq Pkg
    BY ElementOfSeq DEF TypeOK, Rng
  <2>3. WithLeaves \subseteq Rng(sorted)
    BY <1>2, <2>1, <2>2, LeafFacts
  <2>4. pc' = "check"
    BY <1>4 DEF LeafPassDone
  <2> QED BY <1>1, <1>2, <2>3, <2>4 DEF SortInv
<1> QED BY <1>3, <1>4

\* The rest of an invocation leaves the part of the program SortInv is about.
LEMMA SortLater ==
    ASSUME TypeOK, SortInv, Outer \/ CheckPreserve \/ Late
    PROVE  SortInv'
<1>1. CASE pc' \in {"idle", "remove"} \cup {"deinstall", "files", "deps", "unlink"}
  BY <1>1 DEF SortInv
<1>2. ASSUME NEW o \in Options, NEW x \in Requests, Invoke(o, x) PROVE SortInv'
  BY <1>2 DEF Invoke, SortInv
<1>3. CASE UNCHANGED vars
  <2>1. /\ UNCHANGED <<dbVars, cmdVars, listVars, leafVars, sorted, pc>>
        /\ Wanted' = Wanted /\ WithLeaves' = WithLeaves
    BY <1>3, WantedFrame, LeafFrame DEF vars, dbVars, cmdVars
  <2>2. ListInv' = ListInv /\ RoundInv' = RoundInv /\ \A S : Waits(S)' = Waits(S)
    BY <2>1 DEF ListInv, RoundInv, Waits, Missing, dbVars, cmdVars, listVars
  <2>3. \A p : NewLeaf(p)' = NewLeaf(p)
    BY <2>1 DEF NewLeaf, LeafCandidate, RequiredOnlyBy, dbVars, cmdVars
  <2> QED BY <2>1, <2>2, <2>3 DEF SortInv, dbVars, cmdVars, listVars, leafVars
<1>4. CASE CheckPreserve \/ Crash
  <2>1. pc' \in {"idle", "remove"}
    BY <1>4 DEF CheckPreserve, Crash, Exit
  <2> QED BY <1>1, <2>1
<1>5. CASE Late
  <2>1. pc' \in {"idle", "remove"} \cup {"deinstall", "files", "deps", "unlink"}
    <3>1. CASE RemoveNext \/ RemoveFromIndex \/ RemoveDone \/ RunDeinstall
      BY <3>1 DEF RemoveNext, RemoveFromIndex, RemoveDone, RunDeinstall, Returned, Exit
    <3>2. CASE (\E f \in File : DeleteFile(f)) \/ FilesDone \/ DepsDone
      BY <3>2 DEF DeleteFile, FilesDone, DepsDone
    <3>3. CASE (\E d \in Pkg : RemoveDepend(d)) \/ UnlinkMeta \/ RemoveDir
      BY <3>3 DEF RemoveDepend, UnlinkMeta, RemoveDir, Returned
    <3> QED BY <1>5, <3>1, <3>2, <3>3 DEF Late
  <2> QED BY <1>1, <2>1
<1> QED BY <1>2, <1>3, <1>4, <1>5 DEF Outer

\* Every step keeps the invariant of the sort.
LEMMA SortStep ==
    ASSUME TypeOK, SortInv, [Next]_vars
    PROVE  SortInv'
<1>1. CASE IoErrors
  BY <1>1 DEF SortInv
<1>2. CASE ~IoErrors
  <2>1. CASE Early
    <3>1. ~ScanUnreadable
      BY <1>2 DEF ScanUnreadable
    <3> QED BY <1>2, <2>1, <3>1, SortGather, SortMove, SortKeep, SortRound, SortEnd,
               SortVisit, SortPass, SortLater DEF Early
  <2> QED BY <2>1, NextCases, SortLater
<1> QED BY <1>1, <1>2

-----------------------------------------------------------------------------
\* The inductive invariant.
IInv == TypeOK /\ IndexInv /\ OptionInv /\ OrderInv /\ RegInv /\ PreserveInv /\ SortInv

\* The inductive invariant holds initially.
LEMMA IInvInit == Init => IInv
<1> SUFFICES ASSUME Init PROVE IInv
  OBVIOUS
<1>1. TypeOK
  BY TypeInit
<1>2. IndexInv
  BY NoPkgAssumption DEF Init, DBInit, ProcInit, IndexInv, OwnersRegistered
<1>3. OptionInv /\ OrderInv /\ PreserveInv
  BY DEF Init, ProcInit, OptionInv, OrderInv, PreserveInv, InRemovePkg
<1>4. RegInv
  BY DEF Init, DBInit, RegInv
<1>5. SortInv
  BY DEF Init, ProcInit, SortInv
<1> QED BY <1>1, <1>2, <1>3, <1>4, <1>5 DEF IInv

\* Every step keeps the inductive invariant.
LEMMA IInvNext == IInv /\ [Next]_vars => IInv'
  BY TypeNext, IndexStep, OptionStep, OrderStep, RegStep, PreserveStep, SortStep
     DEF IInv

\* The inductive invariant holds in every reachable state.
LEMMA Invariance == Spec => []IInv
  BY IInvInit, IInvNext, PTL DEF Spec

\* pkg_delete without -f and -k never removes a package that an installed
\* package lists as needed, for any +REQUIRED_BY relation and any options.
THEOREM RemovedIsUnrequiredCorrect == Spec => []RemovedIsUnrequired
<1>1. IInv => RemovedIsUnrequired
  BY DEF IInv, OptionInv, OrderInv, RemovedIsUnrequired, Removing, Plain, InRemovePkg
<1> QED BY <1>1, Invariance, PTL

\* Unforced runs of pkg_delete, killed or not, leave every package that owns
\* its files with an installed match for each of its dependency patterns.
THEOREM DependenciesKeptCorrect == Spec => []DependenciesKept
<1>1. IInv => DependenciesKept
  BY DEF IInv, RegInv, DependenciesKept, Registered
<1> QED BY <1>1, Invariance, PTL

\* For a file that no directory has replaced and no saved copy has, the index
\* names only packages that are in the database, also after runs that failed
\* or were killed at any step.
THEOREM OwnersRegisteredCorrect == Spec => []OwnersRegistered
<1>1. IInv => OwnersRegistered
  BY DEF IInv, IndexInv
<1> QED BY <1>1, Invariance, PTL

\* sort_and_recurse sorts exactly the packages that can be sorted: its progress
\* test stops neither early nor with a sortable package left over.
THEOREM SortExactCorrect == Spec => []SortExact
<1>1. IInv => SortExact
  <2> SUFFICES ASSUME IInv, pc = "sorted", ~IoErrors
               PROVE  Rng(todo) = Stuck /\ Rng(sorted) = Wanted \ Stuck
    BY DEF SortExact
  <2>1. TypeOK /\ ListInv /\ kept = <<>> /\ Waits(Rng(todo))
    BY DEF IInv, SortInv
  <2> QED BY <2>1, SortedExact
<1> QED BY <1>1, Invariance, PTL

\* find_new_leaves adds exactly the packages that only packages of the list
\* require, in whatever order it visits the directory.
THEOREM LeavesExactCorrect == Spec => []LeavesExact
<1>1. IInv => LeavesExact
  BY DEF IInv, SortInv, LeavesExact
<1> QED BY <1>1, Invariance, PTL

\* A preserved package is removed only under -f -f or -f -N, and never with -k.
THEOREM PreservedKeptCorrect == Spec => []PreservedKept
<1>1. IInv => PreservedKept
  <2> SUFFICES ASSUME IInv, Removing, cur \in preserved
               PROVE  /\ ~opt.keep_preserve
                      /\ opt.force >= (IF opt.unregister_only THEN 1 ELSE 2)
    BY DEF PreservedKept
  <2>1. ~opt.keep_preserve /\ MayDeletePreserved
    BY DEF IInv, PreserveInv, Removing, InRemovePkg
  <2>2. opt.force \in Nat /\ opt.unregister_only \in BOOLEAN
    BY DEF IInv, TypeOK, OptionSpace
  <2> QED BY <2>1, <2>2 DEF MayDeletePreserved
<1> QED BY <1>1, Invariance, PTL

-----------------------------------------------------------------------------
(* The promise to the user.                                                *)

\* The packages that work in the sense of the promise.
Working == {q \in contents : Owned(q)}

\* A step that leaves +CONTENTS, the index and careful alone is a stutter.
LEMMA PromiseStutter ==
    ASSUME UNCHANGED <<contents, owner, careful>>
    PROVE  UNCHANGED Promise!vars
  BY DEF Promise!vars, Owned, Plainly

\* A step of the index that only takes entries out is a Break.
LEMMA PromiseBreak ==
    ASSUME TypeOK, UNCHANGED <<contents, careful>>,
           \A f \in File : owner'[f] = NoPkg \/ owner'[f] = owner[f]
    PROVE  Promise!Next
<1>1. \A q \in contents : Owned(q)' => Owned(q)
  <2> SUFFICES ASSUME NEW q \in contents, Owned(q)' PROVE Owned(q)
    OBVIOUS
  <2>1. q \in Pkg
    BY DEF TypeOK, DBTypeOK
  <2> QED BY <2>1, ContentsAssumption, NoPkgAssumption DEF Owned, Plainly
<1>2. Promise!Break
  BY <1>1 DEF Promise!Break
<1> QED BY <1>2 DEF Promise!Next

\* Every step of pkg_delete is a step of the promise, or none.
LEMMA PromiseStep ==
    ASSUME IInv, IInv', [Next]_vars
    PROVE  [Promise!Next]_Promise!vars
<1> USE DEF dbVars, cmdVars, pkgVars
<1>1. CASE Outer
  <2>1. UNCHANGED <<contents, owner>>
    BY <1>1, OuterFrame
  <2>2. careful' = careful \/ careful' = FALSE
    BY <1>1, OuterFrame DEF IInv, TypeOK, vars
  <2>3. CASE careful' = careful
    BY <2>1, <2>3, PromiseStutter
  <2>4. CASE careful' = FALSE
    <3>1. Promise!Override
      BY <2>1, <2>4 DEF Promise!Override, Owned, Plainly
    <3> QED BY <3>1 DEF Promise!Next
  <2> QED BY <2>2, <2>3, <2>4
<1>2. CASE Early
  BY <1>2, EarlyFrame, PromiseStutter
<1>3. CASE \/ RemoveNext \/ RemoveDone \/ RunDeinstall \/ DepsDone \/ RemoveDir
           \/ (\E f \in File : DeleteFile(f)) \/ (\E d \in Pkg : RemoveDepend(d))
  <2>1. UNCHANGED <<contents, owner, careful>>
    BY <1>3 DEF RemoveNext, RemoveDone, RunDeinstall, DepsDone, RemoveDir, DeleteFile,
                RemoveDepend
  <2> QED BY <2>1, PromiseStutter
<1>4. CASE RemoveFromIndex \/ FilesDone
  <2>1. UNCHANGED <<contents, careful>>
    BY <1>4 DEF RemoveFromIndex, FilesDone
  <2>2. \A f \in File : owner'[f] = NoPkg \/ owner'[f] = owner[f]
    BY <1>4 DEF RemoveFromIndex, FilesDone, WithoutPkg, WithoutKeys
  <2> QED BY <2>1, <2>2, PromiseBreak DEF IInv
<1>5. CASE UnlinkMeta
  <2>1. /\ UNCHANGED <<owner, careful>> /\ cur \in Pkg /\ pc = "unlink"
        /\ contents' = contents \/ contents' = contents \ {cur}
    BY <1>5 DEF UnlinkMeta, IInv, TypeOK
  <2>2. CASE contents' = contents
    BY <2>1, <2>2, PromiseStutter
  <2>3. CASE contents' = contents \ {cur}
    <3>1. ~Owned(cur)
      BY <2>1, Disowned DEF IInv, OptionInv
    <3>2. Working' = Working \ {cur}
      BY <2>1, <2>3, <3>1 DEF Working, Owned, Plainly
    <3>3. careful => \A q \in Working' : \A pt \in Deps[q] : Match[pt] \cap contents' # {}
      BY <2>1 DEF IInv, RegInv, Registered, Working
    <3>4. Promise!Forget(cur)
      BY <2>1, <2>3, <3>2, <3>3 DEF Promise!Forget, Promise!Kept, Promise!Fulfilled, Working
    <3> QED BY <2>1, <3>4 DEF Promise!Next
  <2> QED BY <2>1, <2>2, <2>3
<1> QED BY <1>1, <1>2, <1>3, <1>4, <1>5, NextCases DEF Late

\* pkg_delete implements the promise.
THEOREM PromiseCorrect == Spec => KeepsPromise
<1>1. Init => Promise!Init
  <2> SUFFICES ASSUME Init PROVE Promise!Init
    OBVIOUS
  <2>1. \A q \in Working : \A pt \in Deps[q] : Match[pt] \cap contents # {}
    BY DEF Init, DBInit, Registered, Working
  <2>2. contents \subseteq Pkg /\ careful = TRUE /\ Working \subseteq contents
    BY DEF Init, DBInit, ProcInit, Working
  <2> QED BY <2>1, <2>2 DEF Promise!Init, Promise!Fulfilled, Working
<1>2. IInv /\ IInv' /\ [Next]_vars => [Promise!Next]_Promise!vars
  BY PromiseStep
<1> QED BY <1>1, <1>2, Invariance, PTL DEF Spec, KeepsPromise, Promise!Spec
=============================================================================
