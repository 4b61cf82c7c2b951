---------------------------- MODULE BmakeProofs ----------------------------
(* Proofs about the parallel makes of Bmake.                               *)
(*                                                                         *)
(* The invariant has a part for the nodes (NodesOK), one for the processes *)
(* (ProcessesOK) and one that counts (SlotsKept).                          *)
(*                                                                         *)
(* Nodes: unmade counts what is left to be made of the children, the queue *)
(* lists the requested nodes, and what is started or made comes after its  *)
(* predecessors.  The first needs the last: a child that were made before  *)
(* its own children would be counted down when it is made, and its parent  *)
(* be looked at too early.                                                 *)
(*                                                                         *)
(* Processes: jobTokensRunning counts the jobs that wait for a reap and    *)
(* the token of the next one, and a make runs exactly while the job that   *)
(* started it does.                                                        *)
(*                                                                         *)
(* Slots: the first job of a make takes no byte from the pipe, so bytes,   *)
(* jobs and tokens at hand do not add up to a constant: a make has a slot  *)
(* when it is idle and none when it has jobs, and the job that is a make   *)
(* has none.  Then every step but a stopper's keeps the number of slots.   *)
(*                                                                         *)
(* Scheduling: a node that is put back waits for another one, and one      *)
(* whose children were looked at has scheduled those before the next       *)
(* .WAIT (ScheduleInv).  A make whose queue is empty has then made what    *)
(* can be made; what that is takes rounds, and the lemma Rounds of         *)
(* DataFacts and sets of numbers do for them what induction would.         *)
EXTENDS Bmake, DataFacts, TLAPS

\* SetToSeqs has the lists of a finite set.
LEMMA ListsSetToSeqs ==
    ASSUME NEW S, IsFiniteSet(S), NEW s \in SetToSeqs(S)
    PROVE  Lists(s, S)
BY ListsNumbering DEF SetToSeqs

-----------------------------------------------------------------------------
(* The inductive invariant.                                                *)

\* The makefiles: a make's nodes depend on nodes of the same make, and no two
\* nodes run the same make.
GraphOK ==
    /\ graph.children \in [Node -> Seq(Node)]
    /\ graph.order \in [Node -> SUBSET Node]
    /\ graph.sub \in [Node -> (Make \ {Root}) \cup {NoMake}]
    /\ \A n \in Node : \A k \in ToSet(Kids(n)) \cup graph.order[n] : MakeOf[k] = MakeOf[n]
    /\ \A n, k \in Node : Sub(n) = Sub(k) /\ n # k => Sub(n) = NoMake

\* A node counts its children that are not made.
Remaining(p) == {i \in DOMAIN Kids(p) : made[Kids(p)[i]] \notin Built}
UnmadeCounts == \A p \in Node : unmade[p] = Cardinality(Remaining(p))

\* "REQUESTED - on toBeMade list".
Requested(m) == {n \in Node : MakeOf[n] = m /\ made[n] = "requested"}
QueueLists == \A m \in Make : Lists(toBeMade[m], Requested(m))

\* Nodes are requested when those left of them on a .ORDER line are made, and
\* started when their children are made, too.
OrderedBefore ==
    \A n \in Node : made[n] \in Built \cup {"requested", "beingmade"} =>
        \A k \in graph.order[n] : made[k] \in Built
ChildrenBefore ==
    \A n \in Node : made[n] \in Built \cup {"beingmade"} =>
        \A k \in ToSet(Kids(n)) : made[k] \in Built

\* Jobs are those of nodes that are being made; the make that a node runs is
\* started with its job, lives while the job runs and lives for no other.
JobsBeingMade == \A n \in Node : job[n] # "none" => made[n] = "beingmade"
SubsOff ==
    \A n \in Node : Sub(n) # NoMake /\ made[n] \notin Built \cup {"beingmade"} =>
        pc[Sub(n)] = "off"
SubsLive == \A n \in Node : job[n] = "running" /\ Sub(n) # NoMake => Live(Sub(n))
SubsRunning ==
    \A m \in Make \ {Root} : Live(m) => \E n \in Node : Sub(n) = m /\ job[n] = "running"

\* jobTokensRunning counts the jobs and the token for the next one.
RunningCounts ==
    \A m \in Make : pc[m] # "dead" =>
        running[m] = Cardinality(Jobs(m)) + (IF pc[m] = "token" THEN 1 ELSE 0)
NoneRunning ==
    \A m \in Make : pc[m] \in {"off", "spare", "made", "failed", "unbuilt"} => running[m] = 0

\* What takes one of the -j slots: a byte in the pipe, a job that is no make,
\* a token at hand, one that was not needed, and a make without a job.
Bytes(s) == {i \in DOMAIN s : s[i] = "+"}
Work == {n \in Unreaped : job[n] # "running" \/ Sub(n) = NoMake}
Idle == {m \in Make : Live(m) /\ running[m] = 0}
HeldByAll == Cardinality(WithToken) + Cardinality(WithSpare) + Cardinality(Idle)
Slots == Cardinality(Bytes(pool)) + Cardinality(Work) + HeldByAll

\* Slots are never made; none is lost until a make puts a stopper or dies.
SlotsKept ==
    /\ Slots <= MaxJobs
    /\ ~Stopped /\ ~Died => Slots = (IF Live(Root) THEN MaxJobs ELSE MaxJobs - 1)

\* What the invariant says of the graph, its nodes and the queues.
NodesOK ==
    /\ made \in [Node -> {"unmade", "deferred", "requested", "beingmade"} \cup Built]
    /\ unmade \in [Node -> Nat] /\ toBeMade \in [Make -> Seq(Node)]
    /\ checked \subseteq Node /\ doneOrder \subseteq Node
    /\ GraphOK /\ UnmadeCounts /\ QueueLists /\ OrderedBefore /\ ChildrenBefore

\* What it says of the makes and their jobs.
ProcessTypes ==
    /\ keepgoing \subseteq Make /\ errors \subseteq Make
    /\ pc \in [Make -> Locations] /\ job \in [Node -> {"none", "running", "ok", "error"}]
    /\ running \in [Make -> 0..MaxJobs] /\ aborting \in [Make -> {"no", "error", "wait"}]
    /\ pool \in Seq({"+", "stop"})
ProcessesOK ==
    /\ ProcessTypes
    /\ JobsBeingMade /\ SubsOff /\ SubsLive /\ SubsRunning /\ RunningCounts /\ NoneRunning

Inv == NodesOK /\ ProcessesOK /\ SlotsKept

-----------------------------------------------------------------------------
(* The initial states.                                                     *)

\* A part of a sequence has only elements of the sequence.
LEMMA PartOfSeq ==
    ASSUME NEW S, NEW s \in Seq(S), NEW a \in 1..Len(s), NEW b \in 0..Len(s)
    PROVE  /\ SubSeq(s, a, b) \in Seq(S)
           /\ \A j \in DOMAIN SubSeq(s, a, b) : \E k \in DOMAIN s : SubSeq(s, a, b)[j] = s[k]
<1> DEFINE n == IF a <= b THEN b - a + 1 ELSE 0
           t == SubSeq(s, a, b)
<1>1. n \in Nat /\ Len(s) \in Nat /\ DOMAIN s = 1..Len(s)
  OBVIOUS
<1>2. /\ Len(t) = n /\ DOMAIN t = 1..n
      /\ \A j \in 1..n : t[j] = s[a + j - 1]
  OBVIOUS
<1>3. \A j \in 1..n : a + j - 1 \in DOMAIN s
  BY <1>1
<1>4. t \in Seq(S)
  BY <1>1
<1> QED
  BY <1>2, <1>3, <1>4

\* Make_ProcessWait gives a .WAIT node children of its own make.
LEMMA ProcessWaitTyped ==
    ASSUME NEW children \in [Node -> Seq(Node)],
           \A n \in Node : \A k \in ToSet(children[n]) : MakeOf[k] = MakeOf[n]
    PROVE  /\ ProcessWait(children) \in [Node -> Seq(Node)]
           /\ \A n \in Node : \A k \in ToSet(ProcessWait(children)[n]) : MakeOf[k] = MakeOf[n]
<1> SUFFICES ASSUME NEW w \in Node
             PROVE  /\ ProcessWait(children)[w] \in Seq(Node)
                    /\ \A k \in ToSet(ProcessWait(children)[w]) : MakeOf[k] = MakeOf[w]
  BY DEF ProcessWait
<1> DEFINE Found == w \in Wait /\ \E p \in Node : w \in ToSet(children[p])
           p0 == CHOOSE p \in Node : w \in ToSet(children[p])
           line == children[p0]
           i == CHOOSE k \in DOMAIN line : line[k] = w
           before == {k \in 1..(i - 1) : line[k] \in Wait}
           from == IF before = {} THEN 1 ELSE Max(before)
<1>1. CASE ~Found
  BY <1>1 DEF ProcessWait
<1>2. CASE Found
  <2>1. ProcessWait(children)[w] = SubSeq(line, from, i - 1)
    BY <1>2 DEF ProcessWait
  <2>2. p0 \in Node /\ w \in ToSet(children[p0])
    BY <1>2
  <2>3. line \in Seq(Node) /\ \E k \in DOMAIN line : line[k] = w
    BY <2>2 DEF ToSet
  <2>4. i \in DOMAIN line /\ line[i] = w
    BY <2>3
  <2>5. i \in 1..Len(line)
    BY <2>3, <2>4
  <2>6. \A k \in DOMAIN line : MakeOf[line[k]] = MakeOf[w]
    <3>1. \A k \in DOMAIN line : line[k] \in ToSet(line)
      BY DEF ToSet
    <3> QED
      BY <2>2, <3>1
  <2> HIDE DEF line, i
  <2>7. from \in 1..Len(line)
    <3>1. CASE before = {}
      BY <2>5, <3>1
    <3>2. CASE before # {}
      <4>1. before \subseteq Nat /\ \A x \in before : x <= i - 1
        BY <2>5
      <4>2. \E x \in before : \A y \in before : x >= y
        <5>1. i - 1 \in Nat
          BY <2>5
        <5> HIDE DEF before
        <5> QED
          BY <3>2, <4>1, <5>1, GreatestNatural
      <4>3. Max(before) \in before
        BY <4>2 DEF Max
      <4> QED
        BY <2>5, <3>2, <4>3
    <3> QED
      BY <3>1, <3>2
  <2> HIDE DEF from
  <2>8. /\ SubSeq(line, from, i - 1) \in Seq(Node)
        /\ \A j \in DOMAIN SubSeq(line, from, i - 1) :
              \E k \in DOMAIN line : SubSeq(line, from, i - 1)[j] = line[k]
    <3>1. i - 1 \in 0..Len(line)
      BY <2>3, <2>5
    <3> QED
      BY <2>3, <2>7, <3>1, PartOfSeq
  <2> QED
    BY <2>1, <2>6, <2>8 DEF ToSet
<1> QED
  BY <1>1, <1>2

\* The initial states satisfy the invariant.
LEMMA InitInv ==
    ASSUME Init
    PROVE  Inv
<1>1. PICK g \in Graphs : graph =
          [g EXCEPT !.children = ProcessWait(@),
                    !.order = [n \in Node |-> @[n] \cap Remade(g.children)]]
  BY DEF Init
<1>2. /\ g \in [children : [Node -> Seq(Node)], order : [Node -> SUBSET Node],
                sub : [Node -> (Make \ {Root}) \cup {NoMake}]]
      /\ \A n \in Node : \A k \in ToSet(g.children[n]) \cup g.order[n] : MakeOf[k] = MakeOf[n]
      /\ \A m \in Make : g.order[Main[m]] = {}
      /\ \A n, k \in Node : g.sub[n] = g.sub[k] /\ n # k => g.sub[n] = NoMake
  BY GraphAssumption
<1>3. /\ graph.children = ProcessWait(g.children) /\ graph.sub = g.sub
      /\ graph.order = [n \in Node |-> g.order[n] \cap Remade(g.children)]
  BY <1>1, <1>2
<1>4. /\ graph.children \in [Node -> Seq(Node)]
      /\ \A n \in Node : \A k \in ToSet(graph.children[n]) : MakeOf[k] = MakeOf[n]
  <2> DEFINE c == g.children
  <2>1. c \in [Node -> Seq(Node)]
    BY <1>2
  <2>2. \A n \in Node : \A k \in ToSet(c[n]) : MakeOf[k] = MakeOf[n]
    BY <1>2
  <2>3. graph.children = ProcessWait(c)
    BY <1>3
  <2> HIDE DEF c
  <2>4. /\ ProcessWait(c) \in [Node -> Seq(Node)]
        /\ \A n \in Node : \A k \in ToSet(ProcessWait(c)[n]) : MakeOf[k] = MakeOf[n]
    BY <2>1, <2>2, ProcessWaitTyped
  <2> QED
    BY <2>3, <2>4
<1>5. GraphOK
  BY <1>2, <1>3, <1>4 DEF GraphOK, Kids, Sub
<1>6. /\ made = [n \in Node |-> IF \E m \in Make : n = Main[m] THEN "requested" ELSE "unmade"]
      /\ pc = [m \in Make |-> IF m = Root THEN "start" ELSE "off"]
      /\ job = [n \in Node |-> "none"] /\ running = [m \in Make |-> 0]
      /\ toBeMade = [m \in Make |-> <<Main[m]>>]
      /\ pool = [i \in 1..(MaxJobs - 1) |-> "+"]
      /\ unmade = [n \in Node |-> Len(Kids(n))]
  BY DEF Init
<1>7. \A n \in Node : made[n] \notin Built \cup {"beingmade"}
  BY <1>6 DEF Built
<1>8. UnmadeCounts
  <2> SUFFICES ASSUME NEW p \in Node PROVE unmade[p] = Cardinality(Remaining(p))
    BY DEF UnmadeCounts
  <2>1. Kids(p) \in Seq(Node)
    BY <1>5 DEF GraphOK, Kids
  <2>2. Remaining(p) = 1..Len(Kids(p))
    BY <1>7, <2>1 DEF Remaining
  <2>3. Cardinality(1..Len(Kids(p))) = Len(Kids(p))
    <3> DEFINE n == Len(Kids(p))
    <3>1. n \in Nat /\ n \in Int
      BY <2>1
    <3> HIDE DEF n
    <3>2. Cardinality(1..n) = IF 1 > n THEN 0 ELSE n - 1 + 1
      BY <3>1, FS_Interval
    <3>3. Cardinality(1..n) = n
      BY <3>1, <3>2
    <3> QED
      BY <3>3 DEF n
  <2> QED
    BY <1>6, <2>2, <2>3
<1>9. QueueLists
  <2> SUFFICES ASSUME NEW m \in Make PROVE Lists(toBeMade[m], Requested(m))
    BY DEF QueueLists
  <2>1. Main[m] \in Node /\ MakeOf[Main[m]] = m
    BY NodeAssumption
  <2>2. Requested(m) = {Main[m]}
    BY <1>6, <2>1, NodeAssumption DEF Requested
  <2>3. toBeMade[m] = <<Main[m]>>
    BY <1>6
  <2> QED
    BY <2>2, <2>3 DEF Lists
<1>10. OrderedBefore
  <2> SUFFICES ASSUME NEW n \in Node, made[n] \in Built \cup {"requested", "beingmade"}
               PROVE  graph.order[n] = {}
    BY DEF OrderedBefore
  <2>1. PICK m \in Make : n = Main[m]
    BY <1>6, <1>7 DEF Built
  <2> QED
    BY <1>2, <1>3, <2>1
<1>11. ChildrenBefore
  BY <1>7 DEF ChildrenBefore
<1>12. JobsBeingMade /\ SubsLive
  BY <1>6 DEF JobsBeingMade, SubsLive
<1>13. SubsOff
  BY <1>5, <1>6 DEF SubsOff, GraphOK, Sub
<1>14. SubsRunning
  BY <1>6 DEF SubsRunning, Live
<1>15. RunningCounts /\ NoneRunning
  <2>1. \A m \in Make : Jobs(m) = {}
    BY <1>6 DEF Jobs
  <2>2. \A m \in Make : Cardinality(Jobs(m)) = 0
    BY <2>1, FS_EmptySet
  <2> QED
    BY <1>6, <2>2 DEF RunningCounts, NoneRunning
<1>16. SlotsKept
  <2>1. Root \in Make /\ MaxJobs \in Nat \ {0}
    BY MakeAssumption, BoundsAssumption
  <2>2. Bytes(pool) = 1..(MaxJobs - 1)
    BY <1>6, <2>1 DEF Bytes
  <2>3. Cardinality(Bytes(pool)) = MaxJobs - 1
    BY <2>1, <2>2, FS_Interval
  <2>4. Work = {} /\ WithToken = {} /\ WithSpare = {}
    BY <1>6 DEF Work, Unreaped, WithToken, WithSpare
  <2>5. Idle = {Root} /\ Live(Root)
    BY <1>6, <2>1 DEF Idle, Live, Ended
  <2>6. Cardinality({}) = 0 /\ Cardinality({Root}) = 1
    BY FS_EmptySet, FS_Singleton
  <2> QED
    BY <2>1, <2>3, <2>4, <2>5, <2>6 DEF SlotsKept, Slots, HeldByAll
<1>17. TypeOK
  <2>1. made \in [Node -> {"unmade", "deferred", "requested", "beingmade"} \cup Built]
    BY <1>6
  <2>2. pc \in [Make -> Locations] /\ job \in [Node -> {"none", "running", "ok", "error"}]
    BY <1>6 DEF Locations
  <2>3. running \in [Make -> 0..MaxJobs]
    BY <1>6, BoundsAssumption
  <2>4. pool \in Seq({"+", "stop"})
    BY <1>6, BoundsAssumption
  <2>5. toBeMade \in [Make -> Seq(Node)]
    BY <1>6, NodeAssumption
  <2>6. unmade \in [Node -> Nat]
    BY <1>5, <1>6 DEF GraphOK, Kids
  <2>7. /\ checked \subseteq Node /\ doneOrder \subseteq Node /\ errors \subseteq Make
        /\ aborting \in [Make -> {"no", "error", "wait"}] /\ keepgoing \subseteq Make
    BY BoundsAssumption DEF Init
  <2> QED
    BY <1>5, <2>1, <2>2, <2>3, <2>4, <2>5, <2>6, <2>7 DEF TypeOK, GraphOK
<1>18. NodesOK
  BY <1>5, <1>8, <1>9, <1>10, <1>11, <1>17 DEF NodesOK, TypeOK
<1>19. ProcessesOK
  BY <1>12, <1>13, <1>14, <1>15, <1>17 DEF ProcessesOK, ProcessTypes, TypeOK
<1> QED
  BY <1>16, <1>18, <1>19 DEF Inv

-----------------------------------------------------------------------------
(* The queue and the counts of unmade children.                            *)

\* Steps that leave them alone.
LEMMA NodesFrame ==
    ASSUME NodesOK, UNCHANGED <<graph, graphVars>>
    PROVE  NodesOK'
<1>1. /\ \A p \in Node : Remaining(p)' = Remaining(p)
      /\ \A m \in Make : Requested(m)' = Requested(m)
      /\ GraphOK' = GraphOK
  BY DEF Remaining, Requested, GraphOK, Kids, Sub, graphVars
<1>2. UnmadeCounts'
  BY <1>1 DEF NodesOK, UnmadeCounts, graphVars
<1>3. QueueLists'
  BY <1>1 DEF NodesOK, QueueLists, graphVars
<1>4. OrderedBefore' /\ ChildrenBefore'
  BY DEF NodesOK, OrderedBefore, ChildrenBefore, Kids, graphVars
<1> QED
  BY <1>1, <1>2, <1>3, <1>4 DEF NodesOK, graphVars

\* Nodes that are not made after a step remain to be made if no node is made
\* in it.
LEMMA SameRemaining ==
    ASSUME NodesOK, graph' = graph, unmade' = unmade,
           \A k \in Node : made'[k] \in Built <=> made[k] \in Built
    PROVE  UnmadeCounts'
<1>1. ASSUME NEW p \in Node PROVE Remaining(p)' = Remaining(p)
  <2>1. \A i \in DOMAIN Kids(p) : Kids(p)[i] \in Node
    BY DEF NodesOK, GraphOK, Kids
  <2>2. Kids(p)' = Kids(p)
    BY DEF Kids
  <2> QED
    BY <2>1, <2>2 DEF Remaining, Built
<1> QED
  BY <1>1 DEF NodesOK, UnmadeCounts

\* A node without unmade children: all are made.
LEMMA NoneUnmade ==
    ASSUME NodesOK, NEW p \in Node, unmade[p] = 0
    PROVE  \A k \in ToSet(Kids(p)) : made[k] \in Built
<1>1. Kids(p) \in Seq(Node)
  BY DEF NodesOK, GraphOK, Kids
<1>2. IsFiniteSet(DOMAIN Kids(p)) /\ Remaining(p) \subseteq DOMAIN Kids(p)
  <2>1. Len(Kids(p)) \in Nat /\ DOMAIN Kids(p) = 1..Len(Kids(p))
    BY <1>1
  <2> QED
    BY <2>1, FS_Interval DEF Remaining
<1>3. IsFiniteSet(Remaining(p))
  BY <1>2, FS_Subset
<1>4. Remaining(p) = {}
  BY <1>3, FS_EmptySet DEF NodesOK, UnmadeCounts
<1> QED
  BY <1>4 DEF Remaining, ToSet

\* The node a make looks at is one of its own, and requested.
LEMMA CandidateFacts ==
    ASSUME NodesOK, NEW m \in Make, Examining(m)
    PROVE  /\ Candidate(m) \in Node /\ MakeOf[Candidate(m)] = m
           /\ made[Candidate(m)] = "requested"
           /\ Lists(Tail(toBeMade[m]), Requested(m) \ {Candidate(m)})
<1>1. Lists(toBeMade[m], Requested(m)) /\ toBeMade[m] # <<>>
  BY DEF NodesOK, QueueLists, Examining
<1>2. /\ Candidate(m) \in Requested(m)
      /\ Lists(Tail(toBeMade[m]), Requested(m) \ {Candidate(m)})
  BY <1>1, ListsTail DEF Candidate
<1> QED
  BY <1>2 DEF Requested

\* What Make_Update does to the states of the nodes: n is made, and some that
\* were deferred are requested.
Updated(n, st) ==
    \A p \in Node : IF p = n THEN made'[p] = st
                    ELSE \/ made'[p] = made[p]
                         \/ made[p] = "deferred" /\ made'[p] = "requested"

\* Make_Update of a node whose children are made.
LEMMA MakeUpdateNodes ==
    ASSUME NodesOK, graph' = graph,
           NEW n \in Node, made[n] \in {"requested", "beingmade"},
           \A k \in ToSet(Kids(n)) : made[k] \in Built,
           NEW q, Lists(q, Requested(MakeOf[n]) \ {n}),
           NEW st \in Built, MakeUpdate(n, [made EXCEPT ![n] = st], q)
    PROVE  NodesOK' /\ Updated(n, st)
<1> DEFINE state == [made EXCEPT ![n] = st]
           held == {s \in Node : n \in graph.order[s] /\ state[s] = "deferred"}
           free == {s \in held : ~Waiting(s, state)}
           left == [p \in Node |-> unmade[p] - Times(n, p)]
           again == {p \in Parents(n) \ free :
                       /\ left[p] = 0 \/ n \in Wait \cup doneOrder
                       /\ state[p] = "deferred" /\ ~Waiting(p, state)}
           m0 == MakeOf[n]
           States == {"unmade", "deferred", "requested", "beingmade"} \cup Built
<1>1. /\ made' = [p \in Node |-> IF p \in free \cup again THEN "requested" ELSE state[p]]
      /\ unmade' = left
      /\ checked' = {p \in checked : MakeOf[p] # MakeOf[n]}
      /\ doneOrder' = doneOrder \cup held
      /\ \E s \in SetToSeqs(free), t \in SetToSeqs(again) :
            toBeMade' = [toBeMade EXCEPT ![m0] = s \o q \o t]
  BY DEF MakeUpdate
<1>2. /\ made \in [Node -> States] /\ GraphOK
  BY DEF NodesOK
<1>3. state \in [Node -> States] /\ state[n] = st /\ \A p \in Node \ {n} : state[p] = made[p]
  BY <1>2
<1>4. \A p \in free \cup again :
         /\ p \in Node /\ p # n /\ made[p] = "deferred" /\ MakeOf[p] = m0
         /\ \A b \in graph.order[p] : state[b] \in Built
  <2>1. ASSUME NEW p \in free
        PROVE  p \in Node /\ state[p] = "deferred" /\ ~Waiting(p, state) /\ MakeOf[p] = m0
    BY <1>2 DEF GraphOK
  <2>2. ASSUME NEW p \in again
        PROVE  p \in Node /\ state[p] = "deferred" /\ ~Waiting(p, state) /\ MakeOf[p] = m0
    BY <1>2 DEF GraphOK, Parents
  <2>3. st # "deferred"
    BY DEF Built
  <2> HIDE DEF state, free, again
  <2> QED
    BY <1>3, <2>1, <2>2, <2>3 DEF Waiting
<1>5. free \cap again = {} /\ free \subseteq Node /\ again \subseteq Node
  BY <1>4
<1>6. IsFiniteSet(free) /\ IsFiniteSet(again)
  <2> HIDE DEF free, again
  <2> QED
    BY <1>5, NodeAssumption, FS_Subset
<1>7. held \subseteq Node
  OBVIOUS
<1> HIDE DEF state, free, again, held
<1>8. PICK s \in SetToSeqs(free), t \in SetToSeqs(again) :
         toBeMade' = [toBeMade EXCEPT ![m0] = s \o q \o t]
  BY <1>1
<1>9. made' \in [Node -> States]
  BY <1>1, <1>3
<1>10. Updated(n, st)
  BY <1>1, <1>3, <1>4 DEF Updated
<1>11. st \in Built /\ "deferred" \notin Built /\ "requested" \notin Built /\ st # "requested"
       /\ "beingmade" \notin Built
  BY DEF Built
<1>12. \A p \in Node : made'[p] \in Built <=> made[p] \in Built \/ p = n
  BY <1>10, <1>11 DEF Updated
<1>13. Requested(m0)' = (free \cup (Requested(m0) \ {n})) \cup again
  <2>1. \A p \in Node : made'[p] = "requested"
                          <=> p \in free \cup again \/ (made[p] = "requested" /\ p # n)
    BY <1>1, <1>3, <1>11
  <2> QED
    BY <1>4, <2>1 DEF Requested
<1>14. QueueLists'
  <2>1. \A m \in Make \ {m0} : Requested(m)' = Requested(m)
    <3>1. \A p \in Node : MakeOf[p] # m0 => made'[p] = made[p]
      BY <1>1, <1>3, <1>4
    <3> QED
      BY <3>1 DEF Requested
  <2>2. Lists(s, free) /\ Lists(t, again)
    BY <1>6, ListsSetToSeqs
  <2>3. free \cap (Requested(m0) \ {n}) = {}
    BY <1>4 DEF Requested
  <2>4. (free \cup (Requested(m0) \ {n})) \cap again = {}
    BY <1>4, <1>5 DEF Requested
  <2>5. Lists(s \o q, free \cup (Requested(m0) \ {n}))
    BY <2>2, <2>3, ListsConcat
  <2>6. Lists((s \o q) \o t, (free \cup (Requested(m0) \ {n})) \cup again)
    BY <2>2, <2>4, <2>5, ListsConcat
  <2>7. m0 \in Make /\ toBeMade \in [Make -> Seq(Node)]
    BY NodeAssumption DEF NodesOK
  <2>8. toBeMade'[m0] = (s \o q) \o t /\ \A m \in Make \ {m0} : toBeMade'[m] = toBeMade[m]
    BY <1>8, <2>7
  <2>9. Lists(toBeMade'[m0], Requested(m0)')
    BY <1>13, <2>6, <2>8
  <2>10. \A m \in Make \ {m0} : Lists(toBeMade'[m], Requested(m)')
    BY <2>1, <2>8 DEF NodesOK, QueueLists
  <2> QED
    BY <2>9, <2>10 DEF QueueLists
<1>15. ASSUME NEW p \in Node
       PROVE  unmade'[p] = Cardinality(Remaining(p)') /\ unmade'[p] \in Nat
  <2> DEFINE D == {i \in DOMAIN Kids(p) : Kids(p)[i] = n}
             R == Remaining(p)'
  <2>1. Kids(p) \in Seq(Node) /\ Kids(p)' = Kids(p)
    BY <1>2 DEF GraphOK, Kids
  <2>2. IsFiniteSet(DOMAIN Kids(p))
    <3>1. Len(Kids(p)) \in Nat /\ DOMAIN Kids(p) = 1..Len(Kids(p))
      BY <2>1
    <3> QED
      BY <3>1, FS_Interval
  <2>3. \A i \in DOMAIN Kids(p) : Kids(p)[i] \in Node
    BY <2>1
  <2>4. R \subseteq DOMAIN Kids(p) /\ D \subseteq DOMAIN Kids(p)
    BY <2>1 DEF Remaining
  <2>5. \A i \in DOMAIN Kids(p) : i \in R <=> made'[Kids(p)[i]] \notin Built
    BY <2>1 DEF Remaining, Built
  <2>6. Remaining(p) = R \cup D /\ R \cap D = {}
    <3>1. made[n] \notin Built
      BY <1>11
    <3> HIDE DEF R
    <3> QED
      BY <1>12, <2>3, <2>4, <2>5, <3>1 DEF Remaining
  <2>7. unmade[p] = Cardinality(Remaining(p)) /\ unmade'[p] = unmade[p] - Cardinality(D)
    BY <1>1 DEF NodesOK, UnmadeCounts, Times
  <2> HIDE DEF D, R
  <2>8. IsFiniteSet(R) /\ IsFiniteSet(D)
    BY <2>2, <2>4, FS_Subset
  <2>9. Cardinality(R \cup D) = Cardinality(R) + Cardinality(D) - Cardinality(R \cap D)
    BY <2>8, FS_Union
  <2>10. Cardinality(R) \in Nat /\ Cardinality(D) \in Nat /\ Cardinality({}) = 0
    BY <2>8, FS_CardinalityType, FS_EmptySet
  <2>11. unmade'[p] = Cardinality(R)
    <3>1. Cardinality(Remaining(p)) = Cardinality(R \cup D) /\ Cardinality(R \cap D) = 0
      BY <2>6, <2>10
    <3> QED
      BY <2>7, <2>9, <2>10, <3>1
  <2>12. R = Remaining(p)'
    BY DEF R
  <2> QED
    BY <2>10, <2>11, <2>12
<1>16. UnmadeCounts' /\ unmade' \in [Node -> Nat]
  <2>1. unmade' = [p \in Node |-> unmade'[p]]
    BY <1>1
  <2> HIDE DEF left
  <2> QED
    BY <1>15, <2>1 DEF UnmadeCounts
<1>17. OrderedBefore'
  <2> SUFFICES ASSUME NEW p \in Node, made'[p] \in Built \cup {"requested", "beingmade"},
                      NEW b \in graph.order[p]
               PROVE  made'[b] \in Built
    BY DEF OrderedBefore, Built
  <2>1. b \in Node
    BY <1>2 DEF GraphOK
  <2>2. CASE p \in free \cup again
    BY <1>3, <1>4, <1>12, <2>1, <2>2
  <2>3. CASE p \notin free \cup again
    <3>1. made[p] \in Built \cup {"requested", "beingmade"}
      BY <1>1, <1>3, <2>3
    <3> QED
      BY <1>12, <2>1, <3>1 DEF NodesOK, OrderedBefore
  <2> QED
    BY <2>2, <2>3
<1>18. ChildrenBefore'
  <2> SUFFICES ASSUME NEW p \in Node, made'[p] \in Built \cup {"beingmade"},
                      NEW k \in ToSet(Kids(p))
               PROVE  made'[k] \in Built
    BY DEF ChildrenBefore, Kids, Built
  <2>1. k \in Node
    BY <1>2 DEF GraphOK, Kids, ToSet
  <2>2. p = n \/ made[p] \in Built \cup {"beingmade"}
    BY <1>10 DEF Updated, Built
  <2> QED
    BY <1>12, <2>1, <2>2 DEF NodesOK, ChildrenBefore
<1>19. GraphOK'
  BY <1>2 DEF GraphOK, Kids, Sub
<1>20. toBeMade' \in [Make -> Seq(Node)]
  <2>1. m0 \in Make /\ toBeMade \in [Make -> Seq(Node)]
    BY NodeAssumption DEF NodesOK
  <2>2. toBeMade'[m0] \in Seq(Requested(m0)')
    <3>1. Lists(toBeMade'[m0], Requested(m0)')
      BY <1>14, <2>1 DEF QueueLists
    <3> QED
      BY <3>1 DEF Lists
  <2>3. Requested(m0)' \subseteq Node
    BY DEF Requested
  <2>4. toBeMade'[m0] \in Seq(Node)
    <3> DEFINE T == Requested(m0)'
               z == toBeMade'[m0]
    <3>1. z \in Seq(T) /\ T \subseteq Node
      BY <2>2, <2>3
    <3> HIDE DEF T, z
    <3>2. z \in Seq(Node)
      BY <3>1
    <3> QED
      BY <3>2 DEF z
  <2> QED
    BY <1>8, <2>1, <2>4
<1>21. checked' \subseteq Node /\ doneOrder' \subseteq Node
  BY <1>1, <1>7 DEF NodesOK
<1> QED
  BY <1>9, <1>10, <1>14, <1>16, <1>17, <1>18, <1>19, <1>20, <1>21 DEF NodesOK, Built

\* Steps of a make that take the first node from its queue and request others,
\* of its own; no node is made.
LEMMA QueueStep ==
    ASSUME NodesOK, graph' = graph, unmade' = unmade, doneOrder' = doneOrder,
           checked' \subseteq Node,
           NEW m \in Make, Examining(m),
           NEW front, front \subseteq {n \in Node : MakeOf[n] = m /\ made[n] # "requested"},
           NEW s, Lists(s, front), toBeMade' = [toBeMade EXCEPT ![m] = s \o Tail(@)],
           made' \in [Node -> {"unmade", "deferred", "requested", "beingmade"} \cup Built],
           \A n \in Node :
              /\ made'[n] = "requested" <=>
                    n \in front \/ (made[n] = "requested" /\ n # Candidate(m))
              /\ made'[n] \in Built <=> made[n] \in Built
              /\ made'[n] = "beingmade" =>
                    \/ made[n] = "beingmade"
                    \/ n = Candidate(m) /\ unmade[n] = 0,
           \A n \in front : \A k \in graph.order[n] : made[k] \in Built
    PROVE  NodesOK'
<1> DEFINE c == Candidate(m)
<1>1. /\ c \in Node /\ MakeOf[c] = m /\ made[c] = "requested"
      /\ Lists(Tail(toBeMade[m]), Requested(m) \ {c})
  BY CandidateFacts
<1> HIDE DEF c
<1>2. GraphOK /\ GraphOK'
  BY DEF NodesOK, GraphOK, Kids, Sub
<1>3. UnmadeCounts'
  BY SameRemaining
<1>4. Requested(m)' = front \cup (Requested(m) \ {c})
  BY DEF Requested, c
<1>5. \A l \in Make \ {m} : Requested(l)' = Requested(l)
  BY <1>1 DEF Requested, c
<1>6. toBeMade \in [Make -> Seq(Node)]
  BY DEF NodesOK
<1>7. toBeMade'[m] = s \o Tail(toBeMade[m]) /\ \A l \in Make \ {m} : toBeMade'[l] = toBeMade[l]
  BY <1>6
<1>8. Lists(s \o Tail(toBeMade[m]), front \cup (Requested(m) \ {c}))
  <2>1. front \cap (Requested(m) \ {c}) = {}
    BY DEF Requested
  <2> QED
    BY <1>1, <2>1, ListsConcat
<1>9. QueueLists'
  <2>1. Lists(toBeMade'[m], Requested(m)')
    BY <1>4, <1>7, <1>8
  <2>2. \A l \in Make \ {m} : Lists(toBeMade'[l], Requested(l)')
    BY <1>5, <1>7 DEF NodesOK, QueueLists
  <2> QED
    BY <2>1, <2>2 DEF QueueLists
<1>10. toBeMade' \in [Make -> Seq(Node)]
  <2> DEFINE T == front \cup (Requested(m) \ {c})
             z == s \o Tail(toBeMade[m])
  <2>1. z \in Seq(T) /\ T \subseteq Node
    BY <1>8 DEF Lists, Requested
  <2> HIDE DEF T, z
  <2>2. z \in Seq(Node)
    BY <2>1
  <2> QED
    BY <1>6, <2>2 DEF z
<1>11. \A n \in Node : \A k \in ToSet(Kids(n)) \cup graph.order[n] : k \in Node
  BY <1>2 DEF GraphOK, Kids, ToSet
<1>12. OrderedBefore'
  <2> SUFFICES ASSUME NEW n \in Node, made'[n] \in Built \cup {"requested", "beingmade"},
                      NEW k \in graph.order[n]
               PROVE  made'[k] \in Built
    BY DEF OrderedBefore, Built
  <2>1. made[n] \in Built \cup {"requested", "beingmade"} => made[k] \in Built
    BY DEF NodesOK, OrderedBefore
  <2>2. n \in front \/ made[n] \in Built \cup {"requested", "beingmade"}
    BY <1>1 DEF c
  <2> QED
    BY <1>11, <2>1, <2>2
<1>13. ChildrenBefore'
  <2> SUFFICES ASSUME NEW n \in Node, made'[n] \in Built \cup {"beingmade"},
                      NEW k \in ToSet(Kids(n))
               PROVE  made'[k] \in Built
    BY DEF ChildrenBefore, Kids, Built
  <2>1. made[n] \in Built \cup {"beingmade"} => made[k] \in Built
    BY DEF NodesOK, ChildrenBefore
  <2>2. unmade[n] = 0 => made[k] \in Built
    BY NoneUnmade
  <2>3. made[n] \in Built \cup {"beingmade"} \/ unmade[n] = 0
    OBVIOUS
  <2> QED
    BY <1>11, <2>1, <2>2, <2>3
<1>14. unmade' \in [Node -> Nat] /\ doneOrder' \subseteq Node
  BY DEF NodesOK
<1> QED
  BY <1>2, <1>3, <1>9, <1>10, <1>12, <1>13, <1>14 DEF NodesOK, Built

\* A step that takes the first node from the queue and makes none.
LEMMA TakeStep ==
    ASSUME NodesOK, graph' = graph, unmade' = unmade, doneOrder' = doneOrder,
           checked' \subseteq Node,
           NEW m \in Make, Examining(m), toBeMade' = [toBeMade EXCEPT ![m] = Tail(@)],
           NEW st \in {"deferred", "beingmade"}, st = "beingmade" => unmade[Candidate(m)] = 0,
           made' = [made EXCEPT ![Candidate(m)] = st]
    PROVE  NodesOK'
<1> DEFINE c == Candidate(m)
<1>1. /\ c \in Node /\ made[c] = "requested"
      /\ Lists(Tail(toBeMade[m]), Requested(m) \ {c})
  BY CandidateFacts
<1>2. made \in [Node -> {"unmade", "deferred", "requested", "beingmade"} \cup Built]
  BY DEF NodesOK
<1>3. "requested" \notin Built /\ st \notin Built /\ st # "requested"
  BY DEF Built
<1> HIDE DEF c
<1>4. made'[c] = st /\ \A n \in Node \ {c} : made'[n] = made[n]
  BY <1>1, <1>2 DEF c
<1>5. made' \in [Node -> {"unmade", "deferred", "requested", "beingmade"} \cup Built]
  BY <1>2 DEF c
<1>6. \A n \in Node :
         /\ made'[n] = "requested" <=> n \in {} \/ (made[n] = "requested" /\ n # Candidate(m))
         /\ made'[n] \in Built <=> made[n] \in Built
         /\ made'[n] = "beingmade" =>
               \/ made[n] = "beingmade"
               \/ n = Candidate(m) /\ unmade[n] = 0
  BY <1>1, <1>3, <1>4 DEF c
<1>7. Lists(<<>>, {})
  BY DEF Lists
<1>8. toBeMade' = [toBeMade EXCEPT ![m] = <<>> \o Tail(@)]
  <2>1. Tail(toBeMade[m]) \in Seq(Requested(m) \ {c})
    BY <1>1 DEF Lists
  <2>2. <<>> \o Tail(toBeMade[m]) = Tail(toBeMade[m])
    BY <2>1
  <2> QED
    BY <2>2
<1> DEFINE front == {}
           s == <<>>
<1>9. /\ front \subseteq {n \in Node : MakeOf[n] = m /\ made[n] # "requested"}
      /\ \A n \in front : \A k \in graph.order[n] : made[k] \in Built
  OBVIOUS
<1>10. /\ Lists(s, front)
       /\ toBeMade' = [toBeMade EXCEPT ![m] = s \o Tail(@)]
       /\ \A n \in Node :
             made'[n] = "requested" <=> n \in front \/ (made[n] = "requested" /\ n # Candidate(m))
  BY <1>6, <1>7, <1>8
<1> HIDE DEF front, s
<1> QED
  BY <1>5, <1>6, <1>9, <1>10, QueueStep

\* The children that are inspected are children.
LEMMA InspectedChildren ==
    ASSUME GraphOK, NEW n \in Node
    PROVE  ToSet(Inspected(n)) \subseteq ToSet(Kids(n))
<1> DEFINE stops == {i \in DOMAIN Kids(n) :
                        /\ Kids(n)[i] \in Wait /\ unmade[Kids(n)[i]] > 0
                        /\ Schedulable(Kids(n)[i], made)}
<1>1. Kids(n) \in Seq(Node)
  BY DEF GraphOK, Kids
<1>2. CASE stops = {}
  BY <1>2 DEF Inspected
<1>3. CASE stops # {}
  <2>1. Inspected(n) = SubSeq(Kids(n), 1, Min(stops))
    BY <1>3 DEF Inspected
  <2>2. stops \subseteq DOMAIN Kids(n)
    OBVIOUS
  <2> HIDE DEF stops
  <2>3. DOMAIN Kids(n) = 1..Len(Kids(n)) /\ Len(Kids(n)) \in Nat
    BY <1>1
  <2>4. \E i \in stops : \A j \in stops : i <= j
    <3>1. stops \subseteq Nat
      BY <2>2, <2>3
    <3> QED
      BY <1>3, <3>1, LeastNatural
  <2>5. Min(stops) \in stops
    BY <2>4 DEF Min
  <2>6. Min(stops) \in 1..Len(Kids(n))
    BY <2>2, <2>3, <2>5
  <2>7. /\ 1 \in 1..Len(Kids(n)) /\ Min(stops) \in 0..Len(Kids(n))
    BY <2>3, <2>6
  <2>8. \A j \in DOMAIN Inspected(n) : \E k \in DOMAIN Kids(n) : Inspected(n)[j] = Kids(n)[k]
    BY <1>1, <2>1, <2>7, PartOfSeq
  <2> QED
    BY <2>8 DEF ToSet
<1> QED
  BY <1>2, <1>3

\* The children of a node that is put back.
LEMMA ScheduleChildrenNodes ==
    ASSUME NodesOK, NEW m \in Make, ScheduleChildren(m)
    PROVE  /\ NodesOK'
           /\ \A n \in Node : made'[n] = made[n] \/ made[n] \notin Built \cup {"beingmade"}
           /\ \A n \in Node : made[n] = "beingmade" => made'[n] = "beingmade"
<1> DEFINE c == Candidate(m)
           line == ToSet(Inspected(c))
           front == {n \in line : Schedulable(n, made)}
           late == {n \in line : made[n] = "unmade" /\ Waiting(n, made)}
<1>1. /\ Examining(m)
      /\ made' = [n \in Node |-> IF n \in front THEN "requested"
                                 ELSE IF n \in late \cup {c} THEN "deferred" ELSE made[n]]
      /\ \E s \in SetToSeqs(front) : toBeMade' = [toBeMade EXCEPT ![m] = s \o Tail(@)]
      /\ checked' = checked \cup {c}
      /\ graph' = graph /\ unmade' = unmade /\ doneOrder' = doneOrder
  BY DEF ScheduleChildren
<1>2. c \in Node /\ MakeOf[c] = m /\ made[c] = "requested"
  BY <1>1, CandidateFacts
<1>3. \A n \in line : n \in Node /\ MakeOf[n] = m
  <2>1. GraphOK
    BY DEF NodesOK
  <2>2. line \subseteq ToSet(Kids(c))
    BY <1>2, <2>1, InspectedChildren
  <2>3. \A n \in ToSet(Kids(c)) : n \in Node
    BY <1>2, <2>1 DEF GraphOK, Kids, ToSet
  <2> HIDE DEF line, c
  <2> QED
    BY <1>2, <2>1, <2>2, <2>3 DEF GraphOK
<1>4. made \in [Node -> {"unmade", "deferred", "requested", "beingmade"} \cup Built]
  BY DEF NodesOK
<1>5. \A n \in front : /\ n \in Node /\ MakeOf[n] = m /\ made[n] \in {"unmade", "deferred"}
                       /\ ~Waiting(n, made)
  BY <1>3 DEF Schedulable
<1>6. \A n \in late : n \in Node /\ made[n] = "unmade" /\ n \notin front
  BY <1>3 DEF Schedulable
<1> HIDE DEF front, late, line, c
<1>7. /\ "requested" \notin Built /\ "deferred" \notin Built /\ "beingmade" \notin Built
      /\ "unmade" \notin Built
  BY DEF Built
<1>8. made' \in [Node -> {"unmade", "deferred", "requested", "beingmade"} \cup Built]
  BY <1>1, <1>4
<1>9. \A n \in Node :
         /\ made'[n] = "requested" <=> n \in front \/ (made[n] = "requested" /\ n # c)
         /\ made'[n] \in Built <=> made[n] \in Built
         /\ made'[n] = "beingmade" => made[n] = "beingmade"
  BY <1>1, <1>2, <1>5, <1>6, <1>7
<1>10. PICK s \in SetToSeqs(front) : toBeMade' = [toBeMade EXCEPT ![m] = s \o Tail(@)]
  BY <1>1
<1>11. Lists(s, front)
  <2>1. front \subseteq Node
    BY <1>5
  <2>2. IsFiniteSet(front)
    BY <2>1, NodeAssumption, FS_Subset
  <2> QED
    BY <2>2, ListsSetToSeqs
<1>12. front \subseteq {n \in Node : MakeOf[n] = m /\ made[n] # "requested"}
  BY <1>5
<1>13. \A n \in front : \A k \in graph.order[n] : made[k] \in Built
  BY <1>5 DEF Waiting
<1>14. checked' \subseteq Node
  BY <1>1, <1>2 DEF NodesOK
<1>15. \A n \in Node :
         /\ made'[n] = "requested"
              <=> n \in front \/ (made[n] = "requested" /\ n # Candidate(m))
         /\ made'[n] \in Built <=> made[n] \in Built
         /\ made'[n] = "beingmade" =>
               \/ made[n] = "beingmade"
               \/ n = Candidate(m) /\ unmade[n] = 0
  BY <1>9 DEF c
<1>16. NodesOK'
  BY <1>1, <1>8, <1>10, <1>11, <1>12, <1>13, <1>14, <1>15, QueueStep
<1>17. \A n \in Node : made'[n] = made[n] \/ made[n] \notin Built \cup {"beingmade"}
  BY <1>1, <1>2, <1>5, <1>6, <1>7
<1>18. \A n \in Node : made[n] = "beingmade" => made'[n] = "beingmade"
  BY <1>17
<1> QED
  BY <1>16, <1>17, <1>18

-----------------------------------------------------------------------------
(* Makes and jobs.                                                         *)

\* A finite set with an element more or less.
LEMMA OneMore ==
    ASSUME NEW S, IsFiniteSet(S), NEW x, x \notin S
    PROVE  Cardinality(S \cup {x}) = Cardinality(S) + 1 /\ Cardinality(S) \in Nat
BY FS_AddElement, FS_CardinalityType

\* A set is smaller by one without an element.
LEMMA OneLess ==
    ASSUME NEW S, IsFiniteSet(S), NEW x \in S
    PROVE  /\ Cardinality(S \ {x}) = Cardinality(S) - 1
           /\ Cardinality(S) \in Nat \ {0}
<1>1. Cardinality(S \ {x}) = Cardinality(S) - 1
  BY FS_RemoveElement
<1>2. Cardinality(S) \in Nat /\ Cardinality(S \ {x}) \in Nat
  BY FS_CardinalityType, FS_RemoveElement
<1> QED
  BY <1>1, <1>2

\* A byte is read from the pipe.
LEMMA BytesRead ==
    ASSUME NEW s \in Seq({"+", "stop"}), s # <<>>
    PROVE  /\ Tail(s) \in Seq({"+", "stop"}) /\ Head(s) \in {"+", "stop"}
           /\ Cardinality(Bytes(s)) \in Nat /\ Cardinality(Bytes(Tail(s))) \in Nat
           /\ Cardinality(Bytes(Tail(s)))
                = Cardinality(Bytes(s)) - (IF Head(s) = "+" THEN 1 ELSE 0)
<1> DEFINE t == Tail(s)
           T == {i - 1 : i \in Bytes(s) \ {1}}
<1>1. /\ Len(s) \in Nat \ {0} /\ DOMAIN s = 1..Len(s) /\ Head(s) = s[1]
      /\ Head(s) \in {"+", "stop"}
      /\ t \in Seq({"+", "stop"}) /\ DOMAIN t = 1..(Len(s) - 1)
      /\ \A i \in DOMAIN t : t[i] = s[i + 1]
  OBVIOUS
<1>2. IsFiniteSet(Bytes(s)) /\ IsFiniteSet(Bytes(s) \ {1})
  <2>1. IsFiniteSet(1..Len(s))
    BY <1>1, FS_Interval
  <2>2. Bytes(s) \subseteq 1..Len(s) /\ (Bytes(s) \ {1}) \subseteq 1..Len(s)
    BY <1>1 DEF Bytes
  <2> QED
    BY <2>1, <2>2, FS_Subset
<1>3. Bytes(t) = T
  <2>1. ASSUME NEW i \in Bytes(t) PROVE i \in T
    <3>1. i \in 1..(Len(s) - 1) /\ s[i + 1] = "+"
      BY <1>1, <2>1 DEF Bytes
    <3>2. i + 1 \in Bytes(s) \ {1} /\ (i + 1) - 1 = i
      BY <1>1, <3>1 DEF Bytes
    <3> QED
      BY <3>2
  <2>2. ASSUME NEW i \in Bytes(s) \ {1} PROVE i - 1 \in Bytes(t)
    <3>1. i \in 2..Len(s) /\ s[i] = "+"
      BY <1>1, <2>2 DEF Bytes
    <3>2. i - 1 \in DOMAIN t /\ (i - 1) + 1 = i
      BY <1>1, <3>1
    <3>3. t[i - 1] = s[(i - 1) + 1]
      BY <1>1, <3>2
    <3> QED
      BY <3>1, <3>2, <3>3 DEF Bytes
  <2> QED
    BY <2>1, <2>2
<1>4. Cardinality(Bytes(t)) = Cardinality(Bytes(s) \ {1})
  <2> DEFINE U == Bytes(s) \ {1}
             f == [i \in U |-> i - 1]
  <2>1. \A i \in U : i \in Nat
    BY <1>1 DEF Bytes
  <2>2. f \in [U -> T] /\ (\A e \in T : \E i \in U : f[i] = e)
    OBVIOUS
  <2>3. \A i, j \in U : f[i] = f[j] => i = j
    BY <2>1
  <2> HIDE DEF U, f, T
  <2>4. f \in Bijection(U, T)
    BY <2>2, <2>3 DEF Bijection, Injection, Surjection, IsInjective
  <2>5. IsFiniteSet(U)
    BY <1>2 DEF U
  <2>6. Cardinality(T) = Cardinality(U)
    BY <2>4, <2>5, FS_Bijection DEF ExistsBijection
  <2> QED
    BY <1>3, <2>6 DEF U
<1>5. Cardinality(Bytes(s) \ {1}) = Cardinality(Bytes(s)) - (IF Head(s) = "+" THEN 1 ELSE 0)
  <2>1. 1 \in Bytes(s) <=> Head(s) = "+"
    BY <1>1 DEF Bytes
  <2>2. CASE Head(s) = "+"
    BY <1>2, <2>1, <2>2, OneLess
  <2>3. CASE Head(s) # "+"
    <3>1. Bytes(s) \ {1} = Bytes(s) /\ Cardinality(Bytes(s)) \in Nat
      BY <1>2, <2>1, <2>3, FS_CardinalityType
    <3>2. Cardinality(Bytes(s) \ {1}) = Cardinality(Bytes(s))
      BY <3>1
    <3> QED
      BY <2>3, <3>1, <3>2
  <2> QED
    BY <2>2, <2>3
<1>6. Cardinality(Bytes(s)) \in Nat /\ Cardinality(Bytes(s) \ {1}) \in Nat
  BY <1>2, FS_CardinalityType
<1> QED
  BY <1>1, <1>4, <1>5, <1>6

\* A byte is written to it.
LEMMA BytesWritten ==
    ASSUME NEW s \in Seq({"+", "stop"}), NEW b \in {"+", "stop"}
    PROVE  /\ Append(s, b) \in Seq({"+", "stop"})
           /\ Cardinality(Bytes(s)) \in Nat
           /\ Cardinality(Bytes(Append(s, b)))
                = Cardinality(Bytes(s)) + (IF b = "+" THEN 1 ELSE 0)
<1> DEFINE t == Append(s, b)
           k == Len(s) + 1
<1>1. /\ Len(s) \in Nat /\ DOMAIN s = 1..Len(s)
      /\ t \in Seq({"+", "stop"}) /\ DOMAIN t = 1..k
      /\ \A i \in DOMAIN s : t[i] = s[i]
      /\ t[k] = b
  OBVIOUS
<1> HIDE DEF t
<1>2. IsFiniteSet(Bytes(s)) /\ k \notin Bytes(s)
  <2>1. IsFiniteSet(1..Len(s))
    BY <1>1, FS_Interval
  <2>2. Bytes(s) \subseteq 1..Len(s)
    BY <1>1 DEF Bytes
  <2>3. k \notin 1..Len(s)
    BY <1>1
  <2> QED
    BY <2>1, <2>2, <2>3, FS_Subset
<1>3. 1..k = (1..Len(s)) \cup {k}
  BY <1>1
<1>4. Bytes(t) = IF b = "+" THEN Bytes(s) \cup {k} ELSE Bytes(s)
  <2>1. \A i \in 1..Len(s) : i \in Bytes(t) <=> i \in Bytes(s)
    BY <1>1, <1>3 DEF Bytes
  <2>2. k \in Bytes(t) <=> b = "+"
    BY <1>1, <1>3 DEF Bytes
  <2>3. Bytes(t) \subseteq (1..Len(s)) \cup {k} /\ Bytes(s) \subseteq 1..Len(s)
    BY <1>1, <1>3 DEF Bytes
  <2> HIDE DEF k
  <2>4. CASE b = "+"
    <3>1. Bytes(t) = Bytes(s) \cup {k}
      BY <2>1, <2>2, <2>3, <2>4
    <3> QED
      BY <2>4, <3>1
  <2>5. CASE b # "+"
    <3>1. Bytes(t) = Bytes(s)
      BY <2>1, <2>2, <2>3, <2>5
    <3> QED
      BY <2>5, <3>1
  <2> QED
    BY <2>4, <2>5
<1>5. Cardinality(Bytes(s)) \in Nat /\ Cardinality(Bytes(s) \cup {k}) = Cardinality(Bytes(s)) + 1
  BY <1>2, OneMore
<1> QED
  BY <1>1, <1>4, <1>5 DEF t

\* Steps in which no make is started and none ends, and those in which nodes
\* that are being made or made stay so.
SameLife == \A k \in Make : (Live(k)' <=> Live(k)) /\ (pc[k] = "off" => pc'[k] = "off")
MadeKept ==
    \A n \in Node : made[n] \in Built \cup {"beingmade"} => made'[n] \in Built \cup {"beingmade"}

\* Jobs that end or are reaped.
LEMMA JobsFrame ==
    ASSUME NodesOK, ProcessesOK, graph' = graph, SameLife, MadeKept,
           \A n \in Node :
              /\ job'[n] # "none" => job[n] # "none" /\ made'[n] = "beingmade"
              /\ job'[n] = "running" => job[n] = "running"
              /\ Sub(n) # NoMake /\ job[n] = "running" => job'[n] = "running"
    PROVE  (JobsBeingMade /\ SubsOff /\ SubsLive /\ SubsRunning)'
<1>1. \A n \in Node : Sub(n) # NoMake => Sub(n) \in Make
  BY DEF NodesOK, GraphOK, Sub
<1>2. \A n \in Node : Sub(n)' = Sub(n)
  BY DEF Sub
<1>3. \A k \in Make : (Live(k)' <=> Live(k)) /\ (pc[k] = "off" => pc'[k] = "off")
  BY DEF SameLife
<1>4. JobsBeingMade /\ SubsOff /\ SubsLive /\ SubsRunning
  BY DEF ProcessesOK
<1>5. JobsBeingMade'
  BY DEF JobsBeingMade
<1>6. SubsOff'
  <2> SUFFICES ASSUME NEW n \in Node, Sub(n) # NoMake, made'[n] \notin Built \cup {"beingmade"}
               PROVE  pc'[Sub(n)] = "off"
    BY DEF SubsOff, Sub, Built
  <2>1. made[n] \notin Built \cup {"beingmade"}
    BY DEF MadeKept
  <2> QED
    BY <1>1, <1>3, <1>4, <2>1 DEF SubsOff
<1>7. SubsLive'
  <2> SUFFICES ASSUME NEW n \in Node, job'[n] = "running", Sub(n) # NoMake
               PROVE  Live(Sub(n))'
    BY DEF SubsLive, Sub
  <2>1. Live(Sub(n)) /\ Sub(n) \in Make
    BY <1>1, <1>4 DEF SubsLive
  <2> QED
    BY <1>2, <1>3, <2>1 DEF Live, Ended
<1>8. SubsRunning'
  <2> SUFFICES ASSUME NEW k \in Make \ {Root}, Live(k)'
               PROVE  \E n \in Node : Sub(n) = k /\ job'[n] = "running"
    BY <1>2 DEF SubsRunning
  <2>1. PICK n \in Node : Sub(n) = k /\ job[n] = "running"
    BY <1>3, <1>4 DEF SubsRunning
  <2>2. Sub(n) # NoMake
    BY <2>1, MakeAssumption
  <2> QED
    BY <2>1, <2>2
<1> QED
  BY <1>5, <1>6, <1>7, <1>8

\* Steps that change what one make counts.
LEMMA CountsFrame ==
    ASSUME ProcessesOK, NEW m \in Make,
           \A k \in Make \ {m} : /\ Jobs(k)' = Jobs(k)
                                 /\ running'[k] = running[k] /\ pc'[k] = pc[k],
           pc'[m] # "dead" =>
              running'[m] = Cardinality(Jobs(m)') + (IF pc'[m] = "token" THEN 1 ELSE 0),
           pc'[m] \in {"off", "spare", "made", "failed", "unbuilt"} => running'[m] = 0
    PROVE  (RunningCounts /\ NoneRunning)'
<1>1. RunningCounts /\ NoneRunning
  BY DEF ProcessesOK
<1>2. RunningCounts'
  <2>1. ASSUME NEW k \in Make, pc'[k] # "dead"
        PROVE  running'[k] = Cardinality(Jobs(k)') + (IF pc'[k] = "token" THEN 1 ELSE 0)
    <3>1. CASE k = m
      BY <2>1, <3>1
    <3>2. CASE k # m
      <4>1. Jobs(k)' = Jobs(k) /\ running'[k] = running[k] /\ pc'[k] = pc[k]
        BY <3>2
      <4>2. running[k] = Cardinality(Jobs(k)) + (IF pc[k] = "token" THEN 1 ELSE 0)
        BY <1>1, <2>1, <4>1 DEF RunningCounts
      <4> QED
        BY <4>1, <4>2
    <3> QED
      BY <3>1, <3>2
  <2> QED
    BY <2>1 DEF RunningCounts
<1>3. NoneRunning'
  BY <1>1 DEF NoneRunning
<1> QED
  BY <1>2, <1>3

\* Subsets of Make and Node are finite.
LEMMA SubsetsFinite ==
    ASSUME NEW S
    PROVE  S \subseteq Make \/ S \subseteq Node => IsFiniteSet(S) /\ Cardinality(S) \in Nat
<1>1. S \subseteq Make => IsFiniteSet(S)
  BY MakeAssumption, FS_Subset
<1>2. S \subseteq Node => IsFiniteSet(S)
  BY NodeAssumption, FS_Subset
<1> QED
  BY <1>1, <1>2, FS_CardinalityType

\* One element enters or leaves a set of makes, or stays where it is.
LEMMA OneMoves ==
    ASSUME NEW S, NEW T, NEW m \in Make, S \subseteq Make, T \subseteq Make,
           \A k \in Make \ {m} : k \in S <=> k \in T
    PROVE  /\ Cardinality(S) \in Nat /\ Cardinality(T) \in Nat
           /\ Cardinality(T)
                = Cardinality(S) - (IF m \in S THEN 1 ELSE 0) + (IF m \in T THEN 1 ELSE 0)
<1> DEFINE U == S \ {m}
<1>1. IsFiniteSet(U) /\ Cardinality(U) \in Nat
  BY SubsetsFinite
<1>2. m \notin U
  OBVIOUS
<1>3. Cardinality(U \cup {m}) = Cardinality(U) + 1
  <2> HIDE DEF U
  <2> QED
    BY <1>1, <1>2, OneMore
<1>4. S = (IF m \in S THEN U \cup {m} ELSE U)
  OBVIOUS
<1>5. T = (IF m \in T THEN U \cup {m} ELSE U)
  OBVIOUS
<1> HIDE DEF U
<1>6. Cardinality(S) = Cardinality(U) + (IF m \in S THEN 1 ELSE 0)
  <2>1. CASE m \in S
    BY <1>1, <1>3, <1>4, <2>1
  <2>2. CASE m \notin S
    BY <1>1, <1>4, <2>2
  <2> QED
    BY <2>1, <2>2
<1>7. Cardinality(T) = Cardinality(U) + (IF m \in T THEN 1 ELSE 0)
  <2>1. CASE m \in T
    BY <1>1, <1>3, <1>5, <2>1
  <2>2. CASE m \notin T
    BY <1>1, <1>5, <2>2
  <2> QED
    BY <2>1, <2>2
<1> QED
  BY <1>1, <1>6, <1>7

\* The slots a make has by itself, at l and with r jobs and tokens.
Held(l, r) ==
    (IF l = "token" THEN 1 ELSE 0) + (IF l = "spare" THEN 1 ELSE 0)
      + (IF l \notin Ended \cup {"off"} /\ r = 0 THEN 1 ELSE 0)

\* If m is the only make that moves, nobody else has other slots.
LEMMA HeldChange ==
    ASSUME ProcessTypes, ProcessTypes', NEW m \in Make,
           \A k \in Make \ {m} : pc'[k] = pc[k] /\ running'[k] = running[k]
    PROVE  /\ HeldByAll \in Nat /\ HeldByAll' \in Nat
           /\ HeldByAll' = HeldByAll - Held(pc[m], running[m]) + Held(pc'[m], running'[m])
<1>1. \A k \in Make \ {m} : pc'[k] = pc[k] /\ running'[k] = running[k]
  OBVIOUS
<1>2. \A k \in Make \ {m} : Live(k)' <=> Live(k)
  BY <1>1 DEF Live, Ended
<1>3. WithToken \subseteq Make /\ WithSpare \subseteq Make /\ Idle \subseteq Make
  BY DEF WithToken, WithSpare, Idle
<1> DEFINE T == WithToken'
           S == WithSpare'
           I == Idle'
<1>4. T \subseteq Make /\ S \subseteq Make /\ I \subseteq Make
  BY DEF WithToken, WithSpare, Idle
<1>5. /\ \A k \in Make : k \in WithToken <=> pc[k] = "token"
      /\ \A k \in Make : k \in WithSpare <=> pc[k] = "spare"
      /\ \A k \in Make : k \in Idle <=> Live(k) /\ running[k] = 0
  BY DEF WithToken, WithSpare, Idle
<1>6. /\ \A k \in Make : k \in T <=> pc'[k] = "token"
      /\ \A k \in Make : k \in S <=> pc'[k] = "spare"
      /\ \A k \in Make : k \in I <=> Live(k)' /\ running'[k] = 0
  BY DEF WithToken, WithSpare, Idle
<1> HIDE DEF T, S, I
<1>7. /\ Cardinality(WithToken) \in Nat /\ Cardinality(T) \in Nat
      /\ Cardinality(T) = Cardinality(WithToken)
           - (IF m \in WithToken THEN 1 ELSE 0) + (IF m \in T THEN 1 ELSE 0)
  <2>1. \A k \in Make \ {m} : k \in WithToken <=> k \in T
    BY <1>1, <1>2, <1>5, <1>6
  <2> QED
    BY <1>3, <1>4, <2>1, OneMoves
<1>8. /\ Cardinality(WithSpare) \in Nat /\ Cardinality(S) \in Nat
      /\ Cardinality(S) = Cardinality(WithSpare)
           - (IF m \in WithSpare THEN 1 ELSE 0) + (IF m \in S THEN 1 ELSE 0)
  <2>1. \A k \in Make \ {m} : k \in WithSpare <=> k \in S
    BY <1>1, <1>2, <1>5, <1>6
  <2> QED
    BY <1>3, <1>4, <2>1, OneMoves
<1>9. /\ Cardinality(Idle) \in Nat /\ Cardinality(I) \in Nat
      /\ Cardinality(I) = Cardinality(Idle)
           - (IF m \in Idle THEN 1 ELSE 0) + (IF m \in I THEN 1 ELSE 0)
  <2>1. \A k \in Make \ {m} : k \in Idle <=> k \in I
    BY <1>1, <1>2, <1>5, <1>6
  <2> QED
    BY <1>3, <1>4, <2>1, OneMoves
<1>10. HeldByAll' = Cardinality(T) + Cardinality(S) + Cardinality(I)
  BY DEF HeldByAll, T, S, I
<1>11. HeldByAll = Cardinality(WithToken) + Cardinality(WithSpare) + Cardinality(Idle)
  BY DEF HeldByAll
<1>12. /\ m \in WithToken <=> pc[m] = "token"
       /\ m \in WithSpare <=> pc[m] = "spare"
       /\ m \in Idle <=> pc[m] \notin Ended \cup {"off"} /\ running[m] = 0
       /\ m \in T <=> pc'[m] = "token"
       /\ m \in S <=> pc'[m] = "spare"
       /\ m \in I <=> pc'[m] \notin Ended \cup {"off"} /\ running'[m] = 0
  BY <1>5, <1>6 DEF Live, Ended
<1>13. HeldByAll' = HeldByAll - Held(pc[m], running[m]) + Held(pc'[m], running'[m])
  <2> DEFINE c(S0) == IF m \in S0 THEN 1 ELSE 0
             t0 == c(WithToken)
             s0 == c(WithSpare)
             i0 == c(Idle)
             t1 == c(T)
             s1 == c(S)
             i1 == c(I)
  <2>1. Held(pc[m], running[m]) = t0 + s0 + i0 /\ Held(pc'[m], running'[m]) = t1 + s1 + i1
    BY <1>12 DEF Held
  <2>2. t0 \in Nat /\ s0 \in Nat /\ i0 \in Nat /\ t1 \in Nat /\ s1 \in Nat /\ i1 \in Nat
    OBVIOUS
  <2>3. /\ Cardinality(T) = Cardinality(WithToken) - t0 + t1
        /\ Cardinality(S) = Cardinality(WithSpare) - s0 + s1
        /\ Cardinality(I) = Cardinality(Idle) - i0 + i1
    BY <1>7, <1>8, <1>9
  <2> HIDE DEF t0, s0, i0, t1, s1, i1
  <2> QED
    BY <1>7, <1>8, <1>9, <1>10, <1>11, <2>1, <2>2, <2>3
<1>14. HeldByAll \in Nat /\ HeldByAll' \in Nat
  BY <1>7, <1>8, <1>9, <1>10, <1>11
<1> QED
  BY <1>13, <1>14

\* Only m moves, and neither starts, ends nor is ended.
OnlyMoves(m) ==
    /\ \A k \in Make \ {m} : pc'[k] = pc[k] /\ running'[k] = running[k]
    /\ Live(m) /\ Live(m)'

\* Such a step changes only what m has of the slots.
LEMMA HeldStep ==
    ASSUME ProcessTypes, ProcessTypes', NEW m \in Make, OnlyMoves(m)
    PROVE  /\ SameLife /\ HeldByAll \in Nat /\ HeldByAll' \in Nat
           /\ HeldByAll' = HeldByAll - Held(pc[m], running[m]) + Held(pc'[m], running'[m])
<1>1. \A k \in Make \ {m} : pc'[k] = pc[k] /\ running'[k] = running[k]
  BY DEF OnlyMoves
<1>2. pc[m] # "off" /\ Live(m) /\ Live(m)'
  BY DEF Live, OnlyMoves
<1>3. SameLife
  BY <1>1, <1>2 DEF SameLife, Live, Ended
<1> QED
  BY <1>1, <1>3, HeldChange

\* The sum of the slots before and after a step, from its parts.
LEMMA SlotsSum ==
    ASSUME NEW b \in Nat, NEW w \in Nat, NEW h \in Nat, NEW b1 \in Nat, NEW w1 \in Nat,
           NEW x \in Nat, NEW y \in Nat, NEW h1 \in Nat, h1 = h - x + y
    PROVE  /\ b + w + h \in Nat
           /\ b1 + w1 + h1 = b + w + h + (b1 - b) + (w1 - w) + (y - x)
OBVIOUS

\* How a step of m changes the slots.
Change(m) == (Cardinality(Bytes(pool')) - Cardinality(Bytes(pool)))
               + (Cardinality(Work') - Cardinality(Work))
               + (Held(pc'[m], running'[m]) - Held(pc[m], running[m]))

\* If m is the only make that moves.
LEMMA MoveSlots ==
    ASSUME ProcessTypes, ProcessTypes', NEW m \in Make,
           \A k \in Make \ {m} : pc'[k] = pc[k] /\ running'[k] = running[k]
    PROVE  /\ Slots \in Nat /\ Slots' = Slots + Change(m)
           /\ Cardinality(Bytes(pool)) \in Nat /\ Cardinality(Bytes(pool')) \in Nat
           /\ Cardinality(Work) \in Nat /\ Cardinality(Work') \in Nat
<1> DEFINE b == Cardinality(Bytes(pool))
           b1 == Cardinality(Bytes(pool'))
           w == Cardinality(Work)
           w1 == Cardinality(Work')
           x == Held(pc[m], running[m])
           y == Held(pc'[m], running'[m])
           h == HeldByAll
           h1 == HeldByAll'
<1>1. h \in Nat /\ h1 \in Nat /\ h1 = h - x + y
  BY HeldChange
<1>2. b \in Nat /\ b1 \in Nat
  BY BytesWritten DEF ProcessTypes
<1>3. w \in Nat /\ w1 \in Nat
  <2>1. Work \subseteq Node /\ Work' \subseteq Node
    BY DEF Work, Unreaped
  <2> QED
    BY <2>1, SubsetsFinite
<1>4. x \in Nat /\ y \in Nat
  BY DEF Held
<1>5. Slots = b + w + h /\ Slots' = b1 + w1 + h1
  BY DEF Slots, Bytes
<1>6. Change(m) = (b1 - b) + (w1 - w) + (y - x)
  BY DEF Change
<1> HIDE DEF b, b1, w, w1, x, y, h, h1
<1>7. b + w + h \in Nat /\ b1 + w1 + h1 = b + w + h + (b1 - b) + (w1 - w) + (y - x)
  BY <1>1, <1>2, <1>3, <1>4, SlotsSum
<1>8. b + w + h + (b1 - b) + (w1 - w) + (y - x) = b + w + h + ((b1 - b) + (w1 - w) + (y - x))
  BY <1>1, <1>2, <1>3, <1>4
<1>9. Slots \in Nat /\ Slots' = Slots + Change(m)
  BY <1>5, <1>6, <1>7, <1>8
<1> QED
  BY <1>1, <1>2, <1>3, <1>9 DEF b, b1, w, w1

\* A step of a make that starts and reaps no job: it may take a token for the
\* next one, or return it.
LEMMA MoveStep ==
    ASSUME NodesOK, ProcessesOK, ProcessTypes', NEW m \in Make, OnlyMoves(m),
           running'[m] - (IF pc'[m] = "token" THEN 1 ELSE 0)
             = running[m] - (IF pc[m] = "token" THEN 1 ELSE 0),
           pc'[m] = "spare" => running'[m] = 0,
           graph' = graph, job' = job, MadeKept,
           \A n \in Node : made[n] = "beingmade" => made'[n] = "beingmade"
    PROVE  /\ ProcessesOK'
           /\ Cardinality(Bytes(pool)) \in Nat /\ Cardinality(Bytes(pool')) \in Nat
           /\ Change(m) = (Cardinality(Bytes(pool')) - Cardinality(Bytes(pool)))
                            + (Held(pc'[m], running'[m]) - Held(pc[m], running[m]))
<1>1. pc \in [Make -> Locations] /\ running \in [Make -> 0..MaxJobs] /\ MaxJobs \in Nat
  BY BoundsAssumption DEF ProcessesOK, ProcessTypes
<1>2. SameLife /\ pc[m] # "dead" /\ pc'[m] \notin {"off", "made", "failed", "unbuilt"}
  BY HeldStep DEF ProcessesOK, OnlyMoves, Live, Ended
<1>3. (JobsBeingMade /\ SubsOff /\ SubsLive /\ SubsRunning)'
  <2>1. \A n \in Node : job[n] # "none" => made'[n] = "beingmade"
    BY DEF ProcessesOK, JobsBeingMade
  <2> QED
    BY <1>2, <2>1, JobsFrame
<1>4. \A k \in Make : Jobs(k)' = Jobs(k)
  BY DEF Jobs
<1>5. running'[m] = Cardinality(Jobs(m)') + (IF pc'[m] = "token" THEN 1 ELSE 0)
  <2>1. running[m] = Cardinality(Jobs(m)) + (IF pc[m] = "token" THEN 1 ELSE 0)
    BY <1>2 DEF ProcessesOK, RunningCounts
  <2>2. Cardinality(Jobs(m)) \in Nat /\ Cardinality(Jobs(m)') = Cardinality(Jobs(m))
    <3>1. Jobs(m) \subseteq Node
      BY DEF Jobs
    <3> QED
      BY <1>4, <3>1, SubsetsFinite
  <2>3. running'[m] \in Nat
    BY <1>1 DEF ProcessTypes
  <2> QED
    BY <1>1, <2>1, <2>2, <2>3
<1>6. (RunningCounts /\ NoneRunning)'
  BY <1>2, <1>4, <1>5, CountsFrame DEF OnlyMoves
<1>7. Work' = Work
  <2>1. \A n \in Node : Live(MakeOf[n])' <=> Live(MakeOf[n])
    BY <1>2, NodeAssumption DEF SameLife, Live
  <2> QED
    BY <2>1 DEF Work, Unreaped, Sub
<1>8. /\ Cardinality(Bytes(pool)) \in Nat /\ Cardinality(Bytes(pool')) \in Nat
      /\ Cardinality(Work) \in Nat /\ Cardinality(Work') = Cardinality(Work)
  BY <1>7, MoveSlots DEF ProcessesOK, OnlyMoves
<1>9. Change(m) = (Cardinality(Bytes(pool')) - Cardinality(Bytes(pool)))
                    + (Held(pc'[m], running'[m]) - Held(pc[m], running[m]))
  BY <1>8 DEF Change, Held, Ended
<1>10. ProcessesOK'
  BY <1>3, <1>6 DEF ProcessesOK
<1> QED
  BY <1>8, <1>9, <1>10

\* What a step leaves of the slots: it makes none, and it loses none but the
\* one of the first make, unless there is a stopper or a make has died.
Kept ==
    /\ Slots \in Nat /\ Slots' \in Int /\ Slots' <= Slots
    /\ ~Stopped' /\ ~Died' => Slots' = Slots - (IF Live(Root) /\ ~Live(Root)' THEN 1 ELSE 0)
    /\ Live(Root)' => Live(Root)

\* It is enough to count those of the make that moves.
LEMMA KeptMoves ==
    ASSUME ProcessTypes, ProcessTypes', NEW m \in Make, OnlyMoves(m),
           Change(m) \in Int, Change(m) <= 0, Change(m) = 0 \/ pc'[m] \in {"drain", "stop"}
    PROVE  Kept
<1>1. SameLife /\ Slots \in Nat /\ Slots' = Slots + Change(m)
  BY HeldStep, MoveSlots DEF OnlyMoves
<1>2. Live(Root)' <=> Live(Root)
  <2>1. Root \in Make
    BY MakeAssumption
  <2> QED
    BY <1>1, <2>1 DEF SameLife, Live
<1>3. pc'[m] \in {"drain", "stop"} => Stopped'
  BY DEF Stopped
<1>4. Slots' \in Int /\ Slots' <= Slots /\ (~Stopped' => Slots' = Slots)
  BY <1>1, <1>3
<1> QED
  BY <1>1, <1>2, <1>4 DEF Kept

-----------------------------------------------------------------------------
(* The steps, one by one: makes, jobs and slots.                           *)

\* Job_TokenWithdraw.
LEMMA TokenWithdrawKept ==
    ASSUME NodesOK, ProcessesOK, NEW m \in Make, TokenWithdraw(m)
    PROVE  ProcessesOK' /\ Kept
<1> DEFINE B == Cardinality(Bytes(pool))
           C == Cardinality(Bytes(pool'))
<1>1. /\ pc \in [Make -> Locations] /\ running \in [Make -> 0..MaxJobs] /\ MaxJobs \in Nat
      /\ pool \in Seq({"+", "stop"})
  BY BoundsAssumption DEF ProcessesOK, ProcessTypes
<1>2. /\ pc[m] = "start" /\ running[m] < MaxJobs /\ running[m] \in Nat
      /\ graph' = graph /\ job' = job /\ made' = made /\ aborting' = aborting
      /\ keepgoing' = keepgoing /\ errors' = errors
  BY <1>1 DEF TokenWithdraw, graphVars
<1>3. /\ pool' \in Seq({"+", "stop"}) /\ B \in Nat /\ C \in Nat
      /\ pool # <<>> => Head(pool) \in {"+", "stop"}
      /\ pool' = pool \/ (pool # <<>> /\ pool' = Tail(pool))
      /\ pool' = pool => C = B
      /\ pool # <<>> /\ pool' = Tail(pool) => C = B - (IF Head(pool) = "+" THEN 1 ELSE 0)
  <2>1. pool' = pool \/ (pool # <<>> /\ pool' = Tail(pool))
    BY DEF TokenWithdraw
  <2> QED
    BY <1>1, <2>1, BytesRead, BytesWritten
<1> HIDE DEF B, C
<1>4. /\ \A k \in Make \ {m} : pc'[k] = pc[k] /\ running'[k] = running[k]
      /\ \/ /\ pool' = pool
            /\ pc'[m] = "token" /\ running[m] = 0 /\ running'[m] = 1
         \/ /\ pool' = pool
            /\ pc'[m] = "poll" /\ running[m] # 0 /\ running'[m] = running[m]
         \/ /\ pool # <<>> /\ pool' = Tail(pool) /\ Head(pool) = "+"
            /\ pc'[m] = "spare" /\ running[m] = 0 /\ running'[m] = 0
         \/ /\ pool # <<>> /\ pool' = Tail(pool) /\ Head(pool) = "+"
            /\ pc'[m] = "token" /\ running[m] # 0 /\ running'[m] = running[m] + 1
         \/ /\ pool # <<>> /\ pool' = Tail(pool) /\ Head(pool) = "stop"
            /\ pc'[m] = "drain" /\ running'[m] = running[m]
      /\ pc' \in [Make -> Locations] /\ running' \in [Make -> 0..MaxJobs]
  <2>1. Head(pool) \in {"+", "stop"} \/ pool = <<>>
    BY <1>3
  <2>2. {"token", "poll", "spare", "drain"} \subseteq Locations
    BY DEF Locations
  <2>3. 1 \in 0..MaxJobs /\ running[m] + 1 \in 0..MaxJobs
    BY <1>1, <1>2
  <2> QED
    BY <1>1, <1>2, <2>1, <2>2, <2>3 DEF TokenWithdraw, Goto
<1>5. OnlyMoves(m)
  BY <1>2, <1>4 DEF OnlyMoves, Live, Ended
<1>6. ProcessTypes'
  BY <1>2, <1>3, <1>4 DEF ProcessesOK, ProcessTypes
<1>7. ProcessesOK' /\ Change(m) = (C - B) + (Held(pc'[m], running'[m]) - Held(pc[m], running[m]))
  <2>1. MadeKept
    BY <1>2 DEF MadeKept, Built
  <2>2. running'[m] - (IF pc'[m] = "token" THEN 1 ELSE 0)
          = running[m] - (IF pc[m] = "token" THEN 1 ELSE 0)
    BY <1>2, <1>4
  <2>3. pc'[m] = "spare" => running'[m] = 0
    BY <1>4
  <2> QED
    BY <1>2, <1>5, <1>6, <2>1, <2>2, <2>3, MoveStep DEF B, C
<1>8. Change(m) = 0
  BY <1>2, <1>3, <1>4, <1>7 DEF Held, Ended
<1> QED
  BY <1>5, <1>6, <1>7, <1>8, KeptMoves DEF ProcessesOK

\* Steps in which the makes, the jobs and the pipe stay as they are.
LEMMA StillStep ==
    ASSUME NodesOK, ProcessesOK, NEW m \in Make, Live(m),
           UNCHANGED <<graph, keepgoing, pc, jobVars>>,
           MadeKept, \A n \in Node : made[n] = "beingmade" => made'[n] = "beingmade"
    PROVE  ProcessesOK' /\ Kept
<1>1. /\ pc' = pc /\ running' = running /\ pool' = pool /\ graph' = graph /\ job' = job
      /\ keepgoing' = keepgoing /\ aborting' = aborting /\ errors' = errors
  BY DEF jobVars
<1>2. ProcessTypes /\ ProcessTypes'
  BY <1>1 DEF ProcessesOK, ProcessTypes
<1>3. OnlyMoves(m)
  BY <1>1 DEF OnlyMoves, Live
<1>4. running[m] \in Nat /\ (pc[m] = "spare" => running[m] = 0)
  BY <1>2, BoundsAssumption DEF ProcessTypes, ProcessesOK, NoneRunning
<1>5. /\ ProcessesOK' /\ Cardinality(Bytes(pool)) \in Nat
      /\ Change(m) = (Cardinality(Bytes(pool')) - Cardinality(Bytes(pool)))
                       + (Held(pc'[m], running'[m]) - Held(pc[m], running[m]))
  BY <1>1, <1>2, <1>3, <1>4, MoveStep
<1>6. Change(m) = 0
  BY <1>1, <1>5 DEF Held, Ended
<1> QED
  BY <1>2, <1>3, <1>5, <1>6, KeptMoves

\* A node is put back, or its children are requested.
LEMMA AlreadyCheckedKept ==
    ASSUME NodesOK, ProcessesOK, NEW m \in Make, AlreadyChecked(m)
    PROVE  NodesOK' /\ ProcessesOK' /\ Kept
<1> DEFINE c == Candidate(m)
<1>1. /\ Examining(m) /\ made' = [made EXCEPT ![c] = "deferred"]
      /\ toBeMade' = [toBeMade EXCEPT ![m] = Tail(@)]
      /\ UNCHANGED <<graph, keepgoing, pc, unmade, checked, doneOrder, jobVars>>
  BY DEF AlreadyChecked
<1>2. c \in Node /\ made[c] = "requested"
  BY <1>1, CandidateFacts
<1>3. NodesOK'
  <2> DEFINE st == "deferred"
  <2>1. /\ st \in {"deferred", "beingmade"} /\ (st = "beingmade" => unmade[c] = 0)
        /\ made' = [made EXCEPT ![c] = st] /\ checked' \subseteq Node
    BY <1>1 DEF NodesOK
  <2> HIDE DEF st
  <2> QED
    BY <1>1, <2>1, TakeStep
<1>4. \A n \in Node : made[n] \in Built \cup {"beingmade"} => made'[n] = made[n]
  BY <1>1, <1>2 DEF NodesOK, Built
<1>5. MadeKept /\ \A n \in Node : made[n] = "beingmade" => made'[n] = "beingmade"
  BY <1>4 DEF MadeKept, Built
<1>6. Live(m)
  BY <1>1 DEF Examining, Live, Ended
<1> QED
  BY <1>1, <1>3, <1>5, <1>6, StillStep

\* A candidate goes to wait for its children, which are requested.
LEMMA ScheduleChildrenKept ==
    ASSUME NodesOK, ProcessesOK, NEW m \in Make, ScheduleChildren(m)
    PROVE  NodesOK' /\ ProcessesOK' /\ Kept
<1>1. Examining(m) /\ UNCHANGED <<graph, keepgoing, pc, jobVars>>
  BY DEF ScheduleChildren
<1>2. Live(m)
  BY <1>1 DEF Examining, Live, Ended
<1>3. /\ NodesOK'
      /\ \A n \in Node : made'[n] = made[n] \/ made[n] \notin Built \cup {"beingmade"}
      /\ \A n \in Node : made[n] = "beingmade" => made'[n] = "beingmade"
  BY ScheduleChildrenNodes
<1>4. MadeKept
  BY <1>3 DEF MadeKept, Built
<1> QED
  BY <1>1, <1>2, <1>3, <1>4, StillStep

\* Make_Update of a node that is looked at and needs no job.
LEMMA UpdateKept ==
    ASSUME NodesOK, graph' = graph, NEW m \in Make, Examining(m), unmade[Candidate(m)] = 0,
           NEW st \in Built,
           MakeUpdate(Candidate(m), [made EXCEPT ![Candidate(m)] = st], Tail(toBeMade[m]))
    PROVE  /\ NodesOK' /\ MadeKept
           /\ \A n \in Node : made[n] = "beingmade" => made'[n] = "beingmade"
<1> DEFINE c == Candidate(m)
           q == Tail(toBeMade[m])
<1>1. /\ c \in Node /\ MakeOf[c] = m /\ made[c] = "requested"
      /\ Lists(q, Requested(MakeOf[c]) \ {c})
  BY CandidateFacts
<1>2. \A k \in ToSet(Kids(c)) : made[k] \in Built
  BY <1>1, NoneUnmade
<1> HIDE DEF c, q
<1>3. NodesOK' /\ Updated(c, st)
  <2>1. MakeUpdate(c, [made EXCEPT ![c] = st], q)
    BY DEF c, q
  <2> QED
    BY <1>1, <1>2, <2>1, MakeUpdateNodes
<1>4. \A n \in Node : made[n] \in Built \cup {"beingmade"} => made'[n] = made[n] \/ n = c
  BY <1>3 DEF Updated, Built
<1> QED
  BY <1>1, <1>3, <1>4 DEF MadeKept, Updated, Built

\* A candidate is up to date.
LEMMA UpToDateKept ==
    ASSUME NodesOK, ProcessesOK, NEW m \in Make, UpToDate(m)
    PROVE  NodesOK' /\ ProcessesOK' /\ Kept
<1> DEFINE st == "uptodate"
<1>1. /\ Examining(m) /\ unmade[Candidate(m)] = 0 /\ st \in Built
      /\ MakeUpdate(Candidate(m), [made EXCEPT ![Candidate(m)] = st], Tail(toBeMade[m]))
      /\ UNCHANGED <<graph, keepgoing, pc, jobVars>>
  BY DEF UpToDate, Makeable, Built
<1> HIDE DEF st
<1>2. Live(m)
  BY <1>1 DEF Examining, Live, Ended
<1>3. /\ NodesOK' /\ MadeKept
      /\ \A n \in Node : made[n] = "beingmade" => made'[n] = "beingmade"
  BY <1>1, UpdateKept
<1> QED
  BY <1>1, <1>2, <1>3, StillStep

\* Job_TokenReturn: all but the last token go to the pipe.
LEMMA TokenReturned ==
    ASSUME ProcessTypes, NEW m \in Make, TokenReturn(m), running[m] # 0
    PROVE  /\ running[m] \in 1..MaxJobs /\ running'[m] = running[m] - 1
           /\ \A k \in Make \ {m} : running'[k] = running[k]
           /\ running' \in [Make -> 0..MaxJobs] /\ pool' \in Seq({"+", "stop"})
           /\ Cardinality(Bytes(pool')) = Cardinality(Bytes(pool))
                                           + (IF running[m] > 1 THEN 1 ELSE 0)
           /\ Cardinality(Bytes(pool)) \in Nat /\ Cardinality(Bytes(pool')) \in Nat
<1>1. running \in [Make -> 0..MaxJobs] /\ MaxJobs \in Nat /\ pool \in Seq({"+", "stop"})
  BY BoundsAssumption DEF ProcessTypes
<1>2. running' = [running EXCEPT ![m] = running[m] - 1]
  BY DEF TokenReturn
<1>3. running[m] \in 1..MaxJobs /\ running[m] - 1 \in 0..MaxJobs
  BY <1>1
<1>4. /\ running'[m] = running[m] - 1 /\ \A k \in Make \ {m} : running'[k] = running[k]
      /\ running' \in [Make -> 0..MaxJobs]
  BY <1>1, <1>2, <1>3
<1>5. CASE running[m] > 1
  <2>1. pool' = Append(pool, "+")
    BY <1>5 DEF TokenReturn
  <2>2. /\ pool' \in Seq({"+", "stop"}) /\ Cardinality(Bytes(pool)) \in Nat
        /\ Cardinality(Bytes(pool')) = Cardinality(Bytes(pool)) + 1
    BY <1>1, <2>1, BytesWritten
  <2> QED
    BY <1>3, <1>4, <1>5, <2>2
<1>6. CASE ~(running[m] > 1)
  <2>1. pool' = pool
    BY <1>6 DEF TokenReturn
  <2>2. Cardinality(Bytes(pool)) \in Nat
    BY <1>1, BytesWritten
  <2> QED
    BY <1>1, <1>3, <1>4, <1>6, <2>1, <2>2
<1> QED
  BY <1>5, <1>6

\* A node without commands: its token is returned.
LEMMA NoCommandsKept ==
    ASSUME NodesOK, ProcessesOK, NEW m \in Make, NoCommands(m)
    PROVE  NodesOK' /\ ProcessesOK' /\ Kept
<1> DEFINE st == "made"
<1>1. /\ Examining(m) /\ unmade[Candidate(m)] = 0 /\ st \in Built
      /\ MakeUpdate(Candidate(m), [made EXCEPT ![Candidate(m)] = st], Tail(toBeMade[m]))
      /\ TokenReturn(m) /\ pc' = [pc EXCEPT ![m] = "start"]
      /\ graph' = graph /\ keepgoing' = keepgoing /\ job' = job /\ aborting' = aborting
      /\ errors' = errors
  BY DEF NoCommands, Makeable, Built, Goto
<1> HIDE DEF st
<1>2. pc[m] = "token"
  BY <1>1 DEF Examining
<1>3. /\ NodesOK' /\ MadeKept
      /\ \A n \in Node : made[n] = "beingmade" => made'[n] = "beingmade"
  BY <1>1, UpdateKept
<1>4. pc \in [Make -> Locations] /\ running \in [Make -> 0..MaxJobs] /\ MaxJobs \in Nat
  BY BoundsAssumption DEF ProcessesOK, ProcessTypes
<1>5. running[m] # 0
  <2>1. running[m] = Cardinality(Jobs(m)) + 1
    BY <1>2 DEF ProcessesOK, RunningCounts
  <2>2. Cardinality(Jobs(m)) \in Nat
    <3>1. Jobs(m) \subseteq Node
      BY DEF Jobs
    <3> QED
      BY <3>1, SubsetsFinite
  <2> QED
    BY <2>1, <2>2
<1>6. /\ running[m] \in 1..MaxJobs /\ running'[m] = running[m] - 1
      /\ \A k \in Make \ {m} : running'[k] = running[k]
      /\ running' \in [Make -> 0..MaxJobs] /\ pool' \in Seq({"+", "stop"})
      /\ Cardinality(Bytes(pool')) = Cardinality(Bytes(pool)) + (IF running[m] > 1 THEN 1 ELSE 0)
      /\ Cardinality(Bytes(pool)) \in Nat
  BY <1>1, <1>5, TokenReturned DEF ProcessesOK
<1>7. /\ pc' \in [Make -> Locations] /\ pc'[m] = "start"
      /\ \A k \in Make \ {m} : pc'[k] = pc[k]
  BY <1>1, <1>4 DEF Locations
<1>8. ProcessTypes /\ ProcessTypes'
  BY <1>1, <1>6, <1>7 DEF ProcessesOK, ProcessTypes
<1>9. OnlyMoves(m)
  BY <1>2, <1>6, <1>7 DEF OnlyMoves, Live, Ended
<1>10. /\ ProcessesOK'
       /\ Change(m) = (Cardinality(Bytes(pool')) - Cardinality(Bytes(pool)))
                        + (Held(pc'[m], running'[m]) - Held(pc[m], running[m]))
  <2>1. running'[m] - (IF pc'[m] = "token" THEN 1 ELSE 0)
          = running[m] - (IF pc[m] = "token" THEN 1 ELSE 0)
    BY <1>2, <1>4, <1>6, <1>7
  <2> QED
    BY <1>1, <1>3, <1>7, <1>8, <1>9, <2>1, MoveStep
<1>11. Change(m) = 0
  BY <1>2, <1>4, <1>6, <1>7, <1>10 DEF Held, Ended
<1> QED
  BY <1>3, <1>8, <1>9, <1>10, <1>11, KeptMoves

\* A make with a token for its next job has running > 0, and so has one with jobs.
LEMMA TokenRuns ==
    ASSUME ProcessesOK, NEW m \in Make, pc[m] # "dead"
    PROVE  /\ pc[m] = "token" => running[m] # 0
           /\ running[m] = 0 => Jobs(m) = {}
           /\ pc[m] = "token" /\ running[m] = 1 => Jobs(m) = {}
<1>1. running[m] = Cardinality(Jobs(m)) + (IF pc[m] = "token" THEN 1 ELSE 0)
  BY DEF ProcessesOK, RunningCounts
<1>2. IsFiniteSet(Jobs(m)) /\ Cardinality(Jobs(m)) \in Nat
  <2>1. Jobs(m) \subseteq Node
    BY DEF Jobs
  <2> QED
    BY <2>1, SubsetsFinite
<1>3. Cardinality(Jobs(m)) = 0 => Jobs(m) = {}
  BY <1>2, FS_EmptySet
<1> QED
  BY <1>1, <1>2, <1>3

\* A make without jobs ends: its slot goes to the job that has run it, which is
\* to be reaped.
LEMMA EndStep ==
    ASSUME NodesOK, ProcessesOK, ProcessTypes', NEW m \in Make, Live(m),
           \A k \in Make \ {m} : pc'[k] = pc[k] /\ running'[k] = running[k],
           pc'[m] \in {"made", "failed", "unbuilt"}, running'[m] = 0, Jobs(m) = {},
           Held(pc[m], running[m]) = 1,
           Cardinality(Bytes(pool')) = Cardinality(Bytes(pool)),
           graph' = graph, made' = made,
           job' = [n \in Node |-> IF Sub(n) = m /\ job[n] = "running"
                                  THEN IF pc'[m] = "made" THEN "ok" ELSE "error"
                                  ELSE job[n]]
    PROVE  ProcessesOK' /\ Kept
<1>1. \A n \in Node : /\ job'[n] = "none" <=> job[n] = "none"
                      /\ job'[n] = "running" <=> job[n] = "running" /\ Sub(n) # m
                      /\ Sub(n)' = Sub(n)
  BY DEF Sub
<1>2. /\ \A k \in Make \ {m} : Live(k)' <=> Live(k)
      /\ ~Live(m)' /\ pc[m] # "off"
  BY DEF Live, Ended
<1>3. /\ JobsBeingMade /\ SubsOff /\ SubsLive /\ SubsRunning /\ RunningCounts /\ NoneRunning
      /\ ProcessTypes
  BY DEF ProcessesOK
<1>4. /\ \A n \in Node : MakeOf[n] \in Make /\ (Sub(n) # NoMake => Sub(n) \in Make \ {Root})
      /\ \A n, k \in Node : Sub(n) = Sub(k) /\ n # k => Sub(n) = NoMake
  BY NodeAssumption DEF NodesOK, GraphOK, Sub
<1>5. m # NoMake /\ Root \in Make
  BY MakeAssumption
<1>6. JobsBeingMade'
  BY <1>1, <1>3 DEF JobsBeingMade
<1>7. SubsOff'
  <2> SUFFICES ASSUME NEW n \in Node, Sub(n) # NoMake, made[n] \notin Built \cup {"beingmade"}
               PROVE  pc'[Sub(n)] = "off"
    BY DEF SubsOff, Sub, Built
  <2>1. pc[Sub(n)] = "off"
    BY <1>3 DEF SubsOff
  <2> QED
    BY <1>2, <1>4, <2>1
<1>8. SubsLive'
  <2> SUFFICES ASSUME NEW n \in Node, job'[n] = "running", Sub(n) # NoMake
               PROVE  Live(Sub(n))'
    BY <1>1 DEF SubsLive
  <2>1. Live(Sub(n)) /\ Sub(n) # m
    BY <1>1, <1>3 DEF SubsLive
  <2> QED
    BY <1>1, <1>4, <2>1 DEF Live, Ended
<1>9. SubsRunning'
  <2> SUFFICES ASSUME NEW k \in Make \ {Root}, Live(k)'
               PROVE  \E n \in Node : Sub(n) = k /\ job'[n] = "running"
    BY <1>1 DEF SubsRunning
  <2>1. k # m /\ Live(k)
    BY <1>2
  <2> QED
    BY <1>1, <1>3, <2>1 DEF SubsRunning
<1>10. \A k \in Make : Jobs(k)' = Jobs(k)
  BY <1>1 DEF Jobs
<1>11. (RunningCounts /\ NoneRunning)'
  <2>1. running'[m] = Cardinality(Jobs(m)') + (IF pc'[m] = "token" THEN 1 ELSE 0)
    BY <1>10, FS_EmptySet
  <2> QED
    BY <1>10, <2>1, CountsFrame
<1>12. ProcessesOK'
  BY <1>6, <1>7, <1>8, <1>9, <1>11 DEF ProcessesOK
<1>13. \A n \in Node :
          n \in Work <=> /\ job[n] # "none" /\ Live(MakeOf[n])
                         /\ job[n] # "running" \/ Sub(n) = NoMake
  BY DEF Work, Unreaped
<1> DEFINE W == Work'
<1>14. W \subseteq Node /\ Work \subseteq Node
  BY DEF Work, Unreaped
<1>15. \A n \in Node :
          n \in W <=> /\ job'[n] # "none" /\ Live(MakeOf[n])'
                      /\ job'[n] # "running" \/ Sub(n) = NoMake
  BY <1>1 DEF Work, Unreaped
<1> HIDE DEF W
<1>16. \A n \in Node : MakeOf[n] = m => n \notin W /\ n \notin Work
  BY <1>1, <1>13, <1>15 DEF Jobs
<1>17. \A n \in Node : MakeOf[n] # m => (Live(MakeOf[n])' <=> Live(MakeOf[n]))
  BY <1>2, <1>4 DEF Live
<1>18. \A n \in Node : ~(Sub(n) = m /\ job[n] = "running") => (n \in W <=> n \in Work)
  BY <1>1, <1>13, <1>15, <1>16, <1>17
<1>19. /\ Slots \in Nat /\ Slots' = Slots + Change(m)
       /\ Change(m) = (Cardinality(W) - Cardinality(Work)) - 1
       /\ Cardinality(W) \in Nat /\ Cardinality(Work) \in Nat
  <2>1. /\ Slots \in Nat /\ Slots' = Slots + Change(m)
        /\ Cardinality(Bytes(pool)) \in Nat
        /\ Cardinality(Work) \in Nat /\ Cardinality(Work') \in Nat
    BY <1>3, MoveSlots
  <2>2. Held(pc'[m], running'[m]) = 0
    BY DEF Held, Ended
  <2> QED
    BY <2>1, <2>2 DEF Change, W
<1>20. CASE m = Root
  <2>1. \A n \in Node : Sub(n) # m
    BY <1>4, <1>5, <1>20
  <2>2. W = Work
    BY <1>14, <1>18, <2>1
  <2>3. Slots' = Slots - 1
    BY <1>19, <2>2
  <2> QED
    BY <1>2, <1>12, <1>19, <1>20, <2>3 DEF Kept
<1>21. CASE m # Root
  <2>1. PICK n \in Node : Sub(n) = m /\ job[n] = "running"
    BY <1>3, <1>21 DEF SubsRunning
  <2>2. /\ n \notin Work /\ \A k \in Node \ {n} : k \in W <=> k \in Work
    BY <1>4, <1>5, <1>13, <1>18, <2>1
  <2>3. W = Work \/ (W = Work \cup {n} /\ n \in W)
    BY <1>14, <2>2
  <2>4. Cardinality(Work \cup {n}) = Cardinality(Work) + 1
    <3>1. IsFiniteSet(Work)
      BY <1>14, SubsetsFinite
    <3> QED
      BY <2>2, <3>1, OneMore
  <2>5. ~Died' => n \in W
    <3> SUFFICES ASSUME ~Died'
                 PROVE  n \in W
      OBVIOUS
    <3>1. MakeOf[n] \in Make /\ MakeOf[n] # m
      BY <1>4, <2>1 DEF Jobs
    <3>2. pc[MakeOf[n]] # "dead"
      BY <3>1 DEF Died
    <3>3. n \in Jobs(MakeOf[n])
      BY <2>1 DEF Jobs
    <3>4. running[MakeOf[n]] # 0
      BY <3>1, <3>2, <3>3, TokenRuns
    <3>5. Live(MakeOf[n])
      BY <1>3, <3>1, <3>2, <3>4 DEF NoneRunning, Live, Ended
    <3>6. job'[n] \in {"ok", "error"}
      BY <2>1
    <3> QED
      BY <1>15, <1>17, <3>1, <3>5, <3>6
  <2>6. Slots' \in Int /\ Slots' <= Slots /\ (n \in W => Slots' = Slots)
    <3>1. CASE W = Work
      <4>1. n \notin W /\ Slots' = Slots - 1
        BY <1>19, <2>2, <3>1
      <4> QED
        BY <1>19, <4>1
    <3>2. CASE W = Work \cup {n}
      <4>1. Cardinality(W) = Cardinality(Work) + 1
        BY <2>4, <3>2
      <4> QED
        BY <1>19, <4>1
    <3> QED
      BY <2>3, <3>1, <3>2
  <2>7. Live(Root)' <=> Live(Root)
    BY <1>2, <1>5, <1>21
  <2> QED
    BY <1>12, <1>19, <2>5, <2>6, <2>7 DEF Kept
<1> QED
  BY <1>20, <1>21

\* A make that has no jobs exits: its slot goes to the make that runs it, or
\* ends with the first make.
LEMMA ExitStep ==
    ASSUME NodesOK, ProcessesOK, NEW m \in Make, Live(m),
           NEW l \in {"made", "failed", "unbuilt"}, Exit(m, l),
           \A k \in Make \ {m} : running'[k] = running[k], running'[m] = 0,
           running' \in [Make -> 0..MaxJobs], Jobs(m) = {}, Held(pc[m], running[m]) = 1,
           pool' \in Seq({"+", "stop"}), Cardinality(Bytes(pool')) = Cardinality(Bytes(pool)),
           graph' = graph, made' = made, keepgoing' = keepgoing, errors' = errors,
           aborting' \in [Make -> {"no", "error", "wait"}]
    PROVE  ProcessesOK' /\ Kept
<1>1. /\ pc \in [Make -> Locations] /\ job \in [Node -> {"none", "running", "ok", "error"}]
      /\ keepgoing \subseteq Make /\ errors \subseteq Make
  BY DEF ProcessesOK, ProcessTypes
<1>2. /\ pc' \in [Make -> Locations] /\ pc'[m] = l
      /\ \A k \in Make \ {m} : pc'[k] = pc[k]
  BY <1>1 DEF Exit, Goto, Locations
<1>3. job' = [n \in Node |-> IF Sub(n) = m /\ job[n] = "running"
                             THEN IF pc'[m] = "made" THEN "ok" ELSE "error"
                             ELSE job[n]]
  BY <1>2 DEF Exit
<1>4. job' \in [Node -> {"none", "running", "ok", "error"}]
  BY <1>1, <1>3
<1>5. ProcessTypes'
  BY <1>1, <1>2, <1>4 DEF ProcessTypes
<1> QED
  BY <1>2, <1>3, <1>5, EndStep

\* Steps of a make without a token that touch nothing but the pipe.
LEMMA GoStep ==
    ASSUME NodesOK, ProcessesOK, NEW m \in Make, NEW l \in {"start", "poll", "drain", "stop"},
           pc[m] \in {"start", "poll", "drain", "stop"}, pc' = [pc EXCEPT ![m] = l],
           graph' = graph, made' = made, job' = job, running' = running,
           keepgoing' = keepgoing, errors' = errors,
           aborting' \in [Make -> {"no", "error", "wait"}], pool' \in Seq({"+", "stop"}),
           \/ Cardinality(Bytes(pool')) = Cardinality(Bytes(pool))
           \/ l \in {"drain", "stop"} /\ Cardinality(Bytes(pool')) <= Cardinality(Bytes(pool))
    PROVE  ProcessesOK' /\ Kept
<1>1. /\ pc \in [Make -> Locations] /\ pc' \in [Make -> Locations] /\ pc'[m] = l
      /\ \A k \in Make \ {m} : pc'[k] = pc[k] /\ running'[k] = running[k]
      /\ running \in [Make -> 0..MaxJobs] /\ MaxJobs \in Nat
  BY BoundsAssumption DEF ProcessesOK, ProcessTypes, Locations
<1>2. ProcessTypes /\ ProcessTypes'
  BY <1>1 DEF ProcessesOK, ProcessTypes
<1>3. OnlyMoves(m)
  BY <1>1 DEF OnlyMoves, Live, Ended
<1>4. MadeKept
  BY DEF MadeKept, Built
<1>5. running'[m] - (IF pc'[m] = "token" THEN 1 ELSE 0)
        = running[m] - (IF pc[m] = "token" THEN 1 ELSE 0)
  BY <1>1
<1>6. /\ ProcessesOK'
      /\ Cardinality(Bytes(pool)) \in Nat /\ Cardinality(Bytes(pool')) \in Nat
      /\ Change(m) = (Cardinality(Bytes(pool')) - Cardinality(Bytes(pool)))
                       + (Held(pc'[m], running'[m]) - Held(pc[m], running[m]))
  BY <1>1, <1>2, <1>3, <1>4, <1>5, MoveStep
<1>7. /\ Held(pc'[m], running'[m]) = Held(pc[m], running[m])
      /\ Held(pc[m], running[m]) \in Nat
  BY <1>1 DEF Held, Ended
<1>8. Change(m) = Cardinality(Bytes(pool')) - Cardinality(Bytes(pool))
  BY <1>6, <1>7
<1>9. /\ Change(m) \in Int /\ Change(m) <= 0
      /\ Change(m) = 0 \/ pc'[m] \in {"drain", "stop"}
  BY <1>1, <1>6, <1>8
<1> QED
  BY <1>2, <1>3, <1>6, <1>9, KeptMoves

\* The token that was not needed is put back.
LEMMA SpareReturnedKept ==
    ASSUME NodesOK, ProcessesOK, NEW m \in Make, SpareReturned(m)
    PROVE  ProcessesOK' /\ Kept
<1>1. /\ pc \in [Make -> Locations] /\ running \in [Make -> 0..MaxJobs] /\ MaxJobs \in Nat \ {0}
      /\ pool \in Seq({"+", "stop"})
  BY BoundsAssumption DEF ProcessesOK, ProcessTypes
<1>2. /\ pc[m] = "spare" /\ pool' = Append(pool, "+") /\ pc' = [pc EXCEPT ![m] = "token"]
      /\ running' = [running EXCEPT ![m] = 1]
      /\ graph' = graph /\ job' = job /\ made' = made /\ aborting' = aborting
      /\ keepgoing' = keepgoing /\ errors' = errors
  BY DEF SpareReturned, Goto, graphVars
<1>3. running[m] = 0
  BY <1>2 DEF ProcessesOK, NoneRunning
<1>4. /\ pc' \in [Make -> Locations] /\ pc'[m] = "token" /\ running'[m] = 1
      /\ running' \in [Make -> 0..MaxJobs]
      /\ \A k \in Make \ {m} : pc'[k] = pc[k] /\ running'[k] = running[k]
  <2>1. 1 \in 0..MaxJobs /\ "token" \in Locations
    BY <1>1 DEF Locations
  <2> QED
    BY <1>1, <1>2, <2>1
<1>5. /\ pool' \in Seq({"+", "stop"}) /\ Cardinality(Bytes(pool)) \in Nat
      /\ Cardinality(Bytes(pool')) = Cardinality(Bytes(pool)) + 1
  BY <1>1, <1>2, BytesWritten
<1>6. ProcessTypes /\ ProcessTypes'
  BY <1>2, <1>4, <1>5 DEF ProcessesOK, ProcessTypes
<1>7. OnlyMoves(m)
  BY <1>2, <1>4 DEF OnlyMoves, Live, Ended
<1>8. MadeKept
  BY <1>2 DEF MadeKept, Built
<1>9. running'[m] - (IF pc'[m] = "token" THEN 1 ELSE 0)
        = running[m] - (IF pc[m] = "token" THEN 1 ELSE 0)
  BY <1>2, <1>3, <1>4
<1>10. /\ ProcessesOK'
       /\ Change(m) = (Cardinality(Bytes(pool')) - Cardinality(Bytes(pool)))
                        + (Held(pc'[m], running'[m]) - Held(pc[m], running[m]))
  BY <1>2, <1>4, <1>6, <1>7, <1>8, <1>9, MoveStep
<1>11. Change(m) = 0
  BY <1>2, <1>3, <1>4, <1>5, <1>10 DEF Held, Ended
<1> QED
  BY <1>6, <1>7, <1>10, <1>11, KeptMoves

\* The pipe is emptied.
LEMMA DrainKept ==
    ASSUME NodesOK, ProcessesOK, NEW m \in Make, Drain(m) \/ Drained(m)
    PROVE  ProcessesOK' /\ Kept
<1>1. /\ pc \in [Make -> Locations] /\ pool \in Seq({"+", "stop"})
      /\ aborting \in [Make -> {"no", "error", "wait"}]
  BY DEF ProcessesOK, ProcessTypes
<1>2. /\ pc[m] = "drain" /\ graph' = graph /\ made' = made /\ job' = job /\ running' = running
      /\ keepgoing' = keepgoing /\ errors' = errors /\ aborting' = aborting
  BY DEF Drain, Drained, graphVars, jobVars
<1>3. PICK l \in {"drain", "stop"} : pc' = [pc EXCEPT ![m] = l]
  BY <1>1, <1>2 DEF Drain, Drained, Goto
<1>4. /\ pool' \in Seq({"+", "stop"})
      /\ Cardinality(Bytes(pool')) <= Cardinality(Bytes(pool))
  <2>1. pool' = pool \/ (pool # <<>> /\ pool' = Tail(pool))
    BY DEF Drain, Drained, jobVars
  <2>2. Cardinality(Bytes(pool)) \in Nat
    BY <1>1, BytesWritten
  <2>3. CASE pool' = pool
    BY <1>1, <2>2, <2>3
  <2>4. CASE pool # <<>> /\ pool' = Tail(pool)
    <3>1. /\ pool' \in Seq({"+", "stop"}) /\ Cardinality(Bytes(pool')) \in Nat
          /\ Cardinality(Bytes(pool'))
               = Cardinality(Bytes(pool)) - (IF Head(pool) = "+" THEN 1 ELSE 0)
      BY <1>1, <2>4, BytesRead
    <3> QED
      BY <2>2, <3>1
  <2> QED
    BY <2>1, <2>3, <2>4
<1> QED
  BY <1>1, <1>2, <1>3, <1>4, GoStep

\* A stopper is put into it; without jobs, the make ends.
LEMMA StopKept ==
    ASSUME NodesOK, ProcessesOK, NEW m \in Make, Stop(m)
    PROVE  ProcessesOK' /\ Kept
<1>1. /\ pc \in [Make -> Locations] /\ pool \in Seq({"+", "stop"})
      /\ aborting \in [Make -> {"no", "error", "wait"}]
      /\ running \in [Make -> 0..MaxJobs] /\ MaxJobs \in Nat
  BY BoundsAssumption DEF ProcessesOK, ProcessTypes
<1>2. /\ pc[m] = "stop" /\ graph' = graph /\ made' = made /\ running' = running
      /\ keepgoing' = keepgoing /\ errors' = errors /\ pool' = Append(pool, "stop")
      /\ aborting' \in [Make -> {"no", "error", "wait"}]
  BY <1>1 DEF Stop, graphVars
<1>3. /\ pool' \in Seq({"+", "stop"}) /\ Cardinality(Bytes(pool)) \in Nat
      /\ Cardinality(Bytes(pool')) = Cardinality(Bytes(pool))
  BY <1>1, <1>2, BytesWritten
<1>4. CASE running[m] # 0
  <2> DEFINE l == "poll"
  <2>1. l \in {"start", "poll", "drain", "stop"} /\ pc' = [pc EXCEPT ![m] = l] /\ job' = job
    BY <1>4 DEF Stop, Goto
  <2> HIDE DEF l
  <2> QED
    BY <1>1, <1>2, <1>3, <2>1, GoStep
<1>5. CASE running[m] = 0
  <2> DEFINE l == "failed"
  <2>1. Exit(m, l) /\ l \in {"made", "failed", "unbuilt"}
    BY <1>5 DEF Stop
  <2> HIDE DEF l
  <2>2. /\ Live(m) /\ Held(pc[m], running[m]) = 1 /\ Jobs(m) = {}
        /\ running'[m] = 0 /\ running' \in [Make -> 0..MaxJobs]
        /\ \A k \in Make \ {m} : running'[k] = running[k]
    BY <1>1, <1>2, <1>5, TokenRuns DEF Live, Held, Ended
  <2> QED
    BY <1>2, <1>3, <2>1, <2>2, ExitStep
<1> QED
  BY <1>4, <1>5

\* MakeStartJobs returns.
LEMMA StartedJobsKept ==
    ASSUME NodesOK, ProcessesOK, NEW m \in Make, StartedJobs(m)
    PROVE  ProcessesOK' /\ Kept
<1>1. /\ pc \in [Make -> Locations] /\ pool \in Seq({"+", "stop"})
      /\ aborting \in [Make -> {"no", "error", "wait"}]
      /\ running \in [Make -> 0..MaxJobs] /\ MaxJobs \in Nat
  BY BoundsAssumption DEF ProcessesOK, ProcessTypes
<1>2. /\ graph' = graph /\ made' = made /\ keepgoing' = keepgoing /\ errors' = errors
      /\ aborting' = aborting
  BY DEF StartedJobs, graphVars
<1>3. /\ running' \in [Make -> 0..MaxJobs] /\ \A k \in Make \ {m} : running'[k] = running[k]
      /\ pool' \in Seq({"+", "stop"})
      /\ Cardinality(Bytes(pool)) \in Nat /\ Cardinality(Bytes(pool')) \in Nat
      /\ \/ /\ pc[m] = "token" /\ running[m] \in 1..MaxJobs /\ running'[m] = running[m] - 1
            /\ Cardinality(Bytes(pool'))
                 = Cardinality(Bytes(pool)) + (IF running[m] > 1 THEN 1 ELSE 0)
         \/ pc[m] = "start" /\ running' = running /\ pool' = pool
  <2>1. CASE pc[m] = "token" /\ TokenReturn(m)
    <3>1. running[m] # 0
      BY <2>1, TokenRuns
    <3> QED
      BY <2>1, <3>1, TokenReturned DEF ProcessesOK
  <2>2. CASE pc[m] = "start" /\ running' = running /\ pool' = pool
    <3>1. Cardinality(Bytes(pool)) \in Nat
      BY <1>1, BytesWritten
    <3> QED
      BY <1>1, <2>2, <3>1
  <2> QED
    BY <2>1, <2>2 DEF StartedJobs
<1>4. pc[m] \in {"token", "start"} /\ Live(m)
  BY <1>3 DEF Live, Ended
<1>5. CASE toBeMade[m] = <<>> /\ running'[m] = 0
  <2>1. PICK l \in {"made", "failed", "unbuilt"} : Exit(m, l)
    BY <1>5 DEF StartedJobs, Finish
  <2>2. Jobs(m) = {} /\ Held(pc[m], running[m]) = 1
    <3>1. CASE pc[m] = "token"
      <4>1. running[m] = 1
        BY <1>1, <1>3, <1>5, <3>1
      <4> QED
        BY <3>1, <4>1, TokenRuns DEF Held, Ended
    <3>2. CASE pc[m] = "start"
      <4>1. running[m] = 0
        BY <1>3, <1>5, <3>2
      <4> QED
        BY <3>2, <4>1, TokenRuns DEF Held, Ended
    <3> QED
      BY <1>4, <3>1, <3>2
  <2>3. Cardinality(Bytes(pool')) = Cardinality(Bytes(pool))
    BY <1>1, <1>3, <1>5
  <2> QED
    BY <1>1, <1>2, <1>3, <1>4, <1>5, <2>1, <2>2, <2>3, ExitStep
<1>6. CASE ~(toBeMade[m] = <<>> /\ running'[m] = 0)
  <2>1. pc' = [pc EXCEPT ![m] = "poll"] /\ job' = job
    BY <1>6 DEF StartedJobs, Goto
  <2>2. CASE pc[m] = "start"
    <3> DEFINE l == "poll"
    <3>1. /\ l \in {"start", "poll", "drain", "stop"} /\ pc' = [pc EXCEPT ![m] = l]
          /\ running' = running /\ pool' = pool
      BY <1>3, <2>1, <2>2
    <3> HIDE DEF l
    <3> QED
      BY <1>1, <1>2, <1>3, <2>1, <2>2, <3>1, GoStep
  <2>3. CASE pc[m] = "token"
    <3>1. /\ pc' \in [Make -> Locations] /\ pc'[m] = "poll"
          /\ \A k \in Make \ {m} : pc'[k] = pc[k]
      BY <1>1, <2>1 DEF Locations
    <3>2. ProcessTypes /\ ProcessTypes'
      BY <1>2, <1>3, <2>1, <3>1 DEF ProcessesOK, ProcessTypes
    <3>3. OnlyMoves(m)
      BY <1>3, <2>3, <3>1 DEF OnlyMoves, Live, Ended
    <3>4. MadeKept
      BY <1>2 DEF MadeKept, Built
    <3>5. running'[m] - (IF pc'[m] = "token" THEN 1 ELSE 0)
            = running[m] - (IF pc[m] = "token" THEN 1 ELSE 0)
      BY <1>1, <1>3, <2>3, <3>1
    <3>6. /\ ProcessesOK'
          /\ Change(m) = (Cardinality(Bytes(pool')) - Cardinality(Bytes(pool)))
                           + (Held(pc'[m], running'[m]) - Held(pc[m], running[m]))
      BY <1>2, <2>1, <3>1, <3>2, <3>3, <3>4, <3>5, MoveStep
    <3>7. Change(m) = 0
      BY <1>1, <1>3, <2>3, <3>1, <3>6 DEF Held, Ended
    <3> QED
      BY <3>2, <3>3, <3>6, <3>7, KeptMoves
  <2> QED
    BY <1>4, <2>2, <2>3
<1> QED
  BY <1>5, <1>6

\* Job_CatchOutput returns, or the make ends after Job_Wait.
LEMMA CaughtKept ==
    ASSUME NodesOK, ProcessesOK, NEW m \in Make, Caught(m)
    PROVE  ProcessesOK' /\ Kept
<1>1. /\ pc \in [Make -> Locations] /\ pool \in Seq({"+", "stop"})
      /\ aborting \in [Make -> {"no", "error", "wait"}]
      /\ running \in [Make -> 0..MaxJobs] /\ MaxJobs \in Nat
  BY BoundsAssumption DEF ProcessesOK, ProcessTypes
<1>2. /\ pc[m] = "poll" /\ graph' = graph /\ made' = made /\ running' = running
      /\ keepgoing' = keepgoing /\ errors' = errors /\ pool' = pool /\ aborting' = aborting
      /\ Cardinality(Bytes(pool)) \in Nat
  BY <1>1, BytesWritten DEF Caught, graphVars
<1>3. CASE Goto(m, "start") /\ job' = job
  <2> DEFINE l == "start"
  <2>1. l \in {"start", "poll", "drain", "stop"} /\ pc' = [pc EXCEPT ![m] = l] /\ job' = job
    BY <1>3 DEF Goto
  <2> HIDE DEF l
  <2> QED
    BY <1>1, <1>2, <2>1, GoStep
<1>4. CASE running[m] = 0 /\ Exit(m, "failed")
  <2> DEFINE l == "failed"
  <2>1. /\ l \in {"made", "failed", "unbuilt"} /\ Exit(m, l)
        /\ Live(m) /\ Held(pc[m], running[m]) = 1 /\ Jobs(m) = {}
        /\ running'[m] = 0 /\ running' \in [Make -> 0..MaxJobs]
        /\ \A k \in Make \ {m} : running'[k] = running[k]
    BY <1>1, <1>2, <1>4, TokenRuns DEF Live, Held, Ended
  <2> HIDE DEF l
  <2> QED
    BY <1>1, <1>2, <1>4, <2>1, ExitStep
<1> QED
  BY <1>3, <1>4 DEF Caught

\* A job of m is reaped: its token is returned, or m is about to put a stopper.
LEMMA ReapStep ==
    ASSUME NodesOK, ProcessesOK, ProcessTypes', NEW m \in Make, NEW n \in Exited(m),
           pc[m] = "poll", pc'[m] \in {"poll", "drain"}, running'[m] = running[m] - 1,
           \A k \in Make \ {m} : pc'[k] = pc[k] /\ running'[k] = running[k],
           job' = [job EXCEPT ![n] = "none"], graph' = graph, MadeKept,
           \A k \in Node \ {n} : made[k] = "beingmade" => made'[k] = "beingmade",
           \/ Cardinality(Bytes(pool'))
                = Cardinality(Bytes(pool)) + (IF running[m] > 1 THEN 1 ELSE 0)
           \/ Cardinality(Bytes(pool')) = Cardinality(Bytes(pool)) /\ pc'[m] = "drain"
    PROVE  ProcessesOK' /\ Kept
<1>1. /\ running \in [Make -> 0..MaxJobs] /\ MaxJobs \in Nat /\ ProcessTypes
      /\ job \in [Node -> {"none", "running", "ok", "error"}]
  BY BoundsAssumption DEF ProcessesOK, ProcessTypes
<1>2. n \in Node /\ MakeOf[n] = m /\ job[n] \in {"ok", "error"}
  BY DEF Exited
<1>3. job'[n] = "none" /\ \A k \in Node \ {n} : job'[k] = job[k]
  BY <1>1, <1>2
<1>4. OnlyMoves(m)
  BY DEF OnlyMoves, Live, Ended
<1>5. SameLife
  BY <1>1, <1>4, HeldStep
<1>6. (JobsBeingMade /\ SubsOff /\ SubsLive /\ SubsRunning)'
  <2>1. \A k \in Node :
           /\ job'[k] # "none" => job[k] # "none" /\ made'[k] = "beingmade"
           /\ job'[k] = "running" => job[k] = "running"
           /\ Sub(k) # NoMake /\ job[k] = "running" => job'[k] = "running"
    BY <1>2, <1>3 DEF ProcessesOK, JobsBeingMade
  <2> QED
    BY <1>5, <2>1, JobsFrame
<1> DEFINE J == Jobs(m)
           J1 == Jobs(m)'
<1>7. J1 = J \ {n} /\ n \in J /\ J \subseteq Node
  BY <1>2, <1>3 DEF Jobs
<1>8. \A k \in Make \ {m} : Jobs(k)' = Jobs(k)
  BY <1>2, <1>3 DEF Jobs
<1>9. running[m] = Cardinality(J)
  <2>1. running[m] = Cardinality(J) + 0
    BY DEF ProcessesOK, RunningCounts
  <2>2. Cardinality(J) \in Nat
    BY <1>7, SubsetsFinite
  <2> HIDE DEF J
  <2> QED
    BY <2>1, <2>2
<1> HIDE DEF J, J1
<1>10. Cardinality(J \ {n}) = Cardinality(J) - 1 /\ Cardinality(J) \in Nat \ {0}
  <2>1. IsFiniteSet(J)
    BY <1>7, SubsetsFinite
  <2> QED
    BY <1>7, <2>1, OneLess
<1>11. running'[m] = Cardinality(J1) /\ running[m] \in 1..MaxJobs
  <2>1. Cardinality(J1) = Cardinality(J \ {n})
    BY <1>7
  <2>2. running[m] \in 0..MaxJobs
    BY <1>1
  <2> QED
    BY <1>1, <1>9, <1>10, <2>1, <2>2
<1>12. (RunningCounts /\ NoneRunning)'
  <2>1. running'[m] \in Nat
    BY <1>1 DEF ProcessTypes
  <2>2. running'[m] = Cardinality(Jobs(m)') + (IF pc'[m] = "token" THEN 1 ELSE 0)
    BY <1>11, <2>1 DEF J1
  <2> QED
    BY <1>8, <2>2, CountsFrame
<1>13. ProcessesOK'
  BY <1>6, <1>12 DEF ProcessesOK
<1> DEFINE W == Work'
<1>14. W = Work \ {n} /\ n \in Work /\ Work \subseteq Node
  <2>1. \A k \in Node : Live(MakeOf[k])' <=> Live(MakeOf[k])
    BY <1>5, NodeAssumption DEF SameLife, Live
  <2>2. Live(MakeOf[n])
    BY <1>2 DEF Live, Ended
  <2> QED
    BY <1>2, <1>3, <2>1, <2>2 DEF Work, Unreaped, Sub
<1> HIDE DEF W
<1>15. Cardinality(W) = Cardinality(Work) - 1 /\ Cardinality(Work) \in Nat
  <2>1. IsFiniteSet(Work)
    BY <1>14, SubsetsFinite
  <2>2. Cardinality(Work \ {n}) = Cardinality(Work) - 1 /\ Cardinality(Work) \in Nat
    BY <1>14, <2>1, OneLess
  <2> QED
    BY <1>14, <2>2
<1> DEFINE h == IF running[m] > 1 THEN 0 ELSE 1
           d == Cardinality(Bytes(pool')) - Cardinality(Bytes(pool))
<1>16. Held(pc[m], running[m]) = 0 /\ Held(pc'[m], running'[m]) = h
  BY <1>11 DEF Held, Ended
<1>17. Change(m) = d - 1 + h /\ d \in Int
  <2>1. Cardinality(Bytes(pool)) \in Nat /\ Cardinality(Bytes(pool')) \in Nat
    BY <1>1, MoveSlots
  <2>2. Cardinality(Work') - Cardinality(Work) = 0 - 1
    BY <1>15 DEF W
  <2>3. Change(m) = d + (0 - 1) + (h - 0)
    BY <1>16, <2>2 DEF Change
  <2>4. d \in Int /\ h \in Int
    BY <2>1
  <2> HIDE DEF d, h
  <2> QED
    BY <2>3, <2>4
<1>18. d = 1 - h \/ (d = 0 /\ pc'[m] = "drain")
  <2>1. Cardinality(Bytes(pool)) \in Nat /\ Cardinality(Bytes(pool')) \in Nat
    BY <1>1, MoveSlots
  <2> QED
    BY <1>1, <1>11, <2>1
<1>19. h \in {0, 1}
  OBVIOUS
<1> HIDE DEF d, h
<1>20. Change(m) \in Int /\ Change(m) <= 0 /\ (Change(m) = 0 \/ pc'[m] \in {"drain", "stop"})
  BY <1>17, <1>18, <1>19
<1> QED
  BY <1>1, <1>4, <1>13, <1>20, KeptMoves

\* JobFinish of a job that has succeeded.
LEMMA JobSucceededKept ==
    ASSUME NodesOK, ProcessesOK, NEW m \in Make, NEW n \in Node, JobSucceeded(m, n)
    PROVE  NodesOK' /\ ProcessesOK' /\ Kept
<1>1. /\ pc \in [Make -> Locations] /\ running \in [Make -> 0..MaxJobs] /\ MaxJobs \in Nat
      /\ job \in [Node -> {"none", "running", "ok", "error"}]
      /\ pool \in Seq({"+", "stop"}) /\ ProcessTypes
  BY BoundsAssumption DEF ProcessesOK, ProcessTypes
<1>2. /\ pc[m] = "poll" /\ n \in Exited(m) /\ job[n] = "ok" /\ MakeOf[n] = m
      /\ job' = [job EXCEPT ![n] = "none"] /\ graph' = graph
      /\ keepgoing' = keepgoing /\ errors' = errors /\ aborting' = aborting
  BY DEF JobSucceeded, Exited
<1>3. made[n] = "beingmade"
  BY <1>2 DEF ProcessesOK, JobsBeingMade
<1>4. running[m] # 0
  BY <1>2, TokenRuns DEF Jobs
<1>5. job' \in [Node -> {"none", "running", "ok", "error"}]
  BY <1>1, <1>2
<1>6. CASE MakeUpdate(n, [made EXCEPT ![n] = "made"], toBeMade[m]) /\ TokenReturn(m) /\ pc' = pc
  <2> DEFINE st == "made"
             q == toBeMade[m]
  <2>1. st \in Built /\ made[n] \in {"requested", "beingmade"}
        /\ MakeUpdate(n, [made EXCEPT ![n] = st], q)
    BY <1>3, <1>6 DEF Built
  <2>2. \A k \in ToSet(Kids(n)) : made[k] \in Built
    BY <1>3 DEF NodesOK, ChildrenBefore
  <2>3. Lists(q, Requested(MakeOf[n]) \ {n})
    <3>1. Requested(MakeOf[n]) \ {n} = Requested(m)
      BY <1>2, <1>3 DEF Requested
    <3>2. Lists(q, Requested(m))
      BY DEF NodesOK, QueueLists
    <3> QED
      BY <3>1, <3>2
  <2> HIDE DEF st, q
  <2>4. NodesOK' /\ Updated(n, st)
    BY <1>2, <2>1, <2>2, <2>3, MakeUpdateNodes
  <2>5. MadeKept /\ \A k \in Node \ {n} : made[k] = "beingmade" => made'[k] = "beingmade"
    BY <2>1, <2>4 DEF MadeKept, Updated, Built
  <2>6. /\ running'[m] = running[m] - 1
        /\ \A k \in Make \ {m} : running'[k] = running[k]
        /\ running' \in [Make -> 0..MaxJobs] /\ pool' \in Seq({"+", "stop"})
        /\ Cardinality(Bytes(pool'))
             = Cardinality(Bytes(pool)) + (IF running[m] > 1 THEN 1 ELSE 0)
    BY <1>1, <1>4, <1>6, TokenReturned
  <2>7. ProcessTypes'
    BY <1>1, <1>2, <1>5, <1>6, <2>6 DEF ProcessTypes
  <2>8. pc'[m] \in {"poll", "drain"} /\ \A k \in Make \ {m} : pc'[k] = pc[k]
    BY <1>2, <1>6
  <2> QED
    BY <1>2, <2>4, <2>5, <2>6, <2>7, <2>8, ReapStep
<1>7. CASE /\ running' = [running EXCEPT ![m] = @ - 1] /\ Goto(m, "drain")
           /\ UNCHANGED <<graphVars, pool>>
  <2>1. NodesOK'
    BY <1>2, <1>7, NodesFrame
  <2>2. made' = made /\ pool' = pool
    BY <1>7 DEF graphVars
  <2>3. MadeKept /\ \A k \in Node \ {n} : made[k] = "beingmade" => made'[k] = "beingmade"
    BY <2>2 DEF MadeKept, Built
  <2>4. /\ running'[m] = running[m] - 1
        /\ \A k \in Make \ {m} : running'[k] = running[k] /\ pc'[k] = pc[k]
        /\ running' \in [Make -> 0..MaxJobs] /\ pc'[m] = "drain" /\ pc' \in [Make -> Locations]
    <3>1. running[m] - 1 \in 0..MaxJobs
      BY <1>1, <1>4
    <3> QED
      BY <1>1, <1>7, <3>1 DEF Goto, Locations
  <2>5. ProcessTypes'
    BY <1>1, <1>2, <1>5, <2>2, <2>4 DEF ProcessTypes
  <2> QED
    BY <1>2, <2>1, <2>2, <2>3, <2>4, <2>5, ReapStep
<1> QED
  BY <1>6, <1>7 DEF JobSucceeded

\* JobFinish of one that has failed.
LEMMA JobFailedKept ==
    ASSUME NodesOK, ProcessesOK, NEW m \in Make, NEW n \in Node, JobFailed(m, n)
    PROVE  ProcessesOK' /\ Kept
<1>1. /\ pc \in [Make -> Locations] /\ running \in [Make -> 0..MaxJobs] /\ MaxJobs \in Nat
      /\ job \in [Node -> {"none", "running", "ok", "error"}]
      /\ aborting \in [Make -> {"no", "error", "wait"}]
      /\ pool \in Seq({"+", "stop"}) /\ ProcessTypes
  BY BoundsAssumption DEF ProcessesOK, ProcessTypes
<1>2. /\ pc[m] = "poll" /\ n \in Exited(m) /\ job[n] = "error" /\ MakeOf[n] = m
      /\ job' = [job EXCEPT ![n] = "none"] /\ graph' = graph /\ made' = made
      /\ keepgoing' = keepgoing /\ errors' = errors \cup {m}
  BY DEF JobFailed, Exited, graphVars
<1>3. running[m] # 0
  BY <1>2, TokenRuns DEF Jobs
<1>4. /\ job' \in [Node -> {"none", "running", "ok", "error"}]
      /\ aborting' \in [Make -> {"no", "error", "wait"}]
  BY <1>1, <1>2 DEF JobFailed
<1>5. MadeKept /\ \A k \in Node \ {n} : made[k] = "beingmade" => made'[k] = "beingmade"
  BY <1>2 DEF MadeKept, Built
<1>6. CASE TokenReturn(m) /\ pc' = pc
  <2>1. /\ running'[m] = running[m] - 1
        /\ \A k \in Make \ {m} : running'[k] = running[k]
        /\ running' \in [Make -> 0..MaxJobs] /\ pool' \in Seq({"+", "stop"})
        /\ Cardinality(Bytes(pool'))
             = Cardinality(Bytes(pool)) + (IF running[m] > 1 THEN 1 ELSE 0)
    BY <1>1, <1>3, <1>6, TokenReturned
  <2>2. ProcessTypes'
    BY <1>1, <1>2, <1>4, <1>6, <2>1 DEF ProcessTypes
  <2>3. pc'[m] \in {"poll", "drain"} /\ \A k \in Make \ {m} : pc'[k] = pc[k]
    BY <1>2, <1>6
  <2> QED
    BY <1>2, <1>5, <2>1, <2>2, <2>3, ReapStep
<1>7. CASE running' = [running EXCEPT ![m] = @ - 1] /\ Goto(m, "drain") /\ pool' = pool
  <2>1. /\ running'[m] = running[m] - 1
        /\ \A k \in Make \ {m} : running'[k] = running[k] /\ pc'[k] = pc[k]
        /\ running' \in [Make -> 0..MaxJobs] /\ pc'[m] = "drain" /\ pc' \in [Make -> Locations]
    <3>1. running[m] - 1 \in 0..MaxJobs
      BY <1>1, <1>3
    <3> QED
      BY <1>1, <1>7, <3>1 DEF Goto, Locations
  <2>2. ProcessTypes'
    BY <1>1, <1>2, <1>4, <1>7, <2>1 DEF ProcessTypes
  <2> QED
    BY <1>2, <1>5, <1>7, <2>1, <2>2, ReapStep
<1> QED
  BY <1>6, <1>7 DEF JobFailed

\* The commands of a node end: the job is still to be reaped.
LEMMA JobExitsKept ==
    ASSUME NodesOK, ProcessesOK, NEW n \in Node, JobExits(n)
    PROVE  NodesOK' /\ ProcessesOK' /\ Kept
<1>1. /\ job[n] = "running" /\ Sub(n) = NoMake
      /\ graph' = graph /\ keepgoing' = keepgoing /\ pc' = pc /\ graphVars' = graphVars
      /\ running' = running /\ aborting' = aborting /\ errors' = errors /\ pool' = pool
  BY DEF JobExits
<1>2. PICK r \in {"ok", "error"} : job' = [job EXCEPT ![n] = r]
  BY DEF JobExits
<1>3. ProcessTypes
  BY DEF ProcessesOK
<1>4. /\ job'[n] = r /\ \A k \in Node \ {n} : job'[k] = job[k]
      /\ job' \in [Node -> {"none", "running", "ok", "error"}]
  BY <1>2, <1>3 DEF ProcessTypes
<1>5. NodesOK'
  BY <1>1, NodesFrame
<1>6. ProcessTypes'
  BY <1>1, <1>3, <1>4 DEF ProcessTypes
<1>7. made' = made /\ MadeKept /\ SameLife
  BY <1>1 DEF graphVars, MadeKept, SameLife, Live, Built
<1>8. (JobsBeingMade /\ SubsOff /\ SubsLive /\ SubsRunning)'
  <2>1. \A k \in Node :
           /\ job'[k] # "none" => job[k] # "none" /\ made'[k] = "beingmade"
           /\ job'[k] = "running" => job[k] = "running"
           /\ Sub(k) # NoMake /\ job[k] = "running" => job'[k] = "running"
    BY <1>1, <1>4, <1>7 DEF ProcessesOK, JobsBeingMade
  <2> QED
    BY <1>1, <1>7, <2>1, JobsFrame
<1>9. \A k \in Make : Jobs(k)' = Jobs(k)
  BY <1>1, <1>4 DEF Jobs
<1>10. (RunningCounts /\ NoneRunning)'
  BY <1>1, <1>9 DEF ProcessesOK, RunningCounts, NoneRunning
<1>11. ProcessesOK'
  BY <1>6, <1>8, <1>10 DEF ProcessesOK
<1>12. Work' = Work
  BY <1>1, <1>4 DEF Work, Unreaped, Live, Sub
<1>13. Slots' = Slots
  BY <1>1, <1>12 DEF Slots, HeldByAll, Bytes, WithToken, WithSpare, Idle, Live
<1>14. Slots \in Nat
  <2>1. Root \in Make
    BY MakeAssumption
  <2> QED
    BY <1>1, <1>3, <1>6, <2>1, MoveSlots
<1>15. Live(Root)' <=> Live(Root)
  BY <1>1 DEF Live
<1> QED
  BY <1>5, <1>11, <1>13, <1>14, <1>15 DEF Kept

\* JobStart: the token becomes a job, or a make that the job runs.
LEMMA JobExecKept ==
    ASSUME NodesOK, ProcessesOK, NEW m \in Make, JobExec(m)
    PROVE  NodesOK' /\ ProcessesOK' /\ Kept
<1>a. PICK c : c = Candidate(m)
  OBVIOUS
<1>b. PICK s : s = Sub(c)
  OBVIOUS
<1>1. /\ Examining(m) /\ unmade[c] = 0 /\ made' = [made EXCEPT ![c] = "beingmade"]
      /\ checked' = checked \cup {c} /\ toBeMade' = [toBeMade EXCEPT ![m] = Tail(@)]
      /\ job' = [job EXCEPT ![c] = "running"]
      /\ pc' = [k \in Make |-> IF k = m \/ k = s THEN "start" ELSE pc[k]]
      /\ graph' = graph /\ unmade' = unmade /\ doneOrder' = doneOrder
      /\ keepgoing' = keepgoing /\ running' = running /\ aborting' = aborting
      /\ errors' = errors /\ pool' = pool
  BY <1>a, <1>b DEF JobExec, Makeable
<1>2. c \in Node /\ MakeOf[c] = m /\ made[c] = "requested"
  BY <1>1, <1>a, CandidateFacts
<1>3. NodesOK'
  <2> DEFINE st == "beingmade"
  <2>1. /\ st \in {"deferred", "beingmade"} /\ (st = "beingmade" => unmade[c] = 0)
        /\ made' = [made EXCEPT ![c] = st] /\ checked' \subseteq Node
    BY <1>1, <1>2 DEF NodesOK
  <2> HIDE DEF st
  <2> QED
    BY <1>1, <1>a, <2>1, TakeStep
<1>4. /\ JobsBeingMade /\ SubsOff /\ SubsLive /\ SubsRunning /\ RunningCounts /\ NoneRunning
      /\ ProcessTypes /\ running \in [Make -> 0..MaxJobs] /\ MaxJobs \in Nat
  BY BoundsAssumption DEF ProcessesOK, ProcessTypes
<1>5. /\ \A n \in Node : MakeOf[n] \in Make /\ (Sub(n) # NoMake => Sub(n) \in Make \ {Root})
      /\ \A n, k \in Node : Sub(n) = Sub(k) /\ n # k => Sub(n) = NoMake
  BY NodeAssumption DEF NodesOK, GraphOK, Sub
<1>6. /\ pc[m] = "token" /\ job[c] = "none" /\ running[m] # 0
      /\ s \in Make <=> s # NoMake
      /\ s \in Make => s # m /\ s # Root /\ pc[s] = "off" /\ running[s] = 0 /\ Jobs(s) = {}
  <2>1. pc[m] = "token" /\ job[c] = "none" /\ running[m] # 0
    BY <1>1, <1>2, <1>4, TokenRuns DEF Examining, JobsBeingMade
  <2>2. ASSUME s # NoMake
        PROVE  s \in Make \ {m, Root} /\ pc[s] = "off" /\ running[s] = 0 /\ Jobs(s) = {}
    <3>1. s \in Make \ {Root} /\ pc[s] = "off"
      BY <1>2, <1>4, <1>5, <1>b, <2>2 DEF SubsOff, Built
    <3>2. running[s] = 0
      BY <1>4, <3>1 DEF NoneRunning
    <3> QED
      BY <2>1, <3>1, <3>2, TokenRuns
  <2> QED
    BY <2>1, <2>2, MakeAssumption
<1>7. /\ pc'[m] = "start" /\ \A k \in Make \ {m, s} : pc'[k] = pc[k]
      /\ s \in Make => pc'[s] = "start"
      /\ pc' \in [Make -> Locations]
      /\ job'[c] = "running" /\ \A n \in Node \ {c} : job'[n] = job[n]
      /\ job' \in [Node -> {"none", "running", "ok", "error"}]
      /\ made'[c] = "beingmade" /\ \A n \in Node \ {c} : made'[n] = made[n]
  BY <1>1, <1>2, <1>4 DEF ProcessTypes, NodesOK, Locations
<1>8. ProcessTypes'
  BY <1>1, <1>4, <1>7 DEF ProcessTypes
<1>9. /\ \A k \in Make \ {s} : Live(k)' <=> Live(k)
      /\ Live(m) /\ (s \in Make => ~Live(s) /\ Live(s)')
  BY <1>6, <1>7 DEF Live, Ended
<1>10. JobsBeingMade'
  BY <1>4, <1>7 DEF JobsBeingMade
<1>11. SubsOff'
  <2> SUFFICES ASSUME NEW n \in Node, Sub(n) # NoMake, made'[n] \notin Built \cup {"beingmade"}
               PROVE  pc'[Sub(n)] = "off"
    BY <1>1 DEF SubsOff, Sub, Built
  <2>1. n # c /\ made'[n] = made[n] /\ pc[Sub(n)] = "off"
    BY <1>4, <1>7 DEF SubsOff
  <2>2. Sub(n) # s /\ Sub(n) # m /\ Sub(n) \in Make
    BY <1>2, <1>5, <1>6, <1>b, <2>1
  <2> QED
    BY <1>7, <2>1, <2>2
<1>12. SubsLive'
  <2> SUFFICES ASSUME NEW n \in Node, job'[n] = "running", Sub(n) # NoMake
               PROVE  pc'[Sub(n)] \notin Ended \cup {"off"}
    BY <1>1 DEF SubsLive, Live, Sub, Ended
  <2>1. CASE n = c
    BY <1>5, <1>7, <1>b, <2>1 DEF Ended
  <2>2. CASE n # c
    <3>1. Live(Sub(n)) /\ Sub(n) \in Make
      BY <1>4, <1>5, <1>7, <2>2 DEF SubsLive
    <3> QED
      BY <1>7, <1>9, <3>1 DEF Live, Ended
  <2> QED
    BY <2>1, <2>2
<1>13. SubsRunning'
  <2> SUFFICES ASSUME NEW k \in Make \ {Root}, Live(k)'
               PROVE  \E n \in Node : Sub(n) = k /\ job'[n] = "running"
    BY <1>1 DEF SubsRunning, Sub
  <2>1. CASE k = s
    BY <1>2, <1>7, <1>b, <2>1
  <2>2. CASE k # s
    <3>1. PICK n \in Node : Sub(n) = k /\ job[n] = "running"
      BY <1>4, <1>9, <2>2 DEF SubsRunning
    <3> QED
      BY <1>6, <1>7, <3>1
  <2> QED
    BY <2>1, <2>2
<1> DEFINE J == Jobs(m)
           J1 == Jobs(m)'
<1>14. J1 = J \cup {c} /\ c \notin J /\ J \subseteq Node
  BY <1>2, <1>6, <1>7 DEF Jobs
<1>15. \A k \in Make \ {m} : Jobs(k)' = Jobs(k)
  BY <1>2, <1>7 DEF Jobs
<1> HIDE DEF J, J1
<1>16. Cardinality(J1) = Cardinality(J) + 1 /\ Cardinality(J) \in Nat
  <2>1. IsFiniteSet(J)
    BY <1>14, SubsetsFinite
  <2>2. Cardinality(J \cup {c}) = Cardinality(J) + 1 /\ Cardinality(J) \in Nat
    BY <1>14, <2>1, OneMore
  <2> QED
    BY <1>14, <2>2
<1>17. RunningCounts'
  <2>1. ASSUME NEW k \in Make, pc'[k] # "dead"
        PROVE  running'[k] = Cardinality(Jobs(k)') + (IF pc'[k] = "token" THEN 1 ELSE 0)
    <3>1. CASE k = m
      <4>1. running[m] = Cardinality(J) + 1
        BY <1>4, <1>6 DEF RunningCounts, J
      <4>2. running'[m] = Cardinality(J1) + 0
        BY <1>1, <1>16, <4>1
      <4> QED
        BY <1>7, <3>1, <4>2 DEF J1
    <3>2. CASE k # m
      <4>1. running[k] = Cardinality(Jobs(k)) + (IF pc[k] = "token" THEN 1 ELSE 0)
        BY <1>4, <1>6, <1>7, <2>1, <3>2 DEF RunningCounts
      <4>2. pc'[k] = "token" <=> pc[k] = "token"
        BY <1>6, <1>7, <3>2
      <4>3. Jobs(k)' = Jobs(k) /\ running'[k] = running[k]
        BY <1>1, <1>15, <3>2
      <4> QED
        BY <4>1, <4>2, <4>3
    <3> QED
      BY <3>1, <3>2
  <2> QED
    BY <2>1 DEF RunningCounts
<1>18. NoneRunning'
  <2>1. \A k \in Make : pc'[k] \in {"off", "spare", "made", "failed", "unbuilt"} => pc'[k] = pc[k]
    BY <1>7
  <2> QED
    BY <1>1, <1>4, <2>1 DEF NoneRunning
<1>19. ProcessesOK'
  BY <1>8, <1>10, <1>11, <1>12, <1>13, <1>17, <1>18 DEF ProcessesOK
<1> DEFINE W == Work'
           T == WithToken'
           S == WithSpare'
           I == Idle'
<1>20. /\ W = (IF s = NoMake THEN Work \cup {c} ELSE Work)
       /\ c \notin Work /\ Work \subseteq Node
  <2>1. c \notin Work /\ Work \subseteq Node /\ W \subseteq Node
    BY <1>6 DEF Work, Unreaped
  <2>2. Live(MakeOf[c])'
    BY <1>2, <1>7 DEF Live, Ended
  <2>3. c \in W <=> s = NoMake
    BY <1>1, <1>2, <1>7, <1>b, <2>2 DEF Work, Unreaped, Sub
  <2>4. \A n \in Node \ {c} : n \in W <=> n \in Work
    <3> SUFFICES ASSUME NEW n \in Node \ {c}
                 PROVE  n \in W <=> n \in Work
      OBVIOUS
    <3>1. job[n] # "none" => MakeOf[n] # s
      BY <1>5, <1>6 DEF Jobs
    <3>2. job[n] # "none" => (Live(MakeOf[n])' <=> Live(MakeOf[n]))
      BY <1>5, <1>9, <3>1 DEF Live
    <3> QED
      BY <1>1, <1>7, <3>2 DEF Work, Unreaped, Sub
  <2> HIDE DEF W
  <2> QED
    BY <2>1, <2>3, <2>4
<1>21. T = WithToken \ {m} /\ m \in WithToken /\ WithToken \subseteq Make
  BY <1>6, <1>7 DEF WithToken
<1>22. S = WithSpare /\ WithSpare \subseteq Make
  BY <1>6, <1>7 DEF WithSpare
<1>23. /\ I = (IF s = NoMake THEN Idle ELSE Idle \cup {s})
       /\ s \notin Idle /\ Idle \subseteq Make
  <2>1. \A k \in Make \ {s} : k \in I <=> k \in Idle
    BY <1>1, <1>9 DEF Idle
  <2>2. s \in Make => s \in I
    BY <1>1, <1>6, <1>9 DEF Idle
  <2>3. s \notin Idle /\ Idle \subseteq Make /\ I \subseteq Make
    BY <1>9 DEF Idle
  <2> HIDE DEF I
  <2> QED
    BY <1>6, <2>1, <2>2, <2>3
<1> HIDE DEF W, T, S, I
<1>24. /\ Cardinality(W) = Cardinality(Work) + (IF s = NoMake THEN 1 ELSE 0)
       /\ Cardinality(Work) \in Nat
  <2>1. IsFiniteSet(Work) /\ Cardinality(Work) \in Nat
    BY <1>20, SubsetsFinite
  <2>2. Cardinality(Work \cup {c}) = Cardinality(Work) + 1
    BY <1>20, <2>1, OneMore
  <2>3. CASE s = NoMake
    BY <1>20, <2>1, <2>2, <2>3
  <2>4. CASE s # NoMake
    BY <1>20, <2>1, <2>4
  <2> QED
    BY <2>3, <2>4
<1>25. Cardinality(T) = Cardinality(WithToken) - 1 /\ Cardinality(WithToken) \in Nat
  <2>1. IsFiniteSet(WithToken)
    BY <1>21, SubsetsFinite
  <2>2. /\ Cardinality(WithToken \ {m}) = Cardinality(WithToken) - 1
        /\ Cardinality(WithToken) \in Nat
    BY <1>21, <2>1, OneLess
  <2> QED
    BY <1>21, <2>2
<1>26. Cardinality(S) = Cardinality(WithSpare) /\ Cardinality(WithSpare) \in Nat
  BY <1>22, SubsetsFinite
<1>27. /\ Cardinality(I) = Cardinality(Idle) + (IF s = NoMake THEN 0 ELSE 1)
       /\ Cardinality(Idle) \in Nat
  <2>1. IsFiniteSet(Idle) /\ Cardinality(Idle) \in Nat
    BY <1>23, SubsetsFinite
  <2>2. Cardinality(Idle \cup {s}) = Cardinality(Idle) + 1
    BY <1>23, <2>1, OneMore
  <2>3. CASE s = NoMake
    BY <1>23, <2>1, <2>3
  <2>4. CASE s # NoMake
    BY <1>23, <2>1, <2>2, <2>4
  <2> QED
    BY <2>3, <2>4
<1> DEFINE B == Cardinality(Bytes(pool))
<1>28. B \in Nat
  BY <1>4, BytesWritten DEF ProcessTypes
<1>29. /\ Slots = B + Cardinality(Work)
                    + (Cardinality(WithToken) + Cardinality(WithSpare) + Cardinality(Idle))
       /\ Slots' = B + Cardinality(W) + (Cardinality(T) + Cardinality(S) + Cardinality(I))
  BY <1>1 DEF Slots, HeldByAll, Bytes, W, T, S, I
<1> HIDE DEF B
<1>30. Slots \in Nat /\ Slots' = Slots
  <2>1. CASE s = NoMake
    BY <1>24, <1>25, <1>26, <1>27, <1>28, <1>29, <2>1
  <2>2. CASE s # NoMake
    BY <1>24, <1>25, <1>26, <1>27, <1>28, <1>29, <2>2
  <2> QED
    BY <2>1, <2>2
<1>31. Live(Root)' <=> Live(Root)
  BY <1>6, <1>9, MakeAssumption
<1>32. Kept
  BY <1>30, <1>31 DEF Kept
<1> QED
  BY <1>3, <1>19, <1>32

\* DieHorribly: the token is lost, and the job that has run m is to be reaped.
LEMMA DieHorriblyKept ==
    ASSUME NodesOK, ProcessesOK, NEW m \in Make, DieHorribly(m)
    PROVE  NodesOK' /\ ProcessesOK' /\ Kept
<1>a. PICK c : c = Candidate(m)
  OBVIOUS
<1>b. PICK killed : killed = {Sub(n) : n \in {k \in Node : MakeOf[k] = m /\ job[k] = "running"}}
  OBVIOUS
<1>1. /\ Examining(m) /\ unmade[c] = 0 /\ made' = [made EXCEPT ![c] = "beingmade"]
      /\ checked' = checked /\ toBeMade' = [toBeMade EXCEPT ![m] = Tail(@)]
      /\ job' = [n \in Node |-> IF MakeOf[n] = m THEN "none"
                                ELSE IF Sub(n) = m THEN "error" ELSE job[n]]
      /\ pc' = [k \in Make |-> IF k \in killed \cup {m} THEN "dead" ELSE pc[k]]
      /\ graph' = graph /\ unmade' = unmade /\ doneOrder' = doneOrder
      /\ keepgoing' = keepgoing /\ running' = running
      /\ aborting' = [aborting EXCEPT ![m] = "error"]
      /\ errors' = errors /\ pool' = pool
  BY <1>a, <1>b DEF DieHorribly, Makeable
<1>2. c \in Node /\ MakeOf[c] = m /\ made[c] = "requested"
  BY <1>1, <1>a, CandidateFacts
<1>3. NodesOK'
  <2> DEFINE st == "beingmade"
  <2>1. /\ st \in {"deferred", "beingmade"} /\ (st = "beingmade" => unmade[c] = 0)
        /\ made' = [made EXCEPT ![c] = st] /\ checked' \subseteq Node
    BY <1>1, <1>2 DEF NodesOK
  <2> HIDE DEF st
  <2> QED
    BY <1>1, <1>a, <2>1, TakeStep
<1>4. /\ JobsBeingMade /\ SubsOff /\ SubsLive /\ SubsRunning /\ RunningCounts /\ NoneRunning
      /\ ProcessTypes /\ pc \in [Make -> Locations]
      /\ job \in [Node -> {"none", "running", "ok", "error"}]
  BY DEF ProcessesOK, ProcessTypes
<1>5. /\ \A n \in Node : MakeOf[n] \in Make /\ (Sub(n) # NoMake => Sub(n) \in Make \ {Root})
      /\ \A n, k \in Node : Sub(n) = Sub(k) /\ n # k => Sub(n) = NoMake
      /\ NoMake \notin Make /\ Root \in Make
  BY NodeAssumption, MakeAssumption DEF NodesOK, GraphOK, Sub
<1>6. pc[m] = "token" /\ Live(m)
  BY <1>1 DEF Examining, Live, Ended
<1>7. \A n \in Node : Sub(n) = m => job[n] = "running"
  <2> SUFFICES ASSUME NEW n \in Node, Sub(n) = m
               PROVE  job[n] = "running"
    OBVIOUS
  <2>1. m # Root
    BY <1>5
  <2>2. PICK k \in Node : Sub(k) = m /\ job[k] = "running"
    BY <1>4, <1>6, <2>1 DEF SubsRunning
  <2> QED
    BY <1>5, <2>2
<1>8. /\ \A k \in Make \ (killed \cup {m}) : pc'[k] = pc[k]
      /\ \A k \in Make : k \in killed \cup {m} => pc'[k] = "dead"
      /\ pc' \in [Make -> Locations]
      /\ \A n \in Node : job'[n] = IF MakeOf[n] = m THEN "none"
                                    ELSE IF Sub(n) = m THEN "error" ELSE job[n]
      /\ job' \in [Node -> {"none", "running", "ok", "error"}]
      /\ aborting' \in [Make -> {"no", "error", "wait"}]
      /\ made'[c] = "beingmade" /\ \A n \in Node \ {c} : made'[n] = made[n]
  BY <1>1, <1>2, <1>4 DEF ProcessTypes, NodesOK, Locations
<1>9. ProcessTypes'
  BY <1>1, <1>4, <1>8 DEF ProcessTypes
<1>10. \A k \in Make : Live(k)' => Live(k) /\ k \notin killed \cup {m}
  BY <1>8 DEF Live, Ended
<1>11. JobsBeingMade'
  BY <1>4, <1>7, <1>8 DEF JobsBeingMade
<1>12. SubsOff'
  <2> SUFFICES ASSUME NEW n \in Node, Sub(n) # NoMake, made'[n] \notin Built \cup {"beingmade"}
               PROVE  pc'[Sub(n)] = "off"
    BY <1>1 DEF SubsOff, Sub, Built
  <2>1. made[n] \notin Built \cup {"beingmade"} /\ pc[Sub(n)] = "off"
    BY <1>4, <1>8 DEF SubsOff
  <2>2. job[n] # "running"
    BY <1>4, <2>1 DEF JobsBeingMade
  <2>3. Sub(n) \notin killed
    BY <1>5, <1>b, <2>2
  <2> QED
    BY <1>5, <1>6, <1>8, <2>1, <2>3
<1>13. SubsLive'
  <2> SUFFICES ASSUME NEW n \in Node, job'[n] = "running", Sub(n) # NoMake
               PROVE  pc'[Sub(n)] \notin Ended \cup {"off"}
    BY <1>1 DEF SubsLive, Live, Sub, Ended
  <2>1. job[n] = "running" /\ MakeOf[n] # m /\ Sub(n) # m
    BY <1>8
  <2>2. Sub(n) \notin killed
    BY <1>5, <1>b, <2>1
  <2> QED
    BY <1>4, <1>5, <1>8, <2>1, <2>2 DEF SubsLive, Live
<1>14. SubsRunning'
  <2> SUFFICES ASSUME NEW k \in Make \ {Root}, Live(k)'
               PROVE  \E n \in Node : Sub(n) = k /\ job'[n] = "running"
    BY <1>1 DEF SubsRunning, Sub
  <2>1. Live(k) /\ k \notin killed /\ k # m
    BY <1>10
  <2>2. PICK n \in Node : Sub(n) = k /\ job[n] = "running"
    BY <1>4, <2>1 DEF SubsRunning
  <2>3. MakeOf[n] # m
    BY <1>b, <2>1, <2>2
  <2> QED
    BY <1>8, <2>1, <2>2, <2>3
<1>15. \A k \in Make \ {m} : Jobs(k)' = Jobs(k)
  BY <1>7, <1>8 DEF Jobs
<1>16. RunningCounts'
  <2> SUFFICES ASSUME NEW k \in Make, pc'[k] # "dead"
               PROVE  running'[k] = Cardinality(Jobs(k)') + (IF pc'[k] = "token" THEN 1 ELSE 0)
    BY DEF RunningCounts
  <2>1. k # m /\ pc'[k] = pc[k]
    BY <1>8
  <2> QED
    BY <1>1, <1>4, <1>15, <2>1 DEF RunningCounts
<1>17. NoneRunning'
  <2>1. \A k \in Make : pc'[k] \in {"off", "spare", "made", "failed", "unbuilt"} => pc'[k] = pc[k]
    BY <1>8
  <2> QED
    BY <1>1, <1>4, <2>1 DEF NoneRunning
<1>18. ProcessesOK'
  BY <1>9, <1>11, <1>12, <1>13, <1>14, <1>16, <1>17 DEF ProcessesOK
<1> DEFINE W == Work'
           T == WithToken'
           S == WithSpare'
           I == Idle'
<1>19. /\ \A n \in W : n \in Work \/ Sub(n) = m
       /\ W \subseteq Node /\ Work \subseteq Node
  <2>1. W \subseteq Node /\ Work \subseteq Node
    BY DEF Work, Unreaped
  <2>2. ASSUME NEW n \in W, Sub(n) # m
        PROVE  n \in Work
    <3>1. n \in Node /\ job'[n] # "none" /\ Live(MakeOf[n])'
          /\ (job'[n] # "running" \/ Sub(n) = NoMake)
      BY <1>1 DEF Work, Unreaped, Sub
    <3>2. job'[n] = job[n]
      BY <1>8, <2>2, <3>1
    <3>3. Live(MakeOf[n])
      BY <1>5, <1>10, <3>1 DEF Live
    <3> QED
      BY <3>1, <3>2, <3>3 DEF Work, Unreaped
  <2> HIDE DEF W
  <2> QED
    BY <2>1, <2>2
<1>20. T \subseteq WithToken \ {m} /\ m \in WithToken /\ WithToken \subseteq Make
  BY <1>6, <1>8 DEF WithToken
<1>21. S \subseteq WithSpare /\ WithSpare \subseteq Make
  BY <1>8 DEF WithSpare
<1>22. I \subseteq Idle /\ Idle \subseteq Make
  BY <1>1, <1>10 DEF Idle
<1> HIDE DEF W, T, S, I
<1>23. /\ Cardinality(W) \in Nat /\ Cardinality(Work) \in Nat
       /\ Cardinality(W) <= Cardinality(Work) + 1
  <2>1. IsFiniteSet(Work) /\ Cardinality(Work) \in Nat /\ Cardinality(W) \in Nat
    BY <1>19, SubsetsFinite
  <2>2. CASE \E n \in Node : Sub(n) = m
    <3>1. PICK n \in Node : Sub(n) = m
      BY <2>2
    <3>2. W \subseteq Work \cup {n}
      BY <1>5, <1>19, <3>1
    <3>3. n \notin Work
      BY <1>5, <1>7, <3>1 DEF Work
    <3> DEFINE V == Work \cup {n}
    <3>4. IsFiniteSet(V) /\ Cardinality(V) = Cardinality(Work) + 1
      BY <1>19, <2>1, <3>3, OneMore, SubsetsFinite
    <3>5. W \subseteq V
      BY <3>2
    <3> HIDE DEF V
    <3>6. Cardinality(W) <= Cardinality(V)
      BY <3>4, <3>5, FS_Subset
    <3> QED
      BY <2>1, <3>4, <3>6
  <2>3. CASE ~\E n \in Node : Sub(n) = m
    <3>1. W \subseteq Work
      BY <1>19, <2>3
    <3>2. Cardinality(W) <= Cardinality(Work)
      BY <2>1, <3>1, FS_Subset
    <3> QED
      BY <2>1, <3>2
  <2> QED
    BY <2>2, <2>3
<1>24. /\ Cardinality(T) \in Nat /\ Cardinality(WithToken) \in Nat
       /\ Cardinality(T) <= Cardinality(WithToken) - 1
  <2> DEFINE V == WithToken \ {m}
  <2>1. IsFiniteSet(WithToken) /\ T \subseteq Make
    BY <1>20, SubsetsFinite
  <2>2. Cardinality(V) = Cardinality(WithToken) - 1 /\ Cardinality(WithToken) \in Nat
    BY <1>20, <2>1, OneLess
  <2>3. IsFiniteSet(V) /\ T \subseteq V
    BY <1>20, <2>1, FS_Subset
  <2> HIDE DEF V
  <2>4. Cardinality(T) <= Cardinality(V) /\ Cardinality(T) \in Nat
    BY <2>1, <2>3, FS_Subset, SubsetsFinite
  <2> QED
    BY <2>2, <2>4
<1>25. /\ Cardinality(S) \in Nat /\ Cardinality(WithSpare) \in Nat
       /\ Cardinality(S) <= Cardinality(WithSpare)
  <2>1. IsFiniteSet(WithSpare) /\ S \subseteq Make
    BY <1>21, SubsetsFinite
  <2> QED
    BY <1>21, <2>1, FS_Subset, SubsetsFinite
<1>26. /\ Cardinality(I) \in Nat /\ Cardinality(Idle) \in Nat
       /\ Cardinality(I) <= Cardinality(Idle)
  <2>1. IsFiniteSet(Idle) /\ I \subseteq Make
    BY <1>22, SubsetsFinite
  <2> QED
    BY <1>22, <2>1, FS_Subset, SubsetsFinite
<1> DEFINE B == Cardinality(Bytes(pool))
<1>27. B \in Nat
  BY <1>4, BytesWritten DEF ProcessTypes
<1>28. /\ Slots = B + Cardinality(Work)
                    + (Cardinality(WithToken) + Cardinality(WithSpare) + Cardinality(Idle))
       /\ Slots' = B + Cardinality(W) + (Cardinality(T) + Cardinality(S) + Cardinality(I))
  BY <1>1 DEF Slots, HeldByAll, Bytes, W, T, S, I
<1> HIDE DEF B
<1>29. Slots \in Nat /\ Slots' \in Int /\ Slots' <= Slots
  BY <1>23, <1>24, <1>25, <1>26, <1>27, <1>28
<1>30. Died' /\ (Live(Root)' => Live(Root))
  BY <1>5, <1>8, <1>10 DEF Died
<1>31. Kept
  BY <1>29, <1>30 DEF Kept
<1> QED
  BY <1>3, <1>18, <1>31

-----------------------------------------------------------------------------
(* The stopper, and the invariant.                                         *)

\* A stopper that is in the pipe stays there when something is written, and
\* when something else is read.
LEMMA StopperInPipe ==
    ASSUME NEW s \in Seq({"+", "stop"})
    PROVE  /\ \A b \in {"+", "stop"} :
                /\ b \in ToSet(Append(s, b))
                /\ "stop" \in ToSet(s) => "stop" \in ToSet(Append(s, b))
           /\ s # <<>> /\ Head(s) = "+" /\ "stop" \in ToSet(s) => "stop" \in ToSet(Tail(s))
<1>1. ASSUME NEW b \in {"+", "stop"}
      PROVE  b \in ToSet(Append(s, b)) /\ ("stop" \in ToSet(s) => "stop" \in ToSet(Append(s, b)))
  <2> DEFINE t == Append(s, b)
             k == Len(s) + 1
  <2>1. /\ Len(s) \in Nat /\ DOMAIN s = 1..Len(s) /\ DOMAIN t = 1..k /\ t[k] = b
        /\ \A i \in DOMAIN s : i \in DOMAIN t /\ t[i] = s[i]
    OBVIOUS
  <2> HIDE DEF t
  <2>2. k \in DOMAIN t
    BY <2>1
  <2>3. b \in ToSet(t) /\ ("stop" \in ToSet(s) => "stop" \in ToSet(t))
    BY <2>1, <2>2 DEF ToSet
  <2> QED
    BY <2>3 DEF t
<1>2. ASSUME s # <<>>, Head(s) = "+", "stop" \in ToSet(s)
      PROVE  "stop" \in ToSet(Tail(s))
  <2> DEFINE t == Tail(s)
  <2>1. /\ Len(s) \in Nat /\ DOMAIN s = 1..Len(s) /\ s[1] = "+"
        /\ DOMAIN t = 1..(Len(s) - 1) /\ \A i \in DOMAIN t : t[i] = s[i + 1]
    BY <1>2
  <2>2. PICK i \in DOMAIN s : s[i] = "stop"
    BY <1>2 DEF ToSet
  <2>3. i - 1 \in DOMAIN t /\ (i - 1) + 1 = i
    BY <2>1, <2>2
  <2>4. t[i - 1] = "stop"
    BY <2>1, <2>2, <2>3
  <2> QED
    BY <2>3, <2>4 DEF ToSet
<1> QED
  BY <1>1, <1>2

\* What becomes of a stopper, and of a make that has died.
StopperGoes ==
    /\ Stopped => Stopped' \/ \E m \in Make : pc[m] \in {"drain", "stop"} /\ pc'[m] = "dead"
    /\ Died => Died'

\* Steps of a make that puts no stopper and reads none.
LEMMA StopperQuiet ==
    ASSUME ProcessTypes, NEW m, m \in Make => pc[m] \notin {"drain", "stop", "dead"},
           \A k \in Make \ {m} : pc[k] \in {"drain", "stop", "dead"} => pc'[k] = pc[k],
           pool' = pool \/ pool' = Append(pool, "+")
             \/ (pool # <<>> /\ Head(pool) = "+" /\ pool' = Tail(pool))
    PROVE  StopperGoes
<1>1. pool \in Seq({"+", "stop"})
  BY DEF ProcessTypes
<1>2. "stop" \in ToSet(pool) => "stop" \in ToSet(pool')
  BY <1>1, StopperInPipe
<1>3. \A k \in Make : pc[k] \in {"drain", "stop", "dead"} => pc'[k] = pc[k]
  OBVIOUS
<1>4. Stopped => Stopped'
  BY <1>2, <1>3 DEF Stopped
<1>5. Died => Died'
  BY <1>3 DEF Died
<1> QED
  BY <1>4, <1>5 DEF StopperGoes

\* Steps of one that does.
LEMMA StopperHeld ==
    ASSUME NEW m \in Make, pc[m] # "dead", Stopped',
           \A k \in Make \ {m} : pc'[k] = pc[k]
    PROVE  StopperGoes
BY DEF StopperGoes, Died

\* A stopper goes only with a make that dies, in every step.
LEMMA StopperStep ==
    ASSUME NodesOK, ProcessesOK, Next
    PROVE  StopperGoes
<1>1. /\ ProcessTypes /\ pc \in [Make -> Locations] /\ pool \in Seq({"+", "stop"})
      /\ pool # <<>> => Head(pool) \in {"+", "stop"}
  BY BytesRead DEF ProcessesOK, ProcessTypes
<1>2. ASSUME NEW n \in Node, JobExits(n)
      PROVE  StopperGoes
  <2>1. pc' = pc /\ pool' = pool
    BY <1>2 DEF JobExits
  <2> QED
    BY <2>1 DEF StopperGoes, Stopped, Died
<1>3. ASSUME NEW m \in Make, TokenWithdraw(m)
      PROVE  StopperGoes
  <2>1. pc[m] = "start" /\ \A k \in Make \ {m} : pc'[k] = pc[k]
    BY <1>1, <1>3 DEF TokenWithdraw, Goto
  <2>2. CASE pool # <<>> /\ Head(pool) = "stop"
    <3>1. pc'[m] = "drain"
      BY <1>1, <1>3, <2>2 DEF TokenWithdraw, Goto
    <3> QED
      BY <2>1, <3>1, StopperHeld DEF Stopped
  <2>3. CASE pool = <<>> \/ Head(pool) = "+"
    <3>1. pool' = pool \/ (pool # <<>> /\ Head(pool) = "+" /\ pool' = Tail(pool))
      BY <1>3, <2>3 DEF TokenWithdraw
    <3> QED
      BY <1>1, <2>1, <3>1, StopperQuiet
  <2> QED
    BY <1>1, <2>2, <2>3
<1>4. ASSUME NEW m \in Make, SpareReturned(m) \/ NoCommands(m)
      PROVE  StopperGoes
  <2>1. /\ pc[m] \in {"spare", "token"} /\ \A k \in Make \ {m} : pc'[k] = pc[k]
        /\ pool' = pool \/ pool' = Append(pool, "+")
    BY <1>1, <1>4 DEF SpareReturned, NoCommands, Makeable, Examining, TokenReturn, Goto
  <2> QED
    BY <1>1, <2>1, StopperQuiet
<1>5. ASSUME NEW m \in Make, AlreadyChecked(m) \/ ScheduleChildren(m) \/ UpToDate(m)
      PROVE  StopperGoes
  <2>1. pc' = pc /\ pool' = pool
    BY <1>5 DEF AlreadyChecked, ScheduleChildren, UpToDate, jobVars
  <2> QED
    BY <2>1 DEF StopperGoes, Stopped, Died
<1>6. ASSUME NEW m \in Make, Drain(m) \/ Drained(m)
      PROVE  StopperGoes
  <2>1. /\ pc[m] = "drain" /\ pc'[m] \in {"drain", "stop"}
        /\ \A k \in Make \ {m} : pc'[k] = pc[k]
    BY <1>1, <1>6 DEF Drain, Drained, Goto
  <2> QED
    BY <2>1, StopperHeld DEF Stopped
<1>7. ASSUME NEW m \in Make, Stop(m)
      PROVE  StopperGoes
  <2>1. pc[m] = "stop" /\ pool' = Append(pool, "stop") /\ \A k \in Make \ {m} : pc'[k] = pc[k]
    BY <1>1, <1>7 DEF Stop, Exit, Goto
  <2>2. Stopped'
    BY <1>1, <2>1, StopperInPipe DEF Stopped
  <2> QED
    BY <2>1, <2>2, StopperHeld
<1>8. ASSUME NEW m \in Make, JobExec(m)
      PROVE  StopperGoes
  <2>1. Examining(m) /\ pool' = pool
        /\ pc' = [k \in Make |-> IF k = m \/ k = Sub(Candidate(m)) THEN "start" ELSE pc[k]]
    BY <1>8 DEF JobExec, Makeable
  <2>2. Candidate(m) \in Node /\ made[Candidate(m)] = "requested"
    BY <2>1, CandidateFacts
  <2>3. Sub(Candidate(m)) # NoMake => pc[Sub(Candidate(m))] = "off"
    BY <2>2 DEF ProcessesOK, SubsOff, Built
  <2>4. \A k \in Make \ {m} : pc[k] \in {"drain", "stop", "dead"} => pc'[k] = pc[k]
    BY <2>1, <2>3, MakeAssumption
  <2> QED
    BY <1>1, <2>1, <2>4, StopperQuiet DEF Examining
<1>9. ASSUME NEW m \in Make, DieHorribly(m)
      PROVE  StopperGoes
  <2>1. /\ Examining(m) /\ pool' = pool /\ pc'[m] = "dead"
        /\ \A k \in Make : pc'[k] = pc[k] \/ pc'[k] = "dead"
    BY <1>9 DEF DieHorribly, Makeable
  <2>2. Died'
    BY <2>1 DEF Died
  <2> QED
    BY <2>1, <2>2 DEF StopperGoes, Stopped, Died
<1>10. ASSUME NEW m \in Make, StartedJobs(m) \/ Caught(m)
       PROVE  StopperGoes
  <2>1. /\ pc[m] \in {"start", "token", "poll"} /\ \A k \in Make \ {m} : pc'[k] = pc[k]
        /\ pool' = pool \/ pool' = Append(pool, "+")
    BY <1>1, <1>10 DEF StartedJobs, Caught, Finish, Exit, TokenReturn, Goto
  <2> QED
    BY <1>1, <2>1, StopperQuiet
<1>11. ASSUME NEW m \in Make, NEW n \in Node, JobSucceeded(m, n) \/ JobFailed(m, n)
       PROVE  StopperGoes
  <2>1. /\ pc[m] = "poll" /\ \A k \in Make \ {m} : pc'[k] = pc[k]
        /\ pool' = pool \/ pool' = Append(pool, "+")
    BY <1>1, <1>11 DEF JobSucceeded, JobFailed, TokenReturn, Goto
  <2> QED
    BY <1>1, <2>1, StopperQuiet
<1> QED
  BY <1>2, <1>3, <1>4, <1>5, <1>6, <1>7, <1>8, <1>9, <1>10, <1>11 DEF Next, Step

\* A step of the program preserves the invariant.
LEMMA StepOK ==
    ASSUME NodesOK, ProcessesOK, Next
    PROVE  NodesOK' /\ ProcessesOK' /\ Kept
<1>1. ASSUME NEW n \in Node, JobExits(n)
      PROVE  NodesOK' /\ ProcessesOK' /\ Kept
  BY <1>1, JobExitsKept
<1>2. ASSUME NEW m \in Make, TokenWithdraw(m)
      PROVE  NodesOK' /\ ProcessesOK' /\ Kept
  BY <1>2, TokenWithdrawKept, NodesFrame DEF TokenWithdraw
<1>3. ASSUME NEW m \in Make, SpareReturned(m)
      PROVE  NodesOK' /\ ProcessesOK' /\ Kept
  BY <1>3, SpareReturnedKept, NodesFrame DEF SpareReturned
<1>4. ASSUME NEW m \in Make, Drain(m) \/ Drained(m)
      PROVE  NodesOK' /\ ProcessesOK' /\ Kept
  BY <1>4, DrainKept, NodesFrame DEF Drain, Drained
<1>5. ASSUME NEW m \in Make, Stop(m)
      PROVE  NodesOK' /\ ProcessesOK' /\ Kept
  BY <1>5, StopKept, NodesFrame DEF Stop
<1>6. ASSUME NEW m \in Make, AlreadyChecked(m) \/ ScheduleChildren(m) \/ UpToDate(m)
      PROVE  NodesOK' /\ ProcessesOK' /\ Kept
  BY <1>6, AlreadyCheckedKept, ScheduleChildrenKept, UpToDateKept
<1>7. ASSUME NEW m \in Make, NoCommands(m) \/ JobExec(m) \/ DieHorribly(m)
      PROVE  NodesOK' /\ ProcessesOK' /\ Kept
  BY <1>7, NoCommandsKept, JobExecKept, DieHorriblyKept
<1>8. ASSUME NEW m \in Make, StartedJobs(m)
      PROVE  NodesOK' /\ ProcessesOK' /\ Kept
  BY <1>8, StartedJobsKept, NodesFrame DEF StartedJobs
<1>9. ASSUME NEW m \in Make, NEW n \in Node, JobSucceeded(m, n)
      PROVE  NodesOK' /\ ProcessesOK' /\ Kept
  BY <1>9, JobSucceededKept
<1>10. ASSUME NEW m \in Make, NEW n \in Node, JobFailed(m, n)
       PROVE  NodesOK' /\ ProcessesOK' /\ Kept
  BY <1>10, JobFailedKept, NodesFrame DEF JobFailed
<1>11. ASSUME NEW m \in Make, Caught(m)
       PROVE  NodesOK' /\ ProcessesOK' /\ Kept
  BY <1>11, CaughtKept, NodesFrame DEF Caught
<1> QED
  BY <1>1, <1>2, <1>3, <1>4, <1>5, <1>6, <1>7, <1>8, <1>9, <1>10, <1>11 DEF Next, Step

\* The invariant is inductive.
LEMMA NextInv ==
    ASSUME Inv, [Next]_vars
    PROVE  /\ Inv'
           /\ Stopped =>
                 Stopped' \/ \E m \in Make : pc[m] \in {"drain", "stop"} /\ pc'[m] = "dead"
<1>1. CASE Next
  <2>1. NodesOK' /\ ProcessesOK' /\ Kept /\ StopperGoes
    BY <1>1, StepOK, StopperStep DEF Inv
  <2>2. MaxJobs \in Nat /\ Slots \in Nat /\ Slots' \in Int
    BY <2>1, BoundsAssumption DEF Kept
  <2>3. ~Stopped' /\ ~Died' => ~Stopped /\ ~Died
    BY <2>1 DEF StopperGoes, Died
  <2>4. Slots' <= MaxJobs
    BY <2>1, <2>2 DEF Kept, Inv, SlotsKept
  <2>5. ASSUME ~Stopped', ~Died'
        PROVE  Slots' = (IF Live(Root)' THEN MaxJobs ELSE MaxJobs - 1)
    <3>1. Slots = (IF Live(Root) THEN MaxJobs ELSE MaxJobs - 1)
      BY <2>3, <2>5 DEF Inv, SlotsKept
    <3>2. /\ Slots' = Slots - (IF Live(Root) /\ ~Live(Root)' THEN 1 ELSE 0)
          /\ Live(Root)' => Live(Root)
      BY <2>1, <2>5 DEF Kept
    <3> QED
      BY <2>2, <3>1, <3>2
  <2>6. SlotsKept'
    BY <2>4, <2>5 DEF SlotsKept
  <2> QED
    BY <2>1, <2>6 DEF Inv, StopperGoes
<1>2. CASE UNCHANGED vars
  <2>1. UNCHANGED <<graph, keepgoing, pc, made, unmade, checked, doneOrder, toBeMade, job,
                    running, aborting, errors, pool>>
    BY <1>2 DEF vars, graphVars, jobVars
  <2>2. NodesOK'
    BY <2>1, NodesFrame DEF Inv, graphVars
  <2>3. ProcessesOK'
    BY <2>1 DEF Inv, ProcessesOK, ProcessTypes, JobsBeingMade, SubsOff, SubsLive, SubsRunning,
                RunningCounts, NoneRunning, Jobs, Live, Sub
  <2>4. SlotsKept' /\ (Stopped => Stopped')
    BY <2>1 DEF Inv, SlotsKept, Slots, HeldByAll, Bytes, Work, Unreaped, WithToken, WithSpare,
                Idle, Live, Sub, Stopped, Died
  <2> QED
    BY <2>2, <2>3, <2>4 DEF Inv
<1> QED
  BY <1>1, <1>2

-----------------------------------------------------------------------------
(* What the invariant implies.                                             *)

\* Each requested node is in the queue once, and no other node is.
LEMMA InvQueue ==
    ASSUME Inv
    PROVE  QueueRequested
<1> SUFFICES ASSUME NEW m \in Make, NEW n \in Node, MakeOf[n] = m
             PROVE  Cardinality({i \in DOMAIN toBeMade[m] : toBeMade[m][i] = n})
                      = (IF made[n] = "requested" THEN 1 ELSE 0)
  BY DEF QueueRequested
<1> DEFINE q == toBeMade[m]
           P == {i \in DOMAIN q : q[i] = n}
<1>1. Lists(q, Requested(m))
  BY DEF Inv, NodesOK, QueueLists
<1>2. CASE made[n] = "requested"
  <2>1. n \in Requested(m)
    BY <1>2 DEF Requested
  <2>2. PICK i \in DOMAIN q : q[i] = n
    BY <1>1, <2>1 DEF Lists
  <2>3. P = {i}
    BY <1>1, <2>2 DEF Lists
  <2>4. Cardinality({i}) = 1
    BY FS_Singleton
  <2> HIDE DEF P
  <2>5. Cardinality(P) = 1
    BY <2>3, <2>4
  <2> QED
    BY <1>2, <2>5 DEF P
<1>3. CASE made[n] # "requested"
  <2>1. n \notin Requested(m)
    BY <1>3 DEF Requested
  <2>2. P = {}
    BY <1>1, <2>1 DEF Lists
  <2> HIDE DEF P
  <2>3. Cardinality(P) = 0
    BY <2>2, FS_EmptySet
  <2> QED
    BY <1>3, <2>3 DEF P
<1> QED
  BY <1>2, <1>3

\* Commands that run take slots.
LEMMA InvJobs ==
    ASSUME Inv
    PROVE  JobsBounded
<1>1. Commands \subseteq Work /\ IsFiniteSet(Work)
  <2>1. Work \subseteq Node
    BY DEF Work, Unreaped
  <2>2. Commands \subseteq Work
    BY DEF Commands, Work, Unreaped
  <2> QED
    BY <2>1, <2>2, SubsetsFinite
<1>2. Cardinality(Commands) <= Cardinality(Work)
  BY <1>1, FS_Subset
<1>3. /\ Cardinality(Commands) \in Nat /\ Cardinality(Work) \in Nat
      /\ Cardinality(WithToken) \in Nat /\ Cardinality(WithSpare) \in Nat
      /\ Cardinality(Idle) \in Nat /\ Cardinality(Bytes(pool)) \in Nat
  <2>1. Commands \subseteq Node /\ Work \subseteq Node
    BY DEF Commands, Work, Unreaped
  <2>2. WithToken \subseteq Make /\ WithSpare \subseteq Make /\ Idle \subseteq Make
    BY DEF WithToken, WithSpare, Idle
  <2>3. Cardinality(Bytes(pool)) \in Nat
    BY BytesWritten DEF Inv, ProcessesOK, ProcessTypes
  <2> QED
    BY <2>1, <2>2, <2>3, SubsetsFinite
<1>4. Slots <= MaxJobs /\ MaxJobs \in Nat
  BY BoundsAssumption DEF Inv, SlotsKept
<1>5. Cardinality(Commands) <= MaxJobs
  BY <1>2, <1>3, <1>4 DEF Slots, HeldByAll
<1> QED
  BY <1>5 DEF JobsBounded

\* The jobs that are makes are as many as the makes but the first one, and all
\* makes are busy or idle: the slots are the tokens.
LEMMA InvTokens ==
    ASSUME Inv
    PROVE  TokensKept
<1> SUFFICES ASSUME ~Stopped, ~Died
             PROVE  Len(pool) + Cardinality(Unreaped) + Cardinality(WithToken)
                      + Cardinality(WithSpare) = MaxJobs - 1 + Cardinality(Busy)
  BY DEF TokensKept
<1> DEFINE L == {m \in Make : Live(m)}
           S == {n \in Unreaped : job[n] = "running" /\ Sub(n) # NoMake}
           live == IF Live(Root) THEN 1 ELSE 0
<1>1. /\ ProcessTypes /\ pool \in Seq({"+", "stop"}) /\ MaxJobs \in Nat
      /\ SubsLive /\ SubsRunning /\ RunningCounts /\ NoneRunning
  BY BoundsAssumption DEF Inv, ProcessesOK, ProcessTypes
<1>2. /\ \A n \in Node : MakeOf[n] \in Make /\ (Sub(n) # NoMake => Sub(n) \in Make \ {Root})
      /\ \A n, k \in Node : Sub(n) = Sub(k) /\ n # k => Sub(n) = NoMake
      /\ NoMake \notin Make /\ Root \in Make
  BY NodeAssumption, MakeAssumption DEF Inv, NodesOK, GraphOK, Sub
<1>3. \A m \in Make : pc[m] # "dead"
  BY DEF Died
<1>4. Cardinality(Bytes(pool)) = Len(pool) /\ Len(pool) \in Nat
  <2>1. Len(pool) \in Nat /\ DOMAIN pool = 1..Len(pool)
    BY <1>1
  <2>2. \A i \in DOMAIN pool : pool[i] = "+"
    <3>1. \A i \in DOMAIN pool : pool[i] \in {"+", "stop"} /\ pool[i] \in ToSet(pool)
      BY <1>1 DEF ToSet
    <3> QED
      BY <3>1 DEF Stopped
  <2>3. Bytes(pool) = 1..Len(pool)
    BY <2>1, <2>2 DEF Bytes
  <2>4. \A k \in Nat : Cardinality(1..k) = k
    <3> TAKE k \in Nat
    <3>1. 1 \in Int /\ k \in Int
      OBVIOUS
    <3>2. Cardinality(1..k) = (IF 1 > k THEN 0 ELSE k - 1 + 1)
      BY ONLY <3>1, FS_Interval
    <3> QED
      BY <3>2
  <2> QED
    BY <2>1, <2>3, <2>4
<1>5. /\ Unreaped = Work \cup S /\ Work \cap S = {}
      /\ Unreaped \subseteq Node /\ Work \subseteq Node /\ S \subseteq Node
  BY DEF Work, Unreaped
<1>6. /\ L = Busy \cup Idle /\ Busy \cap Idle = {}
      /\ L \subseteq Make /\ Busy \subseteq Make /\ Idle \subseteq Make
  <2>1. ASSUME NEW m \in Make
        PROVE  running[m] = 0 <=> Jobs(m) = {} /\ pc[m] # "token"
    <3>1. running[m] = Cardinality(Jobs(m)) + (IF pc[m] = "token" THEN 1 ELSE 0)
      BY <1>1, <1>3 DEF RunningCounts
    <3>2. running[m] = 0 => Jobs(m) = {} /\ pc[m] # "token"
      BY <1>3, TokenRuns DEF Inv
    <3>3. Jobs(m) = {} /\ pc[m] # "token" => running[m] = 0
      BY <3>1, FS_EmptySet
    <3> QED
      BY <3>2, <3>3
  <2> QED
    BY <2>1 DEF Busy, Idle
<1>7. \A n \in Node : n \in S <=> job[n] = "running" /\ Sub(n) # NoMake
  <2> SUFFICES ASSUME NEW n \in Node, job[n] = "running"
               PROVE  Live(MakeOf[n])
    BY DEF Unreaped
  <2>1. n \in Jobs(MakeOf[n]) /\ MakeOf[n] \in Make
    BY <1>2 DEF Jobs
  <2>2. running[MakeOf[n]] # 0
    BY <1>3, <2>1, TokenRuns DEF Inv
  <2> QED
    BY <1>1, <1>3, <2>1, <2>2 DEF NoneRunning, Live, Ended
<1>8. Cardinality(S) = Cardinality(L \ {Root})
  <2> DEFINE M == L \ {Root}
             f == [n \in S |-> Sub(n)]
  <2>1. \A n \in S : Sub(n) \in M
    BY <1>1, <1>2, <1>5, <1>7 DEF SubsLive
  <2>2. \A n, k \in S : Sub(n) = Sub(k) => n = k
    BY <1>2, <1>5, <1>7
  <2>3. \A m \in M : \E n \in S : Sub(n) = m
    BY <1>1, <1>2, <1>7 DEF SubsRunning
  <2>4. IsFiniteSet(S)
    BY <1>5, SubsetsFinite
  <2> HIDE DEF S, M
  <2>5. /\ f \in [S -> M]
        /\ \A n, k \in S : f[n] = f[k] => n = k
        /\ \A m \in M : \E n \in S : f[n] = m
    BY <2>1, <2>2, <2>3
  <2> HIDE DEF f
  <2>6. f \in Bijection(S, M)
    BY <2>5 DEF Bijection, Injection, Surjection, IsInjective
  <2>7. Cardinality(M) = Cardinality(S)
    BY <2>4, <2>6, FS_Bijection DEF ExistsBijection
  <2> QED
    BY <2>7 DEF M
<1>9. Cardinality(L \ {Root}) = Cardinality(L) - live /\ Cardinality(L) \in Nat
  <2>1. IsFiniteSet(L) /\ Cardinality(L) \in Nat /\ (Root \in L <=> Live(Root))
    BY <1>2, SubsetsFinite
  <2> HIDE DEF L
  <2>2. CASE Live(Root)
    BY <2>1, <2>2, OneLess
  <2>3. CASE ~Live(Root)
    <3>1. L \ {Root} = L
      BY <2>1, <2>3
    <3>2. Cardinality(L \ {Root}) = Cardinality(L)
      BY <3>1
    <3> QED
      BY <2>1, <2>3, <3>2
  <2> QED
    BY <2>2, <2>3
<1>10. Cardinality(Unreaped) = Cardinality(Work) + Cardinality(S)
       /\ Cardinality(Work) \in Nat /\ Cardinality(S) \in Nat
  <2>1. IsFiniteSet(Work) /\ IsFiniteSet(S) /\ Cardinality(Work) \in Nat /\ Cardinality(S) \in Nat
    BY <1>5, SubsetsFinite
  <2> HIDE DEF S
  <2>2. Cardinality(Work \cup S) = Cardinality(Work) + Cardinality(S) - Cardinality(Work \cap S)
    BY <2>1, FS_Union
  <2>3. Cardinality(Work \cap S) = 0
    BY <1>5, FS_EmptySet
  <2>4. Cardinality(Unreaped) = Cardinality(Work \cup S)
    BY <1>5
  <2> QED
    BY <2>1, <2>2, <2>3, <2>4
<1>11. Cardinality(L) = Cardinality(Busy) + Cardinality(Idle)
       /\ Cardinality(Busy) \in Nat /\ Cardinality(Idle) \in Nat
  <2>1. /\ IsFiniteSet(Busy) /\ IsFiniteSet(Idle)
        /\ Cardinality(Busy) \in Nat /\ Cardinality(Idle) \in Nat
    BY <1>6, SubsetsFinite
  <2> HIDE DEF L
  <2>2. Cardinality(Busy \cup Idle)
          = Cardinality(Busy) + Cardinality(Idle) - Cardinality(Busy \cap Idle)
    BY <2>1, FS_Union
  <2>3. Cardinality(Busy \cap Idle) = 0
    BY <1>6, FS_EmptySet
  <2>4. Cardinality(L) = Cardinality(Busy \cup Idle)
    BY <1>6
  <2> QED
    BY <2>1, <2>2, <2>3, <2>4
<1>12. Cardinality(WithToken) \in Nat /\ Cardinality(WithSpare) \in Nat
  <2>1. WithToken \subseteq Make /\ WithSpare \subseteq Make
    BY DEF WithToken, WithSpare
  <2> QED
    BY <2>1, SubsetsFinite
<1>13. Slots = MaxJobs - 1 + live /\ live \in Nat
  BY <1>1 DEF Inv, SlotsKept
<1>14. Slots = Cardinality(Bytes(pool)) + Cardinality(Work)
                 + (Cardinality(WithToken) + Cardinality(WithSpare) + Cardinality(Idle))
  BY DEF Slots, HeldByAll
<1>15. MaxJobs \in Nat
  BY <1>1
<1> HIDE DEF L, S, live
<1> QED
  <2> DEFINE l == Len(pool)
             y == Cardinality(Bytes(pool))
             u == Cardinality(Unreaped)
             w == Cardinality(Work)
             s == Cardinality(S)
             a == Cardinality(L)
             r == Cardinality(L \ {Root})
             b == Cardinality(Busy)
             i == Cardinality(Idle)
             t == Cardinality(WithToken)
             p == Cardinality(WithSpare)
  <2>1. s = r /\ r = a - live /\ a = b + i /\ u = w + s /\ y = l
    BY <1>4, <1>8, <1>9, <1>10, <1>11
  <2>2. Slots = y + w + (t + p + i) /\ Slots = MaxJobs - 1 + live
    BY <1>13, <1>14
  <2>3. /\ l \in Nat /\ w \in Nat /\ s \in Nat /\ a \in Nat /\ b \in Nat
        /\ i \in Nat /\ t \in Nat /\ p \in Nat /\ live \in Nat
    BY <1>4, <1>9, <1>10, <1>11, <1>12, <1>13
  <2> HIDE DEF l, y, u, w, s, a, r, b, i, t, p
  <2>4. l + u + t + p = MaxJobs - 1 + b
    BY ONLY <1>15, <2>1, <2>2, <2>3
  <2> QED
    BY <2>4 DEF l, u, t, p, b

-----------------------------------------------------------------------------
(* Nothing is forgotten.                                                   *)

\* A node that is put back waits for a child or, by .ORDER, for another node,
\* whose Make_Update will find it.
UnbuiltKid(n) == \E k \in ToSet(Kids(n)) : made[k] \notin Built
DeferredWaits ==
    \A n \in Node : made[n] = "deferred" => UnbuiltKid(n) \/ Waiting(n, made)

\* One that was looked at since a job finished will not be ready when it is
\* taken from the queue again.
CheckedWaits ==
    \A n \in checked : made[n] # "unmade" /\ (made[n] = "requested" => UnbuiltKid(n))

\* A node whose children were looked at and will not be before something is
\* made.  Those that were not inspected come after a .WAIT that is not made.
Looked(n) ==
    \/ made[n] = "deferred" /\ ~Waiting(n, made)
    \/ made[n] = "requested" /\ n \in checked
AfterWait(n, j) ==
    \E l \in 1..(j - 1) :
        Kids(n)[l] \in Wait /\ made[Kids(n)[l]] \notin Built \cup {"unmade"}
LooksUpTo(n) == \A j \in DOMAIN Kids(n) : made[Kids(n)[j]] = "unmade" => AfterWait(n, j)
LooksFar == \A n \in Node : Looked(n) => LooksUpTo(n)

\* .MAIN is scheduled, and a .WAIT node never fails.
MainsSeen == \A m \in Make : made[Main[m]] # "unmade"
WaitsMade == \A n \in Wait : made[n] # "beingmade"

\* The lines after Make_ProcessWait: a .WAIT node depends on nothing but what
\* stands before it on its line, the previous .WAIT first.
LinesOK ==
    /\ \A n \in Wait :
          /\ n \in Node /\ graph.order[n] = {}
          /\ \A i \in DOMAIN Kids(n) : Kids(n)[i] \in Wait => i = 1
    /\ \A m \in Make : Main[m] \notin Wait /\ graph.order[Main[m]] = {}
    /\ \A n \in Node \ Wait : \A l \in DOMAIN Kids(n) : Kids(n)[l] \in Wait =>
          \A k \in ToSet(Kids(Kids(n)[l])) : \E j \in 1..(l - 1) : Kids(n)[j] = k

ScheduleInv ==
    DeferredWaits /\ CheckedWaits /\ LooksFar /\ MainsSeen /\ WaitsMade /\ LinesOK

\* A make that is through has emptied its queue, unless it was stopped.
QueuesEmpty ==
    \A m \in Make : pc[m] \in Ended \ {"dead"} /\ aborting[m] = "no" => toBeMade[m] = <<>>

\* In a step that makes no node, the nodes wait for what they have waited for.
LEMMA NoneMade ==
    ASSUME NodesOK, graph' = graph,
           \A k \in Node : /\ made'[k] \in Built <=> made[k] \in Built
                           /\ made'[k] = "unmade" => made[k] = "unmade"
    PROVE  /\ \A n \in Node : /\ UnbuiltKid(n)' <=> UnbuiltKid(n)
                              /\ Waiting(n, made)' <=> Waiting(n, made)
                              /\ LooksUpTo(n) => LooksUpTo(n)'
           /\ MainsSeen => MainsSeen'
           /\ LinesOK => LinesOK'
<1>1. /\ \A n \in Node : \A i \in DOMAIN Kids(n) : Kids(n)[i] \in Node
      /\ \A n \in Node : graph.order[n] \subseteq Node
      /\ \A n \in Node : ToSet(Kids(n)) \subseteq Node
      /\ \A m \in Make : Main[m] \in Node
  BY NodeAssumption DEF NodesOK, GraphOK, Kids, ToSet
<1>2. \A n : Kids(n)' = Kids(n)
  BY DEF Kids
<1>3. ASSUME NEW n \in Node
      PROVE  /\ UnbuiltKid(n)' <=> UnbuiltKid(n)
             /\ Waiting(n, made)' <=> Waiting(n, made)
  <2>1. UnbuiltKid(n)' <=> UnbuiltKid(n)
    BY <1>1, <1>2 DEF UnbuiltKid, Built
  <2>2. Waiting(n, made)' <=> Waiting(n, made)
    BY <1>1 DEF Waiting, Built
  <2> QED
    BY <2>1, <2>2
<1>4. ASSUME NEW n \in Node, LooksUpTo(n), NEW j \in DOMAIN Kids(n),
             made'[Kids(n)[j]] = "unmade"
      PROVE  AfterWait(n, j)'
  <2>1. made[Kids(n)[j]] = "unmade"
    BY <1>1, <1>4
  <2>2. PICK l \in 1..(j - 1) :
             Kids(n)[l] \in Wait /\ made[Kids(n)[l]] \notin Built \cup {"unmade"}
    BY <1>4, <2>1 DEF LooksUpTo, AfterWait
  <2>3. Kids(n)[l] \in Node
    BY <2>2, NodeAssumption
  <2>4. made'[Kids(n)[l]] \notin Built \cup {"unmade"}
    BY <2>2, <2>3
  <2> QED
    BY <1>2, <2>2, <2>4 DEF AfterWait
<1>5. \A n \in Node : LooksUpTo(n) => LooksUpTo(n)'
  BY <1>2, <1>4 DEF LooksUpTo
<1>6. MainsSeen => MainsSeen'
  BY <1>1 DEF MainsSeen
<1>7. LinesOK => LinesOK'
  BY <1>2 DEF LinesOK
<1> QED
  BY <1>3, <1>5, <1>6, <1>7

\* Steps that leave the nodes alone.
LEMMA ScheduleFrame ==
    ASSUME NodesOK, ScheduleInv, UNCHANGED <<graph, made, checked>>
    PROVE  ScheduleInv'
<1>1. \A n : /\ UnbuiltKid(n)' = UnbuiltKid(n) /\ Waiting(n, made)' = Waiting(n, made)
             /\ LooksUpTo(n)' = LooksUpTo(n) /\ Kids(n)' = Kids(n)
  BY DEF UnbuiltKid, Waiting, LooksUpTo, AfterWait, Kids
<1>2. \A n : Looked(n)' = Looked(n)
  BY <1>1 DEF Looked
<1>3. DeferredWaits' /\ CheckedWaits'
  BY <1>1 DEF ScheduleInv, DeferredWaits, CheckedWaits
<1>4. LooksFar'
  BY <1>1, <1>2 DEF ScheduleInv, LooksFar
<1>5. MainsSeen' /\ WaitsMade' /\ LinesOK'
  BY <1>1 DEF ScheduleInv, MainsSeen, WaitsMade, LinesOK
<1> QED
  BY <1>3, <1>4, <1>5 DEF ScheduleInv

\* AlreadyChecked: the node will be found when a child is made.
LEMMA AlreadyCheckedSchedules ==
    ASSUME NodesOK, ScheduleInv, NEW m \in Make, AlreadyChecked(m)
    PROVE  ScheduleInv'
<1> DEFINE c == Candidate(m)
<1>1. /\ c \in Node /\ made[c] = "requested" /\ c \in checked
      /\ made' = [made EXCEPT ![c] = "deferred"]
      /\ graph' = graph /\ checked' = checked
  BY CandidateFacts DEF AlreadyChecked
<1> HIDE DEF c
<1>2. /\ made \in [Node -> {"unmade", "deferred", "requested", "beingmade"} \cup Built]
      /\ checked \subseteq Node
  BY DEF NodesOK
<1>3. made'[c] = "deferred" /\ \A n \in Node \ {c} : made'[n] = made[n]
  BY <1>1, <1>2
<1>4. \A k \in Node : /\ made'[k] \in Built <=> made[k] \in Built
                      /\ made'[k] = "unmade" => made[k] = "unmade"
  BY <1>1, <1>3 DEF Built
<1>5. /\ \A n \in Node : /\ UnbuiltKid(n)' <=> UnbuiltKid(n)
                         /\ Waiting(n, made)' <=> Waiting(n, made)
                         /\ LooksUpTo(n) => LooksUpTo(n)'
      /\ MainsSeen' /\ LinesOK'
  BY <1>1, <1>4, NoneMade DEF ScheduleInv
<1>6. UnbuiltKid(c) /\ Looked(c)
  BY <1>1 DEF ScheduleInv, CheckedWaits, Looked
<1>7. DeferredWaits'
  BY <1>3, <1>5, <1>6 DEF ScheduleInv, DeferredWaits
<1>8. CheckedWaits'
  BY <1>1, <1>2, <1>3, <1>5 DEF ScheduleInv, CheckedWaits
<1>9. LooksFar'
  <2>1. \A n \in Node : Looked(n)' => Looked(n)
    BY <1>1, <1>3, <1>5, <1>6 DEF Looked
  <2> QED
    BY <1>5, <2>1 DEF ScheduleInv, LooksFar
<1>10. WaitsMade'
  BY <1>1, <1>3, NodeAssumption DEF ScheduleInv, WaitsMade
<1> QED
  BY <1>5, <1>7, <1>8, <1>9, <1>10 DEF ScheduleInv

\* JobStart: the node that is being made is no .WAIT node.
LEMMA StartSchedules ==
    ASSUME NodesOK, ScheduleInv, graph' = graph, NEW c \in Node, c \notin Wait,
           made[c] = "requested", made' = [made EXCEPT ![c] = "beingmade"],
           checked \subseteq checked', checked' \subseteq checked \cup {c}
    PROVE  ScheduleInv'
<1>1. /\ made \in [Node -> {"unmade", "deferred", "requested", "beingmade"} \cup Built]
      /\ checked \subseteq Node
  BY DEF NodesOK
<1>2. made'[c] = "beingmade" /\ \A n \in Node \ {c} : made'[n] = made[n]
  BY <1>1
<1>3. \A k \in Node : /\ made'[k] \in Built <=> made[k] \in Built
                      /\ made'[k] = "unmade" => made[k] = "unmade"
  BY <1>2 DEF Built
<1>4. /\ \A n \in Node : /\ UnbuiltKid(n)' <=> UnbuiltKid(n)
                         /\ Waiting(n, made)' <=> Waiting(n, made)
                         /\ LooksUpTo(n) => LooksUpTo(n)'
      /\ MainsSeen' /\ LinesOK'
  BY <1>3, NoneMade DEF ScheduleInv
<1>5. DeferredWaits'
  BY <1>2, <1>4 DEF ScheduleInv, DeferredWaits
<1>6. CheckedWaits'
  BY <1>1, <1>2, <1>4 DEF ScheduleInv, CheckedWaits
<1>7. LooksFar'
  <2>1. \A n \in Node : Looked(n)' => Looked(n)
    BY <1>2, <1>4 DEF Looked
  <2> QED
    BY <1>4, <2>1 DEF ScheduleInv, LooksFar
<1>8. WaitsMade'
  BY <1>2, NodeAssumption DEF ScheduleInv, WaitsMade
<1> QED
  BY <1>4, <1>5, <1>6, <1>7, <1>8 DEF ScheduleInv

\* A node on the line of another is inspected with it, or comes after a .WAIT
\* that is, and that is scheduled.
LEMMA InspectedUpTo ==
    ASSUME NodesOK, NEW n \in Node, NEW j \in DOMAIN Kids(n),
           Kids(n)[j] \notin ToSet(Inspected(n))
    PROVE  \E l \in 1..(j - 1) :
              /\ Kids(n)[l] \in Wait /\ Schedulable(Kids(n)[l], made)
              /\ Kids(n)[l] \in ToSet(Inspected(n))
<1> DEFINE stops == {i \in DOMAIN Kids(n) :
                        /\ Kids(n)[i] \in Wait /\ unmade[Kids(n)[i]] > 0
                        /\ Schedulable(Kids(n)[i], made)}
           l == Min(stops)
<1>1. /\ Kids(n) \in Seq(Node) /\ DOMAIN Kids(n) = 1..Len(Kids(n)) /\ Len(Kids(n)) \in Nat
  BY DEF NodesOK, GraphOK, Kids
<1>2. stops # {}
  <2>1. SUFFICES ASSUME stops = {} PROVE FALSE
    OBVIOUS
  <2>2. Inspected(n) = Kids(n)
    BY <2>1 DEF Inspected
  <2> QED
    BY <2>2 DEF ToSet
<1>3. Inspected(n) = SubSeq(Kids(n), 1, l)
  BY <1>2 DEF Inspected
<1>4. l \in stops
  <2>1. stops \subseteq Nat
    BY <1>1
  <2> HIDE DEF stops
  <2>2. \E i \in stops : \A k \in stops : i <= k
    BY <1>2, <2>1, LeastNatural
  <2> QED
    BY <2>2 DEF Min
<1>5. /\ l \in 1..Len(Kids(n)) /\ Kids(n)[l] \in Wait /\ Schedulable(Kids(n)[l], made)
  BY <1>1, <1>4
<1> HIDE DEF stops, l
<1>6. /\ Len(Inspected(n)) = l /\ DOMAIN Inspected(n) = 1..l
      /\ \A i \in 1..l : Inspected(n)[i] = Kids(n)[i]
  BY <1>1, <1>3, <1>5
<1>7. \A i \in 1..l : Kids(n)[i] \in ToSet(Inspected(n))
  BY <1>6 DEF ToSet
<1>8. l \in 1..(j - 1)
  BY <1>1, <1>5, <1>7
<1> QED
  BY <1>5, <1>7, <1>8

\* ScheduleChildren: nothing on the line is left out before a .WAIT that is not made.
LEMMA ScheduleChildrenSchedules ==
    ASSUME NodesOK, ScheduleInv, NEW m \in Make, ScheduleChildren(m)
    PROVE  ScheduleInv'
<1> DEFINE c == Candidate(m)
           line == ToSet(Inspected(c))
           front == {n \in line : Schedulable(n, made)}
           late == {n \in line : made[n] = "unmade" /\ Waiting(n, made)}
<1>1. /\ c \in Node /\ made[c] = "requested" /\ unmade[c] # 0
      /\ made' = [n \in Node |-> IF n \in front THEN "requested"
                                 ELSE IF n \in late \cup {c} THEN "deferred" ELSE made[n]]
      /\ checked' = checked \cup {c} /\ graph' = graph
  BY CandidateFacts DEF ScheduleChildren
<1>2. \A n \in front : made[n] \in {"unmade", "deferred"} /\ ~Waiting(n, made)
  BY DEF Schedulable
<1>3. \A n \in late : made[n] = "unmade" /\ Waiting(n, made)
  OBVIOUS
<1>4. \A n \in line : made[n] = "unmade" => n \in front \cup late
  BY DEF Schedulable
<1>5. \A j \in DOMAIN Kids(c) : Kids(c)[j] \in line
         \/ \E l \in 1..(j - 1) : Kids(c)[l] \in Wait /\ Kids(c)[l] \in front
  BY <1>1, InspectedUpTo
<1>6. UnbuiltKid(c)
  <2>1. Kids(c) \in Seq(Node) /\ unmade[c] = Cardinality(Remaining(c))
    BY <1>1 DEF NodesOK, GraphOK, Kids, UnmadeCounts
  <2>2. Remaining(c) # {}
    BY <1>1, <2>1, FS_EmptySet
  <2> QED
    BY <2>2 DEF Remaining, UnbuiltKid, ToSet
<1> HIDE DEF front, late, line, c
<1>7. made \in [Node -> {"unmade", "deferred", "requested", "beingmade"} \cup Built]
  BY DEF NodesOK
<1>8. /\ \A n \in Node : n \in front => made'[n] = "requested"
      /\ \A n \in Node \ front : n \in late \/ n = c => made'[n] = "deferred"
      /\ \A n \in Node \ (front \cup late) : n # c => made'[n] = made[n]
      /\ c \notin front
  BY <1>1, <1>2
<1>9. \A k \in Node : /\ made'[k] \in Built <=> made[k] \in Built
                      /\ made'[k] = "unmade" => made[k] = "unmade"
  BY <1>1, <1>2, <1>3, <1>8 DEF Built
<1>10. /\ \A n \in Node : /\ UnbuiltKid(n)' <=> UnbuiltKid(n)
                          /\ Waiting(n, made)' <=> Waiting(n, made)
                          /\ LooksUpTo(n) => LooksUpTo(n)'
       /\ MainsSeen' /\ LinesOK'
  BY <1>1, <1>9, NoneMade DEF ScheduleInv
<1>11. DeferredWaits'
  <2> SUFFICES ASSUME NEW n \in Node, made'[n] = "deferred"
               PROVE  UnbuiltKid(n) \/ Waiting(n, made)
    BY <1>10 DEF DeferredWaits
  <2>1. n = c \/ n \in late \/ made[n] = "deferred"
    BY <1>8
  <2> QED
    BY <1>3, <1>6, <2>1 DEF ScheduleInv, DeferredWaits
<1>12. CheckedWaits'
  <2> SUFFICES ASSUME NEW n \in checked'
               PROVE  made'[n] # "unmade" /\ (made'[n] = "requested" => UnbuiltKid(n)')
    BY DEF CheckedWaits
  <2>1. CASE n = c
    BY <1>1, <1>8, <2>1
  <2>2. CASE n # c
    <3>1. n \in checked /\ n \in Node /\ made[n] # "unmade"
      BY <1>1, <2>2 DEF ScheduleInv, CheckedWaits, NodesOK
    <3>2. CASE n \in front
      <4>1. made[n] = "deferred" /\ ~Waiting(n, made)
        BY <1>2, <3>1, <3>2
      <4> QED
        BY <1>8, <1>10, <3>1, <3>2, <4>1 DEF ScheduleInv, DeferredWaits
    <3>3. CASE n \notin front
      <4>1. made'[n] = made[n]
        BY <1>3, <1>8, <2>2, <3>1, <3>3
      <4> QED
        BY <1>10, <3>1, <4>1 DEF ScheduleInv, CheckedWaits
    <3> QED
      BY <3>2, <3>3
  <2> QED
    BY <2>1, <2>2
<1>13. ASSUME NEW n \in Node, n = c
       PROVE  LooksUpTo(n)'
  <2> SUFFICES ASSUME NEW j \in DOMAIN Kids(n), made'[Kids(n)[j]] = "unmade"
               PROVE  AfterWait(n, j)'
    BY <1>1 DEF LooksUpTo, Kids
  <2>1. /\ Kids(n)[j] \in Node /\ made[Kids(n)[j]] = "unmade"
        /\ Kids(n)[j] \notin front \cup late
    <3>1. Kids(n)[j] \in Node
      BY DEF NodesOK, GraphOK, Kids
    <3> QED
      BY <1>8, <1>9, <3>1
  <2>2. Kids(n)[j] \notin line
    BY <1>4, <2>1
  <2>3. PICK l \in 1..(j - 1) : Kids(n)[l] \in Wait /\ Kids(n)[l] \in front
    BY <1>5, <1>13, <2>2
  <2>4. made'[Kids(n)[l]] = "requested"
    BY <1>8, <2>3, NodeAssumption
  <2> QED
    BY <1>1, <2>3, <2>4 DEF AfterWait, Kids, Built
<1>14. LooksFar'
  <2> SUFFICES ASSUME NEW n \in Node, Looked(n)'
               PROVE  LooksUpTo(n)'
    BY DEF LooksFar
  <2>1. CASE n = c
    BY <1>13, <2>1
  <2>2. CASE n # c
    <3>1. Looked(n)
      <4>1. CASE n \in front
        <5>1. n \in checked
          BY <1>1, <1>8, <2>2, <4>1 DEF Looked
        <5>2. made[n] = "deferred" /\ ~Waiting(n, made)
          BY <1>2, <4>1, <5>1 DEF ScheduleInv, CheckedWaits
        <5> QED
          BY <5>2 DEF Looked
      <4>2. CASE n \in late /\ n \notin front
        BY <1>3, <1>8, <1>10, <4>2 DEF Looked
      <4>3. CASE n \notin front \cup late
        BY <1>1, <1>8, <1>10, <2>2, <4>3 DEF Looked
      <4> QED
        BY <4>1, <4>2, <4>3
    <3> QED
      BY <1>10, <3>1 DEF ScheduleInv, LooksFar
  <2> QED
    BY <2>1, <2>2
<1>15. WaitsMade'
  BY <1>8, NodeAssumption DEF ScheduleInv, WaitsMade
<1> QED
  BY <1>10, <1>11, <1>12, <1>14, <1>15 DEF ScheduleInv

\* Make_Update finds the nodes that have waited for n, and only those.
LEMMA MakeUpdateSchedules ==
    ASSUME NodesOK, NodesOK', ScheduleInv, graph' = graph,
           NEW n \in Node, made[n] \in {"requested", "beingmade"},
           NEW q, NEW st \in Built, MakeUpdate(n, [made EXCEPT ![n] = st], q)
    PROVE  ScheduleInv'
<1> DEFINE state == [made EXCEPT ![n] = st]
           held == {s \in Node : n \in graph.order[s] /\ state[s] = "deferred"}
           free == {s \in held : ~Waiting(s, state)}
           left == [p \in Node |-> unmade[p] - Times(n, p)]
           again == {p \in Parents(n) \ free :
                       /\ left[p] = 0 \/ n \in Wait \cup doneOrder
                       /\ state[p] = "deferred" /\ ~Waiting(p, state)}
           m0 == MakeOf[n]
<1>1. /\ made' = [p \in Node |-> IF p \in free \cup again THEN "requested" ELSE state[p]]
      /\ unmade' = left
      /\ checked' = {p \in checked : MakeOf[p] # MakeOf[n]}
  BY DEF MakeUpdate
<1>2. /\ made \in [Node -> {"unmade", "deferred", "requested", "beingmade"} \cup Built]
      /\ GraphOK /\ checked \subseteq Node
  BY DEF NodesOK
<1>3. state[n] = st /\ \A p \in Node \ {n} : state[p] = made[p]
  BY <1>2
<1>4. \A p \in free \cup again : p \in Node /\ state[p] = "deferred" /\ MakeOf[p] = m0
  <2>1. ASSUME NEW p \in free
        PROVE  p \in Node /\ state[p] = "deferred" /\ MakeOf[p] = m0
    BY <1>2 DEF GraphOK
  <2>2. ASSUME NEW p \in again
        PROVE  p \in Node /\ state[p] = "deferred" /\ MakeOf[p] = m0
    BY <1>2 DEF GraphOK, Parents
  <2> QED
    BY <2>1, <2>2
<1>5. ASSUME NEW p \in Node, state[p] = "deferred", p \notin free, n \in graph.order[p]
      PROVE  Waiting(p, state)
  BY <1>5
<1>6. ASSUME NEW p \in Node, state[p] = "deferred", p \notin free \cup again,
             n \in ToSet(Kids(p)), left[p] = 0 \/ n \in Wait
      PROVE  Waiting(p, state)
  BY <1>6 DEF Parents
<1> HIDE DEF state, free, again, held
<1>7. st \in Built /\ "deferred" \notin Built /\ "requested" \notin Built
      /\ "beingmade" \notin Built /\ "unmade" \notin Built
  BY DEF Built
<1>8. \A p \in Node : /\ p = n => made'[p] = st
                      /\ p \in free \cup again => made'[p] = "requested" /\ made[p] = "deferred"
                      /\ p \notin free \cup again /\ p # n => made'[p] = made[p]
                      /\ MakeOf[p] # m0 => made'[p] = made[p]
                      /\ made'[p] \in Built <=> p = n \/ made[p] \in Built
                      /\ made'[p] = "unmade" => made[p] = "unmade"
  BY <1>1, <1>3, <1>4, <1>7
<1>9. /\ \A p \in Node : \A i \in DOMAIN Kids(p) : Kids(p)[i] \in Node
      /\ \A p \in Node : graph.order[p] \subseteq Node /\ ToSet(Kids(p)) \subseteq Node
      /\ \A p \in Node : \A k \in ToSet(Kids(p)) \cup graph.order[p] : MakeOf[k] = MakeOf[p]
      /\ \A m \in Make : Main[m] \in Node
      /\ \A p : Kids(p)' = Kids(p)
  BY <1>2, NodeAssumption DEF GraphOK, Kids, ToSet
<1>10. \A p \in Node : Waiting(p, made)' <=> Waiting(p, state)
  <2>1. \A p \in Node : made'[p] \in Built <=> state[p] \in Built
    BY <1>3, <1>8
  <2> QED
    BY <1>9, <2>1 DEF Waiting
<1>11. ASSUME NEW p \in Node, made'[p] = "deferred", ~Waiting(p, made)'
       PROVE  /\ made[p] = "deferred" /\ ~Waiting(p, made) /\ p \notin free \cup again /\ p # n
              /\ n \in ToSet(Kids(p)) => ~(left[p] = 0) /\ n \notin Wait
  <2>1. made[p] = "deferred" /\ p \notin free \cup again /\ p # n /\ state[p] = "deferred"
    BY <1>3, <1>7, <1>8, <1>11
  <2>2. ~Waiting(p, state)
    BY <1>10, <1>11
  <2>3. n \notin graph.order[p]
    BY <1>5, <2>1, <2>2
  <2>4. ~Waiting(p, made)
    BY <1>3, <1>9, <2>2, <2>3 DEF Waiting
  <2> QED
    BY <1>6, <2>1, <2>2, <2>4
<1>12. ASSUME NEW p \in Node, MakeOf[p] # m0
       PROVE  /\ made'[p] = made[p] /\ (UnbuiltKid(p)' <=> UnbuiltKid(p))
              /\ LooksUpTo(p) => LooksUpTo(p)'
  <2>1. \A k \in ToSet(Kids(p)) : k \in Node /\ made'[k] = made[k]
    BY <1>8, <1>9, <1>12
  <2>2. \A i \in DOMAIN Kids(p) : Kids(p)[i] \in ToSet(Kids(p))
    BY DEF ToSet
  <2>3. DOMAIN Kids(p) = 1..Len(Kids(p)) /\ Len(Kids(p)) \in Nat
    BY <1>2 DEF GraphOK, Kids
  <2>4. UnbuiltKid(p)' <=> UnbuiltKid(p)
    BY <1>9, <2>1 DEF UnbuiltKid
  <2>5. \A j \in DOMAIN Kids(p) : AfterWait(p, j) => AfterWait(p, j)'
    <3> SUFFICES ASSUME NEW j \in DOMAIN Kids(p), NEW l \in 1..(j - 1),
                        Kids(p)[l] \in Wait, made[Kids(p)[l]] \notin Built \cup {"unmade"}
                 PROVE  made'[Kids(p)[l]] = made[Kids(p)[l]]
      BY <1>9 DEF AfterWait
    <3>1. l \in DOMAIN Kids(p)
      BY <2>3
    <3> QED
      BY <2>1, <2>2, <3>1
  <2>6. LooksUpTo(p) => LooksUpTo(p)'
    BY <1>9, <2>1, <2>2, <2>5 DEF LooksUpTo
  <2> QED
    BY <1>8, <1>12, <2>4, <2>6
<1>13. DeferredWaits'
  <2> SUFFICES ASSUME NEW p \in Node, made'[p] = "deferred", ~Waiting(p, made)'
               PROVE  UnbuiltKid(p)'
    BY DEF DeferredWaits
  <2>1. /\ made[p] = "deferred" /\ ~Waiting(p, made)
        /\ n \in ToSet(Kids(p)) => ~(left[p] = 0)
    BY <1>11
  <2>2. PICK k \in ToSet(Kids(p)) : made[k] \notin Built
    BY <2>1 DEF ScheduleInv, DeferredWaits, UnbuiltKid
  <2>3. CASE n \notin ToSet(Kids(p))
    BY <1>8, <1>9, <2>2, <2>3 DEF UnbuiltKid
  <2>4. CASE n \in ToSet(Kids(p))
    <3>1. unmade'[p] # 0
      BY <1>1, <2>1, <2>4
    <3>2. unmade'[p] = Cardinality(Remaining(p)')
      BY DEF NodesOK, UnmadeCounts
    <3>3. Remaining(p)' # {}
      BY <3>1, <3>2, FS_EmptySet
    <3> QED
      BY <3>3 DEF Remaining, UnbuiltKid, ToSet
  <2> QED
    BY <2>3, <2>4
<1>14. CheckedWaits'
  BY <1>1, <1>2, <1>12 DEF ScheduleInv, CheckedWaits
<1>15. LooksFar'
  <2> SUFFICES ASSUME NEW p \in Node, Looked(p)'
               PROVE  LooksUpTo(p)'
    BY DEF LooksFar
  <2>1. CASE p \in checked'
    <3>1. MakeOf[p] # m0 /\ p \in checked
      BY <1>1, <2>1
    <3>2. made'[p] = made[p] /\ (LooksUpTo(p) => LooksUpTo(p)')
      BY <1>12, <3>1
    <3>3. Looked(p)
      BY <1>11, <3>1, <3>2 DEF Looked
    <3> QED
      BY <3>2, <3>3 DEF ScheduleInv, LooksFar
  <2>2. CASE p \notin checked'
    <3>1. made'[p] = "deferred" /\ ~Waiting(p, made)'
      BY <2>2 DEF Looked
    <3>2. /\ made[p] = "deferred" /\ ~Waiting(p, made)
          /\ n \in ToSet(Kids(p)) => n \notin Wait
      BY <1>11, <3>1
    <3>3. LooksUpTo(p)
      BY <3>2 DEF ScheduleInv, LooksFar, Looked
    <3> SUFFICES ASSUME NEW j \in DOMAIN Kids(p), made'[Kids(p)[j]] = "unmade"
                 PROVE  AfterWait(p, j)'
      BY <1>9 DEF LooksUpTo
    <3>4. PICK l \in 1..(j - 1) :
               Kids(p)[l] \in Wait /\ made[Kids(p)[l]] \notin Built \cup {"unmade"}
      BY <1>8, <1>9, <3>3 DEF LooksUpTo, AfterWait
    <3>5. Kids(p)[l] \in ToSet(Kids(p)) /\ Kids(p)[l] \in Node
      <4>1. DOMAIN Kids(p) = 1..Len(Kids(p)) /\ Len(Kids(p)) \in Nat
        BY <1>2 DEF GraphOK, Kids
      <4>2. l \in DOMAIN Kids(p)
        BY <4>1
      <4> QED
        BY <1>9, <4>2 DEF ToSet
    <3>6. Kids(p)[l] # n
      BY <3>2, <3>4, <3>5
    <3>7. made'[Kids(p)[l]] \notin Built \cup {"unmade"}
      BY <1>8, <3>4, <3>5, <3>6
    <3> QED
      BY <1>9, <3>4, <3>7 DEF AfterWait
  <2> QED
    BY <2>1, <2>2
<1>16. MainsSeen' /\ WaitsMade' /\ LinesOK'
  <2>1. MainsSeen'
    BY <1>8, <1>9 DEF ScheduleInv, MainsSeen
  <2>2. WaitsMade'
    BY <1>7, <1>8, NodeAssumption DEF ScheduleInv, WaitsMade
  <2>3. LinesOK'
    BY <1>9 DEF ScheduleInv, LinesOK
  <2> QED
    BY <2>1, <2>2, <2>3
<1> QED
  BY <1>13, <1>14, <1>15, <1>16 DEF ScheduleInv

\* A step changes the queue of the make that takes it, which is not through, and
\* stays so, or has an empty one.
LEMMA QueueFrame ==
    ASSUME QueuesEmpty, NEW m \in Make,
           \A k \in Make \ {m} : /\ toBeMade'[k] = toBeMade[k] /\ aborting'[k] = aborting[k]
                                 /\ pc'[k] = pc[k] \/ pc'[k] \in {"start", "dead"},
           pc'[m] \in Ended \ {"dead"} /\ aborting'[m] = "no" => toBeMade'[m] = <<>>
    PROVE  QueuesEmpty'
<1> SUFFICES ASSUME NEW k \in Make, pc'[k] \in Ended \ {"dead"}, aborting'[k] = "no"
             PROVE  toBeMade'[k] = <<>>
  BY DEF QueuesEmpty
<1>1. CASE k = m
  BY <1>1
<1>2. CASE k # m
  <2>1. pc'[k] = pc[k]
    BY <1>2 DEF Ended
  <2> QED
    BY <1>2, <2>1 DEF QueuesEmpty
<1> QED
  BY <1>1, <1>2

\* Steps on the pipe and on jobs: only Finish ends a make that is not aborting.
LEMMA QuietSchedules ==
    ASSUME NodesOK, ProcessesOK, ScheduleInv, QueuesEmpty, NEW m \in Make,
           \/ TokenWithdraw(m) \/ SpareReturned(m) \/ Drain(m) \/ Drained(m) \/ Stop(m)
           \/ StartedJobs(m) \/ Caught(m) \/ \E n \in Node : JobFailed(m, n)
    PROVE  ScheduleInv' /\ QueuesEmpty'
<1>1. UNCHANGED <<graph, graphVars>>
  BY DEF TokenWithdraw, SpareReturned, Drain, Drained, Stop, StartedJobs, Caught, JobFailed
<1>2. ScheduleInv'
  BY <1>1, ScheduleFrame DEF graphVars
<1>3. /\ pc \in [Make -> Locations] /\ aborting \in [Make -> {"no", "error", "wait"}]
      /\ toBeMade' = toBeMade
  BY <1>1 DEF ProcessesOK, ProcessTypes, graphVars
<1>4. \A k \in Make \ {m} : pc'[k] = pc[k] /\ aborting'[k] = aborting[k]
  <2>1. CASE TokenWithdraw(m) \/ SpareReturned(m) \/ Drain(m) \/ Drained(m)
    BY <1>3, <2>1 DEF TokenWithdraw, SpareReturned, Drain, Drained, Goto, jobVars
  <2>2. CASE Stop(m)
    BY <1>3, <2>2 DEF Stop, Exit, Goto
  <2>3. CASE StartedJobs(m)
    BY <1>3, <2>3 DEF StartedJobs, Finish, Exit, Goto
  <2>4. CASE Caught(m)
    BY <1>3, <2>4 DEF Caught, Exit, Goto
  <2>5. ASSUME NEW n \in Node, JobFailed(m, n)
        PROVE  \A k \in Make \ {m} : pc'[k] = pc[k] /\ aborting'[k] = aborting[k]
    BY <1>3, <2>5 DEF JobFailed, Goto
  <2> QED
    BY <2>1, <2>2, <2>3, <2>4, <2>5
<1>5. ASSUME pc'[m] \in Ended \ {"dead"}, aborting'[m] = "no"
      PROVE  toBeMade'[m] = <<>>
  <2>1. CASE TokenWithdraw(m) \/ SpareReturned(m) \/ Drain(m) \/ Drained(m)
    <3>1. pc'[m] \in {"token", "poll", "spare", "drain", "stop"}
      BY <1>3, <2>1 DEF TokenWithdraw, SpareReturned, Drain, Drained, Goto
    <3> QED
      BY <1>5, <3>1 DEF Ended
  <2>2. CASE Stop(m)
    BY <1>3, <1>5, <2>2 DEF Stop
  <2>3. CASE StartedJobs(m)
    <3>1. CASE toBeMade[m] = <<>>
      BY <1>3, <3>1
    <3>2. CASE toBeMade[m] # <<>>
      <4>1. pc'[m] = "poll"
        BY <1>3, <2>3, <3>2 DEF StartedJobs, Goto
      <4> QED
        BY <1>5, <4>1 DEF Ended
    <3> QED
      BY <3>1, <3>2
  <2>4. CASE Caught(m)
    <3>1. aborting[m] = "no"
      BY <1>5, <2>4 DEF Caught
    <3>2. pc'[m] = "start"
      BY <1>3, <2>4, <3>1 DEF Caught, Goto
    <3> QED
      BY <1>5, <3>2 DEF Ended
  <2>5. ASSUME NEW n \in Node, JobFailed(m, n)
        PROVE  FALSE
    <3>1. pc'[m] \in {"poll", "drain"}
      BY <1>3, <2>5 DEF JobFailed, Goto
    <3> QED
      BY <1>5, <3>1 DEF Ended
  <2> QED
    BY <2>1, <2>2, <2>3, <2>4, <2>5
<1> QED
  BY <1>2, <1>3, <1>4, <1>5, QueueFrame

\* MakeStartJobs with a node of the queue.
LEMMA ExaminingSchedules ==
    ASSUME NodesOK, NodesOK', ProcessesOK, ScheduleInv, QueuesEmpty, NEW m \in Make,
           \/ AlreadyChecked(m) \/ ScheduleChildren(m) \/ UpToDate(m) \/ NoCommands(m)
           \/ JobExec(m) \/ DieHorribly(m)
    PROVE  ScheduleInv' /\ QueuesEmpty'
<1> DEFINE c == Candidate(m)
<1>1. /\ Examining(m) /\ c \in Node /\ MakeOf[c] = m /\ made[c] = "requested"
      /\ graph' = graph
  BY CandidateFacts DEF AlreadyChecked, ScheduleChildren, UpToDate, NoCommands, JobExec,
     DieHorribly, Makeable
<1>2. /\ pc \in [Make -> Locations] /\ aborting \in [Make -> {"no", "error", "wait"}]
      /\ toBeMade \in [Make -> Seq(Node)]
  BY DEF ProcessesOK, ProcessTypes, NodesOK
<1>3. CASE AlreadyChecked(m) \/ ScheduleChildren(m)
  <2>1. ScheduleInv'
    BY <1>3, AlreadyCheckedSchedules, ScheduleChildrenSchedules
  <2>2. /\ \A k \in Make \ {m} : toBeMade'[k] = toBeMade[k]
        /\ pc' = pc /\ aborting' = aborting /\ pc[m] = "token"
    BY <1>2, <1>3 DEF AlreadyChecked, ScheduleChildren, Examining, jobVars
  <2> QED
    BY <2>1, <2>2, QueueFrame DEF Ended
<1>4. ASSUME NEW st \in Built,
             MakeUpdate(c, [made EXCEPT ![c] = st], Tail(toBeMade[m])),
             aborting' = aborting, pc' = pc \/ Goto(m, "start")
      PROVE  ScheduleInv' /\ QueuesEmpty'
  <2>1. \A k \in Make \ {m} : toBeMade'[k] = toBeMade[k] /\ pc'[k] = pc[k]
    BY <1>1, <1>2, <1>4 DEF MakeUpdate, Goto
  <2>2. pc'[m] \in {"token", "start"}
    BY <1>1, <1>2, <1>4 DEF Examining, Goto
  <2>3. QueuesEmpty'
    BY <1>4, <2>1, <2>2, QueueFrame DEF Ended
  <2> HIDE DEF c
  <2>4. ScheduleInv'
    BY <1>1, <1>4, MakeUpdateSchedules
  <2> QED
    BY <2>3, <2>4
<1>5. CASE UpToDate(m)
  <2>1. "uptodate" \in Built
    BY DEF Built
  <2> QED
    BY <1>4, <1>5, <2>1 DEF UpToDate, jobVars
<1>6. CASE NoCommands(m)
  <2>1. "made" \in Built
    BY DEF Built
  <2> QED
    BY <1>4, <1>6, <2>1 DEF NoCommands
<1>7. CASE JobExec(m) \/ DieHorribly(m)
  <2>1. c \notin Wait
    BY <1>7, WaitAssumption DEF JobExec, DieHorribly, Makeable
  <2>2. /\ made' = [made EXCEPT ![c] = "beingmade"]
        /\ checked \subseteq checked' /\ checked' \subseteq checked \cup {c}
        /\ toBeMade' = [toBeMade EXCEPT ![m] = Tail(@)]
    BY <1>7 DEF JobExec, DieHorribly
  <2>3. /\ \A k \in Make : pc'[k] = pc[k] \/ pc'[k] \in {"start", "dead"}
        /\ pc'[m] \in {"start", "dead"}
        /\ \A k \in Make \ {m} : aborting'[k] = aborting[k]
    BY <1>2, <1>7 DEF JobExec, DieHorribly
  <2>4. \A k \in Make \ {m} : toBeMade'[k] = toBeMade[k]
    BY <1>2, <2>2
  <2>5. QueuesEmpty'
    BY <2>3, <2>4, QueueFrame DEF Ended
  <2> HIDE DEF c
  <2>6. ScheduleInv'
    BY <1>1, <2>1, <2>2, StartSchedules
  <2> QED
    BY <2>5, <2>6
<1> QED
  BY <1>3, <1>5, <1>6, <1>7

\* JobFinish of a job that has succeeded.
LEMMA SucceededSchedules ==
    ASSUME NodesOK, NodesOK', ProcessesOK, ScheduleInv, QueuesEmpty, NEW m \in Make,
           NEW n \in Node, JobSucceeded(m, n)
    PROVE  ScheduleInv' /\ QueuesEmpty'
<1>1. /\ pc[m] = "poll" /\ MakeOf[n] = m /\ job[n] = "ok"
      /\ graph' = graph /\ aborting' = aborting
  BY DEF JobSucceeded, Exited
<1>2. /\ pc \in [Make -> Locations] /\ toBeMade \in [Make -> Seq(Node)]
      /\ made[n] = "beingmade"
  BY <1>1 DEF ProcessesOK, ProcessTypes, NodesOK, JobsBeingMade
<1>3. CASE MakeUpdate(n, [made EXCEPT ![n] = "made"], toBeMade[m]) /\ pc' = pc
  <2>1. \A k \in Make \ {m} : toBeMade'[k] = toBeMade[k]
    BY <1>1, <1>2, <1>3 DEF MakeUpdate
  <2>2. QueuesEmpty'
    BY <1>1, <1>3, <2>1, QueueFrame DEF Ended
  <2>3. "made" \in Built
    BY DEF Built
  <2>4. ScheduleInv'
    BY <1>1, <1>2, <1>3, <2>3, MakeUpdateSchedules
  <2> QED
    BY <2>2, <2>4
<1>4. CASE UNCHANGED graphVars /\ Goto(m, "drain")
  <2>1. ScheduleInv'
    BY <1>1, <1>4, ScheduleFrame DEF graphVars
  <2>2. pc'[m] = "drain" /\ \A k \in Make \ {m} : pc'[k] = pc[k]
    BY <1>2, <1>4 DEF Goto
  <2> QED
    BY <1>1, <1>4, <2>1, <2>2, QueueFrame DEF Ended, graphVars
<1> QED
  BY <1>3, <1>4 DEF JobSucceeded

\* The invariant is kept.
LEMMA ScheduleStep ==
    ASSUME NodesOK, NodesOK', ProcessesOK, ScheduleInv, QueuesEmpty, [Next]_vars
    PROVE  ScheduleInv' /\ QueuesEmpty'
<1>1. ASSUME NEW m \in Make, Step(m)
      PROVE  ScheduleInv' /\ QueuesEmpty'
  BY <1>1, QuietSchedules, ExaminingSchedules, SucceededSchedules DEF Step
<1>2. ASSUME UNCHANGED <<graph, graphVars, pc, aborting>>
      PROVE  ScheduleInv' /\ QueuesEmpty'
  BY <1>2, ScheduleFrame DEF graphVars, QueuesEmpty
<1>3. CASE UNCHANGED vars
  BY <1>2, <1>3 DEF vars, jobVars
<1>4. ASSUME NEW n \in Node, JobExits(n)
      PROVE  ScheduleInv' /\ QueuesEmpty'
  BY <1>2, <1>4 DEF JobExits
<1> QED
  BY <1>1, <1>3, <1>4 DEF Next

\* What Make_ProcessWait makes of a .WAIT node that stands in one place.
LEMMA WaitLine ==
    ASSUME NEW children \in [Node -> Seq(Node)], NEW w \in Wait,
           NEW p \in Node, NEW l \in DOMAIN children[p], children[p][l] = w,
           \A n, k \in Node : \A i \in DOMAIN children[n], j \in DOMAIN children[k] :
              children[n][i] = w /\ children[k][j] = w => n = k /\ i = j
    PROVE  \E from \in 1..l :
              /\ ProcessWait(children)[w] = SubSeq(children[p], from, l - 1)
              /\ \A k \in (from + 1)..(l - 1) : children[p][k] \notin Wait
<1> DEFINE p0 == CHOOSE n \in Node : w \in ToSet(children[n])
           line == children[p0]
           i == CHOOSE k \in DOMAIN line : line[k] = w
           before == {k \in 1..(i - 1) : line[k] \in Wait}
           from == IF before = {} THEN 1 ELSE Max(before)
<1>1. w \in Node /\ w \in ToSet(children[p])
  BY NodeAssumption DEF ToSet
<1>2. ProcessWait(children)[w] = SubSeq(line, from, i - 1)
  BY <1>1 DEF ProcessWait
<1>3. p0 \in Node /\ w \in ToSet(children[p0])
  BY <1>1
<1>4. PICK at \in DOMAIN children[p0] : children[p0][at] = w
  BY <1>3 DEF ToSet
<1>5. p0 = p
  <2> HIDE DEF p0
  <2> QED
    BY <1>3, <1>4
<1>6. line = children[p]
  BY <1>5
<1> HIDE DEF p0, line
<1>7. i \in DOMAIN line /\ line[i] = w
  BY <1>6
<1>8. i = l
  <2> HIDE DEF i
  <2> QED
    BY <1>6, <1>7
<1>9. l \in 1..Len(line) /\ Len(line) \in Nat
  BY <1>6
<1> HIDE DEF i
<1>10. before \subseteq Nat /\ l \in Nat /\ l >= 1 /\ \A x \in before : x <= l /\ x >= 1
  BY <1>8, <1>9
<1>11. \A k \in 1..(l - 1) : line[k] \in Wait => k \in before
  BY <1>8
<1> HIDE DEF before
<1>12. from \in 1..l /\ \A k \in before : k <= from
  <2>1. CASE before = {}
    <3>1. from = 1
      BY <2>1
    <3> HIDE DEF from
    <3> QED
      BY <1>10, <2>1, <3>1
  <2>2. CASE before # {}
    <3>1. \E x \in before : \A y \in before : x >= y
      BY <1>10, <2>2, GreatestNatural
    <3>2. Max(before) \in before /\ \A y \in before : Max(before) >= y
      BY <3>1 DEF Max
    <3>3. from = Max(before)
      BY <2>2
    <3> HIDE DEF from
    <3>4. from \in before /\ \A y \in before : from >= y
      BY <3>2, <3>3
    <3>5. from \in Nat /\ from >= 1 /\ from <= l
      BY <1>10, <3>4
    <3>6. from \in 1..l
      BY <1>10, <3>5
    <3>7. ASSUME NEW y \in before
          PROVE  y <= from
      BY <1>10, <3>4, <3>5, <3>7
    <3> QED
      BY <3>6, <3>7
  <2> QED
    BY <2>1, <2>2
<1> HIDE DEF from
<1>13. \A k \in (from + 1)..(l - 1) : children[p][k] \notin Wait
  <2> SUFFICES ASSUME NEW k \in (from + 1)..(l - 1), children[p][k] \in Wait
               PROVE  FALSE
    OBVIOUS
  <2>1. k \in 1..(l - 1) /\ k > from
    BY <1>10, <1>12
  <2>2. k \in before
    BY <1>6, <1>11, <2>1
  <2> QED
    BY <1>10, <1>12, <2>1, <2>2
<1> QED
  BY <1>2, <1>6, <1>8, <1>12, <1>13

\* The initial states.
LEMMA InitSchedules ==
    ASSUME Init
    PROVE  ScheduleInv /\ QueuesEmpty
<1>1. PICK g \in Graphs : graph =
          [g EXCEPT !.children = ProcessWait(@),
                    !.order = [n \in Node |-> @[n] \cap Remade(g.children)]]
  BY DEF Init
<1> DEFINE c == g.children
<1>2. /\ g \in [children : [Node -> Seq(Node)], order : [Node -> SUBSET Node],
                sub : [Node -> (Make \ {Root}) \cup {NoMake}]]
      /\ \A m \in Make : g.order[Main[m]] = {}
      /\ \A n \in Wait :
            /\ c[n] = <<>> /\ g.order[n] = {}
            /\ \A p, q \in Node : \A i \in DOMAIN c[p], j \in DOMAIN c[q] :
                  c[p][i] = n /\ c[q][j] = n => p = q /\ i = j
  BY GraphAssumption, WaitAssumption
<1>3. /\ graph.children = ProcessWait(c)
      /\ graph.order = [n \in Node |-> g.order[n] \cap Remade(c)]
  BY <1>1, <1>2
<1>4. c \in [Node -> Seq(Node)]
  BY <1>2
<1>5. \A n \in Wait : n \in Node /\ \A m \in Make : n # Main[m]
  BY NodeAssumption, WaitAssumption
<1> HIDE DEF c
<1>6. /\ made = [n \in Node |-> IF \E m \in Make : n = Main[m] THEN "requested" ELSE "unmade"]
      /\ pc = [m \in Make |-> IF m = Root THEN "start" ELSE "off"] /\ checked = {}
  BY DEF Init
<1>7. DeferredWaits /\ CheckedWaits /\ LooksFar /\ WaitsMade
  BY <1>5, <1>6 DEF DeferredWaits, CheckedWaits, LooksFar, Looked, WaitsMade
<1>8. MainsSeen
  BY <1>6, NodeAssumption DEF MainsSeen
<1>9. QueuesEmpty
  BY <1>6 DEF QueuesEmpty, Ended
<1>10. \A n \in Node \ Wait : Kids(n) = c[n]
  BY <1>3 DEF Kids, ProcessWait
<1>11. ASSUME NEW w \in Wait, \A p \in Node : w \notin ToSet(c[p])
       PROVE  Kids(w) = <<>>
  <2>1. ProcessWait(c)[w] = c[w]
    BY <1>5, <1>11 DEF ProcessWait
  <2> QED
    BY <1>2, <1>3, <2>1 DEF Kids
<1>12. ASSUME NEW w \in Wait, NEW p \in Node, NEW l \in DOMAIN c[p], c[p][l] = w
       PROVE  /\ \A k \in ToSet(Kids(w)) : \E j \in 1..(l - 1) : c[p][j] = k
              /\ \A i \in DOMAIN Kids(w) : Kids(w)[i] \in Wait => i = 1
  <2>1. PICK from \in 1..l :
              /\ ProcessWait(c)[w] = SubSeq(c[p], from, l - 1)
              /\ \A k \in (from + 1)..(l - 1) : c[p][k] \notin Wait
    BY <1>2, <1>4, <1>12, WaitLine
  <2>2. Kids(w) = SubSeq(c[p], from, l - 1)
    BY <1>3, <2>1 DEF Kids
  <2>3. c[p] \in Seq(Node) /\ l \in 1..Len(c[p]) /\ Len(c[p]) \in Nat
    BY <1>4, <1>12
  <2>4. \A i \in DOMAIN Kids(w) :
           /\ from + i - 1 \in 1..(l - 1) /\ Kids(w)[i] = c[p][from + i - 1]
           /\ i # 1 => from + i - 1 \in (from + 1)..(l - 1)
    <3>1. CASE from = l
      <4>1. Kids(w) = <<>>
        BY <2>2, <2>3, <3>1
      <4> QED
        BY <4>1
    <3>2. CASE from # l
      <4>1. from \in 1..Len(c[p]) /\ l - 1 \in from..Len(c[p])
        BY <2>3, <3>2
      <4>2. /\ DOMAIN Kids(w) = 1..(l - 1 - from + 1)
            /\ \A i \in 1..(l - 1 - from + 1) : Kids(w)[i] = c[p][from + i - 1]
        BY <2>2, <2>3, <4>1
      <4>3. from \in Nat /\ from >= 1 /\ l \in Nat
        BY <2>3
      <4>4. ASSUME NEW i \in 1..(l - 1 - from + 1)
            PROVE  /\ from + i - 1 \in 1..(l - 1)
                   /\ i # 1 => from + i - 1 \in (from + 1)..(l - 1)
        BY <4>3
      <4> QED
        BY <4>2, <4>4
    <3> QED
      BY <3>1, <3>2
  <2> QED
    BY <2>1, <2>4 DEF ToSet
<1>13. LinesOK
  <2>1. ASSUME NEW w \in Wait
        PROVE  \A i \in DOMAIN Kids(w) : Kids(w)[i] \in Wait => i = 1
    <3>1. CASE \A p \in Node : w \notin ToSet(c[p])
      BY <1>11, <3>1
    <3>2. CASE \E p \in Node : w \in ToSet(c[p])
      BY <1>12, <3>2 DEF ToSet
    <3> QED
      BY <3>1, <3>2
  <2>2. ASSUME NEW n \in Node \ Wait, NEW l \in DOMAIN Kids(n), Kids(n)[l] \in Wait
        PROVE  \A k \in ToSet(Kids(Kids(n)[l])) : \E j \in 1..(l - 1) : Kids(n)[j] = k
    BY <1>10, <1>12, <2>2
  <2>3. \A w \in Wait : w \in Node /\ graph.order[w] = {}
    BY <1>2, <1>3, <1>5
  <2>4. \A m \in Make : Main[m] \notin Wait /\ graph.order[Main[m]] = {}
    BY <1>2, <1>3, <1>5, NodeAssumption
  <2> QED
    BY <2>1, <2>2, <2>3, <2>4 DEF LinesOK
<1> QED
  BY <1>7, <1>8, <1>9, <1>13 DEF ScheduleInv

\* A node that is seen is scheduled, and nothing left of it on a .ORDER line
\* hides it; a .WAIT node's predecessor is made unless it was not inspected.
Reached(n) ==
    /\ made[n] # "unmade" /\ ~Waiting(n, made)
    /\ n \in Wait => \A k \in ToSet(Kids(n)) \cap Wait : made[k] \in Built \cup {"unmade"}

\* The .WAIT nodes before a child that is shown are made when the queue is
\* empty, or were not inspected: the first one that is not would wait for a
\* node that is made or for one that was inspected.
LEMMA LineDone ==
    ASSUME NodesOK, ScheduleInv, NEW m \in Make, Requested(m) = {},
           NEW p \in Node \ Wait, MakeOf[p] = m,
           NEW done, \A k \in done : MakeOf[k] = m => made[k] \in Built,
           NEW j \in DOMAIN Kids(p),
           \A l \in 1..(j - 1) :
              Kids(p)[l] \in Wait => ToSet(SubSeq(Kids(p), 1, l)) \subseteq done \cup Wait
    PROVE  \A l \in 1..(j - 1) : Kids(p)[l] \in Wait => made[Kids(p)[l]] \in Built \cup {"unmade"}
<1> DEFINE bad == {l \in 1..(j - 1) :
                      Kids(p)[l] \in Wait /\ made[Kids(p)[l]] \notin Built \cup {"unmade"}}
<1> SUFFICES ASSUME bad # {} PROVE FALSE
  OBVIOUS
<1>1. bad \subseteq Nat
  OBVIOUS
<1>2. PICK l \in bad : \A k \in bad : l <= k
  <2> HIDE DEF bad
  <2> QED
    BY <1>1, LeastNatural
<1> DEFINE w == Kids(p)[l]
<1>3. Kids(p) \in Seq(Node)
  BY DEF NodesOK, GraphOK, Kids
<1>4. /\ l \in 1..(j - 1) /\ l \in DOMAIN Kids(p) /\ l \in 1..Len(Kids(p))
      /\ j \in Nat /\ l \in Nat /\ Len(Kids(p)) \in Nat
  BY <1>2, <1>3
<1>5. w \in Node /\ w \in Wait /\ w \in ToSet(Kids(p))
  BY <1>2, <1>3, <1>4 DEF ToSet
<1>6. MakeOf[w] = m /\ made[w] \notin Built \cup {"unmade"}
  BY <1>2, <1>5 DEF NodesOK, GraphOK
<1>7. \A k \in 1..(l - 1) : Kids(p)[k] \in Wait => made[Kids(p)[k]] \in Built \cup {"unmade"}
  <2> SUFFICES ASSUME NEW k \in 1..(l - 1), k \in bad PROVE FALSE
    BY <1>4
  <2> HIDE DEF bad
  <2> QED
    BY <1>1, <1>2
<1>8. ToSet(SubSeq(Kids(p), 1, l)) \subseteq done \cup Wait
  BY <1>4, <1>5
<1>9. \A k \in 1..l : Kids(p)[k] \in done \cup Wait
  <2> DEFINE part == SubSeq(Kids(p), 1, l)
  <2>1. DOMAIN part = 1..l /\ \A k \in 1..l : part[k] = Kids(p)[k]
    BY <1>3, <1>4
  <2> HIDE DEF part
  <2>2. \A k \in 1..l : part[k] \in ToSet(part)
    BY <2>1 DEF ToSet
  <2>3. ToSet(part) \subseteq done \cup Wait
    BY <1>8 DEF part
  <2> QED
    BY <2>1, <2>2, <2>3
<1>10. \A k \in ToSet(Kids(w)) : \E x \in 1..(l - 1) : Kids(p)[x] = k
  BY <1>4, <1>5 DEF ScheduleInv, LinesOK
<1> HIDE DEF bad, w
<1>11. \A k \in ToSet(Kids(w)) : k \in Node /\ MakeOf[k] = m
  <2>1. Kids(w) \in Seq(Node)
    BY <1>5 DEF NodesOK, GraphOK, Kids
  <2>2. \A k \in ToSet(Kids(w)) : k \in Node
    BY <2>1 DEF ToSet
  <2> QED
    BY <1>5, <1>6, <2>2 DEF NodesOK, GraphOK
<1>12. made[w] = "deferred"
  <2>1. made[w] # "requested"
    BY <1>5, <1>6 DEF Requested
  <2>2. made[w] # "beingmade"
    BY <1>5 DEF ScheduleInv, WaitsMade
  <2> QED
    BY <1>5, <1>6, <2>1, <2>2 DEF NodesOK
<1>13. graph.order[w] = {} /\ ~Waiting(w, made)
  BY <1>5 DEF ScheduleInv, LinesOK, Waiting
<1>14. LooksUpTo(w) /\ UnbuiltKid(w)
  BY <1>5, <1>12, <1>13 DEF ScheduleInv, DeferredWaits, LooksFar, Looked
<1>15. PICK i \in DOMAIN Kids(w) : made[Kids(w)[i]] \notin Built
  BY <1>14 DEF UnbuiltKid, ToSet
<1>16. Kids(w)[i] \in ToSet(Kids(w))
  BY DEF ToSet
<1>17. PICK x \in 1..(l - 1) : Kids(p)[x] = Kids(w)[i]
  BY <1>10, <1>16
<1>18. Kids(w)[i] \notin done
  BY <1>11, <1>15, <1>16
<1>19. Kids(w)[i] \in Wait
  BY <1>4, <1>9, <1>17, <1>18
<1>20. made[Kids(w)[i]] = "unmade"
  BY <1>7, <1>15, <1>17, <1>19
<1>21. AfterWait(w, i)
  BY <1>14, <1>20 DEF LooksUpTo
<1>22. i = 1
  BY <1>5, <1>19 DEF ScheduleInv, LinesOK
<1> QED
  BY <1>21, <1>22 DEF AfterWait

\* What a seen node shows is seen.
LEMMA ShownReached ==
    ASSUME NodesOK, ScheduleInv, NEW m \in Make, Requested(m) = {},
           NEW done, \A k \in done : MakeOf[k] = m => made[k] \in Built,
           NEW p \in Node, MakeOf[p] = m, Reached(p),
           NEW n \in Shown(p, done), graph.order[n] \subseteq done
    PROVE  Reached(n)
<1>1. PICK j \in DOMAIN Kids(p) :
         /\ n = Kids(p)[j]
         /\ \A l \in 1..(j - 1) :
               Kids(p)[l] \in Wait => ToSet(SubSeq(Kids(p), 1, l)) \subseteq done \cup Wait
  BY DEF Shown
<1>2. n \in Node /\ n \in ToSet(Kids(p))
  BY <1>1 DEF NodesOK, GraphOK, Kids, ToSet
<1>3. /\ MakeOf[n] = m
      /\ \A k \in graph.order[n] : MakeOf[k] = m
  BY <1>2 DEF NodesOK, GraphOK
<1>4. ~Waiting(n, made)
  BY <1>3 DEF Waiting
<1>5. p \notin Wait => \A l \in 1..(j - 1) :
         Kids(p)[l] \in Wait => made[Kids(p)[l]] \in Built \cup {"unmade"}
  BY <1>1, LineDone
<1>6. p \in Wait => \A l \in DOMAIN Kids(p) :
         Kids(p)[l] \in Wait => l = 1 /\ made[Kids(p)[l]] \in Built \cup {"unmade"}
  <2>1. \A l \in DOMAIN Kids(p) : Kids(p)[l] \in ToSet(Kids(p))
    BY DEF ToSet
  <2>2. LinesOK
    BY DEF ScheduleInv
  <2>3. p \in Wait => \A l \in DOMAIN Kids(p) : Kids(p)[l] \in Wait => l = 1
    BY ONLY <2>2, p \in Node DEF LinesOK
  <2> QED
    BY <2>1, <2>3 DEF Reached
<1>7. Kids(p) \in Seq(Node) /\ j \in 1..Len(Kids(p)) /\ Len(Kids(p)) \in Nat
  <2>1. graph.children \in [Node -> Seq(Node)]
    BY DEF NodesOK, GraphOK
  <2>2. Kids(p) \in Seq(Node)
    BY <2>1 DEF Kids
  <2> QED
    BY <1>1, <2>2
<1>8. made[n] # "unmade"
  <2> SUFFICES ASSUME made[n] = "unmade" PROVE FALSE
    OBVIOUS
  <2>1. made[p] \notin Built \cup {"beingmade"}
    BY <1>2 DEF NodesOK, ChildrenBefore, Built
  <2>2. made[p] = "deferred"
    BY <2>1 DEF NodesOK, Requested, Reached
  <2>3. LooksUpTo(p)
    BY <2>2 DEF Reached, ScheduleInv, LooksFar, Looked
  <2>4. AfterWait(p, j)
    BY <1>1, <2>3 DEF LooksUpTo
  <2>5. PICK l \in 1..(j - 1) :
           Kids(p)[l] \in Wait /\ made[Kids(p)[l]] \notin Built \cup {"unmade"}
    BY <2>4 DEF AfterWait
  <2>6. l \in DOMAIN Kids(p)
    BY <1>7
  <2> QED
    BY <1>5, <1>6, <2>5, <2>6
<1>9. ASSUME n \in Wait, NEW k \in ToSet(Kids(n)) \cap Wait
      PROVE  made[k] \in Built \cup {"unmade"}
  <2>1. CASE p \in Wait
    <3>1. made[n] \in Built
      BY <1>1, <1>6, <1>8, <1>9, <2>1
    <3> QED
      BY <1>2, <3>1 DEF NodesOK, ChildrenBefore
  <2>2. CASE p \notin Wait
    <3>1. PICK x \in 1..(j - 1) : Kids(p)[x] = k
      BY <1>1, <1>9, <2>2 DEF ScheduleInv, LinesOK
    <3> QED
      BY <1>5, <1>9, <2>2, <3>1
  <2> QED
    BY <2>1, <2>2
<1> QED
  BY <1>4, <1>8, <1>9 DEF Reached

\* Seen, round by round.
LEMMA SeenRounds ==
    ASSUME GraphOK, NEW done
    PROVE  /\ Seen(done) \subseteq Node
           /\ \E round :
                 /\ round[0] = Mains
                 /\ \A k \in Nat :
                       round[k + 1] = SeenFrom(round[k], done) /\ round[k] \subseteq Node
                 /\ Seen(done) = round[Cardinality(Node)]
<1> DEFINE Sets == SUBSET Node
           G == [S \in Sets |-> SeenFrom(S, done)]
           Is(f) == f = [k \in Nat |-> IF k = 0 THEN Mains ELSE SeenFrom(f[k - 1], done)]
           round == CHOOSE f : Is(f)
<1>1. Mains \in Sets
  BY NodeAssumption DEF Mains
<1>2. \A S \in Sets : SeenFrom(S, done) \in Sets
  <2>1. \A p \in Node : Shown(p, done) \subseteq Node
    BY DEF Shown, GraphOK, Kids
  <2> QED
    BY <2>1 DEF SeenFrom
<1> HIDE DEF Sets
<1>3. G \in [Sets -> Sets] /\ \A S \in Sets : G[S] = SeenFrom(S, done)
  BY <1>2
<1> HIDE DEF G
<1>4. PICK r : AreRounds(r, Sets, Mains, G)
  <2> HIDE DEF Is, round
  <2> QED
    BY <1>1, <1>3, Rounds
<1>5. r[0] = Mains /\ \A k \in Nat : r[k] \in Sets /\ r[k + 1] = G[r[k]]
  BY <1>4 DEF AreRounds
<1>6. \A k \in Nat : r[k + 1] = SeenFrom(r[k], done)
  BY <1>3, <1>5
<1>7. Is(r)
  <2>1. r = [k \in Nat |-> r[k]]
    BY <1>4 DEF AreRounds
  <2>2. \A k \in Nat : r[k] = (IF k = 0 THEN Mains ELSE SeenFrom(r[k - 1], done))
    <3> SUFFICES ASSUME NEW k \in Nat, k # 0 PROVE r[k] = SeenFrom(r[k - 1], done)
      BY <1>5
    <3>1. k - 1 \in Nat /\ k - 1 + 1 = k
      OBVIOUS
    <3> QED
      BY <1>6, <3>1
  <2> QED
    BY <2>1, <2>2
<1>8. Seen(done) = round[Cardinality(Node)]
  BY DEF Seen
<1>9. Is(round)
  <2> HIDE DEF Is
  <2> QED
    BY <1>7
<1> HIDE DEF round
<1>10. round[0] = Mains /\ \A k \in Nat : round[k + 1] = SeenFrom(round[k], done)
  <2>1. \A k \in Nat : k + 1 \in Nat /\ k + 1 # 0 /\ (k + 1) - 1 = k
    OBVIOUS
  <2> QED
    BY <1>9, <2>1
<1>11. \A k \in Nat : round[k] \in Sets
  <2> DEFINE T == {k \in Nat : round[k] \in Sets}
  <2>1. 0 \in T /\ \A k \in Nat : k \in T => k + 1 \in T
    BY <1>1, <1>2, <1>10
  <2> HIDE DEF T
  <2>2. Nat \subseteq T
    BY <2>1, InductiveSet
  <2> QED
    BY <2>2 DEF T
<1>12. Cardinality(Node) \in Nat
  BY NodeAssumption, FS_CardinalityType
<1> QED
  BY <1>8, <1>10, <1>11, <1>12 DEF Sets

\* So is what Seen finds, in any number of rounds.
LEMMA SeenReached ==
    ASSUME NodesOK, ScheduleInv, NEW m \in Make, Requested(m) = {},
           NEW done, \A k \in done : MakeOf[k] = m => made[k] \in Built
    PROVE  \A n \in Seen(done) : MakeOf[n] = m => Reached(n)
<1> DEFINE Good(S) == \A n \in S : MakeOf[n] = m => Reached(n)
<1>1. Good(Mains)
  <2>1. \A k \in Make : MakeOf[Main[k]] = k
    BY NodeAssumption
  <2>2. Reached(Main[m])
    BY DEF Reached, ScheduleInv, MainsSeen, LinesOK, Waiting
  <2> QED
    BY <2>1, <2>2 DEF Mains
<1>2. ASSUME NEW S, S \subseteq Node, Good(S)
      PROVE  Good(SeenFrom(S, done))
  <2> SUFFICES ASSUME NEW n \in SeenFrom(S, done), n \notin S, MakeOf[n] = m
               PROVE  Reached(n)
    BY <1>2
  <2>1. PICK p \in S : n \in Shown(p, done) /\ graph.order[n] \subseteq done
    BY DEF SeenFrom
  <2>2. p \in Node /\ n \in ToSet(Kids(p))
    <3>1. PICK i \in DOMAIN Kids(p) : n = Kids(p)[i]
      BY <2>1 DEF Shown
    <3> QED
      BY <1>2, <2>1, <3>1 DEF ToSet
  <2>3. MakeOf[p] = m /\ Reached(p)
    BY <1>2, <2>1, <2>2 DEF NodesOK, GraphOK
  <2> QED
    BY <2>1, <2>2, <2>3, ShownReached
<1>3. PICK round :
         /\ round[0] = Mains
         /\ \A k \in Nat : round[k + 1] = SeenFrom(round[k], done) /\ round[k] \subseteq Node
         /\ Seen(done) = round[Cardinality(Node)]
  BY SeenRounds DEF NodesOK
<1> HIDE DEF Good
<1> DEFINE T == {k \in Nat : Good(round[k])}
<1>4. 0 \in T /\ \A k \in Nat : k \in T => k + 1 \in T
  BY <1>1, <1>2, <1>3
<1>5. Nat \subseteq T
  <2> HIDE DEF T
  <2> QED
    BY <1>4, InductiveSet
<1>6. Cardinality(Node) \in Nat
  BY NodeAssumption, FS_CardinalityType
<1>7. Good(Seen(done))
  BY <1>3, <1>5, <1>6
<1> QED
  BY <1>7 DEF Good

\* Possible, round by round.
Doable(done, failed) == {n \in Seen(done) \ failed : ToSet(Kids(n)) \subseteq done}
LEMMA PossibleRounds ==
    ASSUME GraphOK, NEW failed
    PROVE  \E round :
              /\ round[0] = {} /\ \A k \in Nat : round[k + 1] = Doable(round[k], failed)
              /\ Possible(failed) = round[Cardinality(Node)]
<1> DEFINE Sets == SUBSET Node
           G == [S \in Sets |-> Doable(S, failed)]
           Is(f) == f = [k \in Nat |-> IF k = 0 THEN {} ELSE Doable(f[k - 1], failed)]
           round == CHOOSE f : Is(f)
<1>1. {} \in Sets
  OBVIOUS
<1>2. \A S \in Sets : Doable(S, failed) \in Sets
  <2>1. \A S : Seen(S) \subseteq Node
    BY SeenRounds
  <2> QED
    BY <2>1 DEF Doable
<1> HIDE DEF Sets
<1>3. G \in [Sets -> Sets] /\ \A S \in Sets : G[S] = Doable(S, failed)
  BY <1>2
<1> HIDE DEF G
<1>4. PICK r : AreRounds(r, Sets, {}, G)
  <2> DEFINE none == {}
  <2>1. none \in Sets
    BY <1>1
  <2> HIDE DEF Is, round, none
  <2>2. \E r : AreRounds(r, Sets, none, G)
    BY <1>3, <2>1, Rounds
  <2> QED
    BY <2>2 DEF none
<1>5. r[0] = {} /\ \A k \in Nat : r[k] \in Sets /\ r[k + 1] = G[r[k]]
  BY <1>4 DEF AreRounds
<1>6. \A k \in Nat : r[k + 1] = Doable(r[k], failed)
  BY <1>3, <1>5
<1>7. Is(r)
  <2>1. r = [k \in Nat |-> r[k]]
    BY <1>4 DEF AreRounds
  <2>2. \A k \in Nat : r[k] = (IF k = 0 THEN {} ELSE Doable(r[k - 1], failed))
    <3> SUFFICES ASSUME NEW k \in Nat, k # 0 PROVE r[k] = Doable(r[k - 1], failed)
      BY <1>5
    <3>1. k - 1 \in Nat /\ k - 1 + 1 = k
      OBVIOUS
    <3> QED
      BY <1>6, <3>1
  <2> QED
    BY <2>1, <2>2
<1>8. Possible(failed) = round[Cardinality(Node)]
  BY DEF Possible, Doable
<1>9. Is(round)
  <2> HIDE DEF Is
  <2> QED
    BY <1>7
<1> HIDE DEF round
<1>10. round[0] = {} /\ \A k \in Nat : round[k + 1] = Doable(round[k], failed)
  <2>1. \A k \in Nat : k + 1 \in Nat /\ k + 1 # 0 /\ (k + 1) - 1 = k
    OBVIOUS
  <2> QED
    BY <1>9, <2>1
<1> QED
  BY <1>8, <1>10

\* What can be made is made when the queue is empty.
LEMMA PossibleBuilt ==
    ASSUME NodesOK, ScheduleInv, NEW m \in Make, Requested(m) = {}
    PROVE  \A n \in Possible({k \in Node : made[k] = "beingmade"}) :
              MakeOf[n] = m => made[n] \in Built
<1> DEFINE failed == {k \in Node : made[k] = "beingmade"}
           Good(S) == \A n \in S : MakeOf[n] = m => made[n] \in Built
<1>1. ASSUME NEW S, Good(S)
      PROVE  Good(Doable(S, failed))
  <2> SUFFICES ASSUME NEW n \in Doable(S, failed), MakeOf[n] = m
               PROVE  made[n] \in Built
    OBVIOUS
  <2>1. n \in Seen(S) /\ n \notin failed /\ ToSet(Kids(n)) \subseteq S
    BY DEF Doable
  <2>2. n \in Node
    <3>1. Seen(S) \subseteq Node
      BY SeenRounds DEF NodesOK
    <3> QED
      BY <2>1, <3>1
  <2>3. Reached(n)
    <3>1. \A k \in S : MakeOf[k] = m => made[k] \in Built
      BY <1>1
    <3> HIDE DEF Good, failed
    <3>2. \A k \in Seen(S) : MakeOf[k] = m => Reached(k)
      BY <3>1, SeenReached
    <3> QED
      BY <2>1, <3>2
  <2>4. \A k \in ToSet(Kids(n)) : MakeOf[k] = m
    BY <2>2 DEF NodesOK, GraphOK
  <2>5. ~UnbuiltKid(n)
    BY <1>1, <2>1, <2>4 DEF UnbuiltKid
  <2>6. made[n] # "deferred"
    BY <2>2, <2>3, <2>5 DEF ScheduleInv, DeferredWaits, Reached
  <2>7. made[n] # "requested" /\ made[n] # "unmade" /\ made[n] # "beingmade"
    BY <2>1, <2>2, <2>3 DEF Requested, Reached
  <2> QED
    BY <2>2, <2>6, <2>7 DEF NodesOK
<1>2. PICK round :
         /\ round[0] = {} /\ \A k \in Nat : round[k + 1] = Doable(round[k], failed)
         /\ Possible(failed) = round[Cardinality(Node)]
  BY PossibleRounds DEF NodesOK
<1>3. Good({})
  OBVIOUS
<1> HIDE DEF Good, failed
<1> DEFINE T == {k \in Nat : Good(round[k])}
<1>4. 0 \in T /\ \A k \in Nat : k \in T => k + 1 \in T
  BY <1>1, <1>2, <1>3
<1>5. Nat \subseteq T
  <2> HIDE DEF T
  <2> QED
    BY <1>4, InductiveSet
<1>6. Cardinality(Node) \in Nat
  BY NodeAssumption, FS_CardinalityType
<1>7. Good(Possible(failed))
  BY <1>2, <1>5, <1>6
<1> QED
  BY <1>7 DEF Good, failed

-----------------------------------------------------------------------------
(* The theorems.                                                           *)

\* The invariant holds.
LEMMA Invariance == Spec => []Inv
<1>1. Init => Inv
  BY InitInv
<1>2. Inv /\ [Next]_vars => Inv'
  BY NextInv
<1> QED
  BY <1>1, <1>2, PTL DEF Spec

\* Type correctness: jobTokensRunning and unmade never are negative, and a
\* make never has more tokens than -j.
THEOREM TypeCorrect == Spec => []TypeOK
<1>1. Inv => TypeOK
  BY DEF Inv, NodesOK, ProcessesOK, ProcessTypes, GraphOK, TypeOK
<1> QED
  BY <1>1, Invariance, PTL

\* The queue of a make has its requested nodes, each once: MakeStartJobs never
\* takes another node from it.
THEOREM QueueCorrect == Spec => []QueueRequested
BY InvQueue, Invariance, PTL

\* A node is started and made after its children and after those left of it on
\* .ORDER lines; this is why the counts that Make_Update decrements are right.
THEOREM PredecessorsCorrect == Spec => []PredecessorsFirst
<1>1. Inv => PredecessorsFirst
  BY DEF Inv, NodesOK, OrderedBefore, ChildrenBefore, PredecessorsFirst
<1> QED
  BY <1>1, Invariance, PTL

\* No job token is lost or made, for any number of makes and jobs.
THEOREM TokensCorrect == Spec => []TokensKept
BY InvTokens, Invariance, PTL

\* Never do more than -j commands run, also while a failure spreads.
THEOREM JobsCorrect == Spec => []JobsBounded
BY InvJobs, Invariance, PTL

\* A stopper stays in the pipe or in the hands of a make that puts it back.
THEOREM StopperCorrect == Spec => StopperKept
<1>1. Inv /\ [Next]_vars => [Stopped => Stopped'
          \/ \E m \in Make : pc[m] \in {"drain", "stop"} /\ pc'[m] = "dead"]_vars
  BY NextInv
<1> QED
  BY <1>1, Invariance, PTL DEF Spec, StopperKept

\* -k: "Continue processing after errors are encountered, but only on those
\* targets that do not depend on the target whose creation caused the error":
\* a make that is through has made every node that neither a failure nor a loop
\* keeps from being made, whatever was put back on the way.
THEOREM NothingForgottenCorrect == Spec => []NothingForgotten
<1> DEFINE Whole == Inv /\ ScheduleInv /\ QueuesEmpty
<1>1. Init => Whole
  BY InitInv, InitSchedules
<1>2. Whole /\ [Next]_vars => Whole'
  BY NextInv, ScheduleStep DEF Inv
<1>3. Whole => NothingForgotten
  <2> SUFFICES ASSUME Whole, NEW m \in Make,
                      pc[m] \in Ended \ {"dead"}, aborting[m] = "no"
               PROVE  \A n \in Possible({k \in Node : made[k] = "beingmade"}) :
                         MakeOf[n] = m => made[n] \in Built
    BY DEF NothingForgotten
  <2>1. toBeMade[m] = <<>>
    BY DEF QueuesEmpty
  <2>2. Requested(m) = {}
    BY <2>1 DEF Inv, NodesOK, QueueLists, Lists
  <2> QED
    BY <2>2, PossibleBuilt DEF Inv
<1> QED
  BY <1>1, <1>2, <1>3, PTL DEF Spec

=============================================================================
