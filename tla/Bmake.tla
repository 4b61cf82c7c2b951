------------------------------- MODULE Bmake -------------------------------
(***************************************************************************)
(* Parallel bmake(1), which runs every phase of a build.  Make_Run takes   *)
(* nodes of the graph from the queue toBeMade and starts their jobs;       *)
(* finished jobs let their parents be scheduled.  A make and the makes its *)
(* jobs run share a pipe of job tokens: a token is needed for every job    *)
(* beyond a make's first one, and a make that fails replaces the tokens by *)
(* a stopper.                                                              *)
(*                                                                         *)
(* Every operation on the pipe is a step of its own; what a make does in   *)
(* between touches only its own state.  The poll of Job_CatchOutput ends   *)
(* after POLL_MSEC at the latest, so that wantToken, which only makes it   *)
(* end earlier, has no variable.  A node is a target with one set of       *)
(* commands: `::' rules, .JOIN, .MADE and -n, -q, -t are left out, and so  *)
(* are signals.                                                            *)
(***************************************************************************)
EXTENDS Naturals, Sequences, FiniteSets, SequencesExt, FiniteSetsExt

CONSTANTS
    Make,       \* the make processes
    Root,       \* the one the user has started
    Node,       \* the nodes of all their graphs
    MakeOf,     \* MakeOf[n]: the make that n is a node of
    Main,       \* Main[m]: the node .MAIN of m
    Wait,       \* the .WAIT nodes
    Graphs,     \* the makefiles: children, .ORDER, and the make a node's commands run
    NoMake,
    Forms,      \* Forms[n]: how n turns out when it is looked at
    KeepGoing,  \* the sets of makes that may be given -k
    MaxJobs     \* -j

FormSpace == {"uptodate", "empty", "commands", "unknown"}

ASSUME MakeAssumption == Root \in Make /\ NoMake \notin Make /\ IsFiniteSet(Make)
ASSUME NodeAssumption ==
    /\ IsFiniteSet(Node) /\ MakeOf \in [Node -> Make] /\ Wait \subseteq Node
    /\ Main \in [Make -> Node] /\ \A m \in Make : MakeOf[Main[m]] = m
    /\ Forms \in [Node -> SUBSET FormSpace]
ASSUME GraphAssumption ==
    /\ Graphs \subseteq [children : [Node -> Seq(Node)], order : [Node -> SUBSET Node],
                        sub : [Node -> (Make \ {Root}) \cup {NoMake}]]
    /\ \A g \in Graphs :
          /\ \A n \in Node : \A k \in ToSet(g.children[n]) \cup g.order[n] : MakeOf[k] = MakeOf[n]
          /\ \A m \in Make : g.order[Main[m]] = {}
          /\ \A n, k \in Node : g.sub[n] = g.sub[k] /\ n # k => g.sub[n] = NoMake
\* ParseDoSrc makes a node for each .WAIT of the makefile, without commands or a
\* name for .ORDER; the lines of the model have one target.
ASSUME WaitAssumption ==
    /\ \A n \in Wait : Forms[n] \subseteq {"uptodate", "empty"} /\ \A m \in Make : n # Main[m]
    /\ \A g \in Graphs : \A n \in Wait :
          /\ g.children[n] = <<>> /\ g.order[n] = {}
          /\ \A p, q \in Node : \A i \in DOMAIN g.children[p], j \in DOMAIN g.children[q] :
                g.children[p][i] = n /\ g.children[q][j] = n => p = q /\ i = j
ASSUME BoundsAssumption == MaxJobs \in Nat \ {0} /\ KeepGoing \subseteq SUBSET Make

VARIABLES
    graph,      \* the makefiles, after Make_ProcessWait
    keepgoing,  \* makes with -k
    pc,         \* where each make is
    made,       \* the state of each node
    unmade,     \* children it still waits for
    checked,    \* nodes looked at since a job of their make finished
    doneOrder,  \* nodes with the flag DONE_ORDER
    toBeMade,   \* queue of each make
    job,        \* the job of each node, and how it has ended
    running,    \* jobTokensRunning
    aborting,   \* why a make is aborting
    errors,     \* makes with errors > 0
    pool        \* the bytes in the pipe

graphVars == <<made, unmade, checked, doneOrder, toBeMade>>
jobVars == <<job, running, aborting, errors, pool>>
vars == <<graph, keepgoing, pc, graphVars, jobVars>>

Locations ==
    {"off", "start",    \* not started; MakeStartJobs without a token,
     "token",           \* with one
     "spare",           \* it has read a token that it does not need
     "drain", "stop",   \* it empties the pipe, and puts a stopper there
     "poll",            \* Job_CatchOutput
     "made", "failed", "unbuilt",   \* exited
     "dead"}            \* by DieHorribly, its own or its parent's

Ended == {"made", "failed", "unbuilt", "dead"}
Live(m) == pc[m] \notin Ended \cup {"off"}

Built == {"made", "uptodate"}
Goto(m, l) == pc' = [pc EXCEPT ![m] = l]
Sub(n) == graph.sub[n]
Kids(n) == graph.children[n]
Parents(n) == {p \in Node : n \in ToSet(Kids(p))}

\* How often n is a child of p: `p: n n' counts it twice.
Times(n, p) == Cardinality({i \in DOMAIN Kids(p) : Kids(p)[i] = n})

-----------------------------------------------------------------------------
(* The graph.                                                              *)

\* Make_ProcessWait: a .WAIT node depends on the children before it, back to
\* the previous .WAIT.
ProcessWait(children) ==
    [w \in Node |->
        IF w \in Wait /\ \E p \in Node : w \in ToSet(children[p])
        THEN LET line == children[CHOOSE p \in Node : w \in ToSet(children[p])]
                 i == CHOOSE k \in DOMAIN line : line[k] = w
                 before == {k \in 1..(i - 1) : line[k] \in Wait}
             IN SubSeq(line, IF before = {} THEN 1 ELSE Max(before), i - 1)
        ELSE children[w]]

\* Make_ExpandUse flags the nodes below .MAIN.
Mains == {Main[m] : m \in Make}
Remade(children) ==
    LET below[k \in Nat] ==
            IF k = 0 THEN Mains
            ELSE LET above == below[k - 1]
                 IN above \cup UNION {ToSet(children[p]) : p \in above}
    IN below[Cardinality(Node)]

\* Mutant: a node that is being made counts as made.
StartedWaiting(n, state) == \E b \in graph.order[n] : state[b] \notin Built \cup {"beingmade"}

\* MakeCheckOrder: a node left of n on a .ORDER line is still to be made.
Waiting(n, state) == \E b \in graph.order[n] : state[b] \notin Built

\* MakeBuildChild may schedule the node.
Schedulable(n, state) == state[n] \in {"unmade", "deferred"} /\ ~Waiting(n, state)

\* Mutant: the children after a .WAIT are inspected, too.
InspectedAll(n) == Kids(n)

\* The children of n that MakeBuildChild inspects: those up to the first
\* .WAIT node that it schedules and that has unmade children.
Inspected(n) ==
    LET stops == {i \in DOMAIN Kids(n) :
                     /\ Kids(n)[i] \in Wait /\ unmade[Kids(n)[i]] > 0
                     /\ Schedulable(Kids(n)[i], made)}
    IN IF stops = {} THEN Kids(n) ELSE SubSeq(Kids(n), 1, Min(stops))

\* Mutant: the parents of .WAIT and .ORDER nodes are not rescanned.
MakeUpdateNoRescan(n, state, q) ==
    LET held == {s \in Node : n \in graph.order[s] /\ state[s] = "deferred"}
        free == {s \in held : ~Waiting(s, state)}
        left == [p \in Node |-> unmade[p] - Times(n, p)]
        again == {p \in Parents(n) \ free :
                    /\ left[p] = 0
                    /\ state[p] = "deferred" /\ ~Waiting(p, state)}
    IN /\ made' = [p \in Node |-> IF p \in free \cup again THEN "requested" ELSE state[p]]
       /\ unmade' = left
       /\ checked' = {p \in checked : MakeOf[p] # MakeOf[n]}
       /\ doneOrder' = doneOrder \cup held
       /\ \E s \in SetToSeqs(free), t \in SetToSeqs(again) :
             toBeMade' = [toBeMade EXCEPT ![MakeOf[n]] = s \o q \o t]

\* Make_Update: n is made, and state says so.  The nodes right of n on a
\* .ORDER line go to the front of the queue, and the parents that can be
\* scheduled again to its end; q is the queue.
MakeUpdate(n, state, q) ==
    LET held == {s \in Node : n \in graph.order[s] /\ state[s] = "deferred"}
        free == {s \in held : ~Waiting(s, state)}
        left == [p \in Node |-> unmade[p] - Times(n, p)]
        again == {p \in Parents(n) \ free :
                    /\ left[p] = 0 \/ n \in Wait \cup doneOrder
                    /\ state[p] = "deferred" /\ ~Waiting(p, state)}
    IN /\ made' = [p \in Node |-> IF p \in free \cup again THEN "requested" ELSE state[p]]
       /\ unmade' = left
       /\ checked' = {p \in checked : MakeOf[p] # MakeOf[n]}
       /\ doneOrder' = doneOrder \cup held
       /\ \E s \in SetToSeqs(free), t \in SetToSeqs(again) :
             toBeMade' = [toBeMade EXCEPT ![MakeOf[n]] = s \o q \o t]

-----------------------------------------------------------------------------
(* Job tokens.                                                             *)

\* Mutant: the make's own token is returned, too.
OwnReturned(m) ==
    /\ running' = [running EXCEPT ![m] = @ - 1]
    /\ pool' = Append(pool, "+")

\* Job_TokenReturn without an error: the last token is the make's own.
TokenReturn(m) ==
    /\ running' = [running EXCEPT ![m] = @ - 1]
    /\ pool' = IF running[m] > 1 THEN Append(pool, "+") ELSE pool

\* Mutant: the first job, too, waits for a token.
TokenNeeded(m) ==
    /\ pc[m] = "start" /\ toBeMade[m] # <<>>
    /\ aborting[m] = "no" /\ running[m] < MaxJobs
    /\ \/ /\ pool = <<>>
          /\ Goto(m, "poll")
          /\ UNCHANGED <<running, pool>>
       \/ /\ pool # <<>> /\ Head(pool) = "+"
          /\ IF running[m] = 0
             THEN Goto(m, "spare") /\ UNCHANGED running
             ELSE Goto(m, "token") /\ running' = [running EXCEPT ![m] = @ + 1]
          /\ pool' = Tail(pool)
       \/ /\ pool # <<>> /\ Head(pool) = "stop"
          /\ Goto(m, "drain")
          /\ pool' = Tail(pool)
          /\ UNCHANGED running
    /\ UNCHANGED <<graph, keepgoing, graphVars, job, aborting, errors>>

\* Job_TokenWithdraw: the first job needs no token, and one that it gets all
\* the same is put back; a stopper ends the make.
TokenWithdraw(m) ==
    /\ pc[m] = "start" /\ toBeMade[m] # <<>>
    /\ aborting[m] = "no" /\ running[m] < MaxJobs
    /\ \/ /\ pool = <<>>
          /\ IF running[m] = 0
             THEN Goto(m, "token") /\ running' = [running EXCEPT ![m] = 1]
             ELSE Goto(m, "poll") /\ UNCHANGED running
          /\ UNCHANGED pool
       \/ /\ pool # <<>> /\ Head(pool) = "+"
          /\ IF running[m] = 0
             THEN Goto(m, "spare") /\ UNCHANGED running
             ELSE Goto(m, "token") /\ running' = [running EXCEPT ![m] = @ + 1]
          /\ pool' = Tail(pool)
       \/ /\ pool # <<>> /\ Head(pool) = "stop"
          /\ Goto(m, "drain")
          /\ pool' = Tail(pool)
          /\ UNCHANGED running
    /\ UNCHANGED <<graph, keepgoing, graphVars, job, aborting, errors>>

SpareReturned(m) ==
    /\ pc[m] = "spare"
    /\ pool' = Append(pool, "+")
    /\ running' = [running EXCEPT ![m] = 1]
    /\ Goto(m, "token")
    /\ UNCHANGED <<graph, keepgoing, graphVars, job, aborting, errors>>

\* The process ends, and with it the job that has run it.
Exit(m, l) ==
    /\ Goto(m, l)
    /\ job' = [n \in Node |-> IF Sub(n) = m /\ job[n] = "running"
                              THEN IF l = "made" THEN "ok" ELSE "error"
                              ELSE job[n]]

\* Other tokens are removed, one by one.
Drain(m) ==
    /\ pc[m] = "drain" /\ pool # <<>>
    /\ pool' = Tail(pool)
    /\ UNCHANGED <<graph, keepgoing, pc, graphVars, job, running, aborting, errors>>

Drained(m) ==
    /\ pc[m] = "drain" /\ pool = <<>>
    /\ Goto(m, "stop")
    /\ UNCHANGED <<graph, keepgoing, graphVars, jobVars>>

\* Mutant: it is not put back.
StopperDropped(m) ==
    /\ pc[m] = "stop"
    /\ aborting' = [aborting EXCEPT ![m] = IF @ = "no" THEN "wait" ELSE @]
    /\ IF running[m] = 0 THEN Exit(m, "failed") ELSE Goto(m, "poll") /\ UNCHANGED job
    /\ UNCHANGED <<graph, keepgoing, graphVars, running, errors, pool>>

\* The stopper is put (back).  In JobFinish, Finish follows when no job is
\* left; in Job_TokenWithdraw, Fatal waits for the jobs.
Stop(m) ==
    /\ pc[m] = "stop"
    /\ pool' = Append(pool, "stop")
    /\ aborting' = [aborting EXCEPT ![m] = IF @ = "no" THEN "wait" ELSE @]
    /\ IF running[m] = 0 THEN Exit(m, "failed") ELSE Goto(m, "poll") /\ UNCHANGED job
    /\ UNCHANGED <<graph, keepgoing, graphVars, running, errors>>

-----------------------------------------------------------------------------
(* MakeStartJobs.                                                          *)

\* The next node in the queue, for which m has a token.
Candidate(m) == Head(toBeMade[m])
Examining(m) == pc[m] = "token" /\ toBeMade[m] # <<>>

\* Mutant: it stays REQUESTED.
DroppedRequested(m) ==
    /\ Examining(m) /\ Candidate(m) \in checked
    /\ toBeMade' = [toBeMade EXCEPT ![m] = Tail(@)]
    /\ UNCHANGED <<graph, keepgoing, pc, made, unmade, checked, doneOrder, jobVars>>

\* It has been looked at since a job finished: it waits for the next one.
AlreadyChecked(m) ==
    /\ Examining(m) /\ Candidate(m) \in checked
    /\ made' = [made EXCEPT ![Candidate(m)] = "deferred"]
    /\ toBeMade' = [toBeMade EXCEPT ![m] = Tail(@)]
    /\ UNCHANGED <<graph, keepgoing, pc, unmade, checked, doneOrder, jobVars>>

\* The nodes of s are in the order in which they come first in line.
InOrder(s, line) ==
    \A i, j \in DOMAIN s : i < j =>
        \E k \in DOMAIN line : line[k] = s[i] /\ \A l \in 1..k : line[l] # s[j]

\* It has unmade children: those that may be made go to the front of the queue.
ScheduleChildren(m) ==
    LET n == Candidate(m)
        front == {c \in ToSet(Inspected(n)) : Schedulable(c, made)}
        late == {c \in ToSet(Inspected(n)) : made[c] = "unmade" /\ Waiting(c, made)} IN
    /\ Examining(m) /\ n \notin checked /\ unmade[n] # 0
    /\ made' = [c \in Node |-> IF c \in front THEN "requested"
                               ELSE IF c \in late \cup {n} THEN "deferred" ELSE made[c]]
    /\ \E s \in SetToSeqs(front) :
          InOrder(s, Inspected(n)) /\ toBeMade' = [toBeMade EXCEPT ![m] = s \o Tail(@)]
    /\ checked' = checked \cup {n}
    /\ UNCHANGED <<graph, keepgoing, pc, unmade, doneOrder, jobVars>>

\* The node can be made, and its form is f.
Makeable(m, f) ==
    /\ Examining(m) /\ Candidate(m) \notin checked /\ unmade[Candidate(m)] = 0
    /\ f \in Forms[Candidate(m)]

UpToDate(m) ==
    /\ Makeable(m, "uptodate")
    /\ MakeUpdate(Candidate(m), [made EXCEPT ![Candidate(m)] = "uptodate"], Tail(toBeMade[m]))
    /\ UNCHANGED <<graph, keepgoing, pc, jobVars>>

\* Mutant: the token of a job that is not run is kept.
NoReturn(m) ==
    /\ Makeable(m, "empty")
    /\ MakeUpdate(Candidate(m), [made EXCEPT ![Candidate(m)] = "made"], Tail(toBeMade[m]))
    /\ Goto(m, "start")
    /\ UNCHANGED <<graph, keepgoing, jobVars>>

\* Mutant: have_token is not reset.
TokenBotch(m) ==
    /\ Makeable(m, "empty")
    /\ MakeUpdate(Candidate(m), [made EXCEPT ![Candidate(m)] = "made"], Tail(toBeMade[m]))
    /\ TokenReturn(m)
    /\ UNCHANGED <<graph, keepgoing, pc, job, aborting, errors>>

\* JobStart has no commands to run.
NoCommands(m) ==
    /\ Makeable(m, "empty")
    /\ MakeUpdate(Candidate(m), [made EXCEPT ![Candidate(m)] = "made"], Tail(toBeMade[m]))
    /\ TokenReturn(m)
    /\ Goto(m, "start")
    /\ UNCHANGED <<graph, keepgoing, job, aborting, errors>>

\* JobStart executes the commands; they may run a make.
JobExec(m) ==
    LET n == Candidate(m) IN
    /\ Makeable(m, "commands")
    /\ made' = [made EXCEPT ![n] = "beingmade"]
    /\ checked' = checked \cup {n}
    /\ toBeMade' = [toBeMade EXCEPT ![m] = Tail(@)]
    /\ job' = [job EXCEPT ![n] = "running"]
    /\ pc' = [k \in Make |-> IF k = m \/ k = Sub(n) THEN "start" ELSE pc[k]]
    /\ UNCHANGED <<graph, keepgoing, unmade, doneOrder, running, aborting, errors, pool>>

\* Nobody knows how to make the node: DieHorribly kills the jobs, makes among
\* them, but not the jobs of these.
DieHorribly(m) ==
    LET own == {n \in Node : MakeOf[n] = m /\ job[n] = "running"}
        killed == {Sub(n) : n \in own} IN
    /\ Makeable(m, "unknown")
    /\ made' = [made EXCEPT ![Candidate(m)] = "beingmade"]
    /\ aborting' = [aborting EXCEPT ![m] = "error"]
    /\ job' = [n \in Node |-> IF MakeOf[n] = m THEN "none"
                              ELSE IF Sub(n) = m THEN "error" ELSE job[n]]
    /\ pc' = [k \in Make |-> IF k \in killed \cup {m} THEN "dead" ELSE pc[k]]
    /\ toBeMade' = [toBeMade EXCEPT ![m] = Tail(@)]
    /\ UNCHANGED <<graph, keepgoing, unmade, checked, doneOrder, running, errors, pool>>

\* Make_Run is through: the exit status, after MakePrintStatus.
Finish(m) ==
    Exit(m, IF m \in errors THEN "failed"
            ELSE IF \E n \in ToSet(Kids(Main[m])) : made[n] \notin Built
            THEN "unbuilt" ELSE "made")

\* MakeStartJobs returns: the queue is empty, or all slots are taken.  A token
\* that was not needed is returned.
StartedJobs(m) ==
    /\ \/ pc[m] = "token" /\ toBeMade[m] = <<>> /\ TokenReturn(m)
       \/ /\ pc[m] = "start" /\ (toBeMade[m] = <<>> \/ running[m] >= MaxJobs)
          /\ UNCHANGED <<running, pool>>
    /\ IF toBeMade[m] = <<>> /\ running'[m] = 0 THEN Finish(m)
       ELSE Goto(m, "poll") /\ UNCHANGED job
    /\ UNCHANGED <<graph, keepgoing, graphVars, aborting, errors>>

-----------------------------------------------------------------------------
(* Job_CatchOutput.                                                        *)

Exited(m) == {n \in Node : MakeOf[n] = m /\ job[n] \in {"ok", "error"}}

\* JobFinish of a job that has succeeded.
JobSucceeded(m, n) ==
    /\ pc[m] = "poll" /\ n \in Exited(m) /\ job[n] = "ok"
    /\ job' = [job EXCEPT ![n] = "none"]
    /\ \/ /\ aborting[m] # "error"
          /\ MakeUpdate(n, [made EXCEPT ![n] = "made"], toBeMade[m])
          /\ TokenReturn(m)
          /\ UNCHANGED pc
       \/ /\ aborting[m] = "error"
          /\ running' = [running EXCEPT ![m] = @ - 1]
          /\ Goto(m, "drain")
          /\ UNCHANGED <<graphVars, pool>>
    /\ UNCHANGED <<graph, keepgoing, aborting, errors>>

\* JobFinish of a job that has failed.
JobFailed(m, n) ==
    /\ pc[m] = "poll" /\ n \in Exited(m) /\ job[n] = "error"
    /\ job' = [job EXCEPT ![n] = "none"]
    /\ errors' = errors \cup {m}
    /\ \/ /\ m \in keepgoing /\ aborting[m] # "error"
          /\ TokenReturn(m)
          /\ UNCHANGED <<pc, aborting>>
       \/ /\ m \notin keepgoing \/ aborting[m] = "error"
          /\ aborting' = [aborting EXCEPT ![m] = "error"]
          /\ running' = [running EXCEPT ![m] = @ - 1]
          /\ Goto(m, "drain")
          /\ UNCHANGED pool
    /\ UNCHANGED <<graph, keepgoing, graphVars>>

\* No job is left to be reaped: MakeStartJobs, or the end of Job_Wait.
Caught(m) ==
    /\ pc[m] = "poll" /\ Exited(m) = {}
    /\ \/ aborting[m] = "no" /\ Goto(m, "start") /\ UNCHANGED job
       \/ aborting[m] = "wait" /\ running[m] = 0 /\ Exit(m, "failed")
    /\ UNCHANGED <<graph, keepgoing, graphVars, running, aborting, errors, pool>>

\* The commands of a node end.
JobExits(n) ==
    /\ job[n] = "running" /\ Sub(n) = NoMake
    /\ \E r \in {"ok", "error"} : job' = [job EXCEPT ![n] = r]
    /\ UNCHANGED <<graph, keepgoing, pc, graphVars, running, aborting, errors, pool>>

-----------------------------------------------------------------------------
\* Job_ServerStart, Make_ExpandUse and Make_ProcessWait.
Init ==
    /\ \E g \in Graphs : graph =
          [g EXCEPT !.children = ProcessWait(@),
                    !.order = [n \in Node |-> @[n] \cap Remade(g.children)]]
    /\ keepgoing \in KeepGoing
    /\ pc = [m \in Make |-> IF m = Root THEN "start" ELSE "off"]
    /\ made = [n \in Node |-> IF \E m \in Make : n = Main[m] THEN "requested" ELSE "unmade"]
    /\ unmade = [n \in Node |-> Len(Kids(n))]
    /\ checked = {} /\ doneOrder = {}
    /\ toBeMade = [m \in Make |-> <<Main[m]>>]
    /\ job = [n \in Node |-> "none"]
    /\ running = [m \in Make |-> 0]
    /\ aborting = [m \in Make |-> "no"]
    /\ errors = {}
    /\ pool = [i \in 1..(MaxJobs - 1) |-> "+"]

Step(m) ==
    \/ TokenWithdraw(m) \/ SpareReturned(m) \/ Drain(m) \/ Drained(m) \/ Stop(m)
    \/ AlreadyChecked(m) \/ ScheduleChildren(m) \/ UpToDate(m) \/ NoCommands(m)
    \/ JobExec(m) \/ DieHorribly(m) \/ StartedJobs(m)
    \/ (\E n \in Node : JobSucceeded(m, n) \/ JobFailed(m, n)) \/ Caught(m)

Next == (\E m \in Make : Step(m)) \/ (\E n \in Node : JobExits(n))

\* Every process is scheduled, and the commands of the jobs end.
Fairness == (\A m \in Make : WF_vars(Step(m))) /\ WF_vars(\E n \in Node : JobExits(n))
Spec == Init /\ [][Next]_vars /\ Fairness

-----------------------------------------------------------------------------
(* Properties.                                                             *)

\* The type invariant; a negative jobTokensRunning is the "token botch" of
\* Job_TokenReturn, a negative unmade the "Graph cycles" of Make_Update.
TypeOK ==
    /\ graph.children \in [Node -> Seq(Node)] /\ keepgoing \subseteq Make
    /\ pc \in [Make -> Locations]
    /\ made \in [Node -> {"unmade", "deferred", "requested", "beingmade"} \cup Built]
    /\ unmade \in [Node -> Nat]
    /\ checked \subseteq Node /\ doneOrder \subseteq Node
    /\ toBeMade \in [Make -> Seq(Node)]
    /\ job \in [Node -> {"none", "running", "ok", "error"}]
    /\ running \in [Make -> 0..MaxJobs]
    /\ aborting \in [Make -> {"no", "error", "wait"}]
    /\ errors \subseteq Make
    /\ pool \in Seq({"+", "stop"})

\* "REQUESTED - on toBeMade list": MakeStartJobs aborts if it takes another node
\* from the queue.  It has just the requested nodes, each once, however .ORDER,
\* .WAIT and several parents have put them there.
QueueRequested ==
    \A m \in Make : \A n \in {k \in Node : MakeOf[k] = m} :
        Cardinality({i \in DOMAIN toBeMade[m] : toBeMade[m][i] = n})
          = (IF made[n] = "requested" THEN 1 ELSE 0)

\* Reference: what a make gets to see once the nodes in done are done.  A node
\* is seen through a parent that is seen once all left of it on a .ORDER line,
\* and all before the last .WAIT before it, are done.
Shown(p, done) ==
    {Kids(p)[i] : i \in {j \in DOMAIN Kids(p) :
        \A l \in 1..(j - 1) :
            Kids(p)[l] \in Wait => ToSet(SubSeq(Kids(p), 1, l)) \subseteq done \cup Wait}}
SeenFrom(seen, done) ==
    seen \cup {n \in UNION {Shown(p, done) : p \in seen} : graph.order[n] \subseteq done}
Seen(done) ==
    LET round[k \in Nat] == IF k = 0 THEN Mains
                           ELSE LET seen == round[k - 1] IN SeenFrom(seen, done)
    IN round[Cardinality(Node)]

\* Reference: the nodes that can be made at all, if those in failed cannot.
Possible(failed) ==
    LET round[k \in Nat] ==
            IF k = 0 THEN {}
            ELSE LET done == round[k - 1]
                     seen == Seen(done)
                 IN {n \in seen \ failed : ToSet(Kids(n)) \subseteq done}
    IN round[Cardinality(Node)]

\* Make_Run: "Using this queue and the Job module, work back up the graph": what
\* a node depends on is made before it is started, its children, those left of
\* it on a .ORDER line and, for a .WAIT node, those before it.
PredecessorsFirst ==
    \A n \in Node : made[n] \in Built \cup {"beingmade"} =>
        \A k \in ToSet(Kids(n)) \cup graph.order[n] : made[k] \in Built

\* "The sources that precede it are made before the sources that succeed it",
\* "The named targets are made in sequence", and both "apply recursively to the
\* dependent nodes": a node is not made while .WAIT and .ORDER hide it on every
\* path from .MAIN.
OrderKept ==
    LET seen == Seen({n \in Node : made[n] \in Built}) IN
    \A n \in Node : made[n] \in Built \cup {"beingmade"} => n \in seen

\* -k: "Continue processing after errors are encountered, but only on those
\* targets that do not depend on the target whose creation caused the error".
\* A make that is through, with -k or without an error, has made every node
\* that does not wait for a failed one or for a loop of .ORDER and .WAIT,
\* whatever was deferred on the way.
NothingForgotten ==
    \A m \in Make :
        pc[m] \in Ended \ {"dead"} /\ aborting[m] = "no" =>
            \A n \in Possible({k \in Node : made[k] = "beingmade"}) :
                MakeOf[n] = m => made[n] \in Built

\* What makes hold: the jobs they have not reaped yet, and the tokens they have
\* for a job, of which a make needs none for one of them.
Jobs(m) == {n \in Node : MakeOf[n] = m /\ job[n] # "none"}
Unreaped == {n \in Node : job[n] # "none" /\ Live(MakeOf[n])}
WithToken == {m \in Make : pc[m] = "token"}
WithSpare == {m \in Make : pc[m] = "spare"}
Busy == {m \in Make : Live(m) /\ (Jobs(m) # {} \/ pc[m] = "token")}
Stopped == "stop" \in ToSet(pool) \/ \E m \in Make : pc[m] \in {"drain", "stop"}
Died == \E m \in Make : pc[m] = "dead"

\* "a withdrawn token" comes back to the pool: no path through the scheduler
\* loses one or makes one, and a make that has exited has none, as long as no
\* make has put a stopper or has died with its tokens.
TokensKept ==
    ~Stopped /\ ~Died =>
        Len(pool) + Cardinality(Unreaped) + Cardinality(WithToken) + Cardinality(WithSpare)
          = MaxJobs - 1 + Cardinality(Busy)

\* At most -j commands run at a time, those of all makes together, also while
\* a failure spreads.  The jobs of a make that was killed are nobody's.
Commands == {n \in Node : job[n] = "running" /\ Sub(n) = NoMake /\ Live(MakeOf[n])}
JobsBounded == Cardinality(Commands) <= MaxJobs

\* Once a make has failed, the others that empty the pipe do not lose the
\* stopper, wherever they are, unless one is killed while it holds it.
StopperKept ==
    [][Stopped => Stopped' \/ \E m \in Make : pc[m] \in {"drain", "stop"} /\ pc'[m] = "dead"]_vars

\* A parallel make ends, whatever fails: with all tokens in the hands of others
\* every make of the family still has its first job, nobody polls for ever for
\* a job that is gone, and Job_Wait ends.
Terminates == <>(pc[Root] \in Ended)
=============================================================================
