------------------------------ MODULE Locking ------------------------------
(***************************************************************************)
(* mk/internal/locking.mk: the lock files by which concurrent make         *)
(* processes exclude each other from a work directory (WRKDIR/.lockfile)   *)
(* and from the installation prefix (LOCALBASE/.lockfile), around phases   *)
(* such as depends, install, bin-install and deinstall; and what the lock  *)
(* of the prefix protects: the edits of +REQUIRED_BY files, none of which  *)
(* locks anything itself.                                                  *)
(*                                                                         *)
(* A process stands for a make and the makes it runs for dependencies; it  *)
(* goes through a fixed sequence of targets.  The lock file holds its      *)
(* process ID (that of the parent of the shell that runs the command).  A  *)
(* process ID belongs to one process until a reboot, after which the same  *)
(* processes are started again.  All edits are of the +REQUIRED_BY file of *)
(* one package, which stays installed.                                     *)
(***************************************************************************)
EXTENDS Naturals, Sequences

CONSTANTS
    Proc,       \* process IDs
    NoProc,     \* no lock file
    Lock,       \* lock files
    Prefix,     \* the lock file in LOCALBASE
    Pkg,        \* packages that depend on the one whose +REQUIRED_BY is edited
    Plan,       \* Plan[p]: the targets p runs
    LockType,   \* LockType[p][l]: "once" or "sleep", as p's mk.conf says
    BootFile,   \* whether the system writes /var/run/dmesg.boot when it boots
    Kills,      \* whether processes may be killed or fail
    MaxBoots    \* bound on the number of reboots

\* Targets that edit: pkg_add (bin-install), register-dependencies (install)
\* and pkg_delete (deinstall) for a package.
Edit == [op : {"append", "register", "remove"}, pkg : Pkg]
Op == [op : {"acquire", "release"}, lock : Lock] \cup Edit

\* The locks p holds when it is about to run target i.
HeldAt(p, i) ==
    {l \in Lock : \E j \in 1..(i - 1) :
        /\ Plan[p][j] = [op |-> "acquire", lock |-> l]
        /\ \A k \in (j + 1)..(i - 1) : Plan[p][k] # [op |-> "release", lock |-> l]}

ASSUME NoProcAssumption == NoProc \notin Proc
ASSUME PlanAssumption == Plan \in [Proc -> Seq(Op)]
ASSUME LockTypeAssumption == LockType \in [Proc -> [Lock -> {"once", "sleep"}]]
ASSUME BootAssumption == BootFile \in BOOLEAN
ASSUME BoundsAssumption == Kills \in BOOLEAN /\ MaxBoots \in Nat
\* A phase releases the lock it has acquired.
ASSUME PairedAssumption ==
    \A p \in Proc : \A i \in 1..Len(Plan[p]) :
        Plan[p][i].op = "release" => Plan[p][i].lock \in HeldAt(p, i)
\* The phases that edit are run between acquire- and release-localbase-lock.
ASSUME PrefixAssumption ==
    /\ Prefix \in Lock
    /\ \A p \in Proc : \A i \in 1..Len(Plan[p]) :
          Plan[p][i] \in Edit => Prefix \in HeldAt(p, i)

VARIABLES
    file,       \* file[l]: the process ID in the lock file
    old,        \* lock files older than the boot of the machine
    alive,      \* processes that exist
    step,       \* step[p]: the target p is running
    at,         \* at[p]: where p is in the loop of _ACQUIRE_LOCK_CMD
    lines,      \* the packages +REQUIRED_BY names
    work,       \* work[p]: how far p's edit is
    copy,       \* copy[p]: the lines p has in the temporary file it works on
    held,       \* history: the locks p has acquired and not released
    due,        \* history: packages registered since the boot, and not removed
    torn,       \* history: cp was killed after it had truncated +REQUIRED_BY
    boots       \* reboots so far

lockVars == <<file, old, alive, step, at, held, boots>>
editVars == <<lines, work, copy, due, torn>>
vars == <<lockVars, editVars>>

Ended(p) == step[p] > Len(Plan[p])
Doing(p, o) == p \in alive /\ ~Ended(p) /\ Plan[p][step[p]].op = o
lockfile(p) == Plan[p][step[p]].lock
target(p) == Plan[p][step[p]].pkg

NextTarget(p) ==
    /\ step' = [step EXCEPT ![p] = @ + 1]
    /\ at' = [at EXCEPT ![p] = "check"]

Init ==
    /\ file = [l \in Lock |-> NoProc]
    /\ old = {}
    /\ alive = Proc
    /\ step = [p \in Proc |-> 1]
    /\ at = [p \in Proc |-> "check"]
    /\ held = [p \in Proc |-> {}]
    /\ lines \in SUBSET Pkg
    /\ work = [p \in Proc |-> "start"]
    /\ copy = [p \in Proc |-> {}]
    /\ due = lines
    /\ torn = FALSE
    /\ boots = 0

-----------------------------------------------------------------------------
\* If both files exist: find /var/run/dmesg.boot -newer $lockfile
CheckBoot(p) ==
    /\ Doing(p, "acquire") /\ at[p] = "check"
    /\ at' = [at EXCEPT ![p] =
                 IF BootFile /\ file[lockfile(p)] # NoProc /\ lockfile(p) \in old
                 THEN "remove" ELSE "shlock"]
    /\ UNCHANGED <<file, old, alive, step, held, boots, editVars>>

\* rm -f $lockfile, whatever it holds by now.
RemoveStale(p) ==
    /\ Doing(p, "acquire") /\ at[p] = "remove"
    /\ file' = [file EXCEPT ![lockfile(p)] = NoProc]
    /\ old' = old \ {lockfile(p)}
    /\ at' = [at EXCEPT ![p] = "shlock"]
    /\ UNCHANGED <<alive, step, held, boots, editVars>>

\* Mutant: the lock file holds the ID of the shell, which is gone at once.
ShellExited(l) == TRUE

\* Mutant: shlock only looks whether there is a file.
NoFile(l) == file[l] = NoProc

\* What shlock takes for a free lock: no file, or the file of a dead process.
Free(l) == file[l] = NoProc \/ file[l] \notin alive

\* shlock -f $lockfile -p $ppid succeeds.
Acquire(p) ==
    /\ Doing(p, "acquire") /\ at[p] = "shlock"
    /\ Free(lockfile(p))
    /\ file' = [file EXCEPT ![lockfile(p)] = p]
    /\ old' = old \ {lockfile(p)}
    /\ held' = [held EXCEPT ![p] = @ \cup {lockfile(p)}]
    /\ NextTarget(p)
    /\ UNCHANGED <<alive, boots, editVars>>

\* The process is gone; its lock files stay, and what it has edited so far.
Dies(p) ==
    /\ alive' = alive \ {p}
    /\ held' = [held EXCEPT ![p] = {}]
    /\ work' = [work EXCEPT ![p] = "start"] /\ copy' = [copy EXCEPT ![p] = {}]
    /\ torn' = (torn \/ work[p] = "truncated")
    /\ UNCHANGED <<file, old, step, boots, lines, due>>

\* shlock fails: try again after PKGSRC_SLEEPSECS seconds, or give up.
Busy(p) ==
    /\ Doing(p, "acquire") /\ at[p] = "shlock"
    /\ ~Free(lockfile(p))
    /\ at' = [at EXCEPT ![p] = "check"]
    /\ \/ /\ LockType[p][lockfile(p)] = "sleep"
          /\ UNCHANGED <<file, old, alive, step, held, boots, editVars>>
       \/ LockType[p][lockfile(p)] = "once" /\ Dies(p)

\* _RELEASE_LOCK_CMD: rm -f $lockfile.
Release(p) ==
    /\ Doing(p, "release")
    /\ file' = [file EXCEPT ![lockfile(p)] = NoProc]
    /\ old' = old \ {lockfile(p)}
    /\ held' = [held EXCEPT ![p] = @ \ {lockfile(p)}]
    /\ NextTarget(p)
    /\ UNCHANGED <<alive, boots, editVars>>

-----------------------------------------------------------------------------
(* The edits.                                                              *)

\* The edit is done.
Edited(p) ==
    /\ work' = [work EXCEPT ![p] = "start"] /\ copy' = [copy EXCEPT ![p] = {}]
    /\ NextTarget(p)
    /\ UNCHANGED <<file, old, alive, held, boots, torn>>

\* pkg_register_depends: one write to the file opened for appending.
AppendLine(p) ==
    /\ Doing(p, "append")
    /\ lines' = lines \cup {target(p)} /\ due' = due \cup {target(p)}
    /\ Edited(p)

\* Mutant: the lines of other packages are not printed.
CopyOwn(p) ==
    /\ Doing(p, "register") \/ Doing(p, "remove")
    /\ work[p] = "start"
    /\ copy' = [copy EXCEPT ![p] = IF Doing(p, "register") THEN {target(p)} ELSE {}]
    /\ work' = [work EXCEPT ![p] = "copied"]
    /\ UNCHANGED <<lockVars, lines, due, torn>>

\* awk of register-dependencies, or the loop of remove_line: the lines with
\* that of the package, or without it, go to a temporary file.
Copy(p) ==
    /\ Doing(p, "register") \/ Doing(p, "remove")
    /\ work[p] = "start"
    /\ copy' = [copy EXCEPT ![p] = IF Doing(p, "register") THEN lines \cup {target(p)}
                                                           ELSE lines \ {target(p)}]
    /\ work' = [work EXCEPT ![p] = "copied"]
    /\ UNCHANGED <<lockVars, lines, due, torn>>

\* remove_line: rename.
Rename(p) ==
    /\ Doing(p, "remove") /\ work[p] = "copied"
    /\ lines' = copy[p] /\ due' = due \ {target(p)}
    /\ Edited(p)

\* cp -f $tmpreq $req opens the file, which truncates it, ...
Truncate(p) ==
    /\ Doing(p, "register") /\ work[p] = "copied"
    /\ lines' = {}
    /\ work' = [work EXCEPT ![p] = "truncated"]
    /\ UNCHANGED <<lockVars, copy, due, torn>>

\* ... and writes it.
Write(p) ==
    /\ Doing(p, "register") /\ work[p] = "truncated"
    /\ lines' = copy[p] /\ due' = due \cup {target(p)}
    /\ Edited(p)

-----------------------------------------------------------------------------
\* All targets are made.
Exit(p) ==
    /\ p \in alive /\ Ended(p)
    /\ Dies(p)
    /\ UNCHANGED at

\* A command of a phase fails, or the process is killed.
Kill(p) ==
    /\ Kills /\ p \in alive
    /\ Dies(p)
    /\ UNCHANGED at

\* The machine is restarted and the work begun again.
Reboot ==
    /\ boots < MaxBoots
    /\ boots' = boots + 1
    /\ old' = {l \in Lock : file[l] # NoProc}
    /\ alive' = Proc
    /\ step' = [p \in Proc |-> 1]
    /\ at' = [p \in Proc |-> "check"]
    /\ held' = [p \in Proc |-> {}]
    /\ work' = [p \in Proc |-> "start"] /\ copy' = [p \in Proc |-> {}]
    /\ due' = lines /\ torn' = FALSE
    /\ UNCHANGED <<file, lines>>

Step(p) ==
    \/ CheckBoot(p) \/ RemoveStale(p) \/ Acquire(p) \/ Busy(p)
    \/ Release(p) \/ Exit(p)
    \/ AppendLine(p) \/ Copy(p) \/ Rename(p) \/ Truncate(p) \/ Write(p)

Next == (\E p \in Proc : Step(p) \/ Kill(p)) \/ Reboot

\* Every process is scheduled again and again.
Fairness == \A p \in Proc : WF_vars(Step(p))

Spec == Init /\ [][Next]_vars /\ Fairness

-----------------------------------------------------------------------------
(* Properties.                                                             *)

\* The type invariant.
TypeOK ==
    /\ file \in [Lock -> Proc \cup {NoProc}]
    /\ old \subseteq Lock
    /\ alive \subseteq Proc
    /\ step \in [Proc -> Nat \ {0}]
    /\ at \in [Proc -> {"check", "remove", "shlock"}]
    /\ held \in [Proc -> SUBSET Lock]
    /\ lines \subseteq Pkg /\ due \subseteq Pkg
    /\ work \in [Proc -> {"start", "copied", "truncated"}]
    /\ copy \in [Proc -> SUBSET Pkg]
    /\ torn \in BOOLEAN
    /\ boots \in 0..MaxBoots

\* "Acquires a coarse-grained lock": two processes never both are between
\* acquire and release of one lock.
MutualExclusion ==
    \A p, q \in Proc : p # q => held[p] \cap held[q] = {}

\* Until the machine is restarted, locks exclude, although release removes the
\* file without looking at it and the files of killed processes are taken over.
ExclusionUntilReboot == boots = 0 => MutualExclusion

\* No registration is lost and none comes back: whenever nobody holds the lock
\* of the prefix, +REQUIRED_BY names exactly the packages whose registration
\* was finished and not undone, although each edit reads the file and writes
\* it back later, and edits are killed halfway.  Excepted are a kill while cp
\* is at work, which leaves the file empty, and what follows a reboot.
RegistrationsKept ==
    boots = 0 /\ ~torn /\ (\A p \in Proc : Prefix \notin held[p]) => lines = due

\* Every process comes to its end, also when others are killed with lock files
\* in place: work directories are locked in the order of dependencies, and the
\* prefix last.  Where the system writes /var/run/dmesg.boot, that is so after a
\* reboot too, although a lock file from before it may name a process ID that
\* is in use again.  Excepted is what follows a reboot of a system without that
\* file: nothing then tells such a lock file from that of a running process,
\* and it is waited for forever.
AllFinish == \A p \in Proc : []<>(p \notin alive \/ (boots > 0 /\ ~BootFile))

-----------------------------------------------------------------------------
(* The inductive strengthening of ExclusionUntilReboot and                 *)
(* RegistrationsKept.                                                      *)

\* Until the machine is restarted, the file of a lock that is held names the
\* holder, and what is held follows from the targets made.
LockInv ==
    /\ TypeOK
    /\ boots = 0 =>
          /\ old = {}
          /\ \A p \in Proc : at[p] # "remove"
          /\ \A p \in Proc : \A l \in held[p] : file[l] = p
          /\ \A p \in Proc : held[p] = IF p \in alive THEN HeldAt(p, step[p]) ELSE {}

\* What p has read is still so.
CopyCurrent(p) ==
    copy[p] = IF Doing(p, "register") THEN due \cup {target(p)} ELSE due \ {target(p)}

\* An edit is under way only in a target that edits, what it has read is still
\* so, and until one has truncated the file it is as it should be.
EditInv ==
    /\ \A p \in Proc : work[p] # "start" => Doing(p, "register") \/ Doing(p, "remove")
    /\ boots = 0 /\ ~torn =>
          /\ \A p \in Proc : work[p] # "start" => CopyCurrent(p)
          /\ (\A p \in Proc : work[p] # "truncated") => lines = due
=============================================================================
