# TLA+ specifications of the pkgsrc package tools

Specifications of the part of this repository that changes a machine: the tools that install, update
and delete binary packages (`pkgtools/pkg_install/files`) with the database they share, the scripts that
count references to users, directories and configuration files (`mk/pkginstall`), the locks by which
concurrent builds exclude each other (`mk/internal/locking.mk`), and the scheduler of the make that runs
every build (`devel/bmake/files`).  Each module is translated from the source; `PROJECT.json` names the
lines behind every definition, and the hazards of the code at their lines.

## Inventory

| Component | State it keeps | Operations | Modelled in |
|---|---|---|---|
| package database (`lib/pkgdb.c`, `lib/iterate.c`, `lib/automatic.c`) | a directory per package under `PKG_DBDIR` with `+CONTENTS`, `+REQUIRED_BY`, `+PRESERVE`, `+INSTALLED_INFO`; the index `pkgdb.byfile.db` (file → owner) | open, store, retrieve, remove, remove_pkg, iterate in readdir order | `PkgDB` |
| pkg_delete (`delete/pkg_delete.c`, `lib/plist.c`) | lists of packages to delete and sorted packages, options, exit status | expand arguments, sort and recurse, find leaves, check preserved packages, remove a package | `PkgDelete` |
| pkg_add (`add/perform.c`, `add/main.c`, `lib/conflicts.c`) | a stack of `pkg_task`s (recursion into dependencies), options, error count | find and open the archive, checks, meta data, replacing an old version, dependencies, scripts, extraction, registration, undoing | `PkgAdd` |
| pkg_admin (`admin/main.c`) | none of its own | rebuild the index, add a package to it, rebuild `+REQUIRED_BY`, set and unset the automatic mark | `PkgAdmin` |
| versions and patterns (`lib/dewey.c`, `lib/opattern.c`, `lib/iterate.c`) | the best match while a directory is read | compare versions, match patterns, choose the best installed match | `Dewey` |
| reference counting scripts (`mk/pkginstall/dirs`, `files`, `usergroup`) | a shadow directory per resource with a token per package and `+PREEXISTING` | ADD and REMOVE in the stages of pkg_add and pkg_delete | `Refcount` |
| build locks (`mk/internal/locking.mk`, used by `mk/depends`, `mk/install`) | `WRKDIR/.lockfile`, `LOCALBASE/.lockfile`, with a process ID | acquire (loop of separate commands), release; the phases in between edit `+REQUIRED_BY` | `Locking` |
| bmake (`devel/bmake/files/make.c`, `job.c`) | the graph with the state of each node, the queue `toBeMade`, the jobs, a pipe of job tokens shared with the makes it starts | schedule nodes with `.ORDER` and `.WAIT`, take and return tokens, start and reap jobs, abort | `Bmake` (partly) |
| pkg_create, pkg_info | none between invocations | build an archive, print | no |
| archive input, signatures, licences, variables | none between calls | parse, verify, read and write variables | only their outcome |
| `mk/*.mk` otherwise, `cargos/`, `crane/`, package directories | work directories | recipes in make and shell | no |
| libfetch, libarchive, pax, bzip2, zlib, digest, netpgpverify, libnbcompat | | imported programs with their own upstream | no |

### How they interact

All tools read and write the same database, as files, with no lock of their own.  pkg_add calls itself
(`pkg_do`) for each missing dependency, and runs pkg_delete as a child process for the old version of an
update.  Both call the package's `+INSTALL` and `+DEINSTALL` scripts, which maintain the reference counts.
`mk/` runs the tools inside phases that hold the LOCALBASE lock, when the user asks for locking; these
phases are targets of makes, which start further makes for dependencies and share job tokens with them.

`PkgDelete`, `PkgAdd` and `PkgAdmin` extend `PkgDB`, whose variables are the shared database.  `PkgAdmin`
extends `PkgAdd`: its runs rebuild what pkg_add's failures and kills have left.  `PkgDelete` and `PkgAdd`
each implement `PkgPromise`.  `Locking` composes the locks with the three programs that edit one
`+REQUIRED_BY`.

### What is hard

- **Kills between any two steps.**  No tool writes a journal: what a later run finds is what the last
  `unlink`, `rename` or `write` left.  The order of those calls is the only protection.
- **Edits of a list that is being scanned.**  `sort_and_recurse` moves packages between two lists while it
  scans one, restarts as long as a round made progress, and `-r` adds packages on the way.
- **Checks made before a recursion and relied on after it.**  pkg_do checks files, conflicts and versions,
  then installs dependencies, which may change all of these, and does not check again.
- **Partial failure.**  A failing script, archive, extraction or nested tool in the middle of a run.
- **Separate commands that are meant to be one.**  The lock loop looks at a file with `find`, removes it
  with `rm`, and creates it with `shlock`; the register of a dependency is read, and later written back.
- **A queue that is filled from three places.**  make schedules children, `.ORDER` successors and parents
  again; a node may be asked for by several at a time, and must be looked at again, but not too often.
- **Tokens handed around by processes that fail.**  Whoever takes a byte from the pipe must put it back
  exactly once, on every path, while another make is emptying the pipe.
- **Fixed width.**  Versions are vectors of int, and dates are nearly as large as an int.

### What makes them correct

- the tools together: a package that works has its dependencies, at every moment, until the user overrides
  the tools (`KeepsPromise`);
- database: the file index names only packages that have a directory (`OwnersRegistered`), but for files that
  a directory has replaced or whose saved copy went back in place; what went wrong can be repaired
  (`IndexRebuilt`, `TreeRebuilt`);
- pkg_delete: it deletes exactly what it was asked for and can order, users before what they use, and
  never what somebody still needs (`SortExact`, `LeavesExact`, `RemovedIsUnrequired`, `DependenciesKept`,
  `PreservedKept`); it ends (`Terminates`);
- pkg_add: dependencies come first and are registered (`DependenciesFirst`, `DependenciesRegistered`), no
  other package's files are overwritten (`FilesDisjoint`), two versions are never installed together, unless an
  update failed to remove one or found two in the database (`OneVersion`), `-n` changes nothing but the
  automatic mark (`FakeChangesNothing`); it ends (`ToolsTerminate`);
- versions: the best match does not depend on the order of a directory (`BestExact`), ranges have no holes
  (`RangeConvex`), and the order is that of the manual (`CollatingSequence`);
- reference counts: what was there before, or was edited, stays (`PreexistingKept`, `ChangedKept`), and the
  last removal leaves nothing (`NothingLeft`);
- locks: two processes are never inside the same lock (`MutualExclusion`, `ExclusionUntilReboot`), no
  registration is lost under it (`RegistrationsKept`), and nobody waits for ever, unless a system without
  `/var/run/dmesg.boot` was restarted (`AllFinish`);
- make: targets are made in order (`OrderKept`) and none is forgotten (`NothingForgotten`), the queue and
  the node's states agree (`QueueRequested`), tokens are conserved (`TokensKept`), no more than `-j`
  commands run (`JobsBounded`), a failure reaches every make (`StopperKept`), and the build ends
  (`Terminates`).

## Modules

| Module | Contents |
|---|---|
| `PkgDB` | the database: variables, the states an invocation may find (`DBInit`), the index operations |
| `PkgDelete` | one invocation of pkg_delete after another, EXTENDS `PkgDB` |
| `PkgAdd` | one invocation of pkg_add after another, EXTENDS `PkgDB` |
| `PkgAdmin` | invocations of pkg_admin after those of pkg_add, EXTENDS `PkgAdd` |
| `PkgPromise` | abstract specification: what the tools promise to a user |
| `Dewey` | versions, patterns, and the choice of the best installed match |
| `Refcount` | the scripts `+USERGROUP`, `+DIRS` and `+FILES` in the stages of installations and removals |
| `Locking` | makes that run acquire, edit and release targets; kills and reboots |
| `Bmake` | makes that schedule their graphs and share job tokens |
| `PkgDeleteProofs`, `PkgAddProofs`, `PkgAdminProofs`, `DeweyProofs`, `LockingProofs`, `RefcountProofs`, `BmakeProofs` | theorems |
| `DataFacts` | lemmas: least and greatest elements of sets of naturals; lists that name every element of a set once |
| `MCPkgDelete`, `MCPkgAdd`, `MCPkgAdmin`, `MCDewey`, `MCRefcount`, `MCLocking`, `MCBmake` | small instances for TLC |

Mutated forms of some definitions stand before them, marked as such: each breaks one property, which
shows that the property depends on the code.

### PkgDB

Package names, files and patterns are opaque; which packages a pattern matches is the constant `Match`, a
package's dependencies and files are `Deps` and `Contents`.  `+REQUIRED_BY` is a set: every reader scans
the whole file.  `entries` (directories) and `contents` (directories with a `+CONTENTS`) differ, because a
kill between the two leaves a directory the tools treat differently.  `DBInit` allows every database that
unforced installations leave, with more lines in `+REQUIRED_BY` than the patterns account for, and cycles.

### PkgDelete

`pc` names the place in `main`: *gather* arguments, *dedup*, *scan* (`sort_and_recurse`), *sorted*, *leaves*,
*check* (`find_preserve_pkgs`), *remove* and within `remove_pkg` *deinstall*, *files*, *deps*, *unlink*.  An
action is one iteration of a loop, or one change of the file system, so that `Crash` may come between any
two of them.  `todo` and `sorted` are the lists `pkgs` and `sorted_pkgs`; `kept`, `progress` and `old` are the
state of the scan.  readdir's order is arbitrary at each iteration.  `request` is a history variable: what
the arguments expanded to.  `careful` is another: no invocation was given `-f` or `-k`.

`DeleteFile` is one iteration of `delete_package` over the packing list.  `keys` are the `pkgdb_remove` calls that
`FilesDone` makes visible.  Two branches make none and still succeed (`plist.c:596` and `:665`): a directory is in the
place of the file (`Dirs`), or the copy that `@option preserve` had saved was renamed back (`Saved`).  The key of
such a file outlives the package.

### PkgAdd

`pkg_do`'s recursion is the sequence `stack`, with a frame per `pkg_task`; `top.at` is the place in `pkg_do`.  The
steps of a replacement are separate (move `+REQUIRED_BY`, move the rest, the nested pkg_delete, rename), as
are directory, meta data, each dependency, each file and each registration.  `Faults` selects which steps
may fail in an instance, `MaxDepth` stands for the descriptors that end a recursion on cyclic
dependencies.  The directory `p.xxxxxx` of `-U` is the package name `Temp[p]`: readdir shows it as one.
`complete` is a history variable: the packages whose installation ran to its end.  The nested pkg_delete is
one step here, with its success or failure, as is the `delete_package` of a failed installation; `PkgDelete` models
their steps, and the files whose keys stay (`Dirs`, `Saved`), which are left out here.  `late` is a history
variable of `OneVersion`: an update found two versions of a package in the database, or did not remove a directory it
should have.

### PkgAdmin

`cmd` is the command and its place: *index* (rebuild), *remove* and *add* (the two passes of rebuild-tree),
and *indexed*, *treed* after a success until something else runs.  `left` are the directories readdir has
still to return, in any order; rebuild drops the whole index first, and rebuild-tree all `+REQUIRED_BY`
files.  Both stop with an error at a directory without `+CONTENTS`, rebuild-tree only in its second pass, when
all `+REQUIRED_BY` files are gone.  `Add` is `pkg_admin add`, which stores the files of a package as rebuild does, without
dropping the index first.  `SetAutomatic` is set and unset.  The sub-commands that leave the package database alone
(`check`, `audit`, `dump`, `ls`, `pmatch`, those for vulnerability files and signatures) are left out.

### PkgPromise

Three variables: what is *installed* (recorded), which of these packages *work*, and whether the tools are
*trusted*.  A step may break packages, may record one, may make one work whose dependencies are there, and
may drop a record only if every package that still works has its dependencies after it.  The refinement
mapping takes `contents` for the recorded ones, and the packages that own all their files and whose
installation has ended for the working ones; `-f` and `-k` are `Override`.

### Dewey

A version is a sequence of tokens, the pieces `mkcomponent` takes off the string; what each adds to the
vector is `mkcomponent`, with the wrapping of int (`Wrap`, `Minus`), and `cmp` is the loop of `vtest`.  A
pattern is the set of alternatives its braces expand to, each a range of versions.  The other forms of a pattern, a
whole name and a glob, are left out.  The state machine is the callback
`match_best_installed` over a directory that is read in any order.  `IntMax` is a parameter.

### Refcount

`stage` is the stage of pkg_add or pkg_delete in which a script runs, `todo` the resources its loop has not
finished with, and `at` the command it is at: the test and `mkdir` of the shadow directory, the note
`+PREEXISTING`, the token, the resource itself; and in REMOVE the resource, the note, the token and the shadow
directory (the first two of the last three go in one `rm -f`, which may be killed in between).  `RmdirP` is `rmdir -p`.
The shadow directories of directories have a tree of their own, so that one is empty although a file in the
directory it stands for is still counted (`Tree`).
An installation may fail, which drops the record and leaves the counts, a stage may be killed, and the
administrator may edit a file.  `before`, `shared`, `lost` and `broken` are history variables.

### Locking

A process stands for a make together with the makes it starts for dependencies, and `Plan` is the sequence of
its targets: acquire, release, and the edits of one dependency's `+REQUIRED_BY`.  An action is one command:
`CheckBoot` (find), `RemoveStale` (rm), `Acquire`/`Busy` (shlock), `Release` (rm); of the edits, pkg_add's append
is one write, `register-dependencies` copies the file and copies it back with `cp`, which truncates it first,
and pkg_delete's `remove_line` copies it and renames the copy.  `old` is the set of lock files older than
the boot, which `CheckBoot` sees only on a system that writes `/var/run/dmesg.boot` (`BootFile`).  shlock(1) is external: it takes a missing file, or the file of a process that does not
exist, atomically.  `Reboot` starts all processes again with the same IDs, which is how an ID in an old file may
come to be in use again.  `held`, `due` and `torn` are history variables.

### Bmake

The graph is a constant of a behaviour: children in order, `.ORDER`, and the make that a node's commands
run, if any.  `made`, `unmade`, `checked`, `doneOrder` and `toBeMade` are the fields and flags of `GNode` and the
queue of make.c; `checked` is the set of nodes looked at since the counter of that name was increased.  A target named twice on a line is counted twice (`Times`).  `job`
is a node's entry in the job table, `running` is `jobTokensRunning`, `pool` the bytes in the pipe.  `pc` says
where a make is: in MakeStartJobs without and with a token, between reading a token and writing it back,
emptying the pipe, writing a stopper, and in Job_CatchOutput.  Each read or write of the pipe is an action;
between two of them a make touches only its own state, so that an iteration of a loop can be one.  The poll
has a timeout, so that it may return at any time.  A make that nobody knows how to make a target for dies
(`DieHorribly`) and kills the makes it has started, whose own jobs then belong to nobody.

`TokensKept` is the balance of the pipe: bytes in it, jobs that are not reaped and tokens at hand are one less
than `-j` and the number of makes with a job, because each of these has run one without a token.  The job that is
a make counts like any other: it is one of the jobs of the make above.  `PredecessorsFirst` relates `made` to the
graph.  `OrderKept` says what `.WAIT` and `.ORDER` promise: a target is started only when some path from `.MAIN`
leads to it on which nothing hides it.

## Runs

| Run | Checks | Instance |
|---|---|---|
| `delete_sort` | `SortExact`, `LeavesExact` against least fixed points, `Terminates` | every `+REQUIRED_BY` relation on three packages, with loops, and lines of missing packages; `-n` with every mix of `-f`, `-r`, `-R`, `-A`; repeated arguments |
| `delete_remove` | `TypeOK`, `RemovedIsUnrequired`, `DependenciesKept`, `OwnersRegistered`, `PreservedKept`, and the refinement `KeepsPromise` | a chain of three packages with an alternative; the file of one may have been replaced by a directory, or have a saved copy; every database that registers it; two invocations, unforced or with `-N`, `-D`, `-O`, `-n`, `-k` and the levels of `-f`; failures, I/O errors, kills |
| `add_install` | `OwnersRegistered`, `DependenciesRegistered`, `DependenciesFirst`, `FilesDisjoint`, `OneVersion`, and the refinement `KeepsPromise` | three versions of one package; three invocations, plain ones with every failure before an installation is complete, and updates with `-u` and `-u -U`; kills |
| `add_admin` | `TypeOK`, `FakeChangesNothing`, `ToolsTerminate`, `IndexRebuilt`, `TreeRebuilt` | `-f`, `-n`, `-R`, `-I`, `-u`, `-U`, every failure, kills, cyclic dependencies; then two invocations of pkg_admin (rebuild, rebuild-tree, add, set, unset) |
| `add_retry` | `CompleteRecorded`, violated | `-u` after a killed installation |
| `locking` | `ExclusionUntilReboot`, `RegistrationsKept`, `AllFinish` | three makes that depend, install and remove; two work directories and the prefix, kills, one reboot, after which `/var/run/dmesg.boot` is new |
| `locking_reboot` | `MutualExclusion`, violated | the same |
| `refcount` | `PreexistingKept`, `ChangedKept`, `NothingLeft` | two packages with a shared directory and file, a nested directory with a file of the other one, and a user; four installations and removals, failures, kills, edits |
| `refcount_shared` | `RegisteredPresent`, violated | the same packages, each of which registers the directories its files lie in; without kills |
| `dewey` | `BestExact`, `RangeConvex`, `CollatingSequence` | eight versions with modifiers, a letter, `nb` and missing components; seven patterns; every set of installed packages in every order; six bits to an int |
| `bmake` | `TypeOK`, `QueueRequested`, `PredecessorsFirst`, `OrderKept`, `NothingForgotten`, `TokensKept`, `JobsBounded`, `StopperKept`, `Terminates` | a make that runs two makes, or one that runs another, two tokens, failing jobs, unknown targets, with and without `-k`; a single make over lines of three targets with one `.WAIT` at every place and every `.ORDER`; a line that names a target twice |
| `bmake_wait` | `OrderKept`, violated | a target with a `.WAIT` on its line that two others need, one of them held back by `.ORDER` |

**Bounds.**  Three installed packages are enough for every shape the sort distinguishes: a package that
can go at once, one that can go after another, one that is stuck through a cycle or through a package
outside the list; and for a leaf that is found only in the second pass.  Two invocations of pkg_delete and
three of pkg_add let a later run act on what a killed one left.  The one special file of `delete_remove` is that
of the package at the end of the chain, so that its key may stay in each order of removals.  Two versions of one package, a package
needing any version and another needing the newer one, and one that conflicts and shares a file reach each
branch of the checks and each way a dependency can be replaced under another package.  `add_install` has a third
version, which it takes to leave two installed: a `-u` that was killed has left two, and the next one replaces the better
of them.  `OneVersion` excepts just that, and fails without the exception.  `MaxAdmin` = 2 lets a
rebuild follow one that was killed.  For the locks, two processes suffice to violate exclusion, and the third
one removes what the others register; one reboot makes old files, and a second one adds no new kind of
state.  Two packages and one nested directory, with a file in it that the other package lists, reach each
case of the counts: alone, shared, above and below another; `MaxStages` lets either package be installed, removed and installed again.  Versions need
one of each kind of token, and six bits reach the edge of int.  For make, `-j 2` with two makes below the root
makes all of them compete for a single token; three targets, one `.WAIT` and every `.ORDER` in one direction
(with the `.WAIT` in the other, so that there are loops) are the smallest graphs in which a node is deferred
for both reasons.  The run is this small because liveness takes long to check; the safety properties, save
`OrderKept`, are proved for every makefile, number of makes and of tokens.

**Fairness.**  `PkgDelete` and `PkgAdd` assume weak fairness of the program's own step (`ToolsFairness` for pkg_add
and pkg_admin together): a started program keeps running and waits for nobody; no fairness is assumed of
invocations or kills.  `Locking` assumes weak fairness of each process's step: the scheduler runs every make.
A waiting make polls, so it might miss every moment at which the lock is free; the plans are finite, so in the
instance the lock is free for good in the end, and weak fairness is enough.  `Bmake` assumes that every make is
scheduled and that commands end; a make whose poll times out looks for tokens again, for ever if need be, and
the build ends because every make may run its first job without one.

**Deadlock** is not checked: the systems stop once the bounded number of invocations is used up or every make
has ended.  `Terminates`, `ToolsTerminate` and `AllFinish` say that they do not stop earlier.

## What the code does against its documentation

- `add_retry`: pkg_add -u takes the directory that a killed pkg_add of the same package has left for another
  version, and runs pkg_delete on the meta data it has just written; the package is then installed with no
  record.
- `locking_reboot`: after a reboot two makes both find the old lock file; the second one's `rm -f` removes the
  lock file that the first has acquired meanwhile.
- `refcount_shared`: the count is the number of lines in the token named after the package itself, which is
  always one; the first of two packages to go takes a shared directory or file from the other.
- `bmake_wait`: with `all: b p pp`, `p: x .WAIT z`, `pp: p` and `.ORDER: b pp`, make looks at `p` a second time
  when `b` is made and `pp` is let go.  Its `.WAIT` is in the queue already, `MakeBuildChild` does not stop at it, and
  `z` is started while `x` is still being made.  It needs `-j 2` or more.  `OrderKept` therefore is no invariant of
  all makefiles; the attempt to prove it led here, and `bmake` checks it on graphs in which the target with the
  `.WAIT` has one parent.

Departures the models reproduce, which have no run of their own: `pkg_delete -r -k A` drops preserved
packages from the list after it was sorted on the assumption that they go, and deletes a package that a
preserved one still requires (`RemovedIsUnrequired` excepts `-k`); the status of the nested pkg_delete is
ignored, and both versions stay (`OneVersion` excepts it); so does a `-u` that finds the
two versions a killed one has left (excepted as well); any failure after the meta data was moved loses the
`+REQUIRED_BY` moved with it (with the failure `move`, `DependenciesRegistered` fails); a failing POST-INSTALL
script leaves the files and their index entries (with `post`, `OwnersRegistered` fails); pkg_delete removes a package but
not the index key of a file that a directory has replaced, or whose copy saved under `@option preserve` it has put back
(`OwnersRegistered` excepts these files); without `/var/run/dmesg.boot` a lock file from before a reboot is waited for
for ever once its process ID is in use again (`AllFinish` excepts it); `-n -A` with `-u` or `-U` sets the
automatic mark (`FakeChangesNothing` excepts it); names of installed dependencies are remembered while a nested installation
replaces one of them, and the package is then registered with a version that is gone, with only a warning (with
`pkg_add -u a` among the requests, `DependenciesRegistered` fails); `-R` still registers dependencies; a dependency that shares
a file with the package that needs it is installed over it.  `add_install` leaves these out for this reason;
`add_admin` has all the failures, and shows what rebuild and rebuild-tree repair.  make dies of a target that
nobody knows how to make also with `-k`, although it says "(continuing)".

## Proofs

TLAPS checks the following for every value of the constants that satisfies the named assumptions of the
modules.

| Theorem | Statement |
|---|---|
| `PkgDeleteProofs!TypeCorrect` | `Spec => []TypeOK` |
| `PkgDeleteProofs!RemovedIsUnrequiredCorrect` | `Spec => []RemovedIsUnrequired` |
| `PkgDeleteProofs!DependenciesKeptCorrect` | `Spec => []DependenciesKept` |
| `PkgDeleteProofs!OwnersRegisteredCorrect` | `Spec => []OwnersRegistered` |
| `PkgDeleteProofs!PreservedKeptCorrect` | `Spec => []PreservedKept` |
| `PkgDeleteProofs!SortExactCorrect` | `Spec => []SortExact` |
| `PkgDeleteProofs!LeavesExactCorrect` | `Spec => []LeavesExact` |
| `PkgDeleteProofs!PromiseCorrect` | `Spec => KeepsPromise`: pkg_delete implements `PkgPromise` |
| `PkgAddProofs!TypeCorrect` | `Spec => []TypeOK` |
| `PkgAddProofs!FakeCorrect` | `Spec => FakeChangesNothing` |
| `PkgAddProofs!OwnersCorrect` | `Spec => []OwnersRegistered`, for any `Level` with `Layered(Level)` |
| `PkgAddProofs!DependenciesFirstCorrect` | `Spec => [](~opt.replace /\ ~opt.replace_same => DependenciesFirst)`, for names that differ from patterns |
| `PkgAddProofs!FilesDisjointCorrect` | `Spec => []FilesDisjoint`, for any `Under` with `Apart(Under)` |
| `PkgAddProofs!OneVersionCorrect` | `Spec /\ OneVersion => []OneVersion`, for any `Under` with `Versioned(Under)`, and `UpdatesEnd` |
| `PkgAddProofs!DependenciesRegisteredCorrect` | `Spec => []DependenciesRegistered`, for any `Under` with `Acyclic(Under)`, and `Unforced(Options)` |
| `PkgAddProofs!PromiseCorrect` | `Spec => KeepsPromise` under the same assumptions: pkg_add implements `PkgPromise` |
| `PkgAdminProofs!IndexCorrect` | `ToolsSpec => []IndexRebuilt` |
| `PkgAdminProofs!TreeCorrect` | `ToolsSpec => []TreeRebuilt` |
| `DeweyProofs!BestExactCorrect` | `Spec => []BestExact`, for components that are at least three below the largest int |
| `DeweyProofs!RangeConvexCorrect` | `Spec => []RangeConvex`, under the same assumption |
| `DeweyProofs!CollatingSequenceCorrect` | `Spec => []CollatingSequence`, under the same assumption |
| `LockingProofs!ExclusionCorrect` | `Spec => []ExclusionUntilReboot` |
| `LockingProofs!RegistrationsCorrect` | `Spec => []RegistrationsKept` |
| `RefcountProofs!ChangedCorrect` | `Spec => ChangedKept` |
| `RefcountProofs!PreexistingCorrect` | `Spec => []PreexistingKept` |
| `RefcountProofs!NothingLeftCorrect` | `Spec => []NothingLeft` |
| `BmakeProofs!TypeCorrect` | `Spec => []TypeOK` |
| `BmakeProofs!QueueCorrect` | `Spec => []QueueRequested` |
| `BmakeProofs!PredecessorsCorrect` | `Spec => []PredecessorsFirst` |
| `BmakeProofs!TokensCorrect` | `Spec => []TokensKept` |
| `BmakeProofs!JobsCorrect` | `Spec => []JobsBounded` |
| `BmakeProofs!StopperCorrect` | `Spec => StopperKept` |
| `BmakeProofs!NothingForgottenCorrect` | `Spec => []NothingForgotten` |

**pkg_delete.**  `IInv` is `TypeOK` with six parts.  `IndexInv`: an index entry names a package with the file in its
packing list and, but for special files (`Dirs`, `Saved`), with a directory; in *files* each plain file of `cur` is still
to come or has its key among `keys`, and past it no entry of a plain file names `cur`; this carries
`OwnersRegistered`.  `OptionInv`: the options that can reach each place.  `OrderInv`: in runs that remove what
they sort, whoever requires an element of `sorted` precedes it or is gone.  It is the content of the sort: the
scan appends a package only when its requirers are on the list, leaves are appended only when theirs are,
and removal takes the head; a failed removal ends the loop, so that nothing behind the failure is
touched.  It carries `RemovedIsUnrequired`.  `RegInv`: a package that owns its files is registered with an
installed match for each pattern.  It is inductive because `remove_depend` edits lines only of a `cur` that
owns no file any more, and a package goes only when, by `OrderInv`, nobody lists it; it carries
`DependenciesKept`.  `PreserveInv`: once the check is passed, the list has no preserved package unless the
options allow it.

`SortInv` is about runs in which no file system operation fails.  While packages are sorted, the lists name
wanted packages only, each once, and whoever requires an element of `sorted` precedes it (`ListInv`).
`RoundInv` says what the test of the loop, which compares only the tail of one list and the head of the
other, stands for: as long as nothing was sorted in a round, and the head is the old one, nothing was
prepended either, so that every package kept misses a requirer and, with `-r`, all its requirers are listed.
When the loop stops there, what is left over is therefore a stuck set, and everything listed is closed; a
stuck set has no member on `sorted`, because its first one would follow a requirer in the set or not wanted.
This is `SortExact`.  In *leaves*, a pass that has added nothing so far has found no leaf among the entries it
visited, so that a whole pass without progress ends with a closed set: the least one, as every package
added belongs to all of them (`LeavesExact`).  The references quantify over all sets of packages; no
induction is needed, since both sides are compared as least and greatest sets.

**The refinement.**  Only four actions change what `PkgPromise` sees: an invocation with `-f` or `-k` overrides,
the removal of a file or of an index entry breaks `cur`, and the unlinking of its meta data forgets it.  All
others are stutters, since they leave `contents`, `owner` and `careful` alone.  That forgetting keeps the promise
is `DependenciesKept` after the step.

**pkg_add.**  The recursion makes every invariant one about the frames of `stack`.  A step changes it in one of three
ways: the top frame becomes another one (`Moved`), it returns and the caller learns how it ended (`Popped`), or
a frame for a dependency is put on top (`Nested`); lemmas say once for each way what is left to show about the
frame at hand.  `TypeInv` has, besides types, that all frames below the top wait in `check_dependencies`, what
the place of a frame says of its fields, and that `write_meta_data` finds its directory.  `FakeInv`: with `-n` there is one
frame, because missing dependencies are not installed, it does not reach *nukepkg*, and past the checks, if it replaces
nothing, its package has no directory: only with `-u` or `-U` there is one to mark.

`OwnersInv` carries `OwnersRegistered`.  An entry of the index is of a package that has a `+CONTENTS` or was deleted by
its own update (`IndexInv`).  Each frame knows that up to the extraction its directory's name is not in the index, and
from then on that the `+CONTENTS` it has written is still there (`FrameInv`).  That needs `LevelInv`: nested frames are
of packages of lower levels, so that an update of a dependency, which deletes another version, cannot be one of
a package whose installation waits below.  `Layered` assumes such levels (dependencies form no cycle, whatever versions
are chosen) and that no POST-INSTALL script and no pkg_delete of an update fails: with either, TLC finds that
the code leaves names in the index (hazards at `perform.c:1497` and `:1231`).  In `MCPkgAdd` TLC evaluates the
assumption for the instance of `add_install`.

`DepsInv` carries `DependenciesFirst` for the invocations without `-u` and `-U`; an update may take away the
version a caller has found, if patterns contradict each other.  Each frame past *find* still has to check a
pattern, waits for it, or a match of it is there whose directory no frame above has claimed.  The last part is
the point: a failing nested installation removes its directory, and that must not be the one a caller has
found.  It is not, because a dependency is installed only when no match of its pattern is there, so that the
directory it claims is not in the database; other entries go only in updates.

`FilesDisjoint` and `OneVersion` compare a check with what was done after it, all nested installations
included.  What these may be of is `NestInv`: a frame comes to install only packages that may be installed for each
frame below it (`Under`, a set closed under dependencies).  `ApartInv` carries `FilesDisjoint`: from the check to the
extraction, the files of a frame's package are in the index for nobody but the version it replaces.  Nested
installations would break it if a package shared a file with one of its dependencies, which `Apart` excludes: the
code checks the index before it installs them.  `VersionInv` carries `OneVersion`.  Two versions of a package are in
the database only while the top frame replaces one by the other (`PairInv`), and only the directory it works at lacks a
`+CONTENTS` (`JunkInv`); each frame knows the only version of its package that may be there.  So
`check_other_installed` sees the one version there is, although it looks at the best match only; `pkg_delete` does
remove the old version, whose `+PRESERVE` was moved before; and `rename` finds its target free.  `Versioned` says
that `Base` has all versions of a package, staged ones included, and that no package depends on a version of
itself.  `UpdatesEnd` is about histories with updates only: no kill, and no failure of `pkg_delete` or of the removal of a
directory.  An update that is killed before `DeleteOld` leaves two versions; the next `-u` looks at the better one
only, and leaves the other installed beside the third.  What the killed update itself leaves, and what later runs make of
it, `OneVersion` claims, too, which only TLC checks, except for an update that finds two versions (`late`).
TLC evaluates `Apart` and `Versioned` in `MCPkgAdd`.

`RegInv` carries `DependenciesRegistered` and the refinement of `PkgPromise`.  A frame *claims* its directory from
`write_meta_data` until its package is registered or the directory is removed; what else is recorded is `Firm`.  Without
updates nothing leaves `Firm`, and no line leaves the `+REQUIRED_BY` of a package in it, so that whatever a frame
has found stays.  Complete packages are in `Firm`, each with a line at a `Firm` match of each of its patterns.  A
frame past its checks still has to check a pattern, waits for it, or has met it: a match in `Firm` is among the names
it remembers, or lists its package already (`RecordFrame`).  Three things could break this.  `check_dependencies`
finds directories, with or without `+CONTENTS`; but the check for conflicts has opened the `+CONTENTS` of every
directory just before (and exits if one is missing), and a nested installation that fails, and might leave one, ends
its callers, too (`CleanFrame`).  `nuke_pkgdb` could remove a package others have found; it removes only a claimed
one.  A nested installation could record the very package for which it runs; `Acyclic` excludes that.  In the
refinement `write_meta_data` is `Record`, the return after the registration `Complete`, `nuke_pkgdb` of a `+CONTENTS`
`Forget`, and all else a stutter.  `Unforced(Options)` leaves out `-f`, with which pkg_add goes on without a
dependency, a `+REQUIRED_BY` that cannot be written, which is only warned about, and updates.  TLC evaluates
`Acyclic`, and `Unforced` of the plain options, in `MCPkgAdd`.

**pkg_admin.**  `AdminInv` adds to `TypeInv` what each command has done so far.  `RebuildInv`: the index is that of the
packages read.  `TreeInv`: in the first pass of rebuild-tree the lists of the packages read are empty; in the
second they hold just the lines of the packages read, save for the patterns of the one at hand that are still
to be resolved.  A pattern gets one line because `pkg_order` leaves no two versions equal (`RankAssumption`).  The first
pass removes only the lists of directories readdir shows, so the proof needs that there are no others
(`RequiredByInv`), for which `PkgAdd` needs `DirInv`: an update moves a list only to a directory it has made.
No assumption on failures or kills is made.

**Versions.**  Two vectors differ first at the least index at which their zero-padded digits differ; under the
assumption on the components the difference of two digits does not wrap, so that its sign is the order of the
digits.  From this the comparison is a strict total order up to padding (irreflexive, transitive, total),
`pkg_order` with the name as the last criterion is one on packages, and the invariant `BestInv`, that `best` is the
largest of the matches read so far, does not depend on the order of reading.  `RangeConvex` is transitivity.

`CollatingSequence` is about vectors that `FlattenSeq`, a recursive function, builds.  `FlattenAppend` shows that the components of a token
appended to a version stand behind those of the version (that there is such a function, `Flattens`, and that it
agrees on prefixes is shown by rounds, with `Rounds` of `DataFacts`), so that with a suffix the vector is the
old one, the modifier and the number (`SuffixVersion`).  Two such vectors agree up to the end of the old one and
differ there: `Alpha < Beta < RC < Dot`, RC below the zero that pads the release, and the number of a patch level
above it.  `IntMax >= 5` puts the numbers of the suffixes, up to two, under the assumption on components, too.

**Locks.**  `LockInv`: until a reboot no file is old and nobody is about to remove one, a held lock's file
names its holder, and what a process holds is what its targets have acquired and not released.  The last part
is what makes the owner-blind `rm -f` of release harmless: a process releases only what it holds
(`PairedAssumption`), so the file it removes is its own.  A kill leaves the file, and only a file of a dead process
can be taken over.  `EditInv`: an edit is under way only in a target that edits, and what it has read is
still so.  Since such a target lies between acquire and release of the prefix (`PrefixAssumption`), two edits
under way would be two holders.

**Reference counts.**  `KeepInv`: a file or user that was there before is noted in `+PREEXISTING` from the first
command on its shadow directory to the last, the token is that of one package, and where a script
removes the registration the token is its own and is removed after the note; resources with two tokens, or at which a
stage was killed while the note was made or cleared, are excepted (`shared`, `lost`).  Directories are not in it: `rmdir -p` of a
nested one climbs.  `ChangedKept` needs no invariant beyond types, only that every command that writes or
removes a file has compared it first.

`NothingLeft` rests on `CountInv`, about histories without a killed stage or a failed installation.  `TokenInv`: who
has a token is recorded and lists the resource, and while it is removed the resource is still to come.
`ShadowInv`: a shadow directory that exists has a token in it or below it, or a script is at work at it, a note is
beside a token, and whatever leads to a shadow directory of a directory exists.  The step that needs them all is
`rmdir -p`: what it climbs past is empty, and what it leaves is on the way to another token; otherwise a
directory made by `mkdir -p` only on the way to a nested one would stay.

**Parallel makes.**  `Inv` has three parts.  `NodesOK`: `unmade` is the number of places on a node's line whose
target is not made, the queue lists the requested nodes once each, and what is started or made has its
predecessors made.  These need each other: a count is right because a node is counted down when it is made and
never again, which needs that the queue has it once, and it is started at zero, which is why its children are made.
`ProcessesOK`: `jobTokensRunning` is the number of jobs that are not reaped, plus one with a token at hand, and a
make lives exactly as long as the job that runs it.  `SlotsKept` is the conservation law.  Neither the bytes in
the pipe nor `TokensKept` is kept by each step alone, since a make's first job takes no byte; what is kept is the
number of slots: bytes, jobs that are no makes, tokens at hand or about to go back, and makes without a job.  There are
`-j` of them while the first make lives.  A stopper takes slots away and nothing adds any, so that `JobsBounded` holds
also after failures; and from the slots `TokensKept` follows, because the jobs that are makes are as many as
the live makes below the first (`SubsRunning`, with a bijection between the two).  The assumptions are on makefiles: a
line names targets of the same make, no two targets run the same make, the recursion starts at the first make, and
`.MAIN`, which make puts together itself, is on no `.ORDER` line.

`NothingForgotten` needs `ScheduleInv` besides, about what was put back: a `DEFERRED` node has a child that is not
made or waits for one left of it on a `.ORDER` line (`DeferredWaits`), so that its Make_Update finds it; a node that was
looked at since a job finished will not be ready when it leaves the queue (`CheckedWaits`); and one that was looked at
and is not held by `.ORDER` has scheduled its children up to the first `.WAIT` that is not made (`LooksFar`).  When the
queue is empty nothing is `REQUESTED`, and each node that can be made is made: it was scheduled, since each
`.WAIT` before it on a line that shows it is made (`LineDone`: the first that is not would wait for a node that is
made, or not have been inspected), and if it was put back it would wait for one that cannot be made.  Which nodes can be made is
computed in rounds (`Seen`, `Possible`), and the proof follows them with `Rounds` and `InductiveSet` of `DataFacts`.  The
assumption (`WaitAssumption`) is that each `.WAIT` of a makefile is a node of its own, without commands, as ParseDoSrc makes them.

**Only model-checked:** all liveness properties; of `PkgAdd` `DependenciesRegistered` and the refinement where there are updates, which relate
what one frame has recorded to what nested ones replace, and `OneVersion` of killed updates;
and `OrderKept` of `Bmake`, which does not hold of all graphs (`bmake_wait`).  Liveness under fairness is out of the prover's reach, and so are the library's
induction theorems, which take an operator as a parameter; where a proof needs induction it uses a set of naturals.

## Not modelled

`-P`/`-p` (another root or prefix), `@pkgdir`, `@exec` and `@unexec` entries; in `PkgAdd`, the files whose index key
delete_package keeps (`PkgDelete` has them); a
`+REQUIRED_BY` inside an archive, checksums of files at deletion, permissions; reading and writing archives,
signatures and vulnerability files; pkg_create and pkg_info, which keep nothing.  Two tools at work on one
database at the same time are modelled only for the register of one dependency (`Locking`).  In `Locking`, the
lock type `none` (the targets are empty) and a make that is killed while the make it started for a dependency
goes on.  In `Refcount`, groups (handled like users), `+PERMISSIONS`, the temporary copy of a
token that a killed REMOVE leaves, and the scripts that only set modes or refresh caches.  In
`Dewey`, the comparison of whole names (`simple_match`), glob characters, and the shortcut `quick_pkg_match`, which
only saves work.  In `Bmake`, `::` targets, a
`.WAIT` on a line with several targets, `.JOIN`, `.MADE`, `-n`, `-t`, `-q`, `-B`, suffix rules, and signals, with which a suspended and aborting make
finishes jobs twice (`JobRestartJobs`).

Almost all of the repository's C is imported programs (libarchive, netpgpverify, libfetch, pax, the parser of
bmake) and almost all else are package descriptions: data.  The package tools, the scripts and the scheduler
are what has state that outlives a call, so the specifications cover a small share of its lines and most of
its hazards.

## Plan

1. *done* `PkgDB`, `PkgDelete`, its runs and proofs; `PkgAdd` and its runs; `Locking`, its runs and proof.
2. *done* `PkgAdmin`: repairs of what kills leave.  *done* `Refcount` and `Dewey` with proofs.
3. *done* `PkgPromise`, implemented by `PkgDelete` (checked and proved) and `PkgAdd` (checked, and proved without updates).
4. *done* the edits of `+REQUIRED_BY` inside the lock.  *done* `Bmake`.
5. *done* `PkgAddProofs`: `TypeOK`, `FakeChangesNothing`, `OwnersRegistered`, `DependenciesFirst`,
   `FilesDisjoint`, `OneVersion`, `DependenciesRegistered` and the refinement without updates; `PkgAdminProofs`.
   To prove: the last two with updates.
6. `Tools`: pkg_add and pkg_delete on one database at the same time, outside the lock.
7. *done* `BmakeProofs`.  In `Bmake`, signals and `::` targets.
