----------------------------- MODULE MCLocking -----------------------------
(***************************************************************************)
(* Three makes: x makes the dependencies of a package, which are b; y      *)
(* installs b; z removes b and installs the binary package c.  b and c     *)
(* need a library, whose +REQUIRED_BY names them once they are registered. *)
(***************************************************************************)
EXTENDS Locking, TLC

CONSTANTS x, y, z, wa, wb, localbase, b, c

acq(l) == [op |-> "acquire", lock |-> l]
rel(l) == [op |-> "release", lock |-> l]

\* The phases of mk/install that edit the database, without DESTDIR.
Locked(o, n) == <<acq(localbase), [op |-> o, pkg |-> n], rel(localbase)>>

\* The install phase, and the depends phase, which installs a dependency.
Install == <<acq(wb)>> \o Locked("register", b) \o <<rel(wb)>>
Depends == <<acq(wa)>> \o Install \o <<rel(wa)>>

MCPlan ==
    (x :> Depends)
    @@ (y :> Install)
    @@ (z :> Locked("remove", b) \o Locked("append", c))

\* y uses the recommended settings, once for WRKDIR and sleep for LOCALBASE.
MCLockType ==
    [p \in Proc |-> [l \in Lock |-> IF p = y /\ l # localbase THEN "once" ELSE "sleep"]]
=============================================================================
