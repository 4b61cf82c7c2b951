----------------------------- MODULE MCPkgAdmin -----------------------------
(***************************************************************************)
(* pkg_add in all its forms, then pkg_admin, in the universe of MCPkgAdd.  *)
(***************************************************************************)
EXTENDS MCPkgAdd, PkgAdmin

\* The forms of installation (-f, -n, -R, -I, -u, -U), every failure, and a
\* cycle: d2 needs a.
CyclicDeps == [UDeps EXCEPT ![d2] = {pa}, ![t2] = {pa}]
FormOptions ==
    {With([force |-> TRUE, replace |-> x]) : x \in BOOLEAN}
      \cup {With([fake |-> TRUE, replace |-> x, replace_same |-> x]) : x \in BOOLEAN}
      \cup {With([fake |-> TRUE, automatic |-> TRUE, replace |-> TRUE, replace_same |-> TRUE])}
      \cup {With([fake |-> TRUE, automatic |-> TRUE])}
      \cup {With([no_record |-> TRUE]), With([no_install |-> TRUE, force |-> TRUE, replace |-> TRUE, replace_same |-> TRUE])}
FormFaults == [o \in FormOptions |-> FaultSpace]
FormRequests == [o \in FormOptions |-> {<<a>>, <<b>>, <<d2>>}]
FormInit ==
    /\ RegisteredInit({{}, {d1}, {c}, {a, b, d2}}) /\ preserved = {}
    /\ ToolsInit
FormSpec == FormInit /\ [][ToolsNext]_toolsVars /\ ToolsFairness
=============================================================================
