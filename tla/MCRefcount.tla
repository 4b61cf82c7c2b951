----------------------------- MODULE MCRefcount -----------------------------
(***************************************************************************)
(* Two packages: both register the directory v and the file g in it, p also*)
(* a user and the subdirectory w, q the file f in it.                      *)
(***************************************************************************)
EXTENDS Refcount

CONSTANTS p, q, u, v, w, f, g

MCUsers == (p :> <<u>>) @@ (q :> <<>>)
MCDirs == (p :> <<v, w>>) @@ (q :> <<v>>)
MCFiles == (p :> <<g>>) @@ (q :> <<g, f>>)
\* For the shared files and directories: each package registers the directories
\* its files lie in.
SharedDirs == (p :> <<v, w>>) @@ (q :> <<v, w>>)

MCAbove == (u :> {}) @@ (v :> {}) @@ (w :> {v}) @@ (f :> {v, w}) @@ (g :> {v})
=============================================================================
