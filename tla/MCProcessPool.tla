---------------------------- MODULE MCProcessPool ----------------------------
(***************************************************************************)
(* The process pool on small instances, and what the comments and documents *)
(* of the repository say of it that its code does not do.                   *)
(***************************************************************************)
EXTENDS ProcessPool

\* ProcessPool.h:182, "TODO: exit parent if all sub_process exit": the parent
\* outlives its children as long as one of them lives.  The selection at 177
\* skips children whose pid_ is -1, but SIGCHLD (204-207) never makes it -1, so
\* the round robin comes to a dead child and send() raises SIGPIPE.
ParentOutlivesChild == pc[Parent] = "killed" => \A i \in Children : ~Alive(i)

=============================================================================
