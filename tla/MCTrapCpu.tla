------------------------------ MODULE MCTrapCpu ------------------------------
(***************************************************************************)
(* TrapCpu for TLC: the boot task and two user tasks.  The user tasks     *)
(* are two threads of one process (one page table), so a switch between  *)
(* them takes switch_to's short-circuit and skips the PGDL write, while a *)
(* switch to or from the boot task (root 0) writes PGDL and flushes.      *)
(***************************************************************************)
EXTENDS TrapCpu

CONSTANTS b, u1, u2

MCTasks == {b, u1, u2}
MCUTasks == {u1, u2}
MCTlsOf == (b :> 10) @@ (u1 :> 11) @@ (u2 :> 12)
MCPgRootThreads == (b :> 0) @@ (u1 :> 1) @@ (u2 :> 1)

(* A text page (r-x) and a data page (rw-): a store to text is refused,  *)
(* every other load or store is resolved.                                  *)
MCPages == {"text", "data"}
MCPerm == ("text" :> {"READ", "EXECUTE", "USER"})
       @@ ("data" :> {"READ", "WRITE", "USER"})

=============================================================================
