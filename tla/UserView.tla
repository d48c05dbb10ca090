------------------------------ MODULE UserView ------------------------------
(***************************************************************************)
(* What the trap machinery promises a user program (spec 4.3 and 4.4):    *)
(* each task runs its own instruction stream.  An ordinary instruction    *)
(* moves its program counter on; an instruction that traps is served and  *)
(* the task resumes after it (a syscall or a break) or at it (a page fault *)
(* that was resolved, or an interrupt); nothing another task does moves   *)
(* it.  Traps, switches and other tasks' steps are invisible here.        *)
(***************************************************************************)
EXTENDS Naturals

CONSTANTS
  Tasks,      \* the tasks
  Causes,     \* what can make a user instruction trap
  NoTrap,     \* no trap being served
  InsnWidth,  \* the width of an instruction
  Entry       \* where a task's user program starts

VARIABLES
  upc,        \* upc[t]: the next instruction of t's user program
  pend        \* pend[t]: the cause of the trap t's program waits on

Init ==
  /\ upc = [t \in Tasks |-> Entry]
  /\ pend = [t \in Tasks |-> NoTrap]

(* Where a served trap resumes: past a syscall or break instruction, at   *)
(* any other trapping instruction.                                         *)
ResumeAt(pc, c) == IF c \in {"Syscall", "Breakpoint"} THEN pc + InsnWidth ELSE pc

Step(t) ==
  /\ pend[t] = NoTrap
  /\ upc' = [upc EXCEPT ![t] = @ + InsnWidth]
  /\ UNCHANGED pend

Trap(t) ==
  /\ pend[t] = NoTrap
  /\ \E c \in Causes : pend' = [pend EXCEPT ![t] = c]
  /\ UNCHANGED upc

Resume(t) ==
  /\ pend[t] # NoTrap
  /\ upc' = [upc EXCEPT ![t] = ResumeAt(@, pend[t])]
  /\ pend' = [pend EXCEPT ![t] = NoTrap]

Next == \E t \in Tasks : Step(t) \/ Trap(t) \/ Resume(t)

vars == <<upc, pend>>

Spec == Init /\ [][Next]_vars

=============================================================================
