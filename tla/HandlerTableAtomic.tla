------------------------- MODULE HandlerTableAtomic -------------------------
(***************************************************************************)
(* What the IRQ routing table promises (spec 4.5 and 8): a fixed-size map *)
(* from cause numbers to handlers, at most one handler per cause, on which *)
(* register, unregister and dispatch each take effect at one instant, even *)
(* when several cores call them at once.                                   *)
(*                                                                         *)
(* ret[c] is the result of core c's last call; ran[c] the handler its last *)
(* dispatch invoked (NoHandler when it invoked nothing).                   *)
(***************************************************************************)
EXTENDS Naturals

CONSTANTS
  N,          \* the number of causes the table has room for
  Idx,        \* cause numbers callers pass, some of them >= N
  Cpus,       \* the cores calling the table
  Handlers,   \* handler functions (non-null function pointers)
  NoHandler   \* the empty slot (a stored 0)

VARIABLES table, ret, ran

Results == BOOLEAN \cup Handlers \cup {NoHandler}

Init ==
  /\ table = [i \in 0..N-1 |-> NoHandler]
  /\ ret = [c \in Cpus |-> FALSE]
  /\ ran = [c \in Cpus |-> NoHandler]

(* register(cause, handler): succeeds only for a cause in range with no   *)
(* handler installed; otherwise fails with no side effect.                 *)
Register(c, i, h) ==
  LET ok == i < N /\ table[i] = NoHandler IN
    /\ ret' = [ret EXCEPT ![c] = ok]
    /\ table' = IF ok THEN [table EXCEPT ![i] = h] ELSE table
    /\ UNCHANGED ran

(* unregister(cause): clears the slot and returns what it held.            *)
Unregister(c, i) ==
  /\ ret' = [ret EXCEPT ![c] = IF i < N THEN table[i] ELSE NoHandler]
  /\ table' = IF i < N THEN [table EXCEPT ![i] = NoHandler] ELSE table
  /\ UNCHANGED ran

(* dispatch(cause): invokes the installed handler and reports whether     *)
(* there was one; with none it invokes nothing.                            *)
Dispatch(c, i) ==
  LET h == IF i < N THEN table[i] ELSE NoHandler IN
    /\ ret' = [ret EXCEPT ![c] = h # NoHandler]
    /\ ran' = [ran EXCEPT ![c] = h]
    /\ UNCHANGED table

Next ==
  \E c \in Cpus, i \in Idx :
    \/ \E h \in Handlers : Register(c, i, h)
    \/ Unregister(c, i)
    \/ Dispatch(c, i)

Spec == Init /\ [][Next]_<<table, ret, ran>>

=============================================================================
