---------------------------- MODULE HandlerTable ----------------------------
(***************************************************************************)
(* handler_table::HandlerTable<N> (vendor/handler_table/src/lib.rs) used  *)
(* from several cores at once.  Each slot is an AtomicUsize holding a      *)
(* function pointer or 0.  register_handler is one compare_exchange and   *)
(* unregister_handler one swap; handle loads the slot and only then calls  *)
(* the handler, so a core can be between the two while others run.        *)
(***************************************************************************)
EXTENDS Naturals

CONSTANTS N, Idx, Cpus, Handlers, NoHandler   \* as in HandlerTableAtomic

ASSUME N \in Nat \ {0} /\ Idx \subseteq Nat /\ NoHandler \notin Handlers

VARIABLES
  handlers,   \* handlers[i]: the word in slot i
  pc,         \* pc[c]: "idle", or "call" between handle's load and call
  loaded,     \* loaded[c]: the handler handle loaded
  ret,        \* ret[c]: what c's last call returned
  ran         \* ran[c]: the handler c's last handle invoked

vars == <<handlers, pc, loaded, ret, ran>>

(* HandlerTable::new: every slot 0.                                        *)
Init ==
  /\ handlers = [i \in 0..N-1 |-> NoHandler]
  /\ pc = [c \in Cpus |-> "idle"]
  /\ loaded = [c \in Cpus |-> NoHandler]
  /\ ret = [c \in Cpus |-> FALSE]
  /\ ran = [c \in Cpus |-> NoHandler]

(* The bounds check each method starts with: idx >= N returns at once.    *)
InRange(i) == i < N

(* Mutation: a plain store instead of compare_exchange(0, handler).       *)
RegisterBlind(c, i, h) ==
  /\ pc[c] = "idle"
  /\ ret' = [ret EXCEPT ![c] = InRange(i)]
  /\ handlers' = IF InRange(i) THEN [handlers EXCEPT ![i] = h] ELSE handlers
  /\ UNCHANGED <<pc, loaded, ran>>

(* register_handler(idx, handler): compare_exchange(0, handler).is_ok().   *)
Register(c, i, h) ==
  LET ok == InRange(i) /\ handlers[i] = NoHandler IN
    /\ pc[c] = "idle"
    /\ ret' = [ret EXCEPT ![c] = ok]
    /\ handlers' = IF ok THEN [handlers EXCEPT ![i] = h] ELSE handlers
    /\ UNCHANGED <<pc, loaded, ran>>

(* unregister_handler(idx): swap(0); Some(old) when old was not 0.        *)
Unregister(c, i) ==
  /\ pc[c] = "idle"
  /\ ret' = [ret EXCEPT ![c] = IF InRange(i) THEN handlers[i] ELSE NoHandler]
  /\ handlers' = IF InRange(i) THEN [handlers EXCEPT ![i] = NoHandler] ELSE handlers
  /\ UNCHANGED <<pc, loaded, ran>>

(* Mutation: the handler != 0 test dropped; a null pointer is called.     *)
FoundNoNullCheck(h) == TRUE

(* handle(idx), first half: load the slot; a 0 returns false at once.     *)
Found(h) == h # NoHandler

HandleLoad(c, i) ==
  LET h == IF InRange(i) THEN handlers[i] ELSE NoHandler IN
    /\ pc[c] = "idle"
    /\ IF InRange(i) /\ Found(h)
         THEN /\ pc' = [pc EXCEPT ![c] = "call"]
              /\ loaded' = [loaded EXCEPT ![c] = h]
              /\ UNCHANGED <<ret, ran>>
         ELSE /\ ret' = [ret EXCEPT ![c] = FALSE]
              /\ ran' = [ran EXCEPT ![c] = NoHandler]
              /\ UNCHANGED <<pc, loaded>>
    /\ UNCHANGED handlers

(* handle(idx), second half: handler(); true.                             *)
HandleCall(c) ==
  /\ pc[c] = "call"
  /\ ran' = [ran EXCEPT ![c] = loaded[c]]
  /\ ret' = [ret EXCEPT ![c] = TRUE]
  /\ pc' = [pc EXCEPT ![c] = "idle"]
  /\ UNCHANGED <<handlers, loaded>>

Next ==
  \E c \in Cpus :
    \/ \E i \in Idx, h \in Handlers : Register(c, i, h)
    \/ \E i \in Idx : Unregister(c, i)
    \/ \E i \in Idx : HandleLoad(c, i)
    \/ HandleCall(c)

Spec == Init /\ [][Next]_vars

-----------------------------------------------------------------------------
(* Types; a core between load and call holds a real handler, never the     *)
(* null word the != 0 test screens out.                                     *)
TypeOK ==
  /\ handlers \in [0..N-1 -> Handlers \cup {NoHandler}]
  /\ pc \in [Cpus -> {"idle", "call"}]
  /\ loaded \in [Cpus -> Handlers \cup {NoHandler}]
  /\ \A c \in Cpus : pc[c] = "call" => loaded[c] \in Handlers
  /\ ret \in [Cpus -> BOOLEAN \cup Handlers \cup {NoHandler}]
  /\ ran \in [Cpus -> Handlers \cup {NoHandler}]

(* The refinement mapping: a handle that has loaded a handler has, in the  *)
(* abstract table, already dispatched it and returned true; the call that *)
(* follows is a stuttering step.                                           *)
AbsRet == [c \in Cpus |-> IF pc[c] = "call" THEN TRUE ELSE ret[c]]
AbsRan == [c \in Cpus |-> IF pc[c] = "call" THEN loaded[c] ELSE ran[c]]

Atomic == INSTANCE HandlerTableAtomic WITH table <- handlers, ret <- AbsRet, ran <- AbsRan

(* The lock-free table is linearizable: every run of register, unregister *)
(* and handle on concurrent cores is a run of the atomic table of spec    *)
(* 4.5: a compare-and-install that fails without side effects, an atomic  *)
(* clear-and-return, and a dispatch that invokes exactly the installed     *)
(* handler or nothing.                                                     *)
Linearizable == Atomic!Spec

=============================================================================
