-------------------------------- MODULE Timer --------------------------------
(***************************************************************************)
(* The one-shot timer of the LoongArch64 QEMU virt platform               *)
(* (platform/loongarch64_qemu_virt/time.rs): the constant timer counter   *)
(* (current_ticks), TCFG with its initial value, and set_oneshot_timer,   *)
(* which turns a deadline in nanoseconds into a tick count with u64       *)
(* arithmetic.                                                             *)
(*                                                                         *)
(* A u64 is a W-bit word: every operation that wraps in the code wraps     *)
(* modulo 2^W here.  TCFG.InitVal holds TimerBits bits (its low two bits  *)
(* are TCFG.En and TCFG.Periodic, hence "a multiple of 4"); the counter   *)
(* counts InitVal ticks down and raises the timer line (ESTAT.IS bit 11)  *)
(* when it reaches zero, at once for an InitVal of 0.  The caller (the    *)
(* kernel's timer callback) is outside this tree and may pass any         *)
(* deadline, one already past included.                                    *)
(***************************************************************************)
EXTENDS Naturals, Bitwise

CONSTANTS
  W,             \* bits in a u64
  TimerBits,     \* bits of TCFG.InitVal the hardware keeps
  NanosPerTick,  \* NANOS_PER_TICK = NANOS_PER_SEC / TIMER_FREQUENCY
  MaxTicks,      \* how far the counter runs in a behaviour
  Deadlines,     \* deadline_ns values callers pass
  Profile        \* "release" (u64 arithmetic wraps) or "debug" (it panics)

ASSUME /\ TimerBits <= W /\ NanosPerTick \in Nat \ {0}
       /\ Deadlines \subseteq 0..2^W-1 /\ Profile \in {"release", "debug"}

None == 2^W + MaxTicks + 1   \* no expiry scheduled (beyond any reachable tick)

VARIABLES
  now,        \* Time::read(): the constant timer counter, in ticks
  en,         \* TCFG.En, cleared when a one-shot count expires
  fireAt,     \* the tick at which the running count reaches zero, or None
  pending,    \* ESTAT.IS bit 11
  panicked,   \* an arithmetic overflow panicked (debug build)
  deadline,   \* the deadline_ns of the last set_oneshot_timer call
  setAt       \* the tick at which it was made

vars == <<now, en, fireAt, pending, panicked, deadline, setAt>>

Word(x) == x % 2^W

(* nanos_to_ticks: nanos / NANOS_PER_TICK, rounding down.                 *)
NanosToTicks(ns) == ns \div NanosPerTick

(* (x + 3) & !3 on a u64: round up to a multiple of 4, wrapping.          *)
RoundUp4(x) == Word(x + 3) & (2^W - 4)

(* Mutation: the subtraction saturates at zero instead of wrapping.        *)
InitValueSaturating(td, tn) == IF td >= tn THEN td - tn ELSE 0

(* init_value = ticks_deadline - ticks_now: a wrapping u64 subtraction.    *)
InitValue(td, tn) == Word(td - tn)

(* The subtraction or the + 3 overflows: a panic in a debug build.         *)
Overflows(td, tn) == td < tn \/ InitValue(td, tn) + 3 >= 2^W

(* tcfg::set_init_val(v), set_periodic(false), set_en(true): the count     *)
(* starts from now with the bits TCFG keeps; a count of 0 expires at once. *)
Program(v) ==
  LET count == v % 2^TimerBits IN
    IF count = 0
      THEN pending' = TRUE /\ en' = FALSE /\ fireAt' = None
      ELSE en' = TRUE /\ fireAt' = now + count /\ UNCHANGED pending

Init ==
  /\ now = 0
  /\ en = FALSE /\ fireAt = None /\ pending = FALSE
  /\ panicked = FALSE
  /\ deadline = None /\ setAt = 0

(* time::init_percpu: init_val 0, one-shot, enabled.                       *)
InitPercpu ==
  /\ ~en /\ fireAt = None /\ ~panicked
  /\ Program(0)
  /\ UNCHANGED <<now, panicked, deadline, setAt>>

(* set_oneshot_timer(deadline_ns).                                         *)
SetOneshotTimer(d) ==
  LET td == NanosToTicks(d)
      tn == now
  IN /\ ~panicked
     /\ deadline' = d /\ setAt' = now
     /\ IF Profile = "debug" /\ Overflows(td, tn)
          THEN panicked' = TRUE /\ UNCHANGED <<en, fireAt, pending>>
          ELSE Program(RoundUp4(InitValue(td, tn))) /\ UNCHANGED panicked
     /\ UNCHANGED now

(* The counter advances one tick; a running count that reaches zero sets  *)
(* the timer line and, being one-shot, stops.                              *)
Tick ==
  /\ now < MaxTicks /\ ~panicked
  /\ now' = now + 1
  /\ IF en /\ fireAt = now + 1
       THEN pending' = TRUE /\ en' = FALSE /\ fireAt' = None
       ELSE UNCHANGED <<pending, en, fireAt>>
  /\ UNCHANGED <<panicked, deadline, setAt>>

(* ticlr::clear_timer_interrupt() in dispatch_irq.                         *)
ClearTimerInterrupt ==
  /\ pending /\ ~panicked
  /\ pending' = FALSE
  /\ UNCHANGED <<now, en, fireAt, panicked, deadline, setAt>>

Next ==
  \/ InitPercpu
  \/ \E d \in Deadlines : SetOneshotTimer(d)
  \/ Tick
  \/ ClearTimerInterrupt

Spec == Init /\ [][Next]_vars

-----------------------------------------------------------------------------
(* The doc comment of set_oneshot_timer: "A timer interrupt will be       *)
(* triggered at the specified monotonic time deadline".  After a call    *)
(* the interrupt is raised, or is due, no earlier than the deadline's tick *)
(* and, for a deadline already past, at once; in either case within the   *)
(* three ticks the round-up to a multiple of 4 may add.  A debug build    *)
(* must not panic instead.                                                 *)
FiresAtDeadline ==
  deadline # None =>
    LET td == NanosToTicks(deadline)
        due == IF td > setAt THEN td ELSE setAt
    IN /\ ~panicked
       /\ fireAt # None => due <= fireAt /\ fireAt <= due + 3
       /\ fireAt = None => pending \/ now >= due

=============================================================================
