------------------------------ MODULE LoongIrq ------------------------------
(***************************************************************************)
(* Interrupt routing on the LoongArch64 QEMU virt platform, on several    *)
(* cores (platform/loongarch64_qemu_virt/irq.rs, time.rs init_percpu, the  *)
(* Interrupt arm of loongarch64_trap_handler).                             *)
(*                                                                         *)
(* Each core has its own ESTAT.IS (pending lines), ECFG.LIE (enabled       *)
(* lines) and timer.  Two lines matter: HWI0 (bit 2, EXT_IRQ_NUM), wired  *)
(* to the external interrupt controller, and the timer (bit 11).  The      *)
(* timer handler is a global LazyInit; other causes go through the common  *)
(* handler table, taken here as the atomic table that HandlerTable is      *)
(* checked to implement.                                                   *)
(*                                                                         *)
(* Each core first boots (the Boot module: _start on the primary, which   *)
(* then starts the secondary through SMP_BOOT_STACK_TOP, _start_secondary *)
(* on the other), then runs the kernel's interrupt bring-up: init_percpu,  *)
(* then                                                                    *)
(* register_handler(TIMER_IRQ_NUM, ..) and enable_irqs (axruntime's        *)
(* init_interrupt, which every core runs), and from then on takes          *)
(* interrupts.                                                             *)
(***************************************************************************)
EXTENDS Naturals, Sequences

CONSTANTS
  Cpus,       \* the cores
  Handlers,   \* handler functions drivers register
  NoHandler,  \* an empty LazyInit / table slot
  TimerCb,    \* the callback the kernel registers for the timer
  ExtDevice,  \* can a device assert HWI0 through the interrupt controller?
  Primary,    \* the core the firmware starts
  NoStack     \* SMP_BOOT_STACK_TOP before anything is published

ASSUME TimerCb \in Handlers /\ ExtDevice \in BOOLEAN /\ Primary \in Cpus

EXT_IRQ_NUM == 2
TIMER_IRQ_NUM == 11
Lines == {EXT_IRQ_NUM, TIMER_IRQ_NUM}
NoIrq == 0

(* MAX_IRQ_COUNT = 256 slots, cut to the ones dispatch and registration   *)
(* touch: 0 .. EXT_IRQ_NUM.                                                 *)
TableSize == EXT_IRQ_NUM + 1

VARIABLES
  phase,        \* phase[c]: where core c is in its program (see Phases)
  isPend,       \* isPend[c]: ESTAT.IS, the pending lines
  lie,          \* lie[c]: ECFG.LIE, the enabled lines
  armed,        \* armed[c]: TCFG.En with the one-shot count still running
  irq,          \* irq[c]: the irq_num being dispatched
  tstep,        \* tstep[c]: the next step of the timer arm of dispatch_irq
  timerHandler, \* TIMER_HANDLER: NoHandler until init_once
  irqTable,     \* the common handler table (IRQ_HANDLER_TABLE)
  tblRet,       \* the table's last result per core
  tblRan,       \* the handler the table's last dispatch on a core invoked
  bootPt,       \* the boot page table (Boot)
  smpStackTop,  \* SMP_BOOT_STACK_TOP (Boot)
  csr           \* each core's boot-time CSRs (Boot)

irqVars == <<isPend, lie, armed, irq, tstep, timerHandler, irqTable, tblRet, tblRan>>
bootVars == <<bootPt, smpStackTop, csr>>
vars == <<phase, isPend, lie, armed, irq, tstep, timerHandler, irqTable,
          tblRet, tblRan, bootPt, smpStackTop, csr>>

Phases == {"off", "start", "entry", "main", "percpu", "reg", "init", "irqon",
           "run", "idle", "dispatch", "timer", "halted"}

(* Where a core has IE set: its kernel code, and the IDLE instruction.    *)
IrqsOn == {"run", "idle"}

(* phase is Boot's stage until a core reaches "percpu".                   *)
Bt == INSTANCE Boot WITH stage <- phase

Tbl == INSTANCE HandlerTableAtomic
         WITH N <- TableSize, Idx <- 0..EXT_IRQ_NUM, table <- irqTable,
              ret <- tblRet, ran <- tblRan

Init ==
  /\ Bt!Init
  /\ isPend = [c \in Cpus |-> {}]
  /\ lie = [c \in Cpus |-> {}]
  /\ armed = [c \in Cpus |-> FALSE]
  /\ irq = [c \in Cpus |-> NoIrq]
  /\ tstep = [c \in Cpus |-> 1]
  /\ timerHandler = NoHandler
  /\ Tbl!Init

-----------------------------------------------------------------------------
(* Mutation: set_enable forgets to write ECFG.                             *)
SetEnableIgnore(l, n, enabled) == l

(* set_enable(irq_num, enabled): only the timer line is ever written;      *)
(* any other irq_num is ignored.                                           *)
SetEnable(l, n, enabled) ==
  IF n = TIMER_IRQ_NUM
    THEN IF enabled THEN l \cup {TIMER_IRQ_NUM} ELSE l \ {TIMER_IRQ_NUM}
    ELSE l

(* time::init_percpu: TCFG = init 0, one-shot, enabled; then              *)
(* set_enable(TIMER_IRQ_NUM, true).                                        *)
InitPercpu(c) ==
  /\ phase[c] = "percpu"
  /\ armed' = [armed EXCEPT ![c] = TRUE]
  /\ lie' = [lie EXCEPT ![c] = SetEnable(@, TIMER_IRQ_NUM, TRUE)]
  /\ phase' = [phase EXCEPT ![c] = "reg"]
  /\ UNCHANGED <<isPend, irq, tstep, timerHandler, irqTable, tblRet, tblRan>>
  /\ UNCHANGED bootVars

(* register_handler(TIMER_IRQ_NUM, cb), first half: TIMER_HANDLER.        *)
(* is_inited(); if it is, return false.                                    *)
RegCheck(c) ==
  /\ phase[c] = "reg"
  /\ phase' = [phase EXCEPT ![c] = IF timerHandler = NoHandler THEN "init" ELSE "irqon"]
  /\ UNCHANGED <<isPend, lie, armed, irq, tstep, timerHandler, irqTable, tblRet, tblRan>>
  /\ UNCHANGED bootVars

(* Second half: TIMER_HANDLER.init_once(cb), which panics when the value  *)
(* was initialised in between.                                             *)
RegInit(c) ==
  /\ phase[c] = "init"
  /\ IF timerHandler = NoHandler
       THEN /\ timerHandler' = TimerCb
            /\ phase' = [phase EXCEPT ![c] = "irqon"]
       ELSE /\ phase' = [phase EXCEPT ![c] = "halted"]
            /\ UNCHANGED timerHandler
  /\ UNCHANGED <<isPend, lie, armed, irq, tstep, irqTable, tblRet, tblRan>>
  /\ UNCHANGED bootVars

(* enable_irqs: CRMD.IE = 1.                                               *)
EnableIrqs(c) ==
  /\ phase[c] = "irqon"
  /\ phase' = [phase EXCEPT ![c] = "run"]
  /\ UNCHANGED <<isPend, lie, armed, irq, tstep, timerHandler, irqTable, tblRet, tblRan>>
  /\ UNCHANGED bootVars

(* register_handler(EXT_IRQ_NUM, h) from a driver: register_handler_common *)
(* installs h at index irq_num of the common table and calls set_enable,   *)
(* which ignores the EXT line.                                             *)
RegisterExt(c, h) ==
  /\ phase[c] = "run"
  /\ Tbl!Register(c, EXT_IRQ_NUM, h)
  /\ lie' = [lie EXCEPT ![c] = SetEnable(@, EXT_IRQ_NUM, TRUE)]
  /\ UNCHANGED <<phase, isPend, armed, irq, tstep, timerHandler>>
  /\ UNCHANGED bootVars

-----------------------------------------------------------------------------
(* Hardware.  The one-shot timer counts down and sets IS bit 11; a device  *)
(* asserts HWI0 and holds it until it is serviced.                          *)
TimerFires(c) ==
  /\ armed[c]
  /\ armed' = [armed EXCEPT ![c] = FALSE]
  /\ isPend' = [isPend EXCEPT ![c] = @ \cup {TIMER_IRQ_NUM}]
  /\ UNCHANGED <<phase, lie, irq, tstep, timerHandler, irqTable, tblRet, tblRan>>
  /\ UNCHANGED bootVars

ExtRaise(c) ==
  /\ ExtDevice
  /\ EXT_IRQ_NUM \notin isPend[c]
  /\ isPend' = [isPend EXCEPT ![c] = @ \cup {EXT_IRQ_NUM}]
  /\ UNCHANGED <<phase, lie, armed, irq, tstep, timerHandler, irqTable, tblRet, tblRan>>
  /\ UNCHANGED bootVars

(* Mutation: ffs-style numbering, one more than trailing_zeros.            *)
IrqNumOffByOne(pend) == (CHOOSE i \in pend : \A j \in pend : i <= j) + 1

(* The Interrupt arm of loongarch64_trap_handler: irq_num =               *)
(* estat.is().trailing_zeros(), the lowest pending line, enabled or not.   *)
IrqNum(pend) == CHOOSE i \in pend : \A j \in pend : i <= j

(* wait_for_irqs: the IDLE instruction, which waits for an interrupt.      *)
WaitForIrqs(c) ==
  /\ phase[c] = "run"
  /\ phase' = [phase EXCEPT ![c] = "idle"]
  /\ UNCHANGED irqVars /\ UNCHANGED bootVars

(* The CPU takes an interrupt when IE is set and a pending line is        *)
(* enabled, ending an IDLE; handle_trap!(IRQ, irq_num) reaches            *)
(* dispatch_irq, and its return resumes after the IDLE.                    *)
TakeIrq(c) ==
  /\ phase[c] \in IrqsOn
  /\ isPend[c] \cap lie[c] # {}
  /\ irq' = [irq EXCEPT ![c] = IrqNum(isPend[c])]
  /\ phase' = [phase EXCEPT ![c] = "dispatch"]
  /\ UNCHANGED <<isPend, lie, armed, tstep, timerHandler, irqTable, tblRet, tblRan>>
  /\ UNCHANGED bootVars

(* dispatch_irq(irq_num) through with_cause!: the timer goes to its own    *)
(* arm; EXT calls dispatch_irq_common(0), a handle(0) on the common table; *)
(* any other number panics.                                                *)
DispatchIrq(c) ==
  /\ phase[c] = "dispatch"
  /\ CASE irq[c] = TIMER_IRQ_NUM ->
            /\ phase' = [phase EXCEPT ![c] = "timer"]
            /\ UNCHANGED <<tblRet, tblRan>>
       [] irq[c] = EXT_IRQ_NUM ->
            /\ Tbl!Dispatch(c, 0)
            /\ phase' = [phase EXCEPT ![c] = "run"]
       [] OTHER ->
            /\ phase' = [phase EXCEPT ![c] = "halted"]
            /\ UNCHANGED <<tblRet, tblRan>>
  /\ UNCHANGED <<isPend, lie, armed, irq, tstep, timerHandler, irqTable>>
  /\ UNCHANGED bootVars

(* Mutation: the handler runs before ticlr::clear_timer_interrupt().       *)
TimerStepsSwapped == <<"handler", "ticlr">>

(* The timer arm: ticlr::clear_timer_interrupt(), then TIMER_HANDLER().   *)
TimerSteps == <<"ticlr", "handler">>

(* One step of the timer arm.  The handler is the kernel's timer callback,*)
(* which programs the next deadline with set_oneshot_timer.                *)
TimerDispatch(c) ==
  LET step == TimerSteps[tstep[c]]
      last == tstep[c] = Len(TimerSteps) IN
    /\ phase[c] = "timer"
    /\ isPend' = IF step = "ticlr" THEN [isPend EXCEPT ![c] = @ \ {TIMER_IRQ_NUM}]
                                   ELSE isPend
    /\ armed' = IF step = "handler" THEN [armed EXCEPT ![c] = TRUE] ELSE armed
    /\ tstep' = [tstep EXCEPT ![c] = IF last THEN 1 ELSE @ + 1]
    /\ phase' = IF last THEN [phase EXCEPT ![c] = "run"] ELSE phase
    /\ UNCHANGED <<lie, irq, timerHandler, irqTable, tblRet, tblRan>>
    /\ UNCHANGED bootVars

(* A boot step of core c leaves the interrupt state alone.                 *)
BootStep(c) == Bt!BootStep(c) /\ UNCHANGED irqVars

IrqStep(c) ==
    \/ InitPercpu(c) \/ RegCheck(c) \/ RegInit(c) \/ EnableIrqs(c)
    \/ \E h \in Handlers : RegisterExt(c, h)
    \/ TimerFires(c) \/ ExtRaise(c)
    \/ WaitForIrqs(c) \/ TakeIrq(c) \/ DispatchIrq(c) \/ TimerDispatch(c)

Next == \E c \in Cpus : BootStep(c) \/ IrqStep(c)

(* Every core runs its boot code and its bring-up to the end, takes a pending enabled       *)
(* interrupt while IE is set and finishes dispatching it, and its armed   *)
(* timer eventually expires: the hardware and straight-line kernel code   *)
(* guarantee these.  Driver registration and device interrupts are not    *)
(* assumed to happen.                                                      *)
Fairness ==
  \A c \in Cpus :
    /\ WF_vars(BootStep(c))
    /\ WF_vars(InitPercpu(c)) /\ WF_vars(RegCheck(c)) /\ WF_vars(RegInit(c))
    /\ WF_vars(EnableIrqs(c)) /\ WF_vars(TimerFires(c)) /\ WF_vars(TakeIrq(c))
    /\ WF_vars(DispatchIrq(c)) /\ WF_vars(TimerDispatch(c))

Spec == Init /\ [][Next]_vars /\ Fairness

-----------------------------------------------------------------------------
TypeOK ==
  /\ phase \in [Cpus -> Phases]
  /\ isPend \in [Cpus -> SUBSET Lines] /\ lie \in [Cpus -> SUBSET Lines]
  /\ armed \in [Cpus -> BOOLEAN]
  /\ irq \in [Cpus -> Lines \cup {NoIrq}]
  /\ tstep \in [Cpus -> 1..Len(TimerSteps)]
  /\ timerHandler \in {NoHandler, TimerCb}
  /\ irqTable \in [0..TableSize-1 -> Handlers \cup {NoHandler}]
  /\ bootPt \in {"zero", "init"}
  /\ smpStackTop \in {Bt!StackOf(c) : c \in Cpus} \cup {NoStack}

(* Spec 4.5: the timer's pending bit is cleared before the handler runs,  *)
(* so a tick raised while the handler runs is not lost: a core back in    *)
(* its interrupt-enabled code always has its next tick either counting    *)
(* down or pending.  Needs the timer to expire between the two steps of   *)
(* dispatch_irq's timer arm.                                                *)
TickNotLost ==
  \A c \in Cpus : phase[c] \in IrqsOn => armed[c] \/ TIMER_IRQ_NUM \in isPend[c]

(* Every core that has not panicked keeps servicing timer ticks: the      *)
(* timer handler runs again and again.  A core on which HWI0 becomes       *)
(* pending is exempt: the trap handler numbers every interrupt by the     *)
(* lowest bit of all of ESTAT.IS and set_enable never enables HWI0, so    *)
(* from then on each timer interrupt is dispatched as EXT and its pending *)
(* bit is never cleared (spec 4.4 words the numbering rule the same way). *)
TimerHandlerRuns(c) ==
  /\ TimerDispatch(c)
  /\ TimerSteps[tstep[c]] = "handler"

TimerKeepsTicking ==
  \A c \in Cpus :
    \/ <>(phase[c] = "halted")
    \/ <>(EXT_IRQ_NUM \in isPend[c])
    \/ []<><<TimerHandlerRuns(c)>>_vars

(* wait_for_irqs "must be called with interrupts enabled, otherwise it     *)
(* will never return": called from the running loop, where IE is set, it  *)
(* always returns, on every core and whatever a device does, because the  *)
(* one-shot timer is always armed or pending there and its line stays     *)
(* enabled in ECFG.LIE.  A core that HWI0 has turned into an EXT-dispatch  *)
(* loop still wakes each time.                                             *)
IdleReturns == \A c \in Cpus : phase[c] = "idle" ~> phase[c] = "run"

(* Spec 4.5 and 7: a registration that loses a race fails with false and  *)
(* no side effect; register_handler(TIMER_IRQ_NUM, ..) run by every core  *)
(* in init_interrupt never panics.                                          *)
NoRegistrationPanic == \A c \in Cpus : phase[c] # "halted"

(* Spec 4.5: dispatch of a cause invokes the handler installed for that   *)
(* cause: dispatch_irq(EXT_IRQ_NUM) runs the handler that                  *)
(* register_handler(EXT_IRQ_NUM, h) installed.                              *)
ExtHandlerInvoked ==
  [][\A c \in Cpus :
       (DispatchIrq(c) /\ irq[c] = EXT_IRQ_NUM /\ irqTable[EXT_IRQ_NUM] # NoHandler)
         => tblRan'[c] = irqTable[EXT_IRQ_NUM]]_vars

=============================================================================
