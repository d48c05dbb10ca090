# TLA+ models of thcore's LoongArch64 kernel layer

This directory holds TLA+ models of the LoongArch64 hardware-abstraction layer
of thcore (`src/thcore_test/arceos/modules/axhal/src/arch/loongarch64`,
`.../platform/loongarch64_qemu_virt`) and of the vendored crates it builds on
(`handler_table`, `flatten_objects`, `cpumask`, `kernel-elf-parser`). They are
checked with TLC. `PROJECT.json` lists the components, the runs, a mutant for
every checked property, the source lines behind every definition (`map`), the
findings and the hazards.

## The system and how its parts interact

| Part | Source | State | Operations |
|---|---|---|---|
| Task context switch | `arch/loongarch64/context.rs` (TaskContext), `mod.rs` | per-task saved ra/sp/s0-s8/tp/pgdl; CPU `$tp`, PGDL | `new`, `init`, `set_page_table_root`, `switch_to` (tls half, uspace half, `context_switch`) |
| User context and entry | `context.rs` (UspaceContext) | a TrapFrame; CSRs PRMD, ERA, KSAVE_TP, KSAVE_KSP | `new`, `enter_uspace` |
| Trap entry and exit | `trap.S` (**not in the source tree**) | TrapFrames on each kernel stack | SAVE_REGS from user or kernel, RESTORE_REGS, `ertn` |
| Trap dispatcher | `arch/loongarch64/trap.rs` | the innermost TrapFrame | syscall (era += 4), load/fetch/store page fault, breakpoint (era += 4), interrupt, panic |
| CPU helpers | `mod.rs` | CRMD.IE, PGDH/PGDL, `$tp`, TLB | `enable_irqs`, `disable_irqs`, `write_page_table_root[0]`, `flush_tlb`, `init_tlb`, `cpu_init` |
| IRQ routing | `platform/.../irq.rs` | ECFG.LIE, TIMER_HANDLER (LazyInit), common handler table | `set_enable`, `register_handler`, `dispatch_irq` |
| Handler table | `vendor/handler_table` | N atomic words | `register_handler` (CAS 0 -> h), `unregister_handler` (swap 0), `handle` (load, call) |
| Timer | `platform/.../time.rs` | TCFG | `set_oneshot_timer` (u64 subtraction, round up to 4), `init_percpu` |
| Boot | `platform/.../boot.rs`, `mod.rs` | DMW, `$sp`, boot page table, PGDH/PGDL, TLB config and refill entry, CRMD/EUEN, EENTRY, SMP_BOOT_STACK_TOP | `_start`, `_start_secondary`, `init_boot_page_table`, `init_mmu`, `init_tlb`, `cpu_init` |
| ELF parser | `vendor/kernel-elf-parser/src/info.rs` | parsed headers | `elf_base_addr`, `ELFParser::new`, `entry`, `phdr`, `auxv_vector` |
| User stack builder | `.../user_stack.rs`, `auxv.rs` | the pushed bytes and sp | `init_stack`, `app_stack_region` |
| CpuMask | `vendor/cpumask` | a bitmap of SIZE bits | set/get, bit operations, `from_raw_bits`, double-ended `Iter` |
| FlattenObjects | `vendor/flatten_objects` | CAP slots and an id bitmap | `add`, `add_at`, `add_or_replace_at`, `remove`, `get` |
| Test driver | `src/main.rs` | — | load each test ELF, `spawn_user_task`, join |

How they interact: `main` loads an ELF (ELF parser, user stack builder) and
spawns a task whose entry calls `UspaceContext::enter_uspace`. The scheduler
(axtask, not in the tree) calls `TaskContext::switch_to`. Every trap goes
through trap.S into `loongarch64_trap_handler`. That handler reaches
the syscall layer, the address-space manager (axmm, not in the tree) and,
for an interrupt, `dispatch_irq` and the handler table. The hard part is
the CSR hand-off: KSAVE_KSP, KSAVE_TP, PRMD and PGDL are written at
different times by `switch_to`, `enter_uspace` and both trap.S paths.
After any interleaving of task switches and nested traps, they must
still describe the task that is running.

## Modules

* **TaskSwitch** models `TaskContext::switch_to` on one CPU.
  * Variables: `cur` (the task whose callee-saved registers are loaded, an
    abstraction of `context_switch`), `ctx[t].pgdl` and `ctx[t].tp`
    (the saved context), `hwPgdl` (PGDL), `hwTp` (`$tp`) and `tlb` (the
    page-table roots the TLB holds translations from; no ASID is set, so
    an entry from one root still matches under another).
  * `SwitchTo(next)` is the whole function: the tls half (`NextTp`), the
    uspace half with its `self.pgdl != next_ctx.pgdl` short-circuit
    (`NextPgdl`, which calls `WritePageTableRoot0`: PGDL, then
    `flush_tlb(None)`), then `context_switch`. TrapCpu's `UserStep` fills
    the TLB from the root in PGDL.
  * `InitContext` is `TaskContext::new` for the boot task, and
    `init` plus `set_page_table_root` for the others.
* **TrapCpu** extends TaskSwitch (by `INSTANCE`) with the privilege boundary.
  * Variables: `mode` (CRMD.PLV), `ie` (CRMD.IE), `prmd`, the user `pc`,
    `ksaveKsp` (which task's kernel stack KSAVE_KSP names), `ksaveTp`, and
    `frames[t]` (the TrapFrames on task t's kernel stack).
  * Actions:
    * `UserStep`.
    * `TrapFromUser` and `TrapFromKernel` (hardware plus trap.S SAVE_REGS).
    * `TrapHandler` and `TrapPanic` (the arms of
      `loongarch64_trap_handler`, with `handle_page_fault` and
      `handle_breakpoint`).
    * `ReturnFromTrap` (RESTORE_REGS plus `ertn`).
    * `EnterUspace` (`enter_uspace`).
    * `SetIrqs` (`enable_irqs`/`disable_irqs`).
    * `Schedule` (a scheduler calling `switch_to` with IRQs off).
  * The address-space manager is abstracted to `AspaceResolves`: a fault
    is resolved when the area's flags include the requested access.
  * Frames carry one history field, `trapEra` (the user pc at the trap),
    that the code does not have. Only the refinement mapping reads it.
* **UserView** is what the trap machinery promises a user program (spec
  4.3, 4.4): each task runs its own instruction stream, a trap is served
  and the task resumes past a syscall or break, or at a faulting or
  interrupted instruction. TrapCpu refines it (`UserProgramsIsolated`):
  a task's abstract pc is `pc` while it runs in user mode, otherwise the
  `trapEra` of the bottom user frame on its kernel stack, otherwise its
  entry; its pending cause is that frame's cause.
* **MCTrapCpu** instantiates TrapCpu for TLC.
  * Tasks: the boot task `b` (root 0) and two user threads `u1` and `u2`
    of one process (`MCPgRootThreads`: both on root 1), each with its own
    TLS area. A switch between `u1` and `u2` takes `switch_to`'s
    short-circuit and skips the PGDL write; a switch to or from `b`
    writes PGDL and flushes the TLB.
  * Pages: `text` (r-x, user) and `data` (rw-, user).
* **HandlerTableAtomic** is what the routing table promises (spec 4.5):
  register, unregister and dispatch each take effect at one instant.
* **HandlerTable** models `handler_table::HandlerTable` on several cores.
  * Variables: `handlers` (the atomic words), `pc` and `loaded` (a core
    between `handle`'s load and its call), `ret` and `ran` (results).
  * `Register` is the compare_exchange, `Unregister` the swap, and
    `HandleLoad`/`HandleCall` the two halves of `handle`.
  * `Linearizable` maps it onto HandlerTableAtomic (`INSTANCE ... WITH`):
    a core that has loaded a handler has, abstractly, already dispatched.
* **LoongIrq** models interrupt routing on two cores.
  * Variables per core: `phase` (Boot's stages, registering, running, dispatching,
    halted), `isPend` (ESTAT.IS), `lie` (ECFG.LIE), `armed` (the one-shot
    timer), `irq`, `tstep`; shared: `timerHandler` (the LazyInit) and the
    common table, an instance of HandlerTableAtomic.
  * Actions: `InitPercpu`, `RegCheck`/`RegInit` (the `is_inited()` test and
    `init_once`, split because another core can run between them),
    `EnableIrqs`, `RegisterExt`, `TimerFires` and `ExtRaise` (hardware),
    `TakeIrq` (the interrupt arm of the trap handler, numbering by
    `trailing_zeros` of ESTAT.IS), `DispatchIrq` and `TimerDispatch`
    (ticlr, then the timer handler re-arming the timer), and
    `WaitForIrqs` (`wait_for_irqs`: IDLE, left by the next interrupt
    taken).
  * `phase` starts as Boot's `stage` (`INSTANCE Boot WITH stage <- phase`):
    each core boots (`BootStep`) before its interrupt bring-up, and the
    boot variables `bootPt`, `smpStackTop` and `csr` are part of the state.
* **Boot** models `boot.rs` with `init_tlb`, `set_tlb_refill`, `cpu_init`
  and `set_trap_vector_base` of `mod.rs`.
  * Variables: `stage[c]` (off, start, entry, main, percpu), `bootPt`
    (BOOT_PT_L0/L1 zero or filled), `smpStackTop` and `csr[c]` (a record
    of the boot-relevant registers: DMW, `$sp`, TLB configuration, TLB
    refill entry, PGDH, PGDL, TLB flushed, CRMD.PG, EUEN.FPE, EENTRY).
  * `PrimaryStart` is the whole of `_start` (`SetDmw`, the boot stack,
    `init_boot_page_table`, `InitMmu`, `EnablePaging`) as one step, and
    `SecondaryStart` the whole of `_start_secondary`, whose `$sp` is
    `SecondarySpLoaded(smpStackTop)`. `RustEntry` runs `CpuInit`.
  * `StartSecondary` and `PrimaryMainDone` stand for mp.rs and
    `rust_main`, which are outside the tree (spec 4.6): the primary
    publishes a secondary's stack top and then starts it, one at a time.
  * No property is about boot alone. Each entry point is one atomic step,
    so the register values it leaves restate its assignments, and with two
    cores the published stack top cannot be overwritten before it is read.
    Boot is checked as the prefix of every `irq_routing` behaviour.
* **Timer** models `time.rs` at a W-bit word with a TimerBits-bit TCFG
  InitVal. `SetOneshotTimer(d)` is `set_oneshot_timer`: `NanosToTicks`,
  the wrapping `InitValue` subtraction, `RoundUp4` and `Program` (the TCFG
  writes; a count of 0 expires at once). `Tick` is the counter,
  `InitPercpu` and `ClearTimerInterrupt` the other TCFG/TICLR writes. A
  `Profile` constant chooses a release build (wrapping) or a debug build
  (panicking on overflow).
* **ElfInfo** models `ELFParser` (`info.rs`) as operators over a file
  abstracted to its header fields and program headers: `ElfBaseAddr`,
  `IsPie`, `ParserNew`, `Entry`, `Phdr` and `AuxvVector` (all 17 entries);
  `ph_load`, a pure conversion no property reads, is left out. `SpecParse` is the parse of spec 4.7, the reference the code is
  compared with.
* **UserStack** models `user_stack.rs`. The buffer is the sequence of
  pieces `init_stack` pushes (seed, strings as length and identity, words,
  zero padding); `Push`, `PushUsizeSlice` and `PushStrs` are the methods,
  `InitStack` the function and `AppStackRegion` the entry point.
  `Memory` reads the buffer back as an address map.
* **Loader** composes the two as the crate's test does: parse a file, take
  its `auxv_vector(PAGE_SIZE_4K)`, build the stack with it. `Load` parses
  (and on an error builds nothing) and `SetArgs` rebuilds for other
  arguments.
* **CpuMask** models `cpumask::CpuMask` with the bitmap abstracted to the
  set of true indices.
  * Variables: `mask`, `phase` (owned, borrowed by a live `Iter`, or
    panicked), the iterator's `head` and `tail` cursors, `front` and `back`
    (what `next` and `next_back` returned), `raw` (the last
    `from_raw_bits` argument).
  * Actions: `Set`, `Invert`, `BitAndAssign`/`BitOrAssign`/`BitXorAssign`
    with a constructed mask, `FromRawBits` (usize shifts at a small width
    `W`, panicking in a debug build and wrapping in a release build),
    `IntoIter`, `IterNext`, `IterNextBack` and `DropIter`.
  * There is no MC module: the cfgs give SIZE = 3 and W = 4.
* **FlattenObjectsMap** is what `FlattenObjects` documents: a partial map
  from ids 0..CAP-1 to objects, with the Result or Option of the last call.
* **FlattenObjects** models the slots (`Uninit` until written), the id
  bitmap (its set of true bits; its 1024 bits are `BitmapSize`) and
  `count`. `Add`, `AddAt`, `AddOrReplaceAt` and `Remove` are the four
  mutating methods. `ImplementsMap` maps the assigned slots onto
  FlattenObjectsMap.
* **MC modules** give the constants: `MCHandlerTable` two cores, two
  handlers, a two-slot table and an out-of-range index; `MCLoongIrq` two
  cores, the timer callback and a driver; `MCElfInfo` every file of up to
  three headers from {PT_INTERP, text below the user base, text, data},
  of type ET_EXEC, ET_DYN or ET_REL, with and without a bias;
  `MCLoader` the same with up to two headers, one or two arguments and up
  to one environment string of length 0 or 4; `MCUserStack` up to two
  arguments and environment strings of lengths 0, 3 and 4;
  `MCFlattenObjects` CAP = 3 in a 4-bit bitmap (so the first free bit can
  lie past CAP), ids 0..3 and two objects.

trap.S is not under `src/`. The definitions modelled from it (`TrapFromUser`,
`TrapFromKernel`, `RestoreUserCsrs`, `ReturnFromTrap`) follow the spec's
description of it (section 4.3). `Schedule` stands for the external scheduler.
All of these are marked `spec_modelled` in the map.

## Runs

* `trap_core` (`MCTrapCpu.cfg`, pass, about 2.4 million distinct states
  in about 3 minutes) checks these properties:
  * `KernelStackOfCurrent`: whenever user code runs, KSAVE_KSP names the
    running task's kernel stack. Otherwise a trap would build its frame on
    another task's stack.
  * `AddressSpaceOfCurrent`: PGDL is always the running task's root, and
    the TLB holds no translation from another root, both when `switch_to`
    writes PGDL and when its short-circuit skips the write for two
    threads of one process.
  * `KernelTpOfCurrent`: kernel code runs with its own TLS pointer, and
    KSAVE_TP holds it while user code runs.
  * `UserRunsWithIrqsOn`: user code runs with CRMD.IE set.
  * `UserProgramsIsolated` (refinement of UserView): every user program
    runs as if alone. Whatever traps, switches and other tasks do, a
    return to user mode resumes the task that trapped, a syscall or
    breakpoint at the trapping instruction plus 4, a page fault or
    interrupt at the same instruction. It is stated as `UV!Init /\
    [][UNCHANGED UV!vars \/ UV!Next]_UV!vars`, which is `UV!Spec` with the
    stuttering case tested first.
  * `TypeOK`.
* `trap_fetch_perm` (`MCTrapCpu_fetch.cfg`, violation) checks
  `FetchFaultNeedsExecute`. Spec 4.4 asks for the execute permission on an
  instruction fetch; trap.rs:45 requests READ for a fetch fault. TLC shows a
  fetch fault on the rw- data page being resolved, in 5 states.

* `handler_table` (pass, 22,210 states): `Linearizable`, the detailed
  table refines the atomic one, and `TypeOK` (a core about to call holds a
  real handler).
* `irq_routing` (pass, 9,957 states, a device on HWI0, both cores booting):
  * `TickNotLost`: a running core always has its next tick armed or
    pending, because ticlr comes before the re-arm.
  * `TimerKeepsTicking`: every core that has not panicked, and on which
    HWI0 never becomes pending, runs its timer handler infinitely often.
  * `IdleReturns`: a core that enters `wait_for_irqs` always leaves it,
    even on a core where a pending HWI0 hides the timer.
* `irq_timer_race` (violation of `NoRegistrationPanic`): two cores both
  pass `TIMER_HANDLER.is_inited()` and the second `init_once` panics.
* `irq_ext_dispatch` (violation of the action property
  `ExtHandlerInvoked`): the EXT handler is registered in slot 2 and
  dispatched from slot 0, so it never runs.
* `loader` (pass, 768 states, under a minute):
  * `DynParseAsSpecified`: ET_DYN and unsupported files parse as spec 4.7
    says (errors, base, bias).
  * `AbiLayout`: the stack reads back as argc, argv, NULL, envp, NULL and
    the auxiliary vector, AT_RANDOM at the seed, AT_EXECFN at argv[0].
* `user_stack_align` (violation of `SpAligned`): one argument and one
  environment string give a final sp of 8 mod 16.
* `elf_phdr` (violation of `PhdrIsAddress`): AT_PHDR is `e_phoff + base`
  (64) where the table lies at 4160.
* `cpumask` (pass, 7,334 states, SIZE 3, a 4-bit usize, release build):
  * `OneEndedIteration`: an iterator driven from one end only yields the
    true indices in order, once each, and all of them before None.
  * `FromRawBitsAsDocumented`: `from_raw_bits` panics exactly on values of
    2^SIZE or more and otherwise sets exactly the value's bits.
* `timer_deadline` (violation of `FiresAtDeadline`, 8-bit word, 6-bit
  InitVal, release build): a deadline of 0 set at tick 4 makes
  `ticks_deadline - ticks_now` wrap, and TCFG gets a count of 60 instead
  of expiring at once.
* `flatten_objects` (pass, 772 states):
  * `CountMatches`: `count` equals the number of assigned ids, and every
    assigned slot has been written.
  * `ImplementsMap`: every sequence of calls behaves as the documented
    partial map (same ids, same returned objects, same errors).

Each property of `trap_core` has a mutant in `PROJECT.json`. Each mutant
is a plausible bug that TLC catches:
* `write_page_table_root0` does not flush the TLB.
* `$tp` is not reloaded.
* PIE is not set.
* KSAVE_KSP is not written.
* era is advanced twice.
* era is not advanced.

### Bounds

* MaxPc = 4 and MaxDepth = 2 are small, but every case still happens:
  * A task traps from user mode once, takes a kernel interrupt or a
    syscall page fault on top of that, and is switched away.
  * The other task enters user space and traps as well.
  * Every cause is reached from both modes.
* Two user tasks with distinct TLS areas and kernel stacks make a stale
  `$tp` or KSAVE_KSP distinguishable. They share a root, and the boot
  task has another, so a stale PGDL or TLB is distinguishable while the
  short-circuit in `switch_to` is taken too.
* A third task would only repeat these cases.

### Fairness

Only LoongIrq states liveness. The Boot steps (straight-line entry code)
are weakly fair per core as well. Its fairness is weak fairness, per core, of
the bring-up steps (straight-line code each core runs in order), of
`TimerFires` (an armed one-shot timer expires), of `TakeIrq` (the CPU takes
a pending, enabled interrupt while IE is set) and of `DispatchIrq` and
`TimerDispatch` (the handler runs to completion). A driver registering and
a device raising HWI0 are not assumed to happen, nor is a core entering
`wait_for_irqs` (the idle task decides that); `IdleReturns` rests on the
fairness of `TimerFires` and `TakeIrq` alone.

Bounds of the other runs: the ELF files cover every count of PT_INTERP
that matters (0, 1, 2), a segment below and above the user base, both
types the parser accepts and one it refuses, and a bias or none. The
argument lists cover both parities of argc + envc and the empty string,
which is where the alignment and the address read-back can go wrong.

## Findings

* trap.rs:45-46 sends an instruction-fetch page fault to the address
  space as a READ access (`trap_fetch_perm`).
* irq.rs:68 dispatches EXT at index 0 but registers it at index 2
  (`irq_ext_dispatch`).
* irq.rs:45 registers the timer handler with check-then-init, which panics
  when two cores race (`irq_timer_race`).
* user_stack.rs:114 leaves sp 8 mod 16 when args + envs is even
  (`user_stack_align`).
* time.rs:43: `set_oneshot_timer` with a deadline 4 or more ticks in the
  past programs a wrapped, huge count (a debug build panics instead), so
  the timer goes silent (`timer_deadline`).
* Not a run: cpumask lib.rs:462, a double-ended `Iter` yields the element
  where its cursors meet twice (with mask {1}, `next()` then `next_back()`
  both return 1). `MCCpuMask_iter.cfg` still reproduces it; it is listed
  as a hazard.
* info.rs:118 gives the file offset of the program headers, not their
  address, as AT_PHDR (`elf_phdr`).
* Not a run: when HWI0 is pending, the trap handler's numbering over all
  of ESTAT.IS turns every timer interrupt into an EXT dispatch that never
  clears the timer bit, and the core livelocks. The spec words the rule
  the same way, so this is listed as a hazard.
* Not a run: info.rs:78 treats an ET_EXEC with a PT_INTERP as PIE, so it
  is biased, skips the user-base check and is accepted with two
  interpreters. The spec does not settle such files; this is a hazard.

## Plan

1. Done: TaskSwitch, TrapCpu, HandlerTable (with its refinement),
   LoongIrq, ElfInfo, UserStack, Loader, CpuMask and FlattenObjects (with
   its refinement).
2. Done: Timer (`timer_deadline`) and Boot (composed into LoongIrq and
   checked by `irq_routing`).
3. Done: TrapCpu refines UserView (`UserProgramsIsolated`), in place of
   an action property that read a history field.
4. Three cores in `irq_routing` (the case where a third core's stack top
   could overwrite SMP_BOOT_STACK_TOP) take 3.5 minutes alone; they need a
   smaller interrupt side first.
5. **CpuMask at SIZE = W**: the wide case of `from_raw_bits` (a hazard).
6. The run budget (12) is full; a new component's run must come from
   merging or retiring one.

## Not modelled

* **trap.S** is modelled from the spec only, as described above.
* **axtask, axmm, axfs and the syscall layer** live outside the source tree.
  Only what the models need of them is kept: a scheduler that switches
  with IRQs off, and fault resolution by permissions.
* **TLB refill and contents**: the TLB is the set of roots it caches
  translations from; addresses, page sizes and the refill handler are not
  modelled.
* **The accessor functions** (`arg0`..`arg5`, `get_ip` and the like)
  copy fields and change no state.
* **xmas_elf's byte decoding**: the ELF models start from the decoded
  header fields and program headers.
* **Negative biases**: `bias` is an `isize` added with `wrapping_add`; the
  runs use none or a positive one, as the callers in this tree do.
* **CpuMask's queries and conversions** (`get`, `len`, the index
  searches, `From`, `Hash`, `Ord`) change no state; the searches are
  operators used by the iterator.
* **`main.rs`** is a sequential loop over test binaries. Every call it
  makes that changes state (`new_user_aspace`, `mm::load_user_app`,
  `set_current_dir`, `spawn_user_task`, `join`) is in axmm, axfs or
  `mm.rs`/`task.rs`, none of which is in the source tree or described by
  the spec. Its single user task per test is a special case of TrapCpu's
  configuration. The order load-then-`set_current_dir` (with the error
  discarded) is listed as a hazard.
* **`halt`, `read_page_table_root`, `write_page_table_root`, the
  single-address `flush_tlb`**: `halt` is called only by out-of-tree code
  (the panic and shutdown paths); PGDH is written only by the out-of-tree
  address-space setup; a single-address flush follows an unmap in axmm,
  and the TLB model has no addresses. `read_thread_pointer` and
  `write_thread_pointer` are the `$tp` moves of `switch_to`'s tls half.
* **Larger instances**: HandlerTable with three cores takes 7 minutes, and
  `irq_routing` with three cores 3.5 minutes alone; both stay at two.
* **The timer callback** that picks the next deadline is outside the tree;
  Timer lets it pass any deadline, and LoongIrq abstracts a re-arm to
  `armed`.
