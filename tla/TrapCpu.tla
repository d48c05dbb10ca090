------------------------------- MODULE TrapCpu -------------------------------
(***************************************************************************)
(* The privilege boundary of one LoongArch64 CPU: kernel tasks switching   *)
(* (TaskSwitch), a user task entering user space (UspaceContext::          *)
(* enter_uspace), traps taken from user or kernel mode (the trap.S entry   *)
(* and exit stubs, which are not in the source tree and are modelled from  *)
(* the spec), and loongarch64_trap_handler deciding what a trap does.      *)
(*                                                                         *)
(* Data is abstracted to what the properties tell apart: the user program  *)
(* counter, the thread pointer, the page-table root, which kernel stack a  *)
(* frame is on and the permissions of the page a fault names.  Interrupt   *)
(* routing behind handle_trap!(IRQ, ..) is modelled in LoongIrq.           *)
(***************************************************************************)
EXTENDS Naturals, SequencesExt

CONSTANTS
  Tasks, Boot, PgRoot, TlsOf, TLS,  \* see TaskSwitch
  UTasks,     \* tasks spawned by spawn_user_task: they call enter_uspace
  Pages,      \* user pages a fault may name (the value of BADV)
  Perm,       \* [Pages -> SUBSET Flags]: flags of the user area holding the page
  NoStack,    \* KSAVE_KSP before any enter_uspace wrote it
  MaxPc,      \* bound on the user program counter (bytes)
  MaxDepth    \* bound on nested trap frames on one kernel stack

ASSUME UTasks \subseteq Tasks \ {Boot}
ASSUME NoStack \notin Tasks
ASSUME MaxPc \in Nat /\ MaxDepth \in Nat \ {0}

VARIABLES
  cur, ctx, hwPgdl, hwTp, tlb,   \* see TaskSwitch
  mode,       \* CRMD.PLV: "kernel" (PLV0) or "user" (PLV3)
  ie,         \* CRMD.IE
  prmd,       \* PRMD: [pplv, pie], restored into CRMD by ertn
  pc,         \* the program counter while in user mode (ERA on a trap)
  ksaveKsp,   \* KSAVE_KSP CSR: the kernel stack a trap from user mode uses
  ksaveTp,    \* KSAVE_TP CSR: the kernel $tp while user code runs
  frames,     \* frames[t]: the TrapFrames on t's kernel stack, innermost last
  entered,    \* entered[t]: the user task t has called enter_uspace
  halted      \* a panic in the trap handler stopped the CPU

INSTANCE TaskSwitch

vars == <<cur, ctx, hwPgdl, hwTp, tlb, mode, ie, prmd, pc, ksaveKsp, ksaveTp,
          frames, entered, halted>>

Flags == {"READ", "WRITE", "EXECUTE", "USER"}
PageFaults == {"LoadPageFault", "FetchPageFault", "StorePageFault"}
Exceptions == PageFaults \cup {"Syscall", "Breakpoint", "Other"}
Causes == Exceptions \cup {"Interrupt"}
NoPage == "none"

(* Width of the syscall and break instructions: era += 4 in trap.rs.       *)
InsnWidth == 4

(* UspaceContext::new(entry, ustack_top, arg0): era = entry; regs[2] ($tp) *)
(* keeps the 0 of TrapFrame::default().                                    *)
UEntry == 0
UserTp == 0

(* A TrapFrame as trap.S leaves it: era, prmd, regs[2] ($tp), and which of *)
(* its two paths built it.  trapEra is history: the instruction that      *)
(* trapped; badv is the faulting page.  done marks that                    *)
(* loongarch64_trap_handler has returned.                                  *)
Frame == [era: Nat, trapEra: Nat, prmd: [pplv: {"kernel", "user"}, pie: BOOLEAN],
          tp: Nat, fromUser: BOOLEAN, cause: Causes, badv: Pages \cup {NoPage}, done: BOOLEAN]

HwPrmd == [pplv |-> mode, pie |-> ie]

Init ==
  /\ SwitchInit
  /\ mode = "kernel"
  /\ ie = FALSE                               \* _start: CRMD = PLV0, IE=0, PG=1
  /\ prmd = [pplv |-> "kernel", pie |-> FALSE]  \* _start: PRMD = 0
  /\ pc = UEntry
  /\ ksaveKsp = NoStack
  /\ ksaveTp = 0
  /\ frames = [t \in Tasks |-> <<>>]
  /\ entered = [t \in UTasks |-> FALSE]
  /\ halted = FALSE

Running == ~halted

-----------------------------------------------------------------------------
(* User code.  An ordinary instruction moves the program counter on; its  *)
(* fetch and accesses fill the TLB from the page table PGDL names.        *)
UserStep ==
  /\ Running /\ mode = "user"
  /\ pc + InsnWidth <= MaxPc
  /\ pc' = pc + InsnWidth
  /\ tlb' = tlb \cup {hwPgdl}
  /\ UNCHANGED <<cur, ctx, hwPgdl, hwTp, mode, ie, prmd, ksaveKsp, ksaveTp,
                 frames, entered, halted>>

(* A trap from user mode: the hardware saves PLV/IE into PRMD and the pc  *)
(* into ERA and clears IE; trap.S (.Lfrom_userspace, SAVE_REGS 1) moves    *)
(* onto the stack named by KSAVE_KSP, saves the user $tp in the frame and *)
(* reloads the kernel $tp from KSAVE_TP.                                   *)
TrapFromUser(c, p) ==
  /\ Running /\ mode = "user"
  /\ \/ c \in Exceptions /\ pc + InsnWidth <= MaxPc   \* an instruction at pc
     \/ c = "Interrupt" /\ ie
  /\ IF c \in PageFaults THEN p \in Pages ELSE p = NoPage
  /\ ksaveKsp \in Tasks
  /\ Len(frames[ksaveKsp]) < MaxDepth
  /\ frames' = [frames EXCEPT ![ksaveKsp] = Append(@,
                  [era |-> pc, trapEra |-> pc, prmd |-> HwPrmd,
                   tp |-> hwTp, fromUser |-> TRUE, cause |-> c, badv |-> p,
                   done |-> FALSE])]
  /\ prmd' = HwPrmd
  /\ mode' = "kernel"
  /\ ie' = FALSE
  /\ hwTp' = ksaveTp
  /\ UNCHANGED <<cur, ctx, hwPgdl, tlb, pc, ksaveKsp, ksaveTp, entered>>
  /\ UNCHANGED halted

(* A trap from kernel mode (.Lfrom_kernel, SAVE_REGS 0): the frame goes on *)
(* the current stack.  Kernel code takes interrupts when IE is set, and    *)
(* page faults while a syscall handler touches user memory.                *)
InSyscall == frames[cur] # <<>> /\ Last(frames[cur]).cause = "Syscall"
                                 /\ ~Last(frames[cur]).done

TrapFromKernel(c, p) ==
  /\ Running /\ mode = "kernel"
  /\ \/ c = "Interrupt" /\ ie /\ p = NoPage
     \/ c \in {"LoadPageFault", "StorePageFault"} /\ InSyscall /\ p \in Pages
  /\ Len(frames[cur]) < MaxDepth
  /\ frames' = [frames EXCEPT ![cur] = Append(@,
                  [era |-> pc, trapEra |-> pc, prmd |-> HwPrmd,
                   tp |-> hwTp, fromUser |-> FALSE, cause |-> c, badv |-> p,
                   done |-> FALSE])]
  /\ prmd' = HwPrmd
  /\ ie' = FALSE
  /\ UNCHANGED <<cur, ctx, hwPgdl, tlb, hwTp, mode, pc, ksaveKsp, ksaveTp, entered>>
  /\ UNCHANGED halted

-----------------------------------------------------------------------------
(* loongarch64_trap_handler(tf, from_user) on the innermost frame.         *)

(* handle_page_fault: READ for load and fetch faults, WRITE for stores,   *)
(* USER added for a fault from user mode.                                 *)
AccessFlags(f) ==
  (IF f.cause = "StorePageFault" THEN {"WRITE"} ELSE {"READ"})
    \cup (IF f.fromUser THEN {"USER"} ELSE {})

(* handle_trap!(PAGE_FAULT, ..) reaches the address-space manager (not in  *)
(* the source tree): it resolves a fault whose access the area permits.    *)
AspaceResolves(page, flags) == flags \subseteq Perm[page]

(* The arms that panic: an unresolved page fault, and an unknown cause.    *)
Fatal(f) ==
  \/ f.cause = "Other"
  \/ f.cause \in PageFaults /\ ~AspaceResolves(f.badv, AccessFlags(f))

(* Syscall: regs[4] = handle_syscall(..) and era += 4; Breakpoint:         *)
(* handle_breakpoint, era += 4; a resolved page fault and an interrupt     *)
(* leave era alone, so the instruction runs again or continues.            *)
(* Mutation: era advanced twice, once in the arm and once more on return. *)
AdvanceTwice(f) == IF f.cause \in {"Syscall", "Breakpoint"} THEN 2 * InsnWidth ELSE 0

Advance(f) == IF f.cause \in {"Syscall", "Breakpoint"} THEN InsnWidth ELSE 0

(* Mutation: handle_breakpoint and the syscall arm forget era += 4.       *)
HandledNoAdvance(f) == [f EXCEPT !.done = TRUE]

Handled(f) == [f EXCEPT !.era = @ + Advance(f), !.done = TRUE]

TrapHandler ==
  /\ Running /\ mode = "kernel" /\ frames[cur] # <<>>
  /\ LET f == Last(frames[cur]) IN
       /\ ~f.done
       /\ ~Fatal(f)
       /\ frames' = [frames EXCEPT ![cur][Len(frames[cur])] = Handled(f)]
  /\ UNCHANGED <<cur, ctx, hwPgdl, tlb, hwTp, mode, ie, prmd, pc, ksaveKsp, ksaveTp,
                 entered, halted>>

TrapPanic ==
  /\ Running /\ mode = "kernel" /\ frames[cur] # <<>>
  /\ ~Last(frames[cur]).done
  /\ Fatal(Last(frames[cur]))
  /\ halted' = TRUE
  /\ UNCHANGED <<cur, ctx, hwPgdl, tlb, hwTp, mode, ie, prmd, pc, ksaveKsp, ksaveTp,
                 frames, entered>>

(* trap.S after the handler returns: RESTORE_REGS reloads ERA and PRMD    *)
(* from the frame; on the user path it first puts the kernel $tp back in   *)
(* KSAVE_TP, reloads the user $tp and records the top of this kernel stack *)
(* in KSAVE_KSP.  ertn then sets PLV and IE from PRMD and jumps to ERA.    *)

(* Mutation: the user path does not refresh KSAVE_KSP.                     *)
RestoreUserCsrsNoKsp(f) == ksaveTp' = hwTp /\ hwTp' = f.tp /\ UNCHANGED ksaveKsp

RestoreUserCsrs(f) == ksaveTp' = hwTp /\ hwTp' = f.tp /\ ksaveKsp' = cur

ReturnFromTrap ==
  /\ Running /\ mode = "kernel" /\ frames[cur] # <<>>
  /\ LET f == Last(frames[cur]) IN
       /\ f.done
       /\ frames' = [frames EXCEPT ![cur] = Front(@)]
       /\ prmd' = f.prmd
       /\ pc' = f.era
       /\ mode' = f.prmd.pplv
       /\ ie' = f.prmd.pie
       /\ IF f.fromUser THEN RestoreUserCsrs(f)
                        ELSE UNCHANGED <<ksaveTp, hwTp, ksaveKsp>>
  /\ UNCHANGED <<cur, ctx, hwPgdl, tlb, entered, halted>>

-----------------------------------------------------------------------------
(* UspaceContext::enter_uspace(kstack_top of cur): disable_irqs, PRMD =   *)
(* PLV3 with PIE, ERA = entry; the kernel $tp goes to KSAVE_TP, the stack  *)
(* top to KSAVE_KSP, the frame's registers are loaded and ertn drops to   *)
(* user mode with IE taken from PRMD.PIE.                                  *)

(* Mutation: prmd::set_pie(true) left out; PIE keeps its old value.        *)
EnterPrmdNoPie == [pplv |-> "user", pie |-> prmd.pie]

(* prmd::set_pplv(CpuMode::Ring3); prmd::set_pie(true)                     *)
EnterPrmd == [pplv |-> "user", pie |-> TRUE]

(* Mutation: kstack_top is never written to KSAVE_KSP.                     *)
SaveKernelCsrsNoKsp == ksaveTp' = hwTp /\ UNCHANGED ksaveKsp

(* csrwr $tp, KSAVE_TP; csrwr {kstack_top}, KSAVE_KSP                      *)
SaveKernelCsrs == ksaveTp' = hwTp /\ ksaveKsp' = cur

EnterUspace ==
  /\ Running /\ mode = "kernel"
  /\ cur \in UTasks /\ ~entered[cur] /\ frames[cur] = <<>>
  /\ prmd' = EnterPrmd
  /\ mode' = EnterPrmd.pplv
  /\ ie' = EnterPrmd.pie
  /\ pc' = UEntry
  /\ SaveKernelCsrs
  /\ hwTp' = UserTp
  /\ entered' = [entered EXCEPT ![cur] = TRUE]
  /\ UNCHANGED <<cur, ctx, hwPgdl, tlb, frames, halted>>

(* enable_irqs / disable_irqs (crmd::set_ie) anywhere in kernel code.      *)
SetIrqs(on) ==
  /\ Running /\ mode = "kernel"
  /\ ie' = on
  /\ UNCHANGED <<cur, ctx, hwPgdl, tlb, hwTp, mode, prmd, pc, ksaveKsp, ksaveTp,
                 frames, entered, halted>>

(* The scheduler (not in the source tree) switches with IRQs disabled, as *)
(* spec section 5 requires, to any other task.                             *)
Schedule(next) ==
  /\ Running /\ mode = "kernel" /\ ~ie
  /\ SwitchTo(next)
  /\ UNCHANGED <<mode, ie, prmd, pc, ksaveKsp, ksaveTp, frames, entered, halted>>

(* After a panic the CPU does nothing more.                                *)
Halted == halted /\ UNCHANGED vars

Next ==
  \/ UserStep
  \/ \E c \in Causes, p \in Pages \cup {NoPage} : TrapFromUser(c, p)
  \/ \E c \in Causes, p \in Pages \cup {NoPage} : TrapFromKernel(c, p)
  \/ TrapHandler
  \/ TrapPanic
  \/ ReturnFromTrap
  \/ EnterUspace
  \/ \E on \in BOOLEAN : SetIrqs(on)
  \/ \E t \in Tasks : Schedule(t)
  \/ Halted

Spec == Init /\ [][Next]_vars

-----------------------------------------------------------------------------
TypeOK ==
  /\ cur \in Tasks
  /\ ctx \in [Tasks -> [pgdl: Nat, tp: Nat]]
  /\ hwPgdl \in Nat /\ hwTp \in Nat
  /\ tlb \in SUBSET {PgRoot[t] : t \in Tasks}
  /\ mode \in {"kernel", "user"} /\ ie \in BOOLEAN
  /\ prmd \in [pplv: {"kernel", "user"}, pie: BOOLEAN]
  /\ pc \in 0..MaxPc
  /\ ksaveKsp \in Tasks \cup {NoStack} /\ ksaveTp \in Nat
  /\ frames \in [Tasks -> Seq(Frame)]
  /\ entered \in [UTasks -> BOOLEAN]
  /\ halted \in BOOLEAN

(* A trap from user mode must land on the kernel stack of the task that   *)
(* was running: whenever user code runs, KSAVE_KSP names the current      *)
(* task's stack (enter_uspace and the user path of trap.S refresh it,     *)
(* while task switches in between do not).                                 *)
KernelStackOfCurrent == mode = "user" => ksaveKsp = cur

(* switch_to writes PGDL, and flushes the TLB, only when the two saved   *)
(* roots differ: the CPU must still always translate through the running *)
(* task's page table, both on a TLB miss (PGDL) and on a hit (no entry    *)
(* left from another task's root, which without ASIDs would still match). *)
AddressSpaceOfCurrent == hwPgdl = ctx[cur].pgdl /\ tlb \subseteq {ctx[cur].pgdl}

(* With "tls", kernel code always runs with its own task's TLS pointer in *)
(* $tp, and while user code runs KSAVE_TP holds it for the next trap:     *)
(* switch_to, enter_uspace and both trap.S paths move $tp between them.    *)
KernelTpOfCurrent ==
  TLS => /\ mode = "kernel" => hwTp = TlsOf[cur]
         /\ mode = "user" => ksaveTp = TlsOf[cur]

(* User code always runs with interrupts enabled: enter_uspace sets PIE   *)
(* before its ertn, and a return from a trap restores the PRMD that the   *)
(* trap saved.                                                             *)
UserRunsWithIrqsOn == mode = "user" => ie

(* The user program of every task runs as if alone, whatever the trap    *)
(* entry and exit, the handler arms, nested kernel traps and task switches *)
(* do in between: its program counter is the CPU's while it runs in user  *)
(* mode, and otherwise the trapping instruction recorded in the user      *)
(* frame at the bottom of its kernel stack; each trap resumes past a      *)
(* syscall or break and at a fault or interrupt, for the task that        *)
(* trapped (UserView, spec 4.3 and 4.4).                                   *)
UserFrame(t) == frames[t] # <<>> /\ frames[t][1].fromUser

UV == INSTANCE UserView
        WITH Entry <- UEntry, NoTrap <- NoPage,
             upc <- [t \in Tasks |-> IF mode = "user" /\ cur = t THEN pc
                                     ELSE IF UserFrame(t) THEN frames[t][1].trapEra
                                     ELSE UEntry],
             pend <- [t \in Tasks |-> IF UserFrame(t) THEN frames[t][1].cause ELSE NoPage]

(* UV!Spec, with the stuttering case tested first: most steps of the CPU  *)
(* leave every user program where it is.                                   *)
UserProgramsIsolated == UV!Init /\ [][UNCHANGED UV!vars \/ UV!Next]_UV!vars

(* Spec 4.4: a page fault asks the address space for the access the       *)
(* failing operation needed, execute for an instruction fetch; so a fetch *)
(* fault is only ever resolved on a page whose area is executable.         *)
FetchFaultNeedsExecute ==
  \A t \in Tasks : \A i \in 1..Len(frames[t]) :
    LET f == frames[t][i] IN
      (f.cause = "FetchPageFault" /\ f.done) => "EXECUTE" \in Perm[f.badv]

=============================================================================
