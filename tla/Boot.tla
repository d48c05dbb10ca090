-------------------------------- MODULE Boot --------------------------------
(***************************************************************************)
(* MMU bootstrap of the LoongArch64 QEMU virt platform                    *)
(* (platform/loongarch64_qemu_virt/boot.rs, with init_tlb, cpu_init and    *)
(* set_trap_vector_base of arch/loongarch64/mod.rs).                       *)
(*                                                                         *)
(* The primary core runs _start: direct-mapped windows, the boot stack,   *)
(* init_boot_page_table, init_mmu, invtlb, CRMD = PG (IE off), then        *)
(* rust_entry, which runs cpu_init.  The primary later publishes a stack   *)
(* top in SMP_BOOT_STACK_TOP and starts a secondary core, which runs       *)
(* _start_secondary: the same windows, sp read from SMP_BOOT_STACK_TOP,    *)
(* init_mmu over the primary's boot page table, invtlb, CRMD = PG, then    *)
(* rust_entry_secondary and cpu_init.  rust_entry, rust_entry_secondary    *)
(* and the publishing code (axruntime's mp.rs) are outside this tree and   *)
(* follow spec 4.6: the boot-stack top is published before the secondary   *)
(* is started.                                                             *)
(*                                                                         *)
(* A core's own CSRs change only in its own steps, and a boot entry runs   *)
(* as one step: only the boot page table and SMP_BOOT_STACK_TOP are        *)
(* shared, and each is read or written once per core.                       *)
(***************************************************************************)
CONSTANTS
  Cpus,      \* the cores
  Primary,   \* the core the firmware starts
  NoStack    \* SMP_BOOT_STACK_TOP before anything is published (0)

(* BOOT_STACK for the primary; mp.rs's per-core secondary stack for the   *)
(* others, named by the core.                                              *)
BootStack == "BOOT_STACK"
StackOf(c) == IF c = Primary THEN BootStack ELSE c

VARIABLES
  stage,        \* stage[c]: "off", "start", "entry", "main" (primary) or "percpu"
  bootPt,       \* BOOT_PT_L0/L1: "zero" until init_boot_page_table
  smpStackTop,  \* SMP_BOOT_STACK_TOP
  csr           \* csr[c]: the boot-relevant CSRs and registers of core c

(* At reset: no windows, no paging, TLB contents and configuration         *)
(* undefined, no trap or refill entry.                                      *)
ResetCsr == [dmw |-> FALSE, sp |-> NoStack, tlbCfg |-> FALSE, tlbrentry |-> FALSE,
             pgdh |-> "none", pgdl |-> "none", tlbClean |-> FALSE, pg |-> FALSE,
             fpe |-> FALSE, eentry |-> FALSE]

Init ==
  /\ stage = [c \in Cpus |-> IF c = Primary THEN "start" ELSE "off"]
  /\ bootPt = "zero"
  /\ smpStackTop = NoStack
  /\ csr = [c \in Cpus |-> ResetCsr]

-----------------------------------------------------------------------------
(* The DMWIN0/DMWIN1 writes both entry points start with.                  *)
SetDmw(r) == [r EXCEPT !.dmw = TRUE]

(* init_mmu: init_tlb (4 KiB page size in TLBIDX/STLBPS/TLBREHI, the      *)
(* walker geometry in PWCL/PWCH, and set_tlb_refill with the physical      *)
(* address of handle_tlb_refill), then PGDH = BOOT_PT_L0, PGDL = 0.         *)
InitMmu(r) ==
  [r EXCEPT !.tlbCfg = TRUE, !.tlbrentry = TRUE, !.pgdh = "BOOT_PT_L0", !.pgdl = "zero"]

(* invtlb 0x00, then CRMD = 0xb0 (PLV 0, IE 0, PG 1), PRMD = 0, EUEN = 0.  *)
EnablePaging(r) == [r EXCEPT !.tlbClean = TRUE, !.pg = TRUE, !.fpe = FALSE]

(* _start_secondary: la.abs SMP_BOOT_STACK_TOP; ld.d $sp.                  *)
SecondarySpLoaded(top) == top

(* _start on the primary, through jirl to rust_entry.                       *)
PrimaryStart(c) ==
  /\ c = Primary /\ stage[c] = "start"
  /\ bootPt' = "init"
  /\ csr' = [csr EXCEPT ![c] = EnablePaging(InitMmu([SetDmw(@) EXCEPT !.sp = BootStack]))]
  /\ stage' = [stage EXCEPT ![c] = "entry"]
  /\ UNCHANGED smpStackTop

(* _start_secondary, through jirl to rust_entry_secondary.                  *)
SecondaryStart(c) ==
  /\ c # Primary /\ stage[c] = "start"
  /\ csr' = [csr EXCEPT ![c] =
               EnablePaging(InitMmu([SetDmw(@) EXCEPT !.sp = SecondarySpLoaded(smpStackTop)]))]
  /\ stage' = [stage EXCEPT ![c] = "entry"]
  /\ UNCHANGED <<bootPt, smpStackTop>>

(* cpu_init: EUEN.FPE, then set_trap_vector_base (ECFG.VS = 0, EENTRY).   *)
CpuInit(r) == [r EXCEPT !.fpe = TRUE, !.eentry = TRUE]

(* rust_entry / rust_entry_secondary call cpu_init; the primary goes on   *)
(* to start the secondaries, a secondary to its per-core init.              *)
RustEntry(c) ==
  /\ stage[c] = "entry"
  /\ csr' = [csr EXCEPT ![c] = CpuInit(@)]
  /\ stage' = [stage EXCEPT ![c] = IF c = Primary THEN "main" ELSE "percpu"]
  /\ UNCHANGED <<bootPt, smpStackTop>>

(* The primary publishes s's stack top in SMP_BOOT_STACK_TOP and starts s,*)
(* once the secondary it started before has loaded its own.                 *)
StartSecondary(c, s) ==
  /\ c = Primary /\ stage[c] = "main"
  /\ stage[s] = "off"
  /\ \A o \in Cpus : stage[o] # "start"
  /\ smpStackTop' = StackOf(s)
  /\ stage' = [stage EXCEPT ![s] = "start"]
  /\ UNCHANGED <<bootPt, csr>>

(* With every secondary started, the primary goes on to its per-core init.*)
PrimaryMainDone(c) ==
  /\ c = Primary /\ stage[c] = "main"
  /\ \A o \in Cpus : stage[o] # "off"
  /\ stage' = [stage EXCEPT ![c] = "percpu"]
  /\ UNCHANGED <<bootPt, smpStackTop, csr>>

BootStep(c) ==
  \/ PrimaryStart(c) \/ SecondaryStart(c) \/ RustEntry(c)
  \/ \E s \in Cpus : StartSecondary(c, s)
  \/ PrimaryMainDone(c)

Next == \E c \in Cpus : BootStep(c)

Spec == Init /\ [][Next]_<<stage, bootPt, smpStackTop, csr>>

=============================================================================
