----------------------------- MODULE TaskSwitch -----------------------------
(***************************************************************************)
(* Kernel-to-kernel task switch of one LoongArch64 CPU                     *)
(* (axhal/src/arch/loongarch64/context.rs, TaskContext).                   *)
(*                                                                         *)
(* A TaskContext keeps ra, sp, s0..s8/fp, tp and, with the "uspace"        *)
(* feature, the page-table root pgdl.  The callee-saved registers and the  *)
(* stack pointer together decide which control flow runs after the        *)
(* switch; they are abstracted to the identity of the running task, cur.   *)
(* The thread pointer and the page-table root are kept as values because  *)
(* switch_to handles them in Rust, around the assembly context_switch.     *)
(*                                                                         *)
(* The TLB is kept as the set of page-table roots it holds translations   *)
(* from.  No ASID is ever set, so an entry filled under one root matches   *)
(* the same address under any other until it is invalidated.              *)
(***************************************************************************)
EXTENDS Naturals

CONSTANTS
  Tasks,      \* the kernel tasks (each has one TaskContext)
  Boot,       \* the task the CPU boots in (TaskContext::new(), all zero)
  PgRoot,     \* [Tasks -> Roots]: pgdl given by set_page_table_root, 0 if never set
  TlsOf,      \* [Tasks -> TlsAreas]: tls_area given to TaskContext::init
  TLS         \* is the "tls" cargo feature enabled?

ASSUME Boot \in Tasks /\ TLS \in BOOLEAN
ASSUME PgRoot[Boot] = 0

VARIABLES
  cur,        \* the task whose registers are on the CPU
  ctx,        \* ctx[t]: the saved TaskContext of t (only pgdl and tp matter)
  hwPgdl,     \* the PGDL CSR (root of the lower-half page table)
  hwTp,       \* the $tp register
  tlb         \* the roots whose lower-half translations the TLB caches

switchVars == <<cur, ctx, hwPgdl, hwTp, tlb>>

(* TaskContext::new() zeroes the boot task's context; every other task was *)
(* given TaskContext::init(entry, kstack_top, tls_area) and, for a user    *)
(* task, set_page_table_root(root) before it first ran.  init_mmu left     *)
(* PGDL at 0 and _start flushed the TLB; the boot code left the boot      *)
(* task's TLS pointer in $tp.                                              *)
InitContext(t) ==
  IF t = Boot THEN [pgdl |-> 0, tp |-> 0]
              ELSE [pgdl |-> PgRoot[t], tp |-> TlsOf[t]]

SwitchInit ==
  /\ cur = Boot
  /\ ctx = [t \in Tasks |-> InitContext(t)]
  /\ hwPgdl = 0
  /\ hwTp = TlsOf[Boot]
  /\ tlb = {}

(* flush_tlb(None): dbar 0; invtlb 0x00 drops every entry.                *)
FlushTlbAll == {}

(* Mutation: write_page_table_root0 without its flush_tlb(None).          *)
WritePageTableRoot0NoFlush(root) == hwPgdl' = root /\ tlb' = tlb

(* write_page_table_root0(root): pgdl::set_base(root); flush_tlb(None).    *)
WritePageTableRoot0(root) == hwPgdl' = root /\ tlb' = FlushTlbAll

(* The page-table half of switch_to (feature "uspace"): PGDL is written,  *)
(* and the TLB flushed, only when the two saved roots differ.             *)
NextPgdl(next) ==
  IF ctx[cur].pgdl # ctx[next].pgdl THEN WritePageTableRoot0(ctx[next].pgdl)
                                    ELSE UNCHANGED <<hwPgdl, tlb>>

(* The thread-pointer half of switch_to (feature "tls"): $tp after the    *)
(* switch.  Mutation: the next task's tp is never loaded.                  *)
NextTpStale(next) == hwTp

NextTp(next) == IF TLS THEN ctx[next].tp ELSE hwTp

(* TaskContext::switch_to(&mut ctx[cur], &ctx[next]): with "tls", save    *)
(* $tp into the current context and load the next one's; then the naked   *)
(* context_switch, which stores the callee-saved registers of cur and     *)
(* loads those of next: control continues in next.                        *)
SwitchTo(next) ==
  /\ next # cur
  /\ ctx' = IF TLS THEN [ctx EXCEPT ![cur].tp = hwTp] ELSE ctx
  /\ hwTp' = NextTp(next)
  /\ NextPgdl(next)
  /\ cur' = next

=============================================================================
