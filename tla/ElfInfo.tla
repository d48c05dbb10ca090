------------------------------- MODULE ElfInfo -------------------------------
(***************************************************************************)
(* kernel-elf-parser's ELFParser (info.rs): the load base, the PIE        *)
(* decision and its checks, and what the parser exposes (entry, program   *)
(* header table, auxiliary vector, loadable segments), against the parse   *)
(* operation of spec 4.7.                                                  *)
(*                                                                         *)
(* An ELF file is abstracted to its header fields and its program         *)
(* headers; xmas_elf's decoding of the bytes is taken as given.           *)
(***************************************************************************)
EXTENDS Naturals, Sequences, FiniteSets

CONSTANTS
  Elfs,        \* the ELF files the loader may be handed
  InterpBase,  \* interp_base passed by the loader
  Biases,      \* values of bias: a number, or NoBias for None
  NoBias,
  UspaceBase,  \* uspace_base: the lowest user address
  PageSize     \* pagesz passed to auxv_vector

(* An ELF header with its program headers.                                 *)
ElfFile == [magic: BOOLEAN, type: {"Exec", "Dyn", "Rel"}, entry: Nat,
            phoff: Nat, phent: Nat,
            phs: Seq([type: {"Load", "Interp", "Phdr"}, vaddr: Nat, offset: Nat,
                      filesz: Nat, memsz: Nat, flags: SUBSET {"R", "W", "X"}])]

VARIABLES
  elf,        \* the file last parsed
  bias,       \* the bias it was parsed with
  parsed      \* the result of ELFParser::new: [ok, base] or [ok |-> FALSE]

vars == <<elf, bias, parsed>>

Err == [ok |-> FALSE, base |-> 0]

InterpCount(f) == Cardinality({i \in 1..Len(f.phs) : f.phs[i].type = "Interp"})
HasInterp(f) == \E i \in 1..Len(f.phs) : f.phs[i].type = "Interp"
LoadIdx(f) == {i \in 1..Len(f.phs) : f.phs[i].type = "Load"}

(* Mutation: more than one PT_INTERP is not an error.                    *)
ElfBaseAddrNoMultiCheck(f, ib) ==
  CASE f.type = "Exec" -> [ok |-> TRUE, base |-> 0]
    [] f.type = "Dyn" /\ InterpCount(f) = 0 -> [ok |-> TRUE, base |-> ib]
    [] f.type = "Dyn" -> [ok |-> TRUE, base |-> 0]
    [] OTHER -> Err

(* elf_base_addr: 0 for ET_EXEC; for ET_DYN interp_base with no PT_INTERP *)
(* (the file is the interpreter), 0 with one, an error with more; other    *)
(* types are unsupported.                                                   *)
ElfBaseAddr(f, ib) ==
  CASE f.type = "Exec" -> [ok |-> TRUE, base |-> 0]
    [] f.type = "Dyn" /\ InterpCount(f) = 0 -> [ok |-> TRUE, base |-> ib]
    [] f.type = "Dyn" /\ InterpCount(f) = 1 -> [ok |-> TRUE, base |-> 0]
    [] OTHER -> Err

(* The PIE test of ELFParser::new: ET_DYN, or ET_EXEC with a PT_INTERP.    *)
IsPie(f) == f.type = "Dyn" \/ (f.type = "Exec" /\ HasInterp(f))

BiasOf(b) == IF b = NoBias THEN 0 ELSE b

(* ELFParser::new(elf, interp_base, bias, uspace_base).                    *)
ParserNew(f, ib, b, ub) ==
  LET below == \E i \in LoadIdx(f) : f.phs[i].vaddr < ub
      r == ElfBaseAddr(f, ib)
  IN CASE ~f.magic -> Err
       [] ~IsPie(f) /\ below -> Err
       [] ~r.ok -> Err
       [] OTHER -> [ok |-> TRUE,
                    base |-> IF IsPie(f) THEN r.base + BiasOf(b) ELSE r.base]

(* entry() and phdr(): header fields plus base.                            *)
Entry(f, p) == f.entry + p.base
Phdr(f, p) == f.phoff + p.base

AT_PHDR == 3
AT_PHENT == 4
AT_PHNUM == 5
AT_PAGESZ == 6
AT_BASE == 7
AT_FLAGS == 8
AT_ENTRY == 9
AT_UID == 11
AT_EUID == 12
AT_GID == 13
AT_EGID == 14
AT_PLATFORM == 15
AT_HWCAP == 16
AT_CLKTCK == 17
AT_RANDOM == 25
AT_EXECFN == 31
AT_NULL == 0

(* auxv_vector(pagesz): 17 entries in a fixed order; phnum() and phent()  *)
(* are the header's e_phnum and e_phentsize.                               *)
AuxvVector(f, p) ==
  <<<<AT_PHDR, Phdr(f, p)>>, <<AT_PHENT, f.phent>>, <<AT_PHNUM, Len(f.phs)>>,
    <<AT_PAGESZ, PageSize>>, <<AT_BASE, p.base>>, <<AT_FLAGS, 0>>,
    <<AT_ENTRY, Entry(f, p)>>, <<AT_HWCAP, 0>>, <<AT_CLKTCK, 100>>,
    <<AT_PLATFORM, 0>>, <<AT_UID, 0>>, <<AT_EUID, 0>>, <<AT_GID, 0>>,
    <<AT_EGID, 0>>, <<AT_RANDOM, 0>>, <<AT_EXECFN, 0>>, <<AT_NULL, 0>>>>

Init ==
  /\ elf \in Elfs
  /\ bias \in Biases
  /\ parsed = ParserNew(elf, InterpBase, bias, UspaceBase)

(* The loader parses the next program.                                     *)
Parse(f, b) ==
  /\ elf' = f /\ bias' = b
  /\ parsed' = ParserNew(f, InterpBase, b, UspaceBase)

Next == \E f \in Elfs, b \in Biases : Parse(f, b)

Spec == Init /\ [][Next]_vars

-----------------------------------------------------------------------------
(* The parse of spec 4.7 and 8: a bad magic, a type other than a fixed-  *)
(* address (ET_EXEC) or position-independent (ET_DYN) executable, or more  *)
(* than one interpreter is an error; a fixed-address image with a load    *)
(* segment below uspace_base is an error; the base is 0 for a fixed-      *)
(* address image and, for a PIE, interp_base with no PT_INTERP or 0 with   *)
(* one, plus the bias.                                                     *)
SpecParse(f, ib, b, ub) ==
  CASE ~f.magic -> Err
    [] f.type \notin {"Exec", "Dyn"} -> Err
    [] InterpCount(f) > 1 -> Err
    [] f.type = "Exec" /\ \E i \in LoadIdx(f) : f.phs[i].vaddr < ub -> Err
    [] f.type = "Exec" -> [ok |-> TRUE, base |-> 0]
    [] OTHER -> [ok |-> TRUE,
                 base |-> (IF InterpCount(f) = 0 THEN ib ELSE 0) + BiasOf(b)]

AuxvValue(f, p, t) == LET v == AuxvVector(f, p) IN v[CHOOSE k \in 1..Len(v) : v[k][1] = t][2]

(* ELFParser::new on anything but an ET_EXEC file (ET_DYN, and the types  *)
(* it refuses) agrees with the parse of the spec: the same success or      *)
(* error, and the same base, bias included.                                *)
DynParseAsSpecified ==
  elf.type # "Exec" => parsed = SpecParse(elf, InterpBase, bias, UspaceBase)

(* Spec 4.7: the program-header table address the parser exposes, and     *)
(* AT_PHDR with it, is where the table lies in the loaded image: inside   *)
(* the PT_LOAD segment that maps file offset e_phoff.                      *)
PhdrIsAddress ==
  parsed.ok =>
    \A i \in LoadIdx(elf) :
      LET h == elf.phs[i] IN
        h.offset <= elf.phoff /\ elf.phoff < h.offset + h.filesz =>
          AuxvValue(elf, parsed, AT_PHDR) = h.vaddr + (elf.phoff - h.offset) + parsed.base

=============================================================================
