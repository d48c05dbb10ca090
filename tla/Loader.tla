------------------------------- MODULE Loader -------------------------------
(***************************************************************************)
(* The user-program loading path of kernel-elf-parser, as its test drives *)
(* it (tests/test_static.rs): ELFParser::new, auxv_vector(PAGE_SIZE_4K),  *)
(* then app_stack_region with the program's arguments and environment and *)
(* that auxiliary vector.  Composes ElfInfo and UserStack: the stack is    *)
(* built from the vector of the file just parsed.                           *)
(***************************************************************************)
EXTENDS Naturals, Sequences

CONSTANTS
  Elfs, InterpBase, Biases, NoBias, UspaceBase, PageSize,   \* as in ElfInfo
  UStackTop, ArgSeqs, EnvSeqs                               \* as in UserStack

VARIABLES elf, bias, parsed, args, envs, auxv, built

vars == <<elf, bias, parsed, args, envs, auxv, built>>

Elf == INSTANCE ElfInfo
(* Every vector ELFParser::auxv_vector can return for these files.         *)
ParserAuxvs ==
  {Elf!AuxvVector(f, Elf!ParserNew(f, InterpBase, b, UspaceBase)) : f \in Elfs, b \in Biases}

Stk == INSTANCE UserStack WITH Auxvs <- ParserAuxvs

(* The loader starts from a program it has loaded.                          *)
Init ==
  /\ Elf!Init /\ parsed.ok
  /\ args \in ArgSeqs /\ envs \in EnvSeqs
  /\ auxv = Elf!AuxvVector(elf, parsed)
  /\ built = Stk!AppStackRegion(args, envs, auxv)

(* No stack: the program was not loaded.                                     *)
NoStack == [sp |-> UStackTop, data |-> <<>>, ok |-> FALSE]

(* Load a program: parse it; on success build its stack with the          *)
(* auxiliary vector of the parse.  On a parse error the caller aborts      *)
(* process creation and no stack is built.                                 *)
Load(f, b) ==
  /\ Elf!Parse(f, b)
  /\ IF parsed'.ok
       THEN /\ auxv' = Elf!AuxvVector(f, parsed')
            /\ built' = Stk!AppStackRegion(args, envs, auxv')
       ELSE /\ auxv' = <<>>
            /\ built' = NoStack
  /\ UNCHANGED <<args, envs>>

(* Load the same program again with other arguments.                       *)
SetArgs(as, es) ==
  /\ parsed.ok
  /\ Stk!Build(as, es)
  /\ UNCHANGED <<elf, bias, parsed>>

Next ==
  \/ \E f \in Elfs, b \in Biases : Load(f, b)
  \/ \E as \in ArgSeqs, es \in EnvSeqs : SetArgs(as, es)

Spec == Init /\ [][Next]_vars

-----------------------------------------------------------------------------
(* The properties of ElfInfo and UserStack, over the composition.        *)
DynParseAsSpecified == Elf!DynParseAsSpecified
AbiLayout == Stk!AbiLayout

=============================================================================
