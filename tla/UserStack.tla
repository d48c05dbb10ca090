------------------------------ MODULE UserStack ------------------------------
(***************************************************************************)
(* The initial user stack built by kernel-elf-parser (user_stack.rs,      *)
(* init_stack and app_stack_region), checked against the System V layout  *)
(* it is meant to produce (spec 4.7 and 8).                                *)
(*                                                                         *)
(* The buffer is kept as the sequence of pieces init_stack pushes, lowest  *)
(* address first, as stack_data.splice(0..0, ..) prepends them.  A string  *)
(* is abstracted to its length and to which argument or environment       *)
(* variable it is; a pointer-sized value is one piece of 8 bytes; the      *)
(* random seed and the padding are pieces of their size.                   *)
(***************************************************************************)
EXTENDS Integers, Sequences

CONSTANTS
  UStackTop,  \* stack_base + stack_size, the highest address of the stack
  Auxvs,      \* auxiliary vectors the loader passes: sequences of <<type, value>>
  ArgSeqs,    \* the argument lists to build stacks for (sequences of lengths)
  EnvSeqs     \* the environment lists (sequences of lengths)

WordSize == 8
AT_RANDOM == 25
AT_EXECFN == 31
AT_NULL == 0

(* A piece of the buffer: size bytes holding what, a tuple tagged with    *)
(* its kind.                                                               *)
Piece(size, what) == [size |-> size, what |-> what]
Word(v) == Piece(WordSize, <<"word", v>>)
Zeros(n) == Piece(n, <<"zero">>)

VARIABLES
  args,       \* the argument list of the stack last built
  envs,       \* its environment list
  auxv,       \* the auxiliary vector it was given, before back-patching
  built       \* what init_stack returned: [sp, data, ok], ok FALSE on a panic

vars == <<args, envs, auxv, built>>

-----------------------------------------------------------------------------
(* UserStack::new(sp) and UserStack::push: sp -= len, and the bytes go in *)
(* front of the buffer.                                                    *)
NewStack(sp) == [sp |-> sp, data |-> <<>>]

Push(st, p) == [sp |-> st.sp - p.size, data |-> <<p>> \o st.data]

(* Mutation: push_usize_slice pushes the slice from its first element.   *)
RECURSIVE PushUsizeSliceForward(_, _)
PushUsizeSliceForward(st, ws) ==
  IF ws = <<>> THEN st ELSE PushUsizeSliceForward(Push(st, Word(Head(ws))), Tail(ws))

(* push_usize_slice: the values are pushed last to first, so the slice    *)
(* ends up in memory in its own order.                                     *)
RECURSIVE PushUsizeSlice(_, _)
PushUsizeSlice(st, ws) ==
  IF ws = <<>> THEN st
  ELSE PushUsizeSlice(Push(st, Word(ws[Len(ws)])), SubSeq(ws, 1, Len(ws) - 1))

(* push_str: a NUL, then the bytes of the string just below it; the       *)
(* string's address is the new sp.  The .map(..).collect() over a list    *)
(* pushes each string in turn and collects their addresses.               *)
RECURSIVE PushStrs(_, _, _, _)
PushStrs(st, kind, lens, i) ==
  IF i > Len(lens) THEN [st |-> st, addrs |-> <<>>]
  ELSE LET s == Push(Push(st, Zeros(1)), Piece(lens[i], <<kind, i>>))
           rest == PushStrs(s, kind, lens, i + 1)
       IN [st |-> rest.st, addrs |-> <<s.sp>> \o rest.addrs]

(* The back-patching loop: AT_RANDOM gets the seed's address and          *)
(* AT_EXECFN argv_slice[0], an index that panics on an empty list.        *)
PatchAuxv(aux, randomPos, argv) ==
  [i \in 1..Len(aux) |->
     IF aux[i][1] = AT_RANDOM THEN <<AT_RANDOM, randomPos>>
     ELSE IF aux[i][1] = AT_EXECFN THEN <<AT_EXECFN, argv[1]>>
     ELSE aux[i]]

AuxvWords(aux) == [k \in 1..2 * Len(aux) |-> aux[(k + 1) \div 2][2 - (k % 2)]]

(* init_stack(args, envs, auxv, sp), top to bottom.                        *)
InitStack(as, es, aux, sp) ==
  LET s1 == Push(NewStack(sp), Piece(16, <<"random">>))
      e  == PushStrs(s1, "env", es, 1)
      a  == PushStrs(e.st, "arg", as, 1)
      s2 == Push(a.st, Zeros(8))
      s3 == Push(s2, Zeros(s2.sp % 16))
      s4 == PushUsizeSlice(s3, AuxvWords(PatchAuxv(aux, s1.sp, a.addrs)))
      s5 == PushUsizeSlice(Push(s4, Zeros(8)), e.addrs)
      s6 == PushUsizeSlice(Push(s5, Zeros(8)), a.addrs)
      s7 == PushUsizeSlice(s6, <<Len(as)>>)
  IN IF as = <<>> \/ s3.sp % 16 # 0   \* argv_slice[0] or the assert panics
       THEN [sp |-> sp, data |-> <<>>, ok |-> FALSE]
       ELSE [sp |-> s7.sp, data |-> s7.data, ok |-> TRUE]

(* app_stack_region: ustack_top = stack_base + stack_size, no check that  *)
(* the frame fits in stack_size.                                           *)
AppStackRegion(as, es, aux) == InitStack(as, es, aux, UStackTop)

Init ==
  /\ args \in ArgSeqs
  /\ envs \in EnvSeqs
  /\ auxv \in Auxvs
  /\ built = AppStackRegion(args, envs, auxv)

(* The loader builds the stack of the next program.                        *)
Build(as, es) ==
  /\ args' = as /\ envs' = es
  /\ built' = AppStackRegion(as, es, auxv)
  /\ UNCHANGED auxv

Next == \E as \in ArgSeqs, es \in EnvSeqs : Build(as, es)

Spec == Init /\ [][Next]_vars

-----------------------------------------------------------------------------
(* Reading the built buffer back: the address of each piece, the word     *)
(* stored at an address, and what a pointer points at.                      *)
RECURSIVE SizeSum(_)
SizeSum(ps) == IF ps = <<>> THEN 0 ELSE Head(ps).size + SizeSum(Tail(ps))

NoValue == -1

(* The buffer as a map from address to the piece stored there; of the     *)
(* pieces at one address (a string and the NUL pushed above it, or the   *)
(* empty alignment padding) the lowest in the buffer, skipping empty      *)
(* padding but not the empty string.                                      *)
Memory(b) ==
  LET addr == [j \in 1..Len(b.data) |-> b.sp + SizeSum(SubSeq(b.data, 1, j - 1))]
      js == {j \in 1..Len(b.data) : b.data[j].size > 0 \/ b.data[j].what[1] \in {"arg", "env"}}
  IN [a \in {addr[j] : j \in js} |->
        b.data[CHOOSE j \in js : addr[j] = a /\ \A k \in js : addr[k] = a => j <= k]]

PieceAt(m, a) == IF a \in DOMAIN m THEN m[a] ELSE Piece(0, <<"none">>)

WordAt(m, a) ==
  LET p == PieceAt(m, a) IN
    CASE p.size = WordSize /\ p.what[1] = "zero" -> 0
      [] p.size = WordSize /\ p.what[1] = "word" -> p.what[2]
      [] OTHER -> NoValue

(* The System V initial stack, read upward from the final sp (spec 4.7,   *)
(* and the spec 8 scenario): argc; argv pointers, each to its argument    *)
(* string, then NULL; envp pointers, each to its string, then NULL; the   *)
(* auxiliary vector in order, AT_RANDOM pointing at the 16 seed bytes and *)
(* AT_EXECFN at argv[0].  Holds for every stack built without panicking.  *)
AbiLayout ==
  built.ok =>
    LET m == Memory(built)
        W(k) == WordAt(m, built.sp + WordSize * k)   \* the k-th word above sp
        argc == Len(args)
        envc == Len(envs)
        aux0 == argc + envc + 3
    IN /\ W(0) = argc
       /\ \A i \in 1..argc : PieceAt(m, W(i)).what = <<"arg", i>>
       /\ W(argc + 1) = 0
       /\ \A i \in 1..envc : PieceAt(m, W(argc + 1 + i)).what = <<"env", i>>
       /\ W(argc + envc + 2) = 0
       /\ \A k \in 1..Len(auxv) :
            /\ W(aux0 + 2 * (k - 1)) = auxv[k][1]
            /\ CASE auxv[k][1] = AT_RANDOM ->
                      PieceAt(m, W(aux0 + 2 * k - 1)).what = <<"random">>
                 [] auxv[k][1] = AT_EXECFN ->
                      PieceAt(m, W(aux0 + 2 * k - 1)).what = <<"arg", 1>>
                 [] OTHER -> W(aux0 + 2 * k - 1) = auxv[k][2]

(* Spec 8: for all built stacks, the stack pointer handed to the program  *)
(* (the top of the returned buffer) is a multiple of 16.                   *)
SpAligned == built.ok => built.sp % 16 = 0

=============================================================================
