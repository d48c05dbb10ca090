------------------------------- MODULE CpuMask -------------------------------
(***************************************************************************)
(* cpumask::CpuMask<SIZE> (vendor/cpumask/src/lib.rs): a set of CPU      *)
(* indices in a bitmap, its constructors and updates, and its double-     *)
(* ended iterator Iter, whose head and tail cursors walk towards each     *)
(* other.  The bitmap (the bitmaps crate) is abstracted to the set of     *)
(* indices whose bit is true; its index searches are the obvious ones     *)
(* (next_index/prev_index look strictly after/before the index).          *)
(*                                                                         *)
(* An Iter borrows the mask, so the mask cannot change while one is       *)
(* alive: phase "build" is ownership, "iter" a live iterator.             *)
(***************************************************************************)
EXTENDS Integers, Sequences, Bitwise

LOCAL Seq_ == INSTANCE SequencesExt

CONSTANTS
  SIZE,      \* the const generic SIZE
  W,         \* bits in a usize
  Profile    \* "debug" (shift overflow panics) or "release" (it wraps)

ASSUME SIZE \in Nat \ {0} /\ W \in Nat \ {0} /\ Profile \in {"debug", "release"}

Idx == 0..SIZE-1
None == -1            \* Option::None of an index
NoValue == -1

VARIABLES
  mask,      \* the indices whose bit is true
  phase,     \* "build", "iter", or "panicked" after a failed assert
  head,      \* Iter.head: None, or the index last returned by next
  tail,      \* Iter.tail: None, or the index last returned by next_back
  front,     \* what next has returned, in order
  back,      \* what next_back has returned, in order
  raw        \* the value of the last from_raw_bits, NoValue otherwise

vars == <<mask, phase, head, tail, front, back, raw>>

-----------------------------------------------------------------------------
(* The bitmap searches behind first_index, last_index, next_index and     *)
(* prev_index.                                                              *)
MinOf(S) == IF S = {} THEN None ELSE CHOOSE i \in S : \A j \in S : i <= j
MaxOf(S) == IF S = {} THEN None ELSE CHOOSE i \in S : \A j \in S : i >= j
FirstIndex(m) == MinOf(m)
LastIndex(m) == MaxOf(m)

(* Mutation: the search includes the index it starts from.                *)
NextIndexInclusive(m, i) == MinOf({j \in m : j >= i})

NextIndex(m, i) == MinOf({j \in m : j > i})
PrevIndex(m, i) == MaxOf({j \in m : j < i})

(* Constructors: new(), full(), mask(bits), one_shot(index).               *)
New == {}
Full == Idx
MaskOf(bits) == 0..bits-1
OneShot(i) == {i}

(* value >> s and 1 << i on a usize: a shift by W or more panics in a     *)
(* debug build and shifts by s % W in a release build.                     *)
ShiftPanics(s) == Profile = "debug" /\ s >= W
ShrW(v, s) == shiftR(v, s % W)
BitW(i) == 2^(i % W)

(* from_raw_bits(value): assert!(value >> SIZE == 0), then set bit i for  *)
(* every i < SIZE with value & (1 << i) != 0.                               *)
FromRawBitsPanics(v) ==
  \/ ShiftPanics(SIZE)
  \/ ShrW(v, SIZE) # 0
  \/ \E i \in Idx : ShiftPanics(i)

(* Mutation: the loop stops one bit early.                                *)
FromRawBitsMaskShort(v) == {i \in 0..SIZE-2 : (v & BitW(i)) # 0}

FromRawBitsMask(v) == {i \in Idx : (v & BitW(i)) # 0}

-----------------------------------------------------------------------------
Init ==
  /\ mask = New
  /\ phase = "build"
  /\ head = None /\ tail = None
  /\ front = <<>> /\ back = <<>>
  /\ raw = NoValue

Update(m) ==
  /\ phase = "build"
  /\ mask' = m
  /\ raw' = NoValue
  /\ UNCHANGED <<phase, head, tail, front, back>>

(* set(index, value); the debug_assert on index < SIZE holds for the      *)
(* indices callers pass.                                                   *)
Set(i, v) == Update(IF v THEN mask \cup {i} ELSE mask \ {i})

(* invert(), and &=, |=, ^= with a mask built by a constructor.            *)
Invert == Update(Idx \ mask)
BitAndAssign(m) == Update(mask \cap m)
BitOrAssign(m) == Update(mask \cup m)
BitXorAssign(m) == Update((mask \ m) \cup (m \ mask))

(* *mask = CpuMask::from_raw_bits(value).                                  *)
FromRawBits(v) ==
  /\ phase = "build"
  /\ IF FromRawBitsPanics(v)
       THEN /\ phase' = "panicked"
            /\ raw' = v
            /\ UNCHANGED mask
       ELSE /\ mask' = FromRawBitsMask(v)
            /\ raw' = v
            /\ UNCHANGED phase
  /\ UNCHANGED <<head, tail, front, back>>

(* (&mask).into_iter(): head None, tail Some(SIZE + 1).                    *)
IntoIter ==
  /\ phase = "build"
  /\ phase' = "iter"
  /\ head' = None /\ tail' = SIZE + 1
  /\ front' = <<>> /\ back' = <<>>
  /\ UNCHANGED <<mask, raw>>

(* Iter::next, returning r.                                               *)
NextCursor(r) ==
  LET result == CASE head = None -> FirstIndex(mask)
                  [] head >= SIZE -> None
                  [] OTHER -> NextIndex(mask, head)
  IN CASE result # None /\ tail # None /\ tail < result ->
              /\ head' = SIZE + 1 /\ tail' = None /\ r = None
       [] result # None /\ tail = None ->
              /\ head' = SIZE + 1 /\ r = None /\ UNCHANGED tail
       [] result # None ->
              /\ head' = result /\ r = result /\ UNCHANGED tail
       [] OTHER ->
              /\ head' = SIZE + 1 /\ r = None /\ UNCHANGED tail

IterNext ==
  /\ phase = "iter"
  /\ \E r \in Idx \cup {None} :
       /\ NextCursor(r)
       /\ front' = IF r = None THEN front ELSE Append(front, r)
  /\ UNCHANGED <<mask, phase, back, raw>>

(* Iter::next_back.                                                        *)
NextBackCursor(r) ==
  LET result == CASE tail = None -> None
                  [] tail >= SIZE -> LastIndex(mask)
                  [] OTHER -> PrevIndex(mask, tail)
  IN CASE result # None /\ head # None /\ head > result ->
              /\ head' = SIZE + 1 /\ tail' = None /\ r = None
       [] result # None ->
              /\ tail' = result /\ r = result /\ UNCHANGED head
       [] OTHER ->
              /\ tail' = None /\ r = None /\ UNCHANGED head

IterNextBack ==
  /\ phase = "iter"
  /\ \E r \in Idx \cup {None} :
       /\ NextBackCursor(r)
       /\ back' = IF r = None THEN back ELSE Append(back, r)
  /\ UNCHANGED <<mask, phase, front, raw>>

(* The iterator is dropped and the mask is owned again.                     *)
DropIter ==
  /\ phase = "iter"
  /\ phase' = "build"
  /\ UNCHANGED <<mask, head, tail, front, back, raw>>

(* A panicked kernel stops.                                                *)
Halted ==
  /\ phase = "panicked"
  /\ UNCHANGED vars

Constructed == {New, Full, OneShot(0), OneShot(SIZE - 1), MaskOf(SIZE - 1)}

Next ==
  \/ \E i \in Idx, v \in BOOLEAN : Set(i, v)
  \/ Invert
  \/ \E m \in Constructed : BitAndAssign(m) \/ BitOrAssign(m) \/ BitXorAssign(m)
  \/ \E v \in 0..2^W-1 : FromRawBits(v)
  \/ IntoIter
  \/ IterNext
  \/ IterNextBack
  \/ DropIter
  \/ Halted

Spec == Init /\ [][Next]_vars

-----------------------------------------------------------------------------
Ascending(S) == Seq_!SetToSortSeq(S, <)
Descending(S) == Seq_!SetToSortSeq(S, >)
IsPrefix(p, s) == Len(p) <= Len(s) /\ p = SubSeq(s, 1, Len(p))

(* An iterator used from one end only yields the true indices in order,   *)
(* ascending from next and descending from next_back, each once, and      *)
(* yields all of them before it returns None (the doc example of Iter:    *)
(* [3, 5, 8]).                                                             *)
OneEndedIteration ==
  phase = "iter" =>
    /\ back = <<>> =>
         /\ IsPrefix(front, Ascending(mask))
         /\ head = SIZE + 1 => front = Ascending(mask)
    /\ front = <<>> =>
         /\ IsPrefix(back, Descending(mask))
         /\ tail = None => back = Descending(mask)

(* from_raw_bits(value), as its doc comment says: it panics exactly when  *)
(* value >= 2^SIZE, and otherwise the mask holds bit i iff bit i of value  *)
(* is set.                                                                 *)
FromRawBitsAsDocumented ==
  raw # NoValue =>
    /\ (phase = "panicked") <=> (raw >= 2^SIZE)
    /\ phase # "panicked" => mask = {i \in Idx : (raw \div 2^i) % 2 = 1}

(* A double-ended iterator yields every element once: next and next_back  *)
(* work on the same range and stop where they meet (the contract of        *)
(* DoubleEndedIterator that Iter implements).                             *)
EachIndexOnce ==
  phase = "iter" =>
    /\ Seq_!ToSet(front) \cap Seq_!ToSet(back) = {}
    /\ Seq_!IsInjective(front) /\ Seq_!IsInjective(back)

=============================================================================
