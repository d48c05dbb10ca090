------------------------------ MODULE MCElfInfo ------------------------------
(* ELF files made of up to three program headers from a small set: one    *)
(* PT_INTERP, a text segment below the user-space base (vaddr 0), a text  *)
(* segment at it, and a data segment above.  The header table lies at     *)
(* file offset 64 as in a real file, inside the text segments.            *)
EXTENDS ElfInfo

Interp == [type |-> "Interp", vaddr |-> 8192, offset |-> 4096, filesz |-> 28,
           memsz |-> 28, flags |-> {"R"}]
TextLow == [type |-> "Load", vaddr |-> 0, offset |-> 0, filesz |-> 4096,
            memsz |-> 4096, flags |-> {"R", "X"}]
Text == [type |-> "Load", vaddr |-> 4096, offset |-> 0, filesz |-> 4096,
         memsz |-> 4096, flags |-> {"R", "X"}]
Data == [type |-> "Load", vaddr |-> 12288, offset |-> 4096, filesz |-> 100,
         memsz |-> 512, flags |-> {"R", "W"}]

MCHeaderLists == UNION {[1..n -> {Interp, TextLow, Text, Data}] : n \in 0..3}

MCElfs ==
  {[magic |-> TRUE, type |-> t, entry |-> 4200, phoff |-> 64, phent |-> 56,
    phs |-> hs] : t \in {"Exec", "Dyn", "Rel"}, hs \in MCHeaderLists}
  \cup {[magic |-> FALSE, type |-> "Exec", entry |-> 4200, phoff |-> 64,
         phent |-> 56, phs |-> <<Text>>]}

MCBiases == {NoBias, 65536}
=============================================================================
