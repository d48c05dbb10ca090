------------------------------- MODULE MCLoader -------------------------------
(* The files of MCElfInfo with at most two program headers; one or two    *)
(* arguments and zero or one environment string, of length 0 or 4, so    *)
(* both parities of args + envs and the empty string occur.              *)
EXTENDS Loader

Interp == [type |-> "Interp", vaddr |-> 8192, offset |-> 4096, filesz |-> 28,
           memsz |-> 28, flags |-> {"R"}]
TextLow == [type |-> "Load", vaddr |-> 0, offset |-> 0, filesz |-> 4096,
            memsz |-> 4096, flags |-> {"R", "X"}]
Text == [type |-> "Load", vaddr |-> 4096, offset |-> 0, filesz |-> 4096,
         memsz |-> 4096, flags |-> {"R", "X"}]
Data == [type |-> "Load", vaddr |-> 12288, offset |-> 4096, filesz |-> 100,
         memsz |-> 512, flags |-> {"R", "W"}]

MCHeaderLists == UNION {[1..n -> {Interp, TextLow, Text, Data}] : n \in 0..2}

MCElfs ==
  {[magic |-> TRUE, type |-> t, entry |-> 4200, phoff |-> 64, phent |-> 56,
    phs |-> hs] : t \in {"Exec", "Dyn", "Rel"}, hs \in MCHeaderLists}
  \cup {[magic |-> FALSE, type |-> "Exec", entry |-> 4200, phoff |-> 64,
         phent |-> 56, phs |-> <<Text>>]}

MCBiases == {NoBias, 65536}

MCArgs == {<<4>>, <<0, 4>>}
MCEnvs == {<<>>, <<4>>, <<0>>}
=============================================================================
