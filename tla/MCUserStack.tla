----------------------------- MODULE MCUserStack -----------------------------
(* Up to two arguments and two environment variables, each of length 0, 3 *)
(* or 4, so both parities of args + envs and every string padding occur.  *)
(* The auxiliary vector is the one ELFParser::auxv_vector returns, in its  *)
(* order, with a distinct value for every entry that is not back-patched. *)
EXTENDS UserStack

MCStrLens == {0, 3, 4}
MCLists == UNION {[1..n -> MCStrLens] : n \in 0..2}

MCAuxvTypes == <<3, 4, 5, 6, 7, 8, 9, 16, 17, 15, 11, 12, 13, 14, 25, 31, 0>>
MCAuxv == [i \in 1..17 |-> <<MCAuxvTypes[i],
                             IF MCAuxvTypes[i] \in {25, 31, 0} THEN 0 ELSE 100 + i>>]
MCAuxvs == {MCAuxv}
=============================================================================
