----------------------------- MODULE MCLoongIrq -----------------------------
(* Two cores, the kernel's timer callback and one driver handler.         *)
EXTENDS LoongIrq

CONSTANTS c1, c2, tick, drv

MCCpus == {c1, c2}
MCHandlers == {tick, drv}
=============================================================================
