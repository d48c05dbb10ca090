--------------------------- MODULE MCHandlerTable ---------------------------
(* Two cores and two handlers on a table of two slots; cause 2 is out of  *)
(* range, so every early return of the three methods is reached.           *)
EXTENDS HandlerTable

CONSTANTS c1, c2, h1, h2

MCCpus == {c1, c2}
MCHandlers == {h1, h2}
=============================================================================
