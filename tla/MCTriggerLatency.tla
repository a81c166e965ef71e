--------------------------- MODULE MCTriggerLatency ---------------------------
(* TriggerLatency for TLC: all constants are numbers.                      *)
EXTENDS TriggerLatency

===============================================================================
