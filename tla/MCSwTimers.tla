----------------------------- MODULE MCSwTimers -----------------------------
(* Two one-shot timers and a periodic one, with intervals that meet: a     *)
(* timer is placed before, between, after and level with the others.       *)
EXTENDS SwTimers, TLC

CONSTANTS a, b, c

MCInterval == [t \in Timers |-> CASE t = a -> 2 [] t = b -> 1 [] OTHER -> 3]
MCMode == [t \in Timers |-> IF t = a THEN "PERIODIC" ELSE "ONESHOT"]
=============================================================================
