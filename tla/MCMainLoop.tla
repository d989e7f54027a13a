----------------------------- MODULE MCMainLoop -----------------------------
(***************************************************************************)
(* What the main loop shares with an interrupt, for TLC: the timers in     *)
(* real time, one periodic and a one-shot one of a shorter interval, and   *)
(* the UART.  They share no state: a behaviour exercises one of them, and  *)
(* the other stays in its initial state.                                   *)
(***************************************************************************)
EXTENDS SwTimersRealTime, SerialUart

CONSTANTS a, b

MCInterval == [t \in Timers |-> IF t = a THEN 3 ELSE 2]
MCMode == [t \in Timers |-> IF t = a THEN "PERIODIC" ELSE "ONESHOT"]

VARIABLE active

MainLoopInit ==
    /\ active \in {"SwTimersRealTime", "SerialUart"}
    /\ RealTimeInit /\ UartInit

MainLoopNext ==
    /\ UNCHANGED active
    /\ \/ active = "SwTimersRealTime" /\ RealTimeNext /\ UNCHANGED uartVars
       \/ active = "SerialUart" /\ UartNext /\ UNCHANGED realTimeVars

MainLoopSpec ==
    /\ MainLoopInit /\ [][MainLoopNext]_<<active, realTimeVars, uartVars>>
    /\ UartFairness
=============================================================================
