-------------------------- MODULE SwTimersRealTime --------------------------
(***************************************************************************)
(* When the timers of SwTimers expire in real time.  The main loop calls   *)
(* swTimerTaskHandler once in every pass (addProcess in arduino.cpp), and  *)
(* a pass takes at most LoopTime from one call to the next, callbacks and  *)
(* all other processes included.                                           *)
(*                                                                         *)
(* Two things move an expiry away from its interval.  oldTime is written   *)
(* only while some timer runs, so that a timer started after an idle       *)
(* period is charged all of that period by the handler's next run; and the *)
(* handler looks only once in a pass.  The variables added here are        *)
(* history, except ran, which bounds the passes.                           *)
(***************************************************************************)
EXTENDS SwTimers

CONSTANT LoopTime

ASSUME LoopTimeAssumption == LoopTime \in Nat \ {0}

VARIABLES ran,       \* now when the handler was last called
          started,   \* now when swTimerStart was last called
          charged    \* the time already gone by then that the timer will be charged

realTimeVars == <<vars, ran, started, charged>>

RealTimeInit ==
    /\ Init
    /\ ran = 0 /\ started = [t \in Timers |-> 0] /\ charged = [t \in Timers |-> 0]

(* Not handed out yet: what the handler holds, and what has passed since   *)
(* it last wrote oldTime.                                                  *)
NotHandedOut == elapsed + (now - oldNow)

(* The handler's early return: no timer runs, or millis() has not moved.   *)
HandlerIdle ==
    /\ pc = "main"
    /\ sTimers = <<>> \/ (millis - oldTime) % WORD = 0
    /\ ran' = now
    /\ UNCHANGED <<vars, started, charged>>

Step ==
    /\ Next
    /\ now' > now => now - ran < LoopTime
    /\ ran' = IF pc = "main" /\ pc' = "sync" THEN now ELSE ran
    /\ LET starting == {t \in Timers : Client /\ pc' = "place" /\ ptimer' = t} IN
       /\ started' = [t \in Timers |-> IF t \in starting THEN now ELSE started[t]]
       /\ charged' = [t \in Timers |-> IF t \in starting THEN NotHandedOut ELSE charged[t]]

RealTimeNext == Step \/ HandlerIdle

RealTimeSpec == RealTimeInit /\ [][RealTimeNext]_realTimeVars

(* A timer never expires earlier than its interval by more than the time   *)
(* that was not handed out when it was started: by the whole idle period   *)
(* if no timer ran before it, and not at all if the handler has just run.  *)
EarlyAtMostByCharge ==
    [][HandlerExpire =>
        LET t == Head(sTimers) IN now - started[t] >= Interval[t] - charged[t]]_realTimeVars

(* Nor does it expire late by more than two passes and the milliseconds    *)
(* lost between the two reads of millis(): the pass in which it fell due   *)
(* or, if the charge had put that before its start, was started, and the   *)
(* one whose handler finds it.  However many timers expire in one run and  *)
(* whatever their callbacks start.                                         *)
LateAtMostTwoPasses ==
    [][HandlerExpire =>
        LET t == Head(sTimers) IN
        \/ now <= deadline[t] + lost + 2 * LoopTime
        \/ now <= started[t] + 2 * LoopTime]_realTimeVars
=============================================================================
