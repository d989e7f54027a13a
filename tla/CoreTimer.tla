------------------------------ MODULE CoreTimer ------------------------------
(***************************************************************************)
(* The core timer of arduino/cores/EFM/wiring.c: a free running counter    *)
(* whose compare interrupt, CoreTimerHandler, counts milliseconds and sets *)
(* the next compare value from the moment it runs, not from the moment it  *)
(* was due.  millis(), micros(), the delays and the countdown Timeout are  *)
(* read by the sketch between interrupts.                                  *)
(*                                                                         *)
(* Other interrupt handlers and critical sections may make the handler     *)
(* late by up to MaxLatency ticks of the counter, which may be more than a *)
(* millisecond: SoftwareSerial::write() masks the interrupts for the ten   *)
(* bits of a frame, 1.04 ms at 9600 baud.                                  *)
(***************************************************************************)
EXTENDS Integers

CONSTANTS T,          \* CORE_TIMER_INTERRUPT_TICKS
          U,          \* CORE_TIMER_TICKS_PER_MICROSECOND
          K,          \* microseconds per millisecond
          WORD32,     \* the range of uint32_t
          MaxLatency, \* how late the handler may run
          MaxWait,    \* bound: the longest delay asked for
          MaxTicks    \* bound: how long the counter runs

ASSUME CoreTimerAssumption ==
    /\ K \in Nat \ {0} /\ U \in Nat \ {0} /\ T = K * U
    /\ MaxLatency \in Nat
    /\ WORD32 \in Nat /\ WORD32 > 2 * T /\ WORD32 >= T + MaxLatency + U
    /\ MaxWait \in 0..(WORD32 - 1) /\ MaxTicks \in Nat

VARIABLES
    ticks,         \* ticks since reset; ReadCoreTimer() is ticks % WORD32
    compare,       \* the compare register
    ctif,          \* the interrupt flag
    gMillis, gOldCoreTime, Timeout,
    doing,            \* what the sketch does
    arg, start,    \* its argument and its startTime
    ms,            \* history: milliseconds counted, without wrapping
    runs,          \* history: how often the handler has run
    oldTicks,      \* history: ticks when it ran last
    began,         \* history: ticks when the sketch's delay began
    back           \* history: has micros() stepped back since?

timer  == <<compare, ctif, gMillis, gOldCoreTime, Timeout>>
sketch == <<doing, arg, start, began>>
hist   == <<ms, runs, oldTicks, back>>
coreVars   == <<ticks, timer, sketch, hist>>

ReadCoreTimer == ticks % WORD32

millis == gMillis

(* The microseconds since the handler ran, rounded to the nearest one. *)
SinceHandler(elapsed) == ((elapsed + U \div 2) % WORD32) \div U

micros == (millis * K + SinceHandler((ReadCoreTimer - gOldCoreTime) % WORD32)) % WORD32

(* What micros() would return if it did not wrap. *)
Micros == ms * K + SinceHandler(ticks - oldTicks)

CoreInit ==
    /\ ticks = 0 /\ compare = T /\ ctif = FALSE
    /\ gMillis = 0 /\ gOldCoreTime = 0 /\ Timeout = 0
    /\ doing = "idle" /\ arg = 0 /\ start = 0 /\ began = 0
    /\ ms = 0 /\ runs = 0 /\ oldTicks = 0 /\ back = FALSE

-----------------------------------------------------------------------------
(* The loops of the delays. *)
MillisPassedSigned == IF millis < start THEN 0 ELSE millis - start

MillisPassed == (millis - start) % WORD32

MicrosPassed == (micros - start) % WORD32

(* The loop's condition fails. *)
DelayDone ==
    \/ doing = "ms" /\ MillisPassed >= arg
    \/ doing = "us" /\ MicrosPassed >= arg
    \/ doing = "timeout" /\ Timeout = 0

(* A delay that is over is noticed within a millisecond: its loop does     *)
(* nothing but poll, and only interrupts take time from it.                *)
Overdue ==
    /\ DelayDone
    /\ ticks - began >= T + MaxLatency + IF doing = "us" THEN arg * U ELSE arg * (T + MaxLatency)

-----------------------------------------------------------------------------
(* The counter. *)
Count ==
    /\ ticks < MaxTicks /\ ~Overdue
    /\ ticks < oldTicks + T + MaxLatency
    /\ ticks' = ticks + 1
    /\ ctif' = (ctif \/ (ticks + 1) % WORD32 = compare)
    /\ UNCHANGED <<compare, gMillis, gOldCoreTime, Timeout, sketch, hist>>

(* Whole milliseconds since the handler ran; what is left over is lost. *)
Increment(elapsed) == elapsed \div T

NextCompareFromOld == (gOldCoreTime + T) % WORD32

NextCompare == (ReadCoreTimer + T) % WORD32

CountDown(inc) == IF Timeout - inc < 0 THEN 0 ELSE Timeout - inc

CoreTimerHandler ==
    LET inc == Increment((ReadCoreTimer - gOldCoreTime) % WORD32) IN
    /\ ctif
    /\ gMillis' = (gMillis + inc) % WORD32
    /\ Timeout' = CountDown(inc)
    /\ compare' = NextCompare
    /\ ctif' = FALSE
    /\ gOldCoreTime' = ReadCoreTimer
    /\ ms' = ms + inc /\ runs' = runs + 1 /\ oldTicks' = ticks
    /\ back' = (back \/ (doing = "us" /\ inc * K < SinceHandler(ticks - oldTicks)))
    /\ UNCHANGED <<ticks, sketch>>

-----------------------------------------------------------------------------
(* The sketch. *)
Call(op, n, now) ==
    /\ doing = "idle"
    /\ doing' = op /\ arg' = n /\ start' = now
    /\ began' = ticks /\ back' = FALSE
    /\ UNCHANGED <<ticks, compare, ctif, gMillis, gOldCoreTime, ms, runs, oldTicks>>

delay(n) == Call("ms", n, millis) /\ UNCHANGED Timeout

delayMicroseconds(n) == Call("us", n, micros) /\ UNCHANGED Timeout

(* Timeout = n; ... while (Timeout); *)
SetTimeout(n) == Call("timeout", n, 0) /\ Timeout' = n

DelayReturn ==
    /\ DelayDone
    /\ doing' = "idle" /\ arg' = 0 /\ start' = 0
    /\ began' = 0 /\ back' = FALSE
    /\ UNCHANGED <<ticks, timer, ms, runs, oldTicks>>

-----------------------------------------------------------------------------
CoreNext ==
    \/ Count
    \/ CoreTimerHandler
    \/ \E n \in 0..MaxWait : delay(n) \/ delayMicroseconds(n) \/ SetTimeout(n)
    \/ DelayReturn

CoreSpec == CoreInit /\ [][CoreNext]_coreVars

-----------------------------------------------------------------------------
CoreTypeOK ==
    /\ ticks \in Nat /\ compare \in 0..(WORD32 - 1) /\ ctif \in BOOLEAN
    /\ gMillis \in 0..(WORD32 - 1) /\ gOldCoreTime \in 0..(WORD32 - 1) /\ Timeout \in Nat
    /\ doing \in {"idle", "ms", "us", "timeout"} /\ arg \in 0..MaxWait /\ start \in 0..(WORD32 - 1)
    /\ {ms, runs, oldTicks, began} \subseteq Nat /\ back \in BOOLEAN

(* millis() is never ahead of the counter, and falls behind by no more     *)
(* than the handler was late, summed over its runs: each late run loses    *)
(* its remainder, for CoreTimerHandler starts the next millisecond when it *)
(* runs.                                                                   *)
MillisLag == oldTicks - ms * T \in 0..(runs * MaxLatency)

(* The interrupt comes at least once every T + MaxLatency ticks, for ever: *)
(* the compare value is ahead of the counter or the flag is set.           *)
NextTickComes == ctif <=> ticks >= oldTicks + T

(* The whole milliseconds by which the handler may be late. *)
MillisLate == MaxLatency \div T

(* delay(n) and a countdown from n last at least n - 1 milliseconds, and   *)
(* go on waiting no longer than n milliseconds, each stretched by the      *)
(* latency; across the wrap of both counters.  A handler a millisecond or  *)
(* more late counts the milliseconds it owes at once, those before the     *)
(* call included: a delay may end that many milliseconds early.            *)
DelayWindow ==
    doing \in {"ms", "timeout"} =>
        IF DelayDone THEN ticks - began >= (arg - 1 - MillisLate) * T
                ELSE ticks - began <= arg * (T + MaxLatency)

(* micros() never runs ahead of the counter by more than its rounding.     *)
MicrosNotAhead == Micros * U <= ticks + U \div 2

(* micros() steps back only across the interrupt, and by no more than the  *)
(* handler's latency, rounded.                                             *)
MicrosStepsBack ==
    [][Micros' < Micros =>
         /\ runs' > runs
         /\ Micros - Micros' <= (MaxLatency + U \div 2) \div U]_coreVars

(* delayMicroseconds(n) lasts more than n - 1 microseconds, unless         *)
(* micros() has stepped back since it began: only then may the unsigned    *)
(* difference be huge and the delay end early.                             *)
MicroDelayHolds ==
    (doing = "us" /\ DelayDone /\ arg > 0) => back \/ ticks - began > (arg - 1) * U

(* millis() and micros() keep time with the counter, through late          *)
(* interrupts and the wrap of both counters.                               *)
TimeKept ==
    [][MillisLag' /\ NextTickComes' /\ MicrosNotAhead']_coreVars /\ MicrosStepsBack

(* No delay ends before its time, but for the steps back of micros(), or   *)
(* goes on after it.                                                       *)
DelaysHold == DelayWindow /\ MicroDelayHolds
=============================================================================
