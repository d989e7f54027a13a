------------------------------ MODULE PulseIn ------------------------------
(***************************************************************************)
(* pulseIn() (arduino/api/wiring_pulse.c): the length of a pulse measured  *)
(* by polling micros() and the pin.  Each loop reads the time, then the    *)
(* pin; the time may advance and the pin may change before, between and    *)
(* after, at most MaxGap microseconds between two steps of the code.       *)
(***************************************************************************)
EXTENDS Integers

CONSTANTS Word,       \* micros() counts modulo Word, 2^32 in the code
          Starts,     \* values of micros() at the call
          PulseTimeouts,   \* values of the parameter
          MaxGap,     \* bound on the time between two steps of the code
          MinPulse,   \* levels last at least this long, longer than two gaps
          MaxNow      \* bound on the time a behaviour takes

ASSUME PulseAssumption ==
    /\ Word \in Nat /\ Starts \subseteq 0..(Word - 1) /\ PulseTimeouts \subseteq Nat
    /\ MaxGap \in Nat \ {0} /\ MinPulse \in Nat /\ MinPulse > 2 * MaxGap
    /\ MaxNow \in Nat /\ MaxNow < Word

VARIABLES where, init_time, curr_time, max_time, pin_state, returned,
          pin,        \* does the pin have the state asked for?
          now,        \* time since the call
          called, timeout_us,     \* of the call
          \* history
          gap,        \* time since the last step of the code
          since,      \* when the pin took its level
          pulse       \* length of the last whole pulse, 0 for none

code == <<where, init_time, curr_time, max_time, pin_state, returned>>
pulseVars == <<code, pin, now, called, timeout_us, gap, since, pulse>>

microsNow == (called + now) % Word

PulseInit ==
    /\ called \in Starts /\ timeout_us \in PulseTimeouts /\ pin \in BOOLEAN
    /\ where = "previous.pin" /\ init_time = called /\ curr_time = called
    /\ max_time = (called + timeout_us) % Word
    /\ pin_state = FALSE /\ returned = -1
    /\ now = 0 /\ gap = 0 /\ since = 0 /\ pulse = 0

-----------------------------------------------------------------------------
Loop(p) == CASE p = "previous" -> pin_state [] p = "start" -> ~pin_state [] p = "stop" -> pin_state

Continues(p) == Loop(p) /\ curr_time < max_time

(* A turn of a loop, first half: the time; in the second loop it is also   *)
(* where the pulse begins.                                                 *)
InitOnce(p) == init_time

InitTime(p) == IF p = "start" THEN microsNow ELSE init_time

ReadTime(p, next) ==
    /\ where = p /\ Continues(p)
    /\ curr_time' = microsNow /\ init_time' = InitTime(p)
    /\ where' = next /\ gap' = 0
    /\ UNCHANGED <<max_time, pin_state, returned, pin, now, called, timeout_us, since, pulse>>

(* Second half: the pin. *)
ReadPin(p, loop) ==
    /\ where = p
    /\ pin_state' = pin /\ where' = loop /\ gap' = 0
    /\ UNCHANGED <<init_time, curr_time, max_time, returned, pin, now, called, timeout_us, since, pulse>>

NextLoop(p, next) ==
    /\ where = p /\ ~Continues(p)
    /\ where' = next
    /\ UNCHANGED <<init_time, curr_time, max_time, pin_state, returned, pin, now, called, timeout_us,
                   gap, since, pulse>>

PulseReturn ==
    /\ where = "stop" /\ ~Continues("stop")
    /\ where' = "done"
    /\ returned' = IF curr_time < max_time THEN (curr_time - init_time) % Word ELSE 0
    /\ UNCHANGED <<init_time, curr_time, max_time, pin_state, pin, now, called, timeout_us, gap,
                   since, pulse>>

-----------------------------------------------------------------------------
(* Time passes, and the pin may change as it does.  How long its level at  *)
(* the call had lasted nobody knows: it counts as no pulse.                *)
Tick(change) ==
    /\ where # "done" /\ gap < MaxGap /\ now < MaxNow
    /\ change => (since = 0 \/ now + 1 - since >= MinPulse)
    /\ now' = now + 1 /\ gap' = gap + 1
    /\ pin' = (IF change THEN ~pin ELSE pin)
    /\ since' = (IF change THEN now + 1 ELSE since)
    /\ pulse' = (IF change /\ pin /\ since # 0 THEN now + 1 - since ELSE pulse)
    /\ UNCHANGED <<code, called, timeout_us>>

PulseNext ==
    \/ ReadTime("previous", "previous.pin") \/ ReadPin("previous.pin", "previous")
    \/ NextLoop("previous", "start")
    \/ ReadTime("start", "start.pin") \/ ReadPin("start.pin", "start")
    \/ NextLoop("start", "stop")
    \/ ReadTime("stop", "stop.pin") \/ ReadPin("stop.pin", "stop")
    \/ PulseReturn
    \/ \E change \in BOOLEAN : Tick(change)

PulseSpec == PulseInit /\ [][PulseNext]_pulseVars

-----------------------------------------------------------------------------
PulseTypeOK ==
    /\ where \in {"previous", "previous.pin", "start", "start.pin", "stop", "stop.pin", "done"}
    /\ {init_time, curr_time, max_time} \subseteq 0..(Word - 1)
    /\ pin_state \in BOOLEAN /\ pin \in BOOLEAN /\ returned \in -1..(Word - 1)
    /\ now \in 0..MaxNow /\ gap \in 0..MaxGap /\ since \in 0..now /\ pulse \in 0..now

(* A length that pulseIn() returns is the length of the last pulse, as     *)
(* exact as polling allows: one gap at each end.  Neither the pulse under  *)
(* way at the call nor one of the other level is ever measured, and        *)
(* micros() may wrap.                                                      *)
Measured ==
    (where = "done" /\ returned # 0) =>
        returned - pulse \in (-2 * MaxGap)..(2 * MaxGap) /\ pulse # 0

(* Unless init_time + timeout wraps or comes so close that the clock may,  *)
(* pulseIn() gives up after the timeout and at most four gaps more, and    *)
(* never sooner.                                                           *)
GivesUpOnTime ==
    (called + timeout_us + 4 * MaxGap < Word) =>
        /\ now <= timeout_us + 4 * MaxGap
        /\ (where = "done" /\ returned = 0) => now >= timeout_us

(* pulseIn() answers with the pulse or in time. *)
PulseRight == Measured /\ GivesUpOnTime
=============================================================================
