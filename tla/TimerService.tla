---------------------------- MODULE TimerService ----------------------------
(***************************************************************************)
(* What the software timers of src/src/SYS_Timers promise, without the     *)
(* delta list: a set of armed timers, each with an absolute due time on    *)
(* the service's own clock.  The clock never jumps over a due time, and a  *)
(* timer expires only when nothing armed is due before it.                 *)
(***************************************************************************)
EXTENDS Integers

CONSTANTS Timers,    \* the timer objects
          Interval   \* their intervals, in milliseconds

VARIABLES clock,     \* the time the service has accounted for
          armed,     \* the timers that are started
          due        \* due[t]: when t expires, meaningful while t is armed

svars == <<clock, armed, due>>

Init ==
    /\ clock = 0
    /\ armed = {}
    /\ due = [t \in Timers |-> 0]

(* A stopped timer is started: it is due one interval from now. *)
Arm(t) ==
    /\ t \notin armed
    /\ armed' = armed \cup {t}
    /\ due' = [due EXCEPT ![t] = clock + Interval[t]]
    /\ UNCHANGED clock

(* A started timer is stopped; the due times of the others do not move. *)
Disarm(t) ==
    /\ t \in armed
    /\ armed' = armed \ {t}
    /\ UNCHANGED <<clock, due>>

(* The clock reaches the earliest due time and that timer expires. *)
Expire(t) ==
    /\ t \in armed
    /\ due[t] >= clock
    /\ \A u \in armed : due[t] <= due[u]
    /\ clock' = due[t]
    /\ armed' = armed \ {t}
    /\ UNCHANGED due

(* Time passes without reaching any due time. *)
Advance ==
    /\ clock' \in Nat
    /\ clock' > clock
    /\ \A u \in armed : clock' < due[u]
    /\ UNCHANGED <<armed, due>>

Next ==
    \/ \E t \in Timers : Arm(t) \/ Disarm(t) \/ Expire(t)
    \/ Advance

Spec == Init /\ [][Next]_svars
=============================================================================
