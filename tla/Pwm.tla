-------------------------------- MODULE Pwm --------------------------------
(***************************************************************************)
(* The PWM channels of cores/EFM/wiring_analog.c.  Every output compare    *)
(* channel compares with a timer of 16 bits; CFGCON.OCACLK, which nothing  *)
(* in the repository sets, would give some channels another timer than T2. *)
(* Clock rates are scaled down.                                            *)
(***************************************************************************)
EXTENDS Integers

CONSTANTS Channels,
          OCACLK,     \* the configuration bit
          Alternate,  \* the channels whose TxCON_ALT is T4
          PBCLK,      \* the peripheral clock
          Frequencies,    \* what PWM_Begin() is called with, 0 included
          DefaultHz,      \* 1000 in PWM_writeDuty() and PWM_writeValule()
          Duties,     \* percentages, beyond 100 too; -1 is tried besides
          Values,     \* what analogWrite() is called with
          Period      \* the range of the period register, 2^16 in the code

ASSUME PwmAssumption ==
    /\ Alternate \subseteq Channels /\ OCACLK \in BOOLEAN /\ PBCLK \in Nat
    /\ Frequencies \subseteq Nat /\ DefaultHz \in Nat \ {0}
    /\ Duties \subseteq Int /\ Values \subseteq 0..(2^16 - 1) /\ Period \in Nat \ {0}

Timers == {"T2", "T4"}
TimerOf(c) == IF OCACLK /\ c \in Alternate THEN "T4" ELSE "T2"

VARIABLES PR, TCKPS,        \* period and prescaler field of each timer
          oc_on, OCxRS,     \* of each channel
          \* history
          hz,         \* the frequency each timer was set to last, 0 for none
          percent,    \* the duty last asked of a channel, -1 if it was a value
          retimed     \* channels whose timer got another frequency while they were on

pwmVars == <<PR, TCKPS, oc_on, OCxRS, hz, percent, retimed>>

PwmInit ==
    /\ PR = [t \in Timers |-> Period - 1] /\ TCKPS = [t \in Timers |-> 0]
    /\ oc_on = [c \in Channels |-> FALSE] /\ OCxRS = [c \in Channels |-> 0]
    /\ hz = [t \in Timers |-> 0]
    /\ percent = [c \in Channels |-> -1] /\ retimed = {}

-----------------------------------------------------------------------------
(* PWM_prescaler(): the smallest that brings the count into 16 bits. *)
Least(S) == CHOOSE i \in S : \A j \in S : i <= j

PWM_prescaler(f) ==
    LET fits == {i \in 0..7 : (PBCLK \div f) \div 2^i < Period}
    IN  IF fits = {} THEN 7 ELSE Least(fits)

PeriodOf(f) == ((PBCLK \div f) \div 2^PWM_prescaler(f)) % Period

(* The conversion of duty to a register value: clamped to 0..100. *)
Unclamped(d) == d

Clamped(d) == IF d > 100 THEN 100 ELSE IF d < 0 THEN 0 ELSE d

(* pr * (d / 100.0) in floating point, truncated: where the product is a   *)
(* whole number the rounding may leave it just below.                      *)
Compares(pr, d) ==
    LET product == pr * Clamped(d)
        exact == product \div 100
    IN  {exact} \cup (IF product % 100 = 0 /\ exact \in 1..(pr - 1) THEN {exact - 1} ELSE {})

(* PWM_open() and PWM_timer_init() of a channel that is off: its timer is  *)
(* set, whoever else uses it.                                              *)
PWM_open(c, f, compare) ==
    LET t == TimerOf(c) IN
    /\ PR' = [PR EXCEPT ![t] = PeriodOf(f)]
    /\ TCKPS' = [TCKPS EXCEPT ![t] = PWM_prescaler(f)]
    /\ oc_on' = [oc_on EXCEPT ![c] = TRUE]
    /\ OCxRS' = [OCxRS EXCEPT ![c] = compare]
    /\ hz' = [hz EXCEPT ![t] = f]
    /\ retimed' = IF hz[t] = f THEN retimed
                  ELSE retimed \cup {d \in Channels \ {c} : oc_on[d] /\ TimerOf(d) = t}

(* An open channel is left alone; nothing is opened at frequency 0. *)
PWM_Begin(c, f, d) ==
    /\ ~oc_on[c] /\ f # 0
    /\ \E compare \in Compares(PeriodOf(f), d) : PWM_open(c, f, compare)
    /\ percent' = [percent EXCEPT ![c] = Clamped(d)]

PeriodIfOpened(c) == IF oc_on[c] THEN PR[TimerOf(c)] ELSE PeriodOf(DefaultHz)

(* PWM_writeDuty() and PWM_writeValule() end by setting the compare        *)
(* register, whether they had to open the channel or not.                  *)
Write(c, compare) ==
    IF oc_on[c]
    THEN /\ OCxRS' = [OCxRS EXCEPT ![c] = compare]
         /\ retimed' = retimed \ {c}
         /\ UNCHANGED <<PR, TCKPS, oc_on, hz>>
    ELSE PWM_open(c, DefaultHz, compare)

PWM_writeDuty(c, d) ==
    /\ \E compare \in Compares(PeriodIfOpened(c), d) : Write(c, compare)
    /\ percent' = [percent EXCEPT ![c] = Clamped(d)]

PWM_writeValule(c, v) ==
    /\ Write(c, IF v > PeriodIfOpened(c) THEN PeriodIfOpened(c) ELSE v)
    /\ percent' = [percent EXCEPT ![c] = -1]

PwmNext ==
    \E c \in Channels :
        \/ \E f \in Frequencies, d \in Duties \cup {-1} : PWM_Begin(c, f, d)
        \/ \E d \in Duties \cup {-1} : PWM_writeDuty(c, d)
        \/ \E v \in Values : PWM_writeValule(c, v)

PwmSpec == PwmInit /\ [][PwmNext]_pwmVars

-----------------------------------------------------------------------------
PwmTypeOK ==
    /\ PR \in [Timers -> 0..(Period - 1)] /\ TCKPS \in [Timers -> 0..7]
    /\ oc_on \in [Channels -> BOOLEAN] /\ OCxRS \in [Channels -> 0..(Period - 1)]
    /\ percent \in [Channels -> -1..100] /\ retimed \subseteq Channels

(* A register value is that percentage of the period, or at most one count *)
(* below it.                                                               *)
NearDuty(pr, q, reg) == pr * q - 100 * reg \in 0..100

(* A channel keeps the duty asked of it, within one count, and its compare *)
(* register never lies beyond the period, through everything the other     *)
(* channels do to the timer they share: until one of them is opened at     *)
(* another frequency.                                                      *)
DutyHolds ==
    \A c \in Channels : (oc_on[c] /\ c \notin retimed) =>
        /\ OCxRS[c] <= PR[TimerOf(c)]
        /\ percent[c] >= 0 => NearDuty(PR[TimerOf(c)], percent[c], OCxRS[c])

(* The division the field TCKPS selects, from the names in                 *)
(* include/plib/peripheral_mz/timer.h:606-613: 7 is 1:256.                 *)
Division(field) == IF field = 7 THEN 256 ELSE 2^field

(* A timer that was set counts PBCLK down to the frequency asked for:      *)
(* within one count of its period register, plus the one the hardware      *)
(* adds.                                                                   *)
FrequencyNear ==
    \A t \in Timers : hz[t] # 0 =>
        /\ PR[t] * Division(TCKPS[t]) * hz[t] <= PBCLK
        /\ PBCLK <= (PR[t] + 2) * Division(TCKPS[t]) * hz[t]

(* Channels that share a timer get the frequency and the duty asked for. *)
OutputRight == DutyHolds /\ FrequencyNear
=============================================================================
