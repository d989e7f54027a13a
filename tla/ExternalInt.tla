----------------------------- MODULE ExternalInt -----------------------------
(***************************************************************************)
(* One INTx line (cores/EFM/wiring_digital.c): attachInterrupt() with      *)
(* EXTERNAL, detachInterrupt() and i_handler().  The line reacts to one    *)
(* edge only, the one its bit in INTCON selects; for CHANGE the handler    *)
(* inverts that bit after every interrupt.  Attaching is one step: the     *)
(* line's interrupt is disabled until its last write.                      *)
(* External: the pin's level, and the flag that a selected edge sets.      *)
(***************************************************************************)
EXTENDS Naturals

CONSTANT MaxIntCalls   \* bound: calls of attachInterrupt and detachInterrupt

ASSUME ExternalIntAssumption == MaxIntCalls \in Nat

Modes == {"CHANGE", "FALLING", "RISING"}
Levels == {"low", "high"}

VARIABLES level,    \* of the pin
          intcon,   \* the line's bit in INTCON: 1 selects rising edges
          intMode,     \* eint.mode, "off" after detachInterrupt
          intIfs,
          handling,       \* i_handler: "out", "callback" done, "INTCON" done
          intCalls,
          \* history
          told,     \* the level when the last callback since attach ran, or "none"
          missed,   \* level changes since attach that set no flag, two at most counted
          overrun,  \* did the level change before an interrupt was over?
          rose      \* was the line ever set to rising edges?

intVars == <<level, intcon, intMode, intIfs, handling, intCalls, told, missed, overrun, rose>>

IntInit ==
    /\ level \in Levels /\ intcon = 0 /\ intMode = "off" /\ intIfs = FALSE
    /\ handling = "out" /\ intCalls = 0
    /\ told = "none" /\ missed = 0 /\ overrun = FALSE /\ rose = FALSE

IntconSet(m) == IF m = "RISING" THEN 1 ELSE intcon

attachInterrupt(m) ==
    /\ handling = "out" /\ intCalls < MaxIntCalls
    /\ intMode' = m /\ intcon' = IntconSet(m) /\ intIfs' = FALSE /\ intCalls' = intCalls + 1
    /\ told' = "none" /\ missed' = 0 /\ overrun' = FALSE /\ rose' = (rose \/ intcon' = 1)
    /\ UNCHANGED <<level, handling>>

detachInterrupt ==
    /\ handling = "out" /\ intCalls < MaxIntCalls
    /\ intMode' = "off" /\ intCalls' = intCalls + 1
    /\ UNCHANGED <<level, intcon, intIfs, handling, told, missed, overrun, rose>>

(* i_handler *)
IntCall ==
    /\ handling = "out" /\ intMode # "off" /\ intIfs
    /\ handling' = "callback" /\ told' = level
    /\ UNCHANGED <<level, intcon, intMode, intIfs, intCalls, missed, overrun, rose>>

Kept == intcon

Inverted == IF intMode = "CHANGE" THEN 1 - intcon ELSE intcon

IntInvert ==
    /\ handling = "callback"
    /\ handling' = "INTCON" /\ intcon' = Inverted /\ rose' = (rose \/ intcon' = 1)
    /\ UNCHANGED <<level, intMode, intIfs, intCalls, told, missed, overrun>>

IntClear ==
    /\ handling = "INTCON"
    /\ handling' = "out" /\ intIfs' = FALSE
    /\ UNCHANGED <<level, intcon, intMode, intCalls, told, missed, overrun, rose>>

Toggle ==
    LET flagged == (intcon = 1) = (level = "low")  \* this change is the selected edge
        busy == intIfs \/ handling # "out"
    IN
    /\ level' = IF level = "low" THEN "high" ELSE "low"
    /\ intIfs' = (intIfs \/ flagged)
    /\ missed' = IF ~flagged /\ ~busy /\ missed < 2 THEN missed + 1 ELSE missed
    /\ overrun' = (overrun \/ busy)
    /\ UNCHANGED <<intcon, intMode, handling, intCalls, told, rose>>

IntNext ==
    \/ \E m \in Modes : attachInterrupt(m)
    \/ detachInterrupt
    \/ IntCall \/ IntInvert \/ IntClear
    \/ Toggle

IntSpec == IntInit /\ [][IntNext]_intVars

-----------------------------------------------------------------------------
IntTypeOK ==
    /\ level \in Levels /\ intcon \in {0, 1} /\ intMode \in Modes \cup {"off"}
    /\ intIfs \in BOOLEAN /\ handling \in {"out", "callback", "INTCON"} /\ intCalls \in 0..MaxIntCalls
    /\ told \in Levels \cup {"none"} /\ missed \in 0..2
    /\ overrun \in BOOLEAN /\ rose \in BOOLEAN

Quiet == handling = "out" /\ ~intIfs

(* CHANGE over a single-edge line: while the level changes more slowly     *)
(* than the handler runs, the sketch knows the pin's level once its first  *)
(* callback has run.  Attaching keeps whatever edge was selected before,   *)
(* so that one change may go unnoticed before that, and no more.           *)
TellsTheLevel ==
    (intMode = "CHANGE" /\ ~overrun) =>
        /\ (Quiet /\ told # "none") => told = level
        /\ missed <= 1

(* attachInterrupt() only sets the bit in INTCON: RISING always gets its   *)
(* edge, FALLING gets the wrong one only on a line that was used for       *)
(* rising edges before.                                                    *)
EdgeAsked ==
    /\ intMode = "RISING" => intcon = 1
    /\ (intMode = "FALLING" /\ intcon = 1) => rose

(* attachInterrupt() gives the sketch the edges of its mode, on a line     *)
(* that keeps the edge selected by its earlier use.                        *)
EdgesAsAsked == EdgeAsked /\ TellsTheLevel
=============================================================================
