---------------------------- MODULE ChangeNotice ----------------------------
(***************************************************************************)
(* Change notification of one port (cores/EFM/wiring_digital.c):           *)
(* attachInterrupt() and detachInterrupt() in the sketch, one step per     *)
(* register they write, and the port's handler c_handler(), which runs     *)
(* between any two of those steps and lets the sketch wait meanwhile.      *)
(* An edge is one the pin's mode asks for; which edges those are (CNNE,    *)
(* pull-ups, priorities) is left out.                                      *)
(*                                                                         *)
(* The hardware is external: an edge on a pin enabled in CNEN sets its bit *)
(* in CNF if the whole port is in edge detection (CNCON.EDGEDETECT), and   *)
(* in CNSTAT if it is not; only writing it clears such a bit.  The port's  *)
(* request is raised as long as an enabled pin has an event, whatever      *)
(* IRQ_Clear() does meanwhile.                                             *)
(***************************************************************************)
EXTENDS Integers, FiniteSets

CONSTANTS Pins,        \* the pins of the port
          IntPins,     \* those that also have an INTx line
          COUNT,       \* the range of cn_counter, 256 in the code
          MaxCalls,    \* bound: calls of attachInterrupt and detachInterrupt
          NoPin

ASSUME ChangeNoticeAssumption ==
    /\ IntPins \subseteq Pins /\ NoPin \notin Pins
    /\ COUNT \in Nat \ {0} /\ MaxCalls \in Nat

VARIABLES cnen, cnf, cnstat,  \* CNEN, CNF and CNSTAT: sets of pins
          edgedetect,       \* CNCON.EDGEDETECT
          ifs, iec,         \* the port's request, latched, and its enable bit
          cn_counter,
          callback,         \* the pins whose callback is not NULL
          step, pin, mode,  \* the sketch: its next step, the pin, and how to attach it
          isr, seen, run,   \* c_handler: is it running, event, the pin whose callback ran
          calls,            \* number of calls so far
          \* history
          how,              \* per pin, the mode it is attached with
          unanswered,       \* pins with an edge no callback has followed yet
          owed,             \* those with such an edge since they were attached
          drops             \* how often cn_counter went down more than up

sketch == <<step, pin, mode, calls>>
handler == <<isr, seen, run>>
status == <<cnf, cnstat, edgedetect>>
edges == <<unanswered, owed>>
cnVars == <<cnen, status, ifs, iec, cn_counter, callback, sketch, handler, how, edges, drops>>

(* CHANGE; FALLING or RISING; one of them with EXTERNAL; detached. *)
CnModes == {"CHANGE", "EDGE"}
AttachModes == CnModes \cup {"INT", "off"}

event == cnf \cup cnstat

-----------------------------------------------------------------------------
CnInit ==
    /\ cnen = {} /\ cnf = {} /\ cnstat = {} /\ edgedetect = FALSE /\ ifs = FALSE /\ iec = FALSE
    /\ cn_counter = 0 /\ callback = {}
    /\ step = "idle" /\ pin = NoPin /\ mode = "off" /\ calls = 0
    /\ isr = FALSE /\ seen = {} /\ run = NoPin
    /\ how = [p \in Pins |-> "off"] /\ unanswered = {} /\ owed = {} /\ drops = 0

(* The sketch's code runs only while the handler does not. *)
Sketch(here, next) ==
    /\ ~isr /\ step = here /\ step' = next
    /\ UNCHANGED <<handler, pin, mode, calls>>

(* attachInterrupt(p, func, m), or detachInterrupt(p) when m is "off".     *)
Call(p, m) ==
    /\ ~isr /\ step = "idle" /\ calls < MaxCalls
    /\ step' = "CNEN_CLR" /\ pin' = p /\ mode' = m /\ calls' = calls + 1
    /\ UNCHANGED <<cnen, status, ifs, iec, cn_counter, callback, handler, how, edges, drops>>

-----------------------------------------------------------------------------
(* detachInterrupt, also the first thing attachInterrupt does. *)
cnenStill == cnen

cnenWithout == cnen \ {pin}

CnenClr ==
    /\ Sketch("CNEN_CLR", "counter")
    /\ cnen' = cnenWithout
    /\ how' = [how EXCEPT ![pin] = "off"] /\ owed' = owed \ {pin}
    /\ UNCHANGED <<unanswered, status, ifs, iec, cn_counter, callback, drops>>

CountedDownTwice == (cn_counter - 2) % COUNT

CountedDown == (cn_counter - 1) % COUNT

CountDown ==
    /\ Sketch("counter", "callback_NULL")
    /\ cn_counter' = CountedDown
    /\ iec' = (iec /\ cn_counter' # 0) /\ drops' = drops + 1
    /\ UNCHANGED <<cnen, status, ifs, callback, how, edges>>

CallbackNull ==
    /\ Sketch("callback_NULL",
              CASE mode = "off" -> "idle"
                [] mode \in CnModes -> "EDGEDETECT"
                [] mode = "INT" -> IF pin \in IntPins THEN "callback" ELSE "idle")
    /\ callback' = callback \ {pin}
    /\ UNCHANGED <<cnen, status, ifs, iec, cn_counter, how, edges, drops>>

(* The change-notice branch of attachInterrupt; its branch for INTx is     *)
(* ExternalInt.                                                            *)
CnconSet ==
    /\ Sketch("EDGEDETECT", "CNF_CLR")
    /\ edgedetect' = (mode = "EDGE")
    /\ UNCHANGED <<cnen, cnf, cnstat, ifs, iec, cn_counter, callback, how, edges, drops>>

(* An event that a pin in mode CHANGE left behind stays in CNSTAT. *)
CnfClr ==
    /\ Sketch("CNF_CLR", "CNEN_SET")
    /\ cnf' = cnf \ {pin}
    /\ UNCHANGED <<cnen, cnstat, edgedetect, ifs, iec, cn_counter, callback, how, edges, drops>>

CountedUpWide == cn_counter + 1

CountedUp == (cn_counter + 1) % COUNT

CnenSet ==
    /\ Sketch("CNEN_SET", "callback")
    /\ cnen' = cnen \cup {pin}
    /\ cn_counter' = CountedUp /\ drops' = drops - 1
    /\ how' = [how EXCEPT ![pin] = mode]
    /\ UNCHANGED <<status, ifs, iec, callback, edges>>

(* Its end for both branches; the INTx branch serves another request and   *)
(* enables that one, see ExternalInt.                                      *)
SetCallback ==
    /\ Sketch("callback", IF mode \in CnModes THEN "IRQ_Clear" ELSE "idle")
    /\ callback' = callback \cup {pin}
    /\ how' = [how EXCEPT ![pin] = mode]
    /\ UNCHANGED <<cnen, status, ifs, iec, cn_counter, edges, drops>>

Raised == ifs \/ cnen \cap event # {}

IrqClear ==
    /\ Sketch("IRQ_Clear", "IRQ_Enable")
    /\ ifs' = FALSE
    /\ UNCHANGED <<cnen, status, iec, cn_counter, callback, how, edges, drops>>

IrqEnable ==
    /\ Sketch("IRQ_Enable", "idle")
    /\ iec' = TRUE
    /\ UNCHANGED <<cnen, status, ifs, cn_counter, callback, how, edges, drops>>

-----------------------------------------------------------------------------
(* c_handler.  The loop runs over the pins in the order of pins[]; the     *)
(* order among them is left open.                                          *)
HandlerEnter ==
    /\ ~isr /\ iec /\ Raised
    /\ isr' = TRUE /\ seen' = event
    /\ UNCHANGED <<cnen, status, ifs, iec, cn_counter, callback, sketch, run, how, edges, drops>>

HandlerCall(p) ==
    /\ isr /\ run = NoPin /\ p \in seen \cap callback
    /\ run' = p /\ seen' = seen \ {p}
    /\ unanswered' = unanswered \ {p} /\ owed' = owed \ {p}
    /\ UNCHANGED <<cnen, status, ifs, iec, cn_counter, callback, sketch, isr, how, drops>>

noEvents == {}

cnfLeft == cnf \ {run}

cnstatKept == cnstat

cnstatLeft == cnstat \ {run}

(* The callback has returned and both event bits of the pin are cleared.   *)
(* An edge that came while the callback ran was recorded there and goes    *)
(* too.                                                                    *)
HandlerClear ==
    /\ run # NoPin
    /\ run' = NoPin /\ cnf' = cnfLeft /\ cnstat' = cnstatLeft
    /\ UNCHANGED <<cnen, edgedetect, ifs, iec, cn_counter, callback, sketch, isr, seen, how,
                   edges, drops>>

HandlerExit ==
    /\ isr /\ run = NoPin /\ seen \cap callback = {}
    /\ isr' = FALSE /\ seen' = {} /\ ifs' = FALSE
    /\ UNCHANGED <<cnen, status, iec, cn_counter, callback, sketch, run, how, edges, drops>>

(* The hardware notices an edge.  It is owed a callback unless that is     *)
(* running, see HandlerClear.                                              *)
Edge(p) ==
    /\ p \in cnen
    /\ \/ edgedetect /\ cnf' = cnf \cup {p} /\ UNCHANGED cnstat
       \/ ~edgedetect /\ cnstat' = cnstat \cup {p} /\ UNCHANGED cnf
    /\ ifs' = TRUE
    /\ unanswered' = unanswered \cup ({p} \ {run}) /\ owed' = owed \cup ({p} \ {run})
    /\ UNCHANGED <<cnen, edgedetect, iec, cn_counter, callback, sketch, handler, how, drops>>

-----------------------------------------------------------------------------
SketchStep ==
    \/ CnenClr \/ CountDown \/ CallbackNull \/ CnconSet \/ CnfClr \/ CnenSet
    \/ SetCallback \/ IrqClear \/ IrqEnable

HandlerStep ==
    \/ HandlerEnter \/ HandlerClear \/ HandlerExit
    \/ \E p \in Pins : HandlerCall(p)

CnNext ==
    \/ \E p \in Pins, m \in AttachModes : Call(p, m)
    \/ SketchStep
    \/ HandlerStep
    \/ \E p \in Pins : Edge(p)

CnSpec == CnInit /\ [][CnNext]_cnVars

-----------------------------------------------------------------------------
CnTypeOK ==
    /\ cnen \subseteq Pins /\ cnf \subseteq Pins /\ cnstat \subseteq Pins /\ callback \subseteq Pins
    /\ ifs \in BOOLEAN /\ iec \in BOOLEAN /\ isr \in BOOLEAN /\ edgedetect \in BOOLEAN
    /\ cn_counter \in 0..(COUNT - 1)
    /\ step \in {"idle", "CNEN_CLR", "counter", "callback_NULL", "EDGEDETECT", "CNF_CLR",
               "CNEN_SET", "callback", "IRQ_Clear", "IRQ_Enable"}
    /\ pin \in Pins \cup {NoPin} /\ run \in Pins \cup {NoPin}
    /\ mode \in AttachModes /\ how \in [Pins -> AttachModes]
    /\ seen \subseteq Pins /\ unanswered \subseteq Pins /\ owed \subseteq Pins
    /\ calls \in 0..MaxCalls /\ drops \in Int

(* attachInterrupt() lets cn_counter go down first, so that it counts      *)
(* detach calls and not attached pins.  The port's interrupt is switched   *)
(* off under an attached pin only when those calls fill the whole range of *)
(* the 8-bit counter.                                                      *)
Attached == {p \in Pins : how[p] \in CnModes /\ p \in callback}

OffOnlyOnWrap == (step = "idle" /\ Attached # {} /\ ~iec) => drops >= COUNT

(* c_handler() clears only events it finds a callback for; an event no     *)
(* callback claims would raise the request for ever.  There is one place   *)
(* where it can exist: between CNEN_SET and callback = func.               *)
Unclaimed(p) == p \in (cnen \cap event) \ callback

UnclaimedOnlyWhileAttaching ==
    \A p \in Pins : Unclaimed(p) => pin = p /\ step = "callback"

(* The port's interrupt is neither lost to the pins that still use it, nor *)
(* requested for ever by an event nobody claims.                           *)
PortInterruptSound == OffOnlyOnWrap /\ UnclaimedOnlyWhileAttaching

(* No edge brings two callbacks: one runs only for an edge that none has   *)
(* followed.  After attachInterrupt() for change notification it is an     *)
(* edge seen since that call, except where an earlier one is left in       *)
(* CNSTAT, which attachInterrupt() does not clear.                         *)
CalledForAnEdge ==
    [][\A p \in Pins : HandlerCall(p) =>
           /\ p \in unanswered
           /\ how[p] \in CnModes => p \in owed \cup cnstat]_cnVars

(* The handler clears the port's flag after its loop.  An edge of another  *)
(* pin that came meanwhile still gets its callback, unless the pin is      *)
(* detached or its callback is not set yet.                                *)
EdgeServed ==
    \A p \in Pins : (p \in owed /\ iec) ~> (p \notin owed \/ ~iec \/ Unclaimed(p))

(* attachInterrupt() and detachInterrupt() return once the edges pause,    *)
(* though the handler comes first: the one interrupt that can keep coming  *)
(* back before the sketch's next step is that of an event of the pin       *)
(* itself between CNEN_SET and callback = func.                            *)
EdgesPause == <>[][\A p \in Pins : ~Edge(p)]_cnVars

CallReturns == EdgesPause => (step # "idle" ~> (step = "idle" \/ Unclaimed(pin)))
=============================================================================
