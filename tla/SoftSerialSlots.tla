-------------------------- MODULE SoftSerialSlots --------------------------
(***************************************************************************)
(* The table of receivers that SoftwareSerial objects share                *)
(* (cores/EFM/SoftwareSerial.h, ss_context in variant.cpp).  The interrupt *)
(* of a receive pin calls the function of a slot, which calls rxRead() of  *)
(* the object the slot points to at that moment.                           *)
(* Every object has a receive pin of its own; objects are built and        *)
(* destroyed by the sketch, whose calls are single steps here: the receive *)
(* interrupt only reads the table.                                         *)
(***************************************************************************)
EXTENDS Integers

CONSTANTS Objects,
          SOFTWARE_SERIAL_MAX,
          NoObject,
          SendOnly    \* are there objects without a receive pin or without memory?

ASSUME SlotsAssumption ==
    /\ SOFTWARE_SERIAL_MAX \in Nat \ {0}
    /\ NoObject \notin Objects /\ SendOnly \in BOOLEAN

Slots == 0..(SOFTWARE_SERIAL_MAX - 1)
NoSlot == SOFTWARE_SERIAL_MAX   \* -1 in an unsigned int is no slot either

VARIABLES live,         \* the objects that exist
          serial,       \* ss_context[].serial
          m_rx_id, m_rxValid, m_rxEnabled,
          irq           \* the slot whose function the object's pin calls, or NoSlot

slotsVars == <<live, serial, m_rx_id, m_rxValid, m_rxEnabled, irq>>

SlotsInit ==
    /\ live = {} /\ serial = [s \in Slots |-> NoObject]
    /\ m_rx_id = [o \in Objects |-> NoSlot]
    /\ m_rxValid = [o \in Objects |-> FALSE]
    /\ m_rxEnabled = [o \in Objects |-> FALSE]
    /\ irq = [o \in Objects |-> NoSlot]

free == {s \in Slots : serial[s] = NoObject}

lastSlot == IF free = {} THEN SOFTWARE_SERIAL_MAX - 1 ELSE CHOOSE s \in free : \A t \in free : s <= t

ss_get_interface == IF free = {} THEN NoSlot ELSE CHOOSE s \in free : \A t \in free : s <= t

(* SoftwareSerial(tx, rx): receives says that rx is a valid pin and that   *)
(* malloc succeeds.                                                        *)
construct(o, receives) ==
    LET valid == receives /\ ss_get_interface # NoSlot IN
    /\ o \notin live /\ (receives \/ SendOnly)
    /\ live' = live \cup {o}
    /\ m_rx_id' = [m_rx_id EXCEPT ![o] = ss_get_interface]
    /\ m_rxValid' = [m_rxValid EXCEPT ![o] = valid]
    /\ m_rxEnabled' = [m_rxEnabled EXCEPT ![o] = FALSE]
    /\ serial' = IF valid THEN [serial EXCEPT ![ss_get_interface] = o] ELSE serial
    /\ UNCHANGED irq

(* enableRx(on), with attachInterrupt() or detachInterrupt(): called by    *)
(* begin() and listen(), end() and stopListening(), and the destructor.    *)
enabling(o, on) ==
    IF m_rxValid[o] /\ m_rxEnabled[o] # on
    THEN /\ irq' = [irq EXCEPT ![o] = IF on THEN m_rx_id[o] ELSE NoSlot]
         /\ m_rxEnabled' = [m_rxEnabled EXCEPT ![o] = on]
    ELSE UNCHANGED <<irq, m_rxEnabled>>

enableRx(o, on) ==
    /\ o \in live
    /\ enabling(o, on)
    /\ UNCHANGED <<live, serial, m_rx_id, m_rxValid>>

freedSlot(o) == IF m_rx_id[o] # NoSlot THEN [serial EXCEPT ![m_rx_id[o]] = NoObject] ELSE serial

destruct(o) ==
    /\ o \in live
    /\ live' = live \ {o}
    /\ enabling(o, FALSE)
    /\ serial' = freedSlot(o)
    /\ UNCHANGED <<m_rx_id, m_rxValid>>

SlotsNext ==
    \E o \in Objects :
        \/ \E receives \in BOOLEAN : construct(o, receives)
        \/ \E on \in BOOLEAN : enableRx(o, on)
        \/ destruct(o)

SlotsSpec == SlotsInit /\ [][SlotsNext]_slotsVars

-----------------------------------------------------------------------------
SlotsTypeOK ==
    /\ live \subseteq Objects /\ serial \in [Slots -> Objects \cup {NoObject}]
    /\ m_rx_id \in [Objects -> Slots \cup {NoSlot}] /\ irq \in [Objects -> Slots \cup {NoSlot}]
    /\ m_rxValid \in [Objects -> BOOLEAN] /\ m_rxEnabled \in [Objects -> BOOLEAN]

(* A receive interrupt that is attached reaches the object that attached   *)
(* it, which still exists: never NULL, never another object, however       *)
(* objects come and go.                                                    *)
Routed == \A o \in Objects : irq[o] # NoSlot => o \in live /\ serial[irq[o]] = o

(* The table never loses a place: a slot is taken exactly while an object  *)
(* that may receive exists.                                                *)
NoSlotLeaks ==
    \A s \in Slots : serial[s] # NoObject =>
        serial[s] \in live /\ m_rxValid[serial[s]] /\ m_rx_id[serial[s]] = s

(* The table, the objects and the attached interrupts agree. *)
SlotsRight == Routed /\ NoSlotLeaks

(* SoftwareSerial.h:294 offers objects that only send.  They must not      *)
(* disturb the objects that receive.                                       *)
SendersHarmless == Routed
=============================================================================
