--------------------------- MODULE SoftSerialRing ---------------------------
(***************************************************************************)
(* The receive buffer of one SoftwareSerial object that has a receive pin  *)
(* (cores/EFM/SoftwareSerial.h).  rxRead() stores in the interrupt, the    *)
(* sketch reads without masking it: the interrupt may come between any two *)
(* accesses of the sketch.  Bytes are numbered in the order they arrive.   *)
(***************************************************************************)
EXTENDS Integers, Sequences

CONSTANTS m_buffSize,
          MaxBytes      \* bound: how many bytes arrive

ASSUME RingAssumption == m_buffSize \in Nat \ {0} /\ MaxBytes \in Nat

NoByte == -1
RingBytes == 1..MaxBytes

VARIABLES m_buffer, m_inPos, m_outPos, m_overflow, rxEnabled,
          pc, ch,    \* what the sketch does next, the byte read() has taken
          ret,       \* what read() or peek() returned last
          arrived,   \* hardware: bytes received so far
          promised,  \* history: bytes available() announced and not read since
          dropped    \* history: bytes refused for lack of room

ringVars == <<m_buffer, m_inPos, m_outPos, m_overflow, rxEnabled, pc, ch, ret, arrived, promised, dropped>>

RingInit ==
    /\ m_buffer = [i \in 0..(m_buffSize - 1) |-> NoByte]
    /\ m_inPos = 0 /\ m_outPos = 0 /\ m_overflow = FALSE /\ rxEnabled = FALSE
    /\ pc = "idle" /\ ch = NoByte /\ ret = NoByte /\ arrived = 0 /\ promised = 0 /\ dropped = 0

next(i) == (i + 1) % m_buffSize

neverFull == FALSE

ringFull == next(m_inPos) = m_outPos

(* rxRead() once a byte has been sampled.  A byte that comes while flush() *)
(* is resetting the positions counts as flushed.                           *)
rxRead ==
    /\ rxEnabled /\ arrived < MaxBytes
    /\ arrived' = arrived + 1
    /\ \/ /\ ~ringFull
          /\ m_buffer' = [m_buffer EXCEPT ![m_inPos] = arrived + 1]
          /\ m_inPos' = next(m_inPos)
          /\ UNCHANGED <<m_overflow, dropped>>
       \/ /\ ringFull
          /\ m_overflow' = TRUE
          /\ dropped' = IF pc = "flush_in" THEN dropped ELSE dropped + 1
          /\ UNCHANGED <<m_buffer, m_inPos>>
    /\ UNCHANGED <<m_outPos, rxEnabled, pc, ch, ret, promised>>

(* begin() and listen(), end() and stopListening(). *)
setRx(on) ==
    /\ pc = "idle" /\ rxEnabled' = on
    /\ UNCHANGED <<m_buffer, m_inPos, m_outPos, m_overflow, pc, ch, ret, arrived, promised, dropped>>

delta == IF m_inPos - m_outPos < 0 THEN m_inPos - m_outPos + m_buffSize ELSE m_inPos - m_outPos

SoftwareSerial_available ==
    /\ pc = "idle" /\ promised' = delta
    /\ UNCHANGED <<m_buffer, m_inPos, m_outPos, m_overflow, rxEnabled, pc, ch, ret, arrived, dropped>>

SoftwareSerial_peek ==
    /\ pc = "idle"
    /\ ret' = IF m_inPos = m_outPos THEN NoByte ELSE m_buffer[m_outPos]
    /\ UNCHANGED <<m_buffer, m_inPos, m_outPos, m_overflow, rxEnabled, pc, ch, arrived, promised, dropped>>

(* read(): the byte is taken, then the position moves. *)
SoftwareSerial_read ==
    /\ pc = "idle" /\ m_inPos # m_outPos
    /\ pc' = "advance" /\ ch' = m_buffer[m_outPos]
    /\ UNCHANGED <<m_buffer, m_inPos, m_outPos, m_overflow, rxEnabled, ret, arrived, promised, dropped>>

readNothing ==
    /\ pc = "idle" /\ m_inPos = m_outPos
    /\ ret' = NoByte
    /\ UNCHANGED <<m_buffer, m_inPos, m_outPos, m_overflow, rxEnabled, pc, ch, arrived, promised, dropped>>

advance ==
    /\ pc = "advance" /\ pc' = "idle"
    /\ m_outPos' = next(m_outPos) /\ ret' = ch
    /\ promised' = IF promised > 0 THEN promised - 1 ELSE 0
    /\ UNCHANGED <<m_buffer, m_inPos, m_overflow, rxEnabled, arrived, dropped, ch>>

(* flush(): m_inPos = m_outPos = 0; m_overflow = false. *)
flushOut ==
    /\ pc = "idle" /\ pc' = "flush_in"
    /\ m_outPos' = 0 /\ promised' = 0
    /\ UNCHANGED <<m_buffer, m_inPos, m_overflow, rxEnabled, ret, arrived, dropped, ch>>

flushIn ==
    /\ pc = "flush_in" /\ pc' = "flush_overflow"
    /\ m_inPos' = 0
    /\ UNCHANGED <<m_buffer, m_outPos, m_overflow, rxEnabled, ret, arrived, promised, dropped, ch>>

flushOverflow ==
    /\ pc = "flush_overflow" /\ pc' = "idle"
    /\ m_overflow' = FALSE
    /\ UNCHANGED <<m_buffer, m_inPos, m_outPos, rxEnabled, ret, arrived, promised, dropped, ch>>

RingNext ==
    \/ rxRead
    \/ \E on \in BOOLEAN : setRx(on)
    \/ SoftwareSerial_available \/ SoftwareSerial_peek \/ SoftwareSerial_read \/ readNothing \/ advance
    \/ flushOut \/ flushIn \/ flushOverflow

RingSpec == RingInit /\ [][RingNext]_ringVars

-----------------------------------------------------------------------------
RingTypeOK ==
    /\ m_buffer \in [0..(m_buffSize - 1) -> RingBytes \cup {NoByte}]
    /\ m_inPos \in 0..(m_buffSize - 1) /\ m_outPos \in 0..(m_buffSize - 1)
    /\ m_overflow \in BOOLEAN /\ rxEnabled \in BOOLEAN
    /\ pc \in {"idle", "advance", "flush_in", "flush_overflow"}
    /\ ret \in RingBytes \cup {NoByte} /\ ch \in RingBytes \cup {NoByte} /\ arrived \in 0..MaxBytes
    /\ promised \in 0..m_buffSize /\ dropped \in 0..MaxBytes

(* What available() announced can be read, whatever the interrupt stores   *)
(* between the calls.                                                      *)
PromiseKept == pc # "flush_in" => promised <= delta

RingContents == [i \in 1..delta |-> m_buffer[(m_outPos + i - 1) % m_buffSize]]

(* flush() empties the queue with its first assignment. *)
Waiting == IF pc = "flush_in" THEN <<>> ELSE RingContents

Queue == INSTANCE ByteQueue WITH Bytes <- RingBytes, Cap <- m_buffSize - 1, q <- Waiting

(* The unprotected buffer is a bounded queue: read() returns the bytes in  *)
(* the order they came, none twice; a byte is refused only when            *)
(* m_buffSize - 1 wait, and flush() removes what came before it ended.     *)
ImplementsQueue == Queue!Spec

(* ... and available() tells the sketch no more than the queue holds.      *)
RingRight == ImplementsQueue /\ [][PromiseKept']_ringVars
=============================================================================
