-------------------------- MODULE SoftSerialFrame --------------------------
(***************************************************************************)
(* The bits on the wire between two SoftwareSerial objects                 *)
(* (cores/EFM/SoftwareSerial.h): write() holds each bit for a bit time,    *)
(* rxRead() runs in the interrupt of the start bit and samples at fixed    *)
(* distances from the moment it starts.  The interrupt is late by          *)
(* MinLatency to MaxLatency and every wait may overshoot, the receiver's   *)
(* by up to MaxOver and the sender's by up to MaxSlow, because the loop of *)
(* WaitBitTime polls the core timer.                                       *)
(* Time is in core timer ticks; the logic is not inverted.                 *)
(*                                                                         *)
(* An edge during rxRead() sets the pin's change-notice flag, which the    *)
(* handler clears when rxRead() returns (see ChangeNotice).                *)
(***************************************************************************)
EXTENDS Integers, Sequences, SequencesExt

CONSTANTS m_bitTime,
          BITS,         \* data bits of a frame, 8 in the code
          MinLatency, MaxLatency,   \* of the interrupt
          MaxOver, MaxSlow,         \* of each wait in rxRead() and in write()
          MaxFrames     \* bound: frames sent

start_time == m_bitTime \div 9
end_time == (m_bitTime * 8) \div 9

(* What the receiver needs: all that makes it late fits into a bit; and as *)
(* it samples the stop bit one bit time after the last data bit, shortened *)
(* by 1/9 at both ends, only a late interrupt moves that sample into the   *)
(* stop bit.                                                               *)
ASSUME FrameAssumption ==
    /\ m_bitTime \in Nat /\ BITS \in Nat \ {0} /\ MaxFrames \in Nat
    /\ MinLatency \in Nat /\ MaxLatency \in Nat /\ MaxOver \in Nat /\ MaxSlow \in Nat
    /\ start_time + MaxLatency + (BITS + 2) * MaxOver < m_bitTime
    /\ start_time + end_time + MinLatency > m_bitTime + (BITS + 1) * MaxSlow

VARIABLES line,         \* the level of the wire
          frame, left,  \* levels still to send, ticks left of this one
          flag,         \* the change-notice flag of the receive pin
          at, wait,     \* receiver: where it is, ticks to its next sample
          rec,          \* the bits it has sampled
          sent, got     \* history: data of the frames sent and received

sender == <<frame, left, sent>>
receiver == <<at, wait, rec, got>>
frameVars == <<line, flag, sender, receiver>>

FrameInit ==
    /\ line = 1 /\ frame = <<>> /\ left = 0 /\ flag = FALSE
    /\ at = "idle" /\ wait = 0 /\ rec = <<>>
    /\ sent = <<>> /\ got = <<>>

-----------------------------------------------------------------------------
(* The line takes a level; a falling edge is noticed. *)
Drive(v) == line' = v /\ flag' = (flag \/ (line = 1 /\ v = 0))

Held == m_bitTime..(m_bitTime + MaxSlow)

levelsReversed(data) == Reverse(data) \o <<1>>

(* Lowest bit first, then the stop bit. *)
levels(data) == data \o <<1>>

SoftwareSerial_write(data) ==
    /\ left = 0 /\ frame = <<>> /\ Len(sent) < MaxFrames
    /\ Drive(0)
    /\ frame' = levels(data) /\ left' \in Held
    /\ sent' = Append(sent, data)
    /\ UNCHANGED receiver

NextLevel ==
    /\ left = 0 /\ frame # <<>>
    /\ Drive(Head(frame))
    /\ frame' = Tail(frame) /\ left' \in Held
    /\ UNCHANGED <<sent, receiver>>

-----------------------------------------------------------------------------
Waits(next, ticks) == at' = next /\ \E over \in 0..MaxOver : wait' = ticks + over

Interrupt ==
    /\ at = "idle" /\ flag
    /\ at' = "late" /\ wait' \in MinLatency..MaxLatency
    /\ UNCHANGED <<line, flag, sender, rec, got>>

Enter ==
    /\ at = "late" /\ wait = 0
    /\ Waits("start", start_time) /\ rec' = <<>>
    /\ UNCHANGED <<line, flag, sender, got>>

Return == at' = "idle" /\ wait' = 0 /\ flag' = FALSE

SampleStart ==
    /\ at = "start" /\ wait = 0
    /\ IF line = 0 THEN Waits("bits", m_bitTime) /\ UNCHANGED flag ELSE Return
    /\ UNCHANGED <<line, sender, rec, got>>

SampleBit ==
    /\ at = "bits" /\ wait = 0
    /\ rec' = Append(rec, line)
    /\ IF Len(rec') < BITS THEN Waits("bits", m_bitTime) ELSE Waits("stop", end_time)
    /\ UNCHANGED <<line, flag, sender, got>>

SampleStop ==
    /\ at = "stop" /\ wait = 0
    /\ got' = IF line = 1 THEN Append(got, rec) ELSE got
    /\ Return
    /\ UNCHANGED <<line, sender, rec>>

(* Time passes when nobody has to act now. *)
Tick ==
    /\ left > 0 \/ wait > 0
    /\ left = 0 => frame = <<>>
    /\ (at = "idle" => ~flag) /\ (at # "idle" => wait > 0)
    /\ left' = IF left > 0 THEN left - 1 ELSE 0
    /\ wait' = IF wait > 0 THEN wait - 1 ELSE 0
    /\ UNCHANGED <<line, flag, frame, sent, at, rec, got>>

FrameNext ==
    \/ \E data \in [1..BITS -> {0, 1}] : SoftwareSerial_write(data)
    \/ NextLevel \/ Tick
    \/ Interrupt \/ Enter \/ SampleStart \/ SampleBit \/ SampleStop

FrameSpec == FrameInit /\ [][FrameNext]_frameVars

-----------------------------------------------------------------------------
FrameTypeOK ==
    /\ line \in {0, 1} /\ flag \in BOOLEAN
    /\ frame \in BoundedSeq({0, 1}, BITS + 1) /\ left \in 0..(m_bitTime + MaxSlow)
    /\ at \in {"idle", "late", "start", "bits", "stop"}
    /\ wait \in 0..(m_bitTime + MaxOver) /\ rec \in BoundedSeq({0, 1}, BITS)
    /\ Len(sent) <= MaxFrames /\ Len(got) <= MaxFrames

(* Frames sent back to back or apart are received as sent, each one once   *)
(* and in order; when the wire is idle again none is missing.  The         *)
(* handler's clearing of the flag after rxRead() never swallows the next   *)
(* start bit.                                                              *)
Received ==
    /\ IsPrefix(got, sent)
    /\ (left = 0 /\ frame = <<>> /\ at = "idle" /\ ~flag) => got = sent
=============================================================================
