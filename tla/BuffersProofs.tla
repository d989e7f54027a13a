--------------------------- MODULE BuffersProofs ---------------------------
(***************************************************************************)
(* Proofs about the buffers of arduino/: the table of software serial      *)
(* receivers for every number of slots and every set of objects, the       *)
(* receive buffer for every size and number of bytes, cbuf for every size  *)
(* of storage, and the frames of software serial for every bit time,       *)
(* latency and overshoot that fit.                                         *)
(***************************************************************************)
EXTENDS MCBuffers, TextProofs, RingTheorems

-----------------------------------------------------------------------------
(* The table of receivers. *)

(* Why interrupts reach their objects: an object that may receive owns the *)
(* slot it remembers for as long as it lives, and only an object that      *)
(* listens has its interrupt attached, to that slot.                       *)
OwnsItsSlot(o) == m_rx_id[o] \in Slots /\ serial[m_rx_id[o]] = o

AttachedToOwn(o) == o \in live /\ m_rxValid[o] /\ m_rxEnabled[o] /\ irq[o] = m_rx_id[o]

SlotsInv ==
    /\ SlotsTypeOK
    /\ \A o \in live : IF m_rxValid[o] THEN OwnsItsSlot(o) ELSE m_rx_id[o] = NoSlot
    /\ \A o \in Objects : irq[o] # NoSlot => AttachedToOwn(o)
    /\ NoSlotLeaks

(* ss_get_interface() returns a free slot, or none when none is free. *)
LEMMA FreeSlot ==
    ASSUME SlotsTypeOK
    PROVE  /\ ss_get_interface \in Slots \cup {NoSlot}
           /\ ss_get_interface # NoSlot =>
                ss_get_interface \in Slots /\ serial[ss_get_interface] = NoObject
<1>1. CASE free = {}
  BY <1>1 DEF ss_get_interface
<1>2. CASE free # {}
  <2>1. free \subseteq Slots /\ Slots \subseteq Nat
    BY SlotsAssumption DEF free, Slots
  <2>2. \E s \in free : \A t \in free : s <= t
    BY <1>2, <2>1, LeastNat
  <2>3. ss_get_interface \in free
    BY <1>2, <2>2 DEF ss_get_interface
  <2> QED
    BY <2>3 DEF free
<1> QED
  BY <1>1, <1>2

LEMMA InitSlotsInv == SlotsInit => SlotsInv
<1> SUFFICES ASSUME SlotsInit PROVE SlotsInv
  OBVIOUS
<1>1. SlotsTypeOK
  BY SlotsAssumption DEF SlotsInit, SlotsTypeOK
<1> QED
  BY <1>1 DEF SlotsInit, SlotsInv, NoSlotLeaks

(* A slot belongs to one object, so setting up or giving up one object's   *)
(* slot leaves the others what they own.                                   *)
LEMMA ConstructKeepsSlotsInv ==
    ASSUME ~SendOnly, SlotsInv, NEW o \in Objects, NEW receives \in BOOLEAN,
           construct(o, receives)
    PROVE  SlotsInv'
<1> DEFINE s == ss_get_interface
           valid == receives /\ s # NoSlot
<1>1. /\ SlotsTypeOK /\ receives /\ o \notin live /\ o # NoObject
      /\ NoSlot \notin Slots
  BY SlotsAssumption DEF construct, SlotsInv, Slots, NoSlot
<1>2. /\ s \in Slots \cup {NoSlot}
      /\ s # NoSlot => s \in Slots /\ serial[s] = NoObject
  BY <1>1, FreeSlot
<1>3. /\ live' = live \cup {o}
      /\ m_rx_id' = [m_rx_id EXCEPT ![o] = s]
      /\ m_rxValid' = [m_rxValid EXCEPT ![o] = valid]
      /\ m_rxEnabled' = [m_rxEnabled EXCEPT ![o] = FALSE]
      /\ serial' = IF valid THEN [serial EXCEPT ![s] = o] ELSE serial
      /\ irq' = irq
  BY DEF construct
<1>4. valid \in BOOLEAN /\ (valid <=> s # NoSlot)
  BY <1>1
<1> HIDE DEF s, valid
<1>5. SlotsTypeOK'
  BY <1>1, <1>2, <1>3, <1>4 DEF SlotsTypeOK
<1>6. ASSUME NEW p \in live'
      PROVE  IF m_rxValid'[p] THEN OwnsItsSlot(p)' ELSE m_rx_id'[p] = NoSlot
  <2>1. CASE p = o
    BY <1>1, <1>2, <1>3, <1>4, <2>1 DEF OwnsItsSlot, SlotsTypeOK
  <2>2. CASE p # o
    <3>1. /\ p \in live /\ p \in Objects /\ m_rxValid'[p] = m_rxValid[p]
          /\ m_rx_id'[p] = m_rx_id[p]
      BY <1>1, <1>3, <2>2 DEF SlotsTypeOK
    <3>2. IF m_rxValid[p] THEN OwnsItsSlot(p) ELSE m_rx_id[p] = NoSlot
      BY <3>1 DEF SlotsInv
    <3>3. OwnsItsSlot(p) => OwnsItsSlot(p)'
      BY <1>1, <1>2, <1>3, <1>4, <3>1, SlotsAssumption DEF OwnsItsSlot, SlotsTypeOK
    <3> QED
      BY <3>1, <3>2, <3>3
  <2> QED
    BY <2>1, <2>2
<1>7. ASSUME NEW p \in Objects, irq'[p] # NoSlot PROVE AttachedToOwn(p)'
  <2>1. AttachedToOwn(p)
    BY <1>3, <1>7 DEF SlotsInv
  <2>2. p # o
    BY <1>1, <2>1 DEF AttachedToOwn
  <2> QED
    BY <1>1, <1>3, <2>1, <2>2 DEF AttachedToOwn, SlotsTypeOK
<1>8. NoSlotLeaks'
  <2> SUFFICES ASSUME NEW t \in Slots, serial'[t] # NoObject
               PROVE  /\ serial'[t] \in live' /\ m_rxValid'[serial'[t]]
                      /\ m_rx_id'[serial'[t]] = t
    BY DEF NoSlotLeaks
  <2>1. CASE valid /\ t = s
    BY <1>1, <1>2, <1>3, <1>4, <2>1 DEF SlotsTypeOK
  <2>2. CASE ~(valid /\ t = s)
    <3>1. serial'[t] = serial[t]
      BY <1>1, <1>2, <1>3, <1>4, <2>2 DEF SlotsTypeOK
    <3>2. serial[t] \in live /\ m_rxValid[serial[t]] /\ m_rx_id[serial[t]] = t
      BY <3>1 DEF SlotsInv, NoSlotLeaks
    <3>3. serial[t] # o /\ serial[t] \in Objects
      BY <1>1, <3>2 DEF SlotsTypeOK
    <3> QED
      BY <1>1, <1>3, <3>1, <3>2, <3>3 DEF SlotsTypeOK
  <2> QED
    BY <2>1, <2>2
<1> QED
  BY <1>5, <1>6, <1>7, <1>8 DEF SlotsInv

LEMMA EnableKeepsSlotsInv ==
    ASSUME SlotsInv, NEW o \in Objects, NEW on \in BOOLEAN, enableRx(o, on)
    PROVE  SlotsInv'
<1>1. /\ SlotsTypeOK /\ o \in live /\ NoSlot \notin Slots
      /\ UNCHANGED <<live, serial, m_rx_id, m_rxValid>>
  BY SlotsAssumption DEF enableRx, SlotsInv, Slots, NoSlot
<1>2. CASE m_rxValid[o] /\ m_rxEnabled[o] # on
  <2>1. /\ irq' = [irq EXCEPT ![o] = IF on THEN m_rx_id[o] ELSE NoSlot]
        /\ m_rxEnabled' = [m_rxEnabled EXCEPT ![o] = on]
    BY <1>2 DEF enableRx, enabling
  <2>2. SlotsTypeOK'
    BY <1>1, <2>1 DEF SlotsTypeOK
  <2>3. ASSUME NEW p \in Objects, irq'[p] # NoSlot PROVE AttachedToOwn(p)'
    <3>1. CASE p = o
      BY <1>1, <1>2, <2>1, <2>3, <3>1 DEF AttachedToOwn, SlotsTypeOK
    <3>2. CASE p # o
      <4>1. irq[p] # NoSlot
        BY <1>1, <2>1, <2>3, <3>2 DEF SlotsTypeOK
      <4>2. AttachedToOwn(p)
        BY <4>1 DEF SlotsInv
      <4> QED
        BY <1>1, <2>1, <3>2, <4>2 DEF AttachedToOwn, SlotsTypeOK
    <3> QED
      BY <3>1, <3>2
  <2> QED
    BY <1>1, <2>2, <2>3 DEF SlotsInv, NoSlotLeaks, OwnsItsSlot
<1>3. CASE ~(m_rxValid[o] /\ m_rxEnabled[o] # on)
  BY <1>1, <1>3 DEF enableRx, enabling, SlotsInv, SlotsTypeOK, NoSlotLeaks, OwnsItsSlot, AttachedToOwn
<1> QED
  BY <1>2, <1>3

LEMMA DestructKeepsSlotsInv ==
    ASSUME SlotsInv, NEW o \in Objects, destruct(o)
    PROVE  SlotsInv'
<1>1. /\ SlotsTypeOK /\ o \in live /\ NoSlot \notin Slots
      /\ live' = live \ {o} /\ serial' = freedSlot(o)
      /\ UNCHANGED <<m_rx_id, m_rxValid>>
  BY SlotsAssumption DEF destruct, SlotsInv, Slots, NoSlot
<1>2. IF m_rxValid[o] THEN OwnsItsSlot(o) ELSE m_rx_id[o] = NoSlot
  BY <1>1 DEF SlotsInv
<1>3. serial' \in [Slots -> Objects \cup {NoObject}]
  BY <1>1 DEF freedSlot, SlotsTypeOK
<1>4. /\ irq' \in [Objects -> Slots \cup {NoSlot}] /\ m_rxEnabled' \in [Objects -> BOOLEAN]
      /\ irq'[o] = NoSlot
      /\ \A p \in Objects \ {o} : irq'[p] = irq[p] /\ m_rxEnabled'[p] = m_rxEnabled[p]
  <2>1. CASE m_rxValid[o] /\ m_rxEnabled[o] # FALSE
    BY <1>1, <2>1 DEF destruct, enabling, SlotsTypeOK
  <2>2. CASE ~(m_rxValid[o] /\ m_rxEnabled[o] # FALSE)
    <3>1. irq' = irq /\ m_rxEnabled' = m_rxEnabled
      BY <2>2 DEF destruct, enabling
    <3>2. irq[o] = NoSlot
      BY <1>1, <2>2 DEF SlotsInv, AttachedToOwn
    <3> QED
      BY <1>1, <3>1, <3>2 DEF SlotsTypeOK
  <2> QED
    BY <2>1, <2>2
<1>5. SlotsTypeOK'
  BY <1>1, <1>3, <1>4 DEF SlotsTypeOK
<1>6. \A t \in Slots : IF m_rxValid[o] /\ t = m_rx_id[o] THEN serial'[t] = NoObject
                                                          ELSE serial'[t] = serial[t]
  BY <1>1, <1>2 DEF freedSlot, OwnsItsSlot, SlotsTypeOK
<1>7. ASSUME NEW p \in live'
      PROVE  IF m_rxValid'[p] THEN OwnsItsSlot(p)' ELSE m_rx_id'[p] = NoSlot
  <2>1. p \in live /\ p # o /\ p \in Objects
    BY <1>1 DEF SlotsTypeOK
  <2>2. IF m_rxValid[p] THEN OwnsItsSlot(p) ELSE m_rx_id[p] = NoSlot
    BY <2>1 DEF SlotsInv
  <2>3. OwnsItsSlot(p) => OwnsItsSlot(p)'
    BY <1>1, <1>2, <1>6, <2>1 DEF OwnsItsSlot
  <2> QED
    BY <1>1, <2>2, <2>3
<1>8. ASSUME NEW p \in Objects, irq'[p] # NoSlot PROVE AttachedToOwn(p)'
  <2>1. p # o /\ irq[p] # NoSlot
    BY <1>4, <1>8
  <2>2. AttachedToOwn(p)
    BY <2>1 DEF SlotsInv
  <2> QED
    BY <1>1, <1>4, <2>1, <2>2 DEF AttachedToOwn
<1>9. NoSlotLeaks'
  <2> SUFFICES ASSUME NEW t \in Slots, serial'[t] # NoObject
               PROVE  /\ serial'[t] \in live' /\ m_rxValid'[serial'[t]]
                      /\ m_rx_id'[serial'[t]] = t
    BY DEF NoSlotLeaks
  <2>1. serial'[t] = serial[t]
    BY <1>6
  <2>2. serial[t] \in live /\ m_rxValid[serial[t]] /\ m_rx_id[serial[t]] = t
    BY <2>1 DEF SlotsInv, NoSlotLeaks
  <2>3. serial[t] # o
    BY <1>6, <2>1, <2>2
  <2> QED
    BY <1>1, <2>1, <2>2, <2>3
<1> QED
  BY <1>5, <1>7, <1>8, <1>9 DEF SlotsInv

LEMMA StepSlotsInv == ~SendOnly /\ SlotsInv /\ [SlotsNext]_slotsVars => SlotsInv'
<1> SUFFICES ASSUME ~SendOnly, SlotsInv, [SlotsNext]_slotsVars PROVE SlotsInv'
  OBVIOUS
<1>1. CASE UNCHANGED slotsVars
  BY <1>1 DEF slotsVars, SlotsInv, SlotsTypeOK, NoSlotLeaks, OwnsItsSlot, AttachedToOwn
<1>2. CASE SlotsNext
  BY <1>2, ConstructKeepsSlotsInv, EnableKeepsSlotsInv, DestructKeepsSlotsInv DEF SlotsNext
<1> QED
  BY <1>1, <1>2

(* However objects that may receive are built, switched and destroyed, an  *)
(* attached interrupt reaches the live object that attached it and no slot *)
(* is lost.  Objects that only send are excluded: with them it is false.   *)
THEOREM SlotsAreRight ==
    ASSUME ~SendOnly
    PROVE  SlotsSpec => []SlotsRight
<1>1. SlotsInv => SlotsRight
  <2> SUFFICES ASSUME SlotsInv PROVE Routed
    BY DEF SlotsInv, SlotsRight
  <2> QED
    BY DEF SlotsInv, Routed, AttachedToOwn, OwnsItsSlot
<1>2. SlotsInv /\ [SlotsNext]_slotsVars => SlotsInv'
  BY StepSlotsInv
<1> QED
  BY <1>1, <1>2, InitSlotsInv, PTL DEF SlotsSpec

-----------------------------------------------------------------------------
(* The receive buffer of a software serial object. *)

Cells == RingBytes \cup {NoByte}

(* The sketch never masks the interrupt, which moves m_inPos only, and     *)
(* only away from m_outPos: what the sketch has seen in the buffer is      *)
(* there when it comes back.                                               *)
RingInv ==
    /\ RingTypeOK
    /\ pc = "advance" => m_inPos # m_outPos /\ ch = m_buffer[m_outPos]
    /\ pc = "flush_in" => m_outPos = 0 /\ promised = 0
    /\ dropped <= arrived
    /\ PromiseKept

LEMMA RingNextIndex ==
    ASSUME NEW i \in 0..(m_buffSize - 1)
    PROVE  /\ next(i) \in 0..(m_buffSize - 1)
           /\ next(i) = IF i = m_buffSize - 1 THEN 0 ELSE i + 1
           /\ next(i) = After(m_buffSize, i)
<1>1. m_buffSize \in Nat \ {0}
  BY RingAssumption
<1> QED
  BY <1>1, AfterIs DEF next, After

LEMMA DeltaForm ==
    \A h, t \in 0..(m_buffSize - 1) :
        (IF h - t < 0 THEN h - t + m_buffSize ELSE h - t) = Span(m_buffSize, h, t)
BY RingAssumption DEF Span

LEMMA DeltaIsSpan ==
    ASSUME RingTypeOK
    PROVE  /\ delta = Span(m_buffSize, m_inPos, m_outPos)
           /\ delta \in 0..(m_buffSize - 1)
           /\ delta = 0 <=> m_inPos = m_outPos
           /\ RingContents = Window(m_buffSize, m_buffer, m_inPos, m_outPos)
<1>1. delta = Span(m_buffSize, m_inPos, m_outPos)
  BY RingAssumption DEF delta, Span, RingTypeOK
<1> QED
  BY <1>1, RingAssumption, SpanRange DEF RingTypeOK, RingContents, Window

LEMMA NextDelta ==
    ASSUME RingTypeOK'
    PROVE  delta' = Span(m_buffSize, m_inPos', m_outPos')
<1>1. m_inPos' \in 0..(m_buffSize - 1) /\ m_outPos' \in 0..(m_buffSize - 1)
  BY DEF RingTypeOK
<1> QED
  BY <1>1, DeltaForm DEF delta

LEMMA InitRingInv == RingInit => RingInv
<1> SUFFICES ASSUME RingInit PROVE RingInv
  OBVIOUS
<1>1. RingTypeOK
  <2>1. /\ m_buffer \in [0..(m_buffSize - 1) -> RingBytes \cup {NoByte}]
        /\ m_inPos \in 0..(m_buffSize - 1) /\ m_outPos \in 0..(m_buffSize - 1)
    BY RingAssumption DEF RingInit
  <2>2. arrived \in 0..MaxBytes /\ promised \in 0..m_buffSize /\ dropped \in 0..MaxBytes
    BY RingAssumption DEF RingInit
  <2> QED
    BY <2>1, <2>2 DEF RingInit, RingTypeOK
<1>2. delta = 0
  BY <1>1, DeltaIsSpan DEF RingInit
<1> QED
  BY <1>1, <1>2 DEF RingInit, RingInv, PromiseKept

LEMMA ReceiveKeepsRingInv == RingInv /\ rxRead => RingInv'
<1> SUFFICES ASSUME RingInv, rxRead PROVE RingInv'
  OBVIOUS
<1>1. /\ RingTypeOK /\ m_buffSize \in Nat \ {0} /\ MaxBytes \in Nat
      /\ m_inPos \in 0..(m_buffSize - 1) /\ m_outPos \in 0..(m_buffSize - 1)
      /\ arrived + 1 \in RingBytes /\ arrived' = arrived + 1 /\ dropped \in Nat
      /\ UNCHANGED <<m_outPos, rxEnabled, pc, ch, ret, promised>>
  BY RingAssumption DEF RingInv, RingTypeOK, rxRead, RingBytes
<1>2. CASE ~ringFull
  <2>1. /\ m_buffer' = [m_buffer EXCEPT ![m_inPos] = arrived + 1]
        /\ m_inPos' = next(m_inPos) /\ UNCHANGED <<m_overflow, dropped>>
    BY <1>2 DEF rxRead
  <2>2. RingTypeOK'
    <3>1. /\ m_buffer' \in [0..(m_buffSize - 1) -> RingBytes \cup {NoByte}]
          /\ m_inPos' \in 0..(m_buffSize - 1)
      BY <1>1, <2>1, RingNextIndex DEF RingTypeOK
    <3>2. arrived' \in 0..MaxBytes
      BY <1>1 DEF RingBytes
    <3> QED
      BY <1>1, <2>1, <3>1, <3>2 DEF RingTypeOK
  <2>3. delta' = delta + 1 /\ delta \in Nat /\ promised \in Nat
    <3>1. Span(m_buffSize, After(m_buffSize, m_inPos), m_outPos)
            = Span(m_buffSize, m_inPos, m_outPos) + 1
      BY <1>1, <1>2, SpanStep, RingNextIndex DEF ringFull
    <3>2. delta' = Span(m_buffSize, m_inPos', m_outPos')
      BY <2>2, NextDelta
    <3>3. m_inPos' = After(m_buffSize, m_inPos) /\ m_outPos' = m_outPos
      BY <1>1, <2>1, RingNextIndex
    <3>4. delta = Span(m_buffSize, m_inPos, m_outPos) /\ delta \in 0..(m_buffSize - 1)
      BY <1>1, DeltaIsSpan
    <3>5. delta' = delta + 1
      BY <3>1, <3>2, <3>3, <3>4
    <3> QED
      BY <1>1, <3>4, <3>5 DEF RingTypeOK
  <2>4. PromiseKept'
    BY <1>1, <2>3 DEF RingInv, PromiseKept
  <2>5. pc = "advance" => m_inPos' # m_outPos /\ m_buffer'[m_outPos] = m_buffer[m_outPos]
    BY <1>1, <1>2, <2>1 DEF RingInv, RingTypeOK, ringFull
  <2> QED
    BY <1>1, <2>1, <2>2, <2>4, <2>5 DEF RingInv, RingTypeOK
<1>3. CASE ringFull
  <2>1. /\ m_overflow' = TRUE /\ UNCHANGED <<m_buffer, m_inPos>>
        /\ dropped' = IF pc = "flush_in" THEN dropped ELSE dropped + 1
    BY <1>3 DEF rxRead
  <2>2. dropped' <= arrived' /\ dropped' \in 0..MaxBytes /\ arrived' \in 0..MaxBytes
    BY <1>1, <2>1 DEF RingInv, RingTypeOK, RingBytes
  <2>3. RingTypeOK'
    BY <1>1, <2>1, <2>2 DEF RingTypeOK
  <2> QED
    BY <1>1, <2>1, <2>2, <2>3 DEF RingInv, PromiseKept, delta
<1> QED
  BY <1>2, <1>3

LEMMA StepRingInv == RingInv /\ [RingNext]_ringVars => RingInv'
<1> SUFFICES ASSUME RingInv, [RingNext]_ringVars PROVE RingInv'
  OBVIOUS
<1>1. /\ RingTypeOK /\ m_buffSize \in Nat \ {0} /\ MaxBytes \in Nat
      /\ delta \in 0..(m_buffSize - 1) /\ promised \in Nat
      /\ m_buffer[m_outPos] \in Cells
  BY DeltaIsSpan, RingAssumption DEF RingInv, RingTypeOK, Cells
<1>2. CASE rxRead
  BY <1>2, ReceiveKeepsRingInv
<1>3. CASE \/ UNCHANGED ringVars \/ \E on \in BOOLEAN : setRx(on)
           \/ SoftwareSerial_peek \/ readNothing
  <2>1. RingTypeOK'
    BY <1>1, <1>3 DEF ringVars, setRx, SoftwareSerial_peek, readNothing, RingTypeOK, Cells
  <2> QED
    BY <1>3, <2>1 DEF ringVars, setRx, SoftwareSerial_peek, readNothing, RingInv, PromiseKept, delta
<1>4. CASE SoftwareSerial_available
  <2>1. RingTypeOK'
    BY <1>1, <1>4 DEF SoftwareSerial_available, RingTypeOK
  <2>2. delta' = delta
    BY <1>4 DEF SoftwareSerial_available, delta
  <2> QED
    BY <1>1, <1>4, <2>1, <2>2 DEF SoftwareSerial_available, RingInv, PromiseKept
<1>5. CASE SoftwareSerial_read
  <2>1. RingTypeOK'
    BY <1>1, <1>5 DEF SoftwareSerial_read, RingTypeOK, Cells
  <2> QED
    BY <1>5, <2>1 DEF SoftwareSerial_read, RingInv, PromiseKept, delta
<1>6. CASE advance
  <2>1. RingTypeOK'
    BY <1>1, <1>6, RingNextIndex DEF advance, RingTypeOK
  <2>2. m_inPos # m_outPos /\ promised <= delta
    BY <1>6 DEF advance, RingInv, PromiseKept
  <2>3. Span(m_buffSize, m_inPos, After(m_buffSize, m_outPos)) = delta - 1
    BY <1>1, <2>2, SpanStep, DeltaIsSpan DEF RingTypeOK
  <2>4. delta' = Span(m_buffSize, m_inPos', m_outPos')
    BY <2>1, NextDelta
  <2>5. delta' = delta - 1
    BY <1>1, <1>6, <2>3, <2>4, RingNextIndex DEF advance, RingTypeOK
  <2>6. PromiseKept'
    BY <1>1, <1>6, <2>2, <2>5, DeltaIsSpan DEF advance, PromiseKept
  <2> QED
    BY <1>6, <2>1, <2>6 DEF advance, RingInv
<1>7. CASE flushOut \/ flushIn \/ flushOverflow
  <2>1. RingTypeOK'
    <3>1. 0 \in 0..(m_buffSize - 1) /\ 0 \in 0..m_buffSize
      BY <1>1
    <3> QED
      BY <1>1, <1>7, <3>1 DEF flushOut, flushIn, flushOverflow, RingTypeOK
  <2>2. PromiseKept'
    BY <1>1, <1>7 DEF flushOut, flushIn, flushOverflow, RingInv, PromiseKept, delta
  <2> QED
    BY <1>7, <2>1, <2>2 DEF flushOut, flushIn, flushOverflow, RingInv
<1> QED
  BY <1>2, <1>3, <1>4, <1>5, <1>6, <1>7 DEF RingNext

(* Every access to the buffer is an operation of the queue or none. *)
LEMMA StepRingQueue == RingInv /\ RingInv' /\ [RingNext]_ringVars => [Queue!Next]_(Queue!qvars)
<1> SUFFICES ASSUME RingInv, RingInv', [RingNext]_ringVars PROVE [Queue!Next]_(Queue!qvars)
  OBVIOUS
<1> DEFINE W == Window(m_buffSize, m_buffer, m_inPos, m_outPos)
<1>1. /\ RingTypeOK /\ m_buffSize \in Nat \ {0}
      /\ m_buffer \in [0..(m_buffSize - 1) -> Cells]
      /\ m_inPos \in 0..(m_buffSize - 1) /\ m_outPos \in 0..(m_buffSize - 1)
  BY RingAssumption DEF RingInv, RingTypeOK, Cells
<1>2. RingContents = W /\ RingContents' = W'
  <2>1. RingContents = W
    BY <1>1, DeltaIsSpan
  <2>2. RingTypeOK'
    BY DEF RingInv
  <2>3. delta' = Span(m_buffSize, m_inPos', m_outPos')
    BY <2>2, NextDelta
  <2> QED
    BY <2>1, <2>3 DEF RingContents, Window
<1>3. /\ W \in Seq(Cells) /\ Len(W) = Span(m_buffSize, m_inPos, m_outPos)
      /\ Len(W) \in Nat
  <2>1. IsWindow(m_buffSize, Cells, m_buffer, m_inPos, m_outPos)
    BY <1>1, WindowIs
  <2> QED
    BY <2>1 DEF IsWindow
<1>4. m_inPos = m_outPos <=> W = <<>>
  <2>1. Span(m_buffSize, m_inPos, m_outPos) = 0 <=> m_inPos = m_outPos
    BY <1>1, SpanRange
  <2> QED
    BY <1>3, <2>1, EmptySeq
<1>5. m_inPos # m_outPos =>
        /\ Head(W) = m_buffer[m_outPos]
        /\ Window(m_buffSize, m_buffer, m_inPos, After(m_buffSize, m_outPos)) = Tail(W)
  BY <1>1, WindowTake
<1> HIDE DEF W
<1>6. CASE /\ UNCHANGED <<m_buffer, m_inPos, m_outPos, ret, dropped>>
           /\ pc' = "flush_in" <=> pc = "flush_in"
  <2>1. W' = W
    BY <1>6 DEF W
  <2> QED
    BY <1>2, <1>6, <2>1 DEF Waiting, Queue!qvars
<1>7. CASE UNCHANGED ringVars \/ (\E on \in BOOLEAN : setRx(on))
           \/ SoftwareSerial_available \/ SoftwareSerial_read \/ flushOverflow
  BY <1>6, <1>7 DEF ringVars, setRx, SoftwareSerial_available, SoftwareSerial_read, flushOverflow
<1>8. CASE rxRead /\ pc = "flush_in"
  <2>1. UNCHANGED <<ret, dropped, pc>>
    BY <1>8 DEF rxRead
  <2> QED
    BY <1>8, <2>1 DEF Waiting, Queue!qvars
<1>9. CASE rxRead /\ pc # "flush_in" /\ ~ringFull
  <2>1. /\ m_buffer' = [m_buffer EXCEPT ![m_inPos] = arrived + 1] /\ m_inPos' = next(m_inPos)
        /\ UNCHANGED <<m_outPos, ret, dropped, pc>>
    BY <1>9 DEF rxRead
  <2>2. PICK c \in Cells : c = arrived + 1 /\ c \in RingBytes
    BY <1>1, <1>9, RingAssumption DEF rxRead, RingTypeOK, RingBytes, Cells
  <2>3. After(m_buffSize, m_inPos) # m_outPos /\ next(m_inPos) = After(m_buffSize, m_inPos)
    BY <1>1, <1>9, RingNextIndex DEF ringFull
  <2>4. StoreAppends(m_buffSize, m_buffer, m_inPos, m_outPos, c)
    BY <1>1, <2>3, WindowStore
  <2>5. W' = Append(W, c)
    BY <2>1, <2>2, <2>3, <2>4 DEF StoreAppends, W
  <2>6. Len(W) < m_buffSize - 1
    <3>1. Span(m_buffSize, After(m_buffSize, m_inPos), m_outPos) = Len(W) + 1
      BY <1>1, <1>3, <2>3, SpanStep
    <3>2. After(m_buffSize, m_inPos) \in 0..(m_buffSize - 1)
      BY <1>1, AfterIs
    <3>3. Span(m_buffSize, After(m_buffSize, m_inPos), m_outPos) \in 0..(m_buffSize - 1)
      BY <1>1, <3>2, SpanRange
    <3> QED
      BY <1>1, <1>3, <3>1, <3>3
  <2>7. Queue!Put(c)
    BY <1>2, <1>9, <2>1, <2>5, <2>6 DEF Waiting, Queue!Put
  <2> QED
    BY <2>2, <2>7 DEF Queue!Next
<1>10. CASE rxRead /\ pc # "flush_in" /\ ringFull
  <2>1. UNCHANGED <<m_buffer, m_inPos, m_outPos, ret, pc>> /\ dropped' = dropped + 1
    BY <1>10 DEF rxRead
  <2>2. W' = W
    BY <2>1 DEF W
  <2>3. Len(W) = m_buffSize - 1
    BY <1>1, <1>3, <1>10, SpanStep, RingNextIndex DEF ringFull
  <2>4. Queue!Refuse
    BY <1>2, <1>10, <2>1, <2>2, <2>3 DEF Waiting, Queue!Refuse
  <2> QED
    BY <2>4 DEF Queue!Next
<1>11. CASE SoftwareSerial_peek
  <2>1. /\ pc = "idle" /\ UNCHANGED <<m_buffer, m_inPos, m_outPos, pc, dropped>>
        /\ ret' = IF m_inPos = m_outPos THEN NoByte ELSE m_buffer[m_outPos]
    BY <1>11 DEF SoftwareSerial_peek
  <2>2. W' = W
    BY <2>1 DEF W
  <2>3. Queue!Look
    BY <1>2, <1>4, <1>5, <2>1, <2>2 DEF Waiting, Queue!Look
  <2> QED
    BY <2>3 DEF Queue!Next
<1>12. CASE readNothing
  <2>1. /\ pc = "idle" /\ UNCHANGED <<m_buffer, m_inPos, m_outPos, pc, dropped>>
        /\ m_inPos = m_outPos /\ ret' = NoByte
    BY <1>12 DEF readNothing
  <2>2. W' = W
    BY <2>1 DEF W
  <2>3. Queue!GetNothing
    BY <1>2, <1>4, <2>1, <2>2 DEF Waiting, Queue!GetNothing
  <2> QED
    BY <2>3 DEF Queue!Next
<1>13. CASE advance
  <2>1. /\ pc = "advance" /\ pc' = "idle" /\ UNCHANGED <<m_buffer, m_inPos, dropped>>
        /\ m_outPos' = next(m_outPos) /\ ret' = ch
        /\ m_inPos # m_outPos /\ ch = m_buffer[m_outPos]
    BY <1>13 DEF advance, RingInv
  <2>2. W' = Tail(W)
    BY <1>1, <1>5, <2>1, RingNextIndex DEF W
  <2>3. Queue!Get
    BY <1>2, <1>4, <1>5, <2>1, <2>2 DEF Waiting, Queue!Get
  <2> QED
    BY <2>3 DEF Queue!Next
<1>14. CASE flushOut
  <2>1. Queue!Clear
    BY <1>14 DEF flushOut, Waiting, Queue!Clear
  <2> QED
    BY <2>1 DEF Queue!Next
<1>15. CASE flushIn
  <2>1. /\ pc = "flush_in" /\ pc' = "flush_overflow" /\ UNCHANGED <<ret, dropped>>
        /\ m_inPos' = 0 /\ m_outPos' = 0
    BY <1>15 DEF flushIn, RingInv
  <2>2. delta' = 0
    BY <2>1, RingAssumption DEF delta
  <2>3. Waiting = <<>> /\ Waiting' = <<>>
    BY <2>1, <2>2 DEF Waiting, RingContents
  <2> QED
    BY <2>1, <2>3 DEF Queue!qvars
<1> QED
  BY <1>7, <1>8, <1>9, <1>10, <1>11, <1>12, <1>13, <1>14, <1>15 DEF RingNext

(* Without masking the interrupt, read(), peek() and flush() make the      *)
(* buffer the bounded queue it should be, whatever rxRead() stores between *)
(* their accesses, and available() never promises a byte that is not there. *)
THEOREM RingIsRight == RingSpec => RingRight
<1>1. RingInit => Queue!Init
  <2> SUFFICES ASSUME RingInit PROVE Queue!Init
    OBVIOUS
  <2>1. delta = 0
    BY InitRingInv, DeltaIsSpan DEF RingInit, RingInv
  <2> QED
    BY <2>1 DEF RingInit, Waiting, RingContents, Queue!Init
<1>2. RingInv => PromiseKept
  BY DEF RingInv
<1> QED
  BY InitRingInv, StepRingInv, StepRingQueue, <1>1, <1>2, PTL
  DEF RingSpec, RingRight, ImplementsQueue, Queue!Spec

-----------------------------------------------------------------------------
(* The resizable buffer. *)

Data == Bytes \cup {0}

(* Where the i-th waiting byte is stored. *)
Cell(i) == IF _begin + i - 1 < _size THEN _begin + i - 1 ELSE _begin + i - 1 - _size

(* The waiting bytes are those accepted and not yet taken, in their order. *)
CbufInv ==
    /\ TypeOK
    /\ Len(kept) = available
    /\ \A i \in 1..available : kept[i] = mem[Cell(i)]

LEMMA Sizes ==
    ASSUME TypeOK
    PROVE  /\ _size \in Nat /\ _size > 0 /\ _begin \in Nat /\ _end \in Nat
           /\ _begin < _size /\ _end < _size
           /\ available \in Nat /\ available < _size
           /\ Cell(available + 1) = _end
           /\ \A i \in 1.._size : Cell(i) \in 0..(_size - 1)
BY DEF TypeOK, available, Cell

LEMMA RoomIs ==
    ASSUME TypeOK
    PROVE  room = _size - 1 - available /\ RoomAgrees
<1>1. WORD \in Nat \ {0} /\ _size <= MaxSize /\ MaxSize \in Nat /\ WORD > 2 * MaxSize
  BY CbufAssumption DEF TypeOK
<1>2. room = _size - 1 - available
  <2>1. CASE _end >= _begin
    <3>1. PICK r \in 0..(WORD + WORD - 1) : r = _size - (_end - _begin) - 1 /\ r < WORD
      BY <1>1, <2>1, Sizes
    <3>2. r % WORD = r
      BY <1>1, <3>1, ModOfSum
    <3> QED
      BY <2>1, <3>1, <3>2, Sizes DEF room, available
  <2>2. CASE ~(_end >= _begin)
    BY <2>2, Sizes DEF room, available
  <2> QED
    BY <2>1, <2>2
<1>3. full <=> room = 0
  BY <1>2, Sizes DEF full, wrap_if_bufend, available
<1>4. empty <=> available = 0
  BY Sizes DEF empty, available
<1>5. available + room = _size - 1
  BY <1>2, Sizes
<1> QED
  BY <1>2, <1>3, <1>4, <1>5 DEF RoomAgrees

(* A copy out of the storage, where it does not leave it. *)
LEMMA OutIs ==
    ASSUME TypeOK, NEW from \in Nat, NEW n \in Nat, from + n <= _size
    PROVE  /\ Out(from, n) \in Seq(Data) /\ Len(Out(from, n)) = n
           /\ \A i \in 1..n : Out(from, n)[i] = mem[from + i - 1]
<1>1. mem \in [0..(_size - 1) -> Data] /\ _size \in Nat
  BY Sizes DEF TypeOK, Data
<1>2. \A i \in 1..n : from + i - 1 \in DOMAIN mem /\ mem[from + i - 1] \in Data
  BY <1>1
<1>3. PICK f : f = [i \in 1..n |-> mem[from + i - 1]]
  OBVIOUS
<1>4. Out(from, n) = f
  BY <1>2, <1>3 DEF Out
<1>5. f \in Seq(Data) /\ Len(f) = n
  <2>1. f \in [1..n -> Data]
    BY <1>2, <1>3
  <2> QED
    BY <2>1, FunctionIsSeq
<1> QED
  BY <1>3, <1>4, <1>5

(* The two-part copy delivers the oldest bytes, from wherever they are. *)
IsCopied(n) ==
    /\ Copied(n) \in Seq(Data) /\ Len(Copied(n)) = n
    /\ \A i \in 1..n : Copied(n)[i] = mem[Cell(i)]

LEMMA CopiedIs ==
    ASSUME TypeOK, NEW n \in Nat, n <= available
    PROVE  IsCopied(n) /\ Advanced(n) = Cell(n + 1)
<1> DEFINE rest == IF Top(n) > 0 THEN 0 ELSE _begin
<1>1. /\ Top(n) \in Nat /\ Top(n) <= n /\ n - Top(n) \in Nat /\ rest \in Nat
      /\ _begin + Top(n) <= _size /\ rest + (n - Top(n)) <= _size
      /\ Top(n) > 0 => Top(n) = _size - _begin
  BY Sizes DEF Top, available
<1> DEFINE a == Out(_begin, Top(n))
           b == Out(rest, n - Top(n))
<1>2. /\ a \in Seq(Data) /\ Len(a) = Top(n)
      /\ \A i \in 1..Top(n) : a[i] = mem[_begin + i - 1]
  BY <1>1, Sizes, OutIs
<1>3. /\ b \in Seq(Data) /\ Len(b) = n - Top(n)
      /\ \A i \in 1..(n - Top(n)) : b[i] = mem[rest + i - 1]
  BY <1>1, OutIs
<1>4. Copied(n) = a \o b
  BY DEF Copied
<1> HIDE DEF a, b
<1>5. /\ Copied(n) \in Seq(Data) /\ Len(Copied(n)) = n
      /\ \A i \in 1..Top(n) : Copied(n)[i] = a[i]
      /\ \A i \in 1..(n - Top(n)) : Copied(n)[Top(n) + i] = b[i]
  <2>1. IsConcat(Data, a, b)
    BY <1>2, <1>3, ConcatIs
  <2>2. Top(n) + (n - Top(n)) = n
    BY <1>1
  <2> QED
    BY <1>2, <1>3, <1>4, <2>1, <2>2 DEF IsConcat
<1>6. ASSUME NEW i \in 1..n PROVE Copied(n)[i] = mem[Cell(i)]
  <2>1. CASE i <= Top(n)
    <3>1. i \in 1..Top(n) /\ _begin + i - 1 < _size
      BY <1>1, <2>1, Sizes
    <3> QED
      BY <1>2, <1>5, <2>1, <3>1 DEF Cell
  <2>2. CASE ~(i <= Top(n))
    <3>1. PICK j \in 1..(n - Top(n)) : j = i - Top(n) /\ Top(n) + j = i
      BY <1>1, <2>2
    <3>2. rest + j - 1 = Cell(i)
      BY <1>1, <2>2, <3>1, Sizes DEF Cell, Top, available
    <3> QED
      BY <1>3, <1>5, <3>1, <3>2
  <2> QED
    BY <2>1, <2>2
<1>7. Advanced(n) = Cell(n + 1)
  BY <1>1, Sizes DEF Advanced, wrap_if_bufend, Cell, Top, available
<1> QED
  BY <1>5, <1>6, <1>7 DEF IsCopied

(* What the invariant says of the data, in the words of the properties. *)
LEMMA CopiesAreKept ==
    ASSUME CbufInv, NEW n \in Nat, n <= available
    PROVE  /\ Copied(n) \in Seq(Bytes) /\ Len(Copied(n)) = n
           /\ \A i \in 1..n : Copied(n)[i] = kept[i]
<1>1. /\ Copied(n) \in Seq(Data) /\ Len(Copied(n)) = n
      /\ \A i \in 1..n : Copied(n)[i] = mem[Cell(i)]
  <2>1. IsCopied(n)
    BY CopiedIs DEF CbufInv
  <2> QED
    BY <2>1 DEF IsCopied
<1>2. available \in Nat /\ kept \in Seq(Bytes) /\ Len(kept) = available
  BY Sizes DEF CbufInv, TypeOK
<1>3. \A i \in 1..n : i \in 1..available /\ kept[i] = mem[Cell(i)] /\ kept[i] \in Bytes
  BY <1>2, ElementOfSeq DEF CbufInv
<1> QED
  BY <1>1, <1>3

LEMMA HoldsContents == CbufInv => NothingLost /\ RoomAgrees
<1> SUFFICES ASSUME CbufInv PROVE NothingLost
  BY RoomIs DEF CbufInv
<1>1. available \in Nat /\ kept \in Seq(Bytes) /\ Len(kept) = available
  BY Sizes DEF CbufInv, TypeOK
<1>2. /\ Copied(available) \in Seq(Bytes) /\ Len(Copied(available)) = available
      /\ \A i \in 1..available : Copied(available)[i] = kept[i]
  BY <1>1, CopiesAreKept
<1> QED
  BY <1>1, <1>2, SeqEqual DEF NothingLost, Contents

(* The arithmetic of a storage of size z whose data begins at b and ends   *)
(* before e.                                                               *)
CellOf(z, b, i) == IF b + i - 1 < z THEN b + i - 1 ELSE b + i - 1 - z

CountOf(z, b, e) == IF e >= b THEN e - b ELSE z - (b - e)

LEMMA TakeArithmetic ==
    ASSUME NEW z \in Nat, NEW b \in 0..(z - 1), NEW e \in 0..(z - 1), NEW k \in Nat,
           k <= CountOf(z, b, e)
    PROVE  /\ CellOf(z, b, k + 1) \in 0..(z - 1)
           /\ CountOf(z, CellOf(z, b, k + 1), e) = CountOf(z, b, e) - k
           /\ \A i \in 1..(CountOf(z, b, e) - k) :
                CellOf(z, CellOf(z, b, k + 1), i) = CellOf(z, b, k + i)
BY DEF CellOf, CountOf

LEMMA StoreArithmetic ==
    ASSUME NEW z \in Nat, NEW b \in 0..(z - 1), NEW e \in 0..(z - 1), NEW k \in Nat,
           k <= z - 1 - CountOf(z, b, e)
    PROVE  /\ CellOf(z, b, CountOf(z, b, e) + k + 1) \in 0..(z - 1)
           /\ CountOf(z, b, CellOf(z, b, CountOf(z, b, e) + k + 1)) = CountOf(z, b, e) + k
BY DEF CellOf, CountOf

(* Two pieces are needed when n bytes do not fit before the end. *)
CutOf(z, b, e, n) == e >= b /\ n > z - e

TopOf(z, b, e, n) == IF CutOf(z, b, e, n) THEN z - e ELSE 0

RestOf(z, b, e, n) == IF CutOf(z, b, e, n) THEN 0 ELSE e

(* Where the waiting bytes and the two pieces go. *)
Placed(z, b, e, n, k, top, dst) ==
    /\ k \in Nat /\ top \in Nat /\ dst \in Nat /\ top <= n
    /\ \A i \in 1..top : /\ CellOf(z, b, k + i) = e + i - 1
                        /\ CellOf(z, b, k + i) \in 0..(z - 1)
                        /\ CellOf(z, b, k + i) \notin dst..(dst + (n - top) - 1)
                        /\ CellOf(z, b, k + i) \in e..(e + top - 1)
    /\ \A i \in 1..(n - top) :
         /\ CellOf(z, b, k + (top + i)) = dst + i - 1
         /\ CellOf(z, b, k + (top + i)) \in 0..(z - 1)
         /\ CellOf(z, b, k + (top + i)) \in dst..(dst + (n - top) - 1)
    /\ \A i \in 1..k : /\ CellOf(z, b, i) \in 0..(z - 1)
                      /\ CellOf(z, b, i) # e
                      /\ CellOf(z, b, i) \notin dst..(dst + (n - top) - 1)
                      /\ CellOf(z, b, i) \notin e..(e + top - 1)
    /\ CellOf(z, b, k + n + 1) = IF dst + n - top = z THEN 0 ELSE dst + n - top

LEMMA WriteArithmetic ==
    ASSUME NEW z \in Nat, NEW b \in 0..(z - 1), NEW e \in 0..(z - 1), NEW n \in Nat,
           NEW k, k = CountOf(z, b, e), n <= z - 1 - k,
           NEW top, top = TopOf(z, b, e, n), NEW dst, dst = RestOf(z, b, e, n)
    PROVE  Placed(z, b, e, n, k, top, dst)
<1>1. CASE CutOf(z, b, e, n)
  BY <1>1 DEF Placed, CellOf, CountOf, CutOf, TopOf, RestOf
<1>2. CASE ~CutOf(z, b, e, n)
  BY <1>2 DEF Placed, CellOf, CountOf, CutOf, TopOf, RestOf
<1> QED
  BY <1>1, <1>2

LEMMA InitCbufInv == Init => CbufInv
<1> SUFFICES ASSUME Init PROVE CbufInv
  OBVIOUS
<1>1. _size \in Nat /\ _size > 0
  BY CbufAssumption DEF Init
<1>2. TypeOK
  <2>1. mem \in [0..(_size - 1) -> Bytes \cup {0}]
    BY DEF Init
  <2>2. <<>> \in Seq(Bytes)
    BY EmptySeq
  <2> QED
    BY <1>1, <2>1, <2>2 DEF Init, TypeOK
<1>3. available = 0 /\ Len(kept) = 0
  BY DEF Init, available
<1> QED
  BY <1>2, <1>3 DEF CbufInv

(* Taking the k oldest bytes, delivered or not, leaves the others. *)
LEMMA TakeKeepsCbufInv ==
    ASSUME CbufInv, NEW k \in Nat, k <= available, _begin' = Cell(k + 1),
           UNCHANGED <<mem, _size, _end>>,
           kept' = SubSeq(kept, k + 1, Len(kept)), out' \in Seq(Bytes)
    PROVE  CbufInv'
<1>1. TypeOK /\ kept \in Seq(Bytes) /\ Len(kept) = available /\ available \in Nat
  BY Sizes DEF CbufInv, TypeOK
<1>2. _begin' \in 0..(_size - 1)
  BY <1>1, Sizes
<1>3. /\ available' = available - k
      /\ \A i \in 1..(available - k) : Cell(i)' = Cell(k + i)
  <2>1. _size \in Nat /\ _begin \in 0..(_size - 1) /\ _end \in 0..(_size - 1)
    BY <1>1 DEF TypeOK
  <2>2. available = CountOf(_size, _begin, _end) /\ available' = CountOf(_size, _begin', _end)
    BY DEF available, CountOf
  <2>3. /\ \A i : Cell(i) = CellOf(_size, _begin, i)
        /\ \A i : Cell(i)' = CellOf(_size, _begin', i)
    BY DEF Cell, CellOf
  <2> QED
    BY <2>1, <2>2, <2>3, TakeArithmetic
<1>4. /\ kept' \in Seq(Bytes) /\ Len(kept') = available - k
      /\ \A i \in 1..(available - k) : kept'[i] = kept[k + i]
  <2>1. PICK m \in Int : m = k + 1
    OBVIOUS
  <2>2. PICK n \in Int : n = Len(kept)
    BY <1>1
  <2>3. \A i \in m..n : kept[i] \in Bytes
    BY <1>1, <2>1, <2>2, ElementOfSeq
  <2>4. /\ SubSeq(kept, m, n) \in Seq(Bytes)
        /\ Len(SubSeq(kept, m, n)) = IF m <= n THEN n - m + 1 ELSE 0
        /\ \A i \in 1..(n - m + 1) : SubSeq(kept, m, n)[i] = kept[m + i - 1]
    BY <2>3, SubSeqProperties
  <2>5. Len(kept') = available - k
    BY <1>1, <2>1, <2>2, <2>4
  <2>6. ASSUME NEW i \in 1..(available - k) PROVE kept'[i] = kept[k + i]
    <3>1. i \in 1..(n - m + 1) /\ m + i - 1 = k + i
      BY <1>1, <2>1, <2>2
    <3> QED
      BY <2>1, <2>2, <2>4, <3>1
  <2> QED
    BY <2>1, <2>2, <2>4, <2>5, <2>6
<1>5. TypeOK'
  BY <1>1, <1>2, <1>4 DEF TypeOK
<1>6. ASSUME NEW i \in 1..available' PROVE kept'[i] = mem'[Cell(i)']
  <2>1. k + i \in 1..available /\ i \in 1..(available - k)
    BY <1>1, <1>3
  <2>2. Cell(i)' = Cell(k + i)
    BY <1>3, <2>1
  <2>3. kept[k + i] = mem[Cell(k + i)]
    BY <2>1 DEF CbufInv
  <2> QED
    BY <1>4, <2>1, <2>2, <2>3
<1> QED
  BY <1>3, <1>4, <1>5, <1>6 DEF CbufInv

(* What read and peek deliver is the beginning of what waits. *)
Delivers(o) ==
    /\ IsPrefix(o, kept)
    /\ kept' = kept \/ kept = o \o kept'

LEMMA CopyDelivers ==
    ASSUME CbufInv, NEW k \in Nat, k <= available,
           kept' = kept \/ kept' = SubSeq(kept, k + 1, Len(kept))
    PROVE  Delivers(Copied(k)) /\ Copied(k) \in Seq(Bytes)
<1>1. TypeOK /\ kept \in Seq(Bytes) /\ Len(kept) = available /\ available \in Nat
  BY Sizes DEF CbufInv, TypeOK
<1>2. /\ Copied(k) \in Seq(Bytes) /\ Len(Copied(k)) = k
      /\ \A i \in 1..k : Copied(k)[i] = kept[i]
  BY CopiesAreKept
<1>3. PICK c \in Seq(Bytes) : c = Copied(k)
  BY <1>2
<1>4. SubSeq(kept, 1, k) = c
  <2>1. \A i \in 1..k : kept[i] \in Bytes
    BY <1>1, ElementOfSeq
  <2>2. /\ SubSeq(kept, 1, k) \in Seq(Bytes)
        /\ Len(SubSeq(kept, 1, k)) = IF 1 <= k THEN k - 1 + 1 ELSE 0
        /\ \A i \in 1..(k - 1 + 1) : SubSeq(kept, 1, k)[i] = kept[1 + i - 1]
    BY <2>1, SubSeqProperties
  <2>3. Len(SubSeq(kept, 1, k)) = k
    BY <2>2
  <2>4. \A i \in 1..k : SubSeq(kept, 1, k)[i] = kept[i]
    BY <2>2
  <2> QED
    BY <1>2, <1>3, <2>2, <2>3, <2>4, SeqEqual
<1>5. SubSeq(c, 1, Len(c)) = c
  BY SubSeqFull
<1>6. IsPrefix(c, kept)
  BY <1>1, <1>2, <1>3, <1>4, <1>5 DEF IsPrefix
<1>7. SubSeq(kept, 1, k) \o SubSeq(kept, k + 1, Len(kept)) = kept
  <2>1. 1 \in 1..(Len(kept) + 1) /\ k \in (1 - 1)..Len(kept) /\ Len(kept) \in k..Len(kept)
    BY <1>1
  <2>2. SubSeq(kept, 1, k) \o SubSeq(kept, k + 1, Len(kept)) = SubSeq(kept, 1, Len(kept))
    BY <1>1, <2>1, ConcatAdjacentSubSeq, Zenon
  <2> QED
    BY <1>1, <2>2, SubSeqFull
<1> QED
  BY <1>3, <1>4, <1>6, <1>7 DEF Delivers

(* Storing t behind the waiting bytes. *)
LEMMA StoreKeepsCbufInv ==
    ASSUME CbufInv, NEW t \in Seq(Bytes), Len(t) <= _size - 1 - available,
           mem' \in [0..(_size - 1) -> Data],
           \A i \in 1..available : mem'[Cell(i)] = mem[Cell(i)],
           \A i \in 1..Len(t) : mem'[Cell(available + i)] = t[i],
           _end' = Cell(available + Len(t) + 1), UNCHANGED <<_size, _begin, out>>,
           kept' = kept \o t
    PROVE  CbufInv'
<1>1. /\ TypeOK /\ kept \in Seq(Bytes) /\ Len(kept) = available /\ available \in Nat
      /\ Len(t) \in Nat
  BY Sizes, LenProperties DEF CbufInv, TypeOK
<1>2. IsConcat(Bytes, kept, t)
  BY <1>1, ConcatIs
<1>3. available' = available + Len(t) /\ _end' \in 0..(_size - 1)
  <2>1. _size \in Nat /\ _begin \in 0..(_size - 1) /\ _end \in 0..(_size - 1)
    BY <1>1 DEF TypeOK
  <2>2. available = CountOf(_size, _begin, _end) /\ available' = CountOf(_size, _begin, _end')
    BY DEF available, CountOf
  <2>3. _end' = CellOf(_size, _begin, available + Len(t) + 1)
    BY DEF Cell, CellOf
  <2> QED
    BY <1>1, <2>1, <2>2, <2>3, StoreArithmetic
<1>4. TypeOK'
  BY <1>1, <1>2, <1>3 DEF TypeOK, IsConcat, Data
<1>5. ASSUME NEW i \in 1..available' PROVE kept'[i] = mem'[Cell(i)']
  <2>1. Cell(i)' = Cell(i)
    BY DEF Cell
  <2>2. CASE i <= available
    <3>1. i \in 1..available /\ kept'[i] = kept[i]
      BY <1>1, <1>2, <1>3, <2>2 DEF IsConcat
    <3> QED
      BY <2>1, <3>1 DEF CbufInv
  <2>3. CASE ~(i <= available)
    <3>1. PICK j \in 1..Len(t) : i = available + j
      <4>1. i - available \in 1..Len(t) /\ i = available + (i - available)
        BY <1>1, <1>3, <2>3
      <4> QED
        BY <4>1
    <3>2. kept'[i] = t[j]
      BY <1>1, <1>2, <3>1 DEF IsConcat
    <3> QED
      BY <2>1, <3>1, <3>2
  <2> QED
    BY <2>2, <2>3
<1> QED
  BY <1>1, <1>2, <1>3, <1>4, <1>5 DEF CbufInv, IsConcat

LEMMA FlushKeepsCbufInv == CbufInv /\ flush => CbufInv'
<1> SUFFICES ASSUME CbufInv, flush PROVE CbufInv'
  OBVIOUS
<1>1. /\ TypeOK /\ _size \in Nat /\ _size > 0
      /\ _begin' = 0 /\ _end' = 0 /\ kept' = <<>> /\ UNCHANGED <<mem, _size, out>>
  BY Sizes DEF flush, CbufInv
<1>2. TypeOK'
  <2>1. <<>> \in Seq(Bytes)
    BY EmptySeq
  <2> QED
    BY <1>1, <2>1 DEF TypeOK
<1>3. available' = 0 /\ Len(kept') = 0
  BY <1>1 DEF available
<1> QED
  BY <1>2, <1>3 DEF CbufInv

LEMMA ReadIsCopy ==
    ASSUME CbufInv, ~empty
    PROVE  /\ available >= 1 /\ Out(_begin, 1) = Copied(1)
           /\ wrap_if_bufend(_begin + 1) = Cell(2)
           /\ Tail(kept) = SubSeq(kept, 2, Len(kept))
<1>1. /\ TypeOK /\ kept \in Seq(Bytes) /\ Len(kept) = available /\ available \in Nat
      /\ _size \in Nat /\ _begin \in Nat /\ _begin < _size
  BY Sizes DEF CbufInv, TypeOK
<1>2. available >= 1
  BY <1>1, Sizes DEF empty, available
<1>3. /\ Out(_begin, 1) \in Seq(Data) /\ Len(Out(_begin, 1)) = 1
      /\ \A i \in 1..1 : Out(_begin, 1)[i] = mem[_begin + i - 1]
  <2>1. PICK k \in Nat : k = 1 /\ _begin + k <= _size
    BY <1>1
  <2>2. /\ Out(_begin, k) \in Seq(Data) /\ Len(Out(_begin, k)) = k
        /\ \A i \in 1..k : Out(_begin, k)[i] = mem[_begin + i - 1]
    BY <1>1, <2>1, OutIs
  <2> QED
    BY <2>1, <2>2
<1>4. IsCopied(1)
  BY <1>1, <1>2, CopiedIs
<1>5. Out(_begin, 1) = Copied(1)
  <2>1. Cell(1) = _begin + 1 - 1
    BY <1>1 DEF Cell
  <2>2. \A i \in 1..1 : Out(_begin, 1)[i] = Copied(1)[i]
    BY <1>3, <1>4, <2>1 DEF IsCopied
  <2> QED
    BY <1>3, <1>4, <2>2, SeqEqual DEF IsCopied
<1>6. wrap_if_bufend(_begin + 1) = Cell(2)
  BY <1>1 DEF wrap_if_bufend, Cell
<1>7. kept # <<>>
  BY <1>1, <1>2, EmptySeq
<1> QED
  BY <1>1, <1>2, <1>5, <1>6, <1>7, TailIsSubSeq

(* read(), read(dst, n), remove(), peek() and peek(dst, n). *)
LEMMA ReadersKeepCbufInv ==
    ASSUME CbufInv,
           \/ read \/ peek
           \/ \E n \in 0..MaxSize : remove(n) \/ readN(n) \/ peekN(n)
    PROVE  CbufInv' /\ (out' # out => Delivers(out'))
<1>1. /\ TypeOK /\ out \in Seq(Bytes) /\ available \in Nat /\ MaxSize \in Nat
  BY CbufAssumption, Sizes DEF CbufInv, TypeOK
<1>2. ASSUME NEW k \in Nat, k <= available, _begin' = Cell(k + 1), UNCHANGED <<mem, _size, _end>>,
             kept' = SubSeq(kept, k + 1, Len(kept)), out' = Copied(k)
      PROVE  CbufInv' /\ (out' # out => Delivers(out'))
  <2>1. Delivers(Copied(k)) /\ Copied(k) \in Seq(Bytes)
    BY <1>2, CopyDelivers
  <2> QED
    BY <1>2, <2>1, TakeKeepsCbufInv
<1>3. ASSUME NEW k \in Nat, k <= available, UNCHANGED <<mem, _size, _begin, _end, kept>>,
             out' = Copied(k)
      PROVE  CbufInv' /\ (out' # out => Delivers(out'))
  <2>1. Delivers(Copied(k)) /\ Copied(k) \in Seq(Bytes)
    BY <1>3, CopyDelivers
  <2>2. TypeOK'
    BY <1>1, <1>3, <2>1 DEF TypeOK
  <2>3. available' = available /\ \A i : Cell(i)' = Cell(i)
    BY <1>3 DEF available, Cell
  <2> QED
    BY <1>3, <2>1, <2>2, <2>3 DEF CbufInv
<1>4. CASE read
  <2>1. /\ ~empty /\ out' = Out(_begin, 1) /\ _begin' = wrap_if_bufend(_begin + 1)
        /\ kept' = Tail(kept) /\ UNCHANGED <<mem, _size, _end>>
    BY <1>4 DEF read
  <2>2. /\ 1 \in Nat /\ 1 <= available /\ out' = Copied(1) /\ _begin' = Cell(1 + 1)
        /\ kept' = SubSeq(kept, 1 + 1, Len(kept))
    BY <2>1, ReadIsCopy
  <2> QED
    BY <1>2, <2>1, <2>2
<1>5. CASE peek
  <2>1. ~empty /\ out' = Out(_begin, 1) /\ UNCHANGED <<mem, _size, _begin, _end, kept>>
    BY <1>5 DEF peek
  <2>2. 1 \in Nat /\ 1 <= available /\ out' = Copied(1)
    BY <1>1, <2>1, ReadIsCopy
  <2> QED
    BY <1>3, <2>1, <2>2
<1>6. ASSUME NEW n \in 0..MaxSize, remove(n) PROVE CbufInv' /\ (out' # out => Delivers(out'))
  <2>1. /\ n \in Nat /\ n <= available /\ _begin' = Advanced(n)
        /\ kept' = SubSeq(kept, n + 1, Len(kept)) /\ UNCHANGED <<mem, _size, _end, out>>
    BY <1>1, <1>6 DEF remove
  <2>2. Advanced(n) = Cell(n + 1)
    BY <1>1, <2>1, CopiedIs
  <2> QED
    BY <1>1, <2>1, <2>2, TakeKeepsCbufInv
<1>7. ASSUME NEW n \in 0..MaxSize, readN(n) PROVE CbufInv' /\ (out' # out => Delivers(out'))
  <2>1. PICK k \in Nat : k = Least(n, available) /\ k <= available
    BY <1>1 DEF Least
  <2>2. /\ out' = Copied(k) /\ _begin' = Advanced(k)
        /\ kept' = SubSeq(kept, k + 1, Len(kept)) /\ UNCHANGED <<mem, _size, _end>>
    BY <1>7, <2>1 DEF readN
  <2>3. Advanced(k) = Cell(k + 1)
    BY <1>1, <2>1, CopiedIs
  <2> QED
    BY <1>2, <2>1, <2>2, <2>3
<1>8. ASSUME NEW n \in 0..MaxSize, peekN(n) PROVE CbufInv' /\ (out' # out => Delivers(out'))
  <2>1. PICK k \in Nat : k = Least(n, available) /\ k <= available
    BY <1>1 DEF Least
  <2> QED
    BY <1>3, <1>8, <2>1 DEF peekN
<1> QED
  BY <1>4, <1>5, <1>6, <1>7, <1>8

(* The copy of resize(): without the exact fit the bytes have a place left *)
(* behind them.                                                            *)
LEMMA ResizeKeepsCbufInv ==
    ASSUME ~ExactFit, CbufInv, NEW n \in Nat, resize(n)
    PROVE  CbufInv'
<1>1. /\ TypeOK /\ kept \in Seq(Bytes) /\ Len(kept) = available /\ available \in Nat
      /\ MaxSize \in Nat
  BY CbufAssumption, Sizes DEF CbufInv, TypeOK
<1>2. /\ n + 1 <= MaxSize /\ available <= n
      /\ mem' = In([i \in 0..n |-> 0], 0, Copied(available))
      /\ _size' = n + 1 /\ _begin' = 0 /\ _end' = available
      /\ UNCHANGED <<out, kept>>
  <2>1. /\ n + 1 <= MaxSize /\ n + 1 >= available /\ n + 1 # available
        /\ mem' = In([i \in 0..n |-> 0], 0, Copied(available))
        /\ _size' = n + 1 /\ _begin' = 0 /\ _end' = available
        /\ UNCHANGED <<out, kept>>
    BY Zenon DEF resize
  <2>2. available <= n
    BY <1>1, <2>1
  <2> QED
    BY <2>1, <2>2, Zenon
<1>3. /\ Copied(available) \in Seq(Bytes) /\ Len(Copied(available)) = available
      /\ \A i \in 1..available : Copied(available)[i] = kept[i]
  <2>1. available \in Nat /\ available <= available
    BY <1>1
  <2> QED
    BY <2>1, CopiesAreKept, Zenon
<1>4. \A i \in 1..available : kept[i] \in Bytes
  BY <1>1, ElementOfSeq
<1>5. mem' = [i \in 0..n |-> IF i \in 0..(available - 1) THEN kept[i + 1] ELSE 0]
  <2>1. DOMAIN [i \in 0..n |-> 0] = 0..n
    OBVIOUS
  <2>2. mem' = [i \in 0..n |-> IF i \in 0..(0 + available - 1) THEN Copied(available)[i - 0 + 1]
                                                            ELSE [j \in 0..n |-> 0][i]]
    BY <1>2, <1>3, <2>1 DEF In
  <2>3. ASSUME NEW i \in 0..n
        PROVE  (IF i \in 0..(0 + available - 1) THEN Copied(available)[i - 0 + 1]
                                              ELSE [j \in 0..n |-> 0][i])
                 = IF i \in 0..(available - 1) THEN kept[i + 1] ELSE 0
    <3>1. i - 0 + 1 = i + 1 /\ 0 + available - 1 = available - 1
      BY <1>1
    <3>2. i \in 0..(available - 1) => i + 1 \in 1..available
      BY <1>1
    <3> QED
      BY <1>3, <3>1, <3>2
  <2> QED
    BY <2>2, <2>3
<1>6. \A i \in 0..n : (IF i \in 0..(available - 1) THEN kept[i + 1] ELSE 0) \in Data
  BY <1>1, <1>4 DEF Data
<1>7. TypeOK'
  <2>1. n + 1 \in 1..MaxSize /\ (n + 1) - 1 = n /\ 0 \in 0..n /\ available \in 0..n
    BY <1>1, <1>2
  <2>2. mem' \in [0..n -> Bytes \cup {0}]
    BY <1>5, <1>6 DEF Data
  <2>3. out' \in Seq(Bytes) /\ kept' \in Seq(Bytes)
    BY <1>1, <1>2 DEF TypeOK
  <2> QED
    BY <1>2, <2>1, <2>2, <2>3 DEF TypeOK
<1>8. available' = available
  BY <1>1, <1>2 DEF available
<1>9. ASSUME NEW i \in 1..available PROVE kept'[i] = mem'[Cell(i)']
  <2>1. Cell(i)' = i - 1 /\ i - 1 \in 0..n /\ i - 1 \in 0..(available - 1) /\ (i - 1) + 1 = i
    BY <1>1, <1>2 DEF Cell
  <2> QED
    BY <1>2, <1>5, <2>1
<1> QED
  BY <1>1, <1>2, <1>7, <1>8, <1>9 DEF CbufInv

(* write(c) stores behind what waits. *)
LEMMA WriteKeepsCbufInv ==
    ASSUME CbufInv, NEW c \in Bytes, write(c)
    PROVE  CbufInv'
<1>1. /\ TypeOK /\ kept \in Seq(Bytes) /\ available \in Nat /\ _size \in Nat
      /\ mem \in [0..(_size - 1) -> Data] /\ _end \in 0..(_size - 1)
      /\ _end = Cell(available + 1)
  BY Sizes DEF CbufInv, TypeOK, Data
<1>2. /\ ~full /\ mem' = In(mem, _end, <<c>>) /\ _end' = wrap_if_bufend(_end + 1)
      /\ kept' = Append(kept, c) /\ UNCHANGED <<_size, _begin, out>>
  BY DEF write
<1>3. PICK t : t = <<c>> /\ t \in Seq(Bytes) /\ Len(t) = 1 /\ t[1] = c
  <2>1. <<c>> \in Seq(Bytes) /\ Len(<<c>>) = 1 /\ <<c>>[1] = c
    OBVIOUS
  <2> QED
    BY <2>1
<1>4. kept' = kept \o t
  BY <1>1, <1>2, <1>3, AppendIsConcat
<1>5. Len(t) <= _size - 1 - available
  <2>1. room # 0 /\ room = _size - 1 - available
    BY <1>1, <1>2, RoomIs DEF RoomAgrees
  <2> QED
    BY <1>1, <1>3, <2>1, Sizes
<1>6. \A j \in 0..(_size - 1) : mem'[j] = IF j = _end THEN c ELSE mem[j]
  <2>1. DOMAIN mem = 0..(_size - 1)
    BY <1>1
  <2>2. ASSUME NEW j \in 0..(_size - 1) PROVE mem'[j] = IF j = _end THEN c ELSE mem[j]
    <3>1. mem'[j] = IF j \in _end..(_end + Len(t) - 1) THEN t[j - _end + 1] ELSE mem[j]
      BY <1>2, <1>3, <2>1 DEF In
    <3>2. j \in _end..(_end + Len(t) - 1) <=> j = _end
      BY <1>1, <1>3
    <3> QED
      BY <1>1, <1>3, <3>1, <3>2
  <2> QED
    BY <2>2
<1>7. mem' \in [0..(_size - 1) -> Data]
  <2>1. DOMAIN mem = 0..(_size - 1) /\ c \in Data
    BY <1>1 DEF Data
  <2>2. mem' = [j \in 0..(_size - 1) |-> mem'[j]]
    BY <1>2, <2>1 DEF In
  <2>3. \A j \in 0..(_size - 1) : mem'[j] \in Data
    BY <1>1, <1>6, <2>1
  <2> QED
    BY <2>2, <2>3
<1>8. /\ \A i \in 1..available : Cell(i) \in 0..(_size - 1) /\ Cell(i) # _end
      /\ Cell(available + 1 + 1) = wrap_if_bufend(_end + 1)
  <2>1. PICK n \in Nat : n = 1 /\ n <= _size - 1 - available
    BY <1>3, <1>5
  <2>2. TopOf(_size, _begin, _end, n) = 0 /\ RestOf(_size, _begin, _end, n) = _end
    BY <1>1, <2>1 DEF TopOf, RestOf, CutOf
  <2>3. available = CountOf(_size, _begin, _end) /\ \A i : Cell(i) = CellOf(_size, _begin, i)
    BY DEF available, CountOf, Cell, CellOf
  <2>4. _begin \in 0..(_size - 1)
    BY <1>1 DEF TypeOK
  <2>5. Placed(_size, _begin, _end, n, available, 0, _end)
    BY <1>1, <2>1, <2>2, <2>3, <2>4, WriteArithmetic
  <2> QED
    BY <1>1, <2>1, <2>3, <2>5 DEF Placed, wrap_if_bufend
<1>9. ASSUME NEW i \in 1..available PROVE mem'[Cell(i)] = mem[Cell(i)]
  BY <1>6, <1>8
<1>10. ASSUME NEW i \in 1..Len(t) PROVE mem'[Cell(available + i)] = t[i]
  <2>1. i = 1
    BY <1>3
  <2> QED
    BY <1>1, <1>3, <1>6, <2>1
<1>11. _end' = Cell(available + Len(t) + 1)
  BY <1>2, <1>3, <1>8
<1> QED
  BY <1>2, <1>3, <1>4, <1>5, <1>7, <1>9, <1>10, <1>11, StoreKeepsCbufInv

(* A piece of a sequence, where it is in it. *)
IsPiece(S, s, m, n) ==
    /\ SubSeq(s, m + 1, n) \in Seq(S) /\ Len(SubSeq(s, m + 1, n)) = n - m
    /\ \A i \in 1..(n - m) : SubSeq(s, m + 1, n)[i] = s[m + i]

LEMMA PieceIs ==
    ASSUME NEW S, NEW s \in Seq(S), NEW m \in Nat, NEW n \in Nat, m <= n, n <= Len(s)
    PROVE  IsPiece(S, s, m, n)
<1>1. Len(s) \in Nat
  BY LenProperties
<1>2. PICK k \in Int : k = m + 1
  OBVIOUS
<1>3. \A i \in k..n : s[i] \in S
  BY <1>1, <1>2, ElementOfSeq
<1>4. /\ SubSeq(s, k, n) \in Seq(S)
      /\ Len(SubSeq(s, k, n)) = IF k <= n THEN n - k + 1 ELSE 0
      /\ \A i \in 1..(n - k + 1) : SubSeq(s, k, n)[i] = s[k + i - 1]
  BY <1>3, SubSeqProperties
<1>5. Len(SubSeq(s, k, n)) = n - m
  BY <1>2, <1>4
<1>6. ASSUME NEW i \in 1..(n - m) PROVE SubSeq(s, k, n)[i] = s[m + i]
  <2>1. i \in 1..(n - k + 1) /\ k + i - 1 = m + i
    BY <1>2
  <2> QED
    BY <1>4, <2>1
<1> QED
  BY <1>2, <1>4, <1>5, <1>6 DEF IsPiece

LEMMA FrontIs ==
    ASSUME NEW S, NEW s \in Seq(S), NEW n \in Nat, n <= Len(s)
    PROVE  /\ SubSeq(s, 1, n) \in Seq(S) /\ Len(SubSeq(s, 1, n)) = n
           /\ \A i \in 1..n : SubSeq(s, 1, n)[i] = s[i] /\ s[i] \in S
<1>1. PICK z \in Nat : z = 0 /\ z <= n /\ z + 1 = 1 /\ n - z = n /\ \A i \in 1..n : z + i = i
  OBVIOUS
<1>2. IsPiece(S, s, z, n)
  BY <1>1, PieceIs
<1>3. \A i \in 1..n : s[i] \in S
  BY LenProperties, ElementOfSeq
<1> QED
  BY <1>1, <1>2, <1>3 DEF IsPiece

(* write(src, n) stores in two pieces when they would leave the storage. *)
LEMMA WriteNKeepsCbufInv ==
    ASSUME CbufInv, NEW s \in Seq(Bytes), writeN(s)
    PROVE  CbufInv'
<1>1. /\ TypeOK /\ available \in Nat /\ _size \in Nat
      /\ mem \in [0..(_size - 1) -> Data] /\ _end \in 0..(_size - 1)
      /\ Len(s) \in Nat /\ available < _size
  BY Sizes, LenProperties DEF CbufInv, TypeOK, Data
<1>2. PICK n \in Nat : n = Least(Len(s), room) /\ n <= Len(s) /\ n <= _size - 1 - available
  BY <1>1, RoomIs DEF Least
<1>3. PICK top : top = TopOf(_size, _begin, _end, n)
  OBVIOUS
<1>4. PICK dst : dst = RestOf(_size, _begin, _end, n)
  OBVIOUS
<1>5. /\ mem' = In(In(mem, _end, SubSeq(s, 1, top)), dst, SubSeq(s, top + 1, n))
      /\ _end' = wrap_if_bufend(dst + n - top)
      /\ kept' = kept \o SubSeq(s, 1, n) /\ UNCHANGED <<_size, _begin, out>>
  BY <1>2, <1>3, <1>4 DEF writeN, TopOf, RestOf, CutOf
<1> DEFINE inSecond(j) == j \in dst..(dst + (n - top) - 1)
           inFirst(j) == j \in _end..(_end + top - 1)
<1>6. /\ top \in Nat /\ dst \in Nat /\ top <= n
      /\ \A i \in 1..top : /\ Cell(available + i) = _end + i - 1
                          /\ Cell(available + i) \in 0..(_size - 1)
                          /\ ~inSecond(Cell(available + i)) /\ inFirst(Cell(available + i))
      /\ \A i \in 1..(n - top) : /\ Cell(available + (top + i)) = dst + i - 1
                                /\ Cell(available + (top + i)) \in 0..(_size - 1)
                                /\ inSecond(Cell(available + (top + i)))
      /\ \A i \in 1..available : /\ Cell(i) \in 0..(_size - 1)
                                /\ ~inSecond(Cell(i)) /\ ~inFirst(Cell(i))
      /\ Cell(available + n + 1) = wrap_if_bufend(dst + n - top)
  <2>1. available = CountOf(_size, _begin, _end) /\ \A i : Cell(i) = CellOf(_size, _begin, i)
    BY DEF available, CountOf, Cell, CellOf
  <2>2. _begin \in 0..(_size - 1)
    BY <1>1 DEF TypeOK
  <2>3. PICK z \in Nat : z = _size
    BY <1>1
  <2>4. PICK b \in 0..(z - 1) : b = _begin
    BY <2>2, <2>3
  <2>5. PICK e \in 0..(z - 1) : e = _end
    BY <1>1, <2>3
  <2>6. PICK k : k = available
    OBVIOUS
  <2>7. k = CountOf(z, b, e) /\ n <= z - 1 - k /\ top = TopOf(z, b, e, n) /\ dst = RestOf(z, b, e, n)
    BY <1>2, <1>3, <1>4, <2>1, <2>3, <2>4, <2>5, <2>6
  <2>8. Placed(z, b, e, n, k, top, dst)
    BY <2>7, WriteArithmetic
  <2> QED
    BY <2>1, <2>3, <2>4, <2>5, <2>6, <2>8 DEF Placed, wrap_if_bufend
<1> DEFINE first == SubSeq(s, 1, top)
           second == SubSeq(s, top + 1, n)
<1>7. /\ first \in Seq(Bytes) /\ Len(first) = top
      /\ \A i \in 1..top : first[i] = s[i] /\ s[i] \in Bytes
  BY <1>1, <1>2, <1>6, FrontIs
<1>8. /\ second \in Seq(Bytes) /\ Len(second) = n - top
      /\ \A i \in 1..(n - top) : second[i] = s[top + i]
  <2>1. IsPiece(Bytes, s, top, n)
    BY <1>2, <1>6, PieceIs
  <2> QED
    BY <2>1 DEF IsPiece
<1>9. mem' = In(In(mem, _end, first), dst, second)
  BY <1>5
<1> HIDE DEF first, second
<1>10. mem' = [j \in 0..(_size - 1) |-> IF inSecond(j) THEN second[j - dst + 1]
                                   ELSE IF inFirst(j) THEN first[j - _end + 1] ELSE mem[j]]
  <2>1. DOMAIN mem = 0..(_size - 1)
    BY <1>1
  <2>2. PICK m : m = In(mem, _end, first)
    OBVIOUS
  <2>3. m = [j \in 0..(_size - 1) |-> IF inFirst(j) THEN first[j - _end + 1] ELSE mem[j]]
    BY <1>7, <2>1, <2>2 DEF In
  <2>4. mem' = In(m, dst, second)
    BY <1>9, <2>2
  <2>5. mem' = [j \in 0..(_size - 1) |-> IF inSecond(j) THEN second[j - dst + 1] ELSE m[j]]
    BY <1>8, <2>3, <2>4 DEF In
  <2> QED
    BY <2>3, <2>5
<1>11. mem' \in [0..(_size - 1) -> Data]
  <2>1. ASSUME NEW j \in 0..(_size - 1), inSecond(j) PROVE second[j - dst + 1] \in Data
    <3>1. j - dst + 1 \in 1..Len(second)
      BY <1>6, <1>8, <2>1
    <3> QED
      BY <1>8, <3>1, ElementOfSeq DEF Data
  <2>2. ASSUME NEW j \in 0..(_size - 1), inFirst(j) PROVE first[j - _end + 1] \in Data
    <3>1. j - _end + 1 \in 1..Len(first)
      BY <1>1, <1>6, <1>7, <2>2
    <3> QED
      BY <1>7, <3>1, ElementOfSeq DEF Data
  <2> HIDE DEF inSecond, inFirst
  <2> QED
    BY <1>1, <1>10, <2>1, <2>2
<1> HIDE DEF inSecond, inFirst
<1>12. ASSUME NEW i \in 1..n PROVE mem'[Cell(available + i)] = s[i]
  <2>1. CASE i <= top
    <3>1. i \in 1..top
      BY <1>6, <2>1
    <3>2. PICK j \in 0..(_size - 1) : /\ j = Cell(available + i) /\ j = _end + i - 1
                                     /\ ~inSecond(j) /\ inFirst(j)
      BY <1>6, <3>1
    <3>3. mem'[j] = first[j - _end + 1]
      BY <1>10, <3>2
    <3>4. j - _end + 1 = i
      BY <1>1, <3>1, <3>2
    <3> QED
      BY <1>7, <3>1, <3>2, <3>3, <3>4
  <2>2. CASE ~(i <= top)
    <3>1. PICK l \in 1..(n - top) : i = top + l
      <4>1. i - top \in 1..(n - top) /\ i = top + (i - top)
        BY <1>6, <2>2
      <4> QED
        BY <4>1
    <3>2. PICK j \in 0..(_size - 1) : /\ j = Cell(available + i) /\ j = dst + l - 1
                                     /\ inSecond(j)
      BY <1>6, <3>1
    <3>3. mem'[j] = second[j - dst + 1] /\ j - dst + 1 = l
      BY <1>6, <1>10, <3>2
    <3> QED
      BY <1>8, <3>1, <3>2, <3>3
  <2> QED
    BY <2>1, <2>2
<1>13. ASSUME NEW i \in 1..available PROVE mem'[Cell(i)] = mem[Cell(i)]
  BY <1>6, <1>10
<1>14. PICK t : t = SubSeq(s, 1, n) /\ t \in Seq(Bytes) /\ Len(t) = n /\ \A i \in 1..n : t[i] = s[i]
  <2>1. /\ SubSeq(s, 1, n) \in Seq(Bytes) /\ Len(SubSeq(s, 1, n)) = n
        /\ \A i \in 1..n : SubSeq(s, 1, n)[i] = s[i] /\ s[i] \in Bytes
    BY <1>2, FrontIs
  <2> QED
    BY <2>1
<1>15. _end' = Cell(available + Len(t) + 1)
  BY <1>5, <1>6, <1>14
<1>16. \A i \in 1..Len(t) : mem'[Cell(available + i)] = t[i]
  BY <1>12, <1>14
<1> QED
  BY <1>2, <1>5, <1>11, <1>13, <1>14, <1>15, <1>16, StoreKeepsCbufInv

LEMMA StepCbufInv ==
    ~ExactFit /\ CbufInv /\ [Next]_vars => CbufInv' /\ (out' # out => Delivers(out'))
<1> SUFFICES ASSUME ~ExactFit, CbufInv, [Next]_vars
             PROVE  CbufInv' /\ (out' # out => Delivers(out'))
  OBVIOUS
<1>1. CASE UNCHANGED vars
  BY <1>1 DEF vars, CbufInv, TypeOK, available, Cell
<1>2. CASE flush \/ \E n \in 0..MaxSize : removeAll(n)
  <2>1. flush
    BY <1>2 DEF removeAll
  <2> QED
    BY <2>1, FlushKeepsCbufInv DEF flush
<1>3. CASE \/ read \/ peek
           \/ \E n \in 0..MaxSize : remove(n) \/ readN(n) \/ peekN(n)
  BY <1>3, ReadersKeepCbufInv
<1>4. CASE \E n \in 0..MaxSize : resize(n) \/ resizeAdd(n)
  <2>1. PICK n \in Nat : resize(n)
    <3>1. MaxSize \in Nat /\ _size \in Nat
      BY CbufAssumption, Sizes DEF CbufInv
    <3>2. PICK k \in 0..MaxSize : resize(k) \/ resize(_size + k)
      BY <1>4 DEF resizeAdd
    <3> QED
      BY <3>1, <3>2
  <2> QED
    BY <2>1, ResizeKeepsCbufInv DEF resize
<1>5. CASE \E c \in Bytes : write(c)
  BY <1>5, WriteKeepsCbufInv DEF write
<1>6. CASE \E n \in 0..MaxSize : \E s \in [1..n -> Bytes] : writeN(s)
  <2>1. PICK s \in Seq(Bytes) : writeN(s)
    <3>1. PICK n \in 0..MaxSize : \E s \in [1..n -> Bytes] : writeN(s)
      BY <1>6
    <3>2. n \in Nat
      BY CbufAssumption
    <3> QED
      BY <3>1, <3>2, FunctionIsSeq
  <2> QED
    BY <2>1, WriteNKeepsCbufInv DEF writeN
<1> QED
  BY <1>1, <1>2, <1>3, <1>4, <1>5, <1>6 DEF Next

(* The buffer holds exactly the bytes that were accepted and not taken,    *)
(* delivers them oldest first and counts them and its room rightly,        *)
(* through every sequence of reads, writes, removals and resizes that      *)
(* leaves the one unused byte.  With a resize to the exact fit it is       *)
(* false: the data then fills the storage and the buffer reads as empty.   *)
THEOREM CbufIsExact ==
    ASSUME ~ExactFit
    PROVE  Spec => CbufExact
<1>1. CbufInv /\ [Next]_vars => CbufInv'
  BY StepCbufInv
<1>2. CbufInv /\ [Next]_vars =>
        [out' # out => /\ IsPrefix(out', kept)
                       /\ kept' = kept \/ kept = out' \o kept']_vars
  BY StepCbufInv DEF Delivers
<1> QED
  BY <1>1, <1>2, InitCbufInv, HoldsContents, PTL DEF Spec, CbufExact, OldestFirst

-----------------------------------------------------------------------------
(* The bits on the wire.  Only differences of times matter: how long after *)
(* the end of the present level the next sample is due.                    *)
Frames == [1..BITS -> {0, 1}]

(* The kth level of a frame, from the start bit on, and the present one. *)
Level(d, k) == IF k = 0 THEN 0 ELSE IF k = BITS + 1 THEN 1 ELSE d[k]

Now == BITS + 1 - Len(frame)

Sending(d) ==
    /\ line = Level(d, Now)
    /\ \A i \in 1..Len(frame) : frame[i] = Level(d, Now + i)

(* The level that the next sample is meant for. *)
Aim == IF at = "bits" THEN Len(rec) + 1 ELSE IF at = "stop" THEN BITS + 1 ELSE 0

(* When the next sample is due after the start bit's edge, at the earliest *)
(* and at the latest.                                                      *)
Earliest ==
    IF at = "late" THEN MinLatency
    ELSE IF at = "start" THEN MinLatency + start_time
    ELSE IF at = "bits" THEN MinLatency + start_time + (Len(rec) + 1) * m_bitTime
    ELSE MinLatency + start_time + BITS * m_bitTime + end_time

Latest ==
    IF at = "late" THEN MaxLatency
    ELSE IF at = "start" THEN MaxLatency + start_time + MaxOver
    ELSE IF at = "bits"
         THEN MaxLatency + start_time + (Len(rec) + 1) * m_bitTime + (Len(rec) + 2) * MaxOver
    ELSE MaxLatency + start_time + BITS * m_bitTime + end_time + (BITS + 2) * MaxOver

InTime ==
    /\ Now <= Aim
    /\ Earliest - (Now + 1) * (m_bitTime + MaxSlow) <= wait - left
    /\ wait - left <= Latest - (Now + 1) * m_bitTime

Sampled(d) ==
    /\ rec \in Seq({0, 1}) /\ \A i \in 1..Len(rec) : rec[i] = d[i]
    /\ IF at = "stop" THEN Len(rec) = BITS ELSE Len(rec) < BITS

Receiving(d) ==
    \/ at = "idle" /\ Now = 0 /\ left \in Held
    \/ at = "late" /\ InTime
    \/ at = "start" /\ InTime /\ rec = <<>>
    \/ at \in {"bits", "stop"} /\ InTime /\ Sampled(d)

Between == at = "idle" /\ ~flag

FrameInv ==
    /\ line \in {0, 1} /\ flag \in BOOLEAN
    /\ frame \in Seq({0, 1}) /\ Len(frame) <= BITS + 1 /\ left \in Nat
    /\ at \in {"idle", "late", "start", "bits", "stop"} /\ wait \in Nat
    /\ sent \in Seq(Frames) /\ got \in Seq(Frames)
    /\ Between => got = sent /\ line = 1 /\ frame = <<>>
    /\ ~Between => \E d \in Frames : sent = Append(got, d) /\ Sending(d) /\ Receiving(d)

(* Products with one factor more, and with a smaller factor. *)
LEMMA MoreTimes ==
    ASSUME NEW a \in Nat, NEW b \in Nat, NEW c \in Nat
    PROVE  /\ a * c \in Nat /\ (a + 1) * c = a * c + c
           /\ a <= b => a * c <= b * c
<1>1. a * c \in Nat /\ (a + 1) * c = a * c + c
  OBVIOUS
<1>2. ASSUME a <= b PROVE a * c <= b * c
  <2>1. PICK n \in Nat : b = a + n
    <3>1. b - a \in Nat /\ b = a + (b - a)
      BY <1>2
    <3> QED
      BY <3>1
  <2>2. b * c = a * c + n * c /\ n * c \in Nat /\ a * c \in Nat
    BY <2>1
  <2> QED
    BY <2>2
<1> QED
  BY <1>1, <1>2

(* A sample is due w ticks after the last one, o or fewer ticks too late. *)
LEMMA LaterBy ==
    ASSUME NEW e \in Int, NEW l \in Int, NEW A \in Nat, NEW B \in Nat, NEW k \in Nat,
           NEW T \in Nat, NEW M \in Nat, NEW o \in 0..M, NEW w, w = T + o,
           e - B <= 0 - k, 0 - k <= l - A
    PROVE  /\ w \in Nat
           /\ (e + T) - B <= w - k
           /\ w - k <= (l + T + M) - A
<1>1. w \in Nat /\ T <= w /\ w <= T + M
  OBVIOUS
<1>2. (e + T) - B <= w - k
  BY <1>1
<1>3. w - k <= (l + T + M) - A
  BY <1>1
<1> QED
  BY <1>1, <1>2, <1>3

(* The present level and the wait have both just begun. *)
LEMMA FirstDue ==
    ASSUME NEW lo \in Nat, NEW hi \in Nat, NEW T \in Nat, NEW S \in Nat,
           NEW k \in T..(T + S), NEW w \in lo..hi
    PROVE  lo - (T + S) <= w - k /\ w - k <= hi - T
OBVIOUS

LEMMA BitNumbers ==
    /\ m_bitTime \in Nat /\ BITS \in Nat \ {0} /\ MinLatency \in Nat /\ MaxLatency \in Nat
    /\ MaxOver \in Nat /\ MaxSlow \in Nat /\ start_time \in Nat /\ end_time \in Nat
<1>1. /\ m_bitTime \in Nat /\ BITS \in Nat \ {0} /\ MinLatency \in Nat /\ MaxLatency \in Nat
      /\ MaxOver \in Nat /\ MaxSlow \in Nat
  BY FrameAssumption
<1>2. start_time \in Nat
  BY <1>1 DEF start_time
<1>3. end_time \in Nat
  <2>1. PICK n \in Nat : n = m_bitTime * 8
    BY <1>1
  <2> QED
    BY <2>1 DEF end_time
<1> QED
  BY <1>1, <1>2, <1>3

LEMMA BitParts ==
    /\ m_bitTime \in Nat /\ BITS \in Nat \ {0} /\ MinLatency \in Nat /\ MaxLatency \in Nat
    /\ MaxOver \in Nat /\ MaxSlow \in Nat
    /\ start_time \in Nat /\ end_time \in Nat /\ end_time <= m_bitTime /\ m_bitTime > 0
    /\ (BITS + 2) * MaxOver \in Nat /\ (BITS + 1) * MaxSlow \in Nat
    /\ start_time + MaxLatency + (BITS + 2) * MaxOver < m_bitTime
    /\ start_time + end_time + MinLatency > m_bitTime + (BITS + 1) * MaxSlow
<1>1. /\ m_bitTime \in Nat /\ BITS \in Nat \ {0} /\ MinLatency \in Nat /\ MaxLatency \in Nat
      /\ MaxOver \in Nat /\ MaxSlow \in Nat
      /\ start_time + MaxLatency + (BITS + 2) * MaxOver < m_bitTime
      /\ start_time + end_time + MinLatency > m_bitTime + (BITS + 1) * MaxSlow
  BY FrameAssumption
<1>2. start_time \in Nat
  BY <1>1 DEF start_time
<1>3. end_time \in Nat /\ end_time <= m_bitTime
  <2>1. PICK n \in Nat : n = m_bitTime * 8
    BY <1>1
  <2>2. n \div 9 \in Nat /\ 9 * (n \div 9) <= n
    BY <2>1
  <2> QED
    BY <1>1, <2>1, <2>2 DEF end_time
<1>4. (BITS + 2) * MaxOver \in Nat /\ (BITS + 1) * MaxSlow \in Nat
  <2>1. BITS + 2 \in Nat /\ BITS + 1 \in Nat
    BY <1>1
  <2> QED
    BY <1>1, <2>1, MoreTimes
<1> QED
  BY <1>1, <1>2, <1>3, <1>4

(* While a frame is received its present level is not over. *)
LEMMA LevelLasts ==
    ASSUME FrameInv, InTime, at # "idle", at = "bits" => Len(rec) \in 0..(BITS - 1)
    PROVE  /\ Now \in 0..(BITS + 1)
           /\ Now = Aim => wait < left
           /\ wait = 0 => Now = Aim
<1> DEFINE a == Now
           j == Aim
<1>1. a \in 0..(BITS + 1) /\ j \in 0..(BITS + 1) /\ a <= j /\ wait \in Nat /\ left \in Nat
  <2>1. Len(frame) \in Nat /\ Len(frame) <= BITS + 1
    BY LenProperties DEF FrameInv
  <2> QED
    BY <2>1, BitParts DEF FrameInv, Now, Aim, InTime
<1>2. PICK A \in Nat, P \in Nat, Q \in Nat, R \in Nat :
        /\ A = (a + 1) * m_bitTime /\ P = (a + 1) * MaxSlow
        /\ Q = j * m_bitTime /\ R = (BITS + 2) * MaxOver
        /\ (a + 1) * (m_bitTime + MaxSlow) = A + P
        /\ P <= (BITS + 1) * MaxSlow \/ a = BITS + 1
        /\ a = j => A = Q + m_bitTime
        /\ a < j => A <= Q
  <2>1. a + 1 \in Nat /\ j \in Nat /\ BITS + 1 \in Nat /\ BITS + 2 \in Nat
    BY <1>1, BitParts
  <2>2. (a + 1) * (m_bitTime + MaxSlow) = (a + 1) * m_bitTime + (a + 1) * MaxSlow
    <3>1. PICK x \in Nat : x = a + 1
      BY <2>1
    <3>2. x * (m_bitTime + MaxSlow) = x * m_bitTime + x * MaxSlow
      BY BitParts
    <3> QED
      BY <3>1, <3>2
  <2>3. a + 1 <= BITS + 1 \/ a = BITS + 1
    BY <1>1, BitParts
  <2>4. a + 1 <= BITS + 1 => (a + 1) * MaxSlow <= (BITS + 1) * MaxSlow
    BY <2>1, MoreTimes, BitParts
  <2>5. (j + 1) * m_bitTime = j * m_bitTime + m_bitTime
    BY <2>1, MoreTimes, BitParts
  <2>6. a < j => (a + 1) * m_bitTime <= j * m_bitTime
    <3>1. a < j => a + 1 <= j
      BY <1>1
    <3> QED
      BY <2>1, <3>1, MoreTimes, BitParts
  <2>7. /\ (a + 1) * m_bitTime \in Nat /\ (a + 1) * MaxSlow \in Nat
        /\ j * m_bitTime \in Nat /\ (BITS + 2) * MaxOver \in Nat
    BY <2>1, MoreTimes, BitParts
  <2> HIDE DEF a, j
  <2> QED
    BY <2>2, <2>3, <2>4, <2>5, <2>6, <2>7
<1>3. /\ Earliest - (A + P) <= wait - left
      /\ wait - left <= Latest - A
  BY <1>2 DEF InTime
<1>4. /\ at = "late" => j = 0 /\ Earliest = MinLatency /\ Latest = MaxLatency
      /\ at = "start" => /\ j = 0 /\ Earliest = MinLatency + start_time
                         /\ Latest = MaxLatency + start_time + MaxOver
      /\ at = "bits" => /\ Earliest = MinLatency + start_time + Q /\ j <= BITS
                        /\ Latest <= MaxLatency + start_time + Q + R /\ Latest \in Int
      /\ at = "stop" => /\ j = BITS + 1
                        /\ Earliest = MinLatency + start_time + end_time + (Q - m_bitTime)
                        /\ Latest = MaxLatency + start_time + end_time + (Q - m_bitTime) + R
  <2>1. at = "late" => j = 0 /\ Earliest = MinLatency /\ Latest = MaxLatency
    BY DEF Aim, Earliest, Latest
  <2>2. at = "start" => /\ j = 0 /\ Earliest = MinLatency + start_time
                        /\ Latest = MaxLatency + start_time + MaxOver
    BY DEF Aim, Earliest, Latest
  <2>3. ASSUME at = "bits"
        PROVE  /\ Earliest = MinLatency + start_time + Q /\ j <= BITS
               /\ Latest <= MaxLatency + start_time + Q + R /\ Latest \in Int
    <3>1. Len(rec) \in Nat /\ Len(rec) + 2 \in Nat /\ BITS + 2 \in Nat
          /\ Len(rec) + 2 <= BITS + 2 /\ j = Len(rec) + 1 /\ j <= BITS
      BY <2>3, BitParts DEF Aim
    <3>2. (Len(rec) + 2) * MaxOver <= R /\ (Len(rec) + 2) * MaxOver \in Nat
      BY <1>2, <3>1, MoreTimes, BitParts
    <3>3. /\ Earliest = MinLatency + start_time + Q
          /\ Latest = MaxLatency + start_time + Q + (Len(rec) + 2) * MaxOver
      BY <1>2, <2>3, <3>1 DEF Earliest, Latest
    <3> QED
      BY <3>1, <3>2, <3>3, BitParts
  <2>4. ASSUME at = "stop"
        PROVE  /\ j = BITS + 1
               /\ Earliest = MinLatency + start_time + end_time + (Q - m_bitTime)
               /\ Latest = MaxLatency + start_time + end_time + (Q - m_bitTime) + R
    <3>1. j = BITS + 1
      BY <2>4 DEF Aim
    <3>2. Q = BITS * m_bitTime + m_bitTime /\ BITS * m_bitTime \in Nat
      BY <1>2, <3>1, MoreTimes, BitParts
    <3> QED
      BY <1>2, <2>4, <3>1, <3>2, BitParts DEF Earliest, Latest
  <2> QED
    BY <2>1, <2>2, <2>3, <2>4
<1>5. at \in {"late", "start", "bits", "stop"}
  BY DEF FrameInv
<1>6. R >= MaxOver
  <2>1. (BITS + 2) * MaxOver = (BITS + 1) * MaxOver + MaxOver /\ (BITS + 1) * MaxOver \in Nat
    <3>1. PICK x \in Nat : x = BITS + 1
      BY BitParts
    <3>2. (x + 1) * MaxOver = x * MaxOver + MaxOver /\ x * MaxOver \in Nat
      BY MoreTimes, BitParts
    <3>3. x + 1 = BITS + 2
      BY <3>1, BitParts
    <3> QED
      BY <3>1, <3>2, <3>3
  <2> QED
    BY <1>2, <2>1, BitParts
<1> HIDE DEF a, j
<1>7. a = j => wait < left
  <2> SUFFICES ASSUME a = j PROVE wait < left
    OBVIOUS
  <2>1. A = Q + m_bitTime
    BY <1>2
  <2>2. CASE at = "late"
    BY <1>1, <1>2, <1>3, <1>4, <2>1, <2>2, BitParts
  <2>3. CASE at = "start"
    BY <1>1, <1>2, <1>3, <1>4, <1>6, <2>1, <2>3, BitParts
  <2>4. CASE at = "bits"
    BY <1>1, <1>2, <1>3, <1>4, <2>1, <2>4, BitParts
  <2>5. CASE at = "stop"
    BY <1>1, <1>2, <1>3, <1>4, <2>1, <2>5, BitParts
  <2> QED
    BY <1>5, <2>2, <2>3, <2>4, <2>5
<1>8. wait = 0 => a = j
  <2> SUFFICES ASSUME wait = 0, a < j PROVE FALSE
    BY <1>1
  <2>1. P <= (BITS + 1) * MaxSlow /\ A <= Q
    BY <1>1, <1>2
  <2>2. CASE at \in {"late", "start"}
    BY <1>1, <1>4, <2>2
  <2>3. CASE at = "bits"
    BY <1>1, <1>2, <1>3, <1>4, <2>1, <2>3, BitParts
  <2>4. CASE at = "stop"
    BY <1>1, <1>2, <1>3, <1>4, <2>1, <2>4, BitParts
  <2> QED
    BY <1>5, <2>2, <2>3, <2>4
<1> QED
  BY <1>1, <1>7, <1>8 DEF a, j

LEMMA LevelsAre ==
    ASSUME NEW d \in Frames
    PROVE  /\ levels(d) \in Seq({0, 1}) /\ Len(levels(d)) = BITS + 1
           /\ \A i \in 1..(BITS + 1) : levels(d)[i] = Level(d, i)
<1>1. d \in Seq({0, 1}) /\ Len(d) = BITS
  BY FunctionIsSeq, BitParts DEF Frames
<1>2. <<1>> \in Seq({0, 1}) /\ Len(<<1>>) = 1 /\ <<1>>[1] = 1
  OBVIOUS
<1>3. IsConcat({0, 1}, d, <<1>>)
  BY <1>1, <1>2, ConcatIs
<1>4. /\ levels(d) \in Seq({0, 1}) /\ Len(levels(d)) = BITS + 1
      /\ \A i \in 1..BITS : levels(d)[i] = d[i]
      /\ \A i \in 1..1 : levels(d)[BITS + i] = <<1>>[i]
  BY <1>1, <1>2, <1>3 DEF IsConcat, levels
<1>5. levels(d)[BITS + 1] = 1
  BY <1>2, <1>4
<1> QED
  BY <1>4, <1>5, BitParts DEF Level

(* What holds while a frame is under way, as the steps need it. *)
LEMMA UnderWay ==
    ASSUME FrameInv, ~Between
    PROVE  /\ Now \in 0..(BITS + 1) /\ Len(frame) \in Nat /\ Len(frame) = BITS + 1 - Now
           /\ frame = <<>> => Now = BITS + 1
           /\ at = "idle" => flag /\ Now = 0 /\ left \in Held /\ left > 0
           /\ at # "idle" => /\ InTime /\ Aim \in 0..(BITS + 1)
                             /\ Now = Aim => wait < left
                             /\ wait = 0 => Now = Aim
<1>1. PICK d \in Frames : Sending(d) /\ Receiving(d)
  BY DEF FrameInv
<1>2. Len(frame) \in Nat /\ Len(frame) <= BITS + 1 /\ Now \in 0..(BITS + 1)
  BY LenProperties, BitParts DEF FrameInv, Now
<1>3. at = "bits" => Len(rec) \in 0..(BITS - 1)
  <2> SUFFICES ASSUME at = "bits" PROVE Len(rec) \in 0..(BITS - 1)
    OBVIOUS
  <2>1. rec \in Seq({0, 1}) /\ Len(rec) < BITS
    BY <1>1 DEF Receiving, Sampled
  <2>2. Len(rec) \in Nat
    BY <2>1, LenProperties
  <2> QED
    BY <2>1, <2>2, BitParts
<1>4. at # "idle" => InTime
  BY <1>1 DEF Receiving
<1>5. at # "idle" => Aim \in 0..(BITS + 1)
  BY <1>3, BitParts DEF Aim
<1>6. at = "idle" => flag /\ Now = 0 /\ left \in Held /\ left > 0
  <2>1. at = "idle" => flag /\ Now = 0 /\ left \in Held
    BY <1>1 DEF Receiving, Between
  <2> QED
    BY <2>1, BitParts DEF Held
<1>7. frame = <<>> => Now = BITS + 1
  BY BitParts DEF Now
<1> QED
  BY <1>2, <1>3, <1>4, <1>5, <1>6, <1>7, LevelLasts, BitParts DEF Now

LEMMA UnderWayTimes ==
    ASSUME FrameInv, ~Between, at # "idle"
    PROVE  /\ Earliest \in Int /\ Latest \in Int
           /\ at = "bits" => Len(rec) \in 0..(BITS - 1)
<1>1. PICK d \in Frames : Receiving(d)
  BY DEF FrameInv
<1>2. CASE at = "bits"
  <2>1. rec \in Seq({0, 1}) /\ Len(rec) < BITS
    BY <1>1, <1>2 DEF Receiving, Sampled
  <2>2. Len(rec) \in 0..(BITS - 1) /\ Len(rec) + 1 \in Nat /\ Len(rec) + 2 \in Nat
    BY <2>1, LenProperties, BitParts
  <2>3. (Len(rec) + 1) * m_bitTime \in Nat /\ (Len(rec) + 2) * MaxOver \in Nat
    BY <2>2, MoreTimes, BitParts
  <2> QED
    BY <1>2, <2>2, <2>3, BitParts DEF Earliest, Latest
<1>3. CASE at # "bits"
  <2>1. BITS * m_bitTime \in Nat
    BY MoreTimes, BitParts
  <2> QED
    BY <1>3, <2>1, BitParts DEF Earliest, Latest
<1> QED
  BY <1>2, <1>3

LEMMA InitFrame == FrameInit => FrameInv
<1> SUFFICES ASSUME FrameInit PROVE FrameInv
  OBVIOUS
<1>1. frame = <<>> /\ sent = <<>> /\ got = <<>>
  BY DEF FrameInit
<1>2. flag \in BOOLEAN /\ ~flag
  BY Zenon DEF FrameInit
<1> QED
  BY <1>1, <1>2, BitParts DEF FrameInit, FrameInv, Between

(* The sender. *)
LEMMA WriteKeeps ==
    ASSUME FrameInv, NEW d \in [1..BITS -> {0, 1}], SoftwareSerial_write(d)
    PROVE  FrameInv'
<1>1. /\ left = 0 /\ frame = <<>> /\ left' \in Held /\ frame' = levels(d)
      /\ sent' = Append(sent, d) /\ UNCHANGED <<at, wait, rec, got>>
      /\ line' = 0 /\ flag' = (flag \/ line = 1)
  BY DEF SoftwareSerial_write, Drive, receiver
<1>2. Between
  <2> SUFFICES ASSUME ~Between PROVE FALSE
    OBVIOUS
  <2>1. at # "idle" /\ Now = BITS + 1 /\ Now <= Aim /\ Aim \in 0..(BITS + 1)
    BY <1>1, UnderWay DEF InTime
  <2>2. Now = Aim
    BY <2>1, BitParts
  <2>3. wait < left /\ wait \in Nat
    BY <2>1, <2>2, UnderWay DEF FrameInv
  <2> QED
    BY <1>1, <2>3
<1>3. at = "idle" /\ got = sent /\ line = 1
  BY <1>2 DEF FrameInv, Between
<1>4. flag' = TRUE
  BY <1>1, <1>3
<1>5. d \in Frames
  BY DEF Frames
<1>6. /\ frame' \in Seq({0, 1}) /\ Len(frame') = BITS + 1
      /\ \A i \in 1..(BITS + 1) : frame'[i] = Level(d, i)
  BY <1>1, <1>5, LevelsAre
<1>7. Now' = 0
  BY <1>6, BitParts DEF Now
<1>8. Sending(d)'
  BY <1>1, <1>6, <1>7 DEF Sending, Level
<1>9. Receiving(d)'
  BY <1>1, <1>3, <1>7 DEF Receiving, Held
<1>10. /\ sent' \in Seq(Frames) /\ got' \in Seq(Frames) /\ sent' = Append(got', d)
  BY <1>1, <1>3, <1>5, AppendProperties DEF FrameInv
<1>11. left' \in Nat /\ wait' \in Nat
  BY <1>1, BitParts DEF FrameInv, Held
<1>12. ~Between'
  BY <1>4 DEF Between
<1>13. flag' \in BOOLEAN
  BY <1>4, Zenon
<1> QED
  BY <1>1, <1>3, <1>5, <1>6, <1>8, <1>9, <1>10, <1>11, <1>12, <1>13 DEF FrameInv

LEMMA NextLevelKeeps ==
    ASSUME FrameInv, NextLevel
    PROVE  FrameInv'
<1>1. /\ left = 0 /\ frame # <<>> /\ left' \in Held /\ frame' = Tail(frame)
      /\ UNCHANGED <<sent, at, wait, rec, got>>
      /\ line' = Head(frame) /\ flag' = (flag \/ (line = 1 /\ line' = 0))
  BY DEF NextLevel, Drive, receiver
<1>2. ~Between
  BY <1>1 DEF FrameInv
<1>3. /\ at # "idle" /\ InTime /\ Now \in 0..(BITS + 1) /\ Aim \in 0..(BITS + 1)
      /\ Len(frame) \in Nat /\ Len(frame) = BITS + 1 - Now
  BY <1>1, <1>2, UnderWay
<1>4. Now < Aim
  <2>1. wait \in Nat /\ ~(wait < left)
    BY <1>1 DEF FrameInv
  <2>2. Now # Aim
    BY <1>2, <1>3, <2>1, UnderWay
  <2> QED
    BY <1>3, <2>2 DEF InTime
<1>5. PICK d \in Frames : sent = Append(got, d) /\ Sending(d) /\ Receiving(d)
  BY <1>2 DEF FrameInv
<1>6. /\ Tail(frame) \in Seq({0, 1}) /\ Len(Tail(frame)) = Len(frame) - 1
      /\ \A i \in 1..Len(Tail(frame)) : Tail(frame)[i] = frame[i + 1]
      /\ Head(frame) = frame[1] /\ frame[1] \in {0, 1} /\ 1 \in 1..Len(frame)
  <2>1. frame \in Seq({0, 1}) /\ Len(frame) # 0
    BY <1>1, EmptySeq DEF FrameInv
  <2>2. /\ Tail(frame) \in Seq({0, 1}) /\ Len(Tail(frame)) = Len(frame) - 1
        /\ \A i \in 1..Len(Tail(frame)) : Tail(frame)[i] = frame[i + 1]
        /\ Head(frame) \in {0, 1}
    BY <1>1, <2>1, HeadTailProperties
  <2> QED
    BY <1>3, <2>1, <2>2
<1>7. Now' = Now + 1
  BY <1>1, <1>3, <1>6, BitParts DEF Now
<1>8. Sending(d)'
  <2>1. line' = Level(d, Now + 1)
    BY <1>1, <1>5, <1>6 DEF Sending
  <2>2. ASSUME NEW i \in 1..Len(frame') PROVE frame'[i] = Level(d, (Now + 1) + i)
    <3>1. i + 1 \in 1..Len(frame) /\ Now + (i + 1) = (Now + 1) + i
      BY <1>1, <1>3, <1>6
    <3>2. frame'[i] = frame[i + 1]
      BY <1>1, <1>6
    <3> QED
      BY <1>5, <3>1, <3>2 DEF Sending
  <2> QED
    BY <1>7, <2>1, <2>2 DEF Sending
<1>9. Aim' = Aim /\ Earliest' = Earliest /\ Latest' = Latest
  BY <1>1 DEF Aim, Earliest, Latest
<1>10. Earliest \in Int /\ Latest \in Int
  BY <1>2, <1>3, UnderWayTimes
<1>11. InTime'
  <2>1. PICK x \in Nat, A \in Nat, B \in Nat :
          /\ x = Now + 1 /\ A = x * m_bitTime /\ B = x * (m_bitTime + MaxSlow)
    BY <1>3, MoreTimes, BitParts
  <2>2. /\ (x + 1) * m_bitTime = A + m_bitTime
        /\ (x + 1) * (m_bitTime + MaxSlow) = B + (m_bitTime + MaxSlow)
    BY <2>1, MoreTimes, BitParts
  <2>3. Earliest - B <= wait /\ wait <= Latest - A /\ wait \in Nat
    BY <1>1, <1>3, <2>1 DEF InTime, FrameInv
  <2>4. left' >= m_bitTime /\ left' <= m_bitTime + MaxSlow /\ left' \in Nat
    BY <1>1, BitParts DEF Held
  <2>5. /\ Earliest - (B + (m_bitTime + MaxSlow)) <= wait - left'
        /\ wait - left' <= Latest - (A + m_bitTime)
    BY <1>10, <2>1, <2>3, <2>4, BitParts
  <2> QED
    BY <1>1, <1>3, <1>4, <1>7, <1>9, <2>1, <2>2, <2>5 DEF InTime
<1>12. Receiving(d)'
  BY <1>1, <1>3, <1>5, <1>11 DEF Receiving, Sampled
<1>13. left' \in Nat /\ line' \in {0, 1} /\ Len(frame') <= BITS + 1 /\ frame' \in Seq({0, 1})
  BY <1>1, <1>3, <1>6, BitParts DEF Held
<1>14. flag' \in BOOLEAN
  BY <1>1, Zenon DEF FrameInv
<1> QED
  BY <1>1, <1>3, <1>5, <1>8, <1>12, <1>13, <1>14 DEF FrameInv, Between

LEMMA TickKeeps ==
    ASSUME FrameInv, Tick
    PROVE  FrameInv'
<1>1. /\ UNCHANGED <<line, flag, frame, sent, at, rec, got>>
      /\ left = 0 => frame = <<>>
      /\ at = "idle" => ~flag
      /\ at # "idle" => wait > 0
      /\ left' = (IF left > 0 THEN left - 1 ELSE 0) /\ wait' = (IF wait > 0 THEN wait - 1 ELSE 0)
  BY DEF Tick
<1>2. left \in Nat /\ wait \in Nat /\ left' \in Nat /\ wait' \in Nat
  BY <1>1 DEF FrameInv
<1>3. CASE Between
  BY <1>1, <1>2, <1>3 DEF FrameInv, Between
<1>4. CASE ~Between
  <2>1. PICK d \in Frames : sent = Append(got, d) /\ Sending(d) /\ Receiving(d)
    BY <1>4 DEF FrameInv
  <2>2. at # "idle" /\ InTime /\ Aim \in 0..(BITS + 1) /\ Now \in 0..(BITS + 1)
    BY <1>1, <1>4, UnderWay DEF Between
  <2>3. left > 0
    <3> SUFFICES ASSUME left = 0 PROVE FALSE
      BY <1>2
    <3>1. Now = BITS + 1
      BY <1>1, <1>4, UnderWay
    <3>2. Now = Aim
      BY <2>2, <3>1, BitParts DEF InTime
    <3> QED
      BY <1>2, <1>4, <2>2, <3>2, UnderWay
  <2>4. wait' - left' = wait - left
    BY <1>1, <1>2, <2>2, <2>3
  <2>5. Now' = Now /\ Aim' = Aim /\ Earliest' = Earliest /\ Latest' = Latest
    BY <1>1 DEF Now, Aim, Earliest, Latest
  <2>6. InTime'
    BY <2>2, <2>4, <2>5 DEF InTime
  <2>7. Sending(d)' /\ Receiving(d)'
    BY <1>1, <2>1, <2>2, <2>5, <2>6 DEF Sending, Receiving, Sampled
  <2> QED
    BY <1>1, <1>2, <1>4, <2>1, <2>7 DEF FrameInv, Between
<1> QED
  BY <1>3, <1>4

(* The receiver. *)
LEMMA EnterKeeps ==
    ASSUME FrameInv, Interrupt \/ Enter
    PROVE  FrameInv'
<1>1. /\ ~Between /\ UNCHANGED <<line, flag, frame, left, sent, got>>
  BY DEF Interrupt, Enter, Between, sender
<1>2. PICK d \in Frames : sent = Append(got, d) /\ Sending(d) /\ Receiving(d)
  BY <1>1 DEF FrameInv
<1>3. Sending(d)' /\ Now' = Now /\ left \in Nat
  BY <1>1, <1>2 DEF Sending, Now, FrameInv
<1>4. CASE Interrupt
  <2>1. /\ at = "idle" /\ at' = "late" /\ wait' \in MinLatency..MaxLatency
    BY <1>4 DEF Interrupt
  <2>2. Now = 0 /\ left \in Held
    BY <1>1, <2>1, UnderWay
  <2>3. wait' \in Nat /\ Aim' = 0 /\ Earliest' = MinLatency /\ Latest' = MaxLatency
    BY <2>1, BitParts DEF Aim, Earliest, Latest
  <2>4. InTime'
    <3>1. (0 + 1) * (m_bitTime + MaxSlow) = m_bitTime + MaxSlow /\ (0 + 1) * m_bitTime = m_bitTime
      BY BitParts
    <3>2. /\ MinLatency - (m_bitTime + MaxSlow) <= wait' - left
          /\ wait' - left <= MaxLatency - m_bitTime
      <4>1. left \in m_bitTime..(m_bitTime + MaxSlow)
        BY <2>2 DEF Held
      <4> QED
        BY <2>1, <4>1, BitNumbers, FirstDue
    <3> QED
      BY <1>1, <1>3, <2>2, <2>3, <3>1, <3>2 DEF InTime
  <2> QED
    BY <1>1, <1>2, <1>3, <2>1, <2>3, <2>4 DEF FrameInv, Between, Receiving
<1>5. CASE Enter
  <2>1. PICK o \in 0..MaxOver :
          at = "late" /\ wait = 0 /\ at' = "start" /\ wait' = start_time + o /\ rec' = <<>>
    BY <1>5 DEF Enter, Waits
  <2>2. InTime /\ Now \in 0..(BITS + 1)
    BY <1>1, <2>1, UnderWay
  <2>3. /\ wait' \in Nat /\ Aim' = Aim
        /\ Earliest = MinLatency /\ Earliest' = MinLatency + start_time
        /\ Latest = MaxLatency /\ Latest' = MaxLatency + start_time + MaxOver
    BY <2>1, BitParts DEF Aim, Earliest, Latest
  <2>4. InTime'
    <3>1. PICK A \in Nat, B \in Nat :
            A = (Now + 1) * m_bitTime /\ B = (Now + 1) * (m_bitTime + MaxSlow)
      BY <2>2, MoreTimes, BitParts
    <3>2. MinLatency - B <= 0 - left /\ 0 - left <= MaxLatency - A
      BY <2>1, <2>2, <2>3, <3>1 DEF InTime
    <3>3. /\ (MinLatency + start_time) - B <= wait' - left
          /\ wait' - left <= (MaxLatency + start_time + MaxOver) - A
      BY <1>3, <2>1, <3>1, <3>2, BitParts
    <3> QED
      BY <1>1, <1>3, <2>2, <2>3, <3>1, <3>3 DEF InTime
  <2> QED
    BY <1>1, <1>2, <1>3, <2>1, <2>3, <2>4 DEF FrameInv, Between, Receiving
<1> QED
  BY <1>4, <1>5

LEMMA SampleStartKeeps ==
    ASSUME FrameInv, SampleStart
    PROVE  FrameInv'
<1>1. /\ at = "start" /\ wait = 0 /\ ~Between /\ UNCHANGED <<line, frame, left, sent, rec, got>>
  BY DEF SampleStart, Between, sender
<1>2. PICK d \in Frames : sent = Append(got, d) /\ Sending(d) /\ Receiving(d)
  BY <1>1 DEF FrameInv
<1>3. /\ Sending(d)' /\ Now' = Now /\ left \in Nat /\ Now \in 0..(BITS + 1)
      /\ InTime /\ Now = Aim /\ Aim = 0
  BY <1>1, <1>2, UnderWay DEF Sending, Now, FrameInv, Aim
<1>4. line = 0
  BY <1>2, <1>3 DEF Sending, Level
<1>5. PICK o \in 0..MaxOver : at' = "bits" /\ wait' = m_bitTime + o /\ flag' = flag
  BY <1>4 DEF SampleStart, Waits
<1>6. rec = <<>>
  BY <1>1, <1>2 DEF Receiving
<1>7. /\ wait' \in Nat /\ Aim' = 1
      /\ Earliest = MinLatency + start_time /\ Earliest' = MinLatency + start_time + m_bitTime
      /\ Latest = MaxLatency + start_time + MaxOver
      /\ Latest' = MaxLatency + start_time + m_bitTime + 2 * MaxOver
  <2>1. Len(rec') = 0 /\ (0 + 1) * m_bitTime = m_bitTime /\ (0 + 2) * MaxOver = 2 * MaxOver
    BY <1>1, <1>6, BitParts
  <2> QED
    BY <1>1, <1>5, <2>1, BitParts DEF Aim, Earliest, Latest
<1>8. InTime'
  <2>1. PICK A \in Nat, B \in Nat :
          A = (Now + 1) * m_bitTime /\ B = (Now + 1) * (m_bitTime + MaxSlow)
    BY <1>3, MoreTimes, BitParts
  <2>2. /\ (MinLatency + start_time) - B <= 0 - left
        /\ 0 - left <= (MaxLatency + start_time + MaxOver) - A
    BY <1>1, <1>3, <1>7, <2>1 DEF InTime
  <2>3. /\ (MinLatency + start_time + m_bitTime) - B <= wait' - left
        /\ wait' - left <= (MaxLatency + start_time + m_bitTime + 2 * MaxOver) - A
    BY <1>3, <1>5, <2>1, <2>2, BitParts
  <2> QED
    BY <1>1, <1>3, <1>7, <2>1, <2>3 DEF InTime
<1>9. Sampled(d)'
  <2>1. rec' = <<>> /\ Len(<<>>) = 0 /\ <<>> \in Seq({0, 1})
    BY <1>1, <1>6
  <2> QED
    BY <1>5, <2>1, BitParts DEF Sampled
<1>10. Receiving(d)'
  BY <1>5, <1>8, <1>9 DEF Receiving
<1> QED
  BY <1>1, <1>2, <1>3, <1>5, <1>7, <1>10 DEF FrameInv, Between

LEMMA SampleBitKeeps ==
    ASSUME FrameInv, SampleBit
    PROVE  FrameInv'
<1>1. /\ at = "bits" /\ wait = 0 /\ ~Between /\ rec' = Append(rec, line)
      /\ UNCHANGED <<line, flag, frame, left, sent, got>>
  BY DEF SampleBit, Between, sender
<1>2. PICK d \in Frames : sent = Append(got, d) /\ Sending(d) /\ Receiving(d)
  BY <1>1 DEF FrameInv
<1>3. /\ Sending(d)' /\ Now' = Now /\ left \in Nat /\ Now \in 0..(BITS + 1)
      /\ InTime /\ Now = Aim /\ Aim = Len(rec) + 1 /\ Len(rec) \in 0..(BITS - 1)
  BY <1>1, <1>2, UnderWay, UnderWayTimes DEF Sending, Now, FrameInv, Aim
<1>4. /\ rec \in Seq({0, 1}) /\ line \in {0, 1} /\ line = d[Len(rec) + 1]
      /\ \A i \in 1..Len(rec) : rec[i] = d[i]
  <2>1. line = Level(d, Len(rec) + 1)
    BY <1>2, <1>3 DEF Sending
  <2> QED
    BY <1>1, <1>2, <1>3, <2>1, BitParts DEF Receiving, Sampled, FrameInv, Level
<1>5. /\ rec' \in Seq({0, 1}) /\ Len(rec') = Len(rec) + 1
      /\ \A i \in 1..Len(rec') : rec'[i] = d[i]
  <2>1. /\ rec' \in Seq({0, 1}) /\ Len(rec') = Len(rec) + 1
        /\ rec'[Len(rec) + 1] = line /\ \A i \in 1..Len(rec) : rec'[i] = rec[i]
    BY <1>1, <1>4, AppendProperties
  <2>2. \A i \in 1..Len(rec') : i \in 1..Len(rec) \/ i = Len(rec) + 1
    BY <1>3, <2>1
  <2> QED
    BY <1>4, <2>1, <2>2
<1>6. PICK A \in Nat, B \in Nat, Q \in Nat, R \in Nat :
        /\ A = (Now + 1) * m_bitTime /\ B = (Now + 1) * (m_bitTime + MaxSlow)
        /\ Q = (Len(rec) + 1) * m_bitTime /\ R = (Len(rec) + 2) * MaxOver
        /\ (Len(rec') + 1) * m_bitTime = Q + m_bitTime
        /\ (Len(rec') + 2) * MaxOver = R + MaxOver
  <2>1. PICK x \in Nat, y \in Nat : x = Len(rec) + 1 /\ y = Len(rec) + 2
    BY <1>3
  <2>2. (x + 1) * m_bitTime = x * m_bitTime + m_bitTime /\ (y + 1) * MaxOver = y * MaxOver + MaxOver
    BY <2>1, MoreTimes, BitParts
  <2>3. Len(rec') + 1 = x + 1 /\ Len(rec') + 2 = y + 1
    BY <1>3, <1>5, <2>1
  <2>4. x * m_bitTime \in Nat /\ y * MaxOver \in Nat
    BY <2>1, MoreTimes, BitParts
  <2>5. (Now + 1) * m_bitTime \in Nat /\ (Now + 1) * (m_bitTime + MaxSlow) \in Nat
    BY <1>3, MoreTimes, BitParts
  <2> QED
    BY <2>1, <2>2, <2>3, <2>4, <2>5
<1>7. /\ Earliest = MinLatency + start_time + Q
      /\ Latest = MaxLatency + start_time + Q + R
      /\ (MinLatency + start_time + Q) - B <= 0 - left
      /\ 0 - left <= (MaxLatency + start_time + Q + R) - A
  BY <1>1, <1>3, <1>6 DEF InTime, Earliest, Latest
<1>8. CASE Len(rec') < BITS
  <2>1. PICK o \in 0..MaxOver : at' = "bits" /\ wait' = m_bitTime + o
    BY <1>8 DEF SampleBit, Waits
  <2>2. /\ wait' \in Nat /\ Aim' = Len(rec) + 2
        /\ Earliest' = MinLatency + start_time + (Q + m_bitTime)
        /\ Latest' = MaxLatency + start_time + (Q + m_bitTime) + (R + MaxOver)
    <3>1. wait' \in Nat
      BY <2>1, BitNumbers
    <3>2. Aim' = Len(rec) + 2
      BY <1>3, <1>5, <2>1 DEF Aim
    <3>3. Earliest' = MinLatency + start_time + (Q + m_bitTime)
      BY <1>6, <2>1 DEF Earliest
    <3>4. Latest' = MaxLatency + start_time + (Q + m_bitTime) + (R + MaxOver)
      BY <1>6, <2>1 DEF Latest
    <3> QED
      BY <3>1, <3>2, <3>3, <3>4
  <2>3. /\ (MinLatency + start_time + (Q + m_bitTime)) - B <= wait' - left
        /\ wait' - left <= (MaxLatency + start_time + (Q + m_bitTime) + (R + MaxOver)) - A
    <3>1. PICK e \in Int, l \in Int :
            e = MinLatency + start_time + Q /\ l = MaxLatency + start_time + Q + R
      BY BitNumbers
    <3>2. e - B <= 0 - left /\ 0 - left <= l - A
      BY <1>7, <3>1
    <3>3. (e + m_bitTime) - B <= wait' - left /\ wait' - left <= (l + m_bitTime + MaxOver) - A
      BY <1>3, <2>1, <3>2, LaterBy, BitNumbers
    <3>4. PICK u \in Int : u = wait' - left
      BY <1>3, <2>1, BitNumbers
    <3>5. (e + m_bitTime) - B <= u /\ u <= (l + m_bitTime + MaxOver) - A
      BY <3>3, <3>4
    <3> QED
      BY <3>1, <3>4, <3>5, BitNumbers
  <2>4. InTime'
    BY <1>1, <1>3, <1>6, <2>2, <2>3 DEF InTime
  <2>5. Receiving(d)'
    BY <1>5, <1>8, <2>1, <2>4 DEF Receiving, Sampled
  <2> QED
    BY <1>1, <1>2, <1>3, <2>1, <2>2, <2>5 DEF FrameInv, Between
<1>9. CASE ~(Len(rec') < BITS)
  <2>1. PICK o \in 0..MaxOver : at' = "stop" /\ wait' = end_time + o
    BY <1>9 DEF SampleBit, Waits
  <2>2. Len(rec') = BITS /\ Len(rec) + 1 = BITS /\ Len(rec') + 2 = BITS + 2
    <3>1. PICK m \in Nat, n \in Nat : Len(rec) = m /\ Len(rec') = n
      BY <1>3, <1>5
    <3>2. m \in 0..(BITS - 1) /\ n = m + 1 /\ ~(n < BITS)
      BY <1>3, <1>5, <1>9, <3>1
    <3>3. n = BITS /\ m + 1 = BITS /\ n + 2 = BITS + 2
      BY <3>2, BitNumbers
    <3> QED
      BY <3>1, <3>3
  <2>3. /\ wait' \in Nat /\ Aim' = BITS + 1
        /\ Earliest' = MinLatency + start_time + Q + end_time
        /\ Latest' = MaxLatency + start_time + Q + end_time + (R + MaxOver)
    <3>1. wait' \in Nat /\ Aim' = BITS + 1
      BY <2>1, BitParts DEF Aim
    <3>2. BITS * m_bitTime = Q
      BY <1>6, <2>2
    <3>3. (BITS + 2) * MaxOver = R + MaxOver
      BY <1>6, <2>2
    <3>4. Earliest' = MinLatency + start_time + Q + end_time
      BY <2>1, <3>2 DEF Earliest
    <3>5. Latest' = MaxLatency + start_time + Q + end_time + (R + MaxOver)
      BY <2>1, <3>2, <3>3 DEF Latest
    <3> QED
      BY <3>1, <3>4, <3>5
  <2>4. /\ (MinLatency + start_time + Q + end_time) - B <= wait' - left
        /\ wait' - left <= (MaxLatency + start_time + Q + end_time + (R + MaxOver)) - A
    <3>1. PICK e \in Int, l \in Int :
            e = MinLatency + start_time + Q /\ l = MaxLatency + start_time + Q + R
      BY BitNumbers
    <3>2. e - B <= 0 - left /\ 0 - left <= l - A
      BY <1>7, <3>1
    <3>3. (e + end_time) - B <= wait' - left /\ wait' - left <= (l + end_time + MaxOver) - A
      BY <1>3, <2>1, <3>2, LaterBy, BitNumbers
    <3>4. PICK u \in Int : u = wait' - left
      BY <1>3, <2>1, BitNumbers
    <3>5. (e + end_time) - B <= u /\ u <= (l + end_time + MaxOver) - A
      BY <3>3, <3>4
    <3> QED
      BY <3>1, <3>4, <3>5, BitNumbers
  <2>5. InTime'
    BY <1>1, <1>3, <1>6, <2>3, <2>4 DEF InTime
  <2>6. Receiving(d)'
    BY <1>5, <2>1, <2>2, <2>5 DEF Receiving, Sampled
  <2> QED
    BY <1>1, <1>2, <1>3, <2>1, <2>3, <2>6 DEF FrameInv, Between
<1> QED
  BY <1>8, <1>9

LEMMA SampleStopKeeps ==
    ASSUME FrameInv, SampleStop
    PROVE  FrameInv'
<1>1. /\ at = "stop" /\ wait = 0 /\ ~Between
      /\ UNCHANGED <<line, frame, left, sent>>
      /\ at' = "idle" /\ wait' = 0
      /\ got' = IF line = 1 THEN Append(got, rec) ELSE got
  BY DEF SampleStop, Return, Between, sender
<1>2. PICK d \in Frames : sent = Append(got, d) /\ Sending(d) /\ Receiving(d)
  BY <1>1 DEF FrameInv
<1>3. Now = BITS + 1 /\ Len(frame) \in Nat /\ Len(frame) = 0
  <2>1. Now = Aim /\ Aim = BITS + 1 /\ Len(frame) \in Nat /\ Len(frame) = BITS + 1 - Now
    BY <1>1, UnderWay DEF Aim
  <2> QED
    BY <2>1, BitParts
<1>4. line = 1
  BY <1>2, <1>3, BitParts DEF Sending, Level
<1>5. rec = d
  <2>1. rec \in Seq({0, 1}) /\ Len(rec) = BITS /\ \A i \in 1..BITS : rec[i] = d[i]
    BY <1>1, <1>2 DEF Receiving, Sampled
  <2>2. rec \in [1..BITS -> {0, 1}] /\ d \in [1..BITS -> {0, 1}]
    BY <2>1, LenProperties DEF Frames
  <2> QED
    BY <2>1, <2>2
<1>6. got' = sent
  BY <1>1, <1>2, <1>4, <1>5
<1>7. frame = <<>>
  BY <1>3, EmptySeq DEF FrameInv
<1>8. flag' = FALSE
  BY DEF SampleStop, Return
<1>9. flag' \in BOOLEAN
  BY <1>8, Zenon
<1>10. line' \in {0, 1} /\ frame' = <<>> /\ frame' \in Seq({0, 1}) /\ left' \in Nat /\ wait' \in Nat
  BY <1>1, <1>7 DEF FrameInv
<1>11. Len(frame') <= BITS + 1
  BY <1>1, <1>3, BitParts
<1>12. sent' \in Seq(Frames) /\ got' \in Seq(Frames) /\ got' = sent'
  BY <1>1, <1>6 DEF FrameInv
<1>13. Between'
  BY <1>1, <1>8 DEF Between
<1> QED
  BY <1>1, <1>4, <1>9, <1>10, <1>11, <1>12, <1>13 DEF FrameInv

LEMMA StepFrame == FrameInv /\ [FrameNext]_frameVars => FrameInv'
<1> SUFFICES ASSUME FrameInv, [FrameNext]_frameVars PROVE FrameInv'
  OBVIOUS
<1>1. CASE UNCHANGED frameVars
  BY <1>1
  DEF frameVars, sender, receiver, FrameInv, Between, Sending, Receiving, InTime, Sampled,
      Now, Aim, Earliest, Latest
<1>2. CASE FrameNext
  BY <1>2, WriteKeeps, NextLevelKeeps, TickKeeps, EnterKeeps, SampleStartKeeps,
     SampleBitKeeps, SampleStopKeeps
  DEF FrameNext
<1> QED
  BY <1>1, <1>2

(* At any bit time, frame length, latency and overshoots that satisfy the  *)
(* two inequalities of FrameAssumption, rxRead() receives what write()     *)
(* sends: every frame once, in order, whatever the pauses between them.    *)
THEOREM FramesAreReceived == FrameSpec => []Received
<1>1. FrameInv /\ [FrameNext]_frameVars => FrameInv'
  BY StepFrame
<1>2. FrameInv => Received
  <2> SUFFICES ASSUME FrameInv PROVE Received
    OBVIOUS
  <2>1. CASE Between
    BY <2>1 DEF FrameInv, Received, IsPrefix
  <2>2. CASE ~Between
    <3>1. PICK d \in Frames : sent = Append(got, d)
      BY <2>2 DEF FrameInv
    <3>2. /\ got \in Seq(Frames) /\ Len(got) \in Nat /\ Len(sent) = Len(got) + 1
          /\ \A i \in 1..Len(got) : sent[i] = got[i]
          /\ sent \in Seq(Frames)
      BY <3>1, AppendProperties, LenProperties DEF FrameInv
    <3>3. DOMAIN got = 1..Len(got) /\ DOMAIN sent = 1..(Len(got) + 1)
      BY <3>2, LenProperties
    <3> QED
      BY <2>2, <3>2, <3>3 DEF Received, IsPrefix, Between
  <2> QED
    BY <2>1, <2>2
<1> QED
  BY InitFrame, <1>1, <1>2, PTL DEF FrameSpec

(* The table keeps its type whether objects receive or only send. *)
THEOREM SlotsTypes == SlotsSpec => []SlotsTypeOK
<1>1. SlotsInit => SlotsTypeOK
  BY InitSlotsInv DEF SlotsInv
<1>2. SlotsTypeOK /\ [SlotsNext]_slotsVars => SlotsTypeOK'
  <2> SUFFICES ASSUME SlotsTypeOK, [SlotsNext]_slotsVars PROVE SlotsTypeOK'
    OBVIOUS
  <2>1. CASE UNCHANGED slotsVars
    BY <2>1 DEF slotsVars, SlotsTypeOK
  <2>2. ASSUME NEW o \in Objects, NEW receives \in BOOLEAN, construct(o, receives)
        PROVE  SlotsTypeOK'
    <3> DEFINE s == ss_get_interface
               valid == receives /\ s # NoSlot
    <3>1. /\ s \in Slots \cup {NoSlot} /\ (s # NoSlot => s \in Slots)
      BY FreeSlot
    <3>2. /\ live' = live \cup {o} /\ m_rx_id' = [m_rx_id EXCEPT ![o] = s]
          /\ m_rxValid' = [m_rxValid EXCEPT ![o] = valid]
          /\ m_rxEnabled' = [m_rxEnabled EXCEPT ![o] = FALSE]
          /\ serial' = IF valid THEN [serial EXCEPT ![s] = o] ELSE serial
          /\ UNCHANGED irq
      BY <2>2 DEF construct
    <3>3. valid \in BOOLEAN /\ (valid => s \in Slots)
      BY <3>1
    <3> HIDE DEF s, valid
    <3>4. serial' \in [Slots -> Objects \cup {NoObject}]
      BY <3>2, <3>3 DEF SlotsTypeOK
    <3>5. m_rxValid' \in [Objects -> BOOLEAN] /\ m_rxEnabled' \in [Objects -> BOOLEAN]
      BY <3>2, <3>3 DEF SlotsTypeOK
    <3> QED
      BY <3>1, <3>2, <3>4, <3>5 DEF SlotsTypeOK
  <2>3. ASSUME NEW o \in Objects, NEW on \in BOOLEAN, enabling(o, on)
        PROVE  /\ irq' \in [Objects -> Slots \cup {NoSlot}]
               /\ m_rxEnabled' \in [Objects -> BOOLEAN]
    BY <2>3 DEF enabling, SlotsTypeOK
  <2>4. ASSUME NEW o \in Objects, NEW on \in BOOLEAN, enableRx(o, on) PROVE SlotsTypeOK'
    BY <2>3, <2>4 DEF enableRx, SlotsTypeOK
  <2>5. ASSUME NEW o \in Objects, destruct(o) PROVE SlotsTypeOK'
    <3>1. serial' \in [Slots -> Objects \cup {NoObject}]
      BY <2>5 DEF destruct, freedSlot, SlotsTypeOK
    <3>2. FALSE \in BOOLEAN /\ enabling(o, FALSE)
      BY <2>5 DEF destruct
    <3> QED
      BY <2>3, <2>5, <3>1, <3>2 DEF destruct, SlotsTypeOK
  <2> QED
    BY <2>1, <2>2, <2>4, <2>5 DEF SlotsNext
<1> QED
  BY <1>1, <1>2, PTL DEF SlotsSpec

(* Every variable of the receive buffer keeps its type: neither position   *)
(* ever leaves the buffer.                                                 *)
THEOREM RingTypes == RingSpec => []RingTypeOK
<1>1. RingInv => RingTypeOK
  BY DEF RingInv
<1> QED
  BY InitRingInv, StepRingInv, <1>1, PTL DEF RingSpec

(* Every variable of cbuf keeps its type: no pointer leaves the storage,   *)
(* whatever is read, written, removed and resized.                         *)
THEOREM CbufTypes ==
    ASSUME ~ExactFit
    PROVE  Spec => []TypeOK
<1>1. CbufInv /\ [Next]_vars => CbufInv'
  BY StepCbufInv
<1>2. CbufInv => TypeOK
  BY DEF CbufInv
<1> QED
  BY <1>1, <1>2, InitCbufInv, PTL DEF Spec

(* What the invariant of the frames does not bound. *)
FrameBounds ==
    /\ left <= m_bitTime + MaxSlow /\ wait <= m_bitTime + MaxOver
    /\ rec \in Seq({0, 1}) /\ Len(rec) <= BITS /\ Len(sent) <= MaxFrames

LEMMA BoundedIs ==
    ASSUME NEW s \in Seq({0, 1}), NEW n \in Nat, Len(s) <= n
    PROVE  s \in BoundedSeq({0, 1}, n)
<1>1. Len(s) \in 0..n /\ s \in [1..Len(s) -> {0, 1}]
  BY LenProperties
<1> QED
  BY <1>1 DEF BoundedSeq, SeqOf

LEMMA WaitsBound ==
    ASSUME NEW place, NEW ticks \in 0..m_bitTime, Waits(place, ticks)
    PROVE  wait' <= m_bitTime + MaxOver
BY BitNumbers DEF Waits

LEMMA StepFrameBounds ==
    ASSUME FrameInv, FrameBounds, [FrameNext]_frameVars
    PROVE  FrameBounds'
<1>1. /\ m_bitTime \in Nat /\ BITS \in Nat /\ MaxOver \in Nat /\ MaxSlow \in Nat
      /\ MaxFrames \in Nat /\ start_time \in 0..m_bitTime /\ end_time \in 0..m_bitTime
      /\ m_bitTime \in 0..m_bitTime /\ MaxLatency <= m_bitTime /\ left \in Nat /\ wait \in Nat
  BY BitParts, FrameAssumption DEF FrameInv
<1>2. ASSUME left' \in Held PROVE left' <= m_bitTime + MaxSlow
  BY <1>1, <1>2 DEF Held
<1>3. CASE UNCHANGED frameVars
  BY <1>3 DEF frameVars, sender, receiver, FrameBounds
<1>4. ASSUME NEW d \in [1..BITS -> {0, 1}], SoftwareSerial_write(d) PROVE FrameBounds'
  <2>1. left' \in Held /\ sent' = Append(sent, d) /\ Len(sent) < MaxFrames
        /\ UNCHANGED <<wait, rec>>
    BY <1>4 DEF SoftwareSerial_write, receiver
  <2>2. sent \in Seq(Frames) /\ d \in Frames
    BY DEF FrameInv, Frames
  <2>3. Len(sent') = Len(sent) + 1 /\ Len(sent) \in Nat
    BY <2>1, <2>2, AppendProperties, LenProperties
  <2> QED
    BY <1>1, <1>2, <2>1, <2>3 DEF FrameBounds
<1>5. CASE NextLevel
  BY <1>2, <1>5 DEF NextLevel, receiver, FrameBounds
<1>6. CASE Tick
  <2>1. left' <= left /\ wait' <= wait /\ left' \in Nat /\ wait' \in Nat
    BY <1>1, <1>6 DEF Tick
  <2> QED
    BY <1>1, <1>6, <2>1 DEF Tick, FrameBounds
<1>7. CASE Interrupt
  <2>1. wait' <= MaxLatency /\ wait' \in Nat
    BY <1>7, BitNumbers DEF Interrupt
  <2> QED
    BY <1>1, <1>7, <2>1, BitNumbers DEF Interrupt, FrameBounds, sender
<1>8. CASE Enter
  <2>1. wait' <= m_bitTime + MaxOver
    BY <1>1, <1>8, WaitsBound DEF Enter
  <2>2. <<>> \in Seq({0, 1}) /\ Len(<<>>) = 0
    BY EmptySeq
  <2> QED
    BY <1>1, <1>8, <2>1, <2>2 DEF Enter, FrameBounds, sender
<1>9. CASE SampleStart
  <2>1. wait' <= m_bitTime + MaxOver
    BY <1>1, <1>9, WaitsBound DEF SampleStart, Return
  <2> QED
    BY <1>9, <2>1 DEF SampleStart, FrameBounds, sender
<1>10. CASE SampleBit
  <2>1. wait' <= m_bitTime + MaxOver
    BY <1>1, <1>10, WaitsBound DEF SampleBit
  <2>2. Len(rec) \in 0..(BITS - 1)
    BY <1>10, UnderWayTimes DEF SampleBit, Between
  <2>3. rec' = Append(rec, line) /\ line \in {0, 1} /\ rec \in Seq({0, 1})
    BY <1>10 DEF SampleBit, FrameInv, FrameBounds
  <2>4. rec' \in Seq({0, 1}) /\ Len(rec') = Len(rec) + 1
    BY <2>3, AppendProperties
  <2> QED
    BY <1>1, <1>10, <2>1, <2>2, <2>4 DEF SampleBit, FrameBounds, sender
<1>11. CASE SampleStop
  BY <1>1, <1>11 DEF SampleStop, Return, FrameBounds, sender
<1> QED
  BY <1>3, <1>4, <1>5, <1>6, <1>7, <1>8, <1>9, <1>10, <1>11 DEF FrameNext

(* Every variable of the wire keeps its type: rxRead() never takes more    *)
(* bits than a frame has, and no wait is longer than a bit.                *)
THEOREM FrameTypes == FrameSpec => []FrameTypeOK
<1>1. FrameInit => FrameBounds
  BY BitNumbers, FrameAssumption, EmptySeq DEF FrameInit, FrameBounds
<1>2. FrameInv /\ FrameBounds => FrameTypeOK
  <2> SUFFICES ASSUME FrameInv, FrameBounds PROVE FrameTypeOK
    OBVIOUS
  <2>1. frame \in BoundedSeq({0, 1}, BITS + 1)
    BY BoundedIs, BitNumbers DEF FrameInv
  <2>2. rec \in BoundedSeq({0, 1}, BITS)
    BY BoundedIs, BitNumbers DEF FrameBounds
  <2>3. Len(got) <= MaxFrames
    <3>1. /\ got \in Seq(Frames) /\ Len(got) \in Nat /\ Len(sent) <= MaxFrames
          /\ MaxFrames \in Nat
      BY LenProperties, FrameAssumption DEF FrameInv, FrameBounds
    <3>2. CASE Between
      BY <3>1, <3>2 DEF FrameInv
    <3>3. CASE ~Between
      <4>1. PICK d \in Frames : sent = Append(got, d)
        BY <3>3 DEF FrameInv
      <4>2. Len(sent) = Len(got) + 1
        BY <3>1, <4>1, AppendProperties
      <4> QED
        BY <3>1, <4>2
    <3> QED
      BY <3>2, <3>3
  <2>4. left \in 0..(m_bitTime + MaxSlow) /\ wait \in 0..(m_bitTime + MaxOver)
    BY BitNumbers DEF FrameInv, FrameBounds
  <2> QED
    BY <2>1, <2>2, <2>3, <2>4 DEF FrameTypeOK, FrameInv, FrameBounds
<1>3. FrameInv /\ FrameBounds /\ [FrameNext]_frameVars => FrameBounds'
  BY StepFrameBounds
<1>4. FrameInv /\ [FrameNext]_frameVars => FrameInv'
  BY StepFrame
<1> QED
  BY InitFrame, <1>1, <1>2, <1>3, <1>4, PTL DEF FrameSpec
-----------------------------------------------------------------------------
(* The composition. *)

(* A behaviour of the composition is a behaviour of each component, so     *)
(* that the theorems about the components hold of it.                      *)
THEOREM BuffersAreComponents ==
    BuffersSpec => /\ Spec /\ TextSpec /\ ParseSpec
                   /\ SlotsSpec /\ FrameSpec /\ RingSpec /\ StringSpec
<1>1. BuffersInit =>
        Init /\ TextInit /\ ParseInit /\ SlotsInit /\ FrameInit /\ RingInit /\ StringInit
  BY DEF BuffersInit
<1>2. [BuffersNext]_<<active, vars, textVars, parseVars, slotsVars, frameVars, ringVars, stringVars>>
          => /\ [Next]_vars /\ [TextNext]_textVars /\ [ParseNext]_parseVars
             /\ [SlotsNext]_slotsVars /\ [FrameNext]_frameVars /\ [RingNext]_ringVars
             /\ [StringNext]_stringVars
  BY DEF BuffersNext
<1> QED
  BY <1>1, <1>2, PTL
  DEF BuffersSpec, Spec, TextSpec, ParseSpec, SlotsSpec, FrameSpec, RingSpec, StringSpec

(* Every variable of the buffers, of the reading methods of Stream, of     *)
(* Strings and of software serial keeps its type, whichever of them a      *)
(* behaviour exercises.                                                    *)
THEOREM BuffersTypesOK ==
    ASSUME ~ExactFit, ~GrowAny
    PROVE  BuffersSpec => []TypesOK
<1>1. TypeOK /\ TextTypeOK /\ ParseTypeOK /\ SlotsTypeOK /\ FrameTypeOK /\ RingTypeOK
       /\ StringTypeOK => TypesOK
  BY DEF TypesOK
<1>2. Spec => []TypeOK
  BY CbufTypes
<1>3. StringSpec => []StringTypeOK
  BY StringTypes
<1> QED
  BY <1>1, <1>2, <1>3, TextTypes, ParseTypesOK, SlotsTypes, FrameTypes, RingTypes,
     BuffersAreComponents, PTL
=============================================================================
