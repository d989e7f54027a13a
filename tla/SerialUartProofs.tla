-------------------------- MODULE SerialUartProofs --------------------------
(***************************************************************************)
(* Proofs about the UART driver, for every ring size, FIFO depth and       *)
(* number of bytes.                                                        *)
(*                                                                         *)
(* What the properties rest on: while the sketch is inside a masked call   *)
(* the interrupt neither runs nor can start, so the ring holds still; and  *)
(* outside one only head moves, and only away from tail.                   *)
(***************************************************************************)
EXTENDS SerialUart, RingTheorems

-----------------------------------------------------------------------------
(* Index arithmetic of the ring. *)
LEMMA NextIndex ==
    ASSUME NEW i \in 0..(N - 1)
    PROVE  /\ nextIndex(i) \in 0..(N - 1)
           /\ nextIndex(i) = IF i = N - 1 THEN 0 ELSE i + 1
<1>1. N \in Nat \ {0}
  BY SizeAssumption
<1> QED
  BY <1>1, AfterIs DEF nextIndex, After

LEMMA DeltaRange ==
    ASSUME NEW h \in 0..(N - 1), NEW t \in 0..(N - 1)
    PROVE  Delta(h, t) \in 0..(N - 1) /\ (Delta(h, t) = 0 <=> h = t)
BY SizeAssumption DEF Delta

(* Storing makes one more byte available, reading one less. *)
LEMMA DeltaStep ==
    ASSUME NEW h \in 0..(N - 1), NEW t \in 0..(N - 1)
    PROVE  /\ nextIndex(h) # t => Delta(nextIndex(h), t) = Delta(h, t) + 1
           /\ nextIndex(h) = t => Delta(h, t) = N - 1
           /\ h # t => Delta(h, nextIndex(t)) = Delta(h, t) - 1
BY NextIndex, SizeAssumption DEF Delta

-----------------------------------------------------------------------------
(* Where the sketch has masked the interrupt. *)
Masked == at \in {"read", "peek", "take", "unflag", "off", "clear", "clear2",
                  "start", "enable"}

UartInv ==
    /\ UartTypeOK
    /\ isr => irqOn
    /\ Masked => ~irqOn
    /\ at = "take" => tail # head /\ tmp = buf[tail]
    /\ at = "clear2" => head = 0
    /\ at \in {"unflag", "off", "clear", "clear2"} => seen = 0
    /\ at = "availT" => tmp \in 0..(N - 1) /\ Delta(tmp, tail) <= available
    /\ at = "availH" => tmp = tail
    /\ at # "clear2" => seen <= available

LEMMA InitUartInv == UartInit => UartInv
<1> SUFFICES ASSUME UartInit PROVE UartInv
  OBVIOUS
<1>1. UartTypeOK
  <2>1. /\ buf \in [0..(N - 1) -> 0..MaxBytes]
        /\ head \in 0..(N - 1) /\ tail \in 0..(N - 1) /\ seen \in 0..(N - 1)
    BY SizeAssumption DEF UartInit
  <2>2. /\ fifo \in Seq(Bytes) /\ Len(fifo) <= HwDepth
        /\ arrived \in 0..MaxBytes /\ txn \in 0..HwDepth /\ ret \in -1..MaxBytes
    BY SizeAssumption DEF UartInit, NoByte
  <2> QED
    BY <2>1, <2>2 DEF UartInit, UartTypeOK
<1>2. available = 0
  BY DEF UartInit, available, Delta
<1> QED
  BY <1>1, <1>2 DEF UartInit, UartInv, Masked

(* The ring as a byte is stored: seen from any index that was read before, *)
(* the promise of available() only grows.                                  *)
LEMMA StoreKeepsUartInv ==
    ASSUME UartInv, IsrStore
    PROVE  UartInv'
<1>1. /\ UartTypeOK /\ isr /\ irqOn /\ ~Masked
      /\ fifo \in Seq(Bytes) /\ fifo # <<>>
      /\ head \in 0..(N - 1) /\ tail \in 0..(N - 1)
  BY DEF UartInv, IsrStore, UartTypeOK
<1>2. /\ Head(fifo) \in Bytes /\ Tail(fifo) \in Seq(Bytes)
      /\ Len(Tail(fifo)) <= HwDepth
  BY <1>1, HeadTailProperties, SizeAssumption DEF UartTypeOK
<1>3. /\ fifo' = Tail(fifo) /\ tail' = tail
      /\ UNCHANGED <<arrived, oerr, txn, on, irqFlag, irqOn, isr, at, then, tmp, ret, seen>>
  BY DEF IsrStore, store_char, ctl, main, ring
<1>4. /\ buf' \in [0..(N - 1) -> 0..MaxBytes] /\ head' \in 0..(N - 1)
      /\ dropped' \in Nat
      /\ available' >= available
  <2>1. CASE nextIndex(head) # tail
    <3>1. /\ buf' = [buf EXCEPT ![head] = Head(fifo)] /\ head' = nextIndex(head)
          /\ dropped' = dropped
      BY <2>1 DEF IsrStore, store_char
    <3>2. Head(fifo) \in 0..MaxBytes
      BY <1>2, SizeAssumption DEF Bytes
    <3>3. available' = available + 1 /\ available \in Nat
      BY <1>1, <1>3, <2>1, <3>1, DeltaStep, DeltaRange, SizeAssumption DEF available
    <3>4. head' \in 0..(N - 1)
      BY <1>1, <3>1, NextIndex
    <3> QED
      BY <1>1, <3>1, <3>2, <3>3, <3>4 DEF UartTypeOK
  <2>2. CASE nextIndex(head) = tail
    <3>1. UNCHANGED <<buf, head, tail>> /\ dropped' = dropped + 1
      BY <2>2 DEF IsrStore, store_char, ring
    <3>2. available' = available /\ available \in Nat
      BY <1>1, <3>1, DeltaRange, SizeAssumption DEF available, Delta
    <3> QED
      BY <1>1, <3>1, <3>2 DEF UartTypeOK
  <2> QED
    BY <2>1, <2>2
<1>5. UartTypeOK'
  BY <1>1, <1>2, <1>3, <1>4 DEF UartTypeOK
<1>6. available \in Nat /\ available' \in Nat /\ seen \in Nat
  BY <1>1, <1>3, <1>4, DeltaRange, SizeAssumption DEF available, UartTypeOK
<1>7. at = "availT" => Delta(tmp, tail) \in Nat /\ Delta(tmp, tail)' = Delta(tmp, tail)
  BY <1>1, <1>3, DeltaRange, SizeAssumption DEF UartInv, Delta
<1>8. at' = "availT" => tmp' \in 0..(N - 1) /\ Delta(tmp, tail)' <= available'
  BY <1>3, <1>4, <1>6, <1>7 DEF UartInv
<1>9. at' # "clear2" => seen' <= available'
  BY <1>3, <1>4, <1>6 DEF UartInv
<1>10. ~Masked' /\ isr' /\ irqOn'
  BY <1>1, <1>3 DEF Masked
<1> QED
  BY <1>1, <1>3, <1>5, <1>8, <1>9, <1>10 DEF UartInv, Masked

(* Steps that leave the ring alone. *)
LEMMA RingUntouched ==
    ASSUME UartInv, UartTypeOK', UNCHANGED <<buf, head, tail>>,
           isr' => irqOn', Masked' => ~irqOn',
           at' = "take" => tail # head /\ tmp' = buf[tail],
           at' # "clear2" \/ at = "clear2",
           at' \in {"unflag", "off", "clear", "clear2"} => seen' = 0,
           at' = "availT" => tmp' \in 0..(N - 1) /\ Delta(tmp', tail) <= available,
           at' = "availH" => tmp' = tail,
           seen' <= available \/ at' = "clear2"
    PROVE  UartInv'
<1>1. available' = available
  BY DEF available, Delta
<1>2. at' = "availT" => Delta(tmp, tail)' <= available'
  BY <1>1 DEF Delta
<1> QED
  BY <1>1, <1>2 DEF UartInv

LEMMA StepUartInv == UartInv /\ [UartNext]_uartVars => UartInv'
<1> SUFFICES ASSUME UartInv, [UartNext]_uartVars PROVE UartInv'
  OBVIOUS
<1>0. /\ UartTypeOK /\ head \in 0..(N - 1) /\ tail \in 0..(N - 1)
      /\ available \in 0..(N - 1) /\ seen \in Nat
      /\ (isr => irqOn) /\ (Masked => ~irqOn /\ ~isr)
      /\ N \in Nat \ {0} /\ HwDepth \in Nat \ {0} /\ MaxBytes \in Nat
  <2>1. (isr => irqOn) /\ (Masked => ~irqOn /\ ~isr) /\ UartTypeOK
    BY Zenon DEF UartInv
  <2>2. head \in 0..(N - 1) /\ tail \in 0..(N - 1) /\ seen \in 0..(N - 1)
    BY <2>1 DEF UartTypeOK
  <2> QED
    BY <2>1, <2>2, DeltaRange, SizeAssumption DEF available
<1> USE DEF hw, ctl, ring, main
<1>1. CASE Arrive
  <2>1. fifo' \in Seq(Bytes) /\ Len(fifo') <= HwDepth /\ arrived' \in 0..MaxBytes
    <3>1. arrived + 1 \in Bytes /\ arrived' = arrived + 1
      BY <1>0, <1>1 DEF Arrive, UartTypeOK, Bytes
    <3>2. fifo' = Append(fifo, arrived + 1) /\ Len(fifo) < HwDepth
      BY <1>1 DEF Arrive
    <3>3. fifo' \in Seq(Bytes) /\ Len(fifo') = Len(fifo) + 1
      BY <1>0, <3>1, <3>2, AppendProperties DEF UartTypeOK
    <3> QED
      BY <1>0, <3>1, <3>2, <3>3 DEF Bytes, UartTypeOK
  <2>2. UartTypeOK'
    BY <1>0, <1>1, <2>1 DEF Arrive, UartTypeOK
  <2> QED
    BY <1>0, <1>1, <2>2, RingUntouched DEF Arrive, UartInv, Masked
<1>2. CASE Transmit
  <2>1. UartTypeOK'
    BY <1>0, <1>2 DEF Transmit, UartTypeOK
  <2> QED
    BY <1>0, <1>2, <2>1, RingUntouched DEF Transmit, UartInv, Masked
<1>3. CASE IsrEnter
  <2>1. UartTypeOK'
    BY <1>0, <1>3 DEF IsrEnter, UartTypeOK
  <2> QED
    BY <1>0, <1>3, <2>1, RingUntouched DEF IsrEnter, UartInv, Masked
<1>4. CASE IsrStore
  BY <1>4, StoreKeepsUartInv
<1>5. CASE IsrReturn
  <2>1. UartTypeOK'
    BY <1>0, <1>5 DEF IsrReturn, ClearFlag, UartTypeOK
  <2> QED
    BY <1>0, <1>5, <2>1, RingUntouched DEF IsrReturn, UartInv, Masked
<1>6. ASSUME NEW op \in {"read", "peek", "flush"}, CallMasked(op) PROVE UartInv'
  <2>1. UartTypeOK'
    <3>1. at' \in {"read", "peek", "clear"} /\ seen' \in 0..(N - 1) /\ irqOn' = FALSE
      BY <1>0, <1>6 DEF CallMasked, IRQ_Disable, UartTypeOK
    <3> QED
      BY <1>0, <1>6, <3>1 DEF CallMasked, UartTypeOK
  <2> QED
    BY <1>0, <1>6, <2>1, RingUntouched DEF CallMasked, IRQ_Disable, UartInv, Masked, At
<1>7. ASSUME NEW cont \in {"idle", "start"}, CallEnd(cont) PROVE UartInv'
  <2>1. UartTypeOK'
    <3>1. at' = "unflag" /\ seen' \in 0..(N - 1) /\ irqOn' = FALSE /\ then' = cont
      BY <1>0, <1>7 DEF CallEnd, IRQ_Disable
    <3> QED
      BY <1>0, <1>7, <3>1 DEF CallEnd, UartTypeOK
  <2> QED
    BY <1>0, <1>7, <2>1, RingUntouched DEF CallEnd, IRQ_Disable, UartInv, Masked, At
<1>8. CASE AvailableFirst
  <2>1. UartTypeOK'
    BY <1>0, <1>8 DEF AvailableFirst, UartTypeOK, At
  <2>2. at' = "availT" => tmp' = head
    BY <1>8 DEF AvailableFirst
  <2>3. Delta(head, tail) <= available
    BY <1>0 DEF available
  <2> QED
    BY <1>0, <1>8, <2>1, <2>2, <2>3, RingUntouched
    DEF AvailableFirst, UartInv, Masked, At
<1>9. CASE WriteCall
  <2>1. UartTypeOK'
    BY <1>0, <1>9 DEF WriteCall, UartTypeOK, At
  <2> QED
    BY <1>0, <1>9, <2>1, RingUntouched DEF WriteCall, UartInv, Masked, At
<1>10. CASE EndClear
  <2>1. UartTypeOK'
    BY <1>0, <1>10 DEF EndClear, ClearFlag, UartTypeOK, At
  <2> QED
    BY <1>0, <1>10, <2>1, RingUntouched DEF EndClear, UartInv, Masked, At
<1>11. CASE EndOff
  <2>1. fifo' \in Seq(Bytes) /\ Len(fifo') <= HwDepth /\ txn' \in 0..HwDepth
    <3>1. fifo' = <<>> /\ txn' = 0
      BY <1>11 DEF EndOff
    <3>2. <<>> \in Seq(Bytes) /\ Len(<<>>) = 0
      BY EmptySeq
    <3> QED
      BY <1>0, <3>1, <3>2
  <2>1a. UartTypeOK'
    BY <1>0, <1>11, <2>1 DEF EndOff, UartTypeOK
  <2> QED
    BY <1>0, <1>11, <2>1a, RingUntouched DEF EndOff, UartInv, Masked, At
<1>12. CASE ClearHead
  <2>1. UartTypeOK'
    BY <1>0, <1>12 DEF ClearHead, UartTypeOK, At
  <2> QED
    BY <1>0, <1>12, <2>1 DEF ClearHead, UartInv, Masked, At
<1>13. CASE ClearTail
  <2>1. UartTypeOK'
    BY <1>0, <1>13 DEF ClearTail, UartTypeOK, At
  <2>2. head' = 0 /\ tail' = 0 /\ seen' = 0 /\ at' \in {"idle", "start", "enable"}
    BY <1>0, <1>13 DEF ClearTail, UartInv, At, UartTypeOK
  <2>3. available' = 0
    BY <2>2 DEF available, Delta
  <2> QED
    BY <1>0, <1>13, <2>1, <2>2, <2>3 DEF ClearTail, UartInv, Masked, At
<1>14. CASE BeginOn
  <2>1. UartTypeOK'
    BY <1>0, <1>14 DEF BeginOn, UartTypeOK, At
  <2> QED
    BY <1>0, <1>14, <2>1, RingUntouched DEF BeginOn, UartInv, Masked, At
<1>15. CASE Enable
  <2>1. UartTypeOK'
    BY <1>0, <1>15 DEF Enable, UartTypeOK, At
  <2> QED
    BY <1>0, <1>15, <2>1, RingUntouched DEF Enable, UartInv, Masked, At
<1>16. CASE ReadNothing
  <2>1. UartTypeOK'
    BY <1>0, <1>16 DEF ReadNothing, UartTypeOK, At, NoByte
  <2> QED
    BY <1>0, <1>16, <2>1, RingUntouched DEF ReadNothing, UartInv, Masked, At
<1>17. CASE PeekByte
  <2>1. buf[tail] \in 0..MaxBytes
    BY <1>0 DEF UartTypeOK
  <2>2. UartTypeOK'
    BY <1>0, <1>17, <2>1 DEF PeekByte, UartTypeOK, At
  <2> QED
    BY <1>0, <1>17, <2>2, RingUntouched DEF PeekByte, UartInv, Masked, At
<1>18. CASE ReadByte
  <2>1. buf[tail] \in 0..MaxBytes
    BY <1>0 DEF UartTypeOK
  <2>2. UartTypeOK'
    BY <1>0, <1>18, <2>1 DEF ReadByte, UartTypeOK, At
  <2> QED
    BY <1>0, <1>18, <2>2, RingUntouched DEF ReadByte, UartInv, Masked, At
<1>19. CASE ReadTake
  <2>1. /\ tail # head /\ tmp = buf[tail] /\ tail' = nextIndex(tail) /\ head' = head
        /\ Masked /\ at' = "enable" /\ seen <= available
    BY <1>19 DEF ReadTake, UartInv, At, Masked
  <2>2. tail' \in 0..(N - 1) /\ available' = available - 1
    BY <1>0, <2>1, NextIndex, DeltaStep DEF available
  <2>3. buf[tail] \in 0..MaxBytes
    BY <1>0 DEF UartTypeOK
  <2>4. seen' \in 0..(N - 1) /\ seen' <= available'
    <3>1. available' \in 0..(N - 1)
      BY <1>0, <2>1, <2>2, DeltaRange DEF available
    <3>2. seen' = IF seen > 0 THEN seen - 1 ELSE 0
      BY <1>19 DEF ReadTake
    <3> QED
      BY <1>0, <2>1, <2>2, <3>1, <3>2
  <2>5. ret' \in -1..MaxBytes
    BY <1>0, <1>19, <2>1, <2>3 DEF ReadTake
  <2>6. UartTypeOK'
    BY <1>0, <1>19, <2>1, <2>2, <2>4, <2>5 DEF ReadTake, UartTypeOK
  <2> QED
    BY <1>0, <1>19, <2>1, <2>4, <2>6 DEF ReadTake, UartInv, Masked
<1>20. CASE AvailableSecond
  <2>1. seen' \in 0..(N - 1) /\ seen' <= available
    <3>1. CASE At("availT") /\ seen' = Delta(tmp, tail)
      BY <1>0, <3>1, DeltaRange DEF UartInv, At
    <3>2. CASE At("availH") /\ seen' = Delta(head, tmp)
      BY <1>0, <3>2, DeltaRange DEF UartInv, At, available
    <3> QED
      BY <1>20, <3>1, <3>2 DEF AvailableSecond
  <2>2. UartTypeOK'
    BY <1>0, <1>20, <2>1 DEF AvailableSecond, UartTypeOK
  <2> QED
    BY <1>0, <1>20, <2>1, <2>2, RingUntouched DEF AvailableSecond, UartInv, Masked, At
<1>21. CASE WriteStore
  <2>1. UartTypeOK'
    BY <1>0, <1>21 DEF WriteStore, UartTypeOK, At
  <2> QED
    BY <1>0, <1>21, <2>1, RingUntouched DEF WriteStore, UartInv, Masked, At
<1>22. CASE UNCHANGED uartVars
  <2>1. UartTypeOK'
    BY <1>0, <1>22 DEF uartVars, UartTypeOK
  <2> QED
    BY <1>0, <1>22, <2>1, RingUntouched DEF uartVars, UartInv, Masked
<1>23. CASE Overrun
  <2>1. UartTypeOK'
    BY <1>0, <1>23 DEF Overrun, UartTypeOK, Bytes
  <2> QED
    BY <1>0, <1>23, <2>1, RingUntouched DEF Overrun, UartInv, Masked
<1> QED
  BY <1>1, <1>2, <1>3, <1>4, <1>5, <1>6, <1>7, <1>8, <1>9, <1>10, <1>11, <1>12,
     <1>13, <1>14, <1>15, <1>16, <1>17, <1>18, <1>19, <1>20, <1>21, <1>22, <1>23
  DEF UartNext, Isr, Call, Continue

(* The driver's state keeps its types: in particular the ring's indices    *)
(* stay inside the buffer.                                                 *)
THEOREM UartTypes == UartSpec => []UartTypeOK
<1>1. UartInv => UartTypeOK
  BY DEF UartInv
<1> QED
  BY InitUartInv, StepUartInv, <1>1, PTL DEF UartSpec

(* available(), which reads the two indices while the interrupt may store  *)
(* between them, never promises a byte that read() then does not find.     *)
THEOREM PromisesAreKept == UartSpec => []PromiseKept
<1>1. UartInv => PromiseKept
  BY DEF UartInv, PromiseKept
<1> QED
  BY InitUartInv, StepUartInv, <1>1, PTL DEF UartSpec

(* available(), availableForStore() and isFull() agree about the ring. *)
THEOREM RoomsAgree == UartSpec => []RoomAgrees
<1>1. UartInv => RoomAgrees
  <2> SUFFICES ASSUME UartInv PROVE RoomAgrees
    OBVIOUS
  <2>1. head \in 0..(N - 1) /\ tail \in 0..(N - 1)
    BY DEF UartInv, UartTypeOK
  <2> QED
    BY <2>1, NextIndex, SizeAssumption
    DEF RoomAgrees, available, Delta, availableForStore, isFull
<1> QED
  BY InitUartInv, StepUartInv, <1>1, PTL DEF UartSpec

-----------------------------------------------------------------------------
(* The driver implements the bounded queue of ByteQueue. *)

Data == 0..MaxBytes

(* What a step does to the queue and to the hardware FIFO behind it: the   *)
(* interrupt moves a byte from one to the other or drops it, the sketch    *)
(* works on the queue alone, the peripheral on the FIFO alone.             *)
InterruptMoves ==
    /\ fifo # <<>> /\ fifo' = Tail(fifo) /\ arrived' = arrived
    /\ Queue!Put(Head(fifo)) \/ Queue!Refuse

SketchTakes ==
    /\ UNCHANGED <<fifo, arrived>>
    /\ \/ Queue!Clear
       \/ Queue!GetNothing
       \/ Queue!Look
       \/ Queue!Get

FifoMoves ==
    \/ arrived' = arrived /\ fifo' \in {fifo, <<>>}
    \/ arrived' = arrived + 1 /\ fifo' \in {fifo, Append(fifo, arrived + 1)}

QueueRests == UNCHANGED Queue!qvars /\ FifoMoves

LEMMA StepPipeline ==
    ASSUME UartInv, [UartNext]_uartVars
    PROVE  InterruptMoves \/ SketchTakes \/ QueueRests
<1>0. /\ head \in 0..(N - 1) /\ tail \in 0..(N - 1)
      /\ buf \in [0..(N - 1) -> Data]
      /\ N \in Nat \ {0}
  BY SizeAssumption DEF UartInv, UartTypeOK, Data
<1>1. /\ Contents = Window(N, buf, head, tail)
      /\ Contents' = Window(N, buf', head', tail')
  BY DEF Contents, available, Delta, Window, Span
<1>2. /\ Contents \in Seq(Data) /\ Len(Contents) = Delta(head, tail)
      /\ head # tail => /\ Contents # <<>> /\ Head(Contents) = buf[tail]
                        /\ Window(N, buf, head, nextIndex(tail)) = Tail(Contents)
      /\ head = tail => Contents = <<>>
  <2>1. Contents \in Seq(Data) /\ Len(Contents) = Delta(head, tail)
    <3>1. IsWindow(N, Data, buf, head, tail)
      BY <1>0, WindowIs
    <3> QED
      BY <1>1, <3>1 DEF IsWindow, Span, Delta
  <2>2. head # tail => /\ Contents # <<>> /\ Head(Contents) = buf[tail]
                       /\ Window(N, buf, head, nextIndex(tail)) = Tail(Contents)
    BY <1>0, <1>1, WindowTake DEF nextIndex, After
  <2>3. head = tail => Delta(head, tail) = 0
    BY <1>0, DeltaRange, Zenon
  <2> QED
    BY <2>1, <2>2, <2>3, EmptySeq
<1>3. Masked => ~isr
  BY Zenon DEF UartInv
<1> USE DEF hw, ctl, ring, main
<1>4. CASE /\ UNCHANGED <<buf, head, tail, ret, dropped>>
           /\ at' = "clear2" <=> at = "clear2"
           /\ FifoMoves
  <2>1. Waiting' = Waiting
    BY <1>1, <1>4 DEF Waiting
  <2> QED
    BY <1>4, <2>1 DEF Queue!qvars, QueueRests
<1>5. CASE IsrStore
  <2>1. /\ fifo \in Seq(Bytes) /\ fifo # <<>> /\ at' = at /\ ret' = ret /\ at # "clear2"
        /\ fifo' = Tail(fifo) /\ arrived' = arrived
    BY <1>3, <1>5 DEF IsrStore, UartInv, UartTypeOK, Masked
  <2>2. Head(fifo) \in Bytes
    BY <2>1, HeadTailProperties
  <2>3. Head(fifo) \in Data
    BY <2>2, SizeAssumption DEF Bytes, Data
  <2>4. Waiting = Contents /\ Waiting' = Contents'
    BY <2>1 DEF Waiting
  <2>5. CASE nextIndex(head) # tail
    <3>1. /\ buf' = [buf EXCEPT ![head] = Head(fifo)] /\ head' = nextIndex(head)
          /\ tail' = tail /\ dropped' = dropped
      BY <1>5, <2>5 DEF IsrStore, store_char
    <3>2. PICK c \in Data : c = Head(fifo) /\ c \in Bytes
      BY <2>2, <2>3
    <3>3. Contents' = Append(Contents, c)
      <4>1. Window(N, [buf EXCEPT ![head] = c], nextIndex(head), tail)
              = Append(Window(N, buf, head, tail), c)
        <5>1. nextIndex(head) = After(N, head)
          BY DEF nextIndex, After
        <5>2. After(N, head) # tail
          BY <2>5, <5>1
        <5>3. StoreAppends(N, buf, head, tail, c)
          BY <1>0, <5>2, WindowStore
        <5> QED
          BY <5>1, <5>3 DEF StoreAppends
      <4> QED
        BY <1>1, <3>1, <3>2, <4>1
    <3>4. Len(Contents) < N - 1
      <4>1. nextIndex(head) \in 0..(N - 1) /\ Delta(head, tail) \in 0..(N - 1)
        BY <1>0, NextIndex, DeltaRange
      <4>2. Delta(nextIndex(head), tail) = Delta(head, tail) + 1
        BY <1>0, <2>5, DeltaStep, Zenon
      <4>3. Delta(nextIndex(head), tail) \in 0..(N - 1)
        BY <1>0, <4>1, DeltaRange
      <4> QED
        BY <1>0, <1>2, <4>1, <4>2, <4>3
    <3>5. Queue!Put(c)
      BY <2>1, <2>4, <3>1, <3>3, <3>4 DEF Queue!Put
    <3> QED
      BY <2>1, <3>2, <3>5 DEF InterruptMoves
  <2>6. CASE nextIndex(head) = tail
    <3>1. UNCHANGED <<buf, head, tail>> /\ dropped' = dropped + 1
      BY <1>5, <2>6 DEF IsrStore, store_char
    <3>2. Contents' = Contents
      BY <1>1, <3>1
    <3>3. Len(Contents) = N - 1
      <4>1. Delta(head, tail) = N - 1
        BY <1>0, <2>6, DeltaStep, Zenon
      <4> QED
        BY <1>2, <4>1
    <3>4. Queue!Refuse
      BY <2>1, <2>4, <3>1, <3>2, <3>3 DEF Queue!Refuse
    <3> QED
      BY <2>1, <3>4 DEF InterruptMoves
  <2> QED
    BY <2>5, <2>6
<1>6. CASE ClearHead
  <2>1. /\ Waiting' = <<>> /\ ret' = ret /\ dropped' = dropped
        /\ UNCHANGED <<fifo, arrived>>
    BY <1>6 DEF ClearHead, Waiting
  <2>2. Queue!Clear
    BY <2>1 DEF Queue!Clear
  <2> QED
    BY <2>1, <2>2 DEF SketchTakes
<1>7. CASE ClearTail
  <2>1. /\ at = "clear2" /\ at' \in {"idle", "start", "enable"}
        /\ head' = 0 /\ tail' = 0 /\ ret' = ret /\ dropped' = dropped
        /\ UNCHANGED <<fifo, arrived>>
    BY <1>7 DEF ClearTail, At, UartInv, UartTypeOK
  <2>2. Contents' = <<>>
    <3>1. available' = 0
      BY <2>1 DEF available, Delta
    <3> QED
      BY <3>1 DEF Contents
  <2>3. Waiting = <<>> /\ Waiting' = <<>>
    BY <2>1, <2>2 DEF Waiting
  <2> QED
    BY <2>1, <2>3 DEF Queue!qvars, QueueRests, FifoMoves
<1>8. CASE ReadNothing
  <2>1. /\ at \in {"read", "peek"} /\ at' = "enable" /\ tail = head
        /\ UNCHANGED <<buf, head, tail, dropped, fifo, arrived>> /\ ret' = NoByte
    BY <1>8 DEF ReadNothing, At
  <2>2. Waiting = <<>> /\ Waiting' = <<>>
    <3>1. Contents' = Contents
      BY <1>1, <2>1
    <3> QED
      BY <1>2, <2>1, <3>1 DEF Waiting
  <2>3. Queue!GetNothing
    BY <2>1, <2>2 DEF Queue!GetNothing
  <2> QED
    BY <2>1, <2>3 DEF SketchTakes
<1>9. CASE PeekByte
  <2>1. /\ at = "peek" /\ at' = "enable" /\ tail # head
        /\ UNCHANGED <<buf, head, tail, dropped, fifo, arrived>> /\ ret' = buf[tail]
    BY <1>9 DEF PeekByte, At
  <2>2. Waiting = Contents /\ Waiting' = Contents
    BY <1>1, <2>1 DEF Waiting
  <2>3. Queue!Look
    BY <1>2, <2>1, <2>2 DEF Queue!Look
  <2> QED
    BY <2>1, <2>3 DEF SketchTakes
<1>10. CASE ReadTake
  <2>1. /\ at = "take" /\ at' = "enable" /\ tail # head /\ tmp = buf[tail]
        /\ UNCHANGED <<buf, head, dropped, fifo, arrived>>
        /\ ret' = tmp /\ tail' = nextIndex(tail)
    BY <1>10 DEF ReadTake, At, UartInv
  <2>2. Contents' = Tail(Contents)
    BY <1>1, <1>2, <2>1
  <2>3. Waiting = Contents /\ Waiting' = Tail(Contents)
    BY <2>1, <2>2 DEF Waiting
  <2>4. Queue!Get
    BY <1>2, <2>1, <2>3 DEF Queue!Get
  <2> QED
    BY <2>1, <2>4 DEF SketchTakes
<1>11. CASE Arrive \/ Overrun \/ Transmit \/ IsrEnter \/ IsrReturn
  <2>1. UNCHANGED <<buf, head, tail, ret, dropped, at>>
    BY <1>11 DEF Arrive, Overrun, Transmit, IsrEnter, IsrReturn
  <2>2. FifoMoves
    BY <1>11 DEF Arrive, Overrun, Transmit, IsrEnter, IsrReturn, FifoMoves
  <2> QED
    BY <1>4, <2>1, <2>2
<1>12. CASE Call
  <2>1. /\ UNCHANGED <<buf, head, tail, ret, dropped, fifo, arrived>>
        /\ at = "idle" /\ at' # "clear2"
    BY <1>12 DEF Call, CallMasked, CallEnd, AvailableFirst, WriteCall, At
  <2> QED
    BY <1>4, <2>1 DEF FifoMoves
<1>13. CASE \/ EndClear \/ EndOff \/ BeginOn \/ Enable \/ ReadByte
            \/ AvailableSecond \/ WriteStore
  <2>1. /\ UNCHANGED <<buf, head, tail, ret, dropped, arrived>> /\ fifo' \in {fifo, <<>>}
        /\ at # "clear2" /\ at' # "clear2"
    BY <1>13 DEF EndClear, EndOff, BeginOn, Enable, ReadByte, AvailableSecond,
                 WriteStore, At
  <2> QED
    BY <1>4, <2>1 DEF FifoMoves
<1>14. CASE UNCHANGED uartVars
  BY <1>4, <1>14 DEF uartVars, FifoMoves
<1> QED
  BY <1>5, <1>6, <1>7, <1>8, <1>9, <1>10, <1>11, <1>12, <1>13, <1>14
  DEF UartNext, Isr, Continue

(* Every access of the driver is an operation of the queue or none. *)
LEMMA StepQueue == UartInv /\ [UartNext]_uartVars => [Queue!Next]_(Queue!qvars)
<1> SUFFICES ASSUME UartInv, [UartNext]_uartVars PROVE [Queue!Next]_(Queue!qvars)
  OBVIOUS
<1>1. fifo # <<>> => Head(fifo) \in Bytes
  <2>1. fifo \in Seq(Bytes)
    BY DEF UartInv, UartTypeOK
  <2> QED
    BY <2>1, HeadTailProperties
<1>2. CASE InterruptMoves
  BY <1>1, <1>2 DEF InterruptMoves, Queue!Next
<1>3. CASE SketchTakes
  BY <1>3 DEF SketchTakes, Queue!Next
<1>4. CASE QueueRests
  BY <1>4 DEF QueueRests
<1> QED
  BY <1>2, <1>3, <1>4, StepPipeline

(* The driver is a bounded queue: read(), peek() and flush() in the sketch *)
(* and store_char in the interrupt neither lose, repeat nor reorder a      *)
(* byte, and a byte is refused only when N - 1 bytes wait.                 *)
THEOREM QueueRefinement == UartSpec => ImplementsQueue
<1>1. UartInit => Queue!Init
  <2> SUFFICES ASSUME UartInit PROVE Queue!Init
    OBVIOUS
  <2>1. available = 0 /\ at = "idle"
    BY DEF UartInit, available, Delta
  <2>2. Waiting = <<>>
    BY <2>1 DEF Waiting, Contents
  <2> QED
    BY <2>2 DEF UartInit, Queue!Init
<1> QED
  BY InitUartInv, StepUartInv, StepQueue, <1>1, PTL
  DEF UartSpec, ImplementsQueue, Queue!Spec

-----------------------------------------------------------------------------
(* The order of the bytes, of the ring and of the FIFO apart. *)
Increasing(s) == \A i, j \in 1..Len(s) : i < j => s[i] < s[j]

Behind(s) == \A i \in 1..Len(s) : ret <= s[i] /\ s[i] <= arrived

OrderInv ==
    /\ Increasing(Waiting) /\ Increasing(fifo)
    /\ \A i \in 1..Len(Waiting), j \in 1..Len(fifo) : Waiting[i] < fifo[j]
    /\ Behind(Waiting) /\ Behind(fifo)
    /\ ret <= arrived

LEMMA WaitingTyped == UartInv => Waiting \in Seq(Data)
<1> SUFFICES ASSUME UartInv PROVE Waiting \in Seq(Data)
  OBVIOUS
<1>1. /\ head \in 0..(N - 1) /\ tail \in 0..(N - 1)
      /\ buf \in [0..(N - 1) -> Data]
      /\ N \in Nat \ {0}
  BY SizeAssumption DEF UartInv, UartTypeOK, Data
<1>2. IsWindow(N, Data, buf, head, tail)
  BY <1>1, WindowIs
<1>3. Contents = Window(N, buf, head, tail)
  BY DEF Contents, available, Delta, Window, Span
<1> QED
  BY <1>2, <1>3, EmptySeq DEF IsWindow, Waiting

LEMMA InitOrder == UartInit => OrderInv
<1> SUFFICES ASSUME UartInit PROVE OrderInv
  OBVIOUS
<1>1. available = 0 /\ at = "idle" /\ fifo = <<>> /\ ret = -1 /\ arrived = 0
  BY DEF UartInit, available, Delta, NoByte
<1>2. Waiting = <<>>
  BY <1>1 DEF Waiting, Contents
<1> QED
  BY <1>1, <1>2 DEF OrderInv, Increasing, Behind

LEMMA StepOrder == UartInv /\ OrderInv /\ [UartNext]_uartVars => OrderInv'
<1> SUFFICES ASSUME UartInv, OrderInv, [UartNext]_uartVars PROVE OrderInv'
  OBVIOUS
<1>1. /\ fifo \in Seq(Bytes) /\ arrived \in Nat /\ ret \in Int /\ MaxBytes \in Nat
      /\ Len(fifo) \in Nat /\ \A i \in 1..Len(fifo) : fifo[i] \in Nat
  <2>1. /\ fifo \in Seq(Bytes) /\ arrived \in 0..MaxBytes /\ ret \in -1..MaxBytes
        /\ MaxBytes \in Nat
    BY SizeAssumption DEF UartInv, UartTypeOK
  <2>2. Len(fifo) \in Nat /\ \A i \in 1..Len(fifo) : fifo[i] \in Bytes
    BY <2>1, LenProperties, ElementOfSeq
  <2> QED
    BY <2>1, <2>2 DEF Bytes
<1>2. /\ Waiting \in Seq(Data)
      /\ Len(Waiting) \in Nat /\ \A i \in 1..Len(Waiting) : Waiting[i] \in Nat
  <2>1. Waiting \in Seq(Data)
    BY WaitingTyped
  <2>2. Len(Waiting) \in Nat /\ \A i \in 1..Len(Waiting) : Waiting[i] \in Data
    BY <2>1, LenProperties, ElementOfSeq
  <2> QED
    BY <1>1, <2>1, <2>2 DEF Data
<1> DEFINE W == Waiting
           F == fifo
<1>3. CASE InterruptMoves
  <2>1. /\ F # <<>> /\ fifo' = Tail(F) /\ arrived' = arrived /\ ret' = ret
        /\ \/ Waiting' = Append(W, Head(F))
           \/ Waiting' = W
    BY <1>3 DEF InterruptMoves, Queue!Put, Queue!Refuse
  <2>2. /\ Head(F) = F[1] /\ Len(Tail(F)) = Len(F) - 1 /\ 1 \in 1..Len(F)
        /\ \A i \in 1..Len(Tail(F)) : Tail(F)[i] = F[i + 1] /\ i + 1 \in 1..Len(F)
    <3>1. Head(F) = F[1] /\ Len(F) # 0
      BY <1>1, <2>1, EmptySeq
    <3>2. Len(Tail(F)) = Len(F) - 1 /\ \A i \in 1..Len(Tail(F)) : Tail(F)[i] = F[i + 1]
      BY <1>1, <2>1, HeadTailProperties
    <3> QED
      BY <1>1, <3>1, <3>2
  <2>3. Increasing(fifo') /\ Behind(fifo)'
    <3> DEFINE T == Tail(F)
    <3>1. /\ Len(T) \in Nat
          /\ \A i \in 1..Len(T) : T[i] = F[i + 1] /\ i + 1 \in 1..Len(F)
      BY <1>1, <2>2
    <3> HIDE DEF T
    <3>2. \A i, j \in 1..Len(T) : i < j => T[i] < T[j]
      <4> SUFFICES ASSUME NEW i \in 1..Len(T), NEW j \in 1..Len(T), i < j PROVE T[i] < T[j]
        OBVIOUS
      <4>1. i + 1 < j + 1
        OBVIOUS
      <4> QED
        BY <3>1, <4>1 DEF OrderInv, Increasing
    <3>3. \A i \in 1..Len(T) : ret <= T[i] /\ T[i] <= arrived
      BY <3>1 DEF OrderInv, Behind
    <3>4. fifo' = T
      BY <2>1 DEF T
    <3> QED
      BY <2>1, <3>2, <3>3, <3>4 DEF Increasing, Behind
  <2>4. CASE Waiting' = W
    <3>1. \A i \in 1..Len(W), j \in 1..Len(Tail(F)) : W[i] < Tail(F)[j]
      BY <2>2 DEF OrderInv
    <3> QED
      BY <2>1, <2>3, <2>4, <3>1 DEF OrderInv, Increasing, Behind
  <2>5. CASE Waiting' = Append(W, Head(F))
    <3> DEFINE A == Append(W, Head(F))
    <3>1. /\ Len(A) = Len(W) + 1 /\ A[Len(W) + 1] = F[1]
          /\ \A i \in 1..Len(W) : A[i] = W[i]
      <4>1. Head(F) \in Data
        <5>1. F[1] \in Bytes
          BY <1>1, <2>2, ElementOfSeq
        <5> QED
          BY <1>1, <2>2, <5>1 DEF Data, Bytes
      <4> QED
        BY <1>2, <2>2, <4>1, AppendProperties
    <3> HIDE DEF A
    <3>2. \A i \in 1..Len(A) : i \in 1..Len(W) \/ i = Len(W) + 1
      BY <1>2, <3>1
    <3>3. \A i \in 1..Len(W) : W[i] < F[1]
      BY <2>2 DEF OrderInv
    <3>4. Increasing(A)
      <4> SUFFICES ASSUME NEW i \in 1..Len(A), NEW j \in 1..Len(A), i < j PROVE A[i] < A[j]
        BY DEF Increasing
      <4>1. i \in 1..Len(W)
        BY <1>2, <3>1
      <4> QED
        BY <3>1, <3>2, <3>3, <4>1 DEF OrderInv, Increasing
    <3>5. \A i \in 1..Len(A) : ret <= A[i] /\ A[i] <= arrived
      BY <2>2, <3>1, <3>2 DEF OrderInv, Behind
    <3>6. \A j \in 1..Len(Tail(F)) : F[1] < Tail(F)[j]
      <4> SUFFICES ASSUME NEW j \in 1..Len(Tail(F)) PROVE F[1] < Tail(F)[j]
        OBVIOUS
      <4>1. 1 < j + 1
        OBVIOUS
      <4> QED
        BY <2>2, <4>1 DEF OrderInv, Increasing
    <3>7. \A i \in 1..Len(W), j \in 1..Len(Tail(F)) : W[i] < Tail(F)[j]
      BY <2>2 DEF OrderInv
    <3>8. \A i \in 1..Len(A), j \in 1..Len(Tail(F)) : A[i] < Tail(F)[j]
      BY <3>1, <3>2, <3>6, <3>7
    <3>9. Waiting' = A
      BY <2>5 DEF A
    <3> QED
      BY <2>1, <2>3, <3>4, <3>5, <3>8, <3>9 DEF OrderInv, Increasing, Behind
  <2> QED
    BY <2>1, <2>4, <2>5
<1>4. CASE SketchTakes
  <2>1. CASE Queue!Clear
    <3>1. fifo' = F /\ arrived' = arrived /\ ret' = ret /\ Waiting' = <<>>
      BY <1>4, <2>1 DEF SketchTakes, Queue!Clear
    <3> QED
      BY <3>1 DEF OrderInv, Increasing, Behind
  <2>2. CASE \/ Queue!GetNothing
             \/ Queue!Look /\ W = <<>>
    <3>1. fifo' = F /\ arrived' = arrived /\ ret' = -1 /\ Waiting' = W
      BY <1>4, <2>2 DEF SketchTakes, Queue!GetNothing, Queue!Look, NoByte
    <3>2. \A i \in 1..Len(W) : -1 <= W[i]
      BY <1>2
    <3>3. \A i \in 1..Len(F) : -1 <= F[i]
      BY <1>1
    <3> QED
      BY <1>1, <3>1, <3>2, <3>3 DEF OrderInv, Increasing, Behind
  <2>3. CASE \/ Queue!Look /\ W # <<>>
             \/ Queue!Get
    <3>1. /\ fifo' = F /\ arrived' = arrived /\ W # <<>> /\ ret' = Head(W)
          /\ Waiting' = W \/ Waiting' = Tail(W)
      BY <1>4, <2>3 DEF SketchTakes, Queue!Get, Queue!Look
    <3>2. /\ Head(W) = W[1] /\ Len(Tail(W)) = Len(W) - 1 /\ 1 \in 1..Len(W)
          /\ \A i \in 1..Len(Tail(W)) : Tail(W)[i] = W[i + 1] /\ i + 1 \in 1..Len(W)
      <4>1. Head(W) = W[1] /\ Len(W) # 0
        BY <1>2, <3>1, EmptySeq
      <4>2. Len(Tail(W)) = Len(W) - 1 /\ \A i \in 1..Len(Tail(W)) : Tail(W)[i] = W[i + 1]
        BY <1>2, <3>1, HeadTailProperties
      <4> QED
        BY <1>2, <4>1, <4>2
    <3>3. /\ \A i \in 1..Len(W) : W[1] <= W[i]
          /\ \A i \in 1..Len(F) : W[1] <= F[i]
      <4>1. ASSUME NEW i \in 1..Len(W) PROVE W[1] <= W[i]
        <5>1. i = 1 \/ 1 < i
          OBVIOUS
        <5> QED
          BY <1>2, <3>2, <5>1 DEF OrderInv, Increasing
      <4>2. ASSUME NEW i \in 1..Len(F) PROVE W[1] <= F[i]
        BY <1>1, <1>2, <3>2 DEF OrderInv
      <4> QED
        BY <4>1, <4>2
    <3>4. CASE Waiting' = W
      BY <3>1, <3>2, <3>3, <3>4 DEF OrderInv, Increasing, Behind
    <3>5. CASE Waiting' = Tail(W)
      <4> DEFINE T == Tail(W)
      <4>1. /\ Len(T) \in Nat
            /\ \A i \in 1..Len(T) : T[i] = W[i + 1] /\ i + 1 \in 1..Len(W)
        BY <1>2, <3>2
      <4> HIDE DEF T
      <4>2. \A i, j \in 1..Len(T) : i < j => T[i] < T[j]
        <5> SUFFICES ASSUME NEW i \in 1..Len(T), NEW j \in 1..Len(T), i < j PROVE T[i] < T[j]
          OBVIOUS
        <5>1. i + 1 < j + 1
          OBVIOUS
        <5> QED
          BY <4>1, <5>1 DEF OrderInv, Increasing
      <4>3. \A i \in 1..Len(T) : W[1] <= T[i] /\ T[i] <= arrived
        BY <3>3, <4>1 DEF OrderInv, Behind
      <4>4. \A i \in 1..Len(T), j \in 1..Len(F) : T[i] < F[j]
        BY <4>1 DEF OrderInv
      <4>5. Waiting' = T
        BY <3>5 DEF T
      <4> QED
        BY <3>1, <3>2, <3>3, <4>2, <4>3, <4>4, <4>5 DEF OrderInv, Increasing, Behind
    <3> QED
      BY <3>1, <3>4, <3>5
  <2> QED
    BY <1>4, <2>1, <2>2, <2>3 DEF SketchTakes
<1>5. CASE QueueRests
  <2>1. Waiting' = W /\ ret' = ret
    BY <1>5 DEF QueueRests, Queue!qvars
  <2>2. /\ arrived' \in {arrived, arrived + 1}
        /\ \/ fifo' \in {F, <<>>}
           \/ fifo' = Append(F, arrived + 1) /\ arrived' = arrived + 1
    BY <1>5 DEF QueueRests, FifoMoves
  <2>3. Behind(W)'
    BY <1>1, <1>2, <2>1, <2>2 DEF OrderInv, Behind
  <2>4. CASE fifo' = F
    BY <1>1, <2>1, <2>2, <2>3, <2>4 DEF OrderInv, Increasing, Behind
  <2>5. CASE fifo' = <<>>
    BY <1>1, <2>1, <2>2, <2>3, <2>5 DEF OrderInv, Increasing, Behind
  <2>6. CASE fifo' = Append(F, arrived + 1) /\ arrived' = arrived + 1
    <3> DEFINE A == Append(F, arrived + 1)
    <3>1. /\ Len(A) = Len(F) + 1 /\ A[Len(F) + 1] = arrived + 1
          /\ \A i \in 1..Len(F) : A[i] = F[i]
      <4>1. F \in Seq(Nat) /\ arrived + 1 \in Nat
        <5>1. F \in [1..Len(F) -> Bytes]
          BY <1>1, LenProperties
        <5>2. F \in [1..Len(F) -> Nat]
          BY <1>1, <5>1
        <5> QED
          BY <1>1, <5>2, FunctionIsSeq
      <4> QED
        BY <4>1, AppendProperties
    <3> HIDE DEF A
    <3>2. \A i \in 1..Len(A) : i \in 1..Len(F) \/ i = Len(F) + 1
      BY <1>1, <3>1
    <3>3. \A i \in 1..Len(F) : F[i] < arrived + 1
      BY <1>1 DEF OrderInv, Behind
    <3>4. \A i \in 1..Len(W) : W[i] < arrived + 1
      BY <1>1, <1>2 DEF OrderInv, Behind
    <3>5. Increasing(A)
      <4> SUFFICES ASSUME NEW i \in 1..Len(A), NEW j \in 1..Len(A), i < j PROVE A[i] < A[j]
        BY DEF Increasing
      <4>1. i \in 1..Len(F)
        BY <1>1, <3>1
      <4> QED
        BY <3>1, <3>2, <3>3, <4>1 DEF OrderInv, Increasing
    <3>6. ret <= arrived + 1
      BY <1>1 DEF OrderInv
    <3>7. \A i \in 1..Len(A) : ret <= A[i] /\ A[i] <= arrived + 1
      BY <1>1, <3>1, <3>2, <3>6 DEF OrderInv, Behind
    <3>8. \A i \in 1..Len(W), j \in 1..Len(A) : W[i] < A[j]
      BY <3>1, <3>2, <3>4 DEF OrderInv
    <3>9. fifo' = A
      BY <2>6 DEF A
    <3> QED
      BY <2>1, <2>3, <2>6, <3>5, <3>7, <3>8, <3>9 DEF OrderInv, Increasing, Behind
  <2> QED
    BY <2>2, <2>4, <2>5, <2>6
<1> QED
  BY <1>3, <1>4, <1>5, StepPipeline

(* Bytes leave the driver in the order they reached the UART, however many *)
(* are lost on the way, and none of those that wait is older than the last *)
(* answer of read() or peek().                                             *)
THEOREM BytesAreInOrder == UartSpec => []InOrder
<1>1. UartInv /\ OrderInv => InOrder
  <2> SUFFICES ASSUME UartInv, OrderInv PROVE InOrder
    OBVIOUS
  <2>1. Waiting \in Seq(Data) /\ fifo \in Seq(Data)
    <3>1. fifo \in Seq(Bytes) /\ MaxBytes \in Nat
      BY SizeAssumption DEF UartInv, UartTypeOK
    <3>2. Seq(Bytes) \subseteq Seq(Data)
      BY <3>1 DEF Bytes, Data
    <3> QED
      BY <3>1, <3>2, WaitingTyped
  <2>2. IsConcat(Data, Waiting, fifo) /\ Len(Waiting) \in Nat /\ Len(fifo) \in Nat
    BY <2>1, ConcatIs, LenProperties
  <2> DEFINE P == Pipeline
  <2>3. /\ Len(P) = Len(Waiting) + Len(fifo)
        /\ \A i \in 1..Len(Waiting) : P[i] = Waiting[i]
        /\ \A i \in 1..Len(fifo) : P[Len(Waiting) + i] = fifo[i]
    BY <2>2 DEF IsConcat, Pipeline
  <2> HIDE DEF P
  <2>4. ASSUME NEW i \in 1..Len(P)
        PROVE  \/ i \in 1..Len(Waiting) /\ P[i] = Waiting[i]
               \/ /\ i > Len(Waiting) /\ i - Len(Waiting) \in 1..Len(fifo)
                  /\ P[i] = fifo[i - Len(Waiting)]
    <3>1. CASE i \in 1..Len(Waiting)
      BY <2>3, <3>1
    <3>2. CASE ~(i \in 1..Len(Waiting))
      <4>1. i > Len(Waiting) /\ i - Len(Waiting) \in 1..Len(fifo)
            /\ Len(Waiting) + (i - Len(Waiting)) = i
        BY <2>2, <2>3, <3>2
      <4> QED
        BY <2>3, <4>1
    <3> QED
      BY <3>1, <3>2
  <2>5. \A i \in 1..Len(P) : ret <= P[i] /\ P[i] <= arrived
    BY <2>4 DEF OrderInv, Behind
  <2>6. ASSUME NEW i \in 1..Len(P), NEW j \in 1..Len(P), i < j PROVE P[i] < P[j]
    <3>1. CASE j \in 1..Len(Waiting)
      <4>1. i \in 1..Len(Waiting)
        BY <2>2, <2>6, <3>1
      <4> QED
        BY <2>3, <2>6, <3>1, <4>1 DEF OrderInv, Increasing
    <3>2. CASE ~(j \in 1..Len(Waiting)) /\ i \in 1..Len(Waiting)
      <4>1. P[i] = Waiting[i]
        BY <2>3, <3>2, Zenon
      <4>2. PICK k \in 1..Len(fifo) : P[j] = fifo[k]
        BY <2>4, <3>2, Zenon
      <4>3. Waiting[i] < fifo[k]
        BY <3>2, Zenon DEF OrderInv
      <4> QED
        BY <4>1, <4>2, <4>3, Zenon
    <3>3. CASE ~(j \in 1..Len(Waiting)) /\ ~(i \in 1..Len(Waiting))
      <4>1. /\ i - Len(Waiting) \in 1..Len(fifo) /\ P[i] = fifo[i - Len(Waiting)]
            /\ j - Len(Waiting) \in 1..Len(fifo) /\ P[j] = fifo[j - Len(Waiting)]
            /\ i - Len(Waiting) < j - Len(Waiting)
        BY <2>2, <2>4, <2>6, <3>3
      <4> QED
        BY <4>1 DEF OrderInv, Increasing
    <3> QED
      BY <3>1, <3>2, <3>3
  <2> QED
    BY <2>5, <2>6 DEF InOrder, P
<1> QED
  BY InitUartInv, StepUartInv, InitOrder, StepOrder, <1>1, PTL DEF UartSpec
=============================================================================
