----------------------------- MODULE SerialUart -----------------------------
(***************************************************************************)
(* The UART driver of arduino/cores/EFM/SerialUart.h over the ring buffer  *)
(* of arduino/api/RingBuffer.h.  The receive interrupt stores bytes, the   *)
(* sketch reads them; both run on one processor, so the interrupt may come *)
(* between any two accesses of the sketch but never the other way round.   *)
(* Each access to shared memory or to a control register is a step.        *)
(*                                                                         *)
(* Received bytes are numbered 1, 2, ... in the order they arrive, which   *)
(* is all the properties need to know of them.                             *)
(***************************************************************************)
EXTENDS Integers, Sequences

CONSTANTS N,          \* SERIAL_BUFFER_SIZE
          HwDepth,    \* the depth of the receiver's and the transmitter's FIFO
          MaxBytes    \* bound: how many bytes arrive

ASSUME SizeAssumption == N \in Nat \ {0} /\ HwDepth \in Nat \ {0} /\ MaxBytes \in Nat

VARIABLES
    fifo,       \* hardware: received bytes not yet read from URXREG
    arrived,    \* hardware: how many bytes have arrived
    oerr,       \* hardware: U1STA.OERR, the receiver has stopped
    txn,        \* hardware: how many bytes wait to be transmitted
    on,         \* U1MODE.ON with U1STA.URXEN and UTXEN
    irqFlag,    \* the interrupt flag, IFS
    irqOn,      \* the interrupt enable, IEC
    isr,        \* is isr_callback running?
    buf,        \* _aucBuffer
    head,       \* _iHead
    tail,       \* _iTail
    at,         \* the access the sketch makes next
    then,       \* where rxBuffer.clear() returns to
    tmp,        \* a value the sketch has read and not used yet
    ret,        \* what read() or peek() returned last
    seen,       \* history: bytes available() has promised and not yet read
    dropped     \* history: bytes store_char has thrown away

hw   == <<fifo, arrived, oerr, txn>>
ctl  == <<on, irqFlag, irqOn>>
ring == <<buf, head, tail>>
main == <<at, then, tmp, ret, seen>>
uartVars == <<hw, ctl, isr, ring, main, dropped>>

NoByte == -1
Bytes == 1..MaxBytes

-----------------------------------------------------------------------------
(* RingBufferN *)

nextIndexUnwrapped(i) == i + 1

nextIndex(i) == (i + 1) % N

(* available() for the indices it has read. *)
Delta(h, t) == IF h - t < 0 THEN N + (h - t) ELSE h - t

available == Delta(head, tail)

availableForStoreFull == IF head >= tail THEN N - head + tail ELSE tail - head - 1

availableForStore == IF head >= tail THEN N - 1 - head + tail ELSE tail - head - 1

isFull == nextIndex(head) = tail

(* What the indices enclose, oldest first. *)
Contents == [i \in 1..available |-> buf[(tail + i - 1) % N]]

store_charMisplaced(c) ==
    \/ /\ nextIndex(head) # tail
       /\ buf' = [buf EXCEPT ![nextIndex(head)] = c]
       /\ head' = nextIndex(head)
       /\ UNCHANGED <<tail, dropped>>
    \/ /\ nextIndex(head) = tail
       /\ dropped' = dropped + 1
       /\ UNCHANGED ring

store_charOverwrites(c) ==
    /\ buf' = [buf EXCEPT ![head] = c]
    /\ head' = nextIndex(head)
    /\ UNCHANGED <<tail, dropped>>

store_char(c) ==
    \/ /\ nextIndex(head) # tail
       /\ buf' = [buf EXCEPT ![head] = c]
       /\ head' = nextIndex(head)
       /\ UNCHANGED <<tail, dropped>>
    \/ /\ nextIndex(head) = tail
       /\ dropped' = dropped + 1
       /\ UNCHANGED ring

-----------------------------------------------------------------------------
UartInit ==
    /\ fifo = <<>> /\ arrived = 0 /\ oerr = FALSE /\ txn = 0
    /\ on = FALSE /\ irqFlag = FALSE /\ irqOn = FALSE
    /\ isr = FALSE
    /\ buf = [i \in 0..(N - 1) |-> 0] /\ head = 0 /\ tail = 0
    /\ at = "idle" /\ then = "idle" /\ tmp = 0 /\ ret = NoByte
    /\ seen = 0
    /\ dropped = 0

-----------------------------------------------------------------------------
(* The peripheral. *)
Arrive ==
    /\ on /\ arrived < MaxBytes
    /\ ~oerr /\ Len(fifo) < HwDepth
    /\ arrived' = arrived + 1
    /\ fifo' = Append(fifo, arrived + 1)
    /\ irqFlag' = TRUE
    /\ UNCHANGED <<oerr, txn, on, irqOn, isr, ring, main, dropped>>

(* A byte that finds the FIFO full is lost, and so is every later one:     *)
(* the receiver stops until U1STA is written, which only end() does.       *)
Overrun ==
    /\ on /\ arrived < MaxBytes
    /\ oerr \/ Len(fifo) >= HwDepth
    /\ arrived' = arrived + 1
    /\ oerr' = TRUE
    /\ UNCHANGED <<fifo, txn, ctl, isr, ring, main, dropped>>

Transmit ==
    /\ on /\ txn > 0
    /\ txn' = txn - 1
    /\ UNCHANGED <<fifo, arrived, oerr, ctl, isr, ring, main, dropped>>

(* The flag of the UART follows a condition: it cannot be cleared while    *)
(* the FIFO holds a byte.                                                  *)
ClearFlag == irqFlag' = (fifo # <<>>)

-----------------------------------------------------------------------------
(* The interrupt: UART_Handler calls isr_callback. *)
IsrEnter ==
    /\ ~isr /\ irqOn /\ irqFlag
    /\ isr' = TRUE
    /\ UNCHANGED <<hw, ctl, ring, main, dropped>>

IsrStore ==
    /\ isr /\ fifo # <<>>
    /\ store_char(Head(fifo))
    /\ fifo' = Tail(fifo)
    /\ UNCHANGED <<arrived, oerr, txn, ctl, isr, main>>

IsrReturn ==
    /\ isr /\ fifo = <<>>
    /\ ClearFlag
    /\ isr' = FALSE
    /\ UNCHANGED <<hw, on, irqOn, ring, main, dropped>>

-----------------------------------------------------------------------------
(* The sketch.  It runs only while no interrupt does. *)
At(label) == ~isr /\ at = label

IRQ_DisableSkipped == irqOn' = irqOn

IRQ_Disable == irqOn' = FALSE

(* read(), peek() and flush() begin by masking the receive interrupt. *)
CallMasked(op) ==
    /\ At("idle")
    /\ IRQ_Disable
    /\ at' = IF op = "flush" THEN "clear" ELSE op
    /\ then' = "enable"
    /\ seen' = IF op = "flush" THEN 0 ELSE seen
    /\ UNCHANGED <<hw, on, irqFlag, isr, ring, tmp, ret, dropped>>

(* end(), and begin() which calls it first. *)
CallEnd(cont) ==
    /\ At("idle")
    /\ IRQ_Disable
    /\ at' = "unflag"
    /\ then' = cont
    /\ seen' = 0
    /\ UNCHANGED <<hw, on, irqFlag, isr, ring, tmp, ret, dropped>>

EndClear ==
    /\ At("unflag")
    /\ ClearFlag
    /\ at' = "off"
    /\ UNCHANGED <<hw, on, irqOn, isr, ring, then, tmp, ret, seen, dropped>>

(* U1MODE and U1STA are zeroed, which empties the hardware FIFOs. *)
EndOff ==
    /\ At("off")
    /\ on' = FALSE /\ fifo' = <<>> /\ oerr' = FALSE /\ txn' = 0
    /\ at' = "clear"
    /\ UNCHANGED <<arrived, irqFlag, irqOn, isr, ring, then, tmp, ret, seen, dropped>>

(* rxBuffer.clear(): two assignments. *)
ClearHead ==
    /\ At("clear")
    /\ head' = 0
    /\ at' = "clear2"
    /\ UNCHANGED <<hw, ctl, isr, buf, tail, then, tmp, ret, seen, dropped>>

ClearTail ==
    /\ At("clear2")
    /\ tail' = 0
    /\ at' = then
    /\ UNCHANGED <<hw, ctl, isr, buf, head, then, tmp, ret, seen, dropped>>

BeginOn ==
    /\ At("start")
    /\ on' = TRUE
    /\ at' = "enable"
    /\ UNCHANGED <<hw, irqFlag, irqOn, isr, ring, then, tmp, ret, seen, dropped>>

EnableSkipped ==
    /\ At("enable")
    /\ at' = "idle"
    /\ UNCHANGED <<hw, ctl, isr, ring, then, tmp, ret, seen, dropped>>

(* IRQ_Enable, whatever the enable bit was before the call. *)
Enable ==
    /\ At("enable")
    /\ irqOn' = TRUE
    /\ at' = "idle"
    /\ UNCHANGED <<hw, on, irqFlag, isr, ring, then, tmp, ret, seen, dropped>>

(* read_char and peek, the interrupt masked. *)
ReadNothing ==
    /\ At("read") \/ At("peek")
    /\ tail = head
    /\ ret' = NoByte
    /\ at' = "enable"
    /\ UNCHANGED <<hw, ctl, isr, ring, then, tmp, seen, dropped>>

PeekByte ==
    /\ At("peek")
    /\ tail # head
    /\ ret' = buf[tail]
    /\ at' = "enable"
    /\ UNCHANGED <<hw, ctl, isr, ring, then, tmp, seen, dropped>>

ReadByte ==
    /\ At("read")
    /\ tail # head
    /\ tmp' = buf[tail]
    /\ at' = "take"
    /\ UNCHANGED <<hw, ctl, isr, ring, then, ret, seen, dropped>>

ReadTake ==
    /\ At("take")
    /\ tail' = nextIndex(tail)
    /\ ret' = tmp
    /\ seen' = IF seen > 0 THEN seen - 1 ELSE 0
    /\ at' = "enable"
    /\ UNCHANGED <<hw, ctl, isr, buf, head, then, tmp, dropped>>

(* available() reads the two indices with the interrupt enabled, in the    *)
(* order the compiler chose.                                               *)
AvailableFirst ==
    /\ At("idle")
    /\ \/ tmp' = head /\ at' = "availT"
       \/ tmp' = tail /\ at' = "availH"
    /\ UNCHANGED <<hw, ctl, isr, ring, then, ret, seen, dropped>>

AvailableSecond ==
    /\ \/ At("availT") /\ seen' = Delta(tmp, tail)
       \/ At("availH") /\ seen' = Delta(head, tmp)
    /\ at' = "idle"
    /\ UNCHANGED <<hw, ctl, isr, ring, then, tmp, ret, dropped>>

(* write() waits for room in the transmitter. *)
WriteCall ==
    /\ At("idle")
    /\ at' = "write"
    /\ UNCHANGED <<hw, ctl, isr, ring, then, tmp, ret, seen, dropped>>

WriteStoreSpins ==
    /\ At("write")
    /\ txn >= HwDepth
    /\ txn' = txn + 1
    /\ at' = "idle"
    /\ UNCHANGED <<fifo, arrived, oerr, ctl, isr, ring, then, tmp, ret, seen, dropped>>

WriteStore ==
    /\ At("write")
    /\ txn < HwDepth
    /\ txn' = txn + 1
    /\ at' = "idle"
    /\ UNCHANGED <<fifo, arrived, oerr, ctl, isr, ring, then, tmp, ret, seen, dropped>>

-----------------------------------------------------------------------------
Isr == IsrStore \/ IsrReturn

(* The rest of a call the sketch has made. *)
Continue ==
    \/ EndClear \/ EndOff \/ ClearHead \/ ClearTail \/ BeginOn \/ Enable
    \/ ReadNothing \/ PeekByte \/ ReadByte \/ ReadTake
    \/ AvailableSecond \/ WriteStore

Call ==
    \/ \E op \in {"read", "peek", "flush"} : CallMasked(op)
    \/ \E cont \in {"idle", "start"} : CallEnd(cont)
    \/ AvailableFirst
    \/ WriteCall

UartNext == Arrive \/ Overrun \/ Transmit \/ IsrEnter \/ Isr \/ Call \/ Continue

UartSpec == UartInit /\ [][UartNext]_uartVars

(* The processor runs what it is in; a pending interrupt is taken as soon  *)
(* as it is enabled, however briefly; the transmitter drains.              *)
UartFairness ==
    WF_uartVars(Isr) /\ WF_uartVars(Continue) /\ SF_uartVars(IsrEnter) /\ WF_uartVars(Transmit)

-----------------------------------------------------------------------------
UartTypeOK ==
    /\ fifo \in Seq(Bytes) /\ Len(fifo) <= HwDepth
    /\ arrived \in 0..MaxBytes
    /\ txn \in 0..HwDepth /\ oerr \in BOOLEAN
    /\ on \in BOOLEAN /\ irqFlag \in BOOLEAN /\ irqOn \in BOOLEAN /\ isr \in BOOLEAN
    /\ buf \in [0..(N - 1) -> 0..MaxBytes]
    /\ head \in 0..(N - 1) /\ tail \in 0..(N - 1)
    /\ at \in {"idle", "read", "peek", "take", "clear", "clear2", "unflag", "off",
               "start", "enable", "availT", "availH", "write"}
    /\ then \in {"idle", "start", "enable"}
    /\ tmp \in Nat
    /\ ret \in -1..MaxBytes
    /\ seen \in 0..(N - 1)
    /\ dropped \in Nat

(* The receive buffer as its reader sees it.  clear() takes effect with    *)
(* its first assignment.                                                   *)
Waiting == IF at = "clear2" THEN <<>> ELSE Contents

Queue == INSTANCE ByteQueue WITH Cap <- N - 1, q <- Waiting

(* The driver is a bounded queue: nothing is lost, repeated or reordered   *)
(* between store_char in the interrupt and read(), peek() and flush() in   *)
(* the sketch, and a byte is refused only when N - 1 bytes wait.           *)
ImplementsQueue == Queue!Spec

(* Bytes come out in the order they went into the UART, whatever is lost   *)
(* on the way: what waits in the ring and behind it in the hardware FIFO   *)
(* is increasing, and nothing in it is older than the last answer given.  *)
Pipeline == Waiting \o fifo

InOrder ==
    /\ \A i, j \in 1..Len(Pipeline) : i < j => Pipeline[i] < Pipeline[j]
    /\ \A i \in 1..Len(Pipeline) : Pipeline[i] <= arrived
    /\ \A i \in 1..Len(Pipeline) : ret <= Pipeline[i]

(* A promise of available() is kept: although it reads the two indices     *)
(* unprotected, at least that many bytes can be read afterwards.           *)
PromiseKept == at # "clear2" => seen <= available

(* The three ways the ring counts its room agree. *)
RoomAgrees ==
    /\ availableForStore + available = N - 1
    /\ isFull <=> availableForStore = 0

(* A received byte does not stay in the hardware FIFO: no sequence of      *)
(* driver calls leaves the receive interrupt masked.                       *)
Drained == (fifo # <<>>) ~> (fifo = <<>>)

(* write() returns while the UART is on. *)
WriteReturns == (at = "write" /\ on) ~> (at # "write")
=============================================================================
