-------------------------------- MODULE Wire --------------------------------
(***************************************************************************)
(* The I2C master of arduino/libraries/EFM/Wire: TwoWire drives the I2C    *)
(* module of the chip by polling.  The sketch calls one operation at a     *)
(* time; a transfer takes one step per bus condition or byte, and between  *)
(* steps the hardware may finish a byte on which _send() gave up.          *)
(*                                                                         *)
(* _start, _stop, _ack and _recv wait until their control bit clears, so   *)
(* no control bit is set when _idle() polls: its first poll, if it makes   *)
(* one, ends its loop.                                                     *)
(***************************************************************************)
EXTENDS Integers, Sequences, SequencesExt

CONSTANTS Addrs,      \* 7-bit slave addresses
          Bytes,      \* values of data bytes
          Cap,        \* what a RingBuffer holds: SERIAL_BUFFER_SIZE - 1
          WORD,       \* 2^32, the range of uint32_t
          UINT8,      \* 2^8, the range of what requestFrom() returns
          DefaultTimeout,  \* 0x8000
          Timeouts    \* arguments of setTimeOut

ASSUME WireAssumption ==
    /\ Cap \in Nat \ {0} /\ WORD \in Nat \ {0} /\ UINT8 \in Nat \ {0}
    /\ Timeouts \subseteq 0..(WORD - 1) /\ DefaultTimeout \in 0..(WORD - 1)

VARIABLES
    on,         \* hardware: I2CxCON.ON
    ackstat,    \* hardware: I2CxSTAT.ACKSTAT, the last byte sent was not acknowledged
    busy,       \* hardware: I2CxSTAT.TRSTAT, a byte is being sent
    held,       \* hardware: a start condition without its stop condition
    tx, rx,     \* the two ring buffers, oldest byte first
    begun,      \* _transmissionBegun
    addr,       \* _slave_address
    timeout,    \* _timeout
    pc,         \* what the transfer does next
    op,         \* the transfer in progress or made last: "write" or "read"
    left,       \* bytes it still has to send or receive
    result,     \* what it returned
    bus,        \* history: what happened on the bus since it began
    asked       \* history: the bytes to send, or the number to receive

hw     == <<on, ackstat, busy, held>>
object == <<tx, rx, begun, addr, timeout>>
call   == <<pc, op, left, result, bus, asked>>
vars   == <<hw, object, call>>

Start    == [ev |-> "start"]
Stop     == [ev |-> "stop"]
Ack      == [ev |-> "ack"]
Nack     == [ev |-> "nack"]
Recv(b)  == [ev |-> "recv", val |-> b]
Address(a, rw, fate) == [ev |-> "addr", val |-> a, rw |-> rw, fate |-> fate]
Data(b, fate) == [ev |-> "data", val |-> b, fate |-> fate]

(* What becomes of a byte that is sent: acknowledged, not acknowledged, or *)
(* _send() stops waiting for it.                                           *)
Fates == {"acked", "nacked", "late"}

Init ==
    /\ on = FALSE /\ ackstat = FALSE /\ busy = FALSE /\ held = FALSE
    /\ tx = <<>> /\ rx = <<>> /\ begun = FALSE
    /\ addr \in Addrs /\ timeout = DefaultTimeout
    /\ pc = "idle" /\ op = "none" /\ left = 0 /\ result = 0
    /\ bus = <<>> /\ asked = <<>>

-----------------------------------------------------------------------------
(* The I2C module. *)

(* A byte _send() gave up on is finished after all. *)
HwFinish ==
    /\ busy
    /\ busy' = FALSE
    /\ ackstat' \in BOOLEAN
    /\ UNCHANGED <<on, held, object, call>>

(* *sta = 0: ACKSTAT belongs to the hardware, which may keep it. *)
ClearStatus == ackstat' \in {FALSE, ackstat}

OnBus(e) == bus' = Append(bus, e)

-----------------------------------------------------------------------------
(* _idle(): T is one less than _timeout after the first poll that finds    *)
(* the module idle, and also after the loop that makes no poll.            *)
IdleT == (timeout - 1) % WORD

_idle == IF IdleT = 0 THEN -1 ELSE IF ackstat THEN -2 ELSE 0

(* _send(): refused by _idle(), or by IWCOL while a byte is being sent. *)
SendRefused == _idle # 0 \/ busy

SendByte(e, fate) ==
    /\ ~SendRefused
    /\ OnBus(e)
    /\ busy' = (fate = "late")
    /\ ackstat' = IF fate = "late" THEN ackstat ELSE fate = "nacked"
    /\ UNCHANGED <<on, held>>

SendNothing ==
    /\ SendRefused
    /\ UNCHANGED <<hw, bus>>

-----------------------------------------------------------------------------
(* The operations without bus traffic. *)
Return(r) == pc' = "idle" /\ result' = r

Idle == pc = "idle"

setTimeOut(t) ==
    /\ Idle
    /\ timeout' = t
    /\ UNCHANGED <<hw, tx, rx, begun, addr, call>>

beginTransmission(a) ==
    /\ Idle
    /\ addr' = a /\ tx' = <<>> /\ begun' = TRUE
    /\ UNCHANGED <<hw, rx, timeout, call>>

writeUnchecked(b) ==
    /\ Idle
    /\ begun
    /\ tx' = Append(tx, b)
    /\ UNCHANGED <<hw, rx, begun, addr, timeout, call>>

write(b) ==
    /\ Idle
    /\ begun /\ Len(tx) < Cap
    /\ tx' = Append(tx, b)
    /\ UNCHANGED <<hw, rx, begun, addr, timeout, call>>

read ==
    /\ Idle
    /\ rx # <<>>
    /\ rx' = Tail(rx)
    /\ UNCHANGED <<hw, tx, begun, addr, timeout, call>>

flush ==
    /\ Idle
    /\ tx' = <<>> /\ rx' = <<>>
    /\ ClearStatus
    /\ UNCHANGED <<on, busy, held, begun, addr, timeout, call>>

(* begin() flushes and sets the bus to idle with a stop condition. *)
begin(a) ==
    /\ Idle
    /\ addr' = a
    /\ on' = TRUE
    /\ tx' = <<>> /\ rx' = <<>>
    /\ ClearStatus
    /\ held' = FALSE
    /\ UNCHANGED <<busy, begun, timeout, call>>

end ==
    /\ Idle
    /\ on' = FALSE /\ busy' = FALSE /\ held' = FALSE
    /\ ClearStatus
    /\ UNCHANGED <<object, call>>

-----------------------------------------------------------------------------
(* The transfers. *)
endTransmission(stopBit) ==
    /\ Idle
    /\ op' = "write" /\ bus' = <<>>
    /\ begun' = (begun /\ ~stopBit)
    /\ asked' = tx /\ left' = Len(tx)
    /\ IF stopBit /\ tx # <<>>
         THEN pc' = "start" /\ result' = result
         ELSE Return(IF stopBit THEN 2 ELSE 1)
    /\ UNCHANGED <<hw, tx, rx, addr, timeout>>

requestFromKeeps(a, size, stopBit) ==
    /\ Idle
    /\ op' = "read" /\ bus' = <<>>
    /\ addr' = a
    /\ asked' = size /\ left' = size
    /\ UNCHANGED rx
    /\ IF size = 0 \/ ~stopBit \/ Cap < size
         THEN Return(0)
         ELSE pc' = "start" /\ result' = result
    /\ UNCHANGED <<hw, tx, begun, timeout>>

(* The receive buffer is emptied before its room is compared. *)
requestFrom(a, size, stopBit) ==
    /\ Idle
    /\ op' = "read" /\ bus' = <<>>
    /\ addr' = a
    /\ asked' = size /\ left' = size
    /\ rx' = IF size = 0 \/ ~stopBit THEN rx ELSE <<>>
    /\ IF size = 0 \/ ~stopBit \/ Cap < size
         THEN Return(0)
         ELSE pc' = "start" /\ result' = result
    /\ UNCHANGED <<hw, tx, begun, timeout>>

(* _start() waits for the hardware, which acts only when it is on. *)
StartCondition ==
    /\ pc = "start" /\ on
    /\ OnBus(Start)
    /\ held' = TRUE
    /\ pc' = "addr"
    /\ UNCHANGED <<on, ackstat, busy, object, op, left, result, asked>>

FailWithoutStop == IF op = "write" THEN Return(4) ELSE Return(0)

(* A transfer whose address is not answered: endTransmission returns at    *)
(* once, requestFrom makes a stop condition first.                         *)
Fail == IF op = "write" THEN Return(4) ELSE pc' = "abort" /\ result' = result

SendAddress ==
    /\ pc = "addr"
    /\ \/ SendNothing /\ Fail
       \/ \E fate \in Fates :
            /\ SendByte(Address(addr, op, fate), fate)
            /\ IF fate = "acked" THEN pc' = "settle" /\ result' = result ELSE Fail
    /\ UNCHANGED <<object, op, left, asked>>

(* i2c_start() ends with one more _idle(). *)
Settle ==
    /\ pc = "settle"
    /\ IF _idle = 0 THEN pc' = "body" /\ result' = result ELSE Fail
    /\ UNCHANGED <<hw, object, op, left, bus, asked>>

(* The byte leaves the ring buffer before _send() is tried. *)
SendData ==
    /\ pc = "body" /\ op = "write" /\ left > 0
    /\ left' = left - 1
    /\ tx' = Tail(tx)
    /\ IF SendRefused
         THEN UNCHANGED <<hw, bus>> /\ Return(3)
         ELSE \E fate \in Fates :
                /\ SendByte(Data(Head(tx), fate), fate)
                /\ IF fate = "acked" THEN UNCHANGED <<pc, result>> ELSE Return(3)
    /\ UNCHANGED <<rx, begun, addr, timeout, op, asked>>

(* _recv(); store_char refuses a byte when the buffer is full. *)
Receive ==
    /\ pc = "body" /\ op = "read" /\ left > 0
    /\ IF _idle = 0
         THEN \E b \in Bytes :
                /\ OnBus(Recv(b))
                /\ rx' = IF Len(rx) < Cap THEN Append(rx, b) ELSE rx
                /\ pc' = "ack"
         ELSE pc' = "abort" /\ UNCHANGED <<rx, bus>>
    /\ UNCHANGED <<hw, tx, begun, addr, timeout, op, left, result, asked>>

(* _ack(0) for the last byte, _ack(1) for the others: the argument is      *)
(* added to REG_CLR, so _ack(0) clears ACKDT, which acknowledges, and      *)
(* _ack(1) sets it, which does not.                                        *)
Acknowledge ==
    /\ pc = "ack"
    /\ OnBus(IF left = 1 THEN Ack ELSE Nack)
    /\ left' = left - 1
    /\ pc' = "body"
    /\ UNCHANGED <<hw, object, op, result, asked>>

StopCondition ==
    /\ \/ pc = "abort" /\ Return(0)
       \/ pc = "body" /\ left = 0 /\ Return(IF op = "write" THEN 0 ELSE Len(rx) % UINT8)
    /\ OnBus(Stop)
    /\ held' = FALSE
    /\ UNCHANGED <<on, ackstat, busy, object, op, left, asked>>

-----------------------------------------------------------------------------
Transfer ==
    \/ StartCondition \/ SendAddress \/ Settle \/ SendData \/ Receive \/ Acknowledge
    \/ StopCondition

Next ==
    \/ HwFinish
    \/ \E t \in Timeouts : setTimeOut(t)
    \/ \E a \in Addrs : beginTransmission(a) \/ begin(a)
    \/ \E b \in Bytes : write(b)
    \/ read \/ flush \/ end
    \/ \E stopBit \in BOOLEAN : endTransmission(stopBit)
    \/ \E a \in Addrs, size \in 0..(Cap + 1), stopBit \in BOOLEAN :
         requestFrom(a, size, stopBit)
    \/ Transfer

Spec == Init /\ [][Next]_vars

-----------------------------------------------------------------------------
(* The bytes that followed the address: of a write every event but the     *)
(* stop condition, of a read every other event.                            *)
Sent     == [i \in {k \in 1..(Len(bus) - 2) : bus[k + 2] # Stop} |-> bus[i + 2].val]
Received == [i \in 1..((Len(bus) - 2) \div 2) |-> bus[2 * i + 1].val]

TypeOK ==
    /\ {on, ackstat, busy, held, begun} \subseteq BOOLEAN
    /\ tx \in Seq(Bytes) /\ Len(tx) <= Cap
    /\ rx \in Seq(Bytes) /\ Len(rx) <= Cap
    /\ addr \in Addrs /\ timeout \in 0..(WORD - 1)
    /\ pc \in {"idle", "start", "addr", "settle", "body", "ack", "abort"}
    /\ op \in {"none", "write", "read"}
    /\ left \in 0..(Cap + 1) /\ result \in 0..Cap \cup {1, 2, 3, 4}

Done(o) == pc = "idle" /\ op = o

(* endTransmission() answers 0 only for a whole message: one start, the    *)
(* address, every byte that was queued, in order and each acknowledged,    *)
(* and a stop.                                                             *)
SentExactly ==
    (Done("write") /\ result = 0) =>
        /\ asked # <<>>
        /\ Len(bus) = Len(asked) + 3
        /\ bus[1] = Start /\ bus[Len(bus)] = Stop
        /\ bus[2].ev = "addr" /\ bus[2].fate = "acked"
        /\ \A i \in 1..Len(asked) : bus[i + 2] = Data(asked[i], "acked")

(* A message is never torn: while it is sent, and when endTransmission()   *)
(* answers 3, what went out followed by what is still queued is what the   *)
(* sketch queued, so that a second endTransmission() would continue it.    *)
NothingVanishes == [][op = "write" /\ pc = "body" => asked = Sent' \o tx']_vars

(* requestFrom() answers either 0 or the number it was asked for, as a     *)
(* uint8_t, and then the receive buffer holds the bytes of this transfer   *)
(* and no others.  A multiple of 2^8 bytes is answered by 0 as well.       *)
ReceivedExactly ==
    [][(op = "read" /\ pc # "idle" /\ pc' = "idle" /\ result' # 0)
         => result' = asked % UINT8 /\ rx' = Received /\ Len(rx') = asked]_vars

(* The data of a transfer is right in both directions: no answer of        *)
(* endTransmission() or requestFrom() hides a byte that was lost, torn     *)
(* off, repeated or left over from an earlier transfer.                    *)
TransfersExact == [][SentExactly']_vars /\ NothingVanishes /\ ReceivedExactly

(* A transfer returns with the bus released, except that the answers 3 and *)
(* 4 of endTransmission() leave it held: they come without a stop.         *)
BusReleased ==
    [][(pc # "idle" /\ pc' = "idle" /\ held') => op = "write" /\ result' \in {3, 4}]_vars

(* No byte is put on the bus after one that was not acknowledged, or while *)
(* one is being sent, not even by the next transfer.                       *)
SendsOnlyWhenAcked ==
    [][(Len(bus') > Len(bus) /\ Last(bus').ev \in {"addr", "data"})
         => ~ackstat /\ ~busy]_vars

(* The class keeps the discipline of the bus, after errors too. *)
BusDiscipline == BusReleased /\ SendsOnlyWhenAcked

-----------------------------------------------------------------------------
(* What Wire.cpp says of requestFrom(): "nack the last one", "ack all      *)
(* other".                                                                 *)
NacksOnlyTheLast ==
    (Done("read") /\ result # 0) =>
        \A i \in 1..asked : bus[2 * i + 2] = IF i = asked THEN Nack ELSE Ack

(* What Wire.h says of _idle(): T = 0 means "Timeout".  The control bits   *)
(* are clear whenever _send() or _recv() asks, so it has no timeout to     *)
(* report.                                                                 *)
NoFalseTimeout == pc \in {"addr", "settle", "body"} => _idle # -1
=============================================================================
