----------------------------- MODULE WireProofs -----------------------------
(***************************************************************************)
(* Proofs about the I2C master: the bytes of a transfer are exactly those  *)
(* asked for, and the discipline of the bus is kept.  The invariant says   *)
(* for every point of a transfer what is on the bus, what is left in the   *)
(* ring buffers and, past the address, that the module is ready.           *)
(***************************************************************************)
EXTENDS Wire, RingTheorems

Events ==
    {Start, Stop, Ack, Nack} \cup {Recv(b) : b \in Bytes}
      \cup {Address(a, o, f) : a \in Addrs, o \in {"none", "write", "read"}, f \in Fates}
      \cup {Data(b, f) : b \in Bytes, f \in Fates}

WireTypes ==
    /\ on \in BOOLEAN /\ ackstat \in BOOLEAN /\ busy \in BOOLEAN /\ held \in BOOLEAN
    /\ begun \in BOOLEAN
    /\ tx \in Seq(Bytes) /\ Len(tx) <= Cap
    /\ rx \in Seq(Bytes) /\ Len(rx) <= Cap
    /\ addr \in Addrs /\ timeout \in 0..(WORD - 1)
    /\ pc \in {"idle", "start", "addr", "settle", "body", "ack", "abort"}
    /\ op \in {"none", "write", "read"}
    /\ left \in 0..(Cap + 1) /\ result \in 0..Cap \cup {1, 2, 3, 4}
    /\ bus \in Seq(Events)

(* Once the address was acknowledged the module is ready for more, and     *)
(* the timeout is not the one that _idle() takes for expired.              *)
Ready == pc \in {"settle", "body", "ack"} => ~busy /\ ~ackstat /\ IdleT # 0

(* The transfer was begun with a start condition and an address that was   *)
(* acknowledged.                                                           *)
Framed == bus[1] = Start /\ bus[2].ev = "addr" /\ bus[2].fate = "acked"

WriteInv ==
    op = "write" =>
        /\ pc \notin {"ack", "abort"}
        /\ pc # "idle" => /\ asked \in Seq(Bytes) /\ asked # <<>>
                          /\ left \in 0..Len(asked) /\ Len(tx) = left
                          /\ \A i \in 1..left : tx[i] = asked[Len(asked) - left + i]
        /\ pc \in {"start", "addr", "settle"} => left = Len(asked)
        /\ pc = "start" => bus = <<>>
        /\ pc = "addr" => Len(bus) = 1 /\ bus[1] = Start
        /\ pc \in {"settle", "body"} =>
             /\ Len(bus) = 2 + Len(asked) - left /\ Framed
             /\ \A i \in 1..(Len(asked) - left) : bus[i + 2] = Data(asked[i], "acked")
        /\ pc = "idle" => SentExactly

ReadInv ==
    op = "read" =>
        /\ pc # "idle" => asked \in 1..Cap /\ left \in 0..asked
        /\ pc \in {"start", "addr", "settle"} => rx = <<>> /\ left = asked
        /\ pc = "start" => Len(bus) = 0
        /\ pc = "addr" => Len(bus) = 1
        /\ pc = "settle" => Len(bus) = 2
        /\ pc = "body" =>
             /\ Len(bus) = 2 + 2 * (asked - left) /\ Len(rx) = asked - left
             /\ \A i \in 1..(asked - left) : bus[2 * i + 1] = Recv(rx[i])
        /\ pc = "ack" =>
             /\ left > 0 /\ Len(bus) = 3 + 2 * (asked - left) /\ Len(rx) = asked - left + 1
             /\ \A i \in 1..(asked - left + 1) : bus[2 * i + 1] = Recv(rx[i])

WireInv == WireTypes /\ Ready /\ WriteInv /\ ReadInv /\ (op = "none" => pc = "idle")

-----------------------------------------------------------------------------
LEMMA EventKinds ==
    /\ Start.ev = "start" /\ Stop.ev = "stop" /\ Ack.ev = "ack" /\ Nack.ev = "nack"
    /\ \A b : Recv(b).ev = "recv" /\ Recv(b).val = b
    /\ \A a, o, f : Address(a, o, f).ev = "addr" /\ Address(a, o, f).fate = f
    /\ \A b, f : Data(b, f).ev = "data" /\ Data(b, f).val = b /\ Data(b, f).fate = f
BY DEF Start, Stop, Ack, Nack, Recv, Address, Data

LEMMA EventsAre ==
    /\ Start \in Events /\ Stop \in Events /\ Ack \in Events /\ Nack \in Events
    /\ \A b \in Bytes : Recv(b) \in Events
    /\ \A a \in Addrs, o \in {"none", "write", "read"}, f \in Fates : Address(a, o, f) \in Events
    /\ \A b \in Bytes, f \in Fates : Data(b, f) \in Events
BY DEF Events

LEMMA AppendIs ==
    ASSUME NEW S, NEW s \in Seq(S), NEW e \in S
    PROVE  /\ Append(s, e) \in Seq(S) /\ Len(Append(s, e)) = Len(s) + 1
           /\ Append(s, e)[Len(s) + 1] = e
           /\ \A i \in 1..Len(s) : Append(s, e)[i] = s[i]
OBVIOUS

(* What happens on the bus is an event after those before it. *)
LEMMA BusGrows ==
    ASSUME WireTypes, NEW e \in Events, OnBus(e)
    PROVE  /\ bus' \in Seq(Events) /\ Len(bus) \in Nat /\ Len(bus') = Len(bus) + 1
           /\ bus'[Len(bus) + 1] = e /\ Last(bus') = e
           /\ \A i \in 1..Len(bus) : bus'[i] = bus[i]
<1>1. bus \in Seq(Events) /\ bus' = Append(bus, e) /\ Len(bus) \in Nat
  BY LenProperties DEF WireTypes, OnBus
<1>2. /\ bus' \in Seq(Events) /\ Len(bus') = Len(bus) + 1 /\ bus'[Len(bus) + 1] = e
      /\ \A i \in 1..Len(bus) : bus'[i] = bus[i]
  BY <1>1, AppendIs
<1> QED
  BY <1>1, <1>2 DEF Last

(* The operations that make no transfer run while none is in progress. *)
Quiet ==
    \/ \E t \in Timeouts : setTimeOut(t)
    \/ \E a \in Addrs : beginTransmission(a) \/ begin(a)
    \/ \E b \in Bytes : write(b)
    \/ read \/ flush \/ end

LEMMA QuietIs == Quiet => Idle /\ UNCHANGED call
BY DEF Quiet, setTimeOut, beginTransmission, begin, write, read, flush, end

LEMMA InitWireInv == Init => WireInv
<1> SUFFICES ASSUME Init PROVE WireInv
  OBVIOUS
<1>1. on = FALSE /\ ackstat = FALSE /\ busy = FALSE /\ held = FALSE /\ begun = FALSE
  BY DEF Init
<1>2. /\ on \in BOOLEAN /\ ackstat \in BOOLEAN /\ busy \in BOOLEAN /\ held \in BOOLEAN
      /\ begun \in BOOLEAN
  BY <1>1, Zenon
<1>3. /\ tx = <<>> /\ rx = <<>> /\ addr \in Addrs /\ timeout = DefaultTimeout
      /\ pc = "idle" /\ op = "none" /\ left = 0 /\ result = 0 /\ bus = <<>>
  BY DEF Init
<1>4. Cap \in Nat \ {0} /\ DefaultTimeout \in 0..(WORD - 1)
  BY WireAssumption
<1>5. WireTypes
  BY <1>2, <1>3, <1>4, EmptySeq DEF WireTypes
<1> QED
  BY <1>3, <1>5 DEF WireInv, Ready, WriteInv, ReadInv

-----------------------------------------------------------------------------
(* The types. *)
LEMMA SendByteTypes ==
    ASSUME WireTypes, NEW e \in Events, NEW fate \in Fates, SendByte(e, fate)
    PROVE  /\ bus' \in Seq(Events) /\ on' = on /\ held' = held
           /\ busy' \in BOOLEAN /\ ackstat' \in BOOLEAN
           /\ busy' <=> fate = "late"
           /\ fate = "acked" => ~busy' /\ ~ackstat' /\ _idle = 0 /\ ~busy
<1>1. OnBus(e) /\ on' = on /\ held' = held
  BY DEF SendByte
<1>2. bus' \in Seq(Events)
  BY <1>1, BusGrows
<1>3. busy' = (fate = "late") /\ ackstat' = IF fate = "late" THEN ackstat ELSE fate = "nacked"
  BY DEF SendByte
<1>4. busy' \in BOOLEAN
  BY <1>3, Zenon
<1>5. ackstat' \in BOOLEAN
  <2>1. CASE fate = "late"
    <3>1. ackstat' = ackstat
      BY <1>3, <2>1
    <3> QED
      BY <3>1 DEF WireTypes
  <2>2. CASE fate # "late"
    <3>1. ackstat' = (fate = "nacked")
      BY <1>3, <2>2
    <3> QED
      BY <3>1, Zenon
  <2> QED
    BY <2>1, <2>2
<1>6. _idle = 0 /\ ~busy
  BY DEF SendByte, SendRefused
<1>7. fate = "acked" => ~busy' /\ ~ackstat'
  BY <1>3, <1>4, <1>5
<1> QED
  BY <1>1, <1>2, <1>3, <1>4, <1>5, <1>6, <1>7

LEMMA QuietTypes == ASSUME WireTypes, Quiet PROVE WireTypes'
<1>1. UNCHANGED call
  BY QuietIs
<1>2. /\ pc' \in {"idle", "start", "addr", "settle", "body", "ack", "abort"}
      /\ op' \in {"none", "write", "read"}
      /\ left' \in 0..(Cap + 1) /\ result' \in 0..Cap \cup {1, 2, 3, 4}
      /\ bus' \in Seq(Events)
  BY <1>1 DEF WireTypes, call
<1>3. ASSUME NEW t \in Timeouts, setTimeOut(t) PROVE WireTypes'
  <2>1. t \in 0..(WORD - 1)
    BY WireAssumption
  <2>2. timeout' = t /\ UNCHANGED <<on, ackstat, busy, held, tx, rx, begun, addr>>
    BY <1>3 DEF setTimeOut, hw
  <2> QED
    BY <1>2, <2>1, <2>2 DEF WireTypes
<1>4. ASSUME NEW a \in Addrs, beginTransmission(a) PROVE WireTypes'
  <2>1. /\ addr' = a /\ tx' = <<>> /\ begun' = TRUE
        /\ UNCHANGED <<on, ackstat, busy, held, rx, timeout>>
    BY <1>4 DEF beginTransmission, hw
  <2>2. begun' \in BOOLEAN
    BY <2>1, Zenon
  <2>3. tx' \in Seq(Bytes) /\ Len(tx') <= Cap
    BY <2>1, WireAssumption
  <2> QED
    BY <1>2, <2>1, <2>2, <2>3 DEF WireTypes
<1>5. ClearStatus => ackstat' \in BOOLEAN
  BY Zenon DEF ClearStatus, WireTypes
<1>6. ASSUME NEW a \in Addrs, begin(a) PROVE WireTypes'
  <2>1. /\ addr' = a /\ on' = TRUE /\ tx' = <<>> /\ rx' = <<>> /\ held' = FALSE
        /\ ClearStatus /\ UNCHANGED <<busy, begun, timeout>>
    BY <1>6 DEF begin
  <2>2. on' \in BOOLEAN /\ held' \in BOOLEAN
    BY <2>1, Zenon
  <2>3. tx' \in Seq(Bytes) /\ Len(tx') <= Cap /\ rx' \in Seq(Bytes) /\ Len(rx') <= Cap
    BY <2>1, WireAssumption
  <2> QED
    BY <1>2, <1>5, <2>1, <2>2, <2>3 DEF WireTypes
<1>7. ASSUME NEW b \in Bytes, write(b) PROVE WireTypes'
  <2>1. /\ Len(tx) < Cap /\ tx' = Append(tx, b)
        /\ UNCHANGED <<on, ackstat, busy, held, rx, begun, addr, timeout>>
    BY <1>7 DEF write, hw
  <2>2. tx' \in Seq(Bytes) /\ Len(tx') = Len(tx) + 1 /\ Len(tx) \in Nat
    BY <2>1, AppendIs, LenProperties DEF WireTypes
  <2>3. Len(tx') <= Cap
    BY <2>1, <2>2, WireAssumption
  <2> QED
    BY <1>2, <2>1, <2>2, <2>3 DEF WireTypes
<1>8. CASE read
  <2>1. /\ rx # <<>> /\ rx' = Tail(rx)
        /\ UNCHANGED <<on, ackstat, busy, held, tx, begun, addr, timeout>>
    BY <1>8 DEF read, hw
  <2>2. rx' \in Seq(Bytes) /\ Len(rx') = Len(rx) - 1 /\ Len(rx) \in Nat
    BY <2>1, HeadTailProperties, LenProperties DEF WireTypes
  <2>3. Len(rx') <= Cap
    BY <2>2, WireAssumption DEF WireTypes
  <2> QED
    BY <1>2, <2>1, <2>2, <2>3 DEF WireTypes
<1>9. CASE flush
  <2>1. /\ tx' = <<>> /\ rx' = <<>>
        /\ ClearStatus /\ UNCHANGED <<on, held, addr, busy, begun, timeout>>
    BY <1>9 DEF flush
  <2>2. tx' \in Seq(Bytes) /\ Len(tx') <= Cap /\ rx' \in Seq(Bytes) /\ Len(rx') <= Cap
    BY <2>1, WireAssumption
  <2> QED
    BY <1>2, <1>5, <2>1, <2>2 DEF WireTypes
<1>10. CASE end
  <2>1. /\ on' = FALSE /\ busy' = FALSE /\ held' = FALSE
        /\ ClearStatus /\ UNCHANGED <<tx, rx, addr, begun, timeout>>
    BY <1>10 DEF end, object
  <2>2. on' \in BOOLEAN /\ held' \in BOOLEAN /\ busy' \in BOOLEAN
    BY <2>1, Zenon
  <2> QED
    BY <1>2, <1>5, <2>1, <2>2 DEF WireTypes
<1> QED
  BY <1>3, <1>4, <1>6, <1>7, <1>8, <1>9, <1>10 DEF Quiet

LEMMA FailIs ==
    ASSUME WireTypes, Fail
    PROVE  /\ op = "write" => pc' = "idle" /\ result' = 4
           /\ op # "write" => pc' = "abort" /\ result' = result
BY DEF Fail, Return

LEMMA StepWireTypes ==
    ASSUME WireTypes, WriteInv, ReadInv, op = "none" => pc = "idle", [Next]_vars
    PROVE  WireTypes'
<1>1. Cap \in Nat \ {0}
  BY WireAssumption
<1>2. CASE Quiet
  BY <1>2, QuietTypes
<1>3. CASE HwFinish
  <2>1. busy' = FALSE /\ ackstat' \in BOOLEAN /\ UNCHANGED <<on, held, object, call>>
    BY <1>3 DEF HwFinish
  <2>2. busy' \in BOOLEAN
    BY <2>1, Zenon
  <2> QED
    BY <2>1, <2>2 DEF WireTypes, object, call
<1>4. ASSUME NEW stopBit \in BOOLEAN, endTransmission(stopBit) PROVE WireTypes'
  <2>1. /\ op' = "write" /\ bus' = <<>> /\ left' = Len(tx)
        /\ \/ pc' = "start" /\ result' = result
           \/ pc' = "idle" /\ result' \in {1, 2}
        /\ UNCHANGED <<on, ackstat, busy, held, tx, rx, addr, timeout>>
    BY <1>4 DEF endTransmission, Return, hw
  <2>2. begun' = (begun /\ ~stopBit)
    BY <1>4 DEF endTransmission
  <2>3. begun' \in BOOLEAN
    BY <2>2, Zenon DEF WireTypes
  <2>4. left' \in 0..(Cap + 1) /\ bus' \in Seq(Events)
    BY <1>1, <2>1, LenProperties DEF WireTypes
  <2> QED
    BY <2>1, <2>3, <2>4 DEF WireTypes
<1>5. ASSUME NEW a \in Addrs, NEW size \in 0..(Cap + 1), NEW stopBit \in BOOLEAN,
             requestFrom(a, size, stopBit)
      PROVE  WireTypes'
  <2>1. /\ op' = "read" /\ bus' = <<>> /\ left' = size /\ addr' = a /\ rx' \in {rx, <<>>}
        /\ \/ pc' = "start" /\ result' = result
           \/ pc' = "idle" /\ result' = 0
        /\ UNCHANGED <<on, ackstat, busy, held, tx, begun, timeout>>
    BY <1>5 DEF requestFrom, Return, hw
  <2>2. rx' \in Seq(Bytes) /\ Len(rx') <= Cap /\ bus' \in Seq(Events)
    <3>1. CASE rx' = rx
      BY <2>1, <3>1 DEF WireTypes
    <3>2. CASE rx' = <<>>
      BY <1>1, <2>1, <3>2
    <3> QED
      BY <2>1, <3>1, <3>2
  <2> QED
    BY <1>1, <2>1, <2>2 DEF WireTypes
<1>6. CASE StartCondition
  <2>1. /\ OnBus(Start) /\ held' = TRUE /\ pc' = "addr"
        /\ UNCHANGED <<on, ackstat, busy, object, op, left, result>>
    BY <1>6 DEF StartCondition
  <2>2. held' \in BOOLEAN
    BY <2>1, Zenon
  <2>3. bus' \in Seq(Events)
    BY <2>1, BusGrows, EventsAre
  <2> QED
    BY <2>1, <2>2, <2>3 DEF WireTypes, object
<1>7. CASE SendAddress
  <2>1. UNCHANGED <<object, op, left>>
    BY <1>7 DEF SendAddress
  <2>2. CASE SendNothing /\ Fail
    BY <2>1, <2>2, FailIs DEF SendNothing, WireTypes, object, hw
  <2>3. ASSUME NEW fate \in Fates, SendByte(Address(addr, op, fate), fate),
               IF fate = "acked" THEN pc' = "settle" /\ result' = result ELSE Fail
        PROVE  WireTypes'
    <3>1. Address(addr, op, fate) \in Events
      BY EventsAre DEF WireTypes
    <3>2. /\ bus' \in Seq(Events) /\ on' = on /\ held' = held
          /\ busy' \in BOOLEAN /\ ackstat' \in BOOLEAN
      BY <2>3, <3>1, SendByteTypes
    <3>3. \/ pc' = "settle" /\ result' = result
          \/ pc' = "idle" /\ result' = 4
          \/ pc' = "abort" /\ result' = result
      BY <2>3, FailIs
    <3> QED
      BY <2>1, <3>2, <3>3 DEF WireTypes, object
  <2> QED
    BY <1>7, <2>2, <2>3 DEF SendAddress
<1>8. CASE Settle
  <2>1. UNCHANGED <<hw, object, op, left, bus>>
    BY <1>8 DEF Settle
  <2>2. \/ pc' = "body" /\ result' = result
        \/ pc' = "idle" /\ result' = 4
        \/ pc' = "abort" /\ result' = result
    BY <1>8, FailIs DEF Settle
  <2> QED
    BY <2>1, <2>2 DEF WireTypes, object, hw
<1>9. CASE SendData
  <2>1. /\ left > 0 /\ left' = left - 1 /\ tx' = Tail(tx)
        /\ UNCHANGED <<rx, begun, addr, timeout, op>> /\ pc = "body" /\ op = "write"
    BY <1>9 DEF SendData
  <2>2. tx # <<>>
    BY <2>1 DEF WriteInv, WireTypes
  <2>3. /\ Head(tx) \in Bytes /\ tx' \in Seq(Bytes) /\ Len(tx') = Len(tx) - 1 /\ Len(tx) \in Nat
    BY <2>1, <2>2, HeadTailProperties, LenProperties DEF WireTypes
  <2>4. left' \in 0..(Cap + 1) /\ Len(tx') <= Cap
    BY <1>1, <2>1, <2>3 DEF WireTypes
  <2>5. CASE UNCHANGED <<hw, bus>> /\ Return(3)
    BY <2>1, <2>3, <2>4, <2>5 DEF WireTypes, hw, Return
  <2>6. ASSUME NEW fate \in Fates, SendByte(Data(Head(tx), fate), fate),
               IF fate = "acked" THEN UNCHANGED <<pc, result>> ELSE Return(3)
        PROVE  WireTypes'
    <3>1. Data(Head(tx), fate) \in Events
      BY <2>3, EventsAre
    <3>2. /\ bus' \in Seq(Events) /\ on' = on /\ held' = held
          /\ busy' \in BOOLEAN /\ ackstat' \in BOOLEAN
      BY <2>6, <3>1, SendByteTypes
    <3>3. \/ UNCHANGED <<pc, result>>
          \/ pc' = "idle" /\ result' = 3
      BY <2>6 DEF Return
    <3> QED
      BY <2>1, <2>3, <2>4, <3>2, <3>3 DEF WireTypes
  <2> QED
    BY <1>9, <2>5, <2>6 DEF SendData
<1>10. CASE Receive
  <2>1. UNCHANGED <<hw, tx, begun, addr, timeout, op, left, result>>
    BY <1>10 DEF Receive
  <2>2. CASE pc' = "abort" /\ UNCHANGED <<rx, bus>>
    BY <2>1, <2>2 DEF WireTypes, hw
  <2>3. ASSUME NEW b \in Bytes, OnBus(Recv(b)), pc' = "ack",
               rx' = IF Len(rx) < Cap THEN Append(rx, b) ELSE rx
        PROVE  WireTypes'
    <3>1. bus' \in Seq(Events)
      BY <2>3, BusGrows, EventsAre
    <3>2. rx' \in Seq(Bytes) /\ Len(rx') <= Cap
      <4>1. Len(rx) \in Nat
        BY LenProperties DEF WireTypes
      <4>2. Append(rx, b) \in Seq(Bytes) /\ Len(Append(rx, b)) = Len(rx) + 1
        BY AppendIs DEF WireTypes
      <4> QED
        BY <1>1, <2>3, <4>1, <4>2 DEF WireTypes
    <3> QED
      BY <2>1, <2>3, <3>1, <3>2 DEF WireTypes, hw
  <2> QED
    BY <1>10, <2>2, <2>3 DEF Receive
<1>11. CASE Acknowledge
  <2>1. /\ OnBus(IF left = 1 THEN Ack ELSE Nack) /\ pc' = "body" /\ left' = left - 1
        /\ UNCHANGED <<hw, object, op, result>>
    BY <1>11 DEF Acknowledge
  <2>2. bus' \in Seq(Events)
    BY <2>1, BusGrows, EventsAre
  <2>3. left' \in 0..(Cap + 1)
    BY <1>1, <1>11, <2>1 DEF Acknowledge, ReadInv, WriteInv, WireTypes
  <2> QED
    BY <2>1, <2>2, <2>3 DEF WireTypes, hw, object
<1>12. CASE StopCondition
  <2>1. /\ OnBus(Stop) /\ held' = FALSE /\ pc' = "idle" /\ result' \in {0, Len(rx) % UINT8}
        /\ UNCHANGED <<on, ackstat, busy, object, op, left>>
    BY <1>12 DEF StopCondition, Return
  <2>2. held' \in BOOLEAN
    BY <2>1, Zenon
  <2>3. bus' \in Seq(Events)
    BY <2>1, BusGrows, EventsAre
  <2>4. result' \in 0..Cap \cup {1, 2, 3, 4}
    <3>1. Len(rx) \in 0..Cap /\ UINT8 \in Nat \ {0}
      BY <1>1, LenProperties, WireAssumption DEF WireTypes
    <3>2. Len(rx) % UINT8 \in 0..Cap
      <4>1. PICK n \in Nat : n = Len(rx) /\ n <= Cap
        BY <1>1, <3>1
      <4>2. n \div UINT8 \in Nat /\ n % UINT8 \in 0..(UINT8 - 1)
            /\ n = (n \div UINT8) * UINT8 + (n % UINT8)
        BY <3>1
      <4>3. PICK m \in Nat : m = (n \div UINT8) * UINT8
        BY <3>1, <4>2
      <4>4. PICK r \in Nat : r = n % UINT8 /\ n = m + r
        BY <4>2, <4>3
      <4>5. r \in 0..Cap
        BY <1>1, <4>1, <4>4
      <4> QED
        BY <4>1, <4>4, <4>5
    <3> QED
      BY <1>1, <2>1, <3>2
  <2> QED
    BY <2>1, <2>2, <2>3, <2>4 DEF WireTypes, object
<1>13. CASE UNCHANGED vars
  BY <1>13 DEF WireTypes, vars, hw, object, call
<1> QED
  BY <1>2, <1>3, <1>4, <1>5, <1>6, <1>7, <1>8, <1>9, <1>10, <1>11, <1>12, <1>13
  DEF Next, Transfer, Quiet

-----------------------------------------------------------------------------
(* The points of a transfer. *)
LEMMA StepReady ==
    ASSUME WireTypes, Ready, [Next]_vars
    PROVE  Ready'
<1>1. CASE pc' \in {"idle", "start", "addr", "abort"}
  BY <1>1 DEF Ready
<1>2. CASE HwFinish
  BY <1>2 DEF HwFinish, Ready, call
<1>3. CASE Quiet
  <2>1. pc' = "idle"
    BY <1>3, QuietIs DEF Idle, call
  <2> QED
    BY <1>1, <2>1
<1>4. CASE SendAddress
  <2>1. CASE Fail
    BY <1>1, <2>1, FailIs DEF WireTypes
  <2>2. ASSUME NEW fate \in Fates, SendByte(Address(addr, op, fate), fate), pc' = "settle",
               fate = "acked"
        PROVE  Ready'
    <3>1. Address(addr, op, fate) \in Events
      BY EventsAre DEF WireTypes
    <3>2. ~busy' /\ ~ackstat' /\ _idle = 0
      BY <2>2, <3>1, SendByteTypes
    <3>3. timeout' = timeout
      BY <1>4 DEF SendAddress, object
    <3> QED
      BY <3>2, <3>3 DEF Ready, _idle, IdleT
  <2> QED
    BY <1>4, <2>1, <2>2 DEF SendAddress
<1>5. CASE SendData
  <2>1. timeout' = timeout /\ pc = "body"
    BY <1>5 DEF SendData
  <2>2. ~busy /\ ~ackstat /\ IdleT # 0
    BY <2>1 DEF Ready
  <2>3. CASE Return(3)
    BY <1>1, <2>3 DEF Return
  <2>4. ASSUME SendByte(Data(Head(tx), "acked"), "acked") PROVE Ready'
    <3>1. busy' = FALSE /\ ackstat' = FALSE
      BY <2>4 DEF SendByte
    <3> QED
      BY <2>1, <2>2, <3>1 DEF Ready, IdleT
  <2> QED
    BY <1>5, <2>3, <2>4 DEF SendData
<1>6. CASE UNCHANGED <<hw, timeout>> /\ pc \in {"settle", "body", "ack"}
  BY <1>6 DEF Ready, IdleT, hw
<1>7. CASE Settle \/ Receive \/ Acknowledge
  BY <1>6, <1>7 DEF Settle, Receive, Acknowledge, object
<1>8. CASE UNCHANGED vars
  BY <1>8 DEF Ready, IdleT, vars, hw, object, call
<1>9. CASE StartCondition \/ StopCondition
  BY <1>1, <1>9 DEF StartCondition, StopCondition, Return
<1>10. ASSUME NEW stopBit \in BOOLEAN, endTransmission(stopBit) PROVE Ready'
  BY <1>1, <1>10 DEF endTransmission, Return
<1>11. ASSUME NEW a \in Addrs, NEW size \in 0..(Cap + 1), NEW stopBit \in BOOLEAN,
              requestFrom(a, size, stopBit)
       PROVE  Ready'
  BY <1>1, <1>11 DEF requestFrom, Return
<1> QED
  BY <1>2, <1>3, <1>4, <1>5, <1>7, <1>8, <1>9, <1>10, <1>11 DEF Next, Transfer, Quiet

(* No step but those of a transfer touches what the sketch asked for, or   *)
(* the bus; the buffers change only between transfers.                     *)
LEMMA OtherSteps ==
    ASSUME WriteInv, ReadInv, Quiet \/ HwFinish \/ UNCHANGED vars
    PROVE  WriteInv' /\ ReadInv'
<1>1. UNCHANGED call
  BY QuietIs DEF HwFinish, vars
<1>2. pc # "idle" => tx' = tx /\ rx' = rx
  BY QuietIs DEF Idle, HwFinish, vars, object
<1>3. /\ UNCHANGED <<pc, op, left, result, bus, asked>>
  BY <1>1 DEF call
<1>4. SentExactly' = SentExactly
  BY <1>3 DEF SentExactly, Done, Start, Stop, Data
<1>5. WriteInv'
  BY <1>2, <1>3, <1>4 DEF WriteInv, Framed, Start, Data
<1>6. ReadInv'
  BY <1>2, <1>3 DEF ReadInv, Recv
<1> QED
  BY <1>5, <1>6

(* One byte more is sent. *)
LEMMA SendDataIs ==
    ASSUME WireTypes, Ready, WriteInv, SendData
    PROVE  /\ left > 0 /\ left' = left - 1 /\ op = "write" /\ op' = op /\ asked' = asked
           /\ tx' = Tail(tx) /\ pc = "body"
           /\ \E fate \in Fates :
                /\ OnBus(Data(asked[Len(asked) - left + 1], fate))
                /\ asked[Len(asked) - left + 1] \in Bytes
                /\ IF fate = "acked" THEN pc' = "body" /\ result' = result
                                     ELSE pc' = "idle" /\ result' = 3
<1>1. /\ left > 0 /\ left' = left - 1 /\ op = "write" /\ op' = op /\ asked' = asked
      /\ tx' = Tail(tx) /\ pc = "body"
  BY DEF SendData
<1>2. ~SendRefused
  BY <1>1 DEF Ready, SendRefused, _idle
<1>3. PICK fate \in Fates :
        /\ SendByte(Data(Head(tx), fate), fate)
        /\ IF fate = "acked" THEN UNCHANGED <<pc, result>> ELSE Return(3)
  BY <1>2 DEF SendData
<1>4. Head(tx) = asked[Len(asked) - left + 1] /\ Head(tx) \in Bytes
  <2>1. /\ tx \in Seq(Bytes) /\ Len(tx) = left /\ left \in Nat
        /\ \A i \in 1..left : tx[i] = asked[Len(asked) - left + i]
    BY <1>1 DEF WriteInv, WireTypes
  <2>2. tx # <<>> /\ Head(tx) = tx[1]
    BY <1>1, <2>1
  <2>3. tx[1] \in Bytes
    BY <1>1, <2>1, ElementOfSeq
  <2> QED
    BY <1>1, <2>1, <2>2, <2>3
<1> QED
  BY <1>1, <1>3, <1>4 DEF SendByte, Return

LEMMA StepWriteInv ==
    ASSUME WireTypes, Ready, WriteInv, ReadInv, [Next]_vars
    PROVE  WriteInv'
<1>1. CASE Quiet \/ HwFinish \/ UNCHANGED vars
  BY <1>1, OtherSteps
<1>2. ASSUME NEW stopBit \in BOOLEAN, endTransmission(stopBit) PROVE WriteInv'
  <2>1. /\ bus' = <<>> /\ asked' = tx /\ left' = Len(tx) /\ tx' = tx
        /\ \/ pc' = "start" /\ tx # <<>>
           \/ pc' = "idle" /\ result' \in {1, 2}
    BY <1>2 DEF endTransmission, Return
  <2>2. tx \in Seq(Bytes) /\ Len(tx) \in Nat
    BY LenProperties DEF WireTypes
  <2>3. CASE pc' = "idle" /\ result' \in {1, 2}
    BY <2>3 DEF WriteInv, SentExactly, Done
  <2>4. CASE pc' = "start" /\ tx # <<>>
    <3>1. \A i \in 1..Len(tx) : tx[i] = tx[Len(tx) - Len(tx) + i]
      BY <2>2
    <3>2. Len(tx) \in 0..Len(tx)
      BY <2>2
    <3> QED
      BY <2>1, <2>2, <2>4, <3>1, <3>2 DEF WriteInv
  <2> QED
    BY <2>1, <2>3, <2>4
<1>3. CASE op' # "write"
  BY <1>3 DEF WriteInv
<1>4. ASSUME op = "write", op' = "write", UNCHANGED <<tx, asked, left>>,
             pc # "idle", pc' \notin {"ack", "abort", "idle"},
             pc' \in {"start", "addr", "settle"} => pc \in {"start", "addr", "settle"},
             pc' = "start" => bus' = <<>>,
             pc' = "addr" => Len(bus') = 1 /\ bus'[1] = Start,
             pc' \in {"settle", "body"} =>
               /\ Len(bus') = 2 + Len(asked) - left /\ Framed'
               /\ \A i \in 1..(Len(asked) - left) : bus'[i + 2] = Data(asked[i], "acked")
      PROVE  WriteInv'
  BY <1>4 DEF WriteInv, Data, Start
<1>5. ASSUME pc' = "idle", result' # 0 PROVE WriteInv'
  BY <1>5 DEF WriteInv, SentExactly, Done
<1>6. ASSUME op = "write" PROVE asked \in Seq(Bytes) \/ pc = "idle"
  BY <1>6 DEF WriteInv
<1>7. CASE StartCondition /\ op = "write"
  <2>1. /\ pc = "start" /\ OnBus(Start) /\ pc' = "addr" /\ UNCHANGED <<tx, asked, left, op>>
    BY <1>7 DEF StartCondition, object
  <2>2. Len(bus) = 0
    BY <1>7, <2>1 DEF WriteInv
  <2>3. Len(bus') = 1 /\ bus'[1] = Start
    BY <2>1, <2>2, BusGrows, EventsAre
  <2> QED
    BY <1>4, <1>7, <2>1, <2>3
<1>8. CASE SendAddress /\ op = "write"
  <2>1. pc = "addr" /\ UNCHANGED <<tx, asked, left, op>>
    BY <1>8 DEF SendAddress, object
  <2>2. CASE Fail
    BY <1>5, <1>8, <2>2, FailIs
  <2>3. ASSUME NEW fate \in Fates, SendByte(Address(addr, op, fate), fate), pc' = "settle",
               fate = "acked"
        PROVE  WriteInv'
    <3>1. Len(bus) = 1 /\ bus[1] = Start /\ left = Len(asked)
      BY <1>8, <2>1 DEF WriteInv
    <3>2. OnBus(Address(addr, op, fate)) /\ Address(addr, op, fate) \in Events
      BY <2>3, EventsAre DEF SendByte, WireTypes
    <3>3. Len(bus') = 2 /\ bus'[2] = Address(addr, op, fate) /\ bus'[1] = bus[1]
      BY <3>1, <3>2, BusGrows
    <3>4. Framed'
      BY <2>3, <3>1, <3>3, EventKinds DEF Framed, Start
    <3>5. Len(asked) \in Nat
      BY <1>6, <1>8, <2>1, LenProperties
    <3> QED
      BY <1>4, <1>8, <2>1, <2>3, <3>1, <3>3, <3>4, <3>5
  <2> QED
    BY <1>8, <2>2, <2>3 DEF SendAddress
<1>9. CASE Settle /\ op = "write"
  <2>1. pc = "settle" /\ UNCHANGED <<tx, asked, left, op, bus>>
    BY <1>9 DEF Settle, object
  <2>2. CASE Fail
    BY <1>5, <1>9, <2>2, FailIs
  <2>3. CASE pc' = "body"
    <3>1. /\ Len(bus) = 2 + Len(asked) - left /\ Framed
          /\ \A i \in 1..(Len(asked) - left) : bus[i + 2] = Data(asked[i], "acked")
      BY <1>9, <2>1 DEF WriteInv
    <3>2. Framed'
      BY <2>1, <3>1 DEF Framed, Start
    <3> QED
      BY <1>4, <1>9, <2>1, <2>3, <3>1, <3>2
  <2> QED
    BY <1>9, <2>2, <2>3 DEF Settle
<1>10. CASE SendData
  <2>1. PICK fate \in Fates :
          /\ OnBus(Data(asked[Len(asked) - left + 1], fate))
          /\ asked[Len(asked) - left + 1] \in Bytes
          /\ IF fate = "acked" THEN pc' = "body" /\ result' = result
                               ELSE pc' = "idle" /\ result' = 3
    BY <1>10, SendDataIs
  <2>2. /\ left > 0 /\ left' = left - 1 /\ op = "write" /\ op' = op /\ asked' = asked
        /\ tx' = Tail(tx) /\ pc = "body"
    BY <1>10, SendDataIs
  <2>3. CASE pc' = "idle" /\ result' = 3
    BY <1>5, <2>3
  <2>4. CASE fate = "acked" /\ pc' = "body"
    <3>1. /\ asked \in Seq(Bytes) /\ asked # <<>> /\ left \in 0..Len(asked) /\ Len(tx) = left
          /\ \A i \in 1..left : tx[i] = asked[Len(asked) - left + i]
          /\ Len(bus) = 2 + Len(asked) - left /\ Framed
          /\ \A i \in 1..(Len(asked) - left) : bus[i + 2] = Data(asked[i], "acked")
          /\ Len(asked) \in Nat /\ tx \in Seq(Bytes)
      BY <2>2, LenProperties DEF WriteInv, WireTypes
    <3>2. PICK n \in Nat, k \in Nat : n = Len(asked) /\ k = n - left
      BY <3>1
    <3>3. Data(asked[k + 1], fate) \in Events /\ OnBus(Data(asked[k + 1], fate))
      BY <2>1, <3>2, EventsAre
    <3>4. /\ Len(bus') = 3 + k /\ bus'[3 + k] = Data(asked[k + 1], "acked")
          /\ \A i \in 1..(2 + k) : bus'[i] = bus[i]
      <4>1. /\ Len(bus') = Len(bus) + 1 /\ bus'[Len(bus) + 1] = Data(asked[k + 1], fate)
            /\ \A i \in 1..Len(bus) : bus'[i] = bus[i]
        BY <3>3, BusGrows
      <4>2. Len(bus) = 2 + k
        BY <3>1, <3>2
      <4> QED
        BY <2>4, <4>1, <4>2
    <3>5. Framed'
      BY <3>1, <3>4 DEF Framed, Start
    <3>6. \A i \in 1..(k + 1) : bus'[i + 2] = Data(asked[i], "acked")
      <4> TAKE i \in 1..(k + 1)
      <4>1. CASE i = k + 1
        <5>1. i + 2 = 3 + k
          BY <4>1
        <5> QED
          BY <3>4, <4>1, <5>1
      <4>2. CASE i # k + 1
        <5>1. i \in 1..k /\ i + 2 \in 1..(2 + k)
          BY <4>2
        <5> QED
          BY <3>1, <3>2, <3>4, <5>1
      <4> QED
        BY <4>1, <4>2
    <3>7. /\ Len(tx') = left' /\ \A i \in 1..left' : tx'[i] = asked[Len(asked) - left' + i]
      <4>1. tx # <<>>
        BY <2>2, <3>1
      <4>2. /\ Len(Tail(tx)) = Len(tx) - 1
            /\ \A i \in 1..Len(Tail(tx)) : Tail(tx)[i] = tx[i + 1]
        BY <3>1, <4>1, HeadTailProperties
      <4>3. ASSUME NEW i \in 1..(left - 1) PROVE tx[i + 1] = asked[Len(asked) - (left - 1) + i]
        <5>1. i + 1 \in 1..left /\ Len(asked) - left + (i + 1) = Len(asked) - (left - 1) + i
          BY <3>1
        <5> QED
          BY <3>1, <5>1
      <4> QED
        BY <2>2, <3>1, <4>2, <4>3
    <3>8. left' \in 0..Len(asked) /\ Len(asked) - left' = k + 1 /\ 2 + Len(asked) - left' = 3 + k
      BY <2>2, <3>1, <3>2
    <3> QED
      BY <2>2, <2>4, <3>1, <3>4, <3>5, <3>6, <3>7, <3>8 DEF WriteInv, Data
  <2> QED
    BY <2>1, <2>3, <2>4
<1>11. CASE StopCondition /\ op = "write"
  <2>1. /\ pc = "body" /\ left = 0 /\ OnBus(Stop) /\ pc' = "idle" /\ asked' = asked
    BY <1>11 DEF StopCondition, Return, WriteInv
  <2>2. /\ asked \in Seq(Bytes) /\ asked # <<>> /\ Len(asked) \in Nat
        /\ Len(bus) = 2 + Len(asked) /\ Framed
        /\ \A i \in 1..Len(asked) : bus[i + 2] = Data(asked[i], "acked")
    BY <1>11, <2>1, LenProperties DEF WriteInv
  <2>3. /\ Len(bus') = Len(asked) + 3 /\ bus'[Len(asked) + 3] = Stop
        /\ \A i \in 1..(Len(asked) + 2) : bus'[i] = bus[i]
    <3>1. /\ Len(bus') = Len(bus) + 1 /\ bus'[Len(bus) + 1] = Stop
          /\ \A i \in 1..Len(bus) : bus'[i] = bus[i]
      BY <2>1, BusGrows, EventsAre
    <3> QED
      BY <2>2, <3>1
  <2>4. /\ bus'[1] = Start /\ bus'[2].ev = "addr" /\ bus'[2].fate = "acked"
    BY <2>2, <2>3 DEF Framed
  <2>5. \A i \in 1..Len(asked) : bus'[i + 2] = Data(asked[i], "acked")
    <3> TAKE i \in 1..Len(asked)
    <3>1. i + 2 \in 1..(Len(asked) + 2)
      BY <2>2
    <3> QED
      BY <2>2, <2>3, <3>1
  <2>6. SentExactly'
    BY <2>1, <2>2, <2>3, <2>4, <2>5 DEF SentExactly, Start, Stop, Data
  <2> QED
    BY <2>1, <2>6 DEF WriteInv
<1>12. CASE (Receive \/ Acknowledge) /\ op = "write"
  BY <1>12 DEF Receive, Acknowledge, WriteInv
<1>13. ASSUME NEW a \in Addrs, NEW size \in 0..(Cap + 1), NEW stopBit \in BOOLEAN,
             requestFrom(a, size, stopBit)
       PROVE WriteInv'
  BY <1>3, <1>13 DEF requestFrom
<1>14. CASE Transfer /\ op # "write"
  <2>1. op' = op
    BY <1>14 DEF Transfer, StartCondition, SendAddress, Settle, SendData, Receive, Acknowledge,
                 StopCondition
  <2> QED
    BY <1>3, <1>14, <2>1
<1> QED
  BY <1>1, <1>2, <1>7, <1>8, <1>9, <1>10, <1>11, <1>12, <1>13, <1>14 DEF Next, Transfer, Quiet

LEMMA StepReadInv ==
    ASSUME WireTypes, Ready, WriteInv, ReadInv, [Next]_vars
    PROVE  ReadInv'
<1>1. CASE Quiet \/ HwFinish \/ UNCHANGED vars
  BY <1>1, OtherSteps
<1>2. CASE op' # "read"
  BY <1>2 DEF ReadInv
<1>3. ASSUME NEW stopBit \in BOOLEAN, endTransmission(stopBit) PROVE ReadInv'
  BY <1>2, <1>3 DEF endTransmission
<1>4. ASSUME NEW a \in Addrs, NEW size \in 0..(Cap + 1), NEW stopBit \in BOOLEAN,
             requestFrom(a, size, stopBit)
      PROVE  ReadInv'
  <2>1. /\ bus' = <<>> /\ asked' = size /\ left' = size
        /\ \/ pc' = "start" /\ rx' = <<>> /\ size # 0 /\ ~(Cap < size)
           \/ pc' = "idle"
    BY <1>4 DEF requestFrom, Return
  <2>2. size \in 1..Cap => size \in 0..size
    BY WireAssumption
  <2>3. size # 0 /\ ~(Cap < size) => size \in 1..Cap
    BY WireAssumption
  <2> QED
    BY <2>1, <2>2, <2>3 DEF ReadInv
<1>5. CASE pc' = "idle"
  BY <1>5 DEF ReadInv
<1>6. CASE StartCondition /\ op = "read"
  <2>1. /\ pc = "start" /\ OnBus(Start) /\ pc' = "addr" /\ UNCHANGED <<rx, asked, left, op>>
    BY <1>6 DEF StartCondition, object
  <2>2. Len(bus) = 0
    BY <1>6, <2>1 DEF ReadInv
  <2>3. Len(bus') = 1
    BY <2>1, <2>2, BusGrows, EventsAre
  <2> QED
    BY <1>6, <2>1, <2>3 DEF ReadInv
<1>7. CASE (SendAddress \/ Settle) /\ Fail /\ op = "read"
  <2>1. pc' = "abort" /\ pc # "idle" /\ UNCHANGED <<asked, left, op>>
    BY <1>7, FailIs DEF SendAddress, Settle, object
  <2> QED
    BY <1>7, <2>1 DEF ReadInv
<1>8. ASSUME SendAddress, op = "read", NEW fate \in Fates,
             SendByte(Address(addr, op, fate), fate), pc' = "settle"
      PROVE  ReadInv'
  <2>1. pc = "addr" /\ UNCHANGED <<rx, asked, left, op>>
    BY <1>8 DEF SendAddress, object
  <2>2. Len(bus) = 1
    BY <1>8, <2>1 DEF ReadInv
  <2>3. Address(addr, op, fate) \in Events /\ OnBus(Address(addr, op, fate))
    BY <1>8, EventsAre DEF WireTypes, SendByte
  <2>4. Len(bus') = 2
    BY <2>2, <2>3, BusGrows
  <2> QED
    BY <1>8, <2>1, <2>4 DEF ReadInv
<1>9. CASE SendAddress /\ op = "read"
  BY <1>7, <1>8, <1>9 DEF SendAddress
<1>10. CASE Settle /\ op = "read"
  <2>1. pc = "settle" /\ UNCHANGED <<rx, asked, left, op, bus>>
    BY <1>10 DEF Settle, object
  <2>2. asked \in 1..Cap /\ rx = <<>> /\ left = asked /\ Len(bus) = 2
    BY <1>10, <2>1 DEF ReadInv
  <2>3. CASE pc' = "body"
    <3>1. asked - left = 0 /\ 2 + 2 * 0 = 2 /\ Len(rx) = 0
      BY <2>2, WireAssumption
    <3> QED
      BY <1>10, <2>1, <2>2, <2>3, <3>1 DEF ReadInv
  <2> QED
    BY <1>7, <1>10, <2>3 DEF Settle
<1>11. CASE Receive
  <2>1. pc = "body" /\ op = "read" /\ left > 0 /\ UNCHANGED <<asked, left, op>>
    BY <1>11 DEF Receive
  <2>2. /\ asked \in 1..Cap /\ left \in 0..asked
        /\ Len(bus) = 2 + 2 * (asked - left) /\ Len(rx) = asked - left
        /\ \A i \in 1..(asked - left) : bus[2 * i + 1] = Recv(rx[i])
        /\ rx \in Seq(Bytes)
    BY <2>1 DEF ReadInv, WireTypes
  <2>3. CASE pc' = "abort"
    BY <2>1, <2>2, <2>3 DEF ReadInv
  <2>4. ASSUME NEW b \in Bytes, OnBus(Recv(b)), pc' = "ack",
               rx' = IF Len(rx) < Cap THEN Append(rx, b) ELSE rx
        PROVE  ReadInv'
    <3>1. PICK k \in Nat : k = asked - left /\ k < Cap
      BY <2>1, <2>2, WireAssumption
    <3>2. /\ rx' = Append(rx, b) /\ Len(rx') = k + 1 /\ rx'[k + 1] = b
          /\ \A i \in 1..k : rx'[i] = rx[i]
      BY <2>2, <2>4, <3>1, AppendIs
    <3>3. /\ Len(bus') = 3 + 2 * k /\ bus'[3 + 2 * k] = Recv(b)
          /\ \A i \in 1..(2 + 2 * k) : bus'[i] = bus[i]
      <4>1. /\ Len(bus') = Len(bus) + 1 /\ bus'[Len(bus) + 1] = Recv(b)
            /\ \A i \in 1..Len(bus) : bus'[i] = bus[i]
        BY <2>4, BusGrows, EventsAre
      <4>2. Len(bus) = 2 + 2 * k
        BY <2>2, <3>1
      <4> QED
        BY <4>1, <4>2
    <3>4. ASSUME NEW i \in 1..(k + 1) PROVE bus'[2 * i + 1] = Recv(rx'[i])
      <4>1. CASE i = k + 1
        <5>1. 2 * i + 1 = 3 + 2 * k
          BY <4>1
        <5> QED
          BY <3>2, <3>3, <4>1, <5>1
      <4>2. CASE i # k + 1
        <5>1. i \in 1..k /\ 2 * i + 1 \in 1..(2 + 2 * k)
          BY <4>2
        <5> QED
          BY <2>2, <3>1, <3>2, <3>3, <5>1
      <4> QED
        BY <4>1, <4>2
    <3> QED
      BY <2>1, <2>2, <2>4, <3>1, <3>2, <3>3, <3>4 DEF ReadInv, Recv
  <2> QED
    BY <1>11, <2>3, <2>4 DEF Receive
<1>12. CASE Acknowledge /\ op = "read"
  <2>1. /\ pc = "ack" /\ pc' = "body" /\ left' = left - 1 /\ UNCHANGED <<rx, asked, op>>
        /\ OnBus(IF left = 1 THEN Ack ELSE Nack)
    BY <1>12 DEF Acknowledge, object
  <2>2. /\ asked \in 1..Cap /\ left \in 0..asked
        /\ left > 0 /\ Len(bus) = 3 + 2 * (asked - left) /\ Len(rx) = asked - left + 1
        /\ \A i \in 1..(asked - left + 1) : bus[2 * i + 1] = Recv(rx[i])
    BY <1>12, <2>1 DEF ReadInv
  <2>3. PICK k \in Nat : k = asked - left
    BY <2>2
  <2>4. Len(bus') = 4 + 2 * k /\ \A i \in 1..(3 + 2 * k) : bus'[i] = bus[i]
    <3>1. Len(bus') = Len(bus) + 1 /\ \A i \in 1..Len(bus) : bus'[i] = bus[i]
      BY <2>1, BusGrows, EventsAre
    <3>2. Len(bus) = 3 + 2 * k
      BY <2>2, <2>3
    <3> QED
      BY <3>1, <3>2
  <2>5. ASSUME NEW i \in 1..(k + 1) PROVE bus'[2 * i + 1] = Recv(rx[i])
    <3>1. 2 * i + 1 \in 1..(3 + 2 * k)
      OBVIOUS
    <3> QED
      BY <2>2, <2>3, <2>4, <3>1
  <2>6. /\ left' \in 0..asked /\ asked - left' = k + 1 /\ 2 + 2 * (k + 1) = 4 + 2 * k
    BY <2>1, <2>2, <2>3
  <2> QED
    BY <1>12, <2>1, <2>2, <2>3, <2>4, <2>5, <2>6 DEF ReadInv, Recv
<1>13. CASE StopCondition
  BY <1>5, <1>13 DEF StopCondition, Return
<1>14. CASE Transfer /\ op # "read"
  <2>1. op' = op
    BY <1>14 DEF Transfer, StartCondition, SendAddress, Settle, SendData, Receive, Acknowledge,
                 StopCondition
  <2> QED
    BY <1>2, <1>14, <2>1
<1>15. CASE SendData
  BY <1>2, <1>15 DEF SendData
<1> QED
  BY <1>1, <1>3, <1>4, <1>6, <1>9, <1>10, <1>11, <1>12, <1>13, <1>14, <1>15
  DEF Next, Transfer, Quiet

LEMMA StepWireInv == WireInv /\ [Next]_vars => WireInv'
<1> SUFFICES ASSUME WireInv, [Next]_vars PROVE WireInv'
  OBVIOUS
<1>1. WireTypes' /\ Ready' /\ WriteInv' /\ ReadInv'
  BY StepWireTypes, StepReady, StepWriteInv, StepReadInv DEF WireInv
<1>2. op' = "none" => pc' = "idle"
  <2>1. CASE Quiet \/ HwFinish \/ UNCHANGED vars
    BY <2>1, QuietIs DEF HwFinish, vars, call, WireInv
  <2>2. ASSUME NEW stopBit \in BOOLEAN, endTransmission(stopBit) PROVE op' # "none"
    BY <2>2 DEF endTransmission
  <2>3. ASSUME NEW a \in Addrs, NEW size \in 0..(Cap + 1), NEW stopBit \in BOOLEAN,
               requestFrom(a, size, stopBit)
        PROVE  op' # "none"
    BY <2>3 DEF requestFrom
  <2>4. CASE Transfer
    BY <2>4 DEF Transfer, StartCondition, SendAddress, Settle, SendData, Receive, Acknowledge,
                StopCondition, WireInv
  <2> QED
    BY <2>1, <2>2, <2>3, <2>4 DEF Next, Quiet
<1> QED
  BY <1>1, <1>2 DEF WireInv

-----------------------------------------------------------------------------
(* The variables of the I2C master keep their types: no ring buffer holds  *)
(* more than its size, and endTransmission() and requestFrom() return what *)
(* they may.                                                               *)
THEOREM WireTyped == Spec => []TypeOK
<1>1. WireInv => TypeOK
  BY DEF WireInv, WireTypes, TypeOK
<1> QED
  BY <1>1, InitWireInv, StepWireInv, PTL DEF Spec

(* A message that is being sent is what is on the bus, then what is queued. *)
LEMMA SendVanishesNot ==
    ASSUME WireInv, [Next]_vars, op = "write", pc = "body"
    PROVE  asked = Sent' \o tx'
<1>1. /\ asked \in Seq(Bytes) /\ left \in 0..Len(asked) /\ Len(tx) = left
      /\ \A i \in 1..left : tx[i] = asked[Len(asked) - left + i]
      /\ Len(bus) = 2 + Len(asked) - left
      /\ \A i \in 1..(Len(asked) - left) : bus[i + 2] = Data(asked[i], "acked")
      /\ Len(asked) \in Nat /\ tx \in Seq(Bytes)
  BY LenProperties DEF WireInv, WriteInv, WireTypes
<1>2. PICK n \in Nat, k \in Nat : n = Len(asked) /\ k = n - left
  BY <1>1
<1>3. ASSUME NEW j \in 0..n, tx' \in Seq(Bytes), Len(tx') = n - j,
             \A i \in 1..(n - j) : tx'[i] = asked[j + i],
             Len(bus') \in {j + 2, j + 3}, bus' \in Seq(Events),
             Len(bus') = j + 3 => bus'[j + 3] = Stop,
             \A i \in 1..j : bus'[i + 2] # Stop /\ bus'[i + 2].val = asked[i]
      PROVE  asked = Sent' \o tx'
  <2>1. {i \in 1..(Len(bus') - 2) : bus'[i + 2] # Stop} = 1..j
    <3>1. ASSUME NEW i \in 1..(Len(bus') - 2), bus'[i + 2] # Stop PROVE i \in 1..j
      <4>1. CASE Len(bus') = j + 2
        BY <4>1
      <4>2. CASE Len(bus') = j + 3
        <5>1. i # j + 1
          <6>1. bus'[j + 3] = Stop /\ (j + 1) + 2 = j + 3
            BY <1>3, <4>2
          <6> QED
            BY <3>1, <6>1
        <5> QED
          BY <4>2, <5>1
      <4> QED
        BY <1>3, <4>1, <4>2
    <3>2. ASSUME NEW i \in 1..j PROVE i \in 1..(Len(bus') - 2) /\ bus'[i + 2] # Stop
      <4>1. bus'[i + 2] # Stop
        BY <1>3
      <4>2. Len(bus') - 2 \in {j, j + 1}
        BY <1>3
      <4> QED
        BY <4>1, <4>2
    <3> QED
      BY <3>1, <3>2
  <2>2. Sent' = [i \in 1..j |-> bus'[i + 2].val]
    BY <2>1 DEF Sent, Stop
  <2>3. \A i \in 1..j : asked[i] \in Bytes
    BY <1>1, <1>2, ElementOfSeq
  <2>4. Sent' \in [1..j -> Bytes] /\ \A i \in 1..j : Sent'[i] = asked[i]
    BY <1>3, <2>2, <2>3
  <2>5. j \in Nat
    OBVIOUS
  <2>6. Sent' \in Seq(Bytes) /\ Len(Sent') = j
    BY <2>4, <2>5, FunctionIsSeq
  <2>7. IsConcat(Bytes, Sent', tx')
    BY <1>3, <2>6, ConcatIs
  <2>8. ASSUME NEW i \in 1..n PROVE (Sent' \o tx')[i] = asked[i]
    <3>1. CASE i <= j
      <4>1. i \in 1..j
        BY <3>1
      <4>2. (Sent' \o tx')[i] = Sent'[i]
        BY <2>6, <2>7, <4>1 DEF IsConcat
      <4> QED
        BY <2>4, <4>1, <4>2
    <3>2. CASE ~(i <= j)
      <4>1. i - j \in 1..(n - j) /\ j + (i - j) = i
        BY <2>5, <3>2
      <4>2. (Sent' \o tx')[j + (i - j)] = tx'[i - j]
        BY <1>3, <2>6, <2>7, <4>1 DEF IsConcat
      <4>3. tx'[i - j] = asked[j + (i - j)]
        BY <1>3, <4>1
      <4> QED
        BY <4>1, <4>2, <4>3
    <3> QED
      BY <3>1, <3>2
  <2>9. Sent' \o tx' \in Seq(Bytes) /\ Len(Sent' \o tx') = n
    BY <1>3, <2>6, <2>7 DEF IsConcat
  <2> QED
    BY <1>1, <1>2, <2>8, <2>9, SeqEqual
<1>4. \A i \in 1..k : bus[i + 2] # Stop /\ bus[i + 2].val = asked[i]
  BY <1>1, <1>2, EventKinds
<1>5. Len(bus) = k + 2 /\ bus \in Seq(Events) /\ left = n - k /\ k \in 0..n
      /\ \A i \in 1..(n - k) : tx[i] = asked[k + i]
  BY <1>1, <1>2 DEF WireInv, WireTypes
<1>6. CASE tx' = tx /\ bus' = bus
  <2>1. Len(bus') # k + 3 /\ Len(tx') = n - k /\ Len(bus') \in {k + 2, k + 3}
    BY <1>1, <1>5, <1>6
  <2>2. \A i \in 1..(n - k) : tx'[i] = asked[k + i]
    BY <1>5, <1>6
  <2>3. \A i \in 1..k : bus'[i + 2] # Stop /\ bus'[i + 2].val = asked[i]
    BY <1>4, <1>6
  <2> QED
    BY <1>1, <1>3, <1>5, <1>6, <2>1, <2>2, <2>3
<1>7. CASE SendData
  <2>1. /\ left > 0 /\ tx' = Tail(tx)
        /\ \E fate \in Fates : /\ OnBus(Data(asked[Len(asked) - left + 1], fate))
                               /\ asked[Len(asked) - left + 1] \in Bytes
    BY <1>7, SendDataIs DEF WireInv
  <2>2. PICK fate \in Fates : OnBus(Data(asked[k + 1], fate)) /\ asked[k + 1] \in Bytes
    BY <1>2, <2>1
  <2>3. /\ bus' \in Seq(Events) /\ Len(bus') = k + 3 /\ bus'[k + 3] = Data(asked[k + 1], fate)
        /\ \A i \in 1..(k + 2) : bus'[i] = bus[i]
    <3>1. Data(asked[k + 1], fate) \in Events /\ WireTypes
      BY <2>2, EventsAre DEF WireInv
    <3>2. /\ bus' \in Seq(Events) /\ Len(bus') = Len(bus) + 1
          /\ bus'[Len(bus) + 1] = Data(asked[k + 1], fate)
          /\ \A i \in 1..Len(bus) : bus'[i] = bus[i]
      BY <2>2, <3>1, BusGrows
    <3> QED
      BY <1>5, <3>2
  <2>4. ASSUME NEW i \in 1..(k + 1) PROVE bus'[i + 2] # Stop /\ bus'[i + 2].val = asked[i]
    <3>1. CASE i = k + 1
      <4>1. i + 2 = k + 3
        BY <3>1
      <4> QED
        BY <2>3, <3>1, <4>1, EventKinds
    <3>2. CASE i # k + 1
      <4>1. i \in 1..k /\ i + 2 \in 1..(k + 2)
        BY <3>2
      <4> QED
        BY <1>4, <2>3, <4>1
    <3> QED
      BY <3>1, <3>2
  <2>5. /\ tx' \in Seq(Bytes) /\ Len(tx') = n - (k + 1)
        /\ \A i \in 1..(n - (k + 1)) : tx'[i] = asked[(k + 1) + i]
    <3>1. tx # <<>>
      BY <1>1, <2>1
    <3>2. /\ tx' \in Seq(Bytes) /\ Len(tx') = Len(tx) - 1
          /\ \A i \in 1..(Len(tx) - 1) : tx'[i] = tx[i + 1]
      BY <1>1, <2>1, <3>1, HeadTailProperties
    <3>3. Len(tx) = n - k
      BY <1>1, <1>5
    <3>4. ASSUME NEW i \in 1..(n - (k + 1)) PROVE tx'[i] = asked[(k + 1) + i]
      <4>1. i + 1 \in 1..(n - k) /\ k + (i + 1) = (k + 1) + i /\ i \in 1..(Len(tx) - 1)
        BY <3>3
      <4> QED
        BY <1>5, <3>2, <4>1
    <3> QED
      BY <3>2, <3>3, <3>4
  <2>6. k + 1 \in 0..n
    BY <1>5, <2>1
  <2>7. k + 3 = (k + 1) + 2 /\ k + 3 # (k + 1) + 3
    OBVIOUS
  <2> QED
    BY <1>3, <2>3, <2>4, <2>5, <2>6, <2>7
<1>8. CASE StopCondition
  <2>1. OnBus(Stop) /\ tx' = tx
    BY <1>8 DEF StopCondition, object
  <2>2. /\ bus' \in Seq(Events) /\ Len(bus') = k + 3 /\ bus'[k + 3] = Stop
        /\ \A i \in 1..(k + 2) : bus'[i] = bus[i]
    <3>1. /\ bus' \in Seq(Events) /\ Len(bus') = Len(bus) + 1 /\ bus'[Len(bus) + 1] = Stop
          /\ \A i \in 1..Len(bus) : bus'[i] = bus[i]
      BY <2>1, BusGrows, EventsAre DEF WireInv
    <3> QED
      BY <1>5, <3>1
  <2>3. ASSUME NEW i \in 1..k PROVE bus'[i + 2] # Stop /\ bus'[i + 2].val = asked[i]
    <3>1. i + 2 \in 1..(k + 2)
      OBVIOUS
    <3> QED
      BY <1>4, <2>2, <3>1
  <2> QED
    BY <1>1, <1>3, <1>5, <2>1, <2>2, <2>3
<1>9. CASE HwFinish \/ UNCHANGED vars
  BY <1>6, <1>9 DEF HwFinish, vars, object, call
<1>10. ~Quiet
  BY QuietIs DEF Idle
<1>11. /\ \A stopBit \in BOOLEAN : ~endTransmission(stopBit)
       /\ \A a \in Addrs, size \in 0..(Cap + 1), stopBit \in BOOLEAN :
            ~requestFrom(a, size, stopBit)
       /\ ~StartCondition /\ ~SendAddress /\ ~Settle /\ ~Receive /\ ~Acknowledge
  BY DEF endTransmission, requestFrom, Idle, StartCondition, SendAddress, Settle, Receive, Acknowledge
<1> QED
  BY <1>7, <1>8, <1>9, <1>10, <1>11 DEF Next, Transfer, Quiet

(* What requestFrom() returns is what came in on the bus. *)
LEMMA ReceivesAll ==
    ASSUME WireInv, [Next]_vars, op = "read", pc # "idle", pc' = "idle", result' # 0
    PROVE  result' = asked % UINT8 /\ rx' = Received /\ Len(rx') = asked
<1>1. ~Quiet /\ ~HwFinish /\ ~UNCHANGED vars
  BY QuietIs DEF Idle, HwFinish, vars, call
<1>2. ~Fail
  BY FailIs DEF WireInv
<1>3. StopCondition
  BY <1>1, <1>2 DEF Next, Quiet, Transfer, endTransmission, requestFrom, Idle, StartCondition,
                    SendAddress, Settle, SendData, Receive, Acknowledge
<1>4. pc = "body" /\ left = 0 /\ result' = Len(rx) % UINT8 /\ rx' = rx
  BY <1>3 DEF StopCondition, Return, object
<1>5. /\ asked \in 1..Cap /\ Len(bus) = 2 + 2 * asked /\ Len(rx) = asked
      /\ \A i \in 1..asked : bus[2 * i + 1] = Recv(rx[i])
      /\ rx \in Seq(Bytes)
  BY <1>4 DEF WireInv, ReadInv, WireTypes
<1>6. PICK n \in Nat : n = asked
  BY <1>5
<1>7. (Len(bus) - 2) \div 2 = n
  <2>1. Len(bus) - 2 = n * 2 + 0
    BY <1>5, <1>6
  <2>2. (Len(bus) - 2) \div 2 = (2 * n) \div 2
    BY <2>1
  <2> QED
    BY <2>2
<1>8. Received = [i \in 1..n |-> bus[2 * i + 1].val]
  BY <1>7 DEF Received
<1>9. \A i \in 1..n : bus[2 * i + 1].val = rx[i]
  BY <1>5, <1>6, EventKinds
<1>10. rx = [i \in 1..n |-> rx[i]]
  BY <1>5, <1>6
<1> QED
  BY <1>4, <1>5, <1>6, <1>8, <1>9, <1>10

(* endTransmission() answers 0 only for a message sent whole, what is sent *)
(* and what is queued are at every moment the message, and requestFrom()   *)
(* returns the bytes of its own transfer, for all sizes of the ring        *)
(* buffers.                                                                *)
THEOREM TransfersAreExact == Spec => TransfersExact
<1>1. WireInv => SentExactly
  BY DEF WireInv, WriteInv, SentExactly, Done
<1>2. WireInv' => [SentExactly']_vars
  BY <1>1, PTL
<1>3. WireInv /\ [Next]_vars => [op = "write" /\ pc = "body" => asked = Sent' \o tx']_vars
  BY SendVanishesNot
<1>4. WireInv /\ [Next]_vars =>
        [(op = "read" /\ pc # "idle" /\ pc' = "idle" /\ result' # 0)
           => result' = asked % UINT8 /\ rx' = Received /\ Len(rx') = asked]_vars
  BY ReceivesAll
<1> QED
  BY <1>2, <1>3, <1>4, InitWireInv, StepWireInv, PTL
  DEF Spec, TransfersExact, NothingVanishes, ReceivedExactly

(* Only the answers 3 and 4 leave the bus held. *)
LEMMA ReturnReleases ==
    ASSUME WireInv, [Next]_vars, pc # "idle", pc' = "idle", held'
    PROVE  op = "write" /\ result' \in {3, 4}
<1>1. ~Quiet /\ ~HwFinish /\ ~UNCHANGED vars /\ ~StopCondition
  BY QuietIs DEF Idle, HwFinish, vars, call, StopCondition
<1>2. CASE Fail
  BY <1>2, FailIs DEF WireInv
<1>3. CASE SendData
  BY <1>3, SendDataIs DEF WireInv
<1> QED
  BY <1>1, <1>2, <1>3 DEF Next, Quiet, Transfer, endTransmission, requestFrom, Idle, StartCondition,
                          SendAddress, Settle, Receive, Acknowledge

(* An address or a byte of data goes on the bus only after the byte before *)
(* it was acknowledged.                                                    *)
LEMMA SendsWhenAcked ==
    ASSUME WireInv, [Next]_vars, Len(bus') > Len(bus), Last(bus').ev \in {"addr", "data"}
    PROVE  ~ackstat /\ ~busy
<1>1. bus' # bus
  <2>1. Len(bus) \in Nat
    BY LenProperties DEF WireInv, WireTypes
  <2> QED
    BY <2>1
<1>2. ASSUME NEW e \in Events, OnBus(e), e.ev \notin {"addr", "data"} PROVE FALSE
  <2>1. Last(bus') = e
    BY <1>2, BusGrows DEF WireInv
  <2> QED
    BY <1>2, <2>1
<1>3. ~Quiet /\ ~HwFinish /\ ~UNCHANGED vars /\ ~Settle
  BY <1>1, QuietIs DEF HwFinish, vars, call, Settle
<1>4. ~StartCondition /\ ~StopCondition /\ ~Acknowledge
  <2>1. ~OnBus(Start) /\ ~OnBus(Stop) /\ ~OnBus(Ack) /\ ~OnBus(Nack)
    BY <1>2, EventsAre, EventKinds
  <2> QED
    BY <2>1 DEF StartCondition, StopCondition, Acknowledge
<1>5. ~Receive
  <2>1. \A b \in Bytes : ~OnBus(Recv(b))
    BY <1>2, EventsAre, EventKinds
  <2> QED
    BY <1>1, <2>1 DEF Receive
<1>6. \A stopBit \in BOOLEAN : ~endTransmission(stopBit)
  <2>1. bus' # <<>>
    BY LenProperties DEF WireInv, WireTypes
  <2> QED
    BY <2>1 DEF endTransmission
<1>7. \A a \in Addrs, size \in 0..(Cap + 1), stopBit \in BOOLEAN : ~requestFrom(a, size, stopBit)
  <2>1. bus' # <<>>
    BY LenProperties DEF WireInv, WireTypes
  <2> QED
    BY <2>1 DEF requestFrom
<1>8. CASE SendAddress \/ SendData
  <2>1. ~SendRefused
    BY <1>1, <1>8 DEF SendAddress, SendNothing, SendData, SendByte
  <2> QED
    BY <2>1 DEF SendRefused, _idle
<1> QED
  BY <1>3, <1>4, <1>5, <1>6, <1>7, <1>8 DEF Next, Quiet, Transfer

(* After errors too, the bus is released but for the answers 3 and 4, and  *)
(* no byte follows one that was not acknowledged.                          *)
THEOREM BusIsDisciplined == Spec => BusDiscipline
<1>1. WireInv /\ [Next]_vars =>
        [(pc # "idle" /\ pc' = "idle" /\ held') => op = "write" /\ result' \in {3, 4}]_vars
  BY ReturnReleases
<1>2. WireInv /\ [Next]_vars =>
        [(Len(bus') > Len(bus) /\ Last(bus').ev \in {"addr", "data"}) => ~ackstat /\ ~busy]_vars
  BY SendsWhenAcked
<1> QED
  BY <1>1, <1>2, InitWireInv, StepWireInv, PTL
  DEF Spec, BusDiscipline, BusReleased, SendsOnlyWhenAcked
=============================================================================
