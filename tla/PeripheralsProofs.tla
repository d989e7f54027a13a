------------------------- MODULE PeripheralsProofs -------------------------
(***************************************************************************)
(* Proofs about the small drivers: the WiFi link for every number of       *)
(* events, the PWM channels for every set of channels and timers' range,   *)
(* the SPI port for every clock and frequency, the core timer for every    *)
(* rate, width and latency, and pulseIn() for every clock; and about the   *)
(* composition of these with the I2C master.                               *)
(***************************************************************************)
EXTENDS MCPeripherals, WireProofs

-----------------------------------------------------------------------------
(* The WiFi link. *)

(* Without a link and its aftermath there is no address and no DHCP, and   *)
(* whoever was told of an address while a task waits has seen one.  Nobody *)
(* is told anything before waiting_task is set.                            *)
WifiInv ==
    /\ WifiTypeOK
    /\ AddressFresh
    /\ dhcp \/ up => link > 0
    /\ dhcp => up \/ closing = "stop"
    /\ ~up /\ closing = "no" => ip = 0
    /\ up => closing = "no"
    /\ closing = "clear" => ~up
    /\ waiting_task /\ ip # 0 => had
    /\ notified => had
    /\ ~once => at = "out"
    /\ ~once \/ at \in {"add", "register"} => ~waiting_task /\ ~notified

LEMMA StepWifiInv == WifiInv /\ [WifiNext]_wifiVars => WifiInv'
<1> SUFFICES ASSUME WifiInv, [WifiNext]_wifiVars PROVE WifiInv'
  OBVIOUS
<1> USE DEF WifiInv, WifiTypeOK, AddressFresh
<1>1. MaxEvents \in Nat
  BY WifiLinkAssumption
<1>2. ASSUME NEW t \in BOOLEAN, WIFI_Init(t) PROVE WifiInv'
  BY <1>2 DEF WIFI_Init
<1>3. CASE NetifInit
  BY <1>3 DEF NetifInit
<1>4. CASE Register
  <2>1. had' \in BOOLEAN /\ (ip # 0 => had')
    BY <1>4, Zenon DEF Register
  <2>2. waiting_task' \in BOOLEAN /\ UNCHANGED <<blocks, notified>>
    BY <1>4 DEF Register
  <2>3. at' \in {"wait", "out"} /\ res' \in {res, "OK"}
    BY <1>4 DEF Register
  <2>4. UNCHANGED <<once, started, up, ip, dhcp, link, closing>> /\ at = "register"
    BY <1>4 DEF Register
  <2> QED
    BY <2>1, <2>2, <2>3, <2>4
<1>5. CASE Notified
  BY <1>5 DEF Notified
<1>6. CASE TimedOut
  BY <1>6 DEF TimedOut
<1>7. CASE Connected
  <2>1. link \in Nat /\ link' = link + 1 /\ link' \in 0..MaxEvents /\ link' > 0
    BY <1>1, <1>7 DEF Connected
  <2>2. ip = 0 /\ notified' = notified
    BY <1>7 DEF Connected, ip_ready_callback
  <2>3. dhcp' \in BOOLEAN
    BY <1>7 DEF Connected
  <2> QED
    BY <1>7, <2>1, <2>2, <2>3 DEF Connected, task
<1>8. CASE Leased
  <2>1. notified' \in BOOLEAN /\ had' = TRUE /\ (notified' => notified \/ waiting_task)
    BY <1>8 DEF Leased, ip_ready_callback
  <2>2. ip' = link /\ ip' \in 0..MaxEvents /\ (up \/ closing = "stop")
    BY <1>8 DEF Leased
  <2> QED
    BY <1>1, <1>8, <2>1, <2>2 DEF Leased, task
<1>9. CASE Disconnected
  <2>1. notified' \in BOOLEAN /\ (notified' => had /\ (notified \/ waiting_task))
    BY <1>9 DEF Disconnected, ip_ready_callback
  <2>2. ip' = ip /\ up' = FALSE /\ dhcp' = dhcp /\ closing' = "stop" /\ up
    BY <1>9 DEF Disconnected
  <2>3. UNCHANGED <<once, at, blocks, res, waiting_task, started, link, had>>
    BY <1>9 DEF Disconnected, task
  <2>4. WifiTypeOK'
    BY <2>1, <2>2, <2>3
  <2> QED
    BY <2>1, <2>2, <2>3, <2>4
<1>10. CASE DhcpStopped
  <2>1. ip' \in 0..MaxEvents /\ (ip' # 0 => ip' = ip)
    BY <1>1, <1>10 DEF DhcpStopped
  <2> QED
    BY <1>10, <2>1 DEF DhcpStopped, task
<1>11. CASE AddressGone
  <2>1. ip' = 0 /\ ip' \in 0..MaxEvents
    BY <1>1, <1>11 DEF AddressGone, AddressCleared
  <2> QED
    BY <1>11, <2>1 DEF AddressGone, task
<1>12. CASE UNCHANGED wifiVars
  BY <1>12 DEF wifiVars, task
<1> QED
  BY <1>2, <1>3, <1>4, <1>5, <1>6, <1>7, <1>8, <1>9, <1>10, <1>11, <1>12 DEF WifiNext

LEMMA InitWifiInv == WifiInit => WifiInv
<1> SUFFICES ASSUME WifiInit PROVE WifiInv
  OBVIOUS
<1>1. ip \in 0..MaxEvents /\ link \in 0..MaxEvents
  BY WifiLinkAssumption DEF WifiInit
<1>2. WifiTypeOK
  BY <1>1 DEF WifiInit, WifiTypeOK
<1> QED
  BY <1>2 DEF WifiInit, WifiInv, AddressFresh

(* The interface's address belongs to the present link, and WIFI_Init()    *)
(* reports success to a waiting task only if there was an address during   *)
(* its wait.                                                               *)
THEOREM WifiAddressIsRight == WifiSpec => AddressRight
<1>1. WifiInv /\ WifiInv' => [AddressFresh']_wifiVars /\ [Notified => had]_wifiVars
  BY DEF WifiInv, Notified
<1> QED
  BY <1>1, InitWifiInv, StepWifiInv, PTL DEF WifiSpec, AddressRight, OkHadAddress

-----------------------------------------------------------------------------
(* The PWM channels. *)

LEMMA PwmConstants ==
    /\ PBCLK \in Nat /\ Period \in Nat \ {0} /\ DefaultHz \in Nat \ {0}
    /\ Frequencies \subseteq Nat /\ Duties \subseteq Int /\ Values \subseteq Nat
<1>1. Values \subseteq Nat
  <2>1. \A n \in Int : 0..n \subseteq Nat
    OBVIOUS
  <2>2. 2^16 - 1 \in Int
    OBVIOUS
  <2>3. 0..(2^16 - 1) \subseteq Nat
    BY <2>1, <2>2, Zenon
  <2> QED
    BY <2>3, PwmAssumption, Zenon
<1> QED
  BY <1>1, PwmAssumption, Zenon

(* The prescaler is the first of the eight that fits, or the last. *)
LEMMA PrescalerIs ==
    ASSUME NEW f \in Nat \ {0}
    PROVE  /\ PWM_prescaler(f) \in 0..7
           /\ \A i \in 0..7 : (PBCLK \div f) \div 2^i < Period
                => (PBCLK \div f) \div 2^PWM_prescaler(f) < Period /\ PWM_prescaler(f) <= i
<1> DEFINE fits == {i \in 0..7 : (PBCLK \div f) \div 2^i < Period}
<1>1. PWM_prescaler(f) = IF fits = {} THEN 7 ELSE Least(fits)
  BY DEF PWM_prescaler
<1>2. CASE fits = {}
  <2>1. PWM_prescaler(f) = 7
    BY <1>1, <1>2
  <2>2. \A i \in 0..7 : ~((PBCLK \div f) \div 2^i < Period)
    BY <1>2
  <2> QED
    BY <2>1, <2>2
<1>3. CASE fits # {}
  <2>1. fits \subseteq Nat /\ \A i \in fits : i \in 0..7 /\ (PBCLK \div f) \div 2^i < Period
    OBVIOUS
  <2>2. \A i \in 0..7 : (PBCLK \div f) \div 2^i < Period => i \in fits
    OBVIOUS
  <2> HIDE DEF fits
  <2>3. \E m \in fits : \A k \in fits : m <= k
    BY <1>3, <2>1, LeastNat
  <2>4. Least(fits) \in fits /\ \A k \in fits : Least(fits) <= k
    BY <2>3 DEF Least
  <2>5. PWM_prescaler(f) = Least(fits)
    BY <1>1, <1>3
  <2> QED
    BY <2>1, <2>2, <2>4, <2>5
<1> QED
  BY <1>2, <1>3

LEMMA PowersOfTwo ==
    /\ 2^0 = 1 /\ 2^1 = 2 /\ 2^2 = 4 /\ 2^3 = 8 /\ 2^4 = 16 /\ 2^5 = 32 /\ 2^6 = 64 /\ 2^7 = 128
    /\ \A i \in 0..7 : 2^i \in Nat \ {0}
<1> DEFINE Power(i) == 2^i
<1>1. /\ Power(0) = 1 /\ Power(1) = 2 /\ Power(2) = 4 /\ Power(3) = 8
      /\ Power(4) = 16 /\ Power(5) = 32 /\ Power(6) = 64 /\ Power(7) = 128
  OBVIOUS
<1> HIDE DEF Power
<1>2. \A i \in 0..7 : Power(i) \in Nat \ {0}
  BY <1>1
<1> QED
  BY <1>1, <1>2 DEF Power

LEMMA PeriodIs ==
    ASSUME NEW f \in Nat \ {0}
    PROVE  PeriodOf(f) \in 0..(Period - 1)
<1> DEFINE n == (PBCLK \div f) \div 2^PWM_prescaler(f)
<1>1. Period \in Nat \ {0} /\ PBCLK \in Nat
  BY PwmConstants
<1>2. PWM_prescaler(f) \in 0..7
  BY PrescalerIs
<1>3. 2^PWM_prescaler(f) \in Nat \ {0}
  BY <1>2, PowersOfTwo
<1>4. n \in Int
  BY <1>1, <1>2, <1>3
<1>5. PeriodOf(f) = n % Period
  BY DEF PeriodOf
<1> HIDE DEF n
<1> QED
  BY <1>1, <1>4, <1>5

(* A duty's compare value lies within the period and near the duty. *)
LEMMA CompareIs ==
    ASSUME NEW pr \in Nat, NEW d \in Int, NEW reg \in Compares(pr, d)
    PROVE  /\ Clamped(d) \in 0..100 /\ reg \in 0..pr
           /\ NearDuty(pr, Clamped(d), reg)
<1>1. Clamped(d) \in 0..100
  BY DEF Clamped
<1>2. PICK q \in 0..100 : q = Clamped(d)
  BY <1>1
<1>3. pr * (100 - q) \in Nat /\ pr * q \in Nat /\ pr * q + pr * (100 - q) = pr * 100
  OBVIOUS
<1>4. PICK z \in Nat : z = pr * q
  BY <1>3
<1>5. z <= pr * 100
  BY <1>3, <1>4
<1>6. z \div 100 \in 0..pr /\ z - 100 * (z \div 100) \in 0..99 /\ z % 100 = z - 100 * (z \div 100)
  BY <1>5
<1>7. reg = z \div 100 \/ (z % 100 = 0 /\ z \div 100 \in 1..(pr - 1) /\ reg = z \div 100 - 1)
  BY <1>2, <1>4 DEF Compares
<1>8. reg \in 0..pr /\ z - 100 * reg \in 0..100
  BY <1>6, <1>7
<1> QED
  BY <1>1, <1>2, <1>4, <1>8 DEF NearDuty

(* A timer that was set has the period and the prescaler of its frequency, *)
(* and the timer of a channel that is on was set.                          *)
TimersSet ==
    /\ hz \in [Timers -> Nat]
    /\ \A t \in Timers : hz[t] # 0 =>
         /\ hz[t] \in Frequencies \cup {DefaultHz}
         /\ PR[t] = PeriodOf(hz[t]) /\ TCKPS[t] = PWM_prescaler(hz[t])
    /\ \A c \in Channels : oc_on[c] => hz[TimerOf(c)] # 0

PwmInv == PwmTypeOK /\ TimersSet /\ DutyHolds

(* The value and the duty that a channel was given belong together. *)
Fits(pr, reg, q) ==
    /\ reg \in 0..pr /\ q \in -1..100
    /\ q >= 0 => NearDuty(pr, q, reg)

LEMMA OpenKeepsPwmInv ==
    ASSUME PwmInv, NEW c \in Channels, ~oc_on[c],
           NEW f \in Frequencies \cup {DefaultHz}, f # 0,
           NEW reg, NEW q, Fits(PeriodOf(f), reg, q),
           PWM_open(c, f, reg), percent' = [percent EXCEPT ![c] = q]
    PROVE  PwmInv'
<1> DEFINE t == TimerOf(c)
<1>1. t \in Timers /\ \A d \in Channels : TimerOf(d) \in Timers
  BY DEF TimerOf, Timers
<1>2. f \in Nat \ {0} /\ PeriodOf(f) \in 0..(Period - 1) /\ PWM_prescaler(f) \in 0..7
  BY PwmConstants, PeriodIs, PrescalerIs
<1>3. /\ PR' = [PR EXCEPT ![t] = PeriodOf(f)]
      /\ TCKPS' = [TCKPS EXCEPT ![t] = PWM_prescaler(f)]
      /\ oc_on' = [oc_on EXCEPT ![c] = TRUE]
      /\ OCxRS' = [OCxRS EXCEPT ![c] = reg]
      /\ hz' = [hz EXCEPT ![t] = f]
      /\ retimed' = IF hz[t] = f THEN retimed
                    ELSE retimed \cup {d \in Channels \ {c} : oc_on[d] /\ TimerOf(d) = t}
  BY DEF PWM_open
<1>4. /\ PR \in [Timers -> 0..(Period - 1)] /\ TCKPS \in [Timers -> 0..7]
      /\ oc_on \in [Channels -> BOOLEAN] /\ OCxRS \in [Channels -> 0..(Period - 1)]
      /\ percent \in [Channels -> -1..100] /\ retimed \subseteq Channels
      /\ Period \in Nat \ {0} /\ hz \in [Timers -> Nat]
  BY PwmConstants DEF PwmInv, PwmTypeOK, TimersSet
<1> HIDE DEF t
<1>5. reg \in 0..(Period - 1) /\ q \in -1..100
  BY <1>2, <1>4 DEF Fits
<1>6. PwmTypeOK'
  <2>1. PR' \in [Timers -> 0..(Period - 1)] /\ TCKPS' \in [Timers -> 0..7]
    BY <1>1, <1>2, <1>3, <1>4
  <2>2. oc_on' \in [Channels -> BOOLEAN]
    BY <1>3, <1>4
  <2>3. OCxRS' \in [Channels -> 0..(Period - 1)] /\ percent' \in [Channels -> -1..100]
    BY <1>3, <1>4, <1>5
  <2>4. retimed' \subseteq Channels
    BY <1>3, <1>4
  <2> QED
    BY <2>1, <2>2, <2>3, <2>4 DEF PwmTypeOK
<1>7. TimersSet'
  <2>1. hz' \in [Timers -> Nat]
    BY <1>1, <1>2, <1>3, <1>4
  <2>2. ASSUME NEW u \in Timers, hz'[u] # 0
        PROVE  /\ hz'[u] \in Frequencies \cup {DefaultHz}
               /\ PR'[u] = PeriodOf(hz'[u]) /\ TCKPS'[u] = PWM_prescaler(hz'[u])
    <3>1. CASE u = t
      BY <1>1, <1>3, <1>4, <3>1
    <3>2. CASE u # t
      BY <1>3, <1>4, <2>2, <3>2 DEF PwmInv, TimersSet
    <3> QED
      BY <3>1, <3>2
  <2>3. ASSUME NEW d \in Channels, oc_on'[d] PROVE hz'[TimerOf(d)] # 0
    <3>1. CASE TimerOf(d) = t
      BY <1>1, <1>2, <1>3, <1>4, <3>1
    <3>2. CASE TimerOf(d) # t
      <4>1. d # c
        BY <3>2 DEF t
      <4>2. oc_on[d] /\ hz'[TimerOf(d)] = hz[TimerOf(d)]
        BY <1>1, <1>3, <1>4, <2>3, <3>2, <4>1
      <4> QED
        BY <4>2 DEF PwmInv, TimersSet
    <3> QED
      BY <3>1, <3>2
  <2> QED
    BY <2>1, <2>2, <2>3 DEF TimersSet
<1>8. DutyHolds'
  <2> SUFFICES ASSUME NEW d \in Channels, oc_on'[d], d \notin retimed'
               PROVE  /\ OCxRS'[d] <= PR'[TimerOf(d)]
                      /\ percent'[d] >= 0 => NearDuty(PR'[TimerOf(d)], percent'[d], OCxRS'[d])
    BY DEF DutyHolds
  <2>1. CASE d = c
    <3>1. OCxRS'[d] = reg /\ percent'[d] = q /\ PR'[TimerOf(d)] = PeriodOf(f)
      BY <1>1, <1>3, <1>4, <2>1 DEF t
    <3> QED
      BY <1>2, <3>1 DEF Fits
  <2>2. CASE d # c
    <3>1. oc_on[d] /\ OCxRS'[d] = OCxRS[d] /\ percent'[d] = percent[d] /\ d \notin retimed
      BY <1>3, <1>4, <2>2
    <3>2. TimerOf(d) = t => hz[t] = f
      BY <1>3, <2>2, <3>1
    <3>3. PR'[TimerOf(d)] = PR[TimerOf(d)]
      <4>1. CASE TimerOf(d) = t
        <5>1. PR[t] = PeriodOf(f)
          BY <1>1, <1>2, <3>2, <4>1 DEF PwmInv, TimersSet
        <5> QED
          BY <1>1, <1>3, <1>4, <4>1, <5>1
      <4>2. CASE TimerOf(d) # t
        BY <1>1, <1>3, <1>4, <4>2
      <4> QED
        BY <4>1, <4>2
    <3> QED
      BY <3>1, <3>3 DEF PwmInv, DutyHolds
  <2> QED
    BY <2>1, <2>2
<1> QED
  BY <1>6, <1>7, <1>8 DEF PwmInv

LEMMA WriteKeepsPwmInv ==
    ASSUME PwmInv, NEW c \in Channels,
           NEW reg, NEW q, Fits(PeriodIfOpened(c), reg, q),
           Write(c, reg), percent' = [percent EXCEPT ![c] = q]
    PROVE  PwmInv'
<1>1. CASE ~oc_on[c]
  <2>1. /\ Fits(PeriodOf(DefaultHz), reg, q) /\ PWM_open(c, DefaultHz, reg)
        /\ DefaultHz # 0
    BY <1>1, PwmConstants DEF PeriodIfOpened, Write
  <2> QED
    BY <1>1, <2>1, OpenKeepsPwmInv
<1>2. CASE oc_on[c]
  <2>1. /\ Fits(PR[TimerOf(c)], reg, q)
        /\ OCxRS' = [OCxRS EXCEPT ![c] = reg] /\ retimed' = retimed \ {c}
        /\ UNCHANGED <<PR, TCKPS, oc_on, hz>>
    BY <1>2 DEF PeriodIfOpened, Write
  <2>2. /\ PR \in [Timers -> 0..(Period - 1)] /\ OCxRS \in [Channels -> 0..(Period - 1)]
        /\ percent \in [Channels -> -1..100] /\ retimed \subseteq Channels
        /\ Period \in Nat \ {0} /\ TimerOf(c) \in Timers
    BY PwmConstants DEF PwmInv, PwmTypeOK, TimerOf, Timers
  <2>3. reg \in 0..(Period - 1) /\ q \in -1..100
    BY <2>1, <2>2 DEF Fits
  <2>4. PwmTypeOK'
    <3>1. OCxRS' \in [Channels -> 0..(Period - 1)] /\ percent' \in [Channels -> -1..100]
      BY <2>1, <2>2, <2>3
    <3> QED
      BY <2>1, <2>2, <3>1 DEF PwmInv, PwmTypeOK
  <2>5. TimersSet'
    BY <2>1 DEF PwmInv, TimersSet
  <2>6. DutyHolds'
    <3> SUFFICES ASSUME NEW d \in Channels, oc_on[d], d \notin retimed'
                 PROVE  /\ OCxRS'[d] <= PR[TimerOf(d)]
                        /\ percent'[d] >= 0 => NearDuty(PR[TimerOf(d)], percent'[d], OCxRS'[d])
      BY <2>1 DEF DutyHolds
    <3>1. CASE d = c
      BY <2>1, <2>2, <3>1 DEF Fits
    <3>2. CASE d # c
      <4>1. OCxRS'[d] = OCxRS[d] /\ percent'[d] = percent[d] /\ d \notin retimed
        BY <2>1, <2>2, <3>2
      <4> QED
        BY <4>1 DEF PwmInv, DutyHolds
    <3> QED
      BY <3>1, <3>2
  <2> QED
    BY <2>4, <2>5, <2>6 DEF PwmInv
<1> QED
  BY <1>1, <1>2

LEMMA StepPwmInv == PwmInv /\ [PwmNext]_pwmVars => PwmInv'
<1> SUFFICES ASSUME PwmInv, [PwmNext]_pwmVars PROVE PwmInv'
  OBVIOUS
<1>1. ASSUME NEW pr \in Nat, NEW d \in Int, NEW reg \in Compares(pr, d)
      PROVE  Fits(pr, reg, Clamped(d))
  BY <1>1, CompareIs DEF Fits
<1>2. \A c \in Channels : PeriodIfOpened(c) \in Nat
  <2> SUFFICES ASSUME NEW c \in Channels PROVE PeriodIfOpened(c) \in Nat
    OBVIOUS
  <2>1. PR[TimerOf(c)] \in Nat
    BY PwmConstants DEF PwmInv, PwmTypeOK, TimerOf, Timers
  <2>2. PeriodOf(DefaultHz) \in Nat
    BY PwmConstants, PeriodIs
  <2> QED
    BY <2>1, <2>2 DEF PeriodIfOpened
<1>3. Duties \cup {-1} \subseteq Int /\ Values \subseteq Nat
  BY PwmConstants
<1>4. ASSUME NEW c \in Channels, NEW f \in Frequencies, NEW d \in Duties \cup {-1}, PWM_Begin(c, f, d)
      PROVE  PwmInv'
  <2>1. f \in Nat \ {0} /\ ~oc_on[c]
    BY <1>4, PwmConstants DEF PWM_Begin
  <2>2. PeriodOf(f) \in Nat
    BY <2>1, PwmConstants, PeriodIs
  <2>3. PICK reg \in Compares(PeriodOf(f), d) : PWM_open(c, f, reg)
    BY <1>4 DEF PWM_Begin
  <2>4. Fits(PeriodOf(f), reg, Clamped(d))
    BY <1>1, <1>3, <2>2
  <2> QED
    BY <1>4, <2>1, <2>3, <2>4, OpenKeepsPwmInv DEF PWM_Begin
<1>5. ASSUME NEW c \in Channels, NEW d \in Duties \cup {-1}, PWM_writeDuty(c, d) PROVE PwmInv'
  <2>1. PICK reg \in Compares(PeriodIfOpened(c), d) : Write(c, reg)
    BY <1>5 DEF PWM_writeDuty
  <2>2. Fits(PeriodIfOpened(c), reg, Clamped(d))
    BY <1>1, <1>2, <1>3
  <2> QED
    BY <1>5, <2>1, <2>2, WriteKeepsPwmInv DEF PWM_writeDuty
<1>6. ASSUME NEW c \in Channels, NEW v \in Values, PWM_writeValule(c, v) PROVE PwmInv'
  <2> DEFINE reg == IF v > PeriodIfOpened(c) THEN PeriodIfOpened(c) ELSE v
  <2>1. reg \in 0..PeriodIfOpened(c)
    BY <1>2, <1>3
  <2>2. Fits(PeriodIfOpened(c), reg, -1)
    BY <2>1 DEF Fits
  <2>3. Write(c, reg) /\ percent' = [percent EXCEPT ![c] = -1]
    BY <1>6 DEF PWM_writeValule
  <2> HIDE DEF reg
  <2> QED
    BY <2>2, <2>3, WriteKeepsPwmInv
<1>7. CASE UNCHANGED pwmVars
  BY <1>7 DEF pwmVars, PwmInv, PwmTypeOK, TimersSet, DutyHolds
<1> QED
  BY <1>4, <1>5, <1>6, <1>7 DEF PwmNext

LEMMA InitPwmInv == PwmInit => PwmInv
<1> SUFFICES ASSUME PwmInit PROVE PwmInv
  OBVIOUS
<1>1. Period \in Nat \ {0}
  BY PwmConstants
<1>2. PR \in [Timers -> 0..(Period - 1)] /\ OCxRS \in [Channels -> 0..(Period - 1)]
  BY <1>1 DEF PwmInit
<1>3. TCKPS \in [Timers -> 0..7] /\ percent \in [Channels -> -1..100] /\ hz \in [Timers -> Nat]
  BY DEF PwmInit
<1>4. oc_on \in [Channels -> BOOLEAN] /\ retimed \subseteq Channels
  BY DEF PwmInit
<1>5. PwmTypeOK
  BY <1>2, <1>3, <1>4 DEF PwmTypeOK
<1>6. (\A c \in Channels : ~oc_on[c]) /\ (\A t \in Timers : hz[t] = 0)
  BY DEF PwmInit
<1> QED
  BY <1>3, <1>5, <1>6 DEF PwmInv, TimersSet, DutyHolds

(* The prescaler and the period divide the clock down to the frequency. *)
LEMMA DivisionIsNear ==
    ASSUME NEW B \in Nat, NEW f \in Nat \ {0}, NEW D \in Nat \ {0}, NEW pr,
           pr = (B \div f) \div D
    PROVE  pr * D * f <= B /\ B <= (pr + 2) * D * f
<1>1. PICK q \in Nat : q = B \div f /\ q * f <= B /\ B < q * f + f
  <2>1. B \div f \in Nat /\ (B \div f) * f + (B % f) = B /\ B % f \in 0..(f - 1)
    OBVIOUS
  <2> QED
    BY <2>1
<1>2. pr \in Nat /\ pr * D <= q /\ q < pr * D + D
  <2>1. q \div D \in Nat /\ (q \div D) * D + (q % D) = q /\ q % D \in 0..(D - 1)
    OBVIOUS
  <2>2. pr = q \div D
    BY <1>1
  <2>3. pr \in Nat /\ pr * D + (q % D) = q
    BY <2>1, <2>2
  <2>4. PICK x \in Nat : x = pr * D
    BY <2>3
  <2> QED
    BY <2>1, <2>3, <2>4
<1>3. PICK a \in Nat : q = pr * D + a
  BY <1>1, <1>2
<1>4. PICK b \in Nat : pr * D + D = q + 1 + b
  <2>1. PICK x \in Nat : x = pr * D
    BY <1>2
  <2>2. x + D = q + 1 + (x + D - q - 1) /\ x + D - q - 1 \in Nat
    BY <1>1, <1>2, <2>1
  <2> QED
    BY <2>1, <2>2
<1>5. pr * D * f + a * f = q * f /\ a * f >= 0
  BY <1>2, <1>3
<1>6. (pr + 1) * D * f = q * f + f + b * f /\ b * f >= 0 /\ D * f >= 0
  <2>1. (pr + 1) * D = q + 1 + b
    BY <1>2, <1>4
  <2>2. (q + 1 + b) * f = q * f + f + b * f
    BY <1>1
  <2> QED
    BY <1>2, <2>1, <2>2
<1>7. (pr + 2) * D * f = (pr + 1) * D * f + D * f
  BY <1>2
<1>8. PICK x \in Int : x = q * f
  BY <1>1
<1>9. PICK y \in Nat : y = b * f
  BY <1>4
<1>10. PICK z \in Nat : z = D * f
  OBVIOUS
<1>11. PICK w \in Nat : w = a * f
  BY <1>3
<1>12. pr * D * f \in Int /\ (pr + 1) * D * f \in Int /\ (pr + 2) * D * f \in Int
  BY <1>2
<1>13. pr * D * f <= B
  BY <1>1, <1>5, <1>8, <1>11, <1>12
<1>14. B <= (pr + 1) * D * f
  BY <1>1, <1>6, <1>8, <1>9, <1>12
<1> QED
  BY <1>7, <1>10, <1>12, <1>13, <1>14

(* No frequency is so low that it needs the last prescaler, 1:256, which   *)
(* the code takes for 1:128.                                               *)
NoneNeedsTheLast == \A f \in Frequencies \cup {DefaultHz} : f # 0 => (PBCLK \div f) \div 2^6 < Period

(* However channels that share a timer are opened and written, each keeps  *)
(* the duty asked of it until another one changes the frequency, its       *)
(* compare value stays within the period, and a timer that was set counts  *)
(* down to the frequency asked for.                                        *)
THEOREM OutputIsRight ==
    ASSUME NoneNeedsTheLast
    PROVE  PwmSpec => []OutputRight
<1>1. PwmInv => OutputRight
  <2> SUFFICES ASSUME PwmInv, NEW t \in Timers, hz[t] # 0
               PROVE  /\ PR[t] * Division(TCKPS[t]) * hz[t] <= PBCLK
                      /\ PBCLK <= (PR[t] + 2) * Division(TCKPS[t]) * hz[t]
    BY DEF PwmInv, OutputRight, FrequencyNear
  <2>1. PICK f \in Nat \ {0} : f = hz[t] /\ f \in Frequencies \cup {DefaultHz}
    BY PwmConstants DEF PwmInv, TimersSet
  <2>2. PR[t] = PeriodOf(f) /\ TCKPS[t] = PWM_prescaler(f)
    BY <2>1 DEF PwmInv, TimersSet
  <2> DEFINE i == PWM_prescaler(f)
             D == 2^i
  <2>3. i \in 0..6 /\ (PBCLK \div f) \div D < Period
    <3>1. 6 \in 0..7 /\ (PBCLK \div f) \div 2^6 < Period
      BY <2>1 DEF NoneNeedsTheLast
    <3>2. i \in 0..7 /\ i <= 6 /\ (PBCLK \div f) \div 2^i < Period
      BY <3>1, <2>1, PrescalerIs, Zenon
    <3> HIDE DEF i
    <3>3. i \in 0..6
      BY <3>2
    <3> QED
      BY <3>2, <3>3
  <2>4. D \in Nat \ {0}
    <3> HIDE DEF i
    <3>1. i \in 0..7
      BY <2>3
    <3> QED
      BY <3>1, PowersOfTwo, Zenon
  <2>5. Division(TCKPS[t]) = D
    <3>1. i # 7
      <4> HIDE DEF i
      <4> QED
        BY <2>3
    <3> QED
      BY <2>2, <3>1 DEF Division
  <2>6. PICK n \in Nat : n = (PBCLK \div f) \div D /\ n < Period
    <3> HIDE DEF D
    <3> QED
      BY <2>1, <2>3, <2>4, PwmConstants
  <2>7. PR[t] = n
    <3>1. PeriodOf(f) = n % Period
      BY <2>6 DEF PeriodOf
    <3> HIDE DEF D
    <3> QED
      BY <2>2, <2>6, <3>1, PwmConstants
  <2> HIDE DEF D, i
  <2>8. n * D * f <= PBCLK /\ PBCLK <= (n + 2) * D * f
    BY <2>4, <2>6, DivisionIsNear, PwmConstants
  <2> QED
    BY <2>1, <2>5, <2>7, <2>8
<1>2. PwmInv /\ [PwmNext]_pwmVars => PwmInv'
  BY StepPwmInv
<1> QED
  BY <1>1, <1>2, InitPwmInv, PTL DEF PwmSpec

-----------------------------------------------------------------------------
(* The SPI port. *)

(* reverseByte() turns a byte around. *)
LEMMA ReverseIs ==
    ASSUME NEW b, NEW i \in 0..7
    PROVE  reverseByte(b)[i] = b[7 - i]
<1> DEFINE Other(k, j) == IF (j \div k) % 2 = 0 THEN j + k ELSE j - k
<1>1. ASSUME NEW f, NEW k, NEW j \in 0..7 PROVE Swap(f, k)[j] = f[Other(k, j)]
  BY DEF Swap
<1>2. Other(1, i) \in 0..7
  OBVIOUS
<1>3. Other(2, Other(1, i)) \in 0..7
  OBVIOUS
<1>4. Other(4, Other(2, Other(1, i))) = 7 - i
  OBVIOUS
<1> HIDE DEF Other
<1> QED
  <2>1. reverseByte(b)[i] = Swap(Swap(b, 4), 2)[Other(1, i)]
    BY <1>1 DEF reverseByte
  <2>2. Swap(Swap(b, 4), 2)[Other(1, i)] = Swap(b, 4)[Other(2, Other(1, i))]
    BY <1>1, <1>2
  <2>3. Swap(b, 4)[Other(2, Other(1, i))] = b[Other(4, Other(2, Other(1, i)))]
    BY <1>1, <1>3
  <2> QED
    BY <1>4, <2>1, <2>2, <2>3

(* The eight bits on the wire. *)
IsByte(s, n, o) ==
    /\ s \in Seq({0, 1}) /\ Len(s) = 8
    /\ \A i \in 1..8 : s[i] = Bits(n)[IF o = "LSBFIRST" THEN i - 1 ELSE 8 - i]

LEMMA TransferredIs ==
    ASSUME NEW n \in Nat
    PROVE  IsByte(transferred(n), n, bit_order)
<1> DEFINE b == IF bit_order = "LSBFIRST" THEN reverseByte(Bits(n)) ELSE Bits(n)
<1>1. ASSUME NEW i \in 0..7 PROVE Bits(n)[i] \in {0, 1}
  <2>1. 2^i \in Nat \ {0}
    BY PowersOfTwo
  <2>2. PICK D \in Nat \ {0} : D = 2^i
    BY <2>1
  <2>3. (n \div D) % 2 \in {0, 1}
    OBVIOUS
  <2> QED
    BY <2>2, <2>3 DEF Bits
<1>2. ASSUME NEW i \in 0..7 PROVE b[i] = Bits(n)[IF bit_order = "LSBFIRST" THEN 7 - i ELSE i]
  BY ReverseIs
<1>3. transferred(n) = [i \in 1..8 |-> b[8 - i]]
  BY DEF transferred, Shifted
<1> HIDE DEF b
<1>4. ASSUME NEW i \in 1..8
      PROVE  /\ transferred(n)[i] = Bits(n)[IF bit_order = "LSBFIRST" THEN i - 1 ELSE 8 - i]
             /\ transferred(n)[i] \in {0, 1}
  <2>1. 8 - i \in 0..7 /\ 7 - (8 - i) = i - 1 /\ i - 1 \in 0..7
    OBVIOUS
  <2>2. transferred(n)[i] = b[8 - i]
    BY <1>3
  <2>3. transferred(n)[i] = Bits(n)[IF bit_order = "LSBFIRST" THEN i - 1 ELSE 8 - i]
    BY <1>2, <2>1, <2>2
  <2> QED
    BY <1>1, <2>1, <2>3
<1>5. transferred(n) \in [1..8 -> {0, 1}]
  BY <1>3, <1>4
<1>6. transferred(n) \in Seq({0, 1}) /\ Len(transferred(n)) = 8
  BY <1>5, FunctionIsSeq
<1> QED
  BY <1>4, <1>6 DEF IsByte

(* A bit of the low byte is that bit of the word. *)
LEMMA LowBit ==
    ASSUME NEW w \in Nat, NEW D \in Nat \ {0}, NEW E \in Nat, 256 = 2 * (E * D)
    PROVE  ((w % 256) \div D) % 2 = (w \div D) % 2
<1>1. PICK q \in Nat, r \in Nat : w = 256 * q + r /\ w % 256 = r
  <2>1. w \div 256 \in Nat /\ w % 256 \in 0..255 /\ w = 256 * (w \div 256) + (w % 256)
    OBVIOUS
  <2> QED
    BY <2>1
<1>2. PICK a \in Nat, b \in 0..(D - 1) : a = r \div D /\ r = a * D + b
  <2>1. r \div D \in Nat /\ r % D \in 0..(D - 1) /\ r = (r \div D) * D + (r % D)
    OBVIOUS
  <2> QED
    BY <2>1
<1>3. PICK m \in Nat : m = E * q
  OBVIOUS
<1>4. 256 * q = 2 * (m * D)
  <2>1. 2 * (E * D) * q = 2 * (E * q * D)
    OBVIOUS
  <2> QED
    BY <1>3, <2>1
<1>5. w = (2 * m + a) * D + b
  <2>1. (2 * m + a) * D = 2 * (m * D) + a * D /\ m * D \in Nat /\ a * D \in Nat
    OBVIOUS
  <2> QED
    BY <1>1, <1>2, <1>4, <2>1
<1>6. w \div D = 2 * m + a
  BY <1>5, QuotientIs
<1>7. (2 * m + a) % 2 = a % 2
  OBVIOUS
<1> QED
  BY <1>1, <1>2, <1>6, <1>7

(* A bit of the high byte is a bit of the word, eight places up. *)
LEMMA HighBit ==
    ASSUME NEW w \in Nat, NEW D \in Nat \ {0}
    PROVE  (w \div 256) \div D = w \div (256 * D)
<1>1. PICK q \in Nat, r \in 0..255 : w = 256 * q + r /\ w \div 256 = q
  <2>1. w \div 256 \in Nat /\ w % 256 \in 0..255 /\ w = 256 * (w \div 256) + (w % 256)
    OBVIOUS
  <2> QED
    BY <2>1
<1>2. PICK a \in Nat, b \in 0..(D - 1) : a = q \div D /\ q = a * D + b
  <2>1. q \div D \in Nat /\ q % D \in 0..(D - 1) /\ q = (q \div D) * D + (q % D)
    OBVIOUS
  <2> QED
    BY <2>1
<1>3. 256 * D \in Nat \ {0} /\ 256 * b + r \in 0..(256 * D - 1)
  OBVIOUS
<1>4. w = a * (256 * D) + (256 * b + r)
  <2>1. a * (256 * D) = 256 * (a * D) /\ a * D \in Nat
    OBVIOUS
  <2> QED
    BY <1>1, <1>2, <2>1
<1>5. w \div (256 * D) = a
  <2> DEFINE F == 256 * D
             c == 256 * b + r
  <2>1. F \in Nat \ {0} /\ c \in 0..(F - 1) /\ w = a * F + c
    BY <1>3, <1>4
  <2> HIDE DEF F, c
  <2>2. w \div F = a
    BY <2>1, QuotientIs
  <2> QED
    BY <2>2 DEF F
<1> QED
  BY <1>1, <1>2, <1>5

LEMMA BytePowers ==
    ASSUME NEW i \in 0..7
    PROVE  2^i \in Nat \ {0} /\ 256 = 2 * (2^(7 - i) * 2^i) /\ 2^(7 - i) \in Nat /\ 2^(i + 8) = 256 * 2^i
<1> DEFINE Good(j) == /\ 2^j \in Nat \ {0} /\ 2^(7 - j) \in Nat
                      /\ 256 = 2 * (2^(7 - j) * 2^j) /\ 2^(j + 8) = 256 * 2^j
<1>1. Good(0) /\ Good(1) /\ Good(2) /\ Good(3) /\ Good(4) /\ Good(5) /\ Good(6) /\ Good(7)
  OBVIOUS
<1> HIDE DEF Good
<1>2. Good(i)
  BY <1>1
<1> QED
  BY <1>2 DEF Good

(* The bits of a word are the bits of its bytes. *)
BitsAgree(w, i) ==
    /\ (w \div 2^i) % 2 = Bits(w % 256)[i]
    /\ (w \div 2^(i + 8)) % 2 = Bits(w \div 256)[i]

LEMMA BitsOfWord ==
    ASSUME NEW w \in Nat, NEW i \in 0..7
    PROVE  BitsAgree(w, i)
<1> DEFINE D == 2^i
           E == 2^(7 - i)
<1>1. D \in Nat \ {0} /\ 256 = 2 * (E * D) /\ E \in Nat /\ 2^(i + 8) = 256 * D
  BY BytePowers
<1>2. Bits(w % 256)[i] = ((w % 256) \div D) % 2 /\ Bits(w \div 256)[i] = ((w \div 256) \div D) % 2
  BY DEF Bits
<1> HIDE DEF D, E
<1>3. ((w % 256) \div D) % 2 = (w \div D) % 2
  BY <1>1, LowBit
<1>4. (w \div 256) \div D = w \div (256 * D)
  <2>1. \A F \in Nat \ {0} : (w \div 256) \div F = w \div (256 * F)
    BY HighBit
  <2>2. D \in Nat \ {0}
    BY <1>1
  <2> QED
    BY <2>1, <2>2, Zenon
<1>5. (w \div 2^(i + 8)) % 2 = Bits(w \div 256)[i]
  BY <1>1, <1>2, <1>4
<1>6. (w \div D) % 2 = Bits(w % 256)[i]
  BY <1>2, <1>3
<1> QED
  BY <1>5, <1>6, Zenon DEF D, BitsAgree

(* Sending a word sends its bits in the order asked for. *)
LEMMA WordOnWire ==
    ASSUME NEW w \in Nat, transfer16(w)
    PROVE  /\ wire' \in [1..16 -> {0, 1}]
           /\ \A i \in 0..15 : (w \div 2^i) % 2 =
                wire'[IF bit_order = "LSBFIRST" THEN i + 1 ELSE 16 - i]
<1> DEFINE msb == transferred(w \div 256)
           lsb == transferred(w % 256)
           lsbFirst == bit_order = "LSBFIRST"
<1>1. wire' = IF lsbFirst THEN lsb \o msb ELSE msb \o lsb
  BY DEF transfer16
<1>2. w \div 256 \in Nat /\ w % 256 \in Nat
  OBVIOUS
<1>3. IsByte(msb, w \div 256, bit_order) /\ IsByte(lsb, w % 256, bit_order)
  BY <1>2, TransferredIs
<1> HIDE DEF msb, lsb
<1>4. msb \in Seq({0, 1}) /\ Len(msb) = 8 /\ lsb \in Seq({0, 1}) /\ Len(lsb) = 8
  BY <1>3 DEF IsByte
<1>5. IsConcat({0, 1}, lsb, msb) /\ IsConcat({0, 1}, msb, lsb)
  BY <1>4, ConcatIs
<1>6. wire' \in Seq({0, 1}) /\ Len(wire') = 16
  BY <1>1, <1>4, <1>5 DEF IsConcat
<1>7. wire' \in [1..16 -> {0, 1}]
  BY <1>6, LenProperties
<1>8. ASSUME NEW i \in 0..7
      PROVE  /\ (w \div 2^i) % 2 = wire'[IF lsbFirst THEN i + 1 ELSE 16 - i]
             /\ (w \div 2^(i + 8)) % 2 = wire'[IF lsbFirst THEN i + 9 ELSE 8 - i]
  <2>1. /\ (w \div 2^i) % 2 = Bits(w % 256)[i]
        /\ (w \div 2^(i + 8)) % 2 = Bits(w \div 256)[i]
    <3>1. BitsAgree(w, i)
      BY BitsOfWord, Zenon
    <3> QED
      BY <3>1, Zenon DEF BitsAgree
  <2>2. CASE lsbFirst
    <3>1. i + 1 \in 1..8 /\ (i + 1) - 1 = i /\ 8 + (i + 1) = i + 9
      OBVIOUS
    <3>2. wire'[i + 1] = lsb[i + 1] /\ wire'[i + 9] = msb[i + 1]
      BY <1>1, <1>4, <1>5, <2>2, <3>1 DEF IsConcat
    <3>3. lsb[i + 1] = Bits(w % 256)[i] /\ msb[i + 1] = Bits(w \div 256)[i]
      BY <1>3, <2>2, <3>1 DEF IsByte
    <3> QED
      BY <2>1, <2>2, <3>2, <3>3
  <2>3. CASE ~lsbFirst
    <3>1. PICK k \in 1..8 : 8 - i = k /\ 8 - k = i /\ 16 - i = 8 + k
      OBVIOUS
    <3>2. wire'[k] = msb[k] /\ wire'[8 + k] = lsb[k]
      BY <1>1, <1>4, <1>5, <2>3, <3>1 DEF IsConcat
    <3>3. lsb[k] = Bits(w % 256)[i] /\ msb[k] = Bits(w \div 256)[i]
      BY <1>3, <2>3, <3>1 DEF IsByte
    <3> QED
      BY <2>1, <2>3, <3>1, <3>2, <3>3
  <2> QED
    BY <2>2, <2>3
<1> DEFINE Bit(k) == (w \div 2^k) % 2
           At(k) == IF lsbFirst THEN k + 1 ELSE 16 - k
<1>9. ASSUME NEW i \in 0..15
      PROVE  Bit(i) = wire'[At(i)]
  <2>1. CASE i \in 0..7
    BY <1>8, <2>1, Zenon
  <2>2. CASE i \notin 0..7
    <3>1. PICK j \in 0..7 : i = j + 8
      BY <2>2
    <3>2. At(j + 8) = IF lsbFirst THEN j + 9 ELSE 8 - j
      BY <3>1
    <3>3. Bit(j + 8) = wire'[At(j + 8)]
      BY <1>8, <3>2, Zenon
    <3> QED
      BY <3>1, <3>3, Zenon
  <2> QED
    BY <2>1, <2>2
<1>10. \A i \in 0..15 : Bit(i) = wire'[At(i)]
  BY <1>9
<1> QED
  BY <1>7, <1>10, Zenon

LEMMA RowsAre ==
    ASSUME NEW w \in Nat
    PROVE  Rows(w) \in [1..16 -> {0, 1}]
<1>1. ASSUME NEW k \in 0..15 PROVE (w \div 2^k) % 2 \in {0, 1}
  <2>1. 2^k \in Nat \ {0}
    <3>1. CASE k \in 0..7
      BY <3>1, PowersOfTwo
    <3>2. CASE k \notin 0..7
      <4>1. PICK j \in 0..7 : k = j + 8
        BY <3>2
      <4>2. 2^(j + 8) \in Nat \ {0}
        <5>1. 2^j \in Nat \ {0} /\ 2^(j + 8) = 256 * 2^j
          BY BytePowers
        <5>2. PICK D \in Nat \ {0} : D = 2^j
          BY <5>1
        <5>3. 256 * D \in Nat \ {0}
          OBVIOUS
        <5> QED
          BY <5>1, <5>2, <5>3, Zenon
      <4> QED
        BY <4>1, <4>2, Zenon
    <3> QED
      BY <3>1, <3>2
  <2>2. PICK D \in Nat \ {0} : D = 2^k
    BY <2>1
  <2>3. (w \div D) % 2 \in {0, 1}
    OBVIOUS
  <2> QED
    BY <2>2, <2>3, Zenon
<1>2. \A i \in 1..16 : 16 - i \in 0..15
  OBVIOUS
<1> QED
  BY <1>1, <1>2, Zenon DEF Rows

SpiInv == SpiTypeOK /\ RemembersRegisters

LEMMA SpiConstants ==
    /\ SPICLK \in Nat \ {0} /\ BRGS \in Nat \ {0} /\ BeginHz \in Hz
    /\ Hz \subseteq Nat \ {0} /\ Words \subseteq Nat
<1>1. \A n \in Int : 0..n \subseteq Nat
  OBVIOUS
<1>2. 2^16 - 1 \in Int
  OBVIOUS
<1>3. 0..(2^16 - 1) \subseteq Nat
  BY <1>1, <1>2, Zenon
<1> QED
  BY <1>3, SpiAssumption, Zenon

LEMMA FrequencyKeepsSpiInv ==
    ASSUME SpiInv, NEW h \in Hz, settingFrequency(h)
    PROVE  /\ brg' \in 0..(BRGS - 1) /\ brg_hz' \in Hz \cup {Unset} /\ divided' \in BOOLEAN
           /\ (brg_hz' # Unset /\ ~divided') => brg' = Divisor(brg_hz')
<1>1. Divisor(h) \in 0..(BRGS - 1)
  <2>1. PICK q \in Int : q = ((SPICLK \div h) \div 2) - 1
    BY SpiConstants
  <2>2. q % BRGS \in 0..(BRGS - 1)
    BY SpiConstants
  <2> QED
    BY <2>1, <2>2 DEF Divisor
<1>2. CASE brg_hz # h
  <2>1. brg_hz' = h /\ brg' = Divisor(h) /\ divided' = FALSE
    BY <1>2 DEF settingFrequency
  <2>2. divided' \in BOOLEAN
    BY <2>1, Zenon
  <2> QED
    BY <1>1, <2>1, <2>2
<1>3. CASE brg_hz = h
  <2>1. UNCHANGED <<brg_hz, brg, divided>>
    BY <1>3 DEF settingFrequency
  <2> QED
    BY <2>1 DEF SpiInv, SpiTypeOK, RemembersRegisters
<1> QED
  BY <1>2, <1>3

LEMMA StepSpiInv == SpiInv /\ [SpiNext]_spiVars => SpiInv'
<1> SUFFICES ASSUME SpiInv, [SpiNext]_spiVars PROVE SpiInv'
  OBVIOUS
<1>1. SpiTypeOK /\ RemembersRegisters
  BY DEF SpiInv
<1>2. ASSUME NEW h \in Hz, NEW o \in Orders, beginTransaction(h, o) PROVE SpiInv'
  <2>1. settingFrequency(h) /\ bit_order' = o /\ UNCHANGED <<spi_on, width, bit_size, wire, ended>>
    BY <1>2 DEF beginTransaction, settingBitOrder
  <2>2. /\ brg' \in 0..(BRGS - 1) /\ brg_hz' \in Hz \cup {Unset} /\ divided' \in BOOLEAN
        /\ (brg_hz' # Unset /\ ~divided') => brg' = Divisor(brg_hz')
    BY <2>1, FrequencyKeepsSpiInv
  <2> QED
    BY <1>1, <2>1, <2>2 DEF SpiInv, SpiTypeOK, RemembersRegisters
<1>3. CASE SPI_begin
  <2>1. /\ settingFrequency(BeginHz) /\ bit_order' = "MSBFIRST" /\ spi_on' = TRUE /\ width' = 8
        /\ ended' = TRUE /\ UNCHANGED <<bit_size, wire>>
    BY <1>3 DEF SPI_begin, settingBitOrder
  <2>2. /\ brg' \in 0..(BRGS - 1) /\ brg_hz' \in Hz \cup {Unset} /\ divided' \in BOOLEAN
        /\ (brg_hz' # Unset /\ ~divided') => brg' = Divisor(brg_hz')
    BY <2>1, SpiConstants, FrequencyKeepsSpiInv
  <2>3. spi_on' \in BOOLEAN /\ ended' \in BOOLEAN /\ bit_order' \in Orders
    BY <2>1, Zenon DEF Orders
  <2> QED
    BY <1>1, <2>1, <2>2, <2>3 DEF SpiInv, SpiTypeOK, RemembersRegisters
<1>4. CASE SPI_end
  <2>1. /\ spi_on' = FALSE /\ width' = 8 /\ ended' = TRUE
        /\ UNCHANGED <<brg, brg_hz, bit_order, bit_size, wire, divided>>
    BY <1>4 DEF SPI_end, caches
  <2>2. spi_on' \in BOOLEAN /\ ended' \in BOOLEAN
    BY <2>1, Zenon
  <2> QED
    BY <1>1, <2>1, <2>2 DEF SpiInv, SpiTypeOK, RemembersRegisters
<1>5. ASSUME NEW d \in 0..(BRGS - 1), setClockDivider(d) PROVE SpiInv'
  <2>1. /\ brg' = d /\ divided' = TRUE
        /\ UNCHANGED <<spi_on, width, brg_hz, bit_order, bit_size, wire, ended>>
    BY <1>5 DEF setClockDivider, con, caches
  <2>2. divided' \in BOOLEAN
    BY <2>1, Zenon
  <2> QED
    BY <1>1, <2>1, <2>2 DEF SpiInv, SpiTypeOK, RemembersRegisters
<1>6. ASSUME NEW size \in {8, 16, 32}, setBitSize(size) PROVE SpiInv'
  <2>1. /\ bit_size' = size /\ width' = size /\ ended' = FALSE
        /\ UNCHANGED <<spi_on, brg, brg_hz, bit_order, wire, divided>>
    BY <1>6 DEF setBitSize, WidthSet
  <2>2. ended' \in BOOLEAN
    BY <2>1, Zenon
  <2> QED
    BY <1>1, <2>1, <2>2 DEF SpiInv, SpiTypeOK, RemembersRegisters
<1>7. ASSUME NEW w \in Words, transfer16(w) \/ fillColor(w) PROVE SpiInv'
  <2>1. UNCHANGED <<spi_on, width, brg, brg_hz, bit_order, bit_size, divided, ended>>
    BY <1>7 DEF transfer16, fillColor, con, caches
  <2>2. wire' \in [1..16 -> {0, 1}]
    <3>1. w \in Nat
      BY SpiConstants
    <3>2. CASE transfer16(w)
      BY <3>1, <3>2, WordOnWire, Zenon
    <3>3. CASE fillColor(w)
      BY <3>1, <3>3, RowsAre, Zenon DEF fillColor
    <3> QED
      BY <1>7, <3>2, <3>3
  <2> QED
    BY <1>1, <2>1, <2>2 DEF SpiInv, SpiTypeOK, RemembersRegisters
<1>8. CASE UNCHANGED spiVars
  BY <1>1, <1>8 DEF spiVars, con, caches, SpiInv, SpiTypeOK, RemembersRegisters
<1> QED
  BY <1>2, <1>3, <1>4, <1>5, <1>6, <1>7, <1>8 DEF SpiNext

LEMMA InitSpiInv == SpiInit => SpiInv
<1> SUFFICES ASSUME SpiInit PROVE SpiInv
  OBVIOUS
<1>1. brg \in 0..(BRGS - 1)
  BY SpiConstants DEF SpiInit
<1>2. spi_on \in BOOLEAN /\ divided \in BOOLEAN /\ ended \in BOOLEAN
  BY Zenon DEF SpiInit
<1> QED
  BY <1>1, <1>2 DEF SpiInit, SpiInv, SpiTypeOK, RemembersRegisters, Unset

(* No frequency is so low that its divider exceeds the register. *)
DividersFit == \A h \in Hz : (SPICLK \div h) \div 2 <= BRGS

(* After any calls, what the class remembers is what the port does: width, *)
(* clock, and the order of the bits of every word.                         *)
THEOREM PortIsAsAsked ==
    ASSUME DividersFit
    PROVE  SpiSpec => PortAsAsked
<1>1. SpiInv => RemembersRegisters /\ ClockNearAsked
  <2> SUFFICES ASSUME SpiInv, brg_hz # Unset, ~divided, brg_hz <= SPICLK \div 2
               PROVE  /\ SPICLK >= 2 * (brg + 1) * brg_hz
                      /\ SPICLK < 4 * (brg + 1) * brg_hz
    BY DEF SpiInv, ClockNearAsked
  <2>1. PICK h \in Nat \ {0} : h = brg_hz /\ h \in Hz /\ brg = Divisor(h)
    BY SpiConstants DEF SpiInv, SpiTypeOK, RemembersRegisters
  <2>2. PICK n \in Nat \ {0} : n = SPICLK
    BY SpiConstants
  <2>3. PICK q \in Nat, a \in 0..(h - 1) : q = n \div h /\ n = q * h + a
    <3>1. n \div h \in Nat /\ n % h \in 0..(h - 1) /\ n = (n \div h) * h + (n % h)
      OBVIOUS
    <3> QED
      BY <3>1
  <2>4. q >= 2
    <3> SUFFICES ASSUME q < 2 PROVE FALSE
      BY <2>3
    <3>1. 2 * h <= n
      BY <2>1, <2>2
    <3>2. q = 0 \/ q = 1
      BY <2>3
    <3>3. CASE q = 0
      BY <2>3, <3>1, <3>3
    <3>4. CASE q = 1
      BY <2>3, <3>1, <3>4
    <3> QED
      BY <3>2, <3>3, <3>4
  <2>5. PICK m \in Nat \ {0} : m = q \div 2 /\ (q = 2 * m \/ q = 2 * m + 1)
    BY <2>3, <2>4
  <2>6. m <= BRGS
    BY <2>1, <2>2, <2>3, <2>5 DEF DividersFit
  <2>7. brg = (m - 1) % BRGS
    BY <2>1, <2>2, <2>3, <2>5 DEF Divisor
  <2>8. m - 1 \in 0..(BRGS - 1)
    BY <2>5, <2>6, SpiConstants
  <2>9. brg = m - 1
    BY <2>7, <2>8, SpiConstants
  <2>10. PICK z \in Nat : z = m * h
    BY <2>5
  <2>11. z >= h
    <3>1. PICK k \in Nat : m = k + 1
      BY <2>5
    <3>2. m * h = k * h + h /\ k * h \in Nat
      BY <3>1
    <3> QED
      BY <2>10, <3>2
  <2>12. n = 2 * z + a \/ n = 2 * z + h + a
    <3>1. (2 * m) * h = 2 * z /\ (2 * m + 1) * h = 2 * z + h
      BY <2>10
    <3> QED
      BY <2>3, <2>5, <3>1
  <2>13. n >= 2 * z /\ n < 4 * z
    BY <2>11, <2>12
  <2>14. 2 * (brg + 1) * brg_hz = 2 * z /\ 4 * (brg + 1) * brg_hz = 4 * z
    <3>1. brg + 1 = m
      BY <2>9
    <3>2. 2 * m * h = 2 * z /\ 4 * m * h = 4 * z
      BY <2>10
    <3> QED
      BY <2>1, <3>1, <3>2
  <2> QED
    BY <2>2, <2>13, <2>14
<1>2. SpiInv' => [RemembersRegisters' /\ ClockNearAsked']_spiVars
  BY <1>1, PTL
<1>3. [SpiNext]_spiVars => [\A w \in Words : transfer16(w) =>
          \A i \in 0..15 : (w \div 2^i) % 2 =
              wire'[IF bit_order = "LSBFIRST" THEN i + 1 ELSE 16 - i]]_spiVars
  <2>1. \A w \in Words : transfer16(w) =>
          \A i \in 0..15 : (w \div 2^i) % 2 =
              wire'[IF bit_order = "LSBFIRST" THEN i + 1 ELSE 16 - i]
    BY WordOnWire, SpiConstants, Zenon
  <2> QED
    BY <2>1, Zenon
<1>4. SpiInv /\ [SpiNext]_spiVars => SpiInv'
  BY StepSpiInv
<1> QED
  BY <1>2, <1>3, <1>4, InitSpiInv, PTL DEF SpiSpec, PortAsAsked, WireOrder

-----------------------------------------------------------------------------
(* The core timer. *)

(* The longest time between two interrupts. *)
Longest == T + MaxLatency

LEMMA CoreConstants ==
    /\ K \in Nat \ {0} /\ U \in Nat \ {0} /\ T \in Nat \ {0} /\ T = K * U
    /\ MaxLatency \in Nat /\ MaxWait \in Nat /\ MaxWait < WORD32
    /\ WORD32 \in Nat \ {0} /\ WORD32 > 2 * T /\ WORD32 >= T + MaxLatency + U
    /\ Longest \in Nat /\ Longest = T + MaxLatency
    /\ MillisLate \in Nat
<1>1. K \in Nat \ {0} /\ U \in Nat \ {0} /\ T = K * U
  BY CoreTimerAssumption
<1>2. K * U \in Nat \ {0}
  BY <1>1
<1>3. T \in Nat \ {0}
  BY <1>1, <1>2, Zenon
<1>4. MaxLatency \in Nat /\ MillisLate \in Nat
  BY <1>3, CoreTimerAssumption DEF MillisLate
<1>5. WORD32 \in Nat \ {0} /\ WORD32 > 2 * T /\ WORD32 >= T + MaxLatency + U
  BY <1>1, <1>3, <1>4, CoreTimerAssumption
<1>6. MaxWait \in Nat /\ MaxWait < WORD32
  BY <1>5, CoreTimerAssumption
<1> QED
  BY <1>1, <1>3, <1>4, <1>5, <1>6 DEF Longest

(* The registers follow the counter: the time the handler ran is at most   *)
(* Longest ago, the compare value is T after it, gMillis is the count of   *)
(* milliseconds, and no run of the handler lost more than its latency.     *)
TimeInv ==
    /\ ticks \in Nat /\ oldTicks \in Nat /\ ms \in Nat /\ runs \in Nat
    /\ ticks - oldTicks \in 0..Longest
    /\ gOldCoreTime = oldTicks % WORD32 /\ compare = (oldTicks + T) % WORD32
    /\ ctif \in BOOLEAN /\ (ctif <=> ticks >= oldTicks + T)
    /\ gMillis = ms % WORD32
    /\ oldTicks - ms * T \in 0..(runs * MaxLatency)

LEMMA ElapsedIs ==
    ASSUME TimeInv
    PROVE  (ReadCoreTimer - gOldCoreTime) % WORD32 = ticks - oldTicks
<1>1. /\ ticks \in Int /\ oldTicks \in Int /\ ticks - oldTicks \in 0..(WORD32 - 1)
      /\ WORD32 \in Nat \ {0}
  BY CoreConstants DEF TimeInv
<1>2. ((ticks % WORD32) - (oldTicks % WORD32)) % WORD32 = ticks - oldTicks
  BY <1>1, ModDistance, Zenon
<1> QED
  BY <1>2 DEF ReadCoreTimer, TimeInv

(* The microseconds since the handler ran. *)
LEMMA SinceIs ==
    ASSUME NEW e \in 0..Longest
    PROVE  /\ SinceHandler(e) \in Nat
           /\ SinceHandler(e) * U <= e + U \div 2
           /\ e + U \div 2 < SinceHandler(e) * U + U
           /\ SinceHandler(e) = (e + U \div 2) \div U
<1>1. PICK h \in Nat : h = U \div 2 /\ h < U
  BY CoreConstants
<1>2. e + h \in 0..(WORD32 - 1)
  BY <1>1, CoreConstants
<1>3. (e + h) % WORD32 = e + h
  BY <1>2, ModSmall, CoreConstants
<1>4. SinceHandler(e) = (e + h) \div U
  BY <1>1, <1>3 DEF SinceHandler
<1>5. PICK n \in Nat, V \in Nat \ {0} : n = e + h /\ V = U
  BY <1>2, CoreConstants
<1>6. n \div V \in Nat /\ n % V \in 0..(V - 1) /\ n = (n \div V) * V + (n % V)
  BY <1>5
<1>7. PICK x \in Nat : x = n \div V /\ x * V <= n /\ n < x * V + V
  <2>1. PICK x \in Nat : x = n \div V
    BY <1>6
  <2>2. x * V \in Nat /\ n = x * V + (n % V)
    BY <1>6, <2>1
  <2> QED
    BY <1>6, <2>1, <2>2
<1> QED
  BY <1>1, <1>4, <1>5, <1>7

(* Two interrupts are less than MillisLate + 2 milliseconds apart. *)
LEMMA LongestIs ==
    ASSUME NEW A \in Nat \ {0}, A = T
    PROVE  Longest < (2 + MillisLate) * A
<1>1. PICK l \in Nat, q \in Nat : l = MaxLatency /\ q = MillisLate /\ q = l \div A
  BY CoreConstants DEF MillisLate
<1>2. l % A \in 0..(A - 1) /\ l = (l \div A) * A + (l % A)
  OBVIOUS
<1>3. q * A \in Nat /\ l < q * A + A
  BY <1>1, <1>2
<1>4. (2 + q) * A = A + A + q * A
  OBVIOUS
<1> QED
  BY <1>1, <1>3, <1>4 DEF Longest

(* The handler counts n milliseconds: it runs after that many and before   *)
(* one more.                                                               *)
Counts(n) ==
    /\ ticks - oldTicks \in T..Longest
    /\ n * T <= ticks - oldTicks /\ ticks - oldTicks < n * T + T
    /\ gMillis' = (gMillis + n) % WORD32 /\ Timeout' = CountDown(n)
    /\ compare' = (ticks + T) % WORD32 /\ ctif' = FALSE
    /\ gOldCoreTime' = ticks % WORD32
    /\ ms' = ms + n /\ runs' = runs + 1 /\ oldTicks' = ticks /\ ticks' = ticks
    /\ back' = (back \/ (doing = "us" /\ n * K < SinceHandler(ticks - oldTicks)))
    /\ UNCHANGED <<doing, arg, start, began>>

LEMMA HandlerCounts ==
    ASSUME TimeInv, CoreTimerHandler
    PROVE  \E n \in 1..(1 + MillisLate) : Counts(n)
<1>1. ticks - oldTicks \in T..Longest
  BY CoreConstants DEF TimeInv, CoreTimerHandler
<1>2. PICK e \in T..Longest, A \in Nat \ {0}, q \in Nat :
        e = ticks - oldTicks /\ A = T /\ q = MillisLate /\ e \in Nat /\ A <= e
  BY <1>1, CoreConstants
<1>3. PICK n \in Nat : n = e \div A /\ n * A <= e /\ e < n * A + A
  <2>1. e \div A \in Nat /\ e % A \in 0..(A - 1) /\ e = (e \div A) * A + (e % A)
    BY <1>2
  <2>2. PICK n \in Nat : n = e \div A
    BY <2>1
  <2>3. n * A \in Nat /\ e = n * A + (e % A)
    BY <2>1, <2>2
  <2>4. PICK r \in 0..(A - 1), x \in Nat : x = n * A /\ e = x + r
    BY <2>1, <2>3
  <2> QED
    BY <2>2, <2>4
<1>4. n # 0
  BY <1>2, <1>3
<1>5. n < 2 + q
  <2> SUFFICES ASSUME n >= 2 + q PROVE FALSE
    OBVIOUS
  <2>1. PICK k \in Nat : n = 2 + q + k
    OBVIOUS
  <2>2. n * A = (2 + q) * A + k * A /\ k * A \in Nat /\ (2 + q) * A \in Nat
    BY <2>1
  <2>3. e < (2 + q) * A
    BY <1>2, LongestIs, CoreConstants
  <2> QED
    BY <1>2, <1>3, <2>2, <2>3
<1>6. Increment((ReadCoreTimer - gOldCoreTime) % WORD32) = n
  BY <1>2, <1>3, ElapsedIs DEF Increment
<1>7. compare' = (ticks + T) % WORD32
  <2>1. ((ticks % WORD32) + T) % WORD32 = (ticks + T) % WORD32
    <3>1. ticks \in Int /\ T \in Int /\ WORD32 \in Nat \ {0}
      BY CoreConstants DEF TimeInv
    <3> QED
      BY <3>1, ModOfMod, Zenon
  <2> QED
    BY <2>1 DEF CoreTimerHandler, NextCompare, ReadCoreTimer
<1>8. n * T <= ticks - oldTicks /\ ticks - oldTicks < n * T + T
  BY <1>2, <1>3
<1>9. Counts(n)
  BY <1>1, <1>6, <1>7, <1>8, Zenon DEF CoreTimerHandler, Counts, sketch, ReadCoreTimer
<1> QED
  BY <1>2, <1>4, <1>5, <1>9

LEMMA StepTimeInv == TimeInv /\ [CoreNext]_coreVars => TimeInv'
<1> SUFFICES ASSUME TimeInv, [CoreNext]_coreVars PROVE TimeInv'
  OBVIOUS
<1>1. CASE Count
  <2>1. /\ ticks' = ticks + 1 /\ ticks < oldTicks + Longest
        /\ ctif' = (ctif \/ (ticks + 1) % WORD32 = compare)
        /\ UNCHANGED <<compare, gMillis, gOldCoreTime, ms, runs, oldTicks>>
    BY <1>1, CoreConstants DEF Count, hist, TimeInv
  <2>2. ctif' <=> ctif \/ ticks + 1 = oldTicks + T
    <3>1. ASSUME (ticks + 1) % WORD32 = (oldTicks + T) % WORD32 PROVE ticks + 1 = oldTicks + T
      <4>1. CASE ticks + 1 >= oldTicks + T
        <5>1. PICK x \in Int, y \in Int : x = ticks + 1 /\ y = oldTicks + T /\ x - y \in 0..(WORD32 - 1)
          BY <2>1, <4>1, CoreConstants DEF TimeInv
        <5>2. ((x % WORD32) - (y % WORD32)) % WORD32 = x - y
          BY <5>1, ModDistance, CoreConstants
        <5>3. x % WORD32 = y % WORD32 /\ y % WORD32 \in Int
          BY <3>1, <5>1, CoreConstants
        <5>4. 0 % WORD32 = 0
          BY ModSmall, CoreConstants
        <5> QED
          BY <5>1, <5>2, <5>3, <5>4
      <4>2. CASE ticks + 1 < oldTicks + T
        <5>1. PICK x \in Int, y \in Int : x = oldTicks + T /\ y = ticks + 1 /\ x - y \in 0..(WORD32 - 1)
          BY <2>1, <4>2, CoreConstants DEF TimeInv
        <5>2. ((x % WORD32) - (y % WORD32)) % WORD32 = x - y
          BY <5>1, ModDistance, CoreConstants
        <5>3. x % WORD32 = y % WORD32 /\ y % WORD32 \in Int
          BY <3>1, <5>1, CoreConstants
        <5>4. 0 % WORD32 = 0
          BY ModSmall, CoreConstants
        <5> QED
          BY <5>1, <5>2, <5>3, <5>4
      <4> QED
        BY <4>1, <4>2, CoreConstants DEF TimeInv
    <3>2. compare = (oldTicks + T) % WORD32
      BY DEF TimeInv
    <3> QED
      BY <2>1, <3>1, <3>2
  <2>3. ctif' <=> ticks' >= oldTicks' + T
    BY <2>1, <2>2, CoreConstants DEF TimeInv
  <2>4. ctif' \in BOOLEAN
    BY <2>1, Zenon DEF TimeInv
  <2>5. ticks' \in Nat /\ ticks' - oldTicks' \in 0..Longest
    BY <2>1, CoreConstants DEF TimeInv
  <2> QED
    BY <2>1, <2>3, <2>4, <2>5 DEF TimeInv
<1>2. CASE CoreTimerHandler
  <2>0. PICK n \in 1..(1 + MillisLate) : Counts(n)
    BY <1>2, HandlerCounts
  <2>1. /\ ticks - oldTicks \in T..Longest /\ gMillis' = (gMillis + n) % WORD32
        /\ compare' = (ticks + T) % WORD32 /\ ctif' = FALSE /\ gOldCoreTime' = ticks % WORD32
        /\ ms' = ms + n /\ runs' = runs + 1 /\ oldTicks' = ticks /\ ticks' = ticks
        /\ n \in Nat \ {0}
    BY <2>0, CoreConstants DEF Counts
  <2>2. gMillis' = ms' % WORD32
    <3>1. ((ms % WORD32) + n) % WORD32 = (ms + n) % WORD32
      <4>1. ms \in Int /\ n \in Int /\ WORD32 \in Nat \ {0}
        BY <2>1, CoreConstants DEF TimeInv
      <4> QED
        BY <4>1, ModOfMod, Zenon
    <3> QED
      BY <2>1, <3>1 DEF TimeInv
  <2>3. oldTicks' - ms' * T \in 0..(runs' * MaxLatency)
    <3>1. PICK A \in Nat \ {0}, k \in Nat, x \in Nat, y \in Nat :
            A = T /\ n = k + 1 /\ x = ms * T /\ y = n * T /\ ms' * T = x + y /\ A <= y
      <4>1. n - 1 \in Nat /\ n = (n - 1) + 1
        BY <2>1
      <4>2. PICK A \in Nat \ {0}, k \in Nat : A = T /\ n = k + 1
        BY <4>1, CoreConstants
      <4>3. ms' * A = ms * A + n * A /\ n * A = k * A + A /\ k * A \in Nat /\ ms * A \in Nat
        BY <2>1, <4>2 DEF TimeInv
      <4> QED
        BY <4>2, <4>3
    <3>2. runs' * MaxLatency = runs * MaxLatency + MaxLatency /\ runs * MaxLatency \in Nat
      BY <2>1, CoreConstants DEF TimeInv
    <3>3. oldTicks - ms * T \in 0..(runs * MaxLatency)
      BY DEF TimeInv
    <3> QED
      <4>1. y <= ticks - oldTicks /\ ticks - oldTicks < y + T
        BY <2>0, <3>1 DEF Counts
      <4>2. ticks - oldTicks <= T + MaxLatency /\ MaxLatency \in Nat /\ T = A
        BY <2>1, <3>1, CoreConstants
      <4>3. /\ oldTicks \in Nat /\ ticks \in Nat /\ oldTicks' = ticks
            /\ oldTicks - x \in 0..(runs * MaxLatency)
        BY <2>1, <3>1, <3>3 DEF TimeInv
      <4> QED
        BY <3>1, <3>2, <4>1, <4>2, <4>3
  <2>4. ctif' \in BOOLEAN /\ ~ctif'
    BY <2>1, Zenon
  <2> QED
    BY <2>1, <2>2, <2>3, <2>4, CoreConstants DEF TimeInv
<1>3. CASE UNCHANGED <<ticks, compare, ctif, gMillis, gOldCoreTime, ms, runs, oldTicks>>
  BY <1>3 DEF TimeInv
<1>4. ASSUME NEW n \in 0..MaxWait, delay(n) \/ delayMicroseconds(n) \/ SetTimeout(n) PROVE TimeInv'
  BY <1>3, <1>4 DEF delay, delayMicroseconds, SetTimeout, Call
<1>5. CASE DelayReturn
  BY <1>3, <1>5 DEF DelayReturn, timer
<1>6. CASE UNCHANGED coreVars
  BY <1>3, <1>6 DEF coreVars, timer, hist
<1> QED
  BY <1>1, <1>2, <1>4, <1>5, <1>6 DEF CoreNext

LEMMA InitTimeInv == CoreInit => TimeInv
<1> SUFFICES ASSUME CoreInit PROVE TimeInv
  OBVIOUS
<1>1. /\ ticks = 0 /\ oldTicks = 0 /\ ms = 0 /\ runs = 0 /\ compare = T /\ ctif = FALSE
      /\ gMillis = 0 /\ gOldCoreTime = 0
  BY DEF CoreInit
<1>2. 0 % WORD32 = 0 /\ T % WORD32 = T
  <2>1. 0 \in 0..(WORD32 - 1) /\ T \in 0..(WORD32 - 1) /\ WORD32 \in Nat \ {0}
    BY CoreConstants
  <2> QED
    BY <2>1, ModSmall, Zenon
<1>3. 0 * T = 0 /\ 0 * MaxLatency = 0 /\ 0 + T = T /\ 0 - 0 = 0
  BY CoreConstants
<1>4. ctif \in BOOLEAN
  BY <1>1, Zenon
<1> QED
  BY <1>1, <1>2, <1>3, <1>4, CoreConstants DEF TimeInv

(* micros() without its wrap, scaled to ticks: it lags behind the counter  *)
(* by what the runs of the handler have lost, and is rounded.              *)
MicrosNear ==
    /\ Micros \in Nat
    /\ Micros * U <= ticks - (oldTicks - ms * T) + U \div 2
    /\ ticks - (oldTicks - ms * T) + U \div 2 < Micros * U + U

LEMMA MicrosIs == TimeInv => MicrosNear
<1> SUFFICES ASSUME TimeInv PROVE MicrosNear
  OBVIOUS
<1>1. PICK e \in 0..Longest, n \in Nat, V \in Nat \ {0}, k \in Nat \ {0} :
        e = ticks - oldTicks /\ n = ms /\ V = U /\ k = K /\ T = k * V
  BY CoreConstants DEF TimeInv
<1>2. PICK x \in Nat : x = SinceHandler(e) /\ x * V <= e + U \div 2 /\ e + U \div 2 < x * V + V
  BY <1>1, SinceIs
<1>3. Micros = n * k + x
  BY <1>1, <1>2 DEF Micros
<1>4. Micros * U = n * T + x * V
  <2>1. (n * k + x) * V = n * (k * V) + x * V
    <3>1. \A a \in Nat : (a + x) * V = a * V + x * V
      OBVIOUS
    <3>2. n * k \in Nat /\ (n * k) * V = n * (k * V)
      BY <1>1
    <3> QED
      BY <3>1, <3>2
  <2> QED
    BY <1>1, <1>3, <2>1
<1>5. PICK y \in Nat, z \in Nat, h \in Nat : y = n * T /\ z = x * V /\ h = U \div 2
  <2>1. n * T \in Nat /\ x * V \in Nat /\ U \div 2 \in Nat
    BY <1>1, <1>2, CoreConstants
  <2> QED
    BY <2>1
<1>6. Micros \in Nat
  BY <1>2, <1>3
<1> QED
  BY <1>1, <1>2, <1>4, <1>5, <1>6 DEF TimeInv, MicrosNear

LEMMA NextMicrosIs == TimeInv' => MicrosNear'
BY MicrosIs, PTL

(* micros() steps back only with the handler. *)
LEMMA MicrosSteps ==
    ASSUME TimeInv, TimeInv', [CoreNext]_coreVars
    PROVE  /\ Micros' >= Micros \/ CoreTimerHandler
           /\ CoreTimerHandler =>
                \E n \in 1..(1 + MillisLate) :
                   /\ Counts(n) /\ Micros' = (ms + n) * K
                   /\ Micros = ms * K + SinceHandler(ticks - oldTicks)
<1>1. CASE Count
  <2>1. ticks' = ticks + 1 /\ ms' = ms /\ oldTicks' = oldTicks
    BY <1>1 DEF Count, hist
  <2>2. PICK m \in Nat, n \in Nat, V \in Nat \ {0}, t \in Int :
          /\ m = Micros /\ n = Micros' /\ V = U
          /\ t = ticks - (oldTicks - ms * T) + U \div 2
          /\ m * V <= t /\ t + 1 < n * V + V
    <3>1. ticks' - (oldTicks' - ms' * T) + U \div 2 = ticks - (oldTicks - ms * T) + U \div 2 + 1
      BY <2>1, CoreConstants DEF TimeInv
    <3>2. /\ Micros' \in Nat
          /\ ticks' - (oldTicks' - ms' * T) + U \div 2 < Micros' * U + U
      BY NextMicrosIs DEF MicrosNear
    <3>3. ticks - (oldTicks - ms * T) + U \div 2 \in Int
      BY CoreConstants DEF TimeInv
    <3> QED
      BY <3>1, <3>2, <3>3, MicrosIs, CoreConstants DEF MicrosNear
  <2>3. n >= m
    <3> SUFFICES ASSUME n < m PROVE FALSE
      BY <2>2
    <3>1. PICK k \in Nat : m = n + 1 + k
      OBVIOUS
    <3>2. m * V = n * V + V + k * V /\ k * V \in Nat /\ n * V \in Nat
      BY <3>1
    <3> QED
      BY <2>2, <3>2
  <2>4. ~CoreTimerHandler
    BY <2>1, CoreConstants DEF CoreTimerHandler, TimeInv
  <2> QED
    BY <2>2, <2>3, <2>4
<1>2. CASE CoreTimerHandler
  <2>0. PICK n \in 1..(1 + MillisLate) : Counts(n)
    BY <1>2, HandlerCounts
  <2>1. ms' = ms + n /\ oldTicks' = ticks /\ ticks' = ticks
    BY <2>0 DEF Counts
  <2>2. SinceHandler(0) = 0
    <3>1. 0 \in 0..Longest
      BY CoreConstants
    <3>2. SinceHandler(0) \in Nat /\ SinceHandler(0) * U <= 0 + U \div 2
      BY <3>1, SinceIs
    <3>3. PICK x \in Nat, V \in Nat \ {0} : x = SinceHandler(0) /\ V = U
      BY <3>2, CoreConstants
    <3>4. x * V < V
      BY <3>2, <3>3
    <3>5. x = 0
      <4> SUFFICES ASSUME x # 0 PROVE FALSE
        OBVIOUS
      <4>1. PICK k \in Nat : x = 1 + k
        OBVIOUS
      <4>2. x * V = V + k * V /\ k * V \in Nat
        BY <4>1
      <4> QED
        BY <3>4, <4>2
    <3> QED
      BY <3>3, <3>5
  <2>3. ticks' - oldTicks' = 0
    BY <2>1 DEF TimeInv
  <2>4. Micros' = ms' * K + SinceHandler(ticks' - oldTicks')
    BY DEF Micros, SinceHandler
  <2>5. Micros' = (ms + n) * K + 0
    BY <2>1, <2>2, <2>3, <2>4
  <2>6. Micros' = (ms + n) * K
    <3>1. n \in Nat /\ ms \in Nat /\ K \in Nat
      BY CoreConstants DEF TimeInv
    <3>2. (ms + n) * K \in Nat
      BY <3>1
    <3> QED
      BY <2>5, <3>2
  <2>7. Micros = ms * K + SinceHandler(ticks - oldTicks)
    BY DEF Micros
  <2> QED
    BY <1>2, <2>0, <2>6, <2>7
<1>3. CASE UNCHANGED <<ticks, ms, oldTicks, runs>>
  <2>1. Micros' = Micros
    BY <1>3 DEF Micros, SinceHandler
  <2>2. Micros \in Nat
    BY MicrosIs DEF MicrosNear
  <2>3. ~CoreTimerHandler
    BY <1>3 DEF CoreTimerHandler, TimeInv
  <2> QED
    BY <2>1, <2>2, <2>3
<1>4. ASSUME NEW n \in 0..MaxWait, delay(n) \/ delayMicroseconds(n) \/ SetTimeout(n)
      PROVE  UNCHANGED <<ticks, ms, oldTicks, runs>>
  BY <1>4 DEF delay, delayMicroseconds, SetTimeout, Call
<1>5. CASE DelayReturn
  BY <1>3, <1>5 DEF DelayReturn
<1>6. CASE UNCHANGED coreVars
  BY <1>3, <1>6 DEF coreVars, hist
<1> QED
  BY <1>1, <1>2, <1>3, <1>4, <1>5, <1>6 DEF CoreNext

(* Across late interrupts and the wrap of both counters, millis() lags by  *)
(* the latencies and no more, the next interrupt is always due, and        *)
(* micros() never runs ahead and steps back by a latency at most.          *)
THEOREM TimeIsKept == CoreSpec => TimeKept
<1>1. TimeInv => MillisLag /\ NextTickComes /\ MicrosNotAhead
  <2> SUFFICES ASSUME TimeInv PROVE MillisLag /\ NextTickComes /\ MicrosNotAhead
    OBVIOUS
  <2>1. MillisLag /\ NextTickComes
    BY DEF TimeInv, MillisLag, NextTickComes
  <2>2. PICK lag \in Nat, x \in Int, h \in Int : lag = oldTicks - ms * T /\ x = Micros * U /\ h = U \div 2
    <3>1. oldTicks - ms * T \in Nat
      <4>1. runs * MaxLatency \in Nat
        BY CoreConstants DEF TimeInv
      <4> QED
        BY <4>1 DEF TimeInv
    <3> QED
      BY <3>1, MicrosIs, CoreConstants DEF MicrosNear
  <2>3. x <= ticks - lag + h
    BY <2>2, MicrosIs DEF MicrosNear
  <2>4. x <= ticks + h
    BY <2>2, <2>3 DEF TimeInv
  <2> QED
    BY <2>1, <2>2, <2>4 DEF MicrosNotAhead
<1>2. TimeInv' => [MillisLag' /\ NextTickComes' /\ MicrosNotAhead']_coreVars
  BY <1>1, PTL
<1>3. TimeInv /\ TimeInv' /\ [CoreNext]_coreVars =>
        [Micros' < Micros =>
           /\ runs' > runs
           /\ Micros - Micros' <= (MaxLatency + U \div 2) \div U]_coreVars
  <2> SUFFICES ASSUME TimeInv, TimeInv', [CoreNext]_coreVars, Micros' < Micros
               PROVE  runs' > runs /\ Micros - Micros' <= (MaxLatency + U \div 2) \div U
    OBVIOUS
  <2>1. Micros \in Nat /\ Micros' \in Nat
    BY MicrosIs, NextMicrosIs DEF MicrosNear
  <2>2. CoreTimerHandler
    BY <2>1, MicrosSteps
  <2>3. PICK p \in 1..(1 + MillisLate) :
          /\ Counts(p) /\ Micros' = (ms + p) * K
          /\ Micros = ms * K + SinceHandler(ticks - oldTicks)
    BY <2>2, MicrosSteps
  <2>31. PICK e \in T..Longest, n \in Nat, k \in Nat \ {0}, V \in Nat \ {0}, h \in Nat :
          e = ticks - oldTicks /\ n = ms /\ k = K /\ V = U /\ h = U \div 2 /\ T = k * V
    <3>1. ticks - oldTicks \in T..Longest
      BY <2>3 DEF Counts
    <3>2. /\ ms \in Nat /\ K \in Nat \ {0} /\ U \in Nat \ {0} /\ U \div 2 \in Nat /\ T = K * U
      BY CoreConstants DEF TimeInv
    <3> QED
      BY <3>1, <3>2
  <2>32. PICK d \in Nat : p = d + 1
    <3>1. p - 1 \in Nat /\ p = (p - 1) + 1
      BY CoreConstants
    <3> QED
      BY <3>1
  <2>4. PICK x \in Nat : x = SinceHandler(e) /\ x * V <= e + h
    <3>1. e \in 0..Longest
      BY CoreConstants
    <3> QED
      BY <2>31, <3>1, SinceIs
  <2>5. Micros - Micros' = x - p * k
    <3>1. Micros' = (n + p) * k /\ Micros = n * k + x
      BY <2>3, <2>31, <2>4
    <3>2. (n + p) * k = n * k + p * k /\ n * k \in Nat /\ p * k \in Nat
      BY <2>32
    <3> QED
      BY <3>1, <3>2
  <2>6. PICK y \in Nat : x = p * k + y
    <3>1. p * k \in Nat
      BY <2>32
    <3>2. PICK w \in Nat : w = p * k
      BY <3>1
    <3>3. x - w > 0
      <4>1. PICK a \in Nat, b \in Nat : a = Micros /\ b = Micros' /\ b < a
        BY <2>1
      <4>2. a - b = x - w
        BY <2>5, <3>2, <4>1
      <4>3. w \in Nat /\ x \in Nat /\ a \in Nat /\ b \in Nat /\ b < a
        BY <4>1
      <4> QED
        BY <4>2, <4>3
    <3>4. x - w \in Nat /\ x = w + (x - w)
      BY <3>3
    <3> QED
      BY <3>2, <3>4
  <2>7. y * V <= MaxLatency + h
    <3>1. x * V = (p * k) * V + y * V /\ y * V \in Nat
      <4>1. p * k \in Nat
        BY <2>32
      <4> QED
        BY <2>6, <4>1
    <3>2. (p * k) * V = p * T /\ p * T = d * T + T /\ d * T \in Nat /\ T \in Nat
      <4>1. (p * k) * V = p * (k * V)
        BY <2>32
      <4>2. p * T = d * T + T /\ d * T \in Nat /\ T \in Nat
        BY <2>32, CoreConstants
      <4> QED
        BY <2>31, <4>1, <4>2
    <3>3. x * V <= T + MaxLatency + h
      BY <2>4, CoreConstants
    <3> QED
      BY <3>1, <3>2, <3>3, <2>31, CoreConstants
  <2>8. y <= (MaxLatency + h) \div V
    <3>1. PICK c \in Nat : c = MaxLatency + h
      BY CoreConstants
    <3>2. c \div V \in Nat /\ c % V \in 0..(V - 1) /\ c = (c \div V) * V + (c % V)
      OBVIOUS
    <3>3. PICK q \in Nat : q = c \div V /\ c < q * V + V
      <4>1. PICK q \in Nat, r \in 0..(V - 1) : q = c \div V /\ c = q * V + r
        BY <3>2
      <4>2. PICK z \in Nat : z = q * V
        OBVIOUS
      <4>3. c < q * V + V
        BY <4>1, <4>2
      <4> QED
        BY <4>1, <4>3
    <3>4. y <= q
      <4> SUFFICES ASSUME q < y PROVE FALSE
        OBVIOUS
      <4>1. PICK g \in Nat : y = q + 1 + g
        OBVIOUS
      <4>2. y * V = q * V + V + g * V /\ g * V \in Nat /\ q * V \in Nat
        BY <4>1
      <4> QED
        BY <2>7, <3>1, <3>3, <4>2
    <3> QED
      BY <3>1, <3>3, <3>4
  <2>9. runs' > runs
    <3>1. runs' = runs + 1
      BY <2>3 DEF Counts
    <3> QED
      BY <3>1 DEF TimeInv
  <2>10. Micros - Micros' = y
    <3>1. p * k \in Nat
      BY <2>32
    <3> QED
      BY <2>5, <2>6, <3>1
  <2> QED
    BY <2>31, <2>8, <2>9, <2>10
<1> QED
  BY <1>2, <1>3, InitTimeInv, StepTimeInv, PTL DEF CoreSpec, TimeKept, MicrosStepsBack

(* Delays. *)

(* The milliseconds counted during the longest delay fit the counter: when *)
(* the handler is never a whole millisecond late, a delay is shorter than  *)
(* half the range.                                                         *)
DelaysFit == (MaxWait + 1) * (2 + MillisLate) + MillisLate < WORD32

CallInv ==
    /\ doing \in {"idle", "ms", "us", "timeout"} /\ arg \in 0..MaxWait
    /\ start \in 0..(WORD32 - 1) /\ Timeout \in Nat
    /\ began \in Nat /\ ticks - began \in Nat /\ back \in BOOLEAN

(* The handler has counted j milliseconds since the delay began. *)
Ran(j) ==
    /\ j < WORD32
    /\ j > 0 => (j - 1 - MillisLate) * T <= oldTicks - began
    /\ oldTicks - began <= j * Longest
    /\ doing = "ms" => gMillis = (start + j) % WORD32
    /\ doing = "timeout" => Timeout = IF j < arg THEN arg - j ELSE 0

Waits == doing \in {"ms", "timeout"}

(* A delay in milliseconds knows how many the handler has counted, and is  *)
(* noticed to be over in time.                                             *)
WaitInv ==
    Waits => /\ \E j \in Nat : Ran(j)
             /\ DelayDone => ticks - began <= (arg + 1) * Longest

(* micros() was m when delayMicroseconds() began. *)
BeganAt(m) ==
    /\ start = m % WORD32
    /\ ~back => Micros >= m
    /\ began - (oldTicks - ms * T) + U \div 2 < m * U + U

MicroInv == doing = "us" => \E m \in Nat : BeganAt(m)

LEMMA DoneIs ==
    ASSUME CallInv, TimeInv, Waits, NEW j \in Nat, Ran(j)
    PROVE  DelayDone <=> j >= arg
<1>1. CASE doing = "ms"
  <2>1. MillisPassed = j
    <3>1. /\ start \in Int /\ start + j \in Int /\ start \in 0..(WORD32 - 1)
          /\ WORD32 \in Nat \ {0} /\ (start + j) - start = j /\ j \in 0..(WORD32 - 1)
      BY CoreConstants DEF CallInv, Ran
    <3>2. start % WORD32 = start
      BY <3>1, ModSmall, Zenon
    <3>3. (((start + j) % WORD32) - (start % WORD32)) % WORD32 = (start + j) - start
      BY <3>1, ModDistance, Zenon
    <3>4. gMillis = (start + j) % WORD32
      BY <1>1 DEF Ran
    <3> QED
      BY <3>1, <3>2, <3>3, <3>4, Zenon DEF MillisPassed, millis
  <2> QED
    BY <1>1, <2>1 DEF DelayDone
<1>2. CASE doing = "timeout"
  <2>1. Timeout = IF j < arg THEN arg - j ELSE 0
    BY <1>2 DEF Ran
  <2> QED
    BY <1>2, <2>1, CoreConstants DEF DelayDone, CallInv
<1> QED
  BY <1>1, <1>2 DEF Waits

(* While a delay waits, its time is not over for longer than it may. *)
LEMMA WindowHolds ==
    ASSUME CallInv, TimeInv, Waits, NEW j \in Nat, Ran(j)
    PROVE  /\ j >= arg => ticks - began >= (arg - 1 - MillisLate) * T
           /\ j < arg => ticks - began <= arg * Longest
<1>1. PICK a \in Nat, A \in Nat \ {0}, B \in Nat, l \in Nat :
        a = arg /\ A = T /\ B = Longest /\ l = MillisLate
  BY CoreConstants DEF CallInv
<1>2. ASSUME j >= a PROVE ticks - began >= (a - 1 - l) * A
  <2>1. CASE j = 0
    <3>1. (a - 1 - l) * A = -((1 + l) * A) /\ (1 + l) * A \in Nat
      BY <1>2, <2>1
    <3> QED
      BY <3>1 DEF CallInv
  <2>2. CASE j # 0
    <3>1. PICK k \in Nat : j = a + k
      BY <1>2
    <3>2. /\ (j - 1 - l) * A = (a - 1 - l) * A + k * A
          /\ k * A \in Nat /\ (a - 1 - l) * A \in Int
      BY <3>1
    <3>3. (j - 1 - l) * A <= oldTicks - began
      BY <1>1, <2>2 DEF Ran
    <3> QED
      BY <3>2, <3>3, CoreConstants DEF TimeInv, CallInv
  <2> QED
    BY <2>1, <2>2
<1>3. ASSUME j < a PROVE ticks - began <= a * B
  <2>1. PICK k \in Nat : a = j + 1 + k
    BY <1>3
  <2>2. a * B = j * B + B + k * B /\ k * B \in Nat /\ j * B \in Nat
    BY <2>1
  <2>3. oldTicks - began <= j * B /\ ticks - oldTicks <= B
    BY <1>1, CoreConstants DEF Ran, TimeInv
  <2> QED
    BY <2>2, <2>3, CoreConstants DEF TimeInv, CallInv
<1> QED
  BY <1>1, <1>2, <1>3

LEMMA HandlerKeepsWaitInv ==
    ASSUME DelaysFit, CallInv, TimeInv, WaitInv, Waits, CoreTimerHandler, CallInv', TimeInv'
    PROVE  WaitInv'
<1>1. PICK j \in Nat : Ran(j)
  BY DEF WaitInv
<1>2. DelayDone => ticks - began <= (arg + 1) * Longest
  BY DEF WaitInv
<1>3. PICK a \in Nat, A \in Nat \ {0}, B \in Nat, l \in Nat :
        /\ a = arg /\ A = T /\ B = Longest /\ l = MillisLate
        /\ B < (2 + l) * A /\ a <= MaxWait
  BY CoreConstants, LongestIs DEF CallInv
<1>4. PICK n \in Nat \ {0} : n <= 1 + l /\ Counts(n)
  BY <1>3, HandlerCounts
<1>5. /\ gMillis' = (gMillis + n) % WORD32 /\ Timeout' = CountDown(n)
      /\ oldTicks' = ticks /\ ticks' = ticks
      /\ UNCHANGED <<doing, arg, start, began>>
  BY <1>4 DEF Counts
<1>6. PICK t \in Nat, o \in Int : t = ticks - began /\ o = oldTicks - began /\ n * A <= t - o /\ t - o <= B
  <2>1. n * A <= ticks - oldTicks /\ ticks - oldTicks <= B
    BY <1>3, <1>4 DEF Counts
  <2>2. ticks \in Nat /\ oldTicks \in Nat /\ began \in Nat /\ ticks - began \in Nat
    BY DEF CallInv, TimeInv
  <2>3. (ticks - began) - (oldTicks - began) = ticks - oldTicks /\ oldTicks - began \in Int
    BY <2>2
  <2> QED
    BY <2>1, <2>2, <2>3
<1>7. t <= (a + 1) * B
  <2>1. CASE j >= a
    BY <1>1, <1>2, <1>3, <1>6, <2>1, DoneIs
  <2>2. CASE j < a
    <3>1. t <= a * B
      BY <1>1, <1>3, <1>6, <2>2, WindowHolds
    <3>2. (a + 1) * B = a * B + B /\ a * B \in Nat
      OBVIOUS
    <3> QED
      BY <1>6, <3>1, <3>2
  <2> QED
    BY <2>1, <2>2
<1>8. (j + n - 1 - l) * A <= t
  <2>1. CASE j = 0
    <3>1. PICK k \in Nat : l + 1 = n + k
      <4>1. l + 1 - n \in Nat /\ l + 1 = n + (l + 1 - n)
        BY <1>4
      <4> QED
        BY <4>1
    <3>2. (j + n - 1 - l) * A = -(k * A) /\ k * A \in Nat
      BY <2>1, <3>1
    <3> QED
      BY <3>2
  <2>2. CASE j # 0
    <3>1. (j - 1 - l) * A <= o
      BY <1>1, <1>3, <1>6, <2>2 DEF Ran
    <3>2. PICK x \in Int : x = j - 1 - l
      OBVIOUS
    <3>3. (x + n) * A = x * A + n * A /\ x * A \in Int /\ n * A \in Nat
      OBVIOUS
    <3>4. x + n = j + n - 1 - l
      BY <3>2
    <3> QED
      BY <1>6, <3>1, <3>2, <3>3, <3>4
  <2> QED
    BY <2>1, <2>2
<1>9. j + n < WORD32
  <2>1. j + n <= (a + 1) * (2 + l) + l
    <3> SUFFICES ASSUME j + n > (a + 1) * (2 + l) + l PROVE FALSE
      <4>1. (a + 1) * (2 + l) \in Nat
        OBVIOUS
      <4> QED
        BY <4>1
    <3>1. PICK c \in Nat, w \in Nat : w = 2 + l /\ c = (a + 1) * w
      OBVIOUS
    <3>2. PICK k \in Nat : j + n - 1 - l = c + k
      <4>1. j + n - 1 - l - c \in Nat /\ j + n - 1 - l = c + (j + n - 1 - l - c)
        BY <3>1
      <4> QED
        BY <4>1
    <3>3. (c + k) * A = c * A + k * A /\ k * A \in Nat /\ c * A \in Nat
      OBVIOUS
    <3>4. c * A = (a + 1) * (w * A)
      BY <3>1
    <3>5. PICK y \in Nat, g \in Nat : y = w * A /\ y = B + 1 + g
      <4>1. w * A \in Nat
        OBVIOUS
      <4>2. PICK y \in Nat : y = w * A /\ B < y
        BY <1>3, <3>1, <4>1
      <4>3. y - B - 1 \in Nat /\ y = B + 1 + (y - B - 1)
        BY <4>2
      <4> QED
        BY <4>2, <4>3
    <3>6. (a + 1) * y = (a + 1) * B + (a + 1) + (a + 1) * g /\ (a + 1) * g \in Nat /\ (a + 1) * B \in Nat
      BY <3>5
    <3>7. (c + k) * A <= t
      BY <1>8, <3>2
    <3>8. c * A = (a + 1) * y
      BY <3>4, <3>5
    <3> QED
      BY <1>7, <3>3, <3>6, <3>7, <3>8
  <2>2. (a + 1) * (2 + l) <= (MaxWait + 1) * (2 + l)
    <3>1. PICK k \in Nat : MaxWait = a + k
      <4>1. MaxWait - a \in Nat /\ MaxWait = a + (MaxWait - a)
        BY <1>3, CoreConstants
      <4> QED
        BY <4>1
    <3>2. (a + k + 1) * (2 + l) = (a + 1) * (2 + l) + k * (2 + l) /\ k * (2 + l) \in Nat
      OBVIOUS
    <3>3. (a + 1) * (2 + l) \in Nat
      OBVIOUS
    <3> QED
      BY <3>1, <3>2, <3>3
  <2>3. PICK x \in Nat, y \in Nat : x = (a + 1) * (2 + l) /\ y = (MaxWait + 1) * (2 + l)
    <3>1. (a + 1) * (2 + l) \in Nat /\ (MaxWait + 1) * (2 + l) \in Nat
      BY CoreConstants
    <3> QED
      BY <3>1
  <2>4. y + l < WORD32
    BY <1>3, <2>3 DEF DelaysFit
  <2> QED
    BY <2>1, <2>2, <2>3, <2>4, CoreConstants
<1>10. Ran(j + n)'
  <2>1. t <= (j + n) * B
    <3>1. o <= j * B
      BY <1>1, <1>3, <1>6 DEF Ran
    <3>2. PICK k \in Nat : n = k + 1
      <4>1. n - 1 \in Nat /\ n = (n - 1) + 1
        OBVIOUS
      <4> QED
        BY <4>1
    <3>3. (j + n) * B = j * B + k * B + B /\ j * B \in Nat /\ k * B \in Nat
      BY <3>2
    <3> QED
      BY <1>6, <3>1, <3>3
  <2>2. doing' = "ms" => gMillis' = (start' + (j + n)) % WORD32
    <3> SUFFICES ASSUME doing = "ms" PROVE (gMillis + n) % WORD32 = (start + (j + n)) % WORD32
      BY <1>5
    <3>1. gMillis = (start + j) % WORD32
      BY <1>1 DEF Ran
    <3>2. start + j \in Int /\ n \in Int /\ WORD32 \in Nat \ {0} /\ (start + j) + n = start + (j + n)
      BY CoreConstants DEF CallInv
    <3>3. (((start + j) % WORD32) + n) % WORD32 = ((start + j) + n) % WORD32
      BY <3>2, ModOfMod, Zenon
    <3> QED
      BY <3>1, <3>2, <3>3, Zenon
  <2>3. doing' = "timeout" => Timeout' = IF j + n < arg' THEN arg' - (j + n) ELSE 0
    <3> SUFFICES ASSUME doing = "timeout" PROVE CountDown(n) = IF j + n < a THEN a - (j + n) ELSE 0
      BY <1>3, <1>5
    <3>1. Timeout = IF j < a THEN a - j ELSE 0
      BY <1>1, <1>3 DEF Ran
    <3> QED
      BY <3>1 DEF CountDown
  <2>4. oldTicks' - began' = t
    BY <1>5, <1>6
  <2> QED
    BY <1>3, <1>8, <1>9, <2>1, <2>2, <2>3, <2>4 DEF Ran
<1>11. ticks' - began' <= (arg' + 1) * Longest
  BY <1>3, <1>5, <1>6, <1>7
<1> QED
  BY <1>10, <1>11 DEF WaitInv

(* micros() is its unwrapped value modulo the width of its result. *)
LEMMA MicrosWrap == TimeInv => micros = Micros % WORD32
<1> SUFFICES ASSUME TimeInv PROVE micros = Micros % WORD32
  OBVIOUS
<1>1. PICK n \in Nat, k \in Nat, x \in Nat, W \in Nat \ {0} :
        n = ms /\ k = K /\ W = WORD32 /\ x = SinceHandler(ticks - oldTicks)
  <2>1. ticks - oldTicks \in 0..Longest
    BY DEF TimeInv
  <2>2. SinceHandler(ticks - oldTicks) \in Nat
    BY <2>1, SinceIs
  <2> QED
    BY <2>2, CoreConstants DEF TimeInv
<1>2. PICK q \in Int, r \in 0..(W - 1) : n % W = r /\ n = q * W + r
  <2>1. n \div W \in Int /\ n % W \in 0..(W - 1) /\ n = (n \div W) * W + (n % W)
    OBVIOUS
  <2> QED
    BY <2>1
<1>3. PICK a \in Int, p \in Int : a = r * k + x /\ p = q * k
  OBVIOUS
<1>4. n * k + x = a + p * W
  <2>1. (q * W + r) * k = (q * W) * k + r * k
    OBVIOUS
  <2>2. (q * W) * k = (q * k) * W
    OBVIOUS
  <2>3. n * k = p * W + r * k
    BY <1>2, <1>3, <2>1, <2>2
  <2>4. p * W \in Int /\ r * k \in Int
    OBVIOUS
  <2> QED
    BY <1>3, <2>3, <2>4
<1>5. (a + p * W) % W = a % W
  BY ModTurns
<1>6. micros = a % W
  <2>1. (ReadCoreTimer - gOldCoreTime) % WORD32 = ticks - oldTicks
    BY ElapsedIs
  <2>2. millis = r
    BY <1>1, <1>2 DEF millis, TimeInv
  <2> QED
    BY <1>1, <1>3, <2>1, <2>2 DEF micros
<1> QED
  BY <1>1, <1>4, <1>5, <1>6 DEF Micros

LEMMA StepCallInv ==
    ASSUME CallInv, TimeInv, TimeInv', [CoreNext]_coreVars
    PROVE  CallInv'
<1>1. CASE Count
  <2>1. ticks' = ticks + 1 /\ UNCHANGED <<Timeout, doing, arg, start, began, back>>
    BY <1>1 DEF Count, sketch, hist
  <2>2. ticks' - began' \in Nat
    BY <2>1 DEF CallInv, TimeInv
  <2> QED
    BY <2>1, <2>2 DEF CallInv
<1>2. CASE CoreTimerHandler
  <2>1. PICK n \in 1..(1 + MillisLate) :
          /\ Timeout' = CountDown(n) /\ ticks' = ticks /\ UNCHANGED <<doing, arg, start, began>>
          /\ back' = (back \/ (doing = "us" /\ n * K < SinceHandler(ticks - oldTicks)))
    BY <1>2, HandlerCounts DEF Counts
  <2>2. Timeout' \in Nat
    BY <2>1, CoreConstants DEF CallInv, CountDown
  <2>3. back' \in BOOLEAN
    BY <2>1, Zenon
  <2> QED
    BY <2>1, <2>2, <2>3 DEF CallInv
<1>3. ASSUME NEW n \in 0..MaxWait, delay(n) \/ delayMicroseconds(n) \/ SetTimeout(n)
      PROVE  CallInv'
  <2>1. /\ doing' \in {"ms", "us", "timeout"} /\ arg' = n /\ began' = ticks /\ ticks' = ticks
        /\ back' = FALSE /\ start' \in {millis, micros, 0} /\ Timeout' \in {Timeout, n}
    BY <1>3 DEF delay, delayMicroseconds, SetTimeout, Call
  <2>2. millis \in 0..(WORD32 - 1)
    BY CoreConstants DEF TimeInv, millis
  <2>3. micros \in 0..(WORD32 - 1)
    <3>1. micros = Micros % WORD32 /\ Micros \in Nat
      BY MicrosWrap, MicrosIs DEF MicrosNear
    <3> QED
      BY <3>1, CoreConstants
  <2>4. 0 \in 0..(WORD32 - 1) /\ n \in Nat
    BY CoreConstants
  <2>5. back' \in BOOLEAN
    BY <2>1, Zenon
  <2>6. ticks' - began' \in Nat /\ began' \in Nat
    BY <2>1 DEF TimeInv
  <2>7. Timeout' \in Nat /\ start' \in 0..(WORD32 - 1)
    BY <2>1, <2>2, <2>3, <2>4 DEF CallInv
  <2> QED
    BY <2>1, <2>5, <2>6, <2>7 DEF CallInv
<1>4. CASE DelayReturn
  <2>1. /\ doing' = "idle" /\ arg' = 0 /\ start' = 0 /\ began' = 0 /\ back' = FALSE
        /\ ticks' = ticks /\ Timeout' = Timeout
    BY <1>4 DEF DelayReturn, timer
  <2>2. back' \in BOOLEAN
    BY <2>1, Zenon
  <2> QED
    BY <2>1, <2>2, CoreConstants DEF CallInv, TimeInv
<1>5. CASE UNCHANGED coreVars
  BY <1>5 DEF CallInv, coreVars, timer, sketch, hist
<1> QED
  BY <1>1, <1>2, <1>3, <1>4, <1>5 DEF CoreNext

LEMMA StepWaitInv ==
    ASSUME DelaysFit, CallInv, TimeInv, WaitInv, CallInv', TimeInv', [CoreNext]_coreVars
    PROVE  WaitInv'
<1>1. CASE CoreTimerHandler
  <2>1. Waits' => Waits
    BY <1>1, HandlerCounts DEF Waits, Counts
  <2> QED
    BY <1>1, <2>1, HandlerKeepsWaitInv DEF WaitInv
<1>2. CASE Count
  <2> SUFFICES ASSUME Waits' PROVE WaitInv'
    BY DEF WaitInv
  <2>1. /\ ticks' = ticks + 1 /\ ~Overdue
        /\ UNCHANGED <<gMillis, Timeout, doing, arg, start, began, oldTicks>>
    BY <1>2 DEF Count, sketch, hist
  <2>2. Waits
    BY <2>1 DEF Waits
  <2>3. PICK j \in Nat : Ran(j)
    BY <2>2 DEF WaitInv
  <2>4. Ran(j)'
    BY <2>1, <2>3 DEF Ran
  <2>5. ASSUME DelayDone' PROVE ticks' - began' <= (arg' + 1) * Longest
    <3>1. DelayDone
      <4>1. (DelayDone)' <=> j >= arg'
        <5>1. TimeInv' /\ CallInv' /\ Waits' /\ Ran(j)' /\ j \in Nat
          BY <2>4
        <5> QED
          BY <2>1, <2>2, <2>3, DoneIs DEF DelayDone, MillisPassed, millis, Waits
      <4> QED
        BY <2>1, <2>2, <2>3, <2>5, <4>1, DoneIs
    <3>2. ~(ticks - began >= Longest + arg * Longest)
      <4>1. doing # "us"
        BY <2>2 DEF Waits
      <4> QED
        BY <2>1, <3>1, <4>1, CoreConstants DEF Overdue
    <3>3. PICK a \in Nat, B \in Nat : a = arg /\ B = Longest
      BY CoreConstants DEF CallInv
    <3>4. (a + 1) * B = a * B + B /\ a * B \in Nat
      OBVIOUS
    <3> QED
      BY <2>1, <3>2, <3>3, <3>4 DEF CallInv, TimeInv
  <2> QED
    BY <2>4, <2>5 DEF WaitInv
<1>3. ASSUME NEW n \in 0..MaxWait, delay(n) \/ SetTimeout(n) PROVE WaitInv'
  <2>1. /\ doing' = "ms" => start' = millis
        /\ doing' = "timeout" => Timeout' = n
        /\ arg' = n /\ began' = ticks /\ UNCHANGED <<ticks, oldTicks, gMillis>>
    BY <1>3 DEF delay, SetTimeout, Call
  <2>2. n \in Nat /\ oldTicks - ticks <= 0 /\ ticks - ticks = 0
    BY CoreConstants DEF TimeInv
  <2>3. 0 * Longest = 0 /\ 0 < WORD32 /\ (n + 1) * Longest \in Nat
    <3>1. PICK B \in Nat : B = Longest
      BY CoreConstants
    <3>2. (n + 1) * B \in Nat
      BY <2>2
    <3> QED
      BY <3>1, <3>2, CoreConstants
  <2>4. gMillis % WORD32 = gMillis /\ gMillis + 0 = gMillis
    <3>1. gMillis \in 0..(WORD32 - 1) /\ WORD32 \in Nat \ {0}
      BY CoreConstants DEF TimeInv
    <3> QED
      BY <3>1, ModSmall
  <2>5. Ran(0)'
    BY <2>1, <2>2, <2>3, <2>4 DEF Ran, millis
  <2>6. ticks' - began' <= (arg' + 1) * Longest
    BY <2>1, <2>2, <2>3
  <2> QED
    BY <2>5, <2>6 DEF WaitInv
<1>4. ASSUME NEW n \in 0..MaxWait, delayMicroseconds(n) PROVE WaitInv'
  BY <1>4 DEF delayMicroseconds, Call, WaitInv, Waits
<1>5. CASE DelayReturn
  BY <1>5 DEF DelayReturn, WaitInv, Waits
<1>6. CASE UNCHANGED coreVars
  <2>1. UNCHANGED <<ticks, gMillis, Timeout, doing, arg, start, began, oldTicks>>
    BY <1>6 DEF coreVars, timer, sketch, hist
  <2> QED
    BY <2>1 DEF WaitInv, Waits, Ran, DelayDone, MillisPassed, MicrosPassed, millis, micros,
                ReadCoreTimer, SinceHandler
<1> QED
  BY <1>1, <1>2, <1>3, <1>4, <1>5, <1>6 DEF CoreNext

LEMMA StepMicroInv ==
    ASSUME CallInv, TimeInv, MicroInv, TimeInv', [CoreNext]_coreVars
    PROVE  MicroInv'
<1>1. CASE CoreTimerHandler
  <2>0. PICK n \in 1..(1 + MillisLate) :
          /\ Counts(n) /\ Micros' = (ms + n) * K
          /\ Micros = ms * K + SinceHandler(ticks - oldTicks)
    BY <1>1, MicrosSteps
  <2>1. /\ ms' = ms + n /\ oldTicks' = ticks
        /\ back' = (back \/ (doing = "us" /\ n * K < SinceHandler(ticks - oldTicks)))
        /\ UNCHANGED <<doing, arg, start, began>>
    BY <2>0 DEF Counts
  <2> SUFFICES ASSUME doing = "us" PROVE \E m \in Nat : BeganAt(m)'
    BY <2>1 DEF MicroInv
  <2>2. PICK m \in Nat : BeganAt(m)
    BY DEF MicroInv
  <2>3. ~back' => Micros' >= m
    <3> SUFFICES ASSUME ~back' PROVE Micros' >= m
      OBVIOUS
    <3>1. ~back /\ ~(n * K < SinceHandler(ticks - oldTicks))
      BY <2>1
    <3>2. PICK k \in Nat, x \in Nat, i \in Nat, p \in Nat :
            k = K /\ x = SinceHandler(ticks - oldTicks) /\ i = ms /\ p = n
      <4>1. ticks - oldTicks \in 0..Longest
        BY DEF TimeInv
      <4>2. SinceHandler(ticks - oldTicks) \in Nat
        BY <4>1, SinceIs
      <4>3. n \in Nat /\ K \in Nat /\ ms \in Nat
        BY CoreConstants DEF TimeInv
      <4> QED
        BY <4>2, <4>3
    <3>3. (i + p) * k = i * k + p * k /\ i * k \in Nat /\ p * k \in Nat
      OBVIOUS
    <3> QED
      BY <2>0, <2>2, <3>1, <3>2, <3>3 DEF BeganAt
  <2>4. began' - (oldTicks' - ms' * T) + U \div 2 < m * U + U
    <3>1. PICK b \in Int, x \in Int, t \in Int, o \in Int, h \in Int, z \in Int :
            /\ b = began /\ x = ms * T /\ t = ticks /\ o = oldTicks /\ h = U \div 2
            /\ z = m * U + U
      <4>1. ms * T \in Int /\ U \div 2 \in Int /\ m * U + U \in Int
        BY CoreConstants DEF TimeInv
      <4> QED
        BY <4>1 DEF TimeInv, CallInv
    <3>2. PICK y \in Int : y = n * T /\ ms' * T = x + y /\ y <= t - o
      <4>1. PICK A \in Nat, p \in Nat, i \in Nat : A = T /\ p = n /\ i = ms
        BY CoreConstants DEF TimeInv
      <4>2. (i + p) * A = i * A + p * A /\ p * A \in Nat
        OBVIOUS
      <4>3. n * T <= ticks - oldTicks
        BY <2>0 DEF Counts
      <4> QED
        BY <2>1, <3>1, <4>1, <4>2, <4>3
    <3>3. b - (o - x) + h < z
      BY <2>2, <3>1 DEF BeganAt
    <3>4. b - (t - (x + y)) + h < z
      BY <3>2, <3>3
    <3> QED
      BY <2>1, <3>1, <3>2, <3>4
  <2> QED
    BY <2>1, <2>2, <2>3, <2>4 DEF BeganAt
<1>2. ASSUME ~CoreTimerHandler, UNCHANGED <<doing, start, began, back, ms, oldTicks>> PROVE MicroInv'
  <2> SUFFICES ASSUME doing = "us" PROVE \E m \in Nat : BeganAt(m)'
    BY <1>2 DEF MicroInv
  <2>1. PICK m \in Nat : BeganAt(m)
    BY DEF MicroInv
  <2>2. Micros' >= Micros /\ Micros \in Nat /\ Micros' \in Nat
    BY <1>2, MicrosSteps, MicrosIs, NextMicrosIs DEF MicrosNear
  <2>3. ~back' => Micros' >= m
    <3>1. PICK a \in Nat, b \in Nat : a = Micros /\ b = Micros' /\ b >= a
      BY <2>2
    <3>2. ~back => a >= m
      BY <2>1, <3>1 DEF BeganAt
    <3> QED
      BY <1>2, <3>1, <3>2
  <2> QED
    BY <1>2, <2>1, <2>3 DEF BeganAt
<1>3. CASE Count
  <2>1. ~CoreTimerHandler
    BY <1>3 DEF Count, CoreTimerHandler, TimeInv
  <2> QED
    BY <1>2, <1>3, <2>1 DEF Count, sketch, hist
<1>4. ASSUME NEW n \in 0..MaxWait, delayMicroseconds(n) PROVE MicroInv'
  <2>1. /\ start' = micros /\ began' = ticks /\ UNCHANGED <<ticks, ms, oldTicks>>
    BY <1>4 DEF delayMicroseconds, Call
  <2>2. /\ Micros \in Nat /\ micros = Micros % WORD32
        /\ ticks - (oldTicks - ms * T) + U \div 2 < Micros * U + U
    BY MicrosWrap, MicrosIs DEF MicrosNear
  <2>3. Micros' = Micros
    BY <2>1 DEF Micros, SinceHandler
  <2>4. PICK m \in Nat : m = Micros
    BY <2>2
  <2>5. Micros' >= m
    BY <2>3, <2>4
  <2>6. BeganAt(m)'
    BY <2>1, <2>2, <2>4, <2>5 DEF BeganAt
  <2> QED
    BY <2>6 DEF MicroInv
<1>5. ASSUME NEW n \in 0..MaxWait, delay(n) \/ SetTimeout(n) PROVE MicroInv'
  BY <1>5 DEF delay, SetTimeout, Call, MicroInv
<1>6. CASE DelayReturn
  BY <1>6 DEF DelayReturn, MicroInv
<1>7. CASE UNCHANGED coreVars
  <2>1. CASE CoreTimerHandler
    BY <1>1, <2>1
  <2>2. CASE ~CoreTimerHandler
    BY <1>2, <1>7, <2>2 DEF coreVars, sketch, hist
  <2> QED
    BY <2>1, <2>2
<1> QED
  BY <1>1, <1>3, <1>4, <1>5, <1>6, <1>7 DEF CoreNext

LEMMA InitDelays == CoreInit => CallInv /\ WaitInv /\ MicroInv
<1> SUFFICES ASSUME CoreInit PROVE CallInv /\ WaitInv /\ MicroInv
  OBVIOUS
<1>1. /\ doing = "idle" /\ arg = 0 /\ start = 0 /\ began = 0 /\ ticks = 0 /\ Timeout = 0
      /\ back = FALSE
  BY DEF CoreInit
<1>2. back \in BOOLEAN
  BY <1>1, Zenon
<1>3. 0 \in 0..MaxWait /\ 0 \in 0..(WORD32 - 1)
  BY CoreConstants
<1> QED
  BY <1>1, <1>2, <1>3 DEF CallInv, WaitInv, MicroInv, Waits

(* A delay in microseconds does not end early while micros() goes forward. *)
LEMMA MicroDelayIs ==
    ASSUME CallInv, TimeInv, MicroInv
    PROVE  MicroDelayHolds
<1> SUFFICES ASSUME doing = "us", DelayDone, arg > 0, ~back
             PROVE  ticks - began > (arg - 1) * U
  BY DEF MicroDelayHolds
<1>1. PICK m \in Nat : BeganAt(m)
  BY DEF MicroInv
<1>2. PICK d \in Nat : Micros = m + d
  <2>1. PICK x \in Nat : x = Micros
    BY MicrosIs DEF MicrosNear
  <2>2. x >= m
    BY <1>1, <2>1 DEF BeganAt
  <2>3. x - m \in Nat /\ x = m + (x - m)
    BY <2>2
  <2> QED
    BY <2>1, <2>3
<1>3. PICK a \in Nat, V \in Nat \ {0}, W \in Nat \ {0} : a = arg /\ V = U /\ W = WORD32
  BY CoreConstants DEF CallInv
<1>4. MicrosPassed = d % W
  <2>1. PICK c \in Int : c = m + d /\ c - m = d
    OBVIOUS
  <2>2. ((c % W) - (m % W)) % W = (c - m) % W
    <3>1. c \in Int /\ m \in Int /\ W \in Nat \ {0}
      OBVIOUS
    <3> QED
      BY <3>1, ModDifference, Zenon
  <2>3. micros = c % W /\ start = m % W
    BY <2>1, <1>1, <1>2, <1>3, MicrosWrap DEF BeganAt
  <2> QED
    BY <1>3, <2>1, <2>2, <2>3 DEF MicrosPassed
<1>5. a <= d
  <2>1. a <= d % W
    BY <1>3, <1>4 DEF DelayDone
  <2>2. d % W \in 0..(W - 1) /\ d \div W \in Nat /\ d = (d \div W) * W + (d % W)
    OBVIOUS
  <2>3. PICK q \in Nat, r \in Nat : q = d \div W /\ r = d % W
    BY <2>2
  <2>4. q * W \in Nat /\ d = q * W + r
    BY <2>2, <2>3
  <2> QED
    BY <2>1, <2>3, <2>4
<1>6. PICK g \in Nat : d = a + g
  <2>1. d - a \in Nat /\ d = a + (d - a)
    BY <1>5
  <2> QED
    BY <2>1
<1>7. PICK lag \in Int, h \in Int : lag = oldTicks - ms * T /\ h = U \div 2
  <2>1. oldTicks - ms * T \in Int /\ U \div 2 \in Int
    BY CoreConstants DEF TimeInv
  <2> QED
    BY <2>1
<1>8. /\ (m + d) * V <= ticks - lag + h
      /\ began - lag + h < m * V + V
  BY <1>1, <1>2, <1>3, <1>7, MicrosIs DEF BeganAt, MicrosNear
<1>9. /\ (m + d) * V = m * V + a * V + g * V /\ (a - 1) * V = a * V - V
      /\ m * V \in Nat /\ a * V \in Nat /\ g * V \in Nat
  <2>1. (m + d) * V = m * V + d * V /\ d * V = a * V + g * V
    BY <1>6
  <2>2. (a - 1) * V = a * V - V /\ m * V \in Nat /\ a * V \in Nat /\ g * V \in Nat
    OBVIOUS
  <2> QED
    BY <2>1, <2>2
<1>10. PICK x \in Nat, y \in Nat, z \in Nat : x = m * V /\ y = a * V /\ z = g * V
  BY <1>9
<1> QED
  BY <1>3, <1>7, <1>8, <1>9, <1>10 DEF TimeInv, CallInv

(* delay(), delayMicroseconds() and the countdown wait as long as they     *)
(* promise and no longer, across late interrupts and the wrap of the       *)
(* counters, for delays whose milliseconds fit the counter.                *)
THEOREM DelaysAreKept ==
    ASSUME DelaysFit
    PROVE  CoreSpec => []DelaysHold
<1> DEFINE Inv == CallInv /\ TimeInv /\ WaitInv /\ MicroInv
<1>1. CoreInit => Inv
  BY InitTimeInv, InitDelays
<1>2. Inv /\ [CoreNext]_coreVars => Inv'
  BY StepTimeInv, StepCallInv, StepWaitInv, StepMicroInv
<1>3. Inv => DelaysHold
  <2> SUFFICES ASSUME Inv PROVE DelayWindow /\ MicroDelayHolds
    BY DEF DelaysHold
  <2>1. DelayWindow
    <3> SUFFICES ASSUME Waits
                 PROVE  IF DelayDone THEN ticks - began >= (arg - 1 - MillisLate) * T
                        ELSE ticks - began <= arg * (T + MaxLatency)
      BY DEF DelayWindow, Waits
    <3>1. PICK j \in Nat : Ran(j)
      BY DEF WaitInv
    <3>2. /\ j >= arg => ticks - began >= (arg - 1 - MillisLate) * T
          /\ j < arg => ticks - began <= arg * Longest
      BY <3>1, WindowHolds
    <3>3. DelayDone <=> j >= arg
      BY <3>1, DoneIs
    <3> QED
      BY <3>2, <3>3 DEF Longest, CallInv
  <2>2. MicroDelayHolds
    BY MicroDelayIs
  <2> QED
    BY <2>1, <2>2
<1> QED
  BY <1>1, <1>2, <1>3, PTL DEF CoreSpec

-----------------------------------------------------------------------------
(* pulseIn. *)

(* The time at which the clock showed x. *)
Clock(x) == (x - called) % Word

PulseTypes ==
    /\ where \in {"previous", "previous.pin", "start", "start.pin", "stop", "stop.pin", "done"}
    /\ called \in 0..(Word - 1) /\ timeout_us \in Nat
    /\ init_time \in 0..(Word - 1) /\ curr_time \in 0..(Word - 1)
    /\ max_time = (called + timeout_us) % Word
    /\ pin_state \in BOOLEAN /\ pin \in BOOLEAN /\ returned \in -1..(Word - 1)
    /\ now \in 0..MaxNow /\ gap \in 0..MaxGap /\ since \in 0..now /\ pulse \in 0..now

(* The times read, and how long ago. *)
PulseTimes ==
    /\ Clock(init_time) <= Clock(curr_time) /\ Clock(curr_time) <= now
    /\ where \in {"previous.pin", "start.pin", "stop.pin"} => Clock(curr_time) = now - gap
    /\ now - gap <= Clock(curr_time) + MaxGap
    /\ where = "start.pin" => Clock(init_time) = now - gap

(* The loops go on until the time read is past the timeout. *)
PulseBudget ==
    called + timeout_us + 4 * MaxGap < Word =>
        /\ Clock(curr_time) <= timeout_us + 2 * MaxGap
        /\ where = "done" /\ returned = 0 => now >= timeout_us

(* The pin changed since the code last looked at it, lag longer ago than   *)
(* its last step: not long enough ago to change again.                     *)
Changed(lag) == since # 0 /\ since > now - gap - lag

(* x is near the moment at which the pulse began. *)
Near(x) == x - Clock(init_time) \in -MaxGap..MaxGap

(* A pulse was seen to begin: it lasts, or has just ended. *)
InPulse(lag) ==
    IF pin THEN since # 0 /\ Near(since)
           ELSE Changed(lag) /\ pulse >= MinPulse /\ Near(since - pulse)

(* A pulse was seen to begin and to end. *)
PulseSeen ==
    /\ Clock(curr_time) - Clock(init_time) - pulse \in (-2 * MaxGap)..(2 * MaxGap)
    /\ pulse >= MinPulse

PulseLevels ==
    /\ where \in {"previous", "start"} /\ ~pin_state => (pin => Changed(0))
    /\ where = "start.pin" => (pin => Changed(MaxGap))
    /\ where \in {"start", "stop"} /\ pin_state /\ curr_time < max_time => InPulse(0)
    /\ where = "stop.pin" => InPulse(MaxGap)
    /\ where = "stop" /\ ~pin_state /\ curr_time < max_time => PulseSeen /\ (pin => Changed(0))
    /\ where = "done" /\ returned # 0 =>
         /\ returned - pulse \in (-2 * MaxGap)..(2 * MaxGap) /\ pulse >= MinPulse

PulseInv == PulseTypes /\ PulseTimes /\ PulseBudget /\ PulseLevels

LEMMA PulseConstants ==
    /\ Word \in Nat \ {0} /\ MaxGap \in Nat \ {0} /\ MinPulse \in Nat /\ MinPulse > 2 * MaxGap
    /\ MaxNow \in Nat /\ MaxNow < Word
BY PulseAssumption

LEMMA ClockIs ==
    ASSUME PulseTypes, NEW x \in 0..(Word - 1)
    PROVE  Clock(x) \in 0..(Word - 1) /\ x = (called + Clock(x)) % Word
<1>1. PICK W \in Nat \ {0}, c \in Int, d \in Int : W = Word /\ c = called /\ d = x - called /\ c + d = x
  <2>1. called \in Int /\ x - called \in Int /\ called + (x - called) = x
    BY PulseConstants DEF PulseTypes
  <2> QED
    BY <2>1, PulseConstants
<1>2. ((d % W) + c) % W = (d + c) % W
  BY ModOfMod
<1>3. d % W \in 0..(W - 1) /\ (d % W) + c = c + (d % W) /\ d + c = c + d
  OBVIOUS
<1>4. (c + d) % W = x
  <2>1. x \in 0..(W - 1) /\ W \in Nat \ {0}
    BY <1>1
  <2>2. x % W = x
    BY <2>1, ModSmall, Zenon
  <2> QED
    BY <1>1, <2>2
<1> QED
  BY <1>1, <1>2, <1>3, <1>4 DEF Clock

LEMMA NowIs ==
    ASSUME PulseTypes
    PROVE  Clock(microsNow) = now /\ microsNow \in 0..(Word - 1)
<1>1. PICK W \in Nat \ {0}, c \in Int, s \in Int : W = Word /\ c = called /\ s = called + now
  BY PulseConstants DEF PulseTypes
<1>2. ((s % W) - c) % W = (s - c) % W
  <2>1. ((s % W) + (-c)) % W = (s + (-c)) % W
    <3>1. W \in Nat \ {0} /\ s \in Int /\ -c \in Int
      OBVIOUS
    <3> QED
      BY <3>1, ModOfMod, Zenon
  <2>2. (s % W) + (-c) = (s % W) - c /\ s + (-c) = s - c
    OBVIOUS
  <2> QED
    BY <2>1, <2>2
<1>3. s - c = now /\ now \in 0..(W - 1)
  BY <1>1, PulseConstants DEF PulseTypes
<1>4. now % W = now
  BY <1>3, ModSmall
<1>5. s % W \in 0..(W - 1)
  OBVIOUS
<1> QED
  BY <1>1, <1>2, <1>3, <1>4, <1>5 DEF Clock, microsNow

(* A time before the timeout reads as one, unless the clock may wrap. *)
LEMMA BeforeMax ==
    ASSUME PulseTypes, called + timeout_us + 4 * MaxGap < Word,
           Clock(curr_time) <= timeout_us + 2 * MaxGap
    PROVE  curr_time < max_time <=> Clock(curr_time) < timeout_us
<1>1. PICK r \in Nat : r = Clock(curr_time) /\ curr_time = (called + r) % Word
  <2>1. curr_time \in 0..(Word - 1)
    BY DEF PulseTypes
  <2> QED
    BY <2>1, ClockIs, PulseConstants
<1>2. (called + r) % Word = called + r
  <2>1. called + r \in 0..(Word - 1) /\ Word \in Nat \ {0}
    BY <1>1, PulseConstants DEF PulseTypes
  <2> QED
    BY <2>1, ModSmall
<1>3. (called + timeout_us) % Word = called + timeout_us
  <2>1. called + timeout_us \in 0..(Word - 1) /\ Word \in Nat \ {0}
    BY PulseConstants DEF PulseTypes
  <2> QED
    BY <2>1, ModSmall
<1> QED
  BY <1>1, <1>2, <1>3 DEF PulseTypes

LEMMA InitPulseInv == PulseInit => PulseInv
<1> SUFFICES ASSUME PulseInit PROVE PulseInv
  OBVIOUS
<1>1. /\ where = "previous.pin" /\ init_time = called /\ curr_time = called /\ now = 0 /\ gap = 0
      /\ since = 0 /\ pulse = 0 /\ pin_state = FALSE /\ returned = -1 /\ pin \in BOOLEAN
      /\ called \in 0..(Word - 1) /\ timeout_us \in Nat
      /\ max_time = (called + timeout_us) % Word
  BY PulseAssumption DEF PulseInit
<1>2. pin_state \in BOOLEAN
  BY <1>1, Zenon
<1>3. PulseTypes
  BY <1>1, <1>2, PulseConstants DEF PulseTypes
<1>4. Clock(curr_time) = 0 /\ Clock(init_time) = 0
  <2>1. called - called = 0 /\ 0 % Word = 0
    <3>1. 0 \in 0..(Word - 1) /\ Word \in Nat \ {0}
      BY PulseConstants
    <3> QED
      BY <1>1, <3>1, ModSmall
  <2> QED
    BY <1>1, <2>1 DEF Clock
<1> QED
  BY <1>1, <1>3, <1>4, PulseConstants DEF PulseInv, PulseTimes, PulseBudget, PulseLevels

LEMMA StepTypes ==
    ASSUME PulseTypes, [PulseNext]_pulseVars
    PROVE  PulseTypes'
<1>1. ASSUME NEW p \in {"previous", "start", "stop"},
             NEW n \in {"previous.pin", "start.pin", "stop.pin"}, ReadTime(p, n)
      PROVE  PulseTypes'
  <2>1. /\ curr_time' = microsNow /\ init_time' \in {init_time, microsNow} /\ where' = n /\ gap' = 0
        /\ UNCHANGED <<max_time, pin_state, returned, pin, now, called, timeout_us, since, pulse>>
    BY <1>1 DEF ReadTime, InitTime
  <2>2. curr_time' \in 0..(Word - 1) /\ init_time' \in 0..(Word - 1)
    BY <2>1, NowIs DEF PulseTypes
  <2> QED
    BY <2>1, <2>2, PulseConstants DEF PulseTypes
<1>2. ASSUME NEW p \in {"previous", "start", "stop"},
             NEW n \in {"previous.pin", "start.pin", "stop.pin"}, ReadPin(n, p)
      PROVE  PulseTypes'
  <2>1. /\ pin_state' = pin /\ where' = p /\ gap' = 0
        /\ UNCHANGED <<init_time, curr_time, max_time, returned, pin, now, called, timeout_us,
                       since, pulse>>
    BY <1>2 DEF ReadPin
  <2> QED
    BY <2>1, PulseConstants DEF PulseTypes
<1>3. ASSUME NEW p \in {"previous", "start"}, NEW n \in {"start", "stop"}, NextLoop(p, n)
      PROVE  PulseTypes'
  BY <1>3 DEF NextLoop, PulseTypes
<1>4. CASE PulseReturn
  <2>1. /\ where' = "done"
        /\ returned' = IF curr_time < max_time THEN (curr_time - init_time) % Word ELSE 0
        /\ UNCHANGED <<init_time, curr_time, max_time, pin_state, pin, now, called, timeout_us, gap,
                       since, pulse>>
    BY <1>4 DEF PulseReturn
  <2>2. returned' \in -1..(Word - 1)
    <3>1. PICK W \in Nat \ {0}, d \in Int : W = Word /\ d = curr_time - init_time
      BY PulseConstants DEF PulseTypes
    <3>2. d % W \in 0..(W - 1)
      OBVIOUS
    <3> QED
      BY <2>1, <3>1, <3>2
  <2> QED
    BY <2>1, <2>2 DEF PulseTypes
<1>5. ASSUME NEW change \in BOOLEAN, Tick(change) PROVE PulseTypes'
  <2>1. /\ gap < MaxGap /\ now < MaxNow /\ now' = now + 1 /\ gap' = gap + 1
        /\ pin' \in {pin, ~pin} /\ since' \in {since, now + 1} /\ pulse' \in {pulse, now + 1 - since}
        /\ UNCHANGED <<where, init_time, curr_time, max_time, pin_state, returned, called, timeout_us>>
    BY <1>5 DEF Tick, code
  <2>2. pin' \in BOOLEAN
    BY <2>1, Zenon DEF PulseTypes
  <2>3. /\ now' \in 0..MaxNow /\ gap' \in 0..MaxGap /\ since' \in 0..now' /\ pulse' \in 0..now'
    BY <2>1, PulseConstants DEF PulseTypes
  <2> QED
    BY <2>1, <2>2, <2>3 DEF PulseTypes
<1>6. CASE UNCHANGED pulseVars
  BY <1>6 DEF pulseVars, code, PulseTypes
<1> QED
  BY <1>1, <1>2, <1>3, <1>4, <1>5, <1>6 DEF PulseNext

LEMMA StepTimes ==
    ASSUME PulseTypes, PulseTimes, PulseBudget, [PulseNext]_pulseVars, ~PulseReturn
    PROVE  PulseTimes' /\ PulseBudget'
<1>1. PICK b \in Nat, r \in Nat : b = Clock(init_time) /\ r = Clock(curr_time) /\ b <= r /\ r <= now
  <2>1. init_time \in 0..(Word - 1) /\ curr_time \in 0..(Word - 1)
    BY DEF PulseTypes
  <2>2. Clock(init_time) \in Nat /\ Clock(curr_time) \in Nat
    BY <2>1, ClockIs, PulseConstants
  <2> QED
    BY <2>2 DEF PulseTimes
<1>2. ASSUME NEW p \in {"previous", "start", "stop"},
             NEW n \in {"previous.pin", "start.pin", "stop.pin"}, ReadTime(p, n),
             n = "start.pin" <=> p = "start"
      PROVE  PulseTimes' /\ PulseBudget'
  <2>1. /\ curr_time' = microsNow /\ init_time' = (IF p = "start" THEN microsNow ELSE init_time)
        /\ where' = n /\ gap' = 0 /\ now' = now /\ called' = called /\ timeout_us' = timeout_us
        /\ curr_time < max_time
    BY <1>2 DEF ReadTime, InitTime, Continues
  <2>2. Clock(curr_time)' = now /\ Clock(init_time)' = IF p = "start" THEN now ELSE b
    BY <1>1, <2>1, NowIs DEF Clock
  <2>3. PulseTimes'
    BY <1>1, <1>2, <2>1, <2>2, PulseConstants DEF PulseTimes, PulseTypes
  <2>4. PulseBudget'
    <3> SUFFICES ASSUME called + timeout_us + 4 * MaxGap < Word
                 PROVE  now <= timeout_us + 2 * MaxGap
      BY <2>1, <2>2 DEF PulseBudget
    <3>1. r < timeout_us
      BY <1>1, <2>1, BeforeMax DEF PulseBudget
    <3>2. now - gap <= r + MaxGap
      BY <1>1 DEF PulseTimes
    <3> QED
      BY <3>1, <3>2, PulseConstants DEF PulseTypes
  <2> QED
    BY <2>3, <2>4
<1>3. ASSUME NEW p \in {"previous", "start", "stop"},
             NEW n \in {"previous.pin", "start.pin", "stop.pin"}, ReadPin(n, p)
      PROVE  PulseTimes' /\ PulseBudget'
  <2>1. /\ where = n /\ where' = p /\ gap' = 0
        /\ UNCHANGED <<init_time, curr_time, now, called, timeout_us>>
    BY <1>3 DEF ReadPin
  <2>2. Clock(curr_time)' = r /\ Clock(init_time)' = b
    BY <1>1, <2>1 DEF Clock
  <2>3. r = now - gap
    BY <1>1, <2>1 DEF PulseTimes
  <2> QED
    BY <1>1, <2>1, <2>2, <2>3, PulseConstants DEF PulseTimes, PulseTypes, PulseBudget
<1>4. ASSUME NEW p \in {"previous", "start"}, NEW n \in {"start", "stop"}, NextLoop(p, n)
      PROVE  PulseTimes' /\ PulseBudget'
  <2>1. where' = n /\ UNCHANGED <<init_time, curr_time, now, gap, called, timeout_us>>
    BY <1>4 DEF NextLoop
  <2>2. Clock(curr_time)' = r /\ Clock(init_time)' = b
    BY <1>1, <2>1 DEF Clock
  <2> QED
    BY <1>1, <2>1, <2>2 DEF PulseTimes, PulseBudget
<1>5. ASSUME NEW change \in BOOLEAN, Tick(change) PROVE PulseTimes' /\ PulseBudget'
  <2>1. /\ where # "done" /\ now' = now + 1 /\ gap' = gap + 1
        /\ UNCHANGED <<where, init_time, curr_time, called, timeout_us>>
    BY <1>5 DEF Tick, code
  <2>2. Clock(curr_time)' = r /\ Clock(init_time)' = b
    BY <1>1, <2>1 DEF Clock
  <2>3. now' - gap' = now - gap
    BY <2>1 DEF PulseTypes
  <2> QED
    BY <1>1, <2>1, <2>2, <2>3 DEF PulseTimes, PulseBudget, PulseTypes
<1>6. CASE UNCHANGED pulseVars
  BY <1>6 DEF pulseVars, code, PulseTimes, PulseBudget, Clock
<1> QED
  BY <1>2, <1>3, <1>4, <1>5, <1>6 DEF PulseNext

(* A step that looks at the pin. *)
LEMMA StepLevels ==
    ASSUME PulseTypes, PulseTimes, PulseLevels, [PulseNext]_pulseVars, ~PulseReturn
    PROVE  PulseLevels'
<1>1. PICK b \in Nat, r \in Nat : b = Clock(init_time) /\ r = Clock(curr_time) /\ b <= r /\ r <= now
  <2>1. init_time \in 0..(Word - 1) /\ curr_time \in 0..(Word - 1)
    BY DEF PulseTypes
  <2>2. Clock(init_time) \in Nat /\ Clock(curr_time) \in Nat
    BY <2>1, ClockIs, PulseConstants
  <2> QED
    BY <2>2 DEF PulseTimes
<1>2. CASE ReadTime("previous", "previous.pin")
  BY <1>2 DEF ReadTime, PulseLevels
<1>3. CASE ReadTime("start", "start.pin")
  <2>1. /\ where = "start" /\ ~pin_state /\ where' = "start.pin" /\ gap' = 0
        /\ UNCHANGED <<pin, now, since>>
    BY <1>3 DEF ReadTime, Continues, Loop
  <2>2. pin => Changed(0)
    BY <2>1 DEF PulseLevels
  <2>3. (pin => Changed(MaxGap))'
    BY <2>1, <2>2, PulseConstants DEF Changed, PulseTypes
  <2> QED
    BY <2>1, <2>3 DEF PulseLevels
<1>4. CASE ReadTime("stop", "stop.pin")
  <2>1. /\ where = "stop" /\ pin_state /\ curr_time < max_time /\ where' = "stop.pin" /\ gap' = 0
        /\ UNCHANGED <<init_time, pin, now, since, pulse, called>>
    BY <1>4 DEF ReadTime, Continues, Loop, InitTime
  <2>2. InPulse(0)
    BY <2>1 DEF PulseLevels
  <2>3. Clock(init_time)' = Clock(init_time)
    BY <2>1 DEF Clock
  <2>4. InPulse(MaxGap)'
    BY <2>1, <2>2, <2>3, PulseConstants DEF InPulse, Near, Changed, PulseTypes
  <2> QED
    BY <2>1, <2>4 DEF PulseLevels
<1>5. ASSUME NEW p \in {"previous", "start", "stop"},
             NEW n \in {"previous.pin", "start.pin", "stop.pin"}, ReadPin(n, p),
             <<p, n>> \in {<<"previous", "previous.pin">>, <<"start", "start.pin">>, <<"stop", "stop.pin">>}
      PROVE  PulseLevels'
  <2>1. /\ where = n /\ where' = p /\ pin_state' = pin /\ gap' = 0
        /\ UNCHANGED <<init_time, curr_time, max_time, returned, pin, now, called, since, pulse>>
    BY <1>5 DEF ReadPin
  <2>2. Clock(curr_time)' = r /\ Clock(init_time)' = b /\ r = now - gap
    BY <1>1, <2>1 DEF Clock, PulseTimes
  <2>3. CASE p = "previous"
    BY <2>1, <2>3 DEF PulseLevels
  <2>4. CASE p = "start"
    <3>1. (pin => Changed(MaxGap)) /\ b = now - gap
      BY <1>1, <1>5, <2>1, <2>4 DEF PulseLevels, PulseTimes
    <3>2. pin => InPulse(0)'
      BY <1>1, <2>1, <2>2, <3>1, PulseConstants DEF Changed, InPulse, Near, PulseTypes
    <3> QED
      BY <2>1, <2>4, <3>2 DEF PulseLevels
  <2>5. CASE p = "stop"
    <3>1. InPulse(MaxGap)
      BY <1>5, <2>1, <2>5 DEF PulseLevels
    <3>2. pin => InPulse(0)'
      BY <1>1, <2>1, <2>2, <3>1 DEF InPulse, Near
    <3>3. ~pin => PulseSeen'
      BY <1>1, <2>1, <2>2, <3>1, PulseConstants DEF Changed, InPulse, Near, PulseSeen, PulseTypes
    <3> QED
      BY <2>1, <2>5, <3>2, <3>3 DEF PulseLevels
  <2> QED
    BY <1>5, <2>3, <2>4, <2>5
<1>6. ASSUME NEW p \in {"previous", "start"}, NEW n \in {"start", "stop"}, NextLoop(p, n),
             <<p, n>> \in {<<"previous", "start">>, <<"start", "stop">>}
      PROVE  PulseLevels'
  <2>1. /\ where = p /\ where' = n /\ ~Continues(p)
        /\ UNCHANGED <<init_time, curr_time, max_time, pin_state, returned, pin, now, called, gap,
                       since, pulse>>
    BY <1>6 DEF NextLoop
  <2>2. /\ InPulse(0)' = InPulse(0) /\ Changed(0)' = Changed(0)
    BY <2>1 DEF InPulse, Changed, Near, Clock
  <2>3. CASE p = "previous"
    <3>1. curr_time < max_time => ~pin_state
      BY <2>1, <2>3 DEF Continues, Loop
    <3>2. ~pin_state => (pin => Changed(0))
      BY <2>1, <2>3 DEF PulseLevels
    <3> QED
      BY <1>6, <2>1, <2>2, <2>3, <3>1, <3>2 DEF PulseLevels
  <2>4. CASE p = "start"
    <3>1. curr_time < max_time => pin_state
      BY <2>1, <2>4 DEF Continues, Loop
    <3>2. pin_state /\ curr_time < max_time => InPulse(0)
      BY <2>1, <2>4 DEF PulseLevels
    <3> QED
      BY <1>6, <2>1, <2>2, <2>4, <3>1, <3>2 DEF PulseLevels
  <2> QED
    BY <2>3, <2>4
<1>7. ASSUME NEW change \in BOOLEAN, Tick(change) PROVE PulseLevels'
  <2>1. /\ where # "done" /\ gap < MaxGap /\ now' = now + 1 /\ gap' = gap + 1
        /\ change => (since = 0 \/ now + 1 - since >= MinPulse)
        /\ pin' = (IF change THEN ~pin ELSE pin)
        /\ since' = (IF change THEN now + 1 ELSE since)
        /\ pulse' = (IF change /\ pin /\ since # 0 THEN now + 1 - since ELSE pulse)
        /\ UNCHANGED <<where, init_time, curr_time, max_time, pin_state, called>>
    BY <1>7 DEF Tick, code
  <2>2. Clock(curr_time)' = r /\ Clock(init_time)' = b
    BY <1>1, <2>1 DEF Clock
  <2>3. ASSUME NEW lag \in {0, MaxGap}, Changed(lag)
        PROVE  ~change /\ Changed(lag)'
    BY <2>1, <2>3, PulseConstants DEF Changed, PulseTypes
  <2>4. ASSUME NEW lag \in {0, MaxGap}, change PROVE Changed(lag)'
    BY <2>1, <2>4, PulseConstants DEF Changed, PulseTypes
  <2>5. ASSUME NEW lag \in {0, MaxGap}, pin => Changed(lag) PROVE (pin => Changed(lag))'
    <3>1. CASE change
      BY <2>4, <3>1
    <3>2. CASE ~change
      BY <2>1, <2>3, <2>5, <3>2
    <3> QED
      BY <3>1, <3>2
  <2>6. ASSUME NEW lag \in {0, MaxGap}, InPulse(lag) PROVE InPulse(lag)'
    <3>1. CASE pin /\ change
      <4>1. Changed(lag)'
        BY <2>4, <3>1
      <4>2. ~pin' /\ pulse' = now + 1 - since /\ since' = now + 1 /\ pulse' >= MinPulse
        BY <2>1, <2>6, <3>1 DEF InPulse
      <4>3. since' - pulse' = since
        BY <4>2 DEF PulseTypes
      <4> QED
        BY <1>1, <2>2, <2>6, <3>1, <4>1, <4>2, <4>3 DEF InPulse, Near
    <3>2. CASE pin /\ ~change
      BY <1>1, <2>1, <2>2, <2>6, <3>2 DEF InPulse, Near
    <3>3. CASE ~pin
      <4>1. ~change /\ Changed(lag)'
        BY <2>3, <2>6, <3>3 DEF InPulse
      <4> QED
        BY <1>1, <2>1, <2>2, <2>6, <3>3, <4>1 DEF InPulse, Near
    <3> QED
      BY <3>1, <3>2, <3>3
  <2>7. ASSUME PulseSeen, pin => Changed(0) PROVE PulseSeen'
    <3>1. pulse' = pulse
      BY <2>1, <2>3, <2>7
    <3> QED
      BY <1>1, <2>2, <2>7, <3>1 DEF PulseSeen
  <2> QED
    BY <2>1, <2>5, <2>6, <2>7 DEF PulseLevels
<1>8. CASE UNCHANGED pulseVars
  BY <1>8 DEF pulseVars, code, PulseLevels, InPulse, PulseSeen, Changed, Near, Clock
<1>9. CASE ReadPin("previous.pin", "previous") \/ ReadPin("start.pin", "start")
             \/ ReadPin("stop.pin", "stop")
  BY <1>5, <1>9
<1>10. CASE NextLoop("previous", "start") \/ NextLoop("start", "stop")
  BY <1>6, <1>10
<1>11. PulseNext \/ UNCHANGED pulseVars
  OBVIOUS
<1> QED
  BY <1>2, <1>3, <1>4, <1>7, <1>8, <1>9, <1>10, <1>11, Zenon DEF PulseNext

LEMMA ReturnIsRight ==
    ASSUME PulseInv, PulseReturn
    PROVE  PulseTimes' /\ PulseBudget' /\ PulseLevels'
<1>1. PICK b \in 0..(Word - 1), r \in 0..(Word - 1) :
        /\ b = Clock(init_time) /\ r = Clock(curr_time) /\ b <= r /\ r <= now
        /\ init_time = (called + b) % Word /\ curr_time = (called + r) % Word
  <2>1. init_time \in 0..(Word - 1) /\ curr_time \in 0..(Word - 1) /\ PulseTypes
    BY DEF PulseTypes, PulseInv
  <2> QED
    BY <2>1, ClockIs DEF PulseTimes, PulseInv
<1>2. /\ where = "stop" /\ where' = "done" /\ ~(pin_state /\ curr_time < max_time)
      /\ returned' = IF curr_time < max_time THEN (curr_time - init_time) % Word ELSE 0
      /\ UNCHANGED <<init_time, curr_time, max_time, pin_state, pin, now, called, timeout_us, gap,
                     since, pulse>>
  BY DEF PulseReturn, Continues, Loop
<1>3. Clock(curr_time)' = r /\ Clock(init_time)' = b
  BY <1>1, <1>2 DEF Clock
<1>4. (((called + r) % Word) - ((called + b) % Word)) % Word = r - b
  <2>1. PICK W \in Nat \ {0}, x \in Int, y \in Int :
          W = Word /\ x = called + r /\ y = called + b /\ x - y = r - b /\ x - y \in 0..(W - 1)
    <3>1. called + r \in Int /\ called + b \in Int /\ (called + r) - (called + b) = r - b
      BY PulseConstants DEF PulseTypes, PulseInv
    <3>2. Word \in Nat \ {0} /\ r - b \in 0..(Word - 1)
      BY <1>1, PulseConstants
    <3> QED
      BY <3>1, <3>2
  <2>2. ((x % W) - (y % W)) % W = x - y
    BY <2>1, ModDistance
  <2> QED
    BY <2>1, <2>2
<1>5. CASE curr_time < max_time
  <2>1. returned' = r - b
    <3>1. returned' = (curr_time - init_time) % Word
      BY <1>2, <1>5
    <3>2. curr_time = (called + r) % Word /\ init_time = (called + b) % Word
      BY <1>1
    <3> QED
      BY <1>4, <3>1, <3>2, Zenon
  <2>2. r - b - pulse \in (-2 * MaxGap)..(2 * MaxGap) /\ pulse >= MinPulse
    BY <1>1, <1>2, <1>5 DEF PulseInv, PulseLevels, PulseSeen
  <2>3. r - b # 0
    BY <2>2, PulseConstants DEF PulseInv, PulseTypes
  <2> QED
    BY <1>1, <1>2, <1>3, <2>1, <2>2, <2>3 DEF PulseInv, PulseTimes, PulseBudget, PulseLevels
<1>6. CASE ~(curr_time < max_time)
  <2>1. returned' = 0
    BY <1>2, <1>6
  <2>2. ASSUME called + timeout_us + 4 * MaxGap < Word PROVE now >= timeout_us
    <3>1. ~(r < timeout_us)
      BY <1>1, <1>6, <2>2, BeforeMax DEF PulseInv, PulseBudget
    <3> QED
      BY <1>1, <3>1 DEF PulseInv, PulseTypes
  <2> QED
    BY <1>1, <1>2, <1>3, <2>1, <2>2 DEF PulseInv, PulseTimes, PulseBudget, PulseLevels
<1> QED
  BY <1>5, <1>6

LEMMA StepPulseInv == PulseInv /\ [PulseNext]_pulseVars => PulseInv'
<1> SUFFICES ASSUME PulseInv, [PulseNext]_pulseVars PROVE PulseInv'
  OBVIOUS
<1>1. PulseTypes'
  BY StepTypes DEF PulseInv
<1>2. CASE PulseReturn
  BY <1>1, <1>2, ReturnIsRight DEF PulseInv
<1>3. CASE ~PulseReturn
  BY <1>1, <1>3, StepTimes, StepLevels DEF PulseInv
<1> QED
  BY <1>2, <1>3

(* What pulseIn() returns is the length of the last pulse within two gaps  *)
(* of polling, through a wrap of micros(), and it gives up on time.        *)
THEOREM PulseIsRight == PulseSpec => []PulseRight
<1>1. PulseInv => PulseRight
  <2> SUFFICES ASSUME PulseInv PROVE Measured /\ GivesUpOnTime
    BY DEF PulseRight
  <2>1. Measured
    BY PulseConstants DEF PulseInv, PulseLevels, PulseTypes, Measured
  <2>2. ASSUME called + timeout_us + 4 * MaxGap < Word
        PROVE  now <= timeout_us + 4 * MaxGap
    <3>1. PICK r \in Nat : r = Clock(curr_time)
      <4>1. curr_time \in 0..(Word - 1) /\ PulseTypes
        BY DEF PulseInv, PulseTypes
      <4> QED
        BY <4>1, ClockIs, PulseConstants
    <3>2. r <= timeout_us + 2 * MaxGap /\ now - gap <= r + MaxGap
      BY <2>2, <3>1 DEF PulseInv, PulseBudget, PulseTimes
    <3> QED
      BY <3>2, PulseConstants DEF PulseInv, PulseTypes
  <2> QED
    BY <2>1, <2>2 DEF GivesUpOnTime, PulseInv, PulseBudget
<1> QED
  BY <1>1, InitPulseInv, StepPulseInv, PTL DEF PulseSpec

-----------------------------------------------------------------------------
(* The composition. *)

(* Each driver keeps its types. *)
THEOREM WifiTypes == WifiSpec => []WifiTypeOK
<1>1. WifiInv => WifiTypeOK
  BY DEF WifiInv
<1> QED
  BY <1>1, InitWifiInv, StepWifiInv, PTL DEF WifiSpec

THEOREM PwmTypes == PwmSpec => []PwmTypeOK
<1>1. PwmInv => PwmTypeOK
  BY DEF PwmInv
<1> QED
  BY <1>1, InitPwmInv, StepPwmInv, PTL DEF PwmSpec

THEOREM SpiTypes == SpiSpec => []SpiTypeOK
<1>1. SpiInv => SpiTypeOK
  BY DEF SpiInv
<1> QED
  BY <1>1, InitSpiInv, StepSpiInv, PTL DEF SpiSpec

THEOREM CoreTypes == CoreSpec => []CoreTypeOK
<1> DEFINE Inv == CallInv /\ TimeInv
<1>1. CoreInit => Inv
  BY InitTimeInv, InitDelays
<1>2. Inv /\ [CoreNext]_coreVars => Inv'
  BY StepTimeInv, StepCallInv
<1>3. Inv => CoreTypeOK
  <2> SUFFICES ASSUME Inv PROVE CoreTypeOK
    OBVIOUS
  <2>1. /\ oldTicks % WORD32 \in 0..(WORD32 - 1) /\ ms % WORD32 \in 0..(WORD32 - 1)
        /\ (oldTicks + T) % WORD32 \in 0..(WORD32 - 1)
    BY CoreConstants DEF TimeInv
  <2> QED
    BY <2>1 DEF CoreTypeOK, CallInv, TimeInv
<1> HIDE DEF Inv
<1> QED
  BY <1>1, <1>2, <1>3, PTL DEF CoreSpec

THEOREM PulseTypesOK == PulseSpec => []PulseTypeOK
<1>1. PulseInv => PulseTypeOK
  <2> SUFFICES ASSUME PulseInv PROVE PulseTypeOK
    OBVIOUS
  <2>1. (called + timeout_us) % Word \in 0..(Word - 1)
    BY PulseConstants DEF PulseInv, PulseTypes
  <2> QED
    BY <2>1 DEF PulseInv, PulseTypes, PulseTypeOK
<1> QED
  BY <1>1, InitPulseInv, StepPulseInv, PTL DEF PulseSpec

(* A behaviour of the composition is a behaviour of each driver, so that   *)
(* the theorems about the drivers hold of it.                              *)
THEOREM PeripheralsAreComponents ==
    PeripheralsSpec => /\ Spec /\ SpiSpec /\ WifiSpec
                       /\ CoreSpec /\ PulseSpec /\ PwmSpec
<1>1. PeripheralsInit => Init /\ SpiInit /\ WifiInit /\ CoreInit /\ PulseInit /\ PwmInit
  BY DEF PeripheralsInit
<1>2. [PeripheralsNext]_<<active, vars, spiVars, wifiVars, coreVars, pulseVars, pwmVars>>
          => /\ [Next]_vars /\ [SpiNext]_spiVars /\ [WifiNext]_wifiVars
             /\ [CoreNext]_coreVars /\ [PulseNext]_pulseVars /\ [PwmNext]_pwmVars
  BY DEF PeripheralsNext
<1> QED
  BY <1>1, <1>2, PTL DEF PeripheralsSpec, Spec, SpiSpec, WifiSpec, CoreSpec, PulseSpec, PwmSpec

(* No buffer of a driver exceeds its capacity and no register its width,   *)
(* whichever driver a behaviour exercises.                                 *)
THEOREM PeripheralsTypesOK == PeripheralsSpec => []TypesOK
<1>1. TypeOK /\ SpiTypeOK /\ WifiTypeOK /\ CoreTypeOK /\ PulseTypeOK /\ PwmTypeOK => TypesOK
  BY DEF TypesOK
<1> QED
  BY <1>1, WireTyped, SpiTypes, WifiTypes, CoreTypes, PulseTypesOK, PwmTypes,
     PeripheralsAreComponents, PTL
=============================================================================
