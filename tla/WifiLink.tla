------------------------------ MODULE WifiLink ------------------------------
(***************************************************************************)
(* Bringing the WiFi interface up (libraries/mrf24wn/arduino/v1/           *)
(* wdrv_mrf24wn.c): WIFI_Init() in a task of the sketch, and the driver's  *)
(* connect event, wifi_set_state() and the interface's status callback in  *)
(* the tasks of the driver and of lwIP, which run as soon as netif_add()   *)
(* has started the driver.  WIFI_Init() waits for a task notification that *)
(* the status callback sends.                                              *)
(* External: the binary driver decides when the link comes and goes and    *)
(* reports it once each time; lwIP reports every change of the interface   *)
(* through the status callback, and its DHCP keeps an address until the    *)
(* link goes; FreeRTOS keeps a notification until the task waits for one.  *)
(***************************************************************************)
EXTENDS Naturals

CONSTANT MaxEvents   \* bound: how often the link comes up

ASSUME WifiLinkAssumption == MaxEvents \in Nat

VARIABLES once,
          at,            \* WIFI_Init: "out", "add", "register", "wait"
          blocks,       \* its argument: is it not 0?
          res,           \* its last result, or "none"
          waiting_task,  \* is it set?
          notified,      \* was the sketch's task notified?
          started,       \* has netif_add() started the driver?
          up,            \* NETIF_FLAG_UP, set and cleared by wifi_set_state
          ip,            \* WLAN.ip_addr: 0 or the number of the link it was leased on
          dhcp,          \* is DHCP looking for an address?
          link,          \* how often the link came up
          closing,       \* wifi_set_state(false): "no", "stop", "clear", what it does next
          had            \* history: has the interface had an address since
                         \* waiting_task was assigned?

task == <<once, at, blocks, res>>
wifiVars == <<task, waiting_task, notified, started, up, ip, dhcp, link, closing, had>>

WifiInit ==
    /\ once = FALSE /\ at = "out" /\ blocks = FALSE /\ res = "none"
    /\ waiting_task = FALSE /\ notified = FALSE /\ started = FALSE
    /\ up = FALSE /\ ip = 0 /\ dhcp = FALSE /\ link = 0
    /\ closing = "no" /\ had = FALSE

-----------------------------------------------------------------------------
WIFI_Init(t) ==
    /\ at = "out"
    /\ IF once THEN res' = "AGAIN" /\ UNCHANGED <<once, at, blocks>>
               ELSE once' = TRUE /\ at' = "add" /\ blocks' = t /\ res' = "none"
    /\ UNCHANGED <<waiting_task, notified, started, up, ip, dhcp, link, closing, had>>

(* wifi_netif_init(), which calls WDRV_Init() through netif_add(). *)
NetifInit ==
    /\ at = "add"
    /\ \/ /\ started' = TRUE
          /\ at' = "register" /\ UNCHANGED res
       \/ /\ at' = "out" /\ res' = "ERR_NETIF"
          /\ UNCHANGED started
    /\ UNCHANGED <<once, blocks, waiting_task, notified, up, ip, dhcp, link, closing, had>>

Register ==
    /\ at = "register"
    /\ waiting_task' = blocks
    /\ IF blocks THEN at' = "wait" /\ UNCHANGED res ELSE at' = "out" /\ res' = "OK"
    /\ had' = (ip # 0)
    /\ UNCHANGED <<once, blocks, notified, started, up, ip, dhcp, link, closing>>

(* xTaskNotifyWait(1, 1, &evBits, timeout) *)
Notified ==
    /\ at = "wait" /\ notified
    /\ at' = "out" /\ res' = "OK" /\ notified' = FALSE
    /\ UNCHANGED <<once, blocks, waiting_task, started, up, ip, dhcp, link, closing, had>>

TimedOut ==
    /\ at = "wait" /\ ~notified
    /\ at' = "out" /\ res' = "ERR_TIMEOUT"
    /\ UNCHANGED <<once, blocks, waiting_task, notified, started, up, ip, dhcp, link, closing, had>>

-----------------------------------------------------------------------------
NotifiesAnyAddress(addr) == notified' = (waiting_task \/ notified)

(* wifi_dhcp_ip_ready_callback, called with the address the interface has. *)
ip_ready_callback(addr) == notified' = (notified \/ (addr # 0 /\ waiting_task))

(* Connect_CB(true): the interface goes up, and DHCP starts if it has no   *)
(* address; dhcp_start() may fail for lack of memory.                      *)
Connected ==
    /\ started /\ ~up /\ closing = "no" /\ link < MaxEvents
    /\ up' = TRUE /\ link' = link + 1
    /\ ip_ready_callback(ip)
    /\ IF ip = 0 THEN dhcp' \in BOOLEAN ELSE UNCHANGED dhcp
    /\ UNCHANGED <<task, waiting_task, started, ip, closing, had>>

(* dhcp_bind(): the answer of the server may be handled at any moment      *)
(* before dhcp_stop(), when the interface may be down already.             *)
Leased ==
    /\ dhcp /\ ip = 0
    /\ ip' = link /\ had' = TRUE
    /\ ip_ready_callback(ip')
    /\ UNCHANGED <<task, waiting_task, started, up, dhcp, link, closing>>

AddressCleared == 0

(* Connect_CB(false), in three calls during which the task of lwIP and the *)
(* sketch go on: netif_set_down() reports the change while the address is  *)
(* still there, then DHCP stops, and at last the address is cleared.       *)
Disconnected ==
    /\ started /\ up /\ closing = "no"
    /\ up' = FALSE /\ closing' = "stop"
    /\ ip_ready_callback(ip)
    /\ UNCHANGED <<task, waiting_task, started, ip, dhcp, link, had>>

(* dhcp_stop() takes back an address that DHCP has given. *)
DhcpStopped ==
    /\ closing = "stop" /\ closing' = "clear"
    /\ dhcp' = FALSE /\ ip' \in {ip, 0}
    /\ UNCHANGED <<task, waiting_task, notified, started, up, link, had>>

AddressGone ==
    /\ closing = "clear" /\ closing' = "no"
    /\ ip' = AddressCleared
    /\ UNCHANGED <<task, waiting_task, notified, started, up, dhcp, link, had>>

WifiNext ==
    \/ \E t \in BOOLEAN : WIFI_Init(t)
    \/ NetifInit \/ Register \/ Notified \/ TimedOut
    \/ Connected \/ Leased
    \/ Disconnected \/ DhcpStopped \/ AddressGone

WifiSpec == WifiInit /\ [][WifiNext]_wifiVars

-----------------------------------------------------------------------------
WifiTypeOK ==
    /\ once \in BOOLEAN /\ at \in {"out", "add", "register", "wait"} /\ blocks \in BOOLEAN
    /\ res \in {"none", "OK", "AGAIN", "ERR_NETIF", "ERR_TIMEOUT"}
    /\ waiting_task \in BOOLEAN /\ notified \in BOOLEAN /\ started \in BOOLEAN
    /\ up \in BOOLEAN /\ ip \in 0..MaxEvents /\ dhcp \in BOOLEAN /\ link \in 0..MaxEvents
    /\ closing \in {"no", "stop", "clear"} /\ had \in BOOLEAN

(* The address of the interface was leased on the present link, and it is  *)
(* there while the link is up or being taken down: after the link was lost *)
(* and found again no old address is used, so that DHCP is always started  *)
(* again.                                                                  *)
AddressFresh == ip # 0 => ip = link /\ (up \/ closing # "no")

(* WIFI_Init() returns 0 to a sketch that asked it to wait only if the     *)
(* interface had an address at some moment of that wait, however many      *)
(* links came and went before and during it.                               *)
OkHadAddress == [][Notified => had]_wifiVars

(* WIFI_Init() and the link events agree on the address: it is fresh, and  *)
(* success is reported only to a task that could have seen it.             *)
AddressRight == [][AddressFresh']_wifiVars /\ OkHadAddress

(* README.md of the driver: "Init & LinkUp", "timeout - block time". While *)
(* the interface has its address, WIFI_Init() does not report a timeout.   *)
TimeoutMeansNoAddress == [][TimedOut => ip = 0]_wifiVars
=============================================================================
