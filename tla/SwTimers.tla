------------------------------ MODULE SwTimers ------------------------------
(***************************************************************************)
(* The software timers of src/src/SYS_Timers/swTimers.c: a list of running *)
(* timers in which each node holds the time left after the node before it, *)
(* advanced by swTimerTaskHandler from the main loop.                      *)
(*                                                                         *)
(* All of this runs in the main loop; the core timer interrupt only moves  *)
(* millis() forward, between any two steps.  The steps are cut where that  *)
(* interrupt matters (the two reads of millis()) and at each turn of a     *)
(* loop, so that the loops are part of the state machine.                  *)
(*                                                                         *)
(* vt, deadline, oldNow and lost are history variables: no guard reads     *)
(* them.                                                                   *)
(***************************************************************************)
EXTENDS Integers, Sequences, SequencesExt

CONSTANTS Timers,    \* the swTimer_t objects
          NoTimer,   \* NULL
          Interval,  \* the interval field of each timer
          Mode,      \* the mode field of each timer
          WORD,      \* the modulus of the uint32_t returned by millis()
          MaxTime    \* bound: the last millisecond the model lets pass

ASSUME WordAssumption == WORD \in Nat \ {0}

ASSUME TimersAssumption ==
    /\ NoTimer \notin Timers
    /\ Interval \in [Timers -> 0..(WORD - 1)]
    /\ Mode \in [Timers -> {"ONESHOT", "PERIODIC"}]

ASSUME BoundAssumption == MaxTime \in Nat

VARIABLES
    now,       \* milliseconds since reset; millis() is now % WORD
    sTimers,   \* the list, head first
    timeout,   \* timeout[t]: time left once t's predecessor has expired
    oldTime,   \* the handler's static: millis() when it last ran
    pc,        \* what the main loop is executing
    elapsed,   \* the handler's local: time still to hand out
    ptimer,    \* placeTimer's argument
    ppos,      \* placeTimer's cursor: the position it looks at
    prem,      \* placeTimer's local timeout: interval left at that position
    pret,      \* where placeTimer returns to
    vt,        \* history: milliseconds handed out so far
    deadline,  \* history: vt at which a placed timer should expire
    oldNow,    \* history: now when oldTime was last written
    lost       \* history: milliseconds no timer will ever see

code  == <<sTimers, timeout, oldTime, pc, elapsed>>
place == <<ptimer, ppos, prem, pret>>
vars  == <<now, code, place, vt, deadline, oldNow, lost>>

millis == now % WORD

Armed == ToSet(sTimers)

-----------------------------------------------------------------------------
Init ==
    /\ now = 0
    /\ sTimers = <<>>
    /\ timeout = [t \in Timers |-> 0]
    /\ oldTime = 0
    /\ pc = "main"
    /\ elapsed = 0
    /\ ptimer = NoTimer /\ ppos = 1 /\ prem = 0 /\ pret = "main"
    /\ vt = 0
    /\ deadline = [t \in Timers |-> 0]
    /\ oldNow = 0
    /\ lost = 0

(* CoreTimerHandler, seen from here: one more millisecond. *)
Tick ==
    /\ now < MaxTime
    /\ now' = now + 1
    /\ UNCHANGED <<code, place, vt, deadline, oldNow, lost>>

-----------------------------------------------------------------------------
EnterPlaceExpired(t, ret) ==
    /\ pc' = "place"
    /\ ptimer' = t
    /\ ppos' = 1
    /\ prem' = 0
    /\ pret' = ret

(* placeTimer: entered with the cursor on the head of the list. *)
EnterPlace(t, ret) ==
    /\ pc' = "place"
    /\ ptimer' = t
    /\ ppos' = 1
    /\ prem' = Interval[t]
    /\ pret' = ret

(* A timer of the same due time stays behind the ones placed before it. *)
PlaceHere == ppos <= Len(sTimers) => prem < timeout[sTimers[ppos]]

(* One turn of the search loop: this node expires first, pass it. *)
PlaceSkip ==
    /\ pc = "place"
    /\ ~PlaceHere
    /\ prem' = prem - timeout[sTimers[ppos]]
    /\ ppos' = ppos + 1
    /\ UNCHANGED <<now, code, ptimer, pret, vt, deadline, oldNow, lost>>

(* The node after t is left with a wait that still counts t's interval. *)
PlacedTimeoutsKeepsNext(t) == [timeout EXCEPT ![t] = prem]

(* The node that follows t keeps its due time: what it waits after t is    *)
(* what is left of its wait.                                               *)
PlacedTimeouts(t) ==
    [u \in Timers |->
        IF u = t THEN prem
        ELSE IF ppos <= Len(sTimers) /\ u = sTimers[ppos] THEN timeout[u] - prem
        ELSE timeout[u]]

(* The search is over: link the timer in and return. *)
PlaceInsert ==
    /\ pc = "place"
    /\ PlaceHere
    /\ timeout' = PlacedTimeouts(ptimer)
    /\ sTimers' = InsertAt(sTimers, ppos, ptimer)
    /\ pc' = IF pret = "dispatch" THEN "callback" ELSE pret
    /\ deadline' = [deadline EXCEPT ![ptimer] = vt + Interval[ptimer]]
    /\ UNCHANGED <<now, oldTime, elapsed, place, vt, oldNow, lost>>

-----------------------------------------------------------------------------
(* The sketch, in loop() or in a callback, may call swTimerStart and       *)
(* swTimerStop on any timer.  Starting a started timer and stopping a      *)
(* stopped one change nothing.                                             *)
Client == pc \in {"main", "callback"}

swTimerStart(t) ==
    /\ Client
    /\ t \notin Armed
    /\ EnterPlace(t, pc)
    /\ UNCHANGED <<now, sTimers, timeout, oldTime, elapsed,
                   vt, deadline, oldNow, lost>>

StoppedTimeoutsForgets(i) == timeout

(* What t still had to wait goes to its successor, if there is one. *)
StoppedTimeouts(i) ==
    IF i < Len(sTimers)
    THEN [timeout EXCEPT ![sTimers[i + 1]] = @ + timeout[sTimers[i]]]
    ELSE timeout

swTimerStop(t) ==
    /\ Client
    /\ \E i \in 1..Len(sTimers) :
          /\ sTimers[i] = t
          /\ timeout' = StoppedTimeouts(i)
          /\ sTimers' = RemoveAt(sTimers, i)
    /\ UNCHANGED <<now, oldTime, pc, elapsed, place,
                   vt, deadline, oldNow, lost>>

-----------------------------------------------------------------------------
(* swTimerTaskHandler.  It returns at once when no timer runs or millis()  *)
(* has not moved; otherwise it takes the time that has passed ...          *)
HandlerEnter ==
    /\ pc = "main"
    /\ sTimers # <<>>
    /\ (millis - oldTime) % WORD > 0
    /\ elapsed' = (millis - oldTime) % WORD
    /\ pc' = "sync"
    /\ UNCHANGED <<now, sTimers, timeout, oldTime, place,
                   vt, deadline, oldNow, lost>>

(* ... and reads millis() a second time to remember when that was.  What   *)
(* passed between the two reads, and whole turns of the counter that       *)
(* passed between two runs, are never handed out.                          *)
HandlerSync ==
    /\ pc = "sync"
    /\ oldTime' = millis
    /\ oldNow' = now
    /\ lost' = lost + ((now - oldNow) - elapsed)
    /\ pc' = "while"
    /\ UNCHANGED <<now, sTimers, timeout, elapsed, place, vt, deadline>>

HeadExpired == sTimers # <<>> /\ timeout[Head(sTimers)] <= elapsed

ElapsedAfterKept(t) == elapsed

(* The time the expiring head had still to wait is taken from elapsed. *)
ElapsedAfter(t) == elapsed - timeout[t]

(* One turn of the expiry loop: unlink the head, start it again if it is   *)
(* periodic, and call its callback.                                        *)
HandlerExpire ==
    /\ pc = "while"
    /\ HeadExpired
    /\ LET t == Head(sTimers) IN
          /\ elapsed' = ElapsedAfter(t)
          /\ vt' = vt + timeout[t]
          /\ IF Mode[t] = "PERIODIC"
             THEN EnterPlace(t, "dispatch")
             ELSE pc' = "callback" /\ UNCHANGED place
    /\ sTimers' = Tail(sTimers)
    /\ UNCHANGED <<now, timeout, oldTime, deadline, oldNow, lost>>

CallbackReturn ==
    /\ pc = "callback"
    /\ pc' = "while"
    /\ UNCHANGED <<now, sTimers, timeout, oldTime, elapsed, place,
                   vt, deadline, oldNow, lost>>

RemainingTimeoutsForgets == timeout

(* What is left of elapsed is taken from the head, if there is one. *)
RemainingTimeouts ==
    IF sTimers = <<>> THEN timeout
    ELSE [timeout EXCEPT ![Head(sTimers)] = @ - elapsed]

HandlerExit ==
    /\ pc = "while"
    /\ ~HeadExpired
    /\ timeout' = RemainingTimeouts
    /\ vt' = vt + elapsed
    /\ elapsed' = 0
    /\ pc' = "main"
    /\ UNCHANGED <<now, sTimers, oldTime, place, deadline, oldNow, lost>>

-----------------------------------------------------------------------------
Handler == HandlerSync \/ HandlerExpire \/ HandlerExit \/ PlaceSkip \/ PlaceInsert

Next ==
    \/ Tick
    \/ \E t \in Timers : swTimerStart(t) \/ swTimerStop(t)
    \/ HandlerEnter
    \/ Handler
    \/ CallbackReturn

Spec == Init /\ [][Next]_vars

(* The processor executes the code it is in, and a callback returns after  *)
(* finitely many calls.                                                    *)
FairSpec == Spec /\ WF_vars(Handler) /\ SF_vars(CallbackReturn)

-----------------------------------------------------------------------------
TypeOK ==
    /\ now \in Nat
    /\ sTimers \in Seq(Timers)
    /\ timeout \in [Timers -> 0..(WORD - 1)]
    /\ oldTime \in 0..(WORD - 1)
    /\ pc \in {"main", "sync", "while", "callback", "place"}
    /\ elapsed \in 0..(WORD - 1)
    /\ ptimer \in Timers \cup {NoTimer}
    /\ ppos \in Nat \ {0}
    /\ prem \in 0..(WORD - 1)
    /\ pret \in {"main", "callback", "dispatch"}
    /\ vt \in Nat
    /\ deadline \in [Timers -> Nat]
    /\ oldNow \in Nat
    /\ lost \in Int

(* The list holds a timer at most once, and placeTimer never links in a    *)
(* timer that is linked already: the C list never closes into a cycle.     *)
NoDuplicates ==
    /\ \A i, j \in 1..Len(sTimers) : sTimers[i] = sTimers[j] => i = j
    /\ pc = "place" => ptimer \in Timers \ Armed

(* When the node at position i will expire its predecessor has done so:    *)
(* the time at which its own wait begins.                                  *)
WaitsFrom(i) == IF i = 1 THEN vt ELSE deadline[sTimers[i - 1]]

(* The deltas mean what they should: whatever was started, stopped and     *)
(* expired, in whatever order, each node waits exactly from the deadline   *)
(* of its predecessor to its own.                                          *)
DeltasExact ==
    \A i \in 1..Len(sTimers) :
        deadline[sTimers[i]] = WaitsFrom(i) + timeout[sTimers[i]]

(* The search loop of placeTimer has subtracted exactly the waits it has   *)
(* passed.                                                                 *)
SearchExact ==
    pc = "place" =>
        /\ ppos <= Len(sTimers) + 1
        /\ vt + Interval[ptimer] = WaitsFrom(ppos) + prem

(* A periodic timer is placed again at the very instant it was due, so     *)
(* its expiries stay whole intervals apart however late the handler runs.  *)
NoDrift == (pc = "place" /\ pret = "dispatch") => deadline[ptimer] = vt

(* Every millisecond up to the last run of the handler was handed out, is  *)
(* being handed out, or was lost between its two reads of millis().  Hence *)
(* the timers never run ahead of real time.                                *)
TimeAccounted ==
    /\ oldNow <= now
    /\ lost >= 0
    /\ oldTime = oldNow % WORD
    /\ pc = "sync" => vt + lost = oldNow /\ elapsed <= now - oldNow
    /\ pc # "sync" => vt + elapsed + lost = oldNow

(* No node waits longer than its timer's own interval, whoever has been    *)
(* stopped in front of it: the addition in swTimerStop cannot wrap.        *)
WaitBounded == \A t \in Armed : timeout[t] <= Interval[t]

(* The list is sorted by deadline, and every deadline is at most one       *)
(* interval ahead of the time handed out and never behind it.              *)
Sorted ==
    \A i, j \in 1..Len(sTimers) :
        i <= j => deadline[sTimers[i]] <= deadline[sTimers[j]]

DueWindow ==
    \A i \in 1..Len(sTimers) :
        /\ vt <= deadline[sTimers[i]]
        /\ deadline[sTimers[i]] <= vt + Interval[sTimers[i]]

(* The inductive invariant behind the properties of the list. *)
ListInv ==
    /\ TypeOK
    /\ NoDuplicates
    /\ DeltasExact
    /\ SearchExact
    /\ Sorted
    /\ DueWindow

(* The delta list implements the timer service. *)
Service == INSTANCE TimerService
           WITH clock <- vt, armed <- Armed, due <- deadline

ImplementsService == Service!Spec

(* The handler hands out what it took and returns: expired timers cannot   *)
(* keep it in its loop.  Needs intervals of at least a millisecond.        *)
HandlerReturns == (pc = "sync") ~> (pc = "main")
=============================================================================
