----------------------------- MODULE ProcessList -----------------------------
(***************************************************************************)
(* The list of processes of arduino/cores/EFM/interface.c and the endless  *)
(* loop of arduino.cpp that runs it: forever() registers the timer handler *)
(* and loop(), and exeProcess() calls every registered process in turn.    *)
(*                                                                         *)
(* In the FreeRTOS build the loop is a task like others, which may call    *)
(* addProcess() at any moment; a process may call addProcess() and         *)
(* delProcess().  A critical section is one step, and so is every other    *)
(* access to the list.                                                     *)
(***************************************************************************)
EXTENDS Integers, Sequences, SequencesExt, FiniteSets

CONSTANTS Procs,       \* the processes, callbacks
          TimerProc, LoopProc,  \* swTimerTaskHandler and loop
          Tasks,       \* the other tasks
          LOOP,        \* the task that runs forever()
          MaxNodes,    \* bound: list nodes the heap has room for
          MaxAdds,     \* bound: calls of addProcess after forever()'s two
          EarlyTasks,  \* may other tasks add before the list exists?
          SelfDelete   \* may a process delete itself?

ASSUME ListAssumption ==
    /\ {TimerProc, LoopProc} \subseteq Procs /\ LOOP \notin Tasks
    /\ MaxNodes \in Nat /\ MaxAdds \in Nat
    /\ {EarlyTasks, SelfDelete} \subseteq BOOLEAN

Nodes  == 1..MaxNodes
NULL   == 0
Actors == Tasks \cup {LOOP}

VARIABLES
    list,       \* is pListProcess allocated?
    head,       \* pListProcess->head
    cb, next,   \* the fields of the nodes
    live,       \* the nodes that are allocated
    pc,         \* what each task does next
    arg,        \* the argument of addProcess or delProcess
    back,       \* where LOOP returns to from addProcess
    at,         \* current in exeProcess
    cur, prev,  \* current and previous in delProcess
    adds,       \* history: how often tasks and processes called addProcess
    registered  \* history: the processes whose registration took effect, in order

heap == <<list, head, cb, next, live>>
walk == <<at, cur, prev>>
vars == <<heap, pc, arg, back, walk, adds, registered>>

Init ==
    /\ list = FALSE /\ head = NULL
    /\ cb = [n \in Nodes |-> TimerProc] /\ next = [n \in Nodes |-> NULL]
    /\ live = {}
    /\ pc = [a \in Actors |-> "idle"] /\ arg = [a \in Actors |-> TimerProc]
    /\ back = "idle"
    /\ at = NULL /\ cur = NULL /\ prev = NULL
    /\ adds = 0 /\ registered = <<>>

Goto(a, label) == pc' = [pc EXCEPT ![a] = label]

-----------------------------------------------------------------------------
(* The list from a node on, following next. *)
ChainOf[k \in 0..MaxNodes] ==
    IF k = 0 THEN [n \in Nodes \cup {NULL} |-> <<>>]
    ELSE [n \in Nodes \cup {NULL} |-> IF n = NULL THEN <<>> ELSE <<n>> \o ChainOf[k - 1][next[n]]]

Chain == ChainOf[MaxNodes][head]

ListedProcs == [i \in 1..Len(Chain) |-> cb[Chain[i]]]

-----------------------------------------------------------------------------
(* addProcess *)
AddCall(a, p, ret) ==
    /\ Goto(a, "add")
    /\ arg' = [arg EXCEPT ![a] = p]
    /\ back' = IF a = LOOP THEN ret ELSE back
    /\ UNCHANGED <<heap, walk, registered>>

(* Counts the calls of tasks and processes, up to the bound. *)
Counted == adds < MaxAdds /\ adds' = adds + 1

Returned(a) == Goto(a, IF a = LOOP THEN back ELSE "idle")

AddCheck(a) ==
    /\ pc[a] = "add"
    /\ Goto(a, IF list THEN "append" ELSE "mklist")
    /\ UNCHANGED <<heap, arg, back, walk, adds, registered>>

(* pListProcess = malloc(...); pListProcess->head = NULL. *)
AddMakeList(a) ==
    /\ pc[a] = "mklist"
    /\ list' = TRUE /\ head' = NULL
    /\ Goto(a, "append")
    /\ UNCHANGED <<cb, next, live, arg, back, walk, adds, registered>>

(* The critical section: createProcess() at the end of the list. *)
AddAppend(a) ==
    /\ pc[a] = "append"
    /\ \E n \in Nodes \ live :
         /\ live' = live \cup {n}
         /\ cb' = [cb EXCEPT ![n] = arg[a]]
         /\ next' = [i \in Nodes |-> IF i = n THEN NULL
                                     ELSE IF Chain # <<>> /\ i = Last(Chain) THEN n
                                     ELSE next[i]]
         /\ head' = IF head = NULL THEN n ELSE head
         /\ registered' = Append(registered, arg[a])
    /\ Returned(a)
    /\ UNCHANGED <<list, arg, back, walk, adds>>

(* createProcess() finds no memory: nothing is appended, nobody is told. *)
AddNoMemory(a) ==
    /\ pc[a] = "append"
    /\ Returned(a)
    /\ UNCHANGED <<heap, arg, back, walk, adds, registered>>

-----------------------------------------------------------------------------
(* delProcess, called by the process that runs. *)
DelCall(p) ==
    /\ pc[LOOP] = "in"
    /\ SelfDelete \/ p # cb[at]
    /\ Goto(LOOP, "walk")
    /\ arg' = [arg EXCEPT ![LOOP] = p]
    /\ cur' = head /\ prev' = head
    /\ UNCHANGED <<heap, back, at, adds, registered>>

DelWalk ==
    /\ pc[LOOP] = "walk"
    /\ \/ cur = NULL /\ Goto(LOOP, "in") /\ UNCHANGED <<cur, prev>>
       \/ cur # NULL /\ cb[cur] = arg[LOOP] /\ Goto(LOOP, "unlink") /\ UNCHANGED <<cur, prev>>
       \/ cur # NULL /\ cb[cur] # arg[LOOP] /\ prev' = cur /\ cur' = next[cur] /\ UNCHANGED pc
    /\ UNCHANGED <<heap, arg, back, at, adds, registered>>

FirstOf(p) == SelectInSeq(registered, LAMBDA x : x = p)

DelUnlinkKeepsHead ==
    /\ pc[LOOP] = "unlink"
    /\ next' = [next EXCEPT ![prev] = next[cur]]
    /\ head' = head
    /\ live' = live \ {cur}
    /\ registered' = RemoveAt(registered, FirstOf(arg[LOOP]))
    /\ Goto(LOOP, "in")
    /\ UNCHANGED <<list, cb, arg, back, walk, adds>>

(* The critical section: unlink current and free it. *)
DelUnlink ==
    /\ pc[LOOP] = "unlink"
    /\ next' = [next EXCEPT ![prev] = next[cur]]
    /\ head' = IF cur = head THEN next[cur] ELSE head
    /\ live' = live \ {cur}
    /\ registered' = RemoveAt(registered, FirstOf(arg[LOOP]))
    /\ Goto(LOOP, "in")
    /\ UNCHANGED <<list, cb, arg, back, walk, adds>>

-----------------------------------------------------------------------------
(* forever() registers two processes, then makes one pass after another. *)
Boot ==
    /\ pc[LOOP] = "idle"
    /\ AddCall(LOOP, TimerProc, "boot") /\ UNCHANGED adds

BootLoop ==
    /\ pc[LOOP] = "boot"
    /\ AddCall(LOOP, LoopProc, "pass") /\ UNCHANGED adds

ExePass ==
    /\ pc[LOOP] = "pass"
    /\ at' = head
    /\ Goto(LOOP, IF head = NULL THEN "pass" ELSE "call")
    /\ UNCHANGED <<heap, arg, back, cur, prev, adds, registered>>

ExeCall ==
    /\ pc[LOOP] = "call"
    /\ Goto(LOOP, "in")
    /\ UNCHANGED <<heap, arg, back, walk, adds, registered>>

ProcReturn ==
    /\ pc[LOOP] = "in"
    /\ Goto(LOOP, "yield")
    /\ UNCHANGED <<heap, arg, back, walk, adds, registered>>

ExeStepStays ==
    /\ pc[LOOP] = "yield"
    /\ at' = head
    /\ Goto(LOOP, IF at' = NULL THEN "pass" ELSE "call")
    /\ UNCHANGED <<heap, arg, back, cur, prev, adds, registered>>

ExeStep ==
    /\ pc[LOOP] = "yield"
    /\ at' = next[at]
    /\ Goto(LOOP, IF at' = NULL THEN "pass" ELSE "call")
    /\ UNCHANGED <<heap, arg, back, cur, prev, adds, registered>>

-----------------------------------------------------------------------------
(* A step of a call of addProcess in progress. *)
AddStep(a) == AddCheck(a) \/ AddMakeList(a) \/ AddAppend(a) \/ AddNoMemory(a)

TaskCall(a) == /\ pc[a] = "idle" /\ (EarlyTasks \/ list)
               /\ \E p \in Procs : Counted /\ AddCall(a, p, "idle")

ProcCall == /\ pc[LOOP] = "in"
            /\ \E p \in Procs : \/ Counted /\ AddCall(LOOP, p, "in")
                               \/ DelCall(p)

LoopStep ==
    \/ Boot \/ BootLoop \/ ExePass \/ ExeCall \/ ExeStep \/ DelWalk \/ DelUnlink
    \/ AddStep(LOOP)

Next ==
    \/ LoopStep \/ ProcCall \/ ProcReturn
    \/ \E a \in Tasks : TaskCall(a) \/ AddStep(a)

Spec == Init /\ [][Next]_vars

-----------------------------------------------------------------------------
TypeOK ==
    /\ list \in BOOLEAN /\ head \in Nodes \cup {NULL}
    /\ cb \in [Nodes -> Procs] /\ next \in [Nodes -> Nodes \cup {NULL}]
    /\ live \subseteq Nodes
    /\ pc \in [Actors -> {"idle", "boot", "pass", "call", "in", "yield", "add", "mklist",
                          "append", "walk", "unlink"}]
    /\ arg \in [Actors -> Procs] /\ back \in {"idle", "boot", "pass", "in"}
    /\ {at, cur, prev} \subseteq Nodes \cup {NULL}
    /\ adds \in 0..MaxAdds /\ registered \in Seq(Procs)

(* The list is what was registered and not deleted, in the order of        *)
(* registration: an append by another task is never lost to a deletion     *)
(* whose walk it overtakes, and no node leaks.                             *)
ListExact ==
    /\ ListedProcs = registered
    /\ {Chain[i] : i \in 1..Len(Chain)} = live

(* No pointer that will be followed dangles: neither that of exeProcess,   *)
(* which reads current->next after the process has returned, nor those of  *)
(* delProcess, whose walk is outside the critical section.                 *)
NoDangling ==
    /\ pc[LOOP] \in {"call", "in", "yield", "walk", "unlink"} => at \in live
    /\ pc[LOOP] \in {"walk", "unlink"} => {cur, prev} \subseteq live \cup {NULL}
    /\ pc[LOOP] = "unlink" => /\ cur \in live
                              /\ cur = head \/ next[prev] = cur

(* What the unprotected walks rest on: through any interleaving of         *)
(* addProcess() in other tasks with delProcess() and exeProcess() in the   *)
(* loop, the list stays exact and every pointer in use points into it.     *)
ListSound == ListExact /\ NoDangling

(* Every process that stays registered is run, whatever other tasks and    *)
(* processes register and delete meanwhile.                                *)
EveryProcessRuns ==
    \A p \in Procs : (\E i \in 1..Len(registered) : registered[i] = p)
                       ~> \/ pc[LOOP] = "in" /\ cb[at] = p
                          \/ \A i \in 1..Len(registered) : registered[i] # p
=============================================================================
