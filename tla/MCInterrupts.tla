---------------------------- MODULE MCInterrupts ----------------------------
(***************************************************************************)
(* The main loop's process list and the two kinds of pin interrupts for    *)
(* TLC.  They share no state: a behaviour exercises one of them, and the   *)
(* others stay in their initial state.                                     *)
(***************************************************************************)
EXTENDS ProcessList, ChangeNotice, ExternalInt

VARIABLE active

InterruptsInit ==
    /\ active \in {"ProcessList", "ChangeNotice", "ExternalInt"}
    /\ Init /\ CnInit /\ IntInit
    /\ active # "ExternalInt" => level = "low"

InterruptsNext ==
    /\ UNCHANGED active
    /\ \/ active = "ProcessList" /\ Next /\ UNCHANGED <<cnVars, intVars>>
       \/ active = "ChangeNotice" /\ CnNext /\ UNCHANGED <<vars, intVars>>
       \/ active = "ExternalInt" /\ IntNext /\ UNCHANGED <<vars, cnVars>>

(* The scheduler runs the loop, and a process returns although it may call *)
(* addProcess and delProcess first.  The processor runs a handler that is  *)
(* requested, and the sketch when none is: requested handlers go first.    *)
InterruptsSpec ==
    /\ InterruptsInit
    /\ [][InterruptsNext]_<<active, vars, cnVars, intVars>>
    /\ WF_vars(active = "ProcessList" /\ LoopStep)
    /\ SF_vars(active = "ProcessList" /\ ProcReturn)
    /\ WF_cnVars(active = "ChangeNotice" /\ HandlerStep)
    /\ WF_cnVars(active = "ChangeNotice" /\ SketchStep /\ ~(iec /\ Raised))

(* Every variable of the three components keeps its type, the 8-bit        *)
(* counter of attached pins included.                                      *)
TypesOK == TypeOK /\ CnTypeOK /\ IntTypeOK
=============================================================================
