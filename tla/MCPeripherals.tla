--------------------------- MODULE MCPeripherals ---------------------------
(***************************************************************************)
(* The drivers of the peripherals for TLC.  They share no state: a         *)
(* behaviour exercises one of them, and the others stay in their initial   *)
(* state.                                                                  *)
(***************************************************************************)
EXTENDS Wire, SpiMaster, WifiLink, CoreTimer, PulseIn, Pwm

VARIABLE active

PeripheralsInit ==
    /\ active \in {"Wire", "SpiMaster", "WifiLink", "CoreTimer", "PulseIn", "Pwm"}
    /\ Init /\ SpiInit /\ WifiInit /\ CoreInit /\ PulseInit /\ PwmInit
    /\ active # "PulseIn" => called = 0 /\ timeout_us = 0 /\ pin

PeripheralsNext ==
    /\ UNCHANGED active
    /\ \/ /\ active = "Wire" /\ Next
          /\ UNCHANGED <<spiVars, wifiVars, coreVars, pulseVars, pwmVars>>
       \/ /\ active = "SpiMaster" /\ SpiNext
          /\ UNCHANGED <<vars, wifiVars, coreVars, pulseVars, pwmVars>>
       \/ /\ active = "WifiLink" /\ WifiNext
          /\ UNCHANGED <<vars, spiVars, coreVars, pulseVars, pwmVars>>
       \/ /\ active = "CoreTimer" /\ CoreNext
          /\ UNCHANGED <<vars, spiVars, wifiVars, pulseVars, pwmVars>>
       \/ /\ active = "PulseIn" /\ PulseNext
          /\ UNCHANGED <<vars, spiVars, wifiVars, coreVars, pwmVars>>
       \/ /\ active = "Pwm" /\ PwmNext
          /\ UNCHANGED <<vars, spiVars, wifiVars, coreVars, pulseVars>>

PeripheralsSpec ==
    /\ PeripheralsInit
    /\ [][PeripheralsNext]_<<active, vars, spiVars, wifiVars, coreVars, pulseVars, pwmVars>>

(* Every variable of the six components keeps its type: no buffer exceeds  *)
(* its capacity and no register its width.                                 *)
TypesOK == TypeOK /\ SpiTypeOK /\ WifiTypeOK /\ CoreTypeOK /\ PulseTypeOK /\ PwmTypeOK
=============================================================================
