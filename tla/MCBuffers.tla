----------------------------- MODULE MCBuffers -----------------------------
(***************************************************************************)
(* Buffers, streams and the software serial port for TLC.  They share no   *)
(* state: a behaviour exercises one of them, and the others stay in their  *)
(* initial state.                                                          *)
(***************************************************************************)
EXTENDS Cbuf, StreamText, StreamParse, SoftSerialSlots,
        SoftSerialFrame, SoftSerialRing, MCWString

VARIABLE active

(* Targets that repeat their own beginning, as 1112 does in the comment of *)
(* findMulti(), one inside another, and the empty one.                     *)
MCTargets == {<<>>, <<"b">>, <<"a", "b", "a">>, <<"a", "a", "a", "b">>, <<"a", "b", "a", "b", "b">>}

BuffersInit ==
    /\ active \in {"Cbuf", "StreamText", "StreamParse", "Slots", "Frame", "Ring", "String"}
    /\ Init /\ TextInit /\ ParseInit /\ SlotsInit /\ FrameInit /\ RingInit /\ StringInit
    /\ active # "Cbuf" => _size = 1
    /\ active # "StreamParse" => /\ input = <<>> /\ ~detectDecimal
                                 /\ lookahead = "SKIP_ALL" /\ ignore = NoIgnore

BuffersNext ==
    /\ UNCHANGED active
    /\ \/ /\ active = "Cbuf" /\ Next
          /\ UNCHANGED <<textVars, parseVars, slotsVars, frameVars, ringVars, stringVars>>
       \/ /\ active = "StreamText" /\ TextNext
          /\ UNCHANGED <<vars, parseVars, slotsVars, frameVars, ringVars, stringVars>>
       \/ /\ active = "StreamParse" /\ ParseNext
          /\ UNCHANGED <<vars, textVars, slotsVars, frameVars, ringVars, stringVars>>
       \/ /\ active = "Slots" /\ SlotsNext
          /\ UNCHANGED <<vars, textVars, parseVars, frameVars, ringVars, stringVars>>
       \/ /\ active = "Frame" /\ FrameNext
          /\ UNCHANGED <<vars, textVars, parseVars, slotsVars, ringVars, stringVars>>
       \/ /\ active = "Ring" /\ RingNext
          /\ UNCHANGED <<vars, textVars, parseVars, slotsVars, frameVars, stringVars>>
       \/ /\ active = "String" /\ StringNext
          /\ UNCHANGED <<vars, textVars, parseVars, slotsVars, frameVars, ringVars>>

BuffersSpec ==
    /\ BuffersInit
    /\ [][BuffersNext]_<<active, vars, textVars, parseVars, slotsVars, frameVars, ringVars, stringVars>>

(* Every variable of the seven components keeps its type: no position lies *)
(* outside its buffer.                                                     *)
TypesOK ==
    /\ TypeOK /\ TextTypeOK /\ ParseTypeOK
    /\ SlotsTypeOK /\ FrameTypeOK /\ RingTypeOK /\ StringTypeOK
=============================================================================
