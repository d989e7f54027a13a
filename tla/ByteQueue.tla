----------------------------- MODULE ByteQueue -----------------------------
(***************************************************************************)
(* What a serial receiver promises its reader: the bytes that were         *)
(* accepted, in the order they came, at most Cap of them waiting.  A byte  *)
(* is refused only when Cap bytes wait.                                    *)
(***************************************************************************)
EXTENDS Integers, Sequences

CONSTANTS Bytes,    \* what may be received
          NoByte,   \* what read() and peek() return when nothing waits
          Cap       \* how many bytes may wait

VARIABLES q,        \* the waiting bytes, oldest first
          ret,      \* the last answer given to the reader
          dropped   \* how many bytes were refused

qvars == <<q, ret, dropped>>

Init == q = <<>> /\ ret = NoByte /\ dropped = 0

Put(c) ==
    /\ Len(q) < Cap
    /\ q' = Append(q, c)
    /\ UNCHANGED <<ret, dropped>>

Refuse ==
    /\ Len(q) = Cap
    /\ dropped' = dropped + 1
    /\ UNCHANGED <<q, ret>>

Get ==
    /\ q # <<>>
    /\ ret' = Head(q)
    /\ q' = Tail(q)
    /\ UNCHANGED dropped

Look ==
    /\ ret' = IF q = <<>> THEN NoByte ELSE Head(q)
    /\ UNCHANGED <<q, dropped>>

GetNothing ==
    /\ q = <<>>
    /\ ret' = NoByte
    /\ UNCHANGED <<q, dropped>>

Clear ==
    /\ q' = <<>>
    /\ UNCHANGED <<ret, dropped>>

Next ==
    \/ \E c \in Bytes : Put(c)
    \/ Refuse \/ Get \/ GetNothing \/ Look \/ Clear

Spec == Init /\ [][Next]_qvars
=============================================================================
