----------------------------- MODULE StreamText -----------------------------
(***************************************************************************)
(* The searching and reading methods of Stream (arduino/api/Stream.cpp):   *)
(* findMulti(), which find() and findUntil() call, and readBytes(),        *)
(* readBytesUntil(), readString() and readStringUntil().  Characters       *)
(* arrive while a method waits, one timedRead() after another; timedRead() *)
(* gives up when nothing arrives for the timeout, which may happen         *)
(* whenever nothing is waiting.                                            *)
(***************************************************************************)
EXTENDS Integers, Sequences, FiniteSetsExt

CONSTANTS Chars,
          Targets,    \* the strings the sketch looks for
          Terminators,    \* characters readBytesUntil() stops at, NoChar for none
          NoChar,
          Lengths,    \* buffer sizes; Unlimited for the methods that build a String
          Unlimited,
          MaxArrivals \* bound on the characters that arrive in one behaviour

ASSUME StreamAssumption ==
    /\ Targets \subseteq Seq(Chars) /\ NoChar \notin Chars
    /\ Terminators \subseteq Chars \cup {NoChar}
    /\ Lengths \subseteq Nat /\ Unlimited \in Nat \ Lengths /\ MaxArrivals \in 0..(Unlimited - 1)

VARIABLES doing,         \* "idle", "find" or "read"
          waiting,    \* characters that arrived and were not read
          targets, index,    \* of findMulti()
          until, length,       \* terminator and length of a reading method
          buffer,     \* what the reading method has placed so far
          result,     \* of findMulti() if it was called last, -1 for a timeout
          \* history
          seen,       \* what the current or last call has consumed
          lost,       \* how many of these its String had no memory for
          arrivals    \* number of characters that arrived

textVars ==
    <<doing, waiting, targets, index, until, length, buffer, result, seen, lost, arrivals>>

TextInit ==
    /\ doing = "idle" /\ waiting = <<>> /\ targets = <<>> /\ index = <<>>
    /\ until = NoChar /\ length = 0 /\ buffer = <<>> /\ result = -1
    /\ seen = <<>> /\ lost = 0 /\ arrivals = 0

Arrive(ch) ==
    /\ arrivals < MaxArrivals
    /\ arrivals' = arrivals + 1 /\ waiting' = Append(waiting, ch)
    /\ UNCHANGED <<doing, targets, index, until, length, buffer, result, seen, lost>>

-----------------------------------------------------------------------------
(* findMulti(): an empty target is found at once.  Indices into a target   *)
(* count from 0, as in the code; targets and indices end with the call.    *)
findMulti(ts) ==
    LET empty == {t \in DOMAIN ts : ts[t] = <<>>} IN
    /\ doing = "idle" /\ seen' = <<>> /\ buffer' = <<>> /\ lost' = 0
    /\ IF empty = {}
       THEN /\ doing' = "find" /\ result' = -1
            /\ targets' = ts /\ index' = [t \in DOMAIN ts |-> 0]
       ELSE result' = Min(empty) - 1 /\ UNCHANGED <<doing, targets, index>>
    /\ UNCHANGED <<waiting, until, length, arrivals>>

RestartedAt(str, k, ch) == IF str[1] = ch THEN 1 ELSE 0

(* The index after a mismatch, as the comments in the code explain with    *)
(* 1112 in 11112: the largest smaller one at which ch fits and what stands *)
(* before it is the end of what was matched.                               *)
WalkedBack(str, k, ch) ==
    Max({0} \cup {j + 1 : j \in {i \in 0..(k - 1) :
        str[i + 1] = ch /\ \A m \in 1..i : str[m] = str[m + k - i]}})

Stepped(str, k, ch) == IF str[k + 1] = ch THEN k + 1 ELSE WalkedBack(str, k, ch)

(* One turn of the loop. *)
FindChar ==
    LET ch == Head(waiting)
        next == [t \in DOMAIN targets |-> Stepped(targets[t], index[t], ch)]
        found == {t \in DOMAIN targets : next[t] = Len(targets[t])}
    IN
    /\ doing = "find" /\ waiting # <<>>
    /\ waiting' = Tail(waiting) /\ seen' = Append(seen, ch)
    /\ IF found = {}
       THEN index' = next /\ UNCHANGED <<doing, targets, result>>
       ELSE doing' = "idle" /\ result' = Min(found) - 1 /\ targets' = <<>> /\ index' = <<>>
    /\ UNCHANGED <<until, length, buffer, lost, arrivals>>

FindTimeout ==
    /\ doing = "find" /\ waiting = <<>>
    /\ doing' = "idle" /\ result' = -1 /\ targets' = <<>> /\ index' = <<>>
    /\ UNCHANGED <<waiting, until, length, buffer, seen, lost, arrivals>>

-----------------------------------------------------------------------------
(* A reading method, with room for n characters and an end at ch. *)
ReadCall(ch, n) ==
    /\ doing = "idle"
    /\ until' = ch /\ length' = n /\ buffer' = <<>> /\ seen' = <<>> /\ lost' = 0
    /\ doing' = IF n = 0 THEN "idle" ELSE "read"
    /\ result' = -1
    /\ UNCHANGED <<waiting, targets, index, arrivals>>

AtEnd(ch) == ch = until

ReadChar ==
    LET ch == Head(waiting) IN
    /\ doing = "read" /\ waiting # <<>>
    /\ waiting' = Tail(waiting) /\ seen' = Append(seen, ch)
    /\ buffer' = IF AtEnd(ch) THEN buffer ELSE Append(buffer, ch)
    /\ doing' = IF AtEnd(ch) \/ Len(buffer) + 1 = length THEN "idle" ELSE "read"
    /\ UNCHANGED <<targets, index, until, length, result, lost, arrivals>>

(* readString() and readStringUntil() do not look whether ret += c found   *)
(* the memory it needs: the character is gone and the loop goes on.        *)
LoseChar ==
    LET ch == Head(waiting) IN
    /\ doing = "read" /\ waiting # <<>> /\ length = Unlimited /\ ~AtEnd(ch)
    /\ waiting' = Tail(waiting) /\ seen' = Append(seen, ch) /\ lost' = lost + 1
    /\ UNCHANGED <<doing, targets, index, until, length, buffer, result, arrivals>>

ReadTimeout ==
    /\ doing = "read" /\ waiting = <<>>
    /\ doing' = "idle"
    /\ UNCHANGED <<waiting, targets, index, until, length, buffer, result, seen, lost, arrivals>>

TextNext ==
    \/ \E ch \in Chars : Arrive(ch)
    \/ \E t \in Targets : findMulti(<<t>>)
    \/ \E t, end \in Targets : findMulti(<<t, end>>)
    \/ \E ch \in Terminators, n \in Lengths \cup {Unlimited} : ReadCall(ch, n)
    \/ FindChar \/ FindTimeout \/ ReadChar \/ LoseChar \/ ReadTimeout

TextSpec == TextInit /\ [][TextNext]_textVars

-----------------------------------------------------------------------------
TextTypeOK ==
    /\ doing \in {"idle", "find", "read"}
    /\ waiting \in Seq(Chars) /\ targets \in Seq(Targets)
    /\ DOMAIN index = DOMAIN targets
    /\ \A t \in DOMAIN index : index[t] \in 0..Len(targets[t])
    /\ until \in Terminators \cup {NoChar} /\ length \in Lengths \cup {0, Unlimited}
    /\ buffer \in Seq(Chars) /\ result \in -1..1
    /\ seen \in Seq(Chars) /\ lost \in Nat /\ arrivals \in 0..MaxArrivals

EndsWith(text, str) ==
    Len(str) <= Len(text) /\ SubSeq(text, Len(text) - Len(str) + 1, Len(text)) = str

Heads(text) == {SubSeq(text, 1, n) : n \in 0..Len(text)}

(* While it searches, each target's index is the length of the longest     *)
(* beginning of the target that what was read ends with: no match that is  *)
(* under way is forgotten, whatever the target repeats of itself.          *)
LongestMatch ==
    doing = "find" => \A t \in DOMAIN targets :
        index[t] = Max({Len(h) : h \in {g \in Heads(targets[t]) : EndsWith(seen, g)}})

(* findMulti() stops at the very first character with which a target is    *)
(* complete, names the first of the targets that end there, and misses     *)
(* none: against the plain definition of the first occurrence.             *)
FirstMatch ==
    [][doing = "find" /\ doing' = "idle" =>
        LET Complete(text) == {t \in DOMAIN targets : EndsWith(text, targets[t])} IN
        /\ \A h \in Heads(seen') \ {seen'} : Complete(h) = {}
        /\ IF result' = -1 THEN Complete(seen') = {} ELSE result' + 1 = Min(Complete(seen'))]_textVars

(* What was consumed and neither placed nor lost. *)
Spare == Len(seen) - Len(buffer) - lost

(* A reading method consumes what it places and at most the terminator     *)
(* besides, the first it meets, which is never placed; it stops short of   *)
(* its room only there or at a timeout, and leaves the rest to the next    *)
(* call.  Only a String that finds no memory loses characters.             *)
ReadsExactly ==
    [][doing = "read" /\ doing' = "idle" =>
        /\ \A i \in DOMAIN buffer' : buffer'[i] # until
        /\ \A i \in 1..(Len(seen') - 1) : seen'[i] # until
        /\ Len(buffer') <= length
        /\ \/ Spare' = 1 /\ seen'[Len(seen')] = until
           \/ Spare' = 0 /\ (Len(buffer') < length => waiting = <<>>)
        /\ lost' = 0 => seen' = buffer' \/ seen' = Append(buffer', until)
        /\ lost' # 0 => length = Unlimited]_textVars

(* The searching and the reading methods consume and find exactly what     *)
(* they promise, however the text arrives.                                 *)
TextExact == [][LongestMatch']_textVars /\ FirstMatch /\ ReadsExactly
=============================================================================
