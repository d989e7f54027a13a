------------------------------ MODULE WString ------------------------------
(***************************************************************************)
(* String (arduino/api/WString.cpp): a growable buffer with a capacity and *)
(* a length kept beside the text.  buffer is the text up to its            *)
(* terminating zero, NULL when the string is invalid.  Memory may be short *)
(* at any allocation.  Characters are abstract; literals and the           *)
(* arguments of replace() are texts that no String of the model owns.      *)
(***************************************************************************)
EXTENDS Integers, Sequences, FiniteSetsExt

CONSTANTS Strings, NULL,
          Literals,   \* texts the sketch assigns, appends and replaces
          Space,      \* the character trim() removes
          MaxLen,     \* bound on the length of a text, literals included
          GrowAny     \* may a replacement be longer than a find of several characters?

Letters == UNION {{text[i] : i \in DOMAIN text} : text \in Literals}

ASSUME StringAssumption ==
    /\ GrowAny \in BOOLEAN /\ MaxLen \in Nat
    /\ Literals \subseteq Seq(Letters) /\ NULL \notin Seq(Letters)
    /\ \A text \in Literals : Len(text) <= MaxLen

VARIABLES str,    \* buffer, capacity and len of each String
          value,  \* history: the text the String should have, or NULL
          moved   \* history: the Strings whose text was copied away by move()
                  \* and which got no new one since

stringVars == <<str, value, moved>>

invalid == [buffer |-> NULL, capacity |-> 0, len |-> 0]
emptyString == [buffer |-> <<>>, capacity |-> 0, len |-> 0]

StringInit ==
    /\ str = [s \in Strings |-> emptyString]
    /\ value = [s \in Strings |-> <<>>]
    /\ moved = {}

Set(s, new, text) ==
    /\ str' = [str EXCEPT ![s] = new]
    /\ value' = [value EXCEPT ![s] = text]
    /\ moved' = IF new = str[s] THEN moved ELSE moved \ {s}

-----------------------------------------------------------------------------
(* reserve() and changeBuffer(): mem says that realloc() succeeds. *)
Holds(b, size) == b.buffer # NULL /\ b.capacity >= size

Reserved(b, size) ==
    IF Holds(b, size) THEN b
    ELSE [b EXCEPT !.buffer = IF b.len = 0 THEN <<>> ELSE b.buffer, !.capacity = size]

reserve(s, size, mem) ==
    IF Holds(str[s], size) \/ mem
    THEN Set(s, Reserved(str[s], size), IF value[s] = NULL THEN <<>> ELSE value[s])
    ELSE UNCHANGED stringVars

(* copy(), and the assignments that call it. *)
CopiedFrom(b, text, length, mem) ==
    IF Holds(b, length) \/ mem
    THEN [Reserved(b, length) EXCEPT !.buffer = text, !.len = length]
    ELSE invalid

assign(s, text, mem) ==
    LET new == CopiedFrom(str[s], text, Len(text), mem)
    IN  Set(s, new, IF new = invalid THEN NULL ELSE text)

assignString(s, t, mem) ==
    LET new == IF str[t].buffer = NULL THEN invalid
               ELSE CopiedFrom(str[s], str[t].buffer, str[t].len, mem)
    IN  s # t /\ t \notin moved /\ Set(s, new, IF new = invalid THEN NULL ELSE value[t])

(* move(), from a temporary or from a named String: a buffer that is large *)
(* enough is kept, and rhs gets length 0 while its text stays; otherwise   *)
(* rhs gives its buffer away.  A String in that first state must get a new *)
(* text before it is assigned from again: copy() and move() would copy the *)
(* old text by its terminating zero, for a length of 0.                    *)
Reuses(b, rhs) == b.buffer # NULL /\ rhs.buffer # NULL /\ b.capacity >= rhs.len

MovedAlways(b, rhs) == [b EXCEPT !.buffer = rhs.buffer, !.len = rhs.len]

Moved(b, rhs) ==
    IF Reuses(b, rhs) THEN [b EXCEPT !.buffer = rhs.buffer, !.len = rhs.len] ELSE rhs

MovedFrom(b, rhs) == IF Reuses(b, rhs) THEN [rhs EXCEPT !.len = 0] ELSE invalid

move(s, t) ==
    LET reuses == Reuses(str[s], str[t]) IN
    /\ s # t /\ t \notin moved
    /\ str' = [str EXCEPT ![s] = Moved(str[s], str[t]), ![t] = MovedFrom(str[s], str[t])]
    /\ value' = [value EXCEPT ![s] = value[t], ![t] = IF reuses THEN <<>> ELSE NULL]
    /\ moved' = (moved \ {s}) \cup (IF reuses /\ str[t].len > 0 THEN {t} ELSE {})

(* concat(): FALSE leaves the String as it is.  Concatenates(...) is the   *)
(* function's result.                                                      *)
Concatenates(b, text, length, mem) ==
    text # NULL /\ (length = 0 \/ Holds(b, b.len + length) \/ mem)

Concatenated(b, text, length) ==
    IF length = 0 THEN b
    ELSE [Reserved(b, b.len + length) EXCEPT
              !.buffer = (IF b.buffer = NULL THEN <<>> ELSE SubSeq(b.buffer, 1, b.len)) \o text,
              !.len = b.len + length]

Joined(a, b) == IF a # NULL THEN a \o b ELSE IF b = <<>> THEN NULL ELSE b

concat(s, text, mem) ==
    /\ str[s].len + Len(text) <= MaxLen
    /\ IF Concatenates(str[s], text, Len(text), mem)
       THEN Set(s, Concatenated(str[s], text, Len(text)), Joined(value[s], text))
       ELSE UNCHANGED stringVars

(* operator+, on a StringSumHelper: one that cannot grow becomes invalid. *)
plus(s, t, mem) ==
    LET ok == Concatenates(str[s], str[t].buffer, str[t].len, mem) IN
    /\ s # t /\ str[s].len + str[t].len <= MaxLen
    /\ Set(s, IF ok THEN Concatenated(str[s], str[t].buffer, str[t].len) ELSE invalid,
              IF ok THEN Joined(value[s], value[t]) ELSE NULL)

-----------------------------------------------------------------------------
Matches(text, find) ==
    {i \in 0..(Len(text) - Len(find)) : SubSeq(text, i + 1, i + Len(find)) = find}

Spliced(text, i, n, new) == SubSeq(text, 1, i) \o new \o SubSeq(text, i + n + 1, Len(text))

(* replace(): the loops that shrink the text or keep its length read and   *)
(* write forward; from is readFrom as an offset, count the matches so far. *)
(* turn[k] is the state after k turns; each reads a character at least.    *)
Forward(text, find, new) ==
    LET turn[k \in 0..Len(text)] ==
            IF k = 0 THEN [buffer |-> text, from |-> 0, count |-> 0]
            ELSE LET now == turn[k - 1]
                     ahead == {i \in Matches(now.buffer, find) : i >= now.from}
                 IN  IF ahead = {} THEN now
                     ELSE [buffer |-> Spliced(now.buffer, Min(ahead), Len(find), new),
                           from |-> Min(ahead) + Len(new), count |-> now.count + 1]
    IN  turn[Len(text)]

(* lastIndexOf(find, index), -1 if there is none. *)
lastIndexOf(text, find, index) == Max({-1} \cup {i \in Matches(text, find) : i <= index})

(* The loop that lengthens it goes backward: index falls with every turn. *)
Backward(text, find, new) ==
    LET turn[k \in 0..Len(text)] ==
            IF k = 0 THEN [buffer |-> text, index |-> Len(text) - 1]
            ELSE LET now == turn[k - 1]
                     at == lastIndexOf(now.buffer, find, now.index)
                 IN  IF now.index < 0 THEN now
                     ELSE IF at < 0 THEN [now EXCEPT !.index = at]
                     ELSE [buffer |-> Spliced(now.buffer, at, Len(find), new), index |-> at - 1]
    IN  turn[Len(text)].buffer

SizeOfOne(b, find, new) == b.len + (Len(new) - Len(find))

SizeNeeded(b, find, new) ==
    b.len + (Len(new) - Len(find)) * Forward(b.buffer, find, find).count

Replaced(b, find, new, mem) ==
    LET diff == Len(new) - Len(find)
        forward == Forward(b.buffer, find, new)
        size == SizeNeeded(b, find, new)
        grown == Backward(b.buffer, find, new)
    IN  CASE b.len = 0 \/ Len(find) = 0 -> b
          [] diff <= 0 -> [b EXCEPT !.buffer = forward.buffer, !.len = b.len + diff * forward.count]
          [] diff > 0 /\ (size = b.len \/ (size > b.capacity /\ ~mem)) -> b
          [] OTHER -> [buffer |-> grown, len |-> Len(grown),
                       capacity |-> IF size > b.capacity THEN size ELSE b.capacity]

(* The text with every find replaced, from the left and not overlapping:   *)
(* replaced[n] is what its last n characters become.                       *)
AllReplaced(text, find, new) ==
    LET replaced[n \in 0..Len(text)] ==
            LET i == Len(text) - n
            IN  IF n = 0 THEN <<>>
                ELSE IF i \in Matches(text, find) THEN new \o replaced[n - Len(find)]
                ELSE <<text[i + 1]>> \o replaced[n - 1]
    IN  replaced[Len(text)]

replace(s, find, new, mem) ==
    LET b == str[s]
        size == SizeNeeded(b, find, new)
    IN
    /\ GrowAny \/ Len(find) <= 1 \/ Len(new) <= Len(find)
    /\ IF b.len = 0 \/ Len(find) = 0 \/ (size > b.len /\ size > b.capacity /\ ~mem)
       THEN UNCHANGED stringVars
       ELSE /\ Len(AllReplaced(b.buffer, find, new)) <= MaxLen
            /\ Set(s, Replaced(b, find, new, mem), AllReplaced(value[s], find, new))

-----------------------------------------------------------------------------
Drop(text, i, n) == SubSeq(text, 1, i) \o SubSeq(text, i + n + 1, Len(text))

CountLeft(b, index, count) == IF count > b.len - index THEN b.len - index ELSE count

String_remove(s, index, count) ==
    LET b == str[s]
        n == CountLeft(b, index, count)
    IN
    /\ index < b.len /\ count > 0
    /\ Set(s, [b EXCEPT !.buffer = Drop(b.buffer, index, n), !.len = b.len - n],
              Drop(value[s], index, count))

(* trim(): begin stops at the terminating zero, end before begin. *)
Trimmed(text) ==
    LET inked == {i \in DOMAIN text : text[i] # Space}
    IN  IF inked = {} THEN <<>> ELSE SubSeq(text, Min(inked), Max(inked))

trim(s) ==
    LET b == str[s]
        begin == Min({i \in 1..b.len : b.buffer[i] # Space} \cup {b.len + 1})
        end == Max({i \in begin..b.len : b.buffer[i] # Space} \cup {begin - 1})
    IN
    /\ b.buffer # NULL /\ b.len # 0
    /\ Set(s, [b EXCEPT !.buffer = SubSeq(b.buffer, begin, end), !.len = end + 1 - begin],
              Trimmed(value[s]))

StringNext ==
    \E s \in Strings :
        \/ \E mem \in BOOLEAN :
             \/ \E size \in 0..MaxLen : reserve(s, size, mem)
             \/ \E text \in Literals : assign(s, text, mem) \/ concat(s, text, mem)
             \/ \E t \in Strings : assignString(s, t, mem) \/ plus(s, t, mem)
             \/ \E find, new \in Literals : replace(s, find, new, mem)
        \/ \E t \in Strings : move(s, t)
        \/ \E index \in 0..MaxLen, count \in 1..(MaxLen + 1) : String_remove(s, index, count)
        \/ trim(s)

StringSpec == StringInit /\ [][StringNext]_stringVars

-----------------------------------------------------------------------------
StringTypeOK ==
    /\ moved \subseteq Strings
    /\ \A s \in Strings :
        /\ str[s].buffer = NULL => str[s].capacity = 0 /\ str[s].len = 0
        /\ str[s].capacity \in Nat /\ str[s].len \in Nat
        /\ value[s] # NULL => Len(value[s]) <= MaxLen

(* Every operation leaves the text it promises, or the one it promises for *)
(* the case that memory is short: whatever buffer was reused, moved or     *)
(* reallocated on the way, and with the length kept beside the text right. *)
(* The old text may be left in a String that was moved from, its length is *)
(* 0 then.                                                                 *)
TextRight ==
    \A s \in Strings :
        /\ str[s].buffer = value[s] \/ s \in moved
        /\ value[s] # NULL => str[s].len = Len(value[s])

(* No text is ever longer than the memory behind it: the capacity each     *)
(* operation asks for is enough for what it writes.                        *)
Fits == \A s \in Strings : str[s].buffer # NULL => Len(str[s].buffer) <= str[s].capacity

(* A String is right in its text, its length and its memory. *)
StringRight == TextRight /\ Fits

(* WString.cpp:693, "compute size needed for result": what replace()       *)
(* writes has the size it computed before.                                 *)
SizeSuffices == Fits
=============================================================================
