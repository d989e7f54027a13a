---------------------------- MODULE StreamParse ----------------------------
(***************************************************************************)
(* parseInt() and parseFloat() of Stream (arduino/api/Stream.cpp) on an    *)
(* input that may pause longer than the timeout between any two            *)
(* characters: a pause makes one timedPeek() give up.  A float is kept as  *)
(* its digits and the number of them after the point: fraction is 10 to    *)
(* minus decimals.  Numbers are those that fit a long: its overflow is not *)
(* modelled.                                                               *)
(***************************************************************************)
EXTENDS Integers, Sequences, FiniteSetsExt

CONSTANTS Others,     \* characters of the input that are not digits
          Pause,      \* an element of the input: nothing comes for the timeout
          Ignores,    \* characters to ignore, NoIgnore for none
          NoIgnore,
          MaxInput,   \* bound on the length of the input
          Modes       \* of LookaheadMode

Digits == {"0", "1"}   \* ten in the code
Digit(c) == IF c = "1" THEN 1 ELSE 0
Whitespace == {" "}   \* space, tab, carriage return and line feed in the code
ParseChars == Digits \cup Others

ASSUME ParseAssumption ==
    /\ MaxInput \in Nat
    /\ {"-", "."} \subseteq Others /\ Others \cap Digits = {}
    /\ NoIgnore \notin ParseChars /\ Pause \notin ParseChars /\ NoIgnore # Pause
    /\ Ignores \subseteq ParseChars \cup {NoIgnore}
    /\ Modes \subseteq {"SKIP_ALL", "SKIP_NONE", "SKIP_WHITESPACE"}

VARIABLES phase,         \* "skip" in peekNextDigit(), "digits" in the loop, "done"
          text,       \* what is still to come
          lookahead, ignore, detectDecimal,   \* the call
          number, isNegative, isFraction, decimals,
          \* history
          input,      \* text at the call
          start       \* number of characters that peekNextDigit() discarded

parseVars == <<phase, text, lookahead, ignore, detectDecimal,
          number, isNegative, isFraction, decimals, input, start>>
call == <<lookahead, ignore, detectDecimal, input>>

ParseInit ==
    /\ phase = "skip"
    /\ input \in UNION {[1..n -> ParseChars \cup {Pause}] : n \in 0..MaxInput}
    /\ text = input
    /\ lookahead \in Modes /\ ignore \in Ignores /\ detectDecimal \in BOOLEAN
    /\ number = 0 /\ isNegative = FALSE /\ isFraction = FALSE /\ decimals = 0
    /\ start = 0

(* timedPeek() is -1 at a pause and when nothing follows. *)
Peeked == IF text = <<>> THEN Pause ELSE Head(text)
TimedOut == Peeked = Pause
Rest == IF text = <<>> THEN <<>> ELSE Tail(text)   \* a pause is over when it was met

Starts(c) == c = "-" \/ c \in Digits \/ (detectDecimal /\ c = ".")

Skips(c) ==
    \/ lookahead = "SKIP_ALL"
    \/ lookahead = "SKIP_WHITESPACE" /\ c \in Whitespace

(* peekNextDigit(): one turn of its loop that discards. *)
Discard ==
    /\ phase = "skip" /\ ~TimedOut /\ ~Starts(Peeked) /\ Skips(Peeked)
    /\ text' = Rest /\ start' = start + 1
    /\ UNCHANGED <<phase, call, number, isNegative, isFraction, decimals>>

(* Timeout, or a character that may not be skipped: the result is 0. *)
GiveUp ==
    /\ phase = "skip" /\ (TimedOut \/ (~Starts(Peeked) /\ ~Skips(Peeked)))
    /\ phase' = "done" /\ text' = IF TimedOut THEN Rest ELSE text
    /\ UNCHANGED <<call, number, isNegative, isFraction, decimals, start>>

ContinuesAgain(c) == c \in Digits \/ (detectDecimal /\ c = ".") \/ c = ignore

Continues(c) == c \in Digits \/ (detectDecimal /\ c = "." /\ ~isFraction) \/ c = ignore

(* The loop tests for the ignored character first: a sign, a point or a    *)
(* digit that is to be ignored is consumed and means nothing.              *)
ReadAs(c, d) == c = d /\ c # ignore

Figures == Digits \ {ignore}

(* The body of the do loop; the first character is one that starts.        *)
(* read() takes the character that was peeked.                             *)
Take ==
    LET c == Peeked IN
    /\ ~TimedOut
    /\ \/ phase = "skip" /\ Starts(c)
       \/ phase = "digits" /\ Continues(c)
    /\ phase' = "digits" /\ text' = Rest
    /\ isNegative' = (isNegative \/ ReadAs(c, "-"))
    /\ isFraction' = (isFraction \/ ReadAs(c, "."))
    /\ number' = IF c \in Figures THEN number * 10 + Digit(c) ELSE number
    /\ decimals' = IF c \in Figures /\ isFraction THEN decimals + 1 ELSE decimals
    /\ UNCHANGED <<call, start>>

Finish ==
    /\ phase = "digits" /\ (TimedOut \/ ~Continues(Peeked))
    /\ phase' = "done" /\ text' = IF TimedOut THEN Rest ELSE text
    /\ number' = IF isNegative THEN -number ELSE number
    /\ UNCHANGED <<call, isNegative, isFraction, decimals, start>>

ParseNext == Discard \/ GiveUp \/ Take \/ Finish

ParseSpec == ParseInit /\ [][ParseNext]_parseVars

-----------------------------------------------------------------------------
ParseTypeOK ==
    /\ phase \in {"skip", "digits", "done"} /\ text \in Seq(ParseChars \cup {Pause})
    /\ lookahead \in Modes /\ ignore \in Ignores /\ detectDecimal \in BOOLEAN
    /\ number \in Int /\ isNegative \in BOOLEAN /\ isFraction \in BOOLEAN
    /\ decimals \in 0..MaxInput /\ start \in 0..MaxInput
    /\ phase # "done" => number >= 0

(* A plain definition of the result.  A number stands at i if it starts    *)
(* there and everything before it may be skipped; it ends at the last j up *)
(* to which there are only digits, one point at most for a float, and      *)
(* ignored characters.                                                     *)
Points(i, j) == {k \in i..j : ReadAs(input[k], ".")}
DigitsIn(i, j) == {k \in i..j : input[k] \in Figures}
NumbersAt == {i \in DOMAIN input :
    /\ input[i] # Pause /\ Starts(input[i])
    /\ \A k \in 1..(i - 1) : input[k] # Pause /\ ~Starts(input[k]) /\ Skips(input[k])}
EndOf(i) == Max({j \in i..Len(input) :
    \A k \in (i + 1)..j :
        \/ input[k] \in Digits \cup {ignore}
        \/ detectDecimal /\ input[k] = "." /\ Points(i, k - 1) = {}})
Magnitude(i, j) ==
    LET read[k \in 0..Len(input)] ==
            IF k < i THEN 0
            ELSE IF input[k] \in Figures THEN read[k - 1] * 10 + Digit(input[k]) ELSE read[k - 1]
    IN  read[j]
Behind(j) == SubSeq(input, j + (IF j < Len(input) /\ input[j + 1] = Pause THEN 2 ELSE 1), Len(input))

(* The number at i. *)
NumberAt(i) ==
    IF ReadAs(input[i], "-") THEN -Magnitude(i, EndOf(i)) ELSE Magnitude(i, EndOf(i))

(* parseInt() and parseFloat() return what starts like a number first in   *)
(* the input, sign and fraction included, and leave the stream exactly     *)
(* behind it, or behind the pause that ended it: no character is lost      *)
(* between peek() and read(), and a mode that forbids skipping touches     *)
(* nothing.  What starts like a number need not be one: a sign or a point  *)
(* without a digit is consumed for the result 0 (see FirstValidInteger).   *)
ParsedExactly ==
    phase = "done" =>
        /\ NumbersAt # {} =>
             LET i == Min(NumbersAt)
                 j == EndOf(i)
             IN  /\ number = NumberAt(i)
                 /\ decimals = IF Points(i, j) = {} THEN 0
                               ELSE Cardinality(DigitsIn(Min(Points(i, j)), j))
                 /\ text = Behind(j)
        /\ NumbersAt = {} =>
             /\ number = 0 /\ text = Behind(start)
             /\ lookahead = "SKIP_NONE" => start = 0
             /\ lookahead = "SKIP_WHITESPACE" => \A k \in 1..start : input[k] \in Whitespace

(* Stream.h says of parseInt() that it "returns the first valid (long)     *)
(* integer value from the current position": skipping what is none, it     *)
(* returns the first number that has a digit, if no pause intervenes.      *)
Valid == {i \in DOMAIN input : Starts(input[i]) /\ DigitsIn(i, EndOf(i)) # {}}

FirstValidInteger ==
    /\ phase = "done" /\ ~detectDecimal /\ lookahead = "SKIP_ALL"
    /\ Valid # {} /\ \A k \in DOMAIN input : input[k] # Pause
    => number = NumberAt(Min(Valid))
=============================================================================
