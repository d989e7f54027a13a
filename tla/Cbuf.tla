-------------------------------- MODULE Cbuf --------------------------------
(***************************************************************************)
(* The resizable circular buffer of arduino/api/cbuf.cpp.  Pointers are    *)
(* offsets from _buf, so _bufend is _size; one byte of the storage always  *)
(* stays unused.  Every method is one step: the class has no protection    *)
(* and is used by one task.                                                *)
(***************************************************************************)
EXTENDS Integers, Sequences, SequencesExt

CONSTANTS Bytes,      \* values of data bytes, all different from 0
          MaxSize,    \* bound: the largest storage
          WORD,       \* the range of size_t
          ExactFit    \* may a caller resize to one less than what is available?

ASSUME CbufAssumption ==
    /\ MaxSize \in Nat \ {0} /\ WORD \in Nat /\ WORD > 2 * MaxSize
    /\ ExactFit \in BOOLEAN

VARIABLES mem,        \* the storage, [0..(_size - 1) -> char]
          _size, _begin, _end,
          out,        \* what the last read or peek delivered
          kept        \* history: bytes accepted and neither read nor removed

vars == <<mem, _size, _begin, _end, out, kept>>

-----------------------------------------------------------------------------
wrap_if_bufendNever(p) == p

wrap_if_bufend(p) == IF p = _size THEN 0 ELSE p

empty == _begin = _end

full == wrap_if_bufend(_end + 1) = _begin

available == IF _end >= _begin THEN _end - _begin ELSE _size - (_begin - _end)

room == IF _end >= _begin THEN (_size - (_end - _begin) - 1) % WORD
                          ELSE _begin - _end - 1

Least(a, b) == IF a < b THEN a ELSE b

(* memcpy out of the storage and into it.  A byte outside the storage      *)
(* reads as 0, which is no data, and a write outside it is lost.           *)
Out(from, n) == [i \in 1..n |-> IF from + i - 1 \in DOMAIN mem THEN mem[from + i - 1] ELSE 0]

In(m, at, s) == [i \in DOMAIN m |-> IF i \in at..(at + Len(s) - 1) THEN s[i - at + 1] ELSE m[i]]

(* The two-part copy that read(dst, n), peek(dst, n) and remove(n) share:  *)
(* first up to _bufend, then from _buf.                                    *)
Top(n) == IF _end < _begin /\ n > _size - _begin THEN _size - _begin ELSE 0

Copied(n) == Out(_begin, Top(n)) \o Out(IF Top(n) > 0 THEN 0 ELSE _begin, n - Top(n))

Advanced(n) == wrap_if_bufend((IF Top(n) > 0 THEN 0 ELSE _begin) + n - Top(n))

(* What a reader would get. *)
Contents == Copied(available)

-----------------------------------------------------------------------------
(* cbuf(size): the constructor reserves one byte more. *)
Init ==
    /\ _size \in 1..MaxSize
    /\ mem = [i \in 0..(_size - 1) |-> 0]
    /\ _begin = 0 /\ _end = 0
    /\ out = <<>> /\ kept = <<>>

resizeCopiesUnwrapped(n) ==
    /\ n + 1 <= MaxSize
    /\ n + 1 >= available /\ n + 1 # _size
    /\ ExactFit \/ n + 1 # available
    /\ mem' = In([i \in 0..n |-> 0], 0, Out(_begin, available))
    /\ _size' = n + 1 /\ _begin' = 0 /\ _end' = available
    /\ UNCHANGED <<out, kept>>

(* resize(n) when it does something: it returns early, changing nothing,   *)
(* if n + 1 bytes are too few or are what there is, or allocation fails.   *)
resize(n) ==
    /\ n + 1 <= MaxSize
    /\ n + 1 >= available /\ n + 1 # _size
    /\ ExactFit \/ n + 1 # available
    /\ mem' = In([i \in 0..n |-> 0], 0, Copied(available))
    /\ _size' = n + 1 /\ _begin' = 0 /\ _end' = available
    /\ UNCHANGED <<out, kept>>

resizeAdd(n) == resize(_size + n)

flush ==
    /\ _begin' = 0 /\ _end' = 0
    /\ kept' = <<>>
    /\ UNCHANGED <<mem, _size, out>>

remove(n) ==
    /\ n < available
    /\ _begin' = Advanced(n)
    /\ kept' = SubSeq(kept, n + 1, Len(kept))
    /\ UNCHANGED <<mem, _size, _end, out>>

removeAll(n) == n >= available /\ flush

(* read() and read(dst, n). *)
read ==
    /\ ~empty
    /\ out' = Out(_begin, 1)
    /\ _begin' = wrap_if_bufend(_begin + 1)
    /\ kept' = Tail(kept)
    /\ UNCHANGED <<mem, _size, _end>>

readN(n) ==
    LET k == Least(n, available) IN
    /\ out' = Copied(k)
    /\ _begin' = Advanced(k)
    /\ kept' = SubSeq(kept, k + 1, Len(kept))
    /\ UNCHANGED <<mem, _size, _end>>

(* peek() and peek(dst, n). *)
peek ==
    /\ ~empty
    /\ out' = Out(_begin, 1)
    /\ UNCHANGED <<mem, _size, _begin, _end, kept>>

peekN(n) ==
    /\ out' = Copied(Least(n, available))
    /\ UNCHANGED <<mem, _size, _begin, _end, kept>>

(* write(c) and write(src, n): what does not fit is left out. *)
write(c) ==
    /\ ~full
    /\ mem' = In(mem, _end, <<c>>)
    /\ _end' = wrap_if_bufend(_end + 1)
    /\ kept' = Append(kept, c)
    /\ UNCHANGED <<_size, _begin, out>>

writeN(s) ==
    LET n   == Least(Len(s), room)
        top == IF _end >= _begin /\ n > _size - _end THEN _size - _end ELSE 0
        at  == IF _end >= _begin /\ n > _size - _end THEN 0 ELSE _end
    IN
    /\ mem' = In(In(mem, _end, SubSeq(s, 1, top)), at, SubSeq(s, top + 1, n))
    /\ _end' = wrap_if_bufend(at + n - top)
    /\ kept' = kept \o SubSeq(s, 1, n)
    /\ UNCHANGED <<_size, _begin, out>>

Next ==
    \/ \E n \in 0..MaxSize : resize(n) \/ resizeAdd(n) \/ remove(n) \/ removeAll(n)
                             \/ readN(n) \/ peekN(n)
    \/ flush \/ read \/ peek
    \/ \E c \in Bytes : write(c)
    \/ \E n \in 0..MaxSize : \E s \in [1..n -> Bytes] : writeN(s)

Spec == Init /\ [][Next]_vars

-----------------------------------------------------------------------------
TypeOK ==
    /\ _size \in 1..MaxSize
    /\ mem \in [0..(_size - 1) -> Bytes \cup {0}]
    /\ _begin \in 0..(_size - 1) /\ _end \in 0..(_size - 1)
    /\ out \in Seq(Bytes) /\ kept \in Seq(Bytes)

(* Nothing is lost, invented or reordered by any sequence of reads,        *)
(* writes, removals and resizes, however the data wraps around the end of  *)
(* the storage ("not lose any data", cbuf.cpp).                            *)
NothingLost == Contents = kept

(* read() and peek() deliver the oldest bytes, and a read takes exactly    *)
(* what it delivers.                                                       *)
OldestFirst ==
    [][out' # out => /\ IsPrefix(out', kept)
                     /\ kept' = kept \/ kept = out' \o kept']_vars

(* The four ways to ask for the room agree. *)
RoomAgrees ==
    /\ available + room = _size - 1
    /\ full <=> room = 0
    /\ empty <=> available = 0

(* The buffer is exact in what it holds, delivers and counts. *)
CbufExact == [][NothingLost' /\ RoomAgrees']_vars /\ OldestFirst

(* What the comment in resize() promises of the data: a byte that was      *)
(* accepted and not yet read or removed can still be read.                 *)
NoDataLost == IsSuffix(kept, Contents)
=============================================================================
