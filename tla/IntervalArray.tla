---- MODULE IntervalArray ----
(***************************************************************************)
(* IntervalArray: the blocks a player reported, as intervals in ascending  *)
(* order with a gap between any two.  Its arithmetic is unsigned.          *)
(*                                                                         *)
(* An array is the record of m_array's valid part and m_totalsize.         *)
(* SafeInsert moves the tail by memcpy, also when there is room to spare   *)
(* and the memory overlaps, which is undefined: "move" is the copy that    *)
(* notices, "forward" the one that copies in ascending order.              *)
(*                                                                         *)
(* AddInterval and DelInterval call themselves last of all: a call either  *)
(* takes the next call's place or returns, and the two are defined apart.  *)
(***************************************************************************)
EXTENDS Integers, Sequences, SequencesExt, FiniteSetsExt

CONSTANTS
    UINT_MAX,       \* the largest unsigned number
    MaxValidSize,   \* the most intervals an array may have (0xffff)
    Overlap         \* what memcpy does to overlapping memory

ASSUME IntervalAssumption ==
    /\ UINT_MAX \in Nat
    /\ MaxValidSize \in Nat
    /\ Overlap \in {"move", "forward"}

VARIABLE array

Ids == 0 .. UINT_MAX
Plus(x, y) == (x + y) % (UINT_MAX + 1)
Minus(x, y) == (x - y) % (UINT_MAX + 1)

BlockInterval == [start : Ids, size : Ids]
Interval(start, size) == [start |-> start, size |-> size]
End(interval) == Plus(interval.start, interval.size)

\* Intervals that end within the numbers there are, as Verify wants them.
Intervals == {i \in BlockInterval : i.start + i.size <= UINT_MAX}

Arrays == [m_array : Seq(BlockInterval), m_totalsize : Nat]
Empty == [m_array |-> << >>, m_totalsize |-> 0]

\* The arguments of a call of AddInterval or DelInterval.
Calls == [a : Arrays, start : Ids, size : Ids]
Call(a, start, size) == [a |-> a, start |-> start, size |-> size]

-----------------------------------------------------------------------------
(* The methods that change the array.  Positions start at 1.               *)

SafeDelete(a, i) == [a EXCEPT !.m_array = RemoveAt(@, i)]

\* The tail from i on, moved up by one, when there was room for it.
Moved(tail) ==
    IF Overlap = "move" \/ Len(tail) < 2 THEN tail
    ELSE [k \in DOMAIN tail |-> tail[1]]

\* An array that is full stays as it is.
SafeInsert(a, i, start, size) ==
    LET spare == a.m_totalsize > Len(a.m_array)
        tail == SubSeq(a.m_array, i, Len(a.m_array))
    IN  IF Len(a.m_array) = MaxValidSize THEN a
        ELSE [m_array |-> SubSeq(a.m_array, 1, i - 1) \o <<Interval(start, size)>>
                              \o (IF spare THEN Moved(tail) ELSE tail),
              m_totalsize |-> IF spare THEN a.m_totalsize ELSE a.m_totalsize + 1]

\* Mutant: an interval that only touches the new one is passed over.
UpTo_NotTouching(m, start) == {i \in DOMAIN m : m[i].start > start \/ End(m[i]) > start}

\* The intervals that start after start, or that reach up to it.  The first of
\* them is where AddInterval's loop returns.
UpTo(m, start) == {i \in DOMAIN m : m[i].start > start \/ End(m[i]) >= start}

\* AddInterval takes out the interval it finds and calls itself ...
AddsAgain(c) ==
    LET m == c.a.m_array
        i == Min(UpTo(m, c.start))
        end == Plus(c.start, c.size)
    IN  /\ c.start # UINT_MAX /\ c.size # 0 /\ UpTo(m, c.start) # {}
        /\ End(m[i]) < end
        /\ IF m[i].start > c.start THEN m[i].start <= end
           ELSE i < Len(m) /\ m[i + 1].start <= end

\* Mutant: what the interval reached out to the left is lost.
NextAdd_Swallow(c) ==
    Call(SafeDelete(c.a, Min(UpTo(c.a.m_array, c.start))), c.start, c.size)

\* ... with what both cover ...
NextAdd(c) ==
    LET i == Min(UpTo(c.a.m_array, c.start))
        found == c.a.m_array[i]
    IN  IF found.start > c.start THEN Call(SafeDelete(c.a, i), c.start, c.size)
        ELSE Call(SafeDelete(c.a, i), found.start, Plus(c.size, Minus(c.start, found.start)))

\* ... or returns: interval i starts after start ...
AddBefore(c, i) ==
    IF c.a.m_array[i].start > Plus(c.start, c.size)
    THEN SafeInsert(c.a, i, c.start, c.size)
    ELSE [c.a EXCEPT !.m_array[i] = Interval(c.start, Plus(@.size, Minus(@.start, c.start)))]

\* ... or it reaches up to start.
AddFrom(c, i) ==
    LET end == Plus(c.start, c.size)
    IN  IF End(c.a.m_array[i]) >= end THEN c.a
        ELSE [c.a EXCEPT !.m_array[i] = Interval(@.start, Minus(end, @.start))]

AddReturns(c) ==
    LET m == c.a.m_array
        i == Min(UpTo(m, c.start))
    IN  IF c.start = UINT_MAX \/ c.size = 0 THEN c.a
        ELSE IF UpTo(m, c.start) = {} THEN SafeInsert(c.a, Len(m) + 1, c.start, c.size)
        ELSE IF m[i].start > c.start THEN AddBefore(c, i) ELSE AddFrom(c, i)

Added[c \in Calls] == IF AddsAgain(c) THEN Added[NextAdd(c)] ELSE AddReturns(c)

AddInterval(a, start, size) == Added[Call(a, start, size)]

\* The intervals that start after start, or that reach past it.
Past(m, start) == {i \in DOMAIN m : m[i].start > start \/ End(m[i]) > start}

Cut(a, i, start) ==
    [a EXCEPT !.m_array[i] = Interval(@.start, Minus(start, @.start))]

\* DelInterval takes out the interval it finds, or what of it lies behind
\* start, and calls itself, ...
DelsAgain(c) ==
    LET m == c.a.m_array
        i == Min(Past(m, c.start))
        end == Plus(c.start, c.size)
    IN  /\ Past(m, c.start) # {}
        /\ End(m[i]) <= end
        /\ m[i].start # c.start
        /\ m[i].start > c.start => m[i].start <= end

NextDel(c) ==
    LET i == Min(Past(c.a.m_array, c.start))
    IN  Call(IF c.a.m_array[i].start > c.start THEN SafeDelete(c.a, i)
             ELSE Cut(c.a, i, c.start),
             c.start, c.size)

\* ... or returns: interval i starts after start ...
DelBefore(c, i) ==
    LET end == Plus(c.start, c.size)
    IN  IF c.a.m_array[i].start > end THEN c.a
        ELSE [c.a EXCEPT !.m_array[i] = Interval(end, Minus(End(@), end))]

\* Mutant: what is left of an interval behind the deleted part is lost.
DelFrom_NoRest(c, i) ==
    IF c.a.m_array[i].start = c.start THEN SafeDelete(c.a, i) ELSE Cut(c.a, i, c.start)

\* ... or it has start in it.  One that begins there and ends before the deleted
\* part does is taken out, and the intervals after it are left alone.
DelFrom(c, i) ==
    LET end == Plus(c.start, c.size)
        found == c.a.m_array[i]
    IN  IF End(found) <= end THEN SafeDelete(c.a, i)
        ELSE IF found.start = c.start
        THEN [c.a EXCEPT !.m_array[i] = Interval(end, Minus(@.size, c.size))]
        ELSE SafeInsert(Cut(c.a, i, c.start), i + 1, end, Minus(End(found), end))

DelReturns(c) ==
    LET m == c.a.m_array
        i == Min(Past(m, c.start))
    IN  IF Past(m, c.start) = {} THEN c.a
        ELSE IF m[i].start > c.start THEN DelBefore(c, i) ELSE DelFrom(c, i)

Deleted[c \in Calls] == IF DelsAgain(c) THEN Deleted[NextDel(c)] ELSE DelReturns(c)

DelInterval(a, start, size) == Deleted[Call(a, start, size)]

\* DeleteArray takes out one interval of the other array after the other.
DeleteArray(a, another) ==
    LET upto[k \in 0 .. Len(another.m_array)] ==
            IF k = 0 THEN a
            ELSE DelInterval(upto[k - 1], another.m_array[k].start, another.m_array[k].size)
    IN  upto[Len(another.m_array)]

\* operator=: the copy has no room to spare.
Copy(a) == [a EXCEPT !.m_totalsize = Len(a.m_array)]

Clear(a) == [a EXCEPT !.m_array = << >>]

PopFront(a) == IF a.m_array = << >> THEN a ELSE SafeDelete(a, 1)

-----------------------------------------------------------------------------
(* The methods that only look.                                             *)

\* FindBlock gives up at the first interval that starts after id.
FindBlock(a, id) ==
    \E i \in DOMAIN a.m_array :
        /\ \A j \in 1 .. i : a.m_array[j].start <= id
        /\ End(a.m_array[i]) > id

\* Mutant: from the lesser start.
and_op_Hull(i1, i2) ==
    LET start == Min({i1.start, i2.start})
        end == Min({End(i1), End(i2)})
    IN  Interval(start, IF end > start THEN end - start ELSE 0)

\* BlockInterval::and_op
and_op(i1, i2) ==
    LET start == Max({i1.start, i2.start})
        end == Min({End(i1), End(i2)})
    IN  Interval(start, IF end > start THEN end - start ELSE 0)

\* AndOperator: the second array is the outer loop.
AndWith(m, result, i2) ==
    LET upto[k \in 0 .. Len(m)] ==
            IF k = 0 THEN result
            ELSE AddInterval(upto[k - 1], and_op(m[k], i2).start, and_op(m[k], i2).size)
    IN  upto[Len(m)]

AndOperator(a, another) ==
    LET upto[k \in 0 .. Len(another.m_array)] ==
            IF k = 0 THEN Empty
            ELSE AndWith(a.m_array, upto[k - 1], another.m_array[k])
    IN  upto[Len(another.m_array)]

GetCountInInterval(a, id, len) ==
    LET in == Interval(id, Min({len, UINT_MAX - id}))
        total[k \in 0 .. Len(a.m_array)] ==
            IF k = 0 THEN 0 ELSE Plus(total[k - 1], and_op(a.m_array[k], in).size)
    IN  total[Len(a.m_array)]

GetContinousCount(a, id) ==
    IF FindBlock(a, id)
    THEN LET i == Min({k \in DOMAIN a.m_array : End(a.m_array[k]) > id})
         IN  Minus(End(a.m_array[i]), id)
    ELSE 0

\* Verify: no interval is empty or reaches past the last number, and
\* "m_array[i].start + m_array[i].size >= m_array[i + 1].start" never holds.
Verify(m) ==
    \A i \in DOMAIN m :
        /\ m[i].size # 0
        /\ UINT_MAX - m[i].start >= m[i].size
        /\ i < Len(m) => m[i].start + m[i].size < m[i + 1].start

-----------------------------------------------------------------------------

\* Other arrays: two intervals were added to each.
Others ==
    {AddInterval(AddInterval(Empty, i.start, i.size), j.start, j.size) : i, j \in Intervals}

Init == array = Empty

Add == \E i \in Intervals : array' = AddInterval(array, i.start, i.size)

\* Deleting nothing stops at an assertion.
Delete == \E i \in Intervals : i.size > 0 /\ array' = DelInterval(array, i.start, i.size)

DeleteAll == \E another \in Others : array' = DeleteArray(array, another)

Assign == array' = Copy(array)
ClearAll == array' = Clear(array)
Pop == array' = PopFront(array)

Next == Add \/ Delete \/ DeleteAll \/ Assign \/ ClearAll \/ Pop

Spec == Init /\ [][Next]_array

-----------------------------------------------------------------------------
(* Properties.                                                             *)

Span(start, size) == start .. start + size - 1

\* What an array stands for.
Blocks(a) ==
    UNION {Span(a.m_array[i].start, a.m_array[i].size) : i \in DOMAIN a.m_array}

\* Type invariant: there is room for the valid part, and the array passes the
\* class's own Verify, which nobody calls, after every operation.
TypeOK ==
    /\ array \in Arrays
    /\ Len(array.m_array) <= array.m_totalsize /\ array.m_totalsize <= MaxValidSize
    /\ Verify(array.m_array)

\* AddInterval is union, however the new interval lies to the old ones; only a
\* full array may take no notice of it, and then of all of it.
AddIsUnion ==
    \A i \in Intervals :
        LET sum == AddInterval(array, i.start, i.size)
        IN  \/ Blocks(sum) = Blocks(array) \union Span(i.start, i.size)
            \/ sum = array /\ Len(array.m_array) = MaxValidSize

\* DelInterval takes away blocks of the interval only, unless the array is full,
\* and at least the first of them; DeleteArray at least the first of each interval.
DeleteTakesOnlyItsOwn ==
    /\ \A i \in Intervals : i.size > 0 =>
        LET left == Blocks(DelInterval(array, i.start, i.size))
        IN  /\ Len(array.m_array) < MaxValidSize =>
                    Blocks(array) \ Span(i.start, i.size) \subseteq left
            /\ left \subseteq Blocks(array) \ {i.start}
    /\ \A another \in Others :
        Blocks(DeleteArray(array, another))
            \subseteq Blocks(array) \ {another.m_array[i].start : i \in DOMAIN another.m_array}

\* FindBlock, GetContinousCount and GetCountInInterval agree with the blocks, so
\* that a player is asked for a block only when it has it.
LooksAgree(a) ==
    \A id \in Ids :
        /\ FindBlock(a, id) <=> id \in Blocks(a)
        /\ Span(id, GetContinousCount(a, id)) \subseteq Blocks(a)
        /\ id + GetContinousCount(a, id) \notin Blocks(a)
        /\ \A len \in Ids :
            GetCountInInterval(a, id, len) = Cardinality(Blocks(a) \intersect Span(id, len))

\* AndOperator is intersection, unless the result is full.
AndIsIntersection(a, another) ==
    LET both == AndOperator(a, another)
    IN  /\ Blocks(both) \subseteq Blocks(a) \intersect Blocks(another)
        /\ Len(both.m_array) < MaxValidSize =>
                Blocks(both) = Blocks(a) \intersect Blocks(another)

\* The queries agree with sets of numbers, AndOperator with any other array.
QueriesAgree ==
    /\ LooksAgree(array)
    /\ \A another \in Others : AndIsIntersection(array, another)
====
