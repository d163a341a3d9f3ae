---- MODULE RecvBuffer_proofs ----
(***************************************************************************)
(* Theorems about RecvBuffer, for any streams and any sizes of the buffer  *)
(* and of the size field.                                                  *)
(***************************************************************************)
EXTENDS RecvBuffer, WellFoundedInduction, TLAPS

-----------------------------------------------------------------------------
(* The inductive invariant.                                                *)

InBody == pc \in {"fill body", "read body", "dispatch"}

\* What was read of the message under way when curr_ptr is where it is.
Taken == IF InBody THEN FieldSize ELSE 0

\* Seen from the end of what was read, curr_ptr is where the next message
\* starts, or the body of the one under way: also when it is past end_ptr.
InPlace == received - end_ptr + curr_ptr = LastByte(Len(handled)) + Taken

\* Between the two pointers lie the bytes that were read last.
Live == \A i \in curr_ptr .. end_ptr - 1 : cells[i] = received - end_ptr + i + 1

\* Nothing in the buffer is newer than what was read.
NothingNewer == \A i \in 0 .. MaxSize - 1 : cells[i] <= received

\* The thread knows the size of the message under way.
SizeKnown ==
    /\ Len(handled) \in 0 .. Len(messages)
    /\ InBody => Current \in DOMAIN messages /\ msg_size = Size(Current)

\* A read that ended just behind a size field was noted.
SplitNoted == received = LastByte(Len(handled)) + FieldSize => split

\* Whether a read that was begun gets all it was begun for, or runs out of
\* room before: only for the body of a message that is read into an empty
\* buffer, where the free space was computed too small.  The space lost is
\* as large as what was there, a size field at least, and so the next size
\* field fits behind the gap.  Behind the gap that the end of the connection
\* leaves it need not fit.
Room ==
    /\ end_ptr <= buffer_size
    /\ pc = "fill field" =>
        /\ curr_ptr <= buffer_size
        /\ end_ptr < curr_ptr => closed \/ end_ptr + FieldSize <= buffer_size
    /\ pc = "read field" =>
        /\ curr_ptr <= buffer_size
        /\ end_ptr + free_space <= buffer_size
        /\ end_ptr - curr_ptr < FieldSize
        /\ end_ptr < curr_ptr => end_ptr + free_space = buffer_size
    /\ pc = "decode" => end_ptr - curr_ptr >= FieldSize
    /\ pc = "fill body" => FieldSize <= curr_ptr /\ curr_ptr <= end_ptr /\ ~ fill_failed
    /\ pc = "read body" =>
        /\ ~ fill_failed
        /\ curr_ptr <= end_ptr
        /\ end_ptr - curr_ptr < BodySize
        /\ end_ptr + free_space <= buffer_size
        /\ \/ end_ptr - curr_ptr + free_space >= BodySize
           \/ /\ split
              /\ curr_ptr = 0
              /\ end_ptr + free_space + FieldSize <= buffer_size
              /\ BodySize <= buffer_size
    /\ pc = "dispatch" =>
        IF fill_failed
        THEN /\ curr_ptr <= end_ptr
             /\ end_ptr - curr_ptr < BodySize
             /\ curr_ptr + BodySize <= buffer_size
             /\ closed \/ (split /\ end_ptr + FieldSize <= buffer_size)
        ELSE end_ptr - curr_ptr >= BodySize
    /\ pc = "crashed" => closed

IInv ==
    /\ TypeOK /\ InPlace /\ Live /\ NothingNewer /\ SizeKnown
    /\ SplitNoted /\ Room

-----------------------------------------------------------------------------
(* Numbers.                                                                *)

\* A set of natural numbers that is not empty has a least element.
LEMMA LeastElement ==
    ASSUME NEW T \in SUBSET Nat, T # {}
    PROVE  \E x \in T : \A y \in T : x <= y
  <1> DEFINE R == OpToRel(<, Nat)
  <1>1. IsWellFoundedOn(R, Nat)
    BY NatLessThanWellFounded
  <1>2. \A x, y \in Nat : <<y, x>> \in R <=> y < x
    BY DEF OpToRel
  <1> HIDE DEF R
  <1>3. PICK x \in T : \A y \in T : <<y, x>> \notin R
    BY <1>1, WFMin
  <1>4. ASSUME NEW y \in T
        PROVE  x <= y
    <2>1. x \in Nat /\ y \in Nat /\ ~ (y < x)
      BY <1>2, <1>3
    <2>2. QED
      BY <2>1
  <1>5. QED
    BY <1>4

\* A set that contains zero, and with every number the next one, contains all
\* natural numbers.
LEMMA Induction ==
    ASSUME NEW S \in SUBSET Nat, 0 \in S, \A n \in S : n + 1 \in S
    PROVE  S = Nat
  <1> DEFINE T == Nat \ S
  <1>1. CASE T # {}
    <2>1. PICK x \in T : \A y \in T : x <= y
      BY <1>1, LeastElement
    <2>2. x # 0 /\ x - 1 \in Nat /\ x - 1 \notin T
      BY <2>1
    <2>3. QED
      BY <2>2
  <1>2. QED
    BY <1>1

-----------------------------------------------------------------------------
(* Streams.                                                                *)

\* Messages end one after the other, each at least as many bytes later as
\* there are messages in between.
LEMMA EndsAscend ==
    ASSUME RecvBufferAssumption, NEW s \in Streams
    PROVE  /\ \A m \in 0 .. Len(s) : EndOf(s, m) \in Nat
           /\ \A m, n \in 0 .. Len(s) : m <= n => EndOf(s, m) + (n - m) <= EndOf(s, n)
  <1>1. s \in Seq(Nat) /\ Len(s) \in Nat /\ DOMAIN s = 1 .. Len(s)
    BY DEF RecvBufferAssumption, IsStream
  <1>2. \A m \in 0 .. Len(s) : EndOf(s, m) \in Nat
    BY <1>1 DEF EndOf
  <1>3. \A m \in 1 .. Len(s) : EndOf(s, m - 1) + 1 <= EndOf(s, m)
    <2>1. ASSUME NEW m \in 1 .. Len(s)
          PROVE  EndOf(s, m - 1) + 1 <= EndOf(s, m)
      <3>1. EndOf(s, m) - EndOf(s, m - 1) \in FieldSize + 1 .. FieldSize + MaxSize
        BY <1>1 DEF RecvBufferAssumption, IsStream
      <3>2. EndOf(s, m) \in Nat /\ EndOf(s, m - 1) \in Nat
        BY <1>1, <1>2
      <3>3. FieldSize \in Nat /\ MaxSize \in Nat
        BY DEF RecvBufferAssumption
      <3>4. QED
        BY <3>1, <3>2, <3>3
    <2>2. QED
      BY <2>1
  <1> DEFINE S == {k \in Nat : \A m \in 0 .. Len(s) :
                        m + k \in 0 .. Len(s) => EndOf(s, m) + k <= EndOf(s, m + k)}
  <1>4. 0 \in S
    BY <1>2
  <1>5. ASSUME NEW k \in S
        PROVE  k + 1 \in S
    <2>1. ASSUME NEW m \in 0 .. Len(s), m + (k + 1) \in 0 .. Len(s)
          PROVE  EndOf(s, m) + (k + 1) <= EndOf(s, m + (k + 1))
      <3>1. /\ m + k \in 0 .. Len(s) /\ m + (k + 1) \in 1 .. Len(s)
            /\ (m + (k + 1)) - 1 = m + k /\ k \in Nat
        BY <1>1, <2>1
      <3>2. EndOf(s, m) + k <= EndOf(s, m + k)
        BY <3>1
      <3>3. EndOf(s, m + k) + 1 <= EndOf(s, m + (k + 1))
        BY <1>3, <3>1
      <3>4. EndOf(s, m) \in Nat /\ EndOf(s, m + k) \in Nat /\ EndOf(s, m + (k + 1)) \in Nat
        BY <1>2, <2>1, <3>1
      <3>5. QED
        BY <3>1, <3>2, <3>3, <3>4
    <2>2. QED
      BY <2>1
  <1>6. S = Nat
    <2>1. S \in SUBSET Nat
      OBVIOUS
    <2> HIDE DEF S
    <2>2. QED
      BY <1>4, <1>5, <2>1, Induction
  <1>7. ASSUME NEW m \in 0 .. Len(s), NEW n \in 0 .. Len(s), m <= n
        PROVE  EndOf(s, m) + (n - m) <= EndOf(s, n)
    <2>1. n - m \in Nat /\ m + (n - m) = n
      BY <1>1, <1>7
    <2>2. n - m \in S
      BY <1>6, <2>1
    <2>3. QED
      BY <2>1, <2>2
  <1>8. QED
    BY <1>2, <1>7

\* Where the messages of the connection begin and end.
LEMMA MessageBounds ==
    ASSUME RecvBufferAssumption, messages \in Streams
    PROVE  /\ Len(messages) \in Nat /\ DOMAIN messages = 1 .. Len(messages)
           /\ Total \in Nat
           /\ \A m \in 0 .. Len(messages) : LastByte(m) \in Nat /\ LastByte(m) <= Total
           /\ \A m \in 1 .. Len(messages) :
                /\ Size(m) \in FieldSize + 1 .. FieldSize + MaxSize
                /\ LastByte(m - 1) \in Nat
                /\ LastByte(m) = LastByte(m - 1) + Size(m)
           /\ \A m, n \in 1 .. Len(messages) : FirstByte(m) = FirstByte(n) => m = n
  <1>1. Len(messages) \in Nat /\ DOMAIN messages = 1 .. Len(messages)
    BY DEF RecvBufferAssumption, IsStream
  <1>2. \A m \in 0 .. Len(messages) : LastByte(m) \in Nat
    BY EndsAscend DEF LastByte
  <1>3. \A m, n \in 0 .. Len(messages) : m <= n => LastByte(m) + (n - m) <= LastByte(n)
    BY EndsAscend DEF LastByte
  <1>4. ASSUME NEW m \in 0 .. Len(messages)
        PROVE  LastByte(m) <= Total
    <2>1. LastByte(m) + (Len(messages) - m) <= LastByte(Len(messages))
      BY <1>1, <1>3
    <2>2. QED
      BY <1>1, <1>2, <2>1 DEF Total
  <1>5. ASSUME NEW m \in 1 .. Len(messages)
        PROVE  /\ Size(m) \in FieldSize + 1 .. FieldSize + MaxSize
               /\ LastByte(m - 1) \in Nat
               /\ LastByte(m) = LastByte(m - 1) + Size(m)
    <2>1. m \in 0 .. Len(messages) /\ m - 1 \in 0 .. Len(messages)
      BY <1>1
    <2>2. Size(m) \in FieldSize + 1 .. FieldSize + MaxSize
      BY <1>1 DEF RecvBufferAssumption, IsStream, Size, LastByte
    <2>3. LastByte(m) \in Nat /\ LastByte(m - 1) \in Nat
      BY <1>2, <2>1
    <2>4. QED
      BY <2>2, <2>3 DEF Size
  <1>6. ASSUME NEW m \in 1 .. Len(messages), NEW n \in 1 .. Len(messages), m < n
        PROVE  FirstByte(m) < FirstByte(n)
    <2>1. m - 1 \in 0 .. Len(messages) /\ n - 1 \in 0 .. Len(messages) /\ m - 1 <= n - 1
      BY <1>1, <1>6
    <2>2. LastByte(m - 1) + ((n - 1) - (m - 1)) <= LastByte(n - 1)
      BY <1>3, <2>1
    <2>3. LastByte(m - 1) \in Nat /\ LastByte(n - 1) \in Nat
      BY <1>2, <2>1
    <2>4. QED
      BY <1>6, <2>2, <2>3 DEF FirstByte
  <1>7. ASSUME NEW m \in 1 .. Len(messages), NEW n \in 1 .. Len(messages),
               FirstByte(m) = FirstByte(n)
        PROVE  m = n
    <2>1. FirstByte(m) \in Int /\ FirstByte(n) \in Int
      BY <1>5 DEF FirstByte
    <2>2. ~ (m < n) /\ ~ (n < m)
      BY <1>6, <1>7, <2>1
    <2>3. QED
      BY <2>2
  <1>8. QED
    BY <1>1, <1>2, <1>4, <1>5, <1>7 DEF Total

-----------------------------------------------------------------------------
(* RsBuffer.                                                               *)

\* What the fields are, as numbers.
LEMMA Numbers ==
    ASSUME RecvBufferAssumption, TypeOK
    PROVE  /\ FieldSize \in Nat /\ FieldSize > 0
           /\ DefaultSize \in Nat /\ MaxSize \in Nat
           /\ FieldSize <= DefaultSize /\ DefaultSize <= MaxSize
           /\ buffer_size \in Nat /\ DefaultSize <= buffer_size /\ buffer_size <= MaxSize
           /\ curr_ptr \in Nat /\ end_ptr \in Nat
           /\ received \in Nat /\ received <= Total /\ Total \in Nat
           /\ free_space \in Nat /\ free_space <= MaxSize
           /\ msg_size \in Nat
           /\ cells \in [0 .. MaxSize - 1 -> 0 .. Total]
           /\ DOMAIN cells = 0 .. MaxSize - 1
           /\ \A i \in 0 .. MaxSize - 1 : cells[i] \in Nat
  <1>1. Total \in Nat
    BY MessageBounds DEF TypeOK
  <1>2. /\ FieldSize \in Nat /\ FieldSize > 0
        /\ DefaultSize \in Nat /\ MaxSize \in Nat
        /\ FieldSize <= DefaultSize /\ DefaultSize <= MaxSize
    BY DEF RecvBufferAssumption
  <1>3. cells \in [0 .. MaxSize - 1 -> 0 .. Total]
    BY DEF TypeOK
  <1>4. DOMAIN cells = 0 .. MaxSize - 1 /\ \A i \in 0 .. MaxSize - 1 : cells[i] \in Nat
    BY <1>1, <1>3
  <1>5. /\ buffer_size \in DefaultSize .. MaxSize
        /\ curr_ptr \in Nat /\ end_ptr \in Nat /\ received \in 0 .. Total
        /\ free_space \in 0 .. MaxSize /\ msg_size \in Nat
    BY DEF TypeOK
  <1>6. QED
    BY <1>1, <1>2, <1>3, <1>4, <1>5

\* The same without the cells.
LEMMA Sizes ==
    ASSUME RecvBufferAssumption, TypeOK
    PROVE  /\ FieldSize \in Nat /\ FieldSize > 0 /\ FieldSize \in 1 .. MaxSize
           /\ DefaultSize \in Nat /\ MaxSize \in Nat
           /\ FieldSize <= DefaultSize /\ DefaultSize <= MaxSize
           /\ buffer_size \in Nat /\ DefaultSize <= buffer_size /\ buffer_size <= MaxSize
           /\ curr_ptr \in Nat /\ end_ptr \in Nat
           /\ received \in Nat /\ free_space \in Nat /\ msg_size \in Nat
  BY Numbers

\* Making room moves the bytes that are there, or leaves them, and changes
\* nothing else; behind a gap all the room there is is offered.
LEMMA RoomMade ==
    ASSUME RecvBufferAssumption, TypeOK, Live, NothingNewer,
           NEW size \in 1 .. MaxSize, MakeRoom(size), received' = received,
           end_ptr <= buffer_size
    PROVE  /\ cells' \in [0 .. MaxSize - 1 -> 0 .. Total]
           /\ Live' /\ NothingNewer'
           /\ end_ptr - curr_ptr < size
           /\ \E b, c, e, f \in Nat :
                /\ buffer_size' = b /\ curr_ptr' = c /\ end_ptr' = e /\ free_space' = f
                /\ buffer_size <= b /\ b <= MaxSize /\ size <= b
                /\ c <= curr_ptr /\ e - c = end_ptr - curr_ptr
                /\ e + f <= b
                /\ \/ end_ptr = curr_ptr /\ c = 0 /\ e = 0 /\ f = b - end_ptr
                   \/ end_ptr < curr_ptr /\ e + f = b
                   \/ curr_ptr < end_ptr /\ e - c + f >= size
  <1> DEFINE exists == end_ptr - curr_ptr
             newSize == Enlarged(size)
             free == newSize - end_ptr
  <1>1. /\ MaxSize \in Nat /\ buffer_size \in Nat /\ buffer_size <= MaxSize
        /\ curr_ptr \in Nat /\ end_ptr \in Nat /\ received \in Nat
        /\ cells \in [0 .. MaxSize - 1 -> 0 .. Total] /\ DOMAIN cells = 0 .. MaxSize - 1
        /\ size \in Nat /\ size >= 1 /\ size <= MaxSize
    BY Numbers
  <1>2. newSize = IF buffer_size < size THEN size ELSE buffer_size
    BY <1>1 DEF set_buffer, Enlarged
  <1>3. newSize \in buffer_size .. MaxSize /\ newSize \in Nat /\ size <= newSize
    BY <1>1, <1>2
  <1>4. /\ exists < size /\ buffer_size' = newSize
        /\ \/ /\ exists = 0
              /\ curr_ptr' = 0 /\ end_ptr' = 0
              /\ free_space' = free
              /\ UNCHANGED cells
           \/ /\ exists > 0 /\ free < size
              /\ cells' = [i \in DOMAIN cells |->
                            IF i < exists THEN cells[curr_ptr + i] ELSE cells[i]]
              /\ curr_ptr' = 0 /\ end_ptr' = exists
              /\ free_space' = newSize - exists
           \/ /\ exists # 0 /\ free >= size
              /\ free_space' = free
              /\ UNCHANGED <<curr_ptr, end_ptr, cells>>
    BY DEF MakeRoom
  <1> HIDE DEF newSize
  <1> DEFINE Fit(b, c, e, f) ==
                /\ buffer_size <= b /\ b <= MaxSize /\ size <= b
                /\ c <= curr_ptr /\ e - c = end_ptr - curr_ptr
                /\ e + f <= b
                /\ \/ end_ptr = curr_ptr /\ c = 0 /\ e = 0 /\ f = b - end_ptr
                   \/ end_ptr < curr_ptr /\ e + f = b
                   \/ curr_ptr < end_ptr /\ e - c + f >= size
  <1>a. end_ptr - curr_ptr < size
    BY <1>4
  <1>5. CASE exists = 0
    <2>1. /\ curr_ptr' = 0 /\ end_ptr' = 0 /\ free_space' = newSize - end_ptr
          /\ cells' = cells /\ curr_ptr = end_ptr
      BY <1>1, <1>4, <1>5
    <2>2. Live' /\ NothingNewer'
      BY <2>1 DEF Live, NothingNewer
    <2>3. newSize - end_ptr \in Nat /\ Fit(newSize, 0, 0, newSize - end_ptr)
      BY <1>1, <1>3, <2>1
    <2>4. QED
      BY <1>1, <1>3, <1>4, <1>a, <2>1, <2>2, <2>3
  <1>6. CASE exists # 0 /\ free >= size
    <2>1. /\ curr_ptr' = curr_ptr /\ end_ptr' = end_ptr
          /\ free_space' = newSize - end_ptr /\ cells' = cells
      BY <1>1, <1>3, <1>4, <1>6
    <2>2. Live' /\ NothingNewer'
      BY <2>1 DEF Live, NothingNewer
    <2>3. newSize - end_ptr \in Nat /\ Fit(newSize, curr_ptr, end_ptr, newSize - end_ptr)
      <3>1. newSize - end_ptr >= size /\ end_ptr # curr_ptr
        BY <1>1, <1>6
      <3>2. curr_ptr < end_ptr => end_ptr - curr_ptr + (newSize - end_ptr) >= size
        BY <1>1, <1>3, <3>1
      <3>3. QED
        BY <1>1, <1>3, <3>1, <3>2
    <2>4. QED
      BY <1>1, <1>3, <1>4, <1>a, <2>1, <2>2, <2>3
  <1>7. CASE exists > 0 /\ free < size
    <2>1. curr_ptr < end_ptr
      BY <1>1, <1>7
    <2>2. /\ curr_ptr' = 0 /\ end_ptr' = exists /\ free_space' = newSize - exists
          /\ cells' = [i \in 0 .. MaxSize - 1 |->
                            IF i < exists THEN cells[curr_ptr + i] ELSE cells[i]]
      <3>1. ~ (free >= size)
        BY <1>1, <1>3, <1>7
      <3> HIDE DEF exists, free
      <3>2. QED
        BY <1>1, <1>4, <1>7, <3>1
    <2>3. exists \in Nat /\ exists <= end_ptr /\ exists < size
      BY <1>1, <1>4, <2>1
    <2>4. ASSUME NEW i \in 0 .. MaxSize - 1
          PROVE  /\ i < exists => /\ curr_ptr + i \in 0 .. MaxSize - 1
                                  /\ curr_ptr + i \in curr_ptr .. end_ptr - 1
                                  /\ cells'[i] = cells[curr_ptr + i]
                 /\ ~ (i < exists) => cells'[i] = cells[i]
      <3>1. i < exists => /\ curr_ptr + i \in 0 .. MaxSize - 1
                          /\ curr_ptr + i \in curr_ptr .. end_ptr - 1
        BY <1>1
      <3>2. QED
        BY <2>2, <3>1
    <2> HIDE DEF exists
    <2>5. cells' \in [0 .. MaxSize - 1 -> 0 .. Total]
      <3>1. \A i \in 0 .. MaxSize - 1 : cells'[i] \in 0 .. Total
        BY <1>1, <2>4
      <3>2. QED
        BY <2>2, <3>1
    <2>6. NothingNewer'
      <3>1. \A i \in 0 .. MaxSize - 1 : cells'[i] <= received
        BY <2>4 DEF NothingNewer
      <3>2. QED
        BY <3>1 DEF NothingNewer
    <2>7. Live'
      <3>1. ASSUME NEW i \in 0 .. exists - 1
            PROVE  cells'[i] = received - exists + i + 1
        <4>1. i \in 0 .. MaxSize - 1 /\ i < exists
          BY <1>1, <2>3
        <4>2. /\ curr_ptr + i \in curr_ptr .. end_ptr - 1
              /\ cells'[i] = cells[curr_ptr + i]
          BY <2>4, <4>1
        <4>3. cells[curr_ptr + i] = received - end_ptr + (curr_ptr + i) + 1
          BY <4>2 DEF Live
        <4>4. QED
          BY <1>1, <4>1, <4>2, <4>3 DEF exists
      <3>2. QED
        BY <2>2, <3>1 DEF Live
    <2>8. newSize - exists \in Nat /\ Fit(newSize, 0, exists, newSize - exists)
      <3>1. exists = end_ptr - curr_ptr
        BY DEF exists
      <3>2. QED
        BY <1>1, <1>3, <2>1, <2>3, <3>1
    <2>9. QED
      BY <1>1, <1>3, <1>4, <1>a, <2>2, <2>3, <2>5, <2>6, <2>7, <2>8
  <1>8. exists = 0 \/ (exists # 0 /\ free >= size) \/ (exists > 0 /\ free < size)
    BY <1>4
  <1> HIDE DEF exists, free
  <1>9. QED
    BY <1>5, <1>6, <1>7, <1>8

\* A read puts the next bytes behind those that are there.
LEMMA BytesReceived ==
    ASSUME RecvBufferAssumption, TypeOK, Live, NothingNewer,
           NEW n \in Bytes, Receive(n), end_ptr + free_space <= buffer_size
    PROVE  /\ received' \in 0 .. Total /\ received' = received + n
           /\ end_ptr' \in Nat /\ end_ptr' = end_ptr + n
           /\ free_space' \in 0 .. MaxSize /\ free_space' = free_space - n
           /\ cells' \in [0 .. MaxSize - 1 -> 0 .. Total]
           /\ Live' /\ NothingNewer'
  <1>1. /\ MaxSize \in Nat /\ buffer_size \in Nat /\ buffer_size <= MaxSize
        /\ curr_ptr \in Nat /\ end_ptr \in Nat /\ received \in Nat
        /\ free_space \in Nat /\ free_space <= MaxSize
        /\ Total \in Nat /\ received <= Total
        /\ cells \in [0 .. MaxSize - 1 -> 0 .. Total] /\ DOMAIN cells = 0 .. MaxSize - 1
        /\ \A i \in 0 .. MaxSize - 1 : cells[i] \in Nat
        /\ n \in Nat /\ n >= 1
    BY Numbers DEF Bytes
  <1>2. /\ n <= free_space /\ n <= Total - received
        /\ cells' = [i \in 0 .. MaxSize - 1 |->
                        IF i \in end_ptr .. end_ptr + n - 1
                        THEN received + 1 + (i - end_ptr) ELSE cells[i]]
        /\ received' = received + n /\ end_ptr' = end_ptr + n
        /\ free_space' = free_space - n /\ curr_ptr' = curr_ptr
    BY <1>1 DEF Receive
  <1>3. ASSUME NEW i \in 0 .. MaxSize - 1
        PROVE  /\ cells'[i] \in 0 .. Total /\ cells'[i] <= received + n
               /\ i \in end_ptr .. end_ptr + n - 1 => cells'[i] = received + 1 + (i - end_ptr)
               /\ i \notin end_ptr .. end_ptr + n - 1 => cells'[i] = cells[i]
    <2>1. cells[i] \in 0 .. Total /\ cells[i] <= received
      BY <1>1 DEF NothingNewer
    <2>2. CASE i \in end_ptr .. end_ptr + n - 1
      <3>1. cells'[i] = received + 1 + (i - end_ptr)
        BY <1>2, <2>2
      <3>2. QED
        BY <1>1, <1>2, <2>2, <3>1
    <2>3. CASE i \notin end_ptr .. end_ptr + n - 1
      <3>1. cells'[i] = cells[i]
        BY <1>2, <2>3
      <3>2. QED
        BY <1>1, <2>1, <2>3, <3>1
    <2>4. QED
      BY <2>2, <2>3
  <1>4. cells' \in [0 .. MaxSize - 1 -> 0 .. Total]
    BY <1>2, <1>3
  <1>5. NothingNewer'
    BY <1>2, <1>3 DEF NothingNewer
  <1>6. Live'
    <2>1. ASSUME NEW i \in curr_ptr .. end_ptr + n - 1
          PROVE  cells'[i] = (received + n) - (end_ptr + n) + i + 1
      <3>1. i \in 0 .. MaxSize - 1 /\ i \in Nat
        BY <1>1, <1>2
      <3>2. CASE i \in end_ptr .. end_ptr + n - 1
        BY <1>1, <1>3, <3>1, <3>2
      <3>3. CASE i \notin end_ptr .. end_ptr + n - 1
        <4>1. i \in curr_ptr .. end_ptr - 1
          BY <1>1, <2>1, <3>1, <3>3
        <4>2. cells[i] = received - end_ptr + i + 1
          BY <4>1 DEF Live
        <4>3. QED
          BY <1>1, <1>3, <3>1, <3>3, <4>2
      <3>4. QED
        BY <3>2, <3>3
    <2>2. /\ curr_ptr' = curr_ptr /\ end_ptr' = end_ptr + n
          /\ received' = received + n
      BY <1>2
    <2>3. \A i \in curr_ptr' .. end_ptr' - 1 : cells'[i] = received' - end_ptr' + i + 1
      <3>1. curr_ptr' .. end_ptr' - 1 = curr_ptr .. end_ptr + n - 1
        BY <1>1, <2>2
      <3>2. received' - end_ptr' = (received + n) - (end_ptr + n)
        BY <2>2
      <3>3. QED
        BY <2>1, <3>1, <3>2
    <2>4. QED
      BY <2>3 DEF Live
  <1>7. QED
    BY <1>1, <1>2, <1>4, <1>5, <1>6

\* A call of fill_buffer crashes only where the gap leaves too little room.
LEMMA CrashNeedsGap ==
    ASSUME RecvBufferAssumption, TypeOK, NEW size \in 1 .. MaxSize, MoveCrashes(size)
    PROVE  end_ptr < curr_ptr /\ ~ (end_ptr + size <= buffer_size)
  <1>1. /\ MaxSize \in Nat /\ buffer_size \in Nat /\ end_ptr \in Nat
    BY Numbers
  <1>2. Enlarged(size) = IF buffer_size < size THEN size ELSE buffer_size
    BY <1>1 DEF Enlarged, set_buffer
  <1>3. end_ptr < curr_ptr /\ Enlarged(size) - end_ptr < size
    BY DEF MoveCrashes
  <1>4. QED
    BY <1>1, <1>2, <1>3

-----------------------------------------------------------------------------
(* loop(), step by step.                                                   *)

\* A step that hands nothing over leaves the stream and its count alone.
LEMMA SameStream ==
    ASSUME UNCHANGED <<messages, handled>>
    PROVE  /\ Total' = Total
           /\ LastByte(Len(handled))' = LastByte(Len(handled))
           /\ Current' = Current
           /\ Size(Current)' = Size(Current)
  BY DEF Total, LastByte, Current, Size

\* A step that leaves the buffer alone leaves what is said of it alone.
LEMMA SameBuffer ==
    ASSUME TypeOK, Live, NothingNewer, UNCHANGED <<messages, received, buffer>>
    PROVE  /\ Live' /\ NothingNewer'
           /\ received' \in 0 .. Total /\ buffer_size' \in DefaultSize .. MaxSize
           /\ curr_ptr' \in Nat /\ end_ptr' \in Nat
           /\ cells' \in [0 .. MaxSize - 1 -> 0 .. Total]
  BY DEF TypeOK, Live, NothingNewer, buffer

\* A step that neither reads nor hands over leaves what was noted alone.
LEMMA SameSplit ==
    ASSUME SplitNoted, UNCHANGED <<messages, received, split, handled>>
    PROVE  SplitNoted'
  BY SameStream DEF SplitNoted

\* The type invariant after a step that hands nothing over.
LEMMA TypesKept ==
    ASSUME TypeOK, UNCHANGED <<messages, handled>>,
           received' \in 0 .. Total, buffer_size' \in DefaultSize .. MaxSize,
           curr_ptr' \in Nat, end_ptr' \in Nat,
           cells' \in [0 .. MaxSize - 1 -> 0 .. Total],
           pc' \in {"fill field", "read field", "decode",
                    "fill body", "read body", "dispatch", "crashed"},
           free_space' \in 0 .. MaxSize, msg_size' \in Nat,
           closed' \in BOOLEAN, fill_failed' \in BOOLEAN, split' \in BOOLEAN
    PROVE  TypeOK'
  BY SameStream DEF TypeOK

\* The call of fill_buffer for a size field.
LEMMA FillFieldKeeps ==
    ASSUME RecvBufferAssumption, IInv, FillField
    PROVE  IInv'
  <1>1. /\ TypeOK /\ InPlace /\ Live /\ NothingNewer /\ SizeKnown
        /\ SplitNoted /\ Room
        /\ pc = "fill field" /\ ~ InBody
        /\ UNCHANGED <<messages, received, msg_size, closed, fill_failed, split, handled>>
    BY DEF IInv, FillField, CallFill, InBody
  <1>2. /\ FieldSize \in 1 .. MaxSize /\ FieldSize \in Nat /\ MaxSize \in Nat
        /\ DefaultSize \in Nat /\ FieldSize <= DefaultSize
        /\ curr_ptr \in Nat /\ end_ptr \in Nat /\ buffer_size \in Nat /\ received \in Nat
        /\ DefaultSize <= buffer_size /\ buffer_size <= MaxSize
        /\ end_ptr <= buffer_size /\ curr_ptr <= buffer_size
        /\ end_ptr < curr_ptr => closed \/ end_ptr + FieldSize <= buffer_size
    <2>1. /\ end_ptr <= buffer_size /\ curr_ptr <= buffer_size
          /\ end_ptr < curr_ptr => closed \/ end_ptr + FieldSize <= buffer_size
      BY <1>1 DEF Room
    <2>2. QED
      BY <1>1, <2>1, Sizes
  <1>3. Taken = 0
    BY <1>1 DEF Taken
  <1>4. CASE end_ptr - curr_ptr >= FieldSize /\ pc' = "decode" /\ UNCHANGED <<buffer, free_space>>
    <2>1. ~ InBody'
      BY <1>4 DEF InBody
    <2>2. TypeOK'
      BY <1>1, <1>4, SameBuffer, TypesKept DEF TypeOK
    <2>3. Live' /\ NothingNewer'
      BY <1>1, <1>4, SameBuffer
    <2>4. InPlace'
      BY <1>1, <1>4, <2>1, SameStream DEF InPlace, Taken, buffer
    <2>5. SizeKnown'
      BY <1>1, <2>1 DEF SizeKnown
    <2>6. Room'
      BY <1>2, <1>4 DEF Room, buffer
    <2>7. QED
      BY <1>1, <2>2, <2>3, <2>4, <2>5, <2>6, SameSplit DEF IInv
  <1>5. CASE MakeRoom(FieldSize) /\ pc' = "read field"
    <2>1. ~ InBody'
      BY <1>5 DEF InBody
    <2>2. /\ cells' \in [0 .. MaxSize - 1 -> 0 .. Total]
          /\ Live' /\ NothingNewer'
          /\ end_ptr - curr_ptr < FieldSize
      BY <1>1, <1>2, <1>5, RoomMade
    <2>3. PICK b, c, e, f \in Nat :
                /\ buffer_size' = b /\ curr_ptr' = c /\ end_ptr' = e /\ free_space' = f
                /\ buffer_size <= b /\ b <= MaxSize /\ FieldSize <= b
                /\ c <= curr_ptr /\ e - c = end_ptr - curr_ptr
                /\ e + f <= b
                /\ \/ end_ptr = curr_ptr /\ c = 0 /\ e = 0 /\ f = b - end_ptr
                   \/ end_ptr < curr_ptr /\ e + f = b
                   \/ curr_ptr < end_ptr /\ e - c + f >= FieldSize
      BY <1>1, <1>2, <1>5, RoomMade
    <2>4. TypeOK'
      <3>1. b \in DefaultSize .. MaxSize /\ f \in 0 .. MaxSize
        BY <1>2, <2>3
      <3>2. QED
        BY <1>1, <1>5, <2>2, <2>3, <3>1, TypesKept DEF TypeOK
    <2>5. InPlace'
      <3>1. received - e + c = received - end_ptr + curr_ptr
        BY <1>2, <2>3
      <3>2. Taken' = 0
        BY <2>1 DEF Taken
      <3>3. QED
        BY <1>1, <1>3, <2>3, <3>1, <3>2, SameStream DEF InPlace
    <2>6. SizeKnown'
      BY <1>1, <2>1 DEF SizeKnown
    <2>7. Room'
      <3>1. /\ e <= b /\ c <= b /\ e + f <= b
            /\ e - c < FieldSize
            /\ e < c => e + f = b
        BY <1>2, <2>2, <2>3
      <3>2. QED
        BY <1>5, <2>3, <3>1 DEF Room
    <2>8. QED
      BY <1>1, <2>2, <2>4, <2>5, <2>6, <2>7, SameSplit DEF IInv
  <1>6. CASE MoveCrashes(FieldSize) /\ pc' = "crashed" /\ UNCHANGED <<buffer, free_space>>
    <2>1. ~ InBody'
      BY <1>6 DEF InBody
    <2>2. TypeOK'
      BY <1>1, <1>6, SameBuffer, TypesKept DEF TypeOK
    <2>3. Live' /\ NothingNewer'
      BY <1>1, <1>6, SameBuffer
    <2>4. InPlace'
      BY <1>1, <1>6, <2>1, SameStream DEF InPlace, Taken, buffer
    <2>5. SizeKnown'
      BY <1>1, <2>1 DEF SizeKnown
    <2>6. closed
      BY <1>1, <1>2, <1>6, CrashNeedsGap
    <2>7. Room'
      BY <1>1, <1>2, <1>6, <2>6 DEF Room, buffer
    <2>8. QED
      BY <1>1, <2>2, <2>3, <2>4, <2>5, <2>7, SameSplit DEF IInv
  <1>7. QED
    BY <1>4, <1>5, <1>6 DEF FillField, CallFill

\* A read notes where it ended.
LEMMA SplitReceived ==
    ASSUME TypeOK, SplitNoted, NEW n \in Bytes, Receive(n)
    PROVE  SplitNoted' /\ split' \in BOOLEAN
  <1>1. /\ split' = (split \/ received' = LastByte(Len(handled)) + FieldSize)
        /\ UNCHANGED <<messages, handled>>
    BY DEF Receive
  <1>2. QED
    BY <1>1, SameStream DEF SplitNoted, TypeOK

\* A read of a size field.
LEMMA ReadFieldKeeps ==
    ASSUME RecvBufferAssumption, IInv, NEW n \in Bytes, ReadField(n)
    PROVE  IInv'
  <1>1. /\ TypeOK /\ InPlace /\ Live /\ NothingNewer /\ SizeKnown
        /\ SplitNoted /\ Room
        /\ pc = "read field" /\ ~ InBody
        /\ UNCHANGED <<messages, buffer_size, curr_ptr, msg_size, closed, fill_failed, handled>>
        /\ Receive(n)
        /\ pc' = IF end_ptr' - curr_ptr >= FieldSize THEN "decode" ELSE "read field"
    BY DEF IInv, ReadField, Read, Receive, InBody
  <1>2. /\ FieldSize \in Nat /\ MaxSize \in Nat
        /\ curr_ptr \in Nat /\ end_ptr \in Nat /\ buffer_size \in Nat /\ received \in Nat
        /\ free_space \in Nat
        /\ curr_ptr <= buffer_size /\ end_ptr + free_space <= buffer_size
        /\ end_ptr < curr_ptr => end_ptr + free_space = buffer_size
        /\ n \in Nat
    <2>1. /\ curr_ptr <= buffer_size /\ end_ptr + free_space <= buffer_size
          /\ end_ptr < curr_ptr => end_ptr + free_space = buffer_size
      BY <1>1 DEF Room
    <2>2. /\ FieldSize \in Nat /\ MaxSize \in Nat
          /\ curr_ptr \in Nat /\ end_ptr \in Nat /\ buffer_size \in Nat
          /\ received \in Nat /\ free_space \in Nat
      BY <1>1, Sizes
    <2>3. n \in Nat
      BY <2>2 DEF Bytes
    <2>4. QED
      BY <2>1, <2>2, <2>3
  <1>3. Taken = 0
    BY <1>1 DEF Taken
  <1>4. /\ received' \in 0 .. Total
        /\ end_ptr' \in Nat /\ free_space' \in 0 .. MaxSize
        /\ cells' \in [0 .. MaxSize - 1 -> 0 .. Total]
        /\ Live' /\ NothingNewer'
    BY <1>1, <1>2, BytesReceived
  <1>a. /\ received' = received + n
        /\ end_ptr' = end_ptr + n
        /\ free_space' = free_space - n /\ free_space' \in Nat
        /\ curr_ptr' = curr_ptr /\ buffer_size' = buffer_size
    <2>1. /\ received' = received + n
          /\ end_ptr' = end_ptr + n
          /\ free_space' \in 0 .. MaxSize /\ free_space' = free_space - n
      BY <1>1, <1>2, BytesReceived
    <2>2. curr_ptr' = curr_ptr /\ buffer_size' = buffer_size
      BY <1>1
    <2>3. QED
      BY <1>2, <2>1, <2>2
  <1>b. \/ pc' = "decode" /\ end_ptr' - curr_ptr >= FieldSize
        \/ pc' = "read field" /\ ~ (end_ptr' - curr_ptr >= FieldSize)
    BY <1>1
  <1>5. ~ InBody'
    BY <1>b DEF InBody
  <1>6. TypeOK'
    BY <1>1, <1>4, <1>b, SplitReceived, TypesKept DEF TypeOK
  <1>7. InPlace'
    <2>1. received' - end_ptr' + curr_ptr' = received - end_ptr + curr_ptr
      BY <1>2, <1>a
    <2>2. Taken' = 0
      BY <1>5 DEF Taken
    <2>3. QED
      BY <1>1, <1>3, <2>1, <2>2, SameStream DEF InPlace
  <1>8. SizeKnown'
    BY <1>1, <1>5 DEF SizeKnown
  <1>9. Room'
    <2>1. PICK e, f : e = end_ptr + n /\ f = free_space - n
      OBVIOUS
    <2>2. e \in Nat /\ f \in Nat
      BY <1>2, <1>4, <1>a, <2>1
    <2>3. /\ e <= buffer_size /\ e + f <= buffer_size
          /\ e < curr_ptr => e + f = buffer_size
          /\ e - curr_ptr >= FieldSize \/ e - curr_ptr < FieldSize
      BY <1>2, <2>1, <2>2
    <2>4. end_ptr' = e /\ free_space' = f
      BY <1>a, <2>1
    <2>5. \/ pc' = "decode" /\ e - curr_ptr >= FieldSize
          \/ pc' = "read field" /\ e - curr_ptr < FieldSize
      BY <1>b, <2>3, <2>4
    <2>6. QED
      BY <1>2, <1>a, <2>3, <2>4, <2>5 DEF Room
  <1>10. QED
    BY <1>1, <1>4, <1>6, <1>7, <1>8, <1>9, SplitReceived DEF IInv

\* A read of a size field that fails: loop() begins again.
LEMMA ReadFieldFailsKeeps ==
    ASSUME RecvBufferAssumption, IInv, ReadFieldFails
    PROVE  IInv'
  <1>1. /\ TypeOK /\ InPlace /\ Live /\ NothingNewer /\ SizeKnown
        /\ SplitNoted /\ Room
        /\ pc = "read field" /\ pc' = "fill field" /\ ~ InBody /\ ~ InBody'
        /\ UNCHANGED <<messages, received, buffer, free_space, msg_size, closed,
                       fill_failed, split, handled>>
        /\ closed \/ free_space = 0
    BY DEF IInv, ReadFieldFails, ReadFails, InBody
  <1>2. TypeOK'
    BY <1>1, SameBuffer, TypesKept DEF TypeOK
  <1>3. Live' /\ NothingNewer'
    BY <1>1, SameBuffer
  <1>4. InPlace'
    BY <1>1, SameStream DEF InPlace, Taken, buffer
  <1>5. SizeKnown'
    BY <1>1 DEF SizeKnown
  <1>6. Room'
    <2>1. end_ptr \in Nat /\ curr_ptr \in Nat /\ buffer_size \in Nat
      BY <1>1, Sizes
    <2>2. closed \/ ~ (end_ptr < curr_ptr)
      <3>1. /\ curr_ptr <= buffer_size /\ (closed \/ free_space = 0)
            /\ end_ptr < curr_ptr => end_ptr + free_space = buffer_size
        BY <1>1 DEF Room
      <3>2. QED
        BY <2>1, <3>1
    <2>3. QED
      BY <1>1, <2>1, <2>2 DEF Room, buffer
  <1>7. QED
    BY <1>1, <1>2, <1>3, <1>4, <1>5, <1>6, SameSplit DEF IInv

\* The size field is taken off: it lies whole where curr_ptr points.
LEMMA DecodeKeeps ==
    ASSUME RecvBufferAssumption, IInv, Decode
    PROVE  IInv'
  <1>1. /\ TypeOK /\ InPlace /\ Live /\ NothingNewer /\ SizeKnown
        /\ SplitNoted /\ Room
        /\ pc = "decode" /\ ~ InBody /\ pc' = "fill body" /\ InBody'
        /\ UNCHANGED <<messages, received, buffer_size, end_ptr, cells, free_space,
                       closed, split, handled>>
        /\ msg_size' = Size(MessageAt)
        /\ curr_ptr' = curr_ptr + FieldSize
        /\ fill_failed' = FALSE
    BY DEF IInv, Decode, InBody
  <1>2. /\ FieldSize \in Nat /\ FieldSize > 0 /\ MaxSize \in Nat
        /\ curr_ptr \in Nat /\ end_ptr \in Nat /\ received \in Nat
        /\ buffer_size \in Nat /\ buffer_size <= MaxSize
    BY <1>1, Sizes
  <1>3. end_ptr - curr_ptr >= FieldSize /\ end_ptr <= buffer_size
    BY <1>1 DEF Room
  <1>4. received - end_ptr + curr_ptr = LastByte(Len(handled))
    <2>1. LastByte(Len(handled)) \in Nat
      BY <1>1, MessageBounds DEF TypeOK, SizeKnown
    <2>2. Taken = 0
      BY <1>1 DEF Taken
    <2>3. received - end_ptr + curr_ptr = LastByte(Len(handled)) + Taken
      BY <1>1 DEF InPlace
    <2>4. QED
      BY <2>1, <2>2, <2>3
  <1>5. Len(handled) \in Nat /\ Current \in 1 .. Len(messages) /\ Current = Len(handled) + 1 /\ DOMAIN messages = 1 .. Len(messages)
    <2>1. /\ Len(messages) \in Nat /\ DOMAIN messages = 1 .. Len(messages)
          /\ received <= LastByte(Len(messages)) /\ LastByte(Len(messages)) \in Nat
          /\ Len(handled) \in 0 .. Len(messages)
      BY <1>1, MessageBounds, Numbers DEF TypeOK, SizeKnown, Total
    <2>2. Len(handled) # Len(messages)
      BY <1>2, <1>3, <1>4, <2>1
    <2>3. QED
      BY <2>1, <2>2 DEF Current
  <1>6. cells[curr_ptr] = FirstByte(Current)
    <2>1. curr_ptr \in curr_ptr .. end_ptr - 1
      BY <1>2, <1>3
    <2>2. cells[curr_ptr] = received - end_ptr + curr_ptr + 1
      BY <1>1, <2>1 DEF Live
    <2>3. Current - 1 = Len(handled)
      BY <1>5
    <2>4. QED
      BY <1>4, <2>2, <2>3 DEF FirstByte
  <1>7. MessageAt = Current
    <2>1. \A m, n \in 1 .. Len(messages) : FirstByte(m) = FirstByte(n) => m = n
      BY <1>1, MessageBounds DEF TypeOK
    <2>2. \E m \in DOMAIN messages : cells[curr_ptr] = FirstByte(m)
      BY <1>5, <1>6
    <2>3. MessageAt \in DOMAIN messages /\ cells[curr_ptr] = FirstByte(MessageAt)
      BY <2>2 DEF MessageAt
    <2>4. QED
      BY <1>5, <1>6, <2>1, <2>3
  <1>8. Size(Current) \in FieldSize + 1 .. FieldSize + MaxSize
    BY <1>1, <1>5, MessageBounds DEF TypeOK
  <1>9. TypeOK'
    <2>1. Size(Current) \in Nat /\ curr_ptr + FieldSize \in Nat
      BY <1>2, <1>8
    <2>2. QED
      BY <1>1, <1>7, <2>1, TypesKept DEF TypeOK
  <1>10. InPlace'
    <2>1. received - end_ptr + (curr_ptr + FieldSize) = LastByte(Len(handled)) + FieldSize
      BY <1>2, <1>4
    <2>2. Taken' = FieldSize
      BY <1>1 DEF Taken
    <2>3. QED
      BY <1>1, <2>1, <2>2, SameStream DEF InPlace
  <1>11. Live' /\ NothingNewer'
    <2>1. ASSUME NEW i \in curr_ptr + FieldSize .. end_ptr - 1
          PROVE  cells[i] = received - end_ptr + i + 1
      <3>1. i \in curr_ptr .. end_ptr - 1
        BY <1>2
      <3>2. QED
        BY <1>1, <3>1 DEF Live
    <2>2. QED
      BY <1>1, <2>1 DEF Live, NothingNewer
  <1>12. SizeKnown'
    BY <1>1, <1>5, <1>7, SameStream DEF SizeKnown
  <1>13. Room'
    <2>1. FieldSize <= curr_ptr + FieldSize /\ curr_ptr + FieldSize <= end_ptr
      BY <1>2, <1>3
    <2>2. QED
      BY <1>1, <1>3, <2>1 DEF Room
  <1>14. QED
    BY <1>1, <1>9, <1>10, <1>11, <1>12, <1>13, SameSplit DEF IInv

\* The size of a body, while the thread is at it.
LEMMA BodySizes ==
    ASSUME RecvBufferAssumption, IInv, InBody
    PROVE  /\ BodySize \in 1 .. MaxSize /\ BodySize \in Nat
           /\ BodySize = Size(Current) - FieldSize
           /\ Current \in 1 .. Len(messages) /\ Current = Len(handled) + 1
  <1>1. /\ Current \in DOMAIN messages /\ msg_size = Size(Current)
    BY DEF IInv, SizeKnown
  <1>2. /\ DOMAIN messages = 1 .. Len(messages)
        /\ \A m \in 1 .. Len(messages) : Size(m) \in FieldSize + 1 .. FieldSize + MaxSize
    BY MessageBounds DEF IInv, TypeOK
  <1>3. Size(Current) \in FieldSize + 1 .. FieldSize + MaxSize
    BY <1>1, <1>2
  <1>4. FieldSize \in Nat /\ MaxSize \in Nat
    BY Sizes DEF IInv
  <1>5. QED
    BY <1>1, <1>2, <1>3, <1>4 DEF BodySize, Current

\* How far the thread has come.
LEMMA Place ==
    ASSUME RecvBufferAssumption, IInv
    PROVE  /\ Len(handled) \in Nat /\ Len(messages) \in Nat
           /\ Len(handled) <= Len(messages)
           /\ Current - 1 = Len(handled)
           /\ LastByte(Len(handled)) \in Nat
           /\ InBody => /\ LastByte(Current) = LastByte(Len(handled)) + Size(Current)
                        /\ Size(Current) \in Nat
  <1>1. /\ Len(messages) \in Nat
        /\ \A m \in 0 .. Len(messages) : LastByte(m) \in Nat
        /\ \A m \in 1 .. Len(messages) :
                /\ Size(m) \in FieldSize + 1 .. FieldSize + MaxSize
                /\ LastByte(m) = LastByte(m - 1) + Size(m)
    BY MessageBounds DEF IInv, TypeOK
  <1>2. Len(handled) \in 0 .. Len(messages)
    BY DEF IInv, SizeKnown
  <1>3. Len(handled) \in Nat /\ Len(handled) <= Len(messages)
    BY <1>1, <1>2
  <1>4. Current - 1 = Len(handled)
    BY <1>3 DEF Current
  <1>5. ASSUME InBody
        PROVE  /\ LastByte(Current) = LastByte(Len(handled)) + Size(Current)
               /\ Size(Current) \in Nat
    <2>1. Current \in 1 .. Len(messages)
      BY <1>5, BodySizes
    <2>2. FieldSize \in Nat /\ MaxSize \in Nat
      BY Sizes DEF IInv
    <2>3. Size(Current) \in FieldSize + 1 .. FieldSize + MaxSize
      BY <1>1, <2>1
    <2>4. QED
      BY <1>1, <1>4, <2>1, <2>2, <2>3
  <1>6. QED
    BY <1>1, <1>2, <1>3, <1>4, <1>5

\* The call of fill_buffer for a body.
LEMMA FillBodyKeeps ==
    ASSUME RecvBufferAssumption, IInv, FillBody
    PROVE  IInv'
  <1>1. /\ TypeOK /\ InPlace /\ Live /\ NothingNewer /\ SizeKnown
        /\ SplitNoted /\ Room
        /\ pc = "fill body" /\ InBody
        /\ UNCHANGED <<messages, received, msg_size, closed, fill_failed, split, handled>>
    BY DEF IInv, FillBody, CallFill, InBody
  <1>2. /\ FieldSize \in Nat /\ MaxSize \in Nat
        /\ DefaultSize \in Nat
        /\ curr_ptr \in Nat /\ end_ptr \in Nat /\ buffer_size \in Nat /\ received \in Nat
        /\ DefaultSize <= buffer_size /\ buffer_size <= MaxSize
        /\ end_ptr <= buffer_size
        /\ FieldSize <= curr_ptr /\ curr_ptr <= end_ptr
    <2>1. /\ end_ptr <= buffer_size
          /\ FieldSize <= curr_ptr /\ curr_ptr <= end_ptr
      BY <1>1 DEF Room
    <2>2. QED
      BY <1>1, <2>1, Sizes
  <1>3. BodySize \in 1 .. MaxSize /\ BodySize \in Nat /\ BodySize' = BodySize
    BY <1>1, BodySizes DEF BodySize
  <1>4. ~ fill_failed /\ ~ fill_failed'
    BY <1>1 DEF Room
  <1>5. Taken = FieldSize
    BY <1>1 DEF Taken
  <1>6. CASE end_ptr - curr_ptr >= BodySize /\ pc' = "dispatch" /\ UNCHANGED <<buffer, free_space>>
    <2>1. InBody'
      BY <1>6 DEF InBody
    <2>2. TypeOK'
      BY <1>1, <1>6, SameBuffer, TypesKept DEF TypeOK
    <2>3. Live' /\ NothingNewer'
      BY <1>1, <1>6, SameBuffer
    <2>4. InPlace'
      <3>1. Taken' = FieldSize
        BY <2>1 DEF Taken
      <3>2. QED
        BY <1>1, <1>5, <1>6, <3>1, SameStream DEF InPlace, buffer
    <2>5. SizeKnown'
      BY <1>1, <2>1, SameStream DEF SizeKnown
    <2>6. Room'
      BY <1>2, <1>3, <1>4, <1>6 DEF Room, buffer
    <2>7. QED
      BY <1>1, <2>2, <2>3, <2>4, <2>5, <2>6, SameSplit DEF IInv
  <1>7. CASE MakeRoom(BodySize) /\ pc' = "read body"
    <2>1. InBody'
      BY <1>7 DEF InBody
    <2>a. PICK size \in 1 .. MaxSize : size = BodySize
      BY <1>3
    <2>b. MakeRoom(size)
      BY <1>7, <2>a
    <2>2. /\ cells' \in [0 .. MaxSize - 1 -> 0 .. Total]
          /\ Live' /\ NothingNewer'
          /\ end_ptr - curr_ptr < size
      BY <1>1, <1>2, <2>b, RoomMade
    <2>3. PICK b, c, e, f \in Nat :
                /\ buffer_size' = b /\ curr_ptr' = c /\ end_ptr' = e /\ free_space' = f
                /\ buffer_size <= b /\ b <= MaxSize /\ size <= b
                /\ c <= curr_ptr /\ e - c = end_ptr - curr_ptr
                /\ e + f <= b
                /\ \/ end_ptr = curr_ptr /\ c = 0 /\ e = 0 /\ f = b - end_ptr
                   \/ end_ptr < curr_ptr /\ e + f = b
                   \/ curr_ptr < end_ptr /\ e - c + f >= size
      BY <1>1, <1>2, <2>b, RoomMade
    <2>4. TypeOK'
      <3>1. b \in DefaultSize .. MaxSize /\ f \in 0 .. MaxSize
        BY <1>2, <2>3
      <3>2. QED
        BY <1>1, <1>7, <2>2, <2>3, <3>1, TypesKept DEF TypeOK
    <2>5. InPlace'
      <3>1. received - e + c = received - end_ptr + curr_ptr
        BY <1>2, <2>3
      <3>2. Taken' = FieldSize
        BY <2>1 DEF Taken
      <3>3. QED
        BY <1>1, <1>5, <2>3, <3>1, <3>2, SameStream DEF InPlace
    <2>6. SizeKnown'
      BY <1>1, <2>1, SameStream DEF SizeKnown
    <2>7. Room'
      <3>1. /\ e <= b /\ c <= e /\ e + f <= b
            /\ e - c < size /\ size <= b
            /\ \/ e - c + f >= size
               \/ end_ptr = curr_ptr /\ c = 0 /\ e + f + FieldSize <= b
        BY <1>2, <2>2, <2>3
      <3>a. end_ptr = curr_ptr => split'
        <4>1. /\ received - end_ptr + curr_ptr = LastByte(Len(handled)) + FieldSize
              /\ LastByte(Len(handled)) \in Nat
          BY <1>1, <1>5, Place DEF InPlace
        <4>2. end_ptr = curr_ptr => received = LastByte(Len(handled)) + FieldSize
          BY <1>2, <4>1
        <4>3. QED
          BY <1>1, <4>2 DEF SplitNoted
      <3>2. BodySize' = size
        BY <1>3, <2>a
      <3>3. QED
        BY <1>4, <1>7, <2>3, <3>1, <3>2, <3>a DEF Room
    <2>8. QED
      BY <1>1, <2>2, <2>4, <2>5, <2>6, <2>7, SameSplit DEF IInv
  <1>8. ~ MoveCrashes(BodySize)
    BY <1>2 DEF MoveCrashes
  <1>9. QED
    BY <1>6, <1>7, <1>8 DEF FillBody, CallFill

\* A read of a body.
LEMMA ReadBodyKeeps ==
    ASSUME RecvBufferAssumption, IInv, NEW n \in Bytes, ReadBody(n)
    PROVE  IInv'
  <1>1. /\ TypeOK /\ InPlace /\ Live /\ NothingNewer /\ SizeKnown
        /\ SplitNoted /\ Room
        /\ pc = "read body" /\ InBody
        /\ UNCHANGED <<messages, buffer_size, curr_ptr, msg_size, closed, fill_failed, handled>>
        /\ Receive(n)
    BY DEF IInv, ReadBody, Read, Receive, InBody
  <1>2. BodySize \in Nat /\ BodySize' = BodySize
    BY <1>1, BodySizes DEF BodySize
  <1>3. /\ FieldSize \in Nat /\ MaxSize \in Nat
        /\ curr_ptr \in Nat /\ end_ptr \in Nat /\ buffer_size \in Nat
        /\ received \in Nat /\ free_space \in Nat /\ n \in Nat
    <2>1. /\ FieldSize \in Nat /\ MaxSize \in Nat
          /\ curr_ptr \in Nat /\ end_ptr \in Nat /\ buffer_size \in Nat
          /\ received \in Nat /\ free_space \in Nat
      BY <1>1, Sizes
    <2>2. n \in Nat
      BY <2>1 DEF Bytes
    <2>3. QED
      BY <2>1, <2>2
  <1>4. /\ ~ fill_failed
        /\ curr_ptr <= end_ptr
        /\ end_ptr - curr_ptr < BodySize
        /\ end_ptr + free_space <= buffer_size
        /\ \/ end_ptr - curr_ptr + free_space >= BodySize
           \/ /\ split /\ split'
              /\ curr_ptr = 0
              /\ end_ptr + free_space + FieldSize <= buffer_size
              /\ BodySize <= buffer_size
    BY <1>1 DEF Room, Receive
  <1>5. /\ received' \in 0 .. Total
        /\ end_ptr' \in Nat /\ free_space' \in 0 .. MaxSize
        /\ cells' \in [0 .. MaxSize - 1 -> 0 .. Total]
        /\ Live' /\ NothingNewer'
    BY <1>1, <1>4, BytesReceived
  <1>6. PICK e, f : e = end_ptr + n /\ f = free_space - n
    OBVIOUS
  <1>7. /\ received' = received + n
        /\ end_ptr' = e /\ free_space' = f /\ f \in 0 .. MaxSize
        /\ curr_ptr' = curr_ptr /\ buffer_size' = buffer_size
    <2>1. /\ received' = received + n
          /\ end_ptr' = end_ptr + n
          /\ free_space' \in 0 .. MaxSize /\ free_space' = free_space - n
      BY <1>1, <1>4, BytesReceived
    <2>2. curr_ptr' = curr_ptr /\ buffer_size' = buffer_size
      BY <1>1
    <2>3. QED
      BY <1>6, <2>1, <2>2
  <1>8. e \in Nat /\ f \in Nat
    BY <1>3, <1>6, <1>7
  <1>9. \/ pc' = "dispatch" /\ e - curr_ptr >= BodySize
        \/ pc' = "read body" /\ ~ (e - curr_ptr >= BodySize)
    BY <1>7 DEF ReadBody, Read
  <1>10. InBody'
    BY <1>9 DEF InBody
  <1>11. TypeOK'
    BY <1>1, <1>5, <1>9, SplitReceived, TypesKept DEF TypeOK
  <1>12. InPlace'
    <2>1. (received + n) - e + curr_ptr = received - end_ptr + curr_ptr
      BY <1>3, <1>6
    <2>2. Taken' = FieldSize /\ Taken = FieldSize
      BY <1>1, <1>10 DEF Taken
    <2>3. QED
      BY <1>1, <1>7, <2>1, <2>2, SameStream DEF InPlace
  <1>13. SizeKnown'
    BY <1>1, <1>10, SameStream DEF SizeKnown
  <1>14. Room'
    <2>1. /\ e <= buffer_size /\ e + f <= buffer_size /\ curr_ptr <= e
          /\ e - curr_ptr >= BodySize \/ e - curr_ptr < BodySize
          /\ \/ e - curr_ptr + f >= BodySize
             \/ /\ split'
                /\ curr_ptr = 0
                /\ e + f + FieldSize <= buffer_size
                /\ BodySize <= buffer_size
      BY <1>2, <1>3, <1>4, <1>6, <1>8
    <2>2. ~ fill_failed'
      BY <1>1, <1>4
    <2>3. CASE pc' = "dispatch" /\ e - curr_ptr >= BodySize
      BY <1>2, <1>7, <2>1, <2>2, <2>3 DEF Room
    <2>4. CASE pc' = "read body" /\ ~ (e - curr_ptr >= BodySize)
      BY <1>2, <1>7, <2>1, <2>2, <2>4 DEF Room
    <2>5. QED
      BY <1>9, <2>3, <2>4
  <1>15. QED
    BY <1>1, <1>5, <1>11, <1>12, <1>13, <1>14, SplitReceived DEF IInv

\* A read of a body that fails: the message is cut short.
LEMMA ReadBodyFailsKeeps ==
    ASSUME RecvBufferAssumption, IInv, ReadBodyFails
    PROVE  IInv'
  <1>1. /\ TypeOK /\ InPlace /\ Live /\ NothingNewer /\ SizeKnown
        /\ SplitNoted /\ Room
        /\ pc = "read body" /\ pc' = "dispatch" /\ InBody /\ InBody'
        /\ UNCHANGED <<messages, received, buffer, free_space, msg_size,
                       closed, split, handled>>
        /\ fill_failed' = TRUE
        /\ closed \/ free_space = 0
    BY DEF IInv, ReadBodyFails, ReadFails, InBody
  <1>2. TypeOK'
    BY <1>1, SameBuffer, TypesKept DEF TypeOK
  <1>3. Live' /\ NothingNewer'
    BY <1>1, SameBuffer
  <1>4. InPlace'
    BY <1>1, SameStream DEF InPlace, Taken, buffer
  <1>5. SizeKnown'
    BY <1>1, SameStream DEF SizeKnown
  <1>6. Room'
    <2>1. /\ end_ptr \in Nat /\ curr_ptr \in Nat /\ buffer_size \in Nat
          /\ FieldSize \in Nat /\ BodySize \in Nat
      BY <1>1, Sizes, BodySizes
    <2>2. /\ curr_ptr <= end_ptr
          /\ end_ptr - curr_ptr < BodySize
          /\ end_ptr <= buffer_size
          /\ end_ptr + free_space <= buffer_size
          /\ \/ end_ptr - curr_ptr + free_space >= BodySize
             \/ /\ split
                /\ curr_ptr = 0
                /\ end_ptr + free_space + FieldSize <= buffer_size
                /\ BodySize <= buffer_size
      BY <1>1 DEF Room
    <2>3. /\ curr_ptr + BodySize <= buffer_size
          /\ closed \/ (split /\ end_ptr + FieldSize <= buffer_size)
      <3>1. (closed \/ free_space = 0) /\ free_space \in Nat
        BY <1>1, Sizes
      <3>2. QED
        BY <2>1, <2>2, <3>1
    <2>4. BodySize' = BodySize
      BY <1>1 DEF BodySize
    <2>5. QED
      BY <1>1, <2>2, <2>3, <2>4 DEF Room, buffer
  <1>7. QED
    BY <1>1, <1>2, <1>3, <1>4, <1>5, <1>6, SameSplit DEF IInv

\* Sequences of bytes, whatever a byte is.
LEMMA SeqFacts ==
    ASSUME NEW S, NEW n \in Nat, NEW f \in [1 .. n -> S]
    PROVE  f \in Seq(S) /\ Len(f) = n
  OBVIOUS

LEMMA AppendFacts ==
    ASSUME NEW S, NEW h \in Seq(S), NEW x \in S
    PROVE  /\ Append(h, x) \in Seq(S) /\ Len(Append(h, x)) = Len(h) + 1
           /\ DOMAIN h = 1 .. Len(h) /\ DOMAIN Append(h, x) = 1 .. Len(h) + 1
           /\ Len(h) \in Nat
           /\ \A m \in 1 .. Len(h) : Append(h, x)[m] = h[m]
           /\ Append(h, x)[Len(h) + 1] = x
  OBVIOUS

\* What a message handler gets.
Handed == [i \in 1 .. BodySize |-> cells[curr_ptr + i - 1]]

\* What a handler gets lies in the buffer; the next message begins behind it.
LEMMA DispatchFacts ==
    ASSUME RecvBufferAssumption, IInv, Dispatch
    PROVE  /\ curr_ptr' = curr_ptr + BodySize
           /\ curr_ptr + BodySize <= buffer_size
           /\ end_ptr < curr_ptr + BodySize => closed \/ end_ptr + FieldSize <= buffer_size
           /\ handled' = Append(handled, Handed)
           /\ Handed \in Seq(0 .. Total)
           /\ Len(handled') = Current
  <1>1. /\ TypeOK /\ Room /\ pc = "dispatch" /\ InBody
        /\ curr_ptr' = curr_ptr + BodySize /\ handled' = Append(handled, Handed)
    BY DEF IInv, Dispatch, InBody, Handed
  <1>2. /\ end_ptr \in Nat /\ curr_ptr \in Nat /\ buffer_size \in Nat
        /\ buffer_size <= MaxSize /\ MaxSize \in Nat
        /\ FieldSize \in Nat /\ BodySize \in Nat
    BY <1>1, Sizes, BodySizes
  <1>3. end_ptr <= buffer_size
        /\ IF fill_failed
           THEN /\ curr_ptr + BodySize <= buffer_size
                /\ closed \/ end_ptr + FieldSize <= buffer_size
           ELSE end_ptr - curr_ptr >= BodySize
    BY <1>1 DEF Room
  <1>4. /\ curr_ptr + BodySize <= buffer_size
        /\ end_ptr < curr_ptr + BodySize => closed \/ end_ptr + FieldSize <= buffer_size
    <2>1. CASE fill_failed
      BY <1>2, <1>3, <2>1
    <2>2. CASE ~ fill_failed
      BY <1>2, <1>3, <2>2
    <2>3. QED
      BY <2>1, <2>2
  <1>5. Handed \in Seq(0 .. Total)
    <2>1. ASSUME NEW i \in 1 .. BodySize
          PROVE  cells[curr_ptr + i - 1] \in 0 .. Total
      <3>1. curr_ptr + i - 1 \in 0 .. MaxSize - 1
        BY <1>2, <1>4
      <3>2. cells \in [0 .. MaxSize - 1 -> 0 .. Total]
        BY <1>1 DEF TypeOK
      <3>3. QED
        BY <3>1, <3>2
    <2>2. Handed \in [1 .. BodySize -> 0 .. Total]
      BY <2>1 DEF Handed
    <2>3. QED
      BY <1>2, <2>2, SeqFacts
  <1>6. Len(handled') = Current
    <2>1. handled \in Seq(Seq(0 .. Total))
      BY <1>1 DEF TypeOK
    <2>2. Len(Append(handled, Handed)) = Len(handled) + 1
      BY <1>5, <2>1, AppendFacts
    <2>3. QED
      BY <1>1, <2>2 DEF Current
  <1>7. QED
    BY <1>1, <1>4, <1>5, <1>6

\* A message is given to its handler.
LEMMA DispatchKeeps ==
    ASSUME RecvBufferAssumption, IInv, Dispatch
    PROVE  IInv'
  <1>1. /\ TypeOK /\ InPlace /\ Live /\ NothingNewer /\ SizeKnown
        /\ pc = "dispatch" /\ InBody /\ pc' = "fill field" /\ ~ InBody'
        /\ UNCHANGED <<messages, received, buffer_size, end_ptr, cells, free_space,
                       msg_size, closed, fill_failed>>
        /\ split' = (received = LastByte(Current) + FieldSize)
    BY DEF IInv, Dispatch, InBody
  <1>2. /\ curr_ptr' = curr_ptr + BodySize
        /\ curr_ptr + BodySize <= buffer_size
        /\ end_ptr < curr_ptr + BodySize => closed \/ end_ptr + FieldSize <= buffer_size
        /\ handled' = Append(handled, Handed)
        /\ Handed \in Seq(0 .. Total)
        /\ Len(handled') = Current
    BY DispatchFacts
  <1>3. /\ end_ptr \in Nat /\ curr_ptr \in Nat /\ buffer_size \in Nat /\ received \in Nat
        /\ FieldSize \in Nat /\ BodySize \in Nat
        /\ BodySize = Size(Current) - FieldSize
        /\ Current \in 1 .. Len(messages) /\ Current = Len(handled) + 1
    BY <1>1, Sizes, BodySizes
  <1>4. TypeOK'
    <2>1. Total' = Total
      BY <1>1 DEF Total, LastByte
    <2>2. handled' \in Seq(Seq(0 .. Total))
      <3>1. handled \in Seq(Seq(0 .. Total))
        BY <1>1 DEF TypeOK
      <3>2. Append(handled, Handed) \in Seq(Seq(0 .. Total))
        BY <1>2, <3>1, AppendFacts
      <3>3. QED
        BY <1>2, <3>2
    <2>3. curr_ptr' \in Nat
      BY <1>2, <1>3
    <2>4. QED
      BY <1>1, <2>1, <2>2, <2>3 DEF TypeOK
  <1>5. InPlace'
    <2>1. /\ LastByte(Len(handled)) \in Nat /\ Size(Current) \in Nat
          /\ LastByte(Current) = LastByte(Len(handled)) + Size(Current)
      BY <1>1, Place
    <2>2. received - end_ptr + curr_ptr = LastByte(Len(handled)) + FieldSize
      BY <1>1 DEF InPlace, Taken
    <2>3. received - end_ptr + (curr_ptr + BodySize) = LastByte(Current) + 0
      <3>1. BodySize = Size(Current) - FieldSize
        BY <1>3
      <3>2. /\ end_ptr \in Nat /\ curr_ptr \in Nat /\ received \in Nat
            /\ FieldSize \in Nat /\ BodySize \in Nat
        BY <1>3
      <3>3. PICK before, size : before = LastByte(Len(handled)) /\ size = Size(Current)
        OBVIOUS
      <3>4. /\ before \in Nat /\ size \in Nat
            /\ LastByte(Current) = before + size
            /\ received - end_ptr + curr_ptr = before + FieldSize
            /\ BodySize = size - FieldSize
        BY <2>1, <2>2, <3>1, <3>3
      <3>5. QED
        BY <3>2, <3>4
    <2>4. Taken' = 0 /\ LastByte(Len(handled))' = LastByte(Current)
      BY <1>1, <1>2 DEF Taken, LastByte
    <2>5. QED
      BY <1>1, <1>2, <2>3, <2>4 DEF InPlace
  <1>6. Live' /\ NothingNewer'
    <2>1. ASSUME NEW i \in curr_ptr + BodySize .. end_ptr - 1
          PROVE  cells[i] = received - end_ptr + i + 1
      <3>1. i \in curr_ptr .. end_ptr - 1
        BY <1>3
      <3>2. QED
        BY <1>1, <3>1 DEF Live
    <2>2. QED
      BY <1>1, <1>2, <2>1 DEF Live, NothingNewer
  <1>7. SizeKnown'
    <2>1. Current \in 0 .. Len(messages)
      BY <1>3
    <2>2. QED
      BY <1>1, <1>2, <2>1 DEF SizeKnown
  <1>8. Room'
    <2>1. end_ptr <= buffer_size
      BY <1>1 DEF IInv, Room
    <2>2. QED
      BY <1>1, <1>2, <2>1 DEF Room
  <1>9. SplitNoted'
    <2>1. LastByte(Len(handled))' = LastByte(Current)
      BY <1>1, <1>2 DEF LastByte
    <2>2. QED
      BY <1>1, <2>1 DEF SplitNoted
  <1>10. QED
    BY <1>4, <1>5, <1>6, <1>7, <1>8, <1>9 DEF IInv

\* The connection ends.
LEMMA CloseKeeps ==
    ASSUME RecvBufferAssumption, IInv, Close
    PROVE  IInv'
  <1>1. /\ TypeOK /\ InPlace /\ Live /\ NothingNewer /\ SizeKnown
        /\ SplitNoted /\ Room
        /\ pc' = pc /\ closed' = TRUE
        /\ UNCHANGED <<messages, received, buffer, free_space, msg_size,
                       fill_failed, split, handled>>
    BY DEF IInv, Close
  <1>2. TypeOK'
    BY <1>1, SameBuffer, TypesKept DEF TypeOK
  <1>3. Live' /\ NothingNewer'
    BY <1>1, SameBuffer
  <1>4. InBody' = InBody
    BY <1>1 DEF InBody
  <1>5. InPlace'
    BY <1>1, <1>4, SameStream DEF InPlace, Taken, buffer
  <1>6. SizeKnown'
    BY <1>1, <1>4, SameStream DEF SizeKnown
  <1>7. Room'
    BY <1>1 DEF Room, BodySize, buffer
  <1>8. QED
    BY <1>1, <1>2, <1>3, <1>5, <1>6, <1>7, SameSplit DEF IInv

-----------------------------------------------------------------------------
(* The theorems.                                                           *)

\* The thread keeps its place in the stream.
THEOREM Invariance == Spec => []IInv
  <1> USE RecvBufferAssumption
  <1>1. Init => IInv
    <2>1. ASSUME Init
          PROVE  IInv
      <3>1. Total \in Nat
        BY <2>1, MessageBounds DEF Init
      <3>a. /\ messages \in Streams /\ received = 0 /\ buffer_size = DefaultSize
            /\ curr_ptr = 0 /\ end_ptr = 0
            /\ cells = [i \in 0 .. MaxSize - 1 |-> 0]
            /\ pc = "fill field" /\ free_space = 0 /\ msg_size = 0
            /\ closed = FALSE /\ fill_failed = FALSE /\ split = FALSE
            /\ handled = << >>
        BY <2>1 DEF Init
      <3>b. /\ DefaultSize \in Nat /\ MaxSize \in Nat /\ DefaultSize <= MaxSize
            /\ 0 \in 0 .. Total /\ 0 \in 0 .. MaxSize
            /\ DefaultSize \in DefaultSize .. MaxSize
        BY <3>1 DEF RecvBufferAssumption
      <3>n. received = 0 /\ buffer_size = DefaultSize /\ curr_ptr = 0 /\ end_ptr = 0
        BY <3>a
      <3>m. MaxSize \in Nat /\ DefaultSize \in Nat
        BY <3>b
      <3>c. cells \in [0 .. MaxSize - 1 -> 0 .. Total]
        BY <3>a, <3>b
      <3>d. handled \in Seq(Seq(0 .. Total)) /\ Len(handled) = 0
        <4>1. PICK S : S = Seq(0 .. Total)
          OBVIOUS
        <4>2. << >> \in Seq(S) /\ Len(<< >>) = 0
          OBVIOUS
        <4>3. QED
          BY <3>a, <4>1, <4>2
      <3>2. TypeOK
        BY <3>a, <3>b, <3>c, <3>d DEF TypeOK
      <3>3. ~ InBody /\ Taken = 0
        BY <2>1 DEF Init, InBody, Taken
      <3>4. InPlace /\ Live /\ NothingNewer
        <4>1. LastByte(Len(handled)) = 0
          BY <3>d DEF LastByte, EndOf
        <4>2. InPlace
          BY <3>n, <3>3, <4>1 DEF InPlace
        <4>3. Live
          BY <3>n DEF Live
        <4>4. NothingNewer
          <5>1. cells = [i \in 0 .. MaxSize - 1 |-> 0]
            BY <3>a
          <5>2. QED
            BY <3>n, <5>1 DEF NothingNewer
        <4>5. QED
          BY <4>2, <4>3, <4>4
      <3>5. SizeKnown
        <4>1. Len(messages) \in Nat
          BY <3>a, MessageBounds
        <4>2. QED
          BY <3>3, <3>d, <4>1 DEF SizeKnown
      <3>6. Room
        <4>1. /\ end_ptr <= buffer_size /\ curr_ptr <= buffer_size
              /\ ~ (end_ptr < curr_ptr)
          BY <3>n, <3>m
        <4>2. /\ pc = "fill field" /\ pc # "read field" /\ pc # "decode"
              /\ pc # "fill body" /\ pc # "read body" /\ pc # "dispatch"
              /\ pc # "crashed"
          BY <3>a
        <4>3. QED
          BY <4>1, <4>2 DEF Room
      <3>7. SplitNoted
        <4>1. LastByte(Len(handled)) = 0
          BY <3>d DEF LastByte, EndOf
        <4>2. received # 0 + FieldSize
          BY <3>n DEF RecvBufferAssumption
        <4>3. QED
          BY <4>1, <4>2 DEF SplitNoted
      <3>8. QED
        BY <3>2, <3>4, <3>5, <3>6, <3>7 DEF IInv
    <2>2. QED
      BY <2>1
  <1>2. IInv /\ [Next]_vars => IInv'
    <2>1. ASSUME IInv, UNCHANGED vars
          PROVE  IInv'
      <3>1. /\ TypeOK /\ InPlace /\ Live /\ NothingNewer /\ SizeKnown
            /\ SplitNoted /\ Room
            /\ UNCHANGED <<messages, received, buffer, pc, free_space, msg_size,
                           closed, fill_failed, split, handled>>
        BY <2>1 DEF IInv, vars, buffer
      <3>2. TypeOK'
        BY <3>1, SameBuffer, TypesKept DEF TypeOK
      <3>3. Live' /\ NothingNewer'
        BY <3>1, SameBuffer
      <3>4. InBody' = InBody
        BY <3>1 DEF InBody
      <3>5. InPlace' /\ SizeKnown'
        BY <3>1, <3>4, SameStream DEF InPlace, Taken, SizeKnown, buffer
      <3>6. Room'
        BY <3>1 DEF Room, BodySize, buffer
      <3>7. QED
        BY <3>1, <3>2, <3>3, <3>5, <3>6, SameSplit DEF IInv
    <2>2. QED
      BY <2>1, FillFieldKeeps, ReadFieldKeeps, ReadFieldFailsKeeps, DecodeKeeps,
         FillBodyKeeps, ReadBodyKeeps, ReadBodyFailsKeeps, DispatchKeeps, CloseKeeps
         DEF Next, Thread
  <1>3. QED
    BY <1>1, <1>2, PTL DEF Spec

\* The pointers, the buffer and what was handed over stay what the code takes
\* them for, on a connection that lasts and, until fill_buffer crashes, on one
\* that ended.
THEOREM TypeCorrect == Spec => []TypeOK
  <1>1. IInv => TypeOK
    BY DEF IInv
  <1>2. QED
    BY <1>1, Invariance, PTL

\* fill_buffer does not crash while the connection lasts: the room that a
\* message lost is room for the next size field, and a gap there is left by
\* such a message only.
THEOREM CrashCorrect == Spec => []CrashesOnlyWhenClosed
  <1>1. IInv => CrashesOnlyWhenClosed
    BY DEF IInv, Room, CrashesOnlyWhenClosed
  <1>2. QED
    BY <1>1, Invariance, PTL

\* read() is never given more room than the buffer has: the free space that is
\* computed too early is too small and never too large.
THEOREM ReadCorrect == Spec => []ReadStaysInBuffer
  <1>1. IInv => ReadStaysInBuffer
    BY DEF IInv, Room, ReadStaysInBuffer
  <1>2. QED
    BY <1>1, Invariance, PTL

\* The thread is never out of step with the stream, not even after it gave up
\* filling a message.
THEOREM InStep == Spec => []InStepWithStream
  <1>1. ASSUME IInv
        PROVE  InStepWithStream
    <2>1. ASSUME pc = "decode", NEW i \in 0 .. FieldSize - 1
          PROVE  cells[curr_ptr + i] = FirstByte(Len(handled) + 1) + i
      <3>1. /\ FieldSize \in Nat /\ curr_ptr \in Nat /\ end_ptr \in Nat /\ received \in Nat
        BY <1>1, Sizes, RecvBufferAssumption DEF IInv
      <3>2. end_ptr - curr_ptr >= FieldSize
        BY <1>1, <2>1 DEF IInv, Room
      <3>3. curr_ptr + i \in curr_ptr .. end_ptr - 1
        BY <3>1, <3>2
      <3>4. cells[curr_ptr + i] = received - end_ptr + (curr_ptr + i) + 1
        BY <1>1, <3>3 DEF IInv, Live
      <3>5. LastByte(Len(handled)) \in Nat /\ Len(handled) \in Nat
        BY <1>1, Place, RecvBufferAssumption
      <3>6. received - end_ptr + curr_ptr = LastByte(Len(handled)) + Taken
        BY <1>1 DEF IInv, InPlace
      <3>7. Taken = 0
        BY <2>1 DEF Taken, InBody
      <3>8. (Len(handled) + 1) - 1 = Len(handled)
        BY <3>5
      <3>9. QED
        BY <3>1, <3>4, <3>5, <3>6, <3>7, <3>8 DEF FirstByte
    <2>2. QED
      BY <2>1 DEF InStepWithStream
  <1>2. QED
    BY <1>1, Invariance, PTL

\* The bytes of the body under way that have come are where they belong.
LEMMA BodyBytes ==
    ASSUME RecvBufferAssumption, IInv, InBody, NEW i \in Nat, curr_ptr + i < end_ptr
    PROVE  cells[curr_ptr + i] = FirstByte(Current) + FieldSize + i
  <1>1. FieldSize \in Nat /\ curr_ptr \in Nat /\ end_ptr \in Nat /\ received \in Nat
    BY Sizes DEF IInv
  <1>2. cells[curr_ptr + i] = received - end_ptr + (curr_ptr + i) + 1
    <2>1. curr_ptr + i \in curr_ptr .. end_ptr - 1
      BY <1>1
    <2>2. QED
      BY <2>1 DEF IInv, Live
  <1>3. LastByte(Len(handled)) \in Nat /\ Len(handled) \in Nat
    BY Place
  <1>4. received - end_ptr + curr_ptr = LastByte(Len(handled)) + FieldSize
    BY DEF IInv, InPlace, Taken
  <1>5. Current - 1 = Len(handled)
    BY <1>3 DEF Current
  <1>6. FirstByte(Current) = LastByte(Len(handled)) + 1
    BY <1>5 DEF FirstByte
  <1>7. i \in Nat
    OBVIOUS
  <1>8. QED
    BY ONLY <1>1, <1>2, <1>3, <1>4, <1>6, <1>7

\* A message that fill_buffer reported as filled is handled as it was sent.
THEOREM FilledCorrect == Spec => []FilledMessageIsWhole
  <1>1. ASSUME IInv
        PROVE  FilledMessageIsWhole
    <2>1. ASSUME pc = "dispatch", ~ fill_failed, NEW i \in 0 .. BodySize - 1
          PROVE  cells[curr_ptr + i] = FirstByte(Len(handled) + 1) + FieldSize + i
      <3>1. InBody
        BY <2>1 DEF InBody
      <3>2. BodySize \in Nat /\ curr_ptr \in Nat /\ end_ptr \in Nat
        BY <1>1, <3>1, BodySizes, Sizes, RecvBufferAssumption DEF IInv
      <3>3. end_ptr - curr_ptr >= BodySize
        BY <1>1, <2>1 DEF IInv, Room
      <3>4. i \in Nat /\ curr_ptr + i < end_ptr
        BY <3>2, <3>3
      <3>5. QED
        BY <1>1, <3>1, <3>4, BodyBytes, RecvBufferAssumption DEF Current
    <2>2. QED
      BY <2>1 DEF FilledMessageIsWhole
  <1>2. QED
    BY <1>1, Invariance, PTL

-----------------------------------------------------------------------------
(* The stream of messages that the buffer implements.                      *)

\* A sequence that is another one and one element more.
LEMMA OneMore ==
    ASSUME NEW n \in Nat, NEW f, NEW g,
           f = [m \in 1 .. n |-> f[m]], g = [m \in 1 .. n + 1 |-> g[m]],
           \A m \in 1 .. n : g[m] = f[m]
    PROVE  g = Append(f, g[n + 1])
  <1> DEFINE S == {g[m] : m \in 1 .. n + 1}
             y == g[n + 1]
             a == Append(f, y)
  <1>1. \A m \in 1 .. n : f[m] \in S
    OBVIOUS
  <1>2. y \in S
    OBVIOUS
  <1> HIDE DEF S, y
  <1>3. f \in [1 .. n -> S]
    BY <1>1
  <1>4. f \in Seq(S) /\ Len(f) = n
    BY <1>3, SeqFacts
  <1>5. /\ a \in Seq(S) /\ Len(a) = n + 1 /\ DOMAIN a = 1 .. n + 1
        /\ \A m \in 1 .. n : a[m] = f[m]
        /\ a[n + 1] = y
    BY <1>2, <1>4, AppendFacts
  <1> HIDE DEF a
  <1>6. a = [m \in 1 .. n + 1 |-> a[m]]
    BY <1>5
  <1>7. ASSUME NEW m \in 1 .. n + 1
        PROVE  a[m] = g[m]
    <2>1. m \in 1 .. n \/ m = n + 1
      OBVIOUS
    <2>2. QED
      BY <1>5, <2>1 DEF y
  <1>8. a = g
    BY <1>6, <1>7
  <1>9. QED
    BY <1>8 DEF a, y

\* The next message to be handed over is the one the thread is at.
LEMMA NextMessage ==
    ASSUME RecvBufferAssumption, IInv
    PROVE  /\ Stream!Upcoming = Current
           /\ \A m : Stream!End(m) = LastByte(m)
           /\ Stream!SizeKnown(Current) = LastByte(Len(handled)) + FieldSize
           /\ Stream!SizeKnown(Current + 1) = LastByte(Current) + FieldSize
  <1>1. Current - 1 = Len(handled) /\ Len(handled) \in Nat /\ (Current + 1) - 1 = Current
    BY Place DEF Current
  <1>2. Len(HandedOver) = Len(handled)
    <2>1. DOMAIN handled = 1 .. Len(handled)
      <3>1. PICK S : handled \in Seq(S)
        BY DEF IInv, TypeOK
      <3>2. QED
        BY <1>1, <3>1
    <2>2. HandedOver \in [1 .. Len(handled) -> {HandedOver[m] : m \in 1 .. Len(handled)}]
      BY <2>1 DEF HandedOver
    <2> HIDE DEF HandedOver
    <2>3. QED
      BY <1>1, <2>2, SeqFacts
  <1>3. \A m : Stream!End(m) = LastByte(m)
    BY DEF Stream!End, LastByte, EndOf
  <1>4. QED
    BY <1>1, <1>2, <1>3 DEF Stream!Upcoming, Stream!SizeKnown, Current

\* Bytes that are read are received.
LEMMA ReadReceives ==
    ASSUME RecvBufferAssumption, IInv, NEW n \in Bytes, Receive(n), UNCHANGED closed
    PROVE  Stream!Receive
  <1>1. /\ received' = received + n /\ n <= Total - received
        /\ messages' = messages /\ handled' = handled /\ ~ closed
        /\ split' = (split \/ received' = LastByte(Len(handled)) + FieldSize)
    BY DEF Receive
  <1>2. received \in Nat /\ Total \in Nat /\ n \in Nat /\ n >= 1
    BY Numbers DEF IInv, Bytes
  <1>3. received + n \in received + 1 .. Total
    BY <1>1, <1>2
  <1>4. HandedOver' = HandedOver
    BY <1>1 DEF HandedOver, Body, FirstByte, Size, LastByte
  <1>5. Stream!End(Len(messages)) = Total
    BY DEF Stream!End, Total, LastByte, EndOf
  <1>6. QED
    BY <1>1, <1>3, <1>4, <1>5, NextMessage DEF Stream!Receive

\* What Dispatch adds to what was handed over.
LEMMA DispatchHandsOver ==
    ASSUME RecvBufferAssumption, IInv, Dispatch
    PROVE  HandedOver' = Append(HandedOver, [size |-> BodySize,
                                             whole |-> Handed = Body(Current)])
  <1> DEFINE n == Len(handled)
             Entry(h, m) == [size |-> Len(h), whole |-> h = Body(m)]
  <1>1. /\ handled' = Append(handled, Handed) /\ Handed \in Seq(0 .. Total)
        /\ handled \in Seq(Seq(0 .. Total))
    BY DispatchFacts DEF IInv, TypeOK
  <1>2. /\ n \in Nat /\ DOMAIN handled = 1 .. n /\ DOMAIN handled' = 1 .. n + 1
        /\ \A m \in 1 .. n : handled'[m] = handled[m]
        /\ handled'[n + 1] = Handed
    BY <1>1, AppendFacts
  <1>3. messages' = messages
    BY DEF Dispatch
  <1>4. \A m : Body(m)' = Body(m)
    BY <1>3 DEF Body, FirstByte, Size, LastByte
  <1>5. Len(Handed) = BodySize
    <2>1. BodySize \in Nat
      BY BodySizes DEF Dispatch, InBody
    <2>2. Handed \in [1 .. BodySize -> {Handed[i] : i \in 1 .. BodySize}]
      BY DEF Handed
    <2> HIDE DEF Handed
    <2>3. QED
      BY <2>1, <2>2, SeqFacts
  <1>6. HandedOver = [m \in 1 .. n |-> Entry(handled[m], m)]
    BY <1>2 DEF HandedOver
  <1>7. HandedOver' = [m \in 1 .. n + 1 |-> Entry(handled'[m], m)]
    BY <1>2, <1>4 DEF HandedOver
  <1> DEFINE f == HandedOver
             g == [m \in 1 .. n + 1 |-> Entry(handled'[m], m)]
  <1>8. \A m \in 1 .. n : g[m] = f[m]
    <2>1. ASSUME NEW m \in 1 .. n
          PROVE  g[m] = f[m]
      <3>1. m \in 1 .. n + 1 /\ handled'[m] = handled[m]
        BY <1>2
      <3>2. f[m] = Entry(handled[m], m)
        BY <1>6
      <3>3. g[m] = Entry(handled'[m], m)
        BY <3>1
      <3>4. QED
        BY <3>1, <3>2, <3>3
    <2>2. QED
      BY <2>1
  <1>9. g[n + 1] = [size |-> BodySize, whole |-> Handed = Body(Current)]
    <2>1. n + 1 \in 1 .. n + 1
      BY <1>2
    <2>2. g[n + 1] = Entry(handled'[n + 1], n + 1)
      BY <2>1
    <2>3. QED
      BY <1>2, <1>5, <2>2 DEF Current
  <1>10. f = [m \in 1 .. n |-> f[m]] /\ g = [m \in 1 .. n + 1 |-> g[m]]
    BY <1>6
  <1> HIDE DEF f, g
  <1>11. g = Append(f, g[n + 1])
    <2>1. n \in Nat
      BY <1>2
    <2> HIDE DEF n
    <2>2. QED
      BY <1>8, <1>10, <2>1, OneMore, SMTT(30)
  <1>12. QED
    BY <1>7, <1>9, <1>11 DEF f, g

\* A message of which all bytes came is handed over whole; one whose bytes do
\* not come any more or have no room is handed over cut short, and is then not
\* what was sent.
LEMMA DispatchHandles ==
    ASSUME RecvBufferAssumption, IInv, Dispatch
    PROVE  Stream!HandleWhole \/ Stream!HandleCut
  <1>1. /\ pc = "dispatch" /\ InBody /\ messages' = messages /\ received' = received
        /\ closed' = closed /\ split' = (received = LastByte(Current) + FieldSize)
        /\ IInv
    BY DEF Dispatch, InBody
  <1>2. /\ BodySize \in Nat /\ BodySize >= 1 /\ BodySize <= MaxSize /\ MaxSize \in Nat
        /\ BodySize = Size(Current) - FieldSize
        /\ Current \in DOMAIN messages /\ Current = Len(handled) + 1
        /\ FieldSize \in Nat /\ curr_ptr \in Nat /\ end_ptr \in Nat /\ received \in Nat
        /\ buffer_size \in Nat /\ buffer_size <= MaxSize
    <2>1. DOMAIN messages = 1 .. Len(messages)
      BY MessageBounds DEF IInv, TypeOK
    <2>2. QED
      BY <1>1, <2>1, BodySizes, Sizes DEF IInv
  <1>3. /\ Current - 1 = Len(handled) /\ Len(handled) \in Nat
        /\ LastByte(Current - 1) \in Nat /\ Size(Current) \in Nat
        /\ LastByte(Current) = LastByte(Current - 1) + Size(Current)
    BY <1>1, Place
  <1>4. received - end_ptr + curr_ptr = LastByte(Current - 1) + FieldSize
    BY <1>1, <1>3 DEF IInv, InPlace, Taken
  <1>5. /\ Stream!Upcoming = Current
        /\ Stream!End(Current) = LastByte(Current)
        /\ Stream!End(Current - 1) = LastByte(Current - 1)
        /\ Stream!SizeKnown(Current) = LastByte(Current - 1) + FieldSize
        /\ split' = (received = Stream!SizeKnown(Stream!Upcoming + 1))
    BY <1>1, <1>3, NextMessage
  <1>6. Stream!End(Stream!Upcoming) - Stream!End(Stream!Upcoming - 1) - FieldSize = BodySize
    <2>1. PICK before, last : before = LastByte(Current - 1) /\ last = LastByte(Current)
      OBVIOUS
    <2>2. last - before - FieldSize = BodySize
      BY <1>2, <1>3, <2>1
    <2>3. QED
      BY <1>5, <2>1, <2>2
  <1>7. CASE ~ fill_failed
    <2>1. end_ptr - curr_ptr >= BodySize
      BY <1>1, <1>7 DEF IInv, Room
    <2>2. received >= LastByte(Current)
      BY <1>2, <1>3, <1>4, <2>1
    <2>3. Handed = Body(Current)
      <3>1. ASSUME NEW i \in 1 .. BodySize
            PROVE  cells[curr_ptr + i - 1] = FirstByte(Current) + FieldSize + i - 1
        <4>1. i - 1 \in Nat /\ curr_ptr + (i - 1) < end_ptr /\ i \in Nat
          BY <1>2, <2>1
        <4>2. cells[curr_ptr + (i - 1)] = FirstByte(Current) + FieldSize + (i - 1)
          BY <1>1, <4>1, BodyBytes
        <4>3. FirstByte(Current) \in Nat
          BY <1>3 DEF FirstByte
        <4>4. /\ curr_ptr + (i - 1) = curr_ptr + i - 1
              /\ FirstByte(Current) + FieldSize + (i - 1)
                    = FirstByte(Current) + FieldSize + i - 1
          BY <1>2, <4>1, <4>3
        <4>5. QED
          BY <4>2, <4>4
      <3>2. QED
        BY <1>2, <3>1 DEF Handed, Body
    <2>4. (Handed = Body(Current)) = TRUE
      BY <2>3
    <2>5. HandedOver' = Append(HandedOver, Stream!Body(TRUE))
      BY <1>6, <2>4, DispatchHandsOver DEF Stream!Body
    <2>6. QED
      BY <1>1, <1>2, <1>5, <2>2, <2>5 DEF Stream!HandleWhole, Stream!HandOver
  <1>8. CASE fill_failed
    <2>1. /\ curr_ptr <= end_ptr /\ end_ptr - curr_ptr < BodySize
          /\ curr_ptr + BodySize <= buffer_size
          /\ closed \/ split
      BY <1>1, <1>8 DEF IInv, Room
    <2>2. received \in LastByte(Current - 1) + FieldSize .. LastByte(Current) - 1
      <3>1. PICK before, size : before = LastByte(Current - 1) /\ size = Size(Current)
        OBVIOUS
      <3>2. /\ before \in Nat /\ size \in Nat
            /\ received - end_ptr + curr_ptr = before + FieldSize
            /\ BodySize = size - FieldSize
            /\ LastByte(Current) = before + size
        BY <1>2, <1>3, <1>4, <3>1
      <3>3. received \in before + FieldSize .. (before + size) - 1
        BY <1>2, <2>1, <3>2
      <3>4. QED
        BY <3>1, <3>2, <3>3
    <2>3. Handed # Body(Current)
      <3>1. Handed[BodySize] <= received
        <4>1. Handed[BodySize] = cells[curr_ptr + BodySize - 1]
          <5>1. BodySize \in 1 .. BodySize
            BY <1>2
          <5>2. QED
            BY <5>1 DEF Handed
        <4>2. curr_ptr + BodySize - 1 \in 0 .. MaxSize - 1
          BY <1>2, <2>1
        <4>3. QED
          BY <1>1, <4>1, <4>2 DEF IInv, NothingNewer
      <3>2. Body(Current)[BodySize] = LastByte(Current)
        <4>1. BodySize \in 1 .. Size(Current) - FieldSize
          BY <1>2
        <4>2. Body(Current)[BodySize] = FirstByte(Current) + FieldSize + BodySize - 1
          BY <4>1 DEF Body
        <4>3. FirstByte(Current) + FieldSize + BodySize - 1 = LastByte(Current)
          <5>1. PICK before, size : before = LastByte(Current - 1) /\ size = Size(Current)
            OBVIOUS
          <5>2. (before + 1) + FieldSize + BodySize - 1 = before + size
            BY <1>2, <1>3, <5>1
          <5>3. QED
            BY <1>3, <5>1, <5>2 DEF FirstByte
        <4>4. QED
          BY <4>2, <4>3
      <3>3. received < LastByte(Current) /\ LastByte(Current) \in Nat
        BY <1>2, <1>3, <2>2
      <3>4. QED
        BY <1>2, <3>1, <3>2, <3>3
    <2>4. (Handed = Body(Current)) = FALSE
      BY <2>3
    <2>5. HandedOver' = Append(HandedOver, Stream!Body(FALSE))
      BY <1>6, <2>4, DispatchHandsOver DEF Stream!Body
    <2>6. QED
      BY <1>1, <1>2, <1>5, <2>1, <2>2, <2>5 DEF Stream!HandleCut, Stream!HandOver
  <1>9. QED
    BY <1>7, <1>8

\* Every step of the thread is one of the stream of messages, or none: the
\* handlers get the messages one after the other, each once, with its own length
\* and as it was sent, unless the connection ended before or its size field came
\* alone.
THEOREM Refinement == Spec => Stream!Safety
  <1> USE RecvBufferAssumption
  <1>1. Init => Stream!Init
    <2>1. ASSUME Init
          PROVE  HandedOver = << >>
      <3>1. handled = << >>
        BY <2>1 DEF Init
      <3>2. DOMAIN handled = {}
        BY <3>1
      <3>3. QED
        BY <3>2 DEF HandedOver
    <2>2. QED
      BY <2>1 DEF Init, Stream!Init
  <1>2. IInv /\ [Next]_vars => [Stream!Next]_(Stream!vars)
    <2>1. ASSUME UNCHANGED <<messages, received, closed, split, handled>>
          PROVE  UNCHANGED Stream!vars
      <3>1. HandedOver' = HandedOver
        BY <2>1 DEF HandedOver, Body, FirstByte, Size, LastByte
      <3>2. QED
        BY <2>1, <3>1 DEF Stream!vars
    <2>2. ASSUME FillField \/ ReadFieldFails \/ Decode \/ FillBody \/ ReadBodyFails
                    \/ UNCHANGED vars
          PROVE  UNCHANGED <<messages, received, closed, split, handled>>
      BY <2>2 DEF FillField, FillBody, CallFill, ReadFieldFails, Decode, ReadBodyFails, vars
    <2>3. ASSUME IInv, NEW n \in Bytes, ReadField(n) \/ ReadBody(n)
          PROVE  Stream!Receive
      BY <2>3, ReadReceives DEF ReadField, ReadBody, Read
    <2>4. ASSUME Close
          PROVE  Stream!Close
      <3>1. HandedOver' = HandedOver
        BY <2>4 DEF Close, HandedOver, Body, FirstByte, Size, LastByte
      <3>2. QED
        BY <2>4, <3>1 DEF Close, Stream!Close
    <2>5. QED
      BY <2>1, <2>2, <2>3, <2>4, DispatchHandles DEF Next, Thread, Stream!Next, Stream!Progress
  <1>3. QED
    BY <1>1, <1>2, Invariance, PTL DEF Spec, Stream!Safety
====
