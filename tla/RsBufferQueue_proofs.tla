---- MODULE RsBufferQueue_proofs ----
(***************************************************************************)
(* Lemmas about the operators of RsBufferQueue, for rings of any size,     *)
(* buffers of any size and any blocks: what storing a block does to a ring *)
(* and what a lookup in it returns.  BufferQueue_proofs uses them for one  *)
(* ring, SuperPeer_proofs for a ring per channel.                          *)
(***************************************************************************)
EXTENDS RsBufferQueue, TLAPS

-----------------------------------------------------------------------------
(* The operators.                                                          *)

\* The index after i, without the remainder.
LEMMA NextIndexValue ==
    ASSUME NEW i \in Indices
    PROVE  /\ NextIndex(i) = IF i + 1 = BufferNumber THEN 0 ELSE i + 1
           /\ NextIndex(i) \in Indices
  <1> USE BufferAssumption DEF Indices, NextIndex
  <1>1. CASE i + 1 = BufferNumber
    BY <1>1
  <1>2. CASE i + 1 < BufferNumber
    BY <1>2
  <1>3. QED
    BY <1>1, <1>2

\* A block fits in a buffer.
LEMMA BlockOffsets ==
    ASSUME NEW block \in Blocks
    PROVE  /\ DOMAIN block \subseteq Offsets
           /\ \A u \in DOMAIN block : block[u] \in Byte
  <1>1. PICK n \in Offsets : block \in [1 .. n -> Byte]
    BY BufferAssumption
  <1>2. QED
    BY <1>1, BufferAssumption DEF Offsets

\* What storing a block does to the object, field by field: one buffer gets
\* the id, the block and the flag, the others keep everything.
LEMMA StoreBlockFields ==
    ASSUME NEW q \in Queues, NEW id \in Int, NEW block \in Blocks,
           NEW r, r = StoreBlock(q, id, block)
    PROVE  /\ r \in Queues
           /\ r.queue_index = NextIndex(q.queue_index)
           /\ r.min_block_id = IF q.buffer_full_flag
                               THEN q.min_block_id + 1 ELSE q.min_block_id
           /\ r.min_block_index = IF q.buffer_full_flag
                                  THEN NextIndex(q.queue_index)
                                  ELSE q.min_block_index
           /\ r.buffer_full_flag =
                (q.buffer_full_flag \/ q.queue_index + 1 = BufferNumber)
           /\ \A i \in Indices \ {q.queue_index} :
                r.buffer_vector[i] = q.buffer_vector[i]
           /\ r.buffer_vector[q.queue_index].block_id = id
           /\ r.buffer_vector[q.queue_index].flag = "AVAILABLE"
           /\ Holds(r.buffer_vector[q.queue_index].buffer, block)
  <1> DEFINE k  == q.queue_index
             q1 == queue_buffer(q)
             q2 == copy_block(q1, block)
             content(old) == [u \in Offsets |->
                                IF u \in DOMAIN block THEN block[u] ELSE old[u]]
  <1>1. k \in Indices /\ NextIndex(k) \in Indices
    BY NextIndexValue DEF Queues
  \* queue_buffer
  <1>2. /\ q1 \in Queues
        /\ q1.queue_index = k
        /\ q1.buffer_full_flag = q.buffer_full_flag
        /\ q1.min_block_id = IF q.buffer_full_flag
                             THEN q.min_block_id + 1 ELSE q.min_block_id
        /\ q1.min_block_index = IF q.buffer_full_flag
                                THEN NextIndex(k) ELSE q.min_block_index
        /\ \A i \in Indices \ {k} : q1.buffer_vector[i] = q.buffer_vector[i]
    <2> DEFINE buf == q.buffer_vector[k]
               vec == [q.buffer_vector EXCEPT ![k].flag = "WRITING"]
    <2>1. [buf EXCEPT !.flag = "WRITING"] \in MediaBuffers
      BY <1>1 DEF Queues, MediaBuffers, Flags
    <2>2. vec \in [Indices -> MediaBuffers]
      BY <1>1, <2>1 DEF Queues
    <2>3. /\ q1.buffer_vector = vec
          /\ q1.queue_index = k
          /\ q1.buffer_full_flag = q.buffer_full_flag
      BY <1>1 DEF queue_buffer, Queues
    <2>4. q1.min_block_id = IF q.buffer_full_flag
                            THEN q.min_block_id + 1 ELSE q.min_block_id
      BY <1>1 DEF queue_buffer, Queues
    <2>5. q1.min_block_index = IF q.buffer_full_flag
                               THEN NextIndex(k) ELSE q.min_block_index
      BY <1>1 DEF queue_buffer, Queues
    <2>6. q1.min_block_id \in Nat /\ q1.min_block_index \in Indices
      BY <1>1, <2>4, <2>5 DEF Queues
    <2>7. q1 \in Queues
      BY <1>1, <2>2, <2>3, <2>6 DEF Queues, queue_buffer
    <2>8. \A i \in Indices \ {k} : vec[i] = q.buffer_vector[i]
      BY <1>1 DEF Queues
    <2>9. QED
      BY <2>3, <2>4, <2>5, <2>7, <2>8
  \* the copy
  <1>3. /\ q2 \in Queues
        /\ q2.queue_index = k
        /\ q2.buffer_full_flag = q.buffer_full_flag
        /\ q2.min_block_id = q1.min_block_id
        /\ q2.min_block_index = q1.min_block_index
        /\ \A i \in Indices \ {k} : q2.buffer_vector[i] = q.buffer_vector[i]
        /\ Holds(q2.buffer_vector[k].buffer, block)
    <2> HIDE DEF q1
    <2> DEFINE buf == q1.buffer_vector[k]
               new == content(buf.buffer)
               vec == [q1.buffer_vector EXCEPT ![k].buffer = new]
    <2>1. buf \in MediaBuffers /\ buf.buffer \in Contents
      BY <1>1, <1>2 DEF Queues, MediaBuffers
    <2>2. new \in Contents /\ Holds(new, block)
      BY <2>1, BlockOffsets DEF Contents, Holds
    <2>3. q2.buffer_vector = vec
      BY <1>1, <1>2 DEF copy_block, Queues
    <2> HIDE DEF new
    <2>4. [buf EXCEPT !.buffer = new] \in MediaBuffers
      BY <2>1, <2>2 DEF MediaBuffers
    <2>5. /\ vec \in [Indices -> MediaBuffers]
          /\ vec[k].buffer = new
          /\ \A i \in Indices \ {k} : vec[i] = q1.buffer_vector[i]
      BY <1>1, <1>2, <2>1, <2>4 DEF Queues, MediaBuffers
    <2>6. /\ q2.queue_index = q1.queue_index
          /\ q2.buffer_full_flag = q1.buffer_full_flag
          /\ q2.min_block_id = q1.min_block_id
          /\ q2.min_block_index = q1.min_block_index
      BY <1>2 DEF copy_block, Queues
    <2>7. q2 \in Queues
      BY <1>2, <2>3, <2>5, <2>6 DEF Queues, copy_block
    <2>8. QED
      BY <1>2, <2>2, <2>3, <2>5, <2>6, <2>7
  \* update_buffer_attr
  <1>4. /\ r \in Queues
        /\ r.queue_index = NextIndex(k)
        /\ r.min_block_id = q2.min_block_id
        /\ r.min_block_index = q2.min_block_index
        /\ r.buffer_full_flag = (q.buffer_full_flag \/ k + 1 = BufferNumber)
        /\ \A i \in Indices \ {k} : r.buffer_vector[i] = q2.buffer_vector[i]
        /\ r.buffer_vector[k].block_id = id
        /\ r.buffer_vector[k].flag = "AVAILABLE"
        /\ r.buffer_vector[k].buffer = q2.buffer_vector[k].buffer
    <2>0. r = update_buffer_attr(q2, id, "AVAILABLE")
      BY DEF StoreBlock
    <2> HIDE DEF q1, q2
    <2> DEFINE buf == q2.buffer_vector[k]
               vec == [q2.buffer_vector EXCEPT ![k].block_id = id,
                                               ![k].flag = "AVAILABLE"]
    <2>1. buf \in MediaBuffers
      BY <1>1, <1>3 DEF Queues
    <2>2. [buf EXCEPT !.block_id = id, !.flag = "AVAILABLE"] \in MediaBuffers
      BY <2>1 DEF MediaBuffers, Flags
    <2>3. r.buffer_vector = vec
      BY <2>0, <1>1, <1>3 DEF update_buffer_attr, Queues
    <2>4. /\ vec \in [Indices -> MediaBuffers]
          /\ vec[k].block_id = id
          /\ vec[k].flag = "AVAILABLE"
          /\ vec[k].buffer = buf.buffer
          /\ \A i \in Indices \ {k} : vec[i] = q2.buffer_vector[i]
      BY <1>1, <1>3, <2>1, <2>2 DEF Queues, MediaBuffers
    <2>5. /\ r.queue_index = NextIndex(k)
          /\ r.min_block_id = q2.min_block_id
          /\ r.min_block_index = q2.min_block_index
          /\ r.buffer_full_flag = (q.buffer_full_flag \/ k + 1 = BufferNumber)
      BY <2>0, <1>3 DEF update_buffer_attr, Queues
    <2>6. r \in Queues
      BY <2>0, <1>1, <1>3, <2>3, <2>4, <2>5 DEF Queues, update_buffer_attr
    <2>7. QED
      BY <2>3, <2>4, <2>5, <2>6
  <1>5. QED
    BY <1>2, <1>3, <1>4

\* What a lookup returns has the shape its callers expect, and the buffer
\* dequeue_buffer picks is one of the ring's.
LEMMA LookupType ==
    ASSUME NEW q \in Queues, NEW id \in Int
    PROVE  /\ InWindow(q, id) => IndexOf(q, id) \in Indices
           /\ LookupBlock(q, id) \in [block_id : Int, buffer : Contents]
                                        \union {NotFound}
  <1>1. InWindow(q, id) => IndexOf(q, id) \in Indices
    BY BufferAssumption
    DEF Queues, Indices, InWindow, IndexOf, curr_buf_size
  <1>2. ASSUME InWindow(q, id)
        PROVE  dequeue_buffer(q, id) \in MediaBuffers
    BY <1>1, <1>2 DEF dequeue_buffer, Queues
  <1>3. QED
    BY <1>1, <1>2 DEF LookupBlock, MediaBuffers

\* Walking offset steps around a ring of size buffers from index i, the way
\* dequeue_buffer computes it.
Walk(size, i, offset) ==
    IF offset < size - i THEN i + offset ELSE offset - (size - i)

Succ(size, i) == IF i + 1 = size THEN 0 ELSE i + 1

\* From the next index it takes one step less to come to the same buffer, and
\* a walk of less than a turn never comes back to where it started.
LEMMA WalkShift ==
    ASSUME NEW size \in Nat \ {0},
           NEW i \in 0 .. size - 1,
           NEW offset \in 1 .. size - 1
    PROVE  /\ Walk(size, Succ(size, i), offset - 1) = Walk(size, i, offset)
           /\ Walk(size, i, offset) \in 0 .. size - 1
           /\ Walk(size, i, offset) # i
  <1>1. CASE i + 1 = size
    BY <1>1 DEF Walk, Succ
  <1>2. CASE i + 1 # size
    BY <1>2 DEF Walk, Succ
  <1>3. QED
    BY <1>1, <1>2

\* From the next index, one step less than a turn comes back to i.
LEMMA WalkTurn ==
    ASSUME NEW size \in Nat \ {0},
           NEW i \in 0 .. size - 1
    PROVE  Walk(size, Succ(size, i), size - 1) = i
  BY DEF Walk, Succ

-----------------------------------------------------------------------------
(* The ring against the blocks that were stored in it.                     *)

\* The window is the last blocks stored.
LastBlocks(q, blocks) ==
    /\ q.min_block_id + curr_buf_size(q) = Len(blocks)
    /\ curr_buf_size(q) =
        IF Len(blocks) < BufferNumber THEN Len(blocks) ELSE BufferNumber

\* The two indices agree on where it starts and ends.
IndicesMeet(q) ==
    IF q.buffer_full_flag
    THEN q.min_block_index = q.queue_index
    ELSE q.min_block_index = 0 /\ q.min_block_id = 0

\* Every block of it is in the buffer dequeue_buffer picks.
WindowFilled(q, blocks) ==
    \A id \in q.min_block_id .. Len(blocks) - 1 :
        LET buf == dequeue_buffer(q, id)
        IN  /\ buf.block_id = id
            /\ buf.flag = "AVAILABLE"
            /\ Holds(buf.buffer, blocks[id + 1])

RingHolds(q, blocks) ==
    /\ q \in Queues
    /\ blocks \in Seq(Blocks)
    /\ LastBlocks(q, blocks)
    /\ IndicesMeet(q)
    /\ WindowFilled(q, blocks)

\* Storing the next block keeps the ring in step with what was stored.
LEMMA StoreKeepsRing ==
    ASSUME NEW q, NEW blocks, RingHolds(q, blocks), NEW block \in Blocks,
           NEW r, r = StoreBlock(q, Len(blocks), block),
           NEW more, more = Append(blocks, block)
    PROVE  RingHolds(r, more)
  <1> DEFINE n == Len(blocks)
             k == q.queue_index
  <1>1. /\ q \in Queues
        /\ n \in Nat
        /\ k \in Indices
        /\ blocks \in Seq(Blocks)
        /\ BufferNumber \in Nat \ {0}
    BY BufferAssumption DEF RingHolds, Queues
  <1>2. /\ r \in Queues
        /\ r.queue_index = NextIndex(k)
        /\ r.min_block_id = IF q.buffer_full_flag
                                 THEN q.min_block_id + 1 ELSE q.min_block_id
        /\ r.min_block_index = IF q.buffer_full_flag
                                    THEN NextIndex(k) ELSE q.min_block_index
        /\ r.buffer_full_flag =
                (q.buffer_full_flag \/ k + 1 = BufferNumber)
        /\ \A i \in Indices \ {k} :
                r.buffer_vector[i] = q.buffer_vector[i]
        /\ r.buffer_vector[k].block_id = n
        /\ r.buffer_vector[k].flag = "AVAILABLE"
        /\ Holds(r.buffer_vector[k].buffer, block)
    BY <1>1, StoreBlockFields
  <1>3. /\ more \in Seq(Blocks)
        /\ Len(more) = n + 1
        /\ more[n + 1] = block
        /\ \A i \in 1 .. n : more[i] = blocks[i]
    BY <1>1
  <1>4. NextIndex(k) = Succ(BufferNumber, k)
    BY <1>1, NextIndexValue DEF Succ
  \* the numbers before and after
  <1>5. /\ q.min_block_id + curr_buf_size(q) = n
        /\ curr_buf_size(q) = IF n < BufferNumber THEN n ELSE BufferNumber
        /\ IF q.buffer_full_flag
           THEN q.min_block_index = k
           ELSE q.min_block_index = 0 /\ q.min_block_id = 0
    BY DEF RingHolds, LastBlocks, IndicesMeet
  <1>6. LastBlocks(r, more)
    <2>1. CASE q.buffer_full_flag
      <3>1. /\ curr_buf_size(q) = BufferNumber
            /\ curr_buf_size(r) = BufferNumber
        BY <2>1, <1>2 DEF curr_buf_size
      <3>2. /\ q.min_block_id \in Nat
            /\ r.min_block_id = q.min_block_id + 1
        BY <2>1, <1>1, <1>2 DEF Queues
      <3>3. QED
        <4>1. n >= BufferNumber
          BY <3>1, <1>1, <1>5
        <4>2. r.min_block_id + BufferNumber = Len(more)
          <5>1. q.min_block_id + BufferNumber = n
            BY <3>1, <1>5
          <5>2. /\ q.min_block_id \in Int /\ BufferNumber \in Int
            BY <3>2, <1>1
          <5>3. q.min_block_id + 1 + BufferNumber = n + 1
            BY <5>1, <5>2
          <5>4. QED
            BY <5>3, <3>2, <1>3
        <4>3. curr_buf_size(r) = BufferNumber
          BY <3>1 DEF curr_buf_size
        <4>4. QED
          BY <4>1, <4>2, <4>3, <1>1, <1>3 DEF LastBlocks
    <2>2. CASE ~ q.buffer_full_flag
      BY <2>2, <1>1, <1>2, <1>3, <1>4, <1>5
      DEF LastBlocks, curr_buf_size, Queues, Indices, Succ
    <2>3. QED
      BY <2>1, <2>2
  <1>7. IndicesMeet(r)
    BY <1>1, <1>2, <1>4, <1>5 DEF IndicesMeet, Queues, Indices, Succ
  \* the new block is found where it was put, the others where they were
  <1>8. IndexOf(r, n) = k
    <2>1. /\ q.min_block_id \in Nat
          /\ k \in 0 .. BufferNumber - 1
      BY <1>1 DEF Queues, Indices
    <2>2. CASE q.buffer_full_flag
      <3>1. /\ q.min_block_id + BufferNumber = n
            /\ r.min_block_id = q.min_block_id + 1
            /\ r.min_block_index = NextIndex(k)
        BY <2>2, <1>2, <1>5 DEF curr_buf_size
      <3>2. n - r.min_block_id = BufferNumber - 1
        BY <3>1, <2>1, <1>1
      <3>3. IndexOf(r, n) = Walk(BufferNumber, NextIndex(k), BufferNumber - 1)
        BY <3>1, <3>2 DEF IndexOf, Walk
      <3>4. QED
        BY <3>3, <2>1, <1>1, <1>4, WalkTurn
    <2>3. CASE ~ q.buffer_full_flag
      <3>1. /\ r.min_block_id = 0
            /\ r.min_block_index = 0
            /\ k = n
        BY <2>3, <1>1, <1>2, <1>5 DEF curr_buf_size, Indices
      <3>2. QED
        BY <3>1, <2>1, <1>1 DEF IndexOf
    <2>4. QED
      BY <2>2, <2>3
  <1>9. ASSUME NEW id \in r.min_block_id .. n - 1
         PROVE  /\ id \in q.min_block_id .. n - 1
                /\ IndexOf(r, id) = IndexOf(q, id)
                /\ IndexOf(q, id) \in Indices \ {k}
    <2>1. /\ q.min_block_id \in Nat
          /\ q.min_block_index \in Indices
          /\ k \in 0 .. BufferNumber - 1
          /\ id \in Int
      BY <1>1, <1>2 DEF Queues, Indices
    <2>2. CASE q.buffer_full_flag
      <3>1. /\ q.min_block_index = k
            /\ q.min_block_id + BufferNumber = n
            /\ r.min_block_id = q.min_block_id + 1
            /\ r.min_block_index = NextIndex(k)
        BY <2>2, <1>2, <1>5 DEF curr_buf_size
      <3>2. /\ id - q.min_block_id \in 1 .. BufferNumber - 1
            /\ id - r.min_block_id = (id - q.min_block_id) - 1
            /\ id \in q.min_block_id .. n - 1
        <4>1. id \in q.min_block_id + 1 .. n - 1
          BY <1>9, <3>1
        <4>2. n \in Int /\ BufferNumber \in Int
          BY <1>1
        <4>3. q.min_block_id \in Int /\ q.min_block_id + BufferNumber = n
              /\ r.min_block_id = q.min_block_id + 1 /\ id \in Int
          BY <2>1, <3>1
        <4>4. QED
          BY ONLY <4>1, <4>2, <4>3
      <3>3. IndexOf(q, id) = Walk(BufferNumber, k, id - q.min_block_id)
        BY <3>1 DEF IndexOf, Walk
      <3>4. IndexOf(r, id)
              = Walk(BufferNumber, NextIndex(k), (id - q.min_block_id) - 1)
        BY <3>1, <3>2 DEF IndexOf, Walk
      <3> DEFINE d == id - q.min_block_id
      <3>5. /\ Walk(BufferNumber, NextIndex(k), d - 1) = Walk(BufferNumber, k, d)
            /\ Walk(BufferNumber, k, d) \in 0 .. BufferNumber - 1
            /\ Walk(BufferNumber, k, d) # k
        <4>1. /\ d \in 1 .. BufferNumber - 1
              /\ BufferNumber \in Nat \ {0}
              /\ k \in 0 .. BufferNumber - 1
          BY <3>2, <2>1, <1>1
        <4> HIDE DEF d, k
        <4>2. Walk(BufferNumber, Succ(BufferNumber, k), d - 1)
                = Walk(BufferNumber, k, d)
          BY <4>1, WalkShift
        <4>3. /\ Walk(BufferNumber, k, d) \in 0 .. BufferNumber - 1
              /\ Walk(BufferNumber, k, d) # k
          BY <4>1, WalkShift
        <4>4. QED
          BY <4>2, <4>3, <1>4
      <3>6. QED
        BY <3>2, <3>3, <3>4, <3>5 DEF Indices
    <2>3. CASE ~ q.buffer_full_flag
      <3>1. /\ q.min_block_index = 0
            /\ q.min_block_id = 0
            /\ k = n
            /\ r.min_block_id = 0
            /\ r.min_block_index = 0
        BY <2>3, <1>1, <1>2, <1>5 DEF curr_buf_size, Indices
      <3>2. id \in 0 .. k - 1
        BY <3>1, <2>1
      <3>3. IndexOf(q, id) = id /\ IndexOf(r, id) = id
        BY <3>1, <3>2, <2>1, <1>1 DEF IndexOf
      <3>4. id \in Indices \ {k}
        BY <3>2, <2>1, <1>1 DEF Indices
      <3>5. id \in q.min_block_id .. n - 1
        BY <3>1, <3>2
      <3>6. QED
        BY <3>3, <3>4, <3>5
    <2>4. QED
      BY <2>2, <2>3
  <1>10. ASSUME NEW id \in r.min_block_id .. Len(more) - 1
         PROVE  LET buf == dequeue_buffer(r, id)
                IN  /\ buf.block_id = id
                    /\ buf.flag = "AVAILABLE"
                    /\ Holds(buf.buffer, more[id + 1])
    <2>1. CASE id = n
      BY <2>1, <1>2, <1>3, <1>8 DEF dequeue_buffer
    <2>2. CASE id # n
      <3>1. id \in r.min_block_id .. n - 1
        BY <2>2, <1>1, <1>2, <1>3 DEF Queues
      <3>2. dequeue_buffer(r, id) = dequeue_buffer(q, id)
        BY <3>1, <1>2, <1>9 DEF dequeue_buffer
      <3>3. more[id + 1] = blocks[id + 1]
        BY <3>1, <1>1, <1>2, <1>3 DEF Queues
      <3>4. LET buf == dequeue_buffer(q, id)
            IN  /\ buf.block_id = id
                /\ buf.flag = "AVAILABLE"
                /\ Holds(buf.buffer, blocks[id + 1])
        BY <3>1, <1>9 DEF RingHolds, WindowFilled
      <3>5. QED
        BY <3>2, <3>3, <3>4
    <2>3. QED
      BY <2>1, <2>2
  <1>11. WindowFilled(r, more)
    BY <1>10 DEF WindowFilled
  <1>12. QED
    BY <1>2, <1>3, <1>6, <1>7, <1>11 DEF RingHolds

\* An empty ring holds nothing.
LEMMA NewQueueHolds == RingHolds(NewQueue, << >>)
  <1> USE BufferAssumption
  <1>1. NewQueue \in Queues
    BY DEF NewQueue, Queues, Indices, MediaBuffers, Flags, Contents
  <1>2. LastBlocks(NewQueue, << >>) /\ IndicesMeet(NewQueue)
    BY DEF LastBlocks, IndicesMeet, curr_buf_size, NewQueue
  <1>3. WindowFilled(NewQueue, << >>)
    BY DEF WindowFilled, NewQueue
  <1>4. QED
    BY <1>1, <1>2, <1>3 DEF RingHolds

\* A lookup in the window returns the block that was stored under the id, a
\* lookup outside of it nothing; the window is the last blocks stored.
LEMMA RingLookup ==
    ASSUME NEW q, NEW blocks, RingHolds(q, blocks), NEW id \in Int
    PROVE  /\ InWindow(q, id) <=>
                id \in 0 .. Len(blocks) - 1 /\ id >= Len(blocks) - BufferNumber
           /\ InWindow(q, id) =>
                /\ LookupBlock(q, id).block_id = id
                /\ LookupBlock(q, id)
                     = [block_id |-> id, buffer |-> LookupBlock(q, id).buffer]
                /\ LookupBlock(q, id).buffer \in Contents
                /\ Holds(LookupBlock(q, id).buffer, blocks[id + 1])
  <1>1. /\ q \in Queues
        /\ Len(blocks) \in Nat
        /\ q.min_block_id \in Nat
        /\ curr_buf_size(q) \in Nat
        /\ BufferNumber \in Nat \ {0}
        /\ q.min_block_id + curr_buf_size(q) = Len(blocks)
        /\ curr_buf_size(q) =
            IF Len(blocks) < BufferNumber THEN Len(blocks) ELSE BufferNumber
    BY BufferAssumption
    DEF RingHolds, LastBlocks, Queues, curr_buf_size, Indices
  <1>2. InWindow(q, id) <=>
            id \in 0 .. Len(blocks) - 1 /\ id >= Len(blocks) - BufferNumber
    BY <1>1 DEF InWindow
  <1>3. ASSUME InWindow(q, id)
        PROVE  /\ LookupBlock(q, id)
                    = [block_id |-> id, buffer |-> dequeue_buffer(q, id).buffer]
               /\ dequeue_buffer(q, id).buffer \in Contents
               /\ Holds(dequeue_buffer(q, id).buffer, blocks[id + 1])
    <2>1. id \in q.min_block_id .. Len(blocks) - 1
      BY <1>1, <1>3 DEF InWindow
    <2>2. Holds(dequeue_buffer(q, id).buffer, blocks[id + 1])
      BY <2>1 DEF RingHolds, WindowFilled
    <2>3. dequeue_buffer(q, id).buffer \in Contents
      BY <1>1, <1>3, LookupType DEF dequeue_buffer, Queues, MediaBuffers
    <2>4. QED
      BY <2>2, <2>3, <1>3 DEF LookupBlock
  <1>4. QED
    BY <1>2, <1>3
====
