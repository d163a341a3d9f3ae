---- MODULE BufferQueue_proofs ----
(***************************************************************************)
(* Theorems about BufferQueue, for a ring of any size, buffers of any size *)
(* and any blocks.                                                         *)
(***************************************************************************)
EXTENDS BufferQueue, RsBufferQueue_proofs, TLAPS

-----------------------------------------------------------------------------
(* The inductive invariant.  That the window holds its blocks cannot be    *)
(* carried from step to step alone: which buffer the next block overwrites *)
(* depends on how the two indices stand to each other, and which ids the   *)
(* window covers on how min_block_id stands to the number of blocks        *)
(* published.                                                              *)

IInv == TypeOK /\ WindowIsLastBlocks /\ IndicesAgree /\ WindowHoldsItsBlocks

\* The invariant is that the ring holds the last blocks published.
LEMMA RingInvariant == IInv <=> TypeOK /\ RingHolds(queue, published)
  BY DEF IInv, TypeOK, RingHolds, LastBlocks, IndicesMeet, WindowFilled,
         WindowIsLastBlocks, IndicesAgree, WindowHoldsItsBlocks

LEMMA InitIInv == Init => IInv
  <1> SUFFICES ASSUME Init PROVE IInv
    OBVIOUS
  <1>1. RingHolds(queue, published)
    BY NewQueueHolds DEF Init
  <1>2. TypeOK
    BY <1>1 DEF Init, TypeOK, RingHolds
  <1>3. QED
    BY <1>1, <1>2, RingInvariant

\* One published block keeps the invariant.
LEMMA PublishIInv ==
    ASSUME IInv, NEW block \in Blocks, Publish(block)
    PROVE  IInv'
  <1>1. RingHolds(queue', published')
    BY RingInvariant, StoreKeepsRing DEF Publish
  <1>2. TypeOK'
    BY <1>1 DEF IInv, TypeOK, Publish, RingHolds
  <1>3. IInv' <=> TypeOK' /\ RingHolds(queue', published')
    BY DEF IInv, TypeOK, RingHolds, LastBlocks, IndicesMeet, WindowFilled,
           WindowIsLastBlocks, IndicesAgree, WindowHoldsItsBlocks
  <1>4. QED
    BY <1>1, <1>2, <1>3

\* Reads and stuttering keep it.
LEMMA ReadIInv ==
    ASSUME IInv,
           \/ \E id \in AskedIds : Lookup(id)
           \/ Report
           \/ UNCHANGED vars
    PROVE  IInv'
  <1> USE BufferAssumption, RunAssumption
  <1>1. UNCHANGED <<queue, published>>
    BY DEF Lookup, Report, vars
  <1>2. TypeOK'
    <2>1. ASSUME NEW id \in AskedIds, Lookup(id)
          PROVE  TypeOK'
      BY <2>1, LookupType DEF Lookup, IInv, TypeOK
    <2>2. CASE Report
      BY <2>2
      DEF Report, IInv, TypeOK, get_buffer_interval, curr_buf_size, Queues,
          Indices
    <2>3. CASE UNCHANGED vars
      BY <2>3 DEF vars, IInv, TypeOK
    <2>4. QED
      BY <2>1, <2>2, <2>3
  <1>3. WindowIsLastBlocks' /\ IndicesAgree' /\ WindowHoldsItsBlocks'
    BY <1>1 DEF IInv, WindowIsLastBlocks, IndicesAgree, WindowHoldsItsBlocks,
                curr_buf_size, dequeue_buffer, IndexOf
  <1>4. QED
    BY <1>2, <1>3 DEF IInv

LEMMA NextIInv == IInv /\ [Next]_vars => IInv'
  BY PublishIInv, ReadIInv DEF Next

\* The inductive invariant holds in every reachable state.
THEOREM Invariance == Spec => []IInv
  BY InitIInv, NextIInv, PTL DEF Spec

\* Type correctness: indices stay in the ring and results keep their shape.
THEOREM TypeCorrect == Spec => []TypeOK
  <1>1. IInv => TypeOK
    BY DEF IInv
  <1>2. QED
    BY <1>1, Invariance, PTL

\* The ring always holds exactly the last blocks published.
THEOREM WindowCorrect == Spec => []WindowIsLastBlocks
  <1>1. IInv => WindowIsLastBlocks
    BY DEF IInv
  <1>2. QED
    BY <1>1, Invariance, PTL

\* The index of the next buffer is where the oldest block on offer lies, or
\* the end of the blocks so far while the ring fills up: queue_buffer never
\* overwrites another block than the one that leaves the window.
THEOREM IndicesCorrect == Spec => []IndicesAgree
  <1>1. IInv => IndicesAgree
    BY DEF IInv
  <1>2. QED
    BY <1>1, Invariance, PTL

\* Whatever id is in the window, dequeue_buffer returns the buffer of that
\* id with the block the source sent, without looking at the buffer's tag.
THEOREM LookupCorrect == Spec => []WindowHoldsItsBlocks
  <1>1. IInv => WindowHoldsItsBlocks
    BY DEF IInv
  <1>2. QED
    BY <1>1, Invariance, PTL

-----------------------------------------------------------------------------
(* The queue implements the window of blocks.                              *)

\* The window of the abstract specification, in the queue's terms.
LEMMA WindowBounds ==
    ASSUME IInv
    PROVE  /\ Window!First = queue.min_block_id
           /\ \A id \in Int : InWindow(queue, id) <=> id \in Window!OnOffer
           /\ get_buffer_interval(queue)
                = [start |-> Window!First, end |-> Len(published)]
  <1> USE BufferAssumption
  <1>1. /\ queue \in Queues
        /\ Len(published) \in Nat
        /\ curr_buf_size(queue) \in Nat
        /\ queue.min_block_id + curr_buf_size(queue) = Len(published)
        /\ curr_buf_size(queue) =
            IF Len(published) < BufferNumber THEN Len(published)
                                             ELSE BufferNumber
    BY DEF IInv, TypeOK, WindowIsLastBlocks, Queues, curr_buf_size, Indices
  <1>2. Window!First = queue.min_block_id
    BY <1>1 DEF Window!First, Queues
  <1>3. \A id \in Int : InWindow(queue, id) <=> id \in Window!OnOffer
    BY <1>1, <1>2 DEF Window!OnOffer, InWindow, Queues
  <1>4. QED
    BY <1>1, <1>2, <1>3 DEF get_buffer_interval

\* Every step of the queue is a step of the window or a stutter.
LEMMA StepRefinement ==
    ASSUME IInv, [Next]_vars
    PROVE  [Window!Next]_(Window!vars)
  <1> USE BufferAssumption, RunAssumption
  <1>1. ASSUME NEW block \in Blocks, Publish(block)
        PROVE  Window!Publish(block)
    BY <1>1 DEF Publish, Window!Publish
  <1>2. ASSUME NEW id \in AskedIds, Lookup(id)
        PROVE  Window!Lookup(id)
    <2>1. id \in Int /\ queue \in Queues
      BY DEF IInv, TypeOK
    <2>2. CASE ~ InWindow(queue, id)
      BY <2>1, <2>2, <1>2, WindowBounds
      DEF Lookup, LookupBlock, Window!Lookup
    <2>3. CASE InWindow(queue, id)
      <3> DEFINE buf == dequeue_buffer(queue, id)
      <3>1. /\ id \in Window!OnOffer
            /\ id \in queue.min_block_id .. Len(published) - 1
        BY <2>1, <2>3, WindowBounds DEF Window!OnOffer
      <3>2. Holds(buf.buffer, published[id + 1])
        BY <3>1 DEF IInv, WindowHoldsItsBlocks
      <3>3. buf.buffer \in Contents
        BY <2>1, <2>3, LookupType DEF dequeue_buffer, Queues, MediaBuffers
      <3>4. Window!Holds(buf.buffer, Window!Block(id))
        BY <3>2 DEF Holds, Window!Holds, Window!Block
      <3>5. answer' = [block_id |-> id, buffer |-> buf.buffer]
        BY <2>3, <1>2 DEF Lookup, LookupBlock
      <3>6. QED
        BY <3>1, <3>3, <3>4, <3>5, <1>2 DEF Lookup, Window!Lookup
    <2>4. QED
      BY <2>2, <2>3
  <1>3. ASSUME Report
        PROVE  Window!Report
    BY <1>3, WindowBounds DEF Report, Window!Report
  <1>4. ASSUME UNCHANGED vars
        PROVE  UNCHANGED Window!vars
    BY <1>4 DEF vars, Window!vars
  <1>5. QED
    BY <1>1, <1>2, <1>3, <1>4 DEF Next, Window!Next

\* The queue implements the window: whoever only sees what was published,
\* what lookups answer and which intervals are reported cannot tell the ring
\* from a source that keeps its last BufferNumber blocks.
THEOREM Refinement == Spec => ImplementsBlockWindow
  <1>1. Init => Window!Init
    BY DEF Init, Window!Init
  <1>2. QED
    BY <1>1, StepRefinement, Invariance, PTL
    DEF Spec, ImplementsBlockWindow, Window!Spec
====
