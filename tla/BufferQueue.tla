---- MODULE BufferQueue ----
(***************************************************************************)
(* One RsBufferQueue object driven the way RsSourceManager drives it, by a *)
(* source that numbers its blocks 0, 1, 2, ... and by readers that ask for *)
(* any number.                                                             *)
(***************************************************************************)
EXTENDS RsBufferQueue

CONSTANTS
    AskedIds,       \* the block ids normal peers ask for
    MaxPublished    \* bound on the number of blocks published

\* Ids are the numbers an int can be.
ASSUME RunAssumption ==
    /\ AskedIds \subseteq Int
    /\ MaxPublished \in Nat

VARIABLES
    queue,          \* the RsBufferQueue object
    published,      \* history: every block the source has sent, in order
    answer,         \* the last result of dequeue_block
    interval        \* the last result of get_buffer_interval

vars == <<queue, published, answer, interval>>

Init ==
    /\ queue = NewQueue
    /\ published = << >>
    /\ answer = NotFound
    /\ interval = [start |-> 0, end |-> 0]

\* A CS2SP_BLOCK message of a source that numbers its blocks from zero.
Publish(block) ==
    /\ Len(published) < MaxPublished
    /\ queue' = StoreBlock(queue, Len(published), block)
    /\ published' = Append(published, block)
    /\ UNCHANGED <<answer, interval>>

\* RsNpSpProtocol::send_one_block asks for a block.
Lookup(id) ==
    /\ answer' = LookupBlock(queue, id)
    /\ UNCHANGED <<queue, published, interval>>

\* RsSourceManager::get_source_list asks for the interval it reports.
Report ==
    /\ interval' = get_buffer_interval(queue)
    /\ UNCHANGED <<queue, published, answer>>

Next ==
    \/ \E block \in Blocks : Publish(block)
    \/ \E id \in AskedIds : Lookup(id)
    \/ Report

Spec == Init /\ [][Next]_vars

-----------------------------------------------------------------------------
(* Properties.                                                             *)

\* Type invariant: the ring's indices stay inside the ring, its counters are
\* numbers, and results have the shape their readers expect.
TypeOK ==
    /\ queue \in Queues
    /\ published \in Seq(Blocks)
    /\ answer \in [block_id : Int, buffer : Contents] \union {NotFound}
    /\ interval \in [start : Nat, end : Nat]

\* The window is the last blocks published: min_block_id and the fill level
\* that dequeue_buffer and get_buffer_interval compute from it say exactly
\* which of the published blocks are in the ring, before, at and after the
\* moment the ring fills up.
WindowIsLastBlocks ==
    /\ queue.min_block_id + curr_buf_size(queue) = Len(published)
    /\ curr_buf_size(queue) =
        IF Len(published) < BufferNumber THEN Len(published) ELSE BufferNumber

\* The two indices stay in step: until the ring is full the window starts at
\* its first buffer, from then on at the buffer that is written next.  They
\* are set by two methods, min_block_index by queue_buffer and queue_index by
\* update_buffer_attr, and the flag by a third test.
IndicesAgree ==
    IF queue.buffer_full_flag
    THEN queue.min_block_index = queue.queue_index
    ELSE queue.min_block_index = 0 /\ queue.min_block_id = 0

\* Every block id in the window is found in a buffer that was tagged with
\* that very id, that is not being written, and that holds the block the
\* source sent under it: dequeue_buffer may skip the check of the buffer it
\* returns.  It is what goes wrong if min_block_index and queue_index drift
\* apart when the ring wraps.
WindowHoldsItsBlocks ==
    \A id \in queue.min_block_id .. Len(published) - 1 :
        LET buf == dequeue_buffer(queue, id)
        IN  /\ buf.block_id = id
            /\ buf.flag = "AVAILABLE"
            /\ Holds(buf.buffer, published[id + 1])

\* The detailed queue does what BlockWindow promises: lookups find the last
\* BufferNumber blocks and nothing else, and the reported interval is the
\* interval of the blocks on offer.
Window == INSTANCE BlockWindow WITH Capacity <- BufferNumber, Buffers <- Contents

ImplementsBlockWindow == Window!Spec
====
