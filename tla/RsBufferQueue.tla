---- MODULE RsBufferQueue ----
(***************************************************************************)
(* The ring of media blocks the super peer keeps for one channel: the      *)
(* class RsBufferQueue of protocol/common/buffer_queue.{h,cpp}, as data.   *)
(* An object is a record, each method an operator from records to records  *)
(* (or to a result), so that BufferQueue can specify one object on its own *)
(* and SuperPeer can keep one per channel.                                 *)
(*                                                                         *)
(* The class takes no lock: "currently sp or tracker runs within one       *)
(* thread using st, no need to lock the resource in it".  The capture      *)
(* server's thread calls queue_buffer, copies the block and calls          *)
(* update_buffer_attr without a point where it can lose the processor, so  *)
(* StoreBlock puts the three together.                                     *)
(***************************************************************************)
EXTENDS Integers, Sequences

CONSTANTS
    BufferNumber,   \* buffers in the ring (MAX_BUFFER_SIZE, 1024)
    MediaBlockSize, \* bytes in a buffer (MEDIA_BLOCK_SIZE, 16384)
    Byte,           \* what a byte may be
    Unset,          \* a byte of a new buffer nothing has been copied to
    Blocks,         \* the blocks a source may send
    NotFound        \* dequeue_buffer's NULL

Offsets == 1 .. MediaBlockSize

\* What a buffer of MEDIA_BLOCK_SIZE bytes may contain.
Contents == [Offsets -> Byte \union {Unset}]

\* There is a ring, and every block fits a buffer.
ASSUME BufferAssumption ==
    /\ BufferNumber \in Nat \ {0}
    /\ MediaBlockSize \in Nat \ {0}
    /\ \A b \in Blocks : \E n \in Offsets : b \in [1 .. n -> Byte]

Indices == 0 .. BufferNumber - 1

Flags == {"WRITING", "AVAILABLE"}

MediaBuffers == [flag : Flags, block_id : Int, buffer : Contents]

Queues ==
    [queue_index      : Indices,
     min_block_id     : Nat,
     min_block_index  : Indices,
     buffer_full_flag : BOOLEAN,
     buffer_vector    : [Indices -> MediaBuffers]]

\* The constructor, then reserve_buffer.
NewQueue ==
    [queue_index      |-> 0,
     min_block_id     |-> 0,
     min_block_index  |-> 0,
     buffer_full_flag |-> FALSE,
     buffer_vector    |->
        [i \in Indices |->
            [flag     |-> "AVAILABLE",
             block_id |-> 0,
             buffer   |-> [u \in Offsets |-> Unset]]]]

\* Mutant: the index is not wrapped.
NextIndex_NoWrap(i) == i + 1

NextIndex(i) == (i + 1) % BufferNumber

\* Mutant: the oldest block is taken to be in the buffer being overwritten.
queue_buffer_MinBehind(q) ==
    [q EXCEPT
        !.buffer_vector[q.queue_index].flag = "WRITING",
        !.min_block_id    = IF q.buffer_full_flag THEN @ + 1 ELSE @,
        !.min_block_index = IF q.buffer_full_flag THEN q.queue_index ELSE @]

\* queue_buffer: take the buffer at queue_index; once the ring is full that
\* buffer holds the oldest block, so the window moves up by one.
queue_buffer(q) ==
    [q EXCEPT
        !.buffer_vector[q.queue_index].flag = "WRITING",
        !.min_block_id    = IF q.buffer_full_flag THEN @ + 1 ELSE @,
        !.min_block_index = IF q.buffer_full_flag
                            THEN NextIndex(q.queue_index) ELSE @]

\* The memcpy of RsCsSpProtocol::get_block: a block shorter than the buffer
\* leaves the buffer's last bytes as they were.
copy_block(q, block) ==
    [q EXCEPT !.buffer_vector[q.queue_index].buffer =
        [u \in Offsets |-> IF u \in DOMAIN block THEN block[u] ELSE @[u]]]

\* Mutant: the ring is called full one block late.
update_buffer_attr_FullLate(q, id, flag) ==
    [q EXCEPT
        !.buffer_vector[q.queue_index].block_id = id,
        !.buffer_vector[q.queue_index].flag     = flag,
        !.buffer_full_flag = @ \/ q.queue_index = BufferNumber,
        !.queue_index      = NextIndex(@)]

update_buffer_attr(q, id, flag) ==
    [q EXCEPT
        !.buffer_vector[q.queue_index].block_id = id,
        !.buffer_vector[q.queue_index].flag     = flag,
        !.buffer_full_flag = @ \/ q.queue_index + 1 = BufferNumber,
        !.queue_index      = NextIndex(@)]

curr_buf_size(q) == IF q.buffer_full_flag THEN BufferNumber ELSE q.queue_index

\* Mutant: the other reading of "TODO:confirm >= or >".
InWindow_OneMore(q, id) ==
    /\ q.min_block_id <= id
    /\ id <= q.min_block_id + curr_buf_size(q)

\* dequeue_buffer's bounds, and the index of the buffer it returns.
InWindow(q, id) ==
    /\ q.min_block_id <= id
    /\ id < q.min_block_id + curr_buf_size(q)

\* Mutant: the window is taken to start at the first buffer.
IndexOf_FromZero(q, id) == (id - q.min_block_id) % BufferNumber

IndexOf(q, id) ==
    LET offset == id - q.min_block_id
        toEnd  == BufferNumber - q.min_block_index
    IN  IF offset < toEnd THEN q.min_block_index + offset ELSE offset - toEnd

\* dequeue_buffer: neither the flag nor the block_id of the buffer is read.
dequeue_buffer(q, id) == q.buffer_vector[IndexOf(q, id)]

get_buffer_interval(q) ==
    [start |-> q.min_block_id, end |-> q.min_block_id + curr_buf_size(q)]

\* What RsSourceManager::queue_block, the copy and set_block_available make
\* of the ring for one CS2SP_BLOCK message.
StoreBlock(q, id, block) ==
    update_buffer_attr(copy_block(queue_buffer(q), block), id, "AVAILABLE")

\* RsSourceManager::dequeue_block on an existing channel: the id is the one
\* asked for, the buffer is the ring's.
LookupBlock(q, id) ==
    IF InWindow(q, id)
    THEN [block_id |-> id, buffer |-> dequeue_buffer(q, id).buffer]
    ELSE NotFound

\* A buffer that starts with the bytes of the block.
Holds(buffer, block) == \A u \in DOMAIN block : buffer[u] = block[u]
====
