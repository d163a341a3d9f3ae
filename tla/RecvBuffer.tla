---- MODULE RecvBuffer ----
(***************************************************************************)
(* How a super peer connection cuts its TCP stream into messages: RsBuffer *)
(* of core/buffer.cpp and the reading half of RsCsSpProtocol::loop and     *)
(* RsNpSpProtocol::loop, which is the same code twice.                     *)
(*                                                                         *)
(* A message starts with its total size in a field of FieldSize bytes.     *)
(* Bytes of the stream are numbered from 1 and stand for themselves, so a  *)
(* cell of the buffer holds the number of a byte, or 0 before anything is  *)
(* read into it.  Pointers are offsets from the start of the buffer.       *)
(***************************************************************************)
EXTENDS Integers, Sequences

CONSTANTS
    FieldSize,      \* bytes of the size field (4)
    DefaultSize,    \* DEFAULT_RECV_BUFFER_SIZE (131072)
    MaxSize,        \* MAX_SOCKET_BUFFER (262144)
    Streams         \* what peers send: where each message ends

\* The number of the last byte of message m of a stream.
EndOf(s, m) == IF m = 0 THEN 0 ELSE s[m]

\* A message has a size field and a type; its rest fits the largest buffer.
IsStream(s) ==
    /\ s \in Seq(Nat)
    /\ \A m \in DOMAIN s :
        EndOf(s, m) - EndOf(s, m - 1) \in FieldSize + 1 .. FieldSize + MaxSize

ASSUME RecvBufferAssumption ==
    /\ FieldSize \in Nat \ {0}
    /\ DefaultSize \in Nat /\ MaxSize \in Nat
    /\ FieldSize <= DefaultSize /\ DefaultSize <= MaxSize
    /\ \A s \in Streams : IsStream(s)

VARIABLES
    messages,       \* the messages of this connection
    received,       \* bytes taken from the socket so far
    buffer_size, curr_ptr, end_ptr, \* the fields of RsBuffer
    cells,          \* what the buffer holds
    pc,             \* where the thread is
    free_space,     \* fill_buffer's local while it is in read()
    msg_size,       \* loop()'s local
    closed,         \* has the peer's close or reset reached the socket
    fill_failed,    \* history: has fill_buffer failed for the current message
    split,          \* history: did a read end just behind the size field of
                    \* the current message
    handled         \* history: what was given to the message handlers

vars == <<messages, received, buffer_size, curr_ptr, end_ptr, cells, pc,
          free_space, msg_size, closed, fill_failed, split, handled>>

buffer == <<buffer_size, curr_ptr, end_ptr, cells>>

LastByte(m) == EndOf(messages, m)

FirstByte(m) == LastByte(m - 1) + 1

\* What the size field of message m says.
Size(m) == LastByte(m) - LastByte(m - 1)

\* The bytes of the stream.
Total == LastByte(Len(messages))

Current == Len(handled) + 1

Init ==
    /\ messages \in Streams
    /\ received = 0
    /\ buffer_size = DefaultSize
    /\ curr_ptr = 0 /\ end_ptr = 0
    /\ cells = [i \in 0 .. MaxSize - 1 |-> 0]
    /\ pc = "fill field"
    /\ free_space = 0
    /\ msg_size = 0
    /\ closed = FALSE
    /\ fill_failed = FALSE
    /\ split = FALSE
    /\ handled = << >>

-----------------------------------------------------------------------------
(* RsBuffer                                                                *)

\* set_buffer, when fill_buffer calls it: only ever larger, silently not
\* beyond the limit.
set_buffer(size) == IF size > MaxSize THEN buffer_size ELSE size

\* The size of the buffer when fill_buffer(io, size) starts to read.
Enlarged(size) == IF buffer_size < size THEN set_buffer(size) ELSE buffer_size

\* Mutant: the bytes moved to the front are not taken off the free space.
MakeRoom_AllFree(size) ==
    LET exists == end_ptr - curr_ptr
        newSize == Enlarged(size)
        free == newSize - end_ptr
    IN  /\ exists < size
        /\ buffer_size' = newSize
        /\ \/ /\ exists = 0 \/ free < size
              /\ cells' = [i \in DOMAIN cells |->
                            IF i < exists THEN cells[curr_ptr + i] ELSE cells[i]]
              /\ curr_ptr' = 0 /\ end_ptr' = exists
              /\ free_space' = newSize
           \/ /\ exists # 0 /\ free >= size
              /\ free_space' = free
              /\ UNCHANGED <<curr_ptr, end_ptr, cells>>

\* Mutant: the bytes that are there are not moved to the front.
MakeRoom_NotMoved(size) ==
    LET exists == end_ptr - curr_ptr
        newSize == Enlarged(size)
        free == newSize - end_ptr
    IN  /\ exists < size
        /\ buffer_size' = newSize
        /\ \/ /\ exists = 0 \/ free < size
              /\ curr_ptr' = 0 /\ end_ptr' = exists
              /\ free_space' = IF exists = 0 THEN free ELSE newSize - exists
           \/ /\ exists # 0 /\ free >= size
              /\ free_space' = free
              /\ UNCHANGED <<curr_ptr, end_ptr>>
        /\ UNCHANGED cells

\* fill_buffer up to its loop, when it has to read: make room.  The free
\* space is computed before the pointers of an empty buffer are reset, and
\* not again after.
MakeRoom(size) ==
    LET exists == end_ptr - curr_ptr
        newSize == Enlarged(size)
        free == newSize - end_ptr
    IN  /\ exists < size
        /\ buffer_size' = newSize
        /\ \/ /\ exists = 0
              /\ curr_ptr' = 0 /\ end_ptr' = 0
              /\ free_space' = free
              /\ UNCHANGED cells
           \/ /\ exists > 0 /\ free < size
              /\ cells' = [i \in DOMAIN cells |->
                            IF i < exists THEN cells[curr_ptr + i] ELSE cells[i]]
              /\ curr_ptr' = 0 /\ end_ptr' = exists
              /\ free_space' = newSize - exists
           \/ /\ exists # 0 /\ free >= size
              /\ free_space' = free
              /\ UNCHANGED <<curr_ptr, end_ptr, cells>>

\* fill_buffer with curr_ptr past end_ptr and too little room behind them:
\* the number of bytes to move is negative, which memmove takes for a size_t.
MoveCrashes(size) ==
    /\ end_ptr < curr_ptr
    /\ Enlarged(size) - end_ptr < size

\* Mutant: read() is asked for more than there is room for.
Receive_Unbounded(n) ==
    /\ ~ closed
    /\ n <= Total - received
    /\ cells' = [i \in DOMAIN cells |->
                    IF i \in end_ptr .. end_ptr + n - 1
                    THEN received + 1 + (i - end_ptr) ELSE cells[i]]
    /\ received' = received + n
    /\ end_ptr' = end_ptr + n
    /\ free_space' = free_space - n
    /\ split' = (split \/ received' = LastByte(Len(handled)) + FieldSize)
    /\ UNCHANGED <<messages, buffer_size, curr_ptr, msg_size, handled>>

\* io->read returns n bytes: all that fits, or what has come by then.
Receive(n) ==
    /\ ~ closed
    /\ free_space > 0
    /\ n <= free_space
    /\ n <= Total - received
    /\ cells' = [i \in DOMAIN cells |->
                    IF i \in end_ptr .. end_ptr + n - 1
                    THEN received + 1 + (i - end_ptr) ELSE cells[i]]
    /\ received' = received + n
    /\ end_ptr' = end_ptr + n
    /\ free_space' = free_space - n
    /\ split' = (split \/ received' = LastByte(Len(handled)) + FieldSize)
    /\ UNCHANGED <<messages, buffer_size, curr_ptr, msg_size, handled>>

\* The connection ends: the peer closes or resets it, or the kernel gives it
\* up.  What the program had not read by then does not come any more; what it
\* reads before it notices comes before this step.
Close ==
    /\ ~ closed
    /\ closed' = TRUE
    /\ UNCHANGED <<messages, received, buffer, pc, free_space, msg_size,
                   fill_failed, split, handled>>

\* Mutant: a read gives up after a while, as one with a receive timeout does.
ReadFails_Timeout == TRUE

\* io->read fails on a connection that has ended.  With no room it asks for 0
\* bytes, gets 0 and takes that for the end, too.
ReadFails == closed \/ free_space = 0

-----------------------------------------------------------------------------
(* loop()                                                                  *)

\* fill_buffer(io, size), from the call to its first read, to its return, or to
\* the end of the program.
CallFill(size, reading, filled) ==
    /\ \/ /\ end_ptr - curr_ptr >= size
          /\ pc' = filled
          /\ UNCHANGED <<buffer, free_space>>
       \/ /\ MakeRoom(size)
          /\ pc' = reading
       \/ /\ MoveCrashes(size)
          /\ pc' = "crashed"
          /\ UNCHANGED <<buffer, free_space>>
    /\ UNCHANGED <<messages, received, msg_size, closed, fill_failed, split,
                   handled>>

\* A read of fill_buffer(io, size) returns bytes.
Read(size, reading, filled, n) ==
    /\ pc = reading
    /\ Receive(n)
    /\ pc' = IF end_ptr' - curr_ptr >= size THEN filled ELSE reading
    /\ UNCHANGED <<closed, fill_failed>>

FillField == pc = "fill field" /\ CallFill(FieldSize, "read field", "decode")

ReadField(n) == Read(FieldSize, "read field", "decode", n)

\* loop() returns the error, and the thread calls it again.
ReadFieldFails ==
    /\ pc = "read field"
    /\ ReadFails
    /\ pc' = "fill field"
    /\ UNCHANGED <<messages, received, buffer, free_space, msg_size,
                   closed, fill_failed, split, handled>>

\* The message whose size field is at curr_ptr.
MessageAt == CHOOSE m \in DOMAIN messages : cells[curr_ptr] = FirstByte(m)

\* read_nbytes(4): take the size of the message.
Decode ==
    /\ pc = "decode"
    /\ msg_size' = Size(MessageAt)
    /\ curr_ptr' = curr_ptr + FieldSize
    /\ pc' = "fill body"
    /\ fill_failed' = FALSE
    /\ UNCHANGED <<messages, received, buffer_size, end_ptr, cells, free_space,
                   closed, split, handled>>

BodySize == msg_size - FieldSize

FillBody == pc = "fill body" /\ CallFill(BodySize, "read body", "dispatch")

\* Mutant: one byte less than the message has is enough.
ReadBody_OneLess(n) == Read(BodySize - 1, "read body", "dispatch", n)

ReadBody(n) == Read(BodySize, "read body", "dispatch", n)

\* The result of this fill_buffer is not looked at.
ReadBodyFails ==
    /\ pc = "read body"
    /\ ReadFails
    /\ pc' = "dispatch"
    /\ fill_failed' = TRUE
    /\ UNCHANGED <<messages, received, buffer, free_space, msg_size, closed,
                   split, handled>>

\* Mutant: a message that was cut short is skipped only as far as it came.
Dispatch_OnlyReceived ==
    /\ pc = "dispatch"
    /\ curr_ptr' = IF fill_failed THEN end_ptr ELSE curr_ptr + BodySize
    /\ handled' = Append(handled,
                         [i \in 1 .. BodySize |-> cells[curr_ptr + i - 1]])
    /\ pc' = "fill field"
    /\ split' = (received = LastByte(Current) + FieldSize)
    /\ UNCHANGED <<messages, received, buffer_size, end_ptr, cells, free_space,
                   msg_size, closed, fill_failed>>

\* read_nbytes(msg_size - 4), then the handler of the message's type.
Dispatch ==
    /\ pc = "dispatch"
    /\ curr_ptr' = curr_ptr + BodySize
    /\ handled' = Append(handled,
                         [i \in 1 .. BodySize |-> cells[curr_ptr + i - 1]])
    /\ pc' = "fill field"
    /\ split' = (received = LastByte(Current) + FieldSize)
    /\ UNCHANGED <<messages, received, buffer_size, end_ptr, cells, free_space,
                   msg_size, closed, fill_failed>>

Bytes == 1 .. MaxSize

Thread ==
    \/ FillField \/ ReadFieldFails \/ Decode
    \/ FillBody \/ ReadBodyFails \/ Dispatch
    \/ \E n \in Bytes : ReadField(n) \/ ReadBody(n)

Next == Thread \/ Close

Spec == Init /\ [][Next]_vars

\* The thread runs when it is ready, and bytes that were sent arrive unless
\* the connection ends, which it need not.
FairSpec == Spec /\ WF_vars(Thread)

-----------------------------------------------------------------------------
(* Properties.                                                             *)

\* Type invariant.
TypeOK ==
    /\ messages \in Streams
    /\ received \in 0 .. Total
    /\ buffer_size \in DefaultSize .. MaxSize
    /\ curr_ptr \in Nat /\ end_ptr \in Nat
    /\ cells \in [0 .. MaxSize - 1 -> 0 .. Total]
    /\ pc \in {"fill field", "read field", "decode",
               "fill body", "read body", "dispatch", "crashed"}
    /\ free_space \in 0 .. MaxSize
    /\ msg_size \in Nat
    /\ closed \in BOOLEAN
    /\ fill_failed \in BOOLEAN
    /\ split \in BOOLEAN
    /\ handled \in Seq(Seq(0 .. Total))

\* read() is never given more room than the buffer has.
ReadStaysInBuffer ==
    pc \in {"read field", "read body"} => end_ptr + free_space <= buffer_size

\* While the connection lasts, the program never moves a negative number of
\* bytes: a message that was given up for lack of room leaves behind it the
\* room that the next size field needs.  On a connection that ended half-way
\* through a message fill_buffer may crash.
CrashesOnlyWhenClosed == pc = "crashed" => closed

\* The size of every message is read from the place in the buffer where that
\* message's size field is, whole: the thread is never out of step with the
\* stream, not even after it gave up filling a message and moved curr_ptr
\* past end_ptr, because the missing bytes then fill the gap.
InStepWithStream ==
    pc = "decode" =>
        \A i \in 0 .. FieldSize - 1 :
            cells[curr_ptr + i] = FirstByte(Len(handled) + 1) + i

\* A message that fill_buffer reported as filled is handled with the bytes
\* the peer sent, wherever they came to lie and were moved to.
FilledMessageIsWhole ==
    (pc = "dispatch" /\ ~ fill_failed) =>
        \A i \in 0 .. BodySize - 1 :
            cells[curr_ptr + i] = FirstByte(Len(handled) + 1) + FieldSize + i

\* What was sent as the body of message m.
Body(m) == [i \in 1 .. Size(m) - FieldSize |-> FirstByte(m) + FieldSize + i - 1]

HandedOver ==
    [m \in DOMAIN handled |->
        [size |-> Len(handled[m]), whole |-> handled[m] = Body(m)]]

Stream == INSTANCE MessageStream WITH handed <- HandedOver

\* RsBuffer and loop() implement a stream of messages: however the bytes come
\* and are moved about, the handlers get the messages one after the other, all
\* that come, each as it was sent unless the connection ended before its last
\* byte came, or a read ended just behind its size field and the emptied buffer
\* then offered too little room for the rest.
ImplementsMessageStream == Stream!Spec
====
