---- MODULE BlockWindow ----
(***************************************************************************)
(* What a channel of the super peer promises to those who read it, with no *)
(* ring, no indices and no slots: the source publishes blocks, numbered    *)
(* from zero in the order in which they come; the last Capacity of them    *)
(* can be looked up by number, older and future ones cannot; and the       *)
(* interval of the numbers on offer can be asked for.  BufferQueue is the  *)
(* detailed specification that implements this one.                        *)
(*                                                                         *)
(* A block is a sequence of bytes.  What a lookup returns is a whole       *)
(* buffer, of which the block is a prefix: the promise says nothing about  *)
(* the rest of the buffer (see BufferQueue for why).                       *)
(***************************************************************************)
EXTENDS Integers, Sequences

CONSTANTS
    Capacity,       \* how many blocks a channel keeps
    Blocks,         \* the blocks a source may publish
    Buffers,        \* the contents a buffer may have
    AskedIds,       \* the block numbers readers ask for
    NotFound,       \* the answer to a lookup that fails
    MaxPublished    \* bound on the number of blocks published

VARIABLES
    published,      \* every block published so far, in order
    answer,         \* the answer to the last lookup
    interval        \* the last interval reported

vars == <<published, answer, interval>>

\* A buffer that starts with the bytes of the block.
Holds(buffer, block) == \A u \in DOMAIN block : buffer[u] = block[u]

\* The block with number id (numbers start at 0, sequences at 1).
Block(id) == published[id + 1]

First == IF Len(published) > Capacity THEN Len(published) - Capacity ELSE 0

OnOffer == First .. Len(published) - 1

Init ==
    /\ published = << >>
    /\ answer = NotFound
    /\ interval = [start |-> 0, end |-> 0]

Publish(block) ==
    /\ Len(published) < MaxPublished
    /\ published' = Append(published, block)
    /\ UNCHANGED <<answer, interval>>

Lookup(id) ==
    /\ \/ /\ id \notin OnOffer
          /\ answer' = NotFound
       \/ /\ id \in OnOffer
          /\ \E buffer \in Buffers :
                /\ Holds(buffer, Block(id))
                /\ answer' = [block_id |-> id, buffer |-> buffer]
    /\ UNCHANGED <<published, interval>>

Report ==
    /\ interval' = [start |-> First, end |-> Len(published)]
    /\ UNCHANGED <<published, answer>>

Next ==
    \/ \E block \in Blocks : Publish(block)
    \/ \E id \in AskedIds : Lookup(id)
    \/ Report

Spec == Init /\ [][Next]_vars
====
