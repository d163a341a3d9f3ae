---- MODULE StreamService ----
(***************************************************************************)
(* What the super peer promises to the players connected to it, with no    *)
(* rings, no threads and no reads or writes.  Every channel is the         *)
(* sequence of the blocks published on it, of which the last Capacity are  *)
(* on offer, and has a media header once one was sent.  A player asks for  *)
(* blocks of one channel at a time and gets messages one by one: first of  *)
(* all, once, the header of the channel it asked for, as it is then, which *)
(* is NoHeader if none was sent for the channel so far, and then blocks it *)
(* asked for, from the channel it asked, that are on offer at the moment   *)
(* they are sent.  SuperPeer implements this.                              *)
(***************************************************************************)
EXTENDS Integers, Sequences

CONSTANTS
    Channel,        \* channels
    Player,         \* connections of players
    Header,         \* media headers
    NoHeader,       \* a channel without a header
    Capacity,       \* how many blocks of a channel are on offer
    Blocks,         \* the blocks that may be published
    Buffers,        \* what a block message may carry
    Lists,          \* the sets of block numbers players ask for
    NoChannel,      \* a player that has not asked yet
    NoMessage       \* nothing is being sent

VARIABLES
    published,      \* the blocks of each channel
    media_header,   \* the header of each channel
    request,        \* what each player asked for last
    message,        \* the message being sent to each player
    started         \* has the player been sent a header

vars == <<published, media_header, request, message, started>>

Init ==
    /\ published = [ch \in Channel |-> << >>]
    /\ media_header = [ch \in Channel |-> NoHeader]
    /\ request = [p \in Player |-> [channel |-> NoChannel, ids |-> {}]]
    /\ message = [p \in Player |-> NoMessage]
    /\ started = [p \in Player |-> FALSE]

\* The numbers of the blocks on offer; numbers start at 0, sequences at 1.
OnOffer(ch) ==
    {id \in 0 .. Len(published[ch]) - 1 : id >= Len(published[ch]) - Capacity}

\* A buffer that starts with the bytes of the block.
Carries(buffer, block) == \A u \in DOMAIN block : buffer[u] = block[u]

Publish(ch, block) ==
    /\ published' = [published EXCEPT ![ch] = Append(@, block)]
    /\ UNCHANGED <<media_header, request, message, started>>

SetHeader(ch, header) ==
    /\ media_header' = [media_header EXCEPT ![ch] = header]
    /\ UNCHANGED <<published, request, message, started>>

\* What follows for a player that asked r: the header, a block, or nothing.
Follows(p, r) ==
    /\ request' = [request EXCEPT ![p] = r]
    /\ \/ /\ ~ started[p]
          /\ message' = [message EXCEPT ![p] = [header |-> media_header[r.channel]]]
          /\ started' = [started EXCEPT ![p] = TRUE]
       \/ /\ started[p]
          /\ \E id \in r.ids \intersect OnOffer(r.channel), buffer \in Buffers :
                /\ Carries(buffer, published[r.channel][id + 1])
                /\ message' = [message EXCEPT ![p] = [block_id |-> id, buffer |-> buffer]]
          /\ UNCHANGED started
       \/ /\ message' = [message EXCEPT ![p] = NoMessage]
          /\ UNCHANGED started
    /\ UNCHANGED <<published, media_header>>

Ask(p, r) == message[p] = NoMessage /\ Follows(p, r)

Sent(p) == message[p] # NoMessage /\ Follows(p, request[p])

Next ==
    \/ \E ch \in Channel, block \in Blocks : Publish(ch, block)
    \/ \E ch \in Channel, header \in Header : SetHeader(ch, header)
    \/ \E p \in Player :
        \/ \E r \in [channel : Channel, ids : Lists] : Ask(p, r)
        \/ Sent(p)

Spec == Init /\ [][Next]_vars
====
