---- MODULE SuperPeer ----
(***************************************************************************)
(* The super peer between capture servers and normal peers: the threads    *)
(* RsCsSpProtocol (one per capture server connection) and RsNpSpProtocol   *)
(* (one per normal peer connection) over the channels of RsSourceManager.  *)
(*                                                                         *)
(* All threads are State Threads of one process: one runs until it blocks  *)
(* in a socket call.  A thread that serves a push list blocks in           *)
(* io_socket->write, and there a capture server can overwrite the ring; so *)
(* an action here is what a thread does from the return of one blocking    *)
(* call to the next one.                                                   *)
(*                                                                         *)
(* The capture servers and the players are the environment: a capture      *)
(* server registers before it sends anything else, and the connection of a *)
(* player may end, which is noticed as a failed read.  The sockets have no *)
(* timeout: a player that vanishes without a word is one whose connection  *)
(* does not end and that does nothing more.  Framing is that of RecvBuffer.*)
(***************************************************************************)
EXTENDS RsBufferQueue, FiniteSetsExt

CONSTANTS
    Channel,        \* channel hashes
    Cs, Np,         \* capture servers, normal peer connections
    Header,         \* media headers
    NoHeader,       \* a CS2SP_REGISTER with header_size 0
    Uninitialised,  \* media_header as the constructor leaves it
    NoMessage,      \* the thread is not in write()
    NoChannel,      \* not registered, no push list yet
    RegisterHeaders,\* what registrations carry: headers, perhaps NoHeader
    PushLists,      \* the id lists players send
    IdleLimit,      \* failed reads until a connection is closed (150)
    MaxPublished,   \* bound on the blocks published on a channel
    MaxRegisters    \* bound on the registrations of a capture server

ASSUME SuperPeerAssumption ==
    /\ RegisterHeaders \subseteq Header \union {NoHeader}
    /\ PushLists \subseteq Seq(Int)
    /\ IdleLimit \in Nat \ {0}
    /\ MaxRegisters \in Nat
    /\ NoMessage \notin [header : Header \union {Uninitialised}]
                        \union [block_id : Int, buffer : Contents]

VARIABLES
    source_hashmap,     \* RsSourceManager: the rings of the channels it knows
    media_header,       \* RsSourceManager: the media header of each channel
    published,          \* history: the blocks stored on each channel, with ids
    cs,                 \* RsCsSpProtocol and its capture server
    np,                 \* RsNpSpProtocol and its player
    no_receive_counter  \* the static counter all normal peer threads share

vars == <<source_hashmap, media_header, published, cs, np, no_receive_counter>>

Created(ch) == ch \in DOMAIN source_hashmap

Available(ch, id) == Created(ch) /\ InWindow(source_hashmap[ch], id)

\* Mutant: the list is served in the order in which the player wrote it.
Sorted_AsSent(ids) == ids

Ascending(ids) == \A k, l \in DOMAIN ids : k < l => ids[k] <= ids[l]

\* std::sort: the same ids, each as often, in ascending order.
Sorted(ids) ==
    LET Arranged(f) == [k \in DOMAIN ids |-> ids[f[k]]]
    IN  Arranged(CHOOSE f \in Surjection(DOMAIN ids, DOMAIN ids) : Ascending(Arranged(f)))

Init ==
    /\ source_hashmap = << >>
    /\ media_header = [ch \in Channel |-> Uninitialised]
    /\ published = [ch \in Channel |-> << >>]
    /\ cs = [c \in Cs |-> [chnl_hash |-> NoChannel, registers |-> 0]]
    /\ np = [p \in Np |->
                [state |-> "none",          \* none, open, closed
                 peer |-> "up",             \* up, ended
                 pc |-> "fill",             \* fill, media, blocks
                 media_type_flag |-> FALSE,
                 channel |-> NoChannel,     \* the push list being served
                 block_array |-> << >>,     \* its ids not yet looked up
                 wire |-> NoMessage,        \* the message being written
                 headers |-> 0,             \* history: headers written
                 asked |-> {},              \* history: ids of the push list
                 sent |-> {}]]              \* history: those written
    /\ no_receive_counter = 0

-----------------------------------------------------------------------------
(* RsCsSpProtocol: one message per action, none of them blocks.            *)

\* create_source: a channel that exists is left as it is, ring and all.
create_source(ch) ==
    IF Created(ch)
    THEN source_hashmap
    ELSE [c \in DOMAIN source_hashmap \union {ch} |->
            IF c = ch THEN NewQueue ELSE source_hashmap[c]]

\* add_header and set_header.
add_header(ch, header) == [media_header EXCEPT ![ch] = header]

\* get_register: create the channel if there is none, keep it if there is;
\* a header in the message replaces the channel's.
CsRegister(c, ch, header) ==
    /\ cs[c].registers < MaxRegisters
    /\ source_hashmap' = create_source(ch)
    /\ media_header' =
        IF header = NoHeader THEN media_header ELSE add_header(ch, header)
    /\ cs' = [cs EXCEPT ![c] =
                [chnl_hash |-> ch, registers |-> @.registers + 1]]
    /\ UNCHANGED <<published, np, no_receive_counter>>

\* get_mediatype
CsMediaType(c, header) ==
    LET ch == cs[c].chnl_hash
    IN  /\ ch # NoChannel
        /\ media_header' = add_header(ch, header)
        /\ UNCHANGED <<source_hashmap, published, cs, np, no_receive_counter>>

\* get_block: queue_block, the copy and set_block_available.  The capture
\* servers of a channel number its blocks on, also after they registered again.
CsBlock(c, block) ==
    LET ch == cs[c].chnl_hash
        id == Len(published[ch])
    IN  /\ ch # NoChannel
        /\ Len(published[ch]) < MaxPublished
        /\ source_hashmap' =
            [source_hashmap EXCEPT ![ch] = StoreBlock(@, id, block)]
        /\ published' = [published EXCEPT
                ![ch] = Append(@, [block_id |-> id, block |-> block])]
        /\ UNCHANGED <<media_header, cs, np, no_receive_counter>>

-----------------------------------------------------------------------------
(* RsNpSpProtocol.                                                         *)

\* send_media_type up to its write, for a channel that exists: get_header
\* then succeeds, whatever the header is.
send_media_type(r, ch) ==
    [r EXCEPT !.pc = "media",
              !.wire = [header |-> media_header[ch]],
              !.headers = @ + 1]

\* send_one_block up to its write, for an id that is found.  The message is
\* packed into memory of its own before the write.
send_one_block(r, ch, id) ==
    [r EXCEPT !.pc = "blocks",
              !.wire = LookupBlock(source_hashmap[ch], id),
              !.sent = @ \union {id}]

\* Mutant: the id that was found is looked up again.
send_push_list_Again(r, ch, ids) ==
    LET found == {k \in DOMAIN ids : Available(ch, ids[k])}
        k == Min(found)
    IN  IF found = {}
        THEN [r EXCEPT !.pc = "fill", !.block_array = << >>, !.wire = NoMessage]
        ELSE [send_one_block(r, ch, ids[k]) EXCEPT
                !.block_array = SubSeq(ids, k, Len(ids))]

\* send_push_list from the point where ids are left to look up: skip those
\* that are not found, stop in the write of the first that is; when none is
\* left the thread is back in loop(), about to fill its buffer.
send_push_list(r, ch, ids) ==
    LET found == {k \in DOMAIN ids : Available(ch, ids[k])}
        k == Min(found)
    IN  IF found = {}
        THEN [r EXCEPT !.pc = "fill", !.block_array = << >>, !.wire = NoMessage]
        ELSE [send_one_block(r, ch, ids[k]) EXCEPT
                !.block_array = SubSeq(ids, k + 1, Len(ids))]

\* SpNpManager::handle_tcp_connect
NpConnect(p) ==
    /\ np[p].state = "none"
    /\ np' = [np EXCEPT ![p].state = "open"]
    /\ UNCHANGED <<source_hashmap, media_header, published, cs, no_receive_counter>>

\* The connection ends: the player closes or resets it, or TCP gives up sending
\* to it.  Reads and writes fail from now on.
PeerEnds(p) ==
    /\ np[p].state = "open"
    /\ np[p].peer = "up"
    /\ np' = [np EXCEPT ![p].peer = "ended"]
    /\ UNCHANGED <<source_hashmap, media_header, published, cs, no_receive_counter>>

\* Mutant: later push lists are served from the connection's first channel.
GetPushList_FirstChannel(p, ch, ids) ==
    /\ np[p].state = "open" /\ np[p].peer = "up" /\ np[p].pc = "fill"
    /\ LET r == [np[p] EXCEPT !.channel = ch,
                              !.asked = {ids[k] : k \in DOMAIN ids},
                              !.sent = {}]
           first == IF np[p].channel = NoChannel THEN ch ELSE np[p].channel
       IN  \/ /\ ~ r.media_type_flag /\ Created(ch)
              /\ np' = [np EXCEPT ![p] =
                    [send_media_type(r, ch) EXCEPT !.block_array = ids]]
           \/ /\ r.media_type_flag \/ ~ Created(ch)
              /\ np' = [np EXCEPT ![p] = send_push_list(r, first, Sorted(ids))]
    /\ UNCHANGED <<source_hashmap, media_header, published, cs, no_receive_counter>>

\* loop() and get_push_list: the connection's first push list of an existing
\* channel is preceded by the channel's media header.
GetPushList(p, ch, ids) ==
    /\ np[p].state = "open" /\ np[p].peer = "up" /\ np[p].pc = "fill"
    /\ LET r == [np[p] EXCEPT !.channel = ch,
                              !.asked = {ids[k] : k \in DOMAIN ids},
                              !.sent = {}]
       IN  \/ /\ ~ r.media_type_flag /\ Created(ch)
              /\ np' = [np EXCEPT ![p] =
                    [send_media_type(r, ch) EXCEPT !.block_array = ids]]
           \/ /\ r.media_type_flag \/ ~ Created(ch)
              /\ np' = [np EXCEPT ![p] = send_push_list(r, ch, Sorted(ids))]
    /\ UNCHANGED <<source_hashmap, media_header, published, cs, no_receive_counter>>

\* Mutant: the flag is left as it was.
MediaTypeWritten_NoFlag(p) ==
    /\ np[p].pc = "media"
    /\ np' = [np EXCEPT ![p] =
                send_push_list(@, @.channel, Sorted(@.block_array))]
    /\ UNCHANGED <<source_hashmap, media_header, published, cs, no_receive_counter>>

\* The write of the media header returns; its result only reaches the log.
MediaTypeWritten(p) ==
    /\ np[p].pc = "media"
    /\ np' = [np EXCEPT ![p] =
                send_push_list([@ EXCEPT !.media_type_flag = TRUE],
                          @.channel, Sorted(@.block_array))]
    /\ UNCHANGED <<source_hashmap, media_header, published, cs, no_receive_counter>>

\* The write of a block returns, sent or failed alike.
BlockWritten(p) ==
    /\ np[p].pc = "blocks"
    /\ np' = [np EXCEPT ![p] = send_push_list(@, @.channel, @.block_array)]
    /\ UNCHANGED <<source_hashmap, media_header, published, cs, no_receive_counter>>

\* Mutants: the counter is not reset; the connection is not closed.
ReadFails_NoReset(p) ==
    /\ np[p].state = "open" /\ np[p].peer = "ended" /\ np[p].pc = "fill"
    /\ no_receive_counter' = no_receive_counter + 1
    /\ np' = IF no_receive_counter + 1 = IdleLimit
             THEN [np EXCEPT ![p].state = "closed"] ELSE np
    /\ UNCHANGED <<source_hashmap, media_header, published, cs>>

ReadFails_NoClose(p) ==
    /\ np[p].state = "open" /\ np[p].peer = "ended" /\ np[p].pc = "fill"
    /\ no_receive_counter' =
        IF no_receive_counter + 1 = IdleLimit THEN 0 ELSE no_receive_counter + 1
    /\ UNCHANGED <<source_hashmap, media_header, published, cs, np>>

\* loop() of a connection whose read fails; it is the counter of all
\* connections that decides when this one is closed.
ReadFails(p) ==
    /\ np[p].state = "open" /\ np[p].peer = "ended" /\ np[p].pc = "fill"
    /\ IF no_receive_counter + 1 = IdleLimit
       THEN /\ np' = [np EXCEPT ![p].state = "closed"]
            /\ no_receive_counter' = 0
       ELSE /\ no_receive_counter' = no_receive_counter + 1
            /\ np' = np
    /\ UNCHANGED <<source_hashmap, media_header, published, cs>>

-----------------------------------------------------------------------------

CsNext(c) ==
    \/ \E ch \in Channel, header \in RegisterHeaders : CsRegister(c, ch, header)
    \/ \E header \in Header : CsMediaType(c, header)
    \/ \E block \in Blocks : CsBlock(c, block)

NpThread(p) == MediaTypeWritten(p) \/ BlockWritten(p) \/ ReadFails(p)

NpNext(p) ==
    \/ NpConnect(p)
    \/ PeerEnds(p)
    \/ \E ch \in Channel, ids \in PushLists : GetPushList(p, ch, ids)
    \/ NpThread(p)

Next == (\E c \in Cs : CsNext(c)) \/ (\E p \in Np : NpNext(p))

Spec == Init /\ [][Next]_vars

\* The scheduler of State Threads runs every thread that is ready.  A read is
\* ready when there is data or the connection has ended, not otherwise.  That a
\* write returns is up to the network: the sockets have no send timeout.
Fairness == \A p \in Np : WF_vars(NpThread(p))

FairSpec == Spec /\ Fairness

-----------------------------------------------------------------------------
(* Properties.                                                             *)

Message == [header : Header \union {Uninitialised}]
             \union [block_id : Int, buffer : Contents]
             \union {NoMessage}

Threads ==
    [state : {"none", "open", "closed"}, peer : {"up", "ended"},
     pc : {"fill", "media", "blocks"}, media_type_flag : BOOLEAN,
     channel : Channel \union {NoChannel}, block_array : Seq(Int),
     wire : Message, headers : Nat, asked : SUBSET Int, sent : SUBSET Int]

\* Type invariant.
TypeOK ==
    /\ \E created \in SUBSET Channel : source_hashmap \in [created -> Queues]
    /\ media_header \in [Channel -> Header \union {Uninitialised}]
    /\ published \in [Channel -> Seq([block_id : Nat, block : Blocks])]
    /\ cs \in [Cs -> [chnl_hash : Channel \union {NoChannel},
                      registers : 0 .. MaxRegisters]]
    /\ np \in [Np -> Threads]
    /\ no_receive_counter \in 0 .. IdleLimit - 1

\* A block on its way to a player is the block that some capture server sent
\* on that channel under the id the player asked for, however often the ring
\* wraps between the push list and the write, or during the write.
ServedBlockIsTheOneAsked ==
    \A p \in Np : np[p].pc = "blocks" =>
        \E k \in DOMAIN published[np[p].channel] :
            LET sent == published[np[p].channel][k]
            IN  /\ sent.block_id = np[p].wire.block_id
                /\ Holds(np[p].wire.buffer, sent.block)

\* A player gets one media header on a connection, and gets it before any
\* block: also when its first push lists ask for channels that do not exist
\* yet, and when the channel appears while it waits.
OneHeaderBeforeBlocks ==
    \A p \in Np :
        /\ np[p].headers <= 1
        /\ np[p].pc = "blocks" => np[p].headers = 1

Service == INSTANCE StreamService
    WITH Player <- Np, NoHeader <- Uninitialised, Capacity <- BufferNumber,
         Buffers <- Contents, Lists <- {{ids[k] : k \in DOMAIN ids} : ids \in PushLists},
         published <- [ch \in Channel |->
                        [k \in DOMAIN published[ch] |-> published[ch][k].block]],
         request <- [p \in Np |-> [channel |-> np[p].channel, ids |-> np[p].asked]],
         message <- [p \in Np |-> np[p].wire],
         started <- [p \in Np |-> np[p].headers > 0]

\* Rings that are overwritten while threads wait in write(), headers that are
\* set after the channel is made and flags that are set after the write: a
\* player sees nothing of it.  It gets the header of the channel it asked for, as
\* it is then, and then blocks of its last list, from the channel
\* of that list, each still on offer when its write began.
ImplementsStreamService == Service!Spec

\* When a push list is done, every id in it was sent or is not in the window
\* any more, or not yet: no block that a player asked for and that the channel
\* holds is passed over, although the window moves at every write.
ListFullyServed ==
    [][\A p \in Np :
        (np[p].pc # "fill" /\ np'[p].pc = "fill") =>
            \A id \in np[p].asked :
                id \in np'[p].sent \/ ~ Available(np[p].channel, id)']_vars

\* A thread that serves a push list comes back to its socket.
PushListsEnd == \A p \in Np : np[p].pc # "fill" ~> np[p].pc = "fill"

\* Every connection that ended is closed, although all of them count their
\* failures on one counter that only one of them sees at the limit.
EndedConnectionsAreClosed ==
    \A p \in Np :
        (np[p].state = "open" /\ np[p].peer = "ended") ~> np[p].state = "closed"
====
