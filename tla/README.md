# A verification of rabbitstreamer in TLA+

rabbitstreamer is a peer-to-peer live streaming system.  A *capture server* (CS)
sends a channel's media blocks to a *super peer* (SP); *normal peers* (NP, the
players) fetch blocks from the super peer and from each other; a *tracker* (TS)
knows which super peers and players have which blocks and introduces players to
sources.  The repository holds the two servers: the super peer
(`app/sp/superpeer_server.cpp`) and the tracker (`app/tracker/tracker_server.cpp`).
Both are single-process programs whose threads are State Threads: a thread runs
until it blocks in an `st_` call, so every interleaving happens at a socket call
or a sleep.

## Inventory

| component | state | operations | talks to |
|---|---|---|---|
| `RsBufferQueue` (protocol/common) | a ring of 1024 media buffers, its indices and the smallest id on offer, the media header | store a block, look one up by id, report the interval | called by the channel table |
| `RsSourceManager` (protocol/sp) | channel hash -> ring | create, queue, dequeue, header, list | capture servers, players, tracker client |
| `RsCsSpProtocol` (protocol/sp) | a receive buffer, the channel hash | register, media type, block | channel table |
| `RsNpSpProtocol` (protocol/sp) | a receive buffer, "header sent" flag; a counter shared by all connections | serve push lists; close when reads keep failing | channel table |
| `RsBuffer` (core) | bytes, read and write pointer, size | fill with n bytes, take n bytes | sockets |
| `RsSpTrackerProtocol` (protocol/sp) | uuid given by the tracker, registered flag, timers | register, report resources, ask for super peers | tracker over UDP |
| `RsSpTracker`, `RsTrackerStreamManager` (protocol/tracker) | super peers and channels known | register, resource list, status, super peer list | SP over UDP; NP side of the tracker |
| `RsNpTracker`, `RsTrackerNpCoordinator` (protocol/tracker) | players, the blocks each reported | login, request resource, report, need peers, interval, logout | NP over UDP |
| `IntervalArray` (core) | sorted disjoint intervals of block ids | add, delete, find | tracker |
| messages and streamer (core) | none | parse and pack | every protocol class |
| `RsThread` (core) | `tid`, `_cid`, `can_run`, `loop_flag` | start a thread, run its loop | every object that has a thread |
| `RsTimer`, `SystemTime` (core) | the list of timers, when each was signalled last; the cached time | add, check; move the time | tracker client; main |
| listeners (core), managers and `main` (app) | sockets, the objects they own | listen, accept, receive; make objects in order | protocol classes |
| logger, bitrate, hash, resource, md5, debug helpers | | | not part of the protocol |

The hard behaviours are listed, each at its line, in `PROJECT.json` under `hazards`.

Every interleaving of the models is one of State Threads: an action runs from one
point at which the thread may be put off (a socket read or write, a sleep) to the
next.  Where the code keeps using what it looked up before such a point, the model
has the two halves as two actions.

## Plan

Modules are written in the order in which a mistake in them hurts a viewer.

| | modules | composed of | state |
|---|---|---|---|
| 1 | `RsBufferQueue`, `BufferQueue`, `BlockWindow` | `BufferQueue` implements `BlockWindow` | checked, all of it proved |
| 2 | `SuperPeer` | `RsBufferQueue` (one ring per channel) with its writers and readers | checked; all but liveness proved |
| 3 | `RecvBuffer` | the byte stream below every connection of `SuperPeer` | checked; all but liveness proved |
| 4 | `TrackerStreamManager`, `SpTracker` | the channel map with the tracker clients and the network | checked; all but liveness proved |
| 5 | `IntervalArray` | block sets, used by the tracker | checked, all of it proved |
| 6 | `NpTracker` | players and the search for peers | checked, all of it proved |
| 7 | `Messages` | what a sender packs and a receiver parses | checked |
| 8 | `MessageStream`, `StreamService` | `RecvBuffer` implements the one, `SuperPeer` the other | checked; the safety of both proved |
| 9 | `Thread`, `Server` | the threads, timers, listeners and managers of both programs, below the other modules | checked; all but liveness proved |

Abstract specifications: `BlockWindow` (a ring is a window of the last blocks),
`MessageStream` (a connection is a sequence of messages) and `StreamService` (a super
peer is a window per channel and a header, then blocks, per player).

Theorems left: `PacketIsFull` and `Arrives` of `Messages`, for lists of any length.  The
liveness properties are out of the provers' reach.

## Models and code

**`RsBufferQueue`** holds the ring as pure operators.  A ring is a record with the
object's fields: `buffer_vector`, `queue_index`, `min_block_id`,
`min_block_index`, `buffer_full_flag`.  `StoreBlock` is what a block
from the capture server does to it: `queue_buffer` takes the next buffer,
`copy_block` copies into it without clearing what the last block left behind, and
`update_buffer_attr` puts it on offer.  `LookupBlock` is the test of the window
(`InWindow`) and `dequeue_buffer`.

**`BufferQueue`** is one ring with one writer.  `Publish`, `Lookup` and `Report` are
the three things the rest of the super peer does with a ring; `published` is the
history of blocks stored.

**`BlockWindow`** is what a ring promises, without buffers or indices: the blocks
on offer are the last `Capacity` published, a lookup gives the block with that id
or nothing, a report names the first and last id on offer.

**`SuperPeer`** has a ring per channel (`source_hashmap`), the media headers, the
capture servers, the connections of players (`np`, each with the program counter of
its thread) and `no_receive_counter`, which all connections share.  `CsRegister`,
`CsMediaType` and `CsBlock` are the three cases of the capture server's `do_cycle`.
`GetPushList` is a push list received, up to its first write; `MediaTypeWritten` and
`BlockWritten` go from the end of one write to the next.  `PeerEnds` is the end of a
connection, by a close, a reset or the kernel; `ReadFails` is a read after it, which counts
and, at the limit, closes.  A player that vanishes without a word is one whose connection
does not end: its thread waits in a read that has no timeout.

**`StreamService`** is what the super peer promises to its players: no rings, threads or
counters, only what is published, what each player asked for and the message on its way
to it.  A player is sent the header its channel has at that moment; a channel registered
without a header has none yet (`NoHeader`), and such a player gets none later either.  The
refinement takes a thread's `wire` for that message; the ring, what is left
of a list, `media_type_flag` and the life of the connection are not seen.

**`RecvBuffer`** has one connection: a stream of messages, given by the bytes at which
they end, what of it has arrived, and the buffer with its two pointers.  A byte is its
number in the stream.  `FillField`/`ReadField` and
`FillBody`/`ReadBody` are the two calls of `fill_buffer`, with the point in between
at which a read waits; `MakeRoom` is the growing and moving; `free_space` is the
value computed before the buffer is moved and used after.  `Decode` and `Dispatch`
take the length field and the message.  `Close` is the end of the connection, at any byte;
after it, and when a read has no room, `ReadFails`, and what that does to a body is not
looked at (`ReadBodyFails`).  `MoveCrashes` is the `memmove` of a negative size that
`fill_buffer` may come to with `curr_ptr` past `end_ptr`; the thread is `"crashed"` then.

**`MessageStream`** is what such a connection promises to its handlers: the messages
one after the other, each with the length it was sent with; one whose bytes were all
taken from the socket is whole.  One may be cut short (`HandleCut`) only when the
connection has ended (`closed`), or when a read ended just behind its size field
(`split`), so that the rest was read into a buffer just emptied.  The
refinement maps each body handed over to its length and to whether it is what the peer
sent.

**`Thread`** has `RsThread` as operators on a record of its fields: `thread_create` and
`let_run` are `start_thread` up to its wait for `_cid` and after it, `enter_loop` and
`begin_loop` are `thread_loop` up to and after its wait for `can_run`.  The constructor
does not set `can_run`, so a new thread has it `"unset"` and reads either value.

**`Server`** has the processes around the other modules: `SuperPeerMain` and
`TrackerMain` are `main` with the managers it calls, from one wait in `start_thread` to
the next.  Anything that may fail on the way may fail: main then passes over the thread
of that object, because nobody looks at what `start_listener` and `start_connect`
return.  `Accept` and `Accepted` are the two halves of `handle_tcp_connect`, which waits
in `start_thread` too; `HandleUdpPacket` is the listener of the tracker; `CheckTimeout`
is a round of the timer thread up to a handler that waits, `HandlerReturns` goes on from
there; `Tick` is main's loop, which alone moves the time the timers read.  `early`
remembers the threads that went on because `can_run` happened to be true.

**`TrackerStreamManager`** has the tracker's map from uuid to super peer as pure
operators.  **`SpTracker`** has super peers, tracker and a network that loses, doubles
and reorders packets.  `TimeoutRegister`, `TimeoutResList` and `TimeoutSpList` are the
timers of the client, `GetWelcome` its handler; `GetRegister`, `GetResList` and
`SpListAnswer` the tracker's.  `ReseedByPlayer` is the `srand(time)` of
`get_cp_address`, `Tick` the clock, `TrackerRestarts` a new process with an empty
map and a generator nobody has seeded.  A uuid is the pair of the seed and the
number of draws since: equal exactly when the two sequences of `rand()` are.

**`IntervalArray`** is the class as operators on a sequence of intervals with
arithmetic modulo `UINT_MAX + 1`.  Its actions apply the operations that change an
array; the operations that only read are compared with sets of numbers.  `AddInterval` and
`DelInterval` call themselves, always as the last thing they do.  So a call has two
alternatives, defined apart: it takes the place of the next call (`AddsAgain`, `NextAdd`) or
returns (`AddReturns`), and `Added` is the recursive function of the two.  An array of
`MaxValidSize` intervals (0xffff in the code) is full: `SafeInsert` leaves it as it is.  The
copy constructor makes an equal array and `CopyIntervalArray` sorts the array there and back,
which no property could tell from doing nothing; nothing in the repository calls them.

**`NpTracker`** has the tracker's nodes, the search of `get_np_address` and players
on a network as above.  `GetLogin`, `GetReqRes`, `GetNeedPeers`, `GetReport` and
`GetLogout` are the five handlers.  The search draws groups at random; each
`SearchRound` is one turn of its outer loop, with every draw possible, and
`SendPeers` is the answer.  The array it fills, `pPeerInfo`, is the set of nodes in it and
`index`, the number of its entries, in which a node that was found twice counts twice.  (The rounds are separate actions to keep the
nondeterminism apart; while a search runs no other action of the tracker does.)
`rand` is the generator: the uuids it gave since its last new seed, and how many of them
since it was last seeded.  `SendPeers` seeds it, as `get_cp_address` does, with a new second or with the
same one again (`Seeds`); in the second case the next logins draw the uuids that were drawn
before, and `insert_Node` overwrites a node.  `given` remembers to which players a uuid
went; `DrawForOther` is a draw that makes no node.  Whether `get_sp_address` finds a
super peer is left open (`MayAnswer`).

**`Messages`** takes a message from the sender's object to the receiver's: the
reserved size, each field written in order (`Write`), the size field set (`Send`),
the class chosen by the type byte (`Dispatch`), each field read (`Read`).  A
class is a table: what `reserve_pack_size`, `pack` and `parse` do, in the order and
with the widths they use.

## Runs

| run | asks | bounds, and why they are enough | distinct states |
|---|---|---|---|
| `ring` | does a ring implement the window | 3 buffers and 6 blocks: the ring turns twice, so the case "full", the wrap of either index and the wrap of both happen; blocks of one and of two bytes, so what an earlier block left behind shows | 47,020 |
| `superpeer` | does a player get the blocks and headers of its channel, each the one asked for, once, while they are overwritten | 2 players, 2 channels, rings of 2, 3 blocks (the ring wraps), 2 registrations (a second one with a ring in use), each with a header or without, a push list out of order with a repeat, failure limit 2; players and channels are symmetric | 1,531,188 |
| `superpeer_live` | does every push list end, is every connection that ended closed | 3 players, so that two can share the counter while a third resets it; one channel, one block of content | 48,651 |
| `recv_buffer` | does a connection stay in step with its stream, and implement a sequence of messages | every sequence of 3 messages of sizes 3, 5, 8 and 12 arriving in every way; a buffer of 8 that may grow to 12: messages that fit, fill and need growth; the connection may end after any byte | 82,234 |
| `sp_tracker` | are the super peers the tracker offers real | 2 super peers, 1 restart, 1 reseed, packets lost, doubled, reordered | 217,286 |
| `sp_tracker_live` | is every channel announced in the end | 1 super peer, 2 channels, the clock moves once | 149,508 |
| `sp_tracker_uuid` | violation: two super peers with one uuid | 2 reseeds in one second | |
| `interval_array` | do the operations on intervals agree with sets of numbers | numbers 0..7, so several disjoint intervals and every way an interval can touch, overlap or swallow others; at most 3 intervals, so that arrays get full; every array that additions and deletions lead to, with every array that two additions lead to | 256 |
| `np_tracker` | are the peers offered to a player ones that have the block, does only a new login bring a node back | 2 players of which one changes its channel, 2 channels, one block, 2 uuids, groups of 2, answers of two peers: logins come twice, uuids come again, two players share one, a search of two groups finds a node twice | 669,304 |
| `messages` | does what is packed fit, is it what is parsed, and what the protocol describes | every class that is packed, every length of lists up to 3, so none, one and several, and lists of different lengths | 1,489 |
| `messages_peers` | violation: peers left out of an answer | lists up to 2 | |
| `servers` | is nothing called before it exists, does every thread start, do timers fire when due | both programs, one player and one capture server (connections do not act on each other), timers of 1 and 2 rounds of main, rounds of 1 or 2: the timers are due apart and together | 28,275 |

Every bound is a constant of its module (`MaxPublished`, `MaxRegisters`,
`IdleLimit`, `MaxTime`, `MaxReseeds`, `MaxRestarts`, `MaxBlock`, `MaxUuid`,
`MaxSize`, `MaxCount`, `MaxDelay`) given in the `.cfg`.  `IdleLimit`, `BufferNumber`, `GroupSize`,
`UINT_MAX` and `MaxValidSize` are constants of the code, made small.  Where a run does not check for
deadlock the system may stop because a bound is used up.

### What the properties say

* `WindowIsLastBlocks`, `IndicesAgree`, `WindowHoldsItsBlocks`: the ids on offer are
  those of the last blocks, the two indices name the same buffers, and each buffer on
  offer holds the block of its id.  `ImplementsBlockWindow` is the refinement.
* `ServedBlockIsTheOneAsked`: a block written to a player has the id asked for and the
  content published under it, although writes let the capture server run.
  `OneHeaderBeforeBlocks`: a player gets the media header exactly once, before the
  first block.  `ImplementsStreamService` is the refinement: the header is the one
  the channel of the list has then, each block is on offer when its write begins.  `ListFullyServed`: a list is finished only
  when each available block of it was sent.  `PushListsEnd`,
  `EndedConnectionsAreClosed`: liveness, in spite of the shared counter.
* `ReadStaysInBuffer`: no read writes past the buffer.  `InStepWithStream`: each size
  is read from where it is, also after a body that was given up half-way, which moves
  `curr_ptr` past `end_ptr`.  `FilledMessageIsWhole`: a body reported as filled has the
  bytes that were sent; one that is not reported as filled is dispatched all the same,
  and may be incomplete.  `CrashesOnlyWhenClosed`: while the connection lasts, the gap
  between the pointers that such a body leaves never makes `fill_buffer` move a negative
  number of bytes.  `ImplementsMessageStream` says of the whole that the handlers
  get every message, in order, with its length, and cut short only in the two cases of `MessageStream`;
  it includes liveness.
* `RegisteredIsKnown`: a super peer that takes itself for registered has an entry with
  its address at the tracker.  `SourcesAreReal`: what the tracker offers for a channel,
  the super peer at that address has.  `PromisedBlocksExist`: the part of it that
  survives restarts and equal uuids.  `SpListFits`: the addresses written into an
  answer fit the room made for them.  `ChannelsAreAnnounced`: liveness.
* `AddIsUnion`, `QueriesAgree`: the operations, those that change an array and those
  that only look, against sets of numbers.  A full array may leave an interval out, and
  `AndOperator` may leave blocks out when its result is full.  `DeleteTakesOnlyItsOwn` is
  weaker than difference: `DelInterval` takes nothing else, unless the array is full and the
  rest of an interval that was cut in two has no room, and at least the first block, but it
  may leave later ones; `DeleteArray` takes at least the first of each interval.  `TypeOK`
  has the class's own check, `Verify`.
* `PeersHaveTheBlock`: a node that a player is told of, if its uuid went to one player
  only, leads to that player, which had the block, and had it on that channel if it stayed on
  one; late, doubled and early reports and the uuids that others share do not change that.
  `ReturnsOnlyAnew`: a node that has logged out comes back only with a login that draws its
  uuid again, and then without channel and blocks; a late packet or a search that began
  before the logout does not bring it back.
* `PacketIsFull`, `Arrives`: the reserved size is the size written, each read gets the
  field that was written there, and the receiver ends up with what the sender had.
  `AsDocumented`: the packet is what `core/p2p_protocol.h` says of its type, which finds
  a mistake that sender and receiver of this repository share.
* `HandlersHaveTheirObjects`: no packet is handled before the tracker object is made, no
  timer fires before its socket is.  `FirstSignalWaits`: no timer fires before its
  timeout has passed since it was added.  `StartedThreadsLoop`, `TimersFireAgain`:
  liveness, of the two waits in `RsThread` and of the timer thread.

### Conditions

Some properties hold only under a condition, which is part of the property or of the
bounds, and is a limit of the code rather than of the model:

* `RegisteredIsKnown`, `SourcesAreReal` and `SpListFits` hold, and are proved, until the tracker is
  started again.  A restarted tracker
  knows nobody, a super peer never registers twice, and resource lists with an unknown
  uuid are dropped: such a super peer is never announced again.
* The same three are checked, and proved, with one reseed per second.  Two of them give two
  super peers one uuid (`sp_tracker_uuid`).
* `PeersHaveTheBlock` is stated of uuids that went to one player only, and, as to the
  channel, of players that stayed on theirs.  What it says is false of
  the others, as told below.  `np_tracker` has one block, to keep the run small; the theorem
  `PeersCorrect` has any number of them.
* `CrashesOnlyWhenClosed` and, as to whole messages, `MessageStream` are stated of connections that
  last.  On one that ended, a message may be handled cut short, and the process may crash in
  `memmove`.
* `EndedConnectionsAreClosed` is stated of connections whose end reaches the socket; of the
  others it is false, as told below.
* `PacketIsFull`, `Arrives` and `AsDocumented` are stated of answers with as many super
  peers as peers; the others are `messages_peers`.
* `HandlersHaveTheirObjects` and `FirstSignalWaits` are stated of threads that did not go
  on because an uninitialised `can_run` happened to be true; one that did handles a packet
  without a tracker object, or makes the timers' first round before there are any.  A
  tracker that cannot be connected leaves the timers without a socket.
* The liveness of `Server` holds unless the process crashes, which the thread of a
  capture server can make it do: its object is deleted when `start_thread` returns.  What
  such a thread finds in the freed memory is left open: it crashes, goes on, or ends.

### Disagreements with the documentation

* `sp_tracker_uuid`: `get_cp_address` seeds `rand()` with the second for every player
  that asks, and `generate_uuid` takes its uuid from the same `rand()`.  Super peers
  that register after such requests of one second get the same uuid, the second
  overwrites the first.
* `messages_peers`: the loop that writes the peers of an answer runs to the number of
  super peers.

Four more were met while modelling; they have no run of their own, and the formula given
with each is one that TLC finds violated on the bounds of the run named.

* `recv_buffer`, the invariant `pc = "dispatch" => end_ptr - curr_ptr >= BodySize`: "read the
  full msg", say both loops (`sp_cs_connector.cpp:110`, `sp_np_connector.cpp:240`) of the call
  whose result they do not look at.  A message is handled when its body did not come, because
  the peer closed the connection, and also when it was read into an emptied buffer that
  offered too little room.
* `superpeer_live`, the property `\A p \in Np : (np[p].state = "open" /\ np[p].pc = "fill") ~>
  (np[p].state = "closed" \/ np[p].pc # "fill")`: "close this socket since idle too long", says
  the log (`sp_np_connector.cpp:230`).  What is counted is failed reads, and the reads have no
  timeout (`socket.cpp:33`, and nothing calls `set_recv_timeout`), so a player that vanished
  without a word keeps its connection.  A receive timeout alone would not mend it: the reads
  of a body would fail then, too, and `ReadFails_Timeout`, the mutant of
  `CrashesOnlyWhenClosed`, shows what that leads to.
* `np_tracker`, the invariant `\A u \in ToldOf : <<npnode_map[u].clientAddress, search.resHash,
  search.currentblockID>> \in had`: the comments of `get_np_address` say that a peer it finds is
  on the "same channel" and "has the block whose id is currentblockID"
  (`tracker_np_manager.cpp:197`).  Two players that log in after answers of one second share a
  uuid and a node, and one reports for the other; a player that goes over to another channel
  takes the blocks of the first along.  Either alone violates it.
* `np_tracker`, the invariant `\A u \in ToldOf : npnode_map[u].clientAddress \notin
  given[search.uuid]`: "not himself" (`tracker_np_manager.cpp:198`) compares uuids, and a player
  whose login was doubled has two.

Other modelled choices show what the code does with undefined or unguarded cases:
`Overlap = "forward"` in `IntervalArray` (the `memcpy` of overlapping memory in
`SafeInsert` copying upwards) violates `Verify`.  `NpTracker` draws the groups of a search as `get_np_address` does; the
search ends when the group drawn last was drawn before, not, as a comment there says,
when all groups were tried, so nothing is claimed of peers that are not found.

## Fairness

* `SuperPeer`: each player's thread, once it can go on, does.  The State Threads
  scheduler runs ready threads in turn.  A read is ready when there is data or the
  connection has ended, and not otherwise, since it has no timeout.  That a write returns is
  up to the network, as writes have no timeout either: a peer that stays connected and never
  reads is not covered.  Nothing makes a player ask, or its connection end.
* `RecvBuffer`: the thread runs on, and the bytes the peer has sent arrive unless the
  connection ends.
* `Server`: main, each thread that starts, the second half of `handle_tcp_connect` and the
  timer thread go on when they can.  Each waits in a sleep or in the write of a datagram,
  both of which end, and State Threads runs ready threads in turn.  A thread whose reads
  never wait keeps the processor, because `st_recvfrom` switches only on an empty socket:
  the tracker under a flood of packets is not covered.  No peer is assumed to connect or
  to send.
* `SpTracker`: the timers fire again and again, a packet sent again and again is
  delivered and handled, and the clock moves.  Nothing is assumed of a single packet.

## Proofs

Every theorem below is proved for all values of the constants that the module's named
assumption allows.  The assumptions say that sizes are positive, that blocks fit a buffer,
that bounds are numbers and that different things have different names; TLC evaluates
each of them in the runs.  Two groups of theorems have a hypothesis of their own, and each
of these is exactly what a modelled fault of the code breaks: one seed in a second (the uuids
of `SpTracker`) and a copy that notices overlapping memory (`IntervalArray`).

Each component has one module of proofs, laid out the same way: the inductive invariant
with its parts named and explained, lemmas about the component's operators, one lemma per
operation that says what it keeps, the theorems.  TLC checked each invariant on the bounds
of the component's run before it was proved.

The library states induction of an operator, which the provers cannot instantiate.  Where a
proof needs induction it is stated of a set: a set of natural numbers that is not empty has a
least element (`MinIsLeast`, from the library's theorem on well-founded relations), so a set
with 0 and every next number has them all.  `SuperPeer_proofs` shows by such an induction that every
list of numbers has an ordering permutation, without which the `CHOOSE` of `SuperPeer`'s
`Sorted` would mean nothing, and `IntervalArray_proofs` that its recursive functions are
what their equations say.

### The ring

`RsBufferQueue_proofs` has the lemmas about the operators of one ring.  `RingHolds(q,
stored)` says that ring `q` is what is left when the blocks `stored` went into it; `StoreBlock`
keeps it (`StoreKeepsRing`) and a lookup in such a ring finds the block (`RingLookup`).
The arithmetic of the wrap is in `WalkShift` and `WalkTurn`: walking round the ring from
the next index, and walking a whole turn.  `BufferQueue_proofs` is about a ring with its
writer, `SuperPeer_proofs` uses the same lemmas for a ring per channel.

| theorem of `BufferQueue_proofs` | says |
|---|---|
| `TypeCorrect` | `Spec => []TypeOK` |
| `WindowCorrect` | `Spec => []WindowIsLastBlocks`: the ring holds exactly the last blocks |
| `IndicesCorrect` | `Spec => []IndicesAgree`: the buffer overwritten is the one that leaves the window |
| `LookupCorrect` | `Spec => []WindowHoldsItsBlocks`: the buffer `dequeue_buffer` picks for an id of the window has that id and the block published under it |
| `Refinement` | `Spec => Window!Spec`: the ring implements `BlockWindow` |

The inductive invariant `IInv` is the conjunction of the four.  The last is not inductive
alone.  That the buffer of an id holds its block is kept by `Publish` only if the buffer
overwritten is the one that leaves the window, which is `IndicesAgree`; that the indices
agree after a wrap needs the window to be the last blocks, which is `WindowIsLastBlocks`.

### The super peer

| theorem of `SuperPeer_proofs` | says |
|---|---|
| `TypeCorrect` | `Spec => []TypeOK` |
| `HeaderCorrect` | `Spec => []OneHeaderBeforeBlocks`: one header on a connection, before any block |
| `ServedCorrect` | `Spec => []ServedBlockIsTheOneAsked`: the id and the content of what is written are those of the list, while the ring is overwritten |
| `ListServed` | `Spec => ListFullyServed`: a thread is done with a list only when what is on offer of it was sent |
| `Refinement` | `Spec => ImplementsStreamService`: a player is sent the header of its channel, as it is then, and then blocks on offer |

They hold for any channels, capture servers, players, push lists and rings.  `IInv` has a
part for the channels and one for the threads.  `ChannelsAgree`: each ring holds what was
stored on its channel, blocks are numbered from zero.  `ThreadsAgree` has three conjuncts
for each thread.  `HeaderFirst` ties the flag, the place of the thread and the headers
written together: between the write of the header and its return the flag is not set yet,
and a thread in the write of a block has it set.  The last is what a list of a channel that
does not exist could break, as it passes by the header with the flag unset; `PushListFields`
says that it finds no block.  `WireHolds`: what is being written is a block as it was stored,
not as the ring has it by now.  `ListLeft`: each id asked for was sent, is still to come, or
has left the window for good (`Gone`).  The last case is why the list has to be sorted: the
loop passes over an id that is not on offer and never looks at it again, although the next
write may wait until it is; `BehindWindow` says that an id passed over is behind the window
when a larger one is found, and if none is found, nothing is written and no time passes.

`Refinement` holds of registrations with and without a header.  A player that comes between
one without and the first media type message is sent the header the channel has then, which
is none: the service says so too, and that it is not sent one later.

### The receive buffer

| theorem of `RecvBuffer_proofs` | says |
|---|---|
| `TypeCorrect` | `Spec => []TypeOK` |
| `ReadCorrect` | `Spec => []ReadStaysInBuffer`: no read gets more room than there is behind `end_ptr` |
| `InStep` | `Spec => []InStepWithStream`: each size is read from a size field |
| `FilledCorrect` | `Spec => []FilledMessageIsWhole`: a body reported as filled is what was sent |
| `CrashCorrect` | `Spec => []CrashesOnlyWhenClosed`: no move of a negative size while the connection lasts |
| `Refinement` | `Spec => Stream!Safety`: the handlers get the messages in order, with their lengths, cut short only in the two cases of `MessageStream` |

They hold for any stream, any size field, any buffer, any way the stream is cut into
pieces and any byte at which the connection ends.  `IInv` says where the pointers are in terms of the stream.  `InPlace`: seen from the
end of what was read, `curr_ptr` is where the next message starts, or the body of the one
under way.  `Live`: between the pointers lie the bytes that were read last.
`NothingNewer`: no cell has a byte that was not read.  `SizeKnown`: `msg_size` is the size of
the message under way.

`Room` is the one that is hard to see in the code.  `fill_buffer` computes the free space
before it moves an empty buffer to its front, so a body may be given too little room, be
given up and be handled all the same; then `curr_ptr` is past `end_ptr`, by what is still to
come of that body.  The next size field is read behind that gap, and nothing checks that it
fits.  It does, because the space lost is as large as what was in front of the pointers, which
includes the size field of the message: so the gap leaves room for another one.  This is
what the conjuncts with `+ FieldSize` say.

`ImplementsMessageStream` is this safety and the weak fairness of `MessageStream`; the
second half stays with TLC.

### The tracker and its super peers

| theorem of `SpTracker_proofs` | says |
|---|---|
| `TypeCorrect` | `Spec => []TypeOK` |
| `PromisesCorrect` | `Spec => []PromisedBlocksExist`: no entry promises a block that no super peer had |
| `RegisteredCorrect` | `MaxReseeds <= 1` implies `Spec => []RegisteredIsKnown` |
| `SourcesCorrect` | `MaxReseeds <= 1` implies `Spec => []SourcesAreReal` |
| `SpListCorrect` | `MaxReseeds <= 1` implies `Spec => []SpListFits` |
| `UuidsCorrect` | `MaxReseeds <= 1` implies `Spec => [](restarts = 0 => UuidNamesOneSuperPeer)` |

They hold for any number of super peers, channels, blocks, registrations and restarts.  The
first two need two facts that no event can take away, `Basics` (types, a finite map, a
registered super peer has a uuid) and `ListsAreReal` (what a super peer had when it sent a
list it still has).

The others have the hypothesis that the tracker seeds its generator at most once within a
second, because they are false without it: `sp_tracker_uuid` is the run with two.
`UuidsCorrect` says that the other cause is a restart and that there is no third.  The
argument is that a uuid drawn is *later* than every uuid in use, in the order of seeds and
draws (`UuidsAreFresh`), so that no registration takes another's entry, and that whoever
uses a uuid, in its own state, in a welcome or in a list on its way, is who the tracker keeps
it for (`NamesAgree`).  A welcome that comes late names an entry as real as the newest one:
the tracker never removes any.  `SpListFits` follows from it because the asker's own entry
is left out of the list, and only that one has to be.

### The tracker and its players

| theorem of `NpTracker_proofs` | says |
|---|---|
| `TypeCorrect` | `Spec => []TypeOK`, with a search that has at most `inCount` entries |
| `PeersCorrect` | `Spec => []PeersHaveTheBlock` |
| `ReturnsCorrect` | `Spec => ReturnsOnlyAnew`: only a login that draws its uuid again brings a node back, and a new one |

They hold for any players, channels, blocks, groups, seeds and uuids, with no further hypothesis.
`ReturnsCorrect` needs only the types: a login is the only step that adds a uuid to the map
(`OnlyLoginMakesNodes`), since `SendPeers` and `GetReport` look their node up before they
write it back.  `PeersCorrect` is of a chain of copies: what a player has, what is in its
reports and requests, what the tracker keeps, what a search has found.  `IInv` says of each
that it is true under a uuid that one player has alone (`Alone`), with the channel for
players that stay on theirs (`PlayersHad`, `PacketsAreReal`, `NodesAreReal`,
`SearchIsReal`).  It cannot be said of others, since the tracker enters what one of two
sharers reports for the other, and keeps the blocks of the channel a player left.  A uuid
may cease to be alone, and then nothing is left to show of it; it never becomes so again
(`StillTrue`).  That the entries of a search do not run over the array made for them is
`FirstOnes`: a round takes only as many of a group as there is room for.

### The processes

| theorem of `Server_proofs` | says |
|---|---|
| `ObjectsComeFirst` | `Spec => []HandlersHaveTheirObjects`: no packet is handled before the tracker object is made unless its thread went on early, no timer fires without a socket unless the connect failed |
| `TypeCorrect` | `Spec => []TypeOK` |
| `FirstSignalCorrect` | `Spec => FirstSignalWaits`: no timer is signalled before its timeout has passed since it was added |

They hold for any set of connections, any timers and any delay of main.
`HandlersHaveTheirObjects` says something of crashes, so the induction needs what holds
before one: `ListenersWait` (a listener that was let run has its tracker object, and one that
loops was let run, unless it went on early), `TimersComeLate` (there are timers only when
main is at its connect, and after it the socket is there or main has given up), and
`CrashedIsDown` (after a crash nothing happens).  `ListenersWait` needs to know that
`loop_flag` is set before the thread can look at `can_run`, or the thread would not wait;
that is its first conjunct.

`FirstSignalWaits` relates two clocks: the count of each timer, which starts at its first
round, and the time since it was added.  `Clocks` says that after the first round the count,
with the time a handler has kept the round waiting so far, never exceeds the second, both
cut at the timer's timeout; `TimerWaits` says that the timer thread gets to its first round
only when main has added the timers and gone on, unless it went on by chance.

### Block intervals

| theorem of `IntervalArray_proofs` | says |
|---|---|
| `TypeCorrect` | `Spec => []TypeOK`: every operation leaves an array that passes `Verify` and fits |
| `AddCorrect` | `Spec => []AddIsUnion` |
| `DeleteCorrect` | `Spec => []DeleteTakesOnlyItsOwn` |
| `QueriesCorrect` | `Spec => []QueriesAgree` |

They hold for any `UINT_MAX` and `MaxValidSize`, under `Overlap = "move"`.  With `"forward"`
TLC finds an array that fails `Verify`: an insertion into an array with spare room behind
copies one interval over all that follow.

`TypeOK` is inductive as it stands; what is hard is that the operations keep it, because they
are recursive and because positions, blocks and wrapping numbers have to be followed at once.

* The recursion.  `TailRecursion` says that an equation `f[c] = IF c \in Again THEN
  f[next[c]] ELSE last[c]` has a solution if a natural number gets smaller from each call to
  the next, `TailInduction` that what every next call has, and every returning call, all
  calls have.  The numbers are, for an addition, the intervals left; for a deletion, the
  intervals from the first one that reaches past the start (`DelSize`), because a call that
  cuts an interval takes none away: the next one finds the interval behind it.
  `CountedRecursion` is the same for the loops over an array.
* The arrays.  `Apart` says of any two intervals of an array what `Verify` says of
  neighbours.  Membership is followed position by position for the three changes there are:
  an interval removed, inserted, replaced (`RemoveGood`, `InsertGood`, `ReplaceGood`).
* A call that calls itself keeps what it stands for: the blocks of the array together with
  those of the interval are the same in the next call (`AddAgainKeeps`), though the array
  lost an interval and the new one grew.  No sum in it wraps, since both end within the
  numbers there are.  A deletion keeps the bounds on both sides, what must stay and what
  must go (`DelAgainKeeps`).
* The queries.  The counts of `GetCountInInterval` are those of disjoint sets within the
  numbers there are, so their sum does not wrap.  `AndOperator` adds its pieces in ascending
  order, both within a turn of the outer loop and from turn to turn (`AndWithIs`,
  `AndOperatorIs`); so each is put behind the others (`AddAtEnd`), and one is lost only when
  the result is full, and then all that follow.

### Only model-checked

* Liveness: `PushListsEnd`, `EndedConnectionsAreClosed`, `ChannelsAreAnnounced`,
  `StartedThreadsLoop`, `TimersFireAgain`, and the liveness half of
  `ImplementsMessageStream`.  The provers have no rule for fairness, since they do not know
  when an action is enabled.
* `Messages`: `TypeOK`, `PacketIsFull`, `Arrives` and `AsDocumented`.  The module is a
  table of fields per class, and the properties compare its columns.  The run has every
  class with every length of lists up to 3, and a class does the same for each element of a
  list, so a proof would repeat the tables line by line and add only the longer lists.

## Simplifications

What the models leave out or assume, and why:

* A capture server registers before it sends anything else, and numbers its blocks
  on when it registers again.  The code checks neither; a restart at 0 would make
  `min_block_id` wrong.  Blocks have at most the size of a buffer, which is the
  `block_size` every sender uses.
* Players get blocks in order and change their channel at most once.
* The `recv_buf += 5` per packet of the tracker client is not modelled.  `Server` has its
  failing `connect` and the lifetime of connection objects; `SpTracker` and `SuperPeer`
  start with both in order.
* `Server` has no clock of its own but main's; a handler that waits takes the time that
  passes meanwhile.  That `thread_intermediary` returns no value is left out.
* NP2TS_RES_INTERVAL is not modelled: it reads the channel map and changes only
  `last_send_blockinterval`, which decides whether there is an answer.  One variable
  serves all players, so a player that asks after another gets none; no document says
  when it should.
* SP2TS_STATUS is sent by no super peer, TS2SP_GET_RES_LIST by no tracker; `timer_check` and
  `delete_channel` are called from nowhere.
* In `NpTracker` the tracker is not started again.  Different seeds, or different counts of
  draws from one seed, are taken to give different uuids.  That the search itself draws
  numbers does not count: after it the generator is always seeded anew, and
  `get_cp_address` draws none after it has seeded unless there are more than ten super
  peers, which is not modelled.  A login without a local address draws a uuid and is dropped
  (`DrawForOther`).
* A header or block whose write failed counts as sent, in the model as in the code, which
  only logs it.  The header of a channel registered without one is uninitialised memory; that
  reading it ends the process is left out.
* `Np2TsReport::parse` reads into a pointer nobody set; `NpTracker` takes reports as
  they were sent.  `Sp2TsLogout`, `Np2TsReport` and `Sp2SpPushList` have a `pack` that
  disagrees with their `parse`, but nothing in the repository packs them, so
  `Messages` has their tables and the run leaves them out.
* The `sprintf` of the resource list into a fixed string is not modelled.
* Logging, bitrates, configuration and md5 are not part of any property.  The hash of a
  channel is taken as the channel.
