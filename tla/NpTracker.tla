---- MODULE NpTracker ----
(***************************************************************************)
(* Players and the tracker: RsNpTracker over the npnode_map of             *)
(* RsTrackerNpCoordinator.  They talk UDP.  The player is not in this      *)
(* repository and is modelled by the packets it may send: network holds    *)
(* every packet a player could have sent so far, so a packet that was not  *)
(* sent is one that is never taken, and one that is late or doubled is one *)
(* that is taken late or twice.                                            *)
(*                                                                         *)
(* A handler does not block before its last change, so each is one action, *)
(* except that get_np_address, which picks peers group by group at random, *)
(* is one action per round; search holds what it has so far, and no other  *)
(* handler runs meanwhile.                                                 *)
(*                                                                         *)
(* Uuids come from rand(), which every answer to a player seeds anew with  *)
(* the time in seconds: after two seedings in one second the same uuids    *)
(* come again.                                                             *)
(*                                                                         *)
(* The blocks of a node are kept as a set; that an IntervalArray is one is *)
(* the subject of that module.                                             *)
(***************************************************************************)
EXTENDS Integers, Sequences, FiniteSets, FiniteSetsExt

CONSTANTS
    Player,         \* players, and the addresses they send from
    Channel,        \* channels
    NoChannel,      \* channelID_md5 of a new node: all zero
    MaxBlock,       \* bound on the block ids
    MaxUuid,        \* bound on the different uuids
    GroupSize,      \* nodes in a group (30)
    inCount,        \* peers in an answer (20)
    Switchers,      \* players that may go over to another channel, once
    NoSearch

ASSUME NpTrackerAssumption ==
    /\ {MaxBlock, MaxUuid} \subseteq Nat
    /\ {GroupSize, inCount} \subseteq Nat \ {0}
    /\ NoChannel \notin Channel
    /\ Switchers \subseteq Player

VARIABLES
    npnode_map,     \* RsTrackerNpCoordinator: the nodes by uuid
    rand,           \* the state of rand(): was it seeded yet, the uuids it has
                    \* given since the last seed that was new, in their order,
                    \* and how many of them since the last seeding
    given,          \* the uuids drawn so far, with the players they went to
    search,         \* get_np_address and send_peers under way
    player,         \* the players
    had,            \* history: the blocks players had, by channel
    network         \* the packets players may have sent

vars == <<npnode_map, rand, given, search, player, had, network>>

Block == 0 .. MaxBlock

\* Uuids order the map.
Uuid == 1 .. MaxUuid

NewSeed == [seeded |-> TRUE, uuids |-> << >>, drawn |-> 0]

Nodes == [clientAddress : Player, channelID_md5 : Channel \union {NoChannel},
          intervalArray : SUBSET Block]

Players == [channel : Channel, blocks : SUBSET Block, switched : BOOLEAN]

Packet ==
    [type : {"NP2TS_LOGIN"}, from : Player]
        \union [type : {"NP2TS_REQ_RES"}, uuid : Uuid, resource : Channel]
        \union [type : {"NP2TS_REPORT"}, uuid : Uuid, blocks : SUBSET Block]
        \union [type : {"NP2TS_NEED_PEERS"}, uuid : Uuid, block : Block]
        \union [type : {"NP2TS_LOGOUT"}, uuid : Uuid]

Init ==
    /\ npnode_map = << >>
    /\ rand = [NewSeed EXCEPT !.seeded = FALSE]
    /\ given = << >>
    /\ search = NoSearch
    /\ player \in [Player -> [channel : Channel, blocks : {{}}, switched : {FALSE}]]
    /\ had = {}
    /\ network = {[type |-> "NP2TS_LOGIN", from |-> p] : p \in Player}

-----------------------------------------------------------------------------
(* The players.                                                            *)

\* What a player in this state may send under a uuid.
MaySend(r, u) ==
    {[type |-> "NP2TS_LOGOUT", uuid |-> u],
     [type |-> "NP2TS_REQ_RES", uuid |-> u, resource |-> r.channel]}
        \union {[type |-> "NP2TS_NEED_PEERS", uuid |-> u, block |-> b] : b \in Block}
        \union {[type |-> "NP2TS_REPORT", uuid |-> u, blocks |-> blocks] :
                    blocks \in {r.blocks} \ {{}}}

\* A player uses any uuid it was given, also one before the last.
Becomes(p, r) ==
    /\ search = NoSearch
    /\ player' = [player EXCEPT ![p] = r]
    /\ network' = network \union
            UNION {MaySend(r, u) : u \in {v \in DOMAIN given : p \in given[v]}}
    /\ UNCHANGED <<npnode_map, rand, given, search>>

\* The player turns to another channel, with none of its blocks.
Switches(p, ch) ==
    /\ p \in Switchers /\ ~ player[p].switched
    /\ ch # player[p].channel
    /\ Becomes(p, [channel |-> ch, blocks |-> {}, switched |-> TRUE])
    /\ UNCHANGED had

\* The player gets a block of its channel; it knows from the tracker where,
\* and gets the blocks in ascending order.
GetsBlock(p, b) ==
    /\ \E u \in DOMAIN given : p \in given[u]
    /\ \A c \in Block : c \in player[p].blocks <=> c < b
    /\ Becomes(p, [player[p] EXCEPT !.blocks = @ \union {b}])
    /\ had' = had \union {<<p, player[p].channel, b>>}

-----------------------------------------------------------------------------
(* rand().                                                                 *)

\* srand(time): a seed that was not used before, or the one of the last seeding
\* once more, in the same second.
Seeds ==
    \/ rand' = NewSeed
    \/ rand.seeded /\ rand' = [rand EXCEPT !.drawn = 0]

\* generate_uuid draws u.  That different pairs of a seed and a count give
\* different uuids is assumed.
Draws(u) ==
    LET again == rand.drawn < Len(rand.uuids)
    IN  /\ IF again THEN u = rand.uuids[rand.drawn + 1] ELSE u \notin DOMAIN given
        /\ rand' = [rand EXCEPT !.uuids = IF again THEN @ ELSE Append(@, u),
                                !.drawn = @ + 1]

\* The players that have u once it went to these, too.
Given(u, players) ==
    [v \in DOMAIN given \union {u} |->
        IF v \notin DOMAIN given THEN players
        ELSE IF v = u THEN given[v] \union players ELSE given[v]]

\* A uuid is drawn for a super peer that registers, or for a player without
\* local addresses, which gets no answer.
DrawForOther ==
    /\ search = NoSearch
    /\ \E u \in Uuid : Draws(u) /\ given' = Given(u, {})
    /\ UNCHANGED <<npnode_map, search, player, had, network>>

-----------------------------------------------------------------------------
(* RsTrackerNpCoordinator.                                                 *)

\* insert_Node: a new node, or the old one overwritten.
insert_Node(digits, node) ==
    [u \in DOMAIN npnode_map \union {digits} |->
        IF u = digits THEN node ELSE npnode_map[u]]

deleteNode(digits) ==
    [u \in DOMAIN npnode_map \ {digits} |-> npnode_map[u]]

Known(u) == u \in DOMAIN npnode_map

iRange == Cardinality(DOMAIN npnode_map) \div GroupSize + 1

\* The uuids from the first of a group to the end of the map.
FromGroup(iPos) ==
    {u \in DOMAIN npnode_map :
        Cardinality({v \in DOMAIN npnode_map : v < u}) >= iPos * GroupSize}

\* Mutant: the channel is not compared.
Fits_AnyChannel(uuid, resource, block, u) ==
    /\ u # uuid
    /\ block \in npnode_map[u].intervalArray

\* The three conditions of get_np_address: "same channel", "not himself", and
\* the node has the block.
Fits(uuid, resource, block, u) ==
    /\ npnode_map[u].channelID_md5 = resource
    /\ u # uuid
    /\ block \in npnode_map[u].intervalArray

\* Mutant: the groups are numbered from one.
NewSearch_FromOne(uuid, resource, block) ==
    [uuid |-> uuid, resHash |-> resource, currentblockID |-> block,
     groupID |-> 1 .. iRange, pPeerInfo |-> {}, index |-> 0, done |-> FALSE]

NewSearch(uuid, resource, block) ==
    [uuid |-> uuid, resHash |-> resource, currentblockID |-> block,
     groupID |-> 0 .. iRange - 1, pPeerInfo |-> {}, index |-> 0, done |-> FALSE]

\* The nodes of which one round adds an entry: pPeerInfo holds the nodes that
\* have one, index is the number of entries, a node found twice has two.  The
\* limit of a group's size is never reached, because iLimit is not counted up,
\* and the scan runs to the end of the map.
Found(s, iPos) ==
    LET fit == {u \in FromGroup(iPos) : Fits(s.uuid, s.resHash, s.currentblockID, u)}
    IN  {u \in fit : Cardinality({v \in fit : v < u}) < inCount - s.index}

\* One round of get_np_address.  It draws as many groups as there are, one
\* after the other, and marks each; a rand() of zero draws none.  Only the
\* group drawn last counts: was it marked before, then the search ends.
SearchRound ==
    /\ search # NoSearch /\ ~ search.done
    /\ \E draws \in [1 .. iRange -> (0 .. iRange - 1) \union {-1}] :
        LET drawn == {f \in 1 .. iRange : draws[f] # -1}
            last == Max(drawn)
            iPos == IF drawn = {} THEN 0 ELSE draws[last]
            tried == /\ drawn # {}
                     /\ \/ iPos \notin search.groupID
                        \/ \E f \in drawn \ {last} : draws[f] = iPos
            found == Found(search, iPos)
            index == search.index + Cardinality(found)
            left == search.groupID \ {draws[f] : f \in drawn}
        IN  \/ /\ tried
               /\ search' = [search EXCEPT !.groupID = {}, !.done = TRUE]
            \/ /\ ~ tried
               /\ search' = [search EXCEPT
                                !.groupID = IF index >= inCount THEN {} ELSE left,
                                !.pPeerInfo = @ \union found,
                                !.index = index,
                                !.done = index >= inCount]
    /\ UNCHANGED <<npnode_map, rand, given, player, had, network>>

-----------------------------------------------------------------------------
(* RsNpTracker.                                                            *)

\* get_login of a player with an address of its own: every LOGIN draws a uuid,
\* also one that came before.  A node that has the uuid already is overwritten.
GetLogin(m) ==
    /\ m.type = "NP2TS_LOGIN"
    /\ search = NoSearch
    /\ \E u \in Uuid :
        /\ Draws(u)
        /\ given' = Given(u, {m.from})
        /\ npnode_map' = insert_Node(u, [clientAddress |-> m.from,
                                         channelID_md5 |-> NoChannel,
                                         intervalArray |-> {}])
        /\ network' = network \union MaySend(player[m.from], u)
    /\ UNCHANGED <<search, player, had>>

\* get_req_res: the search comes first, for block 0.
GetReqRes(m) ==
    /\ m.type = "NP2TS_REQ_RES"
    /\ search = NoSearch
    /\ search' = NewSearch(m.uuid, m.resource, 0)
    /\ UNCHANGED <<npnode_map, rand, given, player, had, network>>

\* get_need_peers: for the channel the node is on.
GetNeedPeers(m) ==
    /\ m.type = "NP2TS_NEED_PEERS"
    /\ search = NoSearch
    /\ Known(m.uuid)
    /\ search' = NewSearch(m.uuid, npnode_map[m.uuid].channelID_md5, m.block)
    /\ UNCHANGED <<npnode_map, rand, given, player, had, network>>

\* send_peers gets to its answer if get_sp_address finds a super peer for the
\* channel, which it may for each but the channel of a new node, and the node
\* is known.
MayAnswer(s) == s.done /\ s.resHash \in Channel /\ Known(s.uuid)

\* Mutant: whoever asks gets a node.
SendPeers_NewNode ==
    /\ search # NoSearch /\ search.done
    /\ Seeds
    /\ \/ npnode_map' = npnode_map
       \/ /\ search.resHash \in Channel
          /\ npnode_map' = insert_Node(search.uuid,
                [clientAddress |-> CHOOSE p \in Player : TRUE,
                 channelID_md5 |-> search.resHash,
                 intervalArray |-> IF Known(search.uuid)
                                   THEN npnode_map[search.uuid].intervalArray ELSE {}])
    /\ search' = NoSearch
    /\ UNCHANGED <<given, player, had, network>>

\* send_peers after get_np_address: get_cp_address seeds rand(), and then the
\* node goes over to the channel and keeps its blocks; without a super peer it
\* does not, and nobody is told anything.
SendPeers ==
    /\ search # NoSearch /\ search.done
    /\ Seeds
    /\ \/ npnode_map' = npnode_map
       \/ /\ MayAnswer(search)
          /\ npnode_map' = insert_Node(search.uuid,
                [npnode_map[search.uuid] EXCEPT !.channelID_md5 = search.resHash])
    /\ search' = NoSearch
    /\ UNCHANGED <<given, player, had, network>>

\* get_report: the blocks are added to those of all reports before.
GetReport(m) ==
    /\ m.type = "NP2TS_REPORT"
    /\ search = NoSearch
    /\ Known(m.uuid)
    /\ npnode_map' = insert_Node(m.uuid,
            [npnode_map[m.uuid] EXCEPT !.intervalArray = @ \union m.blocks])
    /\ UNCHANGED <<rand, given, search, player, had, network>>

\* get_logout
GetLogout(m) ==
    /\ m.type = "NP2TS_LOGOUT"
    /\ search = NoSearch
    /\ npnode_map' = deleteNode(m.uuid)
    /\ UNCHANGED <<rand, given, search, player, had, network>>

-----------------------------------------------------------------------------

PlayerNext(p) ==
    \/ \E ch \in Channel : Switches(p, ch)
    \/ \E b \in Block : GetsBlock(p, b)

TrackerNext ==
    \/ \E m \in network :
        GetLogin(m) \/ GetReqRes(m) \/ GetNeedPeers(m) \/ GetReport(m) \/ GetLogout(m)
    \/ SearchRound
    \/ SendPeers

Next ==
    \/ \E p \in Player : PlayerNext(p)
    \/ DrawForOther
    \/ TrackerNext

Spec == Init /\ [][Next]_vars

-----------------------------------------------------------------------------
(* Properties.                                                             *)

\* Type invariant.
TypeOK ==
    /\ DOMAIN npnode_map \subseteq DOMAIN given
    /\ \A u \in DOMAIN npnode_map : npnode_map[u] \in Nodes
    /\ DOMAIN given \subseteq Uuid
    /\ \A u \in DOMAIN given : given[u] \subseteq Player
    /\ rand \in [seeded : BOOLEAN, uuids : Seq(DOMAIN given), drawn : Nat]
    /\ rand.drawn <= Len(rand.uuids)
    /\ search # NoSearch =>
        search \in [uuid : DOMAIN given, resHash : Channel \union {NoChannel},
                   currentblockID : Block, groupID : SUBSET (0 .. iRange - 1),
                   pPeerInfo : SUBSET DOMAIN npnode_map, index : 0 .. inCount,
                   done : BOOLEAN]
    /\ player \in [Player -> Players]
    /\ had \subseteq Player \X Channel \X Block
    /\ network \subseteq Packet

\* The nodes whose players the asker is told of, if a super peer is found.
ToldOf == IF search # NoSearch /\ MayAnswer(search) THEN search.pPeerInfo ELSE {}

\* A player is told of a node whose uuid went to one player only just if it is
\* that player's, and the player had the block that is asked for: on the
\* channel that is asked for if it stayed on one channel, whichever reports are
\* late, doubled or come before the node has a channel, and whatever uuids
\* others share.
PeersHaveTheBlock ==
    \A u \in ToldOf, p \in Player :
        given[u] = {p} =>
            /\ npnode_map[u].clientAddress = p
            /\ \E ch \in Channel : <<p, ch, search.currentblockID>> \in had
            /\ ~ player[p].switched => <<p, search.resHash, search.currentblockID>> \in had

\* A node that logged out comes back only when its uuid has just been drawn,
\* and then with nothing of what was known under that uuid: no packet that was
\* delayed or doubled, and no search begun before the logout, brings it back.
ReturnsOnlyAnew ==
    [][\A u \in Uuid : (~ Known(u) /\ Known(u)') =>
        /\ rand'.drawn = rand.drawn + 1 /\ rand'.uuids[rand'.drawn] = u
        /\ npnode_map'[u].channelID_md5 = NoChannel
        /\ npnode_map'[u].intervalArray = {}]_vars
====
