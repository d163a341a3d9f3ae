---- MODULE SpTracker ----
(***************************************************************************)
(* Super peers and the tracker: RsSpTrackerProtocol, driven by RsTimer and *)
(* by what comes from the tracker, and RsSpTracker over the channel_map of *)
(* RsTrackerStreamManager.  They talk UDP: network is the set of all       *)
(* packets ever sent, from which either side may take any packet, at any   *)
(* time, again or never.                                                   *)
(*                                                                         *)
(* The tracker names a super peer by a uuid made from rand().  The player  *)
(* side of the tracker seeds rand() with the time in seconds, whenever it  *)
(* answers a player that asks for peers: ReseedByPlayer.  A uuid is the    *)
(* seed and the number of uuids drawn since: what rand() gives is decided  *)
(* by these two, and two different pairs are taken to give different ones. *)
(*                                                                         *)
(* Every action is one handler: none of them blocks before it has changed  *)
(* its state for the last time.                                            *)
(***************************************************************************)
EXTENDS TrackerStreamManager

CONSTANTS
    Sp,             \* super peers, and the addresses they send from
    Channel,        \* channels: resources, to the tracker
    NoUuid,         \* sp_id before the first welcome
    MaxBlock,       \* bound on the newest block id of a channel
    MaxTime,        \* bound on the seconds that pass
    MaxRegisters,   \* bound on the registrations answered with one seed
    MaxReseeds,     \* how often players make the tracker seed within a second
    MaxRestarts     \* how often the tracker stops and starts

ASSUME SpTrackerAssumption ==
    /\ {MaxBlock, MaxTime, MaxRegisters, MaxReseeds, MaxRestarts} \subseteq Nat
    /\ IsFiniteSet(Sp)

VARIABLES
    sp,             \* RsSpTrackerProtocol, and the channels of its process
    channel_map,    \* RsTrackerStreamManager
    rand,           \* the state of the tracker's rand()
    now,            \* the tracker's clock, in seconds
    reseeds,        \* how often rand() was seeded in this second
    restarts,       \* how often the tracker was started again
    network         \* the packets ever sent

vars == <<sp, channel_map, rand, now, reseeds, restarts, network>>
tracker == <<channel_map, rand, now, reseeds, restarts>>

\* rand() that was never seeded starts as if srand(1) had been called; the
\* clock never shows that second.
Unseeded == -1

Uuid == [seed : {Unseeded} \union (0 .. MaxTime), drawn : 0 .. MaxRegisters]

\* The block interval of a channel is told apart by its newest block.
Resources == UNION {[chs -> 0 .. MaxBlock] : chs \in SUBSET Channel}

Packet ==
    [type : {"SP2TS_REGISTER"}, from : Sp]
        \union [type : {"SP2TS_GET_SP"}, from : Sp, uuid : Uuid]
        \union [type : {"SP2TS_RES_LIST"}, from : Sp, uuid : Uuid, resources : Resources]
        \union [type : {"TS2SP_WELCOME"}, to : Sp, uuid : Uuid]

Init ==
    /\ sp = [s \in Sp |-> [state |-> "running", register_flag |-> FALSE,
                           sp_id |-> NoUuid, sources |-> << >>]]
    /\ channel_map = << >>
    /\ rand = [seed |-> Unseeded, drawn |-> 0]
    /\ now = 0
    /\ reseeds = 0
    /\ restarts = 0
    /\ network = {}

-----------------------------------------------------------------------------
(* The super peer.                                                         *)

\* A capture server creates a channel, or sends a block of one.
SourceMoves(s, ch) ==
    /\ sp[s].state = "running"
    /\ LET newest == IF ch \in DOMAIN sp[s].sources THEN sp[s].sources[ch] + 1 ELSE 0
       IN  /\ newest <= MaxBlock
           /\ sp' = [sp EXCEPT ![s].sources = Put(@, ch, newest)]
    /\ UNCHANGED <<network, tracker>>

\* The process ends without a word: there is no send_logout.
SpStops(s) ==
    /\ sp[s].state = "running"
    /\ sp' = [sp EXCEPT ![s].state = "stopped"]
    /\ UNCHANGED <<network, tracker>>

send_register(s) == [type |-> "SP2TS_REGISTER", from |-> s]

\* Mutant: the interval is sent with the end, not the last block.
send_res_list_OneMore(s) ==
    [type |-> "SP2TS_RES_LIST", from |-> s, uuid |-> sp[s].sp_id,
     resources |-> [ch \in DOMAIN sp[s].sources |-> sp[s].sources[ch] + 1]]

send_res_list(s) ==
    [type |-> "SP2TS_RES_LIST", from |-> s, uuid |-> sp[s].sp_id,
     resources |-> sp[s].sources]

send_sp_list(s) == [type |-> "SP2TS_GET_SP", from |-> s, uuid |-> sp[s].sp_id]

\* handle_timeout, unregistered: both timers register.
TimeoutRegister(s) ==
    /\ sp[s].state = "running" /\ ~ sp[s].register_flag
    /\ network' = network \union {send_register(s)}
    /\ UNCHANGED <<sp, tracker>>

\* handle_timeout of TRACKER_TIMER_ID: without a channel nothing is sent.
TimeoutResList(s) ==
    /\ sp[s].state = "running" /\ sp[s].register_flag
    /\ DOMAIN sp[s].sources # {}
    /\ network' = network \union {send_res_list(s)}
    /\ UNCHANGED <<sp, tracker>>

\* handle_timeout of TRACKER_GET_SP_LIST_TIMER_ID
TimeoutSpList(s) ==
    /\ sp[s].state = "running" /\ sp[s].register_flag
    /\ network' = network \union {send_sp_list(s)}
    /\ UNCHANGED <<sp, tracker>>

\* get_welcome: the uuid of the welcome that comes last is the one used.
GetWelcome(s, m) ==
    /\ m.type = "TS2SP_WELCOME" /\ m.to = s
    /\ sp[s].state = "running"
    /\ sp' = [sp EXCEPT ![s].sp_id = m.uuid, ![s].register_flag = TRUE]
    /\ UNCHANGED <<network, tracker>>

-----------------------------------------------------------------------------
(* The tracker.                                                            *)

\* Mutant: the generator does not move on.
Drawn_Stuck(r) == r

\* The four rand() of generate_uuid.
Drawn(r) == [r EXCEPT !.drawn = @ + 1]

\* get_register: a new uuid and a new entry for every registration, also for
\* one that came before.
GetRegister(m) ==
    /\ m.type = "SP2TS_REGISTER"
    /\ rand.drawn < MaxRegisters
    /\ rand' = Drawn(rand)
    /\ channel_map' = insert_channel(channel_map, rand, NewNode(m.from, now))
    /\ network' = network \union
            {[type |-> "TS2SP_WELCOME", to |-> m.from, uuid |-> rand]}
    /\ UNCHANGED <<sp, now, reseeds, restarts>>

\* get_res_list: a uuid that is not known is not answered (send_errormsg is
\* empty); for one that is, the entry gets the list of the message, whatever
\* came before it, and from wherever it comes.
GetResList(m) ==
    /\ m.type = "SP2TS_RES_LIST"
    /\ Known(channel_map, m.uuid)
    /\ channel_map' = insert_channel(channel_map, m.uuid,
            [channel_map[m.uuid] EXCEPT !.resources = m.resources,
                                        !.last_recv_report_time = now])
    /\ UNCHANGED <<sp, network, rand, now, reseeds, restarts>>

\* get_sp_list and send_sp_list change nothing; what they write is
\* get_cp_address.  No super peer ever sees it: io is a socket made from a
\* descriptor that is not set yet, so the write fails or stops the tracker
\* (TrackerRestarts).
SpListAnswer(m) == get_cp_address(channel_map, m.uuid)

\* get_cp_address(addr, count), called for a player: srand(time()).
ReseedByPlayer ==
    /\ reseeds < MaxReseeds
    /\ rand' = [seed |-> now, drawn |-> 0]
    /\ reseeds' = reseeds + 1
    /\ UNCHANGED <<sp, channel_map, now, restarts, network>>

\* The tracker keeps nothing on disk.
TrackerRestarts ==
    /\ restarts < MaxRestarts
    /\ channel_map' = << >>
    /\ rand' = [seed |-> Unseeded, drawn |-> 0]
    /\ restarts' = restarts + 1
    /\ UNCHANGED <<sp, now, reseeds, network>>

\* A second passes.
Tick ==
    /\ now < MaxTime
    /\ now' = now + 1
    /\ reseeds' = 0
    /\ UNCHANGED <<sp, channel_map, rand, restarts, network>>

-----------------------------------------------------------------------------

SpNext(s) ==
    \/ \E ch \in Channel : SourceMoves(s, ch)
    \/ SpStops(s)
    \/ TimeoutRegister(s)
    \/ TimeoutResList(s)
    \/ TimeoutSpList(s)
    \/ \E m \in network : GetWelcome(s, m)

TrackerNext ==
    \/ \E m \in network : GetRegister(m) \/ GetResList(m)
    \/ ReseedByPlayer
    \/ TrackerRestarts
    \/ Tick

Next == (\E s \in Sp : SpNext(s)) \/ TrackerNext

Spec == Init /\ [][Next]_vars

\* RsTimer calls a handler again and again while the process runs, and the
\* clock goes on.  Of the network nothing is asked but that a packet which is
\* sent again and again arrives: a registration and its welcome as long as
\* the super peer is unregistered, a list with a channel in it as long as the
\* super peer runs and sends its lists.
Registering(s) == sp[s].state = "running" /\ ~ sp[s].register_flag
Reporting(s) == sp[s].state = "running" /\ sp[s].register_flag

Fairness ==
    /\ WF_vars(Tick)
    /\ \A s \in Sp :
        /\ WF_vars(TimeoutRegister(s))
        /\ WF_vars(TimeoutResList(s))
        /\ WF_vars(Registering(s) /\ \E m \in network :
                m.type = "SP2TS_REGISTER" /\ m.from = s /\ GetRegister(m))
        /\ WF_vars(Registering(s) /\ \E m \in network : GetWelcome(s, m))
        /\ \A ch \in Channel :
            WF_vars(Reporting(s) /\ \E m \in network :
                /\ m.type = "SP2TS_RES_LIST" /\ m.from = s
                /\ ch \in DOMAIN m.resources
                /\ GetResList(m))

FairSpec == Spec /\ Fairness

-----------------------------------------------------------------------------
(* Properties.                                                             *)

\* Type invariant.
TypeOK ==
    /\ sp \in [Sp -> [state : {"running", "stopped"}, register_flag : BOOLEAN,
                      sp_id : Uuid \union {NoUuid}, sources : Resources]]
    /\ \E uuids \in SUBSET Uuid :
            channel_map \in [uuids -> ChannelNodes(Sp, Resources, 0 .. MaxTime)]
    /\ rand \in Uuid
    /\ now \in 0 .. MaxTime
    /\ reseeds \in 0 .. MaxReseeds
    /\ restarts \in 0 .. MaxRestarts
    /\ network \subseteq Packet

\* Until the tracker is started again, a super peer that thinks it is
\* registered is: the tracker has an entry under its uuid, and sends players
\* to this super peer's address for it, whichever of its registrations and
\* welcomes were lost, late or doubled.
RegisteredIsKnown ==
    \A s \in Sp : (restarts = 0 /\ sp[s].register_flag) =>
        /\ Known(channel_map, sp[s].sp_id)
        /\ channel_map[sp[s].sp_id].spAddress = s

\* Until the tracker is started again, it sends a player that asks for a
\* channel only to super peers that have it, and promises no block that the
\* super peer never had: what is kept under a uuid comes from the super peer
\* at its address.
SourcesAreReal ==
    restarts = 0 => \A uuid \in DOMAIN channel_map :
        LET node == channel_map[uuid]
        IN  \A ch \in DOMAIN node.resources :
                /\ ch \in DOMAIN sp[node.spAddress].sources
                /\ node.resources[ch] <= sp[node.spAddress].sources[ch]

\* Until the tracker is started again, the addresses written for a
\* SP2TS_GET_SP fit into the room made for them, whenever it arrives, although
\* the room is for all entries but one and one super peer may have several.
\* (A super peer from before a restart has no address to leave out.)
SpListFits ==
    \A m \in network : (restarts = 0 /\ m.type = "SP2TS_GET_SP") =>
        SpListAnswer(m).written <= SpListAnswer(m).room

\* Also after the tracker was started again, and when uuids collide: no entry
\* promises a block of a channel that no super peer ever had.
PromisedBlocksExist ==
    \A uuid \in DOMAIN channel_map :
        \A ch \in DOMAIN channel_map[uuid].resources :
            \E s \in Sp : /\ ch \in DOMAIN sp[s].sources
                          /\ channel_map[uuid].resources[ch] <= sp[s].sources[ch]

\* No two super peers use one uuid: sp_tracker_connector.h:90 calls it the
\* "uuid of super peer on tracker".
UuidNamesOneSuperPeer ==
    \A s, t \in Sp :
        (sp[s].register_flag /\ sp[t].register_flag /\ sp[s].sp_id = sp[t].sp_id)
            => s = t

\* A channel that a running super peer has is announced to players.
ChannelsAreAnnounced ==
    \A s \in Sp, ch \in Channel :
        (ch \in DOMAIN sp[s].sources) ~>
            (s \in get_sp_address(channel_map, ch) \/ sp[s].state = "stopped")
====
