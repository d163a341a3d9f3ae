---- MODULE SpTracker_proofs ----
(***************************************************************************)
(* Theorems about SpTracker, for any super peers, channels and bounds.     *)
(***************************************************************************)
EXTENDS SpTracker, FiniteSetTheorems, TLAPS

-----------------------------------------------------------------------------
(* The inductive invariant.                                                *)

\* A super peer has every block that a resource list promises.
Has(s, resources) ==
    \A ch \in DOMAIN resources :
        ch \in DOMAIN sp[s].sources /\ resources[ch] <= sp[s].sources[ch]

\* What was true of a super peer's channels when it sent a list stays true:
\* channels are never taken away and block ids only grow.
ListsAreReal ==
    \A m \in network : m.type = "SP2TS_RES_LIST" => Has(m.from, m.resources)

\* A super peer that thinks it is registered has a uuid; the tracker's map is
\* finite.  Both hold whatever becomes of the tracker.
Basics ==
    /\ TypeOK
    /\ \A s \in Sp : sp[s].register_flag => sp[s].sp_id \in Uuid
    /\ IsFiniteSet(DOMAIN channel_map)

\* The tracker keeps a uuid for a super peer.
Owns(s, uuid) == Known(channel_map, uuid) /\ channel_map[uuid].spAddress = s

\* A uuid was drawn before the generator came to state r.
Before(uuid, r) ==
    \/ uuid.seed < r.seed
    \/ uuid.seed = r.seed /\ uuid.drawn < r.drawn

\* Every uuid in use was drawn before the next one will be, and the generator
\* is not seeded with a second a second time.
UuidsAreFresh ==
    /\ \A uuid \in DOMAIN channel_map : Before(uuid, rand)
    /\ rand.seed <= now
    /\ reseeds = 0 => rand.seed < now

\* Whoever uses a uuid, in what it keeps or in a packet, is who the tracker
\* keeps it for.
NamesAgree ==
    /\ \A s \in Sp : sp[s].register_flag => Owns(s, sp[s].sp_id)
    /\ \A m \in network :
        /\ m.type = "TS2SP_WELCOME" => Owns(m.to, m.uuid)
        /\ m.type \in {"SP2TS_RES_LIST", "SP2TS_GET_SP"} => Owns(m.from, m.uuid)

\* What holds until the tracker is started again, as long as players make it
\* seed its generator at most once a second.
FirstRun == restarts = 0 => UuidsAreFresh /\ NamesAgree /\ SourcesAreReal

-----------------------------------------------------------------------------
(* Facts about the operators.                                              *)

\* The entry written to a map is there, the others are as they were.
LEMMA PutEntries ==
    ASSUME NEW f, NEW x, NEW y
    PROVE  /\ DOMAIN Put(f, x, y) = DOMAIN f \union {x}
           /\ Put(f, x, y)[x] = y
           /\ \A z \in DOMAIN f : z # x => Put(f, x, y)[z] = f[z]
  BY DEF Put

\* An entry of the map written to is the one written or one that was there.
LEMMA PutAt ==
    ASSUME NEW f, NEW x, NEW y, NEW z \in DOMAIN Put(f, x, y)
    PROVE  /\ z = x \/ z \in DOMAIN f
           /\ z = x => Put(f, x, y)[z] = y
           /\ z # x => Put(f, x, y)[z] = f[z]
  BY DEF Put

\* A map stays one over the same keys and values.
LEMMA PutTyped ==
    ASSUME NEW D, NEW V, NEW d \in SUBSET D, NEW f \in [d -> V],
           NEW x \in D, NEW y \in V
    PROVE  /\ d \union {x} \in SUBSET D
           /\ Put(f, x, y) \in [d \union {x} -> V]
  BY DEF Put

\* The block a capture server sends next can be written to the channels.
LEMMA NewBlockTyped ==
    ASSUME NEW f \in Resources, NEW ch \in Channel, NEW n \in 0 .. MaxBlock
    PROVE  Put(f, ch, n) \in Resources
  <1>0. ch \in Channel /\ n \in 0 .. MaxBlock
    OBVIOUS
  <1>1. PICK d \in SUBSET Channel : f \in [d -> 0 .. MaxBlock]
    BY DEF Resources
  <1>2. /\ d \union {ch} \in SUBSET Channel
        /\ Put(f, ch, n) \in [d \union {ch} -> 0 .. MaxBlock]
    BY ONLY <1>0, <1>1 DEF Put
  <1>3. QED
    BY <1>2 DEF Resources

\* The ids in a resource list are numbers.
LEMMA ResourceValues ==
    ASSUME NEW f \in Resources, NEW ch \in DOMAIN f
    PROVE  ch \in Channel /\ f[ch] \in 0 .. MaxBlock /\ f[ch] \in Int
  BY DEF Resources

-----------------------------------------------------------------------------
(* Types.                                                                  *)

\* A super peer and what it keeps.
SpNodes == [state : {"running", "stopped"}, register_flag : BOOLEAN,
            sp_id : Uuid \union {NoUuid}, sources : Resources]

\* The entries of the map.
Entries == ChannelNodes(Sp, Resources, 0 .. MaxTime)

\* The type invariant, part by part.
LEMMA Types ==
    TypeOK <=>
        /\ sp \in [Sp -> SpNodes]
        /\ \E uuids \in SUBSET Uuid : channel_map \in [uuids -> Entries]
        /\ rand \in Uuid
        /\ now \in 0 .. MaxTime
        /\ reseeds \in 0 .. MaxReseeds
        /\ restarts \in 0 .. MaxRestarts
        /\ network \subseteq Packet
  BY DEF TypeOK, SpNodes, Entries

\* A super peer's record with one field changed.
LEMMA SpNodeFields ==
    ASSUME NEW r \in SpNodes
    PROVE  /\ r.state \in {"running", "stopped"}
           /\ r.register_flag \in BOOLEAN
           /\ r.sp_id \in Uuid \union {NoUuid}
           /\ r.sources \in Resources
           /\ [r EXCEPT !.state = "stopped"] \in SpNodes
           /\ \A v \in Resources : [r EXCEPT !.sources = v] \in SpNodes
           /\ \A u \in Uuid : [r EXCEPT !.sp_id = u, !.register_flag = TRUE] \in SpNodes
  BY DEF SpNodes

\* Packets and what they carry.
LEMMA PacketFields ==
    ASSUME NEW m \in Packet
    PROVE  /\ m.type \in {"SP2TS_REGISTER", "SP2TS_GET_SP", "SP2TS_RES_LIST"} => m.from \in Sp
           /\ m.type \in {"SP2TS_GET_SP", "SP2TS_RES_LIST", "TS2SP_WELCOME"} => m.uuid \in Uuid
           /\ m.type = "SP2TS_RES_LIST" => m.resources \in Resources
           /\ m.type = "TS2SP_WELCOME" => m.to \in Sp
           /\ m.type \in {"SP2TS_REGISTER", "SP2TS_GET_SP", "SP2TS_RES_LIST", "TS2SP_WELCOME"}
  BY DEF Packet

\* A uuid is the seed and the number drawn.
LEMMA UuidFields ==
    ASSUME NEW u \in Uuid
    PROVE  /\ u.seed \in Int /\ u.drawn \in Int
           /\ u.seed \in {Unseeded} \union (0 .. MaxTime)
           /\ u.drawn \in 0 .. MaxRegisters
  BY DEF Uuid, Unseeded

\* An entry of the map.
LEMMA EntryFields ==
    ASSUME NEW node \in Entries
    PROVE  /\ node.spAddress \in Sp
           /\ node.resources \in Resources
           /\ \A v \in Resources, t \in 0 .. MaxTime :
                [node EXCEPT !.resources = v, !.last_recv_report_time = t] \in Entries
  BY DEF Entries, ChannelNodes

\* The map has entries under uuids, and stays so.
LEMMA MapTyped ==
    ASSUME Basics, NEW uuid \in Uuid, NEW node \in Entries
    PROVE  /\ \A u \in DOMAIN channel_map : u \in Uuid /\ channel_map[u] \in Entries
           /\ LET after == insert_channel(channel_map, uuid, node)
              IN  /\ \E uuids \in SUBSET Uuid : after \in [uuids -> Entries]
                  /\ IsFiniteSet(DOMAIN after)
  <1>1. PICK uuids \in SUBSET Uuid : channel_map \in [uuids -> Entries]
    BY Types DEF Basics
  <1>2. /\ uuids \union {uuid} \in SUBSET Uuid
        /\ Put(channel_map, uuid, node) \in [uuids \union {uuid} -> Entries]
    BY <1>1, PutTyped
  <1>3. IsFiniteSet(DOMAIN channel_map \union {uuid})
    BY FS_AddElement DEF Basics
  <1>4. QED
    BY <1>1, <1>2, <1>3, PutEntries DEF insert_channel

-----------------------------------------------------------------------------
(* Type correctness.                                                       *)

\* What the super peers do keeps the types.
LEMMA SpStepBasics ==
    ASSUME SpTrackerAssumption, Basics, NEW s \in Sp, SpNext(s)
    PROVE  Basics'
  <1>1. /\ sp \in [Sp -> SpNodes] /\ sp[s] \in SpNodes
        /\ network \subseteq Packet
    BY Types DEF Basics
  <1>2. UNCHANGED tracker
    BY DEF SpNext, SourceMoves, SpStops, TimeoutRegister, TimeoutResList,
           TimeoutSpList, GetWelcome, tracker
  <1>3. ASSUME /\ sp' \in [Sp -> SpNodes]
               /\ \A t \in Sp : sp'[t].register_flag => sp'[t].sp_id \in Uuid
               /\ network' \subseteq Packet
        PROVE  Basics'
    <2>1. TypeOK'
      BY <1>2, <1>3, Types DEF Basics, TypeOK, SpNodes, tracker
    <2>2. QED
      BY <2>1, <1>2, <1>3 DEF Basics, tracker
  <1>4. ASSUME NEW ch \in Channel, SourceMoves(s, ch)
        PROVE  Basics'
    <2>1. PICK n \in 0 .. MaxBlock :
            sp' = [sp EXCEPT ![s].sources = Put(@, ch, n)]
      <3> DEFINE newest == IF ch \in DOMAIN sp[s].sources THEN sp[s].sources[ch] + 1 ELSE 0
      <3>1. newest <= MaxBlock /\ sp' = [sp EXCEPT ![s].sources = Put(@, ch, newest)]
        BY <1>4 DEF SourceMoves
      <3>2. ch \in DOMAIN sp[s].sources => sp[s].sources[ch] \in 0 .. MaxBlock
        BY <1>1, SpNodeFields, ResourceValues
      <3>3. newest \in 0 .. MaxBlock
        BY <3>1, <3>2 DEF SpTrackerAssumption
      <3>4. QED
        BY <3>1, <3>3
    <2>2. Put(sp[s].sources, ch, n) \in Resources
      BY <1>1, SpNodeFields, NewBlockTyped
    <2>3. sp' \in [Sp -> SpNodes]
      BY <1>1, <2>1, <2>2, SpNodeFields
    <2>4. \A t \in Sp : /\ sp'[t].register_flag = sp[t].register_flag
                        /\ sp'[t].sp_id = sp[t].sp_id
      BY <1>1, <2>1 DEF SpNodes
    <2>5. network' = network
      BY <1>4 DEF SourceMoves
    <2>6. QED
      BY <1>1, <1>3, <2>3, <2>4, <2>5 DEF Basics
  <1>5. CASE SpStops(s)
    <2>1. sp' \in [Sp -> SpNodes]
      BY <1>1, <1>5, SpNodeFields DEF SpStops
    <2>2. \A t \in Sp : /\ sp'[t].register_flag = sp[t].register_flag
                        /\ sp'[t].sp_id = sp[t].sp_id
      BY <1>1, <1>5 DEF SpStops, SpNodes
    <2>3. QED
      BY <1>1, <1>3, <1>5, <2>1, <2>2 DEF SpStops, Basics
  <1>6. ASSUME NEW m \in Packet, network' = network \union {m}, sp' = sp
        PROVE  Basics'
    BY <1>1, <1>3, <1>6 DEF Basics
  <1>7. CASE TimeoutRegister(s)
    <2>1. send_register(s) \in Packet
      BY DEF send_register, Packet
    <2>2. QED
      BY <1>6, <1>7, <2>1 DEF TimeoutRegister
  <1>8. CASE TimeoutResList(s)
    <2>1. sp[s].sp_id \in Uuid /\ sp[s].sources \in Resources
      BY <1>1, <1>8, SpNodeFields DEF TimeoutResList, Basics
    <2>2. send_res_list(s) \in Packet
      BY <2>1 DEF send_res_list, Packet
    <2>3. QED
      BY <1>6, <1>8, <2>2 DEF TimeoutResList
  <1>9. CASE TimeoutSpList(s)
    <2>1. sp[s].sp_id \in Uuid
      BY <1>9 DEF TimeoutSpList, Basics
    <2>2. send_sp_list(s) \in Packet
      BY <2>1 DEF send_sp_list, Packet
    <2>3. QED
      BY <1>6, <1>9, <2>2 DEF TimeoutSpList
  <1>10. ASSUME NEW m \in network, GetWelcome(s, m)
         PROVE  Basics'
    <2>1. m.uuid \in Uuid
      BY <1>1, <1>10, PacketFields DEF GetWelcome
    <2>2. sp' = [sp EXCEPT ![s] = [@ EXCEPT !.sp_id = m.uuid, !.register_flag = TRUE]]
      BY <1>1, <1>10 DEF GetWelcome
    <2>3. sp' \in [Sp -> SpNodes]
      BY <1>1, <2>1, <2>2, SpNodeFields
    <2>4. \A t \in Sp : sp'[t].register_flag => sp'[t].sp_id \in Uuid
      BY <1>1, <2>1, <2>2 DEF Basics, SpNodes
    <2>5. QED
      BY <1>1, <1>3, <1>10, <2>3, <2>4 DEF GetWelcome
  <1>11. QED
    BY <1>4, <1>5, <1>7, <1>8, <1>9, <1>10 DEF SpNext

\* What the tracker does keeps the types.
LEMMA TrackerStepBasics ==
    ASSUME SpTrackerAssumption, Basics, TrackerNext
    PROVE  Basics'
  <1>1. sp' = sp
    BY DEF TrackerNext, GetRegister, GetResList, ReseedByPlayer, TrackerRestarts, Tick
  <1>2. /\ sp \in [Sp -> SpNodes]
        /\ \E uuids \in SUBSET Uuid : channel_map \in [uuids -> Entries]
        /\ rand \in Uuid /\ now \in 0 .. MaxTime
        /\ reseeds \in 0 .. MaxReseeds /\ restarts \in 0 .. MaxRestarts
        /\ network \subseteq Packet
    BY Types DEF Basics
  <1>3. ASSUME \E uuids \in SUBSET Uuid : channel_map' \in [uuids -> Entries],
               IsFiniteSet(DOMAIN channel_map'),
               rand' \in Uuid, now' \in 0 .. MaxTime,
               reseeds' \in 0 .. MaxReseeds, restarts' \in 0 .. MaxRestarts,
               network' \subseteq Packet
        PROVE  Basics'
    <2>1. TypeOK'
      BY <1>1, <1>2, <1>3 DEF TypeOK, SpNodes, Entries
    <2>2. QED
      BY <1>1, <1>3, <2>1 DEF Basics
  <1>4. ASSUME NEW m \in network, GetRegister(m)
        PROVE  Basics'
    <2>1. m \in Packet /\ m.from \in Sp
      BY <1>2, <1>4, PacketFields DEF GetRegister
    <2>2. NewNode(m.from, now) \in Entries
      <3>1. << >> \in Resources
        <4>1. << >> \in [{} -> 0 .. MaxBlock]
          OBVIOUS
        <4>2. QED
          BY <4>1 DEF Resources
      <3>2. QED
        BY <1>2, <2>1, <3>1 DEF NewNode, Entries, ChannelNodes
    <2>3. Drawn(rand) \in Uuid
      BY <1>2, <1>4 DEF GetRegister, Drawn, Uuid, SpTrackerAssumption
    <2>4. [type |-> "TS2SP_WELCOME", to |-> m.from, uuid |-> rand] \in Packet
      BY <1>2, <2>1 DEF Packet
    <2>5. QED
      BY <1>2, <1>3, <1>4, <2>2, <2>3, <2>4, MapTyped DEF GetRegister
  <1>5. ASSUME NEW m \in network, GetResList(m)
        PROVE  Basics'
    <2>1. m \in Packet /\ m.uuid \in Uuid /\ m.resources \in Resources
      BY <1>2, <1>5, PacketFields DEF GetResList
    <2>2. channel_map[m.uuid] \in Entries
      BY <1>2, <1>5 DEF GetResList, Known
    <2>3. [channel_map[m.uuid] EXCEPT !.resources = m.resources,
                                      !.last_recv_report_time = now] \in Entries
      BY <1>2, <2>1, <2>2, EntryFields
    <2>4. QED
      BY <1>2, <1>3, <1>5, <2>1, <2>3, MapTyped DEF GetResList
  <1>6. CASE ReseedByPlayer
    <2>1. reseeds + 1 \in 0 .. MaxReseeds
      BY <1>2, <1>6 DEF ReseedByPlayer, SpTrackerAssumption
    <2>2. [seed |-> now, drawn |-> 0] \in Uuid
      BY <1>2 DEF Uuid, SpTrackerAssumption
    <2>3. QED
      BY <1>2, <1>3, <1>6, <2>1, <2>2 DEF ReseedByPlayer, Basics
  <1>7. CASE TrackerRestarts
    <2>1. restarts + 1 \in 0 .. MaxRestarts
      BY <1>2, <1>7 DEF TrackerRestarts, SpTrackerAssumption
    <2>2. [seed |-> Unseeded, drawn |-> 0] \in Uuid
      BY DEF Uuid, SpTrackerAssumption
    <2>3. << >> \in [{} -> Entries] /\ IsFiniteSet({})
      BY FS_EmptySet
    <2>4. DOMAIN channel_map' = {}
      BY <1>7 DEF TrackerRestarts
    <2>5. \E uuids \in SUBSET Uuid : channel_map' \in [uuids -> Entries]
      BY <1>7, <2>3 DEF TrackerRestarts
    <2>6. QED
      BY <1>2, <1>3, <1>7, <2>1, <2>2, <2>3, <2>4, <2>5 DEF TrackerRestarts
  <1>8. CASE Tick
    <2>1. now + 1 \in 0 .. MaxTime /\ 0 \in 0 .. MaxReseeds
      BY <1>2, <1>8 DEF Tick, SpTrackerAssumption
    <2>2. QED
      BY <1>2, <1>3, <1>8, <2>1 DEF Tick, Basics
  <1>9. QED
    BY <1>4, <1>5, <1>6, <1>7, <1>8 DEF TrackerNext

\* A step in which nothing happens keeps everything.
LEMMA StutterBasics ==
    ASSUME Basics, UNCHANGED vars
    PROVE  Basics'
  <1>1. TypeOK'
    BY DEF Basics, TypeOK, vars
  <1>2. QED
    BY <1>1 DEF Basics, vars

\* In the beginning nothing is known and nothing was sent.
LEMMA InitBasics ==
    ASSUME SpTrackerAssumption, Init
    PROVE  Basics
  <1>1. << >> \in Resources
    <2>1. << >> \in [{} -> 0 .. MaxBlock]
      OBVIOUS
    <2>2. QED
      BY <2>1 DEF Resources
  <1>2. sp \in [Sp -> SpNodes]
    BY <1>1 DEF Init, SpNodes
  <1>3. channel_map \in [{} -> Entries] /\ DOMAIN channel_map = {}
    BY DEF Init
  <1>4. rand \in Uuid /\ now \in 0 .. MaxTime /\ reseeds \in 0 .. MaxReseeds
        /\ restarts \in 0 .. MaxRestarts /\ network \subseteq Packet
    BY DEF Init, Uuid, SpTrackerAssumption
  <1>5. \E uuids \in SUBSET Uuid : channel_map \in [uuids -> Entries]
    <2>1. {} \in SUBSET Uuid
      OBVIOUS
    <2>2. QED
      BY <1>3, <2>1
  <1>6. TypeOK
    BY <1>2, <1>4, <1>5, Types
  <1>7. QED
    BY <1>3, <1>6, FS_EmptySet DEF Basics, Init

-----------------------------------------------------------------------------
(* What lists promise.                                                     *)

\* A channel never goes away, and its newest block only grows.
LEMMA BlocksStay ==
    ASSUME Basics, [Next]_vars, NEW s \in Sp, NEW resources \in Resources, Has(s, resources)
    PROVE  Has(s, resources)'
  <1>1. sp \in [Sp -> SpNodes]
    BY Types DEF Basics
  <1>2. ASSUME sp'[s].sources = sp[s].sources
        PROVE  Has(s, resources)'
    BY <1>2 DEF Has
  <1>3. ASSUME NEW t \in Sp, NEW ch \in Channel, SourceMoves(t, ch)
        PROVE  Has(s, resources)'
    <2> DEFINE newest == IF ch \in DOMAIN sp[t].sources THEN sp[t].sources[ch] + 1 ELSE 0
    <2>1. sp' = [sp EXCEPT ![t].sources = Put(@, ch, newest)]
      BY <1>3 DEF SourceMoves
    <2>2. sp'[s].sources = IF s = t THEN Put(sp[s].sources, ch, newest) ELSE sp[s].sources
      BY <1>1, <2>1 DEF SpNodes
    <2> HIDE DEF newest
    <2>3. CASE s = t
      <3> DEFINE before == sp[s].sources
      <3>0. /\ DOMAIN sp'[s].sources = DOMAIN before \union {ch}
            /\ sp'[s].sources[ch] = newest
            /\ \A z \in DOMAIN before : z # ch => sp'[s].sources[z] = before[z]
        <4>1. PICK after : after = sp'[s].sources
          OBVIOUS
        <4>2. after = Put(before, ch, newest)
          BY <4>1, <2>2, <2>3
        <4> HIDE DEF before
        <4>3. /\ DOMAIN after = DOMAIN before \union {ch}
              /\ after[ch] = newest
              /\ \A z \in DOMAIN before : z # ch => after[z] = before[z]
          BY <4>2 DEF Put
        <4>4. QED
          BY <4>1, <4>3
      <3>1. ASSUME NEW k \in DOMAIN resources
            PROVE  k \in DOMAIN sp'[s].sources /\ resources[k] <= sp'[s].sources[k]
        <4>1. k \in DOMAIN sp[s].sources /\ resources[k] <= sp[s].sources[k]
          BY <3>1 DEF Has
        <4>2. resources[k] \in Int /\ sp[s].sources[k] \in Int
          BY <1>1, <4>1, ResourceValues, SpNodeFields
        <4>3. k \in DOMAIN sp'[s].sources
          BY <3>0, <4>1
        <4>4. sp'[s].sources[k] = IF k = ch THEN newest ELSE sp[s].sources[k]
          BY <3>0, <4>1
        <4>5. k = ch => newest = sp[s].sources[k] + 1
          BY <2>3, <4>1 DEF newest
        <4>6. QED
          BY <4>1, <4>2, <4>3, <4>4, <4>5
      <3>2. QED
        BY <3>1 DEF Has
    <2>4. QED
      BY <2>2, <2>3, <1>2
  <1>4. ASSUME NEW t \in Sp, SpStops(t)
        PROVE  Has(s, resources)'
    <2>1. sp'[s].sources = sp[s].sources
      BY <1>1, <1>4 DEF SpStops, SpNodes
    <2>2. QED
      BY <1>2, <2>1
  <1>5. ASSUME NEW t \in Sp, NEW m \in network, GetWelcome(t, m)
        PROVE  Has(s, resources)'
    <2>1. sp'[s].sources = sp[s].sources
      BY <1>1, <1>5 DEF GetWelcome, SpNodes
    <2>2. QED
      BY <1>2, <2>1
  <1>6. ASSUME NEW t \in Sp, TimeoutRegister(t) \/ TimeoutResList(t) \/ TimeoutSpList(t)
        PROVE  Has(s, resources)'
    BY <1>2, <1>6 DEF TimeoutRegister, TimeoutResList, TimeoutSpList
  <1>7. CASE TrackerNext
    BY <1>2, <1>7 DEF TrackerNext, GetRegister, GetResList, ReseedByPlayer,
                      TrackerRestarts, Tick
  <1>8. CASE UNCHANGED vars
    BY <1>2, <1>8 DEF vars
  <1>9. QED
    BY <1>3, <1>4, <1>5, <1>6, <1>7, <1>8 DEF Next, SpNext

\* A list says what its sender has when it is sent.
LEMMA ListsStayReal ==
    ASSUME Basics, ListsAreReal, [Next]_vars
    PROVE  ListsAreReal'
  <1>1. sp \in [Sp -> SpNodes] /\ network \subseteq Packet
    BY Types DEF Basics
  <1>2. ASSUME NEW m \in network', m \in network, m.type = "SP2TS_RES_LIST"
        PROVE  Has(m.from, m.resources)'
    <2>1. m.from \in Sp /\ m.resources \in Resources
      BY <1>1, <1>2, PacketFields
    <2>2. PICK s \in Sp : s = m.from
      BY <2>1
    <2>3. PICK resources \in Resources : resources = m.resources
      BY <2>1
    <2>4. Has(s, resources)
      BY <1>2, <2>2, <2>3 DEF ListsAreReal
    <2>5. Has(s, resources)'
      BY <2>4, BlocksStay
    <2>6. QED
      BY <2>2, <2>3, <2>5
  <1>3. ASSUME NEW m \in network', m \notin network, m.type = "SP2TS_RES_LIST"
        PROVE  \E s \in Sp : TimeoutResList(s) /\ m = send_res_list(s)
    <2>1. ASSUME NEW s \in Sp, SpNext(s)
          PROVE  TimeoutResList(s) /\ m = send_res_list(s)
      <3>1. TimeoutResList(s) => m = send_res_list(s)
        BY <1>3 DEF TimeoutResList
      <3>2. ~ TimeoutRegister(s)
        BY <1>3 DEF TimeoutRegister, send_register
      <3>3. ~ TimeoutSpList(s)
        BY <1>3 DEF TimeoutSpList, send_sp_list
      <3>4. ~ (SpStops(s) \/ (\E ch \in Channel : SourceMoves(s, ch))
                \/ (\E n \in network : GetWelcome(s, n)))
        BY <1>3 DEF SpStops, SourceMoves, GetWelcome
      <3>5. QED
        BY <2>1, <3>1, <3>2, <3>3, <3>4 DEF SpNext
    <2>2. ~ TrackerNext
      <3>1. ASSUME NEW n \in network, GetRegister(n)
            PROVE  FALSE
        BY <1>3, <3>1 DEF GetRegister
      <3>2. ASSUME NEW n \in network, GetResList(n)
            PROVE  FALSE
        BY <1>3, <3>2 DEF GetResList
      <3>3. ~ (ReseedByPlayer \/ TrackerRestarts \/ Tick)
        BY <1>3 DEF ReseedByPlayer, TrackerRestarts, Tick
      <3>4. QED
        BY <3>1, <3>2, <3>3 DEF TrackerNext
    <2>3. ~ UNCHANGED vars
      BY <1>3 DEF vars
    <2>4. QED
      BY <2>1, <2>2, <2>3 DEF Next
  <1>4. ASSUME NEW m \in network', m \notin network, m.type = "SP2TS_RES_LIST"
        PROVE  Has(m.from, m.resources)'
    <2>1. PICK s \in Sp : TimeoutResList(s) /\ m = send_res_list(s)
      BY <1>3, <1>4
    <2>2. m.from = s /\ m.resources = sp[s].sources /\ sp' = sp
      BY <2>1 DEF TimeoutResList, send_res_list
    <2>3. \A ch \in DOMAIN sp[s].sources : sp[s].sources[ch] <= sp[s].sources[ch]
      <3>1. sp[s].sources \in Resources
        BY <1>1, SpNodeFields
      <3>2. \A ch \in DOMAIN sp[s].sources : sp[s].sources[ch] \in Int
        BY <3>1, ResourceValues
      <3>3. QED
        BY <3>2
    <2>4. QED
      BY <2>2, <2>3 DEF Has
  <1>5. QED
    BY <1>2, <1>4 DEF ListsAreReal

\* What an entry of the map lists was in a list, or in an entry before.
LEMMA EntriesComeFromLists ==
    ASSUME Basics, [Next]_vars, NEW uuid \in DOMAIN channel_map'
    PROVE  \/ uuid \in DOMAIN channel_map /\ channel_map'[uuid] = channel_map[uuid]
           \/ /\ \E m \in network : GetRegister(m) /\ uuid = rand
                                    /\ channel_map'[uuid] = NewNode(m.from, now)
           \/ /\ uuid \in DOMAIN channel_map
              /\ \E m \in network :
                    /\ GetResList(m) /\ uuid = m.uuid
                    /\ channel_map'[uuid].resources = m.resources
                    /\ channel_map'[uuid].spAddress = channel_map[uuid].spAddress
  <1>1. \A u \in DOMAIN channel_map : channel_map[u] \in Entries
    BY Types DEF Basics
  <1>2. ASSUME NEW m \in network, GetRegister(m)
        PROVE  \/ uuid \in DOMAIN channel_map /\ channel_map'[uuid] = channel_map[uuid]
               \/ uuid = rand /\ channel_map'[uuid] = NewNode(m.from, now)
    <2> DEFINE node == NewNode(m.from, now)
    <2>1. channel_map' = Put(channel_map, rand, node)
      BY <1>2 DEF GetRegister, insert_channel
    <2> HIDE DEF node
    <2>2. /\ uuid = rand \/ uuid \in DOMAIN channel_map
          /\ uuid = rand => channel_map'[uuid] = node
          /\ uuid # rand => channel_map'[uuid] = channel_map[uuid]
      BY <2>1, PutAt
    <2>3. QED
      BY <2>2 DEF node
  <1>3. ASSUME NEW m \in network, GetResList(m)
        PROVE  /\ uuid \in DOMAIN channel_map
               /\ \/ channel_map'[uuid] = channel_map[uuid]
                  \/ /\ uuid = m.uuid
                     /\ channel_map'[uuid].resources = m.resources
                     /\ channel_map'[uuid].spAddress = channel_map[uuid].spAddress
    <2> DEFINE node == [channel_map[m.uuid] EXCEPT !.resources = m.resources,
                                                  !.last_recv_report_time = now]
    <2>1. m.uuid \in DOMAIN channel_map
      BY <1>3 DEF GetResList, Known
    <2>2. channel_map' = Put(channel_map, m.uuid, node)
      BY <1>3 DEF GetResList, insert_channel
    <2>3. node.resources = m.resources /\ node.spAddress = channel_map[m.uuid].spAddress
      BY <1>1, <2>1 DEF Entries, ChannelNodes
    <2> HIDE DEF node
    <2>4. /\ uuid = m.uuid \/ uuid \in DOMAIN channel_map
          /\ uuid = m.uuid => channel_map'[uuid] = node
          /\ uuid # m.uuid => channel_map'[uuid] = channel_map[uuid]
      BY <2>2, PutAt
    <2>5. QED
      BY <2>1, <2>3, <2>4
  <1>4. ASSUME NEW s \in Sp, SpNext(s)
        PROVE  channel_map' = channel_map
    BY <1>4 DEF SpNext, SourceMoves, SpStops, TimeoutRegister, TimeoutResList,
                TimeoutSpList, GetWelcome, tracker
  <1>5. CASE ReseedByPlayer \/ Tick \/ UNCHANGED vars
    BY <1>5 DEF ReseedByPlayer, Tick, vars
  <1>6. CASE TrackerRestarts
    BY <1>6 DEF TrackerRestarts
  <1>7. QED
    BY <1>2, <1>3, <1>4, <1>5, <1>6 DEF Next, TrackerNext

\* What is promised existed when it was promised, and exists since.
LEMMA PromisesHold ==
    ASSUME Basics, ListsAreReal, PromisedBlocksExist, [Next]_vars, Basics'
    PROVE  PromisedBlocksExist'
  <1> USE DEF PromisedBlocksExist
  <1>1. \A u \in DOMAIN channel_map : channel_map[u] \in Entries
    BY Types DEF Basics
  <1>2. ASSUME NEW ch, NEW n \in 0 .. MaxBlock, ch \in Channel,
               NEW s \in Sp, ch \in DOMAIN sp[s].sources, n <= sp[s].sources[ch]
        PROVE  \E t \in Sp : ch \in DOMAIN sp'[t].sources /\ n <= sp'[t].sources[ch]
    <2> DEFINE one == [c \in {ch} |-> n]
    <2>1. one \in Resources
      <3>1. {ch} \in SUBSET Channel /\ one \in [{ch} -> 0 .. MaxBlock]
        BY <1>2
      <3>2. QED
        BY <3>1 DEF Resources
    <2>2. Has(s, one)
      BY <1>2 DEF Has
    <2>3. Has(s, one)'
      <3> HIDE DEF one
      <3>1. QED
        BY <2>1, <2>2, BlocksStay
    <2>4. ch \in DOMAIN one /\ one[ch] = n
      OBVIOUS
    <2>5. QED
      BY <2>3, <2>4 DEF Has
  <1>3. ASSUME NEW uuid \in DOMAIN channel_map', NEW ch \in DOMAIN channel_map'[uuid].resources
        PROVE  \E t \in Sp : /\ ch \in DOMAIN sp'[t].sources
                             /\ channel_map'[uuid].resources[ch] <= sp'[t].sources[ch]
    <2>1. CASE uuid \in DOMAIN channel_map /\ channel_map'[uuid] = channel_map[uuid]
      <3>1. PICK s \in Sp : /\ ch \in DOMAIN sp[s].sources
                            /\ channel_map[uuid].resources[ch] <= sp[s].sources[ch]
        BY <2>1, <1>3
      <3>2. ch \in Channel /\ channel_map[uuid].resources[ch] \in 0 .. MaxBlock
        BY <1>1, <1>3, <2>1, EntryFields, ResourceValues
      <3>3. QED
        BY <3>1, <3>2, <1>2, <2>1
    <2>2. ASSUME NEW m \in network, GetRegister(m), channel_map'[uuid] = NewNode(m.from, now)
          PROVE  FALSE
      BY <2>2, <1>3 DEF NewNode
    <2>3. ASSUME NEW m \in network, GetResList(m), channel_map'[uuid].resources = m.resources
          PROVE  \E t \in Sp : /\ ch \in DOMAIN sp'[t].sources
                               /\ channel_map'[uuid].resources[ch] <= sp'[t].sources[ch]
      <3>1. m \in Packet /\ m.type = "SP2TS_RES_LIST"
        BY <2>3, Types DEF Basics, GetResList
      <3>2. m.from \in Sp /\ m.resources \in Resources
        BY <3>1, PacketFields
      <3>3. Has(m.from, m.resources) /\ sp' = sp
        BY <2>3, <3>1 DEF ListsAreReal, GetResList
      <3>4. QED
        BY <1>3, <2>3, <3>2, <3>3 DEF Has
    <2>4. QED
      BY <2>1, <2>2, <2>3, EntriesComeFromLists
  <1>4. QED
    BY <1>3

-----------------------------------------------------------------------------
(* The tracker's first run.                                                *)

\* A uuid that was drawn before is not drawn now.
LEMMA NotDrawnAgain ==
    ASSUME Basics, UuidsAreFresh
    PROVE  rand \notin DOMAIN channel_map
  <1>1. rand.seed \in Int /\ rand.drawn \in Int
    BY Types, UuidFields DEF Basics
  <1>2. ~ Before(rand, rand)
    BY <1>1 DEF Before
  <1>3. QED
    BY <1>2 DEF UuidsAreFresh

\* As long as the tracker runs, what it keeps a uuid for does not change.
LEMMA OwnersStay ==
    ASSUME Basics, UuidsAreFresh, [Next]_vars, ~ TrackerRestarts,
           NEW s, NEW uuid, Owns(s, uuid)
    PROVE  Owns(s, uuid)'
  <1> USE DEF Owns, Known
  <1>1. ASSUME NEW m \in network, GetRegister(m)
        PROVE  Owns(s, uuid)'
    <2>1. uuid # rand
      BY NotDrawnAgain
    <2>2. PICK node : channel_map' = Put(channel_map, rand, node)
      BY <1>1 DEF GetRegister, insert_channel
    <2>3. QED
      BY <2>1, <2>2 DEF Put
  <1>2. ASSUME NEW m \in network, GetResList(m)
        PROVE  Owns(s, uuid)'
    <2>1. uuid \in DOMAIN channel_map'
      <3>1. PICK node : channel_map' = Put(channel_map, m.uuid, node)
        BY <1>2 DEF GetResList, insert_channel
      <3>2. QED
        BY <3>1 DEF Put
    <2>2. channel_map'[uuid].spAddress = channel_map[uuid].spAddress
      <3>1. uuid # rand
        BY NotDrawnAgain
      <3>2. QED
        BY <2>1, <3>1, EntriesComeFromLists
    <2>3. QED
      BY <2>1, <2>2
  <1>3. ASSUME NEW t \in Sp, SpNext(t)
        PROVE  channel_map' = channel_map
    BY <1>3 DEF SpNext, SourceMoves, SpStops, TimeoutRegister, TimeoutResList,
                TimeoutSpList, GetWelcome, tracker
  <1>4. CASE ReseedByPlayer \/ Tick \/ UNCHANGED vars
    BY <1>4 DEF ReseedByPlayer, Tick, vars
  <1>5. QED
    BY <1>1, <1>2, <1>3, <1>4 DEF Next, TrackerNext

\* The generator moves on: with every uuid drawn, and with every second in
\* which it is seeded.
LEMMA UuidsStayFresh ==
    ASSUME SpTrackerAssumption, MaxReseeds <= 1, Basics, UuidsAreFresh,
           [Next]_vars, ~ TrackerRestarts
    PROVE  UuidsAreFresh'
  <1>1. /\ rand.seed \in Int /\ rand.drawn \in Int /\ now \in Int
        /\ reseeds \in Int /\ reseeds >= 0 /\ MaxReseeds \in Int
        /\ \A u \in DOMAIN channel_map : u \in Uuid
        /\ \A u \in DOMAIN channel_map : u.seed \in Int /\ u.drawn \in Int
    BY Types, UuidFields DEF Basics, SpTrackerAssumption
  <1>2. ASSUME UNCHANGED <<rand, now, reseeds>>, DOMAIN channel_map' = DOMAIN channel_map
        PROVE  UuidsAreFresh'
    BY <1>2 DEF UuidsAreFresh
  <1>3. ASSUME NEW m \in network, GetRegister(m)
        PROVE  UuidsAreFresh'
    <2>1. /\ rand'.seed = rand.seed /\ rand'.drawn = rand.drawn + 1
          /\ now' = now /\ reseeds' = reseeds
      BY <1>3, Types DEF GetRegister, Drawn, Basics, Uuid
    <2>2. ASSUME NEW u \in DOMAIN channel_map'
          PROVE  Before(u, rand')
      <3>1. u = rand \/ u \in DOMAIN channel_map
        BY <1>3 DEF GetRegister, insert_channel, Put
      <3>2. u = rand => Before(u, rand')
        BY <1>1, <2>1 DEF Before
      <3>3. u \in DOMAIN channel_map => Before(u, rand')
        BY <1>1, <2>1 DEF UuidsAreFresh, Before
      <3>4. QED
        BY <3>1, <3>2, <3>3
    <2>3. QED
      BY <2>1, <2>2 DEF UuidsAreFresh
  <1>4. ASSUME NEW m \in network, GetResList(m)
        PROVE  UuidsAreFresh'
    <2>1. DOMAIN channel_map' = DOMAIN channel_map
      BY <1>4 DEF GetResList, Known, insert_channel, Put
    <2>2. QED
      BY <1>2, <1>4, <2>1 DEF GetResList
  <1>5. CASE ReseedByPlayer
    <2>1. reseeds = 0 /\ reseeds' = 1 /\ rand.seed < now
      BY <1>1, <1>5 DEF ReseedByPlayer, UuidsAreFresh
    <2>2. /\ rand'.seed = now /\ rand'.drawn = 0
          /\ now' = now /\ channel_map' = channel_map
      BY <1>5 DEF ReseedByPlayer
    <2>3. ASSUME NEW u \in DOMAIN channel_map
          PROVE  Before(u, rand')
      <3>1. u.seed <= rand.seed
        BY <1>1 DEF UuidsAreFresh, Before
      <3>2. QED
        BY <1>1, <2>1, <2>2, <3>1 DEF Before
    <2>4. QED
      BY <1>1, <2>1, <2>2, <2>3 DEF UuidsAreFresh
  <1>6. CASE Tick
    BY <1>1, <1>6 DEF Tick, UuidsAreFresh
  <1>7. ASSUME NEW s \in Sp, SpNext(s)
        PROVE  UuidsAreFresh'
    <2>1. UNCHANGED tracker
      BY <1>7 DEF SpNext, SourceMoves, SpStops, TimeoutRegister, TimeoutResList,
                  TimeoutSpList, GetWelcome
    <2>2. QED
      BY <1>2, <2>1 DEF tracker
  <1>8. CASE UNCHANGED vars
    BY <1>2, <1>8 DEF vars
  <1>9. QED
    BY <1>3, <1>4, <1>5, <1>6, <1>7, <1>8 DEF Next, TrackerNext

\* A new packet names the uuid its sender was registered with, or the one the
\* tracker just gave.
LEMMA NamesStay ==
    ASSUME Basics, UuidsAreFresh, NamesAgree, [Next]_vars, ~ TrackerRestarts
    PROVE  NamesAgree'
  <1>1. sp \in [Sp -> SpNodes] /\ network \subseteq Packet
    BY Types DEF Basics
  <1>2. ASSUME NEW m \in network
        PROVE  /\ m.type = "TS2SP_WELCOME" => Owns(m.to, m.uuid)'
               /\ m.type \in {"SP2TS_RES_LIST", "SP2TS_GET_SP"} => Owns(m.from, m.uuid)'
    <2>1. PICK to, from, uuid : to = m.to /\ from = m.from /\ uuid = m.uuid
      OBVIOUS
    <2>2. m.type = "TS2SP_WELCOME" => Owns(to, uuid)'
      BY <2>1, OwnersStay DEF NamesAgree
    <2>3. m.type \in {"SP2TS_RES_LIST", "SP2TS_GET_SP"} => Owns(from, uuid)'
      BY <2>1, OwnersStay DEF NamesAgree
    <2>4. QED
      BY <2>1, <2>2, <2>3
  <1>3. ASSUME NEW s \in Sp, sp[s].register_flag, sp'[s].sp_id = sp[s].sp_id
        PROVE  Owns(s, sp[s].sp_id)'
    <2>1. PICK uuid : uuid = sp[s].sp_id
      OBVIOUS
    <2>2. Owns(s, uuid)'
      BY <1>3, <2>1, OwnersStay DEF NamesAgree
    <2>3. QED
      BY <1>3, <2>1, <2>2
  <1>4. ASSUME NEW t \in Sp, SpNext(t),
               \A s \in Sp : /\ sp'[s].register_flag = sp[s].register_flag
                             /\ sp'[s].sp_id = sp[s].sp_id,
               \A m \in network' : \/ m \in network
                                   \/ m.type = "SP2TS_REGISTER"
                                   \/ sp[t].register_flag /\ m = send_res_list(t)
                                   \/ sp[t].register_flag /\ m = send_sp_list(t)
        PROVE  NamesAgree'
    <2>1. ASSUME NEW m \in network'
          PROVE  /\ m.type = "TS2SP_WELCOME" => Owns(m.to, m.uuid)'
                 /\ m.type \in {"SP2TS_RES_LIST", "SP2TS_GET_SP"} => Owns(m.from, m.uuid)'
      <3>1. CASE m \in network
        BY <3>1, <1>2
      <3>2. CASE m.type = "SP2TS_REGISTER"
        BY <3>2
      <3>3. CASE sp[t].register_flag /\ (m = send_res_list(t) \/ m = send_sp_list(t))
        <4>1. /\ m.type # "TS2SP_WELCOME"
              /\ m.from = t /\ m.uuid = sp[t].sp_id
          BY <3>3 DEF send_res_list, send_sp_list
        <4>2. Owns(t, sp[t].sp_id)'
          BY <1>3, <1>4, <3>3
        <4>3. PICK from, uuid : from = m.from /\ uuid = m.uuid
          OBVIOUS
        <4>4. sp'[t].sp_id = uuid
          BY <1>4, <4>1, <4>3
        <4>5. QED
          BY <4>1, <4>2, <4>3, <4>4
      <3>4. QED
        BY <3>1, <3>2, <3>3, <1>4, <2>1
    <2>2. \A s \in Sp : sp'[s].register_flag => Owns(s, sp[s].sp_id)'
      BY <1>3, <1>4
    <2>3. QED
      BY <2>1, <2>2 DEF NamesAgree
  <1>5. ASSUME NEW t \in Sp, SpNext(t)
        PROVE  NamesAgree'
    <2>1. CASE SpStops(t) \/ \E ch \in Channel : SourceMoves(t, ch)
      <3>1. \A s \in Sp : /\ sp'[s].register_flag = sp[s].register_flag
                          /\ sp'[s].sp_id = sp[s].sp_id
        BY <1>1, <2>1 DEF SpStops, SourceMoves, SpNodes
      <3>2. network' = network
        BY <2>1 DEF SpStops, SourceMoves
      <3>3. QED
        BY <1>4, <1>5, <3>1, <3>2
    <2>2. CASE TimeoutRegister(t)
      <3>1. sp' = sp /\ network' = network \union {send_register(t)}
        BY <2>2 DEF TimeoutRegister
      <3>2. QED
        BY <1>4, <1>5, <3>1 DEF send_register
    <2>3. CASE TimeoutResList(t)
      <3>1. /\ sp' = sp /\ sp[t].register_flag
            /\ network' = network \union {send_res_list(t)}
        BY <2>3 DEF TimeoutResList
      <3>2. QED
        BY <1>4, <1>5, <3>1
    <2>4. CASE TimeoutSpList(t)
      <3>1. /\ sp' = sp /\ sp[t].register_flag
            /\ network' = network \union {send_sp_list(t)}
        BY <2>4 DEF TimeoutSpList
      <3>2. QED
        BY <1>4, <1>5, <3>1
    <2>5. ASSUME NEW m \in network, GetWelcome(t, m)
          PROVE  NamesAgree'
      <3>1. m.type = "TS2SP_WELCOME" /\ m.to = t /\ network' = network
        BY <2>5 DEF GetWelcome
      <3>2. /\ sp'[t].sp_id = m.uuid
            /\ \A s \in Sp : s # t => sp'[s] = sp[s]
        BY <1>1, <2>5 DEF GetWelcome, SpNodes
      <3>3. Owns(t, sp[t].sp_id)'
        <4>1. PICK uuid : uuid = m.uuid
          OBVIOUS
        <4>2. Owns(t, uuid)'
          BY <4>1, <3>1, OwnersStay DEF NamesAgree
        <4>3. QED
          BY <4>1, <4>2, <3>2
      <3>4. \A s \in Sp : sp'[s].register_flag => Owns(s, sp[s].sp_id)'
        BY <3>2, <3>3, <1>3
      <3>5. QED
        BY <1>2, <3>1, <3>4 DEF NamesAgree
    <2>6. QED
      BY <1>5, <2>1, <2>2, <2>3, <2>4, <2>5 DEF SpNext
  <1>6. ASSUME sp' = sp, network' = network
        PROVE  NamesAgree'
    <2>1. \A s \in Sp : sp'[s].register_flag => Owns(s, sp[s].sp_id)'
      BY <1>3, <1>6
    <2>2. QED
      BY <1>2, <1>6, <2>1 DEF NamesAgree
  <1>7. ASSUME NEW m \in network, GetRegister(m)
        PROVE  NamesAgree'
    <2>1. /\ sp' = sp
          /\ network' = network \union
                {[type |-> "TS2SP_WELCOME", to |-> m.from, uuid |-> rand]}
      BY <1>7 DEF GetRegister
    <2>2. PICK uuid : uuid = rand
      OBVIOUS
    <2>3. Owns(m.from, uuid)'
      <3>1. channel_map' = Put(channel_map, uuid, NewNode(m.from, now))
        BY <1>7, <2>2 DEF GetRegister, insert_channel
      <3>2. channel_map'[uuid] = NewNode(m.from, now) /\ uuid \in DOMAIN channel_map'
        BY <3>1 DEF Put
      <3>3. QED
        BY <3>2 DEF Owns, Known, NewNode
    <2>4. ASSUME NEW n \in network'
          PROVE  /\ n.type = "TS2SP_WELCOME" => Owns(n.to, n.uuid)'
                 /\ n.type \in {"SP2TS_RES_LIST", "SP2TS_GET_SP"} => Owns(n.from, n.uuid)'
      <3>1. CASE n \in network
        BY <3>1, <1>2
      <3>2. CASE n = [type |-> "TS2SP_WELCOME", to |-> m.from, uuid |-> rand]
        BY <3>2, <2>2, <2>3
      <3>3. QED
        BY <3>1, <3>2, <2>1, <2>4
    <2>5. \A s \in Sp : sp'[s].register_flag => Owns(s, sp[s].sp_id)'
      BY <1>3, <2>1
    <2>6. QED
      BY <2>4, <2>5 DEF NamesAgree
  <1>8. ASSUME (\E m \in network : GetResList(m)) \/ ReseedByPlayer \/ Tick \/ UNCHANGED vars
        PROVE  sp' = sp /\ network' = network
    BY <1>8 DEF GetResList, ReseedByPlayer, Tick, vars
  <1>9. QED
    BY <1>5, <1>6, <1>7, <1>8 DEF Next, TrackerNext

\* An entry is written with the list of the super peer it stands for.
LEMMA SourcesStayReal ==
    ASSUME Basics, ListsAreReal, UuidsAreFresh, NamesAgree, SourcesAreReal,
           restarts = 0, [Next]_vars
    PROVE  SourcesAreReal'
  <1>1. \A u \in DOMAIN channel_map : channel_map[u] \in Entries
    BY Types DEF Basics
  <1>2. \A u \in DOMAIN channel_map :
            Has(channel_map[u].spAddress, channel_map[u].resources)
    BY DEF SourcesAreReal, Has
  <1>3. ASSUME NEW uuid \in DOMAIN channel_map'
        PROVE  \E s \in Sp : \E resources :
                    /\ channel_map'[uuid].spAddress = s
                    /\ channel_map'[uuid].resources = resources
                    /\ Has(s, resources)'
    <2>1. CASE uuid \in DOMAIN channel_map /\ channel_map'[uuid] = channel_map[uuid]
      <3>1. channel_map[uuid].spAddress \in Sp /\ channel_map[uuid].resources \in Resources
        BY <1>1, <2>1, EntryFields
      <3>2. PICK s \in Sp, resources \in Resources :
                s = channel_map[uuid].spAddress /\ resources = channel_map[uuid].resources
        BY <3>1
      <3>3. Has(s, resources)
        BY <1>2, <2>1, <3>2
      <3>4. Has(s, resources)'
        BY <3>3, BlocksStay
      <3>5. QED
        BY <2>1, <3>2, <3>4
    <2>2. ASSUME NEW m \in network, GetRegister(m), channel_map'[uuid] = NewNode(m.from, now)
          PROVE  \E s \in Sp : \E resources :
                    /\ channel_map'[uuid].spAddress = s
                    /\ channel_map'[uuid].resources = resources
                    /\ Has(s, resources)'
      <3>1. m \in Packet
        BY <2>2, Types DEF Basics
      <3>2. m.from \in Sp
        BY <2>2, <3>1, PacketFields DEF GetRegister
      <3>3. /\ channel_map'[uuid].spAddress = m.from
            /\ channel_map'[uuid].resources = << >>
        BY <2>2 DEF NewNode
      <3>4. Has(m.from, << >>)'
        BY DEF Has
      <3>5. QED
        BY <3>2, <3>3, <3>4 DEF Has
    <2>3. ASSUME NEW m \in network, GetResList(m), uuid = m.uuid,
                 uuid \in DOMAIN channel_map,
                 channel_map'[uuid].resources = m.resources,
                 channel_map'[uuid].spAddress = channel_map[uuid].spAddress
          PROVE  \E s \in Sp : \E resources :
                    /\ channel_map'[uuid].spAddress = s
                    /\ channel_map'[uuid].resources = resources
                    /\ Has(s, resources)'
      <3>1. m.type = "SP2TS_RES_LIST" /\ sp' = sp
        BY <2>3 DEF GetResList
      <3>2. channel_map[uuid].spAddress = m.from
        BY <2>3, <3>1 DEF NamesAgree, Owns
      <3>3. Has(m.from, m.resources)'
        BY <3>1 DEF ListsAreReal, Has
      <3>4. channel_map[uuid].spAddress \in Sp
        BY <1>1, <2>3, EntryFields
      <3>5. QED
        BY <2>3, <3>2, <3>3, <3>4 DEF Has
    <2>4. QED
      BY <2>1, <2>2, <2>3, EntriesComeFromLists
  <1>4. QED
    BY <1>3 DEF SourcesAreReal, Has

\* The first run of the tracker goes on, or it is over.
LEMMA FirstRunGoesOn ==
    ASSUME SpTrackerAssumption, MaxReseeds <= 1, Basics, ListsAreReal, FirstRun,
           [Next]_vars
    PROVE  FirstRun'
  <1>1. restarts \in Nat
    BY Types DEF Basics, SpTrackerAssumption
  <1>2. ASSUME restarts' = 0
        PROVE  restarts = 0 /\ ~ TrackerRestarts
    <2>1. ~ TrackerRestarts
      BY <1>1, <1>2 DEF TrackerRestarts
    <2>2. restarts' = restarts
      <3>1. ASSUME NEW s \in Sp, SpNext(s)
            PROVE  restarts' = restarts
        BY <3>1 DEF SpNext, SourceMoves, SpStops, TimeoutRegister, TimeoutResList,
                    TimeoutSpList, GetWelcome, tracker
      <3>2. ASSUME TrackerNext
            PROVE  restarts' = restarts
        BY <3>2, <2>1 DEF TrackerNext, GetRegister, GetResList, ReseedByPlayer, Tick
      <3>3. UNCHANGED vars => restarts' = restarts
        BY DEF vars
      <3>4. QED
        BY <3>1, <3>2, <3>3 DEF Next
    <2>3. QED
      BY <1>2, <2>1, <2>2
  <1>3. QED
    BY <1>2, UuidsStayFresh, NamesStay, SourcesStayReal DEF FirstRun

-----------------------------------------------------------------------------
(* The theorems.                                                           *)

\* What is known whatever becomes of the tracker.
THEOREM Invariance == Spec => [](Basics /\ ListsAreReal /\ PromisedBlocksExist)
  <1> USE SpTrackerAssumption
  <1>1. Init => Basics /\ ListsAreReal /\ PromisedBlocksExist
    BY InitBasics DEF Init, ListsAreReal, PromisedBlocksExist
  <1>2. Basics /\ [Next]_vars => Basics'
    BY SpStepBasics, TrackerStepBasics, StutterBasics DEF Next
  <1>3. Basics /\ ListsAreReal /\ PromisedBlocksExist /\ [Next]_vars
            => (Basics /\ ListsAreReal /\ PromisedBlocksExist)'
    BY <1>2, ListsStayReal, PromisesHold
  <1>4. QED
    BY <1>1, <1>3, PTL DEF Spec

\* Whatever order packets arrive in, and how often, and whenever the tracker
\* stops and starts: entries, uuids and lists are what the code takes them for.
THEOREM TypeCorrect == Spec => []TypeOK
  <1>1. Basics => TypeOK
    BY DEF Basics
  <1>2. QED
    BY <1>1, Invariance, PTL

\* No entry of the map promises a block that no super peer ever had, also when
\* uuids collide or come from an earlier run of the tracker: get_res_list takes
\* every list as a whole, and a super peer's channels only grow.
THEOREM PromisesCorrect == Spec => []PromisedBlocksExist
  BY Invariance, PTL

\* What holds until the tracker is started again, when players make it seed
\* rand() at most once in a second.
THEOREM FirstRunInvariance == ASSUME MaxReseeds <= 1 PROVE Spec => []FirstRun
  <1> USE SpTrackerAssumption
  <1>1. Init => FirstRun
    BY DEF Init, FirstRun, UuidsAreFresh, NamesAgree, SourcesAreReal, Unseeded
  <1>2. Basics /\ ListsAreReal /\ FirstRun /\ [Next]_vars => FirstRun'
    BY FirstRunGoesOn
  <1>3. QED
    BY <1>1, <1>2, Invariance, PTL DEF Spec

\* Then the tracker knows every super peer that thinks it is registered: no
\* registration takes the entry of another, whichever of them and of their
\* welcomes are lost, late or doubled.
THEOREM RegisteredCorrect == ASSUME MaxReseeds <= 1 PROVE Spec => []RegisteredIsKnown
  <1>1. FirstRun => RegisteredIsKnown
    BY DEF FirstRun, NamesAgree, Owns, RegisteredIsKnown
  <1>2. QED
    BY <1>1, FirstRunInvariance, PTL

\* Then players are sent only to super peers that have the channel, and are
\* promised no block that the super peer never had.
THEOREM SourcesCorrect == ASSUME MaxReseeds <= 1 PROVE Spec => []SourcesAreReal
  <1>1. FirstRun => SourcesAreReal
    BY DEF FirstRun, SourcesAreReal
  <1>2. QED
    BY <1>1, FirstRunInvariance, PTL

\* Then get_cp_address writes no address behind the array it made for them:
\* the asker has an entry, so at least one is left out.
THEOREM SpListCorrect == ASSUME MaxReseeds <= 1 PROVE Spec => []SpListFits
  <1>1. ASSUME Basics, FirstRun
        PROVE  SpListFits
    <2>1. ASSUME NEW m \in network, restarts = 0, m.type = "SP2TS_GET_SP"
          PROVE  SpListAnswer(m).written <= SpListAnswer(m).room
      <3> DEFINE others == {other \in DOMAIN channel_map :
                    Known(channel_map, m.uuid) =>
                        channel_map[other].spAddress # channel_map[m.uuid].spAddress}
                 left == DOMAIN channel_map \ {m.uuid}
                 room == Cardinality(DOMAIN channel_map) - 1
      <3>1. Known(channel_map, m.uuid)
        BY <1>1, <2>1 DEF FirstRun, NamesAgree, Owns
      <3>2. others \subseteq left
        BY <3>1
      <3>3. IsFiniteSet(left) /\ Cardinality(left) = room
        BY <1>1, <3>1, FS_RemoveElement DEF Basics, Known
      <3>4. IsFiniteSet(others) /\ Cardinality(others) <= Cardinality(left)
        BY <3>2, <3>3, FS_Subset
      <3>5. SpListAnswer(m) = IF room <= 0 THEN [room |-> 0, written |-> 0]
                              ELSE [room |-> room, written |-> Cardinality(others)]
        BY DEF SpListAnswer, get_cp_address
      <3> HIDE DEF others, left, room
      <3>6. QED
        BY <3>3, <3>4, <3>5
    <2>2. QED
      BY <2>1 DEF SpListFits
  <1>2. QED
    BY <1>1, Invariance, FirstRunInvariance, PTL

\* Then one uuid is never used by two super peers: that rand() is seeded twice
\* in a second, or that the tracker forgets what it gave, is the only way to it.
THEOREM UuidsCorrect ==
    ASSUME MaxReseeds <= 1
    PROVE  Spec => [](restarts = 0 => UuidNamesOneSuperPeer)
  <1>1. FirstRun => (restarts = 0 => UuidNamesOneSuperPeer)
    BY DEF FirstRun, NamesAgree, Owns, UuidNamesOneSuperPeer
  <1>2. QED
    BY <1>1, FirstRunInvariance, PTL
====
