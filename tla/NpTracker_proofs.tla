---- MODULE NpTracker_proofs ----
(***************************************************************************)
(* Theorems about NpTracker, for any players, channels, blocks and uuids.  *)
(***************************************************************************)
EXTENDS NpTracker, FiniteSetTheorems, SequenceTheorems, WellFoundedInduction, TLAPS

(***************************************************************************)
(* The inductive invariant.  A uuid may have gone to several players, and  *)
(* then nothing is said of it.  Of a uuid that went to one player at most, *)
(* all that is known and all that is under way is true of that player.     *)
(***************************************************************************)

RandOK ==
    /\ rand \in [seeded : BOOLEAN, uuids : Seq(DOMAIN given), drawn : Nat]
    /\ rand.drawn <= Len(rand.uuids)

Alone(u, p) == given[u] \subseteq {p}

Stays(p) == ~ player[p].switched

\* The player had the block, on its channel if it never left that.
Has(p, b) ==
    /\ \E ch \in Channel : <<p, ch, b>> \in had
    /\ Stays(p) => <<p, player[p].channel, b>> \in had

\* A node is on no channel before its first REQ_RES, whatever it reported.
OnChannel(p, ch) == Stays(p) => ch \in {NoChannel, player[p].channel}

PlayersHad ==
    \A p \in Player : \A b \in player[p].blocks : <<p, player[p].channel, b>> \in had

NodeIsReal(u, p) ==
    /\ OnChannel(p, npnode_map[u].channelID_md5)
    /\ \A b \in npnode_map[u].intervalArray : Has(p, b)

NodesAreReal ==
    \A u \in DOMAIN npnode_map :
        /\ npnode_map[u].clientAddress \in given[u]
        /\ \A p \in Player : Alone(u, p) => NodeIsReal(u, p)

PacketIsReal(m, p) ==
    /\ m.type = "NP2TS_REQ_RES" => OnChannel(p, m.resource)
    /\ m.type = "NP2TS_REPORT" => \A b \in m.blocks : Has(p, b)

PacketsAreReal ==
    \A m \in network :
        m.type # "NP2TS_LOGIN" =>
            /\ m.uuid \in DOMAIN given
            /\ \A p \in Player : Alone(m.uuid, p) => PacketIsReal(m, p)

SearchIsReal ==
    search # NoSearch =>
        /\ \A p \in Player : Alone(search.uuid, p) => OnChannel(p, search.resHash)
        /\ \A u \in search.pPeerInfo :
            Fits(search.uuid, search.resHash, search.currentblockID, u)

IInv == TypeOK /\ PlayersHad /\ NodesAreReal /\ PacketsAreReal /\ SearchIsReal

-----------------------------------------------------------------------------
(* rand().                                                                 *)

\* Whether the seed is new or not, what is left to draw is as before.
LEMMA SeedsTyped ==
    ASSUME TypeOK, Seeds, given' = given
    PROVE  RandOK'
  <1>1. CASE rand' = NewSeed
    <2>1. << >> \in Seq(DOMAIN given) /\ Len(<< >>) = 0
      OBVIOUS
    <2>2. rand'.drawn = 0 /\ Len(rand'.uuids) = 0
      BY <1>1, <2>1 DEF NewSeed
    <2>3. rand' \in [seeded : BOOLEAN, uuids : Seq(DOMAIN given), drawn : Nat]
      BY <1>1, <2>1 DEF NewSeed
    <2>4. QED
      BY <2>2, <2>3 DEF RandOK
  <1>2. CASE rand' = [rand EXCEPT !.drawn = 0]
    BY <1>2 DEF RandOK, TypeOK
  <1>3. QED
    BY <1>1, <1>2 DEF Seeds

\* The uuid drawn is the last of those drawn since the seeding, and the players
\* it goes to have it besides those that had it.
LEMMA DrawsTyped ==
    ASSUME TypeOK, NEW u \in Uuid, NEW players \in SUBSET Player,
           Draws(u), given' = Given(u, players)
    PROVE  /\ RandOK'
           /\ rand'.drawn = rand.drawn + 1 /\ rand'.uuids[rand'.drawn] = u
           /\ DOMAIN given' = DOMAIN given \union {u} /\ DOMAIN given' \subseteq Uuid
           /\ \A v \in DOMAIN given' : given'[v] \subseteq Player
           /\ \A v \in DOMAIN given : given[v] \subseteq given'[v]
           /\ \A v \in DOMAIN given \ {u} : given'[v] = given[v]
           /\ players \subseteq given'[u]
  <1> DEFINE again == rand.drawn < Len(rand.uuids)
             D == DOMAIN given
             s == rand.uuids
             n == rand.drawn
  <1>1. /\ s \in Seq(D) /\ n \in Nat /\ n <= Len(s) /\ Len(s) \in Nat
        /\ rand \in [seeded : BOOLEAN, uuids : Seq(D), drawn : Nat]
    BY DEF TypeOK
  <1>2. DOMAIN given' = D \union {u}
    BY DEF Given
  <1>3. /\ \A v \in DOMAIN given' : given'[v] \subseteq Player
        /\ \A v \in D : given[v] \subseteq given'[v]
        /\ \A v \in D \ {u} : given'[v] = given[v]
        /\ players \subseteq given'[u]
    BY DEF Given, TypeOK
  <1>4. D \union {u} \subseteq Uuid
    BY DEF TypeOK
  <1>5. /\ rand' = [rand EXCEPT !.uuids = IF again THEN s ELSE Append(s, u),
                                !.drawn = n + 1]
        /\ again => u = s[n + 1]
    BY DEF Draws
  <1> DEFINE t == IF again THEN s ELSE Append(s, u)
  <1>6. t \in Seq(D \union {u}) /\ n + 1 <= Len(t) /\ t[n + 1] = u
    <2>1. s \in Seq(D \union {u})
      BY <1>1
    <2>2. CASE again
      BY <1>1, <1>5, <2>1, <2>2
    <2>3. CASE ~ again
      <3>1. n = Len(s)
        BY <1>1, <2>3
      <3>2. /\ Append(s, u) \in Seq(D \union {u})
            /\ Len(Append(s, u)) = Len(s) + 1
            /\ Append(s, u)[Len(s) + 1] = u
        BY <2>1, AppendProperties
      <3>3. QED
        BY <1>1, <2>3, <3>1, <3>2
    <2>4. QED
      BY <2>2, <2>3
  <1>7. /\ rand'.uuids = t /\ rand'.drawn = n + 1
        /\ rand' \in [seeded : BOOLEAN, uuids : Seq(D \union {u}), drawn : Nat]
    <2>1. rand' = [rand EXCEPT !.uuids = t, !.drawn = n + 1]
      BY <1>5
    <2> DEFINE A == Seq(D)
               E == Seq(D \union {u})
    <2>2. rand \in [seeded : BOOLEAN, uuids : A, drawn : Nat] /\ t \in E /\ n + 1 \in Nat
      BY <1>1, <1>6
    <2> HIDE DEF t, n, A, E
    <2>3. rand'.uuids = t /\ rand'.drawn = n + 1
      BY <2>1, <2>2
    <2>4. rand' \in [seeded : BOOLEAN, uuids : E, drawn : Nat]
      BY <2>1, <2>2
    <2>5. QED
      BY <2>3, <2>4 DEF E
  <1>8. RandOK'
    <2> HIDE DEF t
    <2>1. QED
      BY <1>2, <1>6, <1>7 DEF RandOK
  <1> HIDE DEF t, n
  <1>9. rand'.drawn = rand.drawn + 1 /\ rand'.uuids[rand'.drawn] = u
    BY <1>6, <1>7 DEF n
  <1>10. QED
    BY <1>2, <1>3, <1>4, <1>8, <1>9

-----------------------------------------------------------------------------
(* Nodes that come back.                                                   *)

\* Only get_login makes a node, of the uuid it has drawn; the others write
\* nodes that are there.
LEMMA OnlyLoginMakesNodes ==
    ASSUME TypeOK, [Next]_vars, NEW u \in Uuid, ~ Known(u), Known(u)'
    PROVE  /\ rand'.drawn = rand.drawn + 1 /\ rand'.uuids[rand'.drawn] = u
           /\ npnode_map'[u].channelID_md5 = NoChannel
           /\ npnode_map'[u].intervalArray = {}
  <1> DEFINE New ==
                /\ rand'.drawn = rand.drawn + 1 /\ rand'.uuids[rand'.drawn] = u
                /\ npnode_map'[u].channelID_md5 = NoChannel
                /\ npnode_map'[u].intervalArray = {}
  <1>1. ASSUME NEW m \in network, GetLogin(m)
        PROVE  New
    <2>1. PICK v \in Uuid :
            /\ Draws(v) /\ given' = Given(v, {m.from})
            /\ npnode_map' = insert_Node(v, [clientAddress |-> m.from,
                                             channelID_md5 |-> NoChannel,
                                             intervalArray |-> {}])
      BY <1>1 DEF GetLogin
    <2>2. u = v
      BY <2>1 DEF insert_Node, Known
    <2>3. {m.from} \in SUBSET Player
      BY <1>1 DEF GetLogin, TypeOK, Packet
    <2>4. rand'.drawn = rand.drawn + 1 /\ rand'.uuids[rand'.drawn] = u
      BY <2>1, <2>2, <2>3, DrawsTyped
    <2>5. /\ npnode_map'[u].channelID_md5 = NoChannel
          /\ npnode_map'[u].intervalArray = {}
      BY <2>1, <2>2 DEF insert_Node
    <2>6. QED
      BY <2>4, <2>5
  <1>2. ASSUME NEW m \in network, GetReport(m)
        PROVE  FALSE
    BY <1>2 DEF GetReport, insert_Node, Known
  <1>3. ASSUME NEW m \in network, GetLogout(m)
        PROVE  FALSE
    BY <1>3 DEF GetLogout, deleteNode, Known
  <1>4. ~ SendPeers
    BY DEF SendPeers, MayAnswer, insert_Node, Known
  <1>5. npnode_map' # npnode_map
    BY DEF Known
  <1>6. ASSUME NEW m \in network, GetReqRes(m) \/ GetNeedPeers(m)
        PROVE  FALSE
    BY <1>5, <1>6 DEF GetReqRes, GetNeedPeers
  <1>7. ~ SearchRound
    BY <1>5 DEF SearchRound
  <1>8. ASSUME NEW p \in Player, PlayerNext(p)
        PROVE  FALSE
    BY <1>5, <1>8 DEF PlayerNext, Switches, GetsBlock, Becomes
  <1>9. ~ DrawForOther
    BY <1>5 DEF DrawForOther
  <1>10. ~ UNCHANGED vars
    BY <1>5 DEF vars
  <1> HIDE DEF New
  <1>11. New
    BY <1>1, <1>2, <1>3, <1>4, <1>6, <1>7, <1>8, <1>9, <1>10 DEF Next, TrackerNext
  <1>12. QED
    BY <1>11 DEF New

-----------------------------------------------------------------------------
(* Packets and peers.                                                      *)

LEMMA PacketFields ==
    ASSUME NEW m \in Packet
    PROVE  /\ m.type \in {"NP2TS_LOGIN", "NP2TS_REQ_RES", "NP2TS_REPORT",
                          "NP2TS_NEED_PEERS", "NP2TS_LOGOUT"}
           /\ m.type = "NP2TS_LOGIN" => m.from \in Player
           /\ m.type # "NP2TS_LOGIN" => m.uuid \in Uuid
           /\ m.type = "NP2TS_REQ_RES" => m.resource \in Channel
           /\ m.type = "NP2TS_REPORT" => m.blocks \in SUBSET Block
           /\ m.type = "NP2TS_NEED_PEERS" => m.block \in Block
  BY DEF Packet

\* What a player sends is of its channel and its blocks at that time.
LEMMA Sendable ==
    ASSUME NEW r \in Players, NEW u \in Uuid, NEW m \in MaySend(r, u)
    PROVE  /\ m \in Packet
           /\ m.type # "NP2TS_LOGIN" /\ m.uuid = u
           /\ m.type = "NP2TS_REQ_RES" => m.resource = r.channel
           /\ m.type = "NP2TS_REPORT" => m.blocks = r.blocks
  <1>1. r.channel \in Channel /\ r.blocks \in SUBSET Block
    BY DEF Players
  <1>2. CASE m = [type |-> "NP2TS_LOGOUT", uuid |-> u]
    BY <1>2 DEF Packet
  <1>3. CASE m = [type |-> "NP2TS_REQ_RES", uuid |-> u, resource |-> r.channel]
    BY <1>1, <1>3 DEF Packet
  <1>4. CASE m \in {[type |-> "NP2TS_NEED_PEERS", uuid |-> u, block |-> b] : b \in Block}
    BY <1>4 DEF Packet
  <1>5. CASE m \in {[type |-> "NP2TS_REPORT", uuid |-> u, blocks |-> blocks] :
                        blocks \in {r.blocks} \ {{}}}
    BY <1>1, <1>5 DEF Packet
  <1>6. QED
    BY <1>2, <1>3, <1>4, <1>5 DEF MaySend

\* A set of natural numbers that is not empty has a least element.
LEMMA LeastElement ==
    ASSUME NEW T \in SUBSET Nat, T # {}
    PROVE  \E x \in T : \A y \in T : x <= y
  <1> DEFINE R == OpToRel(<, Nat)
  <1>1. IsWellFoundedOn(R, Nat)
    BY NatLessThanWellFounded
  <1>2. \A x, y \in Nat : <<y, x>> \in R <=> y < x
    BY DEF OpToRel
  <1> HIDE DEF R
  <1>3. PICK x \in T : \A y \in T : <<y, x>> \notin R
    BY <1>1, WFMin
  <1>4. ASSUME NEW y \in T
        PROVE  x <= y
    <2>1. x \in Nat /\ y \in Nat /\ ~ (y < x)
      BY <1>2, <1>3
    <2>2. QED
      BY <2>1
  <1>5. QED
    BY <1>4

\* Of a finite set of numbers, no more than n have less than n below them.
LEMMA FirstOnes ==
    ASSUME NEW max \in Nat, NEW T \in SUBSET (1 .. max), NEW n \in Nat,
           NEW F, F = {u \in T : Cardinality({v \in T : v < u}) < n}
    PROVE  Cardinality(F) \in 0 .. n
  <1>1. IsFiniteSet(1 .. max)
    BY FS_Interval
  <1>2. IsFiniteSet(T) /\ IsFiniteSet(F)
    BY <1>1, FS_Subset
  <1>3. Cardinality(F) \in Nat
    BY <1>2, FS_CardinalityType
  <1>4. CASE F = {}
    <2>1. Cardinality(F) = 0
      BY <1>4, FS_EmptySet
    <2>2. QED
      BY <2>1
  <1>5. CASE F # {}
    <2> DEFINE D == {max - u : u \in F}
    <2>a. \A u \in F : u \in 1 .. max /\ max - u \in Nat
      OBVIOUS
    <2>1. D \in SUBSET Nat /\ D # {}
      <3>1. \A y \in D : y \in Nat
        BY <2>a
      <3>2. PICK u \in F : TRUE
        BY <1>5
      <3>3. max - u \in D
        OBVIOUS
      <3>4. QED
        BY <3>1, <3>3
    <2>2. PICK d \in D : \A y \in D : d <= y
      BY <2>1, LeastElement
    <2>3. PICK m \in F : d = max - m
      BY <2>2
    <2>4. \A u \in F : u <= m
      BY <2>2, <2>3
    <2> DEFINE B == {v \in T : v < m}
    <2>5. IsFiniteSet(B) /\ Cardinality(B) \in Nat
      BY <1>2, FS_Subset, FS_CardinalityType
    <2>6. F \ {m} \subseteq B
      <3>1. ASSUME NEW u \in F \ {m}
            PROVE  u \in B
        <4>1. u \in T /\ u \in 1 .. max /\ m \in 1 .. max /\ u <= m /\ u # m
          BY <2>4, <2>a, <2>3
        <4>2. QED
          BY <4>1
      <3>2. QED
        BY <3>1
    <2>7. IsFiniteSet(F \ {m}) /\ Cardinality(F \ {m}) = Cardinality(F) - 1
      BY <1>2, <2>3, FS_RemoveElement
    <2>8. Cardinality(F \ {m}) <= Cardinality(B)
      BY <2>5, <2>6, FS_Subset
    <2>9. Cardinality(B) < n
      BY <2>3
    <2> HIDE DEF B, D
    <2>10. QED
      BY <1>3, <2>5, <2>7, <2>8, <2>9
  <1>6. QED
    BY <1>4, <1>5

\* A round adds nodes that fit, and no more entries than there is room for.
LEMMA FoundFits ==
    ASSUME TypeOK, search # NoSearch, NEW iPos
    PROVE  /\ Found(search, iPos) \subseteq DOMAIN npnode_map
           /\ \A u \in Found(search, iPos) :
                Fits(search.uuid, search.resHash, search.currentblockID, u)
           /\ search.index + Cardinality(Found(search, iPos)) \in 0 .. inCount
  <1> DEFINE fit == {u \in FromGroup(iPos) :
                        Fits(search.uuid, search.resHash, search.currentblockID, u)}
             F == Found(search, iPos)
             n == inCount - search.index
  <1>1. fit \subseteq DOMAIN npnode_map /\ fit \in SUBSET (1 .. MaxUuid)
    BY DEF FromGroup, TypeOK, Uuid
  <1>2. F = {u \in fit : Cardinality({v \in fit : v < u}) < n}
    BY DEF Found
  <1>3. inCount \in Nat /\ MaxUuid \in Nat /\ search.index \in 0 .. inCount
    BY NpTrackerAssumption DEF TypeOK
  <1>4. n \in Nat
    BY <1>3
  <1>5. Cardinality(F) \in 0 .. n
    <2> HIDE DEF fit, F, n
    <2>1. QED
      BY <1>1, <1>2, <1>3, <1>4, FirstOnes
  <1>6. F \subseteq fit
    BY <1>2
  <1>7. search.index + Cardinality(F) \in 0 .. inCount
    <2> HIDE DEF F
    <2>1. QED
      BY <1>3, <1>5
  <1>8. QED
    BY <1>1, <1>6, <1>7

-----------------------------------------------------------------------------
(* The players.                                                            *)

\* What is true of a player stays true while the history grows and the player
\* stays on its channel; a uuid that went to one player only did so before.
LEMMA StillTrue ==
    ASSUME had \subseteq had',
           \A u \in DOMAIN given : u \in DOMAIN given' /\ given[u] \subseteq given'[u],
           \A q \in Player : Stays(q)' => Stays(q) /\ player'[q].channel = player[q].channel
    PROVE  /\ \A u \in DOMAIN given, p \in Player : Alone(u, p)' => Alone(u, p)
           /\ \A p \in Player : \A b : Has(p, b) => Has(p, b)'
           /\ \A p \in Player : \A ch : OnChannel(p, ch) => OnChannel(p, ch)'
  BY DEF Alone, Has, OnChannel, Stays

\* The same of packets, and of nodes that are not written.
LEMMA PacketsAndNodesStay ==
    ASSUME PacketsAreReal, NodesAreReal, DOMAIN npnode_map \subseteq DOMAIN given,
           had \subseteq had',
           \A u \in DOMAIN given : u \in DOMAIN given' /\ given[u] \subseteq given'[u],
           \A q \in Player : Stays(q)' => Stays(q) /\ player'[q].channel = player[q].channel
    PROVE  /\ \A m \in network : m.type # "NP2TS_LOGIN" =>
                /\ m.uuid \in DOMAIN given'
                /\ \A p \in Player : Alone(m.uuid, p)' => PacketIsReal(m, p)'
           /\ \A u \in DOMAIN npnode_map :
                u \in DOMAIN npnode_map' /\ npnode_map'[u] = npnode_map[u] =>
                    /\ npnode_map'[u].clientAddress \in given'[u]
                    /\ \A p \in Player : Alone(u, p)' => NodeIsReal(u, p)'
  <1>1. ASSUME NEW m \in network, m.type # "NP2TS_LOGIN"
        PROVE  /\ m.uuid \in DOMAIN given'
               /\ \A p \in Player : Alone(m.uuid, p)' => PacketIsReal(m, p)'
    <2>1. m.uuid \in DOMAIN given /\ m.uuid \in DOMAIN given'
      BY <1>1 DEF PacketsAreReal
    <2>2. ASSUME NEW p \in Player, Alone(m.uuid, p)'
          PROVE  PacketIsReal(m, p)'
      <3>1. Alone(m.uuid, p)
        BY <2>1, <2>2, StillTrue
      <3>2. PacketIsReal(m, p)
        BY <1>1, <3>1 DEF PacketsAreReal
      <3>3. QED
        BY <3>2, StillTrue DEF PacketIsReal
    <2>3. QED
      BY <2>1, <2>2
  <1>2. ASSUME NEW u \in DOMAIN npnode_map, npnode_map'[u] = npnode_map[u]
        PROVE  /\ npnode_map'[u].clientAddress \in given'[u]
               /\ \A p \in Player : Alone(u, p)' => NodeIsReal(u, p)'
    <2>1. u \in DOMAIN given /\ npnode_map[u].clientAddress \in given[u]
      BY DEF NodesAreReal
    <2>2. ASSUME NEW p \in Player, Alone(u, p)'
          PROVE  NodeIsReal(u, p)'
      <3>1. Alone(u, p)
        BY <2>1, <2>2, StillTrue
      <3>2. NodeIsReal(u, p)
        BY <3>1 DEF NodesAreReal
      <3>3. QED
        BY <1>2, <3>2, StillTrue DEF NodeIsReal
    <2>3. QED
      BY <1>2, <2>1, <2>2
  <1>3. QED
    BY <1>1, <1>2

\* What a player sends under a uuid is true of it, and of no other is the uuid
\* said to be its alone.
LEMMA SendableIsReal ==
    ASSUME NEW p \in Player, player'[p] \in Players, PlayersHad',
           NEW u \in Uuid, p \in given'[u], NEW m \in MaySend(player'[p], u)
    PROVE  /\ m.uuid = u
           /\ \A q \in Player : Alone(u, q)' => PacketIsReal(m, q)'
  <1>1. /\ m.uuid = u
        /\ m.type = "NP2TS_REQ_RES" => m.resource = player'[p].channel
        /\ m.type = "NP2TS_REPORT" => m.blocks = player'[p].blocks
    BY Sendable
  <1>2. \A b \in player'[p].blocks : Has(p, b)'
    BY DEF PlayersHad, Has, Players
  <1>3. OnChannel(p, player[p].channel)'
    BY DEF OnChannel
  <1>4. ASSUME NEW q \in Player, Alone(u, q)'
        PROVE  PacketIsReal(m, q)'
    <2>1. q = p
      BY <1>4 DEF Alone
    <2>2. QED
      BY <1>1, <1>2, <1>3, <2>1 DEF PacketIsReal
  <1>5. QED
    BY <1>1, <1>4

\* A player changes and sends packets; what it has is noted.
LEMMA BecomesKeeps ==
    ASSUME IInv, NEW p \in Player, NEW r \in Players, Becomes(p, r),
           had \subseteq had', had' \subseteq Player \X Channel \X Block,
           \/ r.switched
           \/ r.channel = player[p].channel /\ r.switched = player[p].switched,
           \A b \in r.blocks : <<p, r.channel, b>> \in had'
    PROVE  IInv'
  <1>1. /\ TypeOK /\ PlayersHad /\ NodesAreReal /\ PacketsAreReal /\ search = NoSearch
        /\ player' = [player EXCEPT ![p] = r]
        /\ UNCHANGED <<npnode_map, rand, given, search>>
    BY DEF IInv, Becomes
  <1>2. network' = network \union
            UNION {MaySend(r, u) : u \in {v \in DOMAIN given : p \in given[v]}}
    BY DEF Becomes
  <1>3. player \in [Player -> Players] /\ \A q \in Player : player'[q] = IF q = p THEN r ELSE player[q]
    BY <1>1 DEF TypeOK
  <1>4. \A q \in Player : Stays(q)' => Stays(q) /\ player'[q].channel = player[q].channel
    BY <1>3 DEF Stays
  <1>5. \A u \in DOMAIN given : u \in Uuid /\ given[u] \subseteq Player
    BY <1>1 DEF TypeOK
  <1>6. ASSUME NEW m \in network'
        PROVE  \/ m \in network
               \/ \E u \in DOMAIN given : p \in given[u] /\ m \in MaySend(r, u)
    BY <1>2
  <1>7. TypeOK'
    <2>1. network' \subseteq Packet
      BY <1>1, <1>5, <1>6, Sendable DEF TypeOK
    <2>2. player' \in [Player -> Players]
      BY <1>1, <1>3
    <2>3. QED
      BY <1>1, <2>1, <2>2 DEF TypeOK
  <1>8. PlayersHad'
    <2>1. ASSUME NEW q \in Player, NEW b \in player'[q].blocks
          PROVE  <<q, player'[q].channel, b>> \in had'
      <3>1. CASE q = p
        BY <1>3, <3>1
      <3>2. CASE q # p
        BY <1>1, <1>3, <3>2 DEF PlayersHad
      <3>3. QED
        BY <3>1, <3>2
    <2>2. QED
      BY <2>1 DEF PlayersHad
  <1>9. DOMAIN npnode_map \subseteq DOMAIN given
    BY <1>1 DEF TypeOK
  <1>10. NodesAreReal'
    BY <1>1, <1>4, <1>9, PacketsAndNodesStay DEF NodesAreReal
  <1>11. PacketsAreReal'
    <2>1. ASSUME NEW m \in network', m.type # "NP2TS_LOGIN"
          PROVE  /\ m.uuid \in DOMAIN given'
                 /\ \A q \in Player : Alone(m.uuid, q)' => PacketIsReal(m, q)'
      <3>1. CASE m \in network
        BY <1>1, <1>4, <1>9, <2>1, <3>1, PacketsAndNodesStay
      <3>2. ASSUME NEW u \in DOMAIN given, p \in given[u], m \in MaySend(r, u)
            PROVE  /\ m.uuid \in DOMAIN given'
                   /\ \A q \in Player : Alone(m.uuid, q)' => PacketIsReal(m, q)'
        <4>1. player'[p] = r /\ u \in Uuid /\ p \in given'[u]
          BY <1>1, <1>3, <1>5, <3>2
        <4>2. QED
          BY <1>1, <1>8, <3>2, <4>1, SendableIsReal
      <3>3. QED
        BY <1>6, <3>1, <3>2
    <2>2. QED
      BY <2>1 DEF PacketsAreReal
  <1>12. SearchIsReal'
    BY <1>1 DEF SearchIsReal
  <1>13. QED
    BY <1>7, <1>8, <1>10, <1>11, <1>12 DEF IInv

LEMMA PlayerKeeps ==
    ASSUME IInv, NEW p \in Player, PlayerNext(p)
    PROVE  IInv'
  <1>1. /\ player[p] \in Players /\ had \subseteq Player \X Channel \X Block
        /\ PlayersHad
    BY DEF IInv, TypeOK
  <1>2. ASSUME NEW ch \in Channel, Switches(p, ch)
        PROVE  IInv'
    <2> DEFINE r == [channel |-> ch, blocks |-> {}, switched |-> TRUE]
    <2>1. r \in Players /\ r.switched /\ r.blocks = {}
      BY DEF Players
    <2>2. Becomes(p, r) /\ had' = had
      BY <1>2 DEF Switches
    <2> HIDE DEF r
    <2>3. QED
      BY <1>1, <2>1, <2>2, BecomesKeeps
  <1>3. ASSUME NEW b \in Block, GetsBlock(p, b)
        PROVE  IInv'
    <2> DEFINE r == [player[p] EXCEPT !.blocks = @ \union {b}]
    <2>1. /\ r \in Players /\ r.channel = player[p].channel
          /\ r.switched = player[p].switched
          /\ r.blocks = player[p].blocks \union {b}
      BY <1>1 DEF Players
    <2>2. Becomes(p, r) /\ had' = had \union {<<p, player[p].channel, b>>}
      BY <1>3 DEF GetsBlock
    <2>3. player[p].channel \in Channel
      BY <1>1 DEF Players
    <2>4. had' \subseteq Player \X Channel \X Block /\ had \subseteq had'
      BY <1>1, <2>2, <2>3
    <2>5. \A c \in r.blocks : <<p, r.channel, c>> \in had'
      BY <1>1, <2>1, <2>2 DEF PlayersHad
    <2> HIDE DEF r
    <2>6. QED
      BY <2>1, <2>2, <2>4, <2>5, BecomesKeeps
  <1>4. QED
    BY <1>2, <1>3 DEF PlayerNext

-----------------------------------------------------------------------------
(* The handlers.                                                           *)

\* A uuid that goes to nobody.
LEMMA DrawForOtherKeeps ==
    ASSUME IInv, DrawForOther
    PROVE  IInv'
  <1>1. /\ TypeOK /\ PlayersHad /\ NodesAreReal /\ PacketsAreReal /\ search = NoSearch
        /\ UNCHANGED <<npnode_map, search, player, had, network>>
    BY DEF IInv, DrawForOther
  <1>2. PICK u \in Uuid : Draws(u) /\ given' = Given(u, {})
    BY DEF DrawForOther
  <1>3. /\ RandOK' /\ DOMAIN given' = DOMAIN given \union {u} /\ DOMAIN given' \subseteq Uuid
        /\ \A v \in DOMAIN given' : given'[v] \subseteq Player
        /\ \A v \in DOMAIN given : given[v] \subseteq given'[v]
    <2> DEFINE players == {}
    <2>1. players \in SUBSET Player
      OBVIOUS
    <2>2. Draws(u) /\ given' = Given(u, players)
      BY <1>2
    <2> HIDE DEF players
    <2>3. QED
      BY <1>1, <2>1, <2>2, DrawsTyped
  <1>4. /\ DOMAIN npnode_map \subseteq DOMAIN given
        /\ \A q \in Player : Stays(q)' => Stays(q) /\ player'[q].channel = player[q].channel
    BY <1>1 DEF TypeOK, Stays
  <1>5. TypeOK'
    BY <1>1, <1>3, <1>4 DEF TypeOK, RandOK
  <1>6. PlayersHad' /\ SearchIsReal'
    BY <1>1 DEF PlayersHad, SearchIsReal
  <1>7. NodesAreReal' /\ PacketsAreReal'
    BY <1>1, <1>3, <1>4, PacketsAndNodesStay DEF NodesAreReal, PacketsAreReal
  <1>8. QED
    BY <1>5, <1>6, <1>7 DEF IInv

\* A player gets a uuid, whether others have it or not, and a node that has
\* nothing; the node of the others is gone.
LEMMA GetLoginKeeps ==
    ASSUME IInv, NEW m \in network, GetLogin(m)
    PROVE  IInv'
  <1>1. /\ TypeOK /\ PlayersHad /\ NodesAreReal /\ PacketsAreReal /\ search = NoSearch
        /\ m.type = "NP2TS_LOGIN"
        /\ UNCHANGED <<search, player, had>>
    BY DEF IInv, GetLogin
  <1> DEFINE node == [clientAddress |-> m.from, channelID_md5 |-> NoChannel,
                      intervalArray |-> {}]
  <1>2. PICK u \in Uuid :
            /\ Draws(u) /\ given' = Given(u, {m.from})
            /\ npnode_map' = insert_Node(u, node)
            /\ network' = network \union MaySend(player[m.from], u)
    BY DEF GetLogin
  <1>3. m.from \in Player /\ player[m.from] \in Players
    BY <1>1, PacketFields DEF TypeOK
  <1>4. /\ node \in Nodes /\ node.clientAddress = m.from
        /\ node.channelID_md5 = NoChannel /\ node.intervalArray = {}
    BY <1>3 DEF Nodes
  <1> HIDE DEF node
  <1>5. /\ RandOK' /\ DOMAIN given' = DOMAIN given \union {u} /\ DOMAIN given' \subseteq Uuid
        /\ \A v \in DOMAIN given' : given'[v] \subseteq Player
        /\ \A v \in DOMAIN given : given[v] \subseteq given'[v]
        /\ m.from \in given'[u]
    <2> DEFINE players == {m.from}
    <2>1. players \in SUBSET Player /\ m.from \in players
      BY <1>3
    <2>2. Draws(u) /\ given' = Given(u, players)
      BY <1>2
    <2> HIDE DEF players
    <2>3. QED
      BY <1>1, <2>1, <2>2, DrawsTyped
  <1>6. /\ DOMAIN npnode_map' = DOMAIN npnode_map \union {u}
        /\ npnode_map'[u] = node
        /\ \A v \in DOMAIN npnode_map \ {u} : npnode_map'[v] = npnode_map[v]
    BY <1>2 DEF insert_Node
  <1>7. /\ DOMAIN npnode_map \subseteq DOMAIN given
        /\ \A q \in Player : Stays(q)' => Stays(q) /\ player'[q].channel = player[q].channel
    BY <1>1 DEF TypeOK, Stays
  <1>8. TypeOK'
    <2>1. network' \subseteq Packet
      BY <1>1, <1>2, <1>3, Sendable DEF TypeOK
    <2>2. /\ DOMAIN npnode_map' \subseteq DOMAIN given'
          /\ \A v \in DOMAIN npnode_map' : npnode_map'[v] \in Nodes
      BY <1>1, <1>4, <1>5, <1>6 DEF TypeOK
    <2>3. QED
      BY <1>1, <1>5, <2>1, <2>2 DEF TypeOK, RandOK
  <1>9. PlayersHad' /\ SearchIsReal'
    BY <1>1 DEF PlayersHad, SearchIsReal
  <1>10. NodesAreReal'
    <2>1. ASSUME NEW v \in DOMAIN npnode_map'
          PROVE  /\ npnode_map'[v].clientAddress \in given'[v]
                 /\ \A p \in Player : Alone(v, p)' => NodeIsReal(v, p)'
      <3>1. CASE v = u
        BY <1>4, <1>5, <1>6, <3>1 DEF NodeIsReal, OnChannel
      <3>2. CASE v # u
        BY <1>1, <1>5, <1>6, <1>7, <3>2, PacketsAndNodesStay
      <3>3. QED
        BY <3>1, <3>2
    <2>2. QED
      BY <2>1 DEF NodesAreReal
  <1>11. PacketsAreReal'
    <2>1. ASSUME NEW n \in network', n.type # "NP2TS_LOGIN"
          PROVE  /\ n.uuid \in DOMAIN given'
                 /\ \A p \in Player : Alone(n.uuid, p)' => PacketIsReal(n, p)'
      <3>1. CASE n \in network
        BY <1>1, <1>5, <1>7, <2>1, <3>1, PacketsAndNodesStay
      <3>2. CASE n \in MaySend(player[m.from], u)
        BY <1>1, <1>3, <1>5, <1>9, <3>2, SendableIsReal
      <3>3. QED
        BY <1>2, <3>1, <3>2
    <2>2. QED
      BY <2>1 DEF PacketsAreReal
  <1>12. QED
    BY <1>8, <1>9, <1>10, <1>11 DEF IInv

\* What is not about nodes or the search is as it was.
LEMMA OthersKeep ==
    ASSUME PlayersHad, PacketsAreReal, UNCHANGED <<given, player, had, network>>
    PROVE  PlayersHad' /\ PacketsAreReal'
  BY DEF PlayersHad, PacketsAreReal, PacketIsReal, Alone, Has, OnChannel, Stays

\* A search starts with nobody found.
LEMMA NewSearchKeeps ==
    ASSUME IInv, NEW uuid \in DOMAIN given, NEW resource \in Channel \union {NoChannel},
           NEW block \in Block,
           \A p \in Player : Alone(uuid, p) => OnChannel(p, resource),
           search' = NewSearch(uuid, resource, block),
           UNCHANGED <<npnode_map, rand, given, player, had, network>>
    PROVE  IInv'
  <1> DEFINE s == NewSearch(uuid, resource, block)
  <1>1. /\ s \in [uuid : DOMAIN given, resHash : Channel \union {NoChannel},
                  currentblockID : Block, groupID : SUBSET (0 .. iRange - 1),
                  pPeerInfo : SUBSET DOMAIN npnode_map, index : 0 .. inCount,
                  done : BOOLEAN]
        /\ s.uuid = uuid /\ s.resHash = resource /\ s.pPeerInfo = {}
    <2>1. 0 \in 0 .. inCount
      BY NpTrackerAssumption
    <2>2. QED
      BY <2>1 DEF NewSearch
  <1> HIDE DEF s
  <1>2. search' = s
    BY DEF s
  <1>3. iRange' = iRange
    BY DEF iRange
  <1>4. TypeOK'
    BY <1>1, <1>2, <1>3 DEF IInv, TypeOK
  <1>5. PlayersHad' /\ PacketsAreReal'
    BY OthersKeep DEF IInv
  <1>6. NodesAreReal'
    BY DEF IInv, NodesAreReal, NodeIsReal, Alone, Has, OnChannel, Stays
  <1>7. SearchIsReal'
    BY <1>1, <1>2 DEF SearchIsReal, Alone, OnChannel, Stays
  <1>8. QED
    BY <1>4, <1>5, <1>6, <1>7 DEF IInv

LEMMA GetReqResKeeps ==
    ASSUME IInv, NEW m \in network, GetReqRes(m)
    PROVE  IInv'
  <1>1. /\ m.resource \in Channel /\ m.type # "NP2TS_LOGIN" /\ m.type = "NP2TS_REQ_RES"
    BY PacketFields DEF GetReqRes, IInv, TypeOK
  <1>2. /\ m.uuid \in DOMAIN given
        /\ \A p \in Player : Alone(m.uuid, p) => OnChannel(p, m.resource)
    BY <1>1 DEF IInv, PacketsAreReal, PacketIsReal
  <1>3. 0 \in Block
    BY NpTrackerAssumption DEF Block
  <1> DEFINE uuid == m.uuid
             resource == m.resource
  <1>4. /\ search' = NewSearch(uuid, resource, 0)
        /\ UNCHANGED <<npnode_map, rand, given, player, had, network>>
    BY DEF GetReqRes
  <1>5. /\ uuid \in DOMAIN given /\ resource \in Channel \union {NoChannel}
        /\ \A p \in Player : Alone(uuid, p) => OnChannel(p, resource)
    BY <1>1, <1>2
  <1> HIDE DEF uuid, resource
  <1>6. QED
    BY <1>3, <1>4, <1>5, NewSearchKeeps

LEMMA GetNeedPeersKeeps ==
    ASSUME IInv, NEW m \in network, GetNeedPeers(m)
    PROVE  IInv'
  <1>1. m.block \in Block
    BY PacketFields DEF GetNeedPeers, IInv, TypeOK
  <1>2. m.uuid \in DOMAIN npnode_map /\ m.uuid \in DOMAIN given
    BY DEF GetNeedPeers, Known, IInv, TypeOK
  <1> DEFINE resource == npnode_map[m.uuid].channelID_md5
  <1>3. resource \in Channel \union {NoChannel}
    BY <1>2 DEF IInv, TypeOK, Nodes
  <1>4. \A p \in Player : Alone(m.uuid, p) => OnChannel(p, resource)
    BY <1>2 DEF IInv, NodesAreReal, NodeIsReal
  <1>5. /\ search' = NewSearch(m.uuid, resource, m.block)
        /\ UNCHANGED <<npnode_map, rand, given, player, had, network>>
    BY DEF GetNeedPeers
  <1> HIDE DEF resource
  <1>6. QED
    BY <1>1, <1>2, <1>3, <1>4, <1>5, NewSearchKeeps

\* A round of a search adds nodes that fit, or ends it.
LEMMA SearchRoundKeeps ==
    ASSUME IInv, SearchRound
    PROVE  IInv'
  <1> DEFINE Searches == [uuid : DOMAIN given, resHash : Channel \union {NoChannel},
                          currentblockID : Block, groupID : SUBSET (0 .. iRange - 1),
                          pPeerInfo : SUBSET DOMAIN npnode_map, index : 0 .. inCount,
                          done : BOOLEAN]
  <1>1. /\ search # NoSearch /\ search \in Searches
        /\ UNCHANGED <<npnode_map, rand, given, player, had, network>>
    BY DEF SearchRound, IInv, TypeOK
  <1>2. \E iPos, left :
            \/ search' = [search EXCEPT !.groupID = {}, !.done = TRUE]
            \/ search' = [search EXCEPT
                    !.groupID = IF search.index + Cardinality(Found(search, iPos)) >= inCount
                                THEN {} ELSE search.groupID \ left,
                    !.pPeerInfo = @ \union Found(search, iPos),
                    !.index = search.index + Cardinality(Found(search, iPos)),
                    !.done = search.index + Cardinality(Found(search, iPos)) >= inCount]
    BY DEF SearchRound
  <1>3. /\ search' \in Searches
        /\ search'.uuid = search.uuid /\ search'.resHash = search.resHash
        /\ search'.currentblockID = search.currentblockID
        /\ \A u \in search'.pPeerInfo :
            u \in search.pPeerInfo
                \/ Fits(search.uuid, search.resHash, search.currentblockID, u)
    <2>1. CASE search' = [search EXCEPT !.groupID = {}, !.done = TRUE]
      BY <1>1, <2>1
    <2>2. ASSUME NEW iPos, NEW left,
                 search' = [search EXCEPT
                    !.groupID = IF search.index + Cardinality(Found(search, iPos)) >= inCount
                                THEN {} ELSE search.groupID \ left,
                    !.pPeerInfo = @ \union Found(search, iPos),
                    !.index = search.index + Cardinality(Found(search, iPos)),
                    !.done = search.index + Cardinality(Found(search, iPos)) >= inCount]
          PROVE  <1>3!:
      <3> DEFINE F == Found(search, iPos)
                 index == search.index + Cardinality(F)
                 enough == index >= inCount
      <3>1. /\ F \subseteq DOMAIN npnode_map /\ index \in 0 .. inCount
            /\ \A u \in F : Fits(search.uuid, search.resHash, search.currentblockID, u)
        BY <1>1, FoundFits DEF IInv
      <3>2. enough \in BOOLEAN
        OBVIOUS
      <3>3. search' = [search EXCEPT !.groupID = IF enough THEN {} ELSE search.groupID \ left,
                                     !.pPeerInfo = search.pPeerInfo \union F,
                                     !.index = index, !.done = enough]
        BY <2>2
      <3> HIDE DEF F, index, enough
      <3>4. QED
        BY <1>1, <3>1, <3>2, <3>3
    <2>3. QED
      BY <1>2, <2>1, <2>2
  <1>4. iRange' = iRange
    BY <1>1 DEF iRange
  <1>5. TypeOK'
    BY <1>1, <1>3, <1>4 DEF IInv, TypeOK
  <1>6. PlayersHad' /\ PacketsAreReal'
    BY <1>1, OthersKeep DEF IInv
  <1>7. NodesAreReal'
    BY <1>1 DEF IInv, NodesAreReal, NodeIsReal, Alone, Has, OnChannel, Stays
  <1>8. SearchIsReal'
    BY <1>1, <1>3 DEF IInv, SearchIsReal, Alone, OnChannel, Stays, Fits
  <1>9. QED
    BY <1>5, <1>6, <1>7, <1>8 DEF IInv

\* A node that is there is overwritten with what is true of it.
LEMMA OverwriteKeeps ==
    ASSUME IInv, NEW u \in DOMAIN npnode_map, NEW node \in Nodes,
           npnode_map' = insert_Node(u, node), search' = NoSearch, RandOK',
           UNCHANGED <<given, player, had, network>>,
           node.clientAddress \in given[u],
           \A p \in Player : Alone(u, p) =>
                OnChannel(p, node.channelID_md5) /\ \A b \in node.intervalArray : Has(p, b)
    PROVE  IInv'
  <1>1. /\ DOMAIN npnode_map' = DOMAIN npnode_map
        /\ npnode_map'[u] = node
        /\ \A v \in DOMAIN npnode_map : v # u => npnode_map'[v] = npnode_map[v]
    BY DEF insert_Node
  <1>2. TypeOK'
    BY <1>1 DEF IInv, TypeOK, RandOK
  <1>3. PlayersHad' /\ PacketsAreReal'
    BY OthersKeep DEF IInv
  <1>4. SearchIsReal'
    BY DEF SearchIsReal
  <1>5. NodesAreReal'
    BY <1>1 DEF IInv, NodesAreReal, NodeIsReal, Alone, Has, OnChannel, Stays
  <1>6. QED
    BY <1>2, <1>3, <1>4, <1>5 DEF IInv

\* The map as it is, and no search.
LEMMA NothingWritten ==
    ASSUME IInv, search' = NoSearch, RandOK',
           UNCHANGED <<npnode_map, given, player, had, network>>
    PROVE  IInv'
  <1>1. TypeOK'
    BY DEF IInv, TypeOK, RandOK
  <1>2. PlayersHad' /\ PacketsAreReal'
    BY OthersKeep DEF IInv
  <1>3. NodesAreReal' /\ SearchIsReal'
    BY DEF IInv, NodesAreReal, SearchIsReal, NodeIsReal, Alone, Has, OnChannel, Stays
  <1>4. QED
    BY <1>1, <1>2, <1>3 DEF IInv

LEMMA SendPeersKeeps ==
    ASSUME IInv, SendPeers
    PROVE  IInv'
  <1>1. /\ search # NoSearch /\ search' = NoSearch /\ Seeds
        /\ UNCHANGED <<given, player, had, network>>
    BY DEF SendPeers
  <1>2. RandOK'
    BY <1>1, SeedsTyped DEF IInv
  <1> DEFINE u == search.uuid
             old == npnode_map[u]
             node == [old EXCEPT !.channelID_md5 = search.resHash]
  <1>3. CASE MayAnswer(search) /\ npnode_map' = insert_Node(u, node)
    <2>1. /\ u \in DOMAIN npnode_map /\ old \in Nodes
          /\ search.resHash \in Channel \union {NoChannel}
      BY <1>1, <1>3 DEF MayAnswer, Known, IInv, TypeOK
    <2>2. /\ node \in Nodes /\ node.clientAddress = old.clientAddress
          /\ node.channelID_md5 = search.resHash
          /\ node.intervalArray = old.intervalArray
      BY <2>1 DEF Nodes
    <2>3. /\ old.clientAddress \in given[u]
          /\ \A p \in Player : Alone(u, p) =>
                OnChannel(p, search.resHash) /\ \A b \in old.intervalArray : Has(p, b)
      BY <1>1, <2>1 DEF IInv, NodesAreReal, NodeIsReal, SearchIsReal
    <2> HIDE DEF u, old, node
    <2>4. QED
      BY <1>1, <1>2, <1>3, <2>1, <2>2, <2>3, OverwriteKeeps
  <1>4. CASE npnode_map' = npnode_map
    BY <1>1, <1>2, <1>4, NothingWritten
  <1>5. QED
    BY <1>3, <1>4 DEF SendPeers

LEMMA GetReportKeeps ==
    ASSUME IInv, NEW m \in network, GetReport(m)
    PROVE  IInv'
  <1> DEFINE u == m.uuid
             old == npnode_map[u]
             node == [old EXCEPT !.intervalArray = @ \union m.blocks]
  <1>1. /\ u \in DOMAIN npnode_map /\ old \in Nodes
        /\ m.blocks \in SUBSET Block /\ m.type = "NP2TS_REPORT"
    BY PacketFields DEF GetReport, Known, IInv, TypeOK
  <1>2. /\ node \in Nodes /\ node.clientAddress = old.clientAddress
        /\ node.channelID_md5 = old.channelID_md5
        /\ node.intervalArray = old.intervalArray \union m.blocks
    BY <1>1 DEF Nodes
  <1>3. /\ npnode_map' = insert_Node(u, node) /\ search' = NoSearch
        /\ UNCHANGED <<rand, given, player, had, network>>
    BY DEF GetReport
  <1>4. /\ old.clientAddress \in given[u]
        /\ \A p \in Player : Alone(u, p) =>
            /\ OnChannel(p, old.channelID_md5)
            /\ \A b \in old.intervalArray : Has(p, b)
            /\ \A b \in m.blocks : Has(p, b)
    BY <1>1 DEF IInv, NodesAreReal, NodeIsReal, PacketsAreReal, PacketIsReal
  <1>5. RandOK'
    BY <1>3 DEF IInv, TypeOK, RandOK
  <1> HIDE DEF u, old, node
  <1>6. QED
    BY <1>1, <1>2, <1>3, <1>4, <1>5, OverwriteKeeps

LEMMA GetLogoutKeeps ==
    ASSUME IInv, NEW m \in network, GetLogout(m)
    PROVE  IInv'
  <1>1. /\ search' = NoSearch
        /\ UNCHANGED <<rand, given, player, had, network>>
        /\ DOMAIN npnode_map' \subseteq DOMAIN npnode_map
        /\ \A v \in DOMAIN npnode_map' : npnode_map'[v] = npnode_map[v]
    BY DEF GetLogout, deleteNode
  <1>2. TypeOK'
    BY <1>1 DEF IInv, TypeOK
  <1>3. PlayersHad' /\ PacketsAreReal'
    BY <1>1, OthersKeep DEF IInv
  <1>4. SearchIsReal'
    BY <1>1 DEF SearchIsReal
  <1>5. NodesAreReal'
    BY <1>1 DEF IInv, NodesAreReal, NodeIsReal, Alone, Has, OnChannel, Stays
  <1>6. QED
    BY <1>2, <1>3, <1>4, <1>5 DEF IInv

-----------------------------------------------------------------------------
(* The theorems.                                                           *)

\* What the tracker knows under a uuid that went to one player only is true of
\* that player.
THEOREM Invariance == Spec => []IInv
  <1>1. Init => IInv
    <2> SUFFICES ASSUME Init PROVE IInv
      OBVIOUS
    <2>a. DOMAIN << >> = {} /\ Len(<< >>) = 0 /\ << >> \in Seq({})
      OBVIOUS
    <2>1. /\ DOMAIN npnode_map = {} /\ DOMAIN given = {}
          /\ search = NoSearch /\ had = {}
          /\ player \in [Player -> [channel : Channel, blocks : {{}}, switched : {FALSE}]]
      BY <2>a DEF Init
    <2>2. ASSUME NEW m \in network
          PROVE  m \in Packet /\ m.type = "NP2TS_LOGIN"
      BY DEF Init, Packet
    <2>3. player \in [Player -> Players] /\ \A p \in Player : player[p].blocks = {}
      BY <2>1 DEF Players
    <2>4. /\ rand \in [seeded : BOOLEAN, uuids : Seq({}), drawn : Nat]
          /\ rand.drawn <= Len(rand.uuids)
      <3>1. rand = [seeded |-> FALSE, uuids |-> << >>, drawn |-> 0]
        BY DEF Init, NewSeed
      <3>2. QED
        BY <2>a, <3>1
    <2>5. TypeOK
      BY <2>1, <2>2, <2>3, <2>4 DEF TypeOK
    <2>6. QED
      BY <2>1, <2>2, <2>3, <2>5
         DEF IInv, PlayersHad, NodesAreReal, PacketsAreReal, SearchIsReal
  <1>2. IInv /\ [Next]_vars => IInv'
    <2>1. ASSUME IInv, UNCHANGED vars
          PROVE  IInv'
      <3>1. UNCHANGED <<npnode_map, rand, given, search, player, had, network>>
        BY <2>1 DEF vars
      <3>2. TypeOK'
        BY <2>1, <3>1 DEF IInv, TypeOK, iRange
      <3>3. PlayersHad' /\ PacketsAreReal'
        BY <2>1, <3>1, OthersKeep DEF IInv
      <3>4. NodesAreReal' /\ SearchIsReal'
        BY <2>1, <3>1 DEF IInv, NodesAreReal, SearchIsReal, NodeIsReal, Alone, Has,
                          OnChannel, Stays, Fits
      <3>5. QED
        BY <3>2, <3>3, <3>4 DEF IInv
    <2>2. QED
      BY <2>1, PlayerKeeps, DrawForOtherKeeps, GetLoginKeeps, GetReqResKeeps,
         GetNeedPeersKeeps, GetReportKeeps, GetLogoutKeeps, SearchRoundKeeps,
         SendPeersKeeps
         DEF Next, TrackerNext
  <1>3. QED
    BY <1>1, <1>2, PTL DEF Spec

\* The tracker's tables, the search and the packets stay what the code takes
\* them for: in particular a search never has more entries than get_np_address
\* made the array for.
THEOREM TypeCorrect == Spec => []TypeOK
  <1>1. IInv => TypeOK
    BY DEF IInv
  <1>2. QED
    BY <1>1, Invariance, PTL

\* A player is told, under a uuid that went to one player only, of that player
\* and of blocks it had, on the channel that is asked for if it stayed there;
\* other uuids may have gone to as many players as one likes.
THEOREM PeersCorrect == Spec => []PeersHaveTheBlock
  <1>1. ASSUME IInv
        PROVE  PeersHaveTheBlock
    <2>1. ASSUME NEW u \in ToldOf, NEW p \in Player, given[u] = {p}
          PROVE  /\ npnode_map[u].clientAddress = p
                 /\ \E ch \in Channel : <<p, ch, search.currentblockID>> \in had
                 /\ ~ player[p].switched =>
                        <<p, search.resHash, search.currentblockID>> \in had
      <3>1. search # NoSearch /\ MayAnswer(search) /\ u \in search.pPeerInfo
        BY <2>1 DEF ToldOf
      <3>2. /\ Fits(search.uuid, search.resHash, search.currentblockID, u)
            /\ u \in DOMAIN npnode_map
        BY <1>1, <3>1 DEF IInv, SearchIsReal, TypeOK
      <3>3. /\ npnode_map[u].clientAddress = p
            /\ OnChannel(p, npnode_map[u].channelID_md5)
            /\ \A b \in npnode_map[u].intervalArray : Has(p, b)
        BY <1>1, <2>1, <3>2 DEF IInv, NodesAreReal, NodeIsReal, Alone
      <3>4. search.resHash # NoChannel
        BY <3>1, NpTrackerAssumption DEF MayAnswer
      <3>5. QED
        BY <3>2, <3>3, <3>4 DEF Fits, Has, OnChannel, Stays
    <2>2. QED
      BY <2>1 DEF PeersHaveTheBlock
  <1>2. QED
    BY <1>1, Invariance, PTL

\* Also when uuids come again, a node that logged out is only ever followed by
\* the empty node of a LOGIN that has just drawn its uuid: get_report and
\* send_peers look for the node before they insert it, the latter after the
\* search, however many rounds that took.
THEOREM ReturnsCorrect == Spec => ReturnsOnlyAnew
  <1> DEFINE Anew ==
        \A u \in Uuid : (~ Known(u) /\ Known(u)') =>
            /\ rand'.drawn = rand.drawn + 1 /\ rand'.uuids[rand'.drawn] = u
            /\ npnode_map'[u].channelID_md5 = NoChannel
            /\ npnode_map'[u].intervalArray = {}
  <1>1. TypeOK /\ [Next]_vars => Anew
    BY OnlyLoginMakesNodes
  <1>2. TypeOK /\ [Next]_vars => [Anew]_vars
    BY <1>1
  <1>3. QED
    BY <1>2, TypeCorrect, PTL DEF Spec, ReturnsOnlyAnew
====
