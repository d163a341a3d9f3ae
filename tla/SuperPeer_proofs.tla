---- MODULE SuperPeer_proofs ----
(***************************************************************************)
(* Theorems about SuperPeer, for any channels, capture servers, players,   *)
(* push lists and rings.                                                   *)
(***************************************************************************)
EXTENDS SuperPeer, RsBufferQueue_proofs, WellFoundedInduction

-----------------------------------------------------------------------------
(* The inductive invariant.                                                *)

\* The blocks stored on a channel, without their ids.
BlocksOf(ch) == [k \in DOMAIN published[ch] |-> published[ch][k].block]

\* Every channel's ring holds the last blocks stored on it, and nothing is
\* stored on a channel before it is made; blocks are numbered from zero.
ChannelAgrees(ch) ==
    /\ IF Created(ch)
       THEN RingHolds(source_hashmap[ch], BlocksOf(ch))
       ELSE published[ch] = << >>
    /\ \A k \in DOMAIN published[ch] : published[ch][k].block_id = k - 1

\* The channel of a capture server has been made.
Registered == \A c \in Cs : cs[c].chnl_hash # NoChannel => Created(cs[c].chnl_hash)

\* Where a thread is, what it has sent and what its flag says go together: the
\* flag is set when the header was written, and no block is found, on any
\* channel, as long as it is not.
HeaderFirst(r) ==
    /\ r.headers = IF r.media_type_flag \/ r.pc = "media" THEN 1 ELSE 0
    /\ r.pc = "media" => ~ r.media_type_flag
    /\ r.pc = "blocks" => r.media_type_flag

\* What is being written is what the place in the thread's code says, and a
\* block is the one stored under its id on the thread's channel.
WireHolds(r) ==
    /\ r.pc = "fill" => r.wire = NoMessage
    /\ r.pc # "fill" => r.channel \in Channel
    /\ r.pc = "media" => r.wire \in [header : Header \union {Uninitialised}]
    /\ r.pc = "blocks" =>
        /\ r.wire \in [block_id : Nat, buffer : Contents]
        /\ r.wire.block_id + 1 \in DOMAIN published[r.channel]
        /\ Holds(r.wire.buffer, published[r.channel][r.wire.block_id + 1].block)

\* An id the window of the channel has passed for good.
Gone(ch, id) == Created(ch) /\ id < source_hashmap[ch].min_block_id

\* What is left of a push list ascends, and every id asked for has been sent,
\* is still in the list, or is behind the window.
ListLeft(r) ==
    /\ r.pc = "media" => r.asked = {r.block_array[k] : k \in DOMAIN r.block_array}
    /\ r.pc = "blocks" =>
        /\ Ascending(r.block_array)
        /\ \A k \in DOMAIN r.block_array : r.block_array[k] \in r.asked
        /\ \A id \in r.asked :
            \/ id \in r.sent
            \/ \E k \in DOMAIN r.block_array : r.block_array[k] = id
            \/ Gone(r.channel, id)

ThreadAgrees(r) == r \in Threads /\ HeaderFirst(r) /\ WireHolds(r) /\ ListLeft(r)

ChannelsAgree == \A ch \in Channel : ChannelAgrees(ch)

ThreadsAgree == \A p \in Np : ThreadAgrees(np[p])

IInv == TypeOK /\ ChannelsAgree /\ Registered /\ ThreadsAgree

-----------------------------------------------------------------------------
(* Numbers: least elements, induction, and that a list can be sorted.      *)

\* A set of natural numbers that is not empty has a least element.
LEMMA LeastElement ==
    ASSUME NEW T \in SUBSET Nat, T # {}
    PROVE  \E x \in T : \A y \in T : x <= y
  <1> DEFINE R == OpToRel(<, Nat)
  <1>1. IsWellFoundedOn(R, Nat)
    BY NatLessThanWellFounded
  <1>2. \A x, y \in Nat : <<y, x>> \in R <=> y < x
    BY DEF OpToRel
  <1> HIDE DEF R
  <1>3. PICK x \in T : \A y \in T : <<y, x>> \notin R
    BY <1>1, WFMin
  <1>4. ASSUME NEW y \in T
        PROVE  x <= y
    <2>1. x \in Nat /\ y \in Nat /\ ~ (y < x)
      BY <1>2, <1>3
    <2>2. QED
      BY <2>1
  <1>5. QED
    BY <1>4

\* A set that contains zero, and with every number the next one, contains all
\* natural numbers.
LEMMA Induction ==
    ASSUME NEW S \in SUBSET Nat, 0 \in S, \A n \in S : n + 1 \in S
    PROVE  S = Nat
  <1> DEFINE T == Nat \ S
  <1>1. CASE T # {}
    <2>1. PICK x \in T : \A y \in T : x <= y
      BY <1>1, LeastElement
    <2>2. x # 0 /\ x - 1 \in Nat /\ x - 1 \notin T
      BY <2>1
    <2>3. QED
      BY <2>2
  <1>2. QED
    BY <1>1

\* Min finds the least element.
LEMMA MinIsLeast ==
    ASSUME NEW T \in SUBSET Nat, T # {}
    PROVE  Min(T) \in T /\ \A y \in T : Min(T) <= y
  BY LeastElement DEF Min

\* f lists the numbers 1 to m in an order in which s ascends.
InOrder(m, s, f) ==
    /\ f \in [1 .. m -> 1 .. m]
    /\ \A t \in 1 .. m : \E k \in 1 .. m : f[k] = t
    /\ \A k, l \in 1 .. m : k < l => s[f[k]] <= s[f[l]]

\* One more number is put before the first of the others that is greater.
LEMMA InsertInOrder ==
    ASSUME NEW m \in Nat, NEW s \in [1 .. m + 1 -> Int],
           NEW f, InOrder(m, s, f)
    PROVE  \E g : InOrder(m + 1, s, g)
  <1> DEFINE last == s[m + 1]
             Later == {q \in 1 .. m + 1 : q = m + 1 \/ s[f[q]] > last}
  <1>1. last \in Int /\ f \in [1 .. m -> 1 .. m]
    <2>1. m + 1 \in 1 .. m + 1
      OBVIOUS
    <2>2. f \in [1 .. m -> 1 .. m]
      BY DEF InOrder
    <2>3. QED
      BY <2>1, <2>2
  <1>2. ASSUME NEW k \in 1 .. m
        PROVE  f[k] \in 1 .. m + 1 /\ s[f[k]] \in Int
    <2>1. f[k] \in 1 .. m
      BY <1>1
    <2>2. QED
      BY <2>1
  <1>3. PICK p \in Later : \A q \in Later : p <= q
    <2>1. Later # {} /\ Later \in SUBSET Nat
      <3>1. m + 1 \in Later
        OBVIOUS
      <3>2. Later \subseteq 1 .. m + 1 /\ 1 .. m + 1 \subseteq Nat
        OBVIOUS
      <3> HIDE DEF Later
      <3>3. QED
        BY <3>1, <3>2
    <2> HIDE DEF Later
    <2>2. QED
      BY <2>1, LeastElement
  <1>4. p \in 1 .. m + 1
    BY <1>3
  \* what is before p is not greater than the last number, what is after is
  <1>5. ASSUME NEW k \in 1 .. m, k < p
        PROVE  s[f[k]] <= last
    <2>1. k \notin Later /\ k \in 1 .. m + 1
      BY <1>5, <1>3, <1>4
    <2>2. ~ (s[f[k]] > last)
      BY <2>1
    <2>3. QED
      BY <2>2, <1>1, <1>2
  <1>6. ASSUME NEW k \in 1 .. m, p <= k
        PROVE  last <= s[f[k]]
    <2>1. p \in 1 .. m /\ s[f[p]] > last
      BY <1>6, <1>3, <1>4
    <2>2. p = k \/ p < k
      BY <1>6, <1>4
    <2>3. p < k => s[f[p]] <= s[f[k]]
      BY <2>1 DEF InOrder
    <2>4. s[f[p]] \in Int /\ s[f[k]] \in Int
      BY <2>1, <1>2
    <2>5. last <= s[f[p]]
      BY <2>1, <2>4, <1>1
    <2>6. s[f[p]] <= s[f[k]]
      BY <2>2, <2>3, <2>4
    <2>7. \A x, y, z \in Int : x <= y /\ y <= z => x <= z
      OBVIOUS
    <2>8. last \in Int
      BY <1>1
    <2> HIDE DEF last
    <2>9. QED
      BY <2>4, <2>5, <2>6, <2>7, <2>8
  <1> HIDE DEF Later, last
  <1> DEFINE g == [k \in 1 .. m + 1 |->
                    IF k < p THEN f[k] ELSE IF k = p THEN m + 1 ELSE f[k - 1]]
  <1>7. /\ \A k \in 1 .. m : k < p => g[k] = f[k]
        /\ g[p] = m + 1
        /\ \A k \in 1 .. m : p <= k => g[k + 1] = f[k]
    <2>1. ASSUME NEW k \in 1 .. m, p <= k
          PROVE  g[k + 1] = f[k]
      <3>1. k + 1 \in 1 .. m + 1 /\ ~ (k + 1 < p) /\ k + 1 # p /\ (k + 1) - 1 = k
        BY <2>1, <1>4
      <3>2. QED
        BY <3>1
    <2>2. QED
      BY <2>1, <1>4
  \* every index is before p, or p, or after p
  <1>8. ASSUME NEW k \in 1 .. m + 1
        PROVE  \/ k < p /\ k \in 1 .. m /\ g[k] = f[k]
               \/ k = p /\ g[k] = m + 1
               \/ p < k /\ k - 1 \in 1 .. m /\ p <= k - 1 /\ g[k] = f[k - 1]
    BY <1>4
  <1>9. g \in [1 .. m + 1 -> 1 .. m + 1]
    <2>1. ASSUME NEW k \in 1 .. m + 1
          PROVE  g[k] \in 1 .. m + 1
      <3> HIDE DEF g
      <3>1. m + 1 \in 1 .. m + 1
        OBVIOUS
      <3>2. QED
        BY <3>1, <1>2, <1>8
    <2>2. QED
      BY <2>1
  <1> HIDE DEF g
  <1>10. ASSUME NEW t \in 1 .. m + 1
         PROVE  \E k \in 1 .. m + 1 : g[k] = t
    <2>1. CASE t = m + 1
      BY <2>1, <1>4, <1>7
    <2>2. CASE t # m + 1
      <3>1. t \in 1 .. m
        BY <2>2
      <3>2. PICK k \in 1 .. m : f[k] = t
        BY <3>1 DEF InOrder
      <3>3. k \in 1 .. m + 1 /\ k + 1 \in 1 .. m + 1 /\ (k < p \/ p <= k)
        BY <1>4
      <3>4. g[k] = t \/ g[k + 1] = t
        BY <3>2, <3>3, <1>7
      <3>5. QED
        BY <3>3, <3>4
    <2>3. QED
      BY <2>1, <2>2
  <1>11. ASSUME NEW k \in 1 .. m + 1, NEW l \in 1 .. m + 1, k < l
         PROVE  s[g[k]] <= s[g[l]]
    <2>1. CASE k < p /\ l < p
      <3>1. k \in 1 .. m /\ l \in 1 .. m /\ g[k] = f[k] /\ g[l] = f[l]
        BY <2>1, <1>4, <1>8
      <3>2. QED
        BY <3>1, <1>11 DEF InOrder
    <2>2. CASE k < p /\ l = p
      <3>1. k \in 1 .. m /\ g[k] = f[k] /\ g[l] = m + 1
        BY <2>2, <1>4, <1>8
      <3>2. s[f[k]] <= last
        BY <3>1, <2>2, <1>5
      <3>3. QED
        BY <3>1, <3>2 DEF last
    <2>3. CASE k < p /\ p < l
      <3>1. s[g[k]] <= last /\ last <= s[g[l]]
        <4>1. k \in 1 .. m /\ g[k] = f[k]
          BY <2>3, <1>4, <1>8
        <4>2. l - 1 \in 1 .. m /\ p <= l - 1 /\ g[l] = f[l - 1]
          BY <2>3, <1>4, <1>8
        <4>3. s[f[k]] <= last /\ last <= s[f[l - 1]]
          BY <4>1, <4>2, <2>3, <1>5, <1>6
        <4>4. QED
          BY <4>1, <4>2, <4>3
      <3>2. s[g[k]] \in Int /\ s[g[l]] \in Int
        BY <1>9
      <3>3. QED
        BY <3>1, <3>2, <1>1
    <2>4. CASE k = p
      <3>1. p < l
        BY <2>4, <1>11
      <3>2. l - 1 \in 1 .. m /\ p <= l - 1 /\ g[l] = f[l - 1]
        BY <3>1, <1>4, <1>8
      <3>3. last <= s[f[l - 1]]
        BY <3>2, <1>6
      <3>4. g[k] = m + 1
        BY <2>4, <1>7
      <3>5. QED
        BY <3>2, <3>3, <3>4 DEF last
    <2>5. CASE p < k
      <3>1. /\ k - 1 \in 1 .. m /\ l - 1 \in 1 .. m /\ k - 1 < l - 1
            /\ g[k] = f[k - 1] /\ g[l] = f[l - 1]
        <4>1. p < l
          BY <2>5, <1>4, <1>11
        <4>2. k - 1 < l - 1
          BY <1>11
        <4>3. QED
          BY <4>1, <4>2, <2>5, <1>4, <1>8
      <3>2. QED
        BY <3>1 DEF InOrder
    <2>6. QED
      BY <2>1, <2>2, <2>3, <2>4, <2>5, <1>4, <1>11
  <1>12. InOrder(m + 1, s, g)
    BY <1>9, <1>10, <1>11 DEF InOrder
  <1>13. QED
    BY <1>12

\* A list of numbers can be put in order: by induction on its length.
LEMMA CanBeSorted ==
    ASSUME NEW n \in Nat, NEW ids \in [1 .. n -> Int]
    PROVE  \E f \in Surjection(1 .. n, 1 .. n) :
                \A k, l \in 1 .. n : k < l => ids[f[k]] <= ids[f[l]]
  <1> DEFINE S == {m \in Nat : \A s \in [1 .. m -> Int] : \E f : InOrder(m, s, f)}
  <1>1. 0 \in S
    <2>1. ASSUME NEW s \in [1 .. 0 -> Int]
          PROVE  InOrder(0, s, [k \in 1 .. 0 |-> k])
      BY DEF InOrder
    <2>2. QED
      BY <2>1
  <1>2. ASSUME NEW m \in S
        PROVE  m + 1 \in S
    <2>1. ASSUME NEW s \in [1 .. m + 1 -> Int]
          PROVE  \E g : InOrder(m + 1, s, g)
      <3> DEFINE rest == [k \in 1 .. m |-> s[k]]
      <3>1. m \in Nat /\ rest \in [1 .. m -> Int]
        OBVIOUS
      <3>2. PICK f : InOrder(m, rest, f)
        BY <3>1
      <3>3. InOrder(m, s, f)
        BY <3>1, <3>2 DEF InOrder
      <3>4. QED
        BY <3>1, <3>3, InsertInOrder
    <2>2. m + 1 \in Nat
      OBVIOUS
    <2>3. QED
      BY <2>1, <2>2
  <1>3. S = Nat
    <2>1. S \in SUBSET Nat
      OBVIOUS
    <2> HIDE DEF S
    <2>2. QED
      BY <2>1, <1>1, <1>2, Induction
  <1>4. PICK f : InOrder(n, ids, f)
    <2>1. n \in S
      BY <1>3
    <2>2. QED
      BY <2>1
  <1>5. QED
    BY <1>4 DEF Surjection, InOrder

-----------------------------------------------------------------------------
(* The operators.                                                          *)

\* Sorting keeps the ids and puts them in order.
LEMMA SortedList ==
    ASSUME NEW ids \in Seq(Int)
    PROVE  /\ Sorted(ids) \in Seq(Int)
           /\ Ascending(Sorted(ids))
           /\ {Sorted(ids)[k] : k \in DOMAIN Sorted(ids)} = {ids[k] : k \in DOMAIN ids}
  <1> DEFINE n == Len(ids)
             Arranged(f) == [k \in DOMAIN ids |-> ids[f[k]]]
             f == CHOOSE g \in Surjection(DOMAIN ids, DOMAIN ids) : Ascending(Arranged(g))
  <1>1. n \in Nat /\ DOMAIN ids = 1 .. n /\ ids \in [1 .. n -> Int]
    OBVIOUS
  <1>2. \E g \in Surjection(DOMAIN ids, DOMAIN ids) : Ascending(Arranged(g))
    <2>1. PICK g \in Surjection(1 .. n, 1 .. n) :
                \A k, l \in 1 .. n : k < l => ids[g[k]] <= ids[g[l]]
      BY <1>1, CanBeSorted
    <2>2. Ascending(Arranged(g))
      BY <1>1, <2>1 DEF Ascending
    <2>3. QED
      BY <1>1, <2>1, <2>2
  <1>3. f \in Surjection(DOMAIN ids, DOMAIN ids) /\ Ascending(Arranged(f))
    BY <1>2
  <1>4. Sorted(ids) = Arranged(f)
    BY DEF Sorted
  <1> HIDE DEF f
  <1>5. /\ f \in [1 .. n -> 1 .. n]
        /\ \A t \in 1 .. n : \E k \in 1 .. n : f[k] = t
    BY <1>1, <1>3 DEF Surjection
  <1>6. Arranged(f) \in [1 .. n -> Int]
    BY <1>1, <1>5
  <1>7. {Arranged(f)[k] : k \in DOMAIN Arranged(f)} = {ids[k] : k \in DOMAIN ids}
    BY <1>1, <1>5
  <1>8. Arranged(f) \in Seq(Int)
    BY <1>1, <1>6
  <1> HIDE DEF Arranged
  <1>9. QED
    BY <1>3, <1>4, <1>7, <1>8

\* What is left of a list after one of its ids.
After(ids, k) == SubSeq(ids, k + 1, Len(ids))

LEMMA RestOfList ==
    ASSUME NEW ids \in Seq(Int), NEW k \in DOMAIN ids, Ascending(ids),
           NEW rest, rest = After(ids, k)
    PROVE  /\ rest \in Seq(Int)
           /\ Ascending(rest)
           /\ \A l \in DOMAIN rest : \E m \in DOMAIN ids : rest[l] = ids[m]
           /\ \A m \in DOMAIN ids : m > k => \E l \in DOMAIN rest : rest[l] = ids[m]
  <1>0. rest = SubSeq(ids, k + 1, Len(ids))
    BY DEF After
  <1>1. /\ Len(ids) \in Nat /\ DOMAIN ids = 1 .. Len(ids) /\ k \in 1 .. Len(ids)
        /\ rest \in Seq(Int) /\ Len(rest) = Len(ids) - k
        /\ DOMAIN rest = 1 .. Len(ids) - k
    <2>1. /\ Len(ids) \in Nat /\ DOMAIN ids = 1 .. Len(ids) /\ k \in 1 .. Len(ids)
      OBVIOUS
    <2>2. /\ SubSeq(ids, k + 1, Len(ids)) \in Seq(Int)
          /\ Len(SubSeq(ids, k + 1, Len(ids))) = Len(ids) - k
      BY <2>1
    <2>3. rest \in Seq(Int) /\ Len(rest) = Len(ids) - k
      BY <1>0, <2>2
    <2>4. QED
      BY <2>1, <2>3
  <1>2. ASSUME NEW l \in DOMAIN rest
        PROVE  k + l \in DOMAIN ids /\ rest[l] = ids[k + l]
    <2>1. k + l \in DOMAIN ids /\ l \in 1 .. Len(ids) - k
      BY <1>1
    <2>2. rest[l] = ids[(k + 1) + l - 1]
      <3>1. \A i \in 1 .. Len(ids) - (k + 1) + 1 :
                SubSeq(ids, k + 1, Len(ids))[i] = ids[(k + 1) + i - 1]
        BY <1>0
      <3>2. l \in 1 .. Len(ids) - (k + 1) + 1
        BY <1>1, <2>1
      <3>3. QED
        BY <1>0, <3>1, <3>2
    <2>3. (k + 1) + l - 1 = k + l
      BY <1>1, <2>1
    <2>4. QED
      BY <2>1, <2>2, <2>3
  <1>3. Ascending(rest)
    <2>1. ASSUME NEW l \in DOMAIN rest, NEW m \in DOMAIN rest, l < m
          PROVE  rest[l] <= rest[m]
      <3>1. k + l < k + m
        BY <1>1, <2>1
      <3>2. QED
        BY <3>1, <1>2 DEF Ascending
    <2>2. QED
      BY <2>1 DEF Ascending
  <1>4. ASSUME NEW m \in DOMAIN ids, m > k
        PROVE  \E l \in DOMAIN rest : rest[l] = ids[m]
    <2>1. m - k \in DOMAIN rest /\ k + (m - k) = m
      BY <1>1, <1>4
    <2>2. QED
      BY <2>1, <1>2
  <1>5. QED
    BY <1>1, <1>2, <1>3, <1>4

\* A block that is available is looked up as the one stored under its id.
LEMMA AvailableBlock ==
    ASSUME NEW ch \in Channel, ChannelAgrees(ch), NEW id \in Int, Available(ch, id)
    PROVE  LET block == LookupBlock(source_hashmap[ch], id)
           IN  /\ Created(ch)
               /\ id \in Nat
               /\ id + 1 \in DOMAIN published[ch]
               /\ id >= Len(published[ch]) - BufferNumber
               /\ block = [block_id |-> id, buffer |-> block.buffer]
               /\ block.buffer \in Contents
               /\ Holds(block.buffer, published[ch][id + 1].block)
  <1> DEFINE q == source_hashmap[ch]
             blocks == BlocksOf(ch)
  <1>1. Created(ch) /\ InWindow(q, id) /\ RingHolds(q, blocks)
    BY DEF Available, ChannelAgrees
  <1>2. /\ Len(blocks) \in Nat
        /\ DOMAIN blocks = 1 .. Len(blocks)
        /\ BufferNumber \in Nat
    BY <1>1, BufferAssumption DEF RingHolds
  <1>3. DOMAIN published[ch] = DOMAIN blocks
    BY DEF BlocksOf
  <1>4. /\ id \in 0 .. Len(blocks) - 1 /\ id >= Len(blocks) - BufferNumber
        /\ LookupBlock(q, id) = [block_id |-> id, buffer |-> LookupBlock(q, id).buffer]
        /\ LookupBlock(q, id).buffer \in Contents
        /\ Holds(LookupBlock(q, id).buffer, blocks[id + 1])
    <2> HIDE DEF q, blocks
    <2>1. QED
      BY <1>1, RingLookup
  <1>5. id + 1 \in DOMAIN blocks
    BY <1>2, <1>4
  <1>6. blocks[id + 1] = published[ch][id + 1].block
    BY <1>3, <1>5 DEF BlocksOf
  <1>7. QED
    BY <1>1, <1>2, <1>3, <1>4, <1>5, <1>6

\* What send_push_list leaves of a thread: either no id is found, or the first
\* that is found is being written and the ids after it are left.
LEMMA PushListFields ==
    ASSUME ChannelsAgree, NEW ch \in Channel, NEW r \in Threads, NEW ids \in Seq(Int),
           NEW q, q = send_push_list(r, ch, ids)
    PROVE  /\ q \in Threads
           /\ q.channel = r.channel
           /\ q.media_type_flag = r.media_type_flag
           /\ q.headers = r.headers
           /\ q.asked = r.asked
           /\ \/ /\ q.pc = "fill"
                 /\ q.wire = NoMessage
                 /\ q.sent = r.sent
                 /\ \A k \in DOMAIN ids : ~ Available(ch, ids[k])
              \/ \E k \in DOMAIN ids :
                    /\ q.pc = "blocks"
                    /\ Available(ch, ids[k])
                    /\ \A l \in DOMAIN ids : l < k => ~ Available(ch, ids[l])
                    /\ q.wire = LookupBlock(source_hashmap[ch], ids[k])
                    /\ q.sent = r.sent \union {ids[k]}
                    /\ q.block_array = After(ids, k)
  <1> DEFINE found == {k \in DOMAIN ids : Available(ch, ids[k])}
             first == Min(found)
  <1>1. CASE found = {}
    <2>1. q = [r EXCEPT !.pc = "fill", !.block_array = << >>, !.wire = NoMessage]
      BY <1>1 DEF send_push_list
    <2>2. NoMessage \in Message /\ << >> \in Seq(Int)
      BY DEF Message
    <2>3. q \in Threads
      BY <2>1, <2>2 DEF Threads
    <2>4. /\ q.channel = r.channel
          /\ q.media_type_flag = r.media_type_flag
          /\ q.headers = r.headers
          /\ q.asked = r.asked
          /\ q.pc = "fill"
          /\ q.wire = NoMessage
          /\ q.sent = r.sent
      BY <2>1 DEF Threads
    <2>5. \A k \in DOMAIN ids : ~ Available(ch, ids[k])
      BY <1>1
    <2>6. QED
      BY <2>3, <2>4, <2>5
  <1>2. CASE found # {}
    <2>1. first \in found /\ \A l \in found : first <= l
      <3>1. found \in SUBSET Nat
        OBVIOUS
      <3> HIDE DEF found
      <3>2. QED
        BY <1>2, <3>1, MinIsLeast
    <2> DEFINE rest == SubSeq(ids, first + 1, Len(ids))
               block == LookupBlock(source_hashmap[ch], ids[first])
    <2>2. q = [send_one_block(r, ch, ids[first]) EXCEPT !.block_array = rest]
      BY <1>2 DEF send_push_list
    <2>3. /\ first \in DOMAIN ids
          /\ ids[first] \in Int
          /\ Available(ch, ids[first])
          /\ \A l \in DOMAIN ids : l < first => ~ Available(ch, ids[l])
          /\ rest \in Seq(Int)
      <3>1. first \in 1 .. Len(ids) /\ ids[first] \in Int /\ Available(ch, ids[first])
        BY <2>1
      <3> HIDE DEF first
      <3>2. ASSUME NEW l \in DOMAIN ids, l < first
            PROVE  ~ Available(ch, ids[l])
        <4>1. Available(ch, ids[l]) => first <= l
          BY <2>1
        <4>2. QED
          BY <3>1, <3>2, <4>1
      <3>3. rest \in Seq(Int)
        BY <3>1
      <3>4. QED
        BY <3>1, <3>2, <3>3
    <2>4. block \in Message
      <3>1. /\ block = [block_id |-> ids[first], buffer |-> block.buffer]
            /\ block.buffer \in Contents
        BY <2>3, AvailableBlock DEF ChannelsAgree
      <3>2. [block_id |-> ids[first], buffer |-> block.buffer]
                \in [block_id : Int, buffer : Contents]
        BY <2>3, <3>1
      <3> HIDE DEF block
      <3>3. QED
        BY <3>1, <3>2 DEF Message
    <2> HIDE DEF found, first, rest
    <2>5. q = [r EXCEPT !.pc = "blocks", !.wire = block,
                        !.sent = r.sent \union {ids[first]}, !.block_array = rest]
      BY <2>2 DEF send_one_block, Threads
    <2> HIDE DEF block
    <2>6. q \in Threads
      <3>1. r.sent \union {ids[first]} \in SUBSET Int
        BY <2>3 DEF Threads
      <3> DEFINE sent == r.sent \union {ids[first]}
      <3> HIDE DEF sent
      <3>2. sent \in SUBSET Int
        BY <3>1 DEF sent
      <3>3. q = [r EXCEPT !.pc = "blocks", !.wire = block, !.sent = sent,
                          !.block_array = rest]
        BY <2>5 DEF sent
      <3>4. QED
        BY <2>3, <2>4, <3>2, <3>3 DEF Threads
    <2>7. /\ q.channel = r.channel
          /\ q.media_type_flag = r.media_type_flag
          /\ q.headers = r.headers
          /\ q.asked = r.asked
          /\ q.pc = "blocks"
          /\ q.wire = block
          /\ q.sent = r.sent \union {ids[first]}
          /\ q.block_array = rest
      BY <2>5 DEF Threads
    <2>8. QED
      BY <2>3, <2>6, <2>7 DEF block, rest, After
  <1>3. QED
    BY <1>1, <1>2

\* An id behind the window is not available, and an id that is not available
\* but not greater than one that is lies behind the window.
LEMMA BehindWindow ==
    ASSUME ChannelsAgree, NEW ch \in Channel, NEW id \in Int
    PROVE  /\ Gone(ch, id) => ~ Available(ch, id)
           /\ \A later \in Int :
                Available(ch, later) /\ id <= later /\ ~ Available(ch, id) => Gone(ch, id)
  <1>1. CASE Created(ch)
    <2> DEFINE q == source_hashmap[ch]
    <2>1. q.min_block_id \in Nat /\ curr_buf_size(q) \in Nat
      BY <1>1, BufferAssumption
      DEF ChannelsAgree, ChannelAgrees, RingHolds, Queues, curr_buf_size, Indices
    <2> HIDE DEF q
    <2>2. /\ \A i \in Int : Available(ch, i) <=>
                q.min_block_id <= i /\ i < q.min_block_id + curr_buf_size(q)
          /\ Gone(ch, id) <=> id < q.min_block_id
      BY <1>1 DEF Available, Gone, InWindow, q
    <2>3. QED
      BY <2>1, <2>2
  <1>2. CASE ~ Created(ch)
    BY <1>2 DEF Available, Gone
  <1>3. QED
    BY <1>1, <1>2

\* Serving a list in order, a thread comes to a state that agrees with the
\* channel, and when nothing is left of the list it has been served.
LEMMA PushListServed ==
    ASSUME ChannelsAgree,
           NEW ch \in Channel, NEW r \in Threads, NEW ids \in Seq(Int),
           r.channel = ch,
           r.headers = IF r.media_type_flag THEN 1 ELSE 0,
           r.media_type_flag \/ ~ Created(ch),
           Ascending(ids),
           \A k \in DOMAIN ids : ids[k] \in r.asked,
           \A id \in r.asked :
                \/ id \in r.sent
                \/ \E k \in DOMAIN ids : ids[k] = id
                \/ Gone(ch, id),
           NEW q, q = send_push_list(r, ch, ids)
    PROVE  /\ ThreadAgrees(q)
           /\ q.channel = ch
           /\ q.asked = r.asked
           /\ q.headers = r.headers
           /\ q.pc = "fill" =>
                \A id \in r.asked : id \in q.sent \/ ~ Available(ch, id)
           /\ \/ q.pc = "fill"
              \/ \E id \in r.asked :
                    /\ q.pc = "blocks"
                    /\ Available(ch, id)
                    /\ q.wire = LookupBlock(source_hashmap[ch], id)
  <1>1. /\ q \in Threads
        /\ q.channel = ch
        /\ q.media_type_flag = r.media_type_flag
        /\ q.headers = r.headers
        /\ q.asked = r.asked
    BY PushListFields
  <1>2. CASE /\ q.pc = "fill"
             /\ q.wire = NoMessage
             /\ q.sent = r.sent
             /\ \A k \in DOMAIN ids : ~ Available(ch, ids[k])
    <2>1. ASSUME NEW id \in r.asked
          PROVE  id \in q.sent \/ ~ Available(ch, id)
      <3>1. id \in Int
        BY DEF Threads
      <3>2. QED
        BY <3>1, <1>2, BehindWindow
    <2>2. HeaderFirst(q) /\ WireHolds(q) /\ ListLeft(q)
      BY <1>1, <1>2 DEF HeaderFirst, WireHolds, ListLeft
    <2>3. QED
      BY <1>1, <1>2, <2>1, <2>2 DEF ThreadAgrees
  <1>3. ASSUME NEW k \in DOMAIN ids,
               q.pc = "blocks",
               Available(ch, ids[k]),
               \A l \in DOMAIN ids : l < k => ~ Available(ch, ids[l]),
               q.wire = LookupBlock(source_hashmap[ch], ids[k]),
               q.sent = r.sent \union {ids[k]},
               q.block_array = After(ids, k)
        PROVE  /\ ThreadAgrees(q)
               /\ \E id \in r.asked :
                    /\ q.pc = "blocks"
                    /\ Available(ch, id)
                    /\ q.wire = LookupBlock(source_hashmap[ch], id)
    <2> DEFINE rest == q.block_array
    <2>1. /\ Ascending(rest)
          /\ \A l \in DOMAIN rest : \E m \in DOMAIN ids : rest[l] = ids[m]
          /\ \A m \in DOMAIN ids : m > k => \E l \in DOMAIN rest : rest[l] = ids[m]
      <3>1. rest = After(ids, k)
        BY <1>3
      <3> HIDE DEF rest
      <3>2. QED
        BY <3>1, RestOfList
    <2>2. ids[k] \in Int /\ k \in Nat
      OBVIOUS
    <2>3. /\ Created(ch)
          /\ ids[k] + 1 \in DOMAIN published[ch]
          /\ q.wire \in [block_id : Nat, buffer : Contents]
          /\ q.wire.block_id = ids[k]
          /\ Holds(q.wire.buffer, published[ch][ids[k] + 1].block)
      <3> DEFINE block == LookupBlock(source_hashmap[ch], ids[k])
      <3>1. /\ Created(ch)
            /\ ids[k] \in Nat
            /\ ids[k] + 1 \in DOMAIN published[ch]
            /\ block = [block_id |-> ids[k], buffer |-> block.buffer]
            /\ block.buffer \in Contents
            /\ Holds(block.buffer, published[ch][ids[k] + 1].block)
        BY <1>3, <2>2, AvailableBlock DEF ChannelsAgree
      <3>2. q.wire = block
        BY <1>3
      <3> HIDE DEF block
      <3>3. /\ block \in [block_id : Nat, buffer : Contents]
            /\ block.block_id = ids[k]
        <4> DEFINE buffer == block.buffer
        <4>1. block = [block_id |-> ids[k], buffer |-> buffer] /\ buffer \in Contents
          BY <3>1
        <4> HIDE DEF buffer
        <4>2. QED
          BY <4>1, <3>1
      <3>4. QED
        BY <3>1, <3>2, <3>3
    <2>4. WireHolds(q)
      BY <1>1, <1>3, <2>3 DEF WireHolds
    <2>5. HeaderFirst(q)
      BY <1>1, <1>3, <2>3 DEF HeaderFirst
    <2>6. ASSUME NEW id \in r.asked
          PROVE  \/ id \in q.sent
                 \/ \E l \in DOMAIN rest : rest[l] = id
                 \/ Gone(ch, id)
      <3>1. CASE id \in r.sent \/ Gone(ch, id)
        BY <3>1, <1>3
      <3>2. ASSUME NEW m \in DOMAIN ids, ids[m] = id
            PROVE  \/ id \in q.sent
                   \/ \E l \in DOMAIN rest : rest[l] = id
                   \/ Gone(ch, id)
        <4>1. m \in Nat /\ ids[m] \in Int
          OBVIOUS
        <4>2. CASE m > k
          BY <4>2, <3>2, <2>1
        <4>3. CASE m = k
          BY <4>3, <3>2, <1>3
        <4>4. CASE m < k
          <5>1. ids[m] <= ids[k] /\ ~ Available(ch, ids[m])
            BY <4>4, <1>3 DEF Ascending
          <5>2. Gone(ch, ids[m])
            BY <5>1, <4>1, <2>2, <1>3, BehindWindow
          <5>3. QED
            BY <5>2, <3>2
        <4>5. QED
          BY <4>1, <4>2, <4>3, <4>4, <2>2
      <3>3. QED
        BY <3>1, <3>2
    <2>7. \A l \in DOMAIN rest : rest[l] \in r.asked
      BY <2>1
    <2>8. ListLeft(q)
      BY <1>1, <1>3, <2>1, <2>6, <2>7 DEF ListLeft
    <2>9. QED
      BY <1>1, <1>3, <2>4, <2>5, <2>8 DEF ThreadAgrees
  <1>4. QED
    <2>1. \/ /\ q.pc = "fill"
             /\ q.wire = NoMessage
             /\ q.sent = r.sent
             /\ \A k \in DOMAIN ids : ~ Available(ch, ids[k])
          \/ \E k \in DOMAIN ids :
                /\ q.pc = "blocks"
                /\ Available(ch, ids[k])
                /\ \A l \in DOMAIN ids : l < k => ~ Available(ch, ids[l])
                /\ q.wire = LookupBlock(source_hashmap[ch], ids[k])
                /\ q.sent = r.sent \union {ids[k]}
                /\ q.block_array = After(ids, k)
      BY PushListFields
    <2>2. CASE q.pc = "fill"
      BY <2>1, <2>2, <1>1, <1>2
    <2>3. CASE q.pc # "fill"
      BY <2>1, <2>3, <1>1, <1>3
    <2>4. QED
      BY <2>2, <2>3

-----------------------------------------------------------------------------
(* The steps of the normal peers' threads.                                 *)

\* A step that sets one thread to a record that agrees with the channels keeps
\* the invariant.
LEMMA OneThread ==
    ASSUME IInv, NEW p \in Np, NEW r, ThreadAgrees(r), np' = [np EXCEPT ![p] = r],
           no_receive_counter' \in 0 .. IdleLimit - 1,
           UNCHANGED <<source_hashmap, media_header, published, cs>>
    PROVE  IInv'
  <1>1. \A q \in Np : ThreadAgrees(np'[q])
    BY DEF IInv, TypeOK, ThreadsAgree
  <1>2. np' \in [Np -> Threads]
    BY DEF IInv, TypeOK, ThreadAgrees
  <1>3. ThreadsAgree'
    BY <1>1
    DEF ThreadsAgree, ThreadAgrees, HeaderFirst, WireHolds, ListLeft, Gone, Created
  <1>4. TypeOK'
    BY <1>2 DEF IInv, TypeOK
  <1>5. ChannelsAgree' /\ Registered'
    BY DEF IInv, ChannelsAgree, ChannelAgrees, Registered, Created, BlocksOf
  <1>6. QED
    BY <1>3, <1>4, <1>5 DEF IInv

\* A push list: with the flag set blocks may follow, without it the header, or
\* nothing when the channel does not exist.
LEMMA GetPushListServed ==
    ASSUME IInv, NEW p \in Np, NEW ch \in Channel, NEW ids \in PushLists,
           GetPushList(p, ch, ids)
    PROVE  \E r :
            /\ ThreadAgrees(r)
            /\ np' = [np EXCEPT ![p] = r]
            /\ r.channel = ch
            /\ r.asked = {ids[k] : k \in DOMAIN ids}
            /\ \/ /\ np[p].headers = 0 /\ r.headers = 1 /\ Created(ch)
                  /\ r.wire = [header |-> media_header[ch]]
               \/ /\ r.headers = np[p].headers
                  /\ r.pc = "fill"
               \/ /\ r.headers = np[p].headers
                  /\ r.pc = "blocks"
                  /\ \E id \in r.asked :
                        /\ Available(ch, id)
                        /\ r.wire = LookupBlock(source_hashmap[ch], id)
  <1> DEFINE asked == {ids[k] : k \in DOMAIN ids}
             r == [np[p] EXCEPT !.channel = ch, !.asked = asked, !.sent = {}]
             h == [send_media_type(r, ch) EXCEPT !.block_array = ids]
             q == send_push_list(r, ch, Sorted(ids))
  <1>1. /\ ids \in Seq(Int)
        /\ asked \in SUBSET Int
        /\ Sorted(ids) \in Seq(Int)
        /\ Ascending(Sorted(ids))
        /\ {Sorted(ids)[k] : k \in DOMAIN Sorted(ids)} = asked
    <2>1. ids \in Seq(Int)
      BY SuperPeerAssumption
    <2>2. asked \in SUBSET Int
      BY <2>1
    <2>3. QED
      BY <2>1, <2>2, SortedList
  <1>2. ThreadAgrees(np[p]) /\ np[p].pc = "fill" /\ np[p] \in Threads
    BY DEF IInv, ThreadsAgree, ThreadAgrees, GetPushList
  <1>3. \/ ~ r.media_type_flag /\ Created(ch) /\ np' = [np EXCEPT ![p] = h]
        \/ /\ r.media_type_flag \/ ~ Created(ch)
           /\ np' = [np EXCEPT ![p] = q]
    BY DEF GetPushList
  <1> HIDE DEF asked
  <1>4. /\ r \in Threads /\ r.channel = ch /\ r.asked = asked /\ r.pc = "fill"
        /\ r.media_type_flag = np[p].media_type_flag
        /\ r.headers = np[p].headers
        /\ r.headers = IF r.media_type_flag THEN 1 ELSE 0
    BY <1>1, <1>2 DEF Threads, ThreadAgrees, HeaderFirst
  <1> HIDE DEF r
  <1>5. CASE ~ r.media_type_flag /\ Created(ch) /\ np' = [np EXCEPT ![p] = h]
    <2> DEFINE header == [header |-> media_header[ch]]
    <2>1. header \in [header : Header \union {Uninitialised}]
      BY DEF IInv, TypeOK
    <2> HIDE DEF header
    <2>2. h = [r EXCEPT !.pc = "media", !.wire = header, !.headers = 1,
                        !.block_array = ids]
      BY <1>4, <1>5 DEF send_media_type, Threads, header
    <2> HIDE DEF h
    <2>3. header \in Message
      BY <2>1 DEF Message
    <2>4. h \in Threads
      BY <1>1, <1>4, <2>2, <2>3 DEF Threads
    <2>5. /\ h.channel = ch /\ h.asked = asked /\ h.pc = "media" /\ h.wire = header
          /\ h.headers = 1 /\ ~ h.media_type_flag /\ h.block_array = ids
      BY <1>4, <1>5, <2>2 DEF Threads
    <2>6. ThreadAgrees(h)
      <3>1. WireHolds(h)
        BY <2>1, <2>5 DEF WireHolds
      <3>2. HeaderFirst(h)
        BY <2>5 DEF HeaderFirst
      <3>3. ListLeft(h)
        BY <2>5 DEF ListLeft, asked
      <3>4. QED
        BY <2>4, <3>1, <3>2, <3>3 DEF ThreadAgrees
    <2>7. np[p].headers = 0
      BY <1>4, <1>5
    <2>8. QED
      BY <1>5, <2>5, <2>6, <2>7 DEF header, asked
  <1>6. CASE /\ r.media_type_flag \/ ~ Created(ch)
             /\ np' = [np EXCEPT ![p] = q]
    <2> DEFINE list == Sorted(ids)
    <2>1. /\ list \in Seq(Int) /\ Ascending(list)
          /\ {list[k] : k \in DOMAIN list} = asked
      BY <1>1
    <2> HIDE DEF list
    <2>2. /\ \A k \in DOMAIN list : list[k] \in r.asked
          /\ \A id \in r.asked : \E k \in DOMAIN list : list[k] = id
      BY <1>4, <2>1
    <2>3. ChannelsAgree /\ q = send_push_list(r, ch, list)
      BY DEF IInv, list
    <2> HIDE DEF q
    <2>4. /\ ThreadAgrees(q)
          /\ q.channel = ch
          /\ q.asked = r.asked
          /\ q.headers = r.headers
          /\ \/ q.pc = "fill"
             \/ \E id \in r.asked :
                   /\ q.pc = "blocks"
                   /\ Available(ch, id)
                   /\ q.wire = LookupBlock(source_hashmap[ch], id)
      BY <1>4, <1>6, <2>1, <2>2, <2>3, PushListServed
    <2>5. QED
      BY <1>4, <1>6, <2>4 DEF asked
  <1>7. QED
    BY <1>3, <1>5, <1>6

\* A write returns, of the header or of a block: the list is served on, and a
\* thread that is back in loop() has served it.
LEMMA WrittenServed ==
    ASSUME IInv, NEW p \in Np, MediaTypeWritten(p) \/ BlockWritten(p)
    PROVE  \E r :
            /\ ThreadAgrees(r)
            /\ np' = [np EXCEPT ![p] = r]
            /\ np[p].pc # "fill"
            /\ r.channel = np[p].channel
            /\ r.asked = np[p].asked
            /\ r.headers = np[p].headers
            /\ r.headers = 1
            /\ r.pc = "fill" =>
                \A id \in r.asked : id \in r.sent \/ ~ Available(r.channel, id)
            /\ \/ r.pc = "fill"
               \/ \E id \in r.asked :
                    /\ r.pc = "blocks"
                    /\ Available(r.channel, id)
                    /\ r.wire = LookupBlock(source_hashmap[r.channel], id)
  <1> DEFINE t == np[p]
             ch == t.channel
  <1>1. ThreadAgrees(t) /\ t \in Threads /\ ChannelsAgree
    BY DEF IInv, ThreadsAgree, ThreadAgrees
  <1>2. CASE MediaTypeWritten(p)
    <2> DEFINE s == [t EXCEPT !.media_type_flag = TRUE]
               list == Sorted(t.block_array)
               q == send_push_list(s, ch, list)
    <2>1. t.pc = "media" /\ np' = [np EXCEPT ![p] = q]
      BY <1>2 DEF MediaTypeWritten
    <2>2. /\ ch \in Channel
          /\ t.headers = 1
          /\ t.asked = {t.block_array[k] : k \in DOMAIN t.block_array}
          /\ t.block_array \in Seq(Int)
      BY <1>1, <2>1 DEF ThreadAgrees, WireHolds, HeaderFirst, ListLeft, Threads
    <2>3. /\ list \in Seq(Int) /\ Ascending(list)
          /\ {list[k] : k \in DOMAIN list} = t.asked
      BY <2>2, SortedList
    <2>4. /\ s \in Threads /\ s.channel = ch /\ s.asked = t.asked
          /\ s.headers = 1 /\ s.media_type_flag = TRUE
      BY <1>1, <2>2 DEF Threads
    <2> HIDE DEF list, s
    <2>5. /\ \A k \in DOMAIN list : list[k] \in s.asked
          /\ \A id \in s.asked :
                \/ id \in s.sent
                \/ \E k \in DOMAIN list : list[k] = id
                \/ Gone(ch, id)
          /\ s.headers = IF s.media_type_flag THEN 1 ELSE 0
          /\ s.media_type_flag \/ ~ Created(ch)
      BY <2>3, <2>4
    <2>6. q = send_push_list(s, ch, list)
      OBVIOUS
    <2>7. /\ ThreadAgrees(q)
          /\ q.channel = ch
          /\ q.asked = s.asked
          /\ q.headers = s.headers
          /\ q.pc = "fill" =>
                \A id \in s.asked : id \in q.sent \/ ~ Available(ch, id)
          /\ \/ q.pc = "fill"
             \/ \E id \in s.asked :
                   /\ q.pc = "blocks"
                   /\ Available(ch, id)
                   /\ q.wire = LookupBlock(source_hashmap[ch], id)
      <3>1. /\ ChannelsAgree /\ ch \in Channel /\ s \in Threads /\ list \in Seq(Int)
            /\ s.channel = ch /\ Ascending(list)
        BY <1>1, <2>2, <2>3, <2>4
      <3> HIDE DEF t, ch, q
      <3>2. QED
        BY <3>1, <2>5, <2>6, PushListServed
    <2> HIDE DEF q
    <2>8. /\ q.asked = t.asked
          /\ q.headers = 1
          /\ q.pc = "fill" =>
                \A id \in q.asked : id \in q.sent \/ ~ Available(q.channel, id)
          /\ \/ q.pc = "fill"
             \/ \E id \in q.asked :
                   /\ q.pc = "blocks"
                   /\ Available(q.channel, id)
                   /\ q.wire = LookupBlock(source_hashmap[q.channel], id)
      <3> HIDE DEF ch
      <3>1. QED
        BY <2>4, <2>7
    <2>9. QED
      BY <2>1, <2>2, <2>7, <2>8
  <1>3. CASE BlockWritten(p)
    <2> DEFINE list == t.block_array
               q == send_push_list(t, ch, list)
    <2>1. t.pc = "blocks" /\ np' = [np EXCEPT ![p] = q]
      BY <1>3 DEF BlockWritten
    <2>2. /\ ch \in Channel
          /\ t.headers = 1 /\ t.media_type_flag = TRUE
          /\ list \in Seq(Int) /\ Ascending(list)
          /\ \A k \in DOMAIN list : list[k] \in t.asked
          /\ \A id \in t.asked :
                \/ id \in t.sent
                \/ \E k \in DOMAIN list : list[k] = id
                \/ Gone(ch, id)
      BY <1>1, <2>1 DEF ThreadAgrees, WireHolds, HeaderFirst, ListLeft, Threads
    <2>3. q = send_push_list(t, ch, list) /\ t.channel = ch
      OBVIOUS
    <2>4. /\ ThreadAgrees(q)
          /\ q.channel = ch
          /\ q.asked = t.asked
          /\ q.headers = t.headers
          /\ q.pc = "fill" =>
                \A id \in t.asked : id \in q.sent \/ ~ Available(ch, id)
          /\ \/ q.pc = "fill"
             \/ \E id \in t.asked :
                   /\ q.pc = "blocks"
                   /\ Available(ch, id)
                   /\ q.wire = LookupBlock(source_hashmap[ch], id)
      <3> HIDE DEF t, ch, list, q
      <3>1. QED
        BY <1>1, <2>2, <2>3, PushListServed
    <2> HIDE DEF q
    <2>5. QED
      BY <2>1, <2>2, <2>4
  <1>4. QED
    BY <1>2, <1>3

\* What happens to the connection is nothing to what it sends.
LEMMA ConnectionFields ==
    ASSUME IInv, NEW p \in Np, NpConnect(p) \/ PeerEnds(p) \/ ReadFails(p)
    PROVE  \E r :
            /\ ThreadAgrees(r)
            /\ np' = [np EXCEPT ![p] = r]
            /\ no_receive_counter' \in 0 .. IdleLimit - 1
            /\ r.pc = np[p].pc /\ r.channel = np[p].channel /\ r.asked = np[p].asked
            /\ r.wire = np[p].wire /\ r.headers = np[p].headers
  <1> DEFINE t == np[p]
  <1>1. /\ ThreadAgrees(t)
        /\ np = [np EXCEPT ![p] = t]
        /\ no_receive_counter \in 0 .. IdleLimit - 1
        /\ IdleLimit \in Nat \ {0}
    BY SuperPeerAssumption DEF IInv, ThreadsAgree, TypeOK
  <1>2. ASSUME NEW state \in {"none", "open", "closed"}, NEW peer \in {"up", "ended"},
               NEW r, r = [t EXCEPT !.state = state, !.peer = peer]
        PROVE  /\ ThreadAgrees(r)
               /\ r.pc = t.pc /\ r.channel = t.channel /\ r.asked = t.asked
               /\ r.wire = t.wire /\ r.headers = t.headers
    <2> HIDE DEF t
    <2>1. t \in Threads
      BY <1>1 DEF ThreadAgrees
    <2>2. /\ r \in Threads
          /\ r.pc = t.pc /\ r.channel = t.channel /\ r.asked = t.asked
          /\ r.wire = t.wire /\ r.headers = t.headers /\ r.sent = t.sent
          /\ r.block_array = t.block_array /\ r.media_type_flag = t.media_type_flag
      BY <1>2, <2>1 DEF Threads
    <2>3. QED
      BY <1>1, <2>2 DEF ThreadAgrees, HeaderFirst, WireHolds, ListLeft
  <1>3. t.state \in {"none", "open", "closed"} /\ t.peer \in {"up", "ended"}
    BY <1>1 DEF ThreadAgrees, Threads
  <1>4. t = [t EXCEPT !.state = t.state] /\ t = [t EXCEPT !.peer = t.peer]
    BY <1>1 DEF ThreadAgrees, Threads
  <1>5. PICK state \in {"none", "open", "closed"}, peer \in {"up", "ended"} :
            /\ np' = [np EXCEPT ![p] = [t EXCEPT !.state = state, !.peer = peer]]
            /\ no_receive_counter' \in 0 .. IdleLimit - 1
    <2>1. CASE NpConnect(p)
      <3>1. np' = [np EXCEPT ![p] = [t EXCEPT !.state = "open", !.peer = t.peer]]
        BY <2>1, <1>1 DEF NpConnect, ThreadAgrees, Threads
      <3>2. QED
        BY <3>1, <2>1, <1>1, <1>3 DEF NpConnect
    <2>2. CASE PeerEnds(p)
      <3>1. np' = [np EXCEPT ![p] = [t EXCEPT !.state = t.state, !.peer = "ended"]]
        BY <2>2, <1>1 DEF PeerEnds, ThreadAgrees, Threads
      <3>2. QED
        BY <3>1, <2>2, <1>1, <1>3 DEF PeerEnds
    <2>3. CASE ReadFails(p)
      <3>1. CASE no_receive_counter + 1 = IdleLimit
        <4>1. np' = [np EXCEPT ![p] = [t EXCEPT !.state = "closed", !.peer = t.peer]]
          BY <2>3, <3>1, <1>1 DEF ReadFails, ThreadAgrees, Threads
        <4>2. QED
          BY <4>1, <2>3, <3>1, <1>1, <1>3 DEF ReadFails
      <3>2. CASE no_receive_counter + 1 # IdleLimit
        <4>1. np' = [np EXCEPT ![p] = [t EXCEPT !.state = t.state, !.peer = t.peer]]
          BY <2>3, <3>2, <1>1 DEF ReadFails, ThreadAgrees, Threads
        <4>2. no_receive_counter' \in 0 .. IdleLimit - 1
          BY <2>3, <3>2, <1>1 DEF ReadFails
        <4>3. QED
          BY <4>1, <4>2, <1>3
      <3>3. QED
        BY <3>1, <3>2
    <2>4. QED
      BY <2>1, <2>2, <2>3
  <1>6. QED
    BY <1>2, <1>5

-----------------------------------------------------------------------------
(* The steps of the capture servers' threads.                              *)

\* Channels that are made, windows that move up and blocks that are added
\* leave the threads in agreement with the channels.
LEMMA ChannelsGrow ==
    ASSUME ThreadsAgree,
           np' = np,
           \A ch \in Channel : Created(ch) =>
                /\ Created(ch)'
                /\ source_hashmap[ch].min_block_id \in Int
                /\ source_hashmap'[ch].min_block_id \in Int
                /\ source_hashmap[ch].min_block_id <= source_hashmap'[ch].min_block_id,
           \A ch \in Channel : \A k \in DOMAIN published[ch] :
                k \in DOMAIN published'[ch] /\ published'[ch][k] = published[ch][k]
    PROVE  ThreadsAgree'
  <1> SUFFICES ASSUME NEW p \in Np
               PROVE  ThreadAgrees(np[p])'
    BY DEF ThreadsAgree
  <1> DEFINE r == np[p]
             ch == r.channel
  <1>1. ThreadAgrees(r)
    BY DEF ThreadsAgree
  <1>2. /\ r \in Threads /\ HeaderFirst(r) /\ WireHolds(r) /\ ListLeft(r)
        /\ r.pc # "fill" => ch \in Channel
    BY <1>1 DEF ThreadAgrees, WireHolds
  <1>3. WireHolds(np[p])'
    <2>1. r.pc = "blocks" =>
            /\ r.wire.block_id + 1 \in DOMAIN published'[ch]
            /\ Holds(r.wire.buffer, published'[ch][r.wire.block_id + 1].block)
      BY <1>2 DEF WireHolds
    <2>2. QED
      BY <1>2, <2>1 DEF WireHolds
  <1>4. ListLeft(np[p])'
    <2>1. ASSUME NEW id \in r.asked, r.pc = "blocks", Gone(ch, id)
          PROVE  Gone(ch, id)'
      <3>1. id \in Int /\ ch \in Channel
        BY <1>2, <2>1 DEF Threads
      <3>2. QED
        BY <2>1, <3>1 DEF Gone
    <2>2. QED
      BY <1>2, <2>1 DEF ListLeft, Gone
  <1>5. QED
    BY <1>2, <1>3, <1>4 DEF ThreadAgrees, HeaderFirst

\* A registration.
LEMMA CsRegisterIInv ==
    ASSUME IInv, NEW c \in Cs, NEW ch \in Channel, NEW header \in RegisterHeaders,
           CsRegister(c, ch, header)
    PROVE  IInv'
  <1>1. /\ source_hashmap' = create_source(ch)
        /\ UNCHANGED <<published, np, no_receive_counter>>
        /\ cs' = [cs EXCEPT ![c] = [chnl_hash |-> ch, registers |-> cs[c].registers + 1]]
        /\ cs[c].registers < MaxRegisters
        /\ media_header' =
            IF header = NoHeader THEN media_header ELSE [media_header EXCEPT ![ch] = header]
    BY DEF CsRegister, add_header
  <1>2. PICK created \in SUBSET Channel : source_hashmap \in [created -> Queues]
    BY DEF IInv, TypeOK
  <1>3. NewQueue \in Queues
    BY NewQueueHolds DEF RingHolds
  <1>4. /\ source_hashmap' \in [created \union {ch} -> Queues]
        /\ \A d \in Channel : Created(d)' <=> Created(d) \/ d = ch
        /\ \A d \in Channel : Created(d) => source_hashmap'[d] = source_hashmap[d]
        /\ ~ Created(ch) => source_hashmap'[ch] = NewQueue
    <2>1. CASE Created(ch)
      BY <2>1, <1>1, <1>2 DEF create_source, Created
    <2>2. CASE ~ Created(ch)
      <3>1. source_hashmap' = [d \in created \union {ch} |->
                                IF d = ch THEN NewQueue ELSE source_hashmap[d]]
        BY <2>2, <1>1, <1>2 DEF create_source
      <3>2. QED
        BY <2>2, <3>1, <1>2, <1>3 DEF Created
    <2>3. QED
      BY <2>1, <2>2
  <1>5. TypeOK'
    <2>1. \E all \in SUBSET Channel : source_hashmap' \in [all -> Queues]
      BY <1>4
    <2>2. media_header' \in [Channel -> Header \union {Uninitialised}]
      BY <1>1, SuperPeerAssumption DEF IInv, TypeOK
    <2>3. cs' \in [Cs -> [chnl_hash : Channel \union {NoChannel},
                         registers : 0 .. MaxRegisters]]
      BY <1>1, SuperPeerAssumption DEF IInv, TypeOK
    <2>4. QED
      BY <1>1, <2>1, <2>2, <2>3 DEF IInv, TypeOK
  <1>6. ChannelsAgree'
    <2> SUFFICES ASSUME NEW d \in Channel
                 PROVE  ChannelAgrees(d)'
      BY DEF ChannelsAgree
    <2>1. ChannelAgrees(d)
      BY DEF IInv, ChannelsAgree
    <2>2. BlocksOf(d)' = BlocksOf(d)
      BY <1>1 DEF BlocksOf
    <2>3. IF Created(d)'
          THEN RingHolds(source_hashmap'[d], BlocksOf(d))
          ELSE published[d] = << >>
      <3>1. CASE Created(d)
        BY <3>1, <2>1, <1>4 DEF ChannelAgrees
      <3>2. CASE ~ Created(d) /\ d = ch
        <4>1. published[d] = << >>
          BY <3>2, <2>1 DEF ChannelAgrees
        <4>2. BlocksOf(d) = << >>
          BY <4>1 DEF BlocksOf
        <4>3. QED
          BY <4>2, <3>2, <1>4, NewQueueHolds
      <3>3. CASE ~ Created(d) /\ d # ch
        BY <3>3, <2>1, <1>4 DEF ChannelAgrees
      <3>4. QED
        BY <3>1, <3>2, <3>3
    <2>4. QED
      BY <2>1, <2>2, <2>3, <1>1 DEF ChannelAgrees
  <1>7. Registered'
    BY <1>1, <1>4 DEF IInv, TypeOK, Registered
  <1>8. ThreadsAgree'
    <2>1. ASSUME NEW d \in Channel, Created(d)
          PROVE  source_hashmap[d].min_block_id \in Int
      BY <2>1, <1>2 DEF Created, Queues
    <2>2. \A d \in Channel : Created(d) =>
            /\ Created(d)'
            /\ source_hashmap[d].min_block_id \in Int
            /\ source_hashmap'[d].min_block_id \in Int
            /\ source_hashmap[d].min_block_id <= source_hashmap'[d].min_block_id
      BY <2>1, <1>4
    <2>3. \A d \in Channel : \A k \in DOMAIN published[d] :
            k \in DOMAIN published'[d] /\ published'[d][k] = published[d][k]
      BY <1>1
    <2>4. QED
      BY <2>2, <2>3, <1>1, ChannelsGrow DEF IInv
  <1>9. QED
    BY <1>5, <1>6, <1>7, <1>8 DEF IInv

\* A header.
LEMMA CsMediaTypeIInv ==
    ASSUME IInv, NEW c \in Cs, NEW header \in Header, CsMediaType(c, header)
    PROVE  IInv'
  <1> DEFINE ch == cs[c].chnl_hash
  <1>1. /\ media_header' = [media_header EXCEPT ![ch] = header]
        /\ UNCHANGED <<source_hashmap, published, cs, np, no_receive_counter>>
    BY DEF CsMediaType, add_header
  <1>2. TypeOK'
    BY <1>1 DEF IInv, TypeOK
  <1>3. ChannelsAgree'
    BY <1>1 DEF IInv, TypeOK, ChannelsAgree, ChannelAgrees, Created, BlocksOf
  <1>4. Registered' /\ ThreadsAgree'
    BY <1>1 DEF IInv, Registered, Created, ThreadsAgree, ThreadAgrees, HeaderFirst,
                WireHolds, ListLeft, Gone
  <1>5. QED
    BY <1>2, <1>3, <1>4 DEF IInv

\* A block.
LEMMA CsBlockIInv ==
    ASSUME IInv, NEW c \in Cs, NEW block \in Blocks, CsBlock(c, block)
    PROVE  IInv'
  <1>0. PICK ch \in Channel : ch = cs[c].chnl_hash /\ ch # NoChannel
    BY DEF IInv, TypeOK, CsBlock
  <1> DEFINE id == Len(published[ch])
             entry == [block_id |-> id, block |-> block]
             q == source_hashmap[ch]
             r == StoreBlock(q, id, block)
  <1>1. /\ source_hashmap' = [source_hashmap EXCEPT ![ch] = r]
        /\ published' = [published EXCEPT ![ch] = Append(published[ch], entry)]
        /\ UNCHANGED <<media_header, cs, np, no_receive_counter>>
    BY <1>0 DEF CsBlock
  <1>2. Created(ch) /\ ChannelAgrees(ch)
    BY <1>0 DEF IInv, Registered, ChannelsAgree
  <1>3. RingHolds(q, BlocksOf(ch))
    BY <1>2 DEF ChannelAgrees
  <1>4. /\ published[ch] \in Seq([block_id : Nat, block : Blocks])
        /\ published \in [Channel -> Seq([block_id : Nat, block : Blocks])]
        /\ id \in Nat
        /\ entry \in [block_id : Nat, block : Blocks]
    <2>1. /\ published[ch] \in Seq([block_id : Nat, block : Blocks])
          /\ published \in [Channel -> Seq([block_id : Nat, block : Blocks])]
      BY DEF IInv, TypeOK
    <2>2. id \in Nat
      BY <2>1
    <2> HIDE DEF id
    <2>3. QED
      BY <2>1, <2>2
  <1>5. /\ Len(BlocksOf(ch)) = id
        /\ DOMAIN published[ch] = 1 .. id
        /\ DOMAIN BlocksOf(ch) = 1 .. id
        /\ BlocksOf(ch) \in Seq(Blocks)
    <2>1. DOMAIN published[ch] = 1 .. id /\ DOMAIN BlocksOf(ch) = 1 .. id
      BY <1>4 DEF BlocksOf
    <2>2. BlocksOf(ch) \in Seq(Blocks)
      BY <1>3 DEF RingHolds
    <2> HIDE DEF id
    <2>3. QED
      BY <2>1, <2>2, <1>4
  <1> HIDE DEF q, r, id, entry
  <1>6. /\ published'[ch] = Append(published[ch], entry)
        /\ \A d \in Channel : d # ch => published'[d] = published[d]
        /\ source_hashmap'[ch] = r
        /\ DOMAIN source_hashmap' = DOMAIN source_hashmap
        /\ \A d \in Channel : d # ch => source_hashmap'[d] = source_hashmap[d]
    BY <1>1, <1>2, <1>4 DEF Created
  <1>7. /\ DOMAIN published'[ch] = 1 .. id + 1
        /\ \A k \in 1 .. id : published'[ch][k] = published[ch][k]
        /\ published'[ch][id + 1] = entry
    BY <1>4, <1>6 DEF id
  <1>8. entry.block = block /\ entry.block_id = id
    BY DEF entry
  <1>9. BlocksOf(ch)' = Append(BlocksOf(ch), block)
    <2> DEFINE old == BlocksOf(ch)
               new == BlocksOf(ch)'
               more == Append(old, block)
    <2>1. /\ DOMAIN new = 1 .. id + 1
          /\ \A k \in 1 .. id : new[k] = published[ch][k].block
          /\ new[id + 1] = block
          /\ new = [k \in 1 .. id + 1 |-> new[k]]
      <3>1. new = [k \in DOMAIN published'[ch] |-> published'[ch][k].block]
        BY <1>1 DEF BlocksOf
      <3>2. QED
        BY <3>1, <1>4, <1>7, <1>8
    <2>2. \A k \in 1 .. id : old[k] = published[ch][k].block
      BY <1>5 DEF BlocksOf
    <2>3. old \in Seq(Blocks) /\ Len(old) = id
      BY <1>5
    <2> HIDE DEF old, new
    <2>4. /\ more \in Seq(Blocks)
          /\ Len(more) = id + 1
          /\ \A k \in 1 .. id : more[k] = old[k]
          /\ more[id + 1] = block
      BY <2>3
    <2> HIDE DEF more
    <2>5. /\ DOMAIN more = 1 .. id + 1
          /\ more = [k \in 1 .. id + 1 |-> more[k]]
      BY <2>4
    <2>6. ASSUME NEW k \in 1 .. id + 1
          PROVE  more[k] = new[k]
      <3>1. k \in 1 .. id \/ k = id + 1
        BY <1>4
      <3>2. QED
        BY <3>1, <2>1, <2>2, <2>4
    <2>7. more = new
      BY <2>1, <2>5, <2>6
    <2>8. QED
      BY <2>7 DEF more, new, old
  <1>10. RingHolds(r, BlocksOf(ch)')
    BY <1>3, <1>5, <1>9, StoreKeepsRing DEF r
  <1>11. r \in Queues /\ q \in Queues
    BY <1>3, <1>10 DEF RingHolds
  <1>12. /\ r.min_block_id \in Int /\ q.min_block_id \in Int
         /\ q.min_block_id <= r.min_block_id
    <2>1. r.min_block_id = IF q.buffer_full_flag
                           THEN q.min_block_id + 1 ELSE q.min_block_id
      BY <1>4, <1>11, StoreBlockFields DEF r
    <2>2. QED
      BY <2>1, <1>11 DEF Queues
  <1>13. TypeOK'
    <2>1. \E created \in SUBSET Channel : source_hashmap' \in [created -> Queues]
      BY <1>1, <1>11 DEF IInv, TypeOK
    <2>2. published' \in [Channel -> Seq([block_id : Nat, block : Blocks])]
      <3>1. Append(published[ch], entry) \in Seq([block_id : Nat, block : Blocks])
        BY <1>4
      <3>2. QED
        BY <1>1, <1>4, <3>1
    <2>3. QED
      BY <2>1, <2>2, <1>1 DEF IInv, TypeOK
  <1>14. ChannelsAgree'
    <2> SUFFICES ASSUME NEW d \in Channel
                 PROVE  ChannelAgrees(d)'
      BY DEF ChannelsAgree
    <2>1. CASE d = ch
      <3>1. Created(ch)'
        BY <1>2, <1>6 DEF Created
      <3>2. \A k \in DOMAIN published'[ch] : published'[ch][k].block_id = k - 1
        <4>1. \A k \in 1 .. id : published[ch][k].block_id = k - 1
          BY <1>2, <1>5 DEF ChannelAgrees
        <4>2. ASSUME NEW k \in 1 .. id + 1
              PROVE  published'[ch][k].block_id = k - 1
          <5>1. k \in 1 .. id \/ (k = id + 1 /\ k - 1 = id)
            BY <1>4
          <5>2. QED
            BY <4>1, <5>1, <1>7, <1>8
        <4>3. QED
          BY <4>2, <1>7
      <3>3. QED
        BY <2>1, <3>1, <3>2, <1>6, <1>10 DEF ChannelAgrees, BlocksOf
    <2>2. CASE d # ch
      <3>1. ChannelAgrees(d)
        BY DEF IInv, ChannelsAgree
      <3>2. QED
        BY <2>2, <3>1, <1>1, <1>6 DEF ChannelAgrees, Created, BlocksOf
    <2>3. QED
      BY <2>1, <2>2
  <1>15. Registered'
    BY <1>1, <1>6 DEF IInv, Registered, Created
  <1>16. ThreadsAgree'
    <2>1. ASSUME NEW d \in Channel, Created(d)
          PROVE  /\ Created(d)'
                 /\ source_hashmap[d].min_block_id \in Int
                 /\ source_hashmap'[d].min_block_id \in Int
                 /\ source_hashmap[d].min_block_id <= source_hashmap'[d].min_block_id
      <3>1. source_hashmap[d] \in Queues
        BY <2>1 DEF IInv, TypeOK, Created
      <3>2. CASE d = ch
        BY <2>1, <3>2, <1>6, <1>12 DEF Created, q
      <3>3. CASE d # ch
        BY <2>1, <3>1, <3>3, <1>6 DEF Created, Queues
      <3>4. QED
        BY <3>2, <3>3
    <2>2. ASSUME NEW d \in Channel, NEW k \in DOMAIN published[d]
          PROVE  k \in DOMAIN published'[d] /\ published'[d][k] = published[d][k]
      <3>1. CASE d = ch
        <4>1. k \in 1 .. id /\ k \in 1 .. id + 1
          BY <3>1, <1>4, <1>5
        <4>2. QED
          BY <3>1, <4>1, <1>7
      <3>2. CASE d # ch
        BY <3>2, <1>6
      <3>3. QED
        BY <3>1, <3>2
    <2>3. QED
      BY <2>1, <2>2, <1>1, ChannelsGrow DEF IInv
  <1>17. QED
    BY <1>13, <1>14, <1>15, <1>16 DEF IInv

-----------------------------------------------------------------------------
(* The invariant.                                                          *)

LEMMA InitIInv == Init => IInv
  <1> SUFFICES ASSUME Init PROVE IInv
    OBVIOUS
  <1>1. TypeOK
    <2>1. source_hashmap \in [{} -> Queues]
      BY DEF Init
    <2>2. published \in [Channel -> Seq([block_id : Nat, block : Blocks])]
      BY DEF Init
    <2>3. np \in [Np -> Threads]
      BY DEF Init, Threads, Message
    <2>4. /\ media_header \in [Channel -> Header \union {Uninitialised}]
          /\ cs \in [Cs -> [chnl_hash : Channel \union {NoChannel},
                           registers : 0 .. MaxRegisters]]
          /\ no_receive_counter \in 0 .. IdleLimit - 1
      BY SuperPeerAssumption DEF Init
    <2>5. QED
      BY <2>1, <2>2, <2>3, <2>4 DEF TypeOK
  <1>2. \A ch : ~ Created(ch)
    BY DEF Init, Created
  <1>3. ChannelsAgree
    BY <1>2 DEF Init, ChannelsAgree, ChannelAgrees
  <1>4. Registered
    BY DEF Init, Registered
  <1>5. ThreadsAgree
    <2>1. ASSUME NEW p \in Np
          PROVE  /\ np[p].pc = "fill" /\ np[p].media_type_flag = FALSE
                 /\ np[p].headers = 0 /\ np[p].wire = NoMessage
      BY DEF Init
    <2>2. \A p \in Np : np[p] \in Threads
      BY <1>1 DEF TypeOK
    <2>3. QED
      BY <2>1, <2>2
      DEF ThreadsAgree, ThreadAgrees, HeaderFirst, WireHolds, ListLeft
  <1>6. QED
    BY <1>1, <1>3, <1>4, <1>5 DEF IInv

LEMMA NextIInv == IInv /\ [Next]_vars => IInv'
  <1> SUFFICES ASSUME IInv, [Next]_vars
               PROVE  IInv'
    OBVIOUS
  <1>1. ASSUME NEW c \in Cs, CsNext(c)
        PROVE  IInv'
    BY <1>1, CsRegisterIInv, CsMediaTypeIInv, CsBlockIInv DEF CsNext
  <1>2. ASSUME NEW p \in Np, NpNext(p)
        PROVE  IInv'
    <2>1. no_receive_counter \in 0 .. IdleLimit - 1
      BY DEF IInv, TypeOK
    <2>2. ASSUME NpConnect(p) \/ PeerEnds(p) \/ ReadFails(p)
          PROVE  IInv'
      <3>1. UNCHANGED <<source_hashmap, media_header, published, cs>>
        BY <2>2 DEF NpConnect, PeerEnds, ReadFails
      <3>2. QED
        BY <2>2, <3>1, ConnectionFields, OneThread
    <2>3. ASSUME NEW ch \in Channel, NEW ids \in PushLists, GetPushList(p, ch, ids)
          PROVE  IInv'
      <3>1. /\ UNCHANGED <<source_hashmap, media_header, published, cs>>
            /\ no_receive_counter' = no_receive_counter
        BY <2>3 DEF GetPushList
      <3>2. PICK r : ThreadAgrees(r) /\ np' = [np EXCEPT ![p] = r]
        BY <2>3, GetPushListServed
      <3>3. QED
        BY <2>1, <3>1, <3>2, OneThread
    <2>4. ASSUME MediaTypeWritten(p) \/ BlockWritten(p)
          PROVE  IInv'
      <3>1. /\ UNCHANGED <<source_hashmap, media_header, published, cs>>
            /\ no_receive_counter' = no_receive_counter
        BY <2>4 DEF MediaTypeWritten, BlockWritten
      <3>2. PICK r : ThreadAgrees(r) /\ np' = [np EXCEPT ![p] = r]
        BY <2>4, WrittenServed
      <3>3. QED
        BY <2>1, <3>1, <3>2, OneThread
    <2>5. QED
      BY <1>2, <2>2, <2>3, <2>4 DEF NpNext, NpThread
  <1>3. CASE UNCHANGED vars
    <2>1. TypeOK' /\ Registered'
      BY <1>3 DEF vars, IInv, TypeOK, Registered, Created
    <2>2. ChannelsAgree'
      BY <1>3 DEF vars, IInv, ChannelsAgree, ChannelAgrees, BlocksOf, Created
    <2>3. ThreadsAgree'
      BY <1>3 DEF vars, IInv, ThreadsAgree, ThreadAgrees, HeaderFirst, WireHolds,
                  ListLeft, Gone, Created
    <2>4. QED
      BY <2>1, <2>2, <2>3 DEF IInv
  <1>4. QED
    BY <1>1, <1>2, <1>3 DEF Next

\* The inductive invariant holds in every reachable state.
THEOREM Invariance == Spec => []IInv
  BY InitIInv, NextIInv, PTL DEF Spec

\* Type correctness.
THEOREM TypeCorrect == Spec => []TypeOK
  <1>1. IInv => TypeOK
    BY DEF IInv
  <1>2. QED
    BY <1>1, Invariance, PTL

\* A player gets one media header on a connection, and gets it before any
\* block: send_media_type sets the flag only after its write, but no other
\* push list of the connection is read before, and a list of a channel that
\* does not exist, which passes by the header, finds no block either.
THEOREM HeaderCorrect == Spec => []OneHeaderBeforeBlocks
  <1>1. IInv => OneHeaderBeforeBlocks
    BY DEF IInv, ThreadsAgree, ThreadAgrees, HeaderFirst, OneHeaderBeforeBlocks
  <1>2. QED
    BY <1>1, Invariance, PTL

\* A block that is being written is the one a capture server sent on the
\* channel under the id that was asked for, also when the ring has overwritten
\* its buffer since: the message is packed before the write.
THEOREM ServedCorrect == Spec => []ServedBlockIsTheOneAsked
  <1>1. ASSUME IInv
        PROVE  ServedBlockIsTheOneAsked
    <2> SUFFICES ASSUME NEW p \in Np, np[p].pc = "blocks"
                 PROVE  \E k \in DOMAIN published[np[p].channel] :
                            LET sent == published[np[p].channel][k]
                            IN  /\ sent.block_id = np[p].wire.block_id
                                /\ Holds(np[p].wire.buffer, sent.block)
      BY DEF ServedBlockIsTheOneAsked
    <2> DEFINE ch == np[p].channel
               wire == np[p].wire
    <2>1. /\ ch \in Channel
          /\ wire \in [block_id : Nat, buffer : Contents]
          /\ wire.block_id + 1 \in DOMAIN published[ch]
          /\ Holds(wire.buffer, published[ch][wire.block_id + 1].block)
      BY <1>1 DEF IInv, ThreadsAgree, ThreadAgrees, WireHolds
    <2>2. \A k \in DOMAIN published[ch] : published[ch][k].block_id = k - 1
      BY <1>1, <2>1 DEF IInv, ChannelsAgree, ChannelAgrees
    <2> HIDE DEF ch, wire
    <2>3. published[ch][wire.block_id + 1].block_id = wire.block_id
      BY <2>1, <2>2
    <2>4. QED
      BY <2>1, <2>3 DEF ch, wire
  <1>2. QED
    BY <1>1, Invariance, PTL

\* A thread that is back in loop() has passed over nothing it could have sent:
\* the list is sorted, so that an id that is not found before one that is lies
\* behind the window, where it stays, and the last look at the rest of the list
\* is taken in the step that ends it.
THEOREM ListServed == Spec => ListFullyServed
  <1>1. ASSUME IInv, [Next]_vars
        PROVE  [\A p \in Np :
                    (np[p].pc # "fill" /\ np'[p].pc = "fill") =>
                        \A id \in np[p].asked :
                            id \in np'[p].sent \/ ~ Available(np[p].channel, id)']_vars
    <2> SUFFICES ASSUME Next, NEW p \in Np, np[p].pc # "fill", np'[p].pc = "fill",
                        NEW id \in np[p].asked
                 PROVE  id \in np'[p].sent \/ ~ Available(np[p].channel, id)'
      BY <1>1
    <2>1. np \in [Np -> Threads] /\ np[p] \in Threads
      BY <1>1 DEF IInv, TypeOK
    <2>2. ASSUME NEW c \in Cs, CsNext(c)
          PROVE  FALSE
      BY <2>2 DEF CsNext, CsRegister, CsMediaType, CsBlock
    <2>3. PICK q \in Np : NpNext(q)
      BY <2>2 DEF Next
    <2>4. CASE NpConnect(q) \/ PeerEnds(q) \/ ReadFails(q)
      <3>1. PICK r : np' = [np EXCEPT ![q] = r] /\ r.pc = np[q].pc
        BY <1>1, <2>4, ConnectionFields
      <3>2. np'[p].pc = np[p].pc
        BY <2>1, <3>1
      <3>3. QED
        BY <3>2
    <2>5. ASSUME NEW ch \in Channel, NEW ids \in PushLists, GetPushList(q, ch, ids)
          PROVE  FALSE
      <3>1. np[q].pc = "fill"
        BY <2>5 DEF GetPushList
      <3>2. \E r : np' = [np EXCEPT ![q] = r]
        BY <2>5 DEF GetPushList
      <3>3. np'[p] = np[p]
        BY <2>1, <3>1, <3>2
      <3>4. QED
        BY <3>3
    <2>6. CASE MediaTypeWritten(q) \/ BlockWritten(q)
      <3>1. PICK r : /\ np' = [np EXCEPT ![q] = r]
                     /\ r.channel = np[q].channel
                     /\ r.asked = np[q].asked
                     /\ r.pc = "fill" =>
                          \A i \in r.asked : i \in r.sent \/ ~ Available(r.channel, i)
        BY <1>1, <2>6, WrittenServed
      <3>2. p = q
        BY <2>1, <3>1
      <3>3. np'[p] = r
        BY <2>1, <3>1, <3>2
      <3>4. id \in r.sent \/ ~ Available(np[p].channel, id)
        BY <3>1, <3>2, <3>3
      <3>5. source_hashmap' = source_hashmap /\ np'[p].channel = np[p].channel
        BY <2>6, <3>1, <3>2, <3>3 DEF MediaTypeWritten, BlockWritten
      <3>6. QED
        BY <3>3, <3>4, <3>5 DEF Available, Created
    <2>7. QED
      BY <2>3, <2>4, <2>5, <2>6 DEF NpNext, NpThread
  <1>2. QED
    BY <1>1, Invariance, PTL DEF Spec, ListFullyServed

-----------------------------------------------------------------------------
(* The super peer implements the service.                                  *)

\* What the service sees of a thread's step: after it, the thread sends the
\* header, a block on offer that was asked for, or nothing.
LEMMA StepFollows ==
    ASSUME IInv, NEW p \in Np, NEW r, ThreadAgrees(r), np' = [np EXCEPT ![p] = r],
           r.channel \in Channel,
           UNCHANGED <<media_header, published>>,
           \/ /\ np[p].headers = 0 /\ r.headers = 1
              /\ r.wire = [header |-> media_header[r.channel]]
           \/ /\ r.headers = np[p].headers
              /\ r.pc = "fill"
           \/ /\ r.headers = np[p].headers
              /\ r.pc = "blocks"
              /\ \E id \in r.asked :
                    /\ Available(r.channel, id)
                    /\ r.wire = LookupBlock(source_hashmap[r.channel], id)
    PROVE  Service!Follows(p, [channel |-> r.channel, ids |-> r.asked])
  <1> DEFINE ch == r.channel
             request == [q \in Np |-> [channel |-> np[q].channel, ids |-> np[q].asked]]
             message == [q \in Np |-> np[q].wire]
             started == [q \in Np |-> np[q].headers > 0]
             asked == [channel |-> ch, ids |-> r.asked]
             blocks == [c \in Channel |->
                          [k \in DOMAIN published[c] |-> published[c][k].block]]
  <1>1. /\ np \in [Np -> Threads] /\ np[p] \in Threads /\ ThreadAgrees(np[p])
        /\ r \in Threads /\ r.headers \in Nat /\ np[p].headers \in Nat
    BY DEF IInv, TypeOK, ThreadsAgree, ThreadAgrees, Threads
  <1>2. \A q \in Np : np'[q] = IF q = p THEN r ELSE np[q]
    BY <1>1
  <1>3. request' = [request EXCEPT ![p] = asked]
    BY <1>2
  <1>4. message' = [message EXCEPT ![p] = r.wire]
    <2>1. \A q \in Np : np'[q].wire = IF q = p THEN r.wire ELSE np[q].wire
      BY <1>2
    <2>2. QED
      BY <2>1
  <1>5. started' = [started EXCEPT ![p] = (r.headers > 0)]
    <2> DEFINE after == [started EXCEPT ![p] = (r.headers > 0)]
    <2>1. ASSUME NEW q \in Np
          PROVE  (np'[q].headers > 0) = after[q]
      <3>1. CASE q = p
        <4>1. after[p] = (r.headers > 0)
          BY Zenon
        <4>2. np'[p] = r
          BY <1>2
        <4>3. QED
          BY <4>1, <4>2, <3>1, Zenon
      <3>2. CASE q # p
        <4>1. after[q] = (np[q].headers > 0)
          BY <3>2, Zenon
        <4>2. np'[q] = np[q]
          BY <3>2, <1>2
        <4>3. QED
          BY <4>1, <4>2, Zenon
      <3>3. QED
        BY <3>1, <3>2
    <2>2. after = [q \in Np |-> after[q]]
      OBVIOUS
    <2> HIDE DEF after
    <2>3. after = [q \in Np |-> np'[q].headers > 0]
      BY <2>1, <2>2, Zenon
    <2>4. QED
      BY <2>3 DEF after
  <1>6. started[p] = (np[p].headers > 0)
    OBVIOUS
  <1>7. r.headers = np[p].headers => started' = started
    BY <1>2
  <1>8. UNCHANGED <<blocks, media_header>>
    OBVIOUS
  <1>9. CASE /\ np[p].headers = 0 /\ r.headers = 1
             /\ r.wire = [header |-> media_header[ch]]
    <2>1. /\ ~ started[p]
          /\ message' = [message EXCEPT ![p] = [header |-> media_header[ch]]]
          /\ started' = [started EXCEPT ![p] = TRUE]
      <3>1. (r.headers > 0) = TRUE /\ ~ (np[p].headers > 0)
        BY <1>9
      <3> HIDE DEF started
      <3>2. QED
        BY <1>4, <1>5, <1>6, <1>9, <3>1
    <2>2. QED
      BY <1>3, <1>8, <1>9, <2>1 DEF Service!Follows
  <1>10. CASE r.headers = np[p].headers /\ r.pc = "fill"
    <2>1. r.wire = NoMessage
      BY <1>10 DEF ThreadAgrees, WireHolds
    <2>2. QED
      BY <1>3, <1>4, <1>7, <1>8, <1>10, <2>1 DEF Service!Follows
  <1>11. ASSUME NEW id \in r.asked,
                r.headers = np[p].headers, r.pc = "blocks",
                Available(ch, id), r.wire = LookupBlock(source_hashmap[ch], id)
         PROVE  Service!Follows(p, asked)
    <2>1. started[p]
      <3>1. np[p].headers = 1
        BY <1>11 DEF ThreadAgrees, HeaderFirst
      <3>2. np[p].headers > 0
        BY <3>1
      <3>3. QED
        BY <3>2, <1>6
    <2>2. id \in Int
      BY <1>1 DEF Threads
    <2>3. /\ id \in Nat
          /\ id + 1 \in DOMAIN published[ch]
          /\ id >= Len(published[ch]) - BufferNumber
          /\ r.wire = [block_id |-> id, buffer |-> r.wire.buffer]
          /\ r.wire.buffer \in Contents
          /\ Holds(r.wire.buffer, published[ch][id + 1].block)
      BY <1>11, <2>2, AvailableBlock DEF IInv, ChannelsAgree
    <2>4. /\ blocks[ch][id + 1] = published[ch][id + 1].block
          /\ DOMAIN blocks[ch] = DOMAIN published[ch]
      BY <2>3
    <2>5. published[ch] \in Seq([block_id : Nat, block : Blocks])
      BY DEF IInv, TypeOK
    <2>6. Len(blocks[ch]) = Len(published[ch])
      BY <2>4, <2>5
    <2>7. id \in 0 .. Len(published[ch]) - 1
      BY <2>3, <2>5
    <2>8. id \in Service!OnOffer(ch)
      BY <2>3, <2>6, <2>7 DEF Service!OnOffer
    <2>9. Service!Carries(r.wire.buffer, blocks[ch][id + 1])
      BY <2>3, <2>4 DEF Service!Carries, Holds
    <2>10. message' = [message EXCEPT ![p] = [block_id |-> id, buffer |-> r.wire.buffer]]
      BY <1>4, <2>3
    <2>11. asked.ids = r.asked /\ asked.channel = ch
      OBVIOUS
    <2>12. UNCHANGED started
      BY <1>7, <1>11
    <2>13. \E i \in asked.ids \intersect Service!OnOffer(asked.channel),
              buffer \in Contents :
            /\ Service!Carries(buffer, blocks[asked.channel][i + 1])
            /\ message' = [message EXCEPT ![p] = [block_id |-> i, buffer |-> buffer]]
      <3> HIDE DEF asked, ch, message, blocks
      <3>1. QED
        BY <1>11, <2>3, <2>8, <2>9, <2>10, <2>11
    <2> HIDE DEF asked
    <2>14. QED
      BY <1>3, <1>8, <2>1, <2>12, <2>13 DEF Service!Follows
  <1>12. QED
    BY <1>9, <1>10, <1>11

\* Every step of the super peer is a step of the service or a stutter; a
\* registration without a header is one.
LEMMA StepRefinement ==
    ASSUME IInv, [Next]_vars
    PROVE  [Service!Next]_(Service!vars)
  <1>1. ASSUME NEW c \in Cs, NEW ch \in Channel, NEW header \in RegisterHeaders,
               CsRegister(c, ch, header)
        PROVE  (\E h \in Header : Service!SetHeader(ch, h)) \/ UNCHANGED Service!vars
    <2>1. UNCHANGED <<published, np>>
      BY <1>1 DEF CsRegister
    <2>2. CASE header = NoHeader
      <3>1. media_header' = media_header
        BY <1>1, <2>2 DEF CsRegister
      <3>2. QED
        BY <2>1, <3>1 DEF Service!vars
    <2>3. CASE header # NoHeader
      <3>1. header \in Header
        BY <2>3, SuperPeerAssumption
      <3>2. media_header' = [media_header EXCEPT ![ch] = header]
        BY <1>1, <2>3 DEF CsRegister, add_header
      <3>3. QED
        BY <2>1, <3>1, <3>2 DEF Service!SetHeader
    <2>4. QED
      BY <2>2, <2>3
  <1>2. ASSUME NEW c \in Cs, NEW header \in Header, CsMediaType(c, header)
        PROVE  \E ch \in Channel : Service!SetHeader(ch, header)
    <2>1. PICK ch \in Channel : ch = cs[c].chnl_hash /\ ch # NoChannel
      BY <1>2 DEF IInv, TypeOK, CsMediaType
    <2>2. /\ media_header' = [media_header EXCEPT ![ch] = header]
          /\ UNCHANGED <<published, np>>
      BY <1>2, <2>1 DEF CsMediaType, add_header
    <2>3. QED
      BY <2>2 DEF Service!SetHeader
  <1>3. ASSUME NEW c \in Cs, NEW block \in Blocks, CsBlock(c, block)
        PROVE  \E ch \in Channel : Service!Publish(ch, block)
    <2>1. PICK ch \in Channel : ch = cs[c].chnl_hash /\ ch # NoChannel
      BY <1>3 DEF IInv, TypeOK, CsBlock
    <2> DEFINE entry == [block_id |-> Len(published[ch]), block |-> block]
               blocks == [d \in Channel |->
                            [k \in DOMAIN published[d] |-> published[d][k].block]]
    <2>2. /\ published' = [published EXCEPT ![ch] = Append(published[ch], entry)]
          /\ UNCHANGED <<media_header, np>>
      BY <1>3, <2>1 DEF CsBlock
    <2>3. /\ published \in [Channel -> Seq([block_id : Nat, block : Blocks])]
          /\ published[ch] \in Seq([block_id : Nat, block : Blocks])
      BY DEF IInv, TypeOK
    <2>4. blocks' = [blocks EXCEPT ![ch] = Append(blocks[ch], block)]
      <3> DEFINE old == published[ch]
                 new == published'[ch]
                 n == Len(old)
                 was == [k \in DOMAIN old |-> old[k].block]
                 more == Append(was, block)
      <3>1. /\ old \in Seq([block_id : Nat, block : Blocks])
            /\ new = Append(old, entry)
            /\ n \in Nat
            /\ entry.block = block
        BY <2>2, <2>3
      <3>2. blocks[ch] = was
        OBVIOUS
      <3>3. \A d \in Channel : d # ch => published'[d] = published[d]
        BY <2>2, <2>3
      <3> HIDE DEF old, entry
      <3>4. /\ DOMAIN old = 1 .. n
            /\ \A k \in 1 .. n : old[k].block \in Blocks
            /\ DOMAIN new = 1 .. n + 1
            /\ \A k \in 1 .. n : new[k] = old[k]
            /\ new[n + 1] = entry
        <4>1. DOMAIN old = 1 .. n /\ \A k \in 1 .. n : old[k].block \in Blocks
          <5>1. DOMAIN old = 1 .. n
            BY <3>1
          <5> DEFINE Entries == [block_id : Nat, block : Blocks]
          <5>2. \A k \in 1 .. n : old[k] \in Entries
            <6>1. old \in Seq(Entries)
              BY <3>1
            <6> HIDE DEF Entries
            <6>2. QED
              BY <6>1
          <5>3. QED
            BY <5>1, <5>2
        <4>2. /\ Len(Append(old, entry)) = n + 1
              /\ DOMAIN Append(old, entry) = 1 .. n + 1
              /\ \A k \in 1 .. n : Append(old, entry)[k] = old[k]
              /\ Append(old, entry)[n + 1] = entry
          BY <3>1
        <4> HIDE DEF new, n
        <4>3. QED
          BY <3>1, <4>1, <4>2
      <3> HIDE DEF new, n
      <3>5. was \in [1 .. n -> Blocks]
        BY <3>4
      <3>6. was \in Seq(Blocks) /\ Len(was) = n /\ \A k \in 1 .. n : was[k] = old[k].block
        BY <3>1, <3>4, <3>5
      <3> HIDE DEF was
      <3>7. /\ DOMAIN more = 1 .. n + 1
            /\ \A k \in 1 .. n : more[k] = was[k]
            /\ more[n + 1] = block
            /\ more = [k \in 1 .. n + 1 |-> more[k]]
        <4>1. /\ more \in Seq(Blocks)
              /\ Len(more) = n + 1
              /\ \A k \in 1 .. n : more[k] = was[k]
              /\ more[n + 1] = block
          BY <3>1, <3>6
        <4> HIDE DEF more
        <4>2. QED
          BY <4>1
      <3> HIDE DEF more
      <3>8. ASSUME NEW k \in 1 .. n + 1
            PROVE  more[k] = new[k].block
        <4>1. k \in 1 .. n \/ k = n + 1
          BY <3>1
        <4>2. QED
          BY <4>1, <3>1, <3>4, <3>6, <3>7
      <3>9. more = [k \in DOMAIN new |-> new[k].block]
        BY <3>4, <3>7, <3>8
      <3>10. \A d \in Channel :
                [k \in DOMAIN published'[d] |-> published'[d][k].block] =
                    IF d = ch THEN more ELSE blocks[d]
        BY <3>3, <3>9 DEF new
      <3>11. blocks' = [blocks EXCEPT ![ch] = more]
        BY <3>10
      <3>12. QED
        BY <3>11, <3>2 DEF more
    <2>5. Service!Publish(ch, block)
      BY <2>2, <2>4 DEF Service!Publish
    <2>6. QED
      BY <2>5
  <1>4. ASSUME NEW p \in Np, NpNext(p)
        PROVE  \/ \E r \in [channel : Channel,
                            ids : {{ids[k] : k \in DOMAIN ids} : ids \in PushLists}] :
                        Service!Ask(p, r)
               \/ Service!Sent(p)
               \/ UNCHANGED Service!vars
    <2>1. ThreadAgrees(np[p]) /\ np \in [Np -> Threads]
      BY DEF IInv, ThreadsAgree, TypeOK
    <2>2. CASE NpConnect(p) \/ PeerEnds(p) \/ ReadFails(p)
      <3>1. PICK r :
                /\ ThreadAgrees(r)
                /\ np' = [np EXCEPT ![p] = r]
                /\ r.channel = np[p].channel /\ r.asked = np[p].asked
                /\ r.wire = np[p].wire /\ r.headers = np[p].headers
        BY <2>2, ConnectionFields
      <3>2. \A q \in Np :
                /\ np'[q].channel = np[q].channel /\ np'[q].asked = np[q].asked
                /\ np'[q].wire = np[q].wire /\ np'[q].headers = np[q].headers
        BY <3>1, <2>1
      <3>3. UNCHANGED <<published, media_header>>
        BY <2>2 DEF NpConnect, PeerEnds, ReadFails
      <3>4. UNCHANGED Service!vars
        BY <3>2, <3>3 DEF Service!vars
      <3>5. QED
        BY <3>4
    <2>3. ASSUME NEW ch \in Channel, NEW ids \in PushLists, GetPushList(p, ch, ids)
          PROVE  \E r \in [channel : Channel,
                           ids : {{i[k] : k \in DOMAIN i} : i \in PushLists}] :
                        Service!Ask(p, r)
      <3>1. PICK r :
                /\ ThreadAgrees(r)
                /\ np' = [np EXCEPT ![p] = r]
                /\ r.channel = ch
                /\ r.asked = {ids[k] : k \in DOMAIN ids}
                /\ \/ /\ np[p].headers = 0 /\ r.headers = 1 /\ Created(ch)
                      /\ r.wire = [header |-> media_header[ch]]
                   \/ /\ r.headers = np[p].headers
                      /\ r.pc = "fill"
                   \/ /\ r.headers = np[p].headers
                      /\ r.pc = "blocks"
                      /\ \E id \in r.asked :
                            /\ Available(ch, id)
                            /\ r.wire = LookupBlock(source_hashmap[ch], id)
        BY <2>3, GetPushListServed
      <3>2. UNCHANGED <<media_header, published>>
        BY <2>3 DEF GetPushList
      <3>3. Service!Follows(p, [channel |-> r.channel, ids |-> r.asked])
        BY <3>1, <3>2, StepFollows
      <3>4. np[p].wire = NoMessage
        BY <2>1, <2>3 DEF GetPushList, ThreadAgrees, WireHolds
      <3>5. Service!Ask(p, [channel |-> r.channel, ids |-> r.asked])
        BY <3>3, <3>4 DEF Service!Ask
      <3>6. [channel |-> r.channel, ids |-> r.asked]
                \in [channel : Channel, ids : {{i[k] : k \in DOMAIN i} : i \in PushLists}]
        BY <3>1
      <3>7. QED
        BY <3>5, <3>6
    <2>4. CASE MediaTypeWritten(p) \/ BlockWritten(p)
      <3>1. PICK r :
                /\ ThreadAgrees(r)
                /\ np' = [np EXCEPT ![p] = r]
                /\ np[p].pc # "fill"
                /\ r.channel = np[p].channel
                /\ r.asked = np[p].asked
                /\ r.headers = np[p].headers
                /\ \/ r.pc = "fill"
                   \/ \E id \in r.asked :
                        /\ r.pc = "blocks"
                        /\ Available(r.channel, id)
                        /\ r.wire = LookupBlock(source_hashmap[r.channel], id)
        BY <2>4, WrittenServed
      <3>2. r.channel \in Channel
        BY <2>1, <3>1 DEF ThreadAgrees, WireHolds
      <3>3. UNCHANGED <<media_header, published>>
        BY <2>4 DEF MediaTypeWritten, BlockWritten
      <3>4. Service!Follows(p, [channel |-> r.channel, ids |-> r.asked])
        BY <3>1, <3>2, <3>3, StepFollows
      <3>5. np[p].wire # NoMessage
        <4>1. \/ np[p].wire \in [header : Header \union {Uninitialised}]
              \/ np[p].wire \in [block_id : Nat, buffer : Contents]
          BY <2>1, <3>1 DEF ThreadAgrees, WireHolds, Threads
        <4>2. [block_id : Nat, buffer : Contents] \subseteq [block_id : Int, buffer : Contents]
          OBVIOUS
        <4>3. QED
          BY <4>1, <4>2, SuperPeerAssumption
      <3>6. Service!Sent(p)
        <4>1. [channel |-> r.channel, ids |-> r.asked]
                = [q \in Np |-> [channel |-> np[q].channel, ids |-> np[q].asked]][p]
          BY <3>1
        <4>2. [q \in Np |-> np[q].wire][p] # NoMessage
          BY <3>5
        <4>3. QED
          BY <3>4, <4>1, <4>2, Zenon DEF Service!Sent, Service!Follows
      <3>7. QED
        BY <3>6
    <2>5. QED
      BY <1>4, <2>2, <2>3, <2>4 DEF NpNext, NpThread
  <1>5. CASE UNCHANGED vars
    BY <1>5 DEF vars, Service!vars
  <1>6. QED
    BY <1>1, <1>2, <1>3, <1>4, <1>5 DEF Next, CsNext, Service!Next

\* The super peer implements the service: rings that are overwritten while
\* threads wait in write(), headers that are set after the channel is made and
\* flags that are set after the write show in nothing a player gets.  Nothing is
\* asked of the registrations: a channel whose capture servers sent no header
\* so far has none, and that is what its players get.
THEOREM Refinement == Spec => ImplementsStreamService
  <1>1. Init => Service!Init
    <2> SUFFICES ASSUME Init PROVE Service!Init
      OBVIOUS
    <2>1. /\ published = [ch \in Channel |-> << >>]
          /\ media_header = [ch \in Channel |-> Uninitialised]
      BY DEF Init
    <2>2. [ch \in Channel |-> [k \in DOMAIN published[ch] |-> published[ch][k].block]]
            = [ch \in Channel |-> << >>]
      <3>1. ASSUME NEW ch \in Channel
            PROVE  [k \in DOMAIN published[ch] |-> published[ch][k].block] = << >>
        BY <2>1
      <3>2. QED
        BY <3>1
    <2>3. \A p \in Np : /\ np[p].channel = NoChannel /\ np[p].asked = {}
                        /\ np[p].wire = NoMessage /\ np[p].headers = 0
      BY DEF Init
    <2>4. \A p \in Np : (np[p].headers > 0) = FALSE
      BY <2>3
    <2>5. [p \in Np |-> np[p].headers > 0] = [p \in Np |-> FALSE]
      BY <2>4
    <2>6. QED
      BY <2>1, <2>2, <2>3, <2>5 DEF Service!Init
  <1>2. IInv /\ [Next]_vars => [Service!Next]_(Service!vars)
    BY StepRefinement
  <1>3. QED
    BY <1>1, <1>2, Invariance, PTL DEF Spec, ImplementsStreamService, Service!Spec
====
