------------------------------ MODULE Messages ------------------------------
(* The packets of the tracker and the super peer: core/message.cpp over      *)
(* core/streamer.cpp.  A class of message says three things apart, in three  *)
(* methods: how many bytes it takes, which fields it writes, which fields it *)
(* reads.  Nothing but care keeps them together: pack() hands out as many    *)
(* bytes as were reserved, whatever was written.                             *)
(*                                                                           *)
(* A field is its name, its number in a list and its bytes; of the contents  *)
(* only the counters are kept, because the reader goes on by the counters it *)
(* reads and not by those the writer had.                                    *)
EXTENDS Integers, Sequences, FiniteSets, SequencesExt

CONSTANTS
    Classes,    \* the classes of message that are sent
    MaxCount    \* bound: the elements of a list in a message

ASSUME MaxCountAssumption == MaxCount \in Nat

VARIABLES
    message,    \* what is packed: its class and its counters
    phase,      \* "packing", "packed", "parsing", "parsed", or "failed": an
                \* assertion of the streamer failed, or it wrote past the buffer
    curr,       \* RsStreamer::curr, counted from the first byte of the packet
    written,    \* the fields written, each with its place
    reader,     \* the class that parses the packet
    reads       \* the fields it read, likewise

vars == <<message, phase, curr, written, reader, reads>>

-----------------------------------------------------------------------------
(* sizeof of what the fields hold *)
Int32 == 4   Int16 == 2   Int8 == 1   Float == 4   Pointer == 8
Uuid == 16   Md5 == 32   InAddr == 4
NetAddress == 8                          \* family, port, in_addr
P2PAddress == 2 * NetAddress             \* outerIP, subnetIP
CorePeerInfo == 4
PeerInfoWithAddr == CorePeerInfo + P2PAddress
BlockInterval == 8
TransferInfo == 32

Counters == 1 .. 3
NoCounts == [k \in Counters |-> 0]

F(name, bytes) == [name |-> name, i |-> 0, bytes |-> bytes, counter |-> 0]
N(name, bytes, k) == [F(name, bytes) EXCEPT !.counter = k]

\* for (int i = 0; i < n; i++) fields
Each(n, fields) ==
    FlattenSeq([i \in 1 .. n |-> [f \in DOMAIN fields |-> [fields[f] EXCEPT !.i = i]]])

\* a string of n bytes, not written at all when n is 0
Chars(name, n) == IF n = 0 THEN << >> ELSE <<F(name, n)>>

Header == Int32 + Int8                     \* RsMessage::reserve_pack_size

(***************************************************************************)
(* The classes.  n[k] is the k-th counter of the message: the one the      *)
(* sender has, for pack and reserve, and the one read so far, for parse.   *)
(***************************************************************************)
OnlyUuid(type) ==
    [type |-> type, reserve |-> Header + Uuid,
     pack |-> <<F("uuid", Uuid)>>, parse |-> <<F("uuid", Uuid)>>]

Sp2TsRegister ==
    LET fields == <<F("user_id", Int32), F("password", Md5), F("service_port", Int16)>>
    IN  [type |-> "SP2TS_REGISTER", reserve |-> Header + Int32 + Md5 + Int16,
         pack |-> fields, parse |-> fields]

Ts2SpWelcome == OnlyUuid("TS2SP_WELCOME")

Ts2SpSpList(n) ==
    LET addr == <<F("addr", NetAddress)>>
        fields == <<N("count", Int8, 1)>> \o Each(n[1], addr)
    IN  [type |-> "TS2SP_SP_LIST", reserve |-> Header + Int8 + n[1] * NetAddress,
         pack |-> fields, parse |-> fields]

Sp2TsSpList == OnlyUuid("SP2TS_GET_SP")

\* packed as a request for super peers
Sp2TsLogout == OnlyUuid("SP2TS_GET_SP")

Sp2TsResList(n) ==
    LET res_info == <<F("res_md5", Md5), F("start", Int32), F("size", Int32)>>
        fields == <<F("uuid", Uuid), N("resource_count", Int32, 1)>> \o Each(n[1], res_info)
    IN  [type |-> "SP2TS_RES_LIST",
         reserve |-> Header + Uuid + Int32 + n[1] * (Md5 + BlockInterval),
         pack |-> fields, parse |-> fields]

\* mutant: the bandwidth is read before the connections
Sp2TsStatus_Swapped ==
    [type |-> "SP2TS_STATUS", reserve |-> Header + Uuid + Int32 + Int16 + Float + Int8,
     pack |-> <<F("uuid", Uuid), F("resource_count", Int32), F("connection_num", Int16),
                F("bandwidth", Float), F("exceed_max_connection", Int8)>>,
     parse |-> <<F("uuid", Uuid), F("resource_count", Int32), F("bandwidth", Float),
                 F("connection_num", Int16), F("exceed_max_connection", Int8)>>]

Sp2TsStatus ==
    LET fields == <<F("uuid", Uuid), F("resource_count", Int32), F("connection_num", Int16),
                    F("bandwidth", Float), F("exceed_max_connection", Int8)>>
    IN  [type |-> "SP2TS_STATUS", reserve |-> Header + Uuid + Int32 + Int16 + Float + Int8,
         pack |-> fields, parse |-> fields]

\* packs nothing, not even its type; reserves a pointer for the list
Sp2SpPushList(n) ==
    [type |-> "SP2SP_PUSHLIST", reserve |-> Header + Int8 + Pointer + n[1] * Int32,
     pack |-> << >>,
     parse |-> <<F("resource_md5", Md5), F("source_sp_addr", NetAddress),
                 N("block_count", Int8, 1)>> \o Each(n[1], <<F("block", Int32)>>)]

Sp2SpMediatype(n) ==
    [type |-> "SP2SP_MEDIATYPE",
     reserve |-> Header + Md5 + Int32 + Int32 + Int32 + n[1] + Int8 + n[2] + Int32 + Int8 + n[3],
     pack |-> <<F("resource_md5", Md5), F("block_start_id", Int32), F("block_num", Int32),
                N("media_type_size", Int32, 1)>> \o Chars("media_type", n[1])
              \o <<N("program_name_size", Int8, 2)>> \o Chars("program_name", n[2])
              \o <<F("program_time", Int32), N("channel_name_size", Int8, 3)>>
              \o Chars("channel_name", n[3]),
     parse |-> << >>]

Sp2SpResponse(n) ==
    [type |-> "SP2SP_RESPONSE", reserve |-> Header + Md5 + Int32 + Int32 + n[1],
     pack |-> <<F("resource_md5", Md5), F("block_id", Int32), N("block_size", Int32, 1)>>
              \o Chars("block_data", n[1]),
     parse |-> << >>]

\* mutant: the addresses are not reserved
Np2TsLogin_NoRoom(n) ==
    LET fields == <<F("login_id", Int32), F("password", Md5), F("client_version", Float),
                    F("listening_port", Int16), N("local_ip_list_size", Int8, 1)>>
                  \o Each(n[1], <<F("ip_addr", InAddr)>>)
    IN  [type |-> "NP2TS_LOGIN",
         reserve |-> Header + Int32 + Md5 + Float + Int16 + Int8,
         pack |-> fields, parse |-> fields]

Np2TsLogin(n) ==
    LET fields == <<F("login_id", Int32), F("password", Md5), F("client_version", Float),
                    F("listening_port", Int16), N("local_ip_list_size", Int8, 1)>>
                  \o Each(n[1], <<F("ip_addr", InAddr)>>)
    IN  [type |-> "NP2TS_LOGIN",
         reserve |-> Header + Int32 + Md5 + Float + Int16 + Int8 + n[1] * InAddr,
         pack |-> fields, parse |-> fields]

\* mutant: the hash comes first, for the sender and for the reader
Np2TsReqRes_Swapped ==
    LET fields == <<F("resource_md5", Md5), F("uuid", Uuid)>>
    IN  [type |-> "NP2TS_REQ_RES", reserve |-> Header + Uuid + Md5,
         pack |-> fields, parse |-> fields]

Np2TsReqRes ==
    LET fields == <<F("uuid", Uuid), F("resource_md5", Md5)>>
    IN  [type |-> "NP2TS_REQ_RES", reserve |-> Header + Uuid + Md5,
         pack |-> fields, parse |-> fields]

\* the percentage is read and not written, coreinfo is written and not reserved
Np2TsReport(n) ==
    LET fields == <<F("uuid", Uuid), F("coreinfo", CorePeerInfo), N("interval_count", Int8, 1)>>
                  \o Each(n[1], <<F("blockinterval", BlockInterval)>>)
                  \o <<F("transferinfo", TransferInfo), F("playing_block", Int32)>>
                  \o Each(8, <<F("buffering and connection counts", Int16)>>)
    IN  [type |-> "NP2TS_REPORT",
         reserve |-> Header + Uuid + Int8 + n[1] * BlockInterval + TransferInfo + Int32 + 8 * Int16,
         pack |-> fields, parse |-> fields \o <<F("message_percent", Float)>>]

Np2TsNeedPeers ==
    LET fields == <<F("uuid", Uuid), F("current_block", Int32)>>
    IN  [type |-> "NP2TS_NEED_PEERS", reserve |-> Header + Uuid + Int32,
         pack |-> fields, parse |-> fields]

Np2TsReqInterval == OnlyUuid("NP2TS_RES_INTERVAL")

Np2TsLogout == OnlyUuid("NP2TS_LOGOUT")

Ts2NpWelcome ==
    LET fields == <<F("uuid", Uuid), F("peer_ip", P2PAddress)>>
    IN  [type |-> "TS2NP_WELCOME", reserve |-> Header + Uuid + P2PAddress,
         pack |-> fields, parse |-> fields]

\* sizeof(sizeof(NetAddress)), a size_t, is reserved for each super peer; the
\* peers are written as often as there are super peers (slots beyond the list
\* hold whatever is in memory there)
Ts2NpPeers(n) ==
    LET fields(peers) ==
            <<N("sp_list_size", Int8, 1)>> \o Each(n[1], <<F("sp_addr", NetAddress)>>)
            \o <<N("peer_list_size", Int8, 2)>>
            \o Each(peers, <<F("peer_addr", PeerInfoWithAddr)>>)
            \o <<F("np_addr", NetAddress)>>
    IN  [type |-> "TS2NP_PEERS",
         reserve |-> Header + Int8 + n[1] * 8 + Int8 + n[2] * PeerInfoWithAddr + NetAddress,
         pack |-> fields(n[1]), parse |-> fields(n[2])]

Ts2NpResInterval ==
    LET fields == <<F("block_interval", BlockInterval)>>
    IN  [type |-> "TS2NP_RES_INTERVAL", reserve |-> Header + BlockInterval,
         pack |-> fields, parse |-> fields]

Ts2NpMsg ==
    LET fields == <<F("err_msg_type", Int16), F("should_quit", Int8)>>
    IN  [type |-> "TS2NP_MSG", reserve |-> Header + Int16 + Int8,
         pack |-> fields, parse |-> fields]

Layout(class, n) ==
    CASE class = "Sp2TsRegister" -> Sp2TsRegister
      [] class = "Ts2SpWelcome" -> Ts2SpWelcome
      [] class = "Ts2SpSpList" -> Ts2SpSpList(n)
      [] class = "Sp2TsSpList" -> Sp2TsSpList
      [] class = "Sp2TsLogout" -> Sp2TsLogout
      [] class = "Sp2TsResList" -> Sp2TsResList(n)
      [] class = "Sp2TsStatus" -> Sp2TsStatus
      [] class = "Sp2SpPushList" -> Sp2SpPushList(n)
      [] class = "Sp2SpMediatype" -> Sp2SpMediatype(n)
      [] class = "Sp2SpResponse" -> Sp2SpResponse(n)
      [] class = "Np2TsLogin" -> Np2TsLogin(n)
      [] class = "Np2TsReqRes" -> Np2TsReqRes
      [] class = "Np2TsReport" -> Np2TsReport(n)
      [] class = "Np2TsNeedPeers" -> Np2TsNeedPeers
      [] class = "Np2TsReqInterval" -> Np2TsReqInterval
      [] class = "Np2TsLogout" -> Np2TsLogout
      [] class = "Ts2NpWelcome" -> Ts2NpWelcome
      [] class = "Ts2NpPeers" -> Ts2NpPeers(n)
      [] class = "Ts2NpResInterval" -> Ts2NpResInterval
      [] class = "Ts2NpMsg" -> Ts2NpMsg

AllClasses ==
    {"Sp2TsRegister", "Ts2SpWelcome", "Ts2SpSpList", "Sp2TsSpList", "Sp2TsLogout",
     "Sp2TsResList", "Sp2TsStatus", "Sp2SpPushList", "Sp2SpMediatype", "Sp2SpResponse",
     "Np2TsLogin", "Np2TsReqRes", "Np2TsReport", "Np2TsNeedPeers", "Np2TsReqInterval",
     "Np2TsLogout", "Ts2NpWelcome", "Ts2NpPeers", "Ts2NpResInterval", "Ts2NpMsg"}

\* the class that the receiver's switch on the type byte parses; no handler
\* parses a Sp2TsLogout
ParserOf(type) ==
    CHOOSE class \in AllClasses \ {"Sp2TsLogout"} : Layout(class, NoCounts).type = type

\* Sp2SpMediatype and Sp2SpResponse are not read in this repository
HasParse(class) == Layout(class, NoCounts).parse # << >>

CountersOf(class) ==
    LET layout == Layout(class, NoCounts)
    IN  {f.counter : f \in ToSet(layout.pack) \union ToSet(layout.parse)} \ {0}

\* send_peers answers only when the tracker knows a super peer
Packed ==
    {m \in [class : Classes, n : [Counters -> 0 .. MaxCount]] :
        /\ \A k \in Counters \ CountersOf(m.class) : m.n[k] = 0
        /\ m.class = "Ts2NpPeers" => m.n[1] > 0}

Sent == Layout(message.class, message.n)

\* RsStreamer::size on both sides: pack() writes it as the msg_size of the
\* packet, the receiver makes its streamer of that
Size == Sent.reserve

\* pack(): the size, then the type and the fields of the class
PacketFields ==
    <<F("msg_size", Int32)>>
    \o (IF Sent.pack = << >> THEN << >> ELSE <<F("msg_type", Int8)>> \o Sent.pack)

-----------------------------------------------------------------------------
\* mutant: the end is compared with where the field starts
Fits_Start(bytes) == curr < Size

\* curr + typesize <= base + size
Fits(bytes) == curr + bytes <= Size

Entry(f, value) ==
    [name |-> f.name, i |-> f.i, bytes |-> f.bytes, counter |-> f.counter,
     at |-> curr, value |-> value]

Init ==
    /\ message \in Packed
    /\ phase = "packing"
    /\ curr = 0
    /\ written = << >>
    /\ reader = "nobody"
    /\ reads = << >>

(* RsMessage::pack of another message, with a streamer of its own. *)
StartPack ==
    /\ phase \in {"parsed", "failed"}
    /\ message' \in Packed
    /\ phase' = "packing"
    /\ curr' = 0
    /\ written' = << >>
    /\ reader' = "nobody"
    /\ reads' = << >>

(* write_char, write_short, write_int, write_nbytes *)
Write ==
    /\ phase = "packing"
    /\ Len(written) < Len(PacketFields)
    /\ LET f == PacketFields[Len(written) + 1]
       IN  IF Fits(f.bytes)
           THEN /\ written' = Append(written, Entry(f, IF f.counter = 0 THEN 0
                                                        ELSE message.n[f.counter]))
                /\ curr' = curr + f.bytes
                /\ UNCHANGED phase
           ELSE /\ phase' = "failed"
                /\ UNCHANGED <<curr, written>>
    /\ UNCHANGED <<message, reader, reads>>

(* pack() returns the buffer and get_size(), and send_buffer sends that. *)
Send ==
    /\ phase = "packing"
    /\ Len(written) = Len(PacketFields)
    /\ phase' = "packed"
    /\ UNCHANGED <<message, curr, written, reader, reads>>

(* handle_udp_packet: the type byte decides who parses what comes after it.  *)
(* When no type was written the byte is whatever the buffer held.            *)
Dispatch ==
    /\ phase = "packed"
    /\ phase' = "parsing"
    /\ reader' \in IF Len(written) > 1 THEN {ParserOf(Sent.type)} ELSE Classes
    /\ curr' = Header
    /\ UNCHANGED <<message, written, reads>>

\* the counters the reader has read so far
CountsRead ==
    [k \in Counters |->
        LET seen == SelectSeq(reads, LAMBDA r : r.counter = k)
        IN  IF seen = << >> THEN 0 ELSE Last(seen).value]

\* what a field read at curr can hold: what was written there, when the same
\* field was; otherwise bytes of something else
ValuesAt(f) ==
    LET same == {w \in ToSet(written) : w.at = curr /\ w.name = f.name /\ w.bytes = f.bytes}
    IN  IF same # {} THEN {w.value : w \in same}
        ELSE IF f.counter = 0 THEN {0}
        ELSE 0 .. MaxCount

(* read_char, read_short, read_int, read_nbytes *)
Read ==
    /\ phase = "parsing"
    /\ LET fields == Layout(reader, CountsRead).parse
           f == fields[Len(reads) + 1]
       IN  /\ Len(reads) < Len(fields)
           /\ IF Fits(f.bytes)
              THEN /\ \E value \in ValuesAt(f) : reads' = Append(reads, Entry(f, value))
                   /\ curr' = curr + f.bytes
                   /\ UNCHANGED phase
              ELSE /\ phase' = "failed"
                   /\ UNCHANGED <<curr, reads>>
    /\ UNCHANGED <<message, written, reader>>

(* parse() returns. *)
Parsed ==
    /\ phase = "parsing"
    /\ Len(reads) = Len(Layout(reader, CountsRead).parse)
    /\ phase' = "parsed"
    /\ UNCHANGED <<message, curr, written, reader, reads>>

Next == StartPack \/ Write \/ Send \/ Dispatch \/ Read \/ Parsed

Spec == Init /\ [][Next]_vars

-----------------------------------------------------------------------------
(* The streamer stays inside its buffer, writing and reading, and nothing is *)
(* read before it was sent.                                                  *)
TypeOK ==
    /\ message \in Packed
    /\ phase \in {"packing", "packed", "parsing", "parsed", "failed"}
    /\ curr \in 0 .. Size
    /\ reader \in AllClasses \union {"nobody"}
    /\ reads # << >> => phase \notin {"packing", "packed"}

\* what Ts2NpPeers::pack_submsg takes for granted
EqualLists == message.class = "Ts2NpPeers" => message.n[1] = message.n[2]

(* reserve_pack_size reserves what pack_submsg writes, to the byte: pack()   *)
(* gives the reserved size to sendto, so a byte less is written past the     *)
(* buffer and a byte more sends uninitialised memory.                        *)
PacketIsFull ==
    EqualLists => /\ phase # "failed"
                  /\ phase = "packed" => curr = Size

(* A packet is parsed by the class that packed it, which finds each field    *)
(* where pack_submsg put it, with lists as long as the sender's, and has     *)
(* read all of the packet when parse() returns.                              *)
Arrives ==
    (EqualLists /\ phase \in {"parsing", "parsed"}) =>
        /\ reader = message.class
        /\ \A k \in DOMAIN reads : k + 2 \in DOMAIN written /\ reads[k] = written[k + 2]
        /\ (phase = "parsed" /\ HasParse(reader)) => curr = Size

\* The fields that core/p2p_protocol.h describes for each type, by their bytes:
\* what programs that are not in this repository go by.
P2PMESSAGE(type, n) ==
    LET Of(count, bytes) == [i \in 1 .. count |-> bytes]
        Text(count) == IF count = 0 THEN << >> ELSE <<count>>
    IN  CASE type = "SP2TS_REGISTER" -> <<Int32, Md5, Int16>>
          [] type = "SP2TS_STATUS" -> <<Uuid, Int32, Int16, Float, Int8>>
          [] type = "SP2TS_RES_LIST" ->
                <<Uuid, Int32>> \o FlattenSeq(Of(n[1], <<Md5, BlockInterval>>))
          [] type = "TS2SP_SP_LIST" -> <<Int8>> \o Of(n[1], NetAddress)
          [] type = "NP2TS_LOGIN" ->
                <<Int32, Md5, Float, Int16, Int8>> \o Of(n[1], InAddr)
          [] type = "NP2TS_REQ_RES" -> <<Uuid, Md5>>
          [] type = "NP2TS_NEED_PEERS" -> <<Uuid, Int32>>
          [] type = "TS2NP_WELCOME" -> <<Uuid, P2PAddress>>
          [] type = "TS2NP_PEERS" ->
                <<Int8>> \o Of(n[1], NetAddress) \o <<Int8>>
                \o Of(n[2], PeerInfoWithAddr) \o <<NetAddress>>
          [] type = "TS2NP_RES_INTERVAL" -> <<BlockInterval>>
          [] type = "TS2NP_MSG" -> <<Int16, Int8>>
          [] type = "SP2SP_MEDIATYPE" ->
                <<Md5, Int32, Int32, Int32>> \o Text(n[1]) \o <<Int8>> \o Text(n[2])
                \o <<Int32, Int8>> \o Text(n[3])
          [] type = "SP2SP_RESPONSE" -> <<Md5, Int32, Int32>> \o Text(n[1])
          [] type \in {"TS2SP_WELCOME", "SP2TS_GET_SP", "SP2TS_LOGOUT",
                       "NP2TS_RES_INTERVAL", "NP2TS_LOGOUT"} -> <<Uuid>>

(* A packet is what core/p2p_protocol.h says of its type: each field that is *)
(* described there begins where one was written, and the last ends the       *)
(* packet.  It catches a mistake that pack() and parse() share.              *)
AsDocumented ==
    (phase = "packed" /\ EqualLists) =>
        LET described == P2PMESSAGE(Sent.type, message.n)
            StartOf(k) == FoldLeft(+, Header, SubSeq(described, 1, k - 1))
        IN  /\ \A k \in DOMAIN described : \E w \in ToSet(written) : w.at = StartOf(k)
            /\ StartOf(Len(described) + 1) = curr

(* core/p2p_protocol.h describes TS2NP_PEERS as a list of super peers with   *)
(* its size and a list of peers with its size: the packet holds as many      *)
(* peers as its size says.                                                   *)
PeersAreAllSent ==
    phase = "packed" =>
        Cardinality({k \in DOMAIN written : written[k].name = "peer_addr"}) = message.n[2]
=============================================================================
