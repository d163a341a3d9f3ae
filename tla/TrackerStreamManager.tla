---- MODULE TrackerStreamManager ----
(***************************************************************************)
(* RsTrackerStreamManager: the super peers the tracker knows, by uuid.     *)
(* The class is a record of operators on its channel_map, as both halves   *)
(* of the tracker use it: the super peer side writes it, the player side   *)
(* reads it.                                                               *)
(*                                                                         *)
(* channel_map is ordered by uuid, and a uuid is random, so where the code *)
(* takes the first entry that fits the operators here give every entry     *)
(* that fits.                                                              *)
(***************************************************************************)
EXTENDS Integers, FiniteSets

\* f[x] = y of a std::map: a new entry, or the one of x overwritten.
Put(f, x, y) == [z \in DOMAIN f \union {x} |-> IF z = x THEN y ELSE f[z]]

\* ChannelNode: the address the registration came from, what the super peer
\* reported to have, and when the entry was last written.
ChannelNodes(Address, Resources, Time) ==
    [spAddress : Address, resources : Resources, last_recv_report_time : Time]

\* Mutant: the time is not set.
NewNode_NoTime(address, now) ==
    [spAddress |-> address, resources |-> << >>, last_recv_report_time |-> -1]

NewNode(address, now) ==
    [spAddress |-> address, resources |-> << >>, last_recv_report_time |-> now]

\* Mutant: an entry that exists is left as it is.
insert_channel_KeepOld(channel_map, uuid, node) ==
    IF uuid \in DOMAIN channel_map THEN channel_map ELSE Put(channel_map, uuid, node)

\* insert_channel: a new entry, or the old one overwritten.
insert_channel(channel_map, uuid, node) == Put(channel_map, uuid, node)

\* get_channel finds the entry.
Known(channel_map, uuid) == uuid \in DOMAIN channel_map

\* The entries that list a resource.
Holders(channel_map, resource) ==
    {uuid \in DOMAIN channel_map : resource \in DOMAIN channel_map[uuid].resources}

\* get_sp_address(resHash, addr, 1)
get_sp_address(channel_map, resource) ==
    {channel_map[uuid].spAddress : uuid \in Holders(channel_map, resource)}

\* get_channel_interval
get_channel_interval(channel_map, resource) ==
    {channel_map[uuid].resources[resource] : uuid \in Holders(channel_map, resource)}

\* Mutant: the array is made for the others, but everybody is put into it.
get_cp_address_Everybody(channel_map, uuid) ==
    LET others == DOMAIN channel_map
        room == Cardinality(DOMAIN channel_map) - 1
    IN  IF room <= 0 THEN [room |-> 0, written |-> 0]
        ELSE [room |-> room, written |-> Cardinality(others)]

\* get_cp_address(addr, count, uuid): room for everybody but the asker, then
\* every entry whose address is not the asker's is written to it.  An asker
\* that is not known has no address to leave out.
get_cp_address(channel_map, uuid) ==
    LET others == {other \in DOMAIN channel_map :
                      Known(channel_map, uuid) =>
                          channel_map[other].spAddress # channel_map[uuid].spAddress}
        room == Cardinality(DOMAIN channel_map) - 1
    IN  IF room <= 0 THEN [room |-> 0, written |-> 0]
        ELSE [room |-> room, written |-> Cardinality(others)]
====
