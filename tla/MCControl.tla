------------------------------ MODULE MCControl ------------------------------
(* Instances of Control for TLC: entries at the edges of the index filters. *)
EXTENDS Control, TLC

CONSTANTS o1, o2

E(family, index, main, lladdr) ==
    [family |-> family, index |-> index, main |-> main, lladdr |-> lladdr]

\* Routes: without an interface, largest accepted index, another table, index too large.
RouteEntries == {E("route", 0, TRUE, FALSE), E("route", UINT16_MAX, TRUE, FALSE),
                 E("route", 1, FALSE, FALSE), E("route", UINT16_MAX + 1, TRUE, FALSE)}

\* One entry of every other family and a neighbour without a link-layer address.
LinkEntry == E("link", 1, FALSE, FALSE)
AddressEntry == E("address", UINT16_MAX + 1, FALSE, FALSE)
Reachable == E("neighbor", 2, FALSE, TRUE)
Incomplete == E("neighbor", 2, FALSE, FALSE)

DumpEntries == RouteEntries \cup {LinkEntry, AddressEntry}
NeighborEntries == {Reachable, Incomplete}
ReachableEntries == {Reachable}

Ops1 == {o1}
Ops2 == {o1, o2}
\* flush_neighbor uses the socket exactly as probe_neighbor does.
NeighborKinds == {"probe_neighbor", "get_neighbor", "dump_neighbors"}
OtherKinds == AllKinds \ NeighborKinds
DumpAndProbe == {"dump_neighbors", "probe_neighbor"}
DumpAndGet == {"dump_neighbors", "get_neighbor"}
ProbeOnly == {"probe_neighbor"}
RoutesOnly == {"dump_routes"}

\* Changes of any entry, and one that a request with the number 3 of another
\* process has caused.
OwnNotices == {NewMsg(0, e) : e \in Entries} \cup {DelMsg(0, e) : e \in Entries}
ForeignNotices == {NewMsg(3, Reachable)}
NoNotices == {}
Errnos == {"EPERM"}
NoErrnos == {}
Symmetry == Permutations(Ops)
=============================================================================
