-------------------------------- MODULE MCWire --------------------------------
(* Instances of Wire for TLC. *)
EXTENDS Wire, TLC

CONSTANTS a1, a2

Attr(type, len, data, chars) == [type |-> type, len |-> len, data |-> data, chars |-> chars]

Message(type, family, af, len, attrs) ==
    [type |-> type, family |-> family, af |-> af, info |-> "info", table |-> 254,
     mine |-> TRUE, len |-> len, attrs |-> attrs]

\* An empty name before the name.
LinkMessage ==
    Message("NEW", "link", "AF_UNSPEC", 52,
        <<Attr("IFLA_IFNAME", 4, "none", 0), Attr("IFLA_MTU", 8, "mtu", 0),
          Attr("IFLA_IFNAME", 8, "eth", 3)>>)

\* The first of two names counts.
TwoNames ==
    Message("DEL", "link", "AF_UNSPEC", 48,
        <<Attr("IFLA_IFNAME", 7, "lo", 2), Attr("IFLA_IFNAME", 8, "eth", 3)>>)

\* Point to point, the last attribute not padded.
PeerAddress ==
    Message("NEW", "address", "AF_INET", 47,
        <<Attr("IFA_ADDRESS", 8, "peer", 0), Attr("IFA_LOCAL", 8, "local", 0),
          Attr("IFA_LABEL", 7, "lo", 2)>>)

SoleAddress ==
    Message("NEW", "address", "AF_INET6", 52,
        <<Attr("IFA_ADDRESS", 20, "sole", 0), Attr("IFA_LABEL", 5, "", 0)>>)

\* Too short for its ifaddrmsg, as in tests/test_nl_common.cpp:30-36.
TruncatedAddress == Message("NEW", "address", "AF_INET", 20, <<>>)

\* A table beyond rtm_table's eight bits.
Route ==
    Message("NEW", "route", "AF_INET", 60,
        <<Attr("RTA_TABLE", 8, 1000, 0), Attr("RTA_DST", 8, "dst", 0),
          Attr("RTA_PRIORITY", 8, 5, 0), Attr("RTA_OIF", 8, 7, 0)>>)

\* Labels are no addresses; the index is too short.
MplsRoute ==
    Message("NEW", "route", "AF_MPLS", 40,
        <<Attr("RTA_DST", 8, "label", 0), Attr("RTA_OIF", 4, "none", 0)>>)

Neighbor ==
    Message("NEW", "neighbor", "AF_INET6", 60,
        <<Attr("NDA_DST", 20, "dst", 0), Attr("NDA_LLADDR", 10, "mac", 0)>>)

Incomplete ==
    Message("NEW", "neighbor", "AF_INET", 36, <<Attr("NDA_DST", 8, "dst", 0)>>)

Done == Message("DONE", "none", "none", 20, <<>>)
Refusal == Message("ERROR", "none", "none", 36, <<>>)
Odd == Message("OTHER", "none", "none", 18, <<>>)

Messages ==
    {LinkMessage, TwoNames, PeerAddress, SoleAddress, TruncatedAddress, Route, MplsRoute,
     Neighbor, Incomplete, Done, Refusal, Odd, [Done EXCEPT !.mine = FALSE]}

AllReaders == Tasks!AllKinds \cup {"listener"}
SmallIndexes == {0, 2}
TwoAddresses == {a1, a2}
=============================================================================
