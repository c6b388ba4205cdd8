-------------------------------- MODULE Wire --------------------------------
(***************************************************************************)
(* The wire format: how a task lays out its request, and how a datagram of *)
(* the kernel is taken apart, message by message (the loops of             *)
(* RequestTask::read_loop and Listener::process_messages) and attribute by *)
(* attribute (for_each_attr and extract_ifname under from_nlmsghdr).       *)
(*                                                                         *)
(* Lengths and offsets are those of the code, in bytes; what the bytes say *)
(* is abstract.  A printed value is a tuple that names the conversion and  *)
(* what it was applied to, and <<>> is the empty string.                   *)
(***************************************************************************)
EXTENDS Integers, Sequences, FiniteSets, FiniteSetsExt

CONSTANTS
    Buffer,          \* size of receive_buffer_ (64 KiB) or buffer_ (32 KiB), scaled down
    Word,            \* the unsigned int of remaining wraps here (2^32, scaled down)
    KernelMessages,  \* the messages the kernel may send
    MaxMessages,     \* messages in a datagram
    Readers,         \* who receives: "listener", or the kind of a task
    Indexes,         \* interface indexes given by callers; 0 is "none"
    Addresses,       \* 16-byte addresses given by callers
    NoAddress, NoRequest, NoEvent

Tasks == INSTANCE RequestTask WITH Entries <- {}, NoEntry <- NoAddress, KernelErrors <- {}

\* NLMSG_ALIGN and RTA_ALIGN.
Align(n) == ((n + 3) \div 4) * 4

nlmsghdr == 16
rtattr == 4

(***************************************************************************)
(* The four from_nlmsghdr: sizeof of the fixed part, without which a       *)
(* message gives no event, and the attributes that are read.               *)
(***************************************************************************)
LinkEvent == [size |-> 16, attributes |-> {"IFLA_IFNAME"}]

AddressEvent == [size |-> 8, attributes |-> {"IFA_LOCAL", "IFA_ADDRESS", "IFA_LABEL"}]

RouteEvent ==
    [size |-> 12,
     attributes |-> {"RTA_TABLE", "RTA_DST", "RTA_SRC", "RTA_GATEWAY", "RTA_PREFSRC",
                     "RTA_OIF", "RTA_PRIORITY"}]

NeighborEvent == [size |-> 12, attributes |-> {"NDA_DST", "NDA_LLADDR"}]

EventOf == [link |-> LinkEvent, address |-> AddressEvent, route |-> RouteEvent,
            neighbor |-> NeighborEvent]

Info(family) == EventOf[family].size
Attributes(family) == EventOf[family].attributes

\* NLMSG_LENGTH(sizeof(MsgT)), a multiple of four
Fixed(family) == nlmsghdr + Info(family)

ASSUME BufferAssumption ==
    /\ Buffer \in Nat /\ Buffer >= nlmsghdr /\ Buffer % 4 = 0
    /\ Word \in Nat /\ Word > Buffer
    /\ MaxMessages \in Nat

ASSUME ReadersAssumption == Readers \subseteq Tasks!AllKinds \cup {"listener"}

(***************************************************************************)
(* Messages.  mine: nlmsg_seq is the task's; af: the address family of the *)
(* fixed part; info: the rest of it, of which table (rtm_table) is read    *)
(* again.  An attribute has its rta_len and what its bytes are; chars is   *)
(* the position of the first NUL of a text.                                *)
(***************************************************************************)
Numbers == {"RTA_TABLE", "RTA_OIF", "RTA_PRIORITY"}
Texts == {"IFLA_IFNAME", "IFA_LABEL"}

Payload(a) == a.len - rtattr

\* What a reader returns, and how many bytes of the payload it looked at.
Readings(value, touched) == [value |-> value, touched |-> touched]

\* Mutant: the bytes are copied whatever the payload.
attribute_uint32_unchecked(a) == Readings(a.data, 4)

\* Mutant: a short payload gives a signed -1.
attribute_int32(a) == IF Payload(a) < 4 THEN Readings(-1, 0) ELSE Readings(a.data, 4)

attribute_uint32(a) ==
    IF Payload(a) < 4 THEN Readings(0, 0) ELSE Readings(a.data, 4)

\* A text of NULs only is the empty string.
trim_string(text) == IF text = "" THEN <<>> ELSE <<"text", text>>

\* strlen runs to the NUL, wherever it is.
attribute_string(a) ==
    IF Payload(a) = 0 THEN Readings(<<>>, 0) ELSE Readings(trim_string(a.data), a.chars + 1)

\* inet_ntop takes as many bytes as the family has, whatever the payload.
attribute_address(a, af) ==
    CASE af = "AF_INET"  -> Readings(<<"inet", a.data>>, 4)
      [] af = "AF_INET6" -> Readings(<<"inet6", a.data>>, 16)
      [] af \notin {"AF_INET", "AF_INET6"} -> Readings(<<>>, 0)

attribute_hwaddr(a) ==
    IF Payload(a) = 0 THEN Readings(<<>>, 0) ELSE Readings(<<"hex", a.data, Payload(a)>>, Payload(a))

\* The switch over rta_type in the four from_nlmsghdr.
Read(m, a) ==
    CASE a.type \in Numbers -> attribute_uint32(a)
      [] a.type \in Texts -> attribute_string(a)
      [] a.type = "NDA_LLADDR" -> attribute_hwaddr(a)
      [] a.type \notin Numbers \cup Texts \cup {"NDA_LLADDR"} -> attribute_address(a, m.af)

\* A default-constructed event after the fixed part was copied.
Fresh(m) ==
    [t \in Attributes(m.family) |->
        CASE t = "RTA_TABLE" -> m.table
          [] t \in Numbers \ {"RTA_TABLE"} -> 0
          [] t \notin Numbers -> <<>>]

\* What from_nlmsghdr derives once the attributes are read: the address of an
\* AddressEvent, and the oif of a RouteEvent, printed from oif_index.
Derived(family, v) ==
    CASE family = "address" ->
            [address |-> IF v["IFA_LOCAL"] # <<>> THEN v["IFA_LOCAL"] ELSE v["IFA_ADDRESS"],
             label |-> v["IFA_LABEL"]]
      [] family = "route" ->
            [attributes |-> v,
             oif |-> IF v["RTA_OIF"] = 0 THEN <<>> ELSE <<"number", v["RTA_OIF"]>>]
      [] family \in {"link", "neighbor"} -> v

Event(m, v) ==
    [type |-> m.type, family |-> m.family, info |-> m.info, values |-> Derived(m.family, v)]

-----------------------------------------------------------------------------
(***************************************************************************)
(* What rtnetlink promises of the messages it sends.  The code trusts it   *)
(* for texts and addresses, whose length it does not look at.              *)
(***************************************************************************)
IpAddresses ==
    (UNION {Attributes(family) : family \in DOMAIN EventOf})
        \ (Numbers \cup Texts \cup {"NDA_LLADDR"})

\* An attribute holds what its type says: a text its NUL, an address the bytes of
\* its family, a number (unless it is cut short) a number.
AttributeWellFormed(m, a) ==
    /\ a.len \in Nat /\ a.len >= rtattr
    /\ a.type \in Texts /\ Payload(a) > 0 => a.chars \in Nat /\ a.chars < Payload(a)
    /\ a.type \in IpAddresses =>
          /\ m.af = "AF_INET" => Payload(a) >= 4
          /\ m.af = "AF_INET6" => Payload(a) >= 16
    /\ a.type \in Numbers /\ Payload(a) >= 4 => a.data \in Nat

\* Where the attributes of a message begin, and where one more would.
Begins(m) ==
    LET at[i \in 1..(Len(m.attrs) + 1)] ==
            IF i = 1 THEN Fixed(m.family) ELSE at[i - 1] + Align(m.attrs[i - 1].len)
    IN  at

\* The attributes follow the fixed part and each other on four-byte boundaries and
\* fill the message; only the last may go without its padding.
WellFormed(m) ==
    /\ Len(m.attrs) \in Nat
    /\ m.table \in Nat
    /\ \A i \in 1..Len(m.attrs) :
          /\ AttributeWellFormed(m, m.attrs[i])
          /\ Begins(m)[i] + m.attrs[i].len <= m.len
    /\ m.len <= Begins(m)[Len(m.attrs) + 1]

ASSUME MessagesAssumption ==
    \A m \in KernelMessages :
        /\ m.len \in Nat /\ m.len >= nlmsghdr
        /\ m.type = "ERROR" => m.len >= nlmsghdr + 4
        /\ m.type \in {"NEW", "DEL"} =>
              /\ m.family \in DOMAIN EventOf
              /\ m.len >= Fixed(m.family) => WellFormed(m)

-----------------------------------------------------------------------------
(***************************************************************************)
(* Requests.  type: the table and the operation; len: nlmsg_len, as many   *)
(* bytes as request_payload() gives to the socket; rta_len and dst: the    *)
(* dst_attr and dst that follow the ndmsg of a NeighborRequest.            *)
(***************************************************************************)
MessageType ==
    [dump_routes |-> "RTM_GETROUTE", dump_addresses |-> "RTM_GETADDR",
     dump_links |-> "RTM_GETLINK", dump_neighbors |-> "RTM_GETNEIGH",
     get_neighbor |-> "RTM_GETNEIGH", probe_neighbor |-> "RTM_NEWNEIGH",
     flush_neighbor |-> "RTM_DELNEIGH"]

SizeofRequest(k) ==
    Fixed(Tasks!Task(k).family) + IF Tasks!Task(k).family = "neighbor" THEN rtattr + 16 ELSE 0

\* What the four build_request have in common.  set: the other fields of the fixed
\* part that are not zero; family: rtm_family, ifa_family, ifi_family or ndm_family,
\* always the unspecified one, whatever address is given to the task.
Header(k, index, set) ==
    [type |-> MessageType[k], flags |-> Tasks!Task(k).flags, index |-> index, set |-> set,
     family |-> "AF_UNSPEC",
     len |-> Fixed(Tasks!Task(k).family), rta_len |-> 0, dst |-> NoAddress]

Indexed(field, index) == IF index = 0 THEN {} ELSE {field}

\* An rtmsg has no index.
RouteRequest(k, index) == Header(k, 0, {"rtm_table"})

AddressRequest(k, index) == Header(k, index, Indexed("ifa_index", index))

LinkRequest(k, index) == Header(k, index, Indexed("ifi_index", index))

NeighborHeader(k, index) ==
    Header(k, index, Indexed("ndm_ifindex", index) \cup
                     IF k = "probe_neighbor" THEN {"ndm_state", "ndm_flags"} ELSE {})

\* Mutant: rta_len without the header of the attribute.
NeighborRequestShort(k, index, address) ==
    IF index = 0
    THEN NeighborHeader(k, index)
    ELSE [NeighborHeader(k, index) EXCEPT !.rta_len = 16, !.dst = address,
                                          !.len = Align(@) + Align(16)]

\* Without an index the destination is left out.
NeighborRequest(k, index, address) ==
    IF index = 0
    THEN NeighborHeader(k, index)
    ELSE [NeighborHeader(k, index) EXCEPT !.rta_len = rtattr + 16, !.dst = address,
                                          !.len = Align(@) + Align(rtattr + 16)]

\* The index and address a task is made with: Control makes the dumps without.
PrepareRequest(k, index, address) ==
    CASE k = "dump_routes"    -> RouteRequest(k, 0)
      [] k = "dump_addresses" -> AddressRequest(k, 0)
      [] k = "dump_links"     -> LinkRequest(k, 0)
      [] k = "dump_neighbors" -> NeighborRequest(k, 0, NoAddress)
      [] k \in Tasks!NeighborOps -> NeighborRequest(k, index, address)

\* The NDA_DST in the bytes that are sent: RTA_OK finds an attribute only inside
\* nlmsg_len, and an address needs 16 bytes of payload.
Destination(k, r) ==
    LET room == r.len - Fixed(Tasks!Task(k).family)
    IN  IF rtattr <= r.rta_len /\ r.rta_len <= room /\ r.rta_len - rtattr >= 16
        THEN r.dst ELSE NoAddress
-----------------------------------------------------------------------------
VARIABLES
    reader,     \* who reads
    call,       \* index and address of the call
    request,    \* request_
    phase,      \* "call", "send", "kernel", "walk", "attrs" or "returned"
    dgram,      \* the messages of the datagram, with their offsets
    size,       \* its length
    got,        \* bytes received
    off,        \* header - data()
    remaining,  \* bytes from header on, as the loop counts them
    n,          \* attr, as its place in the message
    left,       \* attr_length
    event,      \* the attributes read so far
    parsed      \* the events made from this datagram

requestVars == <<reader, call, request>>
dgramVars == <<dgram, size, got>>
attrVars == <<n, left, event>>
vars == <<requestVars, phase, dgramVars, off, remaining, attrVars, parsed>>

Init ==
    /\ reader \in Readers
    /\ call = [index |-> 0, address |-> NoAddress]
    /\ request = NoRequest
    /\ phase = IF reader = "listener" THEN "kernel" ELSE "call"
    /\ dgram = <<>> /\ size = 0 /\ got = 0
    /\ off = 0 /\ remaining = 0
    /\ n = 1 /\ left = 0 /\ event = NoEvent
    /\ parsed = <<>>

\* async_run up to the send: the task is made from the arguments and prepares.
Prepare(index, address) ==
    /\ phase = "call"
    /\ call' = [index |-> index, address |-> address]
    /\ request' = PrepareRequest(reader, index, address)
    /\ phase' = "send"
    /\ UNCHANGED <<reader, dgramVars, off, remaining, attrVars, parsed>>

\* send_request: a datagram socket takes the payload whole.
SendRequest ==
    /\ phase = "send"
    /\ call' = [index |-> 0, address |-> NoAddress]
    /\ request' = NoRequest
    /\ phase' = "kernel"
    /\ UNCHANGED <<reader, dgramVars, off, remaining, attrVars, parsed>>

\* The kernel puts one more message into the datagram, padded to four bytes.
PutMessage(m) ==
    /\ phase = "kernel"
    /\ Len(dgram) < MaxMessages
    /\ dgram' = Append(dgram, [off |-> size, msg |-> m])
    /\ size' = size + Align(m.len)
    /\ UNCHANGED <<requestVars, phase, got, off, remaining, attrVars, parsed>>

\* Mutant: the last byte of the buffer is kept for a NUL.
ReceiveButOne ==
    /\ phase = "kernel"
    /\ dgram # <<>>
    /\ got' = IF size < Buffer THEN size ELSE Buffer - 1
    /\ phase' = "walk"
    /\ off' = 0
    /\ remaining' = got'
    /\ parsed' = <<>>
    /\ UNCHANGED <<requestVars, dgram, size, attrVars>>

\* async_receive: what does not fit into the buffer is lost without a word.
Receive ==
    /\ phase = "kernel"
    /\ dgram # <<>>
    /\ got' = IF size < Buffer THEN size ELSE Buffer
    /\ phase' = "walk"
    /\ off' = 0
    /\ remaining' = got'
    /\ parsed' = <<>>
    /\ UNCHANGED <<requestVars, dgram, size, attrVars>>

Starts(o) == \E i \in 1..Len(dgram) : dgram[i].off = o

\* *header.
MessageAt(o) == dgram[CHOOSE i \in 1..Len(dgram) : dgram[i].off = o].msg

\* The condition of both loops, NLMSG_OK included.  Where no message starts the
\* bytes would be garbage; WalkInside says that it does not come to that.
NlmsgOk ==
    /\ remaining >= nlmsghdr
    /\ Starts(off)
    /\ MessageAt(off).len >= nlmsghdr
    /\ MessageAt(off).len <= remaining

\* Mutant: the loop does not step over the message.
NlmsgNextForgotten(m) == UNCHANGED <<off, remaining>>

NlmsgNext(m) ==
    /\ off' = off + Align(m.len)
    /\ remaining' = (remaining - Align(m.len)) % Word

\* get_msg_payload and has_payload.
HasPayload(m, bytes) == m.len >= nlmsghdr + bytes

\* The message reaches a from_nlmsghdr: by handle_message of the Listener, or by
\* process_message of a task that looks for such messages.
Wanted(m) ==
    IF reader = "listener"
    THEN m.type \in {"NEW", "DEL"}
    ELSE /\ m.mine /\ m.type = "NEW"
         /\ m.family = Tasks!Task(reader).family
         /\ reader \in Tasks!Dumps \cup {"get_neighbor"}

\* process_message returns a value for a message without an entry.
Final(m) ==
    reader # "listener" /\ m.mine /\ m.type \in Tasks!Task(reader).final \ {"NEW"}

\* The types, sequence numbers and short payloads that the code passes over, and
\* the errors a Listener reports.
PassOver ==
    /\ phase = "walk" /\ NlmsgOk
    /\ LET m == MessageAt(off)
       IN  /\ ~Final(m)
           /\ Wanted(m) => ~HasPayload(m, Info(m.family))
           /\ NlmsgNext(m)
    /\ UNCHANGED <<requestVars, phase, dgramVars, attrVars, parsed>>

\* handle_done and handle_error: co_return from the middle of the datagram.
ReturnResult ==
    /\ phase = "walk" /\ NlmsgOk
    /\ Final(MessageAt(off))
    /\ phase' = "returned"
    /\ UNCHANGED <<requestVars, dgramVars, off, remaining, attrVars, parsed>>

\* from_nlmsghdr up to the attributes.
BeginEvent ==
    /\ phase = "walk" /\ NlmsgOk
    /\ LET m == MessageAt(off)
       IN  /\ Wanted(m) /\ HasPayload(m, Info(m.family))
           /\ event' = Fresh(m)
           /\ left' = m.len - Fixed(m.family)
    /\ n' = 1
    /\ phase' = "attrs"
    /\ UNCHANGED <<requestVars, dgramVars, off, remaining, parsed>>

\* RTA_OK.
RtaOk(m) ==
    /\ left >= rtattr
    /\ n <= Len(m.attrs)
    /\ m.attrs[n].len >= rtattr
    /\ m.attrs[n].len <= left

\* Mutant: extract_ifname reads on, as for_each_attr does.
ReadsOn(m, a) == FALSE

\* extract_ifname returns at the first name that is not empty.
Found(m, a) == m.family = "link" /\ a.type = "IFLA_IFNAME" /\ Payload(a) # 0

\* One turn of the loop over the attributes, RTA_NEXT included.
ReadAttribute ==
    /\ phase = "attrs"
    /\ LET m == MessageAt(off)
           a == m.attrs[n]
       IN  /\ RtaOk(m)
           /\ event' = IF a.type \in Attributes(m.family)
                       THEN [event EXCEPT ![a.type] = Read(m, a).value]
                       ELSE event
           /\ left' = IF Found(m, a) THEN 0 ELSE left - Align(a.len)
    /\ n' = n + 1
    /\ UNCHANGED <<requestVars, phase, dgramVars, off, remaining, parsed>>

\* The event is complete.  The get_neighbor task returns it when it has a
\* link-layer address; otherwise the loop goes on to the next message.
EndEvent ==
    /\ phase = "attrs"
    /\ LET m == MessageAt(off)
       IN  /\ ~RtaOk(m)
           /\ parsed' = Append(parsed, Event(m, event))
           /\ IF reader = "get_neighbor" /\ event["NDA_LLADDR"] # <<>>
              THEN phase' = "returned" /\ UNCHANGED <<off, remaining>>
              ELSE phase' = "walk" /\ NlmsgNext(m)
    /\ event' = NoEvent /\ n' = 1 /\ left' = 0
    /\ UNCHANGED <<requestVars, dgramVars>>

\* The datagram is done: the next one is asked for.
ReadMore ==
    /\ phase = "walk" /\ ~NlmsgOk
    /\ phase' = "kernel"
    /\ dgram' = <<>> /\ size' = 0 /\ got' = 0
    /\ off' = 0 /\ remaining' = 0 /\ parsed' = <<>>
    /\ UNCHANGED <<requestVars, attrVars>>

Parse == PassOver \/ ReturnResult \/ BeginEvent \/ ReadAttribute \/ EndEvent \/ ReadMore

Next ==
    \/ \E index \in Indexes, address \in Addresses : Prepare(index, address)
    \/ SendRequest
    \/ \E m \in KernelMessages : PutMessage(m)
    \/ Receive
    \/ Parse

\* The loops hold no wait: once a datagram is there they run to their end.
Spec == Init /\ [][Next]_vars /\ WF_vars(Parse)

-----------------------------------------------------------------------------
\* Every variable has its type; an event has numbers where its structure has them
\* and the counters of the walk fit their C++ types.
TypeOK ==
    /\ reader \in Readers
    /\ phase \in {"call", "send", "kernel", "walk", "attrs", "returned"}
    /\ got \in 0..Buffer /\ remaining \in 0..(Word - 1)
    /\ off \in Nat /\ left \in Int /\ n \in Nat
    /\ phase # "attrs" => event = NoEvent
    /\ phase = "attrs" =>
          \A t \in DOMAIN event : IF t \in Numbers THEN event[t] \in Nat ELSE Len(event[t]) <= 3

\* The count of the loop (include/rtaco/tasks/nl_request_task.hxx:142-153 and
\* src/core/nl_listener.cxx:118-125) is exact: header and remaining always
\* split the received bytes, on a four-byte boundary, though NLMSG_NEXT
\* subtracts a rounded length from an unsigned number that may not go below 0.
WalkInside ==
    phase \in {"walk", "attrs"} =>
        /\ off + remaining = got
        /\ off % 4 = 0
        /\ remaining >= nlmsghdr => Starts(off)

\* No read leaves the bytes that its length field announces: the message that is
\* taken apart was received whole, its attributes stay inside it, the value a
\* reader takes stays inside its attribute, and handle_error finds an error code.
ReadsInside ==
    /\ phase = "attrs" =>
        LET m == MessageAt(off)
        IN  /\ off + m.len <= got
            /\ left >= rtattr => n <= Len(m.attrs)
            /\ RtaOk(m) /\ m.attrs[n].type \in Attributes(m.family) =>
                  Read(m, m.attrs[n]).touched <= Payload(m.attrs[n])
    /\ phase = "walk" /\ NlmsgOk =>
        LET m == MessageAt(off)
        IN  Final(m) /\ m.type = "ERROR" => HasPayload(m, 4)

\* What the messages say, without a walk: the last attribute of a type counts, of
\* names the first that is not empty, and a message that was cut off says nothing.
Says(m, t) ==
    LET at == {i \in 1..Len(m.attrs) : m.attrs[i].type = t}
        names == {i \in at : Payload(m.attrs[i]) > 0}
    IN  IF t = "IFLA_IFNAME"
        THEN IF names = {} THEN <<>> ELSE Read(m, m.attrs[Min(names)]).value
        ELSE IF at = {} THEN Fresh(m)[t] ELSE Read(m, m.attrs[Max(at)]).value

Whole == {i \in 1..Len(dgram) : dgram[i].off + dgram[i].msg.len <= got}

\* Where a task stops listening.
Returns(m) ==
    \/ Final(m)
    \/ /\ reader = "get_neighbor" /\ Wanted(m) /\ HasPayload(m, Info(m.family))
       /\ Says(m, "NDA_LLADDR") # <<>>

Heeded ==
    {i \in Whole : \A j \in Whole : j < i => ~Returns(dgram[j].msg)}

Meaningful == {i \in Heeded : LET m == dgram[i].msg
                              IN  Wanted(m) /\ HasPayload(m, Info(m.family))}

\* Event e tells what message m says: local before peer address, a route's RTA_TABLE
\* before its rtm_table.
Tells(e, m) ==
    /\ e.type = m.type /\ e.family = m.family /\ e.info = m.info
    /\ CASE m.family = "address" ->
              /\ e.values.label = Says(m, "IFA_LABEL")
              /\ e.values.address \in {Says(m, "IFA_LOCAL"), Says(m, "IFA_ADDRESS")}
              /\ Says(m, "IFA_LOCAL") # <<>> => e.values.address = Says(m, "IFA_LOCAL")
         [] m.family = "route" ->
              /\ e.values.attributes = [t \in Attributes("route") |-> Says(m, t)]
              /\ e.values.oif = <<>> <=> Says(m, "RTA_OIF") = 0
         [] m.family \in {"link", "neighbor"} ->
              e.values = [t \in Attributes(m.family) |-> Says(m, t)]

\* When the walk over a datagram ends, each message that arrived whole and was for
\* this reader has become one event, in order, with the values the message gives.
AllParsed ==
    phase = "returned" \/ (phase = "walk" /\ ~NlmsgOk) =>
        /\ Len(parsed) = Cardinality(Meaningful)
        /\ \A i \in Meaningful :
              Tells(parsed[Cardinality({j \in Meaningful : j <= i})], dgram[i].msg)

\* The bytes a task sends lie inside its request_, and they carry what the caller
\* gave: the index of a neighbour operation and, for an interface, the address, whole
\* and inside nlmsg_len.  A dump asks for every family and sets nothing in the fixed
\* part that NETLINK_GET_STRICT_CHK (nl_socket.cxx:87) would refuse.  Nothing is said
\* of a neighbour operation without an interface, whose address build_request drops,
\* nor of what the kernel does with the unspecified family of the others.
RequestCarriesCall ==
    request # NoRequest =>
        /\ request.len <= SizeofRequest(reader)
        /\ IF reader \in Tasks!NeighborOps
           THEN /\ request.index = call.index /\ "DUMP" \notin request.flags
                /\ call.index # 0 => Destination(reader, request) = call.address
           ELSE /\ request.index = 0 /\ "DUMP" \in request.flags
                /\ Destination(reader, request) = NoAddress
                /\ request.family = "AF_UNSPEC" /\ request.set \subseteq {"rtm_table"}

\* Every datagram is left behind, whatever it holds: the task returns or the next
\* receive is started.
WalkEnds == phase = "walk" ~> phase \in {"kernel", "returned"}
=============================================================================
