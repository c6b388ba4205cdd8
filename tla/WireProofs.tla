----------------------------- MODULE WireProofs -----------------------------
(***************************************************************************)
(* The walk over the messages of a datagram stays inside the received      *)
(* bytes and on message boundaries, for every buffer whose size is a       *)
(* multiple of four and all message lengths.                               *)
(***************************************************************************)
EXTENDS Wire, TLAPS

\* A kernel datagram: the messages follow each other without a gap, each on a
\* four-byte boundary, and fill it.
DgramInv ==
    /\ size \in Nat /\ size % 4 = 0
    /\ dgram \in Seq([off : Nat, msg : KernelMessages])
    /\ dgram # <<>> => dgram[1].off = 0
    /\ \A i \in 1..Len(dgram) :
          dgram[i].off + Align(dgram[i].msg.len) =
              IF i < Len(dgram) THEN dgram[i + 1].off ELSE size
    /\ dgram = <<>> => size = 0

\* The header is at a message or at the end of the datagram; the message whose
\* attributes are read fits into what remains.
WalkInv ==
    phase \in {"walk", "attrs"} =>
        /\ off \in Nat /\ remaining \in Nat /\ got \in Nat
        /\ off + remaining = got /\ got <= size /\ got <= Buffer
        /\ off % 4 = 0 /\ got % 4 = 0
        /\ Starts(off) \/ off = size
        /\ phase = "attrs" => Starts(off) /\ MessageAt(off).len <= remaining

IInv == DgramInv /\ WalkInv

\* Align rounds up to the next multiple of four.
LEMMA AlignFacts ==
    ASSUME NEW k \in Nat
    PROVE  /\ Align(k) \in Nat /\ Align(k) % 4 = 0 /\ k <= Align(k)
           /\ \A r \in Nat : r % 4 = 0 /\ k <= r => Align(k) <= r
<1>1. Align(k) \in Nat /\ k <= Align(k)
  BY DEF Align
<1>2. Align(k) % 4 = 0
  BY DEF Align
<1>3. ASSUME NEW r \in Nat, r % 4 = 0, k <= r  PROVE Align(k) <= r
  BY <1>3 DEF Align
<1> QED
  BY <1>1, <1>2, <1>3

\* Multiples of four add up to one.
LEMMA AlignedSum ==
    ASSUME NEW k \in Nat, NEW r \in Nat, k % 4 = 0, r % 4 = 0
    PROVE  k + r \in Nat /\ (k + r) % 4 = 0
OBVIOUS

\* An element of a sequence is of the sequence's set.
LEMMA ElementOf ==
    ASSUME NEW S, NEW s \in Seq(S), NEW i \in 1..Len(s)
    PROVE  s[i] \in S /\ Len(s) \in Nat
OBVIOUS

\* The record at an offset where a message starts is one of the datagram.
LEMMA MessageAtFacts ==
    ASSUME DgramInv, NEW o, Starts(o)
    PROVE  \E i \in 1..Len(dgram) : dgram[i].off = o /\ MessageAt(o) = dgram[i].msg
<1> DEFINE i == CHOOSE j \in 1..Len(dgram) : dgram[j].off = o
<1>1. i \in 1..Len(dgram) /\ dgram[i].off = o
  BY Zenon DEF Starts
<1>2. MessageAt(o) = dgram[i].msg
  BY Zenon DEF MessageAt
<1> QED
  BY <1>1, <1>2, Zenon

\* NLMSG_NEXT, from a message that fits into what remains.
LEMMA NlmsgNextStays ==
    ASSUME IInv, phase \in {"walk", "attrs"}, Starts(off),
           MessageAt(off).len <= remaining, NlmsgNext(MessageAt(off)),
           UNCHANGED dgramVars
    PROVE  /\ off' \in Nat /\ remaining' \in Nat
           /\ off' + remaining' = got' /\ off' % 4 = 0
           /\ Starts(off)' \/ off' = size'
<1>1. PICK i \in 1..Len(dgram) : dgram[i].off = off /\ MessageAt(off) = dgram[i].msg
  BY MessageAtFacts DEF IInv
<1> DEFINE l == MessageAt(off).len
           a == Align(l)
<1>2. dgram[i] \in [off : Nat, msg : KernelMessages] /\ Len(dgram) \in Nat
  <2>1. dgram \in Seq([off : Nat, msg : KernelMessages])
    BY DEF IInv, DgramInv
  <2> QED
    BY <2>1, ElementOf, Zenon
<1>3. l \in Nat
  BY <1>1, <1>2, MessagesAssumption
<1>4. /\ off \in Nat /\ remaining \in Nat /\ got \in Nat
      /\ off + remaining = got /\ off % 4 = 0 /\ got % 4 = 0 /\ got <= Buffer
  BY DEF IInv, WalkInv
<1>5. a \in Nat /\ a % 4 = 0 /\ a <= remaining
  <2>1. remaining % 4 = 0
    BY <1>4
  <2> QED
    BY <1>3, <1>4, <2>1, AlignFacts
<1>6. off' = off + a /\ remaining' = (remaining - a) % Word
  BY DEF NlmsgNext
<1>7. remaining - a \in 0..(Word - 1)
  BY <1>4, <1>5, BufferAssumption
<1>8. remaining' = remaining - a
  <2> HIDE DEF a
  <2> QED
    BY <1>6, <1>7, BufferAssumption
<1>9. off' \in Nat /\ remaining' \in Nat /\ off' + remaining' = got' /\ off' % 4 = 0
  <2> HIDE DEF a
  <2> QED
    BY <1>4, <1>5, <1>6, <1>8 DEF dgramVars
<1>10. dgram[i].off + a = IF i < Len(dgram) THEN dgram[i + 1].off ELSE size
  BY <1>1 DEF IInv, DgramInv
<1>11. Starts(off)' \/ off' = size'
  <2>1. dgram' = dgram /\ size' = size
    BY DEF dgramVars
  <2>2. CASE i < Len(dgram)
    <3>1. i + 1 \in 1..Len(dgram) /\ dgram[i + 1].off = off'
      <4> HIDE DEF a
      <4> QED
        BY <1>1, <1>2, <1>6, <1>10, <2>2
    <3> QED
      BY <2>1, <3>1 DEF Starts
  <2>3. CASE ~(i < Len(dgram))
    <3> HIDE DEF a
    <3> QED
      BY <1>1, <1>6, <1>10, <2>1, <2>3
  <2> QED
    BY <2>2, <2>3
<1> QED
  BY <1>9, <1>11

\* The kernel keeps the messages of a datagram together.
LEMMA PutStays ==
    ASSUME IInv, NEW m \in KernelMessages, PutMessage(m)
    PROVE  IInv'
<1>1. m.len \in Nat
  BY MessagesAssumption
<1> DEFINE r == [off |-> size, msg |-> m]
           a == Align(m.len)
<1>2. a \in Nat /\ a % 4 = 0
  BY <1>1, AlignFacts
<1>3. size \in Nat /\ size % 4 = 0 /\ dgram \in Seq([off : Nat, msg : KernelMessages])
  BY DEF IInv, DgramInv
<1>4. r \in [off : Nat, msg : KernelMessages]
  BY <1>3
<1>5. dgram' = Append(dgram, r) /\ size' = size + a
  BY DEF PutMessage
<1>6. size' \in Nat /\ size' % 4 = 0
  <2> HIDE DEF a
  <2>1. size + a \in Nat /\ (size + a) % 4 = 0
    BY <1>2, <1>3, AlignedSum, Zenon
  <2> QED
    BY <1>5, <2>1
<1>7. /\ dgram' \in Seq([off : Nat, msg : KernelMessages])
      /\ Len(dgram') = Len(dgram) + 1 /\ Len(dgram) \in Nat
      /\ \A i \in 1..Len(dgram) : dgram'[i] = dgram[i]
      /\ dgram'[Len(dgram) + 1] = r
      /\ dgram' # <<>>
  <2> HIDE DEF r
  <2> QED
    BY <1>3, <1>4, <1>5
<1>8. dgram'[1].off = 0
  <2>1. CASE dgram = <<>>
    BY <1>7, <2>1 DEF IInv, DgramInv
  <2>2. CASE dgram # <<>>
    <3>1. 1 \in 1..Len(dgram)
      BY <1>3, <2>2
    <3> QED
      BY <1>7, <2>2, <3>1 DEF IInv, DgramInv
  <2> QED
    BY <2>1, <2>2
<1>9. ASSUME NEW i \in 1..Len(dgram')
      PROVE  dgram'[i].off + Align(dgram'[i].msg.len) =
                 IF i < Len(dgram') THEN dgram'[i + 1].off ELSE size'
  <2>1. CASE i = Len(dgram) + 1
    BY <1>5, <1>7, <2>1
  <2>2. CASE i # Len(dgram) + 1
    <3>1. i \in 1..Len(dgram) /\ dgram'[i] = dgram[i] /\ i < Len(dgram')
      BY <1>7, <2>2
    <3>2. dgram[i].off + Align(dgram[i].msg.len) =
              IF i < Len(dgram) THEN dgram[i + 1].off ELSE size
      BY <3>1 DEF IInv, DgramInv
    <3>3. CASE i < Len(dgram)
      <4>1. i + 1 \in 1..Len(dgram)
        BY <1>7, <3>1, <3>3
      <4> QED
        BY <1>7, <3>1, <3>2, <3>3, <4>1
    <3>4. CASE ~(i < Len(dgram))
      <4>1. i = Len(dgram)
        BY <1>7, <3>1, <3>4
      <4> QED
        BY <1>7, <3>1, <3>2, <4>1
    <3> QED
      BY <3>3, <3>4
  <2> QED
    BY <2>1, <2>2
<1>10. DgramInv'
  BY <1>6, <1>7, <1>8, <1>9 DEF DgramInv
<1>11. WalkInv'
  BY DEF PutMessage, WalkInv
<1> QED
  BY <1>10, <1>11 DEF IInv

\* Every step keeps the datagram and the place in it.
LEMMA IInvStep == IInv /\ [Next]_vars => IInv'
<1> SUFFICES ASSUME IInv, [Next]_vars PROVE IInv'
  OBVIOUS
<1> USE DEF IInv
<1>1. ASSUME NEW index \in Indexes, NEW address \in Addresses, Prepare(index, address)
      PROVE  IInv'
  BY <1>1 DEF Prepare, DgramInv, WalkInv, dgramVars
<1>2. CASE SendRequest
  BY <1>2 DEF SendRequest, DgramInv, WalkInv, dgramVars
<1>3. ASSUME NEW m \in KernelMessages, PutMessage(m) PROVE IInv'
  BY <1>3, PutStays
<1>4. CASE Receive
  <2>1. DgramInv'
    BY <1>4 DEF Receive, DgramInv
  <2>2. /\ dgram' = dgram /\ size' = size /\ phase' = "walk"
        /\ off' = 0 /\ remaining' = got' /\ dgram # <<>>
        /\ got' = IF size < Buffer THEN size ELSE Buffer
    BY <1>4 DEF Receive
  <2>3. /\ got' \in Nat /\ got' % 4 = 0 /\ got' <= size' /\ got' <= Buffer
    BY <2>2, BufferAssumption DEF DgramInv
  <2>4. Starts(off)'
    <3>1. 1 \in 1..Len(dgram) /\ dgram[1].off = 0
      BY <2>2 DEF DgramInv
    <3> QED
      BY <2>2, <3>1 DEF Starts
  <2>5. off' \in Nat /\ off' % 4 = 0 /\ off' + remaining' = got' /\ remaining' \in Nat
    BY <2>2, <2>3
  <2>6. phase' # "attrs"
    BY <2>2
  <2> QED
    BY <2>1, <2>3, <2>4, <2>5, <2>6 DEF WalkInv
<1>5. CASE PassOver
  <2>1. /\ phase = "walk" /\ phase' = phase /\ Starts(off)
        /\ MessageAt(off).len <= remaining /\ NlmsgNext(MessageAt(off))
        /\ UNCHANGED dgramVars
    BY <1>5 DEF PassOver, NlmsgOk
  <2>2. DgramInv'
    BY <2>1 DEF DgramInv, dgramVars
  <2> QED
    BY <2>1, <2>2, NlmsgNextStays DEF WalkInv, dgramVars
<1>6. CASE ReturnResult
  BY <1>6 DEF ReturnResult, DgramInv, WalkInv, dgramVars
<1>7. CASE BeginEvent
  <2>1. /\ phase = "walk" /\ phase' = "attrs" /\ UNCHANGED <<dgram, size, got, off, remaining>>
        /\ Starts(off) /\ MessageAt(off).len <= remaining
    BY <1>7 DEF BeginEvent, NlmsgOk, dgramVars
  <2>2. DgramInv'
    BY <2>1 DEF DgramInv
  <2> QED
    BY <2>1, <2>2 DEF WalkInv, Starts, MessageAt
<1>8. CASE ReadAttribute
  <2>1. UNCHANGED <<phase, dgram, size, got, off, remaining>>
    BY <1>8 DEF ReadAttribute, dgramVars
  <2> QED
    BY <2>1 DEF DgramInv, WalkInv, Starts, MessageAt
<1>9. CASE EndEvent
  <2>1. /\ phase = "attrs" /\ Starts(off) /\ MessageAt(off).len <= remaining
        /\ UNCHANGED dgramVars
    BY <1>9 DEF EndEvent, WalkInv
  <2>2. DgramInv'
    BY <2>1 DEF DgramInv, dgramVars
  <2>3. CASE phase' = "returned"
    BY <2>2, <2>3 DEF WalkInv
  <2>4. CASE phase' # "returned"
    <3>1. phase' = "walk" /\ NlmsgNext(MessageAt(off))
      BY <1>9, <2>4 DEF EndEvent
    <3> QED
      BY <2>1, <2>2, <3>1, NlmsgNextStays DEF WalkInv, dgramVars
  <2> QED
    BY <2>3, <2>4
<1>10. CASE ReadMore
  BY <1>10 DEF ReadMore, DgramInv, WalkInv
<1>11. CASE UNCHANGED vars
  <2>1. UNCHANGED <<phase, dgram, size, got, off, remaining>>
    BY <1>11 DEF vars, dgramVars
  <2> QED
    BY <2>1 DEF DgramInv, WalkInv, Starts, MessageAt
<1> QED
  BY <1>1, <1>2, <1>3, <1>4, <1>5, <1>6, <1>7, <1>8, <1>9, <1>10, <1>11 DEF Next, Parse

\* Before the first datagram nothing is walked.
LEMMA IInvInit == Init => IInv
<1> SUFFICES ASSUME Init PROVE IInv
  OBVIOUS
<1>1. DgramInv
  BY DEF Init, DgramInv
<1>2. WalkInv
  BY DEF Init, WalkInv
<1> QED
  BY <1>1, <1>2 DEF IInv

\* At the end of the datagram nothing remains, so a header that fits is a message's.
LEMMA IInvImplies == IInv => WalkInside
<1> SUFFICES ASSUME IInv, phase \in {"walk", "attrs"}
             PROVE  off + remaining = got /\ off % 4 = 0 /\ (remaining >= nlmsghdr => Starts(off))
  BY DEF WalkInside
<1>1. size \in Nat
  BY DEF IInv, DgramInv
<1> QED
  BY <1>1 DEF IInv, WalkInv, nlmsghdr

\* NLMSG_NEXT never takes remaining below zero and never leaves the message
\* boundaries, for every buffer whose size is a multiple of four, all lengths and
\* every truncation (nl_request_task.hxx:142-153, nl_listener.cxx:118-125).
THEOREM WalkInsideTheorem == Spec => []WalkInside
<1>1. Init => IInv
  BY IInvInit
<1>2. IInv /\ [Next]_vars => IInv'
  BY IInvStep
<1>3. IInv => WalkInside
  BY IInvImplies
<1> QED
  BY <1>1, <1>2, <1>3, PTL DEF Spec

-----------------------------------------------------------------------------
\* The request exists from the preparation to the send, made from the call.
RequestInv ==
    /\ reader \in Readers
    /\ phase = "call" => reader # "listener"
    /\ phase # "send" => request = NoRequest
    /\ phase = "send" => /\ reader # "listener"
                         /\ request = PrepareRequest(reader, call.index, call.address)

\* A request with a destination, as its bytes lie.
LEMMA WithDestination ==
    ASSUME NEW k \in Tasks!NeighborOps, NEW index, NEW address, index # 0,
           NEW r, r = NeighborRequest(k, index, address)
    PROVE  /\ r.len = 48 /\ SizeofRequest(k) = 48
           /\ r.index = index /\ r.flags = Tasks!Task(k).flags
           /\ Destination(k, r) = address
<1>1. Tasks!Task(k).family = "neighbor"
  BY DEF Tasks!NeighborOps, Tasks!Task, Tasks!NeighborProbeTask, Tasks!NeighborFlushTask,
         Tasks!NeighborGetTask
<1>2. Fixed("neighbor") = 28
  BY DEF Fixed, Info, EventOf, NeighborEvent, nlmsghdr
<1>3. Align(28) = 28 /\ Align(20) = 20 /\ rtattr + 16 = 20
  BY DEF Align, rtattr
<1>4. SizeofRequest(k) = 48
  BY <1>1, <1>2 DEF SizeofRequest, rtattr
<1>5. PICK set : NeighborHeader(k, index) =
          [type |-> MessageType[k], flags |-> Tasks!Task(k).flags, index |-> index,
           set |-> set, family |-> "AF_UNSPEC", len |-> 28, rta_len |-> 0, dst |-> NoAddress]
  BY <1>1, <1>2 DEF NeighborHeader, Header
<1>6. r = [NeighborHeader(k, index) EXCEPT !.rta_len = 20, !.dst = address,
                                           !.len = Align(@) + Align(20)]
  BY <1>3 DEF NeighborRequest
<1>7. /\ r.flags = Tasks!Task(k).flags /\ r.index = index
      /\ r.len = 48 /\ r.rta_len = 20 /\ r.dst = address
  BY <1>3, <1>5, <1>6
<1> QED
  BY <1>1, <1>2, <1>4, <1>7 DEF Destination, rtattr

\* A request without one.
LEMMA WithoutDestination ==
    ASSUME NEW k, NEW index, NEW set, Fixed(Tasks!Task(k).family) \in Nat,
           NEW r, r = Header(k, index, set)
    PROVE  /\ r.len <= SizeofRequest(k)
           /\ r.index = index /\ r.flags = Tasks!Task(k).flags
           /\ r.set = set /\ r.family = "AF_UNSPEC"
           /\ Destination(k, r) = NoAddress
<1>1. /\ r.len = Fixed(Tasks!Task(k).family) /\ r.rta_len = 0
      /\ r.index = index /\ r.flags = Tasks!Task(k).flags
      /\ r.set = set /\ r.family = "AF_UNSPEC"
  BY DEF Header
<1>2. r.len <= SizeofRequest(k)
  BY <1>1 DEF SizeofRequest, rtattr
<1> QED
  BY <1>1, <1>2 DEF Destination, rtattr

\* Requests are made as RequestInv says and are gone after the send.
LEMMA RequestInvStep == RequestInv /\ [Next]_vars => RequestInv'
<1> SUFFICES ASSUME RequestInv, [Next]_vars PROVE RequestInv'
  OBVIOUS
<1> USE DEF RequestInv, requestVars
<1>1. ASSUME NEW index \in Indexes, NEW address \in Addresses, Prepare(index, address)
      PROVE  RequestInv'
  <2>1. /\ phase = "call" /\ phase' = "send" /\ reader' = reader
        /\ call'.index = index /\ call'.address = address
        /\ request' = PrepareRequest(reader, index, address)
    BY <1>1 DEF Prepare
  <2>2. request' = PrepareRequest(reader', call'.index, call'.address)
    BY <2>1
  <2> QED
    BY <2>1, <2>2
<1>2. CASE SendRequest
  BY <1>2 DEF SendRequest
<1>3. ASSUME NEW m \in KernelMessages, PutMessage(m) PROVE RequestInv'
  BY <1>3 DEF PutMessage
<1>4. CASE Receive
  BY <1>4 DEF Receive
<1>5. CASE PassOver
  BY <1>5 DEF PassOver
<1>6. CASE ReturnResult
  BY <1>6 DEF ReturnResult
<1>7. CASE BeginEvent
  BY <1>7 DEF BeginEvent
<1>8. CASE ReadAttribute
  BY <1>8 DEF ReadAttribute
<1>9. CASE EndEvent
  BY <1>9 DEF EndEvent
<1>10. CASE ReadMore
  BY <1>10 DEF ReadMore
<1>11. CASE UNCHANGED vars
  BY <1>11 DEF vars
<1> QED
  BY <1>1, <1>2, <1>3, <1>4, <1>5, <1>6, <1>7, <1>8, <1>9, <1>10, <1>11 DEF Next, Parse

\* The tasks ask for what their names say.
LEMMA TaskFacts ==
    ASSUME NEW k \in Tasks!AllKinds
    PROVE  /\ Fixed(Tasks!Task(k).family) \in Nat
           /\ "DUMP" \in Tasks!Task(k).flags <=> k \notin Tasks!NeighborOps
<1> USE DEF Tasks!AllKinds, Tasks!Dumps, Tasks!NeighborOps, Tasks!Task, Tasks!RouteDumpTask,
            Tasks!AddressDumpTask, Tasks!LinkDumpTask, Tasks!NeighborDumpTask,
            Tasks!NeighborProbeTask, Tasks!NeighborFlushTask, Tasks!NeighborGetTask
<1>1. Tasks!Task(k).family \in {"link", "address", "route", "neighbor"}
  OBVIOUS
<1>2. "DUMP" \in Tasks!Task(k).flags <=> k \notin Tasks!NeighborOps
  OBVIOUS
<1>3. Fixed(Tasks!Task(k).family) \in Nat
  BY <1>1 DEF Fixed, Info, EventOf, LinkEvent, AddressEvent, RouteEvent, NeighborEvent, nlmsghdr
<1> QED
  BY <1>2, <1>3

\* A request made as RequestInv says carries what the caller gave.
LEMMA RequestInvImplies == RequestInv => RequestCarriesCall
<1> SUFFICES ASSUME RequestInv, request # NoRequest PROVE RequestCarriesCall
  BY DEF RequestCarriesCall
<1>1. /\ reader \in Tasks!AllKinds
      /\ request = PrepareRequest(reader, call.index, call.address)
  BY ReadersAssumption DEF RequestInv
<1>2. /\ Fixed(Tasks!Task(reader).family) \in Nat
      /\ "DUMP" \in Tasks!Task(reader).flags <=> reader \notin Tasks!NeighborOps
  BY <1>1, TaskFacts
<1>3. CASE reader \in Tasks!NeighborOps /\ call.index # 0
  <2>1. request = NeighborRequest(reader, call.index, call.address)
    BY <1>1, <1>3 DEF PrepareRequest, Tasks!NeighborOps
  <2> QED
    BY <1>2, <1>3, <2>1, WithDestination DEF RequestCarriesCall
<1>4. CASE reader \in Tasks!NeighborOps /\ call.index = 0
  <2>1. PICK set : request = Header(reader, call.index, set)
    BY <1>1, <1>4 DEF PrepareRequest, Tasks!NeighborOps, NeighborRequest, NeighborHeader
  <2> QED
    BY <1>2, <1>4, <2>1, WithoutDestination DEF RequestCarriesCall
<1>5. CASE reader \notin Tasks!NeighborOps
  <2>1. PICK set : request = Header(reader, 0, set) /\ set \subseteq {"rtm_table"}
    BY <1>1, <1>5 DEF Tasks!AllKinds, Tasks!Dumps, PrepareRequest, RouteRequest, AddressRequest,
       LinkRequest, NeighborRequest, NeighborHeader, Indexed
  <2>2. /\ request.len <= SizeofRequest(reader)
        /\ request.index = 0 /\ request.flags = Tasks!Task(reader).flags
        /\ request.set = set /\ request.family = "AF_UNSPEC"
        /\ Destination(reader, request) = NoAddress
    BY <1>2, <2>1, WithoutDestination
  <2>3. "DUMP" \in request.flags
    BY <1>2, <1>5, <2>2
  <2> QED
    BY <1>5, <2>1, <2>2, <2>3 DEF RequestCarriesCall
<1> QED
  BY <1>3, <1>4, <1>5

\* For every index and address, the request that a task lays out stays inside its
\* structure and carries the caller's index and, when that is not 0, the caller's
\* address (the build_request of include/rtaco/tasks/nl_*_task.hxx); what the kernel
\* makes of it is no part of this.
THEOREM RequestCarriesCallTheorem == Spec => []RequestCarriesCall
<1>1. Init => RequestInv
  BY DEF Init, RequestInv
<1>2. RequestInv /\ [Next]_vars => RequestInv'
  BY RequestInvStep
<1>3. RequestInv => RequestCarriesCall
  BY RequestInvImplies
<1> QED
  BY <1>1, <1>2, <1>3, PTL DEF Spec
=============================================================================
