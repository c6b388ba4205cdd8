----------------------------- MODULE ParseProofs -----------------------------
(***************************************************************************)
(* Proofs that the walk over the attributes of a message stays inside it,  *)
(* and that the messages of a datagram become the events they stand for:   *)
(* for every reader, every buffer and all well-formed messages.            *)
(***************************************************************************)
EXTENDS WireProofs, NatInduction

\* The name was in attribute k, where extract_ifname returns.
NameFound(m, k) == k > 0 /\ Found(m, m.attrs[k])

\* v is what the first k attributes of m say of type t: of names the one that was
\* found, otherwise the last attribute of the type.
SaidSoFar(m, t, k, v) ==
    IF t = "IFLA_IFNAME"
    THEN v = IF NameFound(m, k) THEN Read(m, m.attrs[k]).value ELSE <<>>
    ELSE \/ v = Fresh(m)[t] /\ \A i \in 1..k : m.attrs[i].type # t
         \/ \E i \in 1..k : /\ m.attrs[i].type = t
                            /\ v = Read(m, m.attrs[i]).value
                            /\ \A j \in 1..k : m.attrs[j].type = t => j <= i

\* Inside an event, attr_length is what is left of the message behind the attributes
\* read so far, and the event has what these said.
EventInv ==
    phase = "attrs" =>
        LET m == MessageAt(off)
        IN  /\ Wanted(m) /\ HasPayload(m, Info(m.family))
            /\ n \in 1..(Len(m.attrs) + 1)
            /\ left = IF NameFound(m, n - 1) THEN 0 ELSE m.len - Begins(m)[n]
            /\ \A i \in 1..(n - 2) : ~Found(m, m.attrs[i])
            /\ event = [t \in Attributes(m.family) |-> event[t]]
            /\ \A t \in Attributes(m.family) : SaidSoFar(m, t, n - 1, event[t])

\* The header is at the p-th message, or behind the last.
At(p) ==
    /\ p \in 1..(Len(dgram) + 1)
    /\ off = IF p <= Len(dgram) THEN dgram[p].off ELSE size

\* How many of the first p messages become events.
Count(p) == Cardinality({j \in Meaningful : j <= p})

\* The messages before the p-th arrived whole, and none of them ended the task.
Passed(p) == \A j \in 1..(p - 1) : j \in Whole /\ ~Returns(dgram[j].msg)

\* The events of the first p messages have been made.
Made(p) ==
    /\ Len(parsed) = Count(p)
    /\ \A i \in Meaningful : i <= p => Tells(parsed[Count(i)], dgram[i].msg)

\* At every message, what was before it has become events.
MadeInv ==
    /\ phase \in {"walk", "attrs"} => \E p \in 1..(Len(dgram) + 1) : At(p) /\ Passed(p) /\ Made(p - 1)
    /\ phase = "returned" => AllParsed

-----------------------------------------------------------------------------
(* Messages and their attributes. *)

\* Begins is what its recursion says.
LEMMA BeginsDef ==
    ASSUME NEW m, Len(m.attrs) \in Nat
    PROVE  /\ Begins(m)[1] = Fixed(m.family)
           /\ \A i \in 1..Len(m.attrs) :
                 Begins(m)[i + 1] = Begins(m)[i] + Align(m.attrs[i].len)
<1> DEFINE l == Len(m.attrs)
           next(f, i) == IF i = 1 THEN Fixed(m.family) ELSE f[i - 1] + Align(m.attrs[i - 1].len)
           S == {k \in Nat : \E f : f = [i \in 1..(k + 1) |-> next(f, i)]}
<1>1. 0 \in S
  <2> DEFINE f == [i \in 1..(0 + 1) |-> Fixed(m.family)]
  <2>1. f = [i \in 1..(0 + 1) |-> next(f, i)]
    OBVIOUS
  <2> QED BY <2>1
<1>2. ASSUME NEW k \in S PROVE k + 1 \in S
  <2>1. PICK f : f = [i \in 1..(k + 1) |-> next(f, i)]
    OBVIOUS
  <2> DEFINE g == [i \in 1..(k + 1 + 1) |-> IF i = k + 2 THEN next(f, k + 2) ELSE f[i]]
  <2>2. ASSUME NEW i \in 1..(k + 1 + 1) PROVE g[i] = next(g, i)
    <3>1. CASE i = 1
      BY <2>1, <3>1
    <3>2. CASE i # 1 /\ i # k + 2
      <4>1. i \in 1..(k + 1) /\ g[i] = f[i] /\ g[i - 1] = f[i - 1]
        BY <3>2
      <4>2. f[i] = next(f, i)
        BY <2>1, <4>1
      <4> QED BY <3>2, <4>1, <4>2
    <3>3. CASE i = k + 2
      <4>1. i # 1 /\ g[i] = next(f, i) /\ g[i - 1] = f[i - 1]
        BY <3>3
      <4> QED BY <4>1
    <3> QED BY <3>1, <3>2, <3>3
  <2>3. g = [i \in 1..(k + 1 + 1) |-> next(g, i)]
    BY <2>2
  <2>4. k + 1 \in Nat
    OBVIOUS
  <2>5. \E h : h = [i \in 1..(k + 1 + 1) |-> next(h, i)]
    <3> HIDE DEF g, next
    <3> QED BY <2>3
  <2> HIDE DEF next
  <2> QED BY <2>4, <2>5
<1>3. S = Nat
  <2> HIDE DEF S
  <2>1. S \in SUBSET Nat
    BY DEF S
  <2> QED BY <1>1, <1>2, <2>1, SetInduction
<1>4. PICK f : f = [i \in 1..(l + 1) |-> next(f, i)]
  BY <1>3
<1> DEFINE u == Begins(m)
<1>5. u = CHOOSE h : h = [i \in 1..(l + 1) |-> next(h, i)]
  BY DEF Begins
<1>6. u = [i \in 1..(l + 1) |-> next(u, i)]
  <2> HIDE DEF u, l
  <2> QED BY <1>4, <1>5
<1> HIDE DEF u
<1>7. \A i \in 1..(l + 1) : u[i] = next(u, i)
  <2> HIDE DEF next
  <2> QED BY <1>6
<1>8. u[1] = Fixed(m.family)
  BY <1>7
<1>9. ASSUME NEW i \in 1..l PROVE u[i + 1] = u[i] + Align(m.attrs[i].len)
  <2>1. i + 1 \in 1..(l + 1) /\ i + 1 # 1 /\ i + 1 - 1 = i
    OBVIOUS
  <2> HIDE DEF l
  <2> QED BY <1>7, <2>1
<1> QED BY <1>8, <1>9 DEF u

\* The fixed parts of the four kinds of messages.
LEMMA FixedFacts ==
    ASSUME NEW family \in DOMAIN EventOf
    PROVE  /\ family \in {"link", "address", "route", "neighbor"}
           /\ Fixed(family) \in Nat /\ Fixed(family) % 4 = 0 /\ Fixed(family) = nlmsghdr + Info(family)
BY DEF Fixed, Info, EventOf, LinkEvent, AddressEvent, RouteEvent, NeighborEvent, nlmsghdr

\* Attributes begin inside the message.
LEMMA BeginsType ==
    ASSUME NEW m, WellFormed(m), m.family \in DOMAIN EventOf
    PROVE  \A i \in 1..(Len(m.attrs) + 1) : Begins(m)[i] \in Nat
<1> DEFINE l == Len(m.attrs)
           S == {k \in Nat : k <= l => Begins(m)[k + 1] \in Nat}
<1>1. l \in Nat /\ \A i \in 1..l : m.attrs[i].len \in Nat
  BY DEF WellFormed, AttributeWellFormed
<1>2. Begins(m)[1] = Fixed(m.family) /\ \A i \in 1..l : Begins(m)[i + 1] = Begins(m)[i] + Align(m.attrs[i].len)
  BY <1>1, BeginsDef
<1> HIDE DEF l
<1>3. 0 \in S
  BY <1>2, FixedFacts
<1>4. ASSUME NEW k \in S PROVE k + 1 \in S
  <2>1. CASE k + 1 <= l
    <3>1. k + 1 \in 1..l /\ k <= l /\ Begins(m)[k + 1] \in Nat
      BY <1>1, <2>1
    <3>2. Align(m.attrs[k + 1].len) \in Nat
      BY <1>1, <3>1, AlignFacts
    <3> DEFINE b == Begins(m)[k + 1]
               a == Align(m.attrs[k + 1].len)
    <3>3. Begins(m)[(k + 1) + 1] = b + a
      BY <1>2, <3>1
    <3>4. b + a \in Nat
      <4> HIDE DEF a, b
      <4>1. a \in Nat /\ b \in Nat
        BY <3>1, <3>2 DEF a, b
      <4> QED BY <4>1
    <3> HIDE DEF a, b
    <3> QED BY <3>3, <3>4
  <2> QED BY <1>1, <2>1
<1>5. S = Nat
  <2> HIDE DEF S
  <2>1. S \in SUBSET Nat
    BY DEF S
  <2> QED BY <1>3, <1>4, <2>1, SetInduction
<1>6. ASSUME NEW i \in 1..(l + 1) PROVE Begins(m)[i] \in Nat
  <2>1. i - 1 \in Nat /\ i - 1 <= l /\ (i - 1) + 1 = i
    BY <1>1
  <2> QED BY <1>5, <2>1
<1> QED BY <1>6 DEF l

\* A message that is made an event of is well formed.
LEMMA WantedFormed ==
    ASSUME NEW m \in KernelMessages, Wanted(m), HasPayload(m, Info(m.family))
    PROVE  /\ m.type \in {"NEW", "DEL"} /\ m.len \in Nat /\ WellFormed(m)
           /\ m.family \in DOMAIN EventOf /\ Len(m.attrs) \in Nat
<1>1. m.type \in {"NEW", "DEL"}
  BY DEF Wanted
<1>2. m.family \in DOMAIN EventOf /\ m.len \in Nat
  BY <1>1, MessagesAssumption
<1>3. m.len >= Fixed(m.family)
  BY <1>2, FixedFacts DEF HasPayload
<1> QED BY <1>1, <1>2, <1>3, MessagesAssumption DEF WellFormed

\* The loop over the attributes goes on exactly as long as there are attributes and
\* no name has been found.
LEMMA RtaOkFacts ==
    ASSUME NEW m, WellFormed(m), m.family \in DOMAIN EventOf, m.len \in Nat,
           n \in 1..(Len(m.attrs) + 1),
           left = IF NameFound(m, n - 1) THEN 0 ELSE m.len - Begins(m)[n]
    PROVE  /\ left \in Int
           /\ RtaOk(m) <=> n <= Len(m.attrs) /\ ~NameFound(m, n - 1)
           /\ left >= rtattr => n <= Len(m.attrs)
<1>1. Begins(m)[n] \in Nat /\ Len(m.attrs) \in Nat
  BY BeginsType DEF WellFormed
<1>2. left \in Int
  BY <1>1
<1>3. CASE NameFound(m, n - 1)
  BY <1>2, <1>3 DEF RtaOk, rtattr
<1>4. CASE ~NameFound(m, n - 1) /\ n <= Len(m.attrs)
  <2>1. n \in 1..Len(m.attrs)
    BY <1>1, <1>4
  <2>2. m.attrs[n].len \in Nat /\ m.attrs[n].len >= rtattr /\ Begins(m)[n] + m.attrs[n].len <= m.len
    BY <2>1 DEF WellFormed, AttributeWellFormed
  <2>3. left = m.len - Begins(m)[n]
    BY <1>4
  <2>4. left >= m.attrs[n].len /\ left >= rtattr
    BY <1>1, <2>2, <2>3 DEF rtattr
  <2> QED BY <1>2, <1>4, <2>2, <2>4 DEF RtaOk
<1>5. CASE ~NameFound(m, n - 1) /\ ~(n <= Len(m.attrs))
  <2>1. n = Len(m.attrs) + 1
    BY <1>1, <1>5
  <2>2. m.len <= Begins(m)[n]
    BY <2>1 DEF WellFormed
  <2>3. left <= 0
    BY <1>1, <1>5, <2>2
  <2> QED BY <1>2, <1>5, <2>3 DEF RtaOk, rtattr
<1> QED BY <1>2, <1>3, <1>4, <1>5

\* The types of attributes that an event reads.
LEMMA AttributeFacts ==
    ASSUME NEW family \in DOMAIN EventOf
    PROVE  /\ "IFLA_IFNAME" \in Attributes(family) <=> family = "link"
           /\ family = "link" => Attributes(family) = {"IFLA_IFNAME"}
           /\ \A t \in Attributes(family) \ (Numbers \cup Texts \cup {"NDA_LLADDR"}) : t \in IpAddresses
           /\ "RTA_TABLE" \in Numbers /\ "NDA_LLADDR" \notin Numbers \cup Texts
           /\ Numbers \cap Texts = {} /\ "IFLA_IFNAME" \in Texts
<1>1. family \in {"link", "address", "route", "neighbor"}
  BY FixedFacts
<1>2. /\ "IFLA_IFNAME" \in Attributes(family) <=> family = "link"
      /\ family = "link" => Attributes(family) = {"IFLA_IFNAME"}
  BY <1>1 DEF Attributes, EventOf, LinkEvent, AddressEvent, RouteEvent, NeighborEvent
<1>3. \A t \in Attributes(family) \ (Numbers \cup Texts \cup {"NDA_LLADDR"}) : t \in IpAddresses
  BY DEF IpAddresses
<1> QED BY <1>2, <1>3 DEF Numbers, Texts

\* The type of what an event has for an attribute of type t.
Typed(t, v) == IF t \in Numbers THEN v \in Nat ELSE Len(v) <= 3

\* A reader takes only bytes of its attribute and gives a value of the right type.
LEMMA ReadFacts ==
    ASSUME NEW m, m.family \in DOMAIN EventOf, NEW a, AttributeWellFormed(m, a),
           a.type \in Attributes(m.family)
    PROVE  Read(m, a).touched <= Payload(a) /\ Typed(a.type, Read(m, a).value)
<1>1. Payload(a) \in Nat
  BY DEF AttributeWellFormed, Payload, rtattr
<1>2. CASE a.type \in Numbers
  <2>1. Read(m, a) = attribute_uint32(a)
    <3>1. a.type \notin Texts /\ a.type # "NDA_LLADDR"
      BY <1>2, AttributeFacts
    <3> QED BY <1>2, <3>1 DEF Read
  <2>2. Payload(a) >= 4 => a.data \in Nat
    BY <1>2 DEF AttributeWellFormed
  <2> QED BY <1>1, <1>2, <2>1, <2>2 DEF attribute_uint32, Readings, Typed
<1>3. CASE a.type \in Texts
  <2>1. Read(m, a) = attribute_string(a) /\ a.type \notin Numbers
    BY <1>3, AttributeFacts DEF Read
  <2>2. Payload(a) > 0 => a.chars \in Nat /\ a.chars < Payload(a)
    BY <1>3 DEF AttributeWellFormed
  <2>3. Len(trim_string(a.data)) <= 3
    BY DEF trim_string
  <2>4. CASE Payload(a) = 0
    <3>1. Read(m, a).touched = 0 /\ Read(m, a).value = <<>>
      BY <2>1, <2>4 DEF attribute_string, Readings
    <3> QED BY <1>1, <2>1, <3>1 DEF Typed
  <2>5. CASE Payload(a) # 0
    <3>1. Read(m, a).touched = a.chars + 1 /\ Read(m, a).value = trim_string(a.data)
      BY <2>1, <2>5 DEF attribute_string, Readings
    <3> QED BY <1>1, <2>1, <2>2, <2>3, <2>5, <3>1 DEF Typed
  <2> QED BY <2>4, <2>5
<1>4. CASE a.type = "NDA_LLADDR"
  <2>1. Read(m, a) = attribute_hwaddr(a) /\ a.type \notin Numbers
    BY <1>4, AttributeFacts DEF Read
  <2>2. CASE Payload(a) = 0
    <3>1. Read(m, a).touched = 0 /\ Read(m, a).value = <<>>
      BY <2>1, <2>2 DEF attribute_hwaddr, Readings
    <3> QED BY <1>1, <2>1, <3>1 DEF Typed
  <2>3. CASE Payload(a) # 0
    <3>1. Read(m, a).touched = Payload(a) /\ Read(m, a).value = <<"hex", a.data, Payload(a)>>
      BY <2>1, <2>3 DEF attribute_hwaddr, Readings
    <3> QED BY <1>1, <2>1, <3>1 DEF Typed
  <2> QED BY <2>2, <2>3
<1>5. CASE a.type \notin Numbers \cup Texts \cup {"NDA_LLADDR"}
  <2>1. Read(m, a) = attribute_address(a, m.af) /\ a.type \notin Numbers
    BY <1>5 DEF Read
  <2>2. /\ m.af = "AF_INET" => Payload(a) >= 4
        /\ m.af = "AF_INET6" => Payload(a) >= 16
    BY <1>5, AttributeFacts DEF AttributeWellFormed
  <2>3. CASE m.af = "AF_INET"
    <3>1. Read(m, a).touched = 4 /\ Read(m, a).value = <<"inet", a.data>>
      BY <2>1, <2>3 DEF attribute_address, Readings
    <3>2. Payload(a) >= 4
      BY <2>2, <2>3
    <3>3. Len(Read(m, a).value) <= 3
      BY <3>1
    <3> QED BY <1>1, <2>1, <3>1, <3>2, <3>3 DEF Typed
  <2>4. CASE m.af = "AF_INET6"
    <3>1. Read(m, a).touched = 16 /\ Read(m, a).value = <<"inet6", a.data>>
      BY <2>1, <2>4 DEF attribute_address, Readings
    <3>2. Payload(a) >= 16
      BY <2>2, <2>4
    <3>3. Len(Read(m, a).value) <= 3
      BY <3>1
    <3> QED BY <1>1, <2>1, <3>1, <3>2, <3>3 DEF Typed
  <2>5. CASE m.af \notin {"AF_INET", "AF_INET6"}
    <3>1. Read(m, a).touched = 0 /\ Read(m, a).value = <<>>
      BY <2>1, <2>5 DEF attribute_address, Readings
    <3> QED BY <1>1, <2>1, <3>1 DEF Typed
  <2> QED BY <2>3, <2>4, <2>5
<1> QED BY <1>2, <1>3, <1>4, <1>5

\* A fresh event has values of the right types.
LEMMA FreshTyped ==
    ASSUME NEW m, m.table \in Nat, NEW t \in Attributes(m.family)
    PROVE  Typed(t, Fresh(m)[t])
<1>1. CASE t = "RTA_TABLE"
  BY <1>1 DEF Fresh, Typed, Numbers
<1>2. CASE t \in Numbers \ {"RTA_TABLE"}
  <2>1. Fresh(m)[t] = 0
    BY <1>2 DEF Fresh
  <2> QED BY <1>2, <2>1 DEF Typed
<1>3. CASE t \notin Numbers
  <2>1. Fresh(m)[t] = <<>>
    BY <1>3 DEF Fresh, Numbers
  <2> QED BY <1>3, <2>1 DEF Typed
<1> QED BY <1>1, <1>2, <1>3

-----------------------------------------------------------------------------
(* The walk over the attributes of a message. *)

\* Before the first attribute, an event says what a fresh one does.
LEMMA SaidFresh ==
    ASSUME NEW m, m.family \in DOMAIN EventOf, NEW t \in Attributes(m.family)
    PROVE  SaidSoFar(m, t, 0, Fresh(m)[t])
<1>1. CASE t = "IFLA_IFNAME"
  <2>1. Fresh(m)[t] = <<>>
    <3>1. t \notin Numbers
      BY <1>1 DEF Numbers
    <3>2. t # "RTA_TABLE"
      BY <1>1
    <3> QED BY <3>1, <3>2 DEF Fresh
  <2> QED BY <1>1, <2>1 DEF SaidSoFar, NameFound
<1>2. CASE t # "IFLA_IFNAME"
  BY <1>2 DEF SaidSoFar
<1> QED BY <1>1, <1>2

\* One more attribute says what it says, or nothing of type t.
LEMMA SaidNext ==
    ASSUME NEW m, m.family \in DOMAIN EventOf, NEW t \in Attributes(m.family),
           NEW k \in Nat, NEW v, SaidSoFar(m, t, k, v), ~NameFound(m, k),
           NEW w, w = IF m.attrs[k + 1].type = t THEN Read(m, m.attrs[k + 1]).value ELSE v
    PROVE  SaidSoFar(m, t, k + 1, w)
<1> DEFINE a == m.attrs[k + 1]
<1>1. CASE t = "IFLA_IFNAME"
  <2>1. v = <<>> /\ m.family = "link" /\ k + 1 > 0
    BY <1>1, AttributeFacts DEF SaidSoFar
  <2>2. CASE a.type = t /\ Payload(a) = 0
    <3>1. Read(m, a) = attribute_string(a)
      BY <1>1, <2>2, AttributeFacts DEF Read
    <3>2. Read(m, a).value = <<>>
      BY <2>2, <3>1 DEF attribute_string, Readings
    <3>3. ~NameFound(m, k + 1)
      BY <2>2 DEF NameFound, Found
    <3> QED BY <1>1, <2>2, <3>2, <3>3 DEF SaidSoFar
  <2>3. CASE a.type = t /\ Payload(a) # 0
    <3>1. NameFound(m, k + 1)
      BY <1>1, <2>1, <2>3 DEF NameFound, Found
    <3> QED BY <1>1, <2>3, <3>1 DEF SaidSoFar
  <2>4. CASE a.type # t
    <3>1. ~NameFound(m, k + 1)
      BY <1>1, <2>4 DEF NameFound, Found
    <3> QED BY <1>1, <2>1, <2>4, <3>1 DEF SaidSoFar
  <2> QED BY <2>2, <2>3, <2>4
<1>2. CASE t # "IFLA_IFNAME" /\ a.type = t
  <2>1. k + 1 \in 1..(k + 1) /\ \A j \in 1..(k + 1) : j <= k + 1
    OBVIOUS
  <2> QED BY <1>2, <2>1 DEF SaidSoFar
<1>3. CASE t # "IFLA_IFNAME" /\ a.type # t
  <2>1. \A i \in 1..(k + 1) : i = k + 1 \/ i \in 1..k
    OBVIOUS
  <2>2. \A i \in 1..k : i \in 1..(k + 1)
    OBVIOUS
  <2>3. w = v
    BY <1>3
  <2>4. CASE v = Fresh(m)[t] /\ \A i \in 1..k : m.attrs[i].type # t
    BY <1>3, <2>1, <2>3, <2>4 DEF SaidSoFar
  <2>5. CASE \E i \in 1..k : /\ m.attrs[i].type = t
                             /\ v = Read(m, m.attrs[i]).value
                             /\ \A j \in 1..k : m.attrs[j].type = t => j <= i
    <3>1. PICK i \in 1..k : /\ m.attrs[i].type = t
                            /\ v = Read(m, m.attrs[i]).value
                            /\ \A j \in 1..k : m.attrs[j].type = t => j <= i
      BY <2>5
    <3>2. \A j \in 1..(k + 1) : m.attrs[j].type = t => j <= i
      BY <1>3, <2>1, <3>1
    <3> QED BY <1>3, <2>2, <2>3, <3>1, <3>2 DEF SaidSoFar
  <2> QED BY <1>3, <2>4, <2>5 DEF SaidSoFar
<1> QED BY <1>1, <1>2, <1>3

\* What the attributes say has the type of the event's member.
LEMMA SaidTyped ==
    ASSUME NEW m, WellFormed(m), m.family \in DOMAIN EventOf, NEW t \in Attributes(m.family),
           NEW k \in 0..Len(m.attrs), NEW v, SaidSoFar(m, t, k, v)
    PROVE  Typed(t, v)
<1>1. \A i \in 1..k : i \in 1..Len(m.attrs)
  BY DEF WellFormed
<1>2. ASSUME NEW i \in 1..k, m.attrs[i].type = t PROVE Typed(t, Read(m, m.attrs[i]).value)
  <2>1. AttributeWellFormed(m, m.attrs[i])
    BY <1>1 DEF WellFormed
  <2> QED BY <1>2, <2>1, ReadFacts
<1>3. CASE t = "IFLA_IFNAME"
  <2>1. CASE NameFound(m, k)
    <3>1. k \in 1..k /\ m.attrs[k].type = t
      BY <1>3, <2>1 DEF NameFound, Found
    <3> QED BY <1>2, <1>3, <2>1, <3>1 DEF SaidSoFar
  <2>2. CASE ~NameFound(m, k)
    <3>1. t \notin Numbers
      BY <1>3 DEF Numbers
    <3>2. v = <<>>
      BY <1>3, <2>2 DEF SaidSoFar
    <3>3. Len(v) <= 3
      BY <3>2
    <3> QED BY <3>1, <3>3 DEF Typed
  <2> QED BY <2>1, <2>2
<1>4. CASE t # "IFLA_IFNAME"
  <2>1. m.table \in Nat
    BY DEF WellFormed
  <2>2. Typed(t, Fresh(m)[t])
    BY <2>1, FreshTyped
  <2> QED BY <1>2, <1>4, <2>2 DEF SaidSoFar
<1> QED BY <1>3, <1>4

\* The message whose attributes are read.
LEMMA CurrentMessage ==
    ASSUME IInv, Starts(off)
    PROVE  MessageAt(off) \in KernelMessages /\ MessageAt(off).len \in Nat
<1>1. PICK i \in 1..Len(dgram) : MessageAt(off) = dgram[i].msg
  BY MessageAtFacts DEF IInv
<1>2. dgram[i] \in [off : Nat, msg : KernelMessages]
  <2>1. dgram \in Seq([off : Nat, msg : KernelMessages])
    BY DEF IInv, DgramInv
  <2> QED BY <2>1, ElementOf, Zenon
<1> QED BY <1>1, <1>2, MessagesAssumption

\* What an event under way needs of the next state.
LEMMA EventKept ==
    ASSUME NEW m, MessageAt(off)' = m, reader' = reader,
           Wanted(m), HasPayload(m, Info(m.family)),
           n' \in 1..(Len(m.attrs) + 1),
           left' = IF NameFound(m, n' - 1) THEN 0 ELSE m.len - Begins(m)[n'],
           \A i \in 1..(n' - 2) : ~Found(m, m.attrs[i]),
           event' = [t \in Attributes(m.family) |-> event'[t]],
           \A t \in Attributes(m.family) : SaidSoFar(m, t, n' - 1, event'[t])
    PROVE  EventInv'
<1>1. Wanted(m)'
  BY DEF Wanted
<1> QED BY <1>1 DEF EventInv

\* Every step keeps the event under way.
LEMMA EventStep ==
    ASSUME IInv, EventInv, [Next]_vars
    PROVE  EventInv'
<1> USE DEF requestVars, dgramVars, attrVars
<1>1. ASSUME NEW index \in Indexes, NEW address \in Addresses, Prepare(index, address)
      PROVE  phase' # "attrs"
  BY <1>1 DEF Prepare
<1>2. SendRequest => phase' # "attrs"
  BY DEF SendRequest
<1>3. ASSUME NEW m \in KernelMessages, PutMessage(m) PROVE phase' # "attrs"
  BY <1>3 DEF PutMessage
<1>4. Receive => phase' # "attrs"
  BY DEF Receive
<1>5. PassOver => phase' # "attrs"
  BY DEF PassOver
<1>6. ReturnResult => phase' # "attrs"
  BY DEF ReturnResult
<1>7. CASE BeginEvent
  <2> DEFINE m == MessageAt(off)
  <2>1. /\ Starts(off) /\ Wanted(m) /\ HasPayload(m, Info(m.family))
        /\ event' = Fresh(m) /\ left' = m.len - Fixed(m.family) /\ n' = 1
        /\ dgram' = dgram /\ off' = off /\ reader' = reader
    BY <1>7 DEF BeginEvent, NlmsgOk
  <2>2. MessageAt(off)' = m
    BY <2>1 DEF MessageAt
  <2>3. m \in KernelMessages
    BY <2>1, CurrentMessage
  <2> HIDE DEF m
  <2>4. WellFormed(m) /\ m.family \in DOMAIN EventOf /\ Len(m.attrs) \in Nat
    BY <2>1, <2>3, WantedFormed
  <2>5. n' \in 1..(Len(m.attrs) + 1) /\ n' - 1 = 0
    BY <2>1, <2>4
  <2>6. left' = IF NameFound(m, n' - 1) THEN 0 ELSE m.len - Begins(m)[n']
    BY <2>1, <2>4, <2>5, BeginsDef DEF NameFound
  <2>7. \A i \in 1..(n' - 2) : ~Found(m, m.attrs[i])
    BY <2>1
  <2>8. event' = [t \in Attributes(m.family) |-> event'[t]]
    BY <2>1 DEF Fresh
  <2>9. \A t \in Attributes(m.family) : SaidSoFar(m, t, n' - 1, event'[t])
    BY <2>1, <2>4, <2>5, SaidFresh
  <2> QED BY <2>1, <2>2, <2>5, <2>6, <2>7, <2>8, <2>9, EventKept
<1>8. CASE ReadAttribute
  <2> DEFINE m == MessageAt(off)
             a == m.attrs[n]
  <2>1. /\ phase = "attrs" /\ RtaOk(m)
        /\ event' = IF a.type \in Attributes(m.family)
                    THEN [event EXCEPT ![a.type] = Read(m, a).value] ELSE event
        /\ left' = IF Found(m, a) THEN 0 ELSE left - Align(a.len)
        /\ n' = n + 1
        /\ dgram' = dgram /\ off' = off /\ reader' = reader
    BY <1>8 DEF ReadAttribute
  <2>2. MessageAt(off)' = m
    BY <2>1 DEF MessageAt
  <2>3. /\ Wanted(m) /\ HasPayload(m, Info(m.family))
        /\ n \in 1..(Len(m.attrs) + 1)
        /\ left = IF NameFound(m, n - 1) THEN 0 ELSE m.len - Begins(m)[n]
        /\ \A i \in 1..(n - 2) : ~Found(m, m.attrs[i])
        /\ event = [t \in Attributes(m.family) |-> event[t]]
        /\ \A t \in Attributes(m.family) : SaidSoFar(m, t, n - 1, event[t])
    BY <2>1 DEF EventInv
  <2>4. m \in KernelMessages /\ m.len \in Nat
    BY <2>1, CurrentMessage DEF IInv, WalkInv
  <2> HIDE DEF m
  <2>5. WellFormed(m) /\ m.family \in DOMAIN EventOf /\ Len(m.attrs) \in Nat
    BY <2>3, <2>4, WantedFormed
  <2>6. n <= Len(m.attrs) /\ ~NameFound(m, n - 1)
    BY <2>1, <2>3, <2>4, <2>5, RtaOkFacts
  <2>7. n \in 1..Len(m.attrs) /\ n' \in 1..(Len(m.attrs) + 1) /\ n' - 1 = n /\ n \in Nat /\ n > 0
    BY <2>1, <2>3, <2>5, <2>6
  <2>8. left' = IF NameFound(m, n' - 1) THEN 0 ELSE m.len - Begins(m)[n']
    <3>1. Begins(m)[n + 1] = Begins(m)[n] + Align(a.len)
      BY <2>5, <2>7, BeginsDef
    <3>2. Begins(m)[n] \in Nat /\ Align(a.len) \in Nat
      <4>1. a.len \in Nat
        BY <2>5, <2>7 DEF WellFormed, AttributeWellFormed
      <4>2. n \in 1..(Len(m.attrs) + 1)
        BY <2>3
      <4> QED BY <2>5, <4>1, <4>2, BeginsType, AlignFacts
    <3>3. left = m.len - Begins(m)[n]
      BY <2>3, <2>6
    <3> DEFINE b == Begins(m)[n]
               l == Align(a.len)
    <3>4. left - l = m.len - (b + l)
      <4>1. b \in Nat /\ l \in Nat /\ left = m.len - b
        BY <3>2, <3>3
      <4> HIDE DEF b, l
      <4> QED BY <2>4, <4>1
    <3> HIDE DEF b, l, a
    <3>5. NameFound(m, n' - 1) <=> Found(m, a)
      BY <2>7 DEF NameFound, a
    <3>6. n' = n + 1
      BY <2>1
    <3>7. Begins(m)[n'] = b + l
      BY <3>1, <3>6 DEF b, l
    <3>8. left' = IF Found(m, a) THEN 0 ELSE left - l
      BY <2>1 DEF l
    <3> QED BY <3>4, <3>5, <3>7, <3>8
  <2>9. \A i \in 1..(n' - 2) : ~Found(m, m.attrs[i])
    <3>1. ASSUME NEW i \in 1..(n - 1) PROVE ~Found(m, m.attrs[i])
      <4>1. i = n - 1 \/ i \in 1..(n - 2)
        BY <2>7
      <4>2. i = n - 1 => n - 1 > 0
        BY <2>7
      <4> QED BY <2>3, <2>6, <4>1, <4>2 DEF NameFound
    <3>2. n' - 2 = n - 1
      BY <2>1, <2>7
    <3> QED BY <3>1, <3>2
  <2>10. event' = [t \in Attributes(m.family) |-> IF a.type = t THEN Read(m, a).value ELSE event[t]]
    <3> HIDE DEF a
    <3>1. CASE a.type \in Attributes(m.family)
      <4>1. event' = [event EXCEPT ![a.type] = Read(m, a).value]
        BY <2>1, <3>1
      <4> QED BY <2>3, <3>1, <4>1
    <3>2. CASE a.type \notin Attributes(m.family)
      <4>1. event' = event /\ \A t \in Attributes(m.family) : a.type # t
        BY <2>1, <3>2
      <4> QED BY <2>3, <4>1
    <3> QED BY <3>1, <3>2
  <2>11. event' = [t \in Attributes(m.family) |-> event'[t]]
    BY <2>10
  <2>12. ASSUME NEW t \in Attributes(m.family) PROVE SaidSoFar(m, t, n' - 1, event'[t])
    <3>1. SaidSoFar(m, t, n - 1, event[t]) /\ n - 1 \in Nat /\ (n - 1) + 1 = n
      BY <2>3, <2>7
    <3>2. event'[t] = IF m.attrs[(n - 1) + 1].type = t THEN Read(m, m.attrs[(n - 1) + 1]).value ELSE event[t]
      BY <2>10, <3>1
    <3>3. SaidSoFar(m, t, (n - 1) + 1, event'[t])
      BY <2>5, <2>6, <3>1, <3>2, SaidNext
    <3> QED BY <2>7, <3>1, <3>3
  <2> QED BY <2>1, <2>2, <2>3, <2>7, <2>8, <2>9, <2>11, <2>12, EventKept
<1>9. EndEvent => phase' # "attrs"
  BY DEF EndEvent
<1>10. ReadMore => phase' # "attrs"
  BY DEF ReadMore
<1>11. CASE UNCHANGED vars
  <2>1. UNCHANGED <<reader, phase, dgram, off, n, left, event>>
    BY <1>11 DEF vars
  <2> QED BY <2>1 DEF EventInv, MessageAt, Wanted
<1>12. phase' # "attrs" => EventInv'
  BY DEF EventInv
<1> QED
  BY <1>1, <1>2, <1>3, <1>4, <1>5, <1>6, <1>7, <1>8, <1>9, <1>10, <1>11, <1>12 DEF Next, Parse

-----------------------------------------------------------------------------
(* Types, and reads inside their attributes. *)

\* The members of an event under way have their types.
LEMMA EventTyped ==
    ASSUME IInv, EventInv, phase = "attrs"
    PROVE  \A t \in DOMAIN event : IF t \in Numbers THEN event[t] \in Nat ELSE Len(event[t]) <= 3
<1> DEFINE m == MessageAt(off)
<1>1. m \in KernelMessages
  BY CurrentMessage DEF IInv, WalkInv
<1>2. /\ Wanted(m) /\ HasPayload(m, Info(m.family)) /\ n \in 1..(Len(m.attrs) + 1)
      /\ event = [t \in Attributes(m.family) |-> event[t]]
      /\ \A t \in Attributes(m.family) : SaidSoFar(m, t, n - 1, event[t])
  BY DEF EventInv
<1> HIDE DEF m
<1>3. WellFormed(m) /\ m.family \in DOMAIN EventOf /\ Len(m.attrs) \in Nat
  BY <1>1, <1>2, WantedFormed
<1>4. n - 1 \in 0..Len(m.attrs)
  BY <1>2, <1>3
<1>5. DOMAIN event = Attributes(m.family)
  BY <1>2
<1>6. \A t \in Attributes(m.family) : Typed(t, event[t])
  BY <1>2, <1>3, <1>4, SaidTyped
<1> QED BY <1>5, <1>6 DEF Typed

\* Stepping to the next message keeps the types of the counters.
LEMMA NextTyped ==
    ASSUME IInv, Starts(off), off \in Nat, remaining \in Nat, NlmsgNext(MessageAt(off))
    PROVE  off' \in Nat /\ remaining' \in 0..(Word - 1)
<1> DEFINE l == MessageAt(off).len
           a == Align(l)
<1>1. l \in Nat
  BY CurrentMessage
<1>2. a \in Nat
  BY <1>1, AlignFacts
<1>3. off' = off + a /\ remaining' = (remaining - a) % Word
  BY DEF NlmsgNext
<1> HIDE DEF a
<1>4. Word \in Nat /\ Word > 0
  BY BufferAssumption
<1>5. remaining - a \in Int
  BY <1>2
<1>6. (remaining - a) % Word \in 0..(Word - 1)
  BY <1>4, <1>5
<1> QED BY <1>2, <1>3, <1>6

\* What TypeOK says besides the event.
TypeInv ==
    /\ reader \in Readers
    /\ phase \in {"call", "send", "kernel", "walk", "attrs", "returned"}
    /\ got \in 0..Buffer /\ remaining \in 0..(Word - 1)
    /\ off \in Nat /\ left \in Int /\ n \in Nat
    /\ phase # "attrs" => event = NoEvent

\* Every step keeps the types.
LEMMA TypeStep ==
    ASSUME TypeInv, IInv, EventInv, EventInv', IInv', [Next]_vars
    PROVE  TypeInv'
<1> USE DEF requestVars, dgramVars, attrVars
<1>1. ASSUME NEW index \in Indexes, NEW address \in Addresses, Prepare(index, address)
      PROVE  TypeInv'
  BY <1>1 DEF Prepare, TypeInv
<1>2. CASE SendRequest
  BY <1>2 DEF SendRequest, TypeInv
<1>3. ASSUME NEW m \in KernelMessages, PutMessage(m) PROVE TypeInv'
  BY <1>3 DEF PutMessage, TypeInv
<1>4. CASE Receive
  <2>1. size \in Nat /\ Buffer \in Nat /\ Word \in Nat /\ Word > Buffer
    BY BufferAssumption DEF IInv, DgramInv
  <2>2. got' = (IF size < Buffer THEN size ELSE Buffer) /\ remaining' = got' /\ off' = 0
        /\ phase = "kernel" /\ phase' = "walk" /\ UNCHANGED <<reader, n, left, event>>
    BY <1>4 DEF Receive
  <2>3. got' \in 0..Buffer /\ remaining' \in 0..(Word - 1)
    BY <2>1, <2>2
  <2> QED BY <2>2, <2>3 DEF TypeInv
<1>5. CASE PassOver
  <2>1. /\ Starts(off) /\ NlmsgNext(MessageAt(off)) /\ phase = "walk"
        /\ UNCHANGED <<reader, phase, got, n, left, event>>
    BY <1>5 DEF PassOver, NlmsgOk
  <2>2. off \in Nat /\ remaining \in Nat
    BY BufferAssumption DEF TypeInv
  <2>3. off' \in Nat /\ remaining' \in 0..(Word - 1)
    BY <2>1, <2>2, NextTyped
  <2> QED BY <2>1, <2>3 DEF TypeInv
<1>6. CASE ReturnResult
  BY <1>6 DEF ReturnResult, TypeInv
<1>7. CASE BeginEvent
  <2>1. /\ Starts(off) /\ Wanted(MessageAt(off)) /\ HasPayload(MessageAt(off), Info(MessageAt(off).family))
        /\ left' = MessageAt(off).len - Fixed(MessageAt(off).family) /\ n' = 1
        /\ phase' = "attrs" /\ UNCHANGED <<reader, got, off, remaining>>
    BY <1>7 DEF BeginEvent, NlmsgOk
  <2>2. MessageAt(off) \in KernelMessages /\ MessageAt(off).len \in Nat
    BY <2>1, CurrentMessage
  <2>3. Fixed(MessageAt(off).family) \in Nat
    BY <2>1, <2>2, WantedFormed, FixedFacts
  <2>4. left' \in Int
    BY <2>1, <2>2, <2>3
  <2> QED BY <2>1, <2>4 DEF TypeInv
<1>8. CASE ReadAttribute
  <2> DEFINE a == MessageAt(off).attrs[n]
  <2>1. /\ phase = "attrs" /\ phase' = phase /\ UNCHANGED <<reader, got, off, remaining>>
        /\ n' = n + 1 /\ RtaOk(MessageAt(off))
        /\ left' = IF Found(MessageAt(off), a) THEN 0 ELSE left - Align(a.len)
    BY <1>8 DEF ReadAttribute
  <2>2. Starts(off) /\ Wanted(MessageAt(off)) /\ HasPayload(MessageAt(off), Info(MessageAt(off).family))
        /\ n \in 1..(Len(MessageAt(off).attrs) + 1)
    BY <2>1 DEF IInv, WalkInv, EventInv
  <2>3. MessageAt(off) \in KernelMessages
    BY <2>2, CurrentMessage
  <2>4. WellFormed(MessageAt(off)) /\ Len(MessageAt(off).attrs) \in Nat
    BY <2>2, <2>3, WantedFormed
  <2>5. n \in 1..Len(MessageAt(off).attrs)
    BY <2>1, <2>2, <2>4 DEF RtaOk
  <2>6. a.len \in Nat
    BY <2>4, <2>5 DEF WellFormed, AttributeWellFormed
  <2>7. Align(a.len) \in Nat
    BY <2>6, AlignFacts
  <2>8. left' \in Int
    <3> HIDE DEF a
    <3> QED BY <2>1, <2>7 DEF TypeInv
  <2>9. n' \in Nat
    BY <2>1 DEF TypeInv
  <2> QED BY <2>1, <2>8, <2>9 DEF TypeInv
<1>9. CASE EndEvent
  <2>1. /\ phase = "attrs" /\ event' = NoEvent /\ n' = 1 /\ left' = 0 /\ UNCHANGED <<reader, got>>
        /\ \/ phase' = "returned" /\ UNCHANGED <<off, remaining>>
           \/ phase' = "walk" /\ NlmsgNext(MessageAt(off))
    BY <1>9 DEF EndEvent
  <2>2. off \in Nat /\ remaining \in Nat /\ Starts(off)
    BY <2>1, BufferAssumption DEF TypeInv, IInv, WalkInv
  <2>3. off' \in Nat /\ remaining' \in 0..(Word - 1)
    BY <2>1, <2>2, NextTyped DEF TypeInv
  <2> QED BY <2>1, <2>3 DEF TypeInv
<1>10. CASE ReadMore
  <2>1. /\ phase = "walk" /\ phase' = "kernel" /\ got' = 0 /\ off' = 0 /\ remaining' = 0
        /\ UNCHANGED <<reader, n, left, event>>
    BY <1>10 DEF ReadMore
  <2> QED BY <2>1, BufferAssumption DEF TypeInv
<1>11. CASE UNCHANGED vars
  BY <1>11 DEF vars, TypeInv
<1> QED
  BY <1>1, <1>2, <1>3, <1>4, <1>5, <1>6, <1>7, <1>8, <1>9, <1>10, <1>11 DEF Next, Parse

\* TypeOK is TypeInv and the types of the event.
LEMMA TypeParts == ASSUME TypeInv, IInv, EventInv PROVE TypeOK
BY EventTyped DEF TypeInv, TypeOK

\* No loop or reader looks beyond what the invariant says is there.
LEMMA InsideParts == ASSUME IInv, EventInv PROVE ReadsInside
<1> DEFINE m == MessageAt(off)
<1>1. ASSUME phase = "attrs"
      PROVE  /\ off + m.len <= got
             /\ left >= rtattr => n <= Len(m.attrs)
             /\ RtaOk(m) /\ m.attrs[n].type \in Attributes(m.family) =>
                   Read(m, m.attrs[n]).touched <= Payload(m.attrs[n])
  <2>1. /\ Starts(off) /\ m.len <= remaining /\ off + remaining = got
        /\ off \in Nat /\ remaining \in Nat
    BY <1>1 DEF IInv, WalkInv
  <2>2. m \in KernelMessages /\ m.len \in Nat
    BY <2>1, CurrentMessage
  <2>3. /\ Wanted(m) /\ HasPayload(m, Info(m.family))
        /\ n \in 1..(Len(m.attrs) + 1)
        /\ left = IF NameFound(m, n - 1) THEN 0 ELSE m.len - Begins(m)[n]
    BY <1>1 DEF EventInv
  <2> HIDE DEF m
  <2>4. WellFormed(m) /\ m.family \in DOMAIN EventOf /\ Len(m.attrs) \in Nat
    BY <2>2, <2>3, WantedFormed
  <2>5. /\ RtaOk(m) => n <= Len(m.attrs)
        /\ left >= rtattr => n <= Len(m.attrs)
    BY <2>2, <2>3, <2>4, RtaOkFacts
  <2>6. off + m.len <= got
    BY <2>1, <2>2
  <2>7. ASSUME RtaOk(m), m.attrs[n].type \in Attributes(m.family)
        PROVE  Read(m, m.attrs[n]).touched <= Payload(m.attrs[n])
    <3>1. n \in 1..Len(m.attrs)
      BY <2>3, <2>4, <2>5, <2>7
    <3>2. AttributeWellFormed(m, m.attrs[n])
      BY <2>4, <3>1 DEF WellFormed
    <3> QED BY <2>4, <2>7, <3>2, ReadFacts
  <2> QED BY <2>5, <2>6, <2>7
<1>2. ASSUME NlmsgOk, Final(m), m.type = "ERROR" PROVE HasPayload(m, 4)
  <2>1. m \in KernelMessages
    BY <1>2, CurrentMessage DEF NlmsgOk
  <2> QED BY <1>2, <2>1, MessagesAssumption DEF HasPayload
<1> QED BY <1>1, <1>2 DEF ReadsInside

\* The place in the message before the first datagram.
LEMMA ParseInit == Init => TypeInv /\ EventInv
BY BufferAssumption DEF Init, TypeInv, EventInv

\* For every reader, buffer and kernel that keeps to the format, the counters of the
\* walk fit their C++ types and an event has numbers where its structure has them
\* (the four from_nlmsghdr, attribute_uint32 of nl_common.hxx:143-151).
THEOREM TypeTheorem == Spec => []TypeOK
<1> DEFINE J == IInv /\ TypeInv /\ EventInv
<1>1. Init => J
  BY IInvInit, ParseInit
<1>2. J /\ [Next]_vars => J'
  BY IInvStep, EventStep, TypeStep
<1>3. J => TypeOK
  BY TypeParts
<1> QED
  <2> HIDE DEF J
  <2> QED BY <1>1, <1>2, <1>3, PTL DEF Spec

\* For every reader, buffer and kernel that keeps to the format, the loops over the
\* attributes (nl_common.hxx:55-88, 202-219) and the readers of their values stay
\* inside the received message and attribute, however the datagram was cut.
THEOREM ReadsInsideTheorem == Spec => []ReadsInside
<1> DEFINE J == IInv /\ EventInv
<1>1. Init => J
  BY IInvInit, ParseInit
<1>2. J /\ [Next]_vars => J'
  BY IInvStep, EventStep
<1>3. J => ReadsInside
  BY InsideParts
<1> QED
  <2> HIDE DEF J
  <2> QED BY <1>1, <1>2, <1>3, PTL DEF Spec

-----------------------------------------------------------------------------
(* What a complete event says. *)

\* The largest and the smallest element, once one has them.
LEMMA MaxIs ==
    ASSUME NEW T \in SUBSET Int, NEW i \in T, \A j \in T : j <= i
    PROVE  Max(T) = i
<1>1. \A x \in T : (\A y \in T : x >= y) => x = i
  OBVIOUS
<1>2. \A y \in T : i >= y
  OBVIOUS
<1>3. Max(T) = CHOOSE x \in T : \A y \in T : x >= y
  BY DEF Max
<1> QED BY <1>1, <1>2, <1>3

LEMMA MinIs ==
    ASSUME NEW T \in SUBSET Int, NEW i \in T, \A j \in T : i <= j
    PROVE  Min(T) = i
<1>1. \A x \in T : (\A y \in T : x <= y) => x = i
  OBVIOUS
<1>2. Min(T) = CHOOSE x \in T : \A y \in T : x <= y
  BY DEF Min
<1> QED BY <1>1, <1>2

\* When the loop over the attributes has ended, what was said is what the message says.
LEMMA SaidAll ==
    ASSUME NEW m, WellFormed(m), m.family \in DOMAIN EventOf,
           NEW k \in 0..Len(m.attrs), k = Len(m.attrs) \/ NameFound(m, k),
           \A i \in 1..(k - 1) : ~Found(m, m.attrs[i]),
           NEW t \in Attributes(m.family), NEW v, SaidSoFar(m, t, k, v)
    PROVE  v = Says(m, t)
<1> DEFINE l == Len(m.attrs)
           at == {i \in 1..l : m.attrs[i].type = t}
           names == {i \in at : Payload(m.attrs[i]) > 0}
<1>1. l \in Nat
  BY DEF WellFormed
<1>2. \A i \in 1..l : Payload(m.attrs[i]) \in Nat
  BY DEF WellFormed, AttributeWellFormed, Payload, rtattr
<1>3. CASE t = "IFLA_IFNAME"
  <2>1. Says(m, t) = IF names = {} THEN <<>> ELSE Read(m, m.attrs[Min(names)]).value
    BY <1>3 DEF Says
  <2>2. m.family = "link"
    BY <1>3, AttributeFacts
  <2>3. \A i \in 1..l : i \in names <=> Found(m, m.attrs[i])
    BY <1>2, <1>3, <2>2 DEF Found
  <2>4. names \in SUBSET Int /\ names \subseteq 1..l
    BY <1>1
  <2> HIDE DEF names
  <2>5. CASE NameFound(m, k)
    <3>1. k \in 1..l /\ Found(m, m.attrs[k])
      BY <1>1, <2>5 DEF NameFound
    <3>2. k \in names
      BY <2>3, <3>1
    <3>3. ASSUME NEW j \in names PROVE k <= j
      <4>1. j \in 1..l /\ Found(m, m.attrs[j])
        BY <2>3, <2>4
      <4>2. k <= j \/ j \in 1..(k - 1)
        BY <1>1, <4>1
      <4> QED BY <4>1, <4>2
    <3>4. Min(names) = k
      BY <2>4, <3>2, <3>3, MinIs
    <3> QED BY <1>3, <2>1, <2>5, <3>2, <3>4 DEF SaidSoFar
  <2>6. CASE ~NameFound(m, k)
    <3>1. k = l
      BY <2>6
    <3>2. ASSUME NEW j \in names PROVE FALSE
      <4>1. j \in 1..l /\ Found(m, m.attrs[j])
        BY <2>3, <2>4
      <4>2. j = k \/ j \in 1..(k - 1)
        BY <1>1, <3>1, <4>1
      <4> QED BY <2>6, <4>1, <4>2 DEF NameFound
    <3> QED BY <1>3, <2>1, <2>6, <3>2 DEF SaidSoFar
  <2> QED BY <2>5, <2>6
<1>4. CASE t # "IFLA_IFNAME"
  <2>1. m.family # "link"
    BY <1>4, AttributeFacts
  <2>2. k = l
    BY <2>1 DEF NameFound, Found
  <2>3. Says(m, t) = IF at = {} THEN Fresh(m)[t] ELSE Read(m, m.attrs[Max(at)]).value
    BY <1>4 DEF Says
  <2>4. at \in SUBSET Int
    BY <1>1
  <2>5. CASE v = Fresh(m)[t] /\ \A i \in 1..k : m.attrs[i].type # t
    BY <2>2, <2>3, <2>5
  <2>6. ASSUME NEW i \in 1..k, m.attrs[i].type = t, v = Read(m, m.attrs[i]).value,
               \A j \in 1..k : m.attrs[j].type = t => j <= i
        PROVE  v = Says(m, t)
    <3>1. i \in at /\ \A j \in at : j <= i
      BY <2>2, <2>6
    <3> HIDE DEF at
    <3>2. Max(at) = i
      BY <2>4, <3>1, MaxIs
    <3> QED BY <2>3, <2>6, <3>1, <3>2
  <2> QED BY <1>4, <2>5, <2>6 DEF SaidSoFar
<1> QED BY <1>3, <1>4

\* What from_nlmsghdr makes of the attributes tells what the message says.
LEMMA EventTells ==
    ASSUME NEW m, m.family \in DOMAIN EventOf, NEW v,
           v = [t \in Attributes(m.family) |-> Says(m, t)]
    PROVE  Tells(Event(m, v), m)
<1> DEFINE e == Event(m, v)
<1> SUFFICES Tells(e, m)
  OBVIOUS
<1>1. /\ e.type = m.type /\ e.family = m.family /\ e.info = m.info
      /\ e.values = Derived(m.family, v)
  BY DEF Event
<1> HIDE DEF e
<1>2. m.family \in {"link", "address", "route", "neighbor"}
  BY FixedFacts
<1>3. CASE m.family = "address"
  <2>1. /\ v["IFA_LABEL"] = Says(m, "IFA_LABEL") /\ v["IFA_LOCAL"] = Says(m, "IFA_LOCAL")
        /\ v["IFA_ADDRESS"] = Says(m, "IFA_ADDRESS")
    <3>1. {"IFA_LABEL", "IFA_LOCAL", "IFA_ADDRESS"} \subseteq Attributes(m.family)
      BY <1>3 DEF Attributes, EventOf, AddressEvent
    <3> QED BY <3>1
  <2>2. /\ e.values.address = IF v["IFA_LOCAL"] # <<>> THEN v["IFA_LOCAL"] ELSE v["IFA_ADDRESS"]
        /\ e.values.label = v["IFA_LABEL"]
    BY <1>1, <1>3 DEF Derived
  <2> QED BY <1>1, <1>3, <2>1, <2>2 DEF Tells
<1>4. CASE m.family = "route"
  <2>1. v["RTA_OIF"] = Says(m, "RTA_OIF")
    <3>1. "RTA_OIF" \in Attributes(m.family)
      BY <1>4 DEF Attributes, EventOf, RouteEvent
    <3> QED BY <3>1
  <2>2. /\ e.values.attributes = v
        /\ e.values.oif = IF v["RTA_OIF"] = 0 THEN <<>> ELSE <<"number", v["RTA_OIF"]>>
    BY <1>1, <1>4 DEF Derived
  <2>3. e.values.oif = <<>> <=> Says(m, "RTA_OIF") = 0
    <3>1. Len(<<"number", v["RTA_OIF"]>>) = 2 /\ Len(<<>>) = 0
      OBVIOUS
    <3>2. <<"number", v["RTA_OIF"]>> # <<>>
      BY <3>1
    <3> QED BY <2>1, <2>2, <3>2
  <2>4. e.values.attributes = [t \in Attributes("route") |-> Says(m, t)]
    BY <1>4, <2>2
  <2> QED BY <1>1, <1>4, <2>3, <2>4 DEF Tells
<1>5. CASE m.family \in {"link", "neighbor"}
  <2>1. e.values = v
    BY <1>1, <1>5 DEF Derived
  <2> QED BY <1>1, <1>5, <2>1 DEF Tells
<1> QED BY <1>2, <1>3, <1>4, <1>5

\* The event that is completed tells what its message says.
LEMMA EventComplete ==
    ASSUME IInv, EventInv, phase = "attrs", NEW m, m = MessageAt(off), ~RtaOk(m)
    PROVE  /\ m.family \in DOMAIN EventOf
           /\ Wanted(m) /\ HasPayload(m, Info(m.family))
           /\ event = [t \in Attributes(m.family) |-> Says(m, t)]
<1>1. m \in KernelMessages /\ m.len \in Nat
  BY CurrentMessage DEF IInv, WalkInv
<1>2. /\ Wanted(m) /\ HasPayload(m, Info(m.family)) /\ n \in 1..(Len(m.attrs) + 1)
      /\ left = IF NameFound(m, n - 1) THEN 0 ELSE m.len - Begins(m)[n]
      /\ \A i \in 1..(n - 2) : ~Found(m, m.attrs[i])
      /\ event = [t \in Attributes(m.family) |-> event[t]]
      /\ \A t \in Attributes(m.family) : SaidSoFar(m, t, n - 1, event[t])
  BY DEF EventInv
<1>3. WellFormed(m) /\ m.family \in DOMAIN EventOf /\ Len(m.attrs) \in Nat
  BY <1>1, <1>2, WantedFormed
<1>4. n - 1 \in 0..Len(m.attrs) /\ (n - 1) - 1 = n - 2
  BY <1>2, <1>3
<1>5. n - 1 = Len(m.attrs) \/ NameFound(m, n - 1)
  <2>1. ~(n <= Len(m.attrs)) \/ NameFound(m, n - 1)
    BY <1>1, <1>2, <1>3, RtaOkFacts
  <2> QED BY <1>2, <1>3, <2>1
<1>6. ASSUME NEW t \in Attributes(m.family) PROVE event[t] = Says(m, t)
  <2>1. \A i \in 1..((n - 1) - 1) : ~Found(m, m.attrs[i])
    BY <1>2, <1>4
  <2> QED BY <1>2, <1>3, <1>4, <1>5, <2>1, SaidAll
<1> QED BY <1>2, <1>3, <1>6

-----------------------------------------------------------------------------
(* The messages of a datagram and how many of them become events. *)

\* The offset behind message i and its padding.
End(i) == dgram[i].off + Align(dgram[i].msg.len)

\* A message of the datagram takes room.
LEMMA RoomFacts ==
    ASSUME DgramInv, NEW i \in 1..Len(dgram)
    PROVE  /\ dgram[i].off \in Nat /\ dgram[i].msg \in KernelMessages
           /\ dgram[i].msg.len \in Nat /\ dgram[i].msg.len >= 16
           /\ End(i) \in Nat /\ dgram[i].off + dgram[i].msg.len <= End(i)
           /\ dgram[i].off < End(i)
           /\ End(i) = IF i < Len(dgram) THEN dgram[i + 1].off ELSE size
<1>1. dgram[i] \in [off : Nat, msg : KernelMessages]
  <2>1. dgram \in Seq([off : Nat, msg : KernelMessages])
    BY DEF DgramInv
  <2> QED BY <2>1, ElementOf, Zenon
<1> DEFINE o == dgram[i].off
           l == dgram[i].msg.len
           a == Align(l)
<1>2. o \in Nat /\ dgram[i].msg \in KernelMessages
  BY <1>1
<1>3. l \in Nat /\ l >= 16
  BY <1>2, MessagesAssumption DEF nlmsghdr
<1>4. a \in Nat /\ l <= a
  BY <1>3, AlignFacts
<1>5. End(i) = o + a
  BY DEF End
<1>6. End(i) = IF i < Len(dgram) THEN dgram[i + 1].off ELSE size
  BY DEF DgramInv, End
<1>7. o + a \in Nat /\ o + l <= o + a /\ o < o + a
  <2> HIDE DEF o, l, a
  <2> QED BY <1>2, <1>3, <1>4
<1> QED BY <1>2, <1>3, <1>5, <1>6, <1>7

\* A message ends before those after it begin.
LEMMA InOrder ==
    ASSUME DgramInv, NEW i \in 1..Len(dgram), NEW j \in 1..Len(dgram), i < j
    PROVE  End(i) <= dgram[j].off
<1> DEFINE l == Len(dgram)
           S == {k \in Nat : i + k + 1 <= l => End(i) <= dgram[i + k + 1].off}
<1>1. l \in Nat /\ End(i) \in Nat
  BY RoomFacts DEF DgramInv
<1>2. 0 \in S
  <2>1. i < l => End(i) = dgram[i + 1].off
    BY RoomFacts
  <2>2. i + 0 + 1 = i + 1
    OBVIOUS
  <2>3. i + 1 <= l => i < l
    BY <1>1
  <2> QED BY <1>1, <2>1, <2>2, <2>3
<1>3. ASSUME NEW k \in S PROVE k + 1 \in S
  <2>1. CASE i + (k + 1) + 1 <= l
    <3> DEFINE x == i + k + 1
    <3>1. x \in 1..l /\ x < l /\ i + (k + 1) + 1 = x + 1 /\ x + 1 \in 1..l
      BY <1>1, <2>1
    <3>2. End(i) <= dgram[x].off
      BY <3>1
    <3> HIDE DEF x
    <3>3. End(x) = dgram[x + 1].off /\ dgram[x].off < End(x) /\ dgram[x].off \in Nat /\ End(x) \in Nat
      BY <3>1, RoomFacts
    <3>4. End(i) <= dgram[x + 1].off
      BY <1>1, <3>2, <3>3
    <3> QED BY <3>1, <3>4
  <2>2. CASE ~(i + (k + 1) + 1 <= l)
    BY <2>2
  <2> QED BY <2>1, <2>2
<1>4. S = Nat
  <2> HIDE DEF S
  <2>1. S \in SUBSET Nat
    BY DEF S
  <2> QED BY <1>2, <1>3, <2>1, SetInduction
<1>5. j - i - 1 \in Nat /\ i + (j - i - 1) + 1 = j /\ j <= l
  BY <1>1
<1>6. j - i - 1 \in S
  BY <1>4, <1>5
<1> QED BY <1>5, <1>6

\* Every message ends in the datagram.
LEMMA InDatagram ==
    ASSUME DgramInv, NEW i \in 1..Len(dgram)
    PROVE  End(i) <= size
<1>1. Len(dgram) \in Nat /\ size \in Nat
  BY DEF DgramInv
<1>2. Len(dgram) \in 1..Len(dgram)
  BY <1>1
<1>3. End(Len(dgram)) = size /\ dgram[Len(dgram)].off < End(Len(dgram))
      /\ dgram[Len(dgram)].off \in Nat
  BY <1>2, RoomFacts
<1>4. CASE i = Len(dgram)
  BY <1>1, <1>3, <1>4
<1>5. CASE i < Len(dgram)
  <2>1. End(i) <= dgram[Len(dgram)].off /\ End(i) \in Nat
    BY <1>2, <1>5, InOrder, RoomFacts
  <2> QED BY <1>1, <1>3, <2>1
<1> QED BY <1>1, <1>4, <1>5

\* The message at the header.
LEMMA AtMessage ==
    ASSUME IInv, NEW p, At(p), Starts(off)
    PROVE  /\ p \in 1..Len(dgram) /\ Len(dgram) \in Nat
           /\ off = dgram[p].off /\ MessageAt(off) = dgram[p].msg
<1>1. DgramInv /\ Len(dgram) \in Nat
  BY DEF IInv, DgramInv
<1>2. PICK i \in 1..Len(dgram) : dgram[i].off = off /\ MessageAt(off) = dgram[i].msg
  BY <1>1, MessageAtFacts
<1>3. dgram[i].off < End(i) /\ End(i) <= size /\ size \in Nat /\ End(i) \in Nat /\ dgram[i].off \in Nat
  BY <1>1, RoomFacts, InDatagram DEF DgramInv
<1>4. off # size
  BY <1>2, <1>3
<1>5. p \in 1..Len(dgram) /\ off = dgram[p].off
  BY <1>1, <1>4 DEF At
<1>6. \A x, y \in 1..Len(dgram) : x < y => dgram[x].off # dgram[y].off
  <2>1. ASSUME NEW x \in 1..Len(dgram), NEW y \in 1..Len(dgram), x < y
        PROVE  dgram[x].off # dgram[y].off
    <3>1. End(x) <= dgram[y].off /\ dgram[x].off < End(x)
          /\ dgram[x].off \in Nat /\ dgram[y].off \in Nat /\ End(x) \in Nat
      BY <1>1, <2>1, InOrder, RoomFacts
    <3> QED BY <3>1
  <2> QED BY <2>1
<1>7. i = p
  <2>1. i < p \/ p < i \/ i = p
    BY <1>5
  <2> QED BY <1>2, <1>5, <1>6, <2>1
<1> QED BY <1>1, <1>2, <1>5, <1>7

\* The messages that become events are of the datagram.
LEMMA MeaningfulFacts ==
    ASSUME IInv
    PROVE  /\ Meaningful \subseteq 1..Len(dgram) /\ Meaningful \subseteq Whole
           /\ IsFiniteSet(Meaningful) /\ Len(dgram) \in Nat
<1>1. Len(dgram) \in Nat
  BY DEF IInv, DgramInv
<1>2. Meaningful \subseteq Whole /\ Whole \subseteq 1..Len(dgram)
  BY DEF Meaningful, Heeded, Whole
<1>3. IsFiniteSet(1..Len(dgram))
  BY <1>1, FS_Interval
<1>4. Meaningful \in SUBSET (1..Len(dgram))
  BY <1>2
<1>5. IsFiniteSet(Meaningful)
  BY <1>3, <1>4, FS_Subset
<1> QED BY <1>1, <1>2, <1>5

\* Counting goes up by one at each of them.
LEMMA CountFacts ==
    ASSUME IInv, NEW p \in Nat
    PROVE  /\ Count(p) \in Nat
           /\ Count(0) = 0
           /\ p + 1 \in Meaningful => Count(p + 1) = Count(p) + 1
           /\ p + 1 \notin Meaningful => Count(p + 1) = Count(p)
           /\ \A i \in Meaningful : i <= p => Count(i) \in 1..Count(p)
<1> DEFINE B(q) == {j \in Meaningful : j <= q}
<1>1. IsFiniteSet(Meaningful) /\ Meaningful \subseteq Nat /\ \A j \in Meaningful : j > 0
  BY MeaningfulFacts
<1>2. ASSUME NEW q \in Nat PROVE IsFiniteSet(B(q)) /\ Count(q) = Cardinality(B(q)) /\ Count(q) \in Nat
  <2>1. B(q) \in SUBSET Meaningful
    OBVIOUS
  <2>2. Count(q) = Cardinality(B(q))
    BY DEF Count
  <2> HIDE DEF B
  <2>3. IsFiniteSet(B(q))
    BY <1>1, <2>1, FS_Subset
  <2> QED BY <2>2, <2>3, FS_CardinalityType
<1>3. Count(0) = 0
  <2>1. B(0) = {}
    <3>1. \A j \in Meaningful : ~(j <= 0)
      BY <1>1
    <3> QED BY <3>1
  <2>2. Count(0) = Cardinality(B(0))
    BY <1>2
  <2> QED BY <2>1, <2>2, FS_EmptySet
<1>4. ASSUME NEW q \in Nat
      PROVE  /\ q + 1 \in Meaningful => Count(q + 1) = Count(q) + 1
             /\ q + 1 \notin Meaningful => Count(q + 1) = Count(q)
  <2>1. \A j \in Meaningful : j <= q + 1 <=> j <= q \/ j = q + 1
    BY <1>1
  <2>2. q + 1 \notin Meaningful => B(q + 1) = B(q)
    BY <2>1
  <2>3. q + 1 \in Meaningful => B(q + 1) = B(q) \cup {q + 1}
    BY <2>1
  <2>4. q + 1 \notin B(q)
    BY <1>1
  <2> HIDE DEF B
  <2>5. /\ IsFiniteSet(B(q)) /\ Count(q) = Cardinality(B(q))
        /\ Count(q + 1) = Cardinality(B(q + 1))
    <3>1. q + 1 \in Nat
      OBVIOUS
    <3> QED BY <1>2, <3>1
  <2>6. Cardinality(B(q) \cup {q + 1}) = Cardinality(B(q)) + 1
    BY <2>4, <2>5, FS_AddElement
  <2> QED BY <2>2, <2>3, <2>5, <2>6
<1>5. ASSUME NEW i \in Meaningful, i <= p PROVE Count(i) \in 1..Count(p)
  <2>1. i \in Nat /\ i - 1 \in Nat /\ (i - 1) + 1 = i
    BY <1>1
  <2>2. Count(i) = Count(i - 1) + 1
    BY <1>4, <2>1
  <2>3. B(i) \in SUBSET B(p)
    <3>1. \A j \in Meaningful : j <= i => j <= p
      BY <1>1, <1>5
    <3> QED BY <3>1
  <2> HIDE DEF B
  <2>4. Cardinality(B(i)) <= Cardinality(B(p))
    BY <1>2, <2>3, FS_Subset
  <2>5. Count(i) <= Count(p) /\ Count(p) \in Nat /\ Count(i - 1) \in Nat /\ Count(i) \in Nat
    BY <1>2, <2>1, <2>4
  <2> QED BY <2>2, <2>5
<1> QED BY <1>2, <1>3, <1>4, <1>5

-----------------------------------------------------------------------------
(* From message to message. *)

\* The events made so far are a sequence.
Listed == \E S : parsed \in Seq(S)

\* A message that fits into what remains arrived whole.
LEMMA WholeHere ==
    ASSUME IInv, phase \in {"walk", "attrs"}, NEW p, At(p), Starts(off),
           MessageAt(off).len <= remaining
    PROVE  p \in Whole
<1>1. p \in 1..Len(dgram) /\ off = dgram[p].off /\ MessageAt(off) = dgram[p].msg
  BY AtMessage
<1>2. off \in Nat /\ remaining \in Nat /\ off + remaining = got
  BY DEF IInv, WalkInv
<1>3. dgram[p].msg.len \in Nat
  BY <1>1, RoomFacts DEF IInv
<1> DEFINE l == dgram[p].msg.len
<1>4. off + l <= got
  <2>1. l \in Nat /\ l <= remaining
    BY <1>1, <1>3
  <2> HIDE DEF l
  <2> QED BY <1>2, <2>1
<1> QED BY <1>1, <1>4 DEF Whole

\* The message at the header becomes an event if it is wanted and long enough.
LEMMA MeaningfulHere ==
    ASSUME NEW p \in Whole, Passed(p), p \in Nat
    PROVE  p \in Meaningful <=>
              Wanted(dgram[p].msg) /\ HasPayload(dgram[p].msg, Info(dgram[p].msg.family))
<1>1. \A j \in Whole : j < p => ~Returns(dgram[j].msg)
  <2>1. ASSUME NEW j \in Whole, j < p PROVE ~Returns(dgram[j].msg)
    <3>1. j \in 1..(p - 1)
      BY <2>1 DEF Whole
    <3> QED BY <3>1 DEF Passed
  <2> QED BY <2>1
<1>2. p \in Heeded
  BY <1>1 DEF Heeded
<1> QED BY <1>2 DEF Meaningful

\* Nothing behind a message that ends the task becomes an event.
LEMMA NothingAfter ==
    ASSUME IInv, NEW p \in Whole, Returns(dgram[p].msg)
    PROVE  \A j \in Meaningful : j <= p
<1>1. ASSUME NEW j \in Meaningful, ~(j <= p) PROVE FALSE
  <2>1. j \in 1..Len(dgram) /\ p \in 1..Len(dgram) /\ Len(dgram) \in Nat
    BY MeaningfulFacts DEF Whole
  <2>2. p < j
    BY <1>1, <2>1
  <2>3. j \in Heeded
    BY DEF Meaningful
  <2> QED BY <2>2, <2>3 DEF Heeded
<1> QED BY <1>1

\* Nothing from a message on that did not arrive whole becomes an event.
LEMMA NothingCut ==
    ASSUME IInv, phase = "walk", NEW p \in 1..Len(dgram), p \notin Whole
    PROVE  \A j \in Meaningful : j <= p - 1
<1>1. ASSUME NEW j \in Meaningful, ~(j <= p - 1) PROVE FALSE
  <2>1. j \in 1..Len(dgram) /\ j \in Whole /\ j # p
    BY MeaningfulFacts
  <2>2. p < j
    BY <1>1, <2>1
  <2>3. /\ End(p) <= dgram[j].off /\ dgram[p].off + dgram[p].msg.len <= End(p)
        /\ dgram[p].off \in Nat /\ dgram[p].msg.len \in Nat /\ End(p) \in Nat
        /\ dgram[j].off \in Nat /\ dgram[j].msg.len \in Nat
    BY <2>1, <2>2, InOrder, RoomFacts DEF IInv
  <2>4. dgram[j].off + dgram[j].msg.len <= got
    BY <2>1 DEF Whole
  <2>5. got \in Nat
    BY DEF IInv, WalkInv
  <2>6. dgram[p].off + dgram[p].msg.len <= got
    <3> DEFINE a == dgram[p].off + dgram[p].msg.len
               b == dgram[j].off
               c == dgram[j].msg.len
               e == End(p)
    <3>1. a \in Nat /\ b \in Nat /\ c \in Nat /\ e \in Nat /\ a <= e /\ e <= b /\ b + c <= got
      BY <2>3, <2>4
    <3> HIDE DEF a, b, c, e
    <3>2. a <= got
      BY <2>5, <3>1
    <3> QED BY <3>2 DEF a
  <2> QED BY <2>6 DEF Whole
<1> QED BY <1>1

\* Once the events of all that become events are made, everything is parsed.
LEMMA AllMade ==
    ASSUME IInv, NEW p, Made(p), \A j \in Meaningful : j <= p
    PROVE  AllParsed
<1>1. {j \in Meaningful : j <= p} = Meaningful
  OBVIOUS
<1>2. Count(p) = Cardinality(Meaningful)
  BY <1>1 DEF Count
<1>3. Len(parsed) = Cardinality(Meaningful)
  BY <1>2 DEF Made
<1>4. \A i \in Meaningful : Tells(parsed[Count(i)], dgram[i].msg)
  BY DEF Made
<1> QED BY <1>3, <1>4 DEF AllParsed, Count

\* At a message that becomes no event, nothing changes.
LEMMA MadeSkip ==
    ASSUME IInv, NEW p \in Nat \ {0}, p \notin Meaningful, Made(p - 1)
    PROVE  Made(p)
<1>1. p - 1 \in Nat /\ (p - 1) + 1 = p
  OBVIOUS
<1>2. Count(p) = Count(p - 1)
  BY <1>1, CountFacts
<1>3. \A i \in Meaningful : i <= p => i <= p - 1
  BY MeaningfulFacts
<1> QED BY <1>2, <1>3 DEF Made

\* The end of the walk is the end of what becomes events.
LEMMA WalkOver ==
    ASSUME IInv, MadeInv, phase = "walk", ~NlmsgOk
    PROVE  AllParsed
<1>1. PICK p \in 1..(Len(dgram) + 1) : At(p) /\ Passed(p) /\ Made(p - 1)
  BY DEF MadeInv
<1>2. Len(dgram) \in Nat /\ Meaningful \subseteq 1..Len(dgram)
  BY MeaningfulFacts
<1>3. CASE p <= Len(dgram)
  <2>1. p \in 1..Len(dgram) /\ off = dgram[p].off
    BY <1>1, <1>2, <1>3 DEF At
  <2>2. Starts(off)
    BY <2>1 DEF Starts
  <2>3. MessageAt(off) = dgram[p].msg
    BY <1>1, <2>2, AtMessage
  <2> DEFINE l == dgram[p].msg.len
  <2>4. l \in Nat /\ l >= 16
    BY <2>1, RoomFacts DEF IInv
  <2>5. off \in Nat /\ remaining \in Nat /\ off + remaining = got
    BY DEF IInv, WalkInv
  <2>6. remaining < 16 \/ ~(l <= remaining)
    BY <2>2, <2>3, <2>4, <2>5 DEF NlmsgOk, nlmsghdr
  <2>7. ~(off + l <= got)
    <3> HIDE DEF l
    <3> QED BY <2>4, <2>5, <2>6
  <2>8. p \notin Whole
    BY <2>1, <2>7 DEF Whole
  <2> QED BY <1>1, <2>1, <2>8, NothingCut, AllMade
<1>4. CASE ~(p <= Len(dgram))
  <2>1. p - 1 = Len(dgram)
    BY <1>1, <1>2, <1>4
  <2>2. \A j \in Meaningful : j <= p - 1
    BY <1>2, <2>1
  <2> QED BY <1>1, <2>2, AllMade
<1> QED BY <1>3, <1>4

\* While a datagram is taken apart, what becomes events does not change.
LEMMA SameMeaning ==
    ASSUME dgram' = dgram, got' = got, reader' = reader
    PROVE  Meaningful' = Meaningful /\ Whole' = Whole
<1>1. Whole' = Whole
  BY DEF Whole
<1>2. ASSUME NEW m PROVE Returns(m)' = Returns(m) /\ Wanted(m)' = Wanted(m)
  BY DEF Returns, Wanted, Final
<1>3. Heeded' = Heeded
  BY <1>1, <1>2 DEF Heeded
<1> QED BY <1>1, <1>2, <1>3 DEF Meaningful

LEMMA SamePlace ==
    ASSUME dgram' = dgram, got' = got, reader' = reader, NEW p
    PROVE  /\ Passed(p)' = Passed(p) /\ Count(p)' = Count(p)
           /\ size' = size /\ off' = off => At(p)' = At(p)
           /\ parsed' = parsed => Made(p)' = Made(p)
<1>1. Meaningful' = Meaningful /\ Whole' = Whole
  BY SameMeaning
<1>2. ASSUME NEW m PROVE Returns(m)' = Returns(m)
  BY DEF Returns, Wanted, Final
<1>3. Passed(p)' = Passed(p)
  BY <1>1, <1>2 DEF Passed
<1>4. ASSUME NEW q PROVE Count(q)' = Count(q)
  BY <1>1 DEF Count
<1>5. parsed' = parsed => Made(p)' = Made(p)
  BY <1>1, <1>4 DEF Made
<1> QED BY <1>3, <1>4, <1>5 DEF At

\* NLMSG_NEXT leads to the next message.
LEMMA MoveOn ==
    ASSUME IInv, phase \in {"walk", "attrs"}, NEW p, At(p), Passed(p), Starts(off),
           MessageAt(off).len <= remaining, ~Returns(MessageAt(off)),
           NlmsgNext(MessageAt(off)), UNCHANGED dgramVars, reader' = reader, Made(p)'
    PROVE  \E q \in 1..(Len(dgram') + 1) : At(q)' /\ Passed(q)' /\ Made(q - 1)'
<1>1. /\ p \in 1..Len(dgram) /\ Len(dgram) \in Nat
      /\ off = dgram[p].off /\ MessageAt(off) = dgram[p].msg
  BY AtMessage
<1>2. dgram' = dgram /\ got' = got /\ size' = size
  BY DEF dgramVars
<1> DEFINE q == p + 1
<1>3. q \in 1..(Len(dgram) + 1) /\ q - 1 = p
  BY <1>1
<1>4. off' = End(p)
  BY <1>1 DEF NlmsgNext, End
<1>5. End(p) = IF p < Len(dgram) THEN dgram[p + 1].off ELSE size
  BY <1>1, RoomFacts DEF IInv
<1>6. off' = IF q <= Len(dgram) THEN dgram[q].off ELSE size
  BY <1>1, <1>4, <1>5
<1>7. At(q)'
  <2> HIDE DEF q
  <2> QED BY <1>2, <1>3, <1>6 DEF At
<1>8. p \in Whole
  BY WholeHere
<1>9. Passed(q)
  <2>1. ASSUME NEW j \in 1..(q - 1) PROVE j \in Whole /\ ~Returns(dgram[j].msg)
    <3>1. j = p \/ j \in 1..(p - 1)
      BY <1>1, <1>3
    <3> QED BY <1>1, <1>8, <3>1 DEF Passed
  <2> HIDE DEF q
  <2> QED BY <2>1 DEF Passed
<1>10. Passed(q)'
  <2> HIDE DEF q
  <2> QED BY <1>2, <1>9, SamePlace
<1>11. Made(q - 1)'
  <2>1. Made(p)'
    OBVIOUS
  <2> QED BY <1>3, <2>1
<1> HIDE DEF q
<1> QED BY <1>2, <1>3, <1>7, <1>10, <1>11

\* One more event at the end of the events made.
LEMMA AppendFacts ==
    ASSUME NEW S, NEW s \in Seq(S), NEW e
    PROVE  /\ Append(s, e) \in Seq(S \cup {e}) /\ Len(Append(s, e)) = Len(s) + 1
           /\ \A i \in 1..Len(s) : Append(s, e)[i] = s[i]
           /\ Append(s, e)[Len(s) + 1] = e
<1>1. s \in Seq(S \cup {e}) /\ e \in S \cup {e}
  OBVIOUS
<1> QED BY <1>1

\* The completed event is that of the message at the header.
LEMMA MadeOne ==
    ASSUME IInv, Listed, NEW p \in Meaningful, Made(p - 1), Passed(p),
           NEW e, Tells(e, dgram[p].msg), parsed' = Append(parsed, e),
           dgram' = dgram, got' = got, reader' = reader
    PROVE  Made(p)'
<1>1. PICK S : parsed \in Seq(S)
  BY DEF Listed
<1>2. /\ Len(parsed') = Len(parsed) + 1
      /\ \A i \in 1..Len(parsed) : parsed'[i] = parsed[i]
      /\ parsed'[Len(parsed) + 1] = e
  BY <1>1, AppendFacts
<1>3. p - 1 \in Nat /\ (p - 1) + 1 = p
  BY MeaningfulFacts
<1>4. Count(p) = Count(p - 1) + 1 /\ Len(parsed) = Count(p - 1)
  BY <1>3, CountFacts DEF Made
<1>5. ASSUME NEW i \in Meaningful, i <= p PROVE Tells(parsed'[Count(i)], dgram[i].msg)
  <2>1. CASE i = p
    BY <1>2, <1>4, <2>1
  <2>2. CASE i # p
    <3>1. i <= p - 1
      BY <1>5, <2>2, MeaningfulFacts
    <3>2. Count(i) \in 1..Len(parsed)
      BY <1>3, <1>4, <3>1, CountFacts
    <3>3. parsed'[Count(i)] = parsed[Count(i)]
      BY <1>2, <3>2
    <3> QED BY <3>1, <3>3 DEF Made
  <2> QED BY <2>1, <2>2
<1>6. Len(parsed') = Count(p)
  BY <1>2, <1>4
<1>7. Meaningful' = Meaningful /\ \A q : Count(q)' = Count(q)
  BY SameMeaning, SamePlace
<1> QED BY <1>5, <1>6, <1>7 DEF Made

\* Every step keeps the events and the place among the messages.
LEMMA MadeStep ==
    ASSUME IInv, EventInv, MadeInv, Listed, IInv', [Next]_vars
    PROVE  MadeInv' /\ Listed'
<1> USE DEF requestVars, dgramVars, attrVars
<1>1. ASSUME phase' \notin {"walk", "attrs", "returned"}, parsed' \in {parsed, <<>>}
      PROVE  MadeInv' /\ Listed'
  <2>1. <<>> \in Seq({})
    OBVIOUS
  <2> QED BY <1>1, <2>1 DEF MadeInv, Listed
<1>2. ASSUME NEW index \in Indexes, NEW address \in Addresses, Prepare(index, address)
      PROVE  MadeInv' /\ Listed'
  BY <1>1, <1>2 DEF Prepare
<1>3. CASE SendRequest
  BY <1>1, <1>3 DEF SendRequest
<1>4. ASSUME NEW m \in KernelMessages, PutMessage(m) PROVE MadeInv' /\ Listed'
  BY <1>1, <1>4 DEF PutMessage
<1>5. CASE Receive
  <2>1. phase' = "walk" /\ off' = 0 /\ parsed' = <<>> /\ dgram' = dgram /\ dgram # <<>>
    BY <1>5 DEF Receive
  <2>2. Len(dgram) \in Nat /\ 1 <= Len(dgram) /\ dgram[1].off = 0
    BY <2>1 DEF IInv, DgramInv
  <2>3. At(1)'
    BY <2>1, <2>2 DEF At
  <2>4. Passed(1)'
    BY DEF Passed
  <2>5. Count(0)' = 0
    <3>1. Meaningful' \subseteq 1..Len(dgram')
      BY DEF Meaningful, Heeded, Whole
    <3>2. \A j \in 1..Len(dgram') : ~(j <= 0)
      BY <2>1, <2>2
    <3>3. {j \in Meaningful' : j <= 0} = {}
      BY <3>1, <3>2
    <3>4. Cardinality({j \in Meaningful' : j <= 0}) = 0
      BY <3>3, FS_EmptySet
    <3> QED BY <3>4 DEF Count
  <2>6. Made(0)'
    <3>1. Meaningful' \subseteq 1..Len(dgram')
      BY DEF Meaningful, Heeded, Whole
    <3>2. \A j \in Meaningful' : ~(j <= 0)
      BY <2>1, <2>2, <3>1
    <3>3. Len(parsed') = 0
      BY <2>1
    <3> QED BY <2>5, <3>2, <3>3 DEF Made
  <2>7. 1 \in 1..(Len(dgram') + 1) /\ Made(1 - 1)'
    BY <2>1, <2>2, <2>6
  <2>8. <<>> \in Seq({})
    OBVIOUS
  <2> QED BY <2>1, <2>3, <2>4, <2>7, <2>8 DEF MadeInv, Listed
<1>6. CASE PassOver
  <2>1. /\ phase = "walk" /\ phase' = "walk" /\ NlmsgOk /\ ~Final(MessageAt(off))
        /\ Wanted(MessageAt(off)) => ~HasPayload(MessageAt(off), Info(MessageAt(off).family))
        /\ NlmsgNext(MessageAt(off)) /\ UNCHANGED <<reader, dgramVars, parsed>>
    BY <1>6 DEF PassOver
  <2>2. Starts(off) /\ MessageAt(off).len <= remaining
    BY <2>1 DEF NlmsgOk
  <2>3. PICK p \in 1..(Len(dgram) + 1) : At(p) /\ Passed(p) /\ Made(p - 1)
    BY <2>1 DEF MadeInv
  <2>4. p \in Whole /\ p \in Nat \ {0} /\ MessageAt(off) = dgram[p].msg
    BY <2>1, <2>2, <2>3, WholeHere, AtMessage
  <2>5. ~Returns(MessageAt(off))
    BY <2>1 DEF Returns
  <2>6. p \notin Meaningful
    BY <2>1, <2>3, <2>4, MeaningfulHere
  <2>7. Made(p)'
    BY <2>1, <2>3, <2>4, <2>6, MadeSkip, SamePlace
  <2>8. \E q \in 1..(Len(dgram') + 1) : At(q)' /\ Passed(q)' /\ Made(q - 1)'
    BY <2>1, <2>2, <2>3, <2>5, <2>7, MoveOn
  <2> QED BY <2>1, <2>8 DEF MadeInv, Listed
<1>7. CASE ReturnResult
  <2>1. /\ phase = "walk" /\ phase' = "returned" /\ NlmsgOk /\ Final(MessageAt(off))
        /\ UNCHANGED <<reader, dgramVars, parsed>>
    BY <1>7 DEF ReturnResult
  <2>2. Starts(off) /\ MessageAt(off).len <= remaining
    BY <2>1 DEF NlmsgOk
  <2>3. PICK p \in 1..(Len(dgram) + 1) : At(p) /\ Passed(p) /\ Made(p - 1)
    BY <2>1 DEF MadeInv
  <2>4. p \in Whole /\ p \in Nat \ {0} /\ MessageAt(off) = dgram[p].msg
    BY <2>1, <2>2, <2>3, WholeHere, AtMessage
  <2>5. Returns(dgram[p].msg)
    BY <2>1, <2>4 DEF Returns
  <2>6. ~Wanted(dgram[p].msg)
    BY <2>1, <2>4 DEF Wanted, Final
  <2>7. p \notin Meaningful
    BY <2>3, <2>4, <2>6, MeaningfulHere
  <2>8. Made(p) /\ \A j \in Meaningful : j <= p
    BY <2>3, <2>4, <2>5, <2>7, MadeSkip, NothingAfter
  <2>9. Made(p)' /\ \A j \in Meaningful' : j <= p
    BY <2>1, <2>8, SamePlace, SameMeaning
  <2>10. AllParsed'
    <3>1. {j \in Meaningful' : j <= p} = Meaningful'
      BY <2>9
    <3>2. Count(p)' = Cardinality(Meaningful')
      BY <3>1 DEF Count
    <3> QED BY <2>9, <3>2 DEF Made, AllParsed, Count
  <2> QED BY <2>1, <2>10 DEF MadeInv, Listed
<1>8. CASE BeginEvent \/ ReadAttribute
  <2>1. /\ phase \in {"walk", "attrs"} /\ phase' = "attrs"
        /\ UNCHANGED <<reader, dgram, size, got, off, parsed>>
    BY <1>8 DEF BeginEvent, ReadAttribute
  <2>2. PICK p \in 1..(Len(dgram) + 1) : At(p) /\ Passed(p) /\ Made(p - 1)
    BY <2>1 DEF MadeInv
  <2>3. At(p)' /\ Passed(p)' /\ Made(p - 1)' /\ p \in 1..(Len(dgram') + 1)
    BY <2>1, <2>2, SamePlace
  <2> QED BY <2>1, <2>3 DEF MadeInv, Listed
<1>9. CASE EndEvent
  <2> DEFINE m == MessageAt(off)
             e == Event(m, event)
  <2>1. /\ phase = "attrs" /\ ~RtaOk(m) /\ parsed' = Append(parsed, e)
        /\ UNCHANGED <<reader, dgram, size, got>>
        /\ IF reader = "get_neighbor" /\ event["NDA_LLADDR"] # <<>>
           THEN phase' = "returned" ELSE phase' = "walk" /\ NlmsgNext(m)
    BY <1>9 DEF EndEvent
  <2>2. Starts(off) /\ m.len <= remaining
    BY <2>1 DEF IInv, WalkInv
  <2>3. PICK p \in 1..(Len(dgram) + 1) : At(p) /\ Passed(p) /\ Made(p - 1)
    BY <2>1 DEF MadeInv
  <2>4. p \in Whole /\ p \in Nat /\ m = dgram[p].msg
    BY <2>1, <2>2, <2>3, WholeHere, AtMessage
  <2>5. /\ m.family \in DOMAIN EventOf /\ Wanted(m) /\ HasPayload(m, Info(m.family))
        /\ event = [t \in Attributes(m.family) |-> Says(m, t)]
    BY <2>1, EventComplete
  <2>6. Tells(e, m)
    BY <2>5, EventTells
  <2>7. p \in Meaningful
    BY <2>3, <2>4, <2>5, MeaningfulHere
  <2>8. Made(p)'
    <3> HIDE DEF e
    <3>1. Tells(e, dgram[p].msg)
      BY <2>4, <2>6
    <3> QED BY <2>1, <2>3, <2>7, <3>1, MadeOne
  <2>9. Listed'
    <3>1. PICK S : parsed \in Seq(S)
      BY DEF Listed
    <3> HIDE DEF e
    <3>2. parsed' \in Seq(S \cup {e})
      BY <2>1, <3>1, AppendFacts
    <3> QED BY <3>2 DEF Listed
  <2>10. ~Final(m)
    BY <2>5 DEF Wanted, Final
  <2>11. reader = "get_neighbor" => event["NDA_LLADDR"] = Says(m, "NDA_LLADDR")
    <3>1. ASSUME reader = "get_neighbor" PROVE "NDA_LLADDR" \in Attributes(m.family)
      <4>1. m.family = "neighbor"
        BY <2>5, <3>1 DEF Wanted, Tasks!Task, Tasks!NeighborGetTask
      <4> QED BY <4>1 DEF Attributes, EventOf, NeighborEvent
    <3> QED BY <2>5, <3>1
  <2>12. CASE reader = "get_neighbor" /\ event["NDA_LLADDR"] # <<>>
    <3>1. Returns(dgram[p].msg)
      BY <2>4, <2>5, <2>11, <2>12 DEF Returns
    <3>2. \A j \in Meaningful : j <= p
      BY <2>4, <3>1, NothingAfter
    <3>3. \A j \in Meaningful' : j <= p
      BY <2>1, <3>2, SameMeaning
    <3>4. AllParsed'
      <4>1. {j \in Meaningful' : j <= p} = Meaningful'
        BY <3>3
      <4>2. Count(p)' = Cardinality(Meaningful')
        BY <4>1 DEF Count
      <4>3. \A i \in Meaningful' : Tells(parsed'[Count(i)'], dgram'[i].msg)
        BY <2>8, <3>3 DEF Made
      <4>4. Len(parsed') = Cardinality(Meaningful')
        BY <2>8, <4>2 DEF Made
      <4> QED BY <4>3, <4>4 DEF AllParsed, Count
    <3> QED BY <2>1, <2>9, <2>12, <3>4 DEF MadeInv
  <2>13. CASE ~(reader = "get_neighbor" /\ event["NDA_LLADDR"] # <<>>)
    <3>1. phase' = "walk" /\ NlmsgNext(m)
      BY <2>1, <2>13
    <3>2. ~Returns(m)
      BY <2>10, <2>11, <2>13 DEF Returns
    <3>3. \E q \in 1..(Len(dgram') + 1) : At(q)' /\ Passed(q)' /\ Made(q - 1)'
      BY <2>1, <2>2, <2>3, <2>8, <3>1, <3>2, MoveOn
    <3> QED BY <2>9, <3>1, <3>3 DEF MadeInv
  <2> QED BY <2>12, <2>13
<1>10. CASE ReadMore
  BY <1>1, <1>10 DEF ReadMore
<1>11. CASE UNCHANGED vars
  <2>1. UNCHANGED <<reader, phase, dgram, size, got, off, remaining, parsed>>
    BY <1>11 DEF vars
  <2>2. ASSUME phase' \in {"walk", "attrs"}
        PROVE  \E q \in 1..(Len(dgram') + 1) : At(q)' /\ Passed(q)' /\ Made(q - 1)'
    <3>1. PICK p \in 1..(Len(dgram) + 1) : At(p) /\ Passed(p) /\ Made(p - 1)
      BY <2>1, <2>2 DEF MadeInv
    <3> QED BY <2>1, <3>1, SamePlace
  <2>3. phase' = "returned" => AllParsed'
    <3>1. ASSUME phase = "returned" PROVE AllParsed
      BY <3>1 DEF MadeInv
    <3>2. Meaningful' = Meaningful
      BY <2>1, SameMeaning
    <3> QED BY <2>1, <3>1, <3>2 DEF AllParsed
  <2> QED BY <2>1, <2>2, <2>3 DEF MadeInv, Listed
<1> QED
  BY <1>2, <1>3, <1>4, <1>5, <1>6, <1>7, <1>8, <1>9, <1>10, <1>11 DEF Next, Parse

\* For every reader, buffer and kernel that keeps to the format: when the walk over a
\* datagram ends, exactly the messages that arrived whole, were for the reader and were
\* not behind the one that ended the task have become events, in order and with what
\* they say (nl_listener.cxx:117-148, nl_request_task.hxx:142-153, the four
\* from_nlmsghdr).
THEOREM AllParsedTheorem == Spec => []AllParsed
<1> DEFINE J == IInv /\ EventInv /\ MadeInv /\ Listed
<1>1. Init => J
  <2> SUFFICES ASSUME Init PROVE MadeInv /\ Listed
    BY IInvInit, ParseInit
  <2>1. phase \in {"kernel", "call"} /\ parsed = <<>>
    BY DEF Init
  <2>2. <<>> \in Seq({})
    OBVIOUS
  <2> QED BY <2>1, <2>2 DEF MadeInv, Listed
<1>2. J /\ [Next]_vars => J'
  BY IInvStep, EventStep, MadeStep
<1>3. J => AllParsed
  <2> SUFFICES ASSUME J PROVE AllParsed
    OBVIOUS
  <2>1. phase = "returned" => AllParsed
    BY DEF MadeInv
  <2>2. phase = "walk" /\ ~NlmsgOk => AllParsed
    BY WalkOver
  <2> QED BY <2>1, <2>2 DEF AllParsed
<1> QED
  <2> HIDE DEF J
  <2> QED BY <1>1, <1>2, <1>3, PTL DEF Spec
=============================================================================
