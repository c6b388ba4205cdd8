---------------------------- MODULE DeliveryProofs ----------------------------
(***************************************************************************)
(* Proofs about what the slots of Listener get: for every set of slots,    *)
(* every policy, every kind of message and every bound, events are         *)
(* delivered once and in the order of the kernel.                          *)
(***************************************************************************)
EXTENDS ListenerProofs

LOCAL INSTANCE SequencesExt

-----------------------------------------------------------------------------
(* Types, and the bounds of the walk over the datagram in buffer_. *)

\* A completion tells of no more messages than buffer_ holds; handle_message and
\* the slots it calls are at a message of the datagram.
WalkInv ==
    /\ \A i \in DOMAIN posted : posted[i].len <= Len(buffer)
    /\ handler # "idle" => pos >= 1
    /\ handler \in {"emit", "slot"} => pos <= len
    /\ handler = "slot" => callees # <<>>

TypeInv == TypeOK /\ LoopType /\ WalkInv

-----------------------------------------------------------------------------
(* Order. *)

\* The k-th message of buffer_ is of a datagram whose handler has not run.
OkPosted(k) == \E i \in DOMAIN posted : posted[i].ec = "ok" /\ k \in 1..posted[i].len

\* The k-th message of buffer_ is still to be handled.
Ahead(k) ==
    \/ handler # "idle" /\ k \in pos..len
    \/ running /\ OkPosted(k)

\* s has yet to be served in the current emission.
Due(s) == \E i \in DOMAIN callees : callees[i] = s /\ (handler = "slot" => i # 1)

\* A call of a slot was completed or spawned.
Made(c) ==
    \/ \E i \in DOMAIN delivered : delivered[i] = c
    \/ \E i \in DOMAIN tasks : tasks[i] = c

\* The kernel queues its announcements in order.
QueueInv ==
    /\ \A d \in DOMAIN rcvq : \A i \in DOMAIN rcvq[d] : rcvq[d][i].id <= events
    /\ \A d \in DOMAIN rcvq : \A i, j \in DOMAIN rcvq[d] : i < j => rcvq[d][i].id < rcvq[d][j].id
    /\ \A d, e \in DOMAIN rcvq : d < e =>
          \A i \in DOMAIN rcvq[d], j \in DOMAIN rcvq[e] : rcvq[d][i].id < rcvq[e][j].id

\* What is in hand is in order, and comes before what is queued.
HandInv ==
    \A k \in DOMAIN buffer : Ahead(k) =>
        /\ buffer[k].id <= events
        /\ \A l \in DOMAIN buffer : Ahead(l) /\ k < l => buffer[k].id < buffer[l].id
        /\ \A d \in DOMAIN rcvq : \A i \in DOMAIN rcvq[d] : buffer[k].id < rcvq[d][i].id

\* Call c is earlier than message k, or it is a call for that message, the one
\* being emitted, and its slot is served.
Before(c, k) ==
    \/ c.id < buffer[k].id
    \/ handler \in {"emit", "slot"} /\ k = pos /\ c.id = buffer[k].id /\ ~Due(c.slot)

\* Every call made is for a message that is behind.
CallInv ==
    \A c \in Calls : Made(c) =>
        /\ c.id <= events
        /\ \A d \in DOMAIN rcvq : \A i \in DOMAIN rcvq[d] : c.id < rcvq[d][i].id
        /\ \A k \in DOMAIN buffer : Ahead(k) => Before(c, k)

\* Spawned calls run later than the completed ones and in their order; only Async
\* slots have any.
TaskInv ==
    /\ \A i \in DOMAIN tasks : Policy[tasks[i].slot] = "Async"
    /\ \A i, j \in DOMAIN tasks : i < j /\ tasks[i].slot = tasks[j].slot => tasks[i].id < tasks[j].id
    /\ \A i \in DOMAIN delivered, j \in DOMAIN tasks :
          delivered[i].slot = tasks[j].slot => delivered[i].id < tasks[j].id

\* No slot is connected twice, or served twice in one emission.
NoDuplicates(s) == \A i, j \in DOMAIN s : s[i] = s[j] => i = j
OnceInv == NoDuplicates(callees) /\ \A t \in Topics : NoDuplicates(connected[t])

OrderInv == QueueInv /\ HandInv /\ CallInv /\ TaskInv /\ OnceInv /\ OrderedDelivery

-----------------------------------------------------------------------------
(* Lemmas about sequences. *)

\* What Append does.
LEMMA AppendFacts ==
    ASSUME NEW T, NEW s \in Seq(T), NEW e \in T
    PROVE  /\ Append(s, e) \in Seq(T)
           /\ DOMAIN Append(s, e) = DOMAIN s \cup {Len(s) + 1}
           /\ \A i \in DOMAIN s : Append(s, e)[i] = s[i] /\ i \in Nat /\ i <= Len(s)
           /\ Append(s, e)[Len(s) + 1] = e
           /\ Len(s) \in Nat
OBVIOUS

\* What Tail does.
LEMMA TailFacts ==
    ASSUME NEW T, NEW s \in Seq(T), s # <<>>
    PROVE  /\ Tail(s) \in Seq(T) /\ Head(s) \in T
           /\ 1 \in DOMAIN s /\ Head(s) = s[1]
           /\ \A i \in DOMAIN Tail(s) :
                 i \in Nat /\ i >= 1 /\ i + 1 \in DOMAIN s /\ Tail(s)[i] = s[i + 1]
           /\ \A i \in DOMAIN s : i \in Nat /\ i >= 1
OBVIOUS

\* Messages and calls carry the number of an event.
LEMMA IdType == (\A m \in Messages : m.id \in Nat) /\ (\A c \in Calls : c.id \in Nat /\ c.slot \in Slots)
BY DEF Messages, Calls

\* RemoveAt leaves the other elements, each once.
LEMMA RemoveFacts ==
    ASSUME NEW T, NEW s \in Seq(T), NEW k \in DOMAIN s
    PROVE  /\ RemoveAt(s, k) \in Seq(T)
           /\ NoDuplicates(s) => NoDuplicates(RemoveAt(s, k))
<1> DEFINE a == SubSeq(s, 1, k - 1)
           b == SubSeq(s, k + 1, Len(s))
<1>1. k \in 1..Len(s) /\ Len(s) \in Nat
  OBVIOUS
<1>2. /\ a \in Seq(T) /\ Len(a) = k - 1 /\ \A i \in 1..(k - 1) : a[i] = s[i]
      /\ b \in Seq(T) /\ Len(b) = Len(s) - k /\ \A i \in 1..(Len(s) - k) : b[i] = s[k + i]
  BY <1>1
<1>3. /\ a \o b \in Seq(T)
      /\ DOMAIN (a \o b) = 1..(Len(s) - 1)
      /\ \A i \in 1..(Len(s) - 1) : (a \o b)[i] = IF i < k THEN s[i] ELSE s[i + 1]
  <2> HIDE DEF a, b
  <2>1. ASSUME NEW x \in Seq(T), NEW y \in Seq(T)
        PROVE  /\ x \o y \in Seq(T) /\ Len(x \o y) = Len(x) + Len(y)
               /\ \A i \in 1..(Len(x) + Len(y)) :
                     (x \o y)[i] = IF i <= Len(x) THEN x[i] ELSE y[i - Len(x)]
    OBVIOUS
  <2>2. /\ a \o b \in Seq(T) /\ Len(a \o b) = Len(s) - 1
        /\ \A i \in 1..(Len(s) - 1) : (a \o b)[i] = IF i <= k - 1 THEN a[i] ELSE b[i - (k - 1)]
    <3>1. Len(a) = k - 1 /\ Len(b) = Len(s) - k /\ Len(a) + Len(b) = Len(s) - 1
      BY <1>1, <1>2
    <3>2. /\ a \o b \in Seq(T) /\ Len(a \o b) = Len(a) + Len(b)
          /\ \A i \in 1..(Len(a) + Len(b)) :
                (a \o b)[i] = IF i <= Len(a) THEN a[i] ELSE b[i - Len(a)]
      BY <1>2, <2>1
    <3> QED BY <3>1, <3>2, Zenon
  <2>3. DOMAIN (a \o b) = 1..(Len(s) - 1)
    BY <2>2
  <2>4. ASSUME NEW i \in 1..(Len(s) - 1) PROVE (a \o b)[i] = IF i < k THEN s[i] ELSE s[i + 1]
    <3>1. CASE i < k
      BY <1>1, <1>2, <2>2, <3>1
    <3>2. CASE i >= k
      <4>1. i - (k - 1) \in 1..(Len(s) - k) /\ k + (i - (k - 1)) = i + 1 /\ ~(i <= k - 1)
        BY <1>1, <3>2
      <4>2. b[i - (k - 1)] = s[i + 1]
        BY <1>2, <4>1
      <4>3. (a \o b)[i] = b[i - (k - 1)]
        BY <2>2, <4>1
      <4> QED BY <1>1, <3>2, <4>2, <4>3
    <3>3. i < k \/ i >= k
      BY <1>1
    <3> QED BY <3>1, <3>2, <3>3, Zenon
  <2> QED BY <2>2, <2>3, <2>4
<1>4. RemoveAt(s, k) = a \o b
  BY DEF RemoveAt
<1>5. ASSUME NoDuplicates(s), NEW i \in 1..(Len(s) - 1), NEW j \in 1..(Len(s) - 1),
             (a \o b)[i] = (a \o b)[j]
      PROVE  i = j
  <2> HIDE DEF a, b
  <2> DEFINE p(x) == IF x < k THEN x ELSE x + 1
  <2>1. p(i) \in DOMAIN s /\ p(j) \in DOMAIN s /\ (p(i) = p(j) => i = j)
    BY <1>1
  <2>2. s[p(i)] = s[p(j)]
    BY <1>1, <1>3, <1>5
  <2> QED BY <1>5, <2>1, <2>2 DEF NoDuplicates
<1> HIDE DEF a, b
<1>6. NoDuplicates(s) => NoDuplicates(a \o b)
  BY <1>3, <1>5 DEF NoDuplicates
<1> QED BY <1>3, <1>4, <1>6

\* A receive never makes buffer_ shorter.
LEMMA OverwrittenFacts ==
    ASSUME buffer \in Seq(Messages), NEW d \in Seq(Messages)
    PROVE  /\ Overwritten(d) \in Seq(Messages)
           /\ Len(buffer) <= Len(Overwritten(d)) /\ Len(d) <= Len(Overwritten(d))
           /\ \A k \in 1..Len(d) : Overwritten(d)[k] = d[k]
<1> DEFINE rest == SubSeq(buffer, Len(d) + 1, Len(buffer))
<1>1. Len(d) \in Nat /\ Len(buffer) \in Nat
  OBVIOUS
<1>2. /\ rest \in Seq(Messages)
      /\ Len(rest) = IF Len(d) < Len(buffer) THEN Len(buffer) - Len(d) ELSE 0
  BY <1>1
<1> HIDE DEF rest
<1>3. /\ d \o rest \in Seq(Messages) /\ Len(d \o rest) = Len(d) + Len(rest)
      /\ \A k \in 1..Len(d) : (d \o rest)[k] = d[k]
  BY <1>2
<1>4. Overwritten(d) = d \o rest
  BY DEF Overwritten, rest
<1> QED BY <1>1, <1>2, <1>3, <1>4

\* A datagram the kernel announces is a sequence of messages.
LEMMA AnnouncedType ==
    ASSUME events \in Nat, NEW n \in 1..MaxBatch, NEW hs \in [1..n -> Headers]
    PROVE  [i \in 1..n |-> [id |-> events + i, type |-> hs[i].type, long |-> hs[i].long]]
               \in Seq(Messages)
<1>1. n \in Nat
  BY ListenerAssumption
<1>2. ASSUME NEW i \in 1..n
      PROVE  [id |-> events + i, type |-> hs[i].type, long |-> hs[i].long] \in Messages
  <2>1. hs[i] \in Header
    BY ListenerAssumption
  <2> QED BY <1>1, <2>1 DEF Header, Messages
<1> QED BY <1>1, <1>2

\* The program starts typed.
LEMMA TypeInvInit == Init => TypeInv
<1> SUFFICES ASSUME Init PROVE TypeInv
  OBVIOUS
<1>1. LoopType
  BY LoopTypeInit
<1>2. TypeOK
  <2>1. /\ buffer \in Seq(Messages) /\ len \in 0..Len(buffer) /\ pos \in Nat
        /\ callees \in Seq(Slots) /\ connected \in [Topics -> Seq(Slots)]
        /\ tasks \in Seq(Calls) /\ delivered \in Seq(Calls)
        /\ st \in SocketStates
    BY DEF Init, SocketStates
  <2>2. dangling \in BOOLEAN /\ starts \in Nat /\ faults \in Nat /\ throws \in Nat
    BY DEF Init
  <2> QED BY <1>1, <2>1, <2>2 DEF TypeOK, LoopType
<1>3. WalkInv
  BY DEF Init, WalkInv
<1> QED BY <1>1, <1>2, <1>3 DEF TypeInv

\* The variables that LoopType leaves out.
RestType ==
    /\ st \in SocketStates
    /\ buffer \in Seq(Messages)
    /\ pos \in Nat /\ len \in 0..Len(buffer)
    /\ callees \in Seq(Slots)
    /\ connected \in [Topics -> Seq(Slots)]
    /\ tasks \in Seq(Calls)
    /\ delivered \in Seq(Calls)
    /\ dangling \in BOOLEAN
    /\ starts \in Nat /\ faults \in Nat /\ throws \in Nat

\* Completions are only added with the length of a datagram that buffer_ holds.
LEMMA PostedStep ==
    ASSUME LoopType, RestType, WalkInv, [Next]_vars
    PROVE  \A i \in DOMAIN posted' : posted'[i].len <= Len(buffer')
<1> USE DEF LoopType, RestType, session, reading, slots, life, bounds
<1>0. \A i \in DOMAIN posted : posted[i].len <= Len(buffer)
  BY DEF WalkInv
<1>1. Len(buffer) \in Nat
  OBVIOUS
<1>2. ASSUME NEW c \in Completions, c.len <= Len(buffer), posted' = Append(posted, c), buffer' = buffer
      PROVE  \A i \in DOMAIN posted' : posted'[i].len <= Len(buffer')
  BY <1>0, <1>2, LiveAppend
<1>3. ASSUME posted # <<>>, posted' = Tail(posted), buffer' = buffer
      PROVE  \A i \in DOMAIN posted' : posted'[i].len <= Len(buffer')
  BY <1>0, <1>3, LiveTail
<1>4. [ec |-> "error", len |-> 0] \in Completions /\ [ec |-> "error", len |-> 0].len = 0
  BY DEF Completions
<1>5. CASE UNCHANGED <<posted, buffer>>
  BY <1>0, <1>5
<1>6. ASSUME NEW n \in Nat, buffer' = buffer,
             posted' = posted \o [i \in 1..n |-> [ec |-> "aborted", len |-> 0]]
      PROVE  \A i \in DOMAIN posted' : posted'[i].len <= Len(buffer')
  <2> DEFINE a == [i \in 1..n |-> [ec |-> "aborted", len |-> 0]]
  <2>1. a \in Seq(Completions) /\ Len(a) = n /\ \A i \in 1..n : a[i].len = 0
    BY DEF Completions
  <2> HIDE DEF a
  <2>2. \A i \in DOMAIN (posted \o a) :
           \/ i \in DOMAIN posted /\ (posted \o a)[i] = posted[i]
           \/ i - Len(posted) \in 1..n /\ (posted \o a)[i] = a[i - Len(posted)]
    BY <2>1
  <2>3. posted' = posted \o a
    BY <1>6 DEF a
  <2> QED BY <1>0, <1>1, <1>6, <2>1, <2>2, <2>3
<1>7. CASE Stop \/ Destroy
  BY <1>6, <1>7 DEF Stop, Destroy, StopSocket
<1>8. CASE HandleStale \/ HandleRead \/ HandleDangling
  BY <1>3, <1>8 DEF HandleStale, HandleRead, HandleDangling
<1>9. CASE HandleError
  <2>1. posted # <<>> /\ buffer' = buffer
    BY <1>9 DEF HandleError
  <2>2. CASE posted' = Tail(posted)
    BY <1>3, <2>1, <2>2
  <2>3. CASE posted' = Append(Tail(posted), Head(posted))
    <3>1. /\ Tail(posted) \in Seq(Completions) /\ Head(posted) \in Completions
          /\ Head(posted).len <= Len(buffer)
          /\ \A i \in DOMAIN Tail(posted) : Tail(posted)[i].len <= Len(buffer)
      BY <1>0, <2>1, LiveTail
    <3>2. \A i \in DOMAIN posted' : \/ i \in DOMAIN Tail(posted) /\ posted'[i] = Tail(posted)[i]
                                    \/ posted'[i] = Head(posted)
      BY <2>3, <3>1, LiveAppend
    <3> QED BY <2>1, <3>1, <3>2
  <2> QED BY <1>9, <2>2, <2>3 DEF HandleError
<1>10. CASE EndOfBatch
  BY <1>1, <1>2, <1>4, <1>5, <1>10 DEF EndOfBatch, RequestRead
<1>11. CASE ReceiveFault
  <2>1. posted' = Append(posted, [ec |-> "error", len |-> 0]) /\ buffer' = buffer
    BY <1>11 DEF ReceiveFault
  <2>2. [ec |-> "error", len |-> 0].len <= Len(buffer)
    BY <1>1
  <2> QED BY <1>2, <1>4, <2>1, <2>2
<1>12. CASE Receive
  <2> DEFINE d == Head(rcvq)
  <2>1. /\ d \in Seq(Messages) /\ buffer' = Overwritten(d)
        /\ posted' = Append(posted, [ec |-> "ok", len |-> Len(d)])
    BY <1>12 DEF Receive
  <2> HIDE DEF d
  <2>2. Len(d) \in Nat /\ [ec |-> "ok", len |-> Len(d)] \in Completions
    BY <2>1 DEF Completions
  <2>3. Len(buffer) <= Len(buffer') /\ Len(d) <= Len(buffer') /\ Len(buffer') \in Nat
    BY <2>1, OverwrittenFacts
  <2>4. \A i \in DOMAIN posted' : (i \in DOMAIN posted /\ posted'[i] = posted[i]) \/ posted'[i].len = Len(d)
    BY <2>1, <2>2, LiveAppend
  <2>5. ASSUME NEW c \in Completions PROVE c.len \in Nat
    BY DEF Completions
  <2>6. \A i \in DOMAIN posted : posted[i].len \in Nat /\ posted[i].len <= Len(buffer)
    BY <1>0, <2>5
  <2>7. \A x \in Nat : x <= Len(buffer) => x <= Len(buffer')
    BY <1>1, <2>3
  <2>8. \A i \in DOMAIN posted : posted[i].len <= Len(buffer')
    BY <2>6, <2>7, Zenon
  <2> QED BY <2>3, <2>4, <2>8, Zenon
<1>13. CASE Start
  BY <1>5, <1>13 DEF Start, RequestRead
<1>14. CASE StartFails \/ (\E s \in Slots : Connect(s) \/ Disconnect(s)) \/ HandleMessage
            \/ SkipSlot \/ SpawnSlot \/ CallSlot \/ SlotReturns \/ EndOfEmission
            \/ SlotThrows \/ RunTask \/ Announce \/ UNCHANGED vars
  BY <1>5, <1>14 DEF StartFails, Connect, Disconnect, HandleMessage, SkipSlot, SpawnSlot, CallSlot,
                     SlotReturns, EndOfEmission, SlotThrows, RunTask, Announce, vars
<1> QED
  BY <1>7, <1>8, <1>9, <1>10, <1>11, <1>12, <1>13, <1>14 DEF Next, User, Handle

\* The walk stays inside the datagram.
LEMMA RestStep ==
    ASSUME LoopType, RestType, WalkInv, [Next]_vars
    PROVE  RestType' /\ WalkInv'
<1> DEFINE At == /\ handler # "idle" => pos >= 1
                 /\ handler \in {"emit", "slot"} => pos <= len
                 /\ handler = "slot" => callees # <<>>
<1> SUFFICES RestType' /\ At'
  BY PostedStep DEF WalkInv
<1> USE DEF LoopType, RestType, session, reading, slots, life, bounds
<1>0. At
  BY DEF WalkInv
<1>1. \A r \in EnsureOpen(st) : r.st \in SocketStates
  BY DEF EnsureOpen, Open, SocketStates, IsOpen
<1>2. Len(buffer) \in Nat /\ len \in Nat
  OBVIOUS
<1>3. CASE Start \/ StartFails
  <2>1. st' \in SocketStates
    BY <1>1, <1>3 DEF Start, StartFails
  <2>2. starts' \in Nat /\ faults' \in Nat
    <3>1. starts' \in {starts, starts + 1} /\ faults' \in {faults, faults + 1}
      BY <1>3 DEF Start, StartFails
    <3> QED BY <3>1
  <2>3. UNCHANGED <<reading, slots, delivered, dangling, throws>>
    BY <1>3 DEF Start, StartFails
  <2> QED BY <1>0, <2>1, <2>2, <2>3
<1>4. CASE Stop \/ Destroy
  <2>1. st' \in SocketStates
    BY <1>4 DEF Stop, Destroy, StopSocket, SocketStates
  <2>2. UNCHANGED <<reading, slots, delivered, dangling, bounds>>
    BY <1>4 DEF Stop, Destroy, life
  <2> QED BY <1>0, <2>1, <2>2
<1>5. CASE HandleDangling
  BY <1>0, <1>5 DEF HandleDangling
<1>6. ASSUME NEW s \in Slots, Connect(s) PROVE RestType' /\ At'
  <2>1. Topic[s] \in Topics /\ connected[Topic[s]] \in Seq(Slots)
    BY ListenerAssumption
  <2>2. Append(connected[Topic[s]], s) \in Seq(Slots)
    BY <2>1
  <2>3. connected' \in [Topics -> Seq(Slots)]
    BY <1>6, <2>2 DEF Connect
  <2> QED BY <1>0, <1>6, <2>3 DEF Connect
<1>7. ASSUME NEW s \in Slots, Disconnect(s) PROVE RestType' /\ At'
  <2>1. Topic[s] \in Topics /\ connected[Topic[s]] \in Seq(Slots)
    BY ListenerAssumption
  <2>2. PICK i \in DOMAIN connected[Topic[s]] :
            connected' = [connected EXCEPT ![Topic[s]] = RemoveAt(@, i)]
    BY <1>7 DEF Disconnect
  <2>3. RemoveAt(connected[Topic[s]], i) \in Seq(Slots)
    BY <2>1, RemoveFacts
  <2>4. connected' \in [Topics -> Seq(Slots)]
    BY <2>2, <2>3
  <2> QED BY <1>0, <1>7, <2>4 DEF Disconnect
<1>8. CASE HandleStale \/ HandleError
  BY <1>0, <1>8 DEF HandleStale, HandleError
<1>9. CASE HandleRead
  <2>1. Head(posted).len \in 0..Len(buffer)
    <3>1. 1 \in DOMAIN posted /\ Head(posted) = posted[1] /\ posted[1] \in Completions
      BY <1>9, LiveTail DEF HandleRead
    <3> QED BY <1>2, <3>1 DEF WalkInv, Completions
  <2>2. pos' = 1 /\ len' = Head(posted).len /\ handler' = "message"
    BY <1>9 DEF HandleRead
  <2>3. UNCHANGED <<st, buffer, callees, slots, delivered, dangling, starts, faults, throws>>
    BY <1>9 DEF HandleRead
  <2> QED BY <2>1, <2>2, <2>3
<1>10. CASE HandleMessage
  <2> DEFINE m == buffer[pos]
  <2>1. pos \in DOMAIN buffer /\ m \in Messages
    BY <1>0, <1>2, <1>10 DEF HandleMessage
  <2>2. UNCHANGED <<st, buffer, len, slots, delivered, dangling, starts, faults, throws>>
    BY <1>10 DEF HandleMessage
  <2>3. CASE Dispatched(m)
    <3>1. m.type \in Topics
      BY <2>1, <2>3 DEF Dispatched, Messages
    <3>2. handler' = "emit" /\ callees' = connected[m.type] /\ pos' = pos /\ pos <= len
      BY <1>10, <2>3 DEF HandleMessage
    <3>3. callees' \in Seq(Slots)
      BY <3>1, <3>2
    <3> QED BY <1>0, <1>10, <2>2, <3>2, <3>3 DEF HandleMessage
  <2>4. CASE ~Dispatched(m)
    <3>1. pos' = pos + 1 /\ handler' = handler /\ callees' = callees /\ handler = "message"
      BY <1>10, <2>4 DEF HandleMessage, NextMessage
    <3> QED BY <1>0, <2>2, <3>1
  <2> QED BY <2>3, <2>4
<1>11. CASE EndOfBatch
  BY <1>0, <1>11 DEF EndOfBatch
<1>12. CASE SkipSlot
  BY <1>0, <1>12 DEF SkipSlot
<1>13. CASE SpawnSlot
  <2>1. pos \in DOMAIN buffer /\ buffer[pos] \in Messages /\ Head(callees) \in Slots
    BY <1>0, <1>2, <1>13 DEF SpawnSlot
  <2>2. [slot |-> Head(callees), id |-> buffer[pos].id] \in Calls
    BY <2>1 DEF Messages, Calls
  <2>3. tasks' \in Seq(Calls)
    BY <1>13, <2>2, AppendFacts DEF SpawnSlot
  <2> QED BY <1>0, <1>13, <2>3 DEF SpawnSlot
<1>14. CASE CallSlot
  <2>1. pos \in DOMAIN buffer /\ buffer[pos] \in Messages /\ Head(callees) \in Slots
    BY <1>0, <1>2, <1>14 DEF CallSlot
  <2>2. [slot |-> Head(callees), id |-> buffer[pos].id] \in Calls
    BY <2>1 DEF Messages, Calls
  <2>3. delivered' \in Seq(Calls)
    BY <1>14, <2>2, AppendFacts DEF CallSlot
  <2> QED BY <1>0, <1>14, <2>3 DEF CallSlot
<1>15. CASE SlotReturns
  BY <1>0, <1>15 DEF SlotReturns
<1>16. CASE SlotThrows
  <2>1. callees' \in Seq(Slots) /\ throws' \in Nat /\ handler' = "idle"
    BY <1>16 DEF SlotThrows
  <2> QED BY <1>16, <2>1 DEF SlotThrows
<1>17. CASE EndOfEmission
  BY <1>0, <1>17 DEF EndOfEmission, NextMessage
<1>18. CASE RunTask
  BY <1>0, <1>18, TailFacts, AppendFacts DEF RunTask
<1>19. CASE Announce
  BY <1>0, <1>19 DEF Announce
<1>20. CASE Receive
  <2>1. Head(rcvq) \in Seq(Messages) /\ buffer' = Overwritten(Head(rcvq))
    BY <1>20 DEF Receive
  <2>2. buffer' \in Seq(Messages) /\ Len(buffer) <= Len(buffer') /\ Len(buffer') \in Nat
    BY <2>1, OverwrittenFacts
  <2>3. len' \in 0..Len(buffer')
    BY <1>2, <1>20, <2>2 DEF Receive
  <2> QED BY <1>0, <1>20, <2>2, <2>3 DEF Receive
<1>21. CASE ReceiveFault
  BY <1>0, <1>21 DEF ReceiveFault
<1>22. CASE UNCHANGED vars
  BY <1>0, <1>22 DEF vars
<1> QED
  BY <1>3, <1>4, <1>5, <1>6, <1>7, <1>8, <1>9, <1>10, <1>11, <1>12, <1>13, <1>14, <1>15, <1>16,
     <1>17, <1>18, <1>19, <1>20, <1>21, <1>22 DEF Next, User, Handle

\* The types hold of every behaviour.
LEMMA TypeInvInvariant == Spec => []TypeInv
<1>1. TypeInv <=> LoopType /\ RestType /\ WalkInv
  BY DEF TypeInv, TypeOK, LoopType, RestType
<1>2. TypeInv /\ [Next]_vars => TypeInv'
  BY <1>1, LoopTypeStep, RestStep DEF TypeInv, TypeOK, LoopType, RestType
<1> QED BY TypeInvInit, <1>2, PTL DEF Spec

\* Every variable keeps its type; in particular the walk of process_messages never
\* takes more messages than the receive brought.
THEOREM TypeTheorem == Spec => []TypeOK
<1>1. TypeInv => TypeOK
  BY DEF TypeInv
<1> QED BY <1>1, TypeInvInvariant, PTL

-----------------------------------------------------------------------------
(* The steps of a listener with a patient owner. *)

\* Only a receive brings new messages into the hand.
LEMMA HandShrinks ==
    ASSUME PatientOwner, TypeInv, LoopInv, [Next]_vars, ~Receive
    PROVE  buffer' = buffer /\ \A k \in DOMAIN buffer : Ahead(k)' => Ahead(k)
<1> USE DEF LoopType, session, reading, slots, life, bounds
<1> USE DEF LoopInv
<1>1. \A k : Ahead(k) <=> (handler # "idle" /\ k \in pos..len) \/ (running /\ OkPosted(k))
  BY DEF Ahead
<1>2. \A k : Ahead(k)' <=> (handler' # "idle" /\ k \in pos'..len') \/ (running' /\ OkPosted(k)')
  BY DEF Ahead
<1>3. running /\ handler # "idle" => \A k : ~OkPosted(k)
  BY DEF LoopInv, SingleReadLoop, Live, OkPosted
<1>4. ASSUME posted # <<>>, posted' = Tail(posted) PROVE \A k : OkPosted(k)' => OkPosted(k)
  BY <1>4, LiveTail DEF OkPosted
<1>5. ASSUME NEW c \in Completions, c.ec # "ok", posted' = Append(posted, c)
      PROVE  \A k : OkPosted(k)' => OkPosted(k)
  BY <1>5, LiveAppend DEF OkPosted
<1>6. posted' = posted => \A k : OkPosted(k)' <=> OkPosted(k)
  BY DEF OkPosted
<1>7. [ec |-> "error", len |-> 0] \in Completions /\ [ec |-> "error", len |-> 0].ec # "ok"
  BY DEF Completions
<1>8. CASE Start
  <2>1. posted = <<>> /\ posted' = posted /\ handler = "idle" /\ handler' = handler /\ buffer' = buffer
    BY <1>8 DEF Start, RequestRead, Lingering
  <2>2. \A k : ~OkPosted(k)'
    BY <2>1 DEF OkPosted
  <2> QED BY <1>2, <2>1, <2>2
<1>9. CASE UNCHANGED <<buffer, handler, pos, len, running, posted>>
  BY <1>1, <1>2, <1>6, <1>9
<1>10. CASE Stop \/ Destroy
  <2>1. running' = FALSE /\ UNCHANGED <<buffer, handler, pos, len>>
    BY <1>10 DEF Stop, Destroy
  <2> QED BY <1>1, <1>2, <2>1
<1>11. CASE HandleStale \/ HandleDangling
  <2>1. UNCHANGED <<buffer, handler, pos, len, running>> /\ posted # <<>> /\ posted' = Tail(posted)
    BY <1>11 DEF HandleStale, HandleDangling
  <2> QED BY <1>1, <1>2, <1>4, <2>1
<1>12. CASE HandleError
  <2>1. UNCHANGED <<buffer, handler, pos, len, running>> /\ posted # <<>> /\ Head(posted).ec = "error"
    BY <1>12 DEF HandleError
  <2>2. CASE posted' = Tail(posted)
    BY <1>1, <1>2, <1>4, <2>1, <2>2
  <2>3. CASE posted' = Append(Tail(posted), Head(posted))
    <3>1. Tail(posted) \in Seq(Completions) /\ Head(posted) \in Completions
      BY <2>1, LiveTail
    <3>2. \A i \in DOMAIN posted' : posted'[i].ec = "ok" =>
              i \in DOMAIN Tail(posted) /\ posted'[i] = Tail(posted)[i]
      BY <2>1, <2>3, <3>1, LiveAppend
    <3>3. \A i \in DOMAIN Tail(posted) : i + 1 \in DOMAIN posted /\ Tail(posted)[i] = posted[i + 1]
      BY <2>1, LiveTail
    <3>4. \A k : OkPosted(k)' => OkPosted(k)
      BY <3>2, <3>3 DEF OkPosted
    <3> QED BY <1>1, <1>2, <2>1, <3>4
  <2> QED BY <1>12, <2>2, <2>3 DEF HandleError
<1>13. CASE HandleRead
  <2>1. /\ posted # <<>> /\ running /\ Head(posted).ec = "ok" /\ handler = "idle"
        /\ running' = running /\ buffer' = buffer /\ pos' = 1 /\ len' = Head(posted).len
        /\ posted' = Tail(posted)
    BY <1>13 DEF HandleRead
  <2>2. 1 \in DOMAIN posted /\ posted[1] = Head(posted)
    BY <2>1, LiveTail
  <2>3. \A k \in 1..len' : OkPosted(k)
    BY <2>1, <2>2 DEF OkPosted
  <2> QED BY <1>1, <1>2, <1>4, <2>1, <2>3
<1>14. CASE HandleMessage \/ EndOfEmission
  <2>1. /\ UNCHANGED <<buffer, len, running, posted>> /\ pos' \in {pos, pos + 1}
        /\ handler # "idle" /\ handler' # "idle"
    BY <1>14 DEF HandleMessage, EndOfEmission, NextMessage
  <2>2. pos \in Nat /\ len \in Nat
    BY DEF TypeInv, TypeOK
  <2>3. \A k \in pos'..len' : k \in pos..len
    BY <2>1, <2>2
  <2> QED BY <1>1, <1>2, <1>6, <2>1, <2>3
<1>15. CASE EndOfBatch
  <2>1. /\ UNCHANGED <<buffer, running>> /\ handler # "idle" /\ handler' = "idle"
    BY <1>15 DEF EndOfBatch
  <2>2. running => posted' \in {posted, Append(posted, [ec |-> "error", len |-> 0])}
    BY <1>15 DEF EndOfBatch, RequestRead
  <2>3. running => \A k : OkPosted(k)' => OkPosted(k)
    BY <1>5, <1>6, <1>7, <2>2
  <2> QED BY <1>2, <1>3, <2>1, <2>3
<1>16. CASE SkipSlot \/ SpawnSlot \/ CallSlot \/ SlotReturns
  <2>1. /\ UNCHANGED <<buffer, pos, len, running, posted>>
        /\ handler # "idle" /\ handler' # "idle"
    BY <1>16 DEF SkipSlot, SpawnSlot, CallSlot, SlotReturns
  <2> QED BY <1>1, <1>2, <1>6, <2>1
<1>17. CASE SlotThrows
  <2>1. UNCHANGED <<buffer, running, posted>> /\ handler # "idle" /\ handler' = "idle"
    BY <1>17 DEF SlotThrows
  <2> QED BY <1>2, <1>3, <1>6, <2>1
<1>18. CASE ReceiveFault
  <2>1. /\ UNCHANGED <<buffer, handler, pos, len, running>>
        /\ posted' = Append(posted, [ec |-> "error", len |-> 0])
    BY <1>18 DEF ReceiveFault
  <2> QED BY <1>1, <1>2, <1>5, <1>7, <2>1
<1>19. CASE StartFails \/ (\E s \in Slots : Connect(s) \/ Disconnect(s)) \/ RunTask \/ Announce
            \/ UNCHANGED vars
  BY <1>9, <1>19 DEF StartFails, Connect, Disconnect, RunTask, Announce, vars
<1> QED
  BY <1>8, <1>10, <1>11, <1>12, <1>13, <1>14, <1>15, <1>16, <1>17, <1>18, <1>19 DEF Next, User, Handle

\* A receive takes the oldest datagram of the queue in hand, when nothing else is.
LEMMA ReceivedFacts ==
    ASSUME TypeInv, LoopInv, Receive
    PROVE  /\ handler = "idle" /\ handler' = "idle"
           /\ rcvq # <<>> /\ rcvq' = Tail(rcvq)
           /\ 1 \in DOMAIN rcvq /\ rcvq[1] \in Seq(Messages)
           /\ \A k \in DOMAIN buffer' : Ahead(k)' => k \in DOMAIN rcvq[1] /\ buffer'[k] = rcvq[1][k]
<1> USE DEF LoopInv, LoopType
<1>1. /\ pending > 0 /\ rcvq # <<>> /\ rcvq' = Tail(rcvq)
      /\ buffer' = Overwritten(Head(rcvq))
      /\ posted' = Append(posted, [ec |-> "ok", len |-> Len(Head(rcvq))])
      /\ UNCHANGED <<running, handler>>
  BY DEF Receive
<1>2. handler = "idle" /\ Live = {}
  BY <1>1 DEF StoppedIsQuiet, SingleReadLoop
<1>3. 1 \in DOMAIN rcvq /\ Head(rcvq) = rcvq[1] /\ rcvq[1] \in Seq(Messages)
  BY <1>1
<1> DEFINE d == rcvq[1]
<1>4. posted' = Append(posted, [ec |-> "ok", len |-> Len(d)]) /\ d \in Seq(Messages)
  BY <1>1, <1>3
<1>5. buffer' = Overwritten(d)
  BY <1>1, <1>3
<1> HIDE DEF d
<1>6. Len(d) \in Nat /\ [ec |-> "ok", len |-> Len(d)] \in Completions /\ DOMAIN d = 1..Len(d)
  BY <1>4 DEF Completions
<1>7. \A i \in DOMAIN posted' : posted'[i].ec = "ok" => posted'[i].len = Len(d)
  BY <1>2, <1>4, <1>6, LiveAppend DEF Live
<1>8. \A k : Ahead(k)' => k \in DOMAIN d
  BY <1>1, <1>2, <1>6, <1>7 DEF Ahead, OkPosted
<1>9. \A k \in DOMAIN d : buffer'[k] = d[k]
  BY <1>4, <1>5, <1>6, OverwrittenFacts DEF TypeInv, TypeOK
<1> QED BY <1>1, <1>2, <1>3, <1>8, <1>9 DEF d

\* An announcement is behind everything that was announced before.
LEMMA AnnouncedFacts ==
    ASSUME TypeInv, Announce
    PROVE  /\ events' \in Nat /\ events <= events'
           /\ DOMAIN rcvq \subseteq DOMAIN rcvq'
           /\ \A d \in DOMAIN rcvq : rcvq'[d] = rcvq[d] /\ d \in Nat /\ rcvq[d] \in Seq(Messages)
           /\ \A d \in DOMAIN rcvq' \ DOMAIN rcvq :
                 /\ d = Len(rcvq) + 1
                 /\ \A i \in DOMAIN rcvq'[d] :
                       rcvq'[d][i].id = events + i /\ i \in Nat /\ i > 0 /\ events + i <= events'
<1>1. PICK n \in 1..MaxBatch : \E hs \in [1..n -> Headers] :
          /\ events' = events + n
          /\ rcvq' = IF st = "ready" /\ Len(rcvq) < RcvCap
                     THEN Append(rcvq, [i \in 1..n |->
                            [id |-> events + i, type |-> hs[i].type, long |-> hs[i].long]])
                     ELSE rcvq
  BY DEF Announce
<1>2. PICK hs \in [1..n -> Headers] :
          /\ events' = events + n
          /\ rcvq' = IF st = "ready" /\ Len(rcvq) < RcvCap
                     THEN Append(rcvq, [i \in 1..n |->
                            [id |-> events + i, type |-> hs[i].type, long |-> hs[i].long]])
                     ELSE rcvq
  BY <1>1
<1> DEFINE m == [i \in 1..n |-> [id |-> events + i, type |-> hs[i].type, long |-> hs[i].long]]
<1>3. n \in Nat /\ events \in Nat /\ rcvq \in Seq(Seq(Messages))
  BY ListenerAssumption DEF TypeInv, TypeOK
<1>4. m \in Seq(Messages)
  BY <1>3, AnnouncedType
<1>5. DOMAIN m = 1..n /\ \A i \in 1..n : m[i].id = events + i
  OBVIOUS
<1>6. rcvq' = rcvq \/ rcvq' = Append(rcvq, m)
  BY <1>2
<1> HIDE DEF m
<1>7. \A d \in DOMAIN rcvq : d \in Nat /\ rcvq[d] \in Seq(Messages)
  BY <1>3
<1>8. events' \in Nat /\ events <= events' /\ \A i \in 1..n : i \in Nat /\ i > 0 /\ events + i <= events'
  BY <1>2, <1>3
<1>9. CASE rcvq' = rcvq
  BY <1>7, <1>8, <1>9
<1>10. CASE rcvq' = Append(rcvq, m)
  <2>1. /\ DOMAIN rcvq' = DOMAIN rcvq \cup {Len(rcvq) + 1}
        /\ \A d \in DOMAIN rcvq : rcvq'[d] = rcvq[d]
        /\ rcvq'[Len(rcvq) + 1] = m
    BY <1>3, <1>4, <1>10, AppendFacts
  <2> QED BY <1>5, <1>7, <1>8, <2>1
<1> QED BY <1>6, <1>9, <1>10

\* Only announcements and receives change the queue, except that it is emptied.
LEMMA QueueShrinks ==
    ASSUME [Next]_vars, ~Receive, ~Announce
    PROVE  events' = events /\ (rcvq' = rcvq \/ rcvq' = <<>>)
<1> USE DEF session, reading, slots, life, bounds
<1>1. CASE Stop \/ Destroy
  BY <1>1 DEF Stop, Destroy, StopSocket
<1>2. CASE Start \/ StartFails \/ (\E s \in Slots : Connect(s) \/ Disconnect(s)) \/ RunTask
           \/ ReceiveFault \/ SlotThrows \/ UNCHANGED vars
  BY <1>2 DEF Start, StartFails, Connect, Disconnect, RunTask, ReceiveFault, SlotThrows, vars
<1>3. CASE Handle
  BY <1>3 DEF Handle, HandleStale, HandleError, HandleRead, HandleMessage, EndOfBatch, SkipSlot,
              SpawnSlot, CallSlot, SlotReturns, EndOfEmission, HandleDangling
<1> QED BY <1>1, <1>2, <1>3 DEF Next, User

\* The queue stays in order.
LEMMA QueueStep ==
    ASSUME TypeInv, LoopInv, QueueInv, [Next]_vars
    PROVE  QueueInv'
<1>0. /\ rcvq \in Seq(Seq(Messages)) /\ events \in Nat
      /\ \A d \in DOMAIN rcvq : \A i \in DOMAIN rcvq[d] : rcvq[d][i].id \in Nat
  BY IdType DEF TypeInv, TypeOK
<1>1. CASE Announce
  <2>1. \A d \in DOMAIN rcvq' : d \in DOMAIN rcvq \/ d \in DOMAIN rcvq' \ DOMAIN rcvq
    OBVIOUS
  <2>2. Len(rcvq) \in Nat /\ \A d \in DOMAIN rcvq : d \in Nat /\ d <= Len(rcvq)
    BY <1>0
  <2>3. \A d \in DOMAIN rcvq' : \A i \in DOMAIN rcvq'[d] : rcvq'[d][i].id <= events'
    BY <1>0, <1>1, <2>1, AnnouncedFacts DEF QueueInv
  <2>4. \A d \in DOMAIN rcvq' : \A i, j \in DOMAIN rcvq'[d] :
            i < j => rcvq'[d][i].id < rcvq'[d][j].id
    BY <1>0, <1>1, <2>1, AnnouncedFacts DEF QueueInv
  <2>5. ASSUME NEW d \in DOMAIN rcvq', NEW e \in DOMAIN rcvq', d < e,
               NEW i \in DOMAIN rcvq'[d], NEW j \in DOMAIN rcvq'[e]
        PROVE  rcvq'[d][i].id < rcvq'[e][j].id
    <3>1. CASE e \in DOMAIN rcvq
      <4>1. d \in DOMAIN rcvq
        BY <1>1, <2>2, <2>5, <3>1, AnnouncedFacts
      <4>2. rcvq'[d] = rcvq[d] /\ rcvq'[e] = rcvq[e]
        BY <1>1, <3>1, <4>1, AnnouncedFacts
      <4> QED BY <2>5, <3>1, <4>1, <4>2 DEF QueueInv
    <3>2. CASE e \notin DOMAIN rcvq
      <4>1. d \in DOMAIN rcvq
        BY <1>1, <2>2, <2>5, <3>2, AnnouncedFacts
      <4>2. rcvq'[d] = rcvq[d] /\ rcvq[d][i].id <= events /\ rcvq[d][i].id \in Nat
        BY <1>0, <1>1, <4>1, AnnouncedFacts DEF QueueInv
      <4>3. rcvq'[e][j].id = events + j /\ j \in Nat /\ j > 0
        BY <1>1, <3>2, AnnouncedFacts
      <4> QED BY <1>0, <4>2, <4>3
    <3> QED BY <3>1, <3>2
  <2> QED BY <2>3, <2>4, <2>5 DEF QueueInv
<1>2. CASE Receive
  <2>1. rcvq # <<>> /\ rcvq' = Tail(rcvq) /\ events' = events
    BY <1>2 DEF Receive, bounds
  <2>2. \A d \in DOMAIN rcvq' : d \in Nat /\ d + 1 \in DOMAIN rcvq /\ rcvq'[d] = rcvq[d + 1]
    BY <1>0, <2>1, TailFacts
  <2> QED BY <2>1, <2>2 DEF QueueInv
<1>3. CASE ~Receive /\ ~Announce
  <2>1. CASE rcvq' = rcvq
    BY <1>3, <2>1, QueueShrinks DEF QueueInv
  <2>2. CASE rcvq' = <<>>
    BY <2>2 DEF QueueInv
  <2> QED BY <1>3, <2>1, <2>2, QueueShrinks
<1> QED BY <1>1, <1>2, <1>3

\* The hand stays in order, and ahead of the queue.
LEMMA HandStep ==
    ASSUME PatientOwner, TypeInv, LoopInv, QueueInv, HandInv, [Next]_vars
    PROVE  HandInv'
<1>0. /\ buffer \in Seq(Messages) /\ events \in Nat /\ rcvq \in Seq(Seq(Messages))
      /\ \A k \in DOMAIN buffer : buffer[k].id \in Nat
  BY IdType DEF TypeInv, TypeOK
<1>1. CASE Receive
  <2>1. 1 \in DOMAIN rcvq /\ rcvq[1] \in Seq(Messages)
    BY <1>1, ReceivedFacts
  <2>2. \A k \in DOMAIN buffer' : Ahead(k)' => k \in DOMAIN rcvq[1] /\ buffer'[k] = rcvq[1][k]
    BY <1>1, ReceivedFacts
  <2>3. \A d \in DOMAIN rcvq' : d + 1 \in DOMAIN rcvq /\ 1 < d + 1 /\ rcvq'[d] = rcvq[d + 1]
    BY <1>0, <1>1, ReceivedFacts, TailFacts
  <2>4. events' = events
    BY <1>1 DEF Receive, bounds
  <2> QED BY <2>1, <2>2, <2>3, <2>4 DEF HandInv, QueueInv
<1>2. CASE Announce
  <2>1. buffer' = buffer /\ \A k \in DOMAIN buffer : Ahead(k)' => Ahead(k)
    BY <1>2 DEF Announce, reading, Ahead, OkPosted
  <2>2. ASSUME NEW k \in DOMAIN buffer, Ahead(k)
        PROVE  /\ buffer[k].id <= events'
               /\ \A d \in DOMAIN rcvq' : \A i \in DOMAIN rcvq'[d] : buffer[k].id < rcvq'[d][i].id
    <3>1. buffer[k].id <= events /\ buffer[k].id \in Nat /\ events' \in Nat /\ events <= events'
      BY <1>0, <1>2, <2>2, AnnouncedFacts DEF HandInv
    <3>2. ASSUME NEW d \in DOMAIN rcvq', NEW i \in DOMAIN rcvq'[d] PROVE buffer[k].id < rcvq'[d][i].id
      <4>1. CASE d \in DOMAIN rcvq
        BY <1>2, <2>2, <4>1, AnnouncedFacts DEF HandInv
      <4>2. CASE d \notin DOMAIN rcvq
        <5>1. rcvq'[d][i].id = events + i /\ i \in Nat /\ i > 0
          BY <1>2, <4>2, AnnouncedFacts
        <5> QED BY <1>0, <3>1, <5>1
      <4> QED BY <4>1, <4>2
    <3> QED BY <1>0, <3>1, <3>2
  <2> QED BY <2>1, <2>2 DEF HandInv
<1>3. CASE ~Receive /\ ~Announce
  <2>1. buffer' = buffer /\ \A k \in DOMAIN buffer : Ahead(k)' => Ahead(k)
    BY <1>3, HandShrinks
  <2>2. events' = events
    BY <1>3, QueueShrinks
  <2>3. CASE rcvq' = rcvq
    BY <2>1, <2>2, <2>3 DEF HandInv
  <2>4. CASE rcvq' = <<>>
    BY <2>1, <2>2, <2>4 DEF HandInv
  <2> QED BY <1>3, <2>3, <2>4, QueueShrinks
<1> QED BY <1>1, <1>2, <1>3

\* The call that SpawnSlot or CallSlot makes.
NewCall == [slot |-> Head(callees), id |-> buffer[pos].id]

\* No other step makes one.
LEMMA MadeStep ==
    ASSUME TypeInv, [Next]_vars
    PROVE  /\ ~SpawnSlot /\ ~CallSlot => \A c : Made(c)' => Made(c)
           /\ SpawnSlot \/ CallSlot => NewCall \in Calls /\ \A c : Made(c)' => Made(c) \/ c = NewCall
<1> USE DEF session, reading, slots, life, bounds
<1>0. tasks \in Seq(Calls) /\ delivered \in Seq(Calls)
  BY DEF TypeInv, TypeOK
<1>1. CASE SpawnSlot \/ CallSlot
  <2>1. pos \in DOMAIN buffer /\ callees # <<>> /\ callees \in Seq(Slots) /\ buffer \in Seq(Messages)
    BY <1>1 DEF TypeInv, TypeOK, WalkInv, SpawnSlot, CallSlot
  <2>2. Head(callees) \in Slots /\ buffer[pos].id \in Nat
    BY <2>1, IdType
  <2>3. NewCall \in Calls
    BY <2>2 DEF NewCall, Calls
  <2>4. \/ tasks' = Append(tasks, NewCall) /\ delivered' = delivered
        \/ delivered' = Append(delivered, NewCall) /\ tasks' = tasks
    BY <1>1 DEF SpawnSlot, CallSlot, NewCall
  <2>5. \A c : Made(c)' => Made(c) \/ c = NewCall
    <3> HIDE DEF NewCall
    <3>1. CASE tasks' = Append(tasks, NewCall) /\ delivered' = delivered
      BY <1>0, <2>3, <3>1, AppendFacts DEF Made
    <3>2. CASE delivered' = Append(delivered, NewCall) /\ tasks' = tasks
      BY <1>0, <2>3, <3>2, AppendFacts DEF Made
    <3> QED BY <2>4, <3>1, <3>2
  <2> QED BY <1>1, <2>3, <2>5 DEF SpawnSlot, CallSlot
<1>2. CASE RunTask
  <2>1. tasks # <<>> /\ tasks' = Tail(tasks) /\ delivered' = Append(delivered, Head(tasks))
    BY <1>2 DEF RunTask
  <2>2. /\ Head(tasks) \in Calls /\ 1 \in DOMAIN tasks /\ Head(tasks) = tasks[1]
        /\ \A i \in DOMAIN Tail(tasks) : i + 1 \in DOMAIN tasks /\ Tail(tasks)[i] = tasks[i + 1]
    BY <1>0, <2>1, TailFacts
  <2>3. \A i \in DOMAIN delivered' :
           (i \in DOMAIN delivered /\ delivered'[i] = delivered[i]) \/ delivered'[i] = Head(tasks)
    BY <1>0, <2>1, <2>2, AppendFacts
  <2>4. \A c : Made(c)' => Made(c)
    BY <2>1, <2>2, <2>3 DEF Made
  <2>5. handler = "idle"
    BY <1>2 DEF RunTask
  <2> QED BY <2>4, <2>5 DEF SpawnSlot, CallSlot
<1>3. CASE UNCHANGED <<delivered, tasks>>
  BY <1>1, <1>3 DEF Made
<1>4. CASE User \/ SlotThrows \/ Announce \/ Receive \/ ReceiveFault \/ UNCHANGED vars
  BY <1>3, <1>4 DEF User, Start, StartFails, Stop, Destroy, Connect, Disconnect, SlotThrows, Announce,
                    Receive, ReceiveFault, vars
<1>5. CASE Handle /\ ~SpawnSlot /\ ~CallSlot
  BY <1>3, <1>5 DEF Handle, HandleStale, HandleError, HandleRead, HandleMessage, EndOfBatch, SkipSlot,
                    SlotReturns, EndOfEmission, HandleDangling
<1> QED BY <1>1, <1>2, <1>4, <1>5 DEF Next, Handle

\* What is behind the calls stays behind them.
LEMMA BeforeStep ==
    ASSUME PatientOwner, TypeInv, LoopInv, [Next]_vars, ~Receive,
           NEW c, NEW k \in DOMAIN buffer, Ahead(k)', Before(c, k)
    PROVE  Before(c, k)'
<1> USE DEF session, reading, slots, life, bounds
<1>0. /\ buffer' = buffer /\ Ahead(k)
      /\ callees \in Seq(Slots) /\ pos \in Nat /\ len \in Nat
  BY HandShrinks DEF TypeInv, TypeOK
<1>1. CASE c.id < buffer[k].id
  BY <1>0, <1>1 DEF Before
<1> SUFFICES ASSUME handler \in {"emit", "slot"}, k = pos, c.id = buffer[k].id, ~Due(c.slot)
             PROVE  Before(c, k)'
  BY <1>1 DEF Before
<1>2. ASSUME handler' \in {"emit", "slot"}, pos' = pos, Due(c.slot)' => Due(c.slot)
      PROVE  Before(c, k)'
  BY <1>0, <1>2 DEF Before
<1>3. CASE SkipSlot
  <2>1. handler = "emit" /\ handler' = handler /\ pos' = pos /\ callees # <<>> /\ callees' = Tail(callees)
    BY <1>3 DEF SkipSlot
  <2>2. \A i \in DOMAIN callees' : i + 1 \in DOMAIN callees /\ callees'[i] = callees[i + 1]
    BY <1>0, <2>1, TailFacts
  <2> QED BY <1>2, <2>1, <2>2 DEF Due
<1>4. CASE SpawnSlot
  <2>1. handler = "emit" /\ handler' = handler /\ pos' = pos /\ callees # <<>> /\ callees' = Tail(callees)
    BY <1>4 DEF SpawnSlot
  <2>2. \A i \in DOMAIN callees' : i + 1 \in DOMAIN callees /\ callees'[i] = callees[i + 1]
    BY <1>0, <2>1, TailFacts
  <2> QED BY <1>2, <2>1, <2>2 DEF Due
<1>5. CASE CallSlot
  BY <1>2, <1>5 DEF CallSlot, Due
<1>6. CASE SlotReturns
  <2>1. handler = "slot" /\ handler' = "emit" /\ pos' = pos /\ callees # <<>> /\ callees' = Tail(callees)
    BY <1>6 DEF SlotReturns, TypeInv, WalkInv
  <2>2. \A i \in DOMAIN callees' :
           i \in Nat /\ i >= 1 /\ i + 1 \in DOMAIN callees /\ callees'[i] = callees[i + 1]
    BY <1>0, <2>1, TailFacts
  <2>3. \A i \in DOMAIN callees' : i + 1 # 1
    BY <2>2
  <2> QED BY <1>2, <2>1, <2>2, <2>3 DEF Due
<1>7. running => ~OkPosted(k)
  BY DEF LoopInv, SingleReadLoop, Live, OkPosted
<1>8. CASE EndOfEmission
  <2>1. pos' = pos + 1 /\ UNCHANGED <<running, posted, len>>
    BY <1>8 DEF EndOfEmission, NextMessage
  <2>2. ~OkPosted(k)' \/ ~running'
    BY <1>7, <2>1 DEF OkPosted
  <2> QED BY <1>0, <2>1, <2>2 DEF Ahead
<1>9. CASE SlotThrows
  <2>1. handler' = "idle" /\ UNCHANGED <<running, posted>>
    BY <1>9 DEF SlotThrows
  <2>2. ~OkPosted(k)' \/ ~running'
    BY <1>7, <2>1 DEF OkPosted
  <2> QED BY <2>1, <2>2 DEF Ahead
<1>10. CASE Start
  BY <1>10 DEF Start, Lingering
<1>11. CASE UNCHANGED <<handler, pos, callees>>
  BY <1>2, <1>11 DEF Due
<1>12. CASE StartFails \/ Stop \/ Destroy \/ (\E s \in Slots : Connect(s) \/ Disconnect(s))
            \/ HandleDangling \/ Announce \/ ReceiveFault \/ UNCHANGED vars
  BY <1>11, <1>12 DEF StartFails, Stop, Destroy, Connect, Disconnect, HandleDangling, Announce,
                      ReceiveFault, vars
<1>13. CASE HandleStale \/ HandleError \/ HandleRead \/ HandleMessage \/ EndOfBatch \/ RunTask
  BY <1>13 DEF HandleStale, HandleError, HandleRead, HandleMessage, EndOfBatch, RunTask
<1> QED
  BY <1>3, <1>4, <1>5, <1>6, <1>8, <1>9, <1>10, <1>12, <1>13 DEF Next, User, Handle

\* The calls made stay behind what is to come.
LEMMA CallStep ==
    ASSUME PatientOwner, TypeInv, LoopInv, QueueInv, HandInv, CallInv, OnceInv, [Next]_vars
    PROVE  CallInv'
<1>0. /\ buffer \in Seq(Messages) /\ events \in Nat /\ rcvq \in Seq(Seq(Messages))
      /\ callees \in Seq(Slots) /\ pos \in Nat /\ len \in Nat
      /\ \A k \in DOMAIN buffer : buffer[k].id \in Nat
  BY IdType DEF TypeInv, TypeOK
<1>1. CASE Receive
  <2>1. \A c : Made(c)' => Made(c)
    BY <1>1 DEF Receive, slots, Made
  <2>2. 1 \in DOMAIN rcvq /\ rcvq[1] \in Seq(Messages)
    BY <1>1, ReceivedFacts
  <2>3. \A k \in DOMAIN buffer' : Ahead(k)' => k \in DOMAIN rcvq[1] /\ buffer'[k] = rcvq[1][k]
    BY <1>1, ReceivedFacts
  <2>4. \A d \in DOMAIN rcvq' : d + 1 \in DOMAIN rcvq /\ rcvq'[d] = rcvq[d + 1]
    BY <1>0, <1>1, ReceivedFacts, TailFacts
  <2>5. events' = events
    BY <1>1 DEF Receive, bounds
  <2> QED BY <2>1, <2>2, <2>3, <2>4, <2>5 DEF CallInv, Before
<1>2. CASE Announce
  <2>1. \A c : Made(c)' => Made(c)
    BY <1>2 DEF Announce, slots, Made
  <2>2. ASSUME NEW c \in Calls, Made(c)
        PROVE  /\ c.id <= events'
               /\ \A d \in DOMAIN rcvq' : \A i \in DOMAIN rcvq'[d] : c.id < rcvq'[d][i].id
    <3>1. c.id <= events /\ c.id \in Nat /\ events' \in Nat /\ events <= events'
      BY <1>0, <1>2, <2>2, IdType, AnnouncedFacts DEF CallInv
    <3>2. ASSUME NEW d \in DOMAIN rcvq', NEW i \in DOMAIN rcvq'[d] PROVE c.id < rcvq'[d][i].id
      <4>1. CASE d \in DOMAIN rcvq
        BY <1>2, <2>2, <4>1, AnnouncedFacts DEF CallInv
      <4>2. CASE d \notin DOMAIN rcvq
        <5>1. rcvq'[d][i].id = events + i /\ i \in Nat /\ i > 0
          BY <1>2, <4>2, AnnouncedFacts
        <5> QED BY <1>0, <3>1, <5>1
      <4> QED BY <4>1, <4>2
    <3> QED BY <1>0, <3>1, <3>2
  <2>3. ~Receive
    BY <1>2 DEF Announce, Receive, bounds
  <2>4. ASSUME NEW c \in Calls, Made(c), NEW k \in DOMAIN buffer', Ahead(k)' PROVE Before(c, k)'
    <3>1. buffer' = buffer /\ Ahead(k)
      BY <2>3, <2>4, HandShrinks
    <3> QED BY <2>3, <2>4, <3>1, BeforeStep DEF CallInv
  <2> QED BY <2>1, <2>2, <2>4 DEF CallInv
<1>3. CASE ~Receive /\ ~Announce
  <2>1. events' = events /\ \A d \in DOMAIN rcvq' : d \in DOMAIN rcvq /\ rcvq' = rcvq
    BY <1>3, QueueShrinks
  <2>2. ASSUME NEW c \in Calls, Made(c)
        PROVE  /\ c.id <= events'
               /\ \A d \in DOMAIN rcvq' : \A i \in DOMAIN rcvq'[d] : c.id < rcvq'[d][i].id
    BY <2>1, <2>2 DEF CallInv
  <2>3. ASSUME NEW c \in Calls, Made(c), NEW k \in DOMAIN buffer', Ahead(k)' PROVE Before(c, k)'
    <3>1. buffer' = buffer /\ Ahead(k)
      BY <1>3, <2>3, HandShrinks
    <3> QED BY <1>3, <2>3, <3>1, BeforeStep DEF CallInv
  <2>4. CASE ~SpawnSlot /\ ~CallSlot
    BY <2>2, <2>3, <2>4, MadeStep DEF CallInv
  <2>5. CASE SpawnSlot \/ CallSlot
    <3>1. NewCall \in Calls /\ \A c : Made(c)' => Made(c) \/ c = NewCall
      BY <2>5, MadeStep
    <3>2. /\ handler = "emit" /\ callees # <<>> /\ pos >= 1 /\ pos <= len /\ pos \in DOMAIN buffer
          /\ buffer' = buffer /\ pos' = pos /\ handler' \in {"emit", "slot"}
      BY <2>5 DEF SpawnSlot, CallSlot, TypeInv, TypeOK, WalkInv
    <3>3. PICK n : n = NewCall
      OBVIOUS
    <3>4. n \in Calls /\ n.id = buffer[pos].id /\ n.slot = Head(callees)
      BY <3>1, <3>3 DEF NewCall
    <3>5. Ahead(pos)
      BY <1>0, <3>2 DEF Ahead
    <3>6. ~Due(n.slot)'
      <4>1. 1 \in DOMAIN callees /\ Head(callees) = callees[1] /\ \A i \in DOMAIN callees : i \in Nat
        BY <1>0, <3>2, TailFacts
      <4>2. n.slot = callees[1]
        BY <3>4, <4>1
      <4>3. \A i \in DOMAIN callees : callees[i] = callees[1] => i = 1
        BY <4>1 DEF OnceInv, NoDuplicates
      <4>4. CASE SpawnSlot
        <5>1. callees' = Tail(callees)
          BY <4>4 DEF SpawnSlot
        <5>2. \A i \in DOMAIN callees' :
                 i \in Nat /\ i >= 1 /\ i + 1 \in DOMAIN callees /\ callees'[i] = callees[i + 1]
          BY <1>0, <3>2, <5>1, TailFacts
        <5>3. \A i \in DOMAIN callees' : callees'[i] # callees[1]
          BY <4>3, <5>2
        <5> QED BY <4>2, <5>3 DEF Due
      <4>5. CASE CallSlot
        <5>1. callees' = callees /\ handler' = "slot"
          BY <4>5 DEF CallSlot
        <5> QED BY <4>3, <4>2, <5>1 DEF Due
      <4> QED BY <2>5, <4>4, <4>5
    <3>7. ASSUME NEW k \in DOMAIN buffer', Ahead(k)' PROVE Before(n, k)'
      <4>1. Ahead(k) /\ k \in DOMAIN buffer /\ k \in Nat
        BY <1>0, <1>3, <3>7, HandShrinks
      <4>2. running => ~OkPosted(k)
        BY <3>2 DEF LoopInv, SingleReadLoop, Live, OkPosted
      <4>3. k >= pos
        BY <1>0, <4>1, <4>2 DEF Ahead
      <4>4. CASE k = pos
        <5>1. (handler \in {"emit", "slot"})' /\ k = pos' /\ ~Due(n.slot)' /\ buffer'[k] = buffer[pos]
          BY <3>2, <3>6, <4>4
        <5>2. n.id = buffer'[k].id
          BY <3>4, <5>1
        <5> QED BY <5>1, <5>2 DEF Before
      <4>5. CASE k > pos
        <5>1. buffer[pos].id < buffer[k].id
          BY <3>2, <3>5, <4>1, <4>5 DEF HandInv
        <5>2. n.id < buffer'[k].id
          BY <3>2, <3>4, <5>1
        <5> QED BY <5>2 DEF Before
      <4> QED BY <1>0, <4>1, <4>3, <4>4, <4>5
    <3>8. n.id <= events' /\ \A d \in DOMAIN rcvq' : \A i \in DOMAIN rcvq'[d] : n.id < rcvq'[d][i].id
      BY <2>1, <3>2, <3>5, <3>4 DEF HandInv
    <3> QED BY <2>2, <2>3, <3>1, <3>3, <3>7, <3>8 DEF CallInv
  <2> QED BY <2>4, <2>5
<1> QED BY <1>1, <1>2, <1>3

\* Connecting, disconnecting and serving leave no slot twice.
LEMMA OnceStep ==
    ASSUME TypeInv, OnceInv, [Next]_vars
    PROVE  OnceInv'
<1> USE DEF session, reading, slots, life, bounds
<1>0. callees \in Seq(Slots) /\ connected \in [Topics -> Seq(Slots)] /\ \A s \in Slots : Topic[s] \in Topics
  BY ListenerAssumption DEF TypeInv, TypeOK
<1>1. ASSUME NEW s \in Slots, Connect(s) PROVE OnceInv'
  <2> DEFINE q == connected[Topic[s]]
  <2>1. q \in Seq(Slots) /\ NoDuplicates(q) /\ \A i \in DOMAIN q : q[i] # s
    BY <1>0, <1>1 DEF Connect, OnceInv
  <2>2. callees' = callees /\ connected' = [connected EXCEPT ![Topic[s]] = Append(q, s)]
    BY <1>1 DEF Connect
  <2> HIDE DEF q
  <2>3. NoDuplicates(Append(q, s))
    BY <2>1, AppendFacts DEF NoDuplicates
  <2>4. \A t \in Topics : connected'[t] = connected[t] \/ connected'[t] = Append(q, s)
    BY <1>0, <2>2
  <2> QED BY <2>2, <2>3, <2>4 DEF OnceInv
<1>2. ASSUME NEW s \in Slots, Disconnect(s) PROVE OnceInv'
  <2> DEFINE q == connected[Topic[s]]
  <2>1. q \in Seq(Slots) /\ NoDuplicates(q)
    BY <1>0 DEF OnceInv
  <2>2. PICK i \in DOMAIN q : callees' = callees /\ connected' = [connected EXCEPT ![Topic[s]] = RemoveAt(q, i)]
    BY <1>2 DEF Disconnect
  <2> HIDE DEF q
  <2>3. NoDuplicates(RemoveAt(q, i))
    BY <2>1, RemoveFacts
  <2>4. \A t \in Topics : connected'[t] = connected[t] \/ connected'[t] = RemoveAt(q, i)
    BY <1>0, <2>2
  <2> QED BY <2>2, <2>3, <2>4 DEF OnceInv
<1>3. CASE UNCHANGED <<callees, connected>>
  BY <1>3 DEF OnceInv
<1>4. CASE callees # <<>> /\ callees' = Tail(callees) /\ connected' = connected
  <2>1. \A i \in DOMAIN callees' : i \in Nat /\ i + 1 \in DOMAIN callees /\ callees'[i] = callees[i + 1]
    BY <1>0, <1>4, TailFacts
  <2>2. NoDuplicates(callees')
    BY <2>1 DEF OnceInv, NoDuplicates
  <2> QED BY <1>4, <2>2 DEF OnceInv
<1>5. CASE SkipSlot \/ SpawnSlot \/ SlotReturns
  BY <1>4, <1>5 DEF SkipSlot, SpawnSlot, SlotReturns, TypeInv, WalkInv
<1>6. CASE SlotThrows
  BY <1>6 DEF SlotThrows, OnceInv, NoDuplicates
<1>7. CASE HandleMessage
  <2>1. CASE UNCHANGED callees
    BY <1>3, <1>7, <2>1 DEF HandleMessage
  <2>2. CASE Dispatched(buffer[pos]) /\ callees' = connected[buffer[pos].type]
    <3>1. buffer[pos] \in Messages
      BY <1>7 DEF HandleMessage, TypeInv, TypeOK, WalkInv
    <3>2. buffer[pos].type \in Topics
      BY <2>2, <3>1 DEF Dispatched, Messages
    <3>3. connected' = connected
      BY <1>7 DEF HandleMessage
    <3> QED BY <2>2, <3>2, <3>3 DEF OnceInv
  <2> QED BY <1>7, <2>1, <2>2 DEF HandleMessage
<1>8. CASE Start \/ StartFails \/ Stop \/ Destroy \/ RunTask \/ Announce \/ Receive \/ ReceiveFault
           \/ UNCHANGED vars
  BY <1>3, <1>8 DEF Start, StartFails, Stop, Destroy, RunTask, Announce, Receive, ReceiveFault, vars
<1>9. CASE HandleStale \/ HandleError \/ HandleRead \/ EndOfBatch \/ CallSlot \/ EndOfEmission
           \/ HandleDangling
  BY <1>3, <1>9 DEF HandleStale, HandleError, HandleRead, EndOfBatch, CallSlot, EndOfEmission,
                    HandleDangling
<1> QED BY <1>1, <1>2, <1>5, <1>6, <1>7, <1>8, <1>9 DEF Next, User, Handle

\* The calls of a slot are completed, and wait, in the order of its events.
LEMMA TaskStep ==
    ASSUME PatientOwner, TypeInv, LoopInv, CallInv, TaskInv, OrderedDelivery, [Next]_vars
    PROVE  TaskInv' /\ OrderedDelivery'
<1> USE DEF session, reading, slots, life, bounds
<1>0. tasks \in Seq(Calls) /\ delivered \in Seq(Calls)
  BY DEF TypeInv, TypeOK
<1>1. ASSUME SpawnSlot \/ CallSlot
      PROVE  NewCall \in Calls /\ \A c \in Calls : Made(c) /\ c.slot = NewCall.slot => c.id < NewCall.id
  <2>1. NewCall \in Calls
    BY <1>1, MadeStep
  <2>2. /\ handler = "emit" /\ callees # <<>> /\ callees \in Seq(Slots) /\ pos >= 1 /\ pos <= len
        /\ pos \in DOMAIN buffer /\ pos \in Nat /\ len \in Nat
    BY <1>1 DEF SpawnSlot, CallSlot, TypeInv, TypeOK, WalkInv
  <2>3. Ahead(pos)
    BY <2>2 DEF Ahead
  <2>4. Due(Head(callees))
    BY <2>2, TailFacts DEF Due
  <2>5. ASSUME NEW c \in Calls, Made(c), c.slot = Head(callees) PROVE c.id < buffer[pos].id
    BY <2>2, <2>3, <2>4, <2>5 DEF CallInv, Before
  <2> QED BY <2>1, <2>5 DEF NewCall
<1>2. \A i \in DOMAIN tasks : tasks[i] \in Calls /\ Made(tasks[i]) /\ i \in Nat /\ i <= Len(tasks)
  BY <1>0 DEF Made
<1>3. \A i \in DOMAIN delivered : delivered[i] \in Calls /\ Made(delivered[i]) /\ i \in Nat /\ i <= Len(delivered)
  BY <1>0 DEF Made
<1>4. CASE SpawnSlot
  <2>1. tasks' = Append(tasks, NewCall) /\ delivered' = delivered /\ Policy[NewCall.slot] = "Async"
    BY <1>4 DEF SpawnSlot, NewCall
  <2> HIDE DEF NewCall
  <2>2. /\ DOMAIN tasks' = DOMAIN tasks \cup {Len(tasks) + 1} /\ Len(tasks) \in Nat
        /\ \A i \in DOMAIN tasks : tasks'[i] = tasks[i]
        /\ tasks'[Len(tasks) + 1] = NewCall
    BY <1>0, <1>1, <1>4, <2>1, AppendFacts
  <2>3. OrderedDelivery'
    BY <2>1 DEF OrderedDelivery
  <2>4. \A i \in DOMAIN tasks' : Policy[tasks'[i].slot] = "Async"
    BY <2>1, <2>2 DEF TaskInv
  <2>5. ASSUME NEW i \in DOMAIN tasks', NEW j \in DOMAIN tasks', i < j, tasks'[i].slot = tasks'[j].slot
        PROVE  tasks'[i].id < tasks'[j].id
    <3>1. i \in DOMAIN tasks
      BY <1>2, <2>2, <2>5
    <3> QED BY <1>1, <1>2, <1>4, <2>2, <2>5, <3>1 DEF TaskInv
  <2>6. ASSUME NEW i \in DOMAIN delivered', NEW j \in DOMAIN tasks', delivered'[i].slot = tasks'[j].slot
        PROVE  delivered'[i].id < tasks'[j].id
    BY <1>1, <1>3, <1>4, <2>1, <2>2, <2>6 DEF TaskInv
  <2> QED BY <2>3, <2>4, <2>5, <2>6 DEF TaskInv
<1>5. CASE CallSlot
  <2>1. delivered' = Append(delivered, NewCall) /\ tasks' = tasks /\ Policy[NewCall.slot] = "Sync"
    BY <1>5 DEF CallSlot, NewCall
  <2> HIDE DEF NewCall
  <2>2. /\ DOMAIN delivered' = DOMAIN delivered \cup {Len(delivered) + 1} /\ Len(delivered) \in Nat
        /\ \A i \in DOMAIN delivered : delivered'[i] = delivered[i]
        /\ delivered'[Len(delivered) + 1] = NewCall
    BY <1>0, <1>1, <1>5, <2>1, AppendFacts
  <2>3. ASSUME NEW i \in DOMAIN delivered', NEW j \in DOMAIN delivered', i < j,
               delivered'[i].slot = delivered'[j].slot
        PROVE  delivered'[i].id < delivered'[j].id
    <3>1. i \in DOMAIN delivered
      BY <1>3, <2>2, <2>3
    <3> QED BY <1>1, <1>3, <1>5, <2>2, <2>3, <3>1 DEF OrderedDelivery
  <2>4. \A j \in DOMAIN tasks : tasks[j].slot # NewCall.slot
    BY <2>1 DEF TaskInv
  <2> QED BY <2>1, <2>2, <2>3, <2>4 DEF TaskInv, OrderedDelivery
<1>6. CASE RunTask
  <2>1. tasks # <<>> /\ tasks' = Tail(tasks) /\ delivered' = Append(delivered, tasks[1]) /\ 1 \in DOMAIN tasks
    BY <1>0, <1>6, TailFacts DEF RunTask
  <2>2. /\ DOMAIN delivered' = DOMAIN delivered \cup {Len(delivered) + 1} /\ Len(delivered) \in Nat
        /\ \A i \in DOMAIN delivered : delivered'[i] = delivered[i]
        /\ delivered'[Len(delivered) + 1] = tasks[1]
    BY <1>0, <1>2, <2>1, AppendFacts
  <2>3. \A i \in DOMAIN tasks' : i \in Nat /\ 1 < i + 1 /\ i + 1 \in DOMAIN tasks /\ tasks'[i] = tasks[i + 1]
    BY <1>0, <2>1, TailFacts
  <2>4. ASSUME NEW i \in DOMAIN delivered', NEW j \in DOMAIN delivered', i < j,
               delivered'[i].slot = delivered'[j].slot
        PROVE  delivered'[i].id < delivered'[j].id
    <3>1. i \in DOMAIN delivered
      BY <1>3, <2>2, <2>4
    <3> QED BY <2>1, <2>2, <2>4, <3>1 DEF OrderedDelivery, TaskInv
  <2>5. ASSUME NEW i \in DOMAIN delivered', NEW j \in DOMAIN tasks', delivered'[i].slot = tasks'[j].slot
        PROVE  delivered'[i].id < tasks'[j].id
    BY <2>1, <2>2, <2>3, <2>5 DEF TaskInv
  <2>6. \A i, j \in DOMAIN tasks' : i < j /\ tasks'[i].slot = tasks'[j].slot => tasks'[i].id < tasks'[j].id
    BY <2>3 DEF TaskInv
  <2>7. \A i \in DOMAIN tasks' : Policy[tasks'[i].slot] = "Async"
    BY <2>3 DEF TaskInv
  <2> QED BY <2>4, <2>5, <2>6, <2>7 DEF TaskInv, OrderedDelivery
<1>7. CASE UNCHANGED <<delivered, tasks>>
  BY <1>7 DEF TaskInv, OrderedDelivery
<1>8. CASE User \/ SlotThrows \/ Announce \/ Receive \/ ReceiveFault \/ UNCHANGED vars
  BY <1>7, <1>8 DEF User, Start, StartFails, Stop, Destroy, Connect, Disconnect, SlotThrows, Announce,
                    Receive, ReceiveFault, vars
<1>9. CASE Handle /\ ~SpawnSlot /\ ~CallSlot
  BY <1>7, <1>9 DEF Handle, HandleStale, HandleError, HandleRead, HandleMessage, EndOfBatch, SkipSlot,
                    SlotReturns, EndOfEmission, HandleDangling
<1> QED BY <1>4, <1>5, <1>6, <1>8, <1>9 DEF Next, Handle

\* Order holds of every behaviour of a listener with a patient owner.
LEMMA OrderInvariant == Spec => [](PatientOwner => OrderInv)
<1> DEFINE Inv == PatientOwner => OrderInv
           Known == TypeInv /\ (PatientOwner => LoopInv)
<1>1. Init => Inv
  BY DEF Init, OrderInv, QueueInv, HandInv, CallInv, TaskInv, OnceInv, OrderedDelivery, NoDuplicates, Made
<1>2. Known /\ Inv /\ [Next]_vars => Inv'
  BY QueueStep, HandStep, CallStep, TaskStep, OnceStep DEF OrderInv
<1>3. Spec => []Known
  BY TypeInvInvariant, LoopInvariant, PTL
<1> QED BY <1>1, <1>2, <1>3, PTL DEF Spec

\* A slot sees each event at most once and in the order in which the kernel
\* announced them: for any mixture of Sync and Async slots, connected, disconnected
\* and throwing at any moment, over receive errors, stops and restarts, when the
\* owner restarts only a listener whose handlers have run.
THEOREM OrderedDeliveryTheorem == Spec => [](PatientOwner => OrderedDelivery)
<1>1. OrderInv => OrderedDelivery
  BY DEF OrderInv
<1> QED BY <1>1, OrderInvariant, PTL
=============================================================================
