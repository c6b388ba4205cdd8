---------------------------- MODULE ListenerProofs ----------------------------
(***************************************************************************)
(* Proofs about the read loop of Listener, for every set of slots, every   *)
(* kind of message and every bound.                                        *)
(*                                                                         *)
(* Only the variables of the loop need types here; the sequences of slots  *)
(* and calls do not matter to it.                                          *)
(***************************************************************************)
EXTENDS Listener, TLAPS

\* The types of the variables that the read loop is made of; a listener that has
\* been destroyed is not running.
LoopType ==
    /\ running \in BOOLEAN
    /\ pending \in Nat
    /\ posted \in Seq(Completions)
    /\ rcvq \in Seq(Seq(Messages))
    /\ handler \in {"idle", "message", "emit", "slot"}
    /\ events \in Nat /\ broken \in BOOLEAN /\ destroyed \in BOOLEAN
    /\ destroyed => ~running

\* stop() leaves no read under way on the socket it closes.
StoppedIsQuiet == ~running => pending = 0

\* Where the control of the loop is, for a listener restarted patiently.
LoopInv == LoopType /\ StoppedIsQuiet /\ SingleReadLoop

\* A posted completion that is not aborted goes to a handler that continues the loop.
LEMMA LiveAppend ==
    ASSUME NEW s \in Seq(Completions), NEW c \in Completions
    PROVE  /\ Append(s, c) \in Seq(Completions)
           /\ DOMAIN Append(s, c) = DOMAIN s \cup {Len(s) + 1}
           /\ \A i \in DOMAIN s : Append(s, c)[i] = s[i]
           /\ Append(s, c)[Len(s) + 1] = c
           /\ \A i \in DOMAIN s : i # Len(s) + 1
  OBVIOUS

\* Taking the oldest completion leaves the others, one place further in front.
LEMMA LiveTail ==
    ASSUME NEW s \in Seq(Completions), s # <<>>
    PROVE  /\ Tail(s) \in Seq(Completions)
           /\ Head(s) = s[1] /\ s[1] \in Completions /\ 1 \in DOMAIN s
           /\ \A i \in DOMAIN Tail(s) : i + 1 \in DOMAIN s /\ Tail(s)[i] = s[i + 1]
           /\ \A i \in DOMAIN s : i # 1 => i - 1 \in DOMAIN Tail(s) /\ Tail(s)[i - 1] = s[i]
           /\ \A i \in DOMAIN Tail(s) : i \in Int /\ i + 1 # 1
           /\ \A i \in DOMAIN s : i \in Int
  OBVIOUS

\* stop() turns every read under way into an aborted completion.
LEMMA AbortedType ==
    ASSUME NEW s \in Seq(Completions), NEW n \in Nat
    PROVE  s \o [i \in 1..n |-> [ec |-> "aborted", len |-> 0]] \in Seq(Completions)
<1>1. [ec |-> "aborted", len |-> 0] \in Completions
  BY DEF Completions
<1>2. [i \in 1..n |-> [ec |-> "aborted", len |-> 0]] \in Seq(Completions)
  BY <1>1
<1> QED
  BY <1>2
\* The constructor leaves the loop idle.
LEMMA LoopTypeInit == Init => LoopType
<1> SUFFICES ASSUME Init PROVE LoopType
  OBVIOUS
<1>1. posted \in Seq(Completions)
  BY DEF Init
<1>2. rcvq \in Seq(Seq(Messages))
  BY DEF Init
<1> QED
  BY <1>1, <1>2 DEF Init, LoopType

\* The loop keeps its types over every step.
LEMMA LoopTypeStep ==
    ASSUME LoopType, [Next]_vars
    PROVE  LoopType'
<1> USE DEF LoopType, session, reading, slots, life, bounds
<1>1. /\ [ec |-> "error", len |-> 0] \in Completions
      /\ \A n \in Nat : [ec |-> "ok", len |-> n] \in Completions
  BY DEF Completions
<1>2. CASE Start
  <2>1. destroyed = FALSE
    BY <1>2 DEF Start, Callable
  <2>2. /\ destroyed' = destroyed /\ running' = TRUE
        /\ pending' = pending + 1
        /\ UNCHANGED <<posted, rcvq, handler, events>> /\ broken' = FALSE
    BY <1>2 DEF Start, RequestRead
  <2>3. pending' \in Nat
    BY <2>2
  <2> QED
    BY <2>1, <2>2, <2>3, Zenon
<1>3. CASE StartFails
  BY <1>3 DEF StartFails
<1>4. CASE Stop
  <2>1. /\ running' = FALSE /\ pending' = 0 /\ rcvq' = <<>>
        /\ UNCHANGED <<handler, events, broken, destroyed>>
    BY <1>4 DEF Stop, StopSocket
  <2>2. posted' \in Seq(Completions)
    BY <1>4, AbortedType DEF Stop, StopSocket
  <2>3. rcvq' \in Seq(Seq(Messages))
    BY <2>1
  <2> QED
    BY <2>1, <2>2, <2>3
<1>5. CASE \E s \in Slots : Connect(s) \/ Disconnect(s)
  BY <1>5 DEF Connect, Disconnect
<1>6. CASE HandleStale
  BY <1>6, LiveTail DEF HandleStale
<1>7. CASE HandleError
  <2>1. /\ UNCHANGED <<running, rcvq, handler, events, broken, destroyed>>
        /\ pending' \in Nat
    BY <1>7 DEF HandleError
  <2>2. posted' \in Seq(Completions)
    <3>1. posted # <<>> /\ (posted' = Tail(posted) \/ posted' = Append(Tail(posted), Head(posted)))
      BY <1>7 DEF HandleError
    <3>2. Tail(posted) \in Seq(Completions) /\ Head(posted) \in Completions
      BY <3>1, LiveTail
    <3> QED
      BY <3>1, <3>2, LiveAppend
  <2> QED
    BY <2>1, <2>2
<1>8. CASE HandleRead
  BY <1>8, LiveTail DEF HandleRead
<1>9. CASE HandleMessage
  BY <1>9 DEF HandleMessage
<1>10. CASE EndOfBatch
  <2>1. /\ UNCHANGED <<running, rcvq, events, broken, destroyed>>
        /\ handler' = "idle"
        /\ pending' \in Nat
    BY <1>10 DEF EndOfBatch, RequestRead
  <2>2. posted' \in Seq(Completions)
    BY <1>10, <1>1, LiveAppend DEF EndOfBatch, RequestRead
  <2> QED
    BY <2>1, <2>2
<1>11. CASE SkipSlot \/ SpawnSlot \/ CallSlot \/ SlotReturns \/ EndOfEmission
  BY <1>11 DEF SkipSlot, SpawnSlot, CallSlot, SlotReturns, EndOfEmission
<1>12. CASE SlotThrows \/ RunTask
  <2>1. /\ UNCHANGED <<running, pending, posted, rcvq, events, destroyed>>
        /\ handler' = handler \/ handler' = "idle"
        /\ broken' = broken \/ broken' = TRUE
    BY <1>12 DEF SlotThrows, RunTask
  <2> QED
    BY <2>1
<1>13. CASE Announce
  <2>1. PICK n \in 1..MaxBatch : \E hs \in [1..n -> Headers] :
            /\ events' = events + n
            /\ rcvq' = IF st = "ready" /\ Len(rcvq) < RcvCap
                       THEN Append(rcvq, [i \in 1..n |->
                              [id |-> events + i, type |-> hs[i].type, long |-> hs[i].long]])
                       ELSE rcvq
    BY <1>13 DEF Announce
  <2>2. PICK hs \in [1..n -> Headers] :
            rcvq' = IF st = "ready" /\ Len(rcvq) < RcvCap
                    THEN Append(rcvq, [i \in 1..n |->
                           [id |-> events + i, type |-> hs[i].type, long |-> hs[i].long]])
                    ELSE rcvq
    BY <2>1
  <2> DEFINE d == [i \in 1..n |->
                     [id |-> events + i, type |-> hs[i].type, long |-> hs[i].long]]
  <2>3. n \in Nat /\ events' = events + n
    BY <2>1, ListenerAssumption
  <2>4. ASSUME NEW i \in 1..n PROVE d[i] \in Messages
    <3>1. hs[i] \in Header
      BY <2>2, ListenerAssumption
    <3> QED
      BY <3>1, <2>3 DEF Header, Messages
  <2>5. d \in Seq(Messages)
    BY <2>3, <2>4
  <2>6. rcvq' = rcvq \/ rcvq' = Append(rcvq, d)
    BY <2>2
  <2>7. rcvq' \in Seq(Seq(Messages))
    <3>1. ASSUME NEW T, NEW q \in Seq(T), NEW e \in T PROVE Append(q, e) \in Seq(T)
      OBVIOUS
    <3> HIDE DEF d
    <3>2. Append(rcvq, d) \in Seq(Seq(Messages))
      BY <2>5, <3>1
    <3> QED
      BY <2>6, <3>2
  <2>8. UNCHANGED <<running, pending, posted, handler, broken, destroyed>>
    BY <1>13 DEF Announce
  <2> QED
    BY <2>3, <2>7, <2>8
<1>14. CASE Receive
  <2>1. /\ UNCHANGED <<running, handler, events, broken, destroyed>>
        /\ pending' \in Nat
        /\ rcvq' \in Seq(Seq(Messages))
    BY <1>14 DEF Receive
  <2>2. Len(Head(rcvq)) \in Nat
    BY <1>14 DEF Receive
  <2>3. posted' \in Seq(Completions)
    BY <1>14, <1>1, <2>2, LiveAppend DEF Receive
  <2> QED
    BY <2>1, <2>3
<1>15. CASE ReceiveFault
  <2>1. /\ UNCHANGED <<running, rcvq, handler, events, broken, destroyed>>
        /\ pending' \in Nat
    BY <1>15 DEF ReceiveFault
  <2>2. posted' \in Seq(Completions)
    BY <1>15, <1>1, LiveAppend DEF ReceiveFault
  <2> QED
    BY <2>1, <2>2
<1>16. CASE UNCHANGED vars
  BY <1>16 DEF vars
<1>17. CASE Destroy
  <2>1. /\ running' = FALSE /\ pending' = 0 /\ rcvq' = <<>>
        /\ destroyed' = TRUE /\ UNCHANGED <<handler, events, broken>>
    BY <1>17 DEF Destroy, StopSocket
  <2>2. posted' \in Seq(Completions)
    BY <1>17, AbortedType DEF Destroy, StopSocket
  <2>3. rcvq' \in Seq(Seq(Messages))
    BY <2>1
  <2> QED
    BY <2>1, <2>2, <2>3
<1>18. CASE HandleDangling
  BY <1>18, LiveTail DEF HandleDangling
<1> QED
  BY <1>17, <1>18, <1>2, <1>3, <1>4, <1>5, <1>6, <1>7, <1>8, <1>9, <1>10, <1>11, <1>12, <1>13, <1>14,
     <1>15, <1>16 DEF Next, User, Handle
\* A running listener keeps reading, over errors, stops and restarts at any
\* moment, also from a slot (every path of handle_read ends in request_read).
THEOREM ReadLoopAliveTheorem == Spec => []ReadLoopAlive
<1>1. Init => LoopType /\ ReadLoopAlive
  BY LoopTypeInit DEF Init, ReadLoopAlive
<1>2. LoopType /\ ReadLoopAlive /\ [Next]_vars => LoopType' /\ ReadLoopAlive'
  <2> SUFFICES ASSUME LoopType, ReadLoopAlive, [Next]_vars
               PROVE  ReadLoopAlive'
    BY LoopTypeStep
  <2> USE DEF LoopType, ReadLoopAlive, Live, session, reading, slots, life, bounds
  <2>1. CASE Start
    BY <2>1 DEF Start, RequestRead
  <2>2. CASE StartFails
    BY <2>2 DEF StartFails
  <2>3. CASE Stop
    <3>1. running' = FALSE
      BY <2>3 DEF Stop
    <3> QED
      BY <3>1
  <2>4. CASE \E s \in Slots : Connect(s) \/ Disconnect(s)
    <3>1. UNCHANGED <<running, broken, pending, posted, handler>>
      BY <2>4 DEF Connect, Disconnect
    <3> QED
      BY <3>1
  <2>5. CASE HandleStale
    <3> SUFFICES ASSUME running, ~broken, pending = 0, handler = "idle"
                 PROVE  Live' # {}
      BY <2>5 DEF HandleStale
    <3>1. /\ posted # <<>> /\ posted' = Tail(posted)
          /\ Head(posted).ec = "aborted"
      BY <2>5 DEF HandleStale
    <3>2. PICK i \in DOMAIN posted : posted[i].ec # "aborted"
      OBVIOUS
    <3>3. i # 1 /\ i - 1 \in DOMAIN Tail(posted) /\ Tail(posted)[i - 1] = posted[i]
      BY <3>1, <3>2, LiveTail
    <3> QED
      BY <3>1, <3>2, <3>3
  <2>6. CASE HandleError
    <3>1. CASE IsOpen(st)
      BY <2>6, <3>1 DEF HandleError
    <3>2. CASE ~IsOpen(st)
      <4>1. /\ posted # <<>> /\ Head(posted).ec = "error"
            /\ posted' = Append(Tail(posted), Head(posted))
        BY <2>6, <3>2 DEF HandleError
      <4>2. Tail(posted) \in Seq(Completions) /\ Head(posted) \in Completions
        BY <4>1, LiveTail
      <4>3. /\ Len(Tail(posted)) + 1 \in DOMAIN posted'
            /\ posted'[Len(Tail(posted)) + 1] = Head(posted)
        BY <4>1, <4>2, LiveAppend
      <4>4. Live' # {}
        BY <4>1, <4>3
      <4> QED
        BY <4>4
    <3> QED
      BY <3>1, <3>2
  <2>7. CASE HandleRead
    BY <2>7 DEF HandleRead
  <2>8. CASE HandleMessage
    BY <2>8 DEF HandleMessage
  <2>9. CASE EndOfBatch
    <3> DEFINE c == [ec |-> "error", len |-> 0]
    <3>1. c \in Completions /\ c.ec # "aborted"
      BY DEF Completions
    <3>2. \/ ~running'
          \/ pending' = pending + 1
          \/ posted' = Append(posted, c)
      BY <2>9 DEF EndOfBatch, RequestRead
    <3> HIDE DEF c
    <3>3. CASE posted' = Append(posted, c)
      BY <3>1, <3>3, LiveAppend
    <3> QED
      BY <3>2, <3>3
  <2>10. CASE SkipSlot \/ SpawnSlot \/ CallSlot \/ SlotReturns \/ EndOfEmission
    BY <2>10 DEF SkipSlot, SpawnSlot, CallSlot, SlotReturns, EndOfEmission
  <2>11. CASE SlotThrows
    <3>1. broken'
      BY <2>11 DEF SlotThrows
    <3> QED
      BY <3>1
  <2>12. CASE RunTask
    BY <2>12 DEF RunTask
  <2>13. CASE Announce
    BY <2>13 DEF Announce
  <2>14. CASE Receive
    <3> DEFINE c == [ec |-> "ok", len |-> Len(Head(rcvq))]
    <3>1. c \in Completions /\ c.ec # "aborted"
      BY <2>14 DEF Receive, Completions
    <3>2. posted' = Append(posted, c)
      BY <2>14 DEF Receive
    <3> HIDE DEF c
    <3> QED
      BY <3>1, <3>2, LiveAppend
  <2>15. CASE ReceiveFault
    <3> DEFINE c == [ec |-> "error", len |-> 0]
    <3>1. c \in Completions /\ c.ec # "aborted"
      BY DEF Completions
    <3>2. posted' = Append(posted, c)
      BY <2>15 DEF ReceiveFault
    <3> HIDE DEF c
    <3> QED
      BY <3>1, <3>2, LiveAppend
  <2>16. CASE UNCHANGED vars
    BY <2>16 DEF vars
  <2>17. CASE Destroy
    BY <2>17 DEF Destroy
  <2>18. CASE HandleDangling
    BY <2>18 DEF HandleDangling
  <2> QED
    BY <2>17, <2>18, <2>1, <2>2, <2>3, <2>4, <2>5, <2>6, <2>7, <2>8, <2>9, <2>10, <2>11, <2>12, <2>13,
       <2>14, <2>15, <2>16 DEF Next, User, Handle
<1> QED
  BY <1>1, <1>2, PTL DEF Spec
\* Handling completions one by one: what is left of a set with one live member.
LEMMA LiveAfterTail ==
    ASSUME posted \in Seq(Completions), posted # <<>>, posted' = Tail(posted),
           \A i, j \in Live : i = j
    PROVE  /\ \A i, j \in Live' : i = j
           /\ Live = {} => Live' = {}
           /\ Head(posted).ec # "aborted" => Live' = {}
<1> USE DEF Live
<1>1. \A i \in Live' : i + 1 \in Live /\ i \in Int /\ i + 1 # 1
  BY LiveTail
<1>2. \A i, j \in Live' : i + 1 = j + 1
  BY <1>1
<1>3. \A i, j \in Live' : i = j
  BY <1>1, <1>2
<1>4. Head(posted).ec # "aborted" => 1 \in Live
  BY LiveTail
<1> QED
  BY <1>1, <1>3, <1>4

\* A new completion is the only live one if there was none.
LEMMA LiveAfterAppend ==
    ASSUME posted \in Seq(Completions), NEW c \in Completions,
           posted' = Append(posted, c), Live = {}
    PROVE  \A i, j \in Live' : i = j
  BY LiveAppend DEF Live

\* The one read under way becomes the one live completion.
LEMMA ReadCompletes ==
    ASSUME LoopInv, NEW c \in Completions, posted' = Append(posted, c),
           pending > 0, pending' = pending - 1, UNCHANGED <<running, handler>>
    PROVE  StoppedIsQuiet' /\ SingleReadLoop'
<1> USE DEF LoopInv, LoopType, StoppedIsQuiet, SingleReadLoop
<1>1. running /\ pending = 1 /\ Live = {} /\ handler = "idle"
  OBVIOUS
<1>2. \A i, j \in Live' : i = j
  BY <1>1, LiveAfterAppend
<1> QED
  BY <1>1, <1>2

\* No step of a listener that is restarted patiently adds a second read.
LEMMA LoopStep ==
    ASSUME PatientOwner, LoopInv, [Next]_vars
    PROVE  LoopInv'
<1> SUFFICES StoppedIsQuiet' /\ SingleReadLoop'
  BY LoopTypeStep DEF LoopInv
<1> USE DEF LoopInv, LoopType, StoppedIsQuiet, SingleReadLoop, session, reading, slots, life, bounds
<1>1. CASE Start
  <2>1. /\ posted = <<>> /\ posted' = posted /\ handler = "idle" /\ handler' = handler
        /\ pending' = 1 /\ running'
    BY <1>1 DEF Start, MayStart, RequestRead, Lingering
  <2>2. Live' = {}
    BY <2>1 DEF Live
  <2> QED
    BY <2>1, <2>2
<1>2. CASE StartFails
  BY <1>2 DEF StartFails, Live
<1>3. CASE Stop
  BY <1>3 DEF Stop, StopSocket
<1>4. CASE \E s \in Slots : Connect(s) \/ Disconnect(s)
  BY <1>4 DEF Connect, Disconnect, Live
<1>5. CASE HandleStale
  <2>1. /\ posted # <<>> /\ posted' = Tail(posted)
        /\ UNCHANGED <<running, pending, handler>> /\ handler = "idle"
    BY <1>5 DEF HandleStale
  <2> QED
    BY <2>1, LiveAfterTail
<1>6. CASE HandleError
  <2>1. /\ posted # <<>> /\ running /\ running' /\ handler = "idle" /\ handler' = handler
        /\ Head(posted).ec # "aborted"
    BY <1>6 DEF HandleError
  <2>2. Live # {}
    BY <2>1, LiveTail DEF Live
  <2>3. pending = 0
    BY <2>1, <2>2
  <2>4. CASE IsOpen(st)
    <3>1. posted' = Tail(posted) /\ pending' = 1
      BY <1>6, <2>3, <2>4 DEF HandleError
    <3>2. Live' = {}
      BY <2>1, <3>1, LiveAfterTail
    <3> QED
      BY <2>1, <3>1, <3>2
  <2>5. CASE ~IsOpen(st)
    <3>1. posted' = Append(Tail(posted), Head(posted)) /\ pending' = 0
      BY <1>6, <2>3, <2>5 DEF HandleError
    <3>2. /\ Tail(posted) \in Seq(Completions) /\ Head(posted) \in Completions
          /\ \A i \in DOMAIN Tail(posted) : Tail(posted)[i].ec = "aborted"
      BY <2>1, LiveTail DEF Live
    <3>3. \A i, j \in Live' : i = j
      BY <3>1, <3>2, LiveAppend DEF Live
    <3> QED
      BY <2>1, <3>1, <3>3
  <2> QED
    BY <2>4, <2>5
<1>7. CASE HandleRead
  <2>1. /\ posted # <<>> /\ posted' = Tail(posted) /\ running /\ running'
        /\ Head(posted).ec # "aborted" /\ UNCHANGED pending
    BY <1>7 DEF HandleRead
  <2>2. Live # {}
    BY <2>1, LiveTail DEF Live
  <2>3. pending = 0 /\ Live' = {}
    BY <2>1, <2>2, LiveAfterTail
  <2> QED
    BY <2>1, <2>3
<1>8. CASE HandleMessage
  BY <1>8 DEF HandleMessage, Live
<1>9. CASE EndOfBatch
  <2>1. /\ handler = "message" /\ handler' = "idle" /\ running' = running
    BY <1>9 DEF EndOfBatch
  <2>2. CASE ~running
    BY <1>9, <2>1, <2>2 DEF EndOfBatch
  <2>3. CASE running
    <3>1. pending = 0 /\ Live = {}
      BY <2>1, <2>3
    <3> DEFINE c == [ec |-> "error", len |-> 0]
    <3>2. c \in Completions
      BY DEF Completions
    <3>3. \/ pending' = 1 /\ posted' = posted
          \/ pending' = 0 /\ posted' = Append(posted, c)
      BY <1>9, <2>3, <3>1 DEF EndOfBatch, RequestRead
    <3> HIDE DEF c
    <3>4. CASE pending' = 1 /\ posted' = posted
      <4>1. Live' = {}
        BY <3>1, <3>4 DEF Live
      <4> QED
        BY <2>1, <2>3, <3>4, <4>1
    <3>5. CASE pending' = 0 /\ posted' = Append(posted, c)
      <4>1. \A i, j \in Live' : i = j
        BY <3>1, <3>2, <3>5, LiveAfterAppend
      <4> QED
        BY <2>1, <2>3, <3>5, <4>1
    <3> QED
      BY <3>3, <3>4, <3>5
  <2> QED
    BY <2>2, <2>3
<1>10. CASE SkipSlot \/ SpawnSlot \/ CallSlot \/ SlotReturns \/ EndOfEmission
  BY <1>10 DEF SkipSlot, SpawnSlot, CallSlot, SlotReturns, EndOfEmission, Live
<1>11. CASE SlotThrows \/ RunTask
  BY <1>11 DEF SlotThrows, RunTask, Live
<1>12. CASE Announce
  BY <1>12 DEF Announce, Live
<1>13. CASE Receive
  <2> DEFINE c == [ec |-> "ok", len |-> Len(Head(rcvq))]
  <2>1. c \in Completions
    BY <1>13 DEF Receive, Completions
  <2>2. /\ posted' = Append(posted, c) /\ pending > 0 /\ pending' = pending - 1
        /\ UNCHANGED <<running, handler>>
    BY <1>13 DEF Receive
  <2> HIDE DEF c
  <2> QED
    BY <2>1, <2>2, ReadCompletes
<1>14. CASE ReceiveFault
  <2> DEFINE c == [ec |-> "error", len |-> 0]
  <2>1. c \in Completions
    BY DEF Completions
  <2>2. /\ posted' = Append(posted, c) /\ pending > 0 /\ pending' = pending - 1
        /\ UNCHANGED <<running, handler>>
    BY <1>14 DEF ReceiveFault
  <2> HIDE DEF c
  <2> QED
    BY <2>1, <2>2, ReadCompletes
<1>15. CASE UNCHANGED vars
  BY <1>15 DEF vars, Live
<1>16. CASE Destroy
  BY <1>16 DEF Destroy, StopSocket
<1>17. CASE HandleDangling
  BY <1>17 DEF HandleDangling
<1> QED
  BY <1>16, <1>17, <1>1, <1>2, <1>3, <1>4, <1>5, <1>6, <1>7, <1>8, <1>9, <1>10, <1>11, <1>12, <1>13,
     <1>14, <1>15 DEF Next, User, Handle

\* So the loop of a patient owner is in order in every state.
LEMMA LoopInvariant == Spec => [](PatientOwner => LoopInv)
<1>1. Init => LoopInv
  <2> SUFFICES ASSUME Init PROVE LoopInv
    OBVIOUS
  <2>1. LoopType
    BY LoopTypeInit
  <2> QED
    BY <2>1 DEF Init, LoopInv, StoppedIsQuiet, SingleReadLoop
<1>2. (PatientOwner => LoopInv) /\ [Next]_vars => (PatientOwner => LoopInv)'
  BY LoopStep
<1> QED
  BY <1>1, <1>2, PTL DEF Spec

\* When the listener is started again only after the handlers of the stopped
\* session have run, at most one read is under way or being handled, so buffer_
\* is never written while a datagram in it is worked off.
THEOREM SingleReadLoopTheorem == Spec => [](PatientOwner => SingleReadLoop)
<1>1. LoopInv => SingleReadLoop
  BY DEF LoopInv
<1> QED
  BY <1>1, LoopInvariant, PTL

\* Nothing of a listener that was destroyed patiently is left with the reactor.
GoneInv == LoopInv /\ dangling = FALSE /\ (destroyed => posted = <<>>)

\* No step leaves a handler to a listener that is gone.
LEMMA GoneStep ==
    ASSUME PatientOwner, GoneInv, [Next]_vars
    PROVE  GoneInv'
<1>1. LoopInv'
  BY LoopStep DEF GoneInv
<1> SUFFICES dangling' = FALSE /\ (destroyed' => posted' = <<>>)
  BY <1>1 DEF GoneInv
<1> USE DEF GoneInv, LoopInv, LoopType, StoppedIsQuiet, session, reading, slots, life, bounds
<1>2. CASE Start
  BY <1>2 DEF Start, Callable
<1>3. CASE StartFails
  BY <1>3 DEF StartFails
<1>4. CASE Stop
  BY <1>4 DEF Stop, Callable
<1>5. CASE Destroy
  <2>1. posted = <<>> /\ pending = 0 /\ UNCHANGED dangling
    BY <1>5 DEF Destroy, Lingering
  <2>2. posted' = posted \o [i \in 1..pending |-> [ec |-> "aborted", len |-> 0]]
    BY <1>5 DEF Destroy, StopSocket
  <2>3. posted' = <<>>
    BY <2>1, <2>2
  <2> QED
    BY <2>1, <2>3
<1>6. CASE \E s \in Slots : Connect(s) \/ Disconnect(s)
  BY <1>6 DEF Connect, Disconnect
<1>7. CASE HandleStale
  BY <1>7 DEF HandleStale
<1>8. CASE HandleError \/ HandleRead
  BY <1>8 DEF HandleError, HandleRead
<1>9. CASE HandleMessage
  BY <1>9 DEF HandleMessage
<1>10. CASE EndOfBatch
  BY <1>10 DEF EndOfBatch
<1>11. CASE SkipSlot \/ SpawnSlot \/ CallSlot \/ SlotReturns \/ EndOfEmission
  BY <1>11 DEF SkipSlot, SpawnSlot, CallSlot, SlotReturns, EndOfEmission
<1>12. CASE SlotThrows \/ RunTask
  BY <1>12 DEF SlotThrows, RunTask
<1>13. CASE HandleDangling
  BY <1>13 DEF HandleDangling
<1>14. CASE Announce
  BY <1>14 DEF Announce
<1>15. CASE Receive \/ ReceiveFault
  BY <1>15 DEF Receive, ReceiveFault
<1>16. CASE UNCHANGED vars
  BY <1>16 DEF vars
<1> QED
  BY <1>2, <1>3, <1>4, <1>5, <1>6, <1>7, <1>8, <1>9, <1>10, <1>11, <1>12, <1>13, <1>14,
     <1>15, <1>16 DEF Next, User, Handle

\* When the owner stops the listener and lets its handlers run before it destroys
\* it, no handler runs on the destroyed object, whatever errors, restarts and
\* throwing slots came before (stop() cancels every receive that request_read
\* started).
THEOREM NothingAfterDestructionTheorem == Spec => [](PatientOwner => NothingAfterDestruction)
<1> DEFINE Inv == PatientOwner => GoneInv
<1>1. Init => Inv
  <2> SUFFICES ASSUME Init PROVE GoneInv
    OBVIOUS
  <2>1. LoopType
    BY LoopTypeInit
  <2> QED
    BY <2>1 DEF Init, GoneInv, LoopInv, StoppedIsQuiet, SingleReadLoop
<1>2. Inv /\ [Next]_vars => Inv'
  BY GoneStep
<1>3. Inv => (PatientOwner => NothingAfterDestruction)
  BY DEF GoneInv, NothingAfterDestruction
<1> QED
  BY <1>1, <1>2, <1>3, PTL DEF Spec
=============================================================================
