---------------------------- MODULE ControlProofs ----------------------------
(***************************************************************************)
(* Proofs about Control, for every set of calls, every table of entries,   *)
(* and every bound.                                                        *)
(***************************************************************************)
EXTENDS Control, SequenceTheorems, TLAPS

-----------------------------------------------------------------------------
(* Elements of sequences. *)

\* The shape of an appended sequence.
LEMMA AppendShape ==
    ASSUME NEW S, NEW q \in Seq(S), NEW x \in S
    PROVE  /\ Append(q, x) \in Seq(S)
           /\ DOMAIN Append(q, x) = 1..(Len(q) + 1)
           /\ DOMAIN q = 1..Len(q)
           /\ \A i \in 1..Len(q) : Append(q, x)[i] = q[i]
           /\ Append(q, x)[Len(q) + 1] = x
           /\ Len(q) \in Nat
BY AppendProperties, LenProperties

\* Appending adds one element.
LEMMA ElemsAppend ==
    ASSUME NEW S, NEW q \in Seq(S), NEW x \in S
    PROVE  Append(q, x) \in Seq(S) /\ Elems(Append(q, x)) = Elems(q) \cup {x}
<1>1. /\ Append(q, x) \in Seq(S)
      /\ DOMAIN Append(q, x) = 1..(Len(q) + 1)
      /\ DOMAIN q = 1..Len(q)
      /\ \A i \in 1..Len(q) : Append(q, x)[i] = q[i]
      /\ Append(q, x)[Len(q) + 1] = x
      /\ Len(q) \in Nat
  BY AppendShape
<1>2. ASSUME NEW y \in Elems(Append(q, x)) PROVE y \in Elems(q) \cup {x}
  BY <1>1 DEF Elems
<1>3. Elems(q) \cup {x} \subseteq Elems(Append(q, x))
  BY <1>1 DEF Elems
<1> QED BY <1>1, <1>2, <1>3

\* Head and Tail share out the elements.
LEMMA ElemsHeadTail ==
    ASSUME NEW S, NEW q \in Seq(S), q # <<>>
    PROVE  /\ Head(q) \in S /\ Tail(q) \in Seq(S)
           /\ Head(q) \in Elems(q)
           /\ Elems(Tail(q)) \subseteq Elems(q)
           /\ Elems(q) \subseteq {Head(q)} \cup Elems(Tail(q))
<1>1. Len(q) > 0 /\ 1 \in DOMAIN q
  BY EmptySeq
<1>2. Head(q) \in S /\ Tail(q) \in Seq(S) /\ Head(q) \in Elems(q)
  BY <1>1 DEF Elems
<1>3. \A i \in DOMAIN Tail(q) : i + 1 \in DOMAIN q /\ Tail(q)[i] = q[i + 1]
  BY <1>1, HeadTailProperties
<1>4. Elems(Tail(q)) \subseteq Elems(q)
  BY <1>3 DEF Elems
<1>5. ASSUME NEW i \in DOMAIN q, i # 1 PROVE q[i] \in Elems(Tail(q))
  <2>1. i - 1 \in DOMAIN Tail(q) /\ Tail(q)[i - 1] = q[i]
    BY <1>1, <1>5, HeadTailProperties
  <2> QED BY <2>1 DEF Elems
<1>6. Head(q) = q[1]
  BY <1>1
<1> QED BY <1>2, <1>4, <1>5, <1>6 DEF Elems

\* Concatenation puts the elements together.
LEMMA ElemsConcat ==
    ASSUME NEW S, NEW p \in Seq(S), NEW q \in Seq(S)
    PROVE  p \o q \in Seq(S) /\ Elems(p \o q) = Elems(p) \cup Elems(q)
<1>1. /\ p \o q \in Seq(S)
      /\ Len(p \o q) = Len(p) + Len(q)
      /\ \A i \in 1..Len(p) + Len(q) :
            (p \o q)[i] = IF i <= Len(p) THEN p[i] ELSE q[i - Len(p)]
  BY ConcatProperties
<1>2. ASSUME NEW i \in DOMAIN (p \o q)
      PROVE  (p \o q)[i] \in Elems(p) \cup Elems(q)
  <2>1. i \in 1..Len(p) + Len(q)
    BY <1>1
  <2>2. CASE i <= Len(p)
    BY <2>1, <2>2, <1>1 DEF Elems
  <2>3. CASE i > Len(p)
    <3>1. i - Len(p) \in DOMAIN q /\ (p \o q)[i] = q[i - Len(p)]
      BY <2>1, <2>3, <1>1
    <3> QED BY <3>1 DEF Elems
  <2> QED BY <2>1, <2>2, <2>3
<1>3. ASSUME NEW i \in DOMAIN p PROVE p[i] \in Elems(p \o q)
  <2>1. i \in 1..Len(p) + Len(q) /\ i <= Len(p)
    BY LenProperties
  <2> QED BY <1>1, <2>1 DEF Elems
<1>4. ASSUME NEW i \in DOMAIN q PROVE q[i] \in Elems(p \o q)
  <2>1. /\ i + Len(p) \in 1..Len(p) + Len(q) /\ ~(i + Len(p) <= Len(p))
        /\ (i + Len(p)) - Len(p) = i
    BY LenProperties
  <2> QED BY <1>1, <2>1 DEF Elems
<1> QED BY <1>1, <1>2, <1>3, <1>4 DEF Elems

\* A part of a sequence has no new elements.
LEMMA ElemsSubSeq ==
    ASSUME NEW S, NEW q \in Seq(S), NEW i \in 1..(Len(q) + 1), NEW j \in 0..Len(q)
    PROVE  SubSeq(q, i, j) \in Seq(S) /\ Elems(SubSeq(q, i, j)) \subseteq Elems(q)
<1>1. SubSeq(q, i, j) \in Seq(S)
  BY SubSeqProperties
<1>2. \A k \in DOMAIN SubSeq(q, i, j) : k + i - 1 \in DOMAIN q /\ SubSeq(q, i, j)[k] = q[k + i - 1]
  BY SubSeqProperties
<1>3. Elems(SubSeq(q, i, j)) \subseteq Elems(q)
  BY <1>2 DEF Elems
<1> QED BY <1>1, <1>3

\* The empty sequence has no elements.
LEMMA ElemsEmpty == Elems(<<>>) = {}
BY DEF Elems

-----------------------------------------------------------------------------
(* What the operators of RequestTask and Control return. *)

\* The constructors of messages give messages.
LEMMA MessageTypes ==
    ASSUME NEW q \in Nat, NEW e \in Entries, NEW c \in Codes
    PROVE  /\ NewMsg(q, e) \in Messages /\ DelMsg(q, e) \in Messages
           /\ DoneMsg(q, c) \in Messages /\ ErrorMsg(q, c) \in Messages
BY DEF NewMsg, DelMsg, DoneMsg, ErrorMsg, Messages, Codes

\* A request asks for a dump, for an acknowledgement, or for one entry.
LEMMA TaskFlags ==
    ASSUME NEW k \in AllKinds
    PROVE  Task(k).flags \in {{"DUMP"}, {"ACK"}, {}}
BY DEF AllKinds, Dumps, NeighborOps, Task, RouteDumpTask, AddressDumpTask, LinkDumpTask,
       NeighborDumpTask, NeighborProbeTask, NeighborFlushTask, NeighborGetTask

\* An answer is a non-empty sequence of messages that carry the number of the
\* request.
LEMMA AnswersCarrySeq ==
    ASSUME NEW k \in AllKinds, NEW q \in Nat, NEW a \in Answers(k, q)
    PROVE  /\ a \in Seq(Messages) /\ Len(a) \in Nat \ {0}
           /\ \A m \in Elems(a) : m.seq = q
<1> DEFINE known == {e \in Entries : e.family = Task(k).family}
           listing(es, c) == [i \in 1..(Len(es) + 1) |->
                                IF i <= Len(es) THEN NewMsg(q, es[i]) ELSE DoneMsg(q, c)]
           listed == Task(k).flags = {"DUMP"} /\ \E n \in 0..MaxDump, c \in {"0"} \cup KernelErrors :
                        \E es \in [1..n -> known] : a = listing(es, c)
<1>1. ASSUME NEW m \in Messages, m.seq = q, a = <<m>>
      PROVE  /\ a \in Seq(Messages) /\ Len(a) \in Nat \ {0}
             /\ \A x \in Elems(a) : x.seq = q
  BY <1>1 DEF Elems
<1>2. CASE \E c \in KernelErrors : a = <<ErrorMsg(q, c)>>
  <2>1. PICK c \in KernelErrors : a = <<ErrorMsg(q, c)>>
    BY <1>2
  <2>2. ErrorMsg(q, c) \in Messages /\ ErrorMsg(q, c).seq = q
    BY DEF ErrorMsg, Messages, Codes
  <2> QED BY <2>1, <2>2, <1>1
<1>3. CASE listed
  <2>0. PICK n \in 0..MaxDump, c \in {"0"} \cup KernelErrors :
           \E es \in [1..n -> known] : a = listing(es, c)
    BY <1>3
  <2>1. PICK es \in [1..n -> known] : a = listing(es, c)
    BY <2>0
  <2>2. n \in Nat /\ Len(es) = n /\ es \in Seq(known)
    BY ControlAssumption
  <2>3. \A i \in 1..(n + 1) : a[i] \in Messages /\ a[i].seq = q
    BY <2>1, <2>2 DEF NewMsg, DoneMsg, Messages, Codes
  <2>4. DOMAIN a = 1..(n + 1)
    BY <2>1, <2>2
  <2>5. a \in [1..(n + 1) -> Messages]
    BY <2>1, <2>2, <2>3
  <2>6. a \in Seq(Messages) /\ Len(a) = n + 1
    BY <2>2, <2>5
  <2> QED BY <2>2, <2>3, <2>4, <2>6 DEF Elems
<1>4. CASE Task(k).flags = {"ACK"} /\ a = <<ErrorMsg(q, "0")>>
  <2>1. ErrorMsg(q, "0") \in Messages /\ ErrorMsg(q, "0").seq = q
    BY DEF ErrorMsg, Messages, Codes
  <2> QED BY <2>1, <1>1, <1>4
<1>5. CASE Task(k).flags = {} /\ \E e \in known : a = <<NewMsg(q, e)>>
  <2>1. PICK e \in Entries : a = <<NewMsg(q, e)>>
    BY <1>5
  <2>2. NewMsg(q, e) \in Messages /\ NewMsg(q, e).seq = q
    BY DEF NewMsg, Messages, Codes
  <2> QED BY <2>1, <2>2, <1>1
<1>6. \/ \E c \in KernelErrors : a = <<ErrorMsg(q, c)>>
      \/ listed
      \/ Task(k).flags = {"ACK"} /\ a = <<ErrorMsg(q, "0")>>
      \/ Task(k).flags = {} /\ \E e \in known : a = <<NewMsg(q, e)>>
  <2>1. CASE Task(k).flags = {"DUMP"}
    BY <2>1 DEF Answers
  <2>2. CASE Task(k).flags = {"ACK"}
    BY <2>2 DEF Answers
  <2>3. CASE Task(k).flags = {}
    BY <2>3 DEF Answers
  <2> QED BY <2>1, <2>2, <2>3, TaskFlags
<1> QED BY <1>2, <1>3, <1>4, <1>5, <1>6

\* However an answer is cut into datagrams, they carry its messages only.
LEMMA DatagramsCarry ==
    ASSUME NEW a \in Seq(Messages), NEW n \in 1..Len(a)
    PROVE  /\ Datagrams(a, n) \in Seq(Seq(Messages))
           /\ \A d \in Elems(Datagrams(a, n)) : Elems(d) \subseteq Elems(a)
<1> DEFINE ds == Datagrams(a, n)
<1>1. CASE n = Len(a)
  <2>1. ds = <<a>>
    BY <1>1 DEF Datagrams
  <2> HIDE DEF ds
  <2>2. ds \in Seq(Seq(Messages)) /\ \A d \in Elems(ds) : Elems(d) \subseteq Elems(a)
    BY <2>1 DEF Elems
  <2> QED BY <2>2 DEF ds
<1>2. CASE n # Len(a)
  <2>1. Len(a) \in Nat /\ n + 1 \in 1..(Len(a) + 1) /\ n \in 0..Len(a) /\ 1 \in 1..(Len(a) + 1)
    BY <1>2, LenProperties
  <2>2. /\ SubSeq(a, 1, n) \in Seq(Messages) /\ Elems(SubSeq(a, 1, n)) \subseteq Elems(a)
        /\ SubSeq(a, n + 1, Len(a)) \in Seq(Messages)
        /\ Elems(SubSeq(a, n + 1, Len(a))) \subseteq Elems(a)
    BY <2>1, ElemsSubSeq
  <2> DEFINE u == SubSeq(a, 1, n)  v == SubSeq(a, n + 1, Len(a))
  <2> HIDE DEF u, v
  <2>3. ds = <<u, v>>
    BY <1>2 DEF u, v, Datagrams
  <2>4. /\ u \in Seq(Messages) /\ Elems(u) \subseteq Elems(a)
        /\ v \in Seq(Messages) /\ Elems(v) \subseteq Elems(a)
    BY <2>2 DEF u, v
  <2> HIDE DEF ds
  <2>5. ds \in Seq(Seq(Messages))
    BY <2>3, <2>4
  <2>6. DOMAIN ds = {1, 2} /\ ds[1] = u /\ ds[2] = v
    BY <2>3
  <2>7. \A d \in Elems(ds) : d = u \/ d = v
    BY <2>6 DEF Elems
  <2> QED BY <2>4, <2>5, <2>7 DEF ds
<1> QED BY <1>1, <1>2

\* A task's value is a result.
LEMMA OutcomeType ==
    ASSUME NEW k \in AllKinds, NEW l \in Seq(Entries), NEW m \in Messages, Completes(k, m)
    PROVE  Outcome(k, l, m) \in Results
<1>1. CASE m.type = "ERROR" /\ m.code # "0"
  <2>1. m.code \in Codes
    BY <1>1 DEF Messages, Codes
  <2> QED BY <1>1, <2>1 DEF Outcome, Error, Results, Ok
<1>2. CASE m.type = "NEW"
  <2>1. m.entry \in Entries
    BY <1>2 DEF Messages
  <2>2. <<m.entry>> \in Seq(Entries) /\ "0" \in Codes
    BY <2>1 DEF Codes
  <2> QED BY <1>2, <2>2 DEF Outcome, Ok, Results
<1>3. CASE m.type = "DONE" \/ (m.type = "ERROR" /\ m.code = "0")
  BY <1>3 DEF Outcome, Ok, Error, Results, Codes, LocalErrors
<1>4. CASE m.type = "DEL"
  <2>1. ~Completes(k, m)
    BY <1>4 DEF Completes, Task, AllKinds, Dumps, NeighborOps, RouteDumpTask, AddressDumpTask,
                LinkDumpTask, NeighborDumpTask, NeighborProbeTask, NeighborFlushTask,
                NeighborGetTask
  <2> QED BY <2>1
<1> QED BY <1>1, <1>2, <1>3, <1>4 DEF Messages

-----------------------------------------------------------------------------
(* Type correctness. *)

\* The results of calls that fail in this process.
LEMMA ResultTypes ==
    ASSUME NEW c \in {"0"} \cup LocalErrors
    PROVE  /\ Error(c) \in Results /\ Thrown \in Results /\ NoResult \in Results
           /\ c \in Codes /\ {"0", "EIO", "EBADF", "ECANCELED"} \subseteq {"0"} \cup LocalErrors
BY DEF Error, Thrown, NoResult, Results, Codes, LocalErrors

\* A new Control object is well typed.
LEMMA TypeInit == Init => TypeOK
<1> SUFFICES ASSUME Init PROVE TypeOK
  OBVIOUS
<1>1. NoResult \in Results /\ "0" \in {"0"} \cup LocalErrors
  BY ResultTypes
<1>2. 0 \in Nat /\ 1 \in 0..(SeqMod - 1) /\ -1 \in Int
  BY ControlAssumption
<1>3. /\ pc \in [Ops -> PCs] /\ kind \in [Ops -> Kinds] /\ seqOf \in [Ops -> Nat]
      /\ ec \in [Ops -> {"0"} \cup LocalErrors] /\ result \in [Ops -> Results]
      /\ strand \in Ops \cup {NoOp} /\ gap \in Int /\ armed \in SUBSET Ops
      /\ sequence \in 0..(SeqMod - 1) /\ notices \in Nat /\ faults \in Nat /\ stops \in Nat
  BY <1>1, <1>2 DEF Init, PCs
<1>4. /\ inbox \in [Ops -> Seq(Messages)] /\ learned \in [Ops -> Seq(Entries)]
      /\ answer \in [Ops -> Seq(Messages)]
      /\ st \in [Sockets -> SocketStates] /\ readers \in [Sockets -> Seq(Ops)]
  BY DEF Init, SocketStates
<1>5. /\ todo \in [Sockets -> Seq(Seq(Messages))] /\ rcvq \in [Sockets -> Seq(Seq(Messages))]
  BY DEF Init
<1>6. wrapped \in BOOLEAN /\ stopped \in BOOLEAN
  BY DEF Init
<1> QED BY <1>3, <1>4, <1>5, <1>6 DEF TypeOK

\* Every step keeps the types.
LEMMA TypeStep == TypeOK /\ [Next]_vars => TypeOK'
<1> SUFFICES ASSUME TypeOK, [Next]_vars PROVE TypeOK'
  OBVIOUS
<1> USE DEF opVars, gateVars, sockVars, bounds, history
<1>0. /\ \A o \in Ops : SockOf(o) \in Sockets /\ kind[o] \in AllKinds
      /\ Ops \subseteq Sockets /\ Shared \in Sockets
  BY ControlAssumption DEF TypeOK, SockOf, Sockets
<1>1. ASSUME NEW o \in Ops, Call(o) PROVE TypeOK'
  BY <1>1 DEF TypeOK, Call, PCs
<1>2. ASSUME NEW o \in Ops, AcquireSocketToken(o) PROVE TypeOK'
  BY <1>2 DEF TypeOK, AcquireSocketToken, PCs
<1>3. ASSUME NEW o \in Ops, OpenFails(o) PROVE TypeOK'
  <2>1. result' \in [Ops -> Results]
    BY <1>3, ResultTypes DEF TypeOK, OpenFails, LocalErrors
  <2>2. st' \in [Sockets -> SocketStates]
    BY <1>0, <1>3 DEF TypeOK, OpenFails, EnsureOpen, Open, SocketStates
  <2>3. pc' \in [Ops -> PCs] /\ faults' \in Nat
    BY <1>3 DEF TypeOK, OpenFails, PCs
  <2>4. UNCHANGED <<kind, seqOf, ec, inbox, learned, strand, gateVars, sequence,
                    todo, rcvq, readers, notices, stops, history>>
    BY <1>3 DEF OpenFails
  <2> QED BY <2>1, <2>2, <2>3, <2>4 DEF TypeOK
<1>4. ASSUME NEW o \in Ops, StartTask(o) PROVE TypeOK'
  <2>1. st' \in [Sockets -> SocketStates]
    BY <1>0, <1>4 DEF TypeOK, StartTask, EnsureOpen, Open, SocketStates
  <2>2. sequence' \in 0..(SeqMod - 1) /\ sequence \in Nat
    BY <1>4, ControlAssumption DEF TypeOK, StartTask, NextSequence
  <2> QED BY <1>4, <2>1, <2>2 DEF TypeOK, StartTask, PCs
<1>5. ASSUME NEW o \in Ops, StartReceive(o)
      PROVE  /\ pc' \in [Ops -> PCs]
             /\ ec' \in [Ops -> {"0"} \cup LocalErrors]
             /\ readers' \in [Sockets -> Seq(Ops)]
  <2>1. pc' \in [Ops -> PCs] /\ ec' \in [Ops -> {"0"} \cup LocalErrors]
    BY <1>5 DEF TypeOK, StartReceive, PCs, LocalErrors
  <2>2. Append(readers[SockOf(o)], o) \in Seq(Ops)
    BY <1>0, ElemsAppend DEF TypeOK
  <2>3. readers' = readers \/ readers' = [readers EXCEPT ![SockOf(o)] = Append(@, o)]
    BY <1>5 DEF StartReceive
  <2>4. readers' \in [Sockets -> Seq(Ops)]
    BY <1>0, <2>2, <2>3 DEF TypeOK
  <2> QED BY <2>1, <2>4
<1>6. ASSUME NEW o \in Ops, SendDone(o) PROVE TypeOK'
  BY <1>5, <1>6 DEF TypeOK, SendDone
<1>7. ASSUME NEW s \in Sockets, Close(s) \/ UNCHANGED sockVars
      PROVE  /\ st' \in [Sockets -> SocketStates]
             /\ todo' \in [Sockets -> Seq(Seq(Messages))]
             /\ rcvq' \in [Sockets -> Seq(Seq(Messages))]
             /\ readers' \in [Sockets -> Seq(Ops)]
  <2>1. CASE UNCHANGED sockVars
    BY <2>1 DEF TypeOK
  <2>2. CASE Close(s)
    <3>1. st' \in [Sockets -> SocketStates] /\ readers' \in [Sockets -> Seq(Ops)]
      BY <2>2 DEF TypeOK, Close, SocketStates
    <3>2. todo' \in [Sockets -> Seq(Seq(Messages))] /\ rcvq' \in [Sockets -> Seq(Seq(Messages))]
      BY <2>2 DEF TypeOK, Close
    <3> QED BY <3>1, <3>2
  <2> QED BY <1>7, <2>1, <2>2
<1>8. ASSUME NEW o \in Ops, NEW r \in Results, Return(o, r)
      PROVE  /\ pc' \in [Ops -> PCs]
             /\ result' \in [Ops -> Results]
             /\ inbox' \in [Ops -> Seq(Messages)]
             /\ strand' \in Ops \cup {NoOp}
             /\ st' \in [Sockets -> SocketStates]
             /\ todo' \in [Sockets -> Seq(Seq(Messages))]
             /\ rcvq' \in [Sockets -> Seq(Seq(Messages))]
             /\ readers' \in [Sockets -> Seq(Ops)]
  <2>1. Close(o) \/ UNCHANGED sockVars
    BY <1>8 DEF Return
  <2>2. /\ st' \in [Sockets -> SocketStates]
        /\ todo' \in [Sockets -> Seq(Seq(Messages))]
        /\ rcvq' \in [Sockets -> Seq(Seq(Messages))]
        /\ readers' \in [Sockets -> Seq(Ops)]
    BY <1>0, <1>7, <2>1
  <2>3. /\ pc' \in [Ops -> PCs] /\ result' \in [Ops -> Results]
        /\ inbox' \in [Ops -> Seq(Messages)] /\ strand' \in Ops \cup {NoOp}
    BY <1>8 DEF TypeOK, Return, PCs
  <2> QED BY <2>2, <2>3
<1>9. ASSUME NEW o \in Ops, IoFailed(o) PROVE TypeOK'
  <2>1. Error(ec[o]) \in Results
    BY ResultTypes DEF TypeOK
  <2>2. Return(o, Error(ec[o]))
    BY <1>9 DEF IoFailed
  <2> QED BY <1>8, <1>9, <2>1, <2>2 DEF TypeOK, IoFailed
<1>10. ASSUME NEW o \in Ops, ReceiveDone(o) PROVE TypeOK'
  BY <1>10 DEF TypeOK, ReceiveDone, PCs
<1>11. ASSUME NEW o \in Ops, ReadMore(o) PROVE TypeOK'
  BY <1>5, <1>11 DEF TypeOK, ReadMore
<1>12. ASSUME NEW o \in Ops, inbox[o] # <<>>
       PROVE  Head(inbox[o]) \in Messages /\ Tail(inbox[o]) \in Seq(Messages)
  BY <1>12, ElemsHeadTail DEF TypeOK
<1>13. ASSUME NEW o \in Ops, Absorb(o) PROVE TypeOK'
  <2> DEFINE m == Head(inbox[o])
  <2>1. inbox' \in [Ops -> Seq(Messages)]
    BY <1>12, <1>13 DEF TypeOK, Absorb
  <2>2. Learns(kind[o], m) => m.entry \in Entries
    BY <1>12, <1>13 DEF Learns, Messages, Absorb
  <2>3. learned' \in [Ops -> Seq(Entries)]
    BY <1>13, <2>2 DEF TypeOK, Absorb
  <2> QED BY <1>13, <2>1, <2>3 DEF TypeOK, Absorb
<1>14. ASSUME NEW o \in Ops, Complete(o) PROVE TypeOK'
  <2> DEFINE m == Head(inbox[o])
  <2>1. Return(o, Outcome(kind[o], learned[o], m))
    BY <1>14 DEF Complete
  <2>2. Outcome(kind[o], learned[o], m) \in Results
    BY <1>0, <1>12, <1>14, OutcomeType DEF TypeOK, Complete
  <2> QED BY <1>8, <1>14, <2>1, <2>2 DEF TypeOK, Complete
<1>15. CASE Tick
  BY <1>15 DEF TypeOK, Tick
<1>16. CASE GateExpires
  BY <1>16 DEF TypeOK, GateExpires, PCs
<1>17. CASE Stop
  <2>1. /\ st' \in [Sockets -> SocketStates]
        /\ todo' \in [Sockets -> Seq(Seq(Messages))]
        /\ rcvq' \in [Sockets -> Seq(Seq(Messages))]
        /\ readers' \in [Sockets -> Seq(Ops)]
    <3>1. Close(Shared) \/ UNCHANGED sockVars
      BY <1>17 DEF Stop
    <3> QED BY <1>0, <1>7, <3>1
  <2>2. pc' \in [Ops -> PCs] /\ ec' \in [Ops -> {"0"} \cup LocalErrors]
    BY <1>17 DEF TypeOK, Stop, PCs, LocalErrors
  <2> QED BY <1>17, <2>1, <2>2 DEF TypeOK, Stop
<1>18. ASSUME NEW o \in Ops, ServeRequest(o) PROVE TypeOK'
  <2>1. PICK a \in Answers(kind[o], seqOf[o]) :
           /\ answer' = [answer EXCEPT ![o] = a]
           /\ \E n \in 1..Len(a) : todo' = [todo EXCEPT ![SockOf(o)] = @ \o Datagrams(a, n)]
    BY <1>18 DEF ServeRequest
  <2>2. a \in Seq(Messages)
    BY <1>0, AnswersCarrySeq DEF TypeOK
  <2>3. PICK ds \in Seq(Seq(Messages)) : todo' = [todo EXCEPT ![SockOf(o)] = @ \o ds]
    BY <2>1, <2>2, DatagramsCarry
  <2>4. todo' \in [Sockets -> Seq(Seq(Messages))]
    BY <1>0, <2>3 DEF TypeOK
  <2> QED BY <1>18, <2>1, <2>2, <2>4 DEF TypeOK, ServeRequest, PCs
<1>19. ASSUME NEW o \in Ops, SendFault(o) PROVE TypeOK'
  BY <1>19 DEF TypeOK, SendFault, PCs, LocalErrors
<1>20. ASSUME NEW s \in Sockets, DeliverReply(s) PROVE TypeOK'
  <2>1. Head(todo[s]) \in Seq(Messages) /\ Tail(todo[s]) \in Seq(Seq(Messages))
    BY <1>20, ElemsHeadTail DEF TypeOK, DeliverReply
  <2>2. todo' \in [Sockets -> Seq(Seq(Messages))]
    BY <1>20, <2>1 DEF TypeOK, DeliverReply
  <2>3. Append(rcvq[s], Head(todo[s])) \in Seq(Seq(Messages))
    BY <2>1, ElemsAppend DEF TypeOK
  <2>4. rcvq' \in [Sockets -> Seq(Seq(Messages))]
    BY <1>20, <2>3 DEF TypeOK, DeliverReply
  <2> QED BY <1>20, <2>2, <2>4 DEF TypeOK, DeliverReply
<1>21. ASSUME NEW s \in Sockets, DropReply(s) PROVE TypeOK'
  <2>1. Tail(todo[s]) \in Seq(Seq(Messages))
    BY <1>21, ElemsHeadTail DEF TypeOK, DropReply
  <2> QED BY <1>21, <2>1 DEF TypeOK, DropReply
<1>22. CASE Notify
  <2>1. PICK m \in Messages :
           rcvq' = [s \in Sockets |->
                      IF st[s] = "ready" /\ Len(rcvq[s]) < RcvCap
                      THEN Append(rcvq[s], <<m>>) ELSE rcvq[s]]
    BY <1>22, ControlAssumption DEF Notify
  <2>2. <<m>> \in Seq(Messages)
    OBVIOUS
  <2>3. rcvq' \in [Sockets -> Seq(Seq(Messages))]
    BY <2>1, <2>2 DEF TypeOK
  <2> QED BY <1>22, <2>3 DEF TypeOK, Notify
<1>23. ASSUME NEW s \in Sockets, NEW c \in {"0"} \cup LocalErrors, NEW ms \in Seq(Messages),
              Completion(s, c, ms)
       PROVE  /\ pc' \in [Ops -> PCs]
              /\ ec' \in [Ops -> {"0"} \cup LocalErrors]
              /\ inbox' \in [Ops -> Seq(Messages)]
              /\ readers' \in [Sockets -> Seq(Ops)]
  <2>1. Head(readers[s]) \in Ops /\ Tail(readers[s]) \in Seq(Ops)
    BY <1>23, ElemsHeadTail DEF TypeOK, Completion
  <2> QED BY <1>23, <2>1 DEF TypeOK, Completion, PCs
<1>24. ASSUME NEW s \in Sockets, Receive(s) PROVE TypeOK'
  <2>1. Head(rcvq[s]) \in Seq(Messages) /\ Tail(rcvq[s]) \in Seq(Seq(Messages))
    BY <1>24, ElemsHeadTail DEF TypeOK, Receive
  <2>2. rcvq' \in [Sockets -> Seq(Seq(Messages))]
    BY <1>24, <2>1 DEF TypeOK, Receive
  <2> QED BY <1>23, <1>24, <2>1, <2>2 DEF TypeOK, Receive
<1>25. ASSUME NEW s \in Sockets, ReceiveFault(s) PROVE TypeOK'
  <2>1. "EIO" \in {"0"} \cup LocalErrors /\ <<>> \in Seq(Messages)
    BY DEF LocalErrors
  <2>2. /\ pc' \in [Ops -> PCs] /\ ec' \in [Ops -> {"0"} \cup LocalErrors]
        /\ inbox' \in [Ops -> Seq(Messages)] /\ readers' \in [Sockets -> Seq(Ops)]
    BY <1>23, <1>25, <2>1 DEF ReceiveFault
  <2>3. faults' \in Nat
    BY <1>25 DEF TypeOK, ReceiveFault
  <2> QED BY <1>25, <2>2, <2>3 DEF TypeOK, ReceiveFault
<1>26. CASE UNCHANGED vars
  BY <1>26 DEF TypeOK, vars
<1> QED
  BY <1>1, <1>2, <1>3, <1>4, <1>6, <1>9, <1>10, <1>11, <1>13, <1>14, <1>15, <1>16, <1>17,
     <1>18, <1>19, <1>20, <1>21, <1>22, <1>24, <1>25, <1>26
     DEF Next, Step, KernelStep, Terminated

\* Every variable keeps its type: calls stay within their stages, queues hold
\* messages, sequence_ stays within its width.
THEOREM TypeCorrect == Spec => []TypeOK
<1> QED BY TypeInit, TypeStep, PTL DEF Spec

-----------------------------------------------------------------------------
(* Stages and waiting. *)

\* What a call does is decided when it is made.
LEMMA KindFixed == [Next]_vars => kind' = kind
<1> USE DEF opVars
<1> SUFFICES ASSUME [Next]_vars PROVE kind' = kind
  OBVIOUS
<1>1. ASSUME NEW o \in Ops, Call(o) \/ Step(o) PROVE kind' = kind
  BY <1>1 DEF Call, Step, AcquireSocketToken, OpenFails, StartTask, SendDone, IoFailed,
              ReceiveDone, ReadMore, Absorb, Complete
<1>2. CASE KernelStep
  BY <1>2 DEF KernelStep, ServeRequest, SendFault, DeliverReply, DropReply, Receive,
              ReceiveFault, Notify
<1>3. CASE Tick \/ GateExpires \/ Stop \/ Terminated \/ UNCHANGED vars
  BY <1>3 DEF Tick, GateExpires, Stop, Terminated, vars
<1> QED BY <1>1, <1>2, <1>3 DEF Next

\* A call's socket: its own for a dump, the shared one otherwise.
LEMMA SocketsApart ==
    ASSUME TypeOK
    PROVE  /\ \A o \in Ops : /\ SockOf(o) \in Sockets
                             /\ kind[o] \in Dumps => SockOf(o) = o
                             /\ kind[o] \notin Dumps => SockOf(o) = Shared
                             /\ kind[o] \in Dumps \/ kind[o] \in NeighborOps
                             /\ kind[o] \in AllKinds
                             /\ o # Shared /\ o \in Sockets
           /\ Shared \in Sockets
           /\ \A k \in NeighborOps : k \notin Dumps
BY ControlAssumption DEF TypeOK, SockOf, Sockets, AllKinds, Dumps, NeighborOps

\* The inductive invariant of suspended calls: who waits, and where.
WaitInv == TypeOK /\ StageInv /\ ReaderInv /\ NobodyForgotten

\* The oldest pending receive of a socket belongs to a call that is reading on
\* it, and to no other pending receive.
LEMMA HeadReader ==
    ASSUME WaitInv, NEW s \in Sockets, readers[s] # <<>>
    PROVE  LET o == Head(readers[s]) IN
           /\ o \in Ops /\ SockOf(o) = s /\ pc[o] = "reading"
           /\ Tail(readers[s]) \in Seq(Ops)
           /\ Elems(Tail(readers[s])) = Elems(readers[s]) \ {o}
<1> USE DEF WaitInv
<1> DEFINE q == readers[s]
<1>1. q \in Seq(Ops) /\ q # <<>>
  BY DEF TypeOK
<1>2. Len(q) \in Nat /\ Len(q) > 0 /\ DOMAIN q = 1..Len(q) /\ Head(q) = q[1] /\ 1 \in DOMAIN q
  BY <1>1, EmptySeq
<1>3. /\ Tail(q) \in Seq(Ops) /\ DOMAIN Tail(q) = 1..(Len(q) - 1)
      /\ \A i \in 1..(Len(q) - 1) : Tail(q)[i] = q[i + 1]
  BY <1>1, <1>2, HeadTailProperties
<1>4. \A i, j \in DOMAIN q : SockOf(q[i]) = s /\ (q[i] = q[j] => i = j)
  BY DEF ReaderInv
<1>5. Head(q) \in Ops /\ Head(q) \in Elems(q)
  BY <1>1, ElemsHeadTail
<1>6. SockOf(Head(q)) = s
  BY <1>2, <1>4
<1>7. pc[Head(q)] = "reading"
  BY <1>5, <1>6 DEF NobodyForgotten
<1>8. ASSUME NEW x \in Elems(Tail(q)) PROVE x \in Elems(q) \ {Head(q)}
  <2>1. PICK i \in 1..(Len(q) - 1) : x = q[i + 1]
    BY <1>3 DEF Elems
  <2>2. i + 1 \in DOMAIN q /\ i + 1 # 1
    BY <1>2
  <2> QED BY <1>2, <1>4, <2>1, <2>2 DEF Elems
<1>9. ASSUME NEW x \in Elems(q) \ {Head(q)} PROVE x \in Elems(Tail(q))
  <2>1. PICK i \in DOMAIN q : x = q[i] /\ i # 1
    BY <1>2 DEF Elems
  <2>2. i - 1 \in 1..(Len(q) - 1) /\ Tail(q)[i - 1] = q[i]
    BY <1>2, <1>3, <2>1
  <2> QED BY <1>3, <2>1, <2>2 DEF Elems
<1> QED BY <1>3, <1>5, <1>6, <1>7, <1>8, <1>9

\* No step gives a call something that belongs to a later stage, and none closes
\* the socket of a dump before the dump returns.
LEMMA StageStep == WaitInv /\ [Next]_vars => StageInv'
<1> SUFFICES ASSUME WaitInv, [Next]_vars PROVE StageInv'
  OBVIOUS
<1> USE DEF opVars, gateVars, sockVars, bounds, history
<1>0. TypeOK /\ StageInv /\ kind' = kind
  BY KindFixed DEF WaitInv
<1>1. ASSUME NEW o \in Ops, Call(o) PROVE StageInv'
  BY <1>0, <1>1 DEF TypeOK, StageInv, Call, Early, Awaiting
<1>2. ASSUME NEW o \in Ops, AcquireSocketToken(o) PROVE StageInv'
  <2>1. \A p \in armed : pc[p] = "gate"
    BY <1>0 DEF WaitInv, NobodyForgotten, TypeOK
  <2> QED BY <1>0, <1>2, <2>1 DEF TypeOK, StageInv, AcquireSocketToken, Early, Awaiting
<1>3. ASSUME NEW o \in Ops, OpenFails(o) PROVE StageInv'
  <2>1. \A p \in Ops : p # o /\ kind[p] \in Dumps => st'[p] = st[p]
    BY <1>0, <1>3, SocketsApart DEF TypeOK, OpenFails
  <2> QED BY <1>0, <1>3, <2>1 DEF TypeOK, StageInv, OpenFails, Early, Awaiting
<1>4. ASSUME NEW o \in Ops, StartTask(o) PROVE StageInv'
  <2>1. \A p \in Ops : p # o /\ kind[p] \in Dumps => st'[p] = st[p]
    BY <1>0, <1>4, SocketsApart DEF TypeOK, StartTask
  <2>2. IsOpen(st'[SockOf(o)])
    BY <1>0, <1>4, SocketsApart DEF TypeOK, StartTask, EnsureOpen, Open, IsOpen
  <2>3. kind[o] \in Dumps => IsOpen(st'[o])
    BY <1>0, <2>2, SocketsApart
  <2> QED BY <1>0, <1>4, <2>1, <2>3 DEF TypeOK, StageInv, StartTask, Early, Awaiting
<1>5. ASSUME NEW o \in Ops, StartReceive(o)
      PROVE  \E c \in {"reading", "received"} : pc' = [pc EXCEPT ![o] = c]
  BY <1>5 DEF StartReceive
<1>6. ASSUME NEW o \in Ops, SendDone(o) \/ ReadMore(o) PROVE StageInv'
  <2>1. PICK c \in {"reading", "received"} : pc' = [pc EXCEPT ![o] = c]
    BY <1>5, <1>6 DEF SendDone, ReadMore
  <2>2. inbox[o] = <<>> /\ o \in Awaiting
    BY <1>0, <1>6 DEF StageInv, SendDone, ReadMore, Awaiting
  <2>3. UNCHANGED <<seqOf, inbox, st, answer>>
    BY <1>6 DEF SendDone, ReadMore
  <2> QED BY <1>0, <2>1, <2>2, <2>3 DEF TypeOK, StageInv, Early, Awaiting
<1>7. ASSUME NEW o \in Ops, NEW r, Return(o, r), UNCHANGED <<seqOf, answer>> PROVE StageInv'
  <2>1. \A p \in Ops : p # o => st'[p] = st[p]
    BY <1>0, <1>7, SocketsApart DEF TypeOK, Return, Close
  <2>2. pc' = [pc EXCEPT ![o] = "done"] /\ inbox' = [inbox EXCEPT ![o] = <<>>]
    BY <1>7 DEF Return
  <2> QED BY <1>0, <1>7, <2>1, <2>2 DEF TypeOK, StageInv, Early, Awaiting
<1>8. ASSUME NEW o \in Ops, IoFailed(o) PROVE StageInv'
  BY <1>7, <1>8 DEF IoFailed
<1>9. ASSUME NEW o \in Ops, ReceiveDone(o) PROVE StageInv'
  BY <1>0, <1>9 DEF TypeOK, StageInv, ReceiveDone, Early, Awaiting
<1>10. ASSUME NEW o \in Ops, Absorb(o) PROVE StageInv'
  BY <1>0, <1>10 DEF TypeOK, StageInv, Absorb, Early, Awaiting
<1>11. ASSUME NEW o \in Ops, Complete(o) PROVE StageInv'
  BY <1>7, <1>11 DEF Complete
<1>12. CASE Tick \/ Terminated \/ UNCHANGED vars
  BY <1>0, <1>12 DEF StageInv, Tick, Terminated, vars, Awaiting
<1>13. CASE GateExpires
  <2>1. \A p \in armed : pc[p] = "gate"
    BY <1>0 DEF WaitInv, NobodyForgotten, TypeOK
  <2> QED BY <1>0, <1>13, <2>1 DEF TypeOK, StageInv, GateExpires, Early, Awaiting
<1>14. CASE Stop
  <2>1. \A p \in Ops : st'[p] = st[p]
    BY <1>0, <1>14, SocketsApart DEF TypeOK, Stop, Close
  <2> QED BY <1>0, <1>14, <2>1 DEF TypeOK, StageInv, Stop, Early, Awaiting
<1>15. ASSUME NEW o \in Ops, ServeRequest(o) PROVE StageInv'
  <2>1. PICK a : answer' = [answer EXCEPT ![o] = a]
    BY <1>15 DEF ServeRequest
  <2> QED BY <1>0, <1>15, <2>1 DEF TypeOK, StageInv, ServeRequest, Early, Awaiting
<1>16. ASSUME NEW o \in Ops, SendFault(o) PROVE StageInv'
  BY <1>0, <1>16 DEF TypeOK, StageInv, SendFault, Early, Awaiting
<1>17. ASSUME NEW s \in Sockets, DeliverReply(s) \/ DropReply(s) PROVE StageInv'
  BY <1>0, <1>17 DEF StageInv, DeliverReply, DropReply, Awaiting
<1>18. CASE Notify
  BY <1>0, <1>18 DEF StageInv, Notify, Awaiting
<1>19. ASSUME NEW s \in Sockets, Receive(s) \/ ReceiveFault(s) PROVE StageInv'
  <2> DEFINE o == Head(readers[s])
  <2>1. readers[s] # <<>>
    BY <1>19 DEF Receive, ReceiveFault, Completion
  <2>2. o \in Ops /\ pc[o] = "reading"
    BY <2>1, HeadReader
  <2>3. PICK ms : inbox' = [inbox EXCEPT ![o] = ms]
    BY <1>19 DEF Receive, ReceiveFault, Completion
  <2>4. pc' = [pc EXCEPT ![o] = "received"] /\ UNCHANGED <<seqOf, answer, st>>
    BY <1>19 DEF Receive, ReceiveFault, Completion
  <2> HIDE DEF o
  <2> QED BY <1>0, <2>2, <2>3, <2>4 DEF TypeOK, StageInv, Early, Awaiting
<1> QED
  BY <1>1, <1>2, <1>3, <1>4, <1>6, <1>8, <1>9, <1>10, <1>11, <1>12, <1>13, <1>14, <1>15,
     <1>16, <1>17, <1>18, <1>19 DEF Next, Step, KernelStep

\* Steps that neither start nor end a wait.
LEMMA WaitFrame ==
    ASSUME WaitInv, kind' = kind, UNCHANGED <<readers, armed>>,
           \A o \in Ops : /\ pc'[o] = "gate" <=> pc[o] = "gate"
                          /\ pc'[o] = "reading" <=> pc[o] = "reading"
                          /\ pc[o] = "reading" => IsOpen(st'[SockOf(o)])
    PROVE  ReaderInv' /\ NobodyForgotten'
<1>1. \A o \in Ops : SockOf(o)' = SockOf(o)
  BY DEF SockOf
<1>2. \A s \in Sockets : \A i \in DOMAIN readers[s] : SockOf(readers[s][i])' = SockOf(readers[s][i])
  BY DEF SockOf
<1> QED BY <1>1, <1>2 DEF WaitInv, ReaderInv, NobodyForgotten

\* Every step that suspends a call registers it where it will be resumed, and
\* every step that takes it out of there resumes it.
LEMMA WaitStep == WaitInv /\ [Next]_vars => ReaderInv' /\ NobodyForgotten'
<1> SUFFICES ASSUME WaitInv, [Next]_vars PROVE ReaderInv' /\ NobodyForgotten'
  OBVIOUS
<1> USE DEF opVars, gateVars, sockVars, bounds, history
<1>0. TypeOK /\ StageInv /\ ReaderInv /\ NobodyForgotten /\ kind' = kind
  BY KindFixed DEF WaitInv
<1>a. \A o \in Ops : SockOf(o)' = SockOf(o) /\ SockOf(o) \in Sockets
  BY <1>0, SocketsApart DEF SockOf
<1>b. \A o \in Ops : pc[o] = "reading" => IsOpen(st[SockOf(o)])
  BY <1>0 DEF NobodyForgotten
<1>1. ASSUME NEW o \in Ops, Call(o) PROVE ReaderInv' /\ NobodyForgotten'
  BY <1>0, <1>b, <1>1, WaitFrame DEF TypeOK, Call
<1>2. ASSUME NEW o \in Ops, AcquireSocketToken(o) PROVE ReaderInv' /\ NobodyForgotten'
  <2>1. \A p \in armed : pc[p] = "gate"
    BY <1>0 DEF NobodyForgotten, TypeOK
  <2>2. \A p \in Ops : pc[p] = "gate" => p \in armed
    BY <1>0 DEF NobodyForgotten
  <2>3. \A p \in Ops : /\ pc'[p] = "gate" <=> p = o
                       /\ pc'[p] = "reading" <=> pc[p] = "reading"
    BY <1>0, <1>2, <2>1, <2>2 DEF TypeOK, AcquireSocketToken
  <2>4. armed' = {o} /\ UNCHANGED <<readers, st>>
    BY <1>2 DEF AcquireSocketToken
  <2>5. NobodyForgotten'
    BY <1>0, <1>a, <2>3, <2>4 DEF NobodyForgotten
  <2>6. ReaderInv'
    BY <1>0, <2>4 DEF ReaderInv, SockOf
  <2> QED BY <2>5, <2>6
<1>3. ASSUME NEW o \in Ops, OpenFails(o) PROVE ReaderInv' /\ NobodyForgotten'
  <2>1. ~IsOpen(st[SockOf(o)])
    BY <1>3 DEF OpenFails, EnsureOpen
  <2>2. \A p \in Ops : pc[p] = "reading" => st'[SockOf(p)] = st[SockOf(p)]
    BY <1>0, <1>a, <1>b, <1>3, <2>1 DEF TypeOK, OpenFails
  <2> QED BY <1>0, <1>b, <1>3, <2>2, WaitFrame DEF TypeOK, OpenFails
<1>4. ASSUME NEW o \in Ops, StartTask(o) PROVE ReaderInv' /\ NobodyForgotten'
  <2>1. \A p \in Ops : pc[p] = "reading" => IsOpen(st'[SockOf(p)])
    BY <1>0, <1>a, <1>b, <1>4 DEF TypeOK, StartTask, EnsureOpen, Open, IsOpen
  <2> QED BY <1>0, <1>4, <2>1, WaitFrame DEF TypeOK, StartTask
<1>5. ASSUME NEW o \in Ops, StartReceive(o), pc[o] \notin {"gate", "reading"},
             UNCHANGED <<armed, st>>
      PROVE  ReaderInv' /\ NobodyForgotten'
  <2> DEFINE s == SockOf(o)
  <2>1. CASE ~IsOpen(st[s])
    <3>1. pc' = [pc EXCEPT ![o] = "received"] /\ readers' = readers
      BY <1>5, <2>1 DEF StartReceive
    <3> QED BY <1>0, <1>b, <1>5, <3>1, WaitFrame DEF TypeOK
  <2>2. CASE IsOpen(st[s])
    <3>1. pc' = [pc EXCEPT ![o] = "reading"] /\ readers' = [readers EXCEPT ![s] = Append(@, o)]
      BY <1>5, <2>2 DEF StartReceive
    <3>2. readers[s] \in Seq(Ops) /\ s \in Sockets
      BY <1>0, <1>a DEF TypeOK
    <3>3. Elems(Append(readers[s], o)) = Elems(readers[s]) \cup {o}
      BY <3>2, ElemsAppend
    <3>4. \A t \in Sockets : readers'[t] = IF t = s THEN Append(readers[s], o) ELSE readers[t]
      BY <1>0, <3>1, <3>2 DEF TypeOK
    <3>5. \A p \in Ops : pc'[p] = IF p = o THEN "reading" ELSE pc[p]
      BY <1>0, <3>1 DEF TypeOK
    <3>6. o \notin Elems(readers[s])
      BY <1>0, <1>5 DEF NobodyForgotten
    <3>7. ASSUME NEW p \in Ops
          PROVE  /\ pc'[p] = "gate" <=> p \in armed'
                 /\ pc'[p] = "reading" <=> p \in Elems(readers'[SockOf(p)])
                 /\ pc'[p] = "reading" => IsOpen(st'[SockOf(p)])
      <4>1. /\ pc[p] = "gate" <=> p \in armed
            /\ pc[p] = "reading" <=> p \in Elems(readers[SockOf(p)])
            /\ pc[p] = "reading" => IsOpen(st[SockOf(p)])
        BY <1>0 DEF NobodyForgotten
      <4>2. CASE p = o
        BY <4>1, <4>2, <1>5, <2>2, <3>2, <3>3, <3>4, <3>5
      <4>3. CASE p # o
        <5>1. p \in Elems(readers'[SockOf(p)]) <=> p \in Elems(readers[SockOf(p)])
          BY <4>3, <1>a, <3>3, <3>4
        <5> QED BY <4>1, <4>3, <1>5, <3>5, <5>1
      <4> QED BY <4>2, <4>3
    <3>8. NobodyForgotten'
      BY <3>7, <1>a DEF NobodyForgotten
    <3>9. ASSUME NEW t \in Sockets, NEW i \in DOMAIN readers'[t], NEW j \in DOMAIN readers'[t]
          PROVE  SockOf(readers'[t][i]) = t /\ (readers'[t][i] = readers'[t][j] => i = j)
      <4>1. CASE t # s
        BY <4>1, <1>0, <3>4, <3>9 DEF ReaderInv
      <4>2. CASE t = s
        <5>1. /\ DOMAIN readers'[s] = 1..(Len(readers[s]) + 1) /\ DOMAIN readers[s] = 1..Len(readers[s])
              /\ \A k \in 1..Len(readers[s]) : readers'[s][k] = readers[s][k]
              /\ readers'[s][Len(readers[s]) + 1] = o
              /\ Len(readers[s]) \in Nat
          <6>1. readers'[s] = Append(readers[s], o)
            BY <3>2, <3>4
          <6> QED BY <3>2, <6>1, AppendShape
        <5>2. \A k \in DOMAIN readers[s] : readers[s][k] # o
          BY <3>6 DEF Elems
        <5>3. \A k, l \in DOMAIN readers[s] :
                 SockOf(readers[s][k]) = s /\ (readers[s][k] = readers[s][l] => k = l)
          BY <1>0, <3>2 DEF ReaderInv
        <5>4. i \in 1..(Len(readers[s]) + 1) /\ j \in 1..(Len(readers[s]) + 1)
          BY <4>2, <5>1, <3>9
        <5> QED BY <4>2, <5>1, <5>2, <5>3, <5>4
      <4> QED BY <4>1, <4>2
    <3>10. ReaderInv'
      BY <3>9, <1>0 DEF ReaderInv, SockOf
    <3> QED BY <3>8, <3>10
  <2> QED BY <2>1, <2>2
<1>6. ASSUME NEW o \in Ops, SendDone(o) \/ ReadMore(o) PROVE ReaderInv' /\ NobodyForgotten'
  BY <1>5, <1>6 DEF SendDone, ReadMore
<1>7. ASSUME NEW o \in Ops, NEW r, Return(o, r), pc[o] \notin {"gate", "reading"}, armed' = armed
      PROVE  ReaderInv' /\ NobodyForgotten'
  <2>1. pc' = [pc EXCEPT ![o] = "done"]
    BY <1>7 DEF Return
  <2>2. CASE UNCHANGED sockVars
    BY <1>0, <1>b, <1>7, <2>1, <2>2, WaitFrame DEF TypeOK
  <2>3. CASE kind[o] \in Dumps /\ Close(o)
    <3>1. SockOf(o) = o /\ o \in Sockets
      BY <1>0, <2>3, SocketsApart
    <3>2. \A p \in Ops : SockOf(p) = o => p = o
      BY <1>0, SocketsApart
    <3>3. readers[o] = <<>>
      <4>1. SUFFICES ASSUME readers[o] # <<>> PROVE FALSE
        OBVIOUS
      <4>2. Head(readers[o]) \in Ops /\ SockOf(Head(readers[o])) = o /\ pc[Head(readers[o])] = "reading"
        BY <3>1, <4>1, HeadReader
      <4> QED BY <1>7, <3>2, <4>2
    <3>4. readers' = readers
      BY <1>0, <2>3, <3>1, <3>3 DEF TypeOK, Close
    <3>5. \A p \in Ops : p # o => st'[SockOf(p)] = st[SockOf(p)]
      BY <1>0, <1>a, <2>3, <3>2 DEF TypeOK, Close
    <3> QED BY <1>0, <1>b, <1>7, <2>1, <3>4, <3>5, WaitFrame DEF TypeOK
  <2> QED BY <1>7, <2>2, <2>3 DEF Return
<1>8. ASSUME NEW o \in Ops, IoFailed(o) \/ Complete(o) PROVE ReaderInv' /\ NobodyForgotten'
  BY <1>7, <1>8 DEF IoFailed, Complete
<1>9. ASSUME NEW o \in Ops, ReceiveDone(o) PROVE ReaderInv' /\ NobodyForgotten'
  BY <1>0, <1>b, <1>9, WaitFrame DEF TypeOK, ReceiveDone
<1>10. ASSUME NEW o \in Ops, Absorb(o) PROVE ReaderInv' /\ NobodyForgotten'
  BY <1>0, <1>b, <1>10, WaitFrame DEF Absorb
<1>11. CASE Tick \/ Terminated \/ Notify \/ UNCHANGED vars
  BY <1>0, <1>b, <1>11, WaitFrame DEF Tick, Terminated, Notify, vars
<1>12. CASE GateExpires
  <2>1. \A p \in Ops : pc[p] = "gate" <=> p \in armed
    BY <1>0 DEF NobodyForgotten
  <2>2. \A p \in Ops : /\ pc'[p] # "gate"
                       /\ pc'[p] = "reading" <=> pc[p] = "reading"
    BY <1>0, <1>12, <2>1 DEF TypeOK, GateExpires
  <2>3. armed' = {} /\ UNCHANGED <<readers, st>>
    BY <1>12 DEF GateExpires
  <2>4. NobodyForgotten'
    BY <1>0, <1>a, <2>2, <2>3 DEF NobodyForgotten
  <2>5. ReaderInv'
    BY <1>0, <2>3 DEF ReaderInv, SockOf
  <2> QED BY <2>4, <2>5
<1>13. CASE Stop
  <2>1. CASE ~IsOpen(st[Shared])
    BY <1>0, <1>b, <1>13, <2>1, WaitFrame DEF Stop
  <2>2. CASE IsOpen(st[Shared])
    <3>1. \A p \in Ops : pc'[p] = IF SockOf(p) = Shared /\ pc[p] = "sending" THEN "sent"
                                  ELSE IF SockOf(p) = Shared /\ pc[p] = "reading" THEN "received"
                                  ELSE pc[p]
      BY <1>13, <2>2 DEF Stop
    <3>2. /\ \A t \in Sockets : readers'[t] = IF t = Shared THEN <<>> ELSE readers[t]
          /\ \A t \in Sockets : t # Shared => st'[t] = st[t]
      BY <1>0, <1>13, <2>2 DEF TypeOK, Stop, Close
    <3>3. armed' = armed
      BY <1>13 DEF Stop
    <3>4. ASSUME NEW p \in Ops
          PROVE  /\ pc'[p] = "gate" <=> p \in armed'
                 /\ pc'[p] = "reading" <=> p \in Elems(readers'[SockOf(p)])
                 /\ pc'[p] = "reading" => IsOpen(st'[SockOf(p)])
      <4>1. /\ pc[p] = "gate" <=> p \in armed
            /\ pc[p] = "reading" <=> p \in Elems(readers[SockOf(p)])
            /\ pc[p] = "reading" => IsOpen(st[SockOf(p)])
        BY <1>0 DEF NobodyForgotten
      <4>2. CASE SockOf(p) = Shared
        BY <4>1, <4>2, <1>a, <3>1, <3>2, <3>3, ElemsEmpty
      <4>3. CASE SockOf(p) # Shared
        BY <4>1, <4>3, <1>a, <3>1, <3>2, <3>3
      <4> QED BY <4>2, <4>3
    <3>5. NobodyForgotten'
      BY <1>a, <3>4 DEF NobodyForgotten
    <3>6. ASSUME NEW t \in Sockets, NEW i \in DOMAIN readers'[t], NEW j \in DOMAIN readers'[t]
          PROVE  SockOf(readers'[t][i]) = t /\ (readers'[t][i] = readers'[t][j] => i = j)
      <4>1. t # Shared
        BY <3>2, <3>6
      <4> QED BY <1>0, <3>2, <3>6, <4>1 DEF ReaderInv
    <3>7. ReaderInv'
      BY <1>0, <3>6 DEF ReaderInv, SockOf
    <3> QED BY <3>5, <3>7
  <2> QED BY <2>1, <2>2
<1>14. ASSUME NEW o \in Ops, ServeRequest(o) \/ SendFault(o) PROVE ReaderInv' /\ NobodyForgotten'
  BY <1>0, <1>b, <1>14, WaitFrame DEF TypeOK, ServeRequest, SendFault
<1>15. ASSUME NEW s \in Sockets, DeliverReply(s) \/ DropReply(s) PROVE ReaderInv' /\ NobodyForgotten'
  BY <1>0, <1>b, <1>15, WaitFrame DEF DeliverReply, DropReply
<1>16. ASSUME NEW s \in Sockets, Receive(s) \/ ReceiveFault(s) PROVE ReaderInv' /\ NobodyForgotten'
  <2> DEFINE o == Head(readers[s])
  <2>1. readers[s] # <<>>
    BY <1>16 DEF Receive, ReceiveFault, Completion
  <2>2. /\ o \in Ops /\ SockOf(o) = s /\ pc[o] = "reading" /\ Tail(readers[s]) \in Seq(Ops)
        /\ Elems(Tail(readers[s])) = Elems(readers[s]) \ {o}
    BY <2>1, HeadReader
  <2>3. /\ pc' = [pc EXCEPT ![o] = "received"] /\ UNCHANGED <<armed, st>>
        /\ readers' = [readers EXCEPT ![s] = Tail(@)]
    BY <1>16 DEF Receive, ReceiveFault, Completion
  <2> HIDE DEF o
  <2>4. \A t \in Sockets : readers'[t] = IF t = s THEN Tail(readers[s]) ELSE readers[t]
    BY <1>0, <2>3 DEF TypeOK
  <2>5. \A p \in Ops : pc'[p] = IF p = o THEN "received" ELSE pc[p]
    BY <1>0, <2>3 DEF TypeOK
  <2>6. ASSUME NEW p \in Ops
        PROVE  /\ pc'[p] = "gate" <=> p \in armed'
               /\ pc'[p] = "reading" <=> p \in Elems(readers'[SockOf(p)])
               /\ pc'[p] = "reading" => IsOpen(st'[SockOf(p)])
    <3>1. /\ pc[p] = "gate" <=> p \in armed
          /\ pc[p] = "reading" <=> p \in Elems(readers[SockOf(p)])
          /\ pc[p] = "reading" => IsOpen(st[SockOf(p)])
      BY <1>0 DEF NobodyForgotten
    <3>2. p \in Elems(readers'[SockOf(p)]) <=> p \in Elems(readers[SockOf(p)]) /\ p # o
      BY <1>a, <2>2, <2>4
    <3> QED BY <2>2, <2>3, <2>5, <3>1, <3>2
  <2>7. NobodyForgotten'
    BY <1>a, <2>6 DEF NobodyForgotten
  <2>8. ASSUME NEW t \in Sockets, NEW i \in DOMAIN readers'[t], NEW j \in DOMAIN readers'[t]
        PROVE  SockOf(readers'[t][i]) = t /\ (readers'[t][i] = readers'[t][j] => i = j)
    <3>1. CASE t # s
      BY <3>1, <1>0, <2>4, <2>8 DEF ReaderInv
    <3>2. CASE t = s
      <4>1. readers[s] \in Seq(Ops) /\ Len(readers[s]) \in Nat /\ DOMAIN readers[s] = 1..Len(readers[s])
        BY <1>0 DEF TypeOK
      <4>2. \A k \in DOMAIN Tail(readers[s]) :
               k \in Nat /\ k + 1 \in DOMAIN readers[s] /\ Tail(readers[s])[k] = readers[s][k + 1]
        BY <2>1, <4>1, HeadTailProperties
      <4>3. \A k, l \in DOMAIN readers[s] :
               SockOf(readers[s][k]) = s /\ (readers[s][k] = readers[s][l] => k = l)
        BY <1>0 DEF ReaderInv
      <4>4. i \in DOMAIN Tail(readers[s]) /\ j \in DOMAIN Tail(readers[s])
        BY <2>4, <2>8, <3>2
      <4>5. i + 1 = j + 1 => i = j
        BY <4>2, <4>4
      <4>6. readers'[t][i] = readers[s][i + 1] /\ readers'[t][j] = readers[s][j + 1]
        BY <2>4, <3>2, <4>2, <4>4
      <4>7. i + 1 \in DOMAIN readers[s] /\ j + 1 \in DOMAIN readers[s]
        BY <4>2, <4>4
      <4> QED BY <3>2, <4>3, <4>5, <4>6, <4>7
    <3> QED BY <3>1, <3>2
  <2>9. ReaderInv'
    BY <1>0, <2>8 DEF ReaderInv, SockOf
  <2> QED BY <2>7, <2>9
<1> QED
  BY <1>1, <1>2, <1>3, <1>4, <1>6, <1>8, <1>9, <1>10, <1>11, <1>12, <1>13, <1>14, <1>15,
     <1>16 DEF Next, Step, KernelStep

\* The inductive invariant of suspended calls holds in every reachable state.
LEMMA WaitInvariant == Spec => []WaitInv
<1>1. Init => WaitInv
  <2> SUFFICES ASSUME Init PROVE WaitInv
    OBVIOUS
  <2>1. TypeOK
    BY TypeInit
  <2>2. StageInv /\ ReaderInv /\ NobodyForgotten
    <3>1. \A s \in Sockets : readers[s] = <<>>
      BY DEF Init
    <3>2. \A o \in Ops : readers[SockOf(o)] = <<>>
      BY <2>1, <3>1, SocketsApart
    <3>3. StageInv
      BY DEF Init, StageInv, Early, Awaiting
    <3>4. ReaderInv
      BY <3>1 DEF ReaderInv
    <3>5. NobodyForgotten
      BY <3>2, ElemsEmpty DEF Init, NobodyForgotten
    <3> QED BY <3>3, <3>4, <3>5
  <2> QED BY <2>1, <2>2 DEF WaitInv
<1>2. WaitInv /\ [Next]_vars => WaitInv'
  BY TypeStep, StageStep, WaitStep DEF WaitInv
<1> QED BY <1>1, <1>2, PTL DEF Spec

\* A call that is suspended at the gate or in a receive is registered where it
\* will be resumed, exactly once, and never on a closed socket.
THEOREM NobodyForgottenTheorem == Spec => []NobodyForgotten
<1>1. WaitInv => NobodyForgotten
  BY DEF WaitInv
<1> QED BY <1>1, WaitInvariant, PTL

-----------------------------------------------------------------------------
(* Sequence numbers. *)

\* Only StartTask gives out a number and makes a call wait for an answer.
LEMMA OnlyStartTask ==
    ASSUME WaitInv, [Next]_vars, \A o \in Ops : ~StartTask(o)
    PROVE  UNCHANGED <<seqOf, sequence, wrapped>> /\ Awaiting' \subseteq Awaiting
<1> USE DEF opVars, gateVars, sockVars, bounds, history, Awaiting
<1>0. TypeOK
  BY DEF WaitInv
<1>1. ASSUME NEW o \in Ops, \/ Call(o) \/ AcquireSocketToken(o) \/ OpenFails(o)
      PROVE  UNCHANGED <<seqOf, sequence, wrapped>> /\ Awaiting' \subseteq Awaiting
  BY <1>0, <1>1 DEF TypeOK, Call, AcquireSocketToken, OpenFails
<1>2. ASSUME NEW o \in Ops, \/ SendDone(o) \/ ReadMore(o)
      PROVE  UNCHANGED <<seqOf, sequence, wrapped>> /\ Awaiting' \subseteq Awaiting
  BY <1>0, <1>2 DEF TypeOK, SendDone, ReadMore, StartReceive
<1>3. ASSUME NEW o \in Ops, \/ IoFailed(o) \/ Complete(o)
      PROVE  UNCHANGED <<seqOf, sequence, wrapped>> /\ Awaiting' \subseteq Awaiting
  <2>1. pc' = [pc EXCEPT ![o] = "done"]
    BY <1>3 DEF IoFailed, Complete, Return
  <2>2. UNCHANGED <<seqOf, sequence, wrapped>>
    BY <1>3 DEF IoFailed, Complete
  <2> QED BY <1>0, <2>1, <2>2 DEF TypeOK
<1>4. ASSUME NEW o \in Ops, \/ ReceiveDone(o) \/ Absorb(o) \/ ServeRequest(o) \/ SendFault(o)
      PROVE  UNCHANGED <<seqOf, sequence, wrapped>> /\ Awaiting' \subseteq Awaiting
  BY <1>0, <1>4 DEF TypeOK, ReceiveDone, Absorb, ServeRequest, SendFault
<1>5. CASE \/ Tick \/ GateExpires \/ Notify \/ Terminated \/ UNCHANGED vars
           \/ \E s \in Sockets : DeliverReply(s) \/ DropReply(s)
  BY <1>0, <1>5 DEF TypeOK, Tick, GateExpires, Notify, Terminated, vars, DeliverReply, DropReply
<1>6. CASE Stop
  BY <1>0, <1>6 DEF TypeOK, Stop
<1>7. ASSUME NEW s \in Sockets, Receive(s) \/ ReceiveFault(s)
      PROVE  UNCHANGED <<seqOf, sequence, wrapped>> /\ Awaiting' \subseteq Awaiting
  <2> DEFINE o == Head(readers[s])
  <2>1. readers[s] # <<>>
    BY <1>7 DEF Receive, ReceiveFault, Completion
  <2>2. o \in Ops /\ pc[o] = "reading"
    BY <2>1, HeadReader
  <2>3. pc' = [pc EXCEPT ![o] = "received"] /\ UNCHANGED <<seqOf, sequence, wrapped>>
    BY <1>7 DEF Receive, ReceiveFault, Completion
  <2> HIDE DEF o
  <2> QED BY <1>0, <2>2, <2>3 DEF TypeOK
<1> QED BY <1>1, <1>2, <1>3, <1>4, <1>5, <1>6, <1>7 DEF Next, Step, KernelStep

\* fetch_add gives a number that no other call has, until it comes round to 0.
LEMMA SeqStep == WaitInv /\ SeqInv /\ [Next]_vars => SeqInv'
<1> SUFFICES ASSUME WaitInv, SeqInv, [Next]_vars PROVE SeqInv'
  OBVIOUS
<1>0. TypeOK /\ StageInv
  BY DEF WaitInv
<1>1. CASE \A o \in Ops : ~StartTask(o)
  <2>1. UNCHANGED <<seqOf, sequence, wrapped>> /\ Awaiting' \subseteq Awaiting
    BY <1>1, OnlyStartTask
  <2> QED BY <2>1 DEF SeqInv
<1>2. ASSUME NEW o \in Ops, StartTask(o) PROVE SeqInv'
  <2>1. /\ seqOf' = [seqOf EXCEPT ![o] = sequence]
        /\ pc' = [pc EXCEPT ![o] = "sending"]
        /\ sequence' = IF sequence + 1 = SeqMod THEN 0 ELSE sequence + 1
        /\ seqOf[o] = 0
    BY <1>0, <1>2 DEF StartTask, NextSequence, StageInv, Early
  <2>2. SUFFICES ASSUME ~wrapped' PROVE SeqInv'
    BY DEF SeqInv
  <2>3. ~wrapped /\ sequence # 0
    BY <1>2, <2>2 DEF StartTask
  <2>4. sequence \in Nat /\ \A p \in Ops : seqOf[p] \in Nat
    BY <1>0, ControlAssumption DEF TypeOK
  <2>5. \A p \in Ops : /\ p \in Awaiting => seqOf[p] # 0
                       /\ seqOf[p] # 0 => seqOf[p] < sequence
                       /\ \A q \in Ops : seqOf[p] # 0 /\ seqOf[q] = seqOf[p] => q = p
    BY <2>3 DEF SeqInv
  <2>6. \A p \in Ops : seqOf'[p] = IF p = o THEN sequence ELSE seqOf[p]
    BY <1>0, <2>1 DEF TypeOK
  <2>7. \A p \in Ops : p \in Awaiting' => p = o \/ p \in Awaiting
    BY <1>0, <2>1 DEF TypeOK, Awaiting
  <2>8. ASSUME NEW p \in Ops
        PROVE  /\ p \in Awaiting' => seqOf'[p] # 0
               /\ seqOf'[p] # 0 => sequence' = 0 \/ seqOf'[p] < sequence'
               /\ \A q \in Ops : seqOf'[p] # 0 /\ seqOf'[q] = seqOf'[p] => q = p
    BY <2>1, <2>3, <2>4, <2>5, <2>6, <2>7
  <2> QED BY <2>8 DEF SeqInv
<1> QED BY <1>1, <1>2

-----------------------------------------------------------------------------
(* Where messages and results come from. *)

\* A call's number and its answer are set once.
LEMMA SetOnce ==
    ASSUME WaitInv, [Next]_vars, NEW q \in Ops
    PROVE  /\ seqOf'[q] = seqOf[q] \/ seqOf[q] = 0
           /\ answer'[q] = answer[q] \/ answer[q] = <<>>
<1> USE DEF opVars, gateVars, sockVars, bounds, history
<1>0. TypeOK /\ StageInv
  BY DEF WaitInv
<1>1. CASE \A o \in Ops : ~StartTask(o) /\ ~ServeRequest(o)
  <2>1. answer' = answer
    <3>1. ASSUME NEW o \in Ops, \/ Call(o) \/ Step(o) PROVE answer' = answer
      BY <1>1, <3>1 DEF Call, Step, AcquireSocketToken, OpenFails, SendDone, IoFailed,
                        ReceiveDone, ReadMore, Absorb, Complete
    <3>2. CASE \/ Tick \/ GateExpires \/ Notify \/ Terminated \/ UNCHANGED vars \/ Stop
      BY <3>2 DEF Tick, GateExpires, Notify, Terminated, vars, Stop
    <3>3. ASSUME NEW s \in Sockets, DeliverReply(s) \/ DropReply(s) \/ Receive(s) \/ ReceiveFault(s)
          PROVE  answer' = answer
      BY <3>3 DEF DeliverReply, DropReply, Receive, ReceiveFault
    <3>4. ASSUME NEW o \in Ops, SendFault(o) PROVE answer' = answer
      BY <3>4 DEF SendFault
    <3> QED BY <1>1, <3>1, <3>2, <3>3, <3>4 DEF Next, KernelStep
  <2> QED BY <1>1, <2>1, OnlyStartTask
<1>2. ASSUME NEW o \in Ops, StartTask(o)
      PROVE  /\ seqOf'[q] = seqOf[q] \/ seqOf[q] = 0
             /\ answer'[q] = answer[q] \/ answer[q] = <<>>
  BY <1>0, <1>2 DEF TypeOK, StageInv, StartTask, Early
<1>3. ASSUME NEW o \in Ops, ServeRequest(o)
      PROVE  /\ seqOf'[q] = seqOf[q] \/ seqOf[q] = 0
             /\ answer'[q] = answer[q] \/ answer[q] = <<>>
  <2>1. PICK a : answer' = [answer EXCEPT ![o] = a]
    BY <1>3 DEF ServeRequest
  <2>2. answer[o] = <<>> /\ seqOf' = seqOf
    BY <1>0, <1>3 DEF StageInv, ServeRequest
  <2> QED BY <1>0, <2>1, <2>2 DEF TypeOK
<1> QED BY <1>1, <1>2, <1>3

\* A call that has an answer keeps it, and its number.
LEMMA AnswerKept ==
    ASSUME WaitInv, [Next]_vars, NEW q \in Ops, answer[q] # <<>>
    PROVE  answer'[q] = answer[q] /\ seqOf'[q] = seqOf[q]
<1>0. TypeOK /\ StageInv
  BY DEF WaitInv
<1>1. answer'[q] = answer[q]
  BY SetOnce
<1>2. CASE \A o \in Ops : ~StartTask(o)
  BY <1>1, <1>2, OnlyStartTask
<1>3. ASSUME NEW o \in Ops, StartTask(o) PROVE seqOf'[q] = seqOf[q]
  <2>1. pc[o] = "gated" /\ seqOf' = [seqOf EXCEPT ![o] = sequence]
    BY <1>3 DEF StartTask
  <2>2. q # o
    BY <1>0, <2>1 DEF StageInv, Early
  <2> QED BY <1>0, <2>1, <2>2 DEF TypeOK
<1> QED BY <1>1, <1>2, <1>3

\* sequence_ does not become unambiguous again.
LEMMA AmbiguousForever ==
    ASSUME WaitInv, [Next]_vars, Unambiguous'
    PROVE  Unambiguous
<1>1. ~wrapped
  <2>1. CASE \A o \in Ops : ~StartTask(o)
    BY <2>1, OnlyStartTask DEF Unambiguous
  <2>2. ASSUME NEW o \in Ops, StartTask(o) PROVE ~wrapped
    BY <2>2 DEF StartTask, Unambiguous
  <2> QED BY <2>1, <2>2
<1>2. ASSUME NEW o \in Started PROVE seqOf[o] \notin NoticeSeqs
  <2>1. o \in Ops /\ seqOf'[o] = seqOf[o] /\ seqOf[o] # 0
    BY SetOnce DEF Started
  <2> QED BY <2>1 DEF Unambiguous, Started, NoticeSeqs
<1> QED BY <1>1, <1>2 DEF Unambiguous

\* What a message is known to be, it stays.
LEMMA KnownKept ==
    ASSUME WaitInv, [Next]_vars, NEW s, NEW m, Known(s, m)
    PROVE  Known(s, m)'
<1>1. CASE m.seq \in NoticeSeqs
  BY <1>1 DEF Known, NoticeSeqs
<1>2. CASE m.seq \notin NoticeSeqs
  <2>1. PICK q \in Ops : SockOf(q) = s /\ seqOf[q] = m.seq /\ m \in Elems(answer[q])
    BY <1>2 DEF Known
  <2>2. answer[q] # <<>>
    BY <2>1, ElemsEmpty
  <2>3. seqOf'[q] = seqOf[q] /\ answer'[q] = answer[q]
    BY <2>2, AnswerKept
  <2>4. SockOf(q)' = SockOf(q)
    BY KindFixed DEF SockOf
  <2> QED BY <2>1, <2>3, <2>4 DEF Known, Elems
<1> QED BY <1>1, <1>2

\* Steps that bring no message to a socket or to a call.
LEMMA OriginFrame ==
    ASSUME WaitInv, [Next]_vars, OriginInv,
           \A s \in Sockets : /\ Elems(todo'[s]) \subseteq Elems(todo[s])
                              /\ Elems(rcvq'[s]) \subseteq Elems(todo[s]) \cup Elems(rcvq[s]),
           \A o \in Ops : Elems(inbox'[o]) \subseteq Elems(inbox[o])
    PROVE  OriginInv'
<1>1. SUFFICES ASSUME Unambiguous' PROVE OriginInv'
  BY DEF OriginInv
<1>2. Unambiguous
  BY <1>1, AmbiguousForever
<1>3. ASSUME NEW s \in Sockets, NEW d \in Elems(todo'[s]) \cup Elems(rcvq'[s]), NEW m \in Elems(d)
      PROVE  Known(s, m)'
  <2>1. Known(s, m)
    BY <1>2, <1>3 DEF OriginInv
  <2> QED BY <2>1, KnownKept
<1>4. ASSUME NEW o \in Ops, NEW m \in Elems(inbox'[o]) PROVE Known(SockOf(o), m)'
  <2>1. Known(SockOf(o), m)
    BY <1>2, <1>4 DEF OriginInv
  <2>2. SockOf(o)' = SockOf(o)
    BY KindFixed DEF SockOf
  <2>3. ASSUME NEW s, s = SockOf(o) PROVE Known(s, m)'
    BY <2>1, <2>3, KnownKept
  <2> QED BY <2>2, <2>3 DEF Known
<1> QED BY <1>3, <1>4 DEF OriginInv, Elems

\* Closing a socket leaves nothing on it and the others as they were.
LEMMA CloseFrame ==
    ASSUME TypeOK, NEW t \in Sockets, Close(t) \/ UNCHANGED sockVars
    PROVE  \A s \in Sockets : /\ Elems(todo'[s]) \subseteq Elems(todo[s])
                              /\ Elems(rcvq'[s]) \subseteq Elems(rcvq[s])
<1>1. CASE UNCHANGED sockVars
  BY <1>1 DEF sockVars
<1>2. CASE Close(t)
  <2>1. \A s \in Sockets : /\ todo'[s] = IF s = t THEN <<>> ELSE todo[s]
                           /\ rcvq'[s] = IF s = t THEN <<>> ELSE rcvq[s]
    BY <1>2 DEF TypeOK, Close
  <2> QED BY <2>1, ElemsEmpty
<1> QED BY <1>1, <1>2

\* Every message on a socket or in a buffer keeps a known origin: a step moves
\* it along, drops it, or puts it there as an answer or a notification.
LEMMA OriginStep == WaitInv /\ OriginInv /\ [Next]_vars => OriginInv'
<1> SUFFICES ASSUME WaitInv, OriginInv, [Next]_vars PROVE OriginInv'
  OBVIOUS
<1> USE DEF opVars, gateVars, sockVars, bounds, history
<1>0. /\ TypeOK /\ StageInv /\ kind' = kind
      /\ \A o \in Ops : /\ SockOf(o)' = SockOf(o) /\ SockOf(o) \in Sockets
                        /\ kind[o] \in AllKinds /\ o \in Sockets
      /\ Shared \in Sockets
  BY KindFixed, SocketsApart, ControlAssumption DEF WaitInv, SockOf, TypeOK, Sockets
<1>1. ASSUME UNCHANGED <<todo, rcvq, inbox>> PROVE OriginInv'
  BY <1>1, OriginFrame
<1>2. ASSUME NEW o \in Ops, \/ Call(o) \/ AcquireSocketToken(o) \/ OpenFails(o) \/ SendDone(o)
                            \/ ReceiveDone(o) \/ ReadMore(o) \/ SendFault(o)
      PROVE  OriginInv'
  BY <1>1, <1>2 DEF Call, AcquireSocketToken, OpenFails, SendDone, ReceiveDone, ReadMore,
                    SendFault
<1>3. ASSUME NEW o \in Ops, StartTask(o) PROVE OriginInv'
  BY <1>1, <1>3 DEF StartTask
<1>4. CASE Tick \/ GateExpires \/ Terminated \/ UNCHANGED vars
  BY <1>1, <1>4 DEF Tick, GateExpires, Terminated, vars
<1>5. ASSUME NEW o \in Ops, Absorb(o) PROVE OriginInv'
  <2>1. UNCHANGED <<todo, rcvq>> /\ inbox' = [inbox EXCEPT ![o] = Tail(@)] /\ inbox[o] # <<>>
    BY <1>5 DEF Absorb
  <2>2. Elems(Tail(inbox[o])) \subseteq Elems(inbox[o])
    BY <1>0, <2>1, ElemsHeadTail DEF TypeOK
  <2>3. \A p \in Ops : Elems(inbox'[p]) \subseteq Elems(inbox[p])
    BY <1>0, <2>1, <2>2 DEF TypeOK
  <2> QED BY <2>1, <2>3, OriginFrame
<1>6. ASSUME NEW o \in Ops, IoFailed(o) \/ Complete(o) PROVE OriginInv'
  <2>1. /\ inbox' = [inbox EXCEPT ![o] = <<>>]
        /\ Close(o) \/ UNCHANGED sockVars
    BY <1>6 DEF IoFailed, Complete, Return
  <2>2. \A s \in Sockets : /\ Elems(todo'[s]) \subseteq Elems(todo[s])
                           /\ Elems(rcvq'[s]) \subseteq Elems(rcvq[s])
    BY <1>0, <2>1, CloseFrame
  <2>3. \A p \in Ops : Elems(inbox'[p]) \subseteq Elems(inbox[p])
    BY <1>0, <2>1, ElemsEmpty DEF TypeOK
  <2> QED BY <2>1, <2>2, <2>3, OriginFrame
<1>7. CASE Stop
  <2>1. UNCHANGED inbox /\ (Close(Shared) \/ UNCHANGED sockVars)
    BY <1>7 DEF Stop
  <2>2. \A s \in Sockets : /\ Elems(todo'[s]) \subseteq Elems(todo[s])
                           /\ Elems(rcvq'[s]) \subseteq Elems(rcvq[s])
    BY <1>0, <2>1, CloseFrame
  <2> QED BY <2>1, <2>2, OriginFrame
<1>8. ASSUME NEW t \in Sockets, DeliverReply(t) \/ DropReply(t) PROVE OriginInv'
  <2>1. /\ todo[t] # <<>> /\ todo' = [todo EXCEPT ![t] = Tail(@)] /\ UNCHANGED inbox
        /\ rcvq' = rcvq \/ rcvq' = [rcvq EXCEPT ![t] = Append(@, Head(todo[t]))]
    BY <1>8 DEF DeliverReply, DropReply
  <2>2. /\ Head(todo[t]) \in Seq(Messages) /\ Head(todo[t]) \in Elems(todo[t])
        /\ Elems(Tail(todo[t])) \subseteq Elems(todo[t])
    BY <1>0, <2>1, ElemsHeadTail DEF TypeOK
  <2>3. Elems(Append(rcvq[t], Head(todo[t]))) = Elems(rcvq[t]) \cup {Head(todo[t])}
    <3>1. rcvq[t] \in Seq(Seq(Messages))
      BY <1>0 DEF TypeOK
    <3> QED BY <2>2, <3>1, ElemsAppend
  <2>4. \A s \in Sockets : /\ Elems(todo'[s]) \subseteq Elems(todo[s])
                           /\ Elems(rcvq'[s]) \subseteq Elems(todo[s]) \cup Elems(rcvq[s])
    BY <1>0, <2>1, <2>2, <2>3 DEF TypeOK
  <2> QED BY <2>1, <2>4, OriginFrame
<1>9. SUFFICES ASSUME Unambiguous',
                      \/ \E o \in Ops : ServeRequest(o)
                      \/ \E s \in Sockets : Receive(s) \/ ReceiveFault(s)
                      \/ Notify
               PROVE  OriginInv'
  BY <1>2, <1>3, <1>4, <1>5, <1>6, <1>7, <1>8 DEF Next, Step, KernelStep, OriginInv
<1>10. Unambiguous
  BY <1>9, AmbiguousForever
<1>11. /\ \A s \in Sockets : \A d \in Elems(todo[s]) \cup Elems(rcvq[s]) :
             \A m \in Elems(d) : Known(s, m)'
       /\ \A o \in Ops : \A m \in Elems(inbox[o]) : Known(SockOf(o), m)'
  <2>1. \A s \in Sockets : \A d \in Elems(todo[s]) \cup Elems(rcvq[s]) :
           \A m \in Elems(d) : Known(s, m)'
    BY <1>10, KnownKept DEF OriginInv
  <2>2. ASSUME NEW o \in Ops, NEW m \in Elems(inbox[o]) PROVE Known(SockOf(o), m)'
    <3>1. Known(SockOf(o), m)
      BY <1>10 DEF OriginInv
    <3>2. ASSUME NEW s, s = SockOf(o) PROVE Known(s, m)'
      BY <3>1, <3>2, KnownKept
    <3> QED BY <1>0, <3>2 DEF Known
  <2> QED BY <2>1, <2>2
<1>12. ASSUME NEW o \in Ops, ServeRequest(o) PROVE OriginInv'
  <2>1. PICK a \in Answers(kind[o], seqOf[o]) :
           /\ answer' = [answer EXCEPT ![o] = a]
           /\ \E n \in 1..Len(a) : todo' = [todo EXCEPT ![SockOf(o)] = @ \o Datagrams(a, n)]
    BY <1>12 DEF ServeRequest
  <2>2. /\ a \in Seq(Messages)
        /\ \A m \in Elems(a) : m.seq = seqOf[o]
    <3>1. kind[o] \in AllKinds /\ seqOf[o] \in Nat
      BY <1>0 DEF TypeOK
    <3> QED BY <2>1, <3>1, AnswersCarrySeq
  <2>3. PICK ds : /\ ds \in Seq(Seq(Messages))
                  /\ \A d \in Elems(ds) : Elems(d) \subseteq Elems(a)
                  /\ todo' = [todo EXCEPT ![SockOf(o)] = @ \o ds]
    BY <2>1, <2>2, DatagramsCarry
  <2>6. Elems(todo[SockOf(o)] \o ds) \subseteq Elems(todo[SockOf(o)]) \cup Elems(ds)
    BY <1>0, <2>3, ElemsConcat DEF TypeOK
  <2>7. \A s \in Sockets : todo'[s] = IF s = SockOf(o) THEN todo[s] \o ds ELSE todo[s]
    BY <1>0, <2>3 DEF TypeOK
  <2>8. answer'[o] = a /\ seqOf' = seqOf /\ rcvq' = rcvq /\ inbox' = inbox
    BY <1>0, <1>12, <2>1 DEF TypeOK, ServeRequest
  <2>9. ASSUME NEW m \in Elems(a) PROVE Known(SockOf(o), m)'
    BY <1>0, <2>2, <2>8, <2>9 DEF Known
  <2>10. ASSUME NEW s \in Sockets, NEW d \in Elems(todo'[s]), NEW m \in Elems(d)
         PROVE  Known(s, m)'
    <3>1. CASE d \in Elems(todo[s])
      BY <1>11, <3>1
    <3>2. CASE d \notin Elems(todo[s])
      <4>1. s = SockOf(o) /\ d \in Elems(ds)
        BY <2>6, <2>7, <2>10, <3>2
      <4>2. m \in Elems(a)
        BY <2>3, <2>10, <4>1
      <4> QED BY <1>0, <2>9, <4>1, <4>2 DEF Known
    <3> QED BY <3>1, <3>2
  <2> QED BY <1>0, <1>11, <2>8, <2>10 DEF OriginInv, Known, Elems
<1>13. CASE Notify
  <2>1. UNCHANGED <<todo, inbox>>
    BY <1>13 DEF Notify
  <2>3. PICK m \in Notices :
          rcvq' = [s \in Sockets |->
                      IF st[s] = "ready" /\ Len(rcvq[s]) < RcvCap
                      THEN Append(rcvq[s], <<m>>) ELSE rcvq[s]]
    BY <1>13 DEF Notify
  <2>4. m.seq \in NoticeSeqs /\ m \in Messages
    BY ControlAssumption DEF NoticeSeqs
  <2>5. <<m>> \in Seq(Messages) /\ Elems(<<m>>) = {m}
    BY <2>4 DEF Elems
  <2>6. \A s \in Sockets : Elems(Append(rcvq[s], <<m>>)) = Elems(rcvq[s]) \cup {<<m>>}
    <3>1. \A s \in Sockets : rcvq[s] \in Seq(Seq(Messages))
      BY <1>0 DEF TypeOK
    <3>2. ASSUME NEW d \in Seq(Messages), NEW s \in Sockets
          PROVE  Elems(Append(rcvq[s], d)) = Elems(rcvq[s]) \cup {d}
      BY <3>1, ElemsAppend
    <3> QED BY <2>5, <3>2
  <2>7. \A s \in Sockets : Elems(rcvq'[s]) \subseteq Elems(rcvq[s]) \cup {<<m>>}
    BY <2>3, <2>6
  <2>8. \A s \in Sockets : Known(s, m)'
    BY <2>4 DEF Known, NoticeSeqs
  <2>9. ASSUME NEW s \in Sockets, NEW d \in Elems(rcvq'[s]), NEW x \in Elems(d) PROVE Known(s, x)'
    BY <1>11, <2>5, <2>7, <2>8, <2>9
  <2> QED BY <1>0, <1>11, <2>1, <2>9 DEF OriginInv, Known, Elems
<1>14. ASSUME NEW s \in Sockets, Receive(s) \/ ReceiveFault(s) PROVE OriginInv'
  <2> DEFINE o == Head(readers[s])
  <2>1. readers[s] # <<>>
    BY <1>14 DEF Receive, ReceiveFault, Completion
  <2>2. o \in Ops /\ SockOf(o) = s
    BY <2>1, HeadReader
  <2>3. \/ /\ rcvq[s] # <<>> /\ inbox' = [inbox EXCEPT ![o] = Head(rcvq[s])]
           /\ rcvq' = [rcvq EXCEPT ![s] = Tail(@)]
        \/ inbox' = [inbox EXCEPT ![o] = <<>>] /\ rcvq' = rcvq
    BY <1>14 DEF Receive, ReceiveFault, Completion
  <2>4. todo' = todo
    BY <1>14 DEF Receive, ReceiveFault
  <2> HIDE DEF o
  <2>5. rcvq[s] # <<>> => Head(rcvq[s]) \in Elems(rcvq[s]) /\ Elems(Tail(rcvq[s])) \subseteq Elems(rcvq[s])
    BY <1>0, ElemsHeadTail DEF TypeOK
  <2>6. \A t \in Sockets : Elems(rcvq'[t]) \subseteq Elems(rcvq[t])
    BY <1>0, <2>3, <2>5 DEF TypeOK
  <2>7. ASSUME NEW p \in Ops, NEW m \in Elems(inbox'[p]) PROVE Known(SockOf(p), m)'
    <3>1. CASE p # o
      BY <1>0, <1>11, <2>3, <2>7, <3>1 DEF TypeOK
    <3>2. CASE p = o
      <4>1. inbox'[o] = <<>> \/ inbox'[o] \in Elems(rcvq[s])
        BY <1>0, <2>2, <2>3, <2>5 DEF TypeOK
      <4>2. inbox'[o] \in Elems(rcvq[s])
        BY <2>7, <3>2, <4>1, ElemsEmpty
      <4>3. Known(s, m)'
        BY <1>11, <2>7, <3>2, <4>2
      <4> QED BY <1>0, <2>2, <3>2, <4>3 DEF Known
    <3> QED BY <3>1, <3>2
  <2> QED BY <1>11, <2>4, <2>6, <2>7 DEF OriginInv, Elems
<1> QED BY <1>9, <1>12, <1>13, <1>14

-----------------------------------------------------------------------------
(* Results. *)

\* ResultFromOwnAnswer for one call.
OwnAnswer(o) ==
    /\ \A e \in Elems(learned[o]) : NewMsg(seqOf[o], e) \in Elems(answer[o])
    /\ pc[o] = "done" /\ (result[o].st = "ok" \/ result[o].code \in KernelErrors \ LocalErrors) =>
          \E m \in Elems(answer[o]) : /\ Completes(kind[o], m)
                                      /\ result[o] = Outcome(kind[o], learned[o], m)

\* Steps in which the call neither learns an entry nor returns.
LEMMA ResultFrame ==
    ASSUME WaitInv, [Next]_vars, NEW p \in Ops, OwnAnswer(p),
           learned'[p] = learned[p],
           pc'[p] = "done" => pc[p] = "done" /\ result'[p] = result[p]
    PROVE  OwnAnswer(p)'
<1>1. kind' = kind
  BY KindFixed
<1>2. ASSUME NEW e \in Elems(learned[p])
      PROVE  NewMsg(seqOf'[p], e) \in Elems(answer'[p])
  <2>1. NewMsg(seqOf[p], e) \in Elems(answer[p])
    BY DEF OwnAnswer
  <2>2. answer[p] # <<>>
    BY <2>1, ElemsEmpty
  <2> QED BY <2>1, <2>2, AnswerKept
<1>3. ASSUME pc'[p] = "done",
             result'[p].st = "ok" \/ result'[p].code \in KernelErrors \ LocalErrors
      PROVE  \E m \in Elems(answer'[p]) :
                Completes(kind'[p], m) /\ result'[p] = Outcome(kind'[p], learned'[p], m)
  <2>1. PICK m \in Elems(answer[p]) :
           Completes(kind[p], m) /\ result[p] = Outcome(kind[p], learned[p], m)
    BY <1>3 DEF OwnAnswer
  <2>2. answer'[p] = answer[p]
    BY <2>1, ElemsEmpty, AnswerKept
  <2> QED BY <1>1, <1>3, <2>1, <2>2
<1> QED BY <1>2, <1>3 DEF OwnAnswer, Elems

\* A message that carries the number of a waiting call is part of its answer.
LEMMA MineIsOwn ==
    ASSUME TypeOK, SeqInv, OriginInv, Unambiguous, NEW o \in Awaiting,
           NEW m \in Elems(inbox[o]), Mine(o, m)
    PROVE  m \in Messages /\ m \in Elems(answer[o]) /\ answer[o] # <<>>
<1>0. o \in Ops
  BY DEF Awaiting
<1>1. m \in Messages
  <2>1. inbox[o] \in Seq(Messages)
    BY <1>0 DEF TypeOK
  <2> QED BY <2>1 DEF Elems
<1>2. m.seq = seqOf[o] /\ m.seq # 0 /\ m.seq \notin NoticeSeqs /\ ~wrapped
  BY <1>0 DEF Mine, SeqInv, Unambiguous, Started
<1>3. Known(SockOf(o), m)
  BY <1>0 DEF OriginInv
<1>4. PICK q \in Ops : seqOf[q] = m.seq /\ m \in Elems(answer[q])
  BY <1>2, <1>3 DEF Known
<1>5. q = o
  BY <1>0, <1>2, <1>4 DEF SeqInv
<1> QED BY <1>1, <1>4, <1>5, ElemsEmpty

\* A result is made of messages of the call's own answer: the number tells them
\* from everything else that reaches the socket.
LEMMA ResultStep ==
    WaitInv /\ SeqInv /\ OriginInv /\ ResultFromOwnAnswer /\ [Next]_vars => ResultFromOwnAnswer'
<1> SUFFICES ASSUME WaitInv, SeqInv, OriginInv, ResultFromOwnAnswer, [Next]_vars, Unambiguous'
             PROVE  \A p \in Ops : OwnAnswer(p)'
  BY DEF ResultFromOwnAnswer, OwnAnswer
<1> USE DEF opVars, gateVars, sockVars, bounds, history
<1>0. TypeOK /\ StageInv /\ kind' = kind /\ Unambiguous
  BY KindFixed, AmbiguousForever DEF WaitInv
<1>a. \A p \in Ops : OwnAnswer(p)
  BY <1>0 DEF ResultFromOwnAnswer, OwnAnswer
<1>b. ASSUME UNCHANGED <<learned, result>>, \A p \in Ops : pc'[p] = "done" => pc[p] = "done"
      PROVE  \A p \in Ops : OwnAnswer(p)'
  BY <1>a, <1>b, ResultFrame
<1>c. ASSUME NEW o \in Ops, pc' = [pc EXCEPT ![o] = "done"], learned' = learned,
             NEW r, result' = [result EXCEPT ![o] = r],
             r.st # "ok", r.code \in LocalErrors
      PROVE  \A p \in Ops : OwnAnswer(p)'
  <2>1. ASSUME NEW p \in Ops, p # o PROVE OwnAnswer(p)'
    BY <1>0, <1>a, <1>c, <2>1, ResultFrame DEF TypeOK
  <2>2. OwnAnswer(o)'
    <3>1. result'[o] = r
      BY <1>0, <1>c DEF TypeOK
    <3>2. ASSUME NEW e \in Elems(learned[o])
          PROVE  NewMsg(seqOf'[o], e) \in Elems(answer'[o])
      <4>1. NewMsg(seqOf[o], e) \in Elems(answer[o])
        BY <1>a DEF OwnAnswer
      <4> QED BY <4>1, ElemsEmpty, AnswerKept
    <3> QED BY <1>c, <3>1, <3>2 DEF OwnAnswer, Elems
  <2> QED BY <2>1, <2>2
<1>1. ASSUME NEW o \in Ops, \/ Call(o) \/ AcquireSocketToken(o) \/ StartTask(o) \/ ReceiveDone(o)
                            \/ SendFault(o)
      PROVE  \A p \in Ops : OwnAnswer(p)'
  BY <1>0, <1>b, <1>1 DEF TypeOK, Call, AcquireSocketToken, StartTask, ReceiveDone, SendFault
<1>2. ASSUME NEW o \in Ops, SendDone(o) \/ ReadMore(o) PROVE \A p \in Ops : OwnAnswer(p)'
  BY <1>0, <1>b, <1>2 DEF TypeOK, SendDone, ReadMore, StartReceive
<1>3. ASSUME NEW o \in Ops, ServeRequest(o) PROVE \A p \in Ops : OwnAnswer(p)'
  BY <1>0, <1>b, <1>3 DEF TypeOK, ServeRequest
<1>4. CASE \/ Tick \/ GateExpires \/ Notify \/ Terminated \/ UNCHANGED vars
           \/ \E s \in Sockets : DeliverReply(s) \/ DropReply(s)
  BY <1>0, <1>b, <1>4 DEF TypeOK, Tick, GateExpires, Notify, Terminated, vars, DeliverReply,
                          DropReply
<1>5. CASE Stop
  BY <1>0, <1>b, <1>5 DEF TypeOK, Stop
<1>6. ASSUME NEW s \in Sockets, Receive(s) \/ ReceiveFault(s) PROVE \A p \in Ops : OwnAnswer(p)'
  <2> DEFINE o == Head(readers[s])
  <2>1. readers[s] # <<>>
    BY <1>6 DEF Receive, ReceiveFault, Completion
  <2>2. o \in Ops
    BY <2>1, HeadReader
  <2>3. pc' = [pc EXCEPT ![o] = "received"] /\ UNCHANGED <<learned, result>>
    BY <1>6 DEF Receive, ReceiveFault, Completion
  <2> HIDE DEF o
  <2> QED BY <1>0, <1>b, <2>2, <2>3 DEF TypeOK
<1>7. ASSUME NEW o \in Ops, OpenFails(o) PROVE \A p \in Ops : OwnAnswer(p)'
  <2>1. PICK r \in {Thrown, Error("EIO")} : result' = [result EXCEPT ![o] = r]
    BY <1>7 DEF OpenFails
  <2>2. r.st # "ok" /\ r.code \in LocalErrors
    BY DEF Thrown, Error, LocalErrors
  <2>3. pc' = [pc EXCEPT ![o] = "done"] /\ learned' = learned
    BY <1>7 DEF OpenFails
  <2> QED BY <1>c, <2>1, <2>2, <2>3
<1>8. ASSUME NEW o \in Ops, IoFailed(o) PROVE \A p \in Ops : OwnAnswer(p)'
  <2>1. /\ pc' = [pc EXCEPT ![o] = "done"] /\ learned' = learned
        /\ result' = [result EXCEPT ![o] = Error(ec[o])] /\ ec[o] # "0"
    BY <1>8 DEF IoFailed, Return
  <2>2. ec[o] \in LocalErrors
    BY <1>0, <2>1 DEF TypeOK
  <2>3. Error(ec[o]).st # "ok" /\ Error(ec[o]).code \in LocalErrors
    BY <2>2 DEF Error
  <2> QED BY <1>c, <2>1, <2>3
<1>9. ASSUME NEW o \in Ops, Absorb(o) PROVE \A p \in Ops : OwnAnswer(p)'
  <2> DEFINE m == Head(inbox[o])
  <2>1. inbox[o] # <<>> /\ pc[o] = "processing" /\ UNCHANGED <<pc, seqOf, result, answer>>
    BY <1>9 DEF Absorb
  <2>2. \/ learned' = learned
        \/ Mine(o, m) /\ Learns(kind[o], m) /\ learned' = [learned EXCEPT ![o] = Append(@, m.entry)]
    BY <1>9 DEF Absorb
  <2>3. m \in Elems(inbox[o])
    BY <1>0, <2>1, ElemsHeadTail DEF TypeOK
  <2> HIDE DEF m
  <2>4. CASE learned' = learned
    BY <1>b, <2>1, <2>4
  <2>5. CASE Mine(o, m) /\ Learns(kind[o], m) /\ learned' = [learned EXCEPT ![o] = Append(@, m.entry)]
    <3>1. o \in Awaiting
      BY <2>1 DEF Awaiting
    <3>2. m \in Messages /\ m \in Elems(answer[o])
      BY <1>0, <2>3, <2>5, <3>1, MineIsOwn
    <3>3. m = NewMsg(seqOf[o], m.entry) /\ m.entry \in Entries
      BY <2>5, <3>2 DEF Messages, NewMsg, Mine, Learns
    <3>4. learned[o] \in Seq(Entries)
      BY <1>0 DEF TypeOK
    <3>5. Elems(Append(learned[o], m.entry)) = Elems(learned[o]) \cup {m.entry}
      BY <3>3, <3>4, ElemsAppend
    <3>6. learned'[o] = Append(learned[o], m.entry) /\ \A p \in Ops : p # o => learned'[p] = learned[p]
      BY <1>0, <2>5 DEF TypeOK
    <3>7. OwnAnswer(o)'
      <4>1. \A e \in Elems(learned[o]) : NewMsg(seqOf[o], e) \in Elems(answer[o])
        BY <1>a DEF OwnAnswer
      <4>2. \A e \in Elems(learned'[o]) : NewMsg(seqOf'[o], e) \in Elems(answer'[o])
        BY <2>1, <3>2, <3>3, <3>5, <3>6, <4>1
      <4>3. pc'[o] # "done"
        BY <2>1
      <4> QED BY <4>2, <4>3 DEF OwnAnswer, Elems
    <3>8. ASSUME NEW p \in Ops, p # o PROVE OwnAnswer(p)'
      BY <1>a, <2>1, <3>6, <3>8, ResultFrame
    <3> QED BY <3>7, <3>8
  <2> QED BY <2>2, <2>4, <2>5
<1>10. ASSUME NEW o \in Ops, Complete(o) PROVE \A p \in Ops : OwnAnswer(p)'
  <2> DEFINE m == Head(inbox[o])
  <2>1. /\ inbox[o] # <<>> /\ pc[o] = "processing" /\ UNCHANGED <<seqOf, learned, answer>>
        /\ pc' = [pc EXCEPT ![o] = "done"]
        /\ Mine(o, m) /\ Completes(kind[o], m)
        /\ result' = [result EXCEPT ![o] = Outcome(kind[o], learned[o], m)]
    BY <1>10 DEF Complete, Return
  <2>2. m \in Elems(inbox[o])
    BY <1>0, <2>1, ElemsHeadTail DEF TypeOK
  <2> HIDE DEF m
  <2>3. m \in Elems(answer[o])
    <3>1. o \in Awaiting
      BY <2>1 DEF Awaiting
    <3> QED BY <1>0, <2>1, <2>2, <3>1, MineIsOwn
  <2>4. OwnAnswer(o)'
    <3>1. \A e \in Elems(learned[o]) : NewMsg(seqOf[o], e) \in Elems(answer[o])
      BY <1>a DEF OwnAnswer
    <3>2. result'[o] = Outcome(kind[o], learned[o], m)
      BY <1>0, <2>1 DEF TypeOK
    <3> QED BY <1>0, <2>1, <2>3, <3>1, <3>2 DEF OwnAnswer, Elems
  <2>5. ASSUME NEW p \in Ops, p # o PROVE OwnAnswer(p)'
    BY <1>0, <1>a, <2>1, <2>5, ResultFrame DEF TypeOK
  <2> QED BY <2>4, <2>5
<1> QED BY <1>1, <1>2, <1>3, <1>4, <1>5, <1>6, <1>7, <1>8, <1>9, <1>10 DEF Next, Step, KernelStep

\* Everything the result rests on, as one inductive invariant.
DataInv == WaitInv /\ SeqInv /\ OriginInv /\ ResultFromOwnAnswer

\* The inductive invariant holds in every reachable state.
LEMMA DataInvariant == Spec => []DataInv
<1>1. Init => SeqInv /\ OriginInv /\ ResultFromOwnAnswer
  <2> SUFFICES ASSUME Init PROVE SeqInv /\ OriginInv /\ ResultFromOwnAnswer
    OBVIOUS
  <2>1. SeqInv
    BY DEF Init, SeqInv, Awaiting
  <2>2. /\ \A s \in Sockets : todo[s] = <<>> /\ rcvq[s] = <<>>
        /\ \A o \in Ops : inbox[o] = <<>> /\ learned[o] = <<>> /\ pc[o] = "idle"
    BY DEF Init
  <2>3. OriginInv
    BY <2>2, ElemsEmpty DEF OriginInv
  <2>4. ResultFromOwnAnswer
    BY <2>2, ElemsEmpty DEF ResultFromOwnAnswer
  <2> QED BY <2>1, <2>3, <2>4
<1>2. SeqInv /\ OriginInv /\ ResultFromOwnAnswer /\ WaitInv /\ [Next]_vars
         => SeqInv' /\ OriginInv' /\ ResultFromOwnAnswer'
  BY SeqStep, OriginStep, ResultStep
<1>3. Spec => [](SeqInv /\ OriginInv /\ ResultFromOwnAnswer)
  BY <1>1, <1>2, WaitInvariant, PTL DEF Spec
<1>4. (SeqInv /\ OriginInv /\ ResultFromOwnAnswer) /\ WaitInv <=> DataInv
  BY DEF DataInv
<1> QED BY <1>3, <1>4, WaitInvariant, PTL

\* Whatever fails, is stopped, arrives late or arrives for somebody else, a call
\* returns what the kernel answered to its own request.
THEOREM ResultFromOwnAnswerTheorem == Spec => []ResultFromOwnAnswer
<1>1. DataInv => ResultFromOwnAnswer
  BY DEF DataInv
<1> QED BY <1>1, DataInvariant, PTL

-----------------------------------------------------------------------------
(* Callers that wait for a neighbour operation before they start another. *)

\* Only Call adds to the calls under way.
LEMMA OnlyCall ==
    ASSUME WaitInv, [Next]_vars, \A o \in Ops : ~Call(o)
    PROVE  Ongoing' \subseteq Ongoing
<1> USE DEF opVars, gateVars, sockVars, bounds, history, Ongoing
<1>0. TypeOK /\ NobodyForgotten
  BY DEF WaitInv
<1>a. \A p \in armed : p \in Ops /\ pc[p] = "gate"
  BY <1>0 DEF TypeOK, NobodyForgotten
<1>1. ASSUME NEW o \in Ops, \/ AcquireSocketToken(o) \/ OpenFails(o) \/ StartTask(o) \/ ReceiveDone(o)
                            \/ Absorb(o) \/ ServeRequest(o) \/ SendFault(o)
      PROVE  Ongoing' \subseteq Ongoing
  BY <1>0, <1>a, <1>1 DEF TypeOK, AcquireSocketToken, OpenFails, StartTask, ReceiveDone, Absorb,
                          ServeRequest, SendFault
<1>2. ASSUME NEW o \in Ops, SendDone(o) \/ ReadMore(o) PROVE Ongoing' \subseteq Ongoing
  BY <1>0, <1>2 DEF TypeOK, SendDone, ReadMore, StartReceive
<1>3. ASSUME NEW o \in Ops, IoFailed(o) \/ Complete(o) PROVE Ongoing' \subseteq Ongoing
  <2>1. pc' = [pc EXCEPT ![o] = "done"]
    BY <1>3 DEF IoFailed, Complete, Return
  <2> QED BY <1>0, <2>1 DEF TypeOK
<1>4. CASE \/ Tick \/ GateExpires \/ Notify \/ Terminated \/ UNCHANGED vars
           \/ \E s \in Sockets : DeliverReply(s) \/ DropReply(s)
  BY <1>0, <1>a, <1>4 DEF TypeOK, Tick, GateExpires, Notify, Terminated, vars, DeliverReply,
                          DropReply
<1>5. CASE Stop
  BY <1>0, <1>5 DEF TypeOK, Stop
<1>6. ASSUME NEW s \in Sockets, Receive(s) \/ ReceiveFault(s) PROVE Ongoing' \subseteq Ongoing
  <2> DEFINE o == Head(readers[s])
  <2>1. readers[s] # <<>>
    BY <1>6 DEF Receive, ReceiveFault, Completion
  <2>2. o \in Ops /\ pc[o] = "reading"
    BY <2>1, HeadReader
  <2>3. pc' = [pc EXCEPT ![o] = "received"]
    BY <1>6 DEF Receive, ReceiveFault, Completion
  <2> HIDE DEF o
  <2> QED BY <1>0, <2>2, <2>3 DEF TypeOK
<1> QED BY <1>1, <1>2, <1>3, <1>4, <1>5, <1>6 DEF Next, Step, KernelStep

\* A patient caller starts a neighbour operation when none is under way.
LEMMA SerialStep == WaitInv /\ SerialInv /\ [Next]_vars => SerialInv'
<1> SUFFICES ASSUME WaitInv, SerialInv, [Next]_vars PROVE SerialInv'
  OBVIOUS
<1>0. TypeOK /\ kind' = kind
  BY KindFixed DEF WaitInv
<1>1. CASE \A o \in Ops : ~Call(o)
  <2>1. Ongoing' \subseteq Ongoing
    BY <1>1, OnlyCall
  <2> QED BY <1>0, <2>1 DEF SerialInv
<1>2. ASSUME NEW o \in Ops, Call(o) PROVE SerialInv'
  <2>1. Ongoing' \subseteq Ongoing \cup {o}
    BY <1>0, <1>2 DEF TypeOK, Call, Ongoing
  <2>2. SerialNeighborOps /\ kind[o] \in NeighborOps => \A p \in Ongoing : kind[p] \in Dumps
    BY <1>2 DEF Call
  <2>3. \A p \in Ops : ~(kind[p] \in NeighborOps /\ kind[p] \in Dumps)
    BY DEF NeighborOps, Dumps
  <2>4. \A p \in Ongoing' : p \in Ops
    BY DEF Ongoing
  <2> QED BY <1>0, <2>1, <2>2, <2>3, <2>4 DEF SerialInv, Ongoing
<1> QED BY <1>1, <1>2

\* Two calls that use the same socket are the same call, or neighbour operations.
LEMMA SharedSocket ==
    ASSUME TypeOK, NEW o \in Ops, NEW p \in Ops, SockOf(o) = SockOf(p)
    PROVE  o = p \/ (kind[o] \in NeighborOps /\ kind[p] \in NeighborOps)
BY SocketsApart

\* When callers wait for one neighbour operation before they start the next,
\* nobody reads, and so drops, an answer that another call waits for.
THEOREM NoStolenReplyTheorem == Spec => [](SerialNeighborOps => NoStolenReply)
<1>1. Init => SerialInv
  BY DEF Init, SerialInv, Ongoing
<1>2. Spec => []SerialInv
  BY <1>1, SerialStep, WaitInvariant, PTL DEF Spec
<1>3. DataInv /\ SerialInv => (SerialNeighborOps => NoStolenReply)
  <2> SUFFICES ASSUME DataInv, SerialInv, SerialNeighborOps, Unambiguous,
                      NEW o \in Ops, NEW p \in Awaiting \ {o}, NEW m \in Elems(inbox[o]),
                      m.seq = seqOf[p]
               PROVE  FALSE
    BY DEF NoStolenReply
  <2>0. TypeOK /\ StageInv /\ SeqInv /\ OriginInv /\ p \in Ops /\ ~wrapped
    BY DEF DataInv, WaitInv, Awaiting, Unambiguous
  <2>1. inbox[o] # <<>>
    BY ElemsEmpty
  <2>2. o \in Ongoing /\ p \in Ongoing
    BY <2>0, <2>1 DEF StageInv, Awaiting, Ongoing
  <2>3. seqOf[p] # 0 /\ seqOf[p] \notin NoticeSeqs
    BY <2>0 DEF SeqInv, Unambiguous, Started
  <2>4. Known(SockOf(o), m)
    BY <2>0 DEF OriginInv
  <2>5. PICK q \in Ops : SockOf(q) = SockOf(o) /\ seqOf[q] = seqOf[p]
    BY <2>3, <2>4 DEF Known
  <2>6. q = p
    BY <2>0, <2>3, <2>5 DEF SeqInv
  <2>7. kind[o] \in NeighborOps /\ kind[p] \in NeighborOps
    BY <2>0, <2>5, <2>6, SharedSocket
  <2> QED BY <2>2, <2>7 DEF SerialInv
<1> QED BY <1>2, <1>3, DataInvariant, PTL

-----------------------------------------------------------------------------
(* The end of a dump. *)

\* A dump asks for a dump, and ends with NLMSG_DONE or an error.
LEMMA DumpTasks ==
    ASSUME NEW k \in AllKinds
    PROVE  /\ k \in Dumps <=> Task(k).flags = {"DUMP"}
           /\ k \in Dumps => Task(k).final = {"DONE", "ERROR"}
BY DEF AllKinds, Dumps, NeighborOps, Task, RouteDumpTask, AddressDumpTask, LinkDumpTask,
       NeighborDumpTask, NeighborProbeTask, NeighborFlushTask, NeighborGetTask

\* The kernel's answer to a dump has a message that ends it.
LEMMA AnswerEnds ==
    ASSUME NEW k \in Dumps, NEW q \in Nat, NEW a \in Answers(k, q)
    PROVE  \E m \in Elems(a) : m.seq = q /\ Completes(k, m)
<1> DEFINE known == {e \in Entries : e.family = Task(k).family}
           listing(es, c) == [i \in 1..(Len(es) + 1) |->
                                IF i <= Len(es) THEN NewMsg(q, es[i]) ELSE DoneMsg(q, c)]
<1>0. k \in AllKinds
  BY DEF AllKinds
<1>1. \/ \E c \in KernelErrors : a = <<ErrorMsg(q, c)>>
      \/ \E n \in 0..MaxDump, c \in {"0"} \cup KernelErrors :
            \E es \in [1..n -> known] : a = listing(es, c)
  BY <1>0, DumpTasks DEF Answers
<1>2. CASE \E c \in KernelErrors : a = <<ErrorMsg(q, c)>>
  <2>1. PICK c \in KernelErrors : a = <<ErrorMsg(q, c)>>
    BY <1>2
  <2>2. ErrorMsg(q, c) \in Elems(a)
    BY <2>1 DEF Elems
  <2> QED BY <1>0, <2>2, DumpTasks DEF ErrorMsg, Completes
<1>3. ASSUME NEW n \in 0..MaxDump, NEW c \in {"0"} \cup KernelErrors,
             NEW es \in [1..n -> known], a = listing(es, c)
      PROVE  \E m \in Elems(a) : m.seq = q /\ Completes(k, m)
  <2>1. n \in Nat /\ Len(es) = n
    BY ControlAssumption
  <2>2. n + 1 \in DOMAIN a /\ a[n + 1] = DoneMsg(q, c)
    BY <1>3, <2>1
  <2>3. DoneMsg(q, c) \in Elems(a)
    BY <2>2 DEF Elems
  <2> QED BY <1>0, <2>3, DumpTasks DEF DoneMsg, Completes
<1> QED BY <1>1, <1>2, <1>3

\* The two parts of a sequence that is cut behind its first n elements.
LEMMA CutInTwo ==
    ASSUME NEW S, NEW a \in Seq(S), NEW n \in 1..Len(a)
    PROVE  /\ Len(SubSeq(a, 1, n)) = n /\ DOMAIN SubSeq(a, 1, n) = 1..n
           /\ \A j \in 1..n : SubSeq(a, 1, n)[j] = a[j]
           /\ Len(SubSeq(a, n + 1, Len(a))) = Len(a) - n
           /\ DOMAIN SubSeq(a, n + 1, Len(a)) = 1..(Len(a) - n)
           /\ \A j \in 1..(Len(a) - n) : SubSeq(a, n + 1, Len(a))[j] = a[j + n]
<1>1. Len(a) \in Nat /\ n \in Nat /\ n <= Len(a)
  BY LenProperties
<1>2. /\ 1 \in 1..(Len(a) + 1) /\ n \in 0..Len(a)
      /\ n + 1 \in 1..(Len(a) + 1) /\ Len(a) \in 0..Len(a)
  BY <1>1
<1>3. /\ Len(SubSeq(a, 1, n)) = IF 1 <= n THEN n - 1 + 1 ELSE 0
      /\ DOMAIN SubSeq(a, 1, n) = 1..Len(SubSeq(a, 1, n))
      /\ \A j \in 1..(n - 1 + 1) : SubSeq(a, 1, n)[j] = a[1 + j - 1]
  BY <1>2, SubSeqProperties
<1>4. /\ Len(SubSeq(a, n + 1, Len(a))) =
             IF n + 1 <= Len(a) THEN Len(a) - (n + 1) + 1 ELSE 0
      /\ DOMAIN SubSeq(a, n + 1, Len(a)) = 1..Len(SubSeq(a, n + 1, Len(a)))
      /\ \A j \in 1..(Len(a) - (n + 1) + 1) : SubSeq(a, n + 1, Len(a))[j] = a[(n + 1) + j - 1]
  BY <1>2, SubSeqProperties
<1>5. Len(SubSeq(a, 1, n)) = n /\ Len(SubSeq(a, n + 1, Len(a))) = Len(a) - n
  BY <1>1, <1>3, <1>4
<1>6. \A j \in 1..n : j \in 1..(n - 1 + 1) /\ 1 + j - 1 = j
  BY <1>1
<1>7. \A j \in 1..(Len(a) - n) : j \in 1..(Len(a) - (n + 1) + 1) /\ (n + 1) + j - 1 = j + n
  BY <1>1
<1> QED BY <1>3, <1>4, <1>5, <1>6, <1>7

\* However an answer is cut into datagrams, they carry all of it.
LEMMA DatagramsCover ==
    ASSUME NEW a \in Seq(Messages), NEW n \in 1..Len(a), NEW m \in Elems(a)
    PROVE  \E d \in Elems(Datagrams(a, n)) : m \in Elems(d)
<1>0. Len(a) \in Nat /\ DOMAIN a = 1..Len(a)
  BY LenProperties
<1>1. CASE n = Len(a)
  <2>1. Datagrams(a, n) = <<a>>
    BY <1>1 DEF Datagrams
  <2>2. a \in Elems(<<a>>)
    BY DEF Elems
  <2> QED BY <2>1, <2>2
<1>2. CASE n # Len(a)
  <2> DEFINE u == SubSeq(a, 1, n)  v == SubSeq(a, n + 1, Len(a))
  <2>1. PICK i \in 1..Len(a) : m = a[i]
    BY <1>0 DEF Elems
  <2>2. /\ 1..n = DOMAIN u /\ \A j \in 1..n : u[j] = a[j]
        /\ 1..(Len(a) - n) = DOMAIN v /\ \A j \in 1..(Len(a) - n) : v[j] = a[j + n]
    BY CutInTwo
  <2>3. m \in Elems(u) \/ m \in Elems(v)
    <3>1. CASE i <= n
      BY <2>1, <2>2, <3>1 DEF Elems
    <3>2. CASE i > n
      <4>1. i - n \in 1..(Len(a) - n) /\ (i - n) + n = i
        BY <1>0, <3>2
      <4> QED BY <2>1, <2>2, <4>1 DEF Elems
    <3> QED BY <3>1, <3>2
  <2> HIDE DEF u, v
  <2>4. Datagrams(a, n) = <<u, v>>
    BY <1>2 DEF u, v, Datagrams
  <2>5. u \in Elems(<<u, v>>) /\ v \in Elems(<<u, v>>)
    BY DEF Elems
  <2> QED BY <2>3, <2>4, <2>5
<1> QED BY <1>1, <1>2

\* No datagram of an answer is empty.
LEMMA DatagramsNonEmpty ==
    ASSUME NEW a \in Seq(Messages), NEW n \in 1..Len(a), NEW d \in Elems(Datagrams(a, n))
    PROVE  d # <<>>
<1>0. Len(a) \in Nat /\ Len(<<>>) = 0
  BY LenProperties
<1>1. CASE n = Len(a)
  BY <1>0, <1>1 DEF Datagrams, Elems
<1>2. CASE n # Len(a)
  <2> DEFINE u == SubSeq(a, 1, n)  v == SubSeq(a, n + 1, Len(a))
  <2>1. Len(u) = n /\ Len(v) = Len(a) - n
    BY CutInTwo
  <2> HIDE DEF u, v
  <2>2. u # <<>> /\ v # <<>>
    BY <1>0, <1>2, <2>1
  <2>3. Datagrams(a, n) = <<u, v>>
    BY <1>2 DEF u, v, Datagrams
  <2>4. d = u \/ d = v
    BY <2>3 DEF Elems
  <2> QED BY <2>2, <2>4
<1> QED BY <1>1, <1>2

\* Datagrams on the socket of a dump, and the messages that end it.
Pieces(p) == Elems(rcvq[p]) \cup Elems(todo[p])
Ends(p, m) == Mine(p, m) /\ Completes(kind[p], m)

\* A dump has its answer from the moment its send succeeded; what the kernel still
\* holds for it is part of that answer; and until it has returned, the end of a
\* listing is still before it.
Served(p) ==
    pc[p] \in {"reading", "received", "processing"} \/ (pc[p] = "sent" /\ ec[p] = "0") =>
        answer[p] # <<>>
Held(p) == \A d \in Elems(todo[p]) : d # <<>> /\ Elems(d) \subseteq Elems(answer[p])
EndAhead(p) ==
    /\ p \in Awaiting /\ answer[p] # <<>>
    /\ \A m \in Elems(answer[p]) : m.type # "ERROR"
    => \/ \E m \in Elems(inbox[p]) : Ends(p, m)
       \/ \E d \in Pieces(p) : \E m \in Elems(d) : Ends(p, m)

DumpEnd(p) == kind[p] \in Dumps => Served(p) /\ Held(p) /\ EndAhead(p)
EndInv == \A p \in Ops : DumpEnd(p)

\* A call waits for its send and its receives only after the kernel took the
\* request, unless the send failed.
LEMMA ServedStep ==
    ASSUME WaitInv, [Next]_vars, NEW p \in Ops, kind[p] \in Dumps, Served(p)
    PROVE  Served(p)'
<1> USE DEF opVars, gateVars, sockVars, bounds, history
<1>0. TypeOK /\ StageInv /\ NobodyForgotten
  BY DEF WaitInv
<1>a. \A o \in armed : o \in Ops /\ pc[o] = "gate"
  BY <1>0 DEF TypeOK, NobodyForgotten
<1>b. ASSUME pc'[p] = pc[p], ec'[p] = ec[p] PROVE Served(p)'
  BY <1>b, AnswerKept DEF Served
<1>c. ASSUME pc'[p] \notin {"reading", "received", "processing", "sent"} PROVE Served(p)'
  BY <1>c DEF Served
<1>d. ASSUME answer[p] # <<>> PROVE Served(p)'
  BY <1>d, AnswerKept DEF Served
<1>1. ASSUME NEW o \in Ops, o # p, Call(o) \/ OpenFails(o) \/ StartTask(o) \/ ReceiveDone(o)
      PROVE  Served(p)'
  BY <1>0, <1>1, <1>b DEF TypeOK, Call, OpenFails, StartTask, ReceiveDone
<1>2. ASSUME NEW o \in Ops, o # p, SendDone(o) \/ ReadMore(o) PROVE Served(p)'
  BY <1>0, <1>2, <1>b DEF TypeOK, SendDone, ReadMore, StartReceive
<1>3. ASSUME NEW o \in Ops, o # p, IoFailed(o) \/ Absorb(o) \/ Complete(o) PROVE Served(p)'
  BY <1>0, <1>3, <1>b DEF TypeOK, IoFailed, Absorb, Complete, Return
<1>4. ASSUME NEW o \in Ops, o # p, ServeRequest(o) \/ SendFault(o) PROVE Served(p)'
  BY <1>0, <1>4, <1>b DEF TypeOK, ServeRequest, SendFault
<1>5. CASE Call(p) \/ OpenFails(p) \/ StartTask(p)
  BY <1>0, <1>5, <1>c DEF TypeOK, Call, OpenFails, StartTask
<1>6. CASE SendDone(p) \/ ReceiveDone(p) \/ ReadMore(p) \/ Absorb(p)
  BY <1>6, <1>d DEF Served, SendDone, ReceiveDone, ReadMore, Absorb
<1>7. CASE IoFailed(p) \/ Complete(p)
  BY <1>0, <1>7, <1>c DEF TypeOK, IoFailed, Complete, Return
<1>8. CASE SendFault(p)
  BY <1>0, <1>8 DEF TypeOK, SendFault, Served
<1>9. CASE ServeRequest(p)
  <2>1. PICK a \in Answers(kind[p], seqOf[p]) : answer' = [answer EXCEPT ![p] = a]
    BY <1>9 DEF ServeRequest
  <2>2. a # <<>>
    BY <1>0, <2>1, SocketsApart, AnswersCarrySeq DEF TypeOK
  <2> QED BY <1>0, <2>1, <2>2 DEF TypeOK, Served
<1>10. ASSUME NEW o \in Ops, AcquireSocketToken(o) PROVE Served(p)'
  <2>1. pc'[p] = pc[p] \/ pc'[p] \in {"gate", "gated"}
    BY <1>0, <1>10 DEF TypeOK, AcquireSocketToken
  <2>2. ec' = ec
    BY <1>10 DEF AcquireSocketToken
  <2> QED BY <1>b, <1>c, <2>1, <2>2
<1>11. CASE GateExpires
  <2>1. pc'[p] = pc[p] \/ pc'[p] = "gated"
    BY <1>0, <1>11 DEF TypeOK, GateExpires
  <2>2. ec' = ec
    BY <1>11 DEF GateExpires
  <2> QED BY <1>b, <1>c, <2>1, <2>2
<1>12. CASE \/ Tick \/ Notify \/ Terminated \/ UNCHANGED vars
            \/ \E s \in Sockets : DeliverReply(s) \/ DropReply(s)
  BY <1>12, <1>b DEF Tick, Notify, Terminated, vars, DeliverReply, DropReply
<1>13. CASE Stop
  <2>1. SockOf(p) # Shared
    BY <1>0, SocketsApart
  <2> QED BY <1>0, <1>13, <1>b, <2>1 DEF TypeOK, Stop
<1>14. ASSUME NEW s \in Sockets, Receive(s) \/ ReceiveFault(s) PROVE Served(p)'
  <2> DEFINE o == Head(readers[s])
  <2>1. readers[s] # <<>>
    BY <1>14 DEF Receive, ReceiveFault, Completion
  <2>2. o \in Ops /\ pc[o] = "reading"
    BY <2>1, HeadReader
  <2>3. PICK c : pc' = [pc EXCEPT ![o] = "received"] /\ ec' = [ec EXCEPT ![o] = c]
    BY <1>14 DEF Receive, ReceiveFault, Completion
  <2> HIDE DEF o
  <2>4. CASE p = o
    BY <1>d, <2>2, <2>4 DEF Served
  <2>5. CASE p # o
    BY <1>0, <1>b, <2>2, <2>3, <2>5 DEF TypeOK
  <2> QED BY <2>4, <2>5
<1> QED
  BY <1>1, <1>2, <1>3, <1>4, <1>5, <1>6, <1>7, <1>8, <1>9, <1>10, <1>11, <1>12, <1>13, <1>14
     DEF Next, Step, KernelStep

\* Steps that take nothing from the socket or the buffer of a dump, and give it no
\* answer.
LEMMA EndFrame ==
    ASSUME WaitInv, [Next]_vars, NEW p \in Ops, kind[p] \in Dumps, DumpEnd(p),
           answer'[p] = answer[p],
           Elems(todo'[p]) \subseteq Elems(todo[p]),
           Pieces(p) \subseteq Pieces(p)',
           \A m \in Elems(inbox[p]) : Ends(p, m) => m \in Elems(inbox'[p])
    PROVE  DumpEnd(p)'
<1>1. kind' = kind /\ Served(p)'
  BY KindFixed, ServedStep DEF DumpEnd
<1>2. Held(p)'
  BY DEF DumpEnd, Held, Elems
<1>3. SUFFICES ASSUME p \in Awaiting', answer[p] # <<>>,
                      \A m \in Elems(answer[p]) : m.type # "ERROR"
               PROVE  \/ \E m \in Elems(inbox'[p]) : Ends(p, m)'
                      \/ \E d \in Pieces(p)' : \E m \in Elems(d) : Ends(p, m)'
  BY <1>1, <1>2 DEF DumpEnd, EndAhead, Elems
<1>4. p \in Awaiting
  <2>1. CASE \A o \in Ops : ~StartTask(o)
    BY <1>3, <2>1, OnlyStartTask
  <2>2. ASSUME NEW o \in Ops, StartTask(o) PROVE p \in Awaiting
    <3>1. TypeOK /\ StageInv
      BY DEF WaitInv
    <3>2. p # o
      BY <1>3, <2>2, <3>1 DEF StageInv, StartTask, Early
    <3> QED BY <1>3, <2>2, <3>1, <3>2 DEF TypeOK, StartTask, Awaiting
  <2> QED BY <2>1, <2>2
<1>5. seqOf'[p] = seqOf[p]
  BY <1>3, AnswerKept
<1>6. \A m : Ends(p, m)' <=> Ends(p, m)
  BY <1>1, <1>5 DEF Ends, Mine
<1>7. \/ \E m \in Elems(inbox[p]) : Ends(p, m)
      \/ \E d \in Pieces(p) : \E m \in Elems(d) : Ends(p, m)
  BY <1>3, <1>4 DEF DumpEnd, EndAhead
<1> QED BY <1>6, <1>7

\* The kernel's answer to a dump: its end is on the way.
LEMMA EndServed ==
    ASSUME WaitInv, [Next]_vars, NEW p \in Ops, kind[p] \in Dumps, DumpEnd(p), ServeRequest(p)
    PROVE  DumpEnd(p)'
<1>0. /\ TypeOK /\ StageInv /\ kind' = kind /\ SockOf(p) = p
      /\ p \in Sockets /\ kind[p] \in AllKinds
  BY KindFixed, SocketsApart DEF WaitInv
<1>1. Served(p)'
  BY ServedStep DEF DumpEnd
<1>2. PICK a \in Answers(kind[p], seqOf[p]) :
         /\ answer' = [answer EXCEPT ![p] = a]
         /\ \E n \in 1..Len(a) : todo' = [todo EXCEPT ![SockOf(p)] = @ \o Datagrams(a, n)]
  BY DEF ServeRequest
<1>3. PICK n \in 1..Len(a) : todo' = [todo EXCEPT ![p] = @ \o Datagrams(a, n)]
  BY <1>0, <1>2
<1>4. seqOf[p] \in Nat /\ a \in Seq(Messages)
  BY <1>0, <1>2, AnswersCarrySeq DEF TypeOK
<1>5. /\ Datagrams(a, n) \in Seq(Seq(Messages))
      /\ \A d \in Elems(Datagrams(a, n)) : d # <<>> /\ Elems(d) \subseteq Elems(a)
  BY <1>4, DatagramsCarry, DatagramsNonEmpty
<1>6. /\ answer'[p] = a
      /\ todo'[p] = todo[p] \o Datagrams(a, n)
      /\ todo[p] \in Seq(Seq(Messages))
      /\ seqOf' = seqOf
  BY <1>0, <1>2, <1>3 DEF TypeOK, ServeRequest
<1>7. Elems(todo'[p]) = Elems(todo[p]) \cup Elems(Datagrams(a, n))
  <2> DEFINE t == todo[p]  ds == Datagrams(a, n)
  <2>1. t \in Seq(Seq(Messages)) /\ ds \in Seq(Seq(Messages))
    BY <1>5, <1>6
  <2> HIDE DEF t, ds
  <2>2. Elems(t \o ds) = Elems(t) \cup Elems(ds)
    BY <2>1, ElemsConcat
  <2> QED BY <1>6, <2>2 DEF t, ds
<1>8. Elems(answer[p]) = {}
  BY <1>0, ElemsEmpty DEF StageInv, ServeRequest
<1>9. Held(p)'
  <2>1. ASSUME NEW d \in Elems(todo'[p]) PROVE d # <<>> /\ Elems(d) \subseteq Elems(a)
    <3>1. CASE d \in Elems(todo[p])
      BY <1>8, <3>1 DEF DumpEnd, Held
    <3>2. CASE d \in Elems(Datagrams(a, n))
      BY <1>5, <3>2
    <3> QED BY <1>7, <2>1, <3>1, <3>2
  <2> QED BY <1>6, <2>1 DEF Held, Elems
<1>10. EndAhead(p)'
  <2>1. PICK m \in Elems(a) : m.seq = seqOf[p] /\ Completes(kind[p], m)
    BY <1>2, <1>4, AnswerEnds
  <2>2. PICK d \in Elems(Datagrams(a, n)) : m \in Elems(d)
    BY <1>4, DatagramsCover
  <2>3. d \in Pieces(p)'
    BY <1>7, <2>2 DEF Pieces, Elems
  <2>4. Ends(p, m)'
    BY <1>0, <1>6, <2>1 DEF Ends, Mine
  <2> QED BY <2>2, <2>3, <2>4 DEF EndAhead, Elems
<1> QED BY <1>1, <1>9, <1>10 DEF DumpEnd

\* A dump that returns waits for nothing, and its socket is gone.
LEMMA EndReturned ==
    ASSUME WaitInv, [Next]_vars, NEW p \in Ops, kind[p] \in Dumps, DumpEnd(p),
           IoFailed(p) \/ Complete(p)
    PROVE  DumpEnd(p)'
<1>0. TypeOK /\ p \in Sockets
  BY SocketsApart DEF WaitInv
<1>1. Served(p)'
  BY ServedStep DEF DumpEnd
<1>2. pc' = [pc EXCEPT ![p] = "done"] /\ todo' = [todo EXCEPT ![p] = <<>>]
  BY DEF IoFailed, Complete, Return, Close
<1>3. pc'[p] = "done" /\ todo'[p] = <<>>
  BY <1>0, <1>2 DEF TypeOK
<1>4. Held(p)' /\ EndAhead(p)'
  BY <1>3 DEF Held, EndAhead, Elems, Awaiting
<1> QED BY <1>1, <1>4 DEF DumpEnd

\* Only an error leaves the queue of a dump without having been received.
LEMMA EndDropped ==
    ASSUME WaitInv, [Next]_vars, NEW p \in Ops, kind[p] \in Dumps, DumpEnd(p), DropReply(p)
    PROVE  DumpEnd(p)'
<1>0. TypeOK /\ p # Shared /\ p \in Sockets
  BY SocketsApart DEF WaitInv
<1>1. Served(p)'
  BY ServedStep DEF DumpEnd
<1>2. /\ todo[p] # <<>> /\ todo[p] \in Seq(Seq(Messages))
      /\ Head(Head(todo[p])).type = "ERROR"
      /\ todo'[p] = Tail(todo[p])
      /\ answer' = answer
  BY <1>0 DEF TypeOK, DropReply, history
<1>3. /\ Head(todo[p]) \in Elems(todo[p]) /\ Head(todo[p]) \in Seq(Messages)
      /\ Elems(Tail(todo[p])) \subseteq Elems(todo[p])
  BY <1>2, ElemsHeadTail
<1>4. Held(p)'
  <2>1. ASSUME NEW d \in Elems(todo'[p]) PROVE d # <<>> /\ Elems(d) \subseteq Elems(answer'[p])
    BY <1>2, <1>3, <2>1 DEF DumpEnd, Held
  <2> QED BY <2>1 DEF Held, Elems
<1>5. Head(todo[p]) # <<>> /\ Elems(Head(todo[p])) \subseteq Elems(answer[p])
  BY <1>3 DEF DumpEnd, Held
<1>6. Head(Head(todo[p])) \in Elems(answer[p])
  BY <1>3, <1>5, ElemsHeadTail
<1>7. EndAhead(p)'
  BY <1>2, <1>6 DEF EndAhead, Elems
<1> QED BY <1>1, <1>4, <1>7 DEF DumpEnd

\* A received datagram moves to the buffer.
LEMMA EndReceived ==
    ASSUME WaitInv, [Next]_vars, NEW p \in Ops, kind[p] \in Dumps, DumpEnd(p),
           pc[p] = "reading", rcvq[p] # <<>>, inbox[p] = <<>>,
           inbox'[p] = Head(rcvq[p]), rcvq'[p] = Tail(rcvq[p]),
           todo'[p] = todo[p], answer'[p] = answer[p]
    PROVE  DumpEnd(p)'
<1>0. kind' = kind /\ Served(p)' /\ p \in Sockets /\ rcvq[p] \in Seq(Seq(Messages))
  BY KindFixed, ServedStep, SocketsApart DEF DumpEnd, WaitInv, TypeOK
<1>1. Held(p)'
  <2>1. ASSUME NEW d \in Elems(todo'[p]) PROVE d # <<>> /\ Elems(d) \subseteq Elems(answer'[p])
    BY <2>1 DEF DumpEnd, Held
  <2> QED BY <2>1 DEF Held, Elems
<1>2. SUFFICES ASSUME answer[p] # <<>>, \A m \in Elems(answer[p]) : m.type # "ERROR"
               PROVE  \/ \E m \in Elems(inbox'[p]) : Ends(p, m)'
                      \/ \E d \in Pieces(p)' : \E m \in Elems(d) : Ends(p, m)'
  BY <1>0, <1>1 DEF DumpEnd, EndAhead, Elems
<1>3. seqOf'[p] = seqOf[p]
  BY <1>2, AnswerKept
<1>4. \A m : Ends(p, m)' <=> Ends(p, m)
  BY <1>0, <1>3 DEF Ends, Mine
<1>5. PICK d \in Pieces(p) : \E m \in Elems(d) : Ends(p, m)
  BY <1>2, ElemsEmpty DEF DumpEnd, EndAhead, Awaiting
<1>6. Elems(rcvq[p]) \subseteq {Head(rcvq[p])} \cup Elems(Tail(rcvq[p]))
  BY <1>0, ElemsHeadTail
<1>7. d = Head(rcvq[p]) \/ d \in Pieces(p)'
  BY <1>5, <1>6 DEF Pieces, Elems
<1> QED BY <1>4, <1>5, <1>7

\* The end of a dump goes from the kernel to the socket, from the socket to the
\* buffer, and from the buffer to the caller.
LEMMA EndStep == WaitInv /\ EndInv /\ [Next]_vars => EndInv'
<1> SUFFICES ASSUME WaitInv, EndInv, [Next]_vars, NEW p \in Ops, kind[p] \in Dumps
             PROVE  DumpEnd(p)'
  BY KindFixed DEF EndInv, DumpEnd
<1> USE DEF opVars, gateVars, sockVars, bounds, history
<1>0. /\ TypeOK /\ StageInv /\ DumpEnd(p)
      /\ p \in Sockets /\ SockOf(p) = p /\ p # Shared
      /\ \A o \in Ops : SockOf(o) = p => o = p
      /\ todo[p] \in Seq(Seq(Messages)) /\ rcvq[p] \in Seq(Seq(Messages))
      /\ inbox[p] \in Seq(Messages)
  BY SocketsApart DEF WaitInv, EndInv, TypeOK
<1>1. ASSUME answer'[p] = answer[p], todo'[p] = todo[p], rcvq'[p] = rcvq[p], inbox'[p] = inbox[p]
      PROVE  DumpEnd(p)'
  BY <1>0, <1>1, EndFrame DEF Pieces, Elems
<1>2. ASSUME NEW o \in Ops, \/ Call(o) \/ AcquireSocketToken(o) \/ OpenFails(o) \/ StartTask(o)
                            \/ SendDone(o) \/ ReceiveDone(o) \/ ReadMore(o) \/ SendFault(o)
      PROVE  DumpEnd(p)'
  BY <1>1, <1>2 DEF Call, AcquireSocketToken, OpenFails, StartTask, SendDone, ReceiveDone,
                    ReadMore, SendFault
<1>3. CASE Tick \/ GateExpires \/ Terminated \/ UNCHANGED vars
  BY <1>1, <1>3 DEF Tick, GateExpires, Terminated, vars
<1>4. ASSUME NEW o \in Ops, o # p, IoFailed(o) \/ Complete(o) PROVE DumpEnd(p)'
  <2>1. /\ inbox' = [inbox EXCEPT ![o] = <<>>] /\ answer' = answer
        /\ Close(o) \/ UNCHANGED sockVars
    BY <1>4 DEF IoFailed, Complete, Return
  <2> QED BY <1>0, <1>1, <1>4, <2>1 DEF TypeOK, Close
<1>5. CASE IoFailed(p) \/ Complete(p)
  BY <1>0, <1>5, EndReturned
<1>6. CASE Stop
  <2>1. /\ UNCHANGED <<inbox, answer>>
        /\ Close(Shared) \/ UNCHANGED sockVars
    BY <1>6 DEF Stop
  <2> QED BY <1>0, <1>1, <2>1 DEF TypeOK, Close
<1>7. ASSUME NEW o \in Ops, o # p, Absorb(o) \/ ServeRequest(o) PROVE DumpEnd(p)'
  <2>1. UNCHANGED rcvq /\ inbox'[p] = inbox[p] /\ answer'[p] = answer[p]
    BY <1>0, <1>7 DEF TypeOK, Absorb, ServeRequest
  <2>2. todo'[p] = todo[p]
    BY <1>0, <1>7 DEF TypeOK, Absorb, ServeRequest
  <2> QED BY <1>1, <2>1, <2>2
<1>8. CASE Absorb(p)
  <2>1. /\ inbox[p] # <<>> /\ inbox'[p] = Tail(inbox[p])
        /\ ~Ends(p, Head(inbox[p]))
        /\ UNCHANGED <<todo, rcvq, answer>>
    BY <1>0, <1>8 DEF TypeOK, Absorb, Ends
  <2>2. Elems(inbox[p]) \subseteq {Head(inbox[p])} \cup Elems(inbox'[p])
    BY <1>0, <2>1, ElemsHeadTail
  <2> QED BY <1>0, <2>1, <2>2, EndFrame DEF Pieces, Elems
<1>9. CASE ServeRequest(p)
  BY <1>0, <1>9, EndServed
<1>10. ASSUME NEW s \in Sockets, s # p, DeliverReply(s) \/ DropReply(s) PROVE DumpEnd(p)'
  <2>1. UNCHANGED <<inbox, answer>>
    BY <1>10 DEF DeliverReply, DropReply
  <2>2. todo'[p] = todo[p] /\ rcvq'[p] = rcvq[p]
    BY <1>0, <1>10 DEF TypeOK, DeliverReply, DropReply
  <2> QED BY <1>1, <2>1, <2>2
<1>11. CASE DropReply(p)
  BY <1>0, <1>11, EndDropped
<1>12. CASE DeliverReply(p)
  <2>1. /\ todo[p] # <<>> /\ UNCHANGED <<inbox, answer>>
        /\ todo'[p] = Tail(todo[p])
        /\ rcvq'[p] = Append(rcvq[p], Head(todo[p]))
    BY <1>0, <1>12 DEF TypeOK, DeliverReply
  <2>2. /\ Head(todo[p]) \in Seq(Messages)
        /\ Elems(Tail(todo[p])) \subseteq Elems(todo[p])
        /\ Elems(todo[p]) \subseteq {Head(todo[p])} \cup Elems(Tail(todo[p]))
    BY <1>0, <2>1, ElemsHeadTail
  <2>3. Elems(Append(rcvq[p], Head(todo[p]))) = Elems(rcvq[p]) \cup {Head(todo[p])}
    BY <1>0, <2>2, ElemsAppend
  <2>4. /\ Elems(todo'[p]) \subseteq Elems(todo[p])
        /\ Pieces(p) \subseteq Elems(rcvq'[p]) \cup Elems(todo'[p])
    BY <2>1, <2>2, <2>3 DEF Pieces
  <2>5. Pieces(p) \subseteq Pieces(p)'
    BY <2>4 DEF Pieces, Elems
  <2> QED BY <1>0, <2>1, <2>4, <2>5, EndFrame
<1>13. CASE Notify
  <2>1. PICK m \in Notices :
          rcvq' = [s \in Sockets |->
                      IF st[s] = "ready" /\ Len(rcvq[s]) < RcvCap
                      THEN Append(rcvq[s], <<m>>) ELSE rcvq[s]]
    BY <1>13 DEF Notify
  <2>2. <<m>> \in Seq(Messages)
    BY ControlAssumption
  <2>3. Elems(Append(rcvq[p], <<m>>)) = Elems(rcvq[p]) \cup {<<m>>}
    BY <1>0, <2>2, ElemsAppend
  <2>4. rcvq'[p] = Append(rcvq[p], <<m>>) \/ rcvq'[p] = rcvq[p]
    BY <1>0, <2>1
  <2>5. UNCHANGED <<todo, inbox, answer>>
    BY <1>13 DEF Notify
  <2>6. Pieces(p) \subseteq Pieces(p)'
    BY <2>3, <2>4, <2>5 DEF Pieces, Elems
  <2> QED BY <1>0, <2>5, <2>6, EndFrame
<1>14. ASSUME NEW s \in Sockets, Receive(s) \/ ReceiveFault(s) PROVE DumpEnd(p)'
  <2> DEFINE o == Head(readers[s])
  <2>1. readers[s] # <<>>
    BY <1>14 DEF Receive, ReceiveFault, Completion
  <2>2. o \in Ops /\ SockOf(o) = s /\ pc[o] = "reading"
    BY <2>1, HeadReader
  <2>3. \/ /\ rcvq[s] # <<>> /\ inbox' = [inbox EXCEPT ![o] = Head(rcvq[s])]
           /\ rcvq' = [rcvq EXCEPT ![s] = Tail(@)]
        \/ inbox' = [inbox EXCEPT ![o] = <<>>] /\ rcvq' = rcvq
    BY <1>14 DEF Receive, ReceiveFault, Completion
  <2>4. todo' = todo /\ answer' = answer
    BY <1>14 DEF Receive, ReceiveFault
  <2> HIDE DEF o
  <2>5. CASE o # p
    <3>1. s # p
      BY <1>0, <2>2, <2>5
    <3>2. inbox'[p] = inbox[p] /\ rcvq'[p] = rcvq[p]
      BY <1>0, <2>2, <2>3, <2>5, <3>1 DEF TypeOK
    <3> QED BY <1>1, <2>4, <3>2
  <2>6. CASE o = p
    <3>1. s = p /\ inbox[p] = <<>>
      BY <1>0, <2>2, <2>6 DEF StageInv
    <3>2. CASE rcvq' = rcvq
      BY <1>0, <2>4, <3>1, <3>2, ElemsEmpty, EndFrame DEF Pieces, Elems
    <3>3. CASE rcvq[p] # <<>> /\ inbox'[p] = Head(rcvq[p]) /\ rcvq'[p] = Tail(rcvq[p])
      BY <1>0, <2>2, <2>4, <2>6, <3>1, <3>3, EndReceived
    <3> QED BY <1>0, <2>3, <2>6, <3>1, <3>2, <3>3 DEF TypeOK
  <2> QED BY <2>5, <2>6
<1> QED
  BY <1>2, <1>3, <1>4, <1>5, <1>6, <1>7, <1>8, <1>9, <1>10, <1>11, <1>12, <1>13, <1>14
     DEF Next, Step, KernelStep

\* DumpEndAhead holds in every behaviour: what a dump waits for stays on its own socket,
\* and no datagram is left half worked off when it starts the next receive.
THEOREM DumpEndAheadTheorem == Spec => []DumpEndAhead
<1>1. Init => EndInv
  <2> SUFFICES ASSUME Init, NEW p \in Ops PROVE DumpEnd(p)
    BY DEF EndInv
  <2>1. p \in Sockets
    BY DEF Sockets
  <2> QED BY <2>1 DEF Init, DumpEnd, Served, Held, EndAhead, Awaiting, Elems
<1>2. WaitInv /\ EndInv => DumpEndAhead
  <2> SUFFICES ASSUME WaitInv, EndInv, NEW p \in Ops, pc[p] = "reading", kind[p] \in Dumps,
                      \A m \in Elems(answer[p]) : m.type # "ERROR"
               PROVE  \E d \in Elems(rcvq[SockOf(p)]) \cup Elems(todo[SockOf(p)]) :
                         \E m \in Elems(d) : Mine(p, m) /\ Completes(kind[p], m)
    BY DEF DumpEndAhead
  <2>1. SockOf(p) = p /\ inbox[p] = <<>>
    BY SocketsApart DEF WaitInv, StageInv
  <2>2. answer[p] # <<>> /\ EndAhead(p)
    BY DEF EndInv, DumpEnd, Served
  <2>3. \E d \in Pieces(p) : \E m \in Elems(d) : Ends(p, m)
    BY <2>1, <2>2, ElemsEmpty DEF EndAhead, Awaiting
  <2> QED BY <2>1, <2>3 DEF Pieces, Ends
<1>3. WaitInv /\ EndInv /\ [Next]_vars => EndInv'
  BY EndStep
<1> QED BY <1>1, <1>2, <1>3, WaitInvariant, PTL DEF Spec
=============================================================================
