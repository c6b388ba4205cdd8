---------------------------- MODULE ServiceProofs ----------------------------
(***************************************************************************)
(* Proofs that a dump returns the whole answer of the kernel, and that     *)
(* Control implements RequestService: for every set of calls, every table  *)
(* of entries and every bound.                                             *)
(***************************************************************************)
EXTENDS ControlProofs, FiniteSetTheorems, NatInduction

-----------------------------------------------------------------------------
(* The stream of a dump's answer: from the kernel over the socket and the  *)
(* receive buffer to learned_.                                             *)

\* Datagram d has nothing for the call with number q: it is a notification.
Foreign(q, d) ==
    /\ d # <<>>
    /\ \A m \in Elems(d) : m.seq # q /\ m.type \in {"NEW", "DEL"}

\* Datagram d brings the messages i + 1 to j of answer a.
Brings(q, a, d, i, j) ==
    \/ i = j /\ Foreign(q, d)
    \/ i < j /\ d = SubSeq(a, i + 1, j)

\* p tells how answer a is cut into the datagrams ds that are yet to come: p[i] of
\* its messages have been received when the first i of them have.
Cut(q, a, ds, p) ==
    /\ p \in [0..Len(ds) -> 0..Len(a)]
    /\ p[Len(ds)] = Len(a)
    /\ \A i \in 1..Len(ds) : Brings(q, a, ds[i], p[i - 1], p[i])

\* c messages of answer a are worked off, b have been received: ms is the rest of
\* the datagram that is being worked off.
InHand(q, a, ms, c, b) ==
    /\ c \in 0..b
    /\ \/ ms = SubSeq(a, c + 1, b)
       \/ c = b /\ \A m \in Elems(ms) : m.seq # q

\* Nothing of answer a is lost, doubled or out of order: what was worked off is
\* in l, the rest is in ms and then in ds.
Stream(k, q, a, ds, ms, l) ==
    \E c \in Nat : \E p : /\ Cut(q, a, ds, p)
                          /\ InHand(q, a, ms, c, p[0])
                          /\ l = Accepted(k, a)[c]

\* Answer a lists entries and ends with NLMSG_DONE.
Listing(q, a) ==
    /\ a \in Seq(Messages) /\ a # <<>>
    /\ a[Len(a)].type = "DONE"
    /\ \A i \in 1..(Len(a) - 1) : a[i].type = "NEW"
    /\ \A i \in 1..Len(a) : a[i].seq = q

-----------------------------------------------------------------------------
(* The inductive invariant. *)

\* What the socket of dump o has yet to hand over.
Coming(o) == rcvq[o] \o todo[o]

\* A dump that has not started has no socket and nothing learned.
Fresh(o) == st[o] = "closed" /\ rcvq[o] = <<>> /\ todo[o] = <<>> /\ learned[o] = <<>>

\* Before the kernel has answered, only notifications reach the dump.
Unserved(o) ==
    /\ todo[o] = <<>> /\ learned[o] = <<>>
    /\ \A d \in Elems(rcvq[o]) : Foreign(seqOf[o], d)
    /\ \A m \in Elems(inbox[o]) : m.seq # seqOf[o]

\* Where the answer of a dump is at each stage; other calls learn nothing.
StreamInv(o) ==
    IF kind[o] \in Dumps
    THEN /\ pc[o] \in Early => Fresh(o)
         /\ o \in Awaiting /\ answer[o] = <<>> => Unserved(o)
         /\ o \in Awaiting /\ Listing(seqOf[o], answer[o]) =>
               Stream(kind[o], seqOf[o], answer[o], Coming(o), inbox[o], learned[o])
    ELSE learned[o] = <<>>

\* What the kernel answered to a call is an answer to it.
AnswerInv ==
    \A o \in Ops : answer[o] # <<>> => answer[o] \in Answers(kind[o], seqOf[o])

DumpInv == AnswerInv /\ (Unambiguous => \A o \in Ops : StreamInv(o)) /\ CompleteDump

-----------------------------------------------------------------------------
(* Recursive functions. *)

\* Accepted is what its recursion says.
LEMMA AcceptedDef ==
    ASSUME NEW k, NEW a, Len(a) \in Nat
    PROVE  /\ Accepted(k, a)[0] = <<>>
           /\ \A n \in 1..Len(a) :
                 Accepted(k, a)[n] = IF Accepts(k, a[n].entry)
                                     THEN Append(Accepted(k, a)[n - 1], a[n].entry)
                                     ELSE Accepted(k, a)[n - 1]
<1> DEFINE next(f, n) == IF n = 0 THEN <<>>
                         ELSE IF Accepts(k, a[n].entry) THEN Append(f[n - 1], a[n].entry) ELSE f[n - 1]
           S == {m \in Nat : \E f : f = [n \in 0..m |-> next(f, n)]}
<1>1. 0 \in S
  <2> DEFINE f == [n \in 0..0 |-> <<>>]
  <2>1. f = [n \in 0..0 |-> next(f, n)]
    OBVIOUS
  <2> QED BY <2>1
<1>2. ASSUME NEW m \in S PROVE m + 1 \in S
  <2>1. PICK f : f = [n \in 0..m |-> next(f, n)]
    OBVIOUS
  <2> DEFINE g == [n \in 0..(m + 1) |-> IF n = m + 1 THEN next(f, m + 1) ELSE f[n]]
  <2>2. ASSUME NEW n \in 0..(m + 1) PROVE g[n] = next(g, n)
    <3>1. CASE n = 0
      BY <2>1, <3>1
    <3>2. CASE n # 0 /\ n # m + 1
      <4>1. n \in 0..m /\ g[n] = f[n] /\ g[n - 1] = f[n - 1]
        BY <3>2
      <4>2. f[n] = next(f, n)
        BY <2>1, <4>1
      <4> QED BY <3>2, <4>1, <4>2
    <3>3. CASE n = m + 1
      <4>1. n # 0 /\ g[n] = next(f, n) /\ g[n - 1] = f[n - 1]
        BY <3>3
      <4> QED BY <4>1
    <3> QED BY <3>1, <3>2, <3>3
  <2>3. g = [n \in 0..(m + 1) |-> next(g, n)]
    BY <2>2
  <2>4. m + 1 \in Nat
    OBVIOUS
  <2>5. \E h : h = [n \in 0..(m + 1) |-> next(h, n)]
    <3> HIDE DEF g, next
    <3> QED BY <2>3
  <2> HIDE DEF next
  <2> QED BY <2>4, <2>5
<1>3. S = Nat
  <2> HIDE DEF S
  <2>1. S \in SUBSET Nat
    BY DEF S
  <2> QED BY <1>1, <1>2, <2>1, SetInduction
<1>4. PICK f : f = [n \in 0..Len(a) |-> next(f, n)]
  BY <1>3
<1> DEFINE u == Accepted(k, a)
<1>5. u = CHOOSE h : h = [n \in 0..Len(a) |-> next(h, n)]
  BY DEF Accepted
<1>6. u = [n \in 0..Len(a) |-> next(u, n)]
  <2> HIDE DEF u
  <2> QED BY <1>4, <1>5
<1> HIDE DEF u
<1>7. \A n \in 0..Len(a) : u[n] = next(u, n)
  <2> HIDE DEF next
  <2> QED BY <1>6
<1>8. u[0] = <<>> /\ \A n \in 1..Len(a) : n \in 0..Len(a) /\ n # 0
  BY <1>7
<1> QED BY <1>7, <1>8 DEF u
-----------------------------------------------------------------------------
(* Sequences. *)

\* Head and Tail, place by place.
LEMMA HeadTailShape ==
    ASSUME NEW S, NEW q \in Seq(S), q # <<>>
    PROVE  /\ Head(q) \in S /\ Tail(q) \in Seq(S) /\ Len(Tail(q)) = Len(q) - 1
           /\ Head(q) = q[1]
           /\ \A i \in 1..(Len(q) - 1) : Tail(q)[i] = q[i + 1]
           /\ Len(q) \in Nat /\ Len(q) > 0
<1>1. /\ Head(q) \in S /\ Tail(q) \in Seq(S) /\ Len(Tail(q)) = Len(q) - 1
      /\ \A i \in 1..(Len(q) - 1) : Tail(q)[i] = q[i + 1]
  BY HeadTailProperties
<1>2. Len(q) \in Nat /\ Len(q) > 0
  BY EmptySeq, LenProperties
<1>3. Head(q) = q[1]
  OBVIOUS
<1> QED BY <1>1, <1>2, <1>3

\* What the concatenation of two sequences is, place by place.
LEMMA ConcatShape ==
    ASSUME NEW S, NEW r \in Seq(S), NEW t \in Seq(S)
    PROVE  /\ r \o t \in Seq(S) /\ Len(r \o t) = Len(r) + Len(t)
           /\ Len(r) \in Nat /\ Len(t) \in Nat
           /\ \A i \in 1..Len(r) : (r \o t)[i] = r[i]
           /\ \A i \in (Len(r) + 1)..(Len(r) + Len(t)) : (r \o t)[i] = t[i - Len(r)]
BY ConcatProperties, LenProperties

\* Moving the head of one queue to the end of the other one changes nothing.
LEMMA ConcatMove ==
    ASSUME NEW S, NEW r \in Seq(S), NEW t \in Seq(S), t # <<>>
    PROVE  Append(r, Head(t)) \o Tail(t) = r \o t
<1> DEFINE u == Append(r, Head(t))  v == Tail(t)
<1>1. /\ Head(t) \in S /\ v \in Seq(S) /\ Len(v) = Len(t) - 1 /\ Head(t) = t[1]
      /\ \A i \in 1..Len(v) : v[i] = t[i + 1]
      /\ Len(t) \in Nat /\ Len(t) > 0
  BY HeadTailShape
<1>2. /\ u \in Seq(S) /\ Len(u) = Len(r) + 1 /\ Len(r) \in Nat
      /\ \A i \in 1..Len(r) : u[i] = r[i]
      /\ u[Len(r) + 1] = t[1]
  BY <1>1, AppendProperties, LenProperties
<1> HIDE DEF u, v
<1>3. /\ u \o v \in Seq(S) /\ Len(u \o v) = Len(u) + Len(v)
      /\ \A i \in 1..Len(u) : (u \o v)[i] = u[i]
      /\ \A i \in (Len(u) + 1)..(Len(u) + Len(v)) : (u \o v)[i] = v[i - Len(u)]
  <2>1. u \in Seq(S) /\ v \in Seq(S)
    BY <1>1, <1>2
  <2> QED BY <2>1, ConcatShape
<1>4. /\ r \o t \in Seq(S) /\ Len(r \o t) = Len(r) + Len(t)
      /\ \A i \in 1..Len(r) : (r \o t)[i] = r[i]
      /\ \A i \in (Len(r) + 1)..(Len(r) + Len(t)) : (r \o t)[i] = t[i - Len(r)]
  BY ConcatShape
<1>5. Len(u \o v) = Len(r \o t)
  BY <1>1, <1>2, <1>3, <1>4
<1>6. ASSUME NEW i \in 1..Len(r \o t) PROVE (u \o v)[i] = (r \o t)[i]
  <2>1. CASE i <= Len(r)
    BY <1>2, <1>3, <1>4, <2>1
  <2>2. CASE i = Len(r) + 1
    BY <1>1, <1>2, <1>3, <1>4, <2>2
  <2>3. CASE i > Len(r) + 1
    <3>1. /\ i \in (Len(u) + 1)..(Len(u) + Len(v))
          /\ i \in (Len(r) + 1)..(Len(r) + Len(t))
          /\ i - Len(u) \in 1..Len(v) /\ (i - Len(u)) + 1 = i - Len(r)
      BY <1>1, <1>2, <1>4, <2>3
    <3>2. (u \o v)[i] = v[i - Len(u)] /\ (r \o t)[i] = t[i - Len(r)]
      BY <1>3, <1>4, <3>1
    <3>3. v[i - Len(u)] = t[(i - Len(u)) + 1]
      BY <1>1, <3>1
    <3> QED BY <3>1, <3>2, <3>3
  <2>4. i \in Nat /\ (i <= Len(r) \/ i = Len(r) + 1 \/ i > Len(r) + 1)
    BY <1>1, <1>2, <1>4
  <2> QED BY <2>1, <2>2, <2>3, <2>4
<1>7. u \o v = r \o t
  BY <1>3, <1>4, <1>5, <1>6, SeqEqual
<1> QED BY <1>7 DEF u, v

\* Taking the head of the first queue takes the head of both.
LEMMA ConcatTail ==
    ASSUME NEW S, NEW r \in Seq(S), NEW t \in Seq(S), r # <<>>
    PROVE  Tail(r) \o t = Tail(r \o t) /\ Head(r \o t) = Head(r) /\ r \o t # <<>>
<1> DEFINE u == Tail(r)  w == r \o t
<1>1. /\ u \in Seq(S) /\ Len(u) = Len(r) - 1 /\ Head(r) = r[1]
      /\ \A i \in 1..Len(u) : u[i] = r[i + 1]
      /\ Len(r) \in Nat /\ Len(r) > 0
  BY HeadTailShape
<1>2. /\ w \in Seq(S) /\ Len(w) = Len(r) + Len(t) /\ Len(t) \in Nat
      /\ \A i \in 1..Len(r) : w[i] = r[i]
      /\ \A i \in (Len(r) + 1)..(Len(r) + Len(t)) : w[i] = t[i - Len(r)]
  BY ConcatShape
<1> HIDE DEF u, w
<1>3. w # <<>>
  BY <1>1, <1>2, EmptySeq
<1>4. /\ Tail(w) \in Seq(S) /\ Len(Tail(w)) = Len(w) - 1 /\ Head(w) = w[1]
      /\ \A i \in 1..(Len(w) - 1) : Tail(w)[i] = w[i + 1]
  BY <1>2, <1>3, HeadTailShape
<1>5. /\ u \o t \in Seq(S) /\ Len(u \o t) = Len(u) + Len(t)
      /\ \A i \in 1..Len(u) : (u \o t)[i] = u[i]
      /\ \A i \in (Len(u) + 1)..(Len(u) + Len(t)) : (u \o t)[i] = t[i - Len(u)]
  BY <1>1, ConcatShape
<1>6. ASSUME NEW i \in 1..Len(u \o t) PROVE (u \o t)[i] = Tail(w)[i]
  <2>0. i \in 1..(Len(w) - 1) /\ Tail(w)[i] = w[i + 1]
    BY <1>1, <1>2, <1>4, <1>5
  <2>1. CASE i <= Len(u)
    BY <1>1, <1>2, <1>5, <2>0, <2>1
  <2>2. CASE i > Len(u)
    <3>1. /\ i \in (Len(u) + 1)..(Len(u) + Len(t))
          /\ i + 1 \in (Len(r) + 1)..(Len(r) + Len(t))
          /\ i - Len(u) = (i + 1) - Len(r)
      BY <1>1, <1>2, <1>5, <2>2
    <3>2. (u \o t)[i] = t[i - Len(u)] /\ w[i + 1] = t[(i + 1) - Len(r)]
      BY <1>2, <1>5, <3>1
    <3> QED BY <2>0, <3>1, <3>2
  <2>3. i <= Len(u) \/ i > Len(u)
    BY <1>1, <1>2, <1>5
  <2> QED BY <2>1, <2>2, <2>3
<1>7. u \o t = Tail(w)
  <2>1. Len(u \o t) = Len(Tail(w))
    BY <1>1, <1>2, <1>4, <1>5
  <2> QED BY <1>4, <1>5, <1>6, <2>1, SeqEqual
<1>8. Head(w) = Head(r)
  <2>1. w[1] = r[1]
    BY <1>1, <1>2
  <2> QED BY <1>1, <1>4, <2>1
<1> QED BY <1>3, <1>7, <1>8 DEF u, w

\* Head and Tail of a part of a sequence.
LEMMA SubSeqHead ==
    ASSUME NEW S, NEW a \in Seq(S), NEW c \in Nat, NEW b \in 0..Len(a), c < b
    PROVE  /\ SubSeq(a, c + 1, b) # <<>>
           /\ Head(SubSeq(a, c + 1, b)) = a[c + 1]
           /\ Tail(SubSeq(a, c + 1, b)) = SubSeq(a, (c + 1) + 1, b)
<1> DEFINE u == SubSeq(a, c + 1, b)  v == SubSeq(a, (c + 1) + 1, b)
<1>1. /\ u \in Seq(S) /\ Len(u) = b - c
      /\ \A i \in 1..(b - c) : u[i] = a[c + i]
  <2>1. /\ c + 1 \in Int /\ b \in Int /\ c + 1 <= b /\ b - (c + 1) + 1 = b - c
        /\ \A i \in (c + 1)..b : a[i] \in S
        /\ \A i \in 1..(b - c) : (c + 1) + i - 1 = c + i
    BY LenProperties
  <2> QED BY <2>1, SubSeqProperties
<1>2. /\ v \in Seq(S) /\ Len(v) = b - c - 1
      /\ \A i \in 1..(b - c - 1) : v[i] = a[c + 1 + i]
  <2>1. /\ (c + 1) + 1 \in Int /\ b \in Int /\ b - ((c + 1) + 1) + 1 = b - c - 1
        /\ \A i \in ((c + 1) + 1)..b : a[i] \in S
        /\ \A i \in 1..(b - c - 1) : ((c + 1) + 1) + i - 1 = c + 1 + i
        /\ (c + 1) + 1 <= b \/ (~((c + 1) + 1 <= b) /\ b - c - 1 = 0)
    BY LenProperties
  <2> QED BY <2>1, SubSeqProperties
<1> HIDE DEF u, v
<1>3. u # <<>>
  BY <1>1, EmptySeq, LenProperties
<1>4. /\ Tail(u) \in Seq(S) /\ Len(Tail(u)) = Len(u) - 1 /\ Head(u) = u[1]
      /\ \A i \in 1..(Len(u) - 1) : Tail(u)[i] = u[i + 1]
  BY <1>1, <1>3, HeadTailShape
<1>5. ASSUME NEW i \in 1..Len(v) PROVE Tail(u)[i] = v[i]
  <2>1. i + 1 \in 1..(b - c) /\ i \in 1..(b - c - 1) /\ c + (i + 1) = c + 1 + i
    BY <1>2, LenProperties
  <2> QED BY <1>1, <1>2, <1>4, <2>1
<1>6. Tail(u) = v
  <2>1. Len(Tail(u)) = Len(v)
    BY <1>1, <1>2, <1>4, LenProperties
  <2> QED BY <1>2, <1>4, <1>5, <2>1, SeqEqual
<1>7. u[1] = a[c + 1]
  BY <1>1, LenProperties
<1> QED BY <1>3, <1>4, <1>6, <1>7 DEF u, v
-----------------------------------------------------------------------------
(* What a step does to the stream of an answer. *)

\* The kernel answers: nothing of the answer has been received, whatever
\* notifications wait before it.
LEMMA CutServe ==
    ASSUME NEW q, NEW a \in Seq(Messages), NEW n \in 1..Len(a),
           NEW ds \in Seq(Seq(Messages)), \A d \in Elems(ds) : Foreign(q, d)
    PROVE  \E p : Cut(q, a, ds \o Datagrams(a, n), p) /\ p[0] = 0
<1> DEFINE t == Datagrams(a, n)  w == ds \o t  L == Len(ds)
           p == [i \in 0..Len(w) |-> IF i <= L THEN 0
                                     ELSE IF i = Len(w) THEN Len(a) ELSE n]
<1>0. t \in Seq(Seq(Messages)) /\ Len(a) \in Nat /\ n \in Nat /\ n > 0 /\ n <= Len(a)
  BY DatagramsCarry, LenProperties
<1>1. \/ n = Len(a) /\ Len(t) = 1 /\ t[1] = SubSeq(a, 0 + 1, Len(a))
      \/ n < Len(a) /\ Len(t) = 2 /\ t[1] = SubSeq(a, 0 + 1, n) /\ t[2] = SubSeq(a, n + 1, Len(a))
  <2>1. CASE n = Len(a)
    <3>1. t = <<a>>
      BY <2>1 DEF Datagrams
    <3>2. SubSeq(a, 1, Len(a)) = a
      BY SubSeqFull
    <3> QED BY <2>1, <3>1, <3>2
  <2>2. CASE n # Len(a)
    <3>1. t = <<SubSeq(a, 1, n), SubSeq(a, n + 1, Len(a))>>
      BY <2>2 DEF Datagrams
    <3> QED BY <1>0, <2>2, <3>1
  <2> QED BY <2>1, <2>2
<1> HIDE DEF t
<1>2. /\ Len(w) = L + Len(t) /\ L \in Nat
      /\ \A i \in 1..L : w[i] = ds[i]
      /\ \A i \in (L + 1)..(L + Len(t)) : w[i] = t[i - L]
  BY <1>0, ConcatShape
<1> HIDE DEF w
<1>3. \A i \in 1..L : Foreign(q, ds[i])
  BY LenProperties DEF Elems
<1> HIDE DEF L
<1>4. p \in [0..Len(w) -> 0..Len(a)]
  BY <1>0
<1>5. p[Len(w)] = Len(a) /\ p[0] = 0
  BY <1>0, <1>1, <1>2
<1>6. ASSUME NEW i \in 1..Len(w) PROVE Brings(q, a, w[i], p[i - 1], p[i])
  <2>0. /\ i \in 0..Len(w) /\ i - 1 \in 0..Len(w) /\ i \in Nat
        /\ p[i] = IF i <= L THEN 0 ELSE IF i = Len(w) THEN Len(a) ELSE n
        /\ p[i - 1] = IF i - 1 <= L THEN 0 ELSE IF i - 1 = Len(w) THEN Len(a) ELSE n
    BY <1>1, <1>2
  <2> HIDE DEF p
  <2>1. CASE i <= L
    <3>1. p[i - 1] = p[i] /\ w[i] = ds[i] /\ i \in 1..L
      BY <1>2, <2>0, <2>1
    <3> QED BY <1>3, <3>1 DEF Brings
  <2>2. CASE i = L + 1
    <3>0. i \in (L + 1)..(L + Len(t)) /\ i - L = 1 /\ i - 1 <= L
      BY <1>1, <1>2, <2>2
    <3>1. w[i] = t[1] /\ p[i - 1] = 0
      BY <1>2, <2>0, <3>0
    <3>2. p[i] = IF n = Len(a) THEN Len(a) ELSE n
      BY <1>0, <1>1, <1>2, <2>0, <2>2
    <3>3. w[i] = SubSeq(a, p[i - 1] + 1, p[i]) /\ p[i - 1] < p[i]
      BY <1>0, <1>1, <3>1, <3>2
    <3> QED BY <3>3 DEF Brings
  <2>3. CASE i > L + 1
    <3>0. /\ n < Len(a) /\ Len(t) = 2 /\ t[2] = SubSeq(a, n + 1, Len(a))
          /\ Len(w) = L + 2
      <4>1. Len(t) # 1
        <5>1. SUFFICES ASSUME Len(t) = 1 PROVE FALSE
          OBVIOUS
        <5>2. Len(w) = L + 1
          BY <1>2, <5>1
        <5> QED BY <1>2, <2>0, <2>3, <5>2
      <4> QED BY <1>1, <1>2, <4>1
    <3>1. i = L + 2 /\ i = Len(w) /\ i - L = 2 /\ i \in (L + 1)..(L + Len(t))
      BY <1>2, <2>3, <3>0
    <3>2. w[i] = t[2] /\ p[i] = Len(a) /\ p[i - 1] = n
      BY <1>2, <2>0, <3>1
    <3>3. w[i] = SubSeq(a, p[i - 1] + 1, p[i]) /\ p[i - 1] < p[i]
      BY <3>0, <3>2
    <3> QED BY <3>3 DEF Brings
  <2>4. i <= L \/ i = L + 1 \/ i > L + 1
    BY <1>2, <2>0
  <2> QED BY <2>1, <2>2, <2>3, <2>4
<1>7. Cut(q, a, w, p) /\ p[0] = 0
  BY <1>4, <1>5, <1>6 DEF Cut
<1> QED BY <1>7 DEF w, t

\* A notification slips in behind the datagrams in the receive buffer.
LEMMA CutNotify ==
    ASSUME NEW q, NEW a, Len(a) \in Nat, NEW r \in Seq(Seq(Messages)), NEW t \in Seq(Seq(Messages)),
           NEW d \in Seq(Messages), Foreign(q, d), NEW p, Cut(q, a, r \o t, p)
    PROVE  \E h : Cut(q, a, Append(r, d) \o t, h) /\ h[0] = p[0]
<1> DEFINE u == Append(r, d)  w == u \o t  v == r \o t  L == Len(r)
           h == [i \in 0..Len(w) |-> IF i <= L THEN p[i] ELSE p[i - 1]]
<1>1. /\ u \in Seq(Seq(Messages)) /\ Len(u) = L + 1 /\ L \in Nat
      /\ \A i \in 1..L : u[i] = r[i]
      /\ u[L + 1] = d
  BY AppendProperties, LenProperties
<1>2. /\ Len(v) = L + Len(t) /\ Len(t) \in Nat
      /\ \A i \in 1..L : v[i] = r[i]
      /\ \A i \in (L + 1)..(L + Len(t)) : v[i] = t[i - L]
  BY ConcatShape
<1> HIDE DEF u
<1>3. /\ Len(w) = Len(u) + Len(t)
      /\ \A i \in 1..Len(u) : w[i] = u[i]
      /\ \A i \in (Len(u) + 1)..(Len(u) + Len(t)) : w[i] = t[i - Len(u)]
  <2>1. u \in Seq(Seq(Messages))
    BY <1>1
  <2> QED BY <2>1, ConcatShape
<1>4. /\ p \in [0..Len(v) -> 0..Len(a)] /\ p[Len(v)] = Len(a)
      /\ \A i \in 1..Len(v) : Brings(q, a, v[i], p[i - 1], p[i])
  BY DEF Cut
<1> HIDE DEF v, w, L
<1>5. /\ Len(w) = Len(v) + 1 /\ Len(v) \in Nat /\ L <= Len(v)
      /\ \A i \in 1..L : w[i] = v[i]
      /\ w[L + 1] = d
      /\ \A i \in (L + 2)..Len(w) : w[i] = v[i - 1]
  <2>1. Len(w) = Len(v) + 1 /\ Len(v) \in Nat /\ L <= Len(v)
    BY <1>1, <1>2, <1>3
  <2>2. \A i \in 1..L : w[i] = v[i]
    BY <1>1, <1>2, <1>3
  <2>3. w[L + 1] = d
    BY <1>1, <1>3
  <2>4. ASSUME NEW i \in (L + 2)..Len(w) PROVE w[i] = v[i - 1]
    <3>1. /\ i \in (Len(u) + 1)..(Len(u) + Len(t)) /\ i - 1 \in (L + 1)..(L + Len(t))
          /\ i - Len(u) = (i - 1) - L
      BY <1>1, <1>2, <1>3, <2>1
    <3>2. w[i] = t[i - Len(u)] /\ v[i - 1] = t[(i - 1) - L]
      BY <1>2, <1>3, <3>1
    <3> QED BY <3>1, <3>2
  <2> QED BY <2>1, <2>2, <2>3, <2>4
<1>6. \A i \in 0..Len(w) : h[i] = IF i <= L THEN p[i] ELSE p[i - 1]
  OBVIOUS
<1>7. h \in [0..Len(w) -> 0..Len(a)]
  BY <1>1, <1>4, <1>5
<1>8. h[Len(w)] = Len(a) /\ h[0] = p[0]
  BY <1>1, <1>4, <1>5, <1>6
<1> HIDE DEF h
<1>9. ASSUME NEW i \in 1..Len(w) PROVE Brings(q, a, w[i], h[i - 1], h[i])
  <2>0. i \in 0..Len(w) /\ i - 1 \in 0..Len(w) /\ i \in Nat
    BY <1>5
  <2>1. CASE i <= L
    <3>0. i \in 1..L /\ i \in 1..Len(v) /\ i - 1 <= L
      BY <1>1, <1>5, <2>1
    <3>1. w[i] = v[i] /\ h[i] = p[i] /\ h[i - 1] = p[i - 1]
      BY <1>5, <1>6, <2>0, <2>1, <3>0
    <3> QED BY <1>4, <3>0, <3>1
  <2>2. CASE i = L + 1
    <3>0. i - 1 = L /\ i - 1 <= L /\ ~(i <= L)
      BY <1>1, <2>2
    <3>1. w[i] = d /\ h[i - 1] = p[L] /\ h[i] = p[L]
      BY <1>5, <1>6, <2>0, <2>2, <3>0
    <3> QED BY <3>1 DEF Brings
  <2>3. CASE i > L + 1
    <3>1. i \in (L + 2)..Len(w) /\ i - 1 \in 1..Len(v) /\ ~(i <= L) /\ ~(i - 1 <= L)
      BY <1>1, <1>5, <2>0, <2>3
    <3>2. /\ w[i] = v[i - 1] /\ h[i] = p[i - 1] /\ h[i - 1] = p[(i - 1) - 1]
      BY <1>5, <1>6, <2>0, <3>1
    <3> QED BY <1>4, <3>1, <3>2
  <2>4. i <= L \/ i = L + 1 \/ i > L + 1
    BY <1>1, <2>0
  <2> QED BY <2>1, <2>2, <2>3, <2>4
<1>10. Cut(q, a, w, h) /\ h[0] = p[0]
  BY <1>7, <1>8, <1>9 DEF Cut
<1> QED BY <1>10 DEF w, u

\* A datagram is received when the one before it is used up.
LEMMA CutReceive ==
    ASSUME NEW q, NEW a, Len(a) \in Nat, NEW ds \in Seq(Seq(Messages)), ds # <<>>,
           NEW p, Cut(q, a, ds, p)
    PROVE  \E h : /\ Cut(q, a, Tail(ds), h)
                  /\ InHand(q, a, Head(ds), p[0], h[0])
<1> DEFINE w == Tail(ds)  h == [i \in 0..Len(w) |-> p[i + 1]]
<1>1. /\ Len(w) = Len(ds) - 1 /\ Len(ds) \in Nat /\ Len(ds) > 0 /\ Head(ds) = ds[1]
      /\ \A i \in 1..(Len(ds) - 1) : w[i] = ds[i + 1]
  BY HeadTailShape
<1> HIDE DEF w
<1>2. /\ p \in [0..Len(ds) -> 0..Len(a)] /\ p[Len(ds)] = Len(a)
      /\ \A i \in 1..Len(ds) : Brings(q, a, ds[i], p[i - 1], p[i])
  BY DEF Cut
<1>3. \A i \in 0..Len(w) : h[i] = p[i + 1]
  OBVIOUS
<1>4. h \in [0..Len(w) -> 0..Len(a)]
  BY <1>1, <1>2
<1> HIDE DEF h
<1>5. h[Len(w)] = Len(a) /\ h[0] = p[1]
  BY <1>1, <1>2, <1>3
<1>6. ASSUME NEW i \in 1..Len(w) PROVE Brings(q, a, w[i], h[i - 1], h[i])
  <2>1. /\ i + 1 \in 1..Len(ds) /\ i \in 0..Len(w) /\ i - 1 \in 0..Len(w)
        /\ (i - 1) + 1 = i /\ (i + 1) - 1 = i
    BY <1>1
  <2>2. w[i] = ds[i + 1] /\ h[i] = p[i + 1] /\ h[i - 1] = p[i]
    BY <1>1, <1>3, <2>1
  <2>3. Brings(q, a, ds[i + 1], p[(i + 1) - 1], p[i + 1])
    BY <1>2, <2>1
  <2> QED BY <2>1, <2>2, <2>3
<1>7. InHand(q, a, Head(ds), p[0], h[0])
  <2>0. 1 \in 1..Len(ds) /\ 1 - 1 = 0 /\ 0 \in 0..Len(ds) /\ 1 \in 0..Len(ds)
    BY <1>1
  <2>1. p[0] \in Nat /\ p[1] \in Nat
    <3>1. p[0] \in 0..Len(a) /\ p[1] \in 0..Len(a)
      <4>1. \A i \in 0..Len(ds) : p[i] \in 0..Len(a)
        BY <1>2
      <4> QED BY <2>0, <4>1
    <3> QED BY <3>1
  <2>2. Brings(q, a, ds[1], p[0], p[1])
    BY <1>2, <2>0
  <2> QED BY <1>1, <1>5, <2>1, <2>2 DEF Brings, InHand, Foreign
<1> QED BY <1>4, <1>5, <1>6, <1>7 DEF Cut, w

\* Working off one message: it is of no concern, or the next one of the answer.
LEMMA InHandNext ==
    ASSUME NEW q, NEW a \in Seq(Messages), NEW ms \in Seq(Messages), ms # <<>>,
           NEW b \in 0..Len(a), NEW c \in Nat, InHand(q, a, ms, c, b)
    PROVE  \/ Head(ms).seq # q /\ InHand(q, a, Tail(ms), c, b)
           \/ /\ c < b /\ Head(ms) = a[c + 1]
              /\ InHand(q, a, Tail(ms), c + 1, b)
<1>0. Len(a) \in Nat /\ b \in Nat
  BY LenProperties
<1>1. CASE ms = SubSeq(a, c + 1, b)
  <2>1. c # b
    <3>1. SUFFICES ASSUME c = b PROVE FALSE
      OBVIOUS
    <3>2. SubSeq(a, c + 1, b) = <<>>
      BY <1>0, <3>1, SubSeqEmpty
    <3> QED BY <1>1, <3>2
  <2>2. c < b
    BY <1>0, <2>1 DEF InHand
  <2>3. Head(ms) = a[c + 1] /\ Tail(ms) = SubSeq(a, (c + 1) + 1, b)
    BY <1>1, <2>2, SubSeqHead
  <2>4. c + 1 \in 0..b
    BY <1>0, <2>2
  <2> QED BY <2>2, <2>3, <2>4 DEF InHand
<1>2. CASE c = b /\ \A m \in Elems(ms) : m.seq # q
  <2>1. Head(ms) \in Elems(ms) /\ Elems(Tail(ms)) \subseteq Elems(ms)
    BY ElemsHeadTail
  <2> QED BY <1>0, <1>2, <2>1 DEF InHand
<1> QED BY <1>1, <1>2 DEF InHand

\* The answer to a dump is an error or a listing, any other one a single message.
LEMMA AnswerShape ==
    ASSUME NEW k \in AllKinds, NEW q \in Nat, NEW a \in Answers(k, q)
    PROVE  /\ k \in Dumps => Listing(q, a) \/ \E c \in KernelErrors : a = <<ErrorMsg(q, c)>>
           /\ k \notin Dumps => Len(a) = 1
<1> DEFINE known == {e \in Entries : e.family = Task(k).family}
           listing(es, c) == [i \in 1..(Len(es) + 1) |->
                                IF i <= Len(es) THEN NewMsg(q, es[i]) ELSE DoneMsg(q, c)]
<1>0. a \in Seq(Messages) /\ Len(a) \in Nat \ {0} /\ \A m \in Elems(a) : m.seq = q
  BY AnswersCarrySeq
<1>1. CASE k \notin Dumps
  <2>1. Task(k).flags \in {{"ACK"}, {}}
    BY <1>1, DumpTasks, TaskFlags
  <2>2. CASE Task(k).flags = {"ACK"}
    <3>1. PICK m : a = <<m>>
      BY <2>2 DEF Answers
    <3> QED BY <1>1, <3>1
  <2>3. CASE Task(k).flags = {}
    <3>1. PICK m : a = <<m>>
      BY <2>3 DEF Answers
    <3> QED BY <1>1, <3>1
  <2> QED BY <2>1, <2>2, <2>3
<1>2. CASE k \in Dumps
  <2>1. Task(k).flags = {"DUMP"}
    BY <1>2, DumpTasks
  <2>2. \/ \E c \in KernelErrors : a = <<ErrorMsg(q, c)>>
        \/ \E n \in 0..MaxDump, c \in {"0"} \cup KernelErrors :
              \E es \in [1..n -> known] : a = listing(es, c)
    BY <2>1 DEF Answers
  <2>3. ASSUME NEW n \in 0..MaxDump, NEW c \in {"0"} \cup KernelErrors,
               NEW es \in [1..n -> known], a = listing(es, c)
        PROVE  Listing(q, a)
    <3>1. n \in Nat /\ Len(es) = n
      BY ControlAssumption
    <3>2. /\ a \in [1..(n + 1) -> Messages] /\ a[n + 1] = DoneMsg(q, c)
          /\ \A i \in 1..n : a[i] = NewMsg(q, es[i])
      <4>1. DOMAIN a = 1..(n + 1) /\ a[n + 1] = DoneMsg(q, c)
            /\ \A i \in 1..n : a[i] = NewMsg(q, es[i])
        BY <2>3, <3>1
      <4>2. a \in [1..Len(a) -> Messages]
        BY <1>0, LenProperties
      <4> QED BY <4>1, <4>2
    <3>3. Len(a) = n + 1
      BY <1>0, <3>1, <3>2
    <3>4. \A i \in 1..n : a[i].type = "NEW"
      <4>1. \A x : NewMsg(q, x).type = "NEW"
        BY DEF NewMsg
      <4> QED BY <3>2, <4>1
    <3>5. \A i \in 1..Len(a) : a[i].seq = q
      BY <1>0, LenProperties DEF Elems
    <3>6. a # <<>>
      BY <1>0, EmptySeq
    <3>7. (n + 1) - 1 = n /\ a[n + 1].type = "DONE"
      BY <3>1, <3>2 DEF DoneMsg
    <3> QED BY <1>0, <3>2, <3>3, <3>4, <3>5, <3>6, <3>7 DEF Listing
  <2> QED BY <1>2, <2>2, <2>3
<1> QED BY <1>1, <1>2

\* One message of a listing is worked off: it is of no concern, or the next entry,
\* or NLMSG_DONE, and then everything before it is in l.
LEMMA StreamNext ==
    ASSUME NEW k \in Dumps, NEW q, NEW a, Listing(q, a), NEW ds \in Seq(Seq(Messages)),
           NEW ms \in Seq(Messages), ms # <<>>, NEW l, Stream(k, q, a, ds, ms, l)
    PROVE  LET m == Head(ms)
           IN  \/ m.seq # q /\ Stream(k, q, a, ds, Tail(ms), l)
               \/ /\ m.seq = q /\ m.type = "NEW"
                  /\ Stream(k, q, a, ds, Tail(ms), IF Learns(k, m) THEN Append(l, m.entry) ELSE l)
               \/ m.seq = q /\ m.type = "DONE" /\ l = Accepted(k, a)[Len(a) - 1]
<1> DEFINE m == Head(ms)  e == IF Learns(k, m) THEN Append(l, m.entry) ELSE l
<1>0. /\ a \in Seq(Messages) /\ Len(a) \in Nat /\ a[Len(a)].type = "DONE"
      /\ \A i \in 1..(Len(a) - 1) : a[i].type = "NEW"
      /\ \A i \in 1..Len(a) : a[i].seq = q
  BY LenProperties DEF Listing
<1>1. PICK c \in Nat : \E p : /\ Cut(q, a, ds, p)
                              /\ InHand(q, a, ms, c, p[0])
                              /\ l = Accepted(k, a)[c]
  BY DEF Stream
<1>2. PICK p : Cut(q, a, ds, p) /\ InHand(q, a, ms, c, p[0]) /\ l = Accepted(k, a)[c]
  BY <1>1
<1>3. p[0] \in 0..Len(a)
  <2>1. p \in [0..Len(ds) -> 0..Len(a)] /\ Len(ds) \in Nat
    BY <1>2, LenProperties DEF Cut
  <2>2. 0 \in 0..Len(ds)
    BY <2>1
  <2> QED BY <2>1, <2>2
<1>4. \/ m.seq # q /\ InHand(q, a, Tail(ms), c, p[0])
      \/ c < p[0] /\ m = a[c + 1] /\ InHand(q, a, Tail(ms), c + 1, p[0])
  BY <1>0, <1>2, <1>3, InHandNext
<1> HIDE DEF m
<1>5. CASE m.seq # q /\ InHand(q, a, Tail(ms), c, p[0])
  <2>1. m.seq # q /\ Stream(k, q, a, ds, Tail(ms), l)
    BY <1>2, <1>5 DEF Stream
  <2> QED BY <2>1 DEF m
<1>6. CASE c < p[0] /\ m = a[c + 1] /\ InHand(q, a, Tail(ms), c + 1, p[0])
  <2>1. c + 1 \in 1..Len(a) /\ (c + 1) - 1 = c /\ c + 1 \in Nat
    BY <1>0, <1>3, <1>6
  <2>2. m.seq = q
    BY <1>0, <1>6, <2>1
  <2>3. CASE c + 1 = Len(a)
    <3>1. m.seq = q /\ m.type = "DONE" /\ l = Accepted(k, a)[Len(a) - 1]
      BY <1>0, <1>2, <1>6, <2>1, <2>2, <2>3
    <3> QED BY <3>1 DEF m
  <2>4. CASE c + 1 # Len(a)
    <3>1. c + 1 \in 1..(Len(a) - 1)
      BY <1>0, <2>1, <2>4
    <3>2. m.type = "NEW"
      BY <1>0, <1>6, <3>1
    <3>3. Learns(k, m) <=> Accepts(k, a[c + 1].entry)
      BY <1>6, <3>2 DEF Learns
    <3>4. Accepted(k, a)[c + 1] = IF Accepts(k, a[c + 1].entry)
                                  THEN Append(Accepted(k, a)[c], a[c + 1].entry)
                                  ELSE Accepted(k, a)[c]
      <4>1. \A n \in 1..Len(a) : Accepted(k, a)[n] = IF Accepts(k, a[n].entry)
                                     THEN Append(Accepted(k, a)[n - 1], a[n].entry)
                                     ELSE Accepted(k, a)[n - 1]
        BY <1>0, AcceptedDef
      <4> QED BY <2>1, <4>1
    <3>5. e = Accepted(k, a)[c + 1]
      BY <1>2, <1>6, <3>3, <3>4
    <3> HIDE DEF e
    <3>6. m.seq = q /\ m.type = "NEW" /\ Stream(k, q, a, ds, Tail(ms), e)
      BY <1>2, <1>6, <2>1, <2>2, <3>2, <3>5 DEF Stream
    <3> QED BY <3>6 DEF e, m
  <2> QED BY <2>3, <2>4
<1> QED BY <1>4, <1>5, <1>6
-----------------------------------------------------------------------------
(* The stream of each dump is kept. *)

\* Steps that leave the socket, the buffer and the task of call o alone.
LEMMA StreamFrame ==
    ASSUME NEW o \in Ops, StreamInv(o), kind' = kind, learned'[o] = learned[o],
           kind[o] \in Dumps =>
              /\ UNCHANGED <<seqOf[o], answer[o], inbox[o], st[o], rcvq[o], todo[o]>>
              /\ pc'[o] \in Early => pc[o] \in Early
              /\ o \in Awaiting' => o \in Awaiting
    PROVE  StreamInv(o)'
<1>1. CASE kind[o] \notin Dumps
  BY <1>1 DEF StreamInv
<1>2. CASE kind[o] \in Dumps
  <2>1. /\ seqOf'[o] = seqOf[o] /\ answer'[o] = answer[o] /\ inbox'[o] = inbox[o]
        /\ st'[o] = st[o] /\ rcvq'[o] = rcvq[o] /\ todo'[o] = todo[o]
        /\ pc'[o] \in Early => pc[o] \in Early
        /\ o \in Awaiting' => o \in Awaiting
    BY <1>2
  <2>2. /\ pc[o] \in Early => Fresh(o)
        /\ o \in Awaiting /\ answer[o] = <<>> => Unserved(o)
        /\ o \in Awaiting /\ Listing(seqOf[o], answer[o]) =>
              Stream(kind[o], seqOf[o], answer[o], Coming(o), inbox[o], learned[o])
    BY <1>2 DEF StreamInv
  <2>3. pc'[o] \in Early => Fresh(o)'
    BY <2>1, <2>2 DEF Fresh
  <2>4. o \in Awaiting' /\ answer'[o] = <<>> => Unserved(o)'
    BY <2>1, <2>2 DEF Unserved, Foreign, Elems
  <2>5. Coming(o)' = Coming(o)
    BY <2>1 DEF Coming
  <2>6. o \in Awaiting' /\ Listing(seqOf'[o], answer'[o]) =>
           Stream(kind'[o], seqOf'[o], answer'[o], Coming(o)', inbox'[o], learned'[o])
    BY <2>1, <2>2, <2>5
  <2> QED BY <1>2, <2>3, <2>4, <2>6 DEF StreamInv, Listing, Stream, Cut, Brings, Foreign, InHand, Elems
<1> QED BY <1>1, <1>2

\* Nothing is asked of a dump that has returned.
LEMMA StreamDone ==
    ASSUME NEW o \in Ops, StreamInv(o), kind' = kind, learned'[o] = learned[o], pc'[o] = "done"
    PROVE  StreamInv(o)'
BY DEF StreamInv, Early, Awaiting

\* What has to be shown for a dump whose stream moves.
LEMMA StreamMoves ==
    ASSUME NEW o \in Ops, kind' = kind, kind[o] \in Dumps, o \in Awaiting',
           answer'[o] = <<>> => Unserved(o)',
           Listing(seqOf'[o], answer'[o]) =>
              Stream(kind[o], seqOf'[o], answer'[o], Coming(o)', inbox'[o], learned'[o])
    PROVE  StreamInv(o)'
<1>1. pc'[o] \notin Early
  BY DEF Early, Awaiting
<1> QED BY <1>1 DEF StreamInv

\* Only ServeRequest sets an answer.
LEMMA OnlyServe ==
    ASSUME [Next]_vars, \A o \in Ops : ~ServeRequest(o)
    PROVE  answer' = answer
<1> USE DEF opVars, gateVars, sockVars, bounds, history
<1>1. ASSUME NEW o \in Ops, Call(o) \/ Step(o) \/ SendFault(o) PROVE answer' = answer
  BY <1>1 DEF Call, Step, AcquireSocketToken, OpenFails, StartTask, SendDone, IoFailed,
              ReceiveDone, ReadMore, Absorb, Complete, SendFault
<1>2. CASE \/ Tick \/ GateExpires \/ Notify \/ Terminated \/ UNCHANGED vars \/ Stop
  BY <1>2 DEF Tick, GateExpires, Notify, Terminated, vars, Stop
<1>3. ASSUME NEW s \in Sockets, DeliverReply(s) \/ DropReply(s) \/ Receive(s) \/ ReceiveFault(s)
      PROVE  answer' = answer
  BY <1>3 DEF DeliverReply, DropReply, Receive, ReceiveFault
<1> QED BY <1>1, <1>2, <1>3 DEF Next, KernelStep

\* An answer stays an answer to its call.
LEMMA AnswerStep == WaitInv /\ AnswerInv /\ [Next]_vars => AnswerInv'
<1> SUFFICES ASSUME WaitInv, AnswerInv, [Next]_vars, NEW p \in Ops, answer'[p] # <<>>
             PROVE  answer'[p] \in Answers(kind'[p], seqOf'[p])
  BY DEF AnswerInv
<1>0. TypeOK /\ kind' = kind
  BY KindFixed DEF WaitInv
<1>1. CASE answer[p] # <<>>
  <2>1. answer'[p] = answer[p] /\ seqOf'[p] = seqOf[p]
    BY <1>1, AnswerKept
  <2> QED BY <1>0, <1>1, <2>1 DEF AnswerInv
<1>2. CASE answer[p] = <<>>
  <2>1. PICK o \in Ops : ServeRequest(o)
    BY <1>2, OnlyServe
  <2>2. PICK a \in Answers(kind[o], seqOf[o]) : answer' = [answer EXCEPT ![o] = a]
    BY <2>1 DEF ServeRequest
  <2>3. seqOf' = seqOf
    BY <2>1 DEF ServeRequest
  <2>4. p = o
    BY <1>0, <1>2, <2>2 DEF TypeOK
  <2>5. answer'[p] = a
    BY <1>0, <2>2, <2>4 DEF TypeOK
  <2> QED BY <1>0, <2>2, <2>3, <2>4, <2>5
<1> QED BY <1>1, <1>2
\* The kernel answers a dump: its stream begins.
LEMMA StreamServe ==
    ASSUME WaitInv, NEW o \in Ops, kind' = kind, StreamInv(o), ServeRequest(o), kind[o] \in Dumps
    PROVE  StreamInv(o)'
<1> DEFINE q == seqOf[o]
<1>0. TypeOK /\ StageInv /\ SockOf(o) = o /\ o \in Sockets /\ kind[o] \in AllKinds
  BY SocketsApart DEF WaitInv
<1>1. PICK a \in Answers(kind[o], q) :
         /\ answer' = [answer EXCEPT ![o] = a]
         /\ \E n \in 1..Len(a) : todo' = [todo EXCEPT ![o] = @ \o Datagrams(a, n)]
  BY <1>0 DEF ServeRequest
<1>2. PICK n \in 1..Len(a) : todo' = [todo EXCEPT ![o] = @ \o Datagrams(a, n)]
  BY <1>1
<1>3. /\ pc[o] = "sending" /\ pc' = [pc EXCEPT ![o] = "sent"]
      /\ UNCHANGED <<seqOf, inbox, learned, rcvq>>
  BY DEF ServeRequest
<1>4. answer[o] = <<>> /\ o \in Awaiting /\ o \in Awaiting' /\ pc'[o] = "sent"
  BY <1>0, <1>3 DEF StageInv, TypeOK, Awaiting
<1>5. Unserved(o)
  BY <1>4 DEF StreamInv
<1>6. a \in Seq(Messages) /\ a # <<>>
  <2>1. q \in Nat
    BY <1>0 DEF TypeOK
  <2>2. a \in Seq(Messages) /\ Len(a) \in Nat \ {0}
    BY <1>0, <1>1, <2>1, AnswersCarrySeq
  <2> QED BY <2>2, EmptySeq
<1> DEFINE ds == Datagrams(a, n)
<1>7. ds \in Seq(Seq(Messages))
  BY <1>6, DatagramsCarry
<1>8. answer'[o] = a /\ todo'[o] = todo[o] \o ds
  BY <1>0, <1>1, <1>2 DEF TypeOK
<1>9. todo[o] \o ds = ds
  <2>1. todo[o] = <<>>
    BY <1>5 DEF Unserved
  <2> HIDE DEF ds
  <2> QED BY <1>7, <2>1, ConcatEmptySeq
<1>10. rcvq[o] \in Seq(Seq(Messages))
  BY <1>0 DEF TypeOK
<1>11. \A d \in Elems(rcvq[o]) : Foreign(q, d)
  BY <1>5 DEF Unserved
<1>12. PICK p : Cut(q, a, rcvq[o] \o ds, p) /\ p[0] = 0
  BY <1>6, <1>10, <1>11, CutServe
<1> HIDE DEF ds
<1>13. InHand(q, a, inbox[o], 0, p[0])
  BY <1>5, <1>12 DEF InHand, Unserved
<1>14. learned[o] = Accepted(kind[o], a)[0]
  <2>1. Len(a) \in Nat
    BY <1>6, LenProperties
  <2> QED BY <1>5, <2>1, AcceptedDef DEF Unserved
<1>15. Stream(kind[o], q, a, rcvq[o] \o ds, inbox[o], learned[o])
  BY <1>12, <1>13, <1>14 DEF Stream
<1>16. Coming(o)' = rcvq[o] \o ds
  BY <1>3, <1>8, <1>9 DEF Coming
<1>17. seqOf'[o] = q /\ inbox'[o] = inbox[o] /\ learned'[o] = learned[o]
  BY <1>3
<1> HIDE DEF q
<1>18. Stream(kind[o], seqOf'[o], answer'[o], Coming(o)', inbox'[o], learned'[o])
  BY <1>8, <1>15, <1>16, <1>17
<1> QED BY <1>4, <1>6, <1>8, <1>18, StreamMoves

\* A datagram of the answer enters the receive buffer.
LEMMA StreamDeliver ==
    ASSUME WaitInv, NEW o \in Ops, kind' = kind, StreamInv(o), DeliverReply(o), kind[o] \in Dumps
    PROVE  StreamInv(o)'
<1>0. TypeOK /\ o \in Sockets
  BY SocketsApart DEF WaitInv
<1>1. /\ todo[o] # <<>>
      /\ rcvq' = [rcvq EXCEPT ![o] = Append(@, Head(todo[o]))]
      /\ todo' = [todo EXCEPT ![o] = Tail(@)]
      /\ UNCHANGED <<pc, seqOf, answer, inbox, learned>>
  BY DEF DeliverReply, opVars, history
<1>2. rcvq[o] \in Seq(Seq(Messages)) /\ todo[o] \in Seq(Seq(Messages))
  BY <1>0 DEF TypeOK
<1>3. rcvq'[o] = Append(rcvq[o], Head(todo[o])) /\ todo'[o] = Tail(todo[o])
  BY <1>0, <1>1 DEF TypeOK
<1>4. Coming(o)' = Coming(o)
  <2>1. Append(rcvq[o], Head(todo[o])) \o Tail(todo[o]) = rcvq[o] \o todo[o]
    BY <1>1, <1>2, ConcatMove
  <2> QED BY <1>3, <2>1 DEF Coming
<1>5. CASE o \in Awaiting
  <2>1. answer[o] # <<>>
    BY <1>1, <1>5 DEF StreamInv, Unserved
  <2>2. o \in Awaiting'
    BY <1>1, <1>5 DEF Awaiting
  <2>3. Listing(seqOf[o], answer[o]) =>
           Stream(kind[o], seqOf[o], answer[o], Coming(o), inbox[o], learned[o])
    BY <1>5 DEF StreamInv
  <2>4. seqOf' = seqOf /\ answer' = answer /\ inbox' = inbox /\ learned' = learned
    BY <1>1
  <2>5. Listing(seqOf'[o], answer'[o]) =>
           Stream(kind[o], seqOf'[o], answer'[o], Coming(o)', inbox'[o], learned'[o])
    BY <1>4, <2>3, <2>4
  <2> QED BY <2>1, <2>2, <2>4, <2>5, StreamMoves
<1>6. CASE o \notin Awaiting
  <2>1. pc[o] \notin Early
    BY <1>1 DEF StreamInv, Fresh
  <2>2. pc'[o] = pc[o] /\ pc[o] \in PCs
    BY <1>0, <1>1 DEF TypeOK
  <2>3. pc'[o] = "done"
    BY <1>6, <2>1, <2>2 DEF Awaiting, Early, PCs
  <2> QED BY <1>1, <2>3, StreamDone
<1> QED BY <1>5, <1>6

\* A full buffer loses error answers of a dump socket, never a part of a listing.
LEMMA StreamDrop ==
    ASSUME WaitInv, NEW o \in Ops, kind' = kind, StreamInv(o), DropReply(o), kind[o] \in Dumps
    PROVE  StreamInv(o)'
<1>0. TypeOK /\ o \in Sockets /\ o # Shared
  BY SocketsApart DEF WaitInv
<1>1. /\ todo[o] # <<>> /\ Head(Head(todo[o])).type = "ERROR"
      /\ UNCHANGED <<pc, seqOf, answer, inbox, learned>>
  BY <1>0 DEF DropReply, opVars, history
<1>2. CASE o \in Awaiting
  <2>1. answer[o] # <<>>
    BY <1>1, <1>2 DEF StreamInv, Unserved
  <2>2. ~Listing(seqOf[o], answer[o])
    <3> DEFINE q == seqOf[o]  a == answer[o]  d == Head(todo[o])
    <3>1. SUFFICES ASSUME Listing(q, a) PROVE FALSE
      OBVIOUS
    <3>2. Stream(kind[o], q, a, Coming(o), inbox[o], learned[o])
      BY <1>2, <3>1 DEF StreamInv
    <3>3. PICK p : Cut(q, a, Coming(o), p)
      BY <3>2 DEF Stream
    <3>4. /\ a \in Seq(Messages) /\ Len(a) \in Nat /\ a[Len(a)].type = "DONE"
          /\ \A i \in 1..(Len(a) - 1) : a[i].type = "NEW"
      BY <3>1, LenProperties DEF Listing
    <3>5. \A i \in 1..Len(a) : a[i].type # "ERROR"
      <4>1. ASSUME NEW i \in 1..Len(a) PROVE a[i].type # "ERROR"
        <5>1. i = Len(a) \/ i \in 1..(Len(a) - 1)
          BY <3>4
        <5> QED BY <3>4, <5>1
      <4> QED BY <4>1
    <3> HIDE DEF q, a
    <3>6. rcvq[o] \in Seq(Seq(Messages)) /\ todo[o] \in Seq(Seq(Messages))
      BY <1>0 DEF TypeOK
    <3>7. d \in Seq(Messages) /\ d = todo[o][1] /\ Len(todo[o]) > 0 /\ Len(todo[o]) \in Nat
      BY <1>1, <3>6, HeadTailShape
    <3> DEFINE j == Len(rcvq[o]) + 1  L == Len(Coming(o))
    <3>8. j \in 1..L /\ Coming(o)[j] = d /\ j - 1 \in 0..L /\ j \in 0..L
      <4> DEFINE r == rcvq[o]  t == todo[o]  w == r \o t
      <4>1. /\ Len(w) = Len(r) + Len(t) /\ Len(r) \in Nat
            /\ \A i \in (Len(r) + 1)..(Len(r) + Len(t)) : w[i] = t[i - Len(r)]
        <5>1. r \in Seq(Seq(Messages)) /\ t \in Seq(Seq(Messages))
          BY <3>6
        <5> HIDE DEF r, t
        <5> QED BY <5>1, ConcatShape
      <4>2. Coming(o) = w
        BY DEF Coming
      <4> HIDE DEF r, t, w, d
      <4>3. Len(t) > 0 /\ Len(t) \in Nat /\ t[1] = d
        BY <3>7 DEF t
      <4>4. Len(r) + 1 \in (Len(r) + 1)..(Len(r) + Len(t)) /\ (Len(r) + 1) - Len(r) = 1
        BY <4>1, <4>3
      <4>5. w[Len(r) + 1] = d
        BY <4>1, <4>3, <4>4
      <4>6. /\ Len(r) + 1 \in 1..Len(w) /\ (Len(r) + 1) - 1 \in 0..Len(w) /\ Len(r) + 1 \in 0..Len(w)
        BY <4>1, <4>3
      <4> QED BY <4>2, <4>5, <4>6 DEF r
    <3>9. Brings(q, a, d, p[j - 1], p[j]) /\ p[j - 1] \in 0..Len(a) /\ p[j] \in 0..Len(a)
      <4> HIDE DEF j, L, d
      <4>1. p \in [0..L -> 0..Len(a)] /\ \A i \in 1..L : Brings(q, a, Coming(o)[i], p[i - 1], p[i])
        BY <3>3 DEF Cut, L
      <4> QED BY <3>8, <4>1
    <3>10. Head(d).type = "ERROR"
      BY <1>1
    <3> HIDE DEF d
    <3>11. CASE Foreign(q, d)
      <4>1. d # <<>> /\ \A m \in Elems(d) : m.type \in {"NEW", "DEL"}
        BY <3>11 DEF Foreign
      <4>2. Head(d) \in Elems(d)
        BY <3>7, <4>1, ElemsHeadTail
      <4> QED BY <3>10, <4>1, <4>2
    <3>12. CASE p[j - 1] < p[j] /\ d = SubSeq(a, p[j - 1] + 1, p[j])
      <4> DEFINE x == p[j - 1]  y == p[j]
      <4>1. x \in Nat /\ y \in 0..Len(a) /\ x < y /\ d = SubSeq(a, x + 1, y)
        BY <3>4, <3>9, <3>12
      <4> HIDE DEF x, y
      <4>2. Head(d) = a[x + 1]
        BY <3>4, <4>1, SubSeqHead
      <4>3. x + 1 \in 1..Len(a)
        BY <3>4, <4>1
      <4> QED BY <3>5, <3>10, <4>2, <4>3
    <3> QED BY <3>9, <3>11, <3>12 DEF Brings
  <2>3. o \in Awaiting'
    BY <1>1, <1>2 DEF Awaiting
  <2> QED BY <1>1, <2>1, <2>2, <2>3, StreamMoves
<1>3. CASE o \notin Awaiting
  <2>1. pc[o] \notin Early
    BY <1>1 DEF StreamInv, Fresh
  <2>2. pc'[o] = pc[o] /\ pc[o] \in PCs
    BY <1>0, <1>1 DEF TypeOK
  <2>3. pc'[o] = "done"
    BY <1>3, <2>1, <2>2 DEF Awaiting, Early, PCs
  <2> QED BY <1>1, <2>3, StreamDone
<1> QED BY <1>2, <1>3
\* A notification enters the receive buffer of a dump that waits for its answer.
LEMMA StreamNotify ==
    ASSUME WaitInv, NEW o \in Awaiting, kind' = kind, StreamInv(o), kind[o] \in Dumps,
           NEW d \in Seq(Messages), Foreign(seqOf[o], d), rcvq'[o] = Append(rcvq[o], d),
           UNCHANGED <<pc, seqOf, answer, inbox, learned, todo>>
    PROVE  StreamInv(o)'
<1> DEFINE q == seqOf[o]  a == answer[o]  r == rcvq[o]  t == todo[o]
<1>0. TypeOK /\ o \in Ops /\ o \in Sockets /\ o \in Awaiting'
  BY SocketsApart DEF WaitInv, Awaiting
<1>1. r \in Seq(Seq(Messages)) /\ t \in Seq(Seq(Messages))
  BY <1>0 DEF TypeOK
<1>2. /\ seqOf'[o] = q /\ answer'[o] = a /\ inbox'[o] = inbox[o]
      /\ learned'[o] = learned[o] /\ todo'[o] = t
  OBVIOUS
<1>3. ASSUME answer'[o] = <<>> PROVE Unserved(o)'
  <2>1. Unserved(o)
    BY <1>3 DEF StreamInv
  <2>2. Elems(rcvq'[o]) = Elems(r) \cup {d}
    BY <1>1, ElemsAppend
  <2>3. \A x \in Elems(rcvq'[o]) : Foreign(q, x)
    BY <2>1, <2>2 DEF Unserved
  <2> QED BY <1>2, <2>1, <2>3 DEF Unserved, Foreign, Elems
<1>4. ASSUME Listing(seqOf'[o], answer'[o])
      PROVE  Stream(kind[o], seqOf'[o], answer'[o], Coming(o)', inbox'[o], learned'[o])
  <2>1. Listing(q, a)
    BY <1>2, <1>4
  <2>2. Stream(kind[o], q, a, r \o t, inbox[o], learned[o])
    BY <2>1 DEF StreamInv, Coming
  <2>3. PICK c \in Nat : \E p : /\ Cut(q, a, r \o t, p)
                                /\ InHand(q, a, inbox[o], c, p[0])
                                /\ learned[o] = Accepted(kind[o], a)[c]
    BY <2>2 DEF Stream
  <2>4. PICK p : /\ Cut(q, a, r \o t, p)
                 /\ InHand(q, a, inbox[o], c, p[0])
                 /\ learned[o] = Accepted(kind[o], a)[c]
    BY <2>3
  <2>5. Len(a) \in Nat
    BY <2>1, LenProperties DEF Listing
  <2>6. PICK h : Cut(q, a, Append(r, d) \o t, h) /\ h[0] = p[0]
    BY <1>1, <2>4, <2>5, CutNotify
  <2>7. Stream(kind[o], q, a, Append(r, d) \o t, inbox[o], learned[o])
    BY <2>4, <2>6 DEF Stream
  <2>8. Coming(o)' = Append(r, d) \o t
    BY <1>2 DEF Coming
  <2> HIDE DEF q, a, r, t
  <2> QED BY <1>2, <2>7, <2>8
<1> HIDE DEF q, a, r, t
<1> QED BY <1>0, <1>3, <1>4, StreamMoves

\* A dump receives the oldest datagram in its buffer.
LEMMA StreamReceive ==
    ASSUME WaitInv, NEW o \in Ops, kind' = kind, StreamInv(o), kind[o] \in Dumps,
           pc[o] = "reading", pc'[o] = "received", rcvq[o] # <<>>,
           rcvq'[o] = Tail(rcvq[o]), inbox'[o] = Head(rcvq[o]),
           UNCHANGED <<seqOf, answer, learned, todo>>
    PROVE  StreamInv(o)'
<1> DEFINE q == seqOf[o]  a == answer[o]  r == rcvq[o]  t == todo[o]
<1>0. /\ TypeOK /\ StageInv /\ o \in Sockets /\ o \in Awaiting' /\ o \in Awaiting
      /\ inbox[o] = <<>>
  BY SocketsApart DEF WaitInv, Awaiting, StageInv
<1>1. r \in Seq(Seq(Messages)) /\ t \in Seq(Seq(Messages)) /\ r # <<>>
  BY <1>0 DEF TypeOK
<1>2. seqOf'[o] = q /\ answer'[o] = a /\ learned'[o] = learned[o] /\ todo'[o] = t
  OBVIOUS
<1>3. ASSUME answer'[o] = <<>> PROVE Unserved(o)'
  <2>1. Unserved(o)
    BY <1>0, <1>3 DEF StreamInv
  <2>2. Head(r) \in Elems(r) /\ Elems(Tail(r)) \subseteq Elems(r)
    BY <1>1, ElemsHeadTail
  <2>3. \A d \in Elems(r) : Foreign(q, d)
    BY <2>1 DEF Unserved
  <2>4. \A d \in Elems(rcvq'[o]) : Foreign(q, d)
    BY <2>2, <2>3
  <2>5. \A m \in Elems(inbox'[o]) : m.seq # q
    BY <2>2, <2>3 DEF Foreign
  <2> QED BY <1>2, <2>1, <2>4, <2>5 DEF Unserved, Foreign, Elems
<1>4. ASSUME Listing(seqOf'[o], answer'[o])
      PROVE  Stream(kind[o], seqOf'[o], answer'[o], Coming(o)', inbox'[o], learned'[o])
  <2> DEFINE ds == r \o t
  <2>1. Listing(q, a)
    BY <1>2, <1>4
  <2>2. Stream(kind[o], q, a, ds, <<>>, learned[o])
    BY <1>0, <2>1 DEF StreamInv, Coming
  <2>3. PICK c \in Nat : \E p : /\ Cut(q, a, ds, p)
                                /\ InHand(q, a, <<>>, c, p[0])
                                /\ learned[o] = Accepted(kind[o], a)[c]
    BY <2>2 DEF Stream
  <2>4. PICK p : /\ Cut(q, a, ds, p)
                 /\ InHand(q, a, <<>>, c, p[0])
                 /\ learned[o] = Accepted(kind[o], a)[c]
    BY <2>3
  <2>5. a \in Seq(Messages) /\ Len(a) \in Nat
    BY <2>1, LenProperties DEF Listing
  <2>6. ds \in Seq(Seq(Messages)) /\ Len(ds) \in Nat
    BY <1>1, ConcatShape, LenProperties
  <2>7. Tail(r) \o t = Tail(ds) /\ Head(ds) = Head(r) /\ ds # <<>>
    BY <1>1, ConcatTail
  <2> HIDE DEF ds
  <2>8. p[0] \in 0..Len(a)
    <3>1. p \in [0..Len(ds) -> 0..Len(a)]
      BY <2>4 DEF Cut
    <3>2. 0 \in 0..Len(ds)
      BY <2>6
    <3> QED BY <3>1, <3>2
  <2>9. c = p[0]
    <3>1. SUFFICES ASSUME <<>> = SubSeq(a, c + 1, p[0]), c # p[0] PROVE FALSE
      BY <2>4 DEF InHand
    <3>2. c < p[0]
      BY <2>4, <2>5, <2>8, <3>1 DEF InHand
    <3> QED BY <2>5, <2>8, <3>1, <3>2, SubSeqHead
  <2>10. PICK h : Cut(q, a, Tail(ds), h) /\ InHand(q, a, Head(ds), p[0], h[0])
    BY <2>4, <2>5, <2>6, <2>7, CutReceive
  <2>11. Stream(kind[o], q, a, Tail(ds), Head(ds), learned[o])
    BY <2>4, <2>9, <2>10 DEF Stream
  <2>12. Coming(o)' = Tail(ds) /\ inbox'[o] = Head(ds)
    BY <1>2, <2>7 DEF Coming
  <2> HIDE DEF q, a, r, t
  <2> QED BY <1>2, <2>11, <2>12
<1> HIDE DEF q, a, r, t
<1> QED BY <1>0, <1>3, <1>4, StreamMoves

\* A dump works off a message that does not complete it.
LEMMA StreamAbsorb ==
    ASSUME WaitInv, NEW o \in Ops, kind' = kind, StreamInv(o), Absorb(o), kind[o] \in Dumps
    PROVE  StreamInv(o)'
<1> DEFINE q == seqOf[o]  a == answer[o]  ms == inbox[o]  m == Head(ms)  k == kind[o]
<1>0. TypeOK /\ o \in Sockets /\ k \in AllKinds
  BY SocketsApart DEF WaitInv
<1>1. /\ pc[o] = "processing" /\ ms # <<>> /\ ~(Mine(o, m) /\ Completes(k, m))
      /\ learned' = IF Mine(o, m) /\ Learns(k, m)
                    THEN [learned EXCEPT ![o] = Append(@, m.entry)] ELSE learned
      /\ inbox' = [inbox EXCEPT ![o] = Tail(@)]
      /\ UNCHANGED <<pc, seqOf, answer, rcvq, todo>>
  BY DEF Absorb, sockVars, history
<1>2. /\ seqOf'[o] = q /\ answer'[o] = a /\ rcvq'[o] = rcvq[o] /\ todo'[o] = todo[o]
      /\ inbox'[o] = Tail(ms) /\ Coming(o)' = Coming(o)
      /\ learned'[o] = IF m.seq = q /\ Learns(k, m) THEN Append(learned[o], m.entry) ELSE learned[o]
  <2>1. learned'[o] = IF m.seq = q /\ Learns(k, m) THEN Append(learned[o], m.entry) ELSE learned[o]
    BY <1>0, <1>1 DEF TypeOK, Mine
  <2>2. inbox'[o] = Tail(ms)
    BY <1>0, <1>1 DEF TypeOK
  <2> QED BY <1>1, <2>1, <2>2 DEF Coming
<1>3. ms \in Seq(Messages) /\ o \in Awaiting /\ o \in Awaiting' /\ Coming(o) \in Seq(Seq(Messages))
  <2>1. ms \in Seq(Messages) /\ rcvq[o] \in Seq(Seq(Messages)) /\ todo[o] \in Seq(Seq(Messages))
    BY <1>0 DEF TypeOK
  <2>2. o \in Awaiting /\ o \in Awaiting'
    BY <1>1 DEF Awaiting
  <2> QED BY <2>1, <2>2, ConcatShape DEF Coming
<1>4. m \in Elems(ms) /\ Elems(Tail(ms)) \subseteq Elems(ms)
  BY <1>1, <1>3, ElemsHeadTail
<1>5. ~(m.seq = q /\ Completes(k, m))
  BY <1>1 DEF Mine
<1>6. ASSUME answer'[o] = <<>> PROVE Unserved(o)'
  <2>1. Unserved(o)
    BY <1>2, <1>3, <1>6 DEF StreamInv
  <2>2. m.seq # q /\ \A x \in Elems(Tail(ms)) : x.seq # q
    BY <1>4, <2>1 DEF Unserved
  <2>3. learned'[o] = <<>>
    BY <1>2, <2>1, <2>2 DEF Unserved
  <2> QED BY <1>2, <2>1, <2>2, <2>3 DEF Unserved, Foreign, Elems
<1>7. ASSUME Listing(seqOf'[o], answer'[o])
      PROVE  Stream(k, seqOf'[o], answer'[o], Coming(o)', inbox'[o], learned'[o])
  <2>1. Listing(q, a)
    BY <1>2, <1>7
  <2>2. Stream(k, q, a, Coming(o), ms, learned[o])
    BY <1>3, <2>1 DEF StreamInv
  <2>3. \/ m.seq # q /\ Stream(k, q, a, Coming(o), Tail(ms), learned[o])
        \/ /\ m.seq = q /\ m.type = "NEW"
           /\ Stream(k, q, a, Coming(o), Tail(ms),
                     IF Learns(k, m) THEN Append(learned[o], m.entry) ELSE learned[o])
        \/ m.seq = q /\ m.type = "DONE"
    BY <1>1, <1>3, <2>1, <2>2, StreamNext
  <2>4. ~(m.seq = q /\ m.type = "DONE")
    <3>1. k \in AllKinds /\ k \in Dumps
      BY <1>0 DEF AllKinds
    <3> QED BY <1>5, <3>1, DumpTasks DEF Completes
  <2> HIDE DEF q, a, ms, m, k
  <2>5. CASE m.seq # q /\ Stream(k, q, a, Coming(o), Tail(ms), learned[o])
    BY <1>2, <2>5
  <2>6. CASE /\ m.seq = q
             /\ Stream(k, q, a, Coming(o), Tail(ms),
                       IF Learns(k, m) THEN Append(learned[o], m.entry) ELSE learned[o])
    <3>1. learned'[o] = IF Learns(k, m) THEN Append(learned[o], m.entry) ELSE learned[o]
      BY <1>2, <2>6
    <3> QED BY <1>2, <2>6, <3>1
  <2> QED BY <2>3, <2>4, <2>5, <2>6
<1>8. Listing(seqOf'[o], answer'[o]) =>
         Stream(kind[o], seqOf'[o], answer'[o], Coming(o)', inbox'[o], learned'[o])
  BY <1>7
<1> HIDE DEF q, a, ms, m, k
<1> QED BY <1>3, <1>6, <1>8, StreamMoves
\* Every step moves the stream of a dump along or leaves it alone.
LEMMA StreamStep ==
    ASSUME DataInv, Unambiguous, \A o \in Ops : StreamInv(o), [Next]_vars
    PROVE  \A p \in Ops : StreamInv(p)'
<1> USE DEF opVars, gateVars, sockVars, bounds, history
<1>0. WaitInv /\ TypeOK /\ StageInv /\ SeqInv /\ ~wrapped /\ kind' = kind
  BY KindFixed DEF DataInv, WaitInv, Unambiguous
<1>a. /\ \A o \in Ops : /\ SockOf(o) \in Sockets /\ o \in Sockets /\ o # Shared
                        /\ kind[o] \in Dumps => SockOf(o) = o
                        /\ \A p \in Ops : SockOf(p) = o => p = o
      /\ Shared \in Sockets
  BY <1>0, SocketsApart
<1>b. \A p \in armed : p \in Ops /\ pc[p] = "gate"
  BY <1>0 DEF WaitInv, TypeOK, NobodyForgotten
<1>1. ASSUME UNCHANGED <<seqOf, answer, inbox, learned, st, rcvq, todo>>,
             \A p \in Ops : /\ pc'[p] \in Early => pc[p] \in Early
                            /\ p \in Awaiting' => p \in Awaiting
      PROVE  \A p \in Ops : StreamInv(p)'
  <2>1. ASSUME NEW p \in Ops PROVE StreamInv(p)'
    BY <1>0, <1>1, <2>1, StreamFrame
  <2> QED BY <2>1
<1>2. ASSUME NEW o \in Ops, \/ Call(o) \/ AcquireSocketToken(o) \/ ReceiveDone(o) \/ SendFault(o)
      PROVE  \A p \in Ops : StreamInv(p)'
  <2>1. UNCHANGED <<seqOf, answer, inbox, learned, st, rcvq, todo>>
    BY <1>2 DEF Call, AcquireSocketToken, ReceiveDone, SendFault
  <2>2. \A p \in Ops : /\ pc'[p] \in Early => pc[p] \in Early
                       /\ p \in Awaiting' => p \in Awaiting
    BY <1>0, <1>b, <1>2 DEF TypeOK, Early, Awaiting, Call, AcquireSocketToken, ReceiveDone, SendFault
  <2> QED BY <1>1, <2>1, <2>2
<1>3. ASSUME NEW o \in Ops, SendDone(o) \/ ReadMore(o) PROVE \A p \in Ops : StreamInv(p)'
  <2>1. UNCHANGED <<seqOf, answer, inbox, learned, st, rcvq, todo>>
    BY <1>3 DEF SendDone, ReadMore
  <2>2. /\ pc[o] \in {"sent", "processing"}
        /\ pc' = [pc EXCEPT ![o] = "reading"] \/ pc' = [pc EXCEPT ![o] = "received"]
    BY <1>3 DEF SendDone, ReadMore, StartReceive
  <2>3. \A p \in Ops : /\ pc'[p] \in Early => pc[p] \in Early
                       /\ p \in Awaiting' => p \in Awaiting
    BY <1>0, <2>2 DEF TypeOK, Early, Awaiting
  <2> QED BY <1>1, <2>1, <2>3
<1>4. CASE Tick \/ GateExpires \/ Terminated \/ UNCHANGED vars
  <2>1. UNCHANGED <<seqOf, answer, inbox, learned, st, rcvq, todo>>
    BY <1>4 DEF Tick, GateExpires, Terminated, vars
  <2>2. \A p \in Ops : /\ pc'[p] \in Early => pc[p] \in Early
                       /\ p \in Awaiting' => p \in Awaiting
    BY <1>0, <1>b, <1>4 DEF TypeOK, Early, Awaiting, Tick, GateExpires, Terminated, vars
  <2> QED BY <1>1, <2>1, <2>2
<1>5. ASSUME NEW o \in Ops, OpenFails(o) PROVE \A p \in Ops : StreamInv(p)'
  <2>1. /\ pc' = [pc EXCEPT ![o] = "done"] /\ UNCHANGED <<seqOf, answer, inbox, learned, rcvq, todo>>
    BY <1>5 DEF OpenFails
  <2>2. PICK x : st' = [st EXCEPT ![SockOf(o)] = x]
    BY <1>5 DEF OpenFails
  <2>3. pc'[o] = "done"
    BY <1>0, <2>1 DEF TypeOK
  <2>4. StreamInv(o)'
    BY <1>0, <2>1, <2>3, StreamDone
  <2>5. ASSUME NEW p \in Ops, p # o PROVE StreamInv(p)'
    <3>1. pc'[p] = pc[p] /\ SockOf(o) # p
      BY <1>0, <1>a, <2>1, <2>5 DEF TypeOK
    <3>2. st'[p] = st[p]
      BY <1>0, <1>a, <2>2, <3>1 DEF TypeOK
    <3> QED BY <1>0, <2>1, <3>1, <3>2, StreamFrame DEF Awaiting
  <2> QED BY <2>4, <2>5
<1>6. ASSUME NEW o \in Ops, StartTask(o) PROVE \A p \in Ops : StreamInv(p)'
  <2>1. /\ pc[o] = "gated" /\ pc' = [pc EXCEPT ![o] = "sending"]
        /\ seqOf' = [seqOf EXCEPT ![o] = sequence]
        /\ UNCHANGED <<answer, inbox, learned, rcvq, todo>>
    BY <1>6 DEF StartTask
  <2>2. PICK x : st' = [st EXCEPT ![SockOf(o)] = x]
    BY <1>6 DEF StartTask
  <2>3. StreamInv(o)'
    <3>1. CASE kind[o] \notin Dumps
      BY <1>0, <2>1, <3>1 DEF StreamInv
    <3>2. CASE kind[o] \in Dumps
      <4>1. Fresh(o)
        BY <2>1, <3>2 DEF StreamInv, Early
      <4>2. answer[o] = <<>> /\ inbox[o] = <<>>
        BY <1>0, <2>1 DEF StageInv, Early
      <4>3. o \in Awaiting'
        BY <1>0, <2>1 DEF TypeOK, Awaiting
      <4>4. Unserved(o)'
        BY <2>1, <4>1, <4>2, ElemsEmpty DEF Unserved, Fresh, Elems
      <4>5. ~Listing(seqOf'[o], answer'[o])
        BY <2>1, <4>2 DEF Listing
      <4> QED BY <1>0, <3>2, <4>3, <4>4, <4>5, StreamMoves
    <3> QED BY <3>1, <3>2
  <2>4. ASSUME NEW p \in Ops, p # o PROVE StreamInv(p)'
    <3>1. pc'[p] = pc[p] /\ SockOf(o) # p /\ seqOf'[p] = seqOf[p]
      BY <1>0, <1>a, <2>1, <2>4 DEF TypeOK
    <3>2. st'[p] = st[p]
      BY <1>0, <1>a, <2>2, <3>1 DEF TypeOK
    <3> QED BY <1>0, <2>1, <3>1, <3>2, StreamFrame DEF Awaiting
  <2> QED BY <2>3, <2>4
<1>7. ASSUME NEW o \in Ops, IoFailed(o) \/ Complete(o) PROVE \A p \in Ops : StreamInv(p)'
  <2>1. /\ pc' = [pc EXCEPT ![o] = "done"] /\ UNCHANGED <<seqOf, answer, learned>>
        /\ inbox' = [inbox EXCEPT ![o] = <<>>]
        /\ Close(o) \/ UNCHANGED <<st, rcvq, todo>>
    BY <1>7 DEF IoFailed, Complete, Return
  <2>2. pc'[o] = "done"
    BY <1>0, <2>1 DEF TypeOK
  <2>3. StreamInv(o)'
    BY <1>0, <2>1, <2>2, StreamDone
  <2>4. ASSUME NEW p \in Ops, p # o PROVE StreamInv(p)'
    <3>1. pc'[p] = pc[p] /\ inbox'[p] = inbox[p]
      BY <1>0, <2>1, <2>4 DEF TypeOK
    <3>2. st'[p] = st[p] /\ rcvq'[p] = rcvq[p] /\ todo'[p] = todo[p]
      BY <1>0, <1>a, <2>1, <2>4 DEF TypeOK, Close
    <3> QED BY <1>0, <2>1, <3>1, <3>2, StreamFrame DEF Awaiting
  <2> QED BY <2>3, <2>4
<1>8. CASE Stop
  <2>1. UNCHANGED <<seqOf, answer, inbox, learned>> /\ (Close(Shared) \/ UNCHANGED <<st, rcvq, todo>>)
    BY <1>8 DEF Stop
  <2>2. ASSUME NEW p \in Ops, kind[p] \in Dumps
        PROVE  /\ pc'[p] = pc[p]
               /\ st'[p] = st[p] /\ rcvq'[p] = rcvq[p] /\ todo'[p] = todo[p]
    <3>1. pc'[p] = pc[p]
      <4>1. SockOf(p) # Shared
        BY <1>a, <2>2
      <4> QED BY <1>8, <4>1 DEF Stop
    <3>2. st'[p] = st[p] /\ rcvq'[p] = rcvq[p] /\ todo'[p] = todo[p]
      BY <1>0, <1>a, <2>1 DEF TypeOK, Close
    <3> QED BY <3>1, <3>2
  <2>3. ASSUME NEW p \in Ops PROVE StreamInv(p)'
    BY <1>0, <2>1, <2>2, StreamFrame DEF Awaiting
  <2> QED BY <2>3
<1>9. ASSUME NEW o \in Ops, Absorb(o) PROVE \A p \in Ops : StreamInv(p)'
  <2> DEFINE m == Head(inbox[o])
  <2>1. /\ UNCHANGED <<pc, seqOf, answer, st, rcvq, todo>>
        /\ inbox' = [inbox EXCEPT ![o] = Tail(@)]
        /\ \/ learned' = learned
           \/ Learns(kind[o], m) /\ learned' = [learned EXCEPT ![o] = Append(@, m.entry)]
    BY <1>9 DEF Absorb
  <2> HIDE DEF m
  <2>2. StreamInv(o)'
    <3>1. CASE kind[o] \in Dumps
      BY <1>0, <1>9, <3>1, StreamAbsorb
    <3>2. CASE kind[o] \notin Dumps
      <4>1. learned' = learned
        BY <2>1, <3>2 DEF Learns
      <4> QED BY <1>0, <3>2, <4>1 DEF StreamInv
    <3> QED BY <3>1, <3>2
  <2>3. ASSUME NEW p \in Ops, p # o PROVE StreamInv(p)'
    <3>1. inbox'[p] = inbox[p] /\ learned'[p] = learned[p]
      BY <1>0, <2>1, <2>3 DEF TypeOK
    <3> QED BY <1>0, <2>1, <3>1, StreamFrame DEF Awaiting
  <2> QED BY <2>2, <2>3
<1>10. ASSUME NEW o \in Ops, ServeRequest(o) PROVE \A p \in Ops : StreamInv(p)'
  <2>1. PICK a : answer' = [answer EXCEPT ![o] = a]
    BY <1>10 DEF ServeRequest
  <2>2. PICK x : todo' = [todo EXCEPT ![SockOf(o)] = x]
    BY <1>10 DEF ServeRequest
  <2>3. pc' = [pc EXCEPT ![o] = "sent"] /\ UNCHANGED <<seqOf, inbox, learned, st, rcvq>>
    BY <1>10 DEF ServeRequest
  <2>4. StreamInv(o)'
    <3>1. CASE kind[o] \in Dumps
      BY <1>0, <1>10, <3>1, StreamServe
    <3>2. CASE kind[o] \notin Dumps
      BY <1>0, <2>3, <3>2 DEF StreamInv
    <3> QED BY <3>1, <3>2
  <2>5. ASSUME NEW p \in Ops, p # o PROVE StreamInv(p)'
    <3>1. pc'[p] = pc[p] /\ SockOf(o) # p /\ answer'[p] = answer[p]
      BY <1>0, <1>a, <2>1, <2>3, <2>5 DEF TypeOK
    <3>2. todo'[p] = todo[p]
      BY <1>0, <1>a, <2>2, <3>1 DEF TypeOK
    <3> QED BY <1>0, <2>3, <3>1, <3>2, StreamFrame DEF Awaiting
  <2> QED BY <2>4, <2>5
<1>11. ASSUME NEW s \in Sockets, DeliverReply(s) \/ DropReply(s) PROVE \A p \in Ops : StreamInv(p)'
  <2>1. /\ UNCHANGED <<pc, seqOf, answer, inbox, learned, st>>
        /\ todo' = [todo EXCEPT ![s] = Tail(@)]
        /\ rcvq' = rcvq \/ rcvq' = [rcvq EXCEPT ![s] = Append(@, Head(todo[s]))]
    BY <1>11 DEF DeliverReply, DropReply
  <2>2. ASSUME NEW p \in Ops, kind[p] \in Dumps, p = s PROVE StreamInv(p)'
    BY <1>0, <1>11, <2>2, StreamDeliver, StreamDrop
  <2>3. ASSUME NEW p \in Ops, kind[p] \notin Dumps PROVE StreamInv(p)'
    BY <1>0, <2>1, <2>3 DEF StreamInv
  <2>4. ASSUME NEW p \in Ops, p # s PROVE StreamInv(p)'
    <3>1. rcvq'[p] = rcvq[p] /\ todo'[p] = todo[p]
      BY <1>0, <1>a, <2>1, <2>4 DEF TypeOK
    <3> QED BY <1>0, <2>1, <3>1, StreamFrame DEF Awaiting
  <2> QED BY <2>2, <2>3, <2>4
<1>12. CASE Notify
  <2>1. PICK m \in Notices :
          rcvq' = [s \in Sockets |->
                      IF st[s] = "ready" /\ Len(rcvq[s]) < RcvCap
                      THEN Append(rcvq[s], <<m>>) ELSE rcvq[s]]
    BY <1>12 DEF Notify
  <2>2. UNCHANGED <<pc, seqOf, answer, inbox, learned, st, todo>>
    BY <1>12 DEF Notify
  <2>3. m.seq \in NoticeSeqs /\ m \in Messages /\ m.type \in {"NEW", "DEL"}
    BY ControlAssumption DEF NoticeSeqs
  <2>4. <<m>> \in Seq(Messages) /\ Elems(<<m>>) = {m} /\ <<m>> # <<>>
    BY <2>3 DEF Elems
  <2>5. ASSUME NEW p \in Ops PROVE StreamInv(p)'
    <3>1. \/ rcvq'[p] = rcvq[p]
          \/ st[p] = "ready" /\ rcvq'[p] = Append(rcvq[p], <<m>>)
      BY <1>a, <2>1
    <3>2. CASE rcvq'[p] = rcvq[p]
      BY <1>0, <2>2, <3>2, StreamFrame DEF Awaiting
    <3>3. CASE kind[p] \notin Dumps
      BY <1>0, <2>2, <3>3 DEF StreamInv
    <3>4. CASE kind[p] \in Dumps /\ st[p] = "ready" /\ rcvq'[p] = Append(rcvq[p], <<m>>)
      <4>1. pc[p] \notin Early
        BY <3>4 DEF StreamInv, Fresh
      <4>2. CASE p \in Awaiting
        <5>1. seqOf[p] # 0 /\ seqOf[p] \notin NoticeSeqs
          BY <1>0, <4>2 DEF SeqInv, Unambiguous, Started
        <5>2. Foreign(seqOf[p], <<m>>)
          BY <2>3, <2>4, <5>1 DEF Foreign
        <5> QED BY <1>0, <2>2, <2>4, <3>4, <4>2, <5>2, StreamNotify
      <4>3. CASE p \notin Awaiting
        <5>1. pc'[p] = pc[p] /\ pc[p] \in PCs
          BY <1>0, <2>2 DEF TypeOK
        <5>2. pc'[p] = "done"
          BY <4>1, <4>3, <5>1 DEF Awaiting, Early, PCs
        <5> QED BY <1>0, <2>2, <5>2, StreamDone
      <4> QED BY <4>2, <4>3
    <3> QED BY <3>1, <3>2, <3>3, <3>4
  <2> QED BY <2>5
<1>13. ASSUME NEW s \in Sockets, Receive(s) \/ ReceiveFault(s) PROVE \A p \in Ops : StreamInv(p)'
  <2>1. readers[s] # <<>>
    BY <1>13 DEF Receive, ReceiveFault, Completion
  <2>2. PICK o \in Ops : o = Head(readers[s]) /\ SockOf(o) = s /\ pc[o] = "reading"
    BY <1>0, <2>1, HeadReader
  <2>3. /\ pc' = [pc EXCEPT ![o] = "received"]
        /\ UNCHANGED <<seqOf, answer, learned, st, todo>>
        /\ \/ /\ rcvq[s] # <<>> /\ inbox' = [inbox EXCEPT ![o] = Head(rcvq[s])]
              /\ rcvq' = [rcvq EXCEPT ![s] = Tail(@)]
           \/ inbox' = [inbox EXCEPT ![o] = <<>>] /\ rcvq' = rcvq
    BY <1>13, <2>2 DEF Receive, ReceiveFault, Completion
  <2>4. inbox[o] = <<>> /\ o \in Awaiting /\ pc'[o] = "received"
    BY <1>0, <2>2, <2>3 DEF StageInv, Awaiting, TypeOK
  <2>5. ASSUME kind[o] \in Dumps PROVE StreamInv(o)'
    <3>1. s = o
      BY <1>a, <2>2, <2>5
    <3>2. CASE /\ rcvq[s] # <<>> /\ inbox' = [inbox EXCEPT ![o] = Head(rcvq[s])]
               /\ rcvq' = [rcvq EXCEPT ![s] = Tail(@)]
      <4>1. rcvq[o] # <<>> /\ inbox'[o] = Head(rcvq[o]) /\ rcvq'[o] = Tail(rcvq[o])
        BY <1>0, <1>a, <2>2, <3>1, <3>2 DEF TypeOK
      <4>2. StreamInv(o) /\ UNCHANGED <<seqOf, answer, learned, todo>>
        BY <2>2, <2>3
      <4> QED BY <1>0, <2>2, <2>4, <2>5, <4>1, <4>2, StreamReceive
    <3>3. CASE inbox' = [inbox EXCEPT ![o] = <<>>] /\ rcvq' = rcvq
      <4>1. inbox'[o] = inbox[o]
        BY <1>0, <2>2, <2>4, <3>3 DEF TypeOK
      <4>2. /\ StreamInv(o) /\ learned'[o] = learned[o] /\ pc'[o] \notin Early
            /\ UNCHANGED <<seqOf[o], answer[o], inbox[o], st[o], rcvq[o], todo[o]>>
        BY <2>2, <2>3, <2>4, <3>3, <4>1 DEF Early
      <4> QED BY <1>0, <2>2, <2>4, <4>2, StreamFrame
    <3> QED BY <2>3, <3>2, <3>3
  <2>6. ASSUME NEW p \in Ops, kind[p] \notin Dumps PROVE StreamInv(p)'
    BY <1>0, <2>3, <2>6 DEF StreamInv
  <2>7. ASSUME NEW p \in Ops, p # o PROVE StreamInv(p)'
    <3>1. p # s
      BY <1>a, <2>2, <2>7
    <3>2. pc'[p] = pc[p] /\ inbox'[p] = inbox[p] /\ rcvq'[p] = rcvq[p]
      BY <1>0, <1>a, <2>2, <2>3, <2>7, <3>1 DEF TypeOK
    <3>3. /\ StreamInv(p) /\ learned'[p] = learned[p]
          /\ UNCHANGED <<seqOf[p], answer[p], inbox[p], st[p], rcvq[p], todo[p]>>
          /\ pc'[p] \in Early => pc[p] \in Early
          /\ p \in Awaiting' => p \in Awaiting
      BY <2>3, <3>2 DEF Awaiting
    <3> QED BY <1>0, <3>3, StreamFrame
  <2> QED BY <2>2, <2>5, <2>6, <2>7
<1> QED BY <1>2, <1>3, <1>4, <1>5, <1>6, <1>7, <1>8, <1>9, <1>10, <1>11, <1>12, <1>13
        DEF Next, Step, KernelStep
-----------------------------------------------------------------------------
(* What a call returns. *)

\* The message that completes a call is the last one of its answer, and what the
\* task accepts of all the others has been learned.
LEMMA WholeAnswer ==
    ASSUME DataInv, AnswerInv, Unambiguous, NEW o \in Ops, StreamInv(o), Complete(o)
    PROVE  /\ answer[o] # <<>> /\ answer[o] \in Seq(Messages)
           /\ Head(inbox[o]) = answer[o][(Len(answer[o]) - 1) + 1]
           /\ learned[o] = Accepted(kind[o], answer[o])[Len(answer[o]) - 1]
<1> DEFINE q == seqOf[o]  a == answer[o]  ms == inbox[o]  m == Head(ms)  k == kind[o]
<1>0. /\ WaitInv /\ TypeOK /\ SeqInv /\ OriginInv /\ ResultFromOwnAnswer
      /\ k \in AllKinds /\ q \in Nat /\ ms \in Seq(Messages) /\ a \in Seq(Messages)
      /\ learned[o] \in Seq(Entries) /\ o \in Sockets
  <2>1. WaitInv /\ TypeOK /\ SeqInv /\ OriginInv /\ ResultFromOwnAnswer
    BY DEF DataInv, WaitInv
  <2> QED BY <2>1, SocketsApart DEF TypeOK
<1>1. pc[o] = "processing" /\ ms # <<>> /\ m.seq = q /\ Completes(k, m)
  BY DEF Complete, Mine
<1>2. o \in Awaiting /\ m \in Elems(ms)
  BY <1>0, <1>1, ElemsHeadTail DEF Awaiting
<1>3. m \in Elems(a) /\ a # <<>>
  <2>1. Mine(o, m)
    BY <1>1 DEF Mine
  <2> QED BY <1>0, <1>2, <2>1, MineIsOwn
<1>4. a \in Answers(k, q)
  BY <1>3 DEF AnswerInv
<1>5. \A e \in Elems(learned[o]) : NewMsg(q, e) \in Elems(a)
  BY <1>0 DEF ResultFromOwnAnswer
<1>6. CASE Len(a) = 1 /\ learned[o] = <<>>
  <2>1. Len(a) - 1 = 0 /\ (Len(a) - 1) + 1 = 1
    BY <1>6
  <2>2. m = a[1]
    BY <1>0, <1>3, <1>6, LenProperties DEF Elems
  <2>3. Accepted(k, a)[0] = <<>>
    BY <1>6, AcceptedDef
  <2> QED BY <1>0, <1>3, <1>6, <2>1, <2>2, <2>3
<1>7. CASE k \notin Dumps
  <2>1. Len(a) = 1
    BY <1>0, <1>4, <1>7, AnswerShape
  <2>2. learned[o] = <<>>
    BY <1>7 DEF StreamInv
  <2> QED BY <1>6, <2>1, <2>2
<1>8. ASSUME NEW c \in KernelErrors, a = <<ErrorMsg(q, c)>>
      PROVE  Len(a) = 1 /\ learned[o] = <<>>
  <2>1. Len(a) = 1 /\ Elems(a) = {ErrorMsg(q, c)}
    BY <1>8 DEF Elems
  <2>2. \A e : NewMsg(q, e) # ErrorMsg(q, c)
    BY DEF NewMsg, ErrorMsg
  <2>3. Elems(learned[o]) = {}
    BY <1>5, <2>1, <2>2
  <2>4. learned[o] = <<>>
    <3>1. SUFFICES ASSUME learned[o] # <<>> PROVE FALSE
      OBVIOUS
    <3>2. Head(learned[o]) \in Elems(learned[o])
      BY <1>0, <3>1, ElemsHeadTail
    <3> QED BY <2>3, <3>2
  <2> QED BY <2>1, <2>4
<1>9. CASE k \in Dumps /\ Listing(q, a)
  <2> DEFINE ds == Coming(o)
  <2>1. Stream(k, q, a, ds, ms, learned[o])
    BY <1>2, <1>9 DEF StreamInv
  <2>2. ds \in Seq(Seq(Messages))
    <3>1. rcvq[o] \in Seq(Seq(Messages)) /\ todo[o] \in Seq(Seq(Messages))
      BY <1>0 DEF TypeOK
    <3> QED BY <3>1, ConcatShape DEF Coming
  <2>3. \/ m.seq # q
        \/ m.type = "NEW"
        \/ m.type = "DONE" /\ learned[o] = Accepted(k, a)[Len(a) - 1]
    <3>1. \/ m.seq # q /\ Stream(k, q, a, ds, Tail(ms), learned[o])
          \/ /\ m.seq = q /\ m.type = "NEW"
             /\ Stream(k, q, a, ds, Tail(ms),
                       IF Learns(k, m) THEN Append(learned[o], m.entry) ELSE learned[o])
          \/ m.seq = q /\ m.type = "DONE" /\ learned[o] = Accepted(k, a)[Len(a) - 1]
      <4> HIDE DEF q, a, ms, k, ds
      <4>1. /\ k \in Dumps /\ Listing(q, a) /\ ds \in Seq(Seq(Messages))
            /\ ms \in Seq(Messages) /\ ms # <<>>
            /\ Stream(k, q, a, ds, ms, learned[o])
        BY <1>0, <1>1, <1>9, <2>1, <2>2
      <4> QED BY <4>1, StreamNext
    <3> QED BY <3>1
  <2>4. m.type # "NEW"
    BY <1>0, <1>1, <1>9, DumpTasks DEF Completes
  <2>5. m.type = "DONE" /\ learned[o] = Accepted(k, a)[Len(a) - 1]
    BY <1>1, <2>3, <2>4
  <2>6. m = a[Len(a)]
    <3>1. PICK i \in 1..Len(a) : m = a[i]
      BY <1>0, <1>3, LenProperties DEF Elems
    <3>2. i = Len(a) \/ i \in 1..(Len(a) - 1)
      BY <1>0, LenProperties
    <3> HIDE DEF m
    <3> QED BY <1>9, <2>5, <3>1, <3>2 DEF Listing
  <2>7. (Len(a) - 1) + 1 = Len(a)
    BY <1>0, LenProperties
  <2> QED BY <1>0, <1>3, <2>5, <2>6, <2>7
<1> QED BY <1>0, <1>4, <1>6, <1>7, <1>8, <1>9, AnswerShape

\* The steps a caller does not see.
Quiet ==
    /\ UNCHANGED <<kind, answer, result>>
    /\ \A o \in Ops : /\ pc'[o] = "idle" <=> pc[o] = "idle"
                      /\ pc'[o] = "done" <=> pc[o] = "done"

\* The steps of an operation seen by its caller: the call, the kernel's answer and
\* the return.
LEMMA VisibleSteps ==
    ASSUME WaitInv, [Next]_vars
    PROVE  \/ Quiet
           \/ \E o \in Ops : Call(o) \/ ServeRequest(o) \/ OpenFails(o) \/ IoFailed(o) \/ Complete(o)
<1> USE DEF opVars, gateVars, sockVars, bounds, history
<1>0. TypeOK /\ NobodyForgotten /\ kind' = kind
  BY KindFixed DEF WaitInv
<1>a. \A p \in armed : p \in Ops /\ pc[p] = "gate"
  BY <1>0 DEF TypeOK, NobodyForgotten
<1>1. ASSUME NEW o \in Ops, \/ AcquireSocketToken(o) \/ StartTask(o) \/ ReceiveDone(o) \/ SendFault(o)
                            \/ Absorb(o)
      PROVE  Quiet
  <2>1. UNCHANGED <<answer, result>>
    BY <1>1 DEF AcquireSocketToken, StartTask, ReceiveDone, SendFault, Absorb
  <2>2. \A p \in Ops : /\ pc'[p] = "idle" <=> pc[p] = "idle"
                       /\ pc'[p] = "done" <=> pc[p] = "done"
    BY <1>0, <1>a, <1>1 DEF TypeOK, AcquireSocketToken, StartTask, ReceiveDone, SendFault, Absorb
  <2> QED BY <1>0, <2>1, <2>2 DEF Quiet
<1>2. ASSUME NEW o \in Ops, SendDone(o) \/ ReadMore(o) PROVE Quiet
  <2>1. UNCHANGED <<answer, result>>
    BY <1>2 DEF SendDone, ReadMore
  <2>2. /\ pc[o] \in {"sent", "processing"}
        /\ pc' = [pc EXCEPT ![o] = "reading"] \/ pc' = [pc EXCEPT ![o] = "received"]
    BY <1>2 DEF SendDone, ReadMore, StartReceive
  <2> QED BY <1>0, <2>1, <2>2 DEF TypeOK, Quiet
<1>3. CASE \/ Tick \/ GateExpires \/ Notify \/ Terminated \/ UNCHANGED vars
           \/ \E s \in Sockets : DeliverReply(s) \/ DropReply(s)
  <2>1. UNCHANGED <<answer, result>>
    BY <1>3 DEF Tick, GateExpires, Notify, Terminated, vars, DeliverReply, DropReply
  <2>2. \A p \in Ops : /\ pc'[p] = "idle" <=> pc[p] = "idle"
                       /\ pc'[p] = "done" <=> pc[p] = "done"
    BY <1>0, <1>a, <1>3 DEF TypeOK, Tick, GateExpires, Notify, Terminated, vars, DeliverReply,
                            DropReply
  <2> QED BY <1>0, <2>1, <2>2 DEF Quiet
<1>4. CASE Stop
  BY <1>0, <1>4 DEF TypeOK, Stop, Quiet
<1>5. ASSUME NEW s \in Sockets, Receive(s) \/ ReceiveFault(s) PROVE Quiet
  <2>1. readers[s] # <<>>
    BY <1>5 DEF Receive, ReceiveFault, Completion
  <2>2. PICK o \in Ops : o = Head(readers[s]) /\ pc[o] = "reading"
    BY <2>1, HeadReader
  <2>3. pc' = [pc EXCEPT ![o] = "received"] /\ UNCHANGED <<answer, result>>
    BY <1>5, <2>2 DEF Receive, ReceiveFault, Completion
  <2> QED BY <1>0, <2>2, <2>3 DEF TypeOK, Quiet
<1> QED BY <1>1, <1>2, <1>3, <1>4, <1>5 DEF Next, Step, KernelStep

\* CompleteDump for one call.
Whole(o) ==
    pc[o] = "done" /\ kind[o] \in Dumps /\ result[o].st = "ok" =>
        LET n == Len(answer[o]) - 1
        IN  /\ answer[o][n + 1].type = "DONE"
            /\ result[o].list = Accepted(kind[o], answer[o])[n]

\* A dump that succeeds returns its whole answer.
LEMMA CompleteStep ==
    ASSUME DataInv, AnswerInv, Unambiguous => \A o \in Ops : StreamInv(o), CompleteDump, [Next]_vars
    PROVE  CompleteDump'
<1> SUFFICES ASSUME Unambiguous' PROVE \A p \in Ops : Whole(p)'
  BY DEF CompleteDump, Whole
<1>0. WaitInv /\ TypeOK /\ kind' = kind /\ Unambiguous /\ ResultFromOwnAnswer
  BY KindFixed, AmbiguousForever DEF DataInv, WaitInv
<1>1. ASSUME NEW p \in Ops, pc'[p] = "done" => pc[p] = "done" /\ result'[p] = result[p]
      PROVE  Whole(p)'
  <2>1. SUFFICES ASSUME pc'[p] = "done", kind'[p] \in Dumps, result'[p].st = "ok"
                 PROVE  /\ answer'[p][(Len(answer'[p]) - 1) + 1].type = "DONE"
                        /\ result'[p].list = Accepted(kind'[p], answer'[p])[Len(answer'[p]) - 1]
    BY DEF Whole
  <2>2. /\ pc[p] = "done" /\ kind[p] \in Dumps /\ result[p].st = "ok" /\ result'[p] = result[p]
    BY <1>0, <1>1, <2>1
  <2>3. answer[p] # <<>>
    BY <1>0, <2>2, ElemsEmpty DEF ResultFromOwnAnswer
  <2>4. answer'[p] = answer[p] /\ seqOf'[p] = seqOf[p]
    BY <1>0, <2>3, AnswerKept
  <2>5. /\ answer[p][(Len(answer[p]) - 1) + 1].type = "DONE"
        /\ result[p].list = Accepted(kind[p], answer[p])[Len(answer[p]) - 1]
    BY <1>0, <2>2 DEF CompleteDump
  <2> QED BY <1>0, <2>2, <2>4, <2>5
<1>2. ASSUME NEW o \in Ops, pc' = [pc EXCEPT ![o] = "done"], NEW r, result' = [result EXCEPT ![o] = r]
      PROVE  \A p \in Ops \ {o} : Whole(p)'
  BY <1>0, <1>1, <1>2 DEF TypeOK
<1>3. ASSUME NEW o \in Ops, result'[o].st # "ok" PROVE Whole(o)'
  BY <1>3 DEF Whole
<1>4. CASE Quiet
  BY <1>1, <1>4 DEF Quiet
<1>5. ASSUME NEW o \in Ops, Call(o) \/ ServeRequest(o) PROVE \A p \in Ops : Whole(p)'
  <2>1. result' = result /\ \A p \in Ops : pc'[p] = "done" => pc[p] = "done"
    BY <1>0, <1>5 DEF TypeOK, Call, ServeRequest, opVars
  <2> QED BY <1>1, <2>1
<1>6. ASSUME NEW o \in Ops, OpenFails(o) \/ IoFailed(o) PROVE \A p \in Ops : Whole(p)'
  <2>1. PICK r : /\ pc' = [pc EXCEPT ![o] = "done"] /\ result' = [result EXCEPT ![o] = r]
                 /\ r.st # "ok"
    <3>1. CASE OpenFails(o)
      <4>1. PICK r \in {Thrown, Error("EIO")} : result' = [result EXCEPT ![o] = r]
        BY <3>1 DEF OpenFails
      <4>2. r.st # "ok" /\ pc' = [pc EXCEPT ![o] = "done"]
        BY <3>1 DEF OpenFails, Thrown, Error
      <4> QED BY <4>1, <4>2
    <3>2. CASE IoFailed(o)
      <4>1. pc' = [pc EXCEPT ![o] = "done"] /\ result' = [result EXCEPT ![o] = Error(ec[o])]
        BY <3>2 DEF IoFailed, Return
      <4>2. Error(ec[o]).st # "ok"
        BY DEF Error
      <4> QED BY <4>1, <4>2
    <3> QED BY <1>6, <3>1, <3>2
  <2>2. result'[o].st # "ok"
    BY <1>0, <2>1 DEF TypeOK
  <2> QED BY <1>2, <1>3, <2>1, <2>2
<1>7. ASSUME NEW o \in Ops, Complete(o) PROVE \A p \in Ops : Whole(p)'
  <2> DEFINE a == answer[o]  n == Len(a) - 1  m == Head(inbox[o])
  <2>1. /\ a # <<>> /\ a \in Seq(Messages) /\ m = a[n + 1] /\ learned[o] = Accepted(kind[o], a)[n]
    BY <1>0, <1>7, WholeAnswer
  <2>2. /\ pc' = [pc EXCEPT ![o] = "done"] /\ UNCHANGED <<seqOf, answer>>
        /\ result' = [result EXCEPT ![o] = Outcome(kind[o], learned[o], m)]
    BY <1>7 DEF Complete, Return, history
  <2>3. result'[o] = Outcome(kind[o], learned[o], m)
    BY <1>0, <2>2 DEF TypeOK
  <2>4. ASSUME kind[o] \in Dumps, result'[o].st = "ok"
        PROVE  m.type = "DONE" /\ result'[o].list = learned[o]
    <3>1. a \in Answers(kind[o], seqOf[o]) /\ kind[o] \in AllKinds /\ seqOf[o] \in Nat
      BY <1>0, <2>1, SocketsApart DEF AnswerInv, TypeOK
    <3>2. n + 1 = Len(a)
      BY <2>1, LenProperties
    <3>3. CASE Listing(seqOf[o], a)
      <4>1. m.type = "DONE"
        BY <2>1, <3>2, <3>3 DEF Listing
      <4>2. kind[o] # "get_neighbor"
        BY <2>4 DEF Dumps
      <4>3. Outcome(kind[o], learned[o], m).list = learned[o]
        BY <4>1, <4>2 DEF Outcome, Ok
      <4> QED BY <2>3, <4>1, <4>3
    <3>4. ASSUME NEW c \in KernelErrors, a = <<ErrorMsg(seqOf[o], c)>> PROVE FALSE
      <4>1. m = ErrorMsg(seqOf[o], c)
        BY <2>1, <3>2, <3>4
      <4>2. c # "0"
        BY ErrorsAssumption
      <4>3. Outcome(kind[o], learned[o], ErrorMsg(seqOf[o], c)).st = "error"
        BY <4>2 DEF Outcome, ErrorMsg, Error
      <4> HIDE DEF m
      <4> QED BY <2>3, <2>4, <4>1, <4>3
    <3> QED BY <2>4, <3>1, <3>3, <3>4, AnswerShape
  <2>5. Whole(o)'
    <3> HIDE DEF m
    <3> QED BY <1>0, <2>1, <2>2, <2>4 DEF Whole
  <2> QED BY <1>2, <2>2, <2>5
<1> QED BY <1>0, <1>4, <1>5, <1>6, <1>7, VisibleSteps

\* The inductive invariant of the streams holds in every reachable state.
LEMMA DumpInvariant == Spec => []DumpInv
<1>1. Init => DumpInv
  <2> SUFFICES ASSUME Init PROVE DumpInv
    OBVIOUS
  <2>1. /\ \A o \in Ops : pc[o] = "idle" /\ answer[o] = <<>> /\ learned[o] = <<>>
        /\ \A s \in Sockets : st[s] = "closed" /\ rcvq[s] = <<>> /\ todo[s] = <<>>
        /\ Ops \subseteq Sockets
    BY DEF Init, Sockets
  <2>2. \A o \in Ops : StreamInv(o)
    BY <2>1 DEF StreamInv, Fresh, Awaiting
  <2> QED BY <2>1, <2>2 DEF DumpInv, AnswerInv, CompleteDump
<1>2. DataInv /\ DumpInv /\ [Next]_vars => DumpInv'
  <2> SUFFICES ASSUME DataInv, DumpInv, [Next]_vars PROVE DumpInv'
    OBVIOUS
  <2>1. AnswerInv'
    BY AnswerStep DEF DataInv, DumpInv
  <2>2. CompleteDump'
    BY CompleteStep DEF DumpInv
  <2>3. ASSUME Unambiguous' PROVE \A p \in Ops : StreamInv(p)'
    <3>1. Unambiguous
      BY <2>3, AmbiguousForever DEF DataInv, WaitInv
    <3> QED BY <3>1, StreamStep DEF DumpInv
  <2> QED BY <2>1, <2>2, <2>3 DEF DumpInv
<1> QED BY <1>1, <1>2, DataInvariant, PTL DEF Spec

\* However the answer is cut into datagrams, whatever notifications arrive between
\* them and whatever else fails or is stopped: a dump that succeeds returns every
\* entry of the kernel's answer that dispatch_* accepts, once and in order.
THEOREM CompleteDumpTheorem == Spec => []CompleteDump
<1>1. DumpInv => CompleteDump
  BY DEF DumpInv
<1> QED BY <1>1, DumpInvariant, PTL
-----------------------------------------------------------------------------
(* Control implements RequestService. *)

\* The phase of a call, as RequestService sees it.
Phase(o) == IF pc[o] = "idle" THEN "idle" ELSE IF pc[o] = "done" THEN "done" ELSE "open"

\* The value RequestService makes of an answer.
LEMMA ServiceReply ==
    ASSUME NEW k, NEW a
    PROVE  Service!Reply(k, a) =
              Outcome(k, Accepted(k, a)[Len(a) - 1], a[(Len(a) - 1) + 1])
<1>1. ASSUME NEW l, NEW m PROVE Service!Outcome(k, l, m) = Outcome(k, l, m)
  BY DEF Service!Outcome, Outcome, Service!Error, Error, Service!Ok, Ok
<1>2. Service!Accepted(k, a) = Accepted(k, a)
  <2>1. ASSUME NEW x PROVE Service!Task(x) = Task(x)
    BY DEF Service!Task, Task, Service!RouteDumpTask, RouteDumpTask,
           Service!AddressDumpTask, AddressDumpTask, Service!LinkDumpTask, LinkDumpTask,
           Service!NeighborDumpTask, NeighborDumpTask, Service!NeighborProbeTask, NeighborProbeTask,
           Service!NeighborFlushTask, NeighborFlushTask, Service!NeighborGetTask, NeighborGetTask
  <2>2. ASSUME NEW e PROVE Service!Accepts(k, e) = Accepts(k, e)
    BY <2>1 DEF Service!Accepts, Accepts, Service!UINT16_MAX, UINT16_MAX
  <2> QED BY <2>2 DEF Service!Accepted, Accepted
<1> QED BY <1>1, <1>2 DEF Service!Reply
\* A service call fails in the ways a call of Control does.
LEMMA ServiceFailures ==
    /\ \A c \in LocalErrors : Error(c) \in Service!Failures
    /\ Thrown \in Service!Failures
BY DEF Service!Failures, Service!Error, Error, Service!Thrown, Thrown, Service!LocalErrors, LocalErrors

\* A new Control object is a new service.
LEMMA ServiceInit == Init => Service!Init
<1> SUFFICES ASSUME Init PROVE Service!Init
  OBVIOUS
<1>1. Phases = [o \in Ops |-> "idle"]
  <2>1. \A o \in Ops : pc[o] = "idle"
    BY DEF Init
  <2> QED BY <2>1 DEF Phases, Ongoing
<1>2. \A o \in Ops : result[o].st = "error"
  BY DEF Init, NoResult
<1> QED BY <1>1, <1>2 DEF Init, Service!Init

\* Each step of Control is a step of the service, or one its callers do not see.
LEMMA ServiceStep ==
    ASSUME DataInv, DumpInv, Unambiguous, [Next]_vars
    PROVE  [Service!Next]_(Service!vars)
<1>0. /\ WaitInv /\ TypeOK /\ StageInv /\ kind' = kind
      /\ \A p \in Ops : pc[p] \in PCs /\ pc'[p] \in PCs
  BY KindFixed, TypeStep DEF DataInv, WaitInv, TypeOK
<1>a. /\ Phases = [p \in Ops |-> Phase(p)]
      /\ Phases' = [p \in Ops |-> Phase(p)']
  BY DEF Phases, Phase, Ongoing
<1>b. ASSUME NEW o \in Ops, pc[o] \notin {"idle", "done"}, pc' = [pc EXCEPT ![o] = "done"],
             NEW r, result' = [result EXCEPT ![o] = r], answer' = answer,
             \/ r \in Service!Failures
             \/ answer[o] # <<>> /\ r = Service!Reply(kind[o], answer[o])
      PROVE  Service!Next
  <2>1. Phases[o] = "open" /\ Phases' = [Phases EXCEPT ![o] = "done"]
    BY <1>0, <1>a, <1>b DEF TypeOK, Phase
  <2>2. result'[o] = r /\ \A p \in Ops \ {o} : result'[p] = result[p]
    BY <1>0, <1>b DEF TypeOK
  <2>3. Service!Return(o)
    BY <1>0, <1>b, <2>1, <2>2 DEF Service!Return
  <2> QED BY <2>3 DEF Service!Next
<1>1. CASE Quiet
  <2>1. \A p \in Ops : Phase(p)' = Phase(p)
    BY <1>1 DEF Quiet, Phase
  <2>2. Phases' = Phases
    BY <1>a, <2>1
  <2> QED BY <1>1, <2>2 DEF Quiet, Service!vars
<1>2. ASSUME NEW o \in Ops, Call(o) PROVE Service!Next
  <2>1. pc[o] = "idle" /\ pc' = [pc EXCEPT ![o] = "spawned"] /\ UNCHANGED <<kind, answer, result>>
    BY <1>2 DEF Call, opVars
  <2>2. Phases[o] = "idle" /\ Phases' = [Phases EXCEPT ![o] = "open"]
    BY <1>0, <1>a, <2>1 DEF TypeOK, Phase
  <2>3. Service!Call(o)
    BY <2>1, <2>2 DEF Service!Call
  <2> QED BY <2>3 DEF Service!Next
<1>3. ASSUME NEW o \in Ops, ServeRequest(o) PROVE Service!Next
  <2>1. PICK a \in Answers(kind[o], seqOf[o]) : answer' = [answer EXCEPT ![o] = a]
    BY <1>3 DEF ServeRequest
  <2>2. /\ pc[o] = "sending" /\ pc' = [pc EXCEPT ![o] = "sent"] /\ UNCHANGED <<kind, result>>
    BY <1>3 DEF ServeRequest
  <2>3. answer[o] = <<>>
    BY <1>0, <2>2 DEF StageInv
  <2>4. a # <<>>
    <3>1. kind[o] \in AllKinds /\ seqOf[o] \in Nat
      BY <1>0, SocketsApart DEF TypeOK
    <3>2. a \in Seq(Messages) /\ Len(a) \in Nat \ {0}
      BY <2>1, <3>1, AnswersCarrySeq
    <3> QED BY <3>2, EmptySeq
  <2>5. answer'[o] # <<>> /\ \A p \in Ops \ {o} : answer'[p] = answer[p]
    BY <1>0, <2>1, <2>4 DEF TypeOK
  <2>6. Phases[o] = "open" /\ Phases' = Phases
    BY <1>0, <1>a, <2>2 DEF TypeOK, Phase
  <2>7. Service!Answer(o)
    BY <2>2, <2>3, <2>5, <2>6 DEF Service!Answer
  <2> QED BY <2>7 DEF Service!Next
<1>4. ASSUME NEW o \in Ops, OpenFails(o) PROVE Service!Next
  <2>1. PICK r \in {Thrown, Error("EIO")} : result' = [result EXCEPT ![o] = r]
    BY <1>4 DEF OpenFails
  <2>2. r \in Service!Failures
    BY ServiceFailures DEF LocalErrors
  <2>3. pc[o] = "gated" /\ pc' = [pc EXCEPT ![o] = "done"] /\ answer' = answer
    BY <1>4 DEF OpenFails, history
  <2> QED BY <1>b, <2>1, <2>2, <2>3
<1>5. ASSUME NEW o \in Ops, IoFailed(o) PROVE Service!Next
  <2>1. /\ pc[o] \in {"sent", "received"} /\ ec[o] # "0" /\ pc' = [pc EXCEPT ![o] = "done"]
        /\ answer' = answer /\ result' = [result EXCEPT ![o] = Error(ec[o])]
    BY <1>5 DEF IoFailed, Return, history
  <2>2. Error(ec[o]) \in Service!Failures
    BY <1>0, <2>1, ServiceFailures DEF TypeOK
  <2> QED BY <1>b, <2>1, <2>2
<1>6. ASSUME NEW o \in Ops, Complete(o) PROVE Service!Next
  <2> DEFINE r == Outcome(kind[o], learned[o], Head(inbox[o]))
  <2>1. /\ pc[o] = "processing" /\ pc' = [pc EXCEPT ![o] = "done"] /\ answer' = answer
        /\ result' = [result EXCEPT ![o] = r]
    BY <1>6 DEF Complete, Return, history
  <2>2. answer[o] # <<>> /\ r = Service!Reply(kind[o], answer[o])
    BY <1>6, WholeAnswer, ServiceReply DEF DumpInv
  <2> HIDE DEF r
  <2> QED BY <1>b, <2>1, <2>2
<1> QED BY <1>0, <1>1, <1>2, <1>3, <1>4, <1>5, <1>6, VisibleSteps

\* As long as sequence numbers tell the calls apart, Control implements the service
\* its callers rely on: a call is answered once by the kernel and returns once, the
\* value of the whole answer to that very call or a failure of this process,
\* whatever the calls share below.
THEOREM ServiceTheorem == Spec /\ []Unambiguous => ServiceSpec
<1>1. Init => Service!Init
  BY ServiceInit
<1>2. DataInv /\ DumpInv /\ Unambiguous /\ [Next]_vars => [Service!Next]_(Service!vars)
  BY ServiceStep
<1> QED BY <1>1, <1>2, DataInvariant, DumpInvariant, PTL DEF Spec, ServiceSpec, Service!Spec
=============================================================================
