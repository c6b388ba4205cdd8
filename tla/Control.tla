------------------------------- MODULE Control -------------------------------
(***************************************************************************)
(* llmx::rtaco::Control (src/core/nl_control.cxx) and the request loop of  *)
(* RequestTask::async_run (include/rtaco/tasks/nl_request_task.hxx).       *)
(*                                                                         *)
(* Every operation is a coroutine spawned on strand_.  It passes the gate_ *)
(* timer, opens a socket (a private one for a dump, the one of the Control *)
(* object for a neighbour operation), takes a sequence number, sends one   *)
(* request and reads datagrams until a message completes the task.  A step *)
(* of this model runs from one suspension point to the next, except that a *)
(* received datagram is worked off one message per step while the strand   *)
(* is held.  Posted completions may reach the strand in any order, as they *)
(* may when several threads run the io_context.                            *)
(*                                                                         *)
(* The kernel and the reactor of Boost.Asio are external: they are modelled*)
(* from how this code uses them.                                           *)
(***************************************************************************)
EXTENDS RequestTask, SocketGuard

CONSTANTS
    Ops,            \* calls made to the Control object, each at most once
    Shared,         \* Control::socket_guard_; a dump's own socket is named by its call
    NoOp,           \* "no operation"
    Kinds,          \* the kinds of operation that are called
    SerialNeighborOps, \* callers wait for a neighbour operation before the next
    SeqMod,         \* 2^32 in the code: sequence_ is an atomic_uint32_t
    RcvCap,         \* datagrams a socket's receive buffer holds (SO_RCVBUF)
    Notices,        \* notifications the kernel may broadcast
    MaxDump,        \* bound: entries in one dump
    MaxNotices,     \* bound: multicast notifications
    MaxFaults,      \* bound: failing system calls
    MaxStops        \* bound: calls of stop()

ASSUME ControlAssumption ==
    /\ Shared \notin Ops /\ NoOp \notin Ops
    /\ Kinds \subseteq AllKinds
    /\ SerialNeighborOps \in BOOLEAN
    /\ SeqMod \in Nat /\ SeqMod > 1
    /\ RcvCap \in Nat \ {0}
    /\ Notices \subseteq {m \in Messages : m.type \in {"NEW", "DEL"}}
    /\ MaxDump \in Nat /\ MaxNotices \in Nat /\ MaxFaults \in Nat /\ MaxStops \in Nat

VARIABLES
    pc,         \* where the coroutine of a call is suspended
    kind,       \* the operation called
    seqOf,      \* RequestTask::sequence_
    ec,         \* error code of the completed send or receive
    inbox,      \* messages of receive_buffer_ not yet processed
    learned,    \* learned_ of a dump task
    result,     \* the value returned to the caller
    strand,     \* the call whose handler runs on strand_, or NoOp
    gap,        \* gate_.expiry() - now, saturated at -1
    armed,      \* calls waiting on gate_
    sequence,   \* Control::sequence_
    st,         \* state of each socket
    todo,       \* answers the kernel has yet to put in a socket's buffer
    rcvq,       \* datagrams in the socket's receive buffer
    readers,    \* pending async_receive calls, oldest first
    notices, faults, stops,  \* how many notifications, failures and stops happened
    answer,     \* history: the messages with which the kernel answered a call
    wrapped,    \* history: sequence_ has passed its largest value and given out 0
    stopped     \* history: stop() was called and no operation since

opVars == <<kind, seqOf, ec, inbox, learned, result>>
gateVars == <<gap, armed>>
sockVars == <<st, todo, rcvq, readers>>
bounds == <<notices, faults, stops>>
history == <<answer, wrapped, stopped>>
vars == <<pc, opVars, strand, gateVars, sequence, sockVars, bounds, history>>

Sockets == Ops \cup {Shared}
NoResult == [st |-> "error", list |-> <<>>, code |-> "0"]

\* Mutant: dumps use the socket of the Control object too.
OneSocketForAll(o) == Shared

\* The socket of a call: a dump constructs its own SocketGuard.
SockOf(o) == IF kind[o] \in Dumps THEN o ELSE Shared

Ongoing == {o \in Ops : pc[o] \notin {"idle", "done"}}

Init ==
    /\ pc = [o \in Ops |-> "idle"]
    /\ kind \in [Ops -> Kinds]
    /\ seqOf = [o \in Ops |-> 0]
    /\ ec = [o \in Ops |-> "0"]
    /\ inbox = [o \in Ops |-> <<>>]
    /\ learned = [o \in Ops |-> <<>>]
    /\ result = [o \in Ops |-> NoResult]
    /\ strand = NoOp
    /\ gap = -1
    /\ armed = {}
    /\ sequence = 1
    /\ st = [s \in Sockets |-> "closed"]
    /\ todo = [s \in Sockets |-> <<>>]
    /\ rcvq = [s \in Sockets |-> <<>>]
    /\ readers = [s \in Sockets |-> <<>>]
    /\ notices = 0 /\ faults = 0 /\ stops = 0
    /\ answer = [o \in Ops |-> <<>>]
    /\ wrapped = FALSE
    /\ stopped = FALSE

-----------------------------------------------------------------------------
(* The caller and the gate. *)

\* dump_*, probe_neighbor, flush_neighbor, get_neighbor and their async_
\* forms: co_spawn the coroutine on strand_.
Call(o) ==
    /\ pc[o] = "idle"
    /\ SerialNeighborOps /\ kind[o] \in NeighborOps =>
           \A p \in Ongoing : kind[p] \in Dumps
    /\ pc' = [pc EXCEPT ![o] = "spawned"]
    /\ stopped' = FALSE
    /\ UNCHANGED <<opVars, strand, gateVars, sequence, sockVars, bounds, answer, wrapped>>

\* acquire_socket_token up to its co_await.  expires_at() aborts the waits
\* that are pending on the timer, and an aborted wait is not an error.
AcquireSocketToken(o) ==
    /\ strand = NoOp
    /\ pc[o] = "spawned"
    /\ gap' = IF gap + 1 <= 0 THEN 1 ELSE gap + 1
    /\ pc' = [p \in Ops |-> IF p = o THEN "gate"
                            ELSE IF p \in armed THEN "gated" ELSE pc[p]]
    /\ armed' = {o}
    /\ UNCHANGED <<opVars, strand, sequence, sockVars, bounds, history>>

\* One nanosecond passes (only the distance to the expiry is kept).
Tick ==
    /\ gap > -1
    /\ gap' = gap - 1
    /\ UNCHANGED <<pc, opVars, strand, armed, sequence, sockVars, bounds, history>>

\* The timer expires: its wait completes.
GateExpires ==
    /\ gap <= 0
    /\ armed # {}
    /\ pc' = [p \in Ops |-> IF p \in armed THEN "gated" ELSE pc[p]]
    /\ armed' = {}
    /\ UNCHANGED <<opVars, strand, gap, sequence, sockVars, bounds, history>>

-----------------------------------------------------------------------------
(* Closing a socket drops what the kernel queued for it. *)
Close(s) ==
    /\ st' = [st EXCEPT ![s] = "closed"]
    /\ todo' = [todo EXCEPT ![s] = <<>>]
    /\ rcvq' = [rcvq EXCEPT ![s] = <<>>]
    /\ readers' = [readers EXCEPT ![s] = <<>>]

\* The coroutine ends: the task and, for a dump, its socket are destroyed.
Return(o, res) ==
    /\ pc' = [pc EXCEPT ![o] = "done"]
    /\ result' = [result EXCEPT ![o] = res]
    /\ inbox' = [inbox EXCEPT ![o] = <<>>]
    /\ strand' = NoOp
    /\ IF kind[o] \in Dumps THEN Close(o) ELSE UNCHANGED sockVars

\* ensure_open fails: the error is returned, or open() throws.  A dump's
\* SocketGuard is destroyed on the way out, whatever state it was left in.
OpenFails(o) ==
    /\ strand = NoOp
    /\ pc[o] = "gated"
    /\ faults < MaxFaults
    /\ \E r \in EnsureOpen(st[SockOf(o)]) :
          /\ r.rc # "ok"
          /\ result' = [result EXCEPT ![o] = IF r.rc = "throw" THEN Thrown ELSE Error("EIO")]
          /\ st' = [st EXCEPT ![SockOf(o)] = IF kind[o] \in Dumps THEN "closed" ELSE r.st]
    /\ pc' = [pc EXCEPT ![o] = "done"]
    /\ faults' = faults + 1
    /\ UNCHANGED <<kind, seqOf, ec, inbox, learned, strand, gateVars, sequence,
                   todo, rcvq, readers, notices, stops, history>>

\* Mutant: the counter is wider than nlmsg_seq.
WiderSequence(q) == q + 1

\* sequence_.fetch_add(1), modulo 2^32.
NextSequence(q) == IF q + 1 = SeqMod THEN 0 ELSE q + 1

\* async_*_impl after the gate: ensure_open, fetch_add, construct the task,
\* prepare_request and start the send.
StartTask(o) ==
    /\ strand = NoOp
    /\ pc[o] = "gated"
    /\ \E r \in EnsureOpen(st[SockOf(o)]) :
          /\ r.rc = "ok"
          /\ st' = [st EXCEPT ![SockOf(o)] = r.st]
    /\ seqOf' = [seqOf EXCEPT ![o] = sequence]
    /\ sequence' = NextSequence(sequence)
    /\ wrapped' = (wrapped \/ sequence = 0)
    /\ pc' = [pc EXCEPT ![o] = "sending"]
    /\ UNCHANGED <<kind, ec, inbox, learned, result, strand, gateVars,
                   todo, rcvq, readers, bounds, answer, stopped>>

\* Mutant: a receive is started whether or not the socket is still open.
StartReceiveBlindly(o) ==
    /\ readers' = [readers EXCEPT ![SockOf(o)] = Append(@, o)]
    /\ pc' = [pc EXCEPT ![o] = "reading"]
    /\ UNCHANGED ec

\* async_receive: on a closed descriptor it completes at once with an error.
StartReceive(o) ==
    IF IsOpen(st[SockOf(o)])
    THEN /\ readers' = [readers EXCEPT ![SockOf(o)] = Append(@, o)]
         /\ pc' = [pc EXCEPT ![o] = "reading"]
         /\ UNCHANGED ec
    ELSE /\ pc' = [pc EXCEPT ![o] = "received"]
         /\ ec' = [ec EXCEPT ![o] = "EBADF"]
         /\ UNCHANGED readers

\* send_request resumes: on success async_run enters read_loop.
SendDone(o) ==
    /\ strand = NoOp
    /\ pc[o] = "sent"
    /\ ec[o] = "0"
    /\ StartReceive(o)
    /\ UNCHANGED <<kind, seqOf, inbox, learned, result, strand, gateVars, sequence,
                   st, todo, rcvq, bounds, history>>

\* Mutant: the error code is lost on the way to the caller.
IoFailedSilently(o) ==
    /\ strand = NoOp
    /\ pc[o] \in {"sent", "received"}
    /\ ec[o] # "0"
    /\ Return(o, Error("0"))
    /\ UNCHANGED <<kind, seqOf, ec, learned, gateVars, sequence, bounds, history>>

\* send_request or read_loop resumes with an error code and returns it.
IoFailed(o) ==
    /\ strand = NoOp
    /\ pc[o] \in {"sent", "received"}
    /\ ec[o] # "0"
    /\ Return(o, Error(ec[o]))
    /\ UNCHANGED <<kind, seqOf, ec, learned, gateVars, sequence, bounds, history>>

\* read_loop resumes with a datagram; the strand stays with it.
ReceiveDone(o) ==
    /\ strand = NoOp
    /\ pc[o] = "received"
    /\ ec[o] = "0"
    /\ strand' = o
    /\ pc' = [pc EXCEPT ![o] = "processing"]
    /\ UNCHANGED <<opVars, gateVars, sequence, sockVars, bounds, history>>

\* The datagram is used up without a result: the next async_receive.
ReadMore(o) ==
    /\ pc[o] = "processing"
    /\ inbox[o] = <<>>
    /\ StartReceive(o)
    /\ strand' = NoOp
    /\ UNCHANGED <<kind, seqOf, inbox, learned, result, gateVars, sequence,
                   st, todo, rcvq, bounds, history>>

\* Mutant: the sequence number is not looked at.
MineAnyway(o, m) == TRUE

\* process_message drops a message that carries another sequence number.
Mine(o, m) == m.seq = seqOf[o]

\* process_message returns std::nullopt, with or without a learned_ entry.
Absorb(o) ==
    /\ pc[o] = "processing"
    /\ inbox[o] # <<>>
    /\ LET m == Head(inbox[o]) IN
          /\ ~(Mine(o, m) /\ Completes(kind[o], m))
          /\ learned' = IF Mine(o, m) /\ Learns(kind[o], m)
                        THEN [learned EXCEPT ![o] = Append(@, m.entry)]
                        ELSE learned
    /\ inbox' = [inbox EXCEPT ![o] = Tail(@)]
    /\ UNCHANGED <<pc, kind, seqOf, ec, result, strand, gateVars, sequence,
                   sockVars, bounds, history>>

\* process_message returns the result of the task.
Complete(o) ==
    /\ pc[o] = "processing"
    /\ inbox[o] # <<>>
    /\ LET m == Head(inbox[o]) IN
          /\ Mine(o, m) /\ Completes(kind[o], m)
          /\ Return(o, Outcome(kind[o], learned[o], m))
    /\ UNCHANGED <<kind, seqOf, ec, learned, gateVars, sequence, bounds, history>>

-----------------------------------------------------------------------------
(* Control::stop, called from any thread: socket_guard_.stop() cancels the *)
(* pending operations of the shared socket and closes it.  Operations that *)
(* have completed but not yet resumed keep what they got.                  *)
Stop ==
    /\ stops < MaxStops
    /\ stops' = stops + 1
    /\ stopped' = TRUE
    /\ \/ /\ ~IsOpen(st[Shared])
          /\ UNCHANGED <<pc, ec, sockVars>>
       \/ /\ IsOpen(st[Shared])
          /\ LET hit(p) == SockOf(p) = Shared /\ pc[p] \in {"sending", "reading"}
             IN  /\ pc' = [p \in Ops |-> IF ~hit(p) THEN pc[p]
                                         ELSE IF pc[p] = "sending" THEN "sent" ELSE "received"]
                 /\ ec' = [p \in Ops |-> IF hit(p) THEN "ECANCELED" ELSE ec[p]]
          /\ Close(Shared)
    /\ UNCHANGED <<kind, seqOf, inbox, learned, result, strand, gateVars, sequence,
                   notices, faults, answer, wrapped>>

-----------------------------------------------------------------------------
(* The kernel and the reactor (external). *)

\* The answers of the kernel to a request: an error, the entries of a dump
\* followed by NLMSG_DONE, with an error code when the kernel had to break off,
\* an acknowledgement, or the entry asked for.
Answers(k, q) ==
    LET known == {e \in Entries : e.family = Task(k).family}
        listing(es, c) == [i \in 1..(Len(es) + 1) |->
                              IF i <= Len(es) THEN NewMsg(q, es[i]) ELSE DoneMsg(q, c)]
    IN  {<<ErrorMsg(q, c)>> : c \in KernelErrors} \cup
        CASE "DUMP" \in Task(k).flags ->
                {listing(es, c) : es \in UNION {[1..n -> known] : n \in 0..MaxDump},
                                  c \in {"0"} \cup KernelErrors}
          [] "ACK" \in Task(k).flags -> {<<ErrorMsg(q, "0")>>}
          [] Task(k).flags = {} -> {<<NewMsg(q, e)>> : e \in known}

\* An answer goes out in one datagram, or in two when its first n messages fill
\* the first.
Datagrams(a, n) ==
    IF n = Len(a) THEN <<a>> ELSE <<SubSeq(a, 1, n), SubSeq(a, n + 1, Len(a))>>

\* The kernel takes the request and decides on its answer; async_send
\* completes.
ServeRequest(o) ==
    /\ pc[o] = "sending"
    /\ \E a \in Answers(kind[o], seqOf[o]) :
          /\ answer' = [answer EXCEPT ![o] = a]
          /\ \E n \in 1..Len(a) :
                todo' = [todo EXCEPT ![SockOf(o)] = @ \o Datagrams(a, n)]
    /\ pc' = [pc EXCEPT ![o] = "sent"]
    /\ ec' = [ec EXCEPT ![o] = "0"]
    /\ UNCHANGED <<kind, seqOf, inbox, learned, result, strand, gateVars, sequence,
                   st, rcvq, readers, bounds, wrapped, stopped>>

\* async_send completes with an error.
SendFault(o) ==
    /\ pc[o] = "sending"
    /\ faults < MaxFaults
    /\ faults' = faults + 1
    /\ pc' = [pc EXCEPT ![o] = "sent"]
    /\ ec' = [ec EXCEPT ![o] = "EIO"]
    /\ UNCHANGED <<kind, seqOf, inbox, learned, result, strand, gateVars, sequence,
                   sockVars, notices, stops, history>>

\* An answer enters the receive buffer when there is room.
DeliverReply(s) ==
    /\ todo[s] # <<>>
    /\ Len(rcvq[s]) < RcvCap
    /\ rcvq' = [rcvq EXCEPT ![s] = Append(@, Head(todo[s]))]
    /\ todo' = [todo EXCEPT ![s] = Tail(@)]
    /\ UNCHANGED <<pc, opVars, strand, gateVars, sequence, st, readers, bounds, history>>

\* A dump waits for room; any other answer is lost, and the reader does not
\* learn of it because the socket is opened with NETLINK_NO_ENOBUFS.
DropReply(s) ==
    /\ todo[s] # <<>>
    /\ Len(rcvq[s]) >= RcvCap
    /\ s = Shared \/ Head(Head(todo[s])).type = "ERROR"
    /\ todo' = [todo EXCEPT ![s] = Tail(@)]
    /\ UNCHANGED <<pc, opVars, strand, gateVars, sequence, st, rcvq, readers, bounds, history>>

\* A change of a kernel table is broadcast to every socket that has joined the
\* groups of DEFAULT_GROUP_MASK and has room for it.
Notify ==
    /\ notices < MaxNotices
    /\ notices' = notices + 1
    /\ \E m \in Notices :
          rcvq' = [s \in Sockets |->
                      IF st[s] = "ready" /\ Len(rcvq[s]) < RcvCap
                      THEN Append(rcvq[s], <<m>>) ELSE rcvq[s]]
    /\ UNCHANGED <<pc, opVars, strand, gateVars, sequence, st, todo, readers, faults,
                   stops, history>>

\* The oldest pending async_receive of the socket completes.
Completion(s, code, msgs) ==
    /\ readers[s] # <<>>
    /\ LET o == Head(readers[s]) IN
          /\ pc' = [pc EXCEPT ![o] = "received"]
          /\ ec' = [ec EXCEPT ![o] = code]
          /\ inbox' = [inbox EXCEPT ![o] = msgs]
    /\ readers' = [readers EXCEPT ![s] = Tail(@)]

Receive(s) ==
    /\ rcvq[s] # <<>>
    /\ Completion(s, "0", Head(rcvq[s]))
    /\ rcvq' = [rcvq EXCEPT ![s] = Tail(@)]
    /\ UNCHANGED <<kind, seqOf, learned, result, strand, gateVars, sequence,
                   st, todo, bounds, history>>

ReceiveFault(s) ==
    /\ faults < MaxFaults
    /\ Completion(s, "EIO", <<>>)
    /\ faults' = faults + 1
    /\ UNCHANGED <<kind, seqOf, learned, result, strand, gateVars, sequence,
                   st, todo, rcvq, notices, stops, history>>

-----------------------------------------------------------------------------
\* Work of one call that the io_context has a handler ready for.
Step(o) ==
    \/ AcquireSocketToken(o)
    \/ OpenFails(o)
    \/ StartTask(o)
    \/ SendDone(o)
    \/ IoFailed(o)
    \/ ReceiveDone(o)
    \/ ReadMore(o)
    \/ Absorb(o)
    \/ Complete(o)

KernelStep ==
    \/ \E o \in Ops : ServeRequest(o) \/ SendFault(o)
    \/ \E s \in Sockets : DeliverReply(s) \/ DropReply(s) \/ Receive(s) \/ ReceiveFault(s)
    \/ Notify

\* Every call has returned: nothing is left to do.
Terminated == (\A o \in Ops : pc[o] = "done") /\ UNCHANGED vars

Next ==
    \/ \E o \in Ops : Call(o) \/ Step(o)
    \/ Tick
    \/ GateExpires
    \/ Stop
    \/ KernelStep
    \/ Terminated

\* run() keeps executing ready handlers, time passes, the kernel works off
\* what it was given; nobody has to call, to stop or to fail.
Fairness ==
    /\ \A o \in Ops : WF_vars(Step(o)) /\ WF_vars(ServeRequest(o))
    /\ \A s \in Sockets : WF_vars(DeliverReply(s)) /\ WF_vars(Receive(s))
    /\ WF_vars(Tick) /\ WF_vars(GateExpires)

Spec == Init /\ [][Next]_vars /\ Fairness

-----------------------------------------------------------------------------
(* Properties. *)

PCs == {"idle", "spawned", "gate", "gated", "sending", "sent", "reading",
        "received", "processing", "done"}

\* Every variable of the model keeps its type.
TypeOK ==
    /\ pc \in [Ops -> PCs]
    /\ kind \in [Ops -> Kinds]
    /\ seqOf \in [Ops -> Nat]
    /\ ec \in [Ops -> {"0"} \cup LocalErrors]
    /\ inbox \in [Ops -> Seq(Messages)]
    /\ learned \in [Ops -> Seq(Entries)]
    /\ result \in [Ops -> Results]
    /\ strand \in Ops \cup {NoOp}
    /\ gap \in Int
    /\ armed \in SUBSET Ops
    /\ sequence \in 0..(SeqMod - 1)
    /\ st \in [Sockets -> SocketStates]
    /\ todo \in [Sockets -> Seq(Seq(Messages))]
    /\ rcvq \in [Sockets -> Seq(Seq(Messages))]
    /\ readers \in [Sockets -> Seq(Ops)]
    /\ notices \in Nat /\ faults \in Nat /\ stops \in Nat
    /\ answer \in [Ops -> Seq(Messages)]
    /\ wrapped \in BOOLEAN /\ stopped \in BOOLEAN

Started == {o \in Ops : seqOf[o] # 0}
Awaiting == {o \in Ops : pc[o] \in {"sending", "sent", "reading", "received", "processing"}}

\* 0, or the number of the request of another process that caused the change.
NoticeSeqs == {m.seq : m \in Notices}

\* A sequence number tells whose message it is: sequence_ has not come round to
\* numbers it gave out before, and no call got the number of a notification.
Unambiguous == ~wrapped /\ \A o \in Started : seqOf[o] \notin NoticeSeqs

Elems(q) == {q[i] : i \in DOMAIN q}

\* The value a call returns was decided by a message of the kernel's answer to
\* that very request, and everything a dump collected comes from it too: neither
\* answers left behind by failed or stopped calls, nor those of concurrent calls
\* on the shared socket, nor notifications leak into a result (process_message's
\* test of nlmsg_seq together with Control::sequence_).
ResultFromOwnAnswer ==
    Unambiguous => \A o \in Ops :
        /\ \A e \in Elems(learned[o]) : NewMsg(seqOf[o], e) \in Elems(answer[o])
        /\ pc[o] = "done" /\ (result[o].st = "ok" \/ result[o].code \in KernelErrors \ LocalErrors) =>
              \E m \in Elems(answer[o]) : /\ Completes(kind[o], m)
                                          /\ result[o] = Outcome(kind[o], learned[o], m)

\* A dump that succeeds returns every entry the kernel put before its NLMSG_DONE,
\* in order, minus those dispatch_* filters out, however the answer was cut into
\* datagrams and whatever else arrived on the socket (read_loop, learned_).
CompleteDump ==
    Unambiguous => \A o \in Ops :
        pc[o] = "done" /\ kind[o] \in Dumps /\ result[o].st = "ok" =>
            LET n == Len(answer[o]) - 1
            IN  /\ answer[o][n + 1].type = "DONE"
                /\ result[o].list = Accepted(kind[o], answer[o])[n]

\* A suspended call is always where something will resume it: in the queue of
\* gate_, or among the pending receives of its socket, exactly once, and never on
\* a socket that has been closed (acquire_socket_token's expires_at, stop() and
\* the order of cancel and close).
NobodyForgotten ==
    \A o \in Ops :
        /\ pc[o] = "gate" <=> o \in armed
        /\ pc[o] = "reading" <=> o \in Elems(readers[SockOf(o)])
        /\ pc[o] = "reading" => IsOpen(st[SockOf(o)])

\* A dump that the kernel has not met with an error and that waits in a receive
\* has the message that ends it still before it, on the very socket it waits on: the
\* end is never read and passed over, by the dump or by another call, so that it does
\* not wait in vain (SocketGuard guard{...} in the async_dump_*_impl, and read_loop,
\* which works off a datagram to its end).
DumpEndAhead ==
    \A o \in Ops :
        /\ pc[o] = "reading" /\ kind[o] \in Dumps
        /\ \A m \in Elems(answer[o]) : m.type # "ERROR"
        => \E d \in Elems(rcvq[SockOf(o)]) \cup Elems(todo[SockOf(o)]) :
              \E m \in Elems(d) : Mine(o, m) /\ Completes(kind[o], m)

\* No call takes a datagram with the answer another call is waiting for
\* (RequestTask::read_loop drops the messages of other sequence numbers).
NoStolenReply ==
    Unambiguous => \A o \in Ops : \A p \in Awaiting \ {o} :
        \A m \in Elems(inbox[o]) : m.seq # seqOf[p]

\* Every call returns a value to its caller (future.get() of the synchronous
\* forms, the awaitable of the others).
EveryCallReturns == \A o \in Ops : pc[o] = "spawned" ~> pc[o] = "done"

\* After stop() nothing that was under way starts another exchange with the
\* kernel, unless a new operation is called (nl_control.hxx: "Stop ongoing
\* operations and release control resources").
StopEndsOperations == [][stopped => sequence' = sequence]_vars

\* A dump that the kernel had to break off does not look like one that is complete
\* (nl_control.hxx: "Expected RouteEventList or an error_code on failure").
BrokenDumpFails ==
    \A o \in Ops :
        pc[o] = "done" /\ kind[o] \in Dumps /\ result[o].st = "ok" =>
            \A m \in Elems(answer[o]) : m.code = "0"

\* How far a call is, as its caller sees it.
Phases == [o \in Ops |-> CASE pc[o] = "idle" -> "idle"
                           [] pc[o] = "done" -> "done"
                           [] o \in Ongoing -> "open"]

Service == INSTANCE RequestService WITH phase <- Phases

\* Seen by its callers, Control is a service that answers each call once, with
\* the value of the whole answer to that call or with a local failure, whatever
\* the calls share below (before sequence_ comes round).
ServiceSpec == Service!Spec

-----------------------------------------------------------------------------
(* The parts of the inductive invariant. *)

Early == {"idle", "spawned", "gate", "gated"}

\* What a call has at each stage: no number before StartTask, no answer before
\* the kernel took the request, messages only between receive and resumption,
\* and a dump keeps its socket open until it returns.
StageInv ==
    \A o \in Ops :
        /\ pc[o] \in Early => seqOf[o] = 0
        /\ pc[o] \in Early \cup {"sending"} => answer[o] = <<>>
        /\ inbox[o] # <<>> => pc[o] \in {"received", "processing"}
        /\ o \in Awaiting /\ kind[o] \in Dumps => IsOpen(st[o])

\* A pending receive belongs to a call that uses the socket, and there is one
\* per call.
ReaderInv ==
    \A s \in Sockets : \A i, j \in DOMAIN readers[s] :
        /\ SockOf(readers[s][i]) = s
        /\ readers[s][i] = readers[s][j] => i = j

\* The numbers given out are different, and below the next one.
SeqInv ==
    ~wrapped => \A o \in Ops :
        /\ o \in Awaiting => seqOf[o] # 0
        /\ seqOf[o] # 0 => sequence = 0 \/ seqOf[o] < sequence
        /\ \A p \in Ops : seqOf[o] # 0 /\ seqOf[p] = seqOf[o] => p = o

\* A message on socket s is a notification or part of the answer to a call that
\* uses s and has the message's number.
Known(s, m) ==
    m.seq \notin NoticeSeqs =>
        \E q \in Ops : SockOf(q) = s /\ seqOf[q] = m.seq /\ m \in Elems(answer[q])

OriginInv ==
    Unambiguous =>
        /\ \A s \in Sockets : \A d \in Elems(todo[s]) \cup Elems(rcvq[s]) :
              \A m \in Elems(d) : Known(s, m)
        /\ \A o \in Ops : \A m \in Elems(inbox[o]) : Known(SockOf(o), m)

\* With patient callers, one neighbour operation is under way at a time.
SerialInv ==
    SerialNeighborOps => \A o, p \in Ongoing :
        kind[o] \in NeighborOps /\ kind[p] \in NeighborOps => o = p
=============================================================================
