------------------------------- MODULE Listener -------------------------------
(***************************************************************************)
(* llmx::rtaco::Listener (src/core/nl_listener.cxx) with the Signal of     *)
(* include/rtaco/core/nl_signal.hxx that hands its events to the slots.    *)
(*                                                                         *)
(* The listener is a loop: request_read starts one async_receive into      *)
(* buffer_, handle_read works its datagram off, message by message, and    *)
(* requests the next.  start(), stop(), connect and disconnect are called  *)
(* between two handlers of the io_context or by a slot, that is, in the    *)
(* middle of handle_read.                                                  *)
(*                                                                         *)
(* The kernel and the reactor of Boost.Asio are external.  Messages of one *)
(* datagram are taken to have the same size: a receive that is shorter than*)
(* the one before leaves the tail of buffer_ as it was.                    *)
(***************************************************************************)
EXTENDS Integers, Sequences, SocketGuard

LOCAL INSTANCE SequencesExt

CONSTANTS
    Slots,          \* slots that may be connected, once each
    Topic,          \* the signal a slot is connected to, of each slot
    Policy,         \* its ExecPolicy, "Sync" or "Async"
    Headers,        \* the messages the kernel may send: [type, long]
    PatientOwner,   \* start() is called again, and the object destroyed, only
                    \* when the handlers of the stopped session have run
    RcvCap,         \* datagrams the socket's receive buffer holds
    MaxBatch,       \* messages in one datagram
    MaxEvents, MaxStarts, MaxFaults, MaxThrows   \* bounds

Topics == {"link", "address", "route", "neighbor", "error"}
Header == [type : Topics \cup {"other"}, long : BOOLEAN]

ASSUME ListenerAssumption ==
    /\ Topic \in [Slots -> Topics]
    /\ Policy \in [Slots -> {"Sync", "Async"}]
    /\ Headers \subseteq Header
    /\ PatientOwner \in BOOLEAN
    /\ RcvCap \in Nat \ {0} /\ MaxBatch \in Nat \ {0}
    /\ MaxEvents \in Nat /\ MaxStarts \in Nat /\ MaxFaults \in Nat /\ MaxThrows \in Nat

VARIABLES
    running,    \* running_
    st,         \* the socket of socket_guard_
    rcvq,       \* datagrams in its receive buffer
    pending,    \* async_receive operations under way
    posted,     \* completed ones whose handler has not run: [ec, len]
    buffer,     \* buffer_
    handler,    \* where handle_read is: "idle", "message", "emit" or "slot"
    pos, len,   \* process_messages: next message, and messages in the datagram
    callees,    \* slots of the current emission not yet served
    connected,  \* of each signal: its slots, in the order of connection
    tasks,      \* spawned Async slot calls: [slot, id]
    delivered,  \* history: completed slot calls, in order: [slot, id]
    broken,     \* history: a slot threw in this session
    destroyed,  \* the object is gone
    dangling,   \* history: a handler ran on the destroyed object
    events, starts, faults, throws   \* how often each happened

session == <<running, st, rcvq, pending>>
reading == <<buffer, handler, pos, len, callees>>
slots == <<connected, tasks>>
life == <<broken, destroyed, dangling>>
bounds == <<events, starts, faults, throws>>
vars == <<session, posted, reading, slots, delivered, life, bounds>>

Messages == [id : Nat, type : Topics \cup {"other"}, long : BOOLEAN]
Completions == [ec : {"ok", "error", "aborted"}, len : Nat]
Calls == [slot : Slots, id : Nat]

Init ==
    /\ running = FALSE
    /\ st = "closed"
    /\ rcvq = <<>>
    /\ pending = 0
    /\ posted = <<>>
    /\ buffer = <<>>
    /\ handler = "idle"
    /\ pos = 0 /\ len = 0
    /\ callees = <<>>
    /\ connected = [t \in Topics |-> <<>>]
    /\ tasks = <<>>
    /\ delivered = <<>>
    /\ broken = FALSE /\ destroyed = FALSE /\ dangling = FALSE
    /\ events = 0 /\ starts = 0 /\ faults = 0 /\ throws = 0

-----------------------------------------------------------------------------
(* The public interface: between two handlers, or from a slot. *)
Callable == ~destroyed /\ handler \in {"idle", "slot"}

\* request_read: a receive on a closed descriptor completes at once.
RequestRead(open) ==
    IF open
    THEN pending' = pending + 1 /\ UNCHANGED posted
    ELSE posted' = Append(posted, [ec |-> "error", len |-> 0]) /\ UNCHANGED pending

\* The handlers of a stopped session have not all run.
Lingering == posted # <<>> \/ handler # "idle"

\* Mutant: start() does not look at running().
MayStartAnyway == TRUE

\* start() returns at once on a running listener.
MayStart == ~running

\* start(): running_ is set and the first read requested, once the socket is open.
Start ==
    /\ Callable /\ MayStart
    /\ starts < MaxStarts
    /\ PatientOwner => ~Lingering
    /\ \E r \in EnsureOpen(st) :
          /\ r.rc = "ok"
          /\ st' = r.st
    /\ running' = TRUE
    /\ RequestRead(TRUE)
    /\ starts' = starts + 1
    /\ broken' = FALSE
    /\ UNCHANGED <<rcvq, reading, slots, delivered, destroyed, dangling, events, faults, throws>>

\* start() when open_socket fails: it returns, or the exception of
\* Socket::open leaves it.
StartFails ==
    /\ Callable /\ MayStart
    /\ faults < MaxFaults
    /\ \E r \in EnsureOpen(st) :
          /\ r.rc # "ok"
          /\ st' = r.st
    /\ faults' = faults + 1
    /\ UNCHANGED <<running, rcvq, pending, posted, reading, slots, delivered, life,
                   events, starts, throws>>

\* SocketGuard::stop: cancel() completes the pending receives as aborted,
\* close() discards what the kernel has queued.
StopSocket ==
    /\ st' = "closed"
    /\ rcvq' = <<>>
    /\ pending' = 0
    /\ posted' = posted \o [i \in 1..pending |-> [ec |-> "aborted", len |-> 0]]

\* Mutant: stop() only clears running_.
StopFlagOnly ==
    /\ Callable /\ running
    /\ running' = FALSE
    /\ UNCHANGED <<st, rcvq, pending, posted, reading, slots, delivered, life, bounds>>

\* stop() on a running listener (on another one it does nothing).
Stop ==
    /\ Callable /\ running
    /\ running' = FALSE
    /\ StopSocket
    /\ UNCHANGED <<reading, slots, delivered, life, bounds>>

\* ~Listener, between two handlers: stop(), and the socket goes with the object.
\* The captured this of a posted handler is not told.
Destroy ==
    /\ ~destroyed /\ handler = "idle"
    /\ PatientOwner => ~running /\ ~Lingering
    /\ destroyed' = TRUE
    /\ running' = FALSE
    /\ StopSocket
    /\ UNCHANGED <<reading, slots, delivered, broken, dangling, bounds>>

\* The lambda of request_read calls handle_read on the object that was.
HandleDangling ==
    /\ destroyed /\ posted # <<>>
    /\ posted' = Tail(posted)
    /\ dangling' = TRUE
    /\ UNCHANGED <<session, reading, slots, delivered, broken, destroyed, bounds>>

\* connect_to_event, connect_to_error: Signal::connect.
Connect(s) ==
    /\ Callable
    /\ \A i \in DOMAIN connected[Topic[s]] : connected[Topic[s]][i] # s
    /\ connected' = [connected EXCEPT ![Topic[s]] = Append(@, s)]
    /\ UNCHANGED <<session, posted, reading, tasks, delivered, life, bounds>>

\* connection::disconnect.
Disconnect(s) ==
    /\ Callable
    /\ \E i \in DOMAIN connected[Topic[s]] :
          /\ connected[Topic[s]][i] = s
          /\ connected' = [connected EXCEPT ![Topic[s]] = RemoveAt(@, i)]
    /\ UNCHANGED <<session, posted, reading, tasks, delivered, life, bounds>>

-----------------------------------------------------------------------------
(* handle_read and what it calls. *)

\* A handler of the stopped session, or an aborted one: nothing happens.
HandleStale ==
    /\ ~destroyed /\ handler = "idle" /\ posted # <<>>
    /\ ~running \/ Head(posted).ec = "aborted"
    /\ posted' = Tail(posted)
    /\ UNCHANGED <<session, reading, slots, delivered, life, bounds>>

\* Mutant: an error ends the read loop.
GiveUpOnError ==
    /\ handler = "idle" /\ posted # <<>> /\ running
    /\ Head(posted).ec = "error"
    /\ posted' = Tail(posted)
    /\ UNCHANGED <<session, reading, slots, delivered, life, bounds>>

\* Any other error: read again.
HandleError ==
    /\ handler = "idle" /\ posted # <<>> /\ running
    /\ Head(posted).ec = "error"
    /\ IF IsOpen(st)
       THEN pending' = pending + 1 /\ posted' = Tail(posted)
       ELSE posted' = Append(Tail(posted), Head(posted)) /\ UNCHANGED pending
    /\ UNCHANGED <<running, st, rcvq, reading, slots, delivered, life, bounds>>

\* process_messages begins.
HandleRead ==
    /\ handler = "idle" /\ posted # <<>> /\ running
    /\ Head(posted).ec = "ok"
    /\ posted' = Tail(posted)
    /\ handler' = "message"
    /\ pos' = 1
    /\ len' = Head(posted).len
    /\ UNCHANGED <<session, buffer, callees, slots, delivered, life, bounds>>

\* Mutant: the walk does not move on.
SameMessage(p) == p

\* NLMSG_NEXT.
NextMessage(p) == p + 1

\* handle_message: the type is in the table and has_payload holds, so that
\* from_nlmsghdr does not give UNKNOWN and the signal is emitted.
Dispatched(m) == m.type # "other" /\ m.long

\* handle_message: emission goes to the slots connected when it begins.
HandleMessage ==
    /\ handler = "message" /\ pos <= len
    /\ LET m == buffer[pos] IN
          IF Dispatched(m)
          THEN /\ handler' = "emit"
               /\ callees' = connected[m.type]
               /\ UNCHANGED pos
          ELSE /\ pos' = NextMessage(pos)
               /\ UNCHANGED <<handler, callees>>
    /\ UNCHANGED <<session, posted, buffer, len, slots, delivered, life, bounds>>

\* The datagram is worked off: request_read, if still running.
EndOfBatch ==
    /\ handler = "message" /\ pos > len
    /\ handler' = "idle"
    /\ IF running THEN RequestRead(IsOpen(st)) ELSE UNCHANGED <<pending, posted>>
    /\ UNCHANGED <<running, st, rcvq, buffer, pos, len, callees, slots, delivered, life, bounds>>

StillConnected(s) == \E i \in DOMAIN connected[Topic[s]] : connected[Topic[s]][i] = s

\* A slot disconnected during the emission is passed over.
SkipSlot ==
    /\ handler = "emit" /\ callees # <<>>
    /\ ~StillConnected(Head(callees))
    /\ callees' = Tail(callees)
    /\ UNCHANGED <<session, posted, buffer, handler, pos, len, slots, delivered, life, bounds>>

\* ExecPolicy::Async, result void: co_spawn with detached, not waited for.
SpawnSlot ==
    /\ handler = "emit" /\ callees # <<>>
    /\ StillConnected(Head(callees)) /\ Policy[Head(callees)] = "Async"
    /\ tasks' = Append(tasks, [slot |-> Head(callees), id |-> buffer[pos].id])
    /\ callees' = Tail(callees)
    /\ UNCHANGED <<session, posted, buffer, handler, pos, len, connected, delivered, life, bounds>>

\* ExecPolicy::Sync: the slot runs here, on the event parsed from the message.
CallSlot ==
    /\ handler = "emit" /\ callees # <<>>
    /\ StillConnected(Head(callees)) /\ Policy[Head(callees)] = "Sync"
    /\ handler' = "slot"
    /\ delivered' = Append(delivered, [slot |-> Head(callees), id |-> buffer[pos].id])
    /\ UNCHANGED <<session, posted, buffer, pos, len, callees, slots, life, bounds>>

SlotReturns ==
    /\ handler = "slot"
    /\ handler' = "emit"
    /\ callees' = Tail(callees)
    /\ UNCHANGED <<session, posted, buffer, pos, len, slots, delivered, life, bounds>>

\* The exception leaves emit, process_messages, handle_read and run().
SlotThrows ==
    /\ handler = "slot"
    /\ throws < MaxThrows
    /\ throws' = throws + 1
    /\ handler' = "idle"
    /\ callees' = <<>>
    /\ broken' = TRUE
    /\ UNCHANGED <<session, posted, buffer, pos, len, slots, delivered, destroyed,
                   dangling, events, starts, faults>>

\* WaitAllCombiner: the futures of a void signal are ready; NLMSG_NEXT.
EndOfEmission ==
    /\ handler = "emit" /\ callees = <<>>
    /\ handler' = "message"
    /\ pos' = NextMessage(pos)
    /\ UNCHANGED <<session, posted, buffer, len, callees, slots, delivered, life, bounds>>

\* A spawned slot call runs, on the thread that runs the io_context.
RunTask ==
    /\ handler = "idle" /\ tasks # <<>>
    /\ delivered' = Append(delivered, Head(tasks))
    /\ tasks' = Tail(tasks)
    /\ UNCHANGED <<session, posted, reading, connected, life, bounds>>

-----------------------------------------------------------------------------
(* The kernel and the reactor (external). *)

\* Changes of kernel tables, announced in one datagram to a socket that has
\* joined the groups; without room for it, it is lost without an error.
Announce ==
    \E n \in 1..MaxBatch : \E hs \in [1..n -> Headers] :
        /\ events + n <= MaxEvents
        /\ events' = events + n
        /\ rcvq' = IF st = "ready" /\ Len(rcvq) < RcvCap
                   THEN Append(rcvq, [i \in 1..n |-> [id |-> events + i, type |-> hs[i].type,
                                                      long |-> hs[i].long]])
                   ELSE rcvq
        /\ UNCHANGED <<running, st, pending, posted, reading, slots, delivered, life,
                       starts, faults, throws>>

\* Mutant: the buffer is cut to the datagram.
Resized(d) == d

\* buffer_ after a receive.
Overwritten(d) == d \o SubSeq(buffer, Len(d) + 1, Len(buffer))

\* A pending receive gets the oldest datagram.
Receive ==
    /\ pending > 0 /\ rcvq # <<>>
    /\ pending' = pending - 1
    /\ rcvq' = Tail(rcvq)
    /\ LET d == Head(rcvq) IN
          /\ buffer' = Overwritten(d)
          /\ posted' = Append(posted, [ec |-> "ok", len |-> Len(d)])
    /\ UNCHANGED <<running, st, handler, pos, len, callees, slots, delivered, life, bounds>>

ReceiveFault ==
    /\ pending > 0 /\ faults < MaxFaults
    /\ pending' = pending - 1
    /\ posted' = Append(posted, [ec |-> "error", len |-> 0])
    /\ faults' = faults + 1
    /\ UNCHANGED <<running, st, rcvq, reading, slots, delivered, life, events, starts, throws>>

-----------------------------------------------------------------------------
Handle ==
    \/ HandleStale \/ HandleError \/ HandleRead
    \/ HandleMessage \/ EndOfBatch
    \/ SkipSlot \/ SpawnSlot \/ CallSlot \/ SlotReturns \/ EndOfEmission
    \/ HandleDangling

User ==
    \/ Start \/ StartFails \/ Stop \/ Destroy
    \/ \E s \in Slots : Connect(s) \/ Disconnect(s)

Next ==
    \/ User \/ Handle \/ SlotThrows \/ RunTask
    \/ Announce \/ Receive \/ ReceiveFault

\* run() keeps executing handlers, slots return, the kernel hands over what it
\* has queued; nobody has to call, to throw or to fail.
Fairness == WF_vars(Handle) /\ WF_vars(RunTask) /\ WF_vars(Receive)

Spec == Init /\ [][Next]_vars /\ Fairness

-----------------------------------------------------------------------------
(* Properties. *)

\* Every variable of the model keeps its type.
TypeOK ==
    /\ running \in BOOLEAN
    /\ st \in SocketStates
    /\ rcvq \in Seq(Seq(Messages))
    /\ pending \in Nat
    /\ posted \in Seq(Completions)
    /\ buffer \in Seq(Messages)
    /\ handler \in {"idle", "message", "emit", "slot"}
    /\ pos \in Nat /\ len \in 0..Len(buffer)
    /\ callees \in Seq(Slots)
    /\ connected \in [Topics -> Seq(Slots)]
    /\ tasks \in Seq(Calls)
    /\ delivered \in Seq(Calls)
    /\ broken \in BOOLEAN /\ destroyed \in BOOLEAN /\ dangling \in BOOLEAN
    /\ events \in Nat /\ starts \in Nat /\ faults \in Nat /\ throws \in Nat

Live == {i \in DOMAIN posted : posted[i].ec # "aborted"}

\* A running listener always has a read under way, a completed one to handle or
\* a datagram in hand, whatever errors, stops and restarts came before, unless a
\* slot threw in this session; stop() and start() bring it back from that (every
\* other path of handle_read ends in request_read).
ReadLoopAlive ==
    running /\ ~broken => pending > 0 \/ Live # {} \/ handler # "idle"

\* There is never more than one of them, so buffer_ has one user at a time.
SingleReadLoop ==
    running => /\ pending <= 1
               /\ \A i, j \in Live : i = j
               /\ pending = 1 => Live = {} /\ handler = "idle"
               /\ Live # {} => handler = "idle"

\* A slot sees each event once, in the order in which the kernel announced
\* them, over receive errors, restarts and both execution policies.
OrderedDelivery ==
    \A i, j \in DOMAIN delivered :
        i < j /\ delivered[i].slot = delivered[j].slot => delivered[i].id < delivered[j].id

\* When the owner stops the listener and lets its handlers run before it destroys
\* it, no handler comes later: stop() leaves no receive behind that could complete,
\* and the Async slot calls still spawned do not touch the object (request_read
\* captures this).
NothingAfterDestruction == ~dangling

Queued(s, k) ==
    \E d \in DOMAIN rcvq : \E i \in DOMAIN rcvq[d] :
        /\ rcvq[d][i].id = k /\ rcvq[d][i].type = Topic[s] /\ rcvq[d][i].long

Got(s, k) == \E i \in DOMAIN delivered : delivered[i] = [slot |-> s, id |-> k]

\* What has reached the socket of a running listener reaches every connected
\* slot, unless the listener is stopped or the slot disconnected meanwhile.
EventuallyDelivered ==
    \A s \in Slots, k \in 1..MaxEvents :
        Queued(s, k) /\ running /\ StillConnected(s) ~>
            Got(s, k) \/ ~running \/ ~StillConnected(s) \/ broken

\* While the listener reports running() it is subscribed to the multicast
\* groups (nl_listener.hxx, start(): "Start listening for netlink messages").
RunningMeansSubscribed == running => st = "ready"
=============================================================================
