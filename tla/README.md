# A verification project for RTACO

RTACO (`llmx::rtaco`) is a C++23 library on Boost.Asio: it asks the Linux kernel
about routes, addresses, links and neighbours over RTNETLINK (`Control`) and hands
on the kernel's notifications (`Listener`). This directory holds TLA+ models of its
core, TLC runs on small instances, and proofs that TLAPS checks for every instance.
Paths below are relative to the repository.

## The system

| Part | State it keeps | Operations | Works with |
|---|---|---|---|
| `Control` (`src/core/nl_control.cxx`) | `strand_`, the timer `gate_`, `socket_guard_`, `sequence_` | four dumps and three neighbour operations, each blocking and awaitable; `stop` | spawns one coroutine per call on the strand; every coroutine passes `acquire_socket_token`, opens a socket, takes a number and runs a task |
| `RequestTask` and seven tasks (`include/rtaco/tasks`, `src/tasks`) | `sequence_`, `receive_buffer_`, `learned_` | `prepare_request`, `send_request`, `read_loop`, `process_message` | uses the `SocketGuard` it is given; a dump has its own, neighbour operations share the one of `Control` |
| `Socket`, `SocketGuard` (`src/socket`) | a descriptor | `open`, `ensure_open`, `cancel`, `close`, `stop` | the kernel; used by `Control`, the tasks and `Listener` |
| `Listener` (`src/core/nl_listener.cxx`) | `running_`, `buffer_`, `socket_guard_`, five signals | `start`, `stop`, `connect_to_event`, `connect_to_error`, the handler `handle_read` | handler of the io_context; calls slots through `Signal` |
| `Signal` (`include/rtaco/core/nl_signal.hxx`) | connections and their `ExecPolicy` | `connect`, `emit` | runs slots in place or spawns them on the executor |
| Events (`src/events`), helpers (`nl_common.hxx`) | none | `from_nlmsghdr`, attribute parsing | called by tasks and `Listener` |
| Request builders (`include/rtaco/tasks/nl_*_task.hxx`) | `request_` | `build_request`, `request_payload` | called by the tasks before the send |
| The program around it (`examples/`) | threads, `io_context`, work guard, signal set | `run`, `stop`, `reset`, `join`, blocking calls | decides who runs the handlers of all of the above |

What is hard here:

* Coroutines on the strand interleave at every `co_await`; the gate spaces their
  starts but excludes nobody, so several may use the shared socket at once.
* The shared socket outlives calls: answers to failed or stopped calls, and
  notifications of the multicast groups it joins, are read by later calls. Only
  `nlmsg_seq` tells them apart.
* Nothing has a deadline, so every lost or unrecognised answer is a call that never
  returns.
* `stop()` may come at any moment: at the gate, during a send or a receive, or
  between the completion of an operation and its handler.
* The read loop of `Listener` must have exactly one read under way, over errors,
  restarts and slots that call back into it, and none when the object is destroyed.
* The blocking forms and a signal with results wait on futures that only a thread in
  `run()` can set; who calls them from where decides whether anybody is left to do it.
* The walks over a datagram count bytes in unsigned variables that must meet the end
  exactly, also when the buffer cut the datagram.

What makes each part correct: a call returns the answer to its own request and
nothing else; a dump is complete and in order; a suspended call is always
registered where something will resume it; every call returns; a running listener
keeps reading, with one read at a time, and delivers in order and once; whoever
waits is served; a datagram becomes the events it describes, and a request what the
caller asked. The
"hazards" of `PROJECT.json` list, by source line, where this can go wrong.

## Modules

| Module | What it models |
|---|---|
| `SocketGuard` | outcomes of `Socket::open` and `ensure_open` as operators; the states of a socket |
| `RequestTask` | the seven tasks: what each asks for, which messages end it, what it collects, the value it returns |
| `Control` | `Control`, `async_run`/`send_request`/`read_loop`, the kernel and the reactor |
| `MCControl` | instances of `Control` |
| `ControlProofs` | proofs about `Control` |
| `ServiceProofs` | proofs that dumps are complete and that `Control` implements `RequestService` |
| `RequestService` | the abstract specification of a call, without sockets, gate, numbers or datagrams; `Control` implements it |
| `Listener` | `Listener`, its use of `Signal`, the kernel and the reactor |
| `MCListener` | instances of `Listener` |
| `ListenerProofs` | proofs about the read loop and the destructor of `Listener` |
| `DeliveryProofs` | proofs about the types of `Listener` and what its slots get |
| `Runtime` | the threads around the library: `main()`, `io.run()`, the blocking and awaitable forms, signals with results, the end of the program |
| `MCRuntime` | an instance of `Runtime` |
| `RuntimeProofs` | proofs about `Runtime` |
| `Wire` | requests and datagrams in bytes: the builders, the walks over messages and attributes, the four `from_nlmsghdr` |
| `MCWire` | the messages and an instance of `Wire` |
| `WireProofs` | proofs about the walk over messages and the requests of `Wire` |
| `ParseProofs` | proofs about the walk over attributes and the events of `Wire` |
| `NatInduction` | a principle of induction for the recursive functions of the models |

`Control` and `RequestService` extend `RequestTask`, and `Control` also extends
`SocketGuard`, which `Listener` shares. `Wire` instances `RequestTask` for the tables
of the tasks, so that the two agree on which messages a task looks for. `ServiceProofs`
extends `ControlProofs`, `DeliveryProofs` extends `ListenerProofs` and `ParseProofs`
extends `WireProofs`; `ServiceProofs` and `ParseProofs` use `NatInduction`.

### Control

One action stands for the code between two suspension points. The stages of a call
(`pc`) are: `idle`, `spawned` (co_spawn done), `gate` (waiting on `gate_`), `gated`
(the wait is over, the handler has not run), `sending`, `sent`, `reading`,
`received`, `processing` (working off a datagram) and `done`. `strand` is the call
that holds the strand in the middle of a datagram; a datagram is worked off one
message per step so that `stop()`, which runs on the caller's thread, and the kernel
may come between two messages. Completed operations resume in any order, as with
several threads running the io_context. Time is only the distance to the expiry of
the gate (`gap`), in nanoseconds.

A message is reduced to its type, number, entry and error code, an entry to what the
tasks test: its table, its interface index, whether it is in the main table, whether
it has a link-layer address. The end of a dump may carry an error code, which
`handle_done` does not look at. A datagram is a sequence of messages. A send is one
step: netlink takes a request as a whole.

The kernel (external) answers a request when it takes it, cuts the answer into one
or two datagrams, puts them into the receive buffer when there is room, drops
acknowledgements when there is not (`NETLINK_NO_ENOBUFS` hides the loss), holds a
dump back until there is room, and broadcasts notifications. A dump it ends with
`NLMSG_DONE`, with an error code in it when it had to break off. A notification
carries the number 0 or that of the request of another process that caused the change
(`Notices`). The kernel of the model serves neighbour operations, which a real one need
not do (see "Not modelled"). The reactor completes
pending receives of a socket oldest first.

`answer`, `wrapped` and `stopped` are history: the kernel's answer to each call,
whether the 32-bit counter has come round, whether `stop()` was called after the
last new call.

`ServiceSpec` is `RequestService!Spec` under the mapping that forgets everything but
`kind`, `answer`, `result` and whether a call has begun and returned. It says more
than the invariants: the kernel answers a call at most once, a call returns at most
once, never changes its value afterwards, and a value that is no local failure is what
the task makes of the whole answer, in order. It leaves open whether a call returns;
`EveryCallReturns` is about that.

### Listener

One thread runs the io_context, as in `examples/nl_listener_example.cxx`. Public
functions are called between two handlers or by a slot, that is, in the middle of
`handle_read`; `handler` says where `handle_read` is. `buffer` keeps its old content
behind a shorter datagram. A slot is called for an event at the step `CallSlot` or,
spawned, at `RunTask`; `delivered` records the calls. `connected` has the slots of each
of the five signals, in the order of connection. Emission goes to the slots that are
connected to the signal when it begins and passes over those disconnected meanwhile
(Boost.Signals2). A slot that throws leaves `handle_read` before the next read is
requested (`broken`).

`Destroy` is the destructor: `stop()`, then the object is gone, while the handler of
an aborted or completed receive may still be queued with its captured `this`
(`HandleDangling`). `PatientOwner` restricts owners to what the listener example does:
a `start()` or the destruction comes after the handlers of the stopped session have
run (the example stops in its signal handler, joins the thread, and only then leaves
the scope).

### Runtime

A job is anything the io_context executes in handlers: a request of `Control` (all on
`strand_`), a coroutine of the user, one call of an Async slot, the read loop of the
listener, the signal handler of the example. A thread is out of `run()`, on its way
in, in it and free, or executing the handler of a job; `waits` is the job on whose
future it blocks. `main()` makes, in any order, the calls that the two examples and
`tests/test_signal.cpp` make; coroutines make the same calls from inside `run()`. A
signal with a result calls its slots one by one as `WaitAllCombiner` dereferences its
iterator, and waits for the future of each Async slot. `run()` returns when the
io_context is stopped or the guard is reset and no job is outstanding.

`misuse` is history: a waiting call was made inside `run()`, or without a thread in
`run()` or the work guard (`Disciplined` is the negation), or a coroutine or the
listener was started when the guard was gone, or SIGINT reset the guard in the middle
of an emission. Such calls are in the model and do reach `Stuck`, among them
`dump_routes()` before `run()` as the sample of `README.md:70-71` has it; the
properties say that nothing else does.

### Wire

Lengths and offsets are those of the code, in bytes, headers, padding and unsigned
wrap-around included; what the bytes say is abstract. One step is one turn of a loop:
a message (`PassOver`, `ReturnResult`, `BeginEvent`) or an attribute
(`ReadAttribute`). A printed value names the conversion and what it was applied to.
`AllParsed` compares the events the loops make with a reference that is defined on the
messages themselves and knows no offsets. A request has the fields of its header and fixed part
that a caller or a builder decides on, the address family included, which is always
`AF_UNSPEC`; `Destination` is the address that `RTA_OK` finds in it, from `nlmsg_len`
and `rta_len`.

Assumed of the kernel (external) is the format of rtnetlink, by the name
`MessagesAssumption`: a message has its header, and an error its code; in a message of
one of the four families that has its fixed part, the attributes follow that part and
each other on four-byte boundaries and fill the message, a text has its NUL inside the
attribute, and an address the bytes of the message's address family. The code does not
look at the last two (`nl_common.hxx`), so nothing less would do. Numbers may be cut
short, texts and link-layer addresses empty, attributes repeated or absent, and a
message may end before its fixed part does. TLC evaluates the assumption on the
messages of the instance. The buffer
(64 KiB for a task, 32 KiB for the listener) is scaled to 124 bytes, so that datagrams
are cut at every place, and the modulus of `remaining` from 2^32 to 256.

## Runs

Passing runs:

| Run | Properties | Instance |
|---|---|---|
| `control_dumps` | `TypeOK`, `CompleteDump`, `ServiceSpec` | a `flush_neighbor`, or one route, address or link dump, up to three entries at the edges of the filters (index 0, 65535, 65536, another table), two datagrams of buffer, a notification, a fault, an error answer or an error code at the end of the dump, a stop; the counter at its largest number |
| `control_concurrent` | `ResultFromOwnAnswer`, `NobodyForgotten`, `DumpEndAhead`, `ServiceSpec` | two calls, each a probe, a get or a neighbour dump, a notification with the number of another process's request, a fault, a stop, an error answer, one datagram of buffer |
| `control_serial` | `NoStolenReply`, `EveryCallReturns` | a dump or a get of each of two callers, neighbour operations not overlapping, room in the buffer, reachable entries, a notification, a stop |
| `listener_patient` | `TypeOK`, `SingleReadLoop`, `OrderedDelivery`, `NothingAfterDestruction`, `EventuallyDelivered` | a Sync and an Async slot, three events in batches of up to two, two sessions, a fault, a throwing slot, destruction |
| `listener_hasty` | `ReadLoopAlive` | one Sync slot, restarts and destruction at any moment, all kinds of messages, a fault, a throwing slot |
| `runtime` | `TypeOK`, `NeverStuck`, `SlotsInTurn`, `CallerKeepsBytes`, `WaitsEnd` | `main()` and one more thread, two requests (one with address bytes), a coroutine, an emission to two Async slots and a Sync one, a listener with one notification, SIGINT |
| `wire` | `TypeOK`, `WalkInside`, `ReadsInside`, `AllParsed`, `RequestCarriesCall`, `WalkEnds` | all seven tasks and the listener, indexes 0 and 2, two addresses, every datagram of up to three of thirteen messages: not padded, too short, with empty and repeated attributes, of other families, with a foreign number |

Two calls are enough for one to take or disturb what belongs to another, and one
fault, one stop and one notification for each to come at any point of a call; a
buffer of one or two datagrams is reached. A dump of three entries has entries to
drop on both sides of one to keep, and a cut anywhere. Two sessions of the listener
are a restart. Two requests and a coroutine let a thread block inside `run()` on the
strand while another waits outside, and two Async slots are enough for one to begin
too early. Three messages put each message before, between and behind others and over
the edge of the buffer. Where deadlock is not checked the system may stop: a call may
wait for ever (the findings below), a listener without events idles, a program ends,
and a task has returned.

Violations, each of a sentence in the repository (quoted under "findings"):

| Run | Shows |
|---|---|
| `control_steal` | two concurrent probes: one reads and drops the acknowledgement of the other, which never returns |
| `control_done` | a dump that the kernel broke off, with an error code in `NLMSG_DONE`, returns its partial list as a success |
| `control_stop` | after `stop()` an operation that was at the gate reopens the socket and sends |
| `listener_restart` | `stop()` and `start()` with a completed read outstanding: two read loops on one buffer |
| `listener_half` | after a failed socket option, a running listener that joined no group |

The violated and the passing runs belong together: `control_serial` shows that
`EveryCallReturns` holds once callers do not overlap neighbour operations, entries
have a link-layer address and the buffer has room. `control_steal` drops the first of
these; without the second `handle_neighbor` passes over the only answer to
`get_neighbor`, and without room `DropReply` loses an acknowledgement, and the call
waits for ever. `CompleteDump` says what a successful dump returns, namely all that
came before `NLMSG_DONE`; `control_done` shows that this need not be the whole table.
`DumpEndAhead` is about dumps that wait, and takes no side on whether `stop()` should
let them: it does, which `control_stop` counts among its divergences. `listener_patient` shows that
`SingleReadLoop` holds when restarts wait.

Fairness. `Control`: every ready handler of a call runs (`run()` keeps executing
handlers and the strand is fair to them), the kernel takes requests, puts answers
that fit into the buffer and completes receives, the clock advances and the timer
fires. `Listener`: handlers and spawned calls run, slots return, receives complete.
`Runtime`: a thread that can go on does, handlers return, what a request awaits
arrives, `join()` returns once the threads are out. `Wire`: the loops hold no wait.
Nothing obliges anybody to call, to stop, to fail, to throw, to notify, to interrupt
or to drop.

## Proofs

Every safety invariant of the passing runs is a theorem, for every value of the
constants, and so is the refinement. Each follows from an inductive invariant that
TLC had confirmed on the instance of the run or one with shorter dumps. Nothing is assumed
but the named assumptions on the constants; where a theorem has a hypothesis on the
behaviour it is said below.

### Control

`ControlProofs` proves for all sets of calls and kinds, tables of entries, error
codes, buffer sizes, counter widths and bounds (`ControlAssumption`,
`EntriesAssumption`, `ErrorsAssumption` are all that is assumed):

* `TypeCorrect`: `TypeOK`.
* `NobodyForgottenTheorem`: by the inductive invariant `WaitInv`, which adds to
  `NobodyForgotten` that a pending receive belongs to a call that uses the socket and
  that there is one per call (`ReaderInv`; without it completing the oldest receive
  could resume somebody else), and what a call has at each stage (`StageInv`).
* `DumpEndAheadTheorem`: by `EndInv`, inductive on top of `WaitInv`. It says of each
  dump that it sends or receives only after the kernel has decided on its answer
  (`Served`), that what the kernel still holds for it is a piece of that answer
  (`Held`), and that the message that ends it is in its
  hands, on its socket or still with the kernel until it has returned (`EndAhead`).
* `ResultFromOwnAnswerTheorem`: by `DataInv`. `SeqInv` says that numbers given out are
  different until the counter wraps, `OriginInv` that every message on a socket or in
  a buffer is a notification or part of the answer to the call with its number
  (`Known`), wherever it has got to. A message with a call's number is then part of
  its answer (`MineIsOwn`), which is all that `Absorb` and `Complete` use. The
  theorem holds under `Unambiguous`: before the wrap, and no call got the number of a
  notification.
* `NoStolenReplyTheorem`: when callers do not overlap neighbour operations
  (`SerialNeighborOps`), `SerialInv` leaves one call per socket, and `OriginInv`
  keeps its messages there.

`ServiceProofs` proves from the same assumptions:

* `CompleteDumpTheorem`: by `DumpInv`, inductive together with `DataInv`. `AnswerInv`
  keeps what the kernel answered an answer to the call. `StreamInv` follows the answer
  of a dump from the kernel over the socket and the receive buffer to `learned_`: there
  are cut points (`Cut`) such that every datagram still to come brings the next piece of
  the answer or, for notifications, none of it (`Brings`), the rest of the datagram that
  is worked off is the piece before them or nothing of it (`InHand`), and `learned_` is
  what the task accepts of the messages before that (`Stream`). So when `NLMSG_DONE` is
  read, all of the answer before it was. Before the answer only notifications reach the
  dump (`Unserved`), and it starts with a fresh socket (`Fresh`). `CompleteDump` speaks
  of the time before the counter wraps, as `ResultFromOwnAnswer` does.
* `ServiceTheorem`: `Spec /\ []Unambiguous => ServiceSpec`. A step changes what a caller
  sees only when it is the call, the kernel's answer or a return (`VisibleSteps`); a
  return with a value is `Reply` by `CompleteDump` and `ResultFromOwnAnswer`, any other
  a local failure. The hypothesis is needed: after the wrap a call may take the message
  of another one, and with notifications that carry a call's number TLC finds
  `get_neighbor` returning one of these. The runs that check `ServiceSpec` end before
  the number 0 or that of a notification is given out, so that they satisfy it.

Accepting a list of messages is a recursive function (`Accepted`). What the proofs need
of it is its recursion equation, that is, that the recursion has a solution, and this
needs induction over the numbers. The library states induction with an operator as
parameter; `NatInduction` states it for a set (`SetInduction`: a set of numbers with 0
and every successor is `Nat`) and proves it by counting: were `n` outside, adding one
would inject the set's part of `0..n` into a smaller part of itself. `Begins` of `Wire`
is treated in the same way.

### Listener

`ListenerProofs` proves, for all slots, policies, messages, buffer sizes and bounds
(`ListenerAssumption`), with `LoopType` for the types of the read loop:

* `ReadLoopAliveTheorem`: `ReadLoopAlive` is inductive together with `LoopType`, for
  restarts of any kind.
* `SingleReadLoopTheorem`: `SingleReadLoop` when restarts are patient. `LoopInv` adds
  that a stopped listener has no read under way (`StoppedIsQuiet`), so that `start()`
  adds the first one.
* `NothingAfterDestructionTheorem`: `NothingAfterDestruction` when owners are patient.
  `GoneInv` adds to `LoopInv` that a destroyed listener has no handler posted: a
  patient owner destroys it with nothing pending or posted, so that the `stop()` of
  the destructor aborts nothing, and nothing is requested afterwards.

`DeliveryProofs` proves from the same assumption:

* `TypeTheorem`: `TypeOK`, by `TypeInv`, which adds that no completion tells of more
  messages than `buffer_` holds and that `handle_message` is inside the datagram
  (`WalkInv`).
* `OrderedDeliveryTheorem`: `[](PatientOwner => OrderedDelivery)`, by `OrderInv` on top
  of `LoopInv`. The announcements on the socket are in order (`QueueInv`); those in hand,
  in a completed read or in `handle_read`, are in order and before them (`HandInv`);
  every call that was made or spawned is for an earlier message, or for the one being
  emitted and a slot already served (`CallInv`); spawned calls are later than those
  that were completed, and only Async slots have any (`TaskInv`). `OnceInv` says that no
  slot is connected twice to its signal, without which an event would be delivered
  twice. That there is one read at a time (`SingleReadLoop`) is what keeps a second
  datagram from overwriting the one in hand, hence the hypothesis.

### Runtime

`RuntimeProofs` proves for any number of threads, requests, coroutines, emissions and
slots (`RuntimeAssumption`, `KindsAssumption`: the kinds of jobs and the threads are
different things, a neighbour operation is a request, and more than one round of
`run()` is allowed) by one inductive invariant, `IInv`:

* `TypeCorrect`: `TypeOK`.
* `WaitsAreServed`: `NeverStuck`. `DisciplineInv` says that without `misuse` only
  `main()` waits, outside `run()`, while a thread is inside, and that during an emission
  the guard keeps it there. `ExecInv` (a thread has a job just when it executes one, and
  nobody else has it) and `FutureInv` (a future that is waited for belongs to a job that
  was begun) then leave a step that somebody can take.
* `SlotsAreCalledInTurn`: `SlotsInTurn`, by `SlotInv`: the slots before the current one
  are done and those behind it are not begun.
* `BytesAreKept`: `CallerKeepsBytes`, by `CallerInv`: the caller of a request under way
  waits for it, and a coroutine for no other.

### Wire

`WireProofs` proves, for every set of messages, buffer size that is a multiple of four,
modulus above it, and set of readers, indexes and addresses (`BufferAssumption`,
`MessagesAssumption`, `ReadersAssumption`):

* `WalkInsideTheorem`: by `IInv`, that is `DgramInv` (the messages of a datagram lie end
  to end, each padded, and fill it) and `WalkInv` (what `WalkInside` says, wherever the
  loop is). A message that passes `NLMSG_OK` ends, padded, at or before the end of the
  received bytes, because these and every offset are multiples of four; so the unsigned
  subtraction of `NLMSG_NEXT` never wraps.
* `RequestCarriesCallTheorem`: by `RequestInv`, case by case over the seven builders.

`ParseProofs` proves from the same assumptions:

* `ReadsInsideTheorem` and `TypeTheorem` (`TypeOK`): by `EventInv` and `TypeInv`. Inside
  an event `left` is the length of the message behind the attributes read so far
  (`Begins`), or 0 where `extract_ifname` returns, and the event has what these
  attributes said, the last of each type (`SaidSoFar`). `RTA_OK` then holds just when
  there is one more attribute, and reading it stays inside by the kernel's format.
* `AllParsedTheorem`: `AllParsed`, by `MadeInv`: the header is at some place `p` of the
  datagram (`At`), the messages before it arrived whole and did not end the task
  (`Passed`), and the events made are those of the meaningful messages among them, in
  order (`Made`, with `Count` for how many these are). `InOrder` shows that offsets and
  places agree, so that the reference, which knows no offsets, and the loops, which know
  nothing else, mean the same messages.

### Only model-checked

The liveness properties `EveryCallReturns`, `EventuallyDelivered`, `WaitsEnd` and
`WalkEnds`: fairness and ENABLED are outside the provers' reach. The violated properties
of the table above are refuted by TLC.

## Not modelled

* `nl_protocol.hxx` adapts `AF_NETLINK` to Boost.Asio and has no behaviour of its own;
  the bitmask operators of `nl_utils.hxx`, the tables that name constants
  (`*_to_string`) and `state_to_string` are formatting.
* Data races: `handle_message` writes a static table, which two listeners on two
  threads share; `stop()` on one thread while another is inside the socket object
  (`stop()` is one step between the steps of the strand).
* An awaitable neighbour operation that is spawned detached by a caller who then gives
  up the address bytes: nothing in the repository does it.
* What the kernel makes of a request. `NeighborTask::build_request` sets `ndm_family` to
  the unspecified family for every address (`nl_neighbor_task.hxx:50`); today's kernel
  finds no neighbour table for it and refuses get, probe and flush before it looks at
  the destination. `Header` has the field, and `RequestCarriesCall` claims only what is
  in the bytes. Without an interface index the address is not even there
  (`nl_neighbor_task.hxx:56`), although `nl_neighbor_get_task.hxx:22-23` speaks of "a
  lookup request for the given neighbor address"; the property leaves this case out.
  The kernel in `Control` may refuse (an error answer) or serve every operation.
* Messages that tell a call's number by accident: after the wrap of `sequence_`, or in a
  notification that another process's request with that number has caused. The model
  has them, and the properties with `Unambiguous` do not judge what follows.
* Loss of notifications in the kernel's multicast (`NETLINK_NO_ENOBUFS`):
  `EventuallyDelivered` speaks of what has reached the socket.
* Whether slots may be called after `stop()`: the model has these calls (a spawned
  call, the rest of a datagram after a `stop()` from a slot), no property forbids
  them.
* Destruction of a `Control` object: its destructor is defaulted and waits for nothing,
  and coroutines that `io.stop()` leaves suspended are destroyed with the io_context.

## Plan

1. Done: all modules of the table above, with theorems for every safety invariant and
   for the refinement of `RequestService`.
2. An abstract event stream that a patiently owned `Listener` implements, as a run and
   as a theorem on top of `OrderInv`.
3. Several listeners and threads in `Listener`.
