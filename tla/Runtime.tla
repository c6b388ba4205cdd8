------------------------------- MODULE Runtime -------------------------------
(***************************************************************************)
(* The threads around the library: who runs the io_context, who blocks on  *)
(* it, and when it is done.  main() makes the calls that the examples and  *)
(* tests make: it starts threads that call io.run(), or calls run() itself;*)
(* spawns coroutines; calls the blocking forms of Control (future.get())   *)
(* and emits a Signal with a result, whose WaitAllCombiner waits for every *)
(* Async slot; starts a Listener and waits for SIGINT; resets its work     *)
(* guard, stops the io_context, and joins.  Coroutines make the same calls *)
(* from inside run().                                                      *)
(*                                                                         *)
(* A job is anything the io_context executes in handlers: a request of     *)
(* Control (all on strand_), a coroutine of the user, one call of an Async *)
(* slot, the read loop of the Listener, the signal handler of main().      *)
(* What requests and the read loop do is in Control and Listener; here     *)
(* they run, wait for something outside and are done.                      *)
(***************************************************************************)
EXTENDS Integers, Sequences

CONSTANTS
    Main, Runners,      \* the thread of main() and the ones it starts
    Requests,           \* calls of Control
    Addressed,          \* those of them that are given address bytes
    Coros,              \* coroutines of the user
    Emissions,          \* emissions of the signal
    Policies,           \* ExecPolicy of its slots, in the order of connection
    Listen, Signals,    \* the listener's read loop, the wait for SIGINT
    NoJob, NoThread, NoCaller,
    MaxRounds,          \* bound: handlers of one request
    MaxEvents           \* bound: notifications to the listener

SlotCalls == Emissions \X {i \in DOMAIN Policies : Policies[i] = "Async"}
Jobs == Requests \cup Coros \cup SlotCalls \cup {Listen, Signals}
Threads == Runners \cup {Main}

ASSUME RuntimeAssumption ==
    /\ Main \notin Runners /\ Addressed \subseteq Requests
    /\ Policies \in Seq({"Sync", "Async"})
    /\ NoJob \notin Jobs /\ NoThread \notin Threads
    /\ NoCaller \notin Threads \cup Jobs
    /\ MaxRounds \in Nat /\ MaxRounds > 1 /\ MaxEvents \in Nat

\* A job is of one kind, no thread is a job, and slot calls are named by pairs.
ASSUME KindsAssumption ==
    /\ Requests \cap Coros = {} /\ Listen # Signals
    /\ {Listen, Signals} \cap (Requests \cup Coros) = {}
    /\ \A j \in Requests \cup Coros \cup {Listen, Signals} : j \notin Emissions \X Nat
    /\ Threads \cap Jobs = {}

VARIABLES
    at,        \* of each thread: "out" of run(), "born" on its way in, "run"
               \* in run() without a handler, "exec" executing one
    job,       \* the job whose handler a thread executes
    waits,     \* the job whose future a thread waits for
    js,        \* of each job: "new", "ready" to run, "running", waiting for
               \* something outside ("io") or for a request ("await"), "done"
    rounds,    \* handlers of a request executed so far
    caller,    \* who waits for a request: a thread or a coroutine
    emission,  \* of each: [by, pos], the emitting thread and the slot it is at
    guard,     \* the work guard is held
    stopped,   \* io.stopped()
    running,   \* Listener::running_
    events,    \* notifications so far
    mainPc,    \* "work", "join" or "ended"
    misuse,    \* history: see Disciplined
    stale      \* history: address bytes were read that nobody kept

vars == <<at, job, waits, js, rounds, caller, emission, guard, stopped, running,
          events, mainPc, misuse, stale>>

Init ==
    /\ at = [t \in Threads |-> "out"]
    /\ job = [t \in Threads |-> NoJob]
    /\ waits = [t \in Threads |-> NoJob]
    /\ js = [j \in Jobs |-> "new"]
    /\ rounds = [r \in Requests |-> 0]
    /\ caller = [r \in Requests |-> NoCaller]
    /\ emission = [e \in Emissions |-> [by |-> NoThread, pos |-> 1]]
    /\ guard = TRUE /\ stopped = FALSE
    /\ running = FALSE /\ events = 0
    /\ mainPc = "work"
    /\ misuse = FALSE /\ stale = FALSE

Emitting(t) == \E e \in Emissions : emission[e].by = t /\ emission[e].pos <= Len(Policies)

\* Code of main() out of run(), before it joins.
InMain(t) == t = Main /\ at[t] = "out" /\ mainPc = "work"

\* A thread is in code of the user that may call the library.
InUserCode(t) ==
    /\ waits[t] = NoJob /\ ~Emitting(t)
    /\ InMain(t) \/ (at[t] = "exec" /\ job[t] \in Coros)

Idle == waits[Main] = NoJob /\ ~Emitting(Main) /\ InMain(Main)

\* What the examples and the test keep to: a call that waits is made out of run(),
\* with a thread in run() and the work guard held.
Disciplined(t) == InMain(t) /\ guard /\ ~stopped /\ \E u \in Runners : at[u] # "out"

-----------------------------------------------------------------------------
(* main() and the io_context. *)

\* std::jthread io_thread{... io.run() ...}.
StartRunner(u) ==
    /\ Idle /\ at[u] = "out" /\ ~stopped
    /\ at' = [at EXCEPT ![u] = "born"]
    /\ UNCHANGED <<job, waits, js, rounds, caller, emission, guard, stopped, running,
                   events, mainPc, misuse, stale>>

EnterRun(u) ==
    /\ at[u] = "born"
    /\ at' = [at EXCEPT ![u] = IF stopped THEN "out" ELSE "run"]
    /\ UNCHANGED <<job, waits, js, rounds, caller, emission, guard, stopped, running,
                   events, mainPc, misuse, stale>>

\* io.run() in main() itself.
RunHere ==
    /\ Idle /\ ~stopped
    /\ at' = [at EXCEPT ![Main] = "run"]
    /\ UNCHANGED <<job, waits, js, rounds, caller, emission, guard, stopped, running,
                   events, mainPc, misuse, stale>>

\* Work the io_context counts: jobs begun and not done.
Outstanding == {j \in Jobs : js[j] \notin {"new", "done"}}

\* run() returns when it is stopped or out of work, and the context is stopped.
RunReturns(t) ==
    /\ at[t] = "run"
    /\ stopped \/ (~guard /\ Outstanding = {})
    /\ at' = [at EXCEPT ![t] = "out"]
    /\ stopped' = TRUE
    /\ UNCHANGED <<job, waits, js, rounds, caller, emission, guard, running,
                   events, mainPc, misuse, stale>>

\* co_spawn(io, dump_*(), detached).  Without the work guard nobody may be left
\* to run it.
Spawn(c) ==
    /\ Idle /\ js[c] = "new"
    /\ js' = [js EXCEPT ![c] = "ready"]
    /\ misuse' = (misuse \/ ~guard \/ stopped)
    /\ UNCHANGED <<at, job, waits, rounds, caller, emission, guard, stopped, running,
                   events, mainPc, stale>>

\* work.reset().
ResetWork ==
    /\ Idle /\ guard
    /\ guard' = FALSE
    /\ UNCHANGED <<at, job, waits, js, rounds, caller, emission, stopped, running,
                   events, mainPc, misuse, stale>>

\* io.stop().
StopIo ==
    /\ Idle /\ ~stopped
    /\ stopped' = TRUE
    /\ UNCHANGED <<at, job, waits, js, rounds, caller, emission, guard, running,
                   events, mainPc, misuse, stale>>

\* io_thread.join().
Join ==
    /\ Idle
    /\ mainPc' = "join"
    /\ UNCHANGED <<at, job, waits, js, rounds, caller, emission, guard, stopped, running,
                   events, misuse, stale>>

\* join() returns; main() ends and destroys Control, Listener and io_context.
Leave ==
    /\ mainPc = "join"
    /\ \A u \in Runners : at[u] = "out"
    /\ mainPc' = "ended"
    /\ UNCHANGED <<at, job, waits, js, rounds, caller, emission, guard, stopped, running,
                   events, misuse, stale>>

-----------------------------------------------------------------------------
(* The two ways to call Control. *)

\* Mutant: future.get() is left out.
CallAndGoOn(t, r) ==
    /\ InUserCode(t) /\ js[r] = "new"
    /\ js' = [js EXCEPT ![r] = "ready"]
    /\ caller' = [caller EXCEPT ![r] = t]
    /\ misuse' = (misuse \/ ~Disciplined(t))
    /\ UNCHANGED <<at, job, waits, rounds, emission, guard, stopped, running,
                   events, mainPc, stale>>

\* dump_*, probe_neighbor, flush_neighbor, get_neighbor: co_spawn with
\* use_future, and get().
CallAndWait(t, r) ==
    /\ InUserCode(t) /\ js[r] = "new"
    /\ js' = [js EXCEPT ![r] = "ready"]
    /\ caller' = [caller EXCEPT ![r] = t]
    /\ waits' = [waits EXCEPT ![t] = r]
    /\ misuse' = (misuse \/ ~Disciplined(t))
    /\ UNCHANGED <<at, job, rounds, emission, guard, stopped, running,
                   events, mainPc, stale>>

\* co_await control.async_*(): the coroutine is suspended, the thread is free.
Await(t, r) ==
    /\ at[t] = "exec" /\ job[t] \in Coros /\ InUserCode(t) /\ js[r] = "new"
    /\ js' = [js EXCEPT ![r] = "ready", ![job[t]] = "await"]
    /\ caller' = [caller EXCEPT ![r] = job[t]]
    /\ at' = [at EXCEPT ![t] = "run"]
    /\ job' = [job EXCEPT ![t] = NoJob]
    /\ UNCHANGED <<waits, rounds, emission, guard, stopped, running,
                   events, mainPc, misuse, stale>>

\* future.get() returns; in an emission the combiner goes on to the next slot.
Resume(t) ==
    /\ waits[t] # NoJob /\ js[waits[t]] = "done"
    /\ waits' = [waits EXCEPT ![t] = NoJob]
    /\ emission' = [e \in Emissions |->
                       IF emission[e].by = t /\ <<e, emission[e].pos>> = waits[t]
                       THEN [emission[e] EXCEPT !.pos = @ + 1] ELSE emission[e]]
    /\ UNCHANGED <<at, job, js, rounds, caller, guard, stopped, running,
                   events, mainPc, misuse, stale>>

-----------------------------------------------------------------------------
(* Signal<R(Args...)> with a result: WaitAllCombiner calls the slots one by *)
(* one, as it dereferences its iterator.                                    *)

Emit(t, e) ==
    /\ InUserCode(t) /\ emission[e].by = NoThread
    /\ emission' = [emission EXCEPT ![e].by = t]
    /\ misuse' = (misuse \/ ~Disciplined(t))
    /\ UNCHANGED <<at, job, waits, js, rounds, caller, guard, stopped, running,
                   events, mainPc, stale>>

\* t is about to dereference the iterator in emission e.
AtSlot(t, e, policy) ==
    /\ emission[e].by = t /\ waits[t] = NoJob
    /\ emission[e].pos <= Len(Policies) /\ Policies[emission[e].pos] = policy

\* Mutant: the iterator is advanced twice.
CallSlotAndSkip(t, e) ==
    /\ AtSlot(t, e, "Sync")
    /\ emission' = [emission EXCEPT ![e].pos = @ + 2]
    /\ UNCHANGED <<at, job, waits, js, rounds, caller, guard, stopped, running,
                   events, mainPc, misuse, stale>>

CallSlot(t, e) ==
    /\ AtSlot(t, e, "Sync")
    /\ emission' = [emission EXCEPT ![e].pos = @ + 1]
    /\ UNCHANGED <<at, job, waits, js, rounds, caller, guard, stopped, running,
                   events, mainPc, misuse, stale>>

\* Mutant: the result of an Async slot is not waited for.
SpawnSlotOnly(t, e) ==
    /\ AtSlot(t, e, "Async")
    /\ js' = [js EXCEPT ![<<e, emission[e].pos>>] = "ready"]
    /\ emission' = [emission EXCEPT ![e].pos = @ + 1]
    /\ UNCHANGED <<at, job, waits, rounds, caller, guard, stopped, running,
                   events, mainPc, misuse, stale>>

\* co_spawn with use_future, and the combiner's get(); the post in the coroutine
\* only queues it once more.
SpawnSlot(t, e) ==
    /\ AtSlot(t, e, "Async")
    /\ js' = [js EXCEPT ![<<e, emission[e].pos>>] = "ready"]
    /\ waits' = [waits EXCEPT ![t] = <<e, emission[e].pos>>]
    /\ UNCHANGED <<at, job, rounds, caller, emission, guard, stopped, running,
                   events, mainPc, misuse, stale>>

-----------------------------------------------------------------------------
(* Handlers. *)

\* A free thread in run() takes a ready job; requests exclude each other (strand_).
Dispatch(t, j) ==
    /\ at[t] = "run" /\ js[j] = "ready" /\ ~stopped
    /\ j \in Requests => \A u \in Threads : job[u] \notin Requests
    /\ at' = [at EXCEPT ![t] = "exec"]
    /\ job' = [job EXCEPT ![t] = j]
    /\ js' = [js EXCEPT ![j] = "running"]
    /\ UNCHANGED <<waits, rounds, caller, emission, guard, stopped, running,
                   events, mainPc, misuse, stale>>

\* The handler of t returns.
Release(t) ==
    /\ at' = [at EXCEPT ![t] = "run"]
    /\ job' = [job EXCEPT ![t] = NoJob]

\* The caller of r is where it still holds what it passed.
CallerWaits(r) ==
    \/ caller[r] \in Threads /\ waits[caller[r]] = r
    \/ caller[r] \in Coros /\ js[caller[r]] = "await"

\* The coroutine of a request suspends: at the gate, then, with the task
\* constructed from the bytes of the caller, in a send or receive.
RequestSuspends(t) ==
    /\ job[t] \in Requests
    /\ rounds[job[t]] < MaxRounds
    /\ js' = [js EXCEPT ![job[t]] = "io"]
    /\ rounds' = [rounds EXCEPT ![job[t]] = @ + 1]
    /\ stale' = (stale \/ (rounds[job[t]] = 1 /\ job[t] \in Addressed /\ ~CallerWaits(job[t])))
    /\ Release(t)
    /\ UNCHANGED <<waits, caller, emission, guard, stopped, running, events, mainPc,
                   misuse>>

\* Mutant: the awaiting coroutine is not resumed.
RequestEndsQuietly(t) ==
    /\ job[t] \in Requests
    /\ rounds[job[t]] > 0
    /\ js' = [js EXCEPT ![job[t]] = "done"]
    /\ Release(t)
    /\ UNCHANGED <<waits, rounds, caller, emission, guard, stopped, running, events,
                   mainPc, misuse, stale>>

\* It returns: the future is set, or the awaiting coroutine is queued.
RequestEnds(t) ==
    /\ job[t] \in Requests
    /\ rounds[job[t]] > 0
    /\ js' = [j \in Jobs |-> IF j = job[t] THEN "done"
                             ELSE IF j = caller[job[t]] THEN "ready" ELSE js[j]]
    /\ Release(t)
    /\ UNCHANGED <<waits, rounds, caller, emission, guard, stopped, running, events,
                   mainPc, misuse, stale>>

\* A coroutine of the user, or a slot, returns.
UserReturns(t) ==
    /\ job[t] \in Coros \cup SlotCalls
    /\ waits[t] = NoJob /\ ~Emitting(t)
    /\ js' = [js EXCEPT ![job[t]] = "done"]
    /\ Release(t)
    /\ UNCHANGED <<waits, rounds, caller, emission, guard, stopped, running, events,
                   mainPc, misuse, stale>>

\* listener.start(), and the signal_set of the example: both wait for something
\* outside.
StartListener ==
    /\ Idle /\ js[Listen] = "new"
    /\ running' = TRUE
    /\ js' = [js EXCEPT ![Listen] = "io", ![Signals] = "io"]
    /\ misuse' = (misuse \/ ~guard \/ stopped)
    /\ UNCHANGED <<at, job, waits, rounds, caller, emission, guard, stopped, events,
                   mainPc, stale>>

\* handle_read: the next receive, unless stopped.
ListenerReads(t) ==
    /\ job[t] = Listen
    /\ js' = [js EXCEPT ![Listen] = IF running THEN "io" ELSE "done"]
    /\ Release(t)
    /\ UNCHANGED <<waits, rounds, caller, emission, guard, stopped, running, events,
                   mainPc, misuse, stale>>

\* Mutant: io.stop() in place of work.reset().
OnSignalStop(t) ==
    /\ job[t] = Signals
    /\ running' = FALSE
    /\ js' = [js EXCEPT ![Signals] = "done", ![Listen] = IF @ = "io" THEN "ready" ELSE @]
    /\ stopped' = TRUE
    /\ Release(t)
    /\ UNCHANGED <<waits, rounds, caller, emission, guard, events, mainPc, misuse, stale>>

\* SIGINT: listener.stop() aborts the receive, work.reset().  Between two slots
\* of an emission the guard is all that keeps run() from returning.
OnSignal(t) ==
    /\ job[t] = Signals
    /\ running' = FALSE
    /\ js' = [js EXCEPT ![Signals] = "done", ![Listen] = IF @ = "io" THEN "ready" ELSE @]
    /\ guard' = FALSE
    /\ misuse' = (misuse \/ (guard /\ Emitting(Main)))
    /\ Release(t)
    /\ UNCHANGED <<waits, rounds, caller, emission, stopped, events, mainPc, stale>>

\* The timer, the kernel or the user outside brings what a job waits for.
Arrives(j) ==
    /\ js[j] = "io"
    /\ j = Listen => events < MaxEvents
    /\ events' = IF j = Listen THEN events + 1 ELSE events
    /\ js' = [js EXCEPT ![j] = "ready"]
    /\ UNCHANGED <<at, job, waits, rounds, caller, emission, guard, stopped, running,
                   mainPc, misuse, stale>>

-----------------------------------------------------------------------------
\* What a thread does when it is not the user's choice.
ThreadStep(t) ==
    \/ EnterRun(t) \/ RunReturns(t) \/ Resume(t)
    \/ \E e \in Emissions : CallSlot(t, e) \/ SpawnSlot(t, e)
    \/ \E j \in Jobs : Dispatch(t, j)
    \/ RequestSuspends(t) \/ RequestEnds(t) \/ UserReturns(t) \/ ListenerReads(t) \/ OnSignal(t)

UserCall(t) ==
    \/ \E r \in Requests : CallAndWait(t, r) \/ Await(t, r)
    \/ \E e \in Emissions : Emit(t, e)

MainStep ==
    \/ \E u \in Runners : StartRunner(u)
    \/ \E c \in Coros : Spawn(c)
    \/ RunHere \/ StartListener \/ ResetWork \/ StopIo \/ Join \/ Leave

Next ==
    \/ \E t \in Threads : ThreadStep(t) \/ UserCall(t)
    \/ MainStep
    \/ \E j \in Jobs : Arrives(j)

\* Threads that can run do, handlers return, timers expire and the kernel
\* answers; nobody has to call, to interrupt or to notify.
Fairness ==
    /\ \A t \in Threads : WF_vars(ThreadStep(t))
    /\ \A r \in Requests : WF_vars(Arrives(r))
    /\ WF_vars(Leave)

Spec == Init /\ [][Next]_vars /\ Fairness

-----------------------------------------------------------------------------
(* Properties. *)

\* Every variable of the model keeps its type.
TypeOK ==
    /\ at \in [Threads -> {"out", "born", "run", "exec"}]
    /\ job \in [Threads -> Jobs \cup {NoJob}]
    /\ waits \in [Threads -> Jobs \cup {NoJob}]
    /\ js \in [Jobs -> {"new", "ready", "running", "io", "await", "done"}]
    /\ rounds \in [Requests -> 0..MaxRounds]
    /\ caller \in [Requests -> Threads \cup Coros \cup {NoCaller}]
    /\ emission \in [Emissions -> [by : Threads \cup {NoThread}, pos : 1..(Len(Policies) + 1)]]
    /\ \A b \in {guard, stopped, running, misuse, stale} : b \in BOOLEAN
    /\ events \in 0..MaxEvents
    /\ mainPc \in {"work", "join", "ended"}

Waiting(t) == waits[t] # NoJob /\ js[waits[t]] # "done"

\* Somebody waits, and every thread that could run handlers is out or waits too.
Stuck ==
    /\ \E t \in Threads : Waiting(t)
    /\ \A t \in Threads : at[t] = "out" \/ Waiting(t)

\* A blocking form of Control or an emission with Async slots that is made out of
\* run(), with a thread in run() and the work guard held, is never left with
\* nobody to serve it, whatever the coroutines, the listener and SIGINT do, unless
\* a coroutine itself blocks (future.get() in nl_control.cxx and nl_signal.hxx).
NeverStuck == Stuck => misuse

\* Whoever waits for a future gets it, and main() that joins comes to its end once
\* the guard is reset and the listener stopped, unless everybody waits for
\* everybody.
WaitsEnd ==
    /\ \A t \in Threads : Waiting(t) ~> ~Waiting(t) \/ Stuck
    /\ mainPc = "join" /\ ~guard /\ ~running ~> mainPc = "ended" \/ Stuck

\* Slots are called in the order of connection and one at a time: an Async slot
\* begins only when the ones before it are done, and emit returns when all are.
SlotsInTurn ==
    \A e \in Emissions, i \in DOMAIN Policies :
        <<e, i>> \in SlotCalls /\ js[<<e, i>>] # "done" =>
            /\ emission[e].pos <= i
            /\ \A k \in DOMAIN Policies : k > i /\ <<e, k>> \in SlotCalls => js[<<e, k>>] = "new"

\* The address bytes of a neighbour operation are read while its caller, blocked
\* or suspended, still keeps them (std::span in async_*_neighbor_impl).
CallerKeepsBytes == ~stale
=============================================================================
