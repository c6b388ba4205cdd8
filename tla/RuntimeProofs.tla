---------------------------- MODULE RuntimeProofs ----------------------------
(***************************************************************************)
(* Proofs about Runtime: for any threads, requests, coroutines, emissions  *)
(* and policies.                                                           *)
(***************************************************************************)
EXTENDS Runtime, TLAPS

-----------------------------------------------------------------------------
(* The parts of the inductive invariant. *)

\* A thread executes the handler of a job exactly when it is "exec"; the job is
\* running, and nobody else executes it.  SIGINT is waited for from the start of
\* the listener on.
ExecInv ==
    /\ \A t \in Threads :
          /\ at[t] = "exec" <=> job[t] # NoJob
          /\ job[t] # NoJob => js[job[t]] = "running"
          /\ \A u \in Threads : job[t] # NoJob /\ job[u] = job[t] => u = t
    /\ js[Listen] = "new" => js[Signals] = "new"

\* A future that is waited for belongs to a job that was begun; that of a slot
\* call, to the slot its emission is at.
FutureInv ==
    \A t \in Threads :
        /\ waits[t] # NoJob => js[waits[t]] # "new"
        /\ \A e \in Emissions, i \in DOMAIN Policies :
              <<e, i>> \in SlotCalls /\ waits[t] = <<e, i>> =>
                  emission[e].by = t /\ emission[e].pos = i

\* The slots before the current one are done, those behind it not begun, and
\* the current one is begun only when the emitting thread waits for it.
InTurn(e, i) ==
    /\ i < emission[e].pos => js[<<e, i>>] = "done"
    /\ i > emission[e].pos => js[<<e, i>>] = "new"
    /\ i = emission[e].pos /\ js[<<e, i>>] # "new" =>
          emission[e].by \in Threads /\ waits[emission[e].by] = <<e, i>>

SlotInv ==
    \A e \in Emissions, i \in DOMAIN Policies : <<e, i>> \in SlotCalls => InTurn(e, i)

Active(r) == js[r] \notin {"new", "done"}

\* The caller of a request under way waits for it, and a coroutine for one only.
CallerInv ==
    \A r \in Requests : Active(r) =>
        /\ CallerWaits(r)
        /\ \A q \in Requests : Active(q) /\ caller[q] = caller[r] => q = r

\* While nobody broke the rules, waits are made by main() out of run(), and there
\* is a thread for what it waits for; in an emission the guard keeps it there.
Served == ~stopped /\ \E u \in Runners : at[u] # "out"

DisciplineInv ==
    ~misuse =>
        /\ \A u \in Runners : waits[u] = NoJob /\ ~Emitting(u)
        /\ waits[Main] # NoJob \/ Emitting(Main) => at[Main] = "out"
        /\ Waiting(Main) => Served
        /\ Emitting(Main) => guard /\ Served

IInv ==
    /\ TypeOK /\ ExecInv /\ FutureInv /\ SlotInv /\ CallerInv
    /\ DisciplineInv /\ CallerKeepsBytes

\* The kinds of jobs.
LEMMA JobKinds ==
    /\ Requests \subseteq Jobs /\ Coros \subseteq Jobs /\ SlotCalls \subseteq Jobs
    /\ Listen \in Jobs /\ Signals \in Jobs
    /\ Main \in Threads /\ Runners \subseteq Threads
    /\ Len(Policies) \in Nat /\ DOMAIN Policies = 1..Len(Policies)
    /\ \A i \in DOMAIN Policies : Policies[i] \in {"Sync", "Async"}
    /\ \A e \in Emissions, i \in DOMAIN Policies :
          /\ <<e, i>> \in SlotCalls <=> Policies[i] = "Async"
          /\ <<e, i>> \notin Requests \cup Coros \cup {Listen, Signals}
BY RuntimeAssumption, KindsAssumption DEF Jobs, SlotCalls, Threads

\* Every step keeps the types.
LEMMA TypeStep == TypeOK /\ [Next]_vars => TypeOK'
<1> SUFFICES ASSUME TypeOK, [Next]_vars PROVE TypeOK'
  OBVIOUS
<1> USE JobKinds
<1>1. ASSUME NEW t \in Threads, EnterRun(t) PROVE TypeOK'
  BY <1>1 DEF EnterRun, TypeOK
<1>2. ASSUME NEW t \in Threads, RunReturns(t) PROVE TypeOK'
  BY <1>2 DEF RunReturns, TypeOK
<1>3. ASSUME NEW t \in Threads, Resume(t) PROVE TypeOK'
  <2>1. ASSUME NEW e \in Emissions, emission[e].by = t, <<e, emission[e].pos>> = waits[t]
        PROVE  emission[e].pos \in 1..Len(Policies)
    <3>1. waits[t] \in Jobs /\ emission[e].pos \in 1..(Len(Policies) + 1)
      BY <1>3 DEF Resume, TypeOK
    <3>2. <<e, emission[e].pos>> \in Emissions \X Nat
      BY <3>1
    <3>3. waits[t] \in SlotCalls
      BY <2>1, <3>1, <3>2, KindsAssumption DEF Jobs
    <3>4. <<e, emission[e].pos>> \in SlotCalls
      BY <2>1, <3>3
    <3> QED BY <3>4 DEF SlotCalls
  <2>2. ASSUME NEW e \in Emissions
        PROVE  emission'[e] \in [by : Threads \cup {NoThread}, pos : 1..(Len(Policies) + 1)]
    <3>1. emission[e] \in [by : Threads \cup {NoThread}, pos : 1..(Len(Policies) + 1)]
      BY DEF TypeOK
    <3>2. CASE emission[e].by = t /\ <<e, emission[e].pos>> = waits[t]
      <4>1. emission[e].pos + 1 \in 1..(Len(Policies) + 1)
        BY <2>1, <3>2
      <4>2. emission'[e] = [emission[e] EXCEPT !.pos = @ + 1]
        BY <1>3, <3>2 DEF Resume
      <4> QED BY <3>1, <4>1, <4>2
    <3>3. CASE ~(emission[e].by = t /\ <<e, emission[e].pos>> = waits[t])
      BY <1>3, <3>1, <3>3 DEF Resume
    <3> QED BY <3>2, <3>3
  <2>3. emission' \in [Emissions -> [by : Threads \cup {NoThread}, pos : 1..(Len(Policies) + 1)]]
    BY <1>3, <2>2 DEF Resume
  <2>4. waits' \in [Threads -> Jobs \cup {NoJob}]
    BY <1>3 DEF Resume, TypeOK
  <2> QED BY <1>3, <2>3, <2>4 DEF Resume, TypeOK
<1>4. ASSUME NEW t \in Threads, NEW e \in Emissions, CallSlot(t, e) PROVE TypeOK'
  <2>1. emission[e].pos + 1 \in 1..(Len(Policies) + 1)
    BY <1>4 DEF CallSlot, TypeOK, AtSlot
  <2>2. emission' \in [Emissions -> [by : Threads \cup {NoThread}, pos : 1..(Len(Policies) + 1)]]
    BY <1>4, <2>1 DEF CallSlot, TypeOK
  <2> QED BY <1>4, <2>2 DEF CallSlot, TypeOK
<1>5. ASSUME NEW t \in Threads, NEW e \in Emissions, SpawnSlot(t, e) PROVE TypeOK'
  BY <1>5 DEF SpawnSlot, TypeOK, AtSlot
<1>6. ASSUME NEW t \in Threads, NEW j \in Jobs, Dispatch(t, j) PROVE TypeOK'
  BY <1>6 DEF Dispatch, TypeOK
<1>7. ASSUME NEW t \in Threads, RequestSuspends(t) PROVE TypeOK'
  BY <1>7, RuntimeAssumption DEF RequestSuspends, TypeOK, Release
<1>8. ASSUME NEW t \in Threads, RequestEnds(t) PROVE TypeOK'
  BY <1>8 DEF RequestEnds, TypeOK, Release
<1>9. ASSUME NEW t \in Threads, UserReturns(t) PROVE TypeOK'
  BY <1>9 DEF UserReturns, TypeOK, Release
<1>10. ASSUME NEW t \in Threads, ListenerReads(t) PROVE TypeOK'
  BY <1>10 DEF ListenerReads, TypeOK, Release
<1>11. ASSUME NEW t \in Threads, OnSignal(t) PROVE TypeOK'
  BY <1>11 DEF OnSignal, TypeOK, Release
<1>12. ASSUME NEW t \in Threads, NEW r \in Requests, CallAndWait(t, r) PROVE TypeOK'
  BY <1>12 DEF CallAndWait, TypeOK
<1>13. ASSUME NEW t \in Threads, NEW r \in Requests, Await(t, r) PROVE TypeOK'
  BY <1>13 DEF Await, TypeOK
<1>14. ASSUME NEW t \in Threads, NEW e \in Emissions, Emit(t, e) PROVE TypeOK'
  <2>0. [emission[e] EXCEPT !.by = t] \in [by : Threads \cup {NoThread}, pos : 1..(Len(Policies) + 1)]
    BY DEF TypeOK
  <2>1. emission' \in [Emissions -> [by : Threads \cup {NoThread}, pos : 1..(Len(Policies) + 1)]]
    BY <1>14, <2>0 DEF Emit, TypeOK
  <2> QED BY <1>14, <2>1 DEF Emit, TypeOK
<1>15. ASSUME NEW u \in Runners, StartRunner(u) PROVE TypeOK'
  BY <1>15 DEF StartRunner, TypeOK
<1>16. ASSUME NEW c \in Coros, Spawn(c) PROVE TypeOK'
  BY <1>16 DEF Spawn, TypeOK
<1>17. ASSUME RunHere PROVE TypeOK'
  BY <1>17 DEF RunHere, TypeOK
<1>18. ASSUME StartListener PROVE TypeOK'
  BY <1>18 DEF StartListener, TypeOK
<1>19. ASSUME ResetWork PROVE TypeOK'
  BY <1>19 DEF ResetWork, TypeOK
<1>20. ASSUME StopIo PROVE TypeOK'
  BY <1>20 DEF StopIo, TypeOK
<1>21. ASSUME Join PROVE TypeOK'
  BY <1>21 DEF Join, TypeOK
<1>22. ASSUME Leave PROVE TypeOK'
  BY <1>22 DEF Leave, TypeOK
<1>23. ASSUME NEW j \in Jobs, Arrives(j) PROVE TypeOK'
  BY <1>23, RuntimeAssumption DEF Arrives, TypeOK
<1>24. ASSUME UNCHANGED vars PROVE TypeOK'
  BY <1>24 DEF vars, TypeOK
<1> QED
  BY <1>1, <1>2, <1>3, <1>4, <1>5, <1>6, <1>7, <1>8, <1>9, <1>10, <1>11, <1>12, <1>13, <1>14, <1>15, <1>16, <1>17, <1>18, <1>19, <1>20, <1>21, <1>22, <1>23, <1>24
     DEF Next, ThreadStep, UserCall, MainStep

\* The slot an emission comes to has not been called.
LEMMA SpawnedIsNew ==
    ASSUME TypeOK, SlotInv, NEW t \in Threads, NEW e \in Emissions, AtSlot(t, e, "Async")
    PROVE  /\ emission[e].pos \in DOMAIN Policies
           /\ <<e, emission[e].pos>> \in SlotCalls
           /\ js[<<e, emission[e].pos>>] = "new"
<1>1. emission[e].pos \in DOMAIN Policies /\ emission[e].by = t /\ waits[t] = NoJob
  BY JobKinds DEF TypeOK, AtSlot
<1>2. <<e, emission[e].pos>> \in SlotCalls
  BY <1>1, JobKinds DEF AtSlot
<1>3. <<e, emission[e].pos>> # NoJob
  BY <1>2, JobKinds, RuntimeAssumption
<1>4. js[<<e, emission[e].pos>>] # "new" => waits[t] = <<e, emission[e].pos>>
  BY <1>1, <1>2 DEF SlotInv, InTurn
<1> QED BY <1>1, <1>2, <1>3, <1>4

\* Whoever awaits a request under way is a coroutine that is suspended.
LEMMA AwaitingIsSuspended ==
    ASSUME CallerInv, NEW r \in Requests, Active(r), caller[r] \in Jobs
    PROVE  caller[r] \in Coros /\ js[caller[r]] = "await"
BY KindsAssumption DEF CallerInv, CallerWaits

\* Handlers are executed by one thread each.
LEMMA ExecStep == TypeOK /\ ExecInv /\ SlotInv /\ CallerInv /\ [Next]_vars => ExecInv'
<1> SUFFICES ASSUME TypeOK, ExecInv, SlotInv, CallerInv, [Next]_vars PROVE ExecInv'
  OBVIOUS
<1> USE JobKinds, RuntimeAssumption, KindsAssumption DEF TypeOK
<1>1. ASSUME NEW t \in Threads, EnterRun(t) PROVE ExecInv'
  BY <1>1 DEF EnterRun, ExecInv
<1>2. ASSUME NEW t \in Threads, RunReturns(t) PROVE ExecInv'
  BY <1>2 DEF RunReturns, ExecInv
<1>3. ASSUME NEW t \in Threads, Resume(t) PROVE ExecInv'
  BY <1>3 DEF Resume, ExecInv
<1>4. ASSUME NEW t \in Threads, NEW e \in Emissions, CallSlot(t, e) PROVE ExecInv'
  BY <1>4 DEF CallSlot, AtSlot, ExecInv
<1>5. ASSUME NEW t \in Threads, NEW e \in Emissions, SpawnSlot(t, e) PROVE ExecInv'
  <2> DEFINE new == <<e, emission[e].pos>>
  <2>1. new \in SlotCalls /\ js[new] = "new" /\ new \notin {Listen, Signals}
    BY <1>5, SpawnedIsNew DEF SpawnSlot
  <2>2. js' = [js EXCEPT ![new] = "ready"] /\ UNCHANGED <<at, job>>
    BY <1>5 DEF SpawnSlot
  <2> HIDE DEF new
  <2> QED BY <2>1, <2>2 DEF ExecInv
<1>6. ASSUME NEW t \in Threads, NEW j \in Jobs, Dispatch(t, j) PROVE ExecInv'
  BY <1>6 DEF Dispatch, ExecInv
<1>7. ASSUME NEW t \in Threads, RequestSuspends(t) PROVE ExecInv'
  BY <1>7 DEF RequestSuspends, Release, ExecInv
<1>8. ASSUME NEW t \in Threads, RequestEnds(t) PROVE ExecInv'
  <2>0. job[t] \in Requests /\ job[t] # NoJob
    BY <1>8 DEF RequestEnds
  <2>1. Active(job[t]) /\ job[t] \in Requests
    BY <2>0 DEF ExecInv, Active
  <2>2. caller[job[t]] \in Jobs => caller[job[t]] \in Coros /\ js[caller[job[t]]] = "await"
    BY <2>1, AwaitingIsSuspended
  <2> QED BY <1>8, <2>2 DEF RequestEnds, Release, ExecInv
<1>9. ASSUME NEW t \in Threads, UserReturns(t) PROVE ExecInv'
  BY <1>9 DEF UserReturns, Release, ExecInv
<1>10. ASSUME NEW t \in Threads, ListenerReads(t) PROVE ExecInv'
  BY <1>10 DEF ListenerReads, Release, ExecInv
<1>11. ASSUME NEW t \in Threads, OnSignal(t) PROVE ExecInv'
  BY <1>11 DEF OnSignal, Release, ExecInv
<1>12. ASSUME NEW t \in Threads, NEW r \in Requests, CallAndWait(t, r) PROVE ExecInv'
  BY <1>12 DEF CallAndWait, InUserCode, InMain, ExecInv
<1>13. ASSUME NEW t \in Threads, NEW r \in Requests, Await(t, r) PROVE ExecInv'
  BY <1>13 DEF Await, InUserCode, InMain, ExecInv
<1>14. ASSUME NEW t \in Threads, NEW e \in Emissions, Emit(t, e) PROVE ExecInv'
  BY <1>14 DEF Emit, InUserCode, InMain, ExecInv
<1>15. ASSUME NEW u \in Runners, StartRunner(u) PROVE ExecInv'
  BY <1>15 DEF StartRunner, Idle, InMain, ExecInv
<1>16. ASSUME NEW c \in Coros, Spawn(c) PROVE ExecInv'
  BY <1>16 DEF Spawn, Idle, InMain, ExecInv
<1>17. ASSUME RunHere PROVE ExecInv'
  BY <1>17 DEF RunHere, Idle, InMain, ExecInv
<1>18. ASSUME StartListener PROVE ExecInv'
  BY <1>18 DEF StartListener, Idle, InMain, ExecInv
<1>19. ASSUME ResetWork PROVE ExecInv'
  BY <1>19 DEF ResetWork, Idle, InMain, ExecInv
<1>20. ASSUME StopIo PROVE ExecInv'
  BY <1>20 DEF StopIo, Idle, InMain, ExecInv
<1>21. ASSUME Join PROVE ExecInv'
  BY <1>21 DEF Join, Idle, InMain, ExecInv
<1>22. ASSUME Leave PROVE ExecInv'
  BY <1>22 DEF Leave, ExecInv
<1>23. ASSUME NEW j \in Jobs, Arrives(j) PROVE ExecInv'
  BY <1>23 DEF Arrives, ExecInv
<1>24. ASSUME UNCHANGED vars PROVE ExecInv'
  BY <1>24 DEF vars, ExecInv
<1> QED
  BY <1>1, <1>2, <1>3, <1>4, <1>5, <1>6, <1>7, <1>8, <1>9, <1>10, <1>11, <1>12, <1>13, <1>14, <1>15, <1>16, <1>17, <1>18, <1>19, <1>20, <1>21, <1>22, <1>23, <1>24
     DEF Next, ThreadStep, UserCall, MainStep

\* Futures belong to begun jobs.
LEMMA FutureStep == TypeOK /\ ExecInv /\ FutureInv /\ SlotInv /\ [Next]_vars => FutureInv'
<1> SUFFICES ASSUME TypeOK, ExecInv, FutureInv, SlotInv, [Next]_vars PROVE FutureInv'
  OBVIOUS
<1> USE JobKinds, RuntimeAssumption, KindsAssumption DEF TypeOK
<1>1. ASSUME NEW t \in Threads, EnterRun(t) PROVE FutureInv'
  BY <1>1 DEF EnterRun, FutureInv
<1>2. ASSUME NEW t \in Threads, RunReturns(t) PROVE FutureInv'
  BY <1>2 DEF RunReturns, FutureInv
<1>3. ASSUME NEW t \in Threads, Resume(t) PROVE FutureInv'
  <2>1. waits' = [waits EXCEPT ![t] = NoJob] /\ UNCHANGED js
    BY <1>3 DEF Resume
  <2>2. ASSUME NEW e \in Emissions, emission[e].by # t PROVE emission'[e] = emission[e]
    BY <1>3, <2>2 DEF Resume
  <2>3. ASSUME NEW u \in Threads, NEW e \in Emissions, NEW i \in DOMAIN Policies,
               <<e, i>> \in SlotCalls, waits'[u] = <<e, i>>
        PROVE  emission'[e].by = u /\ emission'[e].pos = i
    <3>1. u # t /\ waits[u] = <<e, i>>
      BY <2>1, <2>3
    <3>2. emission[e].by = u /\ emission[e].pos = i
      BY <2>3, <3>1 DEF FutureInv
    <3> QED BY <2>2, <3>1, <3>2
  <2>4. ASSUME NEW u \in Threads, waits'[u] # NoJob PROVE js'[waits'[u]] # "new"
    BY <2>1, <2>4 DEF FutureInv
  <2> QED BY <2>3, <2>4 DEF FutureInv
<1>4. ASSUME NEW t \in Threads, NEW e \in Emissions, CallSlot(t, e) PROVE FutureInv'
  BY <1>4 DEF CallSlot, AtSlot, FutureInv
<1>5. ASSUME NEW t \in Threads, NEW e \in Emissions, SpawnSlot(t, e) PROVE FutureInv'
  <2>1. /\ js' = [js EXCEPT ![<<e, emission[e].pos>>] = "ready"]
        /\ waits' = [waits EXCEPT ![t] = <<e, emission[e].pos>>]
        /\ UNCHANGED emission /\ emission[e].by = t
    BY <1>5 DEF SpawnSlot, AtSlot
  <2>2. <<e, emission[e].pos>> \in Jobs
    BY <1>5, SpawnedIsNew DEF SpawnSlot
  <2>3. ASSUME NEW u \in Threads, waits'[u] # NoJob PROVE js'[waits'[u]] # "new"
    BY <2>1, <2>2, <2>3 DEF FutureInv
  <2>4. ASSUME NEW u \in Threads, NEW f \in Emissions, NEW i \in DOMAIN Policies,
               <<f, i>> \in SlotCalls, waits'[u] = <<f, i>>
        PROVE  emission'[f].by = u /\ emission'[f].pos = i
    <3>1. CASE u = t
      BY <2>1, <2>4, <3>1
    <3>2. CASE u # t
      BY <2>1, <2>4, <3>2 DEF FutureInv
    <3> QED BY <3>1, <3>2
  <2> QED BY <2>3, <2>4 DEF FutureInv
<1>6. ASSUME NEW t \in Threads, NEW j \in Jobs, Dispatch(t, j) PROVE FutureInv'
  BY <1>6 DEF Dispatch, FutureInv
<1>7. ASSUME NEW t \in Threads, RequestSuspends(t) PROVE FutureInv'
  BY <1>7 DEF RequestSuspends, Release, FutureInv
<1>8. ASSUME NEW t \in Threads, RequestEnds(t) PROVE FutureInv'
  BY <1>8 DEF RequestEnds, Release, FutureInv
<1>9. ASSUME NEW t \in Threads, UserReturns(t) PROVE FutureInv'
  BY <1>9 DEF UserReturns, Release, FutureInv
<1>10. ASSUME NEW t \in Threads, ListenerReads(t) PROVE FutureInv'
  BY <1>10 DEF ListenerReads, Release, FutureInv
<1>11. ASSUME NEW t \in Threads, OnSignal(t) PROVE FutureInv'
  BY <1>11 DEF OnSignal, Release, FutureInv
<1>12. ASSUME NEW t \in Threads, NEW r \in Requests, CallAndWait(t, r) PROVE FutureInv'
  <2>1. /\ js' = [js EXCEPT ![r] = "ready"] /\ waits' = [waits EXCEPT ![t] = r]
        /\ UNCHANGED emission
    BY <1>12 DEF CallAndWait
  <2>2. ASSUME NEW u \in Threads, waits'[u] # NoJob PROVE js'[waits'[u]] # "new"
    BY <2>1, <2>2 DEF FutureInv
  <2>3. ASSUME NEW u \in Threads, NEW e \in Emissions, NEW i \in DOMAIN Policies,
               <<e, i>> \in SlotCalls, waits'[u] = <<e, i>>
        PROVE  emission'[e].by = u /\ emission'[e].pos = i
    <3>1. <<e, i>> \notin Requests
      BY <2>3
    <3>2. u # t /\ waits[u] = <<e, i>>
      BY <2>1, <2>3, <3>1
    <3> QED BY <2>1, <2>3, <3>2 DEF FutureInv
  <2> QED BY <2>2, <2>3 DEF FutureInv
<1>13. ASSUME NEW t \in Threads, NEW r \in Requests, Await(t, r) PROVE FutureInv'
  BY <1>13 DEF Await, InUserCode, FutureInv
<1>14. ASSUME NEW t \in Threads, NEW e \in Emissions, Emit(t, e) PROVE FutureInv'
  BY <1>14 DEF Emit, InUserCode, FutureInv
<1>15. ASSUME NEW u \in Runners, StartRunner(u) PROVE FutureInv'
  BY <1>15 DEF StartRunner, FutureInv
<1>16. ASSUME NEW c \in Coros, Spawn(c) PROVE FutureInv'
  BY <1>16 DEF Spawn, FutureInv
<1>17. ASSUME RunHere PROVE FutureInv'
  BY <1>17 DEF RunHere, FutureInv
<1>18. ASSUME StartListener PROVE FutureInv'
  BY <1>18 DEF StartListener, FutureInv
<1>19. ASSUME ResetWork PROVE FutureInv'
  BY <1>19 DEF ResetWork, FutureInv
<1>20. ASSUME StopIo PROVE FutureInv'
  BY <1>20 DEF StopIo, FutureInv
<1>21. ASSUME Join PROVE FutureInv'
  BY <1>21 DEF Join, FutureInv
<1>22. ASSUME Leave PROVE FutureInv'
  BY <1>22 DEF Leave, FutureInv
<1>23. ASSUME NEW j \in Jobs, Arrives(j) PROVE FutureInv'
  BY <1>23 DEF Arrives, FutureInv
<1>24. ASSUME UNCHANGED vars PROVE FutureInv'
  BY <1>24 DEF vars, FutureInv
<1> QED
  BY <1>1, <1>2, <1>3, <1>4, <1>5, <1>6, <1>7, <1>8, <1>9, <1>10, <1>11, <1>12, <1>13, <1>14, <1>15, <1>16, <1>17, <1>18, <1>19, <1>20, <1>21, <1>22, <1>23, <1>24
     DEF Next, ThreadStep, UserCall, MainStep

\* Slots run in turn.
LEMMA SlotStep == TypeOK /\ ExecInv /\ FutureInv /\ SlotInv /\ CallerInv /\ [Next]_vars => SlotInv'
<1> SUFFICES ASSUME TypeOK, ExecInv, FutureInv, SlotInv, CallerInv, [Next]_vars PROVE SlotInv'
  OBVIOUS
<1> USE JobKinds, RuntimeAssumption, KindsAssumption DEF TypeOK
<1>1. ASSUME NEW t \in Threads, EnterRun(t) PROVE SlotInv'
  BY <1>1 DEF EnterRun, SlotInv, InTurn
<1>2. ASSUME NEW t \in Threads, RunReturns(t) PROVE SlotInv'
  BY <1>2 DEF RunReturns, SlotInv, InTurn
<1>3. ASSUME NEW t \in Threads, Resume(t) PROVE SlotInv'
  <2>1. /\ waits' = [waits EXCEPT ![t] = NoJob] /\ UNCHANGED js
        /\ waits[t] # NoJob /\ js[waits[t]] = "done"
    BY <1>3 DEF Resume
  <2>2. SUFFICES ASSUME NEW e \in Emissions, NEW i \in DOMAIN Policies, <<e, i>> \in SlotCalls
                 PROVE  InTurn(e, i)'
    BY DEF SlotInv
  <2>3. InTurn(e, i)
    BY <2>2 DEF SlotInv
  <2>4. CASE emission[e].by = t /\ <<e, emission[e].pos>> = waits[t]
    <3>1. emission'[e].pos = emission[e].pos + 1
      BY <1>3, <2>4 DEF Resume
    <3>2. js[<<e, i>>] = "done" \/ i # emission[e].pos
      BY <2>1, <2>4
    <3>3. i > emission'[e].pos => js[<<e, i>>] = "new"
      BY <2>3, <3>1 DEF InTurn
    <3>4. i < emission'[e].pos => js[<<e, i>>] = "done"
      BY <2>3, <3>1, <3>2 DEF InTurn
    <3>5. i = emission'[e].pos => js[<<e, i>>] = "new"
      BY <2>3, <3>1 DEF InTurn
    <3> QED BY <2>1, <3>3, <3>4, <3>5 DEF InTurn
  <2>5. CASE ~(emission[e].by = t /\ <<e, emission[e].pos>> = waits[t])
    <3>1. emission'[e] = emission[e]
      BY <1>3, <2>5 DEF Resume
    <3>2. i = emission[e].pos /\ js[<<e, i>>] # "new" => emission[e].by # t
      BY <2>3, <2>5 DEF InTurn
    <3> QED BY <2>1, <2>3, <3>1, <3>2 DEF InTurn
  <2> QED BY <2>4, <2>5
<1>4. ASSUME NEW t \in Threads, NEW e \in Emissions, CallSlot(t, e) PROVE SlotInv'
  BY <1>4 DEF CallSlot, AtSlot, SlotInv, InTurn
<1>5. ASSUME NEW t \in Threads, NEW e \in Emissions, SpawnSlot(t, e) PROVE SlotInv'
  <2>1. /\ js' = [js EXCEPT ![<<e, emission[e].pos>>] = "ready"]
        /\ waits' = [waits EXCEPT ![t] = <<e, emission[e].pos>>]
        /\ UNCHANGED emission /\ emission[e].by = t /\ waits[t] = NoJob
    BY <1>5 DEF SpawnSlot, AtSlot
  <2>2. SUFFICES ASSUME NEW f \in Emissions, NEW i \in DOMAIN Policies, <<f, i>> \in SlotCalls
                 PROVE  InTurn(f, i)'
    BY DEF SlotInv
  <2>3. InTurn(f, i) /\ <<f, i>> \in Jobs /\ <<f, i>> # NoJob
    BY <2>2 DEF SlotInv
  <2>4. CASE f = e /\ i = emission[e].pos
    BY <2>1, <2>3, <2>4 DEF InTurn
  <2>5. CASE ~(f = e /\ i = emission[e].pos)
    <3>1. <<f, i>> # <<e, emission[e].pos>>
      BY <2>5
    <3>2. js'[<<f, i>>] = js[<<f, i>>]
      BY <2>1, <2>3, <3>1
    <3>3. i = emission[f].pos /\ js[<<f, i>>] # "new" => waits'[emission[f].by] = <<f, i>>
      BY <2>1, <2>3 DEF InTurn
    <3> QED BY <2>1, <2>3, <3>2, <3>3 DEF InTurn
  <2> QED BY <2>4, <2>5
<1>6. ASSUME NEW t \in Threads, NEW j \in Jobs, Dispatch(t, j) PROVE SlotInv'
  BY <1>6 DEF Dispatch, SlotInv, InTurn
<1>7. ASSUME NEW t \in Threads, RequestSuspends(t) PROVE SlotInv'
  <2>1. /\ js' = [js EXCEPT ![job[t]] = "io"] /\ job[t] \in Requests
        /\ UNCHANGED <<emission, waits>>
    BY <1>7 DEF RequestSuspends
  <2>2. ASSUME NEW e \in Emissions, NEW i \in DOMAIN Policies, <<e, i>> \in SlotCalls
        PROVE  js'[<<e, i>>] = js[<<e, i>>]
    BY <2>1, <2>2
  <2> QED BY <2>1, <2>2 DEF SlotInv, InTurn
<1>8. ASSUME NEW t \in Threads, RequestEnds(t) PROVE SlotInv'
  BY <1>8 DEF RequestEnds, Release, SlotInv, InTurn
<1>9. ASSUME NEW t \in Threads, UserReturns(t) PROVE SlotInv'
  <2>1. /\ js' = [js EXCEPT ![job[t]] = "done"] /\ job[t] \in Coros \cup SlotCalls
        /\ UNCHANGED <<emission, waits>> /\ js[job[t]] = "running"
    BY <1>9 DEF UserReturns, ExecInv
  <2> QED BY <2>1 DEF SlotInv, InTurn
<1>10. ASSUME NEW t \in Threads, ListenerReads(t) PROVE SlotInv'
  BY <1>10 DEF ListenerReads, Release, SlotInv, InTurn
<1>11. ASSUME NEW t \in Threads, OnSignal(t) PROVE SlotInv'
  BY <1>11 DEF OnSignal, Release, SlotInv, InTurn
<1>12. ASSUME NEW t \in Threads, NEW r \in Requests, CallAndWait(t, r) PROVE SlotInv'
  <2>1. /\ js' = [js EXCEPT ![r] = "ready"] /\ waits' = [waits EXCEPT ![t] = r]
        /\ UNCHANGED emission /\ waits[t] = NoJob
    BY <1>12 DEF CallAndWait, InUserCode
  <2>2. SUFFICES ASSUME NEW e \in Emissions, NEW i \in DOMAIN Policies, <<e, i>> \in SlotCalls
                 PROVE  InTurn(e, i)'
    BY DEF SlotInv
  <2>3. InTurn(e, i) /\ <<e, i>> # r /\ <<e, i>> # NoJob
    BY <2>2 DEF SlotInv
  <2> QED BY <2>1, <2>2, <2>3 DEF InTurn
<1>13. ASSUME NEW t \in Threads, NEW r \in Requests, Await(t, r) PROVE SlotInv'
  BY <1>13 DEF Await, InUserCode, SlotInv, InTurn
<1>14. ASSUME NEW t \in Threads, NEW e \in Emissions, Emit(t, e) PROVE SlotInv'
  BY <1>14 DEF Emit, InUserCode, SlotInv, InTurn
<1>15. ASSUME NEW u \in Runners, StartRunner(u) PROVE SlotInv'
  BY <1>15 DEF StartRunner, SlotInv, InTurn
<1>16. ASSUME NEW c \in Coros, Spawn(c) PROVE SlotInv'
  BY <1>16 DEF Spawn, SlotInv, InTurn
<1>17. ASSUME RunHere PROVE SlotInv'
  BY <1>17 DEF RunHere, SlotInv, InTurn
<1>18. ASSUME StartListener PROVE SlotInv'
  BY <1>18 DEF StartListener, SlotInv, InTurn
<1>19. ASSUME ResetWork PROVE SlotInv'
  BY <1>19 DEF ResetWork, SlotInv, InTurn
<1>20. ASSUME StopIo PROVE SlotInv'
  BY <1>20 DEF StopIo, SlotInv, InTurn
<1>21. ASSUME Join PROVE SlotInv'
  BY <1>21 DEF Join, SlotInv, InTurn
<1>22. ASSUME Leave PROVE SlotInv'
  BY <1>22 DEF Leave, SlotInv, InTurn
<1>23. ASSUME NEW j \in Jobs, Arrives(j) PROVE SlotInv'
  BY <1>23 DEF Arrives, SlotInv, InTurn
<1>24. ASSUME UNCHANGED vars PROVE SlotInv'
  BY <1>24 DEF vars, SlotInv, InTurn
<1> QED
  BY <1>1, <1>2, <1>3, <1>4, <1>5, <1>6, <1>7, <1>8, <1>9, <1>10, <1>11, <1>12, <1>13, <1>14, <1>15, <1>16, <1>17, <1>18, <1>19, <1>20, <1>21, <1>22, <1>23, <1>24
     DEF Next, ThreadStep, UserCall, MainStep

\* Callers wait for what they called.
LEMMA CallerStep == TypeOK /\ ExecInv /\ SlotInv /\ CallerInv /\ [Next]_vars => CallerInv'
<1> SUFFICES ASSUME TypeOK, ExecInv, SlotInv, CallerInv, [Next]_vars PROVE CallerInv'
  OBVIOUS
<1> USE JobKinds, RuntimeAssumption, KindsAssumption DEF TypeOK
<1>1. ASSUME NEW t \in Threads, EnterRun(t) PROVE CallerInv'
  BY <1>1 DEF EnterRun, CallerInv, CallerWaits, Active
<1>2. ASSUME NEW t \in Threads, RunReturns(t) PROVE CallerInv'
  BY <1>2 DEF RunReturns, CallerInv, CallerWaits, Active
<1>3. ASSUME NEW t \in Threads, Resume(t) PROVE CallerInv'
  BY <1>3 DEF Resume, CallerInv, CallerWaits, Active
<1>4. ASSUME NEW t \in Threads, NEW e \in Emissions, CallSlot(t, e) PROVE CallerInv'
  BY <1>4 DEF CallSlot, AtSlot, CallerInv, CallerWaits, Active
<1>5. ASSUME NEW t \in Threads, NEW e \in Emissions, SpawnSlot(t, e) PROVE CallerInv'
  <2>1. /\ js' = [js EXCEPT ![<<e, emission[e].pos>>] = "ready"]
        /\ waits' = [waits EXCEPT ![t] = <<e, emission[e].pos>>]
        /\ UNCHANGED caller /\ waits[t] = NoJob
    BY <1>5 DEF SpawnSlot, AtSlot
  <2>2. <<e, emission[e].pos>> \notin Requests \cup Coros
    BY <1>5, SpawnedIsNew DEF SpawnSlot
  <2>3. \A j \in Requests \cup Coros : js'[j] = js[j]
    BY <2>1, <2>2
  <2> QED BY <2>1, <2>3 DEF CallerInv, CallerWaits, Active
<1>6. ASSUME NEW t \in Threads, NEW j \in Jobs, Dispatch(t, j) PROVE CallerInv'
  BY <1>6 DEF Dispatch, CallerInv, CallerWaits, Active
<1>7. ASSUME NEW t \in Threads, RequestSuspends(t) PROVE CallerInv'
  <2>1. /\ js' = [js EXCEPT ![job[t]] = "io"] /\ job[t] \in Requests
        /\ js[job[t]] = "running" /\ UNCHANGED <<caller, waits>>
    BY <1>7 DEF RequestSuspends, ExecInv
  <2>2. \A c \in Coros : js'[c] = js[c]
    BY <2>1
  <2>3. \A r \in Requests : Active(r)' => Active(r)
    BY <2>1 DEF Active
  <2> QED BY <2>1, <2>2, <2>3 DEF CallerInv, CallerWaits
<1>8. ASSUME NEW t \in Threads, RequestEnds(t) PROVE CallerInv'
  <2>1. /\ js' = [j \in Jobs |-> IF j = job[t] THEN "done"
                                ELSE IF j = caller[job[t]] THEN "ready" ELSE js[j]]
        /\ job[t] \in Requests /\ js[job[t]] = "running" /\ UNCHANGED <<caller, waits>>
    BY <1>8 DEF RequestEnds, ExecInv
  <2>2. Active(job[t])
    BY <2>1 DEF Active
  <2>3. caller[job[t]] \notin Requests
    BY <2>1, <2>2, AwaitingIsSuspended
  <2>4. \A r \in Requests : Active(r)' => Active(r) /\ r # job[t]
    BY <2>1, <2>3 DEF Active
  <2>5. \A r \in Requests : Active(r)' => caller[r] # caller[job[t]]
    BY <2>1, <2>2, <2>4 DEF CallerInv
  <2>6. \A r \in Requests : Active(r)' /\ caller[r] \in Coros => js'[caller[r]] = js[caller[r]]
    BY <2>1, <2>5
  <2> QED BY <2>1, <2>4, <2>6 DEF CallerInv, CallerWaits
<1>9. ASSUME NEW t \in Threads, UserReturns(t) PROVE CallerInv'
  <2>1. /\ js' = [js EXCEPT ![job[t]] = "done"] /\ job[t] \in Coros \cup SlotCalls
        /\ js[job[t]] = "running" /\ UNCHANGED <<caller, waits>>
    BY <1>9 DEF UserReturns, ExecInv
  <2>2. \A r \in Requests : js'[r] = js[r]
    BY <2>1 DEF SlotCalls
  <2>3. \A c \in Coros : js[c] = "await" => js'[c] = js[c]
    BY <2>1
  <2> QED BY <2>1, <2>2, <2>3 DEF CallerInv, CallerWaits, Active
<1>10. ASSUME NEW t \in Threads, ListenerReads(t) PROVE CallerInv'
  BY <1>10 DEF ListenerReads, Release, CallerInv, CallerWaits, Active
<1>11. ASSUME NEW t \in Threads, OnSignal(t) PROVE CallerInv'
  BY <1>11 DEF OnSignal, Release, CallerInv, CallerWaits, Active
<1>12. ASSUME NEW t \in Threads, NEW r \in Requests, CallAndWait(t, r) PROVE CallerInv'
  BY <1>12 DEF CallAndWait, InUserCode, CallerInv, CallerWaits, Active
<1>13. ASSUME NEW t \in Threads, NEW r \in Requests, Await(t, r) PROVE CallerInv'
  <2> DEFINE c == job[t]
  <2>1. /\ js' = [js EXCEPT ![r] = "ready", ![c] = "await"] /\ c \in Coros
        /\ caller' = [caller EXCEPT ![r] = c] /\ UNCHANGED waits
        /\ js[c] = "running" /\ js[r] = "new"
    BY <1>13 DEF Await, ExecInv
  <2> HIDE DEF c
  <2>2. ASSUME NEW q \in Requests, Active(q)'
        PROVE  q = r \/ (Active(q) /\ caller'[q] = caller[q])
    <3>1. q # c
      BY <2>1
    <3> QED BY <2>1, <2>2, <3>1 DEF Active
  <2>3. \A q \in Requests : Active(q) => caller[q] # c
    BY <2>1 DEF CallerInv, CallerWaits
  <2>4. \A q \in Requests : Active(q)' => CallerWaits(q)'
    BY <2>1, <2>2, <2>3 DEF CallerInv, CallerWaits
  <2>5. \A q, p \in Requests : Active(q)' /\ Active(p)' /\ caller'[q] = caller'[p] => q = p
    BY <2>1, <2>2, <2>3 DEF CallerInv
  <2> QED BY <2>4, <2>5 DEF CallerInv
<1>14. ASSUME NEW t \in Threads, NEW e \in Emissions, Emit(t, e) PROVE CallerInv'
  BY <1>14 DEF Emit, InUserCode, CallerInv, CallerWaits, Active
<1>15. ASSUME NEW u \in Runners, StartRunner(u) PROVE CallerInv'
  BY <1>15 DEF StartRunner, CallerInv, CallerWaits, Active
<1>16. ASSUME NEW c \in Coros, Spawn(c) PROVE CallerInv'
  BY <1>16 DEF Spawn, CallerInv, CallerWaits, Active
<1>17. ASSUME RunHere PROVE CallerInv'
  BY <1>17 DEF RunHere, CallerInv, CallerWaits, Active
<1>18. ASSUME StartListener PROVE CallerInv'
  BY <1>18 DEF StartListener, CallerInv, CallerWaits, Active
<1>19. ASSUME ResetWork PROVE CallerInv'
  BY <1>19 DEF ResetWork, CallerInv, CallerWaits, Active
<1>20. ASSUME StopIo PROVE CallerInv'
  BY <1>20 DEF StopIo, CallerInv, CallerWaits, Active
<1>21. ASSUME Join PROVE CallerInv'
  BY <1>21 DEF Join, CallerInv, CallerWaits, Active
<1>22. ASSUME Leave PROVE CallerInv'
  BY <1>22 DEF Leave, CallerInv, CallerWaits, Active
<1>23. ASSUME NEW j \in Jobs, Arrives(j) PROVE CallerInv'
  BY <1>23 DEF Arrives, CallerInv, CallerWaits, Active
<1>24. ASSUME UNCHANGED vars PROVE CallerInv'
  BY <1>24 DEF vars, CallerInv, CallerWaits, Active
<1> QED
  BY <1>1, <1>2, <1>3, <1>4, <1>5, <1>6, <1>7, <1>8, <1>9, <1>10, <1>11, <1>12, <1>13, <1>14, <1>15, <1>16, <1>17, <1>18, <1>19, <1>20, <1>21, <1>22, <1>23, <1>24
     DEF Next, ThreadStep, UserCall, MainStep

\* A step that lets no thread in or out, and takes no future back, keeps the
\* discipline.
LEMMA DisciplineFrame ==
    ASSUME TypeOK, DisciplineInv, UNCHANGED <<waits, emission, stopped>>,
           ~misuse' => ~misuse /\ (Emitting(Main) => guard' = guard),
           \A u \in Threads : at'[u] = "out" <=> at[u] = "out",
           \A u \in Threads : waits[u] # NoJob /\ js[waits[u]] = "done" => js'[waits[u]] = "done"
    PROVE  DisciplineInv'
<1> SUFFICES ASSUME ~misuse' PROVE DisciplineInv'
  BY DEF DisciplineInv
<1>1. Served' = Served
  BY JobKinds DEF Served
<1>2. Waiting(Main)' => Waiting(Main)
  BY JobKinds DEF Waiting
<1>3. \A u \in Threads : Emitting(u)' = Emitting(u)
  BY DEF Emitting
<1> QED BY <1>1, <1>2, <1>3, JobKinds DEF DisciplineInv

\* The job that is executed is outstanding.
LEMMA ExecutedIsLeft ==
    ASSUME TypeOK, ExecInv, NEW t \in Threads, job[t] \in Jobs
    PROVE  js[job[t]] = "running" /\ at[t] = "exec" /\ Outstanding # {}
<1>1. job[t] # NoJob
  BY RuntimeAssumption
<1>2. js[job[t]] = "running" /\ at[t] = "exec"
  BY <1>1 DEF ExecInv
<1> QED BY <1>2 DEF Outstanding

\* Who waits is served.
LEMMA DisciplineStep ==
    TypeOK /\ ExecInv /\ FutureInv /\ SlotInv /\ CallerInv /\ DisciplineInv /\ [Next]_vars => DisciplineInv'
<1> SUFFICES ASSUME TypeOK, ExecInv, FutureInv, SlotInv, CallerInv, DisciplineInv, [Next]_vars PROVE DisciplineInv'
  OBVIOUS
<1> USE JobKinds, RuntimeAssumption, KindsAssumption DEF TypeOK
<1>1. ASSUME NEW t \in Threads, EnterRun(t) PROVE DisciplineInv'
  BY <1>1 DEF EnterRun, DisciplineInv, Served, Waiting, Emitting
<1>2. ASSUME NEW t \in Threads, RunReturns(t) PROVE DisciplineInv'
  <2>1. /\ UNCHANGED <<js, waits, emission, guard, misuse>> /\ at[t] = "run"
        /\ at' = [at EXCEPT ![t] = "out"] /\ stopped' = TRUE
        /\ stopped \/ (~guard /\ Outstanding = {})
    BY <1>2 DEF RunReturns
  <2>2. SUFFICES ASSUME ~misuse' PROVE DisciplineInv'
    BY DEF DisciplineInv
  <2>3. ~Emitting(Main)
    BY <2>1, <2>2 DEF DisciplineInv, Served
  <2>4. ~Waiting(Main)
    BY <2>1, <2>2 DEF DisciplineInv, Served, Waiting, FutureInv, Outstanding
  <2>5. ~Emitting(Main)' /\ ~Waiting(Main)' /\ \A u \in Runners : waits'[u] = NoJob /\ ~Emitting(u)'
    BY <2>1, <2>2, <2>3, <2>4 DEF DisciplineInv, Emitting, Waiting
  <2>6. waits[Main] # NoJob => at'[Main] = "out"
    BY <2>1, <2>2 DEF DisciplineInv
  <2> QED BY <2>1, <2>5, <2>6 DEF DisciplineInv
<1>3. ASSUME NEW t \in Threads, Resume(t) PROVE DisciplineInv'
  BY <1>3 DEF Resume, DisciplineInv, Served, Waiting, Emitting
<1>4. ASSUME NEW t \in Threads, NEW e \in Emissions, CallSlot(t, e) PROVE DisciplineInv'
  BY <1>4 DEF CallSlot, AtSlot, DisciplineInv, Served, Waiting, Emitting
<1>5. ASSUME NEW t \in Threads, NEW e \in Emissions, SpawnSlot(t, e) PROVE DisciplineInv'
  <2>1. /\ UNCHANGED <<at, emission, guard, misuse, stopped>> /\ Emitting(t)
        /\ waits' = [waits EXCEPT ![t] = <<e, emission[e].pos>>]
    BY <1>5 DEF SpawnSlot, AtSlot, Emitting
  <2>2. SUFFICES ASSUME ~misuse' PROVE DisciplineInv'
    BY DEF DisciplineInv
  <2>3. t = Main /\ Emitting(Main) /\ guard /\ Served /\ at[Main] = "out"
    BY <2>1, <2>2 DEF DisciplineInv, Threads
  <2>4. Served' /\ \A u \in Threads : Emitting(u)' = Emitting(u)
    BY <2>1, <2>3 DEF Served, Emitting
  <2> QED BY <2>1, <2>2, <2>3, <2>4 DEF DisciplineInv
<1>6. ASSUME NEW t \in Threads, NEW j \in Jobs, Dispatch(t, j) PROVE DisciplineInv'
  BY <1>6 DEF Dispatch, DisciplineInv, Served, Waiting, Emitting
<1>7. ASSUME NEW t \in Threads, RequestSuspends(t) PROVE DisciplineInv'
  <2>1. job[t] \in Requests /\ js[job[t]] = "running" /\ at[t] = "exec"
    BY <1>7, ExecutedIsLeft DEF RequestSuspends
  <2>2. \A u \in Threads : waits[u] # NoJob /\ js[waits[u]] = "done" => js'[waits[u]] = "done"
    BY <1>7, <2>1 DEF RequestSuspends
  <2> QED BY <1>7, <2>1, <2>2, DisciplineFrame DEF RequestSuspends, Release
<1>8. ASSUME NEW t \in Threads, RequestEnds(t) PROVE DisciplineInv'
  <2>1. job[t] \in Requests /\ js[job[t]] = "running" /\ at[t] = "exec" /\ Active(job[t])
    BY <1>8, ExecutedIsLeft DEF RequestEnds, Active
  <2>2. caller[job[t]] \in Jobs => js[caller[job[t]]] = "await"
    BY <2>1, AwaitingIsSuspended
  <2>3. \A u \in Threads : waits[u] # NoJob /\ js[waits[u]] = "done" => js'[waits[u]] = "done"
    BY <1>8, <2>1, <2>2 DEF RequestEnds
  <2> QED BY <1>8, <2>1, <2>3, DisciplineFrame DEF RequestEnds, Release
<1>9. ASSUME NEW t \in Threads, UserReturns(t) PROVE DisciplineInv'
  BY <1>9 DEF UserReturns, Release, DisciplineInv, Served, Waiting, Emitting
<1>10. ASSUME NEW t \in Threads, ListenerReads(t) PROVE DisciplineInv'
  <2>1. job[t] = Listen /\ js[Listen] = "running" /\ at[t] = "exec"
    BY <1>10, ExecutedIsLeft DEF ListenerReads
  <2>2. \A u \in Threads : waits[u] # NoJob /\ js[waits[u]] = "done" => js'[waits[u]] = "done"
    BY <1>10, <2>1 DEF ListenerReads
  <2> QED BY <1>10, <2>1, <2>2, DisciplineFrame DEF ListenerReads, Release
<1>11. ASSUME NEW t \in Threads, OnSignal(t) PROVE DisciplineInv'
  <2>1. job[t] = Signals /\ js[Signals] = "running" /\ at[t] = "exec"
    BY <1>11, ExecutedIsLeft DEF OnSignal
  <2>2. \A u \in Threads : waits[u] # NoJob /\ js[waits[u]] = "done" => js'[waits[u]] = "done"
    BY <1>11, <2>1 DEF OnSignal
  <2>3. ~misuse' => ~misuse /\ (Emitting(Main) => guard' = guard)
    BY <1>11 DEF OnSignal
  <2> QED BY <1>11, <2>1, <2>2, <2>3, DisciplineFrame DEF OnSignal, Release
<1>12. ASSUME NEW t \in Threads, NEW r \in Requests, CallAndWait(t, r) PROVE DisciplineInv'
  BY <1>12 DEF CallAndWait, InUserCode, InMain, DisciplineInv, Served, Waiting, Emitting, Disciplined
<1>13. ASSUME NEW t \in Threads, NEW r \in Requests, Await(t, r) PROVE DisciplineInv'
  <2>1. job[t] \in Coros /\ js[job[t]] = "running" /\ at[t] = "exec" /\ js[r] = "new"
    BY <1>13, ExecutedIsLeft DEF Await
  <2>2. \A u \in Threads : waits[u] # NoJob /\ js[waits[u]] = "done" => js'[waits[u]] = "done"
    BY <1>13, <2>1 DEF Await
  <2> QED BY <1>13, <2>1, <2>2, DisciplineFrame DEF Await
<1>14. ASSUME NEW t \in Threads, NEW e \in Emissions, Emit(t, e) PROVE DisciplineInv'
  <2>1. /\ UNCHANGED <<at, js, waits, guard, stopped>>
        /\ emission' = [emission EXCEPT ![e].by = t] /\ waits[t] = NoJob
        /\ ~misuse' => ~misuse /\ Disciplined(t)
    BY <1>14 DEF Emit, InUserCode
  <2>2. SUFFICES ASSUME ~misuse' PROVE DisciplineInv'
    BY DEF DisciplineInv
  <2>3. t = Main /\ at[Main] = "out" /\ guard /\ Served
    BY <2>1, <2>2 DEF Disciplined, InMain, Served
  <2>4. Served' /\ Waiting(Main)' = Waiting(Main)
    BY <2>1, <2>3 DEF Served, Waiting
  <2>5. ASSUME NEW u \in Runners PROVE ~Emitting(u)'
    <3>1. u # t /\ ~Emitting(u)
      BY <2>1, <2>2, <2>3 DEF DisciplineInv
    <3>2. ASSUME NEW f \in Emissions, emission'[f].by = u PROVE emission'[f] = emission[f]
      BY <2>1, <3>1, <3>2
    <3> QED BY <3>1, <3>2 DEF Emitting
  <2> QED BY <2>1, <2>2, <2>3, <2>4, <2>5 DEF DisciplineInv
<1>15. ASSUME NEW u \in Runners, StartRunner(u) PROVE DisciplineInv'
  BY <1>15 DEF StartRunner, InMain, Idle, DisciplineInv, Served, Waiting, Emitting
<1>16. ASSUME NEW c \in Coros, Spawn(c) PROVE DisciplineInv'
  BY <1>16 DEF Spawn, InMain, Idle, DisciplineInv, Served, Waiting, Emitting
<1>17. ASSUME RunHere PROVE DisciplineInv'
  BY <1>17 DEF RunHere, InMain, Idle, DisciplineInv, Served, Waiting, Emitting
<1>18. ASSUME StartListener PROVE DisciplineInv'
  BY <1>18 DEF StartListener, InMain, Idle, DisciplineInv, Served, Waiting, Emitting
<1>19. ASSUME ResetWork PROVE DisciplineInv'
  BY <1>19 DEF ResetWork, InMain, Idle, DisciplineInv, Served, Waiting, Emitting
<1>20. ASSUME StopIo PROVE DisciplineInv'
  BY <1>20 DEF StopIo, InMain, Idle, DisciplineInv, Served, Waiting, Emitting
<1>21. ASSUME Join PROVE DisciplineInv'
  BY <1>21 DEF Join, InMain, Idle, DisciplineInv, Served, Waiting, Emitting
<1>22. ASSUME Leave PROVE DisciplineInv'
  BY <1>22 DEF Leave, DisciplineInv, Served, Waiting, Emitting
<1>23. ASSUME NEW j \in Jobs, Arrives(j) PROVE DisciplineInv'
  BY <1>23 DEF Arrives, DisciplineInv, Served, Waiting, Emitting
<1>24. ASSUME UNCHANGED vars PROVE DisciplineInv'
  BY <1>24 DEF vars, DisciplineInv, Served, Waiting, Emitting
<1> QED
  BY <1>1, <1>2, <1>3, <1>4, <1>5, <1>6, <1>7, <1>8, <1>9, <1>10, <1>11, <1>12, <1>13, <1>14, <1>15, <1>16, <1>17, <1>18, <1>19, <1>20, <1>21, <1>22, <1>23, <1>24
     DEF Next, ThreadStep, UserCall, MainStep

\* The bytes are read while the caller waits.
LEMMA BytesStep == TypeOK /\ ExecInv /\ CallerInv /\ CallerKeepsBytes /\ [Next]_vars => CallerKeepsBytes'
<1> SUFFICES ASSUME TypeOK, ExecInv, CallerInv, CallerKeepsBytes, [Next]_vars PROVE CallerKeepsBytes'
  OBVIOUS
<1> USE JobKinds, RuntimeAssumption, KindsAssumption DEF TypeOK
<1>1. ASSUME NEW t \in Threads, EnterRun(t) PROVE CallerKeepsBytes'
  BY <1>1 DEF EnterRun, CallerKeepsBytes
<1>2. ASSUME NEW t \in Threads, RunReturns(t) PROVE CallerKeepsBytes'
  BY <1>2 DEF RunReturns, CallerKeepsBytes
<1>3. ASSUME NEW t \in Threads, Resume(t) PROVE CallerKeepsBytes'
  BY <1>3 DEF Resume, CallerKeepsBytes
<1>4. ASSUME NEW t \in Threads, NEW e \in Emissions, CallSlot(t, e) PROVE CallerKeepsBytes'
  BY <1>4 DEF CallSlot, CallerKeepsBytes
<1>5. ASSUME NEW t \in Threads, NEW e \in Emissions, SpawnSlot(t, e) PROVE CallerKeepsBytes'
  BY <1>5 DEF SpawnSlot, CallerKeepsBytes
<1>6. ASSUME NEW t \in Threads, NEW j \in Jobs, Dispatch(t, j) PROVE CallerKeepsBytes'
  BY <1>6 DEF Dispatch, CallerKeepsBytes
<1>7. ASSUME NEW t \in Threads, RequestSuspends(t) PROVE CallerKeepsBytes'
  <2>1. job[t] \in Requests /\ Active(job[t])
    BY <1>7, ExecutedIsLeft DEF RequestSuspends, Active
  <2>2. CallerWaits(job[t])
    BY <2>1 DEF CallerInv
  <2> QED BY <1>7, <2>2 DEF RequestSuspends, CallerKeepsBytes
<1>8. ASSUME NEW t \in Threads, RequestEnds(t) PROVE CallerKeepsBytes'
  BY <1>8 DEF RequestEnds, Release, CallerKeepsBytes
<1>9. ASSUME NEW t \in Threads, UserReturns(t) PROVE CallerKeepsBytes'
  BY <1>9 DEF UserReturns, Release, CallerKeepsBytes
<1>10. ASSUME NEW t \in Threads, ListenerReads(t) PROVE CallerKeepsBytes'
  BY <1>10 DEF ListenerReads, Release, CallerKeepsBytes
<1>11. ASSUME NEW t \in Threads, OnSignal(t) PROVE CallerKeepsBytes'
  BY <1>11 DEF OnSignal, Release, CallerKeepsBytes
<1>12. ASSUME NEW t \in Threads, NEW r \in Requests, CallAndWait(t, r) PROVE CallerKeepsBytes'
  BY <1>12 DEF CallAndWait, CallerKeepsBytes
<1>13. ASSUME NEW t \in Threads, NEW r \in Requests, Await(t, r) PROVE CallerKeepsBytes'
  BY <1>13 DEF Await, CallerKeepsBytes
<1>14. ASSUME NEW t \in Threads, NEW e \in Emissions, Emit(t, e) PROVE CallerKeepsBytes'
  BY <1>14 DEF Emit, CallerKeepsBytes
<1>15. ASSUME NEW u \in Runners, StartRunner(u) PROVE CallerKeepsBytes'
  BY <1>15 DEF StartRunner, CallerKeepsBytes
<1>16. ASSUME NEW c \in Coros, Spawn(c) PROVE CallerKeepsBytes'
  BY <1>16 DEF Spawn, CallerKeepsBytes
<1>17. ASSUME RunHere PROVE CallerKeepsBytes'
  BY <1>17 DEF RunHere, CallerKeepsBytes
<1>18. ASSUME StartListener PROVE CallerKeepsBytes'
  BY <1>18 DEF StartListener, CallerKeepsBytes
<1>19. ASSUME ResetWork PROVE CallerKeepsBytes'
  BY <1>19 DEF ResetWork, CallerKeepsBytes
<1>20. ASSUME StopIo PROVE CallerKeepsBytes'
  BY <1>20 DEF StopIo, CallerKeepsBytes
<1>21. ASSUME Join PROVE CallerKeepsBytes'
  BY <1>21 DEF Join, CallerKeepsBytes
<1>22. ASSUME Leave PROVE CallerKeepsBytes'
  BY <1>22 DEF Leave, CallerKeepsBytes
<1>23. ASSUME NEW j \in Jobs, Arrives(j) PROVE CallerKeepsBytes'
  BY <1>23 DEF Arrives, CallerKeepsBytes
<1>24. ASSUME UNCHANGED vars PROVE CallerKeepsBytes'
  BY <1>24 DEF vars, CallerKeepsBytes
<1> QED
  BY <1>1, <1>2, <1>3, <1>4, <1>5, <1>6, <1>7, <1>8, <1>9, <1>10, <1>11, <1>12, <1>13, <1>14, <1>15, <1>16, <1>17, <1>18, <1>19, <1>20, <1>21, <1>22, <1>23, <1>24
     DEF Next, ThreadStep, UserCall, MainStep

\* The program starts in a state of the invariant.
LEMMA IInvInit == Init => IInv
<1> SUFFICES ASSUME Init PROVE IInv
  OBVIOUS
<1> USE JobKinds, RuntimeAssumption, KindsAssumption
<1>1. TypeOK
  <2>1. rounds \in [Requests -> 0..MaxRounds] /\ events \in 0..MaxEvents
    BY DEF Init
  <2>2. [by |-> NoThread, pos |-> 1] \in [by : Threads \cup {NoThread}, pos : 1..(Len(Policies) + 1)]
    OBVIOUS
  <2>3. emission \in [Emissions -> [by : Threads \cup {NoThread}, pos : 1..(Len(Policies) + 1)]]
    BY <2>2 DEF Init
  <2> QED BY <2>1, <2>3 DEF Init, TypeOK
<1>2. ExecInv /\ FutureInv
  BY DEF Init, ExecInv, FutureInv
<1>3. SlotInv
  BY DEF Init, SlotInv, InTurn, SlotCalls
<1>4. CallerInv
  BY DEF Init, CallerInv, Active
<1>5. \A t \in Threads : waits[t] = NoJob /\ ~Emitting(t)
  BY DEF Init, Emitting
<1>6. DisciplineInv
  BY <1>5 DEF DisciplineInv, Waiting
<1>7. CallerKeepsBytes
  BY DEF Init, CallerKeepsBytes
<1> QED BY <1>1, <1>2, <1>3, <1>4, <1>6, <1>7 DEF IInv

\* The invariant holds of every behaviour.
LEMMA IInvInvariant == Spec => []IInv
<1>1. IInv /\ [Next]_vars => IInv'
  BY TypeStep, ExecStep, FutureStep, SlotStep, CallerStep, DisciplineStep, BytesStep
     DEF IInv
<1> QED BY IInvInit, <1>1, PTL DEF Spec

-----------------------------------------------------------------------------
(* What the invariant says of the program. *)

\* Every variable of the model keeps its type.
THEOREM TypeCorrect == Spec => []TypeOK
<1>1. IInv => TypeOK
  BY DEF IInv
<1> QED BY <1>1, IInvInvariant, PTL

\* A call that waits, made as the examples make it, is never left with nobody to
\* serve it: with the guard held and a thread in run(), no step of a coroutine, of
\* the listener or of SIGINT ends the last run() (future.get() in nl_control.cxx,
\* WaitAllCombiner in nl_signal.hxx).
THEOREM WaitsAreServed == Spec => []NeverStuck
<1>1. IInv => NeverStuck
  <2> SUFFICES ASSUME IInv, Stuck, ~misuse PROVE FALSE
    BY DEF NeverStuck
  <2>1. DisciplineInv
    BY DEF IInv
  <2>2. \A u \in Runners : ~Waiting(u)
    BY <2>1 DEF DisciplineInv, Waiting
  <2>3. Waiting(Main)
    BY <2>2 DEF Stuck, Threads
  <2>4. PICK u \in Runners : at[u] # "out"
    BY <2>1, <2>3 DEF DisciplineInv, Served
  <2> QED BY <2>2, <2>4 DEF Stuck, Threads
<1> QED BY <1>1, IInvInvariant, PTL

\* WaitAllCombiner calls the slots in the order of connection and waits for each
\* Async one before it goes on, however many threads call run().
THEOREM SlotsAreCalledInTurn == Spec => []SlotsInTurn
<1>1. IInv => SlotsInTurn
  <2> SUFFICES ASSUME IInv, NEW e \in Emissions, NEW i \in DOMAIN Policies,
                      <<e, i>> \in SlotCalls, js[<<e, i>>] # "done"
               PROVE  /\ emission[e].pos <= i
                      /\ \A k \in DOMAIN Policies :
                            k > i /\ <<e, k>> \in SlotCalls => js[<<e, k>>] = "new"
    BY DEF SlotsInTurn
  <2>1. \A k \in DOMAIN Policies : <<e, k>> \in SlotCalls => InTurn(e, k)
    BY DEF IInv, SlotInv
  <2>2. emission[e].pos \in Nat
    BY DEF IInv, TypeOK
  <2>3. \A k \in DOMAIN Policies : k \in Nat
    BY JobKinds
  <2>4. emission[e].pos <= i
    BY <2>1, <2>2, <2>3 DEF InTurn
  <2> QED BY <2>1, <2>2, <2>3, <2>4 DEF InTurn
<1> QED BY <1>1, IInvInvariant, PTL

\* The address bytes of a neighbour operation are read while the blocked thread or
\* the suspended coroutine that passed them still keeps them.
THEOREM BytesAreKept == Spec => []CallerKeepsBytes
<1>1. IInv => CallerKeepsBytes
  BY DEF IInv
<1> QED BY <1>1, IInvInvariant, PTL
=============================================================================
