--------------------------- MODULE RequestService ----------------------------
(***************************************************************************)
(* What Control promises its callers, without sockets, gate, sequence      *)
(* numbers or datagrams: a call is answered by the kernel at most once and *)
(* returns once, either a local failure or the value its task makes of the *)
(* whole answer to that very call.  Whether an answer comes, and whether   *)
(* the call then returns, is left open.                                    *)
(***************************************************************************)
EXTENDS RequestTask

CONSTANTS Ops, Kinds

VARIABLES
    phase,   \* of each call: "idle", "open" or "done"
    kind,    \* the operation called
    answer,  \* the messages of the kernel's answer, none before it is given
    result   \* the value returned

vars == <<phase, kind, answer, result>>

Init ==
    /\ phase = [o \in Ops |-> "idle"]
    /\ kind \in [Ops -> Kinds]
    /\ answer = [o \in Ops |-> <<>>]
    /\ \A o \in Ops : result[o].st = "error"

\* The value made of an answer: its last message decides, what comes before it
\* is listed, in order, as far as the task accepts it.
Reply(k, a) ==
    LET n == Len(a) - 1
    IN  Outcome(k, Accepted(k, a)[n], a[n + 1])

Call(o) ==
    /\ phase[o] = "idle"
    /\ phase' = [phase EXCEPT ![o] = "open"]
    /\ UNCHANGED <<kind, answer, result>>

Answer(o) ==
    /\ phase[o] = "open"
    /\ answer[o] = <<>> /\ answer'[o] # <<>>
    /\ \A p \in Ops \ {o} : answer'[p] = answer[p]
    /\ UNCHANGED <<phase, kind, result>>

\* Send, receive or open failed, or stop() came in between.
Failures == {Error(c) : c \in LocalErrors} \cup {Thrown}

Return(o) ==
    /\ phase[o] = "open"
    /\ phase' = [phase EXCEPT ![o] = "done"]
    /\ \/ result'[o] \in Failures
       \/ answer[o] # <<>> /\ result'[o] = Reply(kind[o], answer[o])
    /\ \A p \in Ops \ {o} : result'[p] = result[p]
    /\ UNCHANGED <<kind, answer>>

Next == \E o \in Ops : Call(o) \/ Answer(o) \/ Return(o)

Spec == Init /\ [][Next]_vars
=============================================================================
