----------------------------- MODULE RequestTask -----------------------------
(***************************************************************************)
(* The tasks of src/tasks and include/rtaco/tasks: what each one asks the  *)
(* kernel for (prepare_request) and what it does with one netlink message  *)
(* (process_message and its handle_* and dispatch_* helpers).  A message   *)
(* is abstracted to what the tasks look at: its type, its sequence number, *)
(* the table entry it carries and the error code of an NLMSG_ERROR or an   *)
(* NLMSG_DONE (which no task looks at).                                    *)
(***************************************************************************)
EXTENDS Integers, Sequences

CONSTANTS
    Entries,       \* kernel table entries that can be reported
    NoEntry,       \* the entry of a message that carries none
    KernelErrors   \* errno values the kernel may answer with

Families == {"route", "address", "link", "neighbor"}

\* index: the interface index (of a route: oif_index, 0 when RTA_OIF is absent);
\* main: the route is in RT_TABLE_MAIN; lladdr: an NDA_LLADDR attribute is there.
Entry == [family : Families, index : Int, main : BOOLEAN, lladdr : BOOLEAN]

ASSUME EntriesAssumption == Entries \subseteq Entry /\ NoEntry \notin Entries

\* Errors of this process: an aborted or failed receive, a closed descriptor,
\* an unusable socket, and the "not found" of NeighborGetTask.
LocalErrors == {"ECANCELED", "EBADF", "EIO", "ENOENT"}

Codes == {"0"} \cup KernelErrors \cup LocalErrors

ASSUME ErrorsAssumption == "0" \notin KernelErrors

(***************************************************************************)
(* The tasks.  flags: the NLM_F_ flags of the request that decide the form *)
(* of the kernel's answer; final: the message types that end the task (for *)
(* NeighborGetTask, NEW does only when the entry has a link-layer address);*)
(* tests: what dispatch_* asks of an entry before it goes into learned_.   *)
(***************************************************************************)
RouteDumpTask ==
    [family |-> "route", flags |-> {"DUMP"}, final |-> {"DONE", "ERROR"},
     tests |-> {"index", "table"}]

AddressDumpTask ==
    [family |-> "address", flags |-> {"DUMP"}, final |-> {"DONE", "ERROR"},
     tests |-> {"index"}]

LinkDumpTask ==
    [family |-> "link", flags |-> {"DUMP"}, final |-> {"DONE", "ERROR"},
     tests |-> {"index"}]

NeighborDumpTask ==
    [family |-> "neighbor", flags |-> {"DUMP"}, final |-> {"DONE", "ERROR"},
     tests |-> {"index"}]

NeighborProbeTask ==
    [family |-> "neighbor", flags |-> {"ACK"}, final |-> {"ERROR"}, tests |-> {}]

NeighborFlushTask ==
    [family |-> "neighbor", flags |-> {"ACK"}, final |-> {"ERROR"}, tests |-> {}]

NeighborGetTask ==
    [family |-> "neighbor", flags |-> {}, final |-> {"DONE", "ERROR", "NEW"}, tests |-> {}]

Dumps == {"dump_routes", "dump_addresses", "dump_links", "dump_neighbors"}

NeighborOps == {"probe_neighbor", "flush_neighbor", "get_neighbor"}

AllKinds == Dumps \cup NeighborOps

Task(k) ==
    CASE k = "dump_routes"    -> RouteDumpTask
      [] k = "dump_addresses" -> AddressDumpTask
      [] k = "dump_links"     -> LinkDumpTask
      [] k = "dump_neighbors" -> NeighborDumpTask
      [] k = "probe_neighbor" -> NeighborProbeTask
      [] k = "flush_neighbor" -> NeighborFlushTask
      [] k = "get_neighbor"   -> NeighborGetTask

-----------------------------------------------------------------------------
Messages ==
    [type : {"NEW", "DEL"}, seq : Nat, entry : Entries, code : {"0"}] \cup
    [type : {"DONE", "ERROR"}, seq : Nat, entry : {NoEntry}, code : Codes]

NewMsg(q, e) == [type |-> "NEW", seq |-> q, entry |-> e, code |-> "0"]
DelMsg(q, e) == [type |-> "DEL", seq |-> q, entry |-> e, code |-> "0"]
DoneMsg(q, c) == [type |-> "DONE", seq |-> q, entry |-> NoEntry, code |-> c]
ErrorMsg(q, c) == [type |-> "ERROR", seq |-> q, entry |-> NoEntry, code |-> c]

\* std::expected<list, error_code>, or the exception that left the coroutine.
Results == [st : {"ok", "error", "throw"}, list : Seq(Entries), code : Codes]

Ok(list) == [st |-> "ok", list |-> list, code |-> "0"]
Error(c) == [st |-> "error", list |-> <<>>, code |-> c]
Thrown == [st |-> "throw", list |-> <<>>, code |-> "EIO"]

UINT16_MAX == 65535

\* The index tests of dispatch_route, dispatch_address, dispatch_link and
\* dispatch_neighbor, and the table test of dispatch_route.
Accepts(k, e) ==
    /\ e.family = Task(k).family
    /\ "index" \in Task(k).tests => e.index > 0 /\ e.index <= UINT16_MAX
    /\ "table" \in Task(k).tests => e.main

\* The entries that task k accepts of the first n messages of answer a, in order.
Accepted(k, a) ==
    LET upTo[n \in 0..Len(a)] ==
            IF n = 0 THEN <<>>
            ELSE IF Accepts(k, a[n].entry) THEN Append(upTo[n - 1], a[n].entry)
            ELSE upTo[n - 1]
    IN  upTo

\* dispatch_*: the message adds an entry to learned_ (from_nlmsghdr gives the
\* event the type NEW_* only for an RTM_NEW* message of the task's family).
Learns(k, m) == k \in Dumps /\ m.type = "NEW" /\ Accepts(k, m.entry)

\* NeighborGetTask::handle_neighbor returns the event only with an lladdr.
HandleNeighbor(m) == m.entry.family = "neighbor" /\ m.entry.lladdr

\* Mutant: a dump does not end at NLMSG_DONE.
CompletesOnErrorOnly(k, m) == m.type = "ERROR"

\* process_message returns a value instead of std::nullopt.
Completes(k, m) ==
    /\ m.type \in Task(k).final
    /\ m.type = "NEW" => HandleNeighbor(m)

\* Mutant: an error ends a dump as NLMSG_DONE does.
OutcomeIgnoringErrors(k, learned, m) == Ok(learned)

\* The value: handle_error, handle_neighbor and handle_done.  An error with code
\* "0" is an acknowledgement, which the tasks treat as NLMSG_DONE: the entries so
\* far, and ENOENT in NeighborGetTask.  The code of an NLMSG_DONE is not read.
Outcome(k, learned, m) ==
    CASE m.type = "ERROR" /\ m.code # "0" -> Error(m.code)
      [] m.type = "NEW" -> Ok(<<m.entry>>)
      [] m.type = "DONE" \/ (m.type = "ERROR" /\ m.code = "0") ->
            IF k = "get_neighbor" THEN Error("ENOENT") ELSE Ok(learned)
=============================================================================
