----------------------------- MODULE SocketGuard -----------------------------
(***************************************************************************)
(* Socket (include/rtaco/socket/nl_socket.hxx, src/socket/nl_socket.cxx)   *)
(* and SocketGuard (src/socket/nl_socket_guard.cxx): the life cycle of one *)
(* netlink socket.  Opening is one synchronous call, so it is modelled by  *)
(* the set of its outcomes; Control and Listener pick one in the step that *)
(* makes the call.                                                         *)
(*                                                                         *)
(*   "closed"  no descriptor                                               *)
(*   "half"    a descriptor without all of its options, not bound: it has  *)
(*             joined no multicast group                                   *)
(*   "bound"   bound to the group mask, not yet connected                  *)
(*   "ready"   bound and connected to the kernel                           *)
(***************************************************************************)

SocketStates == {"closed", "half", "bound", "ready"}

\* Socket::is_open.
IsOpen(st) == st # "closed"

\* Socket::open: the descriptor or the bind may fail, which throws and leaves
\* the socket closed; a failed set_option returns the error and leaves the
\* descriptor open.
Open ==
    {[st |-> "closed", rc |-> "throw"],
     [st |-> "half",   rc |-> "error"],
     [st |-> "bound",  rc |-> "ok"]}

\* SocketGuard::ensure_open: an open socket is taken as it is; a failed
\* connect closes the socket again.
EnsureOpen(st) ==
    IF IsOpen(st)
    THEN {[st |-> st, rc |-> "ok"]}
    ELSE {r \in Open : r.rc # "ok"} \cup
         {[st |-> "ready",  rc |-> "ok"],
          [st |-> "closed", rc |-> "error"]}
=============================================================================
