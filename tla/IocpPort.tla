------------------------------ MODULE IocpPort ------------------------------
(***************************************************************************)
(* The completion port of a Windows worker, platform/windows/schedule/     *)
(* iocp_backend.cc, under the event loop core of EventCore, and the        *)
(* operations the kernel has (external).  An operation is known by its     *)
(* OVERLAPPED, <<watcher, tag>>.  When it completes, its packet is posted  *)
(* if the handle is associated with the port by then; otherwise nobody     *)
(* learns of it.                                                           *)
(***************************************************************************)
EXTENDS EventCore

CONSTANTS Overlappeds,  \* the OVERLAPPED structures of the watchers
          MaxRx         \* bound: units a peer sends ahead, connections in a backlog

ASSUME PortAssumption ==
  /\ Backends = {"iocp"}
  /\ \A ov \in Overlappeds : ov[1] \in Watchers
  /\ MaxRx \in Nat \ {0}

VARIABLES
  inflight,  \* the operations the kernel has: OVERLAPPED, fd, and a number that
             \* tells apart two with the same OVERLAPPED
  port,      \* the packets of the port: key, OVERLAPPED
  result,    \* the status in each OVERLAPPED
  busy,      \* the OVERLAPPEDs whose receiving_, sending_, connecting_ or in_flight is set
  lost       \* history: those whose completion reached no handler

portVars == <<inflight, port, result, busy, lost>>

PortInit ==
  /\ inflight = {} /\ port = <<>> /\ busy = {} /\ lost = {}
  /\ result = [ov \in Overlappeds |-> "none"]

Associated(f) == <<f, "any">> \in reg.interest
Packet(f, ov) == [key |-> f, ov |-> ov]

\* An operation is handed to the kernel.  The flag of the watcher is set with it.
Issue(ov, f) ==
  /\ inflight' = inflight \cup
       {[ov |-> ov, fd |-> f, n |-> Cardinality({o \in inflight : o.ov = ov})]}
  /\ result' = [result EXCEPT ![ov] = "pending"]
  /\ busy' = busy \cup {ov}
  /\ lost' = lost \ {ov}
  /\ UNCHANGED port

\* The kernel ends the operations of a socket that is closed.
Abort(f) ==
  LET gone == {o \in inflight : o.fd = f}
      packets == [i \in 1 .. Cardinality(gone) |-> Packet(f, SetToSeq(gone)[i].ov)]
  IN  /\ inflight' = inflight \ gone
      /\ port' = IF Associated(f) THEN port \o packets ELSE port
      /\ result' = [ov \in Overlappeds |->
                       IF \E o \in gone : o.ov = ov THEN "error" ELSE result[ov]]
      /\ UNCHANGED lost

Complete(o, outcome) ==
  /\ inflight' = inflight \ {o}
  /\ result' = [result EXCEPT ![o.ov] = outcome]
  /\ IF Associated(o.fd)
       THEN port' = Append(port, Packet(o.fd, o.ov)) /\ UNCHANGED lost
       ELSE lost' = lost \cup {o.ov} /\ UNCHANGED port
  /\ UNCHANGED busy

\* An operation with this OVERLAPPED has not been handled yet.
Queued(ov) ==
  \/ \E i \in 1 .. Len(port) : port[i].ov = ov
  \/ \E e \in ready : e.ov = ov
  \/ \E i \in 1 .. Len(stack) : stack[i].at = "ready" /\ stack[i].ev = {ov}
Outstanding(ov) == Queued(ov) \/ \E o \in inflight : o.ov = ov

----------------------------------------------------------------------------
\* wait(): the packets are taken from the port, in their order.
IocpWait ==
  /\ stack = <<>> /\ port # <<>>
  /\ ready' = {[n |-> i, key |-> port[i].key, ov |-> port[i].ov] : i \in 1 .. Len(port)}
  /\ port' = <<>>
  /\ snapshot' = reg.sources
  /\ in_dispatch' = TRUE
  /\ stack' = <<Calls("dispatch", Worker)>>
  /\ UNCHANGED <<backend, orphans, sock, reg, pending_ops, watcherVars, inflight, result, busy, lost>>

\* matches() looks at armed_ when the event is dispatched.
Matching(e) == {s \in snapshot \cap reg.armed : s.fd = e.key}

IocpDispatch ==
  /\ At("dispatch", Worker)
  /\ \E e \in ready :
       /\ \A d \in ready : e.n <= d.n
       /\ ready' = ready \ {e}
       /\ \/ /\ Matching(e) = {}
             /\ lost' = lost \cup {e.ov}
             /\ UNCHANGED stack
          \/ /\ \E s \in Matching(e) : stack' = <<Frame("ready", s.w, 0, {e.ov})>> \o stack
             /\ UNCHANGED lost
  /\ UNCHANGED <<backend, orphans, sock, reg, pending_ops, in_dispatch, snapshot, watcherVars,
                 inflight, port, result, busy>>

\* A handler leaves an event alone.
Ignore ==
  /\ lost' = lost \cup Head(stack).ev
  /\ stack' = Rest
=============================================================================
