---------------------------- MODULE IocpNetwork ----------------------------
(***************************************************************************)
(* The IOCP watchers of one worker on its event loop core, with the peers  *)
(* and the kernel that complete the operations.                            *)
(***************************************************************************)
EXTENDS IocpTcp

CONSTANT Apart  \* bound: the sockets of a behaviour are all connected, or all accepted

ASSUME ApartAssumption == Apart \in BOOLEAN

vars == <<coreVars, portVars, tcpVars, restarted_early>>

Init ==
  /\ backend \in Backends
  /\ sock = [f \in Fds |-> NoSocket]
  /\ reg = [sources |-> {}, armed |-> {},
            fd_events |-> [key \in Keys |-> {}], interest |-> {}]
  /\ pending_ops = <<>>
  /\ in_dispatch = FALSE
  /\ snapshot = {} /\ ready = {}
  /\ stack = <<>>
  /\ events = [w \in Watchers |-> {}]
  /\ fd = [w \in Watchers |-> NoFd]
  /\ source = [w \in Watchers |-> Source(w, 0, NoFd, "any")]
  /\ attached = {} /\ write_attached = {} /\ orphans = {}
  /\ PortInit /\ TcpInit

----------------------------------------------------------------------------
\* The kernel completes an operation.
ConnectOp(o) ==
  /\ o.ov[1] \in Connects
  /\ \/ sock' = [sock EXCEPT ![o.fd].st = "up"] /\ Complete(o, "done")
     \/ Complete(o, "error") /\ UNCHANGED sock

RecvOp(o) ==
  /\ o.ov[1] \in Conns /\ o.ov[2] = "recv"
  /\ \/ /\ sock[o.fd].st = "up" /\ sock[o.fd].rx > 0
        /\ sock' = [sock EXCEPT ![o.fd].rx = @ - 1]
        /\ Complete(o, "done")
     \/ /\ sock[o.fd].st = "up" /\ sock[o.fd].rx = 0 /\ sock[o.fd].fin
        /\ Complete(o, "end")
        /\ UNCHANGED sock
     \/ /\ sock[o.fd].st = "error"
        /\ Complete(o, "error")
        /\ UNCHANGED sock

SendOp(o) ==
  /\ o.ov[1] \in Conns /\ o.ov[2] = "send"
  /\ Complete(o, IF sock[o.fd].st = "error" THEN "error" ELSE "done")
  /\ UNCHANGED sock

AcceptOp(o) ==
  /\ o.ov[1] \in Accepts /\ sock[o.fd].rx > 0
  /\ \/ /\ sock' = [sock EXCEPT ![o.fd].rx = @ - 1, ![accept_fd[o.ov]].st = "up"]
        /\ Complete(o, "done")
     \/ /\ sock' = [sock EXCEPT ![o.fd].rx = @ - 1]
        /\ Complete(o, "error")

Kernel ==
  /\ \E o \in inflight : ConnectOp(o) \/ RecvOp(o) \/ SendOp(o) \/ AcceptOp(o)
  /\ UNCHANGED <<reg, pending_ops, loopVars, stack, watcherVars, tcpVars>>

\* A peer connects, sends, closes or resets.
Peer ==
  /\ \E w \in Accepts \cup Conns :
       /\ fd[w] # NoFd
       /\ LET k == sock[fd[w]]
          IN  \/ /\ k.st \in {"listen", "up"} /\ ~k.fin /\ k.rx < MaxRx
                 /\ sock' = [sock EXCEPT ![fd[w]].rx = @ + 1]
              \/ /\ k.st = "up" /\ ~k.fin
                 /\ sock' = [sock EXCEPT ![fd[w]].fin = TRUE]
              \/ /\ k.st = "up"
                 /\ sock' = [sock EXCEPT ![fd[w]] = [NoSocket EXCEPT !.st = "error"]]
  /\ UNCHANGED <<reg, pending_ops, loopVars, stack, watcherVars, portVars, tcpVars>>

DropStream ==
  /\ InUser
  /\ \E f \in streams :
       /\ streams' = streams \ {f}
       /\ sock' = [sock EXCEPT ![f] = NoSocket]
       /\ reg' = Forgotten(reg, {f})
  /\ UNCHANGED <<pending_ops, loopVars, stack, watcherVars, portVars,
                 canceled, starts, accept_fd, created, closed, want_send_ready>>

----------------------------------------------------------------------------
Thread ==
  \/ IocpDispatch /\ UNCHANGED <<tcpVars, restarted_early>>
  \/ applyPendingChanges /\ UNCHANGED <<portVars, tcpVars, restarted_early>>
  \/ /\ Apart => \A a \in Accepts : fd[a] = NoFd
     /\ \E c \in Connects : IocpTcpConnectWatcher(c)
  \/ /\ Apart => \A c \in Connects : starts[c] = 0
     /\ \E a \in Accepts : IocpTcpAcceptWatcher(a)
  \/ \E k \in Conns : IocpTcpConnectionWatcher(k)
Poll == IocpWait /\ UNCHANGED tcpVars
Return == UserReturns /\ UNCHANGED <<portVars, tcpVars>>
Task == RunTask /\ UNCHANGED <<portVars, tcpVars>>
Others == (Poll \/ Return \/ Task \/ DropStream \/ Kernel \/ Peer) /\ UNCHANGED restarted_early

\* What a handler makes of two operations with one OVERLAPPED is not modelled.
NotFollowed == restarted_early /\ UNCHANGED vars

Next ==
  \/ ~restarted_early /\ (Thread \/ Others)
  \/ NotFollowed

Spec == Init /\ [][Next]_vars

----------------------------------------------------------------------------
Handlers == {"dispatch", "ready", "connect", "post", "repost", "drop", "rearm", "close"}
Sources == [w : Watchers, id : 0 .. MaxStarts, fd : Fds \cup {NoFd}, flt : {"any"}]

\* The state is well formed, and changes are only pending while events are dispatched.
TypeOK ==
  /\ sock \in [Fds -> [st : {"none", "idle", "listen", "up", "error"}, rx : 0 .. MaxRx,
                        fin : BOOLEAN, full : {FALSE}, shut : BOOLEAN]]
  /\ reg.sources \subseteq Sources /\ reg.armed \subseteq Sources
  /\ pending_ops # <<>> => in_dispatch
  /\ \A i \in 1 .. Len(stack) :
       stack[i].at \in Callbacks \cup Handlers /\ stack[i].w \in Watchers \cup {Worker}
  /\ \A o \in inflight : o.ov \in Overlappeds /\ o.fd \in Open
  /\ \A i \in 1 .. Len(port) : port[i] \in [key : Fds, ov : Overlappeds]
  /\ result \in [Overlappeds -> {"none", "pending", "done", "end", "error"}]
  /\ busy \subseteq Overlappeds /\ lost \subseteq Overlappeds
  /\ accept_fd \in [AcceptOps -> Fds \cup {NoFd}] /\ fd \in [Watchers -> Fds \cup {NoFd}]
  /\ closed \subseteq created /\ want_send_ready \subseteq created /\ streams \subseteq Fds

\* An OVERLAPPED belongs to one operation: it is not used again before the completion of
\* the last operation was handled, whatever callbacks, stop() and start() come between.
\* And receiving_ and sending_ of an open connection, which alone keep it from using the
\* OVERLAPPED again (in_flight and connecting_ are never read), say exactly whether the
\* operation is outstanding, or its completion went unnoticed.
\* Excepted is what follows a start() of a connect or accept watcher that came while an
\* operation of its last start() had not ended: nothing in start() keeps it from that.
OverlappedsExact ==
  ~restarted_early => \A ov \in Overlappeds :
    /\ Cardinality({o \in inflight : o.ov = ov}) + Cardinality({i \in 1 .. Len(port) : port[i].ov = ov})
         + Cardinality({e \in ready : e.ov = ov}) <= 1
    /\ ov[1] \in created \ closed => (ov \in busy <=> Outstanding(ov) \/ ov \in lost)

\* Every open socket has one owner: a watcher, an operation of an accept watcher, or a
\* stream.  So none leaks, and no close() hits a socket of somebody else.  Excepted is what
\* follows a start() that came too early: one from the on_error of a createSocket() that
\* failed leaves the socket it has without an owner.
SocketOwnedOnce ==
  LET ofWatchers == {w \in Watchers : fd[w] # NoFd}
      ofOps == {op \in AcceptOps : accept_fd[op] # NoFd}
      owned == {fd[w] : w \in ofWatchers} \cup {accept_fd[op] : op \in ofOps} \cup streams
  IN  ~restarted_early =>
        /\ Open = owned
        /\ Cardinality(owned) = Cardinality(ofWatchers) + Cardinality(ofOps) + Cardinality(streams)
=============================================================================
