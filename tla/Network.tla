------------------------------ MODULE Network ------------------------------
(***************************************************************************)
(* The TCP and timer watchers of one worker on its event loop core, with   *)
(* the peers and the kernel that move the sockets.  Endpoints are printed  *)
(* and parsed without touching a watcher: a program of no watchers does    *)
(* that.                                                                   *)
(***************************************************************************)
EXTENDS TcpConnection, WorkerTimer, IpEndpoint

CONSTANTS MaxRx,    \* bound: units a peer sends ahead of the reader, connections in a backlog
          Programs  \* bound: the watchers one behaviour uses

ASSUME NetworkAssumption ==
  /\ Watchers = Connects \cup Accepts \cup Conns \cup Timers
  /\ Timers \cap (Connects \cup Accepts \cup Conns) = {}
  /\ MaxRx \in Nat \ {0}
  /\ Programs \subseteq SUBSET Watchers

VARIABLE program  \* the watchers this behaviour uses

addOnVars == <<timerVars, textVars, program>>
vars == <<coreVars, connectVars, connVars, addOnVars>>
exceptSock == <<reg, pending_ops, loopVars, stack, watcherVars, connectVars, connVars, addOnVars>>

Init ==
  /\ backend \in Backends
  /\ sock = [f \in Fds |-> NoSocket]
  /\ reg = [sources |-> {}, armed |-> {},
            fd_events |-> [key \in Keys |-> {}], interest |-> {}]
  /\ pending_ops = <<>>
  /\ in_dispatch = FALSE
  /\ snapshot = {} /\ ready = {}
  /\ stack = <<>>
  /\ events = [w \in Watchers |->
                 CASE w \in Connects -> {"OUT", "ERR", "HUP"}
                   [] w \in Accepts  -> {"IN", "ERR", "HUP"}
                   [] w \in Conns    -> Readable
                   [] w \in Timers   -> {"IN"}]
  /\ fd = [w \in Watchers |-> NoFd]
  /\ source = [w \in Watchers |-> Source(w, 0, NoFd, "any")]
  /\ attached = {} /\ write_attached = {} /\ orphans = {}
  /\ ConnectInit /\ ConnInit /\ TimerInit /\ TextInit
  /\ program \in Programs

----------------------------------------------------------------------------
\* The kernel and the peer.  What a peer does to the socket of a stream is noticed
\* when a connection watcher has it, so the peer does it then.
Complete(f) ==
  /\ sock[f].st = "connecting"
  /\ \E st \in {"up", "error"} : sock' = [sock EXCEPT ![f].st = st]
  /\ UNCHANGED exceptSock

\* Data, or a connection for a listening socket.
PeerSends(f) ==
  /\ sock[f].st = "listen" \/ (sock[f].st = "up" /\ ~sock[f].fin)
  /\ sock[f].rx < MaxRx
  /\ sock' = [sock EXCEPT ![f].rx = @ + 1]
  /\ UNCHANGED exceptSock

PeerCloses(f) ==
  /\ sock[f].st = "up" /\ ~sock[f].fin
  /\ sock' = [sock EXCEPT ![f].fin = TRUE]
  /\ UNCHANGED exceptSock

PeerResets(f) ==
  /\ sock[f].st = "up"
  /\ sock' = [sock EXCEPT ![f] = [NoSocket EXCEPT !.st = "error"]]
  /\ UNCHANGED exceptSock

Drain(f) ==
  /\ sock[f].st = "up" /\ sock[f].full
  /\ sock' = [sock EXCEPT ![f].full = FALSE]
  /\ UNCHANGED exceptSock

Peer ==
  \/ \E f \in Fds : Complete(f)
  \/ \E f \in Fds \cap {fd[w] : w \in Accepts \cup Conns} : PeerSends(f)
  \/ \E f \in Fds \cap {fd[k] : k \in Conns} : PeerCloses(f) \/ Drain(f)
  \/ \E f \in Fds \cap {fd[w] : w \in Watchers} : PeerResets(f)

\* A stream nobody wants is destroyed, and closes its fd.
DropStream ==
  /\ InUser
  /\ \E f \in streams :
       /\ streams' = streams \ {f}
       /\ sock' = [sock EXCEPT ![f] = NoSocket]
       /\ reg' = Forgotten(reg, {f})
  /\ UNCHANGED <<pending_ops, loopVars, stack, watcherVars, canceled, starts, connVars, addOnVars>>

----------------------------------------------------------------------------
Connect(w) == ConnectorCall(w) \/ ConnectorStep(w)
Listen(a) ==
  \/ EpollTcpAcceptWatcher(a) \/ PollTcpAcceptWatcher(a)
  \/ KqueueTcpAcceptWatcher(a) \/ MacPollTcpAcceptWatcher(a)
Connection(k) == ConnectionCall(k) \/ ConnectionStep(k)

Timer(t) == EpollWorkerTimerWatcher(t) \/ PollWorkerTimerWatcher(t)
LeavesTcp == UNCHANGED <<connectVars, connVars>>

Thread ==
  \/ (Dispatch \/ applyPendingChanges) /\ LeavesTcp /\ UNCHANGED addOnVars
  \/ \E w \in Connects \cap program : Connect(w) /\ UNCHANGED <<connVars, addOnVars>>
  \/ \E a \in Accepts \cap program : Listen(a) /\ UNCHANGED <<connVars, addOnVars>>
  \/ \E k \in Conns \cap program : Connection(k) /\ UNCHANGED addOnVars
  \/ \E t \in Timers \cap program : Timer(t) /\ LeavesTcp /\ UNCHANGED <<textVars, program>>
Step == ~InUser /\ Thread
Poll == Wait /\ LeavesTcp /\ UNCHANGED addOnVars
Return == UserReturns /\ LeavesTcp /\ UNCHANGED addOnVars

Next ==
  \/ Thread \/ Poll \/ Return \/ DropStream \/ Peer
  \/ \E t \in Timers : Expire(t) /\ LeavesTcp /\ UNCHANGED <<textVars, program>>
  \/ program # {} /\ RunTask /\ LeavesTcp /\ UNCHANGED addOnVars
  \/ program = {} /\ TextNext /\ UNCHANGED <<coreVars, connectVars, connVars, timerVars, program>>

Spec == Init /\ [][Next]_vars

\* The worker's thread goes on, the user's code returns, and the worker polls
\* again and again, however many tasks it runs in between.
FairSpec == Spec /\ WF_vars(Step) /\ WF_vars(Return) /\ SF_vars(Poll)

----------------------------------------------------------------------------
Sources == [w : Watchers, id : 0 .. MaxStarts + 1, fd : Fds \cup {NoFd}, flt : {"any", "read", "write"}]
Handlers == {"dispatch", "ready", "connect", "attach", "check", "accept", "recv", "after", "close",
             "drain", "expire"}

\* The state is well formed; in particular handleRead() never goes beyond its budget,
\* and changes are only left pending while events are dispatched.
TypeOK ==
  /\ backend \in Backends
  /\ sock \in [Fds -> [st : {"none", "idle", "listen", "connecting", "up", "error", "timer"},
                        rx : 0 .. MaxRx + MaxTicks,
                        fin : BOOLEAN, full : BOOLEAN, shut : BOOLEAN]]
  /\ reg \in [sources : SUBSET Sources, armed : SUBSET Sources,
               fd_events : [Keys -> SUBSET Events], interest : SUBSET Keys]
  /\ \A i \in 1 .. Len(pending_ops) :
       pending_ops[i] \in [kind : {"add", "remove"}, src : Sources]
  /\ pending_ops # <<>> => in_dispatch
  /\ snapshot \subseteq Sources
  /\ ready \subseteq [key : Keys, ev : SUBSET Events]
  /\ \A i \in 1 .. Len(stack) :
       stack[i] \in [at : Callbacks \cup Handlers, w : Watchers \cup {Worker},
                     n : 0 .. ReadBudget + AcceptBudget + MaxTicks, ev : SUBSET Events]
  /\ events \in [Watchers -> SUBSET Events]
  /\ fd \in [Watchers -> Fds \cup {NoFd}] /\ source \in [Watchers -> Sources]
  /\ attached \subseteq Watchers /\ canceled \subseteq Connects /\ streams \subseteq Fds
  /\ starts \in [Connects -> 0 .. MaxStarts]
  /\ \A s \in {closed, peer_closed, want_send_ready, write_attached} : s \subseteq created
  /\ restarted \subseteq Conns
  /\ created \subseteq Conns
  /\ orphans \subseteq Timers /\ spec \in [Timers -> {"off", "once", "periodic"}]
  /\ ticks \in [Timers -> 0 .. MaxTicks] /\ owed \in [Timers -> 0 .. MaxTicks]
  /\ program \in Programs /\ edits \in 0 .. MaxEdits

\* Whenever no dispatch is under way, the core, the backend and the kernel agree with
\* the watchers: exactly the sources of the attached watchers are known and armed, and
\* each fd is registered with the events its watcher wants, although fds were handed
\* over, closed and reused while the changes were deferred.  Two uses of a connection
\* watcher are excepted: start() after close(), and on kqueue a trySend() before start()
\* that blocks, whose write source stop() leaves behind.
RegistrationExact ==
  ~in_dispatch /\ restarted = {} /\ write_attached \cap closed = {} =>
    /\ reg.sources = {source[w] : w \in attached} \cup {WriteSource(k) : k \in write_attached}
    /\ reg.armed = reg.sources
    /\ \A key \in Keys :
         LET wanted == UNION {Interest(s) : s \in {t \in reg.sources : Key(t) = key}}
         IN  reg.fd_events[key] = wanted /\ (key \in reg.interest <=> wanted # {})

\* Every open socket has one owner: a watcher, or the source of a destroyed timer, or a
\* stream.  So none leaks, and no close() hits a socket of somebody else.
SocketOwnedOnce ==
  /\ \A v, w \in Watchers : v # w /\ fd[v] # NoFd => fd[v] # fd[w]
  /\ \A w \in Watchers : fd[w] \notin streams
  /\ Open = streams \cup ({fd[w] : w \in Watchers} \ {NoFd})

\* A timer's callback is called once for each expiration: those not reported yet are the
\* ones the kernel has and the ones read from it, also when callbacks set, stop or destroy
\* timers.
OncePerExpiration ==
  \A t \in Timers : fd[t] # NoFd =>
    LET read == {stack[i].n : i \in {j \in 1 .. Len(stack) : stack[j].at = "expire" /\ stack[j].w = t}}
    IN  owed[t] = sock[fd[t]].rx + MapThenSumSet(LAMBDA n : n, read)

\* A callback cb of w is called in this step.
Called(cb, w) ==
  /\ stack' # stack /\ Len(stack') >= Len(stack)
  /\ Head(stack').at = cb /\ Head(stack').w = w

\* After cancel() a connect watcher reports no result, even when cancel() is called from
\* inside start() and the attempt goes on.  After on_close a connection watcher delivers
\* no data and does not call on_close again, although close() may be called from each of
\* its callbacks, whose handlers go on afterwards.  Both until the watcher is started
\* again.  This is not silence: a handler that goes on may still call on_error or
\* on_send_ready of a watcher that has called on_close.
NoCallAfterTheLast ==
  [][/\ \A w \in canceled : ~Called("on_connected", w) /\ ~Called("on_error", w)
     /\ \A k \in closed : ~Called("on_close", k) /\ ~Called("on_recv", k)]_vars

\* A sender that was told to wait is told to go on once the socket has room again
\* (want_send_ready_ is only cleared to call on_send_ready), unless it stops listening.
\* On kqueue stop() detaches the write source and start() does not attach it again, so
\* there the promise ends with stop().
Listening(k) == k \in IF backend = "kqueue" THEN write_attached ELSE attached
SendReadyAgain ==
  \A k \in Conns :
    (k \in want_send_ready /\ k \in attached /\ Listening(k) /\ ~sock[fd[k]].full)
      ~> (k \notin want_send_ready \/ ~Listening(k) \/ k \in closed \/ sock[fd[k]].full)

\* A connection whose peer closes or resets it ends with on_close, unless it was stopped.
PeerCloseObserved ==
  \A k \in Conns :
    (k \in attached /\ (sock[fd[k]].fin \/ sock[fd[k]].st = "error"))
      ~> (k \in closed \/ k \notin attached)

\* A listening watcher whose backlog is not empty calls on_accept, or on_error when there
\* is no descriptor left, although acceptLoop() ends at its budget and start() and stop()
\* are called from callbacks, unless it is stopped.
BacklogServed ==
  \A a \in Accepts :
    (a \in attached /\ sock[fd[a]].rx > 0)
      ~> (a \notin attached \/ At("on_accept", a) \/ At("on_error", a))
=============================================================================
