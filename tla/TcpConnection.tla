--------------------------- MODULE TcpConnection ---------------------------
(***************************************************************************)
(* The connection watchers, platform/linux/network/watcher/                *)
(* tcp_connection_watcher.cc and its macOS counterpart.  kqueue has a      *)
(* source for reading and one for writing.  The handlers are cut where     *)
(* they call back: the frame "recv" is the loop of handleRead() with n of  *)
(* its budget left, "after" is onReady() after handleRead(), "close" a     *)
(* closeNow() still to come.  trySend() is tried with data that is not     *)
(* empty.                                                                  *)
(***************************************************************************)
EXTENDS TcpAccept

CONSTANTS Conns,         \* the connection watchers
          ReadBudget,    \* max_read_bytes_per_tick, in units of one recv()
          RestartClosed  \* the user may call start() after the watcher was closed

ASSUME ConnAssumption ==
  /\ Conns \subseteq Watchers \ (Connects \cup Accepts)
  /\ ReadBudget \in Nat \ {0}
  /\ RestartClosed \in BOOLEAN

VARIABLES
  created,          \* the watchers that exist
  closed,           \* those whose closed_ is set
  peer_closed,      \* those whose peer_closed_ is set
  want_send_ready,  \* those whose want_send_ready_ is set
  restarted         \* history: those started after they were closed

connVars == <<created, closed, peer_closed, want_send_ready, restarted>>

\* poll cannot ask for RDHUP.
Readable == {"IN", "ERR", "HUP"} \cup (IF backend = "epoll" THEN {"RDHUP"} ELSE {})

ConnInit ==
  created = {} /\ closed = {} /\ peer_closed = {} /\ want_send_ready = {} /\ restarted = {}

----------------------------------------------------------------------------
\* createTcpConnectionWatcher: the fd moves from the stream to the watcher.
create(k) ==
  /\ InUser /\ k \notin created
  /\ \E f \in streams :
       /\ streams' = streams \ {f}
       /\ fd' = [fd EXCEPT ![k] = f]
       /\ source' = [source EXCEPT ![k] = Source(k, 0, f, Filter("read"))]
  /\ created' = created \cup {k}
  /\ UNCHANGED <<sock, reg, pending_ops, loopVars, stack, events, attachedVars, canceled, starts,
                 closed, peer_closed, want_send_ready, restarted>>

startConnection(k) ==
  /\ InUser /\ k \in created \ attached /\ MayDefer
  /\ k \in closed => RestartClosed
  /\ attach(k)
  /\ restarted' = restarted \cup ({k} \cap closed)
  /\ UNCHANGED <<sock, loopVars, stack, events, fd, source, connectVars,
                 created, closed, peer_closed, want_send_ready>>

stopConnection(k) ==
  /\ InUser
  /\ detach(k)
  /\ UNCHANGED <<sock, loopVars, stack, events, fd, source, connectVars, connVars>>

\* kqueue: the write source comes and goes; the source of epoll and poll changes its events.
\* Before start(), the write source is attached all the same.
attachWrite(k) ==
  IF k \in write_attached THEN UNCHANGED <<reg, pending_ops, write_attached>>
    ELSE attachSource(WriteSource(k)) /\ write_attached' = write_attached \cup {k}

detachWrite(k) ==
  IF k \notin write_attached THEN UNCHANGED <<reg, pending_ops, write_attached>>
    ELSE /\ reg' = Applied(reg, <<removeSource(WriteSource(k))>>)
         /\ pending_ops' = Deferred(<<removeSource(WriteSource(k))>>)
         /\ write_attached' = write_attached \ {k}

\* Mutant: the interest in EPOLLOUT is noted by the watcher and not set in its source.
armWritable_unset(k) == UNCHANGED <<events, reg, pending_ops, write_attached>>

armWritable(k) ==
  \/ backend = "kqueue" /\ attachWrite(k) /\ UNCHANGED events
  \/ /\ backend # "kqueue"
     /\ IF "OUT" \in events[k] THEN UNCHANGED <<events, reg>>
                               ELSE setEvents(k, Readable \cup {"OUT"})
     /\ UNCHANGED <<pending_ops, write_attached>>

disarmWritable(k) ==
  \/ backend = "kqueue" /\ detachWrite(k) /\ UNCHANGED events
  \/ /\ backend # "kqueue"
     /\ IF "OUT" \notin events[k] THEN UNCHANGED <<events, reg>> ELSE setEvents(k, Readable)
     /\ UNCHANGED <<pending_ops, write_attached>>

\* trySend() when the socket's buffer is full, or becomes full before all is sent.
\* Sending everything changes nothing here.
trySendBlocks(k) ==
  /\ InUser /\ fd[k] # NoFd
  /\ sock[fd[k]].st = "connecting" \/ (sock[fd[k]].st = "up" /\ ~sock[fd[k]].shut)
  /\ sock' = [sock EXCEPT ![fd[k]].full = TRUE]
  /\ want_send_ready' = want_send_ready \cup {k}
  /\ armWritable(k)
  /\ UNCHANGED <<loopVars, stack, fd, source, attached, connectVars,
                 created, closed, peer_closed, restarted>>

trySendFails(k) ==
  /\ MayCall /\ fd[k] # NoFd
  /\ sock[fd[k]].st \in {"error", "idle"} \/ sock[fd[k]].shut
  /\ stack' = <<Calls("on_error", k), Calls("close", k)>> \o stack
  /\ UNCHANGED <<sock, reg, pending_ops, loopVars, watcherVars, connectVars, connVars>>

shutdownWrite(k) ==
  /\ InUser /\ fd[k] # NoFd /\ sock[fd[k]].st = "up"
  /\ sock' = [sock EXCEPT ![fd[k]].shut = TRUE]
  /\ UNCHANGED <<reg, pending_ops, loopVars, stack, watcherVars, connectVars, connVars>>

----------------------------------------------------------------------------
closeNow(k, rest) ==
  \/ /\ k \in closed
     /\ stack' = rest
     /\ UNCHANGED <<sock, reg, pending_ops, fd, attachedVars, closed>>
  \/ /\ k \notin closed
     /\ closed' = closed \cup {k}
     /\ StopAndClose(k)
     /\ stack' = <<Calls("on_close", k)>> \o rest

close(k) ==
  /\ MayCall /\ k \in created
  /\ closeNow(k, stack)
  /\ UNCHANGED <<loopVars, events, source, connectVars, created, peer_closed, want_send_ready,
                 restarted>>

CloseStep(k) ==
  /\ At("close", k)
  /\ closeNow(k, Rest)
  /\ UNCHANGED <<loopVars, events, source, connectVars, created, peer_closed, want_send_ready,
                 restarted>>

\* A later create() makes a new watcher.  stop() would leave a write source behind that
\* was attached before start().
destroyConnection(k) ==
  /\ MayDestroy(k) /\ k \in created
  /\ k \in write_attached => k \in attached
  /\ StopAndClose(k)
  /\ created' = created \ {k}
  /\ closed' = closed \ {k}
  /\ peer_closed' = peer_closed \ {k}
  /\ want_send_ready' = want_send_ready \ {k}
  /\ events' = [events EXCEPT ![k] = Readable]
  /\ source' = [source EXCEPT ![k] = Source(k, 0, NoFd, "any")]
  /\ UNCHANGED <<loopVars, stack, connectVars, restarted>>

----------------------------------------------------------------------------
onReady(k) ==
  /\ At("ready", k)
  /\ LET ev == Head(stack).ev
         after == Frame("after", k, 0, ev)
     IN  \/ /\ fd[k] = NoFd
            /\ stack' = Rest
            /\ UNCHANGED peer_closed
         \/ /\ fd[k] # NoFd /\ "ERR" \in ev
            /\ stack' = <<Calls("on_error", k), Calls("close", k)>> \o Rest
            /\ UNCHANGED peer_closed
         \/ /\ fd[k] # NoFd /\ "ERR" \notin ev
            /\ peer_closed' = IF ev \cap {"HUP", "RDHUP"} # {} THEN peer_closed \cup {k}
                                                                ELSE peer_closed
            /\ stack' = IF "IN" \in ev \/ k \in peer_closed'
                          THEN <<Frame("recv", k, ReadBudget, {}), after>> \o Rest
                          ELSE <<after>> \o Rest
  /\ UNCHANGED <<sock, reg, pending_ops, loopVars, watcherVars, connectVars,
                 created, closed, want_send_ready, restarted>>

\* The budget is used up, or nothing is there to read.
RecvDone(k) ==
  /\ At("recv", k)
  /\ \/ Head(stack).n = 0
     \/ fd[k] # NoFd /\ sock[fd[k]].st \in {"up", "connecting"}
        /\ sock[fd[k]].rx = 0 /\ ~sock[fd[k]].fin
  /\ stack' = Rest
  /\ UNCHANGED <<sock, reg, pending_ops, loopVars, watcherVars, connectVars, connVars>>

RecvData(k) ==
  /\ At("recv", k) /\ Head(stack).n > 0
  /\ fd[k] # NoFd /\ sock[fd[k]].rx > 0
  /\ sock' = [sock EXCEPT ![fd[k]].rx = @ - 1]
  /\ stack' = <<Calls("on_recv", k), Frame("recv", k, Head(stack).n - 1, {})>> \o Rest
  /\ UNCHANGED <<reg, pending_ops, loopVars, watcherVars, connectVars, connVars>>

\* Mutant: the end of the stream is taken for "nothing to read".
RecvEnd_ignored(k) ==
  /\ At("recv", k) /\ Head(stack).n > 0
  /\ fd[k] # NoFd /\ sock[fd[k]].st = "up" /\ sock[fd[k]].rx = 0 /\ sock[fd[k]].fin
  /\ stack' = Rest
  /\ UNCHANGED <<sock, reg, pending_ops, loopVars, watcherVars, connectVars, connVars>>

RecvEnd(k) ==
  /\ At("recv", k) /\ Head(stack).n > 0
  /\ fd[k] # NoFd /\ sock[fd[k]].st = "up" /\ sock[fd[k]].rx = 0 /\ sock[fd[k]].fin
  /\ peer_closed' = peer_closed \cup {k}
  /\ stack' = Rest
  /\ UNCHANGED <<sock, reg, pending_ops, loopVars, watcherVars, connectVars,
                 created, closed, want_send_ready, restarted>>

\* recv() fails, also because on_recv has closed the connection and fd_ is -1.
RecvFails(k) ==
  /\ At("recv", k) /\ Head(stack).n > 0
  /\ fd[k] = NoFd \/ sock[fd[k]].st \in {"error", "idle"}
  /\ stack' = <<Calls("on_error", k), Calls("close", k)>> \o Rest
  /\ UNCHANGED <<sock, reg, pending_ops, loopVars, watcherVars, connectVars, connVars>>

\* onReady() after handleRead(): the peer has closed, or sending may go on.
AfterClosed(k) ==
  /\ At("after", k) /\ k \in peer_closed
  /\ closeNow(k, Rest)
  /\ UNCHANGED <<loopVars, events, source, connectVars, created, peer_closed, want_send_ready,
                 restarted>>

AfterRead(k) ==
  /\ At("after", k) /\ k \notin peer_closed
  /\ \/ /\ "OUT" \in Head(stack).ev /\ k \in want_send_ready
        /\ want_send_ready' = want_send_ready \ {k}
        /\ disarmWritable(k)
        /\ stack' = <<Calls("on_send_ready", k)>> \o Rest
     \/ /\ "OUT" \notin Head(stack).ev \/ k \notin want_send_ready
        /\ stack' = Rest
        /\ UNCHANGED <<want_send_ready, events, reg, pending_ops, write_attached>>
  /\ UNCHANGED <<sock, loopVars, fd, source, attached, connectVars,
                 created, closed, peer_closed, restarted>>

\* kqueue: the read source, and the write source.
onReadReady(k) ==
  /\ At("ready", k) /\ "IN" \in Head(stack).ev
  /\ \/ /\ fd[k] = NoFd
        /\ stack' = Rest
        /\ UNCHANGED peer_closed
     \/ /\ fd[k] # NoFd
        /\ peer_closed' = peer_closed \cup (IF "EOF" \in Head(stack).ev THEN {k} ELSE {})
        /\ stack' = <<Frame("recv", k, ReadBudget, {}), Calls("after", k)>> \o Rest
  /\ UNCHANGED <<sock, reg, pending_ops, loopVars, watcherVars, connectVars,
                 created, closed, want_send_ready, restarted>>

onWriteEof(k) ==
  /\ At("ready", k) /\ {"OUT", "EOF"} \subseteq Head(stack).ev /\ fd[k] # NoFd
  /\ peer_closed' = peer_closed \cup {k}
  /\ closeNow(k, Rest)
  /\ UNCHANGED <<loopVars, events, source, connectVars, created, want_send_ready, restarted>>

onWriteReady(k) ==
  /\ At("ready", k) /\ "OUT" \in Head(stack).ev
  /\ \/ /\ fd[k] = NoFd \/ ("EOF" \notin Head(stack).ev /\ k \notin want_send_ready)
        /\ stack' = Rest
        /\ UNCHANGED <<want_send_ready, events, reg, pending_ops, write_attached>>
     \/ /\ fd[k] # NoFd /\ "EOF" \notin Head(stack).ev /\ k \in want_send_ready
        /\ want_send_ready' = want_send_ready \ {k}
        /\ disarmWritable(k)
        /\ stack' = <<Calls("on_send_ready", k)>> \o Rest
  /\ UNCHANGED <<sock, loopVars, fd, source, attached, connectVars,
                 created, closed, peer_closed, restarted>>

ConnStep(k) ==
  \/ RecvDone(k) \/ RecvData(k) \/ RecvEnd(k) \/ RecvFails(k)
  \/ AfterClosed(k) \/ AfterRead(k) \/ CloseStep(k)
ConnCall(k) ==
  \/ create(k) \/ startConnection(k) \/ stopConnection(k)
  \/ trySendBlocks(k) \/ trySendFails(k) \/ shutdownWrite(k) \/ close(k) \/ destroyConnection(k)

\* The classes: what their users call, and what the core calls.
EpollConnectionCall(k) == backend = "epoll" /\ ConnCall(k)
PollConnectionCall(k) == backend = "poll" /\ ConnCall(k)
KqueueConnectionCall(k) == backend = "kqueue" /\ ConnCall(k)
MacPollConnectionCall(k) == backend = "macpoll" /\ ConnCall(k)

EpollConnectionStep(k) == backend = "epoll" /\ (onReady(k) \/ ConnStep(k))
PollConnectionStep(k) == backend = "poll" /\ (onReady(k) \/ ConnStep(k))
KqueueConnectionStep(k) ==
  backend = "kqueue" /\ (onReadReady(k) \/ onWriteEof(k) \/ onWriteReady(k) \/ ConnStep(k))
MacPollConnectionStep(k) == backend = "macpoll" /\ (onReady(k) \/ ConnStep(k))

ConnectionCall(k) ==
  \/ EpollConnectionCall(k) \/ PollConnectionCall(k)
  \/ KqueueConnectionCall(k) \/ MacPollConnectionCall(k)
ConnectionStep(k) ==
  \/ EpollConnectionStep(k) \/ PollConnectionStep(k)
  \/ KqueueConnectionStep(k) \/ MacPollConnectionStep(k)
=============================================================================
