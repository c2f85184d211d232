----------------------------- MODULE TcpConnect -----------------------------
(***************************************************************************)
(* The connect watchers, platform/linux/network/watcher/                   *)
(* tcp_connect_watcher.cc and its macOS counterpart: the classes of the    *)
(* four backends differ in the source they attach.  start() calls back     *)
(* when it fails, so it is cut where it calls out: the frames "connect"    *)
(* and "attach" are the rest of it, "check" is checkConnectResult().       *)
(*                                                                         *)
(* Assumed of the user: start() is not called again from a callback that   *)
(* start() itself makes.                                                   *)
(***************************************************************************)
EXTENDS EventCore

CONSTANTS Connects,   \* the connect watchers
          MaxStarts   \* bound: calls of start() of each

ASSUME ConnectAssumption == Connects \subseteq Watchers /\ MaxStarts \in Nat

VARIABLES
  canceled,  \* the watchers whose canceled_ is set
  starts,    \* calls of start() of each
  streams    \* the fds owned by LinuxTcpStream objects

connectVars == <<canceled, starts, streams>>

ConnectInit ==
  /\ canceled = {} /\ streams = {}
  /\ starts = [w \in Connects |-> 0]

Starting(w) == \E i \in 1 .. Len(stack) : stack[i].w = w /\ stack[i].at \in {"connect", "attach"}

----------------------------------------------------------------------------
\* The callback of fail().  Its stop() does nothing, and fd_ stays open, before
\* start() has attached the watcher.
fail(w, rest) == stack' = IF w \in canceled THEN rest ELSE <<Calls("on_error", w)>> \o rest

\* start() up to createSocket(): socket() fails, or a later call of the setup
\* does, or none does.  start() goes on after on_error if there is an fd.
start(w) ==
  /\ MayCall /\ starts[w] < MaxStarts
  /\ w \notin attached /\ w \notin canceled /\ ~Starting(w)
  /\ starts' = [starts EXCEPT ![w] = @ + 1]
  /\ \/ /\ fail(w, <<Calls("connect", w)>> \o stack)
        /\ UNCHANGED <<sock, fd>>
     \/ \E f \in NewFd :
          /\ fd' = [fd EXCEPT ![w] = f]
          /\ sock' = [sock EXCEPT ![f] = NewSocket]
          /\ \/ fail(w, <<Calls("connect", w)>> \o stack)
             \/ stack' = <<Calls("connect", w)>> \o stack
  /\ UNCHANGED <<reg, pending_ops, loopVars, events, source, attachedVars, canceled, streams>>

\* startConnect(): connected at once, in progress, or refused at once.
startConnect(w) ==
  /\ At("connect", w)
  /\ \/ /\ fd[w] = NoFd
        /\ stack' = Rest
        /\ UNCHANGED sock
     \/ /\ fd[w] # NoFd
        /\ sock' = [sock EXCEPT ![fd[w]].st = "up"]
        /\ stack' = <<Calls("check", w), Calls("attach", w)>> \o Rest
     \/ /\ fd[w] # NoFd
        /\ sock' = [sock EXCEPT ![fd[w]].st = "connecting"]
        /\ stack' = <<Calls("attach", w)>> \o Rest
     \/ /\ fd[w] # NoFd
        /\ fail(w, <<Calls("attach", w)>> \o Rest)
        /\ UNCHANGED sock
  /\ UNCHANGED <<reg, pending_ops, loopVars, watcherVars, canceled, starts, streams>>

\* The end of start(), which does nothing when on_connected has taken the fd.
startEnds(w) ==
  /\ At("attach", w)
  /\ stack' = Rest
  /\ \/ fd[w] = NoFd /\ UNCHANGED <<reg, pending_ops, source, attachedVars>>
     \/ /\ fd[w] # NoFd
        /\ source' = [source EXCEPT ![w] = Source(w, starts[w], fd[w], Filter("write"))]
        /\ attachSource(source'[w])
        /\ attached' = attached \cup {w}
        /\ UNCHANGED write_attached
  /\ UNCHANGED <<sock, loopVars, events, fd, connectVars>>

stop(w) ==
  /\ InUser
  /\ DetachAndClose(w)
  /\ UNCHANGED <<loopVars, stack, events, source, connectVars>>

\* stop() does nothing, and the socket stays, when start() has not attached yet.
cancel(w) ==
  /\ InUser /\ w \notin canceled
  /\ canceled' = canceled \cup {w}
  /\ \/ DetachAndClose(w)
     \/ w \notin attached /\ UNCHANGED <<sock, reg, pending_ops, fd, attachedVars>>
  /\ UNCHANGED <<loopVars, stack, events, source, starts, streams>>

\* The destructor also closes an fd that stop() leaves; the next start() is another watcher's.
destroy(w) ==
  /\ MayDestroy(w)
  /\ StopAndClose(w)
  /\ canceled' = canceled \ {w}
  /\ source' = [source EXCEPT ![w] = Source(w, 0, NoFd, "any")]
  /\ UNCHANGED <<loopVars, stack, events, starts, streams>>

----------------------------------------------------------------------------
onReadyConnect(w) ==
  /\ At("ready", w)
  /\ stack' = (IF w \in canceled THEN <<>> ELSE <<Calls("check", w)>>) \o Rest
  /\ UNCHANGED <<sock, reg, pending_ops, loopVars, watcherVars, connectVars>>

CheckNothing(w) ==
  /\ At("check", w)
  /\ w \in canceled \/ fd[w] = NoFd
  /\ stack' = Rest
  /\ UNCHANGED <<sock, reg, pending_ops, loopVars, watcherVars, connectVars>>

\* SO_ERROR is set; reading it clears it.
CheckFails(w) ==
  /\ At("check", w)
  /\ w \notin canceled /\ fd[w] # NoFd /\ sock[fd[w]].st = "error"
  /\ fail(w, Rest)
  /\ \/ DetachAndClose(w)
     \/ /\ w \notin attached
        /\ sock' = [sock EXCEPT ![fd[w]].st = "idle"]
        /\ UNCHANGED <<reg, pending_ops, fd, attachedVars>>
  /\ UNCHANGED <<loopVars, events, source, canceled, starts, streams>>

\* Mutant: fd_ is not reset before stop(), which closes the fd of the stream.
CheckSucceeds_closes(w) ==
  /\ At("check", w)
  /\ w \notin canceled /\ fd[w] # NoFd /\ sock[fd[w]].st # "error"
  /\ streams' = streams \cup {fd[w]}
  /\ stack' = <<Calls("on_connected", w)>> \o Rest
  /\ DetachAndClose(w) \/ (w \notin attached /\ UNCHANGED <<sock, reg, pending_ops, fd, attachedVars>>)
  /\ UNCHANGED <<loopVars, events, source, canceled, starts>>

\* Mutant: canceled_ is not looked at.
CheckSucceeds_canceled(w) ==
  /\ At("check", w)
  /\ fd[w] # NoFd /\ sock[fd[w]].st # "error"
  /\ streams' = streams \cup {fd[w]}
  /\ fd' = [fd EXCEPT ![w] = NoFd]
  /\ detach(w) \/ (w \notin attached /\ UNCHANGED <<reg, pending_ops, attachedVars>>)
  /\ stack' = <<Calls("on_connected", w)>> \o Rest
  /\ UNCHANGED <<sock, loopVars, events, source, canceled, starts>>

\* The stream takes the fd, and the source is detached before the callback.
CheckSucceeds(w) ==
  /\ At("check", w)
  /\ w \notin canceled /\ fd[w] # NoFd /\ sock[fd[w]].st # "error"
  /\ streams' = streams \cup {fd[w]}
  /\ fd' = [fd EXCEPT ![w] = NoFd]
  /\ detach(w) \/ (w \notin attached /\ UNCHANGED <<reg, pending_ops, attachedVars>>)
  /\ stack' = <<Calls("on_connected", w)>> \o Rest
  /\ UNCHANGED <<sock, loopVars, events, source, canceled, starts>>

ConnectStep(w) ==
  \/ startConnect(w) \/ startEnds(w) \/ onReadyConnect(w)
  \/ CheckNothing(w) \/ CheckFails(w) \/ CheckSucceeds(w)
ConnectCall(w) == start(w) \/ stop(w) \/ cancel(w) \/ destroy(w)

\* The classes: what their users call, and what follows from it.
EpollConnectCall(w) == backend = "epoll" /\ ConnectCall(w)
PollConnectCall(w) == backend = "poll" /\ ConnectCall(w)
KqueueConnectCall(w) == backend = "kqueue" /\ ConnectCall(w)
MacPollConnectCall(w) == backend = "macpoll" /\ ConnectCall(w)

EpollConnectStep(w) == backend = "epoll" /\ ConnectStep(w)
PollConnectStep(w) == backend = "poll" /\ ConnectStep(w)
KqueueConnectStep(w) == backend = "kqueue" /\ ConnectStep(w)
MacPollConnectStep(w) == backend = "macpoll" /\ ConnectStep(w)

ConnectorCall(w) ==
  EpollConnectCall(w) \/ PollConnectCall(w) \/ KqueueConnectCall(w) \/ MacPollConnectCall(w)
ConnectorStep(w) ==
  EpollConnectStep(w) \/ PollConnectStep(w) \/ KqueueConnectStep(w) \/ MacPollConnectStep(w)
=============================================================================
