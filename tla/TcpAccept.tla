----------------------------- MODULE TcpAccept -----------------------------
(***************************************************************************)
(* The accept watchers, platform/linux/network/watcher/                    *)
(* tcp_accept_watcher.cc and its macOS counterpart.  rx of a listening     *)
(* socket is its backlog; such a socket reports neither an error nor a     *)
(* hangup.  The frame "accept" is acceptLoop() with n connections of its   *)
(* budget left.                                                            *)
(***************************************************************************)
EXTENDS TcpConnect

CONSTANTS Accepts,      \* the accept watchers
          AcceptBudget  \* max_accept_per_tick

ASSUME AcceptAssumption ==
  Accepts \subseteq Watchers \ Connects /\ AcceptBudget \in Nat \ {0}

----------------------------------------------------------------------------
\* createTcpAcceptWatcher; when a call of the setup fails there is no watcher.
createListenSocket(a) ==
  /\ InUser /\ fd[a] = NoFd
  /\ \E f \in NewFd :
       /\ fd' = [fd EXCEPT ![a] = f]
       /\ source' = [source EXCEPT ![a] = Source(a, 0, f, Filter("read"))]
       /\ sock' = [sock EXCEPT ![f] = [NoSocket EXCEPT !.st = "listen"]]
  /\ UNCHANGED <<reg, pending_ops, loopVars, stack, events, attachedVars, connectVars>>

startAccept(a) ==
  /\ InUser /\ fd[a] # NoFd /\ a \notin attached /\ MayDefer
  /\ attach(a)
  /\ UNCHANGED <<sock, loopVars, stack, events, fd, source, connectVars>>

stopAccept(a) ==
  /\ InUser
  /\ detach(a)
  /\ UNCHANGED <<sock, loopVars, stack, events, fd, source, connectVars>>

destroyAccept(a) ==
  /\ MayDestroy(a) /\ fd[a] # NoFd
  /\ StopAndClose(a)
  /\ source' = [source EXCEPT ![a] = Source(a, 0, NoFd, "any")]
  /\ UNCHANGED <<loopVars, stack, events, connectVars>>

----------------------------------------------------------------------------
\* Mutant: the loop ends one connection early.
onReadyAccept_early(a) ==
  /\ At("ready", a)
  /\ stack' = <<Frame("accept", a, AcceptBudget - 1, {})>> \o Rest
  /\ UNCHANGED <<sock, reg, pending_ops, loopVars, watcherVars, connectVars>>

onReadyAccept(a) ==
  /\ At("ready", a)
  /\ stack' = <<Frame("accept", a, AcceptBudget, {})>> \o Rest
  /\ UNCHANGED <<sock, reg, pending_ops, loopVars, watcherVars, connectVars>>

AcceptDone(a) ==
  /\ At("accept", a)
  /\ Head(stack).n = 0 \/ sock[fd[a]].rx = 0
  /\ stack' = Rest
  /\ UNCHANGED <<sock, reg, pending_ops, loopVars, watcherVars, connectVars>>

\* The stream owns the fd, and is handed to on_accept.
Accept(a) ==
  /\ At("accept", a) /\ Head(stack).n > 0 /\ sock[fd[a]].rx > 0
  /\ \E f \in NewFd :
       /\ sock' = [sock EXCEPT ![fd[a]].rx = @ - 1, ![f] = [NoSocket EXCEPT !.st = "up"]]
       /\ streams' = streams \cup {f}
  /\ stack' = <<Calls("on_accept", a), Frame("accept", a, Head(stack).n - 1, {})>> \o Rest
  /\ UNCHANGED <<reg, pending_ops, loopVars, watcherVars, canceled, starts>>

\* No descriptor is left and the connection stays in the backlog, or it is lost: the
\* peer has aborted it, or (macOS) it could not be made nonblocking and is closed.
AcceptFails(a) ==
  /\ At("accept", a) /\ Head(stack).n > 0 /\ sock[fd[a]].rx > 0
  /\ \/ NewFd = {} /\ UNCHANGED sock
     \/ sock' = [sock EXCEPT ![fd[a]].rx = @ - 1]
  /\ stack' = <<Calls("on_error", a)>> \o Rest
  /\ UNCHANGED <<reg, pending_ops, loopVars, watcherVars, connectVars>>

AcceptStep(a) == onReadyAccept(a) \/ AcceptDone(a) \/ Accept(a) \/ AcceptFails(a)
AcceptCall(a) ==
  createListenSocket(a) \/ startAccept(a) \/ stopAccept(a) \/ destroyAccept(a)

\* The classes.
EpollTcpAcceptWatcher(a) == backend = "epoll" /\ (AcceptStep(a) \/ AcceptCall(a))
PollTcpAcceptWatcher(a) == backend = "poll" /\ (AcceptStep(a) \/ AcceptCall(a))
KqueueTcpAcceptWatcher(a) == backend = "kqueue" /\ (AcceptStep(a) \/ AcceptCall(a))
MacPollTcpAcceptWatcher(a) == backend = "macpoll" /\ (AcceptStep(a) \/ AcceptCall(a))
=============================================================================
