----------------------------- MODULE EventCore -----------------------------
(***************************************************************************)
(* The event loop core of one IO worker, platform/schedule/eventloop_core  *)
(* .cc, over one of the backends: IOCP's, and platform/linux/schedule/     *)
(* epoll_backend.cc, poll_backend.cc and platform/macos/schedule/          *)
(* kqueue_backend.cc, poll_backend.cc: the attached sources, the changes   *)
(* deferred while events are dispatched, and what is registered with the   *)
(* kernel.  A registration is for an fd and a filter: kqueue has one for   *)
(* reading and one for writing, the others one for everything.             *)
(*                                                                         *)
(* Everything here runs on the worker's thread.  stack is what that thread *)
(* is in the middle of, innermost first: a frame per handler that has      *)
(* called out and will go on, and a frame for the code of each callback or *)
(* task, which may call any watcher.  The kernel's sockets are external:   *)
(* sock is what the calls observe of them.                                 *)
(***************************************************************************)
EXTENDS Integers, Sequences, FiniteSets, SequencesExt

CONSTANTS Backends,  \* the backends the worker may have been built with
          Watchers,  \* the watchers of the worker
          Fds,       \* the descriptors the process may use
          NoFd,      \* -1
          Worker,    \* stands for the watcher in a frame that belongs to none
          MaxDepth,  \* bound: callbacks inside each other
          MaxOps     \* bound: changes deferred by one dispatch when start() is called

ASSUME CoreAssumption ==
  /\ Backends \subseteq {"epoll", "poll", "kqueue", "macpoll", "iocp"}
  /\ Fds \subseteq Nat /\ IsFiniteSet(Fds)
  /\ NoFd \notin Fds
  /\ Worker \notin Watchers
  /\ MaxDepth \in Nat /\ MaxOps \in Nat

VARIABLES
  backend,      \* the backend of the worker
  sock,         \* the open sockets
  reg,          \* sources_, the armed sources, what the backend has registered
                \* (fd_events_, pollfds_, registered_), what the kernel's list has of it
  pending_ops,  \* pending_ops_
  in_dispatch,  \* in_dispatch_
  snapshot,     \* sources_snapshot
  ready,        \* the raw events not dispatched yet
  stack,
  events,       \* events_ of each watcher's source
  fd,           \* fd_ of each watcher
  source,       \* source_ of each watcher
  orphans,  \* the watchers that are destroyed, but whose source still owns their fd
  attached,       \* the watchers whose attached_ is set
  write_attached  \* those whose write_attached_ is (kqueue connections)

attachedVars == <<attached, write_attached>>
loopVars == <<backend, in_dispatch, snapshot, ready, orphans>>
watcherVars == <<events, fd, source, attachedVars>>
coreVars == <<sock, reg, pending_ops, loopVars, stack, watcherVars>>

Polls == {"poll", "macpoll"}
Events == {"IN", "OUT", "ERR", "HUP", "RDHUP", "NVAL", "EOF"}
Filters == IF backend = "kqueue" THEN {"read", "write"} ELSE {"any"}
Keys == Fds \X Filters

\* st: "idle" is a socket neither connected nor trying, "error" one with SO_ERROR set,
\* "timer" a timerfd.
NoSocket == [st |-> "none", rx |-> 0, fin |-> FALSE, full |-> FALSE, shut |-> FALSE]
NewSocket == [NoSocket EXCEPT !.st = "idle"]
Open == {f \in Fds : sock[f].st # "none"}
\* socket() and accept() return the lowest free descriptor, if there is one.
NewFd == {f \in Fds \ Open : \A g \in Fds \ Open : f <= g}

\* A source object: its watcher, which of the watcher's sources it is, its fd and filter.
Source(w, i, f, flt) == [w |-> w, id |-> i, fd |-> f, flt |-> flt]
Filter(flt) == IF backend = "kqueue" THEN flt ELSE "any"
Key(s) == <<s.fd, s.flt>>
WriteSource(w) == Source(w, 1, source[w].fd, "write")

\* What a source asks for.
Interest(s) ==
  CASE s.flt = "any" -> events[s.w] [] s.flt = "read" -> {"IN"} [] s.flt = "write" -> {"OUT"}

Frame(label, w, n, ev) == [at |-> label, w |-> w, n |-> n, ev |-> ev]
Calls(label, w) == Frame(label, w, 0, {})
At(label, w) == stack # <<>> /\ Head(stack).at = label /\ Head(stack).w = w
Rest == Tail(stack)

Callbacks == {"task", "on_accept", "on_connected", "on_error", "on_recv", "on_send_ready", "on_close",
              "on_timer"}
InUser == stack # <<>> /\ Head(stack).at \in Callbacks
Depth == Cardinality({i \in 1 .. Len(stack) : stack[i].at \in Callbacks})
MayCall == InUser /\ Depth < MaxDepth

\* A watcher is only destroyed between dispatches, and not by a callback of its own: the
\* sources in the snapshot and the handlers under way would still use it.
MayDestroy(w) == InUser /\ ~in_dispatch /\ \A i \in 1 .. Len(stack) : stack[i].w # w

----------------------------------------------------------------------------
(* The backends.  epoll_ctl fails on a closed fd, and MOD on one that is   *)
(* not in the interest list; fd_events_ only follows a success.  poll has  *)
(* no list in the kernel, and takes closed fds.  kqueue notes the          *)
(* registration even if kevent fails, and does not repeat one it has.  An  *)
(* IOCP associates the handle, for good.                                   *)

EpollRegister(r, key, ev) ==
  IF IF r.fd_events[key] = {} THEN key[1] \in Open ELSE key \in r.interest
    THEN [r EXCEPT !.fd_events[key] = ev, !.interest = @ \cup {key}]
    ELSE r

PollRegister(r, key, ev) == [r EXCEPT !.fd_events[key] = ev, !.interest = @ \cup {key}]
MacPollRegister(r, key, ev) == PollRegister(r, key, ev)

KqueueRegister(r, key, ev) ==
  IF r.fd_events[key] # {} THEN r
    ELSE [r EXCEPT !.fd_events[key] = ev, !.interest = @ \cup ({key} \cap (Open \X Filters))]

associateHandle(r, key) == [r EXCEPT !.interest = @ \cup ({key} \cap (Open \X Filters))]

\* What is not registered is left alone.
Unregistered(r, key) ==
  IF r.fd_events[key] = {} THEN r ELSE [r EXCEPT !.fd_events[key] = {}, !.interest = @ \ {key}]

\* poll() moves the last entry of its array into the hole.
EpollUnregister(r, key) == Unregistered(r, key)
PollUnregister(r, key) == Unregistered(r, key)
KqueueUnregister(r, key) == Unregistered(r, key)
MacPollUnregister(r, key) == Unregistered(r, key)

\* arm() and disarm() of a source register and unregister once.
Arming(r, s, registerFd(_, _, _)) ==
  IF s \in r.armed THEN r
    ELSE [registerFd(r, Key(s), Interest(s)) EXCEPT !.armed = @ \cup {s}]

Disarming(r, s, unregisterFd(_, _)) ==
  IF s \notin r.armed THEN r ELSE [unregisterFd(r, Key(s)) EXCEPT !.armed = @ \ {s}]

EpollArm(r, s) == Arming(r, s, EpollRegister)
PollArm(r, s) == Arming(r, s, PollRegister)
KqueueArm(r, s) == Arming(r, s, KqueueRegister)
MacPollArm(r, s) == Arming(r, s, MacPollRegister)
IocpArm(r, s) == [associateHandle(r, Key(s)) EXCEPT !.armed = @ \cup {s}]

EpollDisarm(r, s) == Disarming(r, s, EpollUnregister)
PollDisarm(r, s) == Disarming(r, s, PollUnregister)
KqueueDisarm(r, s) == Disarming(r, s, KqueueUnregister)
MacPollDisarm(r, s) == Disarming(r, s, MacPollUnregister)
IocpDisarm(r, s) == [r EXCEPT !.armed = @ \ {s}]

arm(r, s) ==
  CASE backend = "epoll"   -> EpollArm(r, s)
    [] backend = "poll"    -> PollArm(r, s)
    [] backend = "kqueue"  -> KqueueArm(r, s)
    [] backend = "macpoll" -> MacPollArm(r, s)
    [] backend = "iocp"    -> IocpArm(r, s)

disarm(r, s) ==
  CASE backend = "epoll"   -> EpollDisarm(r, s)
    [] backend = "poll"    -> PollDisarm(r, s)
    [] backend = "kqueue"  -> KqueueDisarm(r, s)
    [] backend = "macpoll" -> MacPollDisarm(r, s)
    [] backend = "iocp"    -> IocpDisarm(r, s)

\* setEvents(), which kqueue's sources do not have: an armed source registers again.
SetEvents(w, ev, registerFd(_, _, _)) ==
  /\ events' = [events EXCEPT ![w] = ev]
  /\ reg' = IF source[w] \in reg.armed THEN registerFd(reg, Key(source[w]), ev) ELSE reg

EpollSetEvents(w, ev) == backend = "epoll" /\ SetEvents(w, ev, EpollRegister)
PollSetEvents(w, ev) == backend = "poll" /\ SetEvents(w, ev, PollRegister)
MacPollSetEvents(w, ev) == backend = "macpoll" /\ SetEvents(w, ev, MacPollRegister)
setEvents(w, ev) == EpollSetEvents(w, ev) \/ PollSetEvents(w, ev) \/ MacPollSetEvents(w, ev)

----------------------------------------------------------------------------
(* addSource and removeSource: the change is applied at once, or after the *)
(* dispatch that is under way.                                             *)

addSource(s) == [kind |-> "add", src |-> s]
removeSource(s) == [kind |-> "remove", src |-> s]

ApplyOp(r, op) ==
  IF op.kind = "add"
    THEN [arm(r, op.src) EXCEPT !.sources = @ \cup {op.src}]
    ELSE [disarm(r, op.src) EXCEPT !.sources = @ \ {op.src}]

\* The singleton makes TLC evaluate each intermediate state once.
ApplyOps(r, ops) == FoldLeft(LAMBDA a, op : CHOOSE x \in {ApplyOp(b, op) : b \in {a}} : TRUE, r, ops)

Applied(r, ops) == IF in_dispatch THEN r ELSE ApplyOps(r, ops)
Deferred(ops) == IF in_dispatch THEN pending_ops \o ops ELSE pending_ops
MayDefer == Len(pending_ops) < MaxOps

attachSource(s) ==
  /\ reg' = Applied(reg, <<addSource(s)>>)
  /\ pending_ops' = Deferred(<<addSource(s)>>)

\* What stop() removes.
Detached(w) ==
  (IF w \in write_attached THEN <<removeSource(WriteSource(w))>> ELSE <<>>)
    \o <<removeSource(source[w])>>

attach(w) ==
  /\ attachSource(source[w])
  /\ attached' = attached \cup {w}
  /\ UNCHANGED write_attached

detach(w) ==
  /\ w \in attached
  /\ reg' = Applied(reg, Detached(w))
  /\ pending_ops' = Deferred(Detached(w))
  /\ attached' = attached \ {w}
  /\ write_attached' = write_attached \ {w}

\* Close leaves the backend alone; a kernel with a list takes the fd out of it,
\* and the association of a port ends.
Forgotten(r, fs) ==
  IF backend \in Polls THEN r
    ELSE [r EXCEPT !.interest = {key \in @ : key[1] \notin fs}]

Shut(fs) == [f \in Fds |-> IF f \in fs THEN NoSocket ELSE sock[f]]

closeFd(w, r) ==
  /\ reg' = Forgotten(r, {fd[w]})
  /\ sock' = Shut({fd[w]})
  /\ fd' = [fd EXCEPT ![w] = NoFd]

DetachAndClose(w) ==
  /\ w \in attached
  /\ closeFd(w, Applied(reg, Detached(w)))
  /\ pending_ops' = Deferred(Detached(w))
  /\ attached' = attached \ {w}
  /\ write_attached' = write_attached \ {w}

\* stop(), then the fd is closed although the watcher was not attached.
StopAndClose(w) ==
  \/ DetachAndClose(w)
  \/ w \notin attached /\ closeFd(w, reg) /\ UNCHANGED <<pending_ops, attachedVars>>

----------------------------------------------------------------------------
(* runOnce: wait, dispatch every raw event to the source of the snapshot   *)
(* with its fd and filter, apply the deferred changes.  All backends are   *)
(* level triggered.  ERR, HUP and poll's NVAL need no interest; kqueue     *)
(* adds EOF to an event instead.                                           *)

Readiness(k) ==
  CASE k.st = "none" -> {"NVAL"}
    [] k.st = "connecting" -> {}
    [] k.st \in {"listen", "timer"} -> IF k.rx > 0 THEN {"IN"} ELSE {}
    [] k.st = "idle"  -> {"OUT", "HUP"}
    [] k.st = "error" -> {"IN", "OUT", "ERR", "HUP", "RDHUP"}
    [] k.st = "up"    -> (IF k.rx > 0 \/ k.fin THEN {"IN"} ELSE {})
                         \cup (IF k.full THEN {} ELSE {"OUT"})
                         \cup (IF k.fin THEN {"RDHUP"} ELSE {})
                         \cup (IF k.fin /\ k.shut THEN {"HUP"} ELSE {})

\* kqueue: the end of what can be read, or written.
Eof(k, flt) ==
  IF k.st = "error" \/ (k.st = "up" /\ IF flt = "read" THEN k.fin ELSE k.shut)
    THEN {"EOF"} ELSE {}

KqueueReported(key) ==
  LET k == sock[key[1]]
      ev == reg.fd_events[key]
  IN  (IF k.st = "idle" THEN {} ELSE Readiness(k) \cap ev)
        \cup (IF Eof(k, key[2]) = {} THEN {} ELSE ev \cup {"EOF"})

PollReported(key) == Readiness(sock[key[1]]) \cap (reg.fd_events[key] \cup {"ERR", "HUP", "NVAL"})

Reported(key) == IF backend = "kqueue" THEN KqueueReported(key) ELSE PollReported(key)

\* wait(), and the snapshot of the sources for the dispatch.
TakeEvents ==
  /\ stack = <<>>
  /\ \E key \in reg.interest : Reported(key) # {}
  /\ ready' = {[key |-> key, ev |-> Reported(key)] :
                 key \in {j \in reg.interest : Reported(j) # {}}}
  /\ snapshot' = reg.sources
  /\ in_dispatch' = TRUE
  /\ stack' = <<Calls("dispatch", Worker)>>
  /\ UNCHANGED <<backend, orphans, sock, reg, pending_ops, watcherVars>>

EpollWait == backend = "epoll" /\ TakeEvents
PollWait == backend = "poll" /\ TakeEvents
KqueueWait == backend = "kqueue" /\ TakeEvents
MacPollWait == backend = "macpoll" /\ TakeEvents
Wait == EpollWait \/ PollWait \/ KqueueWait \/ MacPollWait

Dispatch ==
  /\ At("dispatch", Worker)
  /\ \E e \in ready :
       /\ ready' = ready \ {e}
       /\ LET matching == {s \in snapshot : Key(s) = e.key}
          IN  IF matching = {} THEN UNCHANGED stack
                ELSE \E s \in matching : stack' = <<Frame("ready", s.w, 0, e.ev)>> \o stack
  /\ UNCHANGED <<backend, orphans, sock, reg, pending_ops, in_dispatch, snapshot, watcherVars>>

\* The snapshot and the changes held the last references to the orphans' sources.
OrphanFds == {fd[w] : w \in orphans}

\* Mutant: what was requested last is applied first.
applyPendingChanges_reversed ==
  /\ At("dispatch", Worker) /\ ready = {}
  /\ reg' = Forgotten(ApplyOps(reg, Reverse(pending_ops)), OrphanFds)
  /\ sock' = Shut(OrphanFds)
  /\ fd' = [w \in Watchers |-> IF w \in orphans THEN NoFd ELSE fd[w]]
  /\ orphans' = {}
  /\ pending_ops' = <<>>
  /\ in_dispatch' = FALSE
  /\ snapshot' = {}
  /\ stack' = Rest
  /\ UNCHANGED <<backend, ready, events, source, attachedVars>>

applyPendingChanges ==
  /\ At("dispatch", Worker) /\ ready = {}
  /\ reg' = Forgotten(ApplyOps(reg, pending_ops), OrphanFds)
  /\ sock' = Shut(OrphanFds)
  /\ fd' = [w \in Watchers |-> IF w \in orphans THEN NoFd ELSE fd[w]]
  /\ orphans' = {}
  /\ pending_ops' = <<>>
  /\ in_dispatch' = FALSE
  /\ snapshot' = {}
  /\ stack' = Rest
  /\ UNCHANGED <<backend, ready, events, source, attachedVars>>

----------------------------------------------------------------------------
\* Between two iterations the worker runs tasks, whose code may use the watchers.
RunTask ==
  /\ stack = <<>>
  /\ stack' = <<Calls("task", Worker)>>
  /\ UNCHANGED <<sock, reg, pending_ops, loopVars, watcherVars>>

UserReturns ==
  /\ InUser
  /\ stack' = Rest
  /\ UNCHANGED <<sock, reg, pending_ops, loopVars, watcherVars>>
=============================================================================
