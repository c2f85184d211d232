---------------------------- MODULE WorkerTimer ----------------------------
(***************************************************************************)
(* The timer watchers of a worker, platform/linux/schedule/watcher/        *)
(* epoll_worker_timer.cc and poll_worker_timer.cc: a timerfd, whose rx is  *)
(* the number of expirations the next read() returns.  The callback of the *)
(* source shares the state, and with it the fd, with the watcher: a        *)
(* watcher may be destroyed at any time, and the fd is closed with the     *)
(* last of the two.  The frame "drain" is the callback's loop, "expire"    *)
(* has n expirations read and not reported.                                *)
(***************************************************************************)
EXTENDS EventCore

CONSTANTS Timers,   \* the timer watchers
          MaxTicks  \* bound: expirations of each

ASSUME TimerAssumption == Timers \subseteq Watchers /\ MaxTicks \in Nat

VARIABLES
  spec,   \* what each timerfd is set to
  ticks,  \* how often each has expired
  owed    \* the expirations of each not reported yet, and not discarded either

timerVars == <<spec, ticks, owed>>

TimerInit ==
  /\ spec = [t \in Timers |-> "off"]
  /\ ticks = [t \in Timers |-> 0]
  /\ owed = [t \in Timers |-> 0]

Alive(t) == fd[t] # NoFd /\ t \notin orphans

----------------------------------------------------------------------------
\* The constructor, which throws if there is no descriptor left.
createTimer(t) ==
  /\ InUser /\ fd[t] = NoFd
  /\ \E f \in NewFd :
       /\ fd' = [fd EXCEPT ![t] = f]
       /\ source' = [source EXCEPT ![t] = Source(t, 0, f, "any")]
       /\ sock' = [sock EXCEPT ![f] = [NoSocket EXCEPT !.st = "timer"]]
  /\ spec' = [spec EXCEPT ![t] = "off"]
  /\ owed' = [owed EXCEPT ![t] = 0]
  /\ UNCHANGED <<reg, pending_ops, loopVars, stack, events, attachedVars, ticks>>

startTimer(t) ==
  /\ InUser /\ Alive(t) /\ t \notin attached /\ MayDefer
  /\ attach(t)
  /\ UNCHANGED <<sock, loopVars, stack, events, fd, source, timerVars>>

stopTimer(t) ==
  /\ InUser
  /\ detach(t)
  /\ UNCHANGED <<sock, loopVars, stack, events, fd, source, timerVars>>

\* timerfd_settime() discards the expirations that have not been read.
Settime(t, s) ==
  /\ InUser /\ Alive(t)
  /\ spec' = [spec EXCEPT ![t] = s]
  /\ owed' = [owed EXCEPT ![t] = @ - sock[fd[t]].rx]
  /\ sock' = [sock EXCEPT ![fd[t]].rx = 0]
  /\ UNCHANGED <<reg, pending_ops, loopVars, stack, watcherVars, ticks>>

setItimerspec(t) == \E s \in {"once", "periodic"} : Settime(t, s)
clearItimerspec(t) == Settime(t, "off")

\* A dispatch under way may still hold the source, in its snapshot or to remove it.
Held(t) ==
  \/ source[t] \in snapshot \cup {pending_ops[i].src : i \in 1 .. Len(pending_ops)}
  \/ in_dispatch /\ t \in attached

destroyTimer(t) ==
  /\ InUser /\ Alive(t)
  /\ \/ ~Held(t) /\ StopAndClose(t) /\ UNCHANGED orphans
     \/ /\ Held(t)
        /\ orphans' = orphans \cup {t}
        /\ detach(t) \/ (t \notin attached /\ UNCHANGED <<reg, pending_ops, attachedVars>>)
        /\ UNCHANGED <<sock, fd>>
  /\ UNCHANGED <<backend, in_dispatch, snapshot, ready, stack, events, source, timerVars>>

----------------------------------------------------------------------------
\* The source's callback: read() until there is nothing to read.
onReadyTimer(t) ==
  /\ At("ready", t)
  /\ stack' = <<Calls("drain", t)>> \o Rest
  /\ UNCHANGED <<sock, reg, pending_ops, loopVars, watcherVars, timerVars>>

ReadExpirations(t) ==
  /\ At("drain", t) /\ sock[fd[t]].rx > 0
  /\ stack' = <<Frame("expire", t, sock[fd[t]].rx, {})>> \o Rest
  /\ sock' = [sock EXCEPT ![fd[t]].rx = 0]
  /\ UNCHANGED <<reg, pending_ops, loopVars, watcherVars, timerVars>>

Drained(t) ==
  /\ At("drain", t) /\ sock[fd[t]].rx = 0
  /\ stack' = Rest
  /\ UNCHANGED <<sock, reg, pending_ops, loopVars, watcherVars, timerVars>>

\* Mutant: the callback is called once for all that was read.
CallBack_once(t) ==
  /\ At("expire", t)
  /\ stack' = <<Calls("on_timer", t), Calls("drain", t)>> \o Rest
  /\ owed' = [owed EXCEPT ![t] = @ - 1]
  /\ UNCHANGED <<sock, reg, pending_ops, loopVars, watcherVars, spec, ticks>>

\* cb, once for each expiration; then the next read().
CallBack(t) ==
  /\ At("expire", t)
  /\ LET n == Head(stack).n
     IN  stack' = <<Calls("on_timer", t),
                    IF n = 1 THEN Calls("drain", t) ELSE Frame("expire", t, n - 1, {})>> \o Rest
  /\ owed' = [owed EXCEPT ![t] = @ - 1]
  /\ UNCHANGED <<sock, reg, pending_ops, loopVars, watcherVars, spec, ticks>>

\* The kernel.
Expire(t) ==
  /\ fd[t] # NoFd /\ spec[t] # "off" /\ ticks[t] < MaxTicks
  /\ sock' = [sock EXCEPT ![fd[t]].rx = @ + 1]
  /\ ticks' = [ticks EXCEPT ![t] = @ + 1]
  /\ owed' = [owed EXCEPT ![t] = @ + 1]
  /\ spec' = [spec EXCEPT ![t] = IF @ = "once" THEN "off" ELSE @]
  /\ UNCHANGED <<reg, pending_ops, loopVars, stack, watcherVars>>

TimerStep(t) == onReadyTimer(t) \/ ReadExpirations(t) \/ Drained(t) \/ CallBack(t)
TimerCall(t) ==
  \/ createTimer(t) \/ startTimer(t) \/ stopTimer(t)
  \/ setItimerspec(t) \/ clearItimerspec(t) \/ destroyTimer(t)

\* The classes.
EpollWorkerTimerWatcher(t) == backend = "epoll" /\ (TimerStep(t) \/ TimerCall(t))
PollWorkerTimerWatcher(t) == backend = "poll" /\ (TimerStep(t) \/ TimerCall(t))
=============================================================================
