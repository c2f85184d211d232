------------------------------- MODULE WakeUp -------------------------------
(***************************************************************************)
(* The watchers whose notify() ends a wait() of another thread:            *)
(* platform/{linux,macos,windows}/schedule/watcher/*_wakeup.{cc,mm}.  One  *)
(* family belongs to EventLoop, one to IOWorker.  They are classes of the  *)
(* same shape: start() and stop() attach and detach the source once,       *)
(* notify() puts a notification into a channel, and it leaves the channel  *)
(* when the source's callback reads it or when wait() takes it.            *)
(***************************************************************************)
EXTENDS Integers

\* channel   where a notification waits for the loop
\* needs     what notify() checks first: the descriptor, or attached_
\* read      what one read() of the callback takes: everything, some of the bytes, or
\*           nothing because wait() took the notification out of the channel before
Watcher(channel, needs, read) == [channel |-> channel, needs |-> needs, read |-> read]

EpollWakeUpWatcher    == Watcher("eventfd",  "fd",       "all")
PollWakeUpWatcher     == Watcher("eventfd",  "fd",       "all")
MacPollWakeUpWatcher  == Watcher("pipe",     "fd",       "some")
KqueueWakeUpWatcher   == Watcher("pipe",     "fd",       "some")
CocoaWakeUpWatcher    == Watcher("events",   "attached", "none")
Win32WakeUpWatcher    == Watcher("messages", "attached", "none")
IocpWakeUpWatcher     == Watcher("port",     "attached", "none")

EpollWorkerWakeUpWatcher  == Watcher("eventfd",  "fd",       "all")
PollWorkerWakeUpWatcher   == Watcher("eventfd",  "fd",       "all")
KqueueWorkerWakeUpWatcher == Watcher("pipe",     "fd",       "some")
CocoaWorkerWakeUpWatcher  == Watcher("events",   "attached", "none")
Win32WorkerWakeUpWatcher  == Watcher("messages", "attached", "none")
IocpWorkerWakeUpWatcher   == Watcher("port",     "attached", "none")

\* wakeup_ is not set.
NoWakeUpWatcher == Watcher("nothing", "watcher", "none")

\* The watcher that the constructor of EventLoop makes ...
LoopWakeUp ==
  [LINUX_EPOLL   |-> EpollWakeUpWatcher,   LINUX_POLL   |-> PollWakeUpWatcher,
   MACOS_POLL    |-> MacPollWakeUpWatcher, MACOS_KQUEUE |-> KqueueWakeUpWatcher,
   MACOS_COCOA   |-> CocoaWakeUpWatcher,
   WINDOWS_WIN32 |-> Win32WakeUpWatcher,   WINDOWS_IOCP |-> IocpWakeUpWatcher]

\* ... and the one that IOWorker::bind makes: none for poll on macOS.
WorkerWakeUp ==
  [LINUX_EPOLL   |-> EpollWorkerWakeUpWatcher, LINUX_POLL   |-> PollWorkerWakeUpWatcher,
   MACOS_POLL    |-> NoWakeUpWatcher,          MACOS_KQUEUE |-> KqueueWorkerWakeUpWatcher,
   MACOS_COCOA   |-> CocoaWorkerWakeUpWatcher,
   WINDOWS_WIN32 |-> Win32WorkerWakeUpWatcher, WINDOWS_IOCP |-> IocpWorkerWakeUpWatcher]

BackendTypes == DOMAIN LoopWakeUp

\* Whether notify() leaves a notification, on being attached_.
Notifies(wk, on) == wk.needs = "fd" \/ (wk.needs = "attached" /\ on)

\* wait() reports the notification and leaves it for the callback to read.
Lasting(wk) == wk.read # "none"

\* What one successful read() can leave of n notifications.
LeftBehind(wk, n) == IF wk.read = "all" THEN {0} ELSE 0 .. n - 1
=============================================================================
