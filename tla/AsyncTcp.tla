------------------------------ MODULE AsyncTcp ------------------------------
(***************************************************************************)
(* The TCP adapters of the coroutine library, library/src/asyncnet.cc: the *)
(* stream with its receive queue and its lock for senders, the listener,   *)
(* and serveRoundRobin(), which hands connections to the workers in turn.  *)
(* The watchers below them are external here: callbacks of a watcher that  *)
(* is open, on its worker, between two private tasks (TcpConnection.tla).  *)
(***************************************************************************)
EXTENDS AsyncTask

CONSTANTS Clients,    \* the connections
          WorkerN,    \* worker_n
          MsgUnits,   \* units of data in a message, by who sends it
          MaxChunks   \* bound: chunks a client sends

ASSUME TcpAssumption ==
  /\ Clients \subseteq Nat \ {0} /\ IsFiniteSet(Clients)
  /\ WorkerN \in Nat \ {0} /\ Execs = 0 .. WorkerN - 1 /\ NoExec \notin Execs
  /\ MsgUnits \in [Coros -> Nat \ {0}] /\ MaxChunks \in Nat

VARIABLES
  watcher,            \* the connection watcher of each stream
  want_send_ready,    \* the streams whose watcher owes an on_send_ready
  out,                \* out_ of each stream, in units
  send_locked,        \* the streams whose send_locked_ is set
  send_lock_waiters,  \* send_lock_waiters_ of each stream
  timers,             \* the chains a timer of each worker will schedule
  listening,          \* the accept watcher is attached
  rr,                 \* rr of serveRoundRobin()
  chunks              \* how many chunks each client has sent, or -1 before it connects

streamVars == <<watcher, want_send_ready, out, send_locked, send_lock_waiters>>
tcpVars    == <<streamVars, timers, listening, rr, chunks>>

accepted      == <<"accepted", 0>>
recv_q(k)       == <<"recv", k>>
send_ready_q(k) == <<"send_ready", k>>
Main       == <<"main", 0>>
session(k) == <<"session", k>>
Chunks == {<<"line", 0>>, <<"quit", 0>>}

TcpInit ==
  /\ watcher = [k \in Clients |-> "none"]
  /\ out = [k \in Clients |-> 0]
  /\ want_send_ready = {} /\ send_locked = {}
  /\ send_lock_waiters = [k \in Clients |-> <<>>]
  /\ timers = [e \in Execs |-> {}]
  /\ listening = FALSE
  /\ chunks = [k \in Clients |-> -1]

\* The worker whose executor the stream was created with.
exec(k) == queue[recv_q(k)].exec

\* A closed watcher calls nobody, whatever it still wanted.
CloseWatcher(k) ==
  /\ watcher' = [watcher EXCEPT ![k] = "closed"]
  /\ want_send_ready' = want_send_ready \ {k}

----------------------------------------------------------------------------
(* recvSome() and sendAll().  The free functions await the members and do  *)
(* nothing else: the two tasks are one here.                               *)

recvSome(e, c) ==
  /\ At(e, c, "recvSome")
  /\ pop(c, recv_q(Inner(c).on), "return")
  /\ UNCHANGED <<execVars, got, queue, groupVars, tcpVars>>

return(e, c) ==
  /\ At(e, c, "return")
  /\ final(e, c)
  /\ UNCHANGED <<got, queue, groupVars, tcpVars>>

\* Mutant: await_resume() does not set send_locked_.
Locked_unset(c) ==
  LET k == Inner(c).on
  IN  /\ out' = [out EXCEPT ![k] = @ + MsgUnits[c]]
      /\ Goto(c, "send")
      /\ UNCHANGED send_locked

\* The chain has the lock, and appends its message.
Locked(c) ==
  LET k == Inner(c).on
  IN  /\ send_locked' = send_locked \cup {k}
      /\ out' = [out EXCEPT ![k] = @ + MsgUnits[c]]
      /\ Goto(c, "send")

\* LockAwaiter: the lock is free, or the chain queues for it.
LockAwaiter(e, c) ==
  /\ At(e, c, "sendAll")
  /\ LET k == Inner(c).on
     IN  \/ /\ k \notin send_locked
            /\ Locked(c)
            /\ UNCHANGED <<running, send_lock_waiters>>
         \/ /\ k \in send_locked
            /\ send_lock_waiters' = [send_lock_waiters EXCEPT ![k] = Append(@, c)]
            /\ Goto(c, "locked")
            /\ suspend(e)
            /\ UNCHANGED <<send_locked, out>>
  /\ UNCHANGED <<runq, inbound, hand, got, queue, groupVars, watcher, want_send_ready,
                 timers, listening, rr, chunks>>

LockPassedOn(e, c) ==
  /\ At(e, c, "locked")
  /\ Locked(c)
  /\ UNCHANGED <<execVars, got, queue, groupVars, watcher, want_send_ready, send_lock_waiters,
                 timers, listening, rr, chunks>>

\* unlockSend_: the lock passes to the first waiter, or is free.
unlockSend(k) ==
  IF send_lock_waiters[k] = <<>>
    THEN send_locked' = send_locked \ {k} /\ UNCHANGED send_lock_waiters
    ELSE /\ send_lock_waiters' = [send_lock_waiters EXCEPT ![k] = Tail(@)]
         /\ UNCHANGED send_locked

\* sendAll() ends: the unlocker, then the final awaiter, after the chains in `woken`.
SendEnds(e, c, woken) ==
  LET k    == Inner(c).on
      next == IF send_lock_waiters[k] = <<>> THEN <<>> ELSE <<Head(send_lock_waiters[k])>>
  IN  /\ unlockSend(k)
      /\ frames' = [frames EXCEPT ![c] = Tail(@)]
      /\ runq' = [runq EXCEPT ![e] = @ \o woken \o next \o <<c>>]
      /\ suspend(e)
      /\ UNCHANGED <<inbound, hand>>

\* Everything is sent.
SendDone(e, c) ==
  /\ At(e, c, "send") /\ out[Inner(c).on] = 0
  /\ SendEnds(e, c, <<>>)
  /\ UNCHANGED <<got, queue, groupVars, watcher, want_send_ready, out, timers, listening, rr, chunks>>

\* trySend() fails, at once when the watcher is closed; otherwise on_error and on_close
\* have been called when it returns.
SendFails(e, c) ==
  /\ At(e, c, "send") /\ out[Inner(c).on] > 0
  /\ LET k  == Inner(c).on
         qs == {recv_q(k), send_ready_q(k)}
     IN  /\ CloseWatcher(k)
         /\ queue' = ClosedLocal(qs)
         /\ SendEnds(e, c, Waiters(qs))
  /\ UNCHANGED <<got, groupVars, out, timers, listening, rr, chunks>>

\* trySend() sends something: up to its limit, or until the socket is full.
SendSome(e, c) ==
  /\ At(e, c, "send") /\ watcher[Inner(c).on] = "open"
  /\ LET k == Inner(c).on
     IN  \E n \in 1 .. out[k] :
           /\ out' = [out EXCEPT ![k] = @ - n]
           /\ \/ UNCHANGED want_send_ready
              \/ n < out[k] /\ want_send_ready' = want_send_ready \cup {k}
  /\ UNCHANGED <<taskVars, watcher, send_locked, send_lock_waiters, timers, listening, rr, chunks>>

SendBlocks(e, c) ==
  /\ At(e, c, "send") /\ out[Inner(c).on] > 0 /\ watcher[Inner(c).on] = "open"
  /\ want_send_ready' = want_send_ready \cup {Inner(c).on}
  /\ pop(c, send_ready_q(Inner(c).on), "send ready")
  /\ UNCHANGED <<execVars, got, queue, groupVars, watcher, out, send_locked, send_lock_waiters,
                 timers, listening, rr, chunks>>

SendReady(e, c) ==
  /\ At(e, c, "send ready")
  /\ \/ /\ got[c] = None
        /\ SendEnds(e, c, <<>>)
     \/ /\ got[c] # None
        /\ Goto(c, "send")
        /\ UNCHANGED <<execVars, send_locked, send_lock_waiters>>
  /\ Consumed(c)
  /\ UNCHANGED <<queue, groupVars, watcher, want_send_ready, out, timers, listening, rr, chunks>>

----------------------------------------------------------------------------
(* sleepFor(): a delay that is not positive returns, another one waits for *)
(* a timer, which schedules the chain.                                     *)

sleepFor(e, c) ==
  /\ At(e, c, "sleepFor")
  /\ \/ final(e, c) /\ UNCHANGED timers
     \/ /\ timers' = [timers EXCEPT ![e] = @ \cup {c}]
        /\ Goto(c, "return")
        /\ suspend(e)
        /\ UNCHANGED <<runq, inbound, hand>>
  /\ UNCHANGED <<got, queue, groupVars, streamVars, listening, rr, chunks>>

TimerFires(e) ==
  /\ Idle(e)
  /\ \E c \in timers[e] :
       /\ timers' = [timers EXCEPT ![e] = @ \ {c}]
       /\ runq' = Posted(runq, c, e)
  /\ UNCHANGED <<inbound, running, hand, frames, got, queue, groupVars, streamVars,
                 listening, rr, chunks>>

----------------------------------------------------------------------------
(* serveRoundRobin().                                                      *)

Listen(e, c) ==
  /\ At(e, c, "listen")
  /\ listening' = TRUE
  /\ queue' = bind(queue, accepted, e)
  /\ Goto(c, "serve")
  /\ UNCHANGED <<execVars, got, groupVars, streamVars, timers, rr, chunks>>

\* acceptStream_(), awaited and run.
acceptStream(e, c) ==
  /\ \/ At(e, c, "serve") /\ await(e, c, "accept", 0, "served")
     \/ At(e, c, "accept") /\ pop(c, accepted, "return") /\ UNCHANGED execVars
  /\ UNCHANGED <<got, queue, groupVars, tcpVars>>

Served(e, c) ==
  /\ At(e, c, "served")
  /\ \/ /\ got[c] = None
        /\ final(e, c)
        /\ UNCHANGED rr
     \/ /\ got[c] # None
        /\ inbound' = Posted(inbound, <<"start", got[c][2]>>, rr % WorkerN)
        /\ rr' = (rr + 1) % WorkerN
        /\ Goto(c, "serve")
        /\ UNCHANGED <<runq, running, hand>>
  /\ Consumed(c)
  /\ UNCHANGED <<queue, groupVars, streamVars, timers, listening, chunks>>

\* The task posted to the target: AsyncTcpStream::create, then the handler is spawned.
StartSession(e) ==
  /\ Idle(e) /\ runq[e] # <<>> /\ Head(runq[e])[1] = "start"
  /\ LET k == Head(runq[e])[2]
     IN  /\ runq' = [runq EXCEPT ![e] = Append(Tail(@), session(k))]
         /\ frames' = Spawned(frames, session(k), "session", k)
         /\ queue' = bind(bind(queue, recv_q(k), e), send_ready_q(k), e)
         /\ watcher' = [watcher EXCEPT ![k] = "open"]
  /\ UNCHANGED <<inbound, running, hand, got, groupVars, want_send_ready, out, send_locked,
                 send_lock_waiters, timers, listening, rr, chunks>>

----------------------------------------------------------------------------
(* The callbacks of the watchers.  `alive` are the streams that exist: the *)
(* callbacks hold them weakly.                                             *)

OnAccept(k) ==
  /\ Idle(0) /\ listening /\ chunks[k] = -1
  /\ chunks' = [chunks EXCEPT ![k] = 0]
  /\ queue' = PushedLocal(accepted, <<"stream", k>>)
  /\ runq' = [runq EXCEPT ![0] = @ \o WokenLocal(accepted)]
  /\ UNCHANGED <<inbound, running, hand, frames, got, groupVars, streamVars, timers, listening, rr>>

\* Bound: while there is a client still to come.
OnAcceptError ==
  /\ Idle(0) /\ listening /\ \E k \in Clients : chunks[k] = -1
  /\ listening' = FALSE
  /\ queue' = ClosedLocal({accepted})
  /\ runq' = [runq EXCEPT ![0] = @ \o Waiters({accepted})]
  /\ UNCHANGED <<inbound, running, hand, frames, got, groupVars, streamVars, timers, rr, chunks>>

OnRecv(e, k, alive) ==
  /\ Idle(e) /\ exec(k) = e /\ watcher[k] = "open" /\ chunks[k] < MaxChunks
  /\ chunks' = [chunks EXCEPT ![k] = @ + 1]
  /\ \/ /\ k \in alive
        /\ \E v \in Chunks : queue' = PushedLocal(recv_q(k), v)
        /\ runq' = [runq EXCEPT ![e] = @ \o WokenLocal(recv_q(k))]
     \/ k \notin alive /\ UNCHANGED <<queue, runq>>
  /\ UNCHANGED <<inbound, running, hand, frames, got, groupVars, streamVars, timers, listening, rr>>

\* Mutant: only the receive queue is closed.
OnClose_recv(e, k, alive) ==
  /\ Idle(e) /\ exec(k) = e /\ watcher[k] = "open"
  /\ CloseWatcher(k)
  /\ LET qs == IF k \in alive THEN {recv_q(k)} ELSE {}
     IN  /\ queue' = ClosedLocal(qs)
         /\ runq' = [runq EXCEPT ![e] = @ \o Waiters(qs)]
  /\ UNCHANGED <<inbound, running, hand, frames, got, groupVars, out, send_locked,
                 send_lock_waiters, timers, listening, rr, chunks>>

\* on_error, which is followed by on_close, does the same.
OnClose(e, k, alive) ==
  /\ Idle(e) /\ exec(k) = e /\ watcher[k] = "open"
  /\ CloseWatcher(k)
  /\ LET qs == IF k \in alive THEN {recv_q(k), send_ready_q(k)} ELSE {}
     IN  /\ queue' = ClosedLocal(qs)
         /\ runq' = [runq EXCEPT ![e] = @ \o Waiters(qs)]
  /\ UNCHANGED <<inbound, running, hand, frames, got, groupVars, out, send_locked,
                 send_lock_waiters, timers, listening, rr, chunks>>

OnSendReady(e, k, alive) ==
  /\ Idle(e) /\ exec(k) = e /\ watcher[k] = "open" /\ k \in want_send_ready
  /\ want_send_ready' = want_send_ready \ {k}
  /\ \/ /\ k \in alive
        /\ queue' = PushedLocal(send_ready_q(k), <<"ready", 0>>)
        /\ runq' = [runq EXCEPT ![e] = @ \o WokenLocal(send_ready_q(k))]
     \/ k \notin alive /\ UNCHANGED <<queue, runq>>
  /\ UNCHANGED <<inbound, running, hand, frames, got, groupVars, watcher, out, send_locked,
                 send_lock_waiters, timers, listening, rr, chunks>>

\* Mutant: the watcher is left to itself.
DropStream_leaks(e, k) == UNCHANGED <<inbound, watcher, want_send_ready>>

\* ~AsyncTcpStream on worker e: the watcher is closed on its own worker.
DropStream(e, k) ==
  IF exec(k) = e
    THEN CloseWatcher(k) /\ UNCHANGED inbound
    ELSE inbound' = Posted(inbound, <<"cleanup", k>>, exec(k)) /\ UNCHANGED <<watcher, want_send_ready>>

Cleanup(e) ==
  /\ Idle(e) /\ runq[e] # <<>> /\ Head(runq[e])[1] = "cleanup"
  /\ CloseWatcher(Head(runq[e])[2])
  /\ runq' = [runq EXCEPT ![e] = Tail(@)]
  /\ UNCHANGED <<inbound, running, hand, frames, got, queue, groupVars, out, send_locked,
                 send_lock_waiters, timers, listening, rr, chunks>>

TcpStep(e) ==
  \/ StartSession(e) \/ Cleanup(e)
  \/ running[e] # None /\ LET c == running[e] IN
       \/ recvSome(e, c) \/ return(e, c) \/ LockAwaiter(e, c) \/ LockPassedOn(e, c)
       \/ SendDone(e, c) \/ SendFails(e, c) \/ SendSome(e, c) \/ SendBlocks(e, c)
       \/ SendReady(e, c) \/ sleepFor(e, c)
       \/ Listen(e, c) \/ acceptStream(e, c) \/ Served(e, c)
=============================================================================
