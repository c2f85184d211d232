-------------------------------- MODULE Chat --------------------------------
(***************************************************************************)
(* The chat server, example/tcp_server_async_example/app.cc, on the        *)
(* coroutine library: a room on worker 0, and a session and a writer for   *)
(* each client on the client's worker.  A client in Helpers has another    *)
(* child in its group, which sleeps and sends once: app.cc has one sender  *)
(* for each stream, the lock of sendAll() is there for more.               *)
(*                                                                         *)
(* The room is used from every worker.  Its queue and the outboxes are the *)
(* queues that are pushed to from other threads than their consumer's.     *)
(***************************************************************************)
EXTENDS AsyncTcp

CONSTANT Helpers  \* the clients with a second sender

VARIABLES
  clients,  \* clients_ of the room, weak references
  it        \* the index of broadcastImpl() in it

vars == <<taskVars, tcpVars, clients, it>>
roomVars == <<clients, it>>

Room == <<"room", 0>>
cmds == <<"cmds", 0>>
outbox(k) == <<"outbox", k>>
writer(k) == <<"writer", k>>
helper(k) == <<"helper", k>>

AllCoros  == {Main, Room} \cup {<<r, k>> : r \in {"session", "writer", "helper"}, k \in Clients}
AllQueues == {accepted, cmds} \cup {<<q, k>> : q \in {"recv", "send_ready", "outbox"}, k \in Clients}

ASSUME ChatAssumption ==
  /\ Coros = AllCoros /\ Queues = AllQueues /\ Groups = Clients /\ Helpers \subseteq Clients

\* async_main() is scheduled on worker 0.  An earlier client that has come and gone
\* leaves nothing behind but rr.
Init ==
  /\ TaskInit /\ TcpInit
  /\ frames = [[c \in Coros |-> <<>>] EXCEPT ![Main] = <<Frame("main", 0)>>]
  /\ runq = [[e \in Execs |-> <<>>] EXCEPT ![0] = <<Main>>]
  /\ queue = [q \in Queues |-> AsyncQueue]
  /\ rr \in Execs
  /\ clients = <<>> /\ it = 1

----------------------------------------------------------------------------
(* The references to a client: the frames of its session and its children, *)
(* a Join command, queued or being handled, and the room while it pushes.  *)

RoomAt(labels) == frames[Room] # <<>> /\ Inner(Room).at \in labels

InJoin(k) ==
  \/ \E i \in 1 .. Len(queue[cmds].q) : queue[cmds].q[i] = <<"join", k>>
  \/ got[Room] = <<"join", k>> /\ RoomAt({"command", "cast", "pushed"})
Pinned(k) == RoomAt({"pushed"}) /\ clients[it] = k
InSession(k) == frames[session(k)] # <<>>

Alive == {k \in Clients : InSession(k) \/ InJoin(k) \/ Pinned(k)}

\* A reference is given up on worker e; the last one destroys the client and its stream.
Drop(e, ks) ==
  LET gone == ks \ Alive'
  IN  \/ gone = {} /\ UNCHANGED <<watcher, want_send_ready, inbound>>
      \/ \E k \in gone : DropStream(e, k)

----------------------------------------------------------------------------
(* async_main() and chatSession().                                         *)

async_main(e, c) ==
  /\ At(e, c, "main")
  /\ frames' = [frames EXCEPT ![Room] = <<Frame("room", 0)>>,
                              ![c] = <<Frame("listen", 0), Frame("return", 0)>>]
  /\ queue' = bind(queue, cmds, e)
  /\ runq' = [runq EXCEPT ![e] = @ \o <<Room, c>>]
  /\ suspend(e)
  /\ UNCHANGED <<inbound, hand, got, groupVars, tcpVars, roomVars>>

\* The outbox is bound, the children are spawned in the group, the client joins.
chatSession(e, c) ==
  /\ At(e, c, "session")
  /\ LET k        == Inner(c).on
         children == <<writer(k)>> \o IF k \in Helpers THEN <<helper(k)>> ELSE <<>>
     IN  /\ frames' = [d \in Coros |->
              CASE d \in Range(children) -> <<Frame("child", k)>>
                [] d = c -> <<Frame("recv", k)>>
                [] OTHER -> frames[d]]
         /\ active' = [active EXCEPT ![k] = Len(children)]
         /\ runq' = [runq EXCEPT ![e] = @ \o children]
         /\ queue' = [bind(queue, outbox(k), e) EXCEPT
                        ![cmds].q = Append(@, <<"join", k>>), ![cmds].waiter = None]
         /\ hand' = [hand EXCEPT ![e] = Taken(cmds)]
  /\ UNCHANGED <<inbound, running, got, join_waiter, tcpVars, roomVars>>

SessionRecv(e, c) ==
  /\ At(e, c, "recv")
  /\ await(e, c, "recvSome", Inner(c).on, "received")
  /\ UNCHANGED <<got, queue, groupVars, tcpVars, roomVars>>

\* The stream has ended, or a line was received, or /quit.
SessionReceived(e, c) ==
  /\ At(e, c, "received")
  /\ \/ /\ got[c] = None
        /\ Goto(c, "leave")
        /\ UNCHANGED <<queue, hand>>
     \/ /\ got[c] = <<"line", 0>>
        /\ push(e, cmds, <<"say", 0>>)
        /\ Goto(c, "recv")
     \/ /\ got[c] = <<"quit", 0>>
        /\ push(e, outbox(Inner(c).on), <<"msg", 0>>)
        /\ Goto(c, "leave")
  /\ Consumed(c)
  /\ UNCHANGED <<runq, inbound, running, groupVars, tcpVars, roomVars>>

SessionLeave(e, c) ==
  /\ At(e, c, "leave")
  /\ push(e, cmds, <<"leave", Inner(c).on>>)
  /\ Goto(c, "close outbox")
  /\ UNCHANGED <<runq, inbound, running, got, groupVars, tcpVars, roomVars>>

SessionCloses(e, c) ==
  /\ At(e, c, "close outbox")
  /\ close(e, outbox(Inner(c).on))
  /\ Goto(c, "join group")
  /\ UNCHANGED <<runq, inbound, running, got, groupVars, tcpVars, roomVars>>

SessionJoins(e, c) ==
  /\ At(e, c, "join group")
  /\ await(e, c, "join", Inner(c).on, "session end")
  /\ UNCHANGED <<got, queue, groupVars, tcpVars, roomVars>>

SessionEnds(e, c) ==
  /\ At(e, c, "session end")
  /\ frames' = [frames EXCEPT ![c] = <<>>]
  /\ suspend(e)
  /\ UNCHANGED <<runq, hand, got, queue, groupVars, out, send_locked,
                 send_lock_waiters, timers, listening, rr, chunks, roomVars>>
  /\ Drop(e, {Inner(c).on})

\* childWrapper() starts its task; writer() then sends what is in the outbox.
Child(e, c) ==
  /\ At(e, c, "child")
  /\ await(e, c, c[1], Inner(c).on, "child done")
  /\ UNCHANGED <<got, queue, groupVars, tcpVars, roomVars>>

WriterPops(e, c) ==
  /\ At(e, c, "writer")
  /\ pop(c, outbox(Inner(c).on), "writer got")
  /\ UNCHANGED <<execVars, got, queue, groupVars, tcpVars, roomVars>>

WriterGot(e, c) ==
  /\ At(e, c, "writer got")
  /\ IF got[c] = None THEN final(e, c) ELSE await(e, c, "sendAll", Inner(c).on, "writer")
  /\ Consumed(c)
  /\ UNCHANGED <<queue, groupVars, tcpVars, roomVars>>

Helper(e, c) ==
  /\ \/ At(e, c, "helper") /\ await(e, c, "sleepFor", 0, "slept")
     \/ At(e, c, "slept") /\ await(e, c, "sendAll", Inner(c).on, "return")
  /\ UNCHANGED <<got, queue, groupVars, tcpVars, roomVars>>

----------------------------------------------------------------------------
(* The room.  cmds_ is never closed.                                       *)

RoomPops(e) ==
  /\ At(e, Room, "room")
  /\ pop(Room, cmds, "command")
  /\ UNCHANGED <<execVars, got, queue, groupVars, tcpVars, roomVars>>

\* What remove_if() keeps of s: the entries that are in S, in their order.
Kept(s, S) ==
  LET kept[i \in 0 .. Len(s)] ==
        IF i = 0 THEN <<>>
          ELSE IF s[i] \in S THEN Append(kept[i - 1], s[i]) ELSE kept[i - 1]
  IN  kept[Len(s)]

handle(e) ==
  /\ At(e, Room, "command")
  /\ LET cmd == got[Room]
     IN  clients' = CASE cmd[1] = "join"  -> Append(clients, cmd[2])
                      [] cmd[1] = "leave" ->
                           Kept(clients, Alive \ {cmd[2]})
                      [] OTHER -> clients
  /\ it' = 1
  /\ Goto(Room, "cast")
  /\ UNCHANGED <<execVars, got, queue, groupVars, tcpVars>>

\* broadcastImpl(): a client that is gone is erased, the others get the message.
broadcastImpl(e) ==
  /\ At(e, Room, "cast") /\ it <= Len(clients)
  /\ LET k == clients[it]
     IN  \/ /\ k \notin Alive
            /\ clients' = RemoveAt(clients, it)
            /\ UNCHANGED <<frames, queue, hand>>
         \/ /\ k \in Alive
            /\ push(e, outbox(k), <<"msg", 0>>)
            /\ Goto(Room, "pushed")
            /\ UNCHANGED clients
  /\ UNCHANGED <<runq, inbound, running, got, groupVars, tcpVars, it>>

BroadcastNext(e) ==
  /\ At(e, Room, "pushed")
  /\ Goto(Room, "cast")
  /\ it' = it + 1
  /\ UNCHANGED <<runq, running, hand, got, queue, groupVars, out, send_locked,
                 send_lock_waiters, timers, listening, rr, chunks, clients>>
  /\ Drop(e, {clients[it]})

\* The command goes out of scope, and the next one is awaited.
RoomLoops(e) ==
  /\ At(e, Room, "cast") /\ it > Len(clients)
  /\ pop(Room, cmds, "command")
  /\ Consumed(Room)
  /\ it' = 1
  /\ UNCHANGED <<runq, running, hand, queue, groupVars, out, send_locked,
                 send_lock_waiters, timers, listening, rr, chunks, clients>>
  /\ Drop(e, IF got[Room][1] = "join" THEN {got[Room][2]} ELSE {})

----------------------------------------------------------------------------
SessionStep(e) ==
  running[e] # None /\ LET c == running[e] IN
    \/ async_main(e, c) \/ chatSession(e, c) \/ SessionRecv(e, c) \/ SessionReceived(e, c)
    \/ SessionLeave(e, c) \/ SessionCloses(e, c) \/ SessionJoins(e, c) \/ SessionEnds(e, c)
    \/ Child(e, c) \/ WriterPops(e, c) \/ WriterGot(e, c) \/ Helper(e, c)
RoomStep(e) == RoomPops(e) \/ handle(e) \/ broadcastImpl(e) \/ BroadcastNext(e) \/ RoomLoops(e)

Thread(e) ==
  \/ TaskStep(e) /\ UNCHANGED <<tcpVars, roomVars>>
  \/ (TcpStep(e) \/ TimerFires(e)) /\ UNCHANGED roomVars
  \/ SessionStep(e) \/ RoomStep(e)
Callback ==
  \/ OnAcceptError \/ \E k \in Clients : OnAccept(k)
  \/ \E e \in Execs, k \in Clients :
       OnRecv(e, k, Alive) \/ OnClose(e, k, Alive) \/ OnSendReady(e, k, Alive)

Next ==
  \/ \E e \in Execs : Thread(e)
  \/ Callback /\ UNCHANGED roomVars

Spec == Init /\ [][Next]_vars

\* Every worker's thread goes on: it runs its tasks and its timers.  Peers owe nothing.
FairSpec == Spec /\ \A e \in Execs : WF_vars(Thread(e))
----------------------------------------------------------------------------
Labels == {"main", "listen", "serve", "accept", "served", "room", "command", "cast", "pushed",
           "session", "recv", "received", "leave", "close outbox", "join group", "session end",
           "join", "joined", "child", "child done", "writer", "writer got", "helper", "slept",
           "recvSome", "sendAll", "locked", "send", "send ready",
           "sleepFor", "return", "suspend", "resume"}

\* The state is well formed.
TypeOK ==
  /\ \A e \in Execs :
       /\ \A qs \in {runq[e], inbound[e]} :
            Range(qs) \subseteq Coros \cup ({"start", "cleanup"} \X Clients)
       /\ running[e] \in Coros \cup {None}
       /\ hand[e] \in (Coros \X Execs) \cup {None}
       /\ timers[e] \subseteq Coros
  /\ \A c \in Coros : {f.at : f \in Range(frames[c])} \subseteq Labels
  /\ \A q \in Queues :
       /\ queue[q].closed \in BOOLEAN
       /\ queue[q].exec \in Execs \cup {NoExec}
       /\ queue[q].waiter \in Coros \cup {None}
  /\ active \in [Clients -> 0 .. 2] /\ join_waiter \in [Clients -> Coros \cup {None}]
  /\ watcher \in [Clients -> {"none", "open", "closed"}] /\ out \in [Clients -> Nat]
  /\ want_send_ready \subseteq Clients /\ send_locked \subseteq Clients
  /\ \A k \in Clients : Range(send_lock_waiters[k]) \subseteq Coros
  /\ listening \in BOOLEAN /\ rr \in Execs /\ chunks \in [Clients -> -1 .. MaxChunks]
  /\ Range(clients) \subseteq Clients /\ it \in 1 .. Len(clients) + 1

\* How often chain c is in the queues f[x], x in S.
InQueues(f, S, c) == Cardinality(UNION {{x} \X {i \in DOMAIN f[x] : f[x][i] = c} : x \in S})

\* In how many places chain c is waiting to be resumed, or is running.
Places(c) ==
    Cardinality({e \in Execs : running[e] = c})
  + Cardinality({e \in Execs : hand[e] # None /\ hand[e][1] = c})
  + Cardinality({q \in Queues : queue[q].waiter = c})
  + Cardinality({k \in Clients : join_waiter[k] = c})
  + Cardinality({e \in Execs : c \in timers[e]})
  + InQueues(runq, Execs, c) + InQueues(inbound, Execs, c)
  + InQueues(send_lock_waiters, Clients, c)

\* A coroutine that has not ended is resumed by exactly one party: it runs, is scheduled,
\* or waits in one queue, lock, group or timer.  So no handle is resumed twice, or after
\* it was destroyed, and none is forgotten by everyone, whichever thread wakes it.
OneResumption ==
  \A c \in Coros : Places(c) = IF frames[c] = <<>> THEN 0 ELSE 1

\* Chain c is in sendAll() of client k, between the lock and the unlock.
Sending(c, k) ==
  \E i \in 1 .. Len(frames[c]) :
    /\ frames[c][i].at \in {"send", "send ready"}
    /\ frames[c][i].on = k

\* At most one chain is between lock and unlock of a stream, the lock being passed on
\* while it stays set: the units of two messages never mix in out_.
OneSender ==
  \A k \in Clients : Cardinality({c \in Coros : Sending(c, k)}) <= 1

\* join() returns after the last child: when a session has ended, no child of it is
\* left that would use the client, and the queues of its stream have no waiter.
SessionOutlivesChildren ==
  \A k \in Clients :
    watcher[k] # "none" /\ ~InSession(k) =>
      /\ active[k] = 0
      /\ frames[writer(k)] = <<>> /\ frames[helper(k)] = <<>>

\* When the last reference to a client goes, on whichever worker, its watcher is closed
\* or about to be, and it is closed by its own worker only.
DroppedStreamIsClosed ==
  \A k \in Clients :
    watcher[k] = "open" /\ k \notin Alive =>
      \E qs \in {runq[exec(k)], inbound[exec(k)]} : <<"cleanup", k>> \in Range(qs)

\* A connection that ends, by its peer, by an error or by a failing send, ends its session,
\* its writer and its helper, whatever each of them was waiting for; and so does a session
\* that has left, unless its connection is open and takes no more data.
SessionTerminates ==
  \A k \in Clients :
    (watcher[k] = "closed" \/ queue[outbox(k)].closed)
      ~> (~InSession(k) \/ (watcher[k] = "open" /\ k \in want_send_ready))
=============================================================================
