------------------------------ MODULE IocpTcp ------------------------------
(***************************************************************************)
(* The IOCP watchers, platform/windows/network/watcher/                    *)
(* tcp_connect_watcher.cc, tcp_accept_watcher.cc and                       *)
(* tcp_connection_watcher.cc.  Handlers are cut where they call back: the  *)
(* frame "connect" is the rest of start() after createSocket(), "post" the *)
(* loop of start() at operation n, "repost" the postAccept() at the end of *)
(* onCompletion(), "drop" the closeFd() of a postAccept() that failed,     *)
(* "rearm" the startRecv() after on_recv, "close" a closeNow() still to    *)
(* come.                                                                   *)
(*                                                                         *)
(* start() does not ask whether the operations of the last start() have    *)
(* ended.  A start() that comes too early uses an OVERLAPPED twice;        *)
(* `restarted_early' remembers it, and the program is not followed any     *)
(* further then.  Assumed of the user: start() is not called once a        *)
(* connection is closed.                                                   *)
(***************************************************************************)
EXTENDS IocpPort

CONSTANTS Connects, Accepts, Conns,  \* the watchers of each kind
          AcceptDepth,               \* the number of AcceptEx operations
          MaxStarts                  \* bound: calls of start() of a connect watcher

ASSUME IocpAssumption ==
  /\ Watchers = Connects \cup Accepts \cup Conns
  /\ Connects \cap Accepts = {} /\ Conns \cap (Connects \cup Accepts) = {}
  /\ AcceptDepth \in Nat \ {0} /\ MaxStarts \in Nat
  /\ Overlappeds = (Connects \X {"connect"}) \cup (Accepts \X (1 .. AcceptDepth))
                     \cup (Conns \X {"recv", "send"})

VARIABLES
  streams,         \* the sockets owned by WindowsTcpStream objects
  canceled,        \* the connect watchers whose canceled_ is set
  starts,          \* calls of start() of each of them
  accept_fd,       \* accept_fd of each operation of the accept watchers
  created,         \* the connection watchers that exist
  closed,          \* those whose closed_ is set
  want_send_ready, \* those whose want_send_ready_ is set
  restarted_early  \* history: start() came while an operation of the watcher had not ended

tcpVars == <<streams, canceled, starts, accept_fd, created, closed, want_send_ready>>
exceptStack == <<sock, reg, pending_ops, loopVars, watcherVars>>

AcceptOps == Accepts \X (1 .. AcceptDepth)

TcpInit ==
  /\ streams = {} /\ canceled = {} /\ created = {} /\ closed = {} /\ want_send_ready = {}
  /\ starts = [c \in Connects |-> 0]
  /\ restarted_early = FALSE
  /\ accept_fd = [op \in AcceptOps |-> NoFd]

OfWatcher(w) == {ov \in Overlappeds : ov[1] = w}

\* No operation of w is outstanding, and none is about to be issued or given up.
Quiesced(w) ==
  /\ \A ov \in OfWatcher(w) : ~Outstanding(ov)
  /\ \A i \in 1 .. Len(stack) :
       stack[i].w = w => stack[i].at \notin {"connect", "post", "repost", "drop"}
Restarted(w) == restarted_early' = (restarted_early \/ ~Quiesced(w))

CloseSocket(w, r) ==
  /\ closeFd(w, r)
  /\ IF fd[w] = NoFd THEN UNCHANGED <<inflight, port, result, lost>> ELSE Abort(fd[w])

----------------------------------------------------------------------------
(* The connect watcher.                                                    *)

onErrorUnlessCanceled(c, rest) ==
  stack' = IF c \in canceled THEN rest ELSE <<Calls("on_error", c)>> \o rest

\* start() up to createSocket(), which may fail without a socket or, when bind() does,
\* with one: start() goes on then.
startConnecting(c) ==
  /\ MayCall /\ starts[c] < MaxStarts
  /\ c \notin attached \cup canceled /\ Restarted(c)
  /\ starts' = [starts EXCEPT ![c] = @ + 1]
  /\ \/ onErrorUnlessCanceled(c, <<Calls("connect", c)>> \o stack) /\ UNCHANGED <<sock, fd>>
     \/ \E f \in NewFd :
          /\ fd' = [fd EXCEPT ![c] = f]
          /\ sock' = [sock EXCEPT ![f] = NewSocket]
          /\ \/ onErrorUnlessCanceled(c, <<Calls("connect", c)>> \o stack)
             \/ stack' = <<Calls("connect", c)>> \o stack
  /\ UNCHANGED <<reg, pending_ops, loopVars, events, source, attachedVars, portVars,
                 streams, canceled, accept_fd, created, closed, want_send_ready>>

\* The rest of start(): nothing without a socket; the source is attached, and ConnectEx is
\* issued, or refused and the watcher stopped, or, after cancel(), not tried.
startConnect(c) ==
  /\ At("connect", c)
  /\ LET s == Source(c, starts[c], fd[c], "any")
     IN  \/ /\ fd[c] = NoFd
            /\ stack' = Rest
            /\ UNCHANGED <<sock, reg, pending_ops, fd, source, attached, portVars>>
         \/ /\ fd[c] # NoFd
            /\ source' = [source EXCEPT ![c] = s]
            /\ attachSource(s)
            /\ attached' = attached \cup {c}
            /\ IF c \in canceled THEN UNCHANGED portVars ELSE Issue(<<c, "connect">>, fd[c])
            /\ stack' = Rest
            /\ UNCHANGED <<sock, fd>>
         \/ /\ fd[c] # NoFd /\ c \notin canceled
            /\ source' = [source EXCEPT ![c] = s]
            /\ LET ops == <<addSource(s), removeSource(s)>>
               IN  CloseSocket(c, Applied(reg, ops)) /\ pending_ops' = Deferred(ops)
            /\ stack' = <<Calls("on_error", c)>> \o Rest
            /\ UNCHANGED <<attached, busy>>
  /\ UNCHANGED <<loopVars, events, write_attached, tcpVars>>

StopConnecting(c) ==
  /\ c \in attached
  /\ CloseSocket(c, Applied(reg, Detached(c)))
  /\ pending_ops' = Deferred(Detached(c))
  /\ attached' = attached \ {c}
  /\ UNCHANGED write_attached

stopConnecting(c) ==
  /\ InUser
  /\ StopConnecting(c)
  /\ UNCHANGED <<loopVars, stack, events, source, busy, tcpVars>>

cancel(c) ==
  /\ InUser /\ c \notin canceled
  /\ canceled' = canceled \cup {c}
  /\ \/ StopConnecting(c)
     \/ c \notin attached /\ UNCHANGED <<sock, reg, pending_ops, fd, attachedVars,
                                         inflight, port, result, lost>>
  /\ UNCHANGED <<loopVars, stack, events, source, busy, streams, starts, accept_fd,
                 created, closed, want_send_ready>>

ConnectIgnores(c) ==
  /\ At("ready", c)
  /\ c \in canceled \/ fd[c] = NoFd \/ Head(stack).ev # {<<c, "connect">>}
  /\ Ignore
  /\ UNCHANGED <<exceptStack, inflight, port, result, busy, tcpVars>>

\* onCompletion(): the stream takes the socket, and the source is detached.
ConnectCompletes(c) ==
  /\ At("ready", c)
  /\ c \notin canceled /\ fd[c] # NoFd /\ Head(stack).ev = {<<c, "connect">>}
  /\ result[<<c, "connect">>] = "done"
  /\ streams' = streams \cup {fd[c]}
  /\ fd' = [fd EXCEPT ![c] = NoFd]
  /\ detach(c)
  /\ busy' = busy \ {<<c, "connect">>}
  /\ stack' = <<Calls("on_connected", c)>> \o Rest
  /\ UNCHANGED <<sock, loopVars, events, source, inflight, port, result, lost,
                 canceled, starts, accept_fd, created, closed, want_send_ready>>

ConnectFails(c) ==
  /\ At("ready", c)
  /\ c \notin canceled /\ fd[c] # NoFd /\ Head(stack).ev = {<<c, "connect">>}
  /\ result[<<c, "connect">>] = "error"
  /\ StopConnecting(c)
  /\ busy' = busy \ {<<c, "connect">>}
  /\ stack' = <<Calls("on_error", c)>> \o Rest
  /\ UNCHANGED <<loopVars, events, source, tcpVars>>

IocpTcpConnectWatcher(c) ==
  \/ startConnecting(c)
  \/ /\ \/ startConnect(c) \/ stopConnecting(c) \/ cancel(c)
        \/ ConnectIgnores(c) \/ ConnectCompletes(c) \/ ConnectFails(c)
     /\ UNCHANGED restarted_early

----------------------------------------------------------------------------
(* The accept watcher.  Its listening socket stays open.                   *)

createListenSocket(a) ==
  /\ InUser /\ fd[a] = NoFd
  /\ \E f \in NewFd :
       /\ fd' = [fd EXCEPT ![a] = f]
       /\ source' = [source EXCEPT ![a] = Source(a, 0, f, "any")]
       /\ sock' = [sock EXCEPT ![f] = [NoSocket EXCEPT !.st = "listen"]]
  /\ UNCHANGED <<reg, pending_ops, loopVars, stack, events, attachedVars, portVars, tcpVars>>

startAccept(a) ==
  /\ MayCall /\ fd[a] # NoFd /\ a \notin attached /\ Restarted(a) /\ MayDefer
  /\ attach(a)
  /\ stack' = <<Frame("post", a, 1, {})>> \o stack
  /\ UNCHANGED <<sock, loopVars, events, fd, source, portVars, tcpVars>>

stopAccept(a) ==
  /\ InUser
  /\ detach(a)
  /\ UNCHANGED <<sock, loopVars, stack, events, fd, source, portVars, tcpVars>>

\* The socket of operation op is replaced by a new one and AcceptEx issued.  When there is
\* no socket, or AcceptEx fails, on_error is called; the new socket is closed after that.
postAccept(op, rest) ==
  LET a == op[1]
      free == (Fds \ Open) \cup ({accept_fd[op]} \ {NoFd})
      new == {f \in free : \A g \in free : f <= g}
      Sock(f) == IF f = accept_fd[op] THEN NoSocket ELSE sock[f]
  IN  \/ /\ a \notin attached
         /\ stack' = rest
         /\ UNCHANGED <<sock, accept_fd, portVars>>
      \/ /\ a \in attached
         /\ \E f \in new :
              /\ sock' = [[g \in Fds |-> Sock(g)] EXCEPT ![f] = NewSocket]
              /\ accept_fd' = [accept_fd EXCEPT ![op] = f]
         /\ \/ Issue(op, fd[a]) /\ stack' = rest
            \/ /\ stack' = <<Calls("on_error", a), Frame("drop", a, op[2], {})>> \o rest
               /\ UNCHANGED portVars
      \/ /\ a \in attached
         /\ sock' = [f \in Fds |-> Sock(f)]
         /\ accept_fd' = [accept_fd EXCEPT ![op] = NoFd]
         /\ stack' = <<Calls("on_error", a)>> \o rest
         /\ UNCHANGED portVars

\* start() posts one operation after the other.
PostEach(a) ==
  /\ At("post", a)
  /\ LET n == Head(stack).n
     IN  IF n > AcceptDepth
           THEN stack' = Rest /\ UNCHANGED <<sock, accept_fd, portVars>>
           ELSE postAccept(<<a, n>>, <<Frame("post", a, n + 1, {})>> \o Rest)
  /\ UNCHANGED <<reg, pending_ops, loopVars, watcherVars,
                 streams, canceled, starts, created, closed, want_send_ready>>

Repost(a) ==
  /\ At("repost", a)
  /\ postAccept(<<a, Head(stack).n>>, Rest)
  /\ UNCHANGED <<reg, pending_ops, loopVars, watcherVars,
                 streams, canceled, starts, created, closed, want_send_ready>>

Drop(a) ==
  /\ At("drop", a)
  /\ LET op == <<a, Head(stack).n>>
     IN  /\ sock' = [f \in Fds |-> IF f = accept_fd[op] THEN NoSocket ELSE sock[f]]
         /\ accept_fd' = [accept_fd EXCEPT ![op] = NoFd]
  /\ stack' = Rest
  /\ UNCHANGED <<reg, pending_ops, loopVars, watcherVars, portVars,
                 streams, canceled, starts, created, closed, want_send_ready>>

AcceptIgnores(a) ==
  /\ At("ready", a)
  /\ a \notin attached \/ Head(stack).ev \cap OfWatcher(a) = {}
  /\ Ignore
  /\ UNCHANGED <<exceptStack, inflight, port, result, busy, tcpVars>>

\* onCompletion(): the stream takes the accepted socket.
AcceptCompletes(a) ==
  /\ At("ready", a) /\ a \in attached
  /\ \E op \in Head(stack).ev \cap OfWatcher(a) :
       /\ result[op] = "done"
       /\ streams' = streams \cup {accept_fd[op]}
       /\ accept_fd' = [accept_fd EXCEPT ![op] = NoFd]
       /\ busy' = busy \ {op}
       /\ stack' = <<Calls("on_accept", a), Frame("repost", a, op[2], {})>> \o Rest
  /\ UNCHANGED <<exceptStack, inflight, port, result, lost,
                 canceled, starts, created, closed, want_send_ready>>

\* Mutant: the accepted socket of the operation is not closed.
AcceptFails_leaks(a) ==
  /\ At("ready", a) /\ a \in attached
  /\ \E op \in Head(stack).ev \cap OfWatcher(a) :
       /\ result[op] = "error"
       /\ accept_fd' = [accept_fd EXCEPT ![op] = NoFd]
       /\ busy' = busy \ {op}
       /\ stack' = <<Calls("on_error", a), Frame("repost", a, op[2], {})>> \o Rest
  /\ UNCHANGED <<exceptStack, inflight, port, result, lost,
                 streams, canceled, starts, created, closed, want_send_ready>>

AcceptFails(a) ==
  /\ At("ready", a) /\ a \in attached
  /\ \E op \in Head(stack).ev \cap OfWatcher(a) :
       /\ result[op] = "error"
       /\ sock' = [sock EXCEPT ![accept_fd[op]] = NoSocket]
       /\ accept_fd' = [accept_fd EXCEPT ![op] = NoFd]
       /\ busy' = busy \ {op}
       /\ stack' = <<Calls("on_error", a), Frame("repost", a, op[2], {})>> \o Rest
  /\ UNCHANGED <<reg, pending_ops, loopVars, watcherVars, inflight, port, result, lost,
                 streams, canceled, starts, created, closed, want_send_ready>>

IocpTcpAcceptWatcher(a) ==
  \/ startAccept(a)
  \/ /\ \/ createListenSocket(a) \/ stopAccept(a) \/ PostEach(a) \/ Repost(a) \/ Drop(a)
        \/ AcceptIgnores(a) \/ AcceptCompletes(a) \/ AcceptFails(a)
     /\ UNCHANGED restarted_early

----------------------------------------------------------------------------
(* The connection watcher.                                                 *)

create(k) ==
  /\ InUser /\ k \notin created
  /\ \E f \in streams :
       /\ streams' = streams \ {f}
       /\ fd' = [fd EXCEPT ![k] = f]
       /\ source' = [source EXCEPT ![k] = Source(k, 0, f, "any")]
  /\ created' = created \cup {k}
  /\ UNCHANGED <<sock, reg, pending_ops, loopVars, stack, events, attachedVars, portVars,
                 canceled, starts, accept_fd, closed, want_send_ready>>

\* Mutant: receiving_ is not looked at.
startRecv_again(k, rest) ==
  IF fd[k] = NoFd THEN stack' = rest /\ UNCHANGED portVars
    ELSE Issue(<<k, "recv">>, fd[k]) /\ stack' = rest

\* WSARecv is issued, or fails at once.
startRecv(k, rest) ==
  \/ /\ fd[k] = NoFd \/ <<k, "recv">> \in busy
     /\ stack' = rest
     /\ UNCHANGED portVars
  \/ /\ fd[k] # NoFd /\ <<k, "recv">> \notin busy
     /\ Issue(<<k, "recv">>, fd[k])
     /\ stack' = rest
  \/ /\ fd[k] # NoFd /\ <<k, "recv">> \notin busy /\ sock[fd[k]].st = "error"
     /\ stack' = <<Calls("on_error", k), Calls("close", k)>> \o rest
     /\ UNCHANGED portVars

startConnection(k) ==
  /\ MayCall /\ k \in created \ (attached \cup closed) /\ MayDefer
  /\ attach(k)
  /\ startRecv(k, stack)
  /\ UNCHANGED <<sock, loopVars, events, fd, source, tcpVars>>

stopConnection(k) ==
  /\ InUser
  /\ detach(k)
  /\ UNCHANGED <<sock, loopVars, stack, events, fd, source, portVars, tcpVars>>

\* trySend(): one send at a time.
SendBusy(k) ==
  /\ InUser /\ fd[k] # NoFd /\ <<k, "send">> \in busy
  /\ want_send_ready' = want_send_ready \cup {k}
  /\ UNCHANGED <<exceptStack, stack, portVars,
                 streams, canceled, starts, accept_fd, created, closed>>

SendIssued(k) ==
  /\ InUser /\ fd[k] # NoFd /\ <<k, "send">> \notin busy
  /\ sock[fd[k]].st = "up" /\ ~sock[fd[k]].shut
  /\ Issue(<<k, "send">>, fd[k])
  /\ UNCHANGED <<exceptStack, stack, tcpVars>>

SendFails(k) ==
  /\ MayCall /\ fd[k] # NoFd /\ <<k, "send">> \notin busy
  /\ sock[fd[k]].st = "error" \/ sock[fd[k]].shut
  /\ stack' = <<Calls("on_error", k), Calls("close", k)>> \o stack
  /\ UNCHANGED <<exceptStack, portVars, tcpVars>>

shutdownWrite(k) ==
  /\ InUser /\ fd[k] # NoFd /\ sock[fd[k]].st = "up"
  /\ sock' = [sock EXCEPT ![fd[k]].shut = TRUE]
  /\ UNCHANGED <<reg, pending_ops, loopVars, stack, watcherVars, portVars, tcpVars>>

closeNow(k, rest) ==
  \/ /\ k \in closed
     /\ stack' = rest
     /\ UNCHANGED <<sock, reg, pending_ops, fd, attached, inflight, port, result, lost, closed>>
  \/ /\ k \notin closed
     /\ closed' = closed \cup {k}
     /\ CloseSocket(k, IF k \in attached THEN Applied(reg, Detached(k)) ELSE reg)
     /\ pending_ops' = IF k \in attached THEN Deferred(Detached(k)) ELSE pending_ops
     /\ attached' = attached \ {k}
     /\ stack' = <<Calls("on_close", k)>> \o rest

exceptClose == <<loopVars, events, source, write_attached,
                 streams, canceled, starts, accept_fd, created, want_send_ready>>

close(k) == MayCall /\ k \in created /\ closeNow(k, stack) /\ UNCHANGED <<busy, exceptClose>>
CloseStep(k) == At("close", k) /\ closeNow(k, Rest) /\ UNCHANGED <<busy, exceptClose>>

Completed(k, tag) ==
  At("ready", k) /\ fd[k] # NoFd /\ k \notin closed /\ Head(stack).ev = {<<k, tag>>}

CompletionIgnored(k) ==
  /\ At("ready", k) /\ ~Completed(k, "recv") /\ ~Completed(k, "send")
  /\ Ignore
  /\ UNCHANGED <<exceptStack, inflight, port, result, busy, tcpVars>>

\* onRecvComplete() and onSendComplete() of an operation that failed.
CompletedError(k) ==
  /\ \E tag \in {"recv", "send"} :
       /\ Completed(k, tag) /\ result[<<k, tag>>] = "error"
       /\ busy' = busy \ {<<k, tag>>}
  /\ stack' = <<Calls("on_error", k), Calls("close", k)>> \o Rest
  /\ UNCHANGED <<exceptStack, inflight, port, result, lost, tcpVars>>

RecvEnd(k) ==
  /\ Completed(k, "recv") /\ result[<<k, "recv">>] = "end"
  /\ busy' = busy \ {<<k, "recv">>}
  /\ closeNow(k, Rest)
  /\ UNCHANGED exceptClose

RecvData(k) ==
  /\ Completed(k, "recv") /\ result[<<k, "recv">>] = "done"
  /\ busy' = busy \ {<<k, "recv">>}
  /\ stack' = <<Calls("on_recv", k), Calls("rearm", k)>> \o Rest
  /\ UNCHANGED <<exceptStack, inflight, port, result, lost, tcpVars>>

Rearm(k) ==
  /\ At("rearm", k)
  /\ IF k \in closed THEN stack' = Rest /\ UNCHANGED portVars ELSE startRecv(k, Rest)
  /\ UNCHANGED <<exceptStack, tcpVars>>

SendComplete(k) ==
  /\ Completed(k, "send") /\ result[<<k, "send">>] = "done"
  /\ busy' = busy \ {<<k, "send">>}
  /\ want_send_ready' = want_send_ready \ {k}
  /\ stack' = (IF k \in want_send_ready THEN <<Calls("on_send_ready", k)>> ELSE <<>>) \o Rest
  /\ UNCHANGED <<exceptStack, inflight, port, result, lost,
                 streams, canceled, starts, accept_fd, created, closed>>

IocpTcpConnectionWatcher(k) ==
  /\ \/ create(k) \/ startConnection(k) \/ stopConnection(k) \/ close(k) \/ CloseStep(k)
     \/ SendBusy(k) \/ SendIssued(k) \/ SendFails(k) \/ shutdownWrite(k)
     \/ CompletionIgnored(k) \/ CompletedError(k) \/ RecvEnd(k) \/ RecvData(k)
     \/ Rearm(k) \/ SendComplete(k)
  /\ UNCHANGED restarted_early
=============================================================================
