--------------------------- MODULE Network_proofs ---------------------------
(***************************************************************************)
(* Proofs about Network for every number of watchers and descriptors, on   *)
(* each backend: who owns which socket, which callbacks are the last, what *)
(* the core, the backend and the kernel have registered, which expirations *)
(* of a timer are still to be reported, and what texts are endpoints.      *)
(***************************************************************************)
EXTENDS Network, EventCore_proofs

(* The stack. *)

\* w is in the middle of a start(), in the stack s.
StartingIn(s, w) == \E i \in 1 .. Len(s) : s[i].w = w /\ s[i].at \in {"connect", "attach"}

\* t is a stack, in which the watchers W are still in the middle of what they were in s.
Kept(s, t, W) == IsStack(t) /\ \A w \in W : StartingIn(s, w) => StartingIn(t, w)

LEMMA KeptByPush ==
  ASSUME NEW s, IsStack(s), NEW f, NEW W
  PROVE  Kept(s, <<f>> \o s, W)
<1>1. SUFFICES ASSUME NEW w \in W, StartingIn(s, w) PROVE StartingIn(<<f>> \o s, w)
  BY Pushed DEF Kept
<1>2. PICK i \in 1 .. Len(s) : s[i].w = w /\ s[i].at \in {"connect", "attach"}
  BY <1>1 DEF StartingIn
<1>3. i + 1 \in 1 .. Len(<<f>> \o s) /\ (<<f>> \o s)[i + 1] = s[i]
  BY Pushed
<1> QED
  BY <1>2, <1>3, Zenon DEF StartingIn

LEMMA StartingPushed ==
  ASSUME NEW s, IsStack(s), NEW f, f.at \in {"connect", "attach"}
  PROVE  StartingIn(<<f>> \o s, f.w)
<1>1. 1 \in 1 .. Len(<<f>> \o s) /\ (<<f>> \o s)[1] = f
  BY Pushed
<1> QED
  BY <1>1, Zenon DEF StartingIn

LEMMA KeptByPop ==
  ASSUME NEW s, IsStack(s), s # <<>>, NEW W,
         Head(s).w \notin W \/ Head(s).at \notin {"connect", "attach"}
  PROVE  Kept(s, Tail(s), W)
<1>1. SUFFICES ASSUME NEW w \in W, StartingIn(s, w) PROVE StartingIn(Tail(s), w)
  BY Popped DEF Kept
<1>2. PICK i \in 1 .. Len(s) : s[i].w = w /\ s[i].at \in {"connect", "attach"}
  BY <1>1 DEF StartingIn
<1>3. i # 1
  BY <1>2, Popped
<1>4. i - 1 \in 1 .. Len(Tail(s)) /\ Tail(s)[i - 1] = s[i]
  <2>1. i - 1 \in 1 .. Len(Tail(s)) /\ (i - 1) + 1 = i
    BY <1>3, Popped
  <2> QED
    BY <2>1, Popped
<1> QED
  BY <1>2, <1>4, Zenon DEF StartingIn

\* The ways in which a step changes the stack.
LEMMA KeptForms ==
  ASSUME NEW s, IsStack(s), NEW W
  PROVE  /\ Kept(s, s, W)
         /\ \A f : Kept(s, <<f>> \o s, W)
         /\ \A f, g : Kept(s, <<f, g>> \o s, W)
         /\ s # <<>> /\ (Head(s).w \notin W \/ Head(s).at \notin {"connect", "attach"}) =>
              /\ Kept(s, Tail(s), W)
              /\ \A f : Kept(s, <<f>> \o Tail(s), W)
              /\ \A f, g : Kept(s, <<f, g>> \o Tail(s), W)
<1>1. Kept(s, s, W)
  BY DEF Kept
<1>2. ASSUME NEW f PROVE Kept(s, <<f>> \o s, W)
  BY KeptByPush
<1>3. ASSUME NEW f, NEW g PROVE Kept(s, <<f, g>> \o s, W)
  <2>1. Kept(<<g>> \o s, <<f>> \o (<<g>> \o s), W)
    BY KeptByPush, Pushed
  <2> QED
    BY <1>2, <2>1, PushedTwo, Zenon DEF Kept
<1>4. ASSUME s # <<>>, Head(s).w \notin W \/ Head(s).at \notin {"connect", "attach"}
      PROVE  /\ Kept(s, Tail(s), W)
             /\ \A f : Kept(s, <<f>> \o Tail(s), W)
             /\ \A f, g : Kept(s, <<f, g>> \o Tail(s), W)
  <2>1. Kept(s, Tail(s), W) /\ IsStack(Tail(s))
    BY <1>4, KeptByPop, Popped
  <2>2. ASSUME NEW f PROVE Kept(s, <<f>> \o Tail(s), W)
    <3>1. Kept(Tail(s), <<f>> \o Tail(s), W)
      BY <2>1, KeptByPush
    <3> QED
      BY <2>1, <3>1 DEF Kept
  <2>3. ASSUME NEW f, NEW g PROVE Kept(s, <<f, g>> \o Tail(s), W)
    <3>1. IsStack(<<g>> \o Tail(s))
      BY <2>1, Pushed
    <3>2. Kept(<<g>> \o Tail(s), <<f>> \o (<<g>> \o Tail(s)), W)
      BY <3>1, KeptByPush
    <3> QED
      BY <2>1, <2>2, <3>2, PushedTwo, Zenon DEF Kept
  <2> QED
    BY <2>1, <2>2, <2>3
<1> QED
  BY <1>1, <1>2, <1>3, <1>4

(* Who owns which socket. *)

Sockets == [st : {"none", "idle", "listen", "connecting", "up", "error", "timer"},
            rx : Nat, fin : BOOLEAN, full : BOOLEAN, shut : BOOLEAN]

OwnersOK ==
  /\ sock \in [Fds -> Sockets]
  /\ fd \in [Watchers -> Fds \cup {NoFd}]
  /\ streams \subseteq Fds
  /\ SocketOwnedOnce

\* No socket is opened or closed.
SameOpen == sock' \in [Fds -> Sockets] /\ Open' = Open

LEMMA OwnersUnchanged ==
  ASSUME OwnersOK, SameOpen, UNCHANGED <<fd, streams>>
  PROVE  OwnersOK'
BY DEF OwnersOK, SameOpen, SocketOwnedOnce

\* f was free and is open now.
Opened(f) == f \in Fds \ Open /\ sock' \in [Fds -> Sockets] /\ Open' = Open \cup {f}
Closed(fs) == sock' \in [Fds -> Sockets] /\ Open' = Open \ fs

LEMMA WatcherOpens ==
  ASSUME OwnersOK, NEW w \in Watchers, NEW f, fd[w] = NoFd, Opened(f),
         fd' = [fd EXCEPT ![w] = f], UNCHANGED streams
  PROVE  OwnersOK'
<1> USE DEF OwnersOK, SocketOwnedOnce, Opened
<1>1. fd' \in [Watchers -> Fds \cup {NoFd}]
  OBVIOUS
<1>2. fd'[w] = f /\ \A v \in Watchers \ {w} : fd'[v] = fd[v]
  OBVIOUS
<1>3. f # NoFd /\ f \notin streams /\ \A v \in Watchers : fd[v] # f
  BY CoreAssumption
<1>4. {fd'[v] : v \in Watchers} \ {NoFd} = ({fd[v] : v \in Watchers} \ {NoFd}) \cup {f}
  BY <1>2, <1>3
<1> QED
  BY <1>1, <1>2, <1>3, <1>4

LEMMA WatcherCloses ==
  ASSUME OwnersOK, NEW w \in Watchers, Closed({fd[w]}),
         fd' = [fd EXCEPT ![w] = NoFd], UNCHANGED streams
  PROVE  OwnersOK'
<1> USE DEF OwnersOK, SocketOwnedOnce, Closed
<1>1. fd' \in [Watchers -> Fds \cup {NoFd}]
  OBVIOUS
<1>2. fd'[w] = NoFd /\ \A v \in Watchers \ {w} : fd'[v] = fd[v]
  OBVIOUS
<1>3. {fd'[v] : v \in Watchers} \ {NoFd} = ({fd[v] : v \in Watchers} \ {NoFd}) \ {fd[w]}
  BY <1>2
<1>4. fd[w] \notin streams /\ NoFd \notin streams
  BY CoreAssumption
<1> QED
  BY <1>1, <1>2, <1>3, <1>4

\* The stream takes the socket of w.
LEMMA WatcherGives ==
  ASSUME OwnersOK, NEW w \in Watchers, fd[w] # NoFd, SameOpen,
         fd' = [fd EXCEPT ![w] = NoFd], streams' = streams \cup {fd[w]}
  PROVE  OwnersOK'
<1> USE DEF OwnersOK, SocketOwnedOnce, SameOpen
<1>1. fd' \in [Watchers -> Fds \cup {NoFd}]
  OBVIOUS
<1>2. fd'[w] = NoFd /\ \A v \in Watchers \ {w} : fd'[v] = fd[v]
  OBVIOUS
<1>3. {fd'[v] : v \in Watchers} \ {NoFd} = ({fd[v] : v \in Watchers} \ {NoFd}) \ {fd[w]}
  BY <1>2
<1>4. NoFd \notin streams'
  BY CoreAssumption
<1>5. \A v \in Watchers : fd'[v] \notin streams'
  BY <1>2, <1>4
<1>6. streams' \subseteq Fds
  OBVIOUS
<1>7. Open' = streams' \cup ({fd'[v] : v \in Watchers} \ {NoFd})
  BY <1>3
<1> QED
  BY <1>1, <1>2, <1>5, <1>6, <1>7

LEMMA WatcherTakes ==
  ASSUME OwnersOK, NEW w \in Watchers, NEW f \in streams, fd[w] = NoFd, SameOpen,
         fd' = [fd EXCEPT ![w] = f], streams' = streams \ {f}
  PROVE  OwnersOK'
<1> USE DEF OwnersOK, SocketOwnedOnce, SameOpen
<1>1. fd' \in [Watchers -> Fds \cup {NoFd}]
  OBVIOUS
<1>2. fd'[w] = f /\ \A v \in Watchers \ {w} : fd'[v] = fd[v]
  OBVIOUS
<1>3. f # NoFd /\ \A v \in Watchers : fd[v] # f
  BY CoreAssumption
<1>4. {fd'[v] : v \in Watchers} \ {NoFd} = ({fd[v] : v \in Watchers} \ {NoFd}) \cup {f}
  BY <1>2, <1>3
<1>5. \A u, v \in Watchers : u # v /\ fd'[u] # NoFd => fd'[u] # fd'[v]
  BY <1>2, <1>3
<1>6. \A v \in Watchers : fd'[v] \notin streams'
  BY <1>2
<1>7. Open' = streams' \cup ({fd'[v] : v \in Watchers} \ {NoFd})
  BY <1>3, <1>4
<1> QED
  BY <1>1, <1>5, <1>6, <1>7

LEMMA StreamOpens ==
  ASSUME OwnersOK, NEW f, Opened(f), streams' = streams \cup {f}, UNCHANGED fd
  PROVE  OwnersOK'
<1> USE DEF OwnersOK, SocketOwnedOnce, Opened
<1>1. f # NoFd /\ \A v \in Watchers : fd[v] # f
  BY CoreAssumption
<1> QED
  BY <1>1

LEMMA StreamCloses ==
  ASSUME OwnersOK, NEW f \in streams, Closed({f}), streams' = streams \ {f}, UNCHANGED fd
  PROVE  OwnersOK'
<1> USE DEF OwnersOK, SocketOwnedOnce, Closed
<1>1. f # NoFd /\ \A v \in Watchers : fd[v] # f
  BY CoreAssumption
<1> QED
  BY <1>1

LEMMA OrphansClose ==
  ASSUME OwnersOK, orphans \subseteq Watchers, Closed(OrphanFds),
         fd' = [w \in Watchers |-> IF w \in orphans THEN NoFd ELSE fd[w]], UNCHANGED streams
  PROVE  OwnersOK'
<1> USE DEF OwnersOK, SocketOwnedOnce, Closed, OrphanFds
<1>1. fd' \in [Watchers -> Fds \cup {NoFd}]
  OBVIOUS
<1>2. \A v \in Watchers : fd'[v] = IF v \in orphans THEN NoFd ELSE fd[v]
  OBVIOUS
<1>3. {fd'[v] : v \in Watchers} \ {NoFd} = ({fd[v] : v \in Watchers} \ {NoFd}) \ OrphanFds
  BY <1>2
<1>4. streams \cap OrphanFds = {} /\ NoFd \notin streams
  BY CoreAssumption
<1>5. Open' = streams' \cup ({fd'[v] : v \in Watchers} \ {NoFd})
  BY <1>3, <1>4
<1>6. \A u, v \in Watchers : u # v /\ fd'[u] # NoFd => fd'[u] # fd'[v]
  BY <1>2
<1>7. \A v \in Watchers : fd'[v] \notin streams'
  BY <1>2, <1>4
<1> QED
  BY <1>1, <1>5, <1>6, <1>7

(* What the actions do to the sockets. *)

LEMMA SocketKinds ==
  /\ NoSocket \in Sockets /\ NoSocket.st = "none"
  /\ NewSocket \in Sockets /\ NewSocket.st # "none"
  /\ \A st \in {"listen", "up", "error", "timer"} :
       /\ [NoSocket EXCEPT !.st = st] \in Sockets
       /\ [NoSocket EXCEPT !.st = st].st = st
BY DEF Sockets, NoSocket, NewSocket

\* A socket changes, but is not closed.
LEMMA SocketChanges ==
  ASSUME sock \in [Fds -> Sockets], NEW x, NEW r,
         sock' = [sock EXCEPT ![x] = r],
         x \in Fds => r \in Sockets /\ (r.st = "none" <=> sock[x].st = "none")
  PROVE  SameOpen
<1>1. \A f \in Fds : sock'[f] \in Sockets /\ (sock'[f].st = "none" <=> sock[f].st = "none")
  OBVIOUS
<1>2. sock' \in [Fds -> Sockets]
  BY <1>1
<1> QED
  BY <1>1, <1>2 DEF SameOpen, Open

LEMMA StateChanges ==
  ASSUME sock \in [Fds -> Sockets], NEW x \in Open,
         NEW st \in {"idle", "connecting", "up", "error"},
         sock' = [sock EXCEPT ![x].st = st]
  PROVE  SameOpen
<1>1. x \in Fds /\ sock[x] \in Sockets /\ sock[x].st # "none"
  BY DEF Open
<1>2. [sock[x] EXCEPT !.st = st] \in Sockets /\ [sock[x] EXCEPT !.st = st].st = st
  BY <1>1 DEF Sockets
<1> QED
  BY <1>1, <1>2, SocketChanges

LEMMA CountChanges ==
  ASSUME sock \in [Fds -> Sockets], NEW x, NEW n,
         x \in Fds => n \in Nat,
         sock' = [sock EXCEPT ![x].rx = n]
  PROVE  SameOpen
<1>1. x \in Fds => /\ [sock[x] EXCEPT !.rx = n] \in Sockets
                   /\ [sock[x] EXCEPT !.rx = n].st = sock[x].st
  BY DEF Sockets
<1> QED
  BY <1>1, SocketChanges

LEMMA FlagChanges ==
  ASSUME sock \in [Fds -> Sockets], NEW x, NEW b \in BOOLEAN,
         \/ sock' = [sock EXCEPT ![x].fin = b]
         \/ sock' = [sock EXCEPT ![x].full = b]
         \/ sock' = [sock EXCEPT ![x].shut = b]
  PROVE  SameOpen
<1>1. x \in Fds => \A r \in {[sock[x] EXCEPT !.fin = b], [sock[x] EXCEPT !.full = b],
                               [sock[x] EXCEPT !.shut = b]} :
                     r \in Sockets /\ r.st = sock[x].st
  BY DEF Sockets
<1>2. CASE sock' = [sock EXCEPT ![x].fin = b]
  BY <1>1, <1>2, SocketChanges
<1>3. CASE sock' = [sock EXCEPT ![x].full = b]
  BY <1>1, <1>3, SocketChanges
<1>4. CASE sock' = [sock EXCEPT ![x].shut = b]
  BY <1>1, <1>4, SocketChanges
<1> QED
  BY <1>2, <1>3, <1>4

LEMMA SocketOpens ==
  ASSUME sock \in [Fds -> Sockets], NEW f \in NewFd, NEW r \in Sockets, r.st # "none",
         sock' = [sock EXCEPT ![f] = r]
  PROVE  Opened(f)
<1>1. f \in Fds \ Open
  BY DEF NewFd
<1>2. \A g \in Fds : sock'[g] = IF g = f THEN r ELSE sock[g]
  BY <1>1
<1>3. sock' \in [Fds -> Sockets]
  BY <1>1
<1>4. Open' = Open \cup {f}
  BY <1>1, <1>2 DEF Open
<1> QED
  BY <1>1, <1>3, <1>4 DEF Opened

LEMMA SocketsClose ==
  ASSUME sock \in [Fds -> Sockets], NEW fs, sock' = Shut(fs)
  PROVE  Closed(fs)
<1>1. \A g \in Fds : sock'[g] = IF g \in fs THEN NoSocket ELSE sock[g]
  BY DEF Shut
<1>2. sock' \in [Fds -> Sockets]
  BY SocketKinds DEF Shut
<1>3. Open' = Open \ fs
  BY <1>1, SocketKinds DEF Open
<1> QED
  BY <1>2, <1>3 DEF Closed

\* The fd of w is closed, the core's changes apart.
LEMMA FdCloses ==
  ASSUME OwnersOK, NEW w \in Watchers, NEW r, closeFd(w, r), UNCHANGED streams
  PROVE  OwnersOK'
<1>1. Closed({fd[w]})
  BY SocketsClose DEF closeFd, OwnersOK
<1> QED
  BY <1>1, WatcherCloses DEF closeFd

----------------------------------------------------------------------------
(* Who may use which fd. *)

StartsOK == \A w \in Connects : fd[w] # NoFd => w \in attached \/ StartingIn(stack, w)
ConnsOK == \A k \in Conns : fd[k] # NoFd => k \in created \ closed

CallersOK ==
  /\ IsStack(stack)
  /\ orphans \subseteq Timers
  /\ canceled \subseteq Connects
  /\ created \subseteq Conns /\ closed \subseteq created
  /\ StartsOK
  /\ ConnsOK

\* A step that leaves the connect watchers W alone.
LEMMA StartsKept ==
  ASSUME StartsOK, NEW W, Kept(stack, stack', W),
         \A w \in W \cap Connects : /\ fd'[w] \in {fd[w], NoFd}
                                    /\ w \in attached => w \in attached' \/ fd'[w] = NoFd,
         \A w \in Connects \ W : fd'[w] # NoFd => w \in attached' \/ StartingIn(stack', w)
  PROVE  StartsOK'
BY DEF StartsOK, Kept

LEMMA KeptFromEmpty == ASSUME NEW f, NEW W PROVE Kept(<<>>, <<f>>, W)
<1>1. <<f>> \in Seq({f}) /\ Len(<<>>) = 0
  OBVIOUS
<1>2. IsStack(<<f>>)
  BY <1>1, Zenon DEF IsStack
<1>3. \A w \in W : ~StartingIn(<<>>, w)
  BY <1>1 DEF StartingIn
<1> QED
  BY <1>2, <1>3 DEF Kept

\* No connect watcher is concerned.
LEMMA ConnectsUnconcerned ==
  ASSUME CallersOK, Kept(stack, stack', Connects),
         \A w \in Connects : fd'[w] = fd[w] /\ (w \in attached => w \in attached')
  PROVE  IsStack(stack') /\ StartsOK'
<1>1. StartsOK'
  BY StartsKept DEF CallersOK
<1> QED
  BY <1>1 DEF Kept

(* The core. *)

LEMMA CoreKeeps ==
  ASSUME OwnersOK, CallersOK, LeavesTcp,
         Dispatch \/ applyPendingChanges \/ Wait \/ RunTask \/ UserReturns
  PROVE  OwnersOK' /\ CallersOK'
<1> USE DEF LeavesTcp, connectVars, connVars, watcherVars, attachedVars, loopVars
<1>1. IsStack(stack) /\ orphans \subseteq Watchers
  BY TimerAssumption DEF CallersOK
<1>2. CASE applyPendingChanges
  <2>1. Closed(OrphanFds)
    BY <1>2, SocketsClose DEF OwnersOK, applyPendingChanges
  <2>2. OwnersOK'
    BY <1>1, <1>2, <2>1, OrphansClose DEF applyPendingChanges
  <2>3. Kept(stack, stack', Connects)
    BY <1>1, <1>2, KeptForms DEF applyPendingChanges, At, Rest
  <2>4. \A w \in Watchers : fd'[w] = NoFd \/ fd'[w] = fd[w]
    BY <1>2 DEF applyPendingChanges
  <2>5. StartsOK'
    BY <1>2, <2>3, <2>4, ConnectAssumption, StartsKept DEF CallersOK, applyPendingChanges
  <2>6. ConnsOK'
    BY <2>4, ConnAssumption DEF CallersOK, ConnsOK
  <2> QED
    BY <1>2, <2>2, <2>3, <2>5, <2>6 DEF CallersOK, applyPendingChanges, Kept
<1>3. ASSUME Dispatch \/ Wait \/ RunTask \/ UserReturns PROVE OwnersOK' /\ CallersOK'
  <2>1. UNCHANGED <<sock, fd, attached, orphans>>
    BY <1>3 DEF Dispatch, Wait, EpollWait, PollWait, KqueueWait, MacPollWait, TakeEvents,
                RunTask, UserReturns
  <2>2. Kept(stack, stack', Connects)
    <3>1. CASE Dispatch
      BY <1>1, <3>1, KeptForms DEF Dispatch
    <3>2. CASE UserReturns
      BY <1>1, <3>2, KeptForms DEF UserReturns, InUser, Callbacks, Rest
    <3>3. CASE Wait \/ RunTask
      BY <3>3, KeptFromEmpty DEF Wait, EpollWait, PollWait, KqueueWait, MacPollWait, TakeEvents,
                                 RunTask
    <3> QED
      BY <1>3, <3>1, <3>2, <3>3
  <2>3. OwnersOK'
    <3>1. SameOpen
      BY <2>1 DEF SameOpen, Open, OwnersOK
    <3> QED
      BY <2>1, <3>1, OwnersUnchanged
  <2>4. IsStack(stack') /\ StartsOK'
    BY <2>1, <2>2, ConnectsUnconcerned
  <2> QED
    BY <2>1, <2>3, <2>4 DEF CallersOK, ConnsOK
<1> QED
  BY <1>2, <1>3

(* The peer, and a stream that is dropped. *)

LEMMA PeerKeeps ==
  ASSUME OwnersOK, CallersOK, Peer
  PROVE  OwnersOK' /\ CallersOK'
<1> USE DEF exceptSock, connectVars, connVars, watcherVars, attachedVars, loopVars
<1>1. UNCHANGED <<stack, fd, attached, orphans, streams, canceled, created, closed>>
  BY DEF Peer, Complete, PeerSends, PeerCloses, PeerResets, Drain
<1>2. SameOpen
  <2>1. sock \in [Fds -> Sockets]
    BY DEF OwnersOK
  <2>2. CASE \E f \in Fds : Complete(f)
    <3>1. PICK f \in Fds : Complete(f)
      BY <2>2
    <3>2. f \in Open
      BY <3>1 DEF Complete, Open
    <3> QED
      BY <2>1, <3>1, <3>2, StateChanges DEF Complete
  <2>3. ASSUME NEW f \in Fds, PeerSends(f) PROVE SameOpen
    <3>1. sock[f].rx + 1 \in Nat
      BY <2>1 DEF Sockets
    <3>2. sock' = [sock EXCEPT ![f].rx = sock[f].rx + 1]
      BY <2>3 DEF PeerSends
    <3> QED
      BY <2>1, <3>1, <3>2, CountChanges
  <2>4. ASSUME NEW f \in Fds, PeerCloses(f) \/ Drain(f) PROVE SameOpen
    BY <2>1, <2>4, FlagChanges DEF PeerCloses, Drain
  <2>5. ASSUME NEW f \in Fds, PeerResets(f) PROVE SameOpen
    <3>1. sock[f].st # "none"
      BY <2>5 DEF PeerResets
    <3>2. sock' = [sock EXCEPT ![f] = [NoSocket EXCEPT !.st = "error"]]
      BY <2>5 DEF PeerResets
    <3> QED
      BY <2>1, <3>1, <3>2, SocketKinds, SocketChanges
  <2> QED
    BY <2>2, <2>3, <2>4, <2>5 DEF Peer
<1>3. OwnersOK'
  BY <1>1, <1>2, OwnersUnchanged
<1> QED
  BY <1>1, <1>3 DEF CallersOK, ConnsOK, StartsOK

LEMMA DropKeeps ==
  ASSUME OwnersOK, CallersOK, DropStream
  PROVE  OwnersOK' /\ CallersOK'
<1> USE DEF DropStream, connectVars, connVars, watcherVars, attachedVars, loopVars
<1>1. PICK f \in streams : /\ streams' = streams \ {f}
                           /\ sock' = [sock EXCEPT ![f] = NoSocket]
  OBVIOUS
<1>2. Closed({f})
  <2>1. sock' = Shut({f})
    BY <1>1 DEF Shut, OwnersOK
  <2> QED
    BY <2>1, SocketsClose DEF OwnersOK
<1>3. OwnersOK'
  BY <1>1, <1>2, StreamCloses
<1> QED
  BY <1>3 DEF CallersOK, ConnsOK, StartsOK

(* Connect watchers. *)

\* What changes when w closes its fd, and is detached before if it was attached.
LEMMA CloseEffect ==
  ASSUME OwnersOK, NEW w \in Watchers, DetachAndClose(w) \/ StopAndClose(w), UNCHANGED streams
  PROVE  /\ OwnersOK'
         /\ fd'[w] = NoFd /\ \A v \in Watchers \ {w} : fd'[v] = fd[v]
         /\ \A v \in attached : v # w => v \in attached'
<1>1. PICK r : closeFd(w, r)
  BY DEF DetachAndClose, StopAndClose
<1>2. OwnersOK'
  BY <1>1, FdCloses
<1>3. fd'[w] = NoFd /\ \A v \in Watchers \ {w} : fd'[v] = fd[v]
  BY <1>1 DEF closeFd, OwnersOK
<1>4. \A v \in attached : v # w => v \in attached'
  BY DEF DetachAndClose, StopAndClose, attachedVars
<1> QED
  BY <1>2, <1>3, <1>4

\* A step of the connect watcher w.
LEMMA ConnectStepOK ==
  ASSUME CallersOK, OwnersOK', NEW w \in Connects,
         \A v \in Watchers \ {w} : fd'[v] = fd[v],
         \A v \in attached : v # w => v \in attached',
         Kept(stack, stack', Connects \ {w}),
         fd'[w] # NoFd => w \in attached' \/ StartingIn(stack', w),
         UNCHANGED <<orphans, created, closed>>,
         canceled' \subseteq canceled \cup {w}
  PROVE  CallersOK'
<1>1. StartsOK'
  BY ConnectAssumption, StartsKept DEF CallersOK
<1>2. ConnsOK'
  BY ConnectAssumption, ConnAssumption DEF CallersOK, ConnsOK
<1>3. IsStack(stack')
  BY DEF Kept
<1> QED
  BY <1>1, <1>2, <1>3 DEF CallersOK

LEMMA ConnectKeeps ==
  ASSUME OwnersOK, CallersOK, NEW w \in Connects, ConnectCall(w) \/ ConnectStep(w),
         UNCHANGED connVars
  PROVE  OwnersOK' /\ CallersOK'
<1> USE DEF connectVars, connVars, watcherVars, attachedVars, loopVars
<1> DEFINE W == Connects \ {w}
<1>1. /\ w \in Watchers /\ IsStack(stack) /\ sock \in [Fds -> Sockets]
      /\ fd \in [Watchers -> Fds \cup {NoFd}]
  BY ConnectAssumption DEF CallersOK, OwnersOK
<1>2. fd[w] # NoFd => w \in attached \/ StartingIn(stack, w)
  BY DEF CallersOK, StartsOK
<1>3. fd[w] # NoFd => fd[w] \in Open
  BY <1>1 DEF OwnersOK, SocketOwnedOnce
<1>4. Starting(w) <=> StartingIn(stack, w)
  BY DEF Starting, StartingIn
<1>5. CASE start(w)
  <2>1. fd[w] = NoFd
    BY <1>2, <1>4, <1>5 DEF start
  <2>2. OwnersOK'
    <3>1. CASE UNCHANGED <<sock, fd>>
      <4>1. SameOpen
        BY <1>1, <3>1 DEF SameOpen, Open
      <4> QED
        BY <1>5, <3>1, <4>1, OwnersUnchanged DEF start
    <3>2. CASE \E f \in NewFd : /\ fd' = [fd EXCEPT ![w] = f]
                                /\ sock' = [sock EXCEPT ![f] = NewSocket]
      <4>1. PICK f \in NewFd : /\ fd' = [fd EXCEPT ![w] = f]
                               /\ sock' = [sock EXCEPT ![f] = NewSocket]
        BY <3>2
      <4>2. Opened(f)
        BY <1>1, <4>1, SocketKinds, SocketOpens
      <4> QED
        BY <1>1, <1>5, <2>1, <4>1, <4>2, WatcherOpens DEF start
    <3> QED
      BY <1>5, <3>1, <3>2 DEF start
  <2>3. \/ stack' = <<Calls("connect", w)>> \o stack
        \/ stack' = <<Calls("on_error", w)>> \o (<<Calls("connect", w)>> \o stack)
    BY <1>5 DEF start, fail
  <2>4. StartingIn(stack', w) /\ Kept(stack, stack', W)
    <3> DEFINE s == <<Calls("connect", w)>> \o stack
    <3>1. Calls("connect", w).at \in {"connect", "attach"} /\ Calls("connect", w).w = w
      BY DEF Calls, Frame
    <3>2. IsStack(s) /\ Kept(stack, s, W) /\ StartingIn(s, w)
      <4>1. StartingIn(s, w)
        BY <1>1, <3>1, StartingPushed
      <4>2. IsStack(s) /\ Kept(stack, s, W)
        BY <1>1, Pushed, KeptForms
      <4> QED
        BY <4>1, <4>2
    <3> HIDE DEF s
    <3>3. \A f : Kept(s, <<f>> \o s, Connects)
      BY <3>2, KeptForms
    <3>4. \A f : StartingIn(<<f>> \o s, w) /\ Kept(s, <<f>> \o s, W)
      BY <3>2, <3>3 DEF Kept
    <3>5. stack' = s \/ \E f : stack' = <<f>> \o s
      BY <2>3 DEF s
    <3> QED
      BY <3>2, <3>4, <3>5 DEF Kept
  <2>5. \A v \in Watchers \ {w} : fd'[v] = fd[v]
    BY <1>1, <1>5 DEF start
  <2>6. UNCHANGED <<attached, orphans, created, closed, canceled>>
    BY <1>5 DEF start
  <2> QED
    BY <2>2, <2>4, <2>5, <2>6, ConnectStepOK
<1>6. CASE startConnect(w)
  <2>1. UNCHANGED <<fd, attached, orphans, created, closed, canceled, streams>>
    BY <1>6 DEF startConnect
  <2>2. stack # <<>> /\ Head(stack).w = w
    BY <1>6 DEF startConnect, At
  <2>3. SameOpen
    <3>1. CASE UNCHANGED sock
      BY <1>1, <3>1 DEF SameOpen, Open
    <3>2. CASE fd[w] # NoFd /\ \E st \in {"up", "connecting"} :
                 sock' = [sock EXCEPT ![fd[w]].st = st]
      BY <1>1, <1>3, <3>2, StateChanges
    <3> QED
      BY <1>6, <3>1, <3>2 DEF startConnect
  <2>4. OwnersOK'
    BY <2>1, <2>3, OwnersUnchanged
  <2> DEFINE s == <<Calls("attach", w)>> \o Rest
  <2>5. IsStack(Rest)
    BY <1>1, <2>2, Popped DEF Rest
  <2>6. /\ IsStack(s) /\ StartingIn(s, w) /\ Kept(stack, s, W) /\ Kept(stack, Rest, W)
    <3>1. Calls("attach", w).at \in {"connect", "attach"} /\ Calls("attach", w).w = w
      BY DEF Calls, Frame
    <3>2. IsStack(s) /\ StartingIn(s, w)
      BY <2>5, <3>1, Pushed, StartingPushed
    <3>3. Kept(stack, s, W) /\ Kept(stack, Rest, W)
      BY <1>1, <2>2, KeptForms DEF Rest
    <3> QED
      BY <3>2, <3>3
  <2>7. \/ fd[w] = NoFd /\ stack' = Rest
        \/ stack' = s
        \/ \E f : stack' = <<f>> \o s
    <3>1. CASE fd[w] = NoFd /\ stack' = Rest
      BY <3>1
    <3>2. CASE stack' = <<Calls("check", w), Calls("attach", w)>> \o Rest
      BY <2>5, <3>2, PushedTwo
    <3>3. CASE stack' = s
      BY <3>3
    <3>4. CASE fail(w, s)
      BY <3>4 DEF fail
    <3> QED
      BY <1>6, <3>1, <3>2, <3>3, <3>4 DEF startConnect
  <2> HIDE DEF s
  <2>8. \A f : StartingIn(<<f>> \o s, w) /\ Kept(stack, <<f>> \o s, W)
    <3>1. \A f : Kept(s, <<f>> \o s, Connects)
      BY <2>6, KeptForms
    <3> QED
      BY <2>6, <3>1 DEF Kept
  <2>9. Kept(stack, stack', W) /\ (fd'[w] # NoFd => StartingIn(stack', w))
    BY <2>1, <2>6, <2>7, <2>8
  <2> QED
    BY <2>1, <2>4, <2>9, ConnectStepOK
<1>7. CASE startEnds(w)
  <2>1. UNCHANGED <<sock, fd, streams, orphans, created, closed, canceled>>
    BY <1>7 DEF startEnds
  <2>2. fd[w] # NoFd => w \in attached'
    BY <1>7 DEF startEnds
  <2>3. \A v \in attached : v \in attached'
    BY <1>7 DEF startEnds
  <2>4. stack # <<>> /\ Head(stack).w = w /\ stack' = Tail(stack)
    BY <1>7 DEF startEnds, At, Rest
  <2>5. Kept(stack, stack', W)
    BY <1>1, <2>4, KeptForms
  <2>6. SameOpen
    BY <1>1, <2>1 DEF SameOpen, Open
  <2>7. OwnersOK'
    BY <2>1, <2>6, OwnersUnchanged
  <2> QED
    BY <2>1, <2>2, <2>3, <2>5, <2>7, ConnectStepOK
<1>8. CASE stop(w) \/ cancel(w) \/ destroy(w)
  <2>1. UNCHANGED <<stack, streams, orphans, created, closed>> /\ canceled' \subseteq canceled \cup {w}
    BY <1>8 DEF stop, cancel, destroy
  <2>2. Kept(stack, stack', Connects)
    BY <1>1, <2>1, KeptForms
  <2>3. CASE DetachAndClose(w) \/ StopAndClose(w)
    BY <1>1, <2>1, <2>2, <2>3, CloseEffect, ConnectStepOK DEF Kept
  <2>4. CASE UNCHANGED <<sock, fd, attached>>
    <3>1. SameOpen
      BY <1>1, <2>4 DEF SameOpen, Open
    <3>2. OwnersOK'
      BY <2>1, <2>4, <3>1, OwnersUnchanged
    <3>3. fd'[w] # NoFd => w \in attached' \/ StartingIn(stack', w)
      BY <1>2, <2>1, <2>4
    <3>4. Kept(stack, stack', W)
      BY <2>2 DEF Kept
    <3> QED
      BY <2>1, <2>4, <3>2, <3>3, <3>4, ConnectStepOK
  <2> QED
    BY <1>8, <2>3, <2>4 DEF stop, cancel, destroy
<1>9. CASE onReadyConnect(w) \/ CheckNothing(w)
  <2>1. UNCHANGED <<sock, fd, attached, streams, orphans, created, closed, canceled>>
    BY <1>9 DEF onReadyConnect, CheckNothing
  <2>2. IsStack(Rest) /\ <<>> \o Rest = Rest
    <3>1. stack # <<>>
      BY <1>9 DEF onReadyConnect, CheckNothing, At
    <3>2. IsStack(Rest)
      BY <1>1, <3>1, Popped DEF Rest
    <3>3. PICK S : Rest \in Seq(S)
      BY <3>2 DEF IsStack
    <3> QED
      BY <3>2, <3>3
  <2>3. Kept(stack, stack', Connects)
    <3>1. stack # <<>> /\ Head(stack).at \notin {"connect", "attach"}
      BY <1>9 DEF onReadyConnect, CheckNothing, At
    <3>2. stack' = Rest \/ stack' = <<Calls("check", w)>> \o Rest
      BY <1>9, <2>2 DEF onReadyConnect, CheckNothing
    <3> QED
      BY <1>1, <3>1, <3>2, KeptForms DEF Rest
  <2>4. SameOpen
    BY <1>1, <2>1 DEF SameOpen, Open
  <2>5. OwnersOK'
    BY <2>1, <2>4, OwnersUnchanged
  <2>6. fd'[w] # NoFd => w \in attached' \/ StartingIn(stack', w)
    BY <1>2, <2>1, <2>3 DEF Kept
  <2>7. Kept(stack, stack', W)
    BY <2>3 DEF Kept
  <2> QED
    BY <2>1, <2>5, <2>6, <2>7, ConnectStepOK
<1>10. CASE CheckFails(w)
  <2>1. UNCHANGED <<streams, orphans, created, closed, canceled>>
    BY <1>10 DEF CheckFails
  <2>2. Kept(stack, stack', Connects)
    <3>1. stack # <<>> /\ Head(stack).at \notin {"connect", "attach"}
      BY <1>10 DEF CheckFails, At
    <3>2. stack' = <<Calls("on_error", w)>> \o Tail(stack)
      BY <1>10 DEF CheckFails, fail, Rest
    <3> QED
      BY <1>1, <3>1, <3>2, KeptForms
  <2>3. CASE DetachAndClose(w)
    BY <1>1, <2>1, <2>2, <2>3, CloseEffect, ConnectStepOK DEF Kept
  <2>4. CASE sock' = [sock EXCEPT ![fd[w]].st = "idle"] /\ UNCHANGED <<fd, attached>>
    <3>1. SameOpen
      BY <1>1, <1>3, <1>10, <2>4, StateChanges DEF CheckFails
    <3>2. OwnersOK'
      BY <2>1, <2>4, <3>1, OwnersUnchanged
    <3>3. fd'[w] # NoFd => w \in attached' \/ StartingIn(stack', w)
      BY <1>2, <2>2, <2>4 DEF Kept
    <3>4. Kept(stack, stack', W)
      BY <2>2 DEF Kept
    <3> QED
      BY <2>1, <2>4, <3>2, <3>3, <3>4, ConnectStepOK
  <2> QED
    BY <1>10, <2>3, <2>4 DEF CheckFails
<1>11. CASE CheckSucceeds(w)
  <2>1. UNCHANGED <<sock, orphans, created, closed, canceled>> /\ fd[w] # NoFd
    BY <1>11 DEF CheckSucceeds
  <2>2. Kept(stack, stack', W)
    <3>1. stack # <<>> /\ Head(stack).w = w /\ stack' = <<Calls("on_connected", w)>> \o Tail(stack)
      BY <1>11 DEF CheckSucceeds, At, Rest
    <3> QED
      BY <1>1, <3>1, KeptForms
  <2>3. SameOpen
    BY <1>1, <2>1 DEF SameOpen, Open
  <2>4. OwnersOK'
    BY <1>1, <1>11, <2>1, <2>3, WatcherGives DEF CheckSucceeds
  <2>5. fd'[w] = NoFd /\ \A v \in Watchers \ {w} : fd'[v] = fd[v]
    BY <1>1, <1>11 DEF CheckSucceeds
  <2>6. \A v \in attached : v # w => v \in attached'
    BY <1>11 DEF CheckSucceeds, detach
  <2> QED
    BY <2>1, <2>2, <2>4, <2>5, <2>6, ConnectStepOK
<1> QED
  BY <1>5, <1>6, <1>7, <1>8, <1>9, <1>10, <1>11 DEF ConnectCall, ConnectStep

(* Accept watchers. *)

\* A step of a watcher that is neither a connect nor a connection watcher.
LEMMA OtherStepOK ==
  ASSUME CallersOK, OwnersOK', NEW w \in Accepts \cup Timers,
         \A v \in Watchers \ {w} : fd'[v] = fd[v],
         \A v \in attached : v # w => v \in attached',
         Kept(stack, stack', Connects),
         UNCHANGED <<canceled, created, closed>>,
         orphans' \subseteq Timers
  PROVE  CallersOK'
<1>1. w \notin Connects /\ w \notin Conns
  BY AcceptAssumption, ConnAssumption, NetworkAssumption
<1>2. IsStack(stack') /\ StartsOK'
  BY <1>1, ConnectAssumption, ConnectsUnconcerned
<1>3. ConnsOK'
  BY <1>1, ConnAssumption DEF CallersOK, ConnsOK
<1> QED
  BY <1>2, <1>3 DEF CallersOK

LEMMA AcceptKeeps ==
  ASSUME OwnersOK, CallersOK, NEW a \in Accepts, AcceptCall(a) \/ AcceptStep(a),
         UNCHANGED connVars
  PROVE  OwnersOK' /\ CallersOK'
<1> USE DEF connectVars, connVars, watcherVars, attachedVars, loopVars
<1>1. /\ a \in Watchers /\ IsStack(stack) /\ sock \in [Fds -> Sockets]
      /\ fd \in [Watchers -> Fds \cup {NoFd}] /\ orphans \subseteq Timers
  BY AcceptAssumption DEF CallersOK, OwnersOK
<1>2. UNCHANGED <<orphans, canceled, created, closed>>
  BY DEF AcceptCall, AcceptStep, createListenSocket, startAccept, stopAccept, destroyAccept,
         onReadyAccept, AcceptDone, Accept, AcceptFails
<1>3. /\ Kept(stack, stack', Connects)
      /\ \A v \in attached : v # a => v \in attached'
  <2>1. CASE AcceptCall(a)
    <3>1. UNCHANGED stack
      BY <2>1 DEF AcceptCall, createListenSocket, startAccept, stopAccept, destroyAccept
    <3>2. \A v \in attached : v # a => v \in attached'
      BY <2>1 DEF AcceptCall, createListenSocket, startAccept, stopAccept, destroyAccept,
                  attach, detach, StopAndClose, DetachAndClose
    <3> QED
      BY <1>1, <3>1, <3>2, KeptForms
  <2>2. CASE AcceptStep(a)
    <3>1. UNCHANGED attached
      BY <2>2 DEF AcceptStep, onReadyAccept, AcceptDone, Accept, AcceptFails
    <3>2. stack # <<>> /\ Head(stack).at \notin {"connect", "attach"}
      BY <2>2 DEF AcceptStep, onReadyAccept, AcceptDone, Accept, AcceptFails, At
    <3>3. \/ stack' = Tail(stack)
          \/ \E f : stack' = <<f>> \o Tail(stack)
          \/ \E f, g : stack' = <<f, g>> \o Tail(stack)
      BY <2>2 DEF AcceptStep, onReadyAccept, AcceptDone, Accept, AcceptFails, Rest
    <3>4. Kept(stack, stack', Connects)
      BY <1>1, <3>2, <3>3, KeptForms
    <3> QED
      BY <3>1, <3>4
  <2> QED
    BY <2>1, <2>2
<1>4. OwnersOK' /\ \A v \in Watchers \ {a} : fd'[v] = fd[v]
  <2>1. CASE createListenSocket(a)
    <3>1. PICK f \in NewFd : /\ fd' = [fd EXCEPT ![a] = f]
                             /\ sock' = [sock EXCEPT ![f] = [NoSocket EXCEPT !.st = "listen"]]
      BY <2>1 DEF createListenSocket
    <3>2. Opened(f)
      BY <1>1, <3>1, SocketKinds, SocketOpens
    <3>3. fd[a] = NoFd /\ UNCHANGED streams
      BY <2>1 DEF createListenSocket
    <3>4. OwnersOK'
      BY <1>1, <3>1, <3>2, <3>3, WatcherOpens
    <3> QED
      BY <1>1, <3>1, <3>4
  <2>2. CASE destroyAccept(a)
    BY <1>1, <2>2, CloseEffect DEF destroyAccept
  <2>3. CASE Accept(a)
    <3>1. UNCHANGED fd /\ sock[fd[a]].rx > 0
      BY <2>3 DEF Accept
    <3>2. PICK f \in NewFd :
            /\ sock' = [sock EXCEPT ![fd[a]].rx = @ - 1, ![f] = [NoSocket EXCEPT !.st = "up"]]
            /\ streams' = streams \cup {f}
      BY <2>3 DEF Accept
    <3> DEFINE r == [sock[fd[a]] EXCEPT !.rx = sock[fd[a]].rx - 1]
               u == [NoSocket EXCEPT !.st = "up"]
    <3>3. fd[a] \in Fds => r \in Sockets /\ r.st = sock[fd[a]].st
      BY <1>1, <3>1 DEF Sockets
    <3>4. u \in Sockets /\ u.st = "up"
      BY SocketKinds
    <3>5. \A g \in Fds : sock'[g] = IF g = f THEN u ELSE IF g = fd[a] THEN r ELSE sock[g]
      BY <1>1, <3>2
    <3>6. DOMAIN sock' = Fds /\ sock' = [g \in DOMAIN sock' |-> sock'[g]]
      BY <1>1, <3>2
    <3> HIDE DEF r, u
    <3>7. f \in Fds \ Open
      BY DEF NewFd
    <3>8. sock' \in [Fds -> Sockets]
      BY <1>1, <3>3, <3>4, <3>5, <3>6
    <3>9. Open' = Open \cup {f}
      BY <1>1, <3>3, <3>4, <3>5, <3>7 DEF Open
    <3>10. OwnersOK'
      BY <3>1, <3>2, <3>7, <3>8, <3>9, StreamOpens DEF Opened
    <3> QED
      BY <3>1, <3>10
  <2>4. CASE (AcceptFails(a) /\ UNCHANGED sock) \/ onReadyAccept(a) \/ AcceptDone(a)
             \/ startAccept(a) \/ stopAccept(a)
    <3>1. UNCHANGED <<sock, fd, streams>>
      BY <2>4 DEF AcceptFails, onReadyAccept, AcceptDone, startAccept, stopAccept
    <3>2. SameOpen
      BY <1>1, <3>1 DEF SameOpen, Open
    <3> QED
      BY <3>1, <3>2, OwnersUnchanged
  <2>5. CASE AcceptFails(a) /\ sock' = [sock EXCEPT ![fd[a]].rx = @ - 1]
    <3>1. UNCHANGED <<fd, streams>> /\ sock[fd[a]].rx > 0
      BY <2>5 DEF AcceptFails
    <3>2. fd[a] \in Fds => sock[fd[a]].rx - 1 \in Nat
      BY <1>1, <3>1 DEF Sockets
    <3>3. sock' = [sock EXCEPT ![fd[a]].rx = sock[fd[a]].rx - 1]
      BY <2>5
    <3>4. SameOpen
      BY <1>1, <3>2, <3>3, CountChanges
    <3> QED
      BY <3>1, <3>4, OwnersUnchanged
  <2> QED
    BY <2>1, <2>2, <2>3, <2>4, <2>5 DEF AcceptCall, AcceptStep, AcceptFails
<1> QED
  BY <1>1, <1>2, <1>3, <1>4, OtherStepOK

(* Timer watchers. *)

LEMMA TimerKeeps ==
  ASSUME OwnersOK, CallersOK, NEW t \in Timers, TimerCall(t) \/ TimerStep(t) \/ Expire(t), LeavesTcp
  PROVE  OwnersOK' /\ CallersOK'
<1> USE DEF LeavesTcp, connectVars, connVars, watcherVars, attachedVars, loopVars
<1>1. /\ t \in Watchers /\ IsStack(stack) /\ sock \in [Fds -> Sockets]
      /\ fd \in [Watchers -> Fds \cup {NoFd}] /\ orphans \subseteq Timers
  BY TimerAssumption DEF CallersOK, OwnersOK
<1>2. UNCHANGED <<streams, canceled, created, closed>>
  OBVIOUS
<1>3. orphans' \subseteq Timers
  BY <1>1 DEF TimerCall, TimerStep, createTimer, startTimer, stopTimer, setItimerspec,
              clearItimerspec, Settime, destroyTimer, onReadyTimer, ReadExpirations, Drained,
              CallBack, Expire
<1>4. /\ Kept(stack, stack', Connects)
      /\ \A v \in attached : v # t => v \in attached'
  <2>1. CASE TimerCall(t) \/ Expire(t)
    <3>1. UNCHANGED stack
      BY <2>1 DEF TimerCall, createTimer, startTimer, stopTimer, setItimerspec,
              clearItimerspec, Settime, destroyTimer, Expire
    <3>2. \A v \in attached : v # t => v \in attached'
      BY <2>1 DEF TimerCall, createTimer, startTimer, stopTimer, setItimerspec, clearItimerspec,
                  Settime, destroyTimer, Expire, attach, detach, StopAndClose, DetachAndClose
    <3> QED
      BY <1>1, <3>1, <3>2, KeptForms
  <2>2. CASE TimerStep(t)
    <3>1. UNCHANGED attached
      BY <2>2 DEF TimerStep, onReadyTimer, ReadExpirations, Drained, CallBack
    <3>2. stack # <<>> /\ Head(stack).at \notin {"connect", "attach"}
      BY <2>2 DEF TimerStep, onReadyTimer, ReadExpirations, Drained, CallBack, At
    <3>3. \/ stack' = Tail(stack)
          \/ \E f : stack' = <<f>> \o Tail(stack)
          \/ \E f, g : stack' = <<f, g>> \o Tail(stack)
      <4>1. CASE CallBack(t)
        BY <4>1, Zenon DEF CallBack, Rest
      <4> QED
        BY <2>2, <4>1 DEF TimerStep, onReadyTimer, ReadExpirations, Drained, Rest
    <3>4. Kept(stack, stack', Connects)
      BY <1>1, <3>2, <3>3, KeptForms
    <3> QED
      BY <3>1, <3>4
  <2> QED
    BY <2>1, <2>2
<1>5. OwnersOK' /\ \A v \in Watchers \ {t} : fd'[v] = fd[v]
  <2>1. CASE createTimer(t)
    <3>1. PICK f \in NewFd : /\ fd' = [fd EXCEPT ![t] = f]
                             /\ sock' = [sock EXCEPT ![f] = [NoSocket EXCEPT !.st = "timer"]]
      BY <2>1 DEF createTimer
    <3>2. Opened(f)
      BY <1>1, <3>1, SocketKinds, SocketOpens
    <3>3. fd[t] = NoFd
      BY <2>1 DEF createTimer
    <3>4. OwnersOK'
      BY <1>1, <1>2, <3>1, <3>2, <3>3, WatcherOpens
    <3> QED
      BY <1>1, <3>1, <3>4
  <2>2. CASE StopAndClose(t)
    BY <1>1, <1>2, <2>2, CloseEffect
  <2>3. CASE UNCHANGED <<sock, fd>>
    <3>1. SameOpen
      BY <1>1, <2>3 DEF SameOpen, Open
    <3> QED
      BY <1>2, <2>3, <3>1, OwnersUnchanged
  <2>4. CASE UNCHANGED fd /\ \E n \in Nat : sock' = [sock EXCEPT ![fd[t]].rx = n]
    <3>1. SameOpen
      BY <1>1, <2>4, CountChanges
    <3> QED
      BY <1>2, <2>4, <3>1, OwnersUnchanged
  <2>5. CASE TimerStep(t)
    <3>1. UNCHANGED fd /\ (UNCHANGED sock \/ sock' = [sock EXCEPT ![fd[t]].rx = 0])
      BY <2>5 DEF TimerStep, onReadyTimer, ReadExpirations, Drained, CallBack
    <3> QED
      BY <2>3, <2>4, <3>1
  <2>6. CASE Expire(t)
    <3>1. fd[t] \in Fds /\ UNCHANGED fd
      BY <1>1, <2>6 DEF Expire
    <3>2. sock[fd[t]].rx + 1 \in Nat
      BY <1>1, <3>1 DEF Sockets
    <3>3. sock' = [sock EXCEPT ![fd[t]].rx = sock[fd[t]].rx + 1]
      BY <2>6 DEF Expire
    <3> QED
      BY <2>4, <3>1, <3>2, <3>3
  <2>7. CASE TimerCall(t)
    <3>1. CASE setItimerspec(t) \/ clearItimerspec(t)
      <4>1. UNCHANGED fd /\ sock' = [sock EXCEPT ![fd[t]].rx = 0]
        BY <3>1 DEF setItimerspec, clearItimerspec, Settime
      <4> QED
        BY <2>4, <4>1
    <3>2. CASE startTimer(t) \/ stopTimer(t)
      BY <2>3, <3>2 DEF startTimer, stopTimer
    <3>3. CASE destroyTimer(t)
      BY <2>2, <2>3, <3>3 DEF destroyTimer
    <3> QED
      BY <2>1, <2>7, <3>1, <3>2, <3>3 DEF TimerCall
  <2> QED
    BY <2>5, <2>6, <2>7
<1> QED
  BY <1>1, <1>2, <1>3, <1>4, <1>5, OtherStepOK

(* The frames of the stack. *)

Frames(s) == {s[i] : i \in 1 .. Len(s)}

LEMMA FrameForms ==
  ASSUME NEW s, IsStack(s)
  PROVE  /\ \A f : Frames(<<f>> \o s) = Frames(s) \cup {f}
         /\ \A f, g : Frames(<<f, g>> \o s) = Frames(s) \cup {f, g}
         /\ s # <<>> => /\ Frames(Tail(s)) \subseteq Frames(s)
                        /\ \A f : Frames(<<f>> \o Tail(s)) \subseteq Frames(s) \cup {f}
                        /\ \A f, g : Frames(<<f, g>> \o Tail(s)) \subseteq Frames(s) \cup {f, g}
                        /\ Head(s) \in Frames(s)
<1>1. ASSUME NEW u, IsStack(u), NEW f PROVE Frames(<<f>> \o u) = Frames(u) \cup {f}
  <2> DEFINE v == <<f>> \o u
  <2>1. /\ Len(u) \in Nat /\ Len(v) = Len(u) + 1 /\ v[1] = f
        /\ \A i \in 1 .. Len(u) : v[i + 1] = u[i]
    BY <1>1, Pushed
  <2> HIDE DEF v
  <2>2. ASSUME NEW i \in 1 .. Len(v) PROVE v[i] \in Frames(u) \cup {f}
    <3>1. CASE i = 1
      BY <2>1, <3>1
    <3>2. CASE i # 1
      <4>1. i - 1 \in 1 .. Len(u) /\ (i - 1) + 1 = i
        BY <2>1, <3>2
      <4>2. v[i] = u[i - 1]
        BY <2>1, <4>1
      <4> QED
        BY <4>1, <4>2 DEF Frames
    <3> QED
      BY <3>1, <3>2
  <2>3. ASSUME NEW i \in 1 .. Len(u) PROVE u[i] \in Frames(v)
    <3>1. i + 1 \in 1 .. Len(v) /\ v[i + 1] = u[i]
      BY <2>1
    <3> QED
      BY <3>1 DEF Frames
  <2>4. f \in Frames(v)
    <3>1. 1 \in 1 .. Len(v)
      BY <2>1
    <3> QED
      BY <2>1, <3>1 DEF Frames
  <2>5. Frames(v) \subseteq Frames(u) \cup {f}
    BY <2>2 DEF Frames
  <2>6. Frames(u) \subseteq Frames(v)
    BY <2>3 DEF Frames
  <2>7. Frames(v) = Frames(u) \cup {f}
    BY <2>4, <2>5, <2>6
  <2> QED
    BY <2>7 DEF v
<1>2. ASSUME NEW u, IsStack(u), NEW f, NEW g PROVE Frames(<<f, g>> \o u) = Frames(u) \cup {f, g}
  <2>1. IsStack(<<g>> \o u) /\ Frames(<<g>> \o u) = Frames(u) \cup {g}
    BY <1>1, <1>2, Pushed
  <2>2. Frames(<<f>> \o (<<g>> \o u)) = Frames(<<g>> \o u) \cup {f}
    BY <1>1, <2>1
  <2>3. <<f, g>> \o u = <<f>> \o (<<g>> \o u)
    BY <1>2, PushedTwo
  <2> QED
    BY <2>1, <2>2, <2>3
<1>3. ASSUME s # <<>>
      PROVE  Frames(Tail(s)) \subseteq Frames(s) /\ IsStack(Tail(s)) /\ Head(s) \in Frames(s)
  <2>1. /\ Len(s) \in Nat \ {0} /\ Len(Tail(s)) = Len(s) - 1 /\ Head(s) = s[1]
        /\ \A i \in 1 .. Len(Tail(s)) : Tail(s)[i] = s[i + 1]
        /\ IsStack(Tail(s))
    BY <1>3, Popped
  <2> DEFINE u == Tail(s)
  <2> HIDE DEF u
  <2>2. ASSUME NEW i \in 1 .. Len(u) PROVE u[i] \in Frames(s)
    <3>1. i + 1 \in 1 .. Len(s) /\ u[i] = s[i + 1]
      BY <2>1 DEF u
    <3> QED
      BY <3>1 DEF Frames
  <2>3. Frames(u) \subseteq Frames(s)
    BY <2>2 DEF Frames
  <2>4. s[1] \in Frames(s)
    <3>1. 1 \in 1 .. Len(s)
      BY <2>1
    <3> QED
      BY <3>1 DEF Frames
  <2> QED
    BY <2>1, <2>3, <2>4 DEF u
<1>4. /\ \A f : Frames(<<f>> \o s) = Frames(s) \cup {f}
      /\ \A f, g : Frames(<<f, g>> \o s) = Frames(s) \cup {f, g}
  BY <1>1, <1>2
<1>5. ASSUME s # <<>>
      PROVE  /\ \A f : Frames(<<f>> \o Tail(s)) \subseteq Frames(s) \cup {f}
             /\ \A f, g : Frames(<<f, g>> \o Tail(s)) \subseteq Frames(s) \cup {f, g}
  <2>1. Frames(Tail(s)) \subseteq Frames(s) /\ IsStack(Tail(s))
    BY <1>3, <1>5
  <2>2. /\ \A f : Frames(<<f>> \o Tail(s)) = Frames(Tail(s)) \cup {f}
        /\ \A f, g : Frames(<<f, g>> \o Tail(s)) = Frames(Tail(s)) \cup {f, g}
    BY <1>1, <1>2, <2>1
  <2> QED
    BY <2>1, <2>2
<1> QED
  BY <1>3, <1>4, <1>5

\* Only frames of the watcher w, or the frame with which the core calls a watcher, are new.
Adds(s, t, w) == \A f \in Frames(t) \ Frames(s) : f.w = w \/ f.at = "ready"

LEMMA AddForms ==
  ASSUME NEW s, IsStack(s), NEW w
  PROVE  /\ Adds(s, s, w)
         /\ \A f : f.w = w \/ f.at = "ready" => Adds(s, <<f>> \o s, w)
         /\ \A f, g : f.w = w /\ g.w = w => Adds(s, <<f, g>> \o s, w)
         /\ s # <<>> =>
              /\ Adds(s, Tail(s), w)
              /\ \A f : f.w = w => Adds(s, <<f>> \o Tail(s), w)
              /\ \A f, g : f.w = w /\ g.w = w => Adds(s, <<f, g>> \o Tail(s), w)
<1>1. /\ \A f : Frames(<<f>> \o s) = Frames(s) \cup {f}
      /\ \A f, g : Frames(<<f, g>> \o s) = Frames(s) \cup {f, g}
  BY FrameForms
<1>2. s # <<>> => /\ Frames(Tail(s)) \subseteq Frames(s)
                  /\ \A f : Frames(<<f>> \o Tail(s)) \subseteq Frames(s) \cup {f}
                  /\ \A f, g : Frames(<<f, g>> \o Tail(s)) \subseteq Frames(s) \cup {f, g}
  BY FrameForms
<1>3. Adds(s, s, w)
  BY DEF Adds
<1>4. ASSUME NEW f, f.w = w \/ f.at = "ready" PROVE Adds(s, <<f>> \o s, w)
  <2>1. Frames(<<f>> \o s) \subseteq Frames(s) \cup {f}
    BY <1>1
  <2> QED
    BY <1>4, <2>1 DEF Adds
<1>5. ASSUME NEW f, NEW g, f.w = w, g.w = w PROVE Adds(s, <<f, g>> \o s, w)
  <2>1. Frames(<<f, g>> \o s) \subseteq Frames(s) \cup {f, g}
    BY <1>1
  <2> QED
    BY <1>5, <2>1 DEF Adds
<1>6. ASSUME s # <<>> PROVE Adds(s, Tail(s), w)
  BY <1>2, <1>6 DEF Adds
<1>7. ASSUME s # <<>>, NEW f, f.w = w PROVE Adds(s, <<f>> \o Tail(s), w)
  <2>1. Frames(<<f>> \o Tail(s)) \subseteq Frames(s) \cup {f}
    BY <1>2, <1>7
  <2> QED
    BY <1>7, <2>1 DEF Adds
<1>8. ASSUME s # <<>>, NEW f, NEW g, f.w = w, g.w = w PROVE Adds(s, <<f, g>> \o Tail(s), w)
  <2>1. Frames(<<f, g>> \o Tail(s)) \subseteq Frames(s) \cup {f, g}
    BY <1>2, <1>8
  <2> QED
    BY <1>8, <2>1 DEF Adds
<1> QED
  BY <1>3, <1>4, <1>5, <1>6, <1>7, <1>8

\* A connection watcher in the middle of something exists.
FramesOK == \A f \in Frames(stack) : f.w \in Conns /\ f.at # "ready" => f.w \in created

LEMMA FramesKept ==
  ASSUME FramesOK, NEW w, Adds(stack, stack', w), w \in Conns => w \in created',
         \A k \in created : k \notin created' => \A f \in Frames(stack) : f.w # k
  PROVE  FramesOK'
BY DEF FramesOK, Adds

LEMMA WorkerFrames ==
  ASSUME IsStack(stack), FramesOK, LeavesTcp,
         Dispatch \/ applyPendingChanges \/ Wait \/ RunTask \/ UserReturns
  PROVE  FramesOK'
<1>1. Worker \notin Conns /\ UNCHANGED created
  BY CoreAssumption, ConnAssumption DEF LeavesTcp, connVars
<1>2. CASE Dispatch
  <2>1. Adds(stack, stack', Worker)
    <3>1. CASE UNCHANGED stack
      BY <3>1, AddForms
    <3>2. CASE \E s \in snapshot : \E e \in ready : stack' = <<Frame("ready", s.w, 0, e.ev)>> \o stack
      <4>1. PICK s \in snapshot, e \in ready : stack' = <<Frame("ready", s.w, 0, e.ev)>> \o stack
        BY <3>2
      <4>2. Frame("ready", s.w, 0, e.ev).at = "ready"
        BY DEF Frame
      <4> QED
        BY <4>1, <4>2, AddForms
    <3> QED
      BY <1>2, <3>1, <3>2, Zenon DEF Dispatch
  <2> QED
    BY <1>1, <2>1, FramesKept
<1>3. CASE applyPendingChanges \/ UserReturns
  <2>1. stack # <<>> /\ stack' = Tail(stack)
    BY <1>3 DEF applyPendingChanges, UserReturns, InUser, At, Rest
  <2>2. Adds(stack, stack', Worker)
    BY <2>1, AddForms
  <2> QED
    BY <1>1, <2>2, FramesKept
<1>4. CASE Wait \/ RunTask
  <2>1. \E l \in {"dispatch", "task"} : stack' = <<Calls(l, Worker)>>
    BY <1>4 DEF Wait, EpollWait, PollWait, KqueueWait, MacPollWait, TakeEvents, RunTask
  <2>2. \A l \in {"dispatch", "task"} : Calls(l, Worker).w = Worker
    BY DEF Calls, Frame
  <2>3. \A f \in Frames(stack') : f.w = Worker
    <3>1. \A f : Len(<<f>>) = 1 /\ <<f>>[1] = f
      OBVIOUS
    <3> QED
      BY <2>1, <2>2, <3>1 DEF Frames
  <2> QED
    BY <1>1, <2>3 DEF FramesOK
<1> QED
  BY <1>2, <1>3, <1>4

LEMMA ConnectFrames ==
  ASSUME IsStack(stack), FramesOK, NEW w \in Connects, ConnectCall(w) \/ ConnectStep(w),
         UNCHANGED connVars
  PROVE  FramesOK'
<1>1. w \notin Conns /\ UNCHANGED created
  BY ConnAssumption DEF connVars
<1>2. \A l, n, ev : Frame(l, w, n, ev).w = w /\ Calls(l, w).w = w
  BY DEF Calls, Frame
<1>3. CASE start(w)
  <2> DEFINE c == <<Calls("connect", w)>> \o stack
  <2>1. stack' = c \/ stack' = <<Calls("on_error", w)>> \o c
    BY <1>3 DEF start, fail
  <2>2. /\ Frames(c) = Frames(stack) \cup {Calls("connect", w)}
        /\ Frames(<<Calls("on_error", w)>> \o c) = Frames(c) \cup {Calls("on_error", w)}
    <3>1. IsStack(c) /\ Frames(c) = Frames(stack) \cup {Calls("connect", w)}
      BY Pushed, FrameForms
    <3> HIDE DEF c
    <3> QED
      BY <3>1, FrameForms
  <2>3. Adds(stack, stack', w)
    BY <1>2, <2>1, <2>2 DEF Adds
  <2> QED
    BY <1>1, <2>3, FramesKept
<1>4. CASE startConnect(w)
  <2>1. stack # <<>>
    BY <1>4 DEF startConnect, At
  <2> DEFINE c == <<Calls("attach", w)>> \o Rest
  <2>2. \/ stack' = Rest \/ stack' = <<Calls("check", w), Calls("attach", w)>> \o Rest
        \/ stack' = c \/ stack' = <<Calls("on_error", w)>> \o c
    BY <1>4, Zenon DEF startConnect, fail
  <2>3. /\ Frames(c) \subseteq Frames(stack) \cup {Calls("attach", w)}
        /\ Frames(<<Calls("on_error", w)>> \o c) = Frames(c) \cup {Calls("on_error", w)}
    <3>1. IsStack(c)
      BY <2>1, Popped, Pushed DEF Rest
    <3>2. Frames(c) \subseteq Frames(stack) \cup {Calls("attach", w)}
      BY <2>1, FrameForms DEF Rest
    <3> HIDE DEF c
    <3> QED
      BY <3>1, <3>2, FrameForms
  <2>4. Adds(stack, Rest, w) /\ Adds(stack, <<Calls("check", w), Calls("attach", w)>> \o Rest, w)
    BY <1>2, <2>1, AddForms DEF Rest
  <2>5. Adds(stack, c, w) /\ Adds(stack, <<Calls("on_error", w)>> \o c, w)
    BY <1>2, <2>3 DEF Adds
  <2>6. Adds(stack, stack', w)
    BY <2>2, <2>4, <2>5
  <2> QED
    BY <1>1, <2>6, FramesKept
<1>5. CASE startEnds(w) \/ onReadyConnect(w) \/ CheckNothing(w) \/ CheckFails(w) \/ CheckSucceeds(w)
  <2>1. stack # <<>>
    BY <1>5 DEF startEnds, onReadyConnect, CheckNothing, CheckFails, CheckSucceeds, At
  <2>2. <<>> \o Rest = Rest
    <3>1. PICK S : Rest \in Seq(S)
      BY <2>1, Popped DEF Rest, IsStack
    <3> QED
      BY <3>1
  <2>3. \/ stack' = Rest
        \/ \E l \in {"check", "on_error", "on_connected"} : stack' = <<Calls(l, w)>> \o Rest
    BY <1>5, <2>2 DEF startEnds, onReadyConnect, CheckNothing, CheckFails, CheckSucceeds, fail
  <2>4. Adds(stack, stack', w)
    BY <1>2, <2>1, <2>3, AddForms DEF Rest
  <2> QED
    BY <1>1, <2>4, FramesKept
<1>6. CASE stop(w) \/ cancel(w) \/ destroy(w)
  <2>1. UNCHANGED stack
    BY <1>6 DEF stop, cancel, destroy
  <2> QED
    BY <1>1, <2>1 DEF FramesOK
<1> QED
  BY <1>3, <1>4, <1>5, <1>6 DEF ConnectCall, ConnectStep

LEMMA AcceptFrames ==
  ASSUME IsStack(stack), FramesOK, NEW a \in Accepts, AcceptCall(a) \/ AcceptStep(a),
         UNCHANGED connVars
  PROVE  FramesOK'
<1>1. a \notin Conns /\ UNCHANGED created
  BY ConnAssumption DEF connVars
<1>2. \A l, n, ev : Frame(l, a, n, ev).w = a /\ Calls(l, a).w = a
  BY DEF Calls, Frame
<1>3. CASE AcceptStep(a)
  <2>1. stack # <<>>
    BY <1>3 DEF AcceptStep, onReadyAccept, AcceptDone, Accept, AcceptFails, At
  <2>2. \/ stack' = Rest
        \/ \E f : f.w = a /\ stack' = <<f>> \o Rest
        \/ \E f, g : f.w = a /\ g.w = a /\ stack' = <<f, g>> \o Rest
    BY <1>2, <1>3, Zenon DEF AcceptStep, onReadyAccept, AcceptDone, Accept, AcceptFails
  <2>3. Adds(stack, stack', a)
    BY <2>1, <2>2, AddForms DEF Rest
  <2> QED
    BY <1>1, <2>3, FramesKept
<1>4. CASE AcceptCall(a)
  <2>1. UNCHANGED stack
    BY <1>4 DEF AcceptCall, createListenSocket, startAccept, stopAccept, destroyAccept
  <2> QED
    BY <1>1, <2>1 DEF FramesOK
<1> QED
  BY <1>3, <1>4

LEMMA TimerFrames ==
  ASSUME IsStack(stack), FramesOK, NEW t \in Timers, TimerCall(t) \/ TimerStep(t) \/ Expire(t),
         LeavesTcp
  PROVE  FramesOK'
<1>1. t \notin Conns /\ UNCHANGED created
  BY NetworkAssumption DEF LeavesTcp, connVars
<1>2. \A l, n, ev : Frame(l, t, n, ev).w = t /\ Calls(l, t).w = t
  BY DEF Calls, Frame
<1>3. CASE TimerStep(t)
  <2>1. stack # <<>>
    BY <1>3 DEF TimerStep, onReadyTimer, ReadExpirations, Drained, CallBack, At
  <2>2. \/ stack' = Rest
        \/ \E f : f.w = t /\ stack' = <<f>> \o Rest
        \/ \E f, g : f.w = t /\ g.w = t /\ stack' = <<f, g>> \o Rest
    <3>1. CASE CallBack(t)
      <4> DEFINE n == Head(stack).n
                 g == IF n = 1 THEN Calls("drain", t) ELSE Frame("expire", t, n - 1, {})
      <4>1. stack' = <<Calls("on_timer", t), g>> \o Rest
        BY <3>1 DEF CallBack
      <4>2. g.w = t
        BY <1>2
      <4> HIDE DEF g
      <4> QED
        BY <1>2, <4>1, <4>2, Zenon
    <3>2. CASE onReadyTimer(t) \/ ReadExpirations(t) \/ Drained(t)
      BY <1>2, <3>2, Zenon DEF onReadyTimer, ReadExpirations, Drained
    <3> QED
      BY <1>3, <3>1, <3>2 DEF TimerStep
  <2>3. Adds(stack, stack', t)
    BY <2>1, <2>2, AddForms DEF Rest
  <2> QED
    BY <1>1, <2>3, FramesKept
<1>4. CASE TimerCall(t) \/ Expire(t)
  <2>1. UNCHANGED stack
    BY <1>4 DEF TimerCall, createTimer, startTimer, stopTimer, setItimerspec,
              clearItimerspec, Settime, destroyTimer, Expire, watcherVars, loopVars
  <2> QED
    BY <1>1, <2>1 DEF FramesOK
<1> QED
  BY <1>3, <1>4

(* Connection watchers. *)

LEMMA ConnectionStepOK ==
  ASSUME CallersOK, OwnersOK', NEW k \in Conns,
         \A v \in Watchers \ {k} : fd'[v] = fd[v],
         \A v \in attached : v # k => v \in attached',
         Kept(stack, stack', Connects),
         UNCHANGED <<canceled, orphans>>,
         created' \subseteq created \cup {k}, created \subseteq created' \cup {k},
         closed' \subseteq closed \cup {k}, closed \subseteq closed' \cup {k},
         k \in closed' => k \in created',
         fd'[k] # NoFd => k \in created' \ closed'
  PROVE  CallersOK'
<1>1. k \notin Connects
  BY ConnAssumption
<1>2. IsStack(stack') /\ StartsOK'
  BY <1>1, ConnectAssumption, ConnectsUnconcerned
<1>3. ConnsOK'
  BY ConnAssumption DEF CallersOK, ConnsOK
<1>4. created' \subseteq Conns /\ closed' \subseteq created'
  BY DEF CallersOK
<1> QED
  BY <1>2, <1>3, <1>4 DEF CallersOK

\* closeNow(), from a call or from a handler.
LEMMA CloseNowEffect ==
  ASSUME OwnersOK, CallersOK, NEW k \in Conns, NEW rest, k \in created \/ fd[k] # NoFd,
         closeNow(k, rest), UNCHANGED <<streams, created>>
  PROVE  /\ OwnersOK'
         /\ \A v \in Watchers \ {k} : fd'[v] = fd[v]
         /\ \A v \in attached : v # k => v \in attached'
         /\ closed' \subseteq closed \cup {k} /\ closed \subseteq closed'
         /\ k \in closed' => k \in created'
         /\ fd'[k] # NoFd => k \in created' \ closed'
         /\ stack' = rest \/ \E f : stack' = <<f>> \o rest
<1>1. k \in Watchers /\ k \in created
  BY ConnAssumption DEF CallersOK, ConnsOK
<1>2. fd[k] # NoFd => k \in created \ closed
  BY DEF CallersOK, ConnsOK
<1>3. ASSUME k \in closed, stack' = rest, UNCHANGED <<sock, fd, closed, attachedVars>>
      PROVE  OwnersOK' /\ UNCHANGED <<fd, closed, attached>>
  <2>1. SameOpen
    BY <1>3 DEF SameOpen, Open, OwnersOK
  <2> QED
    BY <1>3, <2>1, OwnersUnchanged DEF attachedVars
<1>4. ASSUME k \notin closed, closed' = closed \cup {k}, StopAndClose(k),
             stack' = <<Calls("on_close", k)>> \o rest
      PROVE  /\ OwnersOK' /\ fd'[k] = NoFd /\ \A v \in Watchers \ {k} : fd'[v] = fd[v]
             /\ \A v \in attached : v # k => v \in attached'
  BY <1>1, <1>4, CloseEffect
<1>5. CASE k \in closed
  <2>1. OwnersOK' /\ UNCHANGED <<fd, closed, attached>> /\ stack' = rest
    BY <1>3, <1>5 DEF closeNow
  <2> QED
    BY <1>1, <1>2, <2>1
<1>6. CASE k \notin closed
  <2>1. /\ OwnersOK' /\ fd'[k] = NoFd /\ \A v \in Watchers \ {k} : fd'[v] = fd[v]
        /\ \A v \in attached : v # k => v \in attached'
        /\ closed' = closed \cup {k} /\ stack' = <<Calls("on_close", k)>> \o rest
    BY <1>4, <1>6 DEF closeNow
  <2> QED
    BY <1>1, <2>1
<1> QED
  BY <1>5, <1>6

\* What a connection does besides opening and closing.
LEMMA AtRestOK ==
  ASSUME OwnersOK, CallersOK, NEW k \in Conns, SameOpen, Kept(stack, stack', Connects),
         \A v \in attached : v # k => v \in attached',
         UNCHANGED <<fd, streams, canceled, orphans, created, closed>>
  PROVE  OwnersOK' /\ CallersOK'
<1>1. OwnersOK'
  BY OwnersUnchanged
<1>2. fd[k] # NoFd => k \in created \ closed
  BY DEF CallersOK, ConnsOK
<1>3. k \in closed => k \in created
  BY DEF CallersOK
<1> QED
  BY <1>1, <1>2, <1>3, ConnectionStepOK

LEMMA CallKeeps ==
  ASSUME OwnersOK, CallersOK, NEW k \in Conns, ConnCall(k)
  PROVE  OwnersOK' /\ CallersOK'
<1> USE DEF connectVars, connVars, watcherVars, attachedVars, loopVars
<1>1. /\ k \in Watchers /\ IsStack(stack) /\ sock \in [Fds -> Sockets]
      /\ fd \in [Watchers -> Fds \cup {NoFd}] /\ closed \subseteq created
      /\ fd[k] # NoFd => k \in created \ closed
  BY ConnAssumption DEF CallersOK, OwnersOK, ConnsOK
<1>2. UNCHANGED <<canceled, orphans>>
  BY DEF ConnCall, create, startConnection, stopConnection, trySendBlocks, trySendFails,
         shutdownWrite, close, destroyConnection
<1>3. CASE create(k)
  <2>1. PICK f \in streams : streams' = streams \ {f} /\ fd' = [fd EXCEPT ![k] = f]
    BY <1>3 DEF create
  <2>2. k \notin created /\ created' = created \cup {k} /\ UNCHANGED <<sock, stack, attached, closed>>
    BY <1>3 DEF create
  <2>3. SameOpen
    BY <1>1, <2>2 DEF SameOpen, Open
  <2>4. OwnersOK'
    BY <1>1, <2>1, <2>2, <2>3, WatcherTakes
  <2>5. \A v \in Watchers \ {k} : fd'[v] = fd[v]
    BY <1>1, <2>1
  <2>6. Kept(stack, stack', Connects)
    BY <1>1, <2>2, KeptForms
  <2>7. k \in created' \ closed'
    BY <1>1, <2>2
  <2> QED
    BY <1>2, <2>2, <2>4, <2>5, <2>6, <2>7, ConnectionStepOK
<1>4. CASE startConnection(k) \/ stopConnection(k)
  <2>1. UNCHANGED <<sock, fd, streams, stack, created, closed>>
    BY <1>4 DEF startConnection, stopConnection
  <2>2. \A v \in attached : v # k => v \in attached'
    BY <1>4 DEF startConnection, stopConnection, attach, detach
  <2>3. SameOpen /\ Kept(stack, stack', Connects)
    BY <1>1, <2>1, KeptForms DEF SameOpen, Open
  <2> QED
    BY <1>2, <2>1, <2>2, <2>3, AtRestOK
<1>5. CASE trySendBlocks(k) \/ shutdownWrite(k)
  <2>1. UNCHANGED <<fd, attached, streams, stack, created, closed>>
    BY <1>5 DEF trySendBlocks, shutdownWrite
  <2>2. SameOpen
    BY <1>1, <1>5, FlagChanges DEF trySendBlocks, shutdownWrite
  <2>3. Kept(stack, stack', Connects)
    BY <1>1, <2>1, KeptForms
  <2> QED
    BY <1>2, <2>1, <2>2, <2>3, AtRestOK
<1>6. CASE trySendFails(k)
  <2>1. UNCHANGED <<sock, fd, attached, streams, created, closed>>
    BY <1>6 DEF trySendFails
  <2>2. Kept(stack, stack', Connects)
    BY <1>1, <1>6, KeptForms DEF trySendFails
  <2>3. SameOpen
    BY <1>1, <2>1 DEF SameOpen, Open
  <2> QED
    BY <1>2, <2>1, <2>2, <2>3, AtRestOK
<1>7. CASE close(k)
  <2>1. k \in created /\ closeNow(k, stack) /\ UNCHANGED <<streams, created>>
    BY <1>7 DEF close
  <2> DEFINE Effect ==
         /\ OwnersOK'
         /\ \A v \in Watchers \ {k} : fd'[v] = fd[v]
         /\ \A v \in attached : v # k => v \in attached'
         /\ closed' \subseteq closed \cup {k} /\ closed \subseteq closed'
         /\ k \in closed' => k \in created'
         /\ fd'[k] # NoFd => k \in created' \ closed'
         /\ stack' = stack \/ \E f : stack' = <<f>> \o stack
  <2>2. Effect
    BY <2>1, CloseNowEffect
  <2>3. Kept(stack, stack', Connects)
    BY <1>1, <2>2, KeptForms
  <2> QED
    BY <1>2, <2>1, <2>2, <2>3, ConnectionStepOK
<1>8. CASE destroyConnection(k)
  <2>1. /\ StopAndClose(k) /\ UNCHANGED <<streams, stack>>
        /\ created' = created \ {k} /\ closed' = closed \ {k}
    BY <1>8 DEF destroyConnection
  <2>2. /\ OwnersOK' /\ fd'[k] = NoFd /\ \A v \in Watchers \ {k} : fd'[v] = fd[v]
        /\ \A v \in attached : v # k => v \in attached'
    BY <1>1, <2>1, CloseEffect
  <2>3. Kept(stack, stack', Connects)
    BY <1>1, <2>1, KeptForms
  <2> QED
    BY <1>2, <2>1, <2>2, <2>3, ConnectionStepOK
<1> QED
  BY <1>3, <1>4, <1>5, <1>6, <1>7, <1>8 DEF ConnCall

LEMMA StepKeeps ==
  ASSUME OwnersOK, CallersOK, FramesOK, NEW k \in Conns,
         ConnStep(k) \/ onReady(k) \/ onReadReady(k) \/ onWriteEof(k) \/ onWriteReady(k)
  PROVE  OwnersOK' /\ CallersOK'
<1> USE DEF connectVars, connVars, watcherVars, attachedVars, loopVars
<1>1. /\ k \in Watchers /\ IsStack(stack) /\ sock \in [Fds -> Sockets]
      /\ fd \in [Watchers -> Fds \cup {NoFd}] /\ closed \subseteq created
      /\ fd[k] # NoFd => k \in created \ closed
  BY ConnAssumption DEF CallersOK, OwnersOK, ConnsOK
<1>2. UNCHANGED <<canceled, orphans, streams, created>>
  BY DEF ConnStep, onReady, onReadReady, onWriteEof, onWriteReady, RecvDone, RecvData, RecvEnd,
         RecvFails, AfterClosed, AfterRead, CloseStep
<1>3. stack # <<>> /\ Head(stack).at \notin {"connect", "attach"}
  BY DEF ConnStep, onReady, onReadReady, onWriteEof, onWriteReady, RecvDone, RecvData, RecvEnd,
         RecvFails, AfterClosed, AfterRead, CloseStep, At
<1>4. ASSUME k \in created \/ fd[k] # NoFd, closeNow(k, Rest)
      PROVE  OwnersOK' /\ CallersOK'
  <2> DEFINE Effect ==
         /\ OwnersOK'
         /\ \A v \in Watchers \ {k} : fd'[v] = fd[v]
         /\ \A v \in attached : v # k => v \in attached'
         /\ closed' \subseteq closed \cup {k} /\ closed \subseteq closed'
         /\ k \in closed' => k \in created'
         /\ fd'[k] # NoFd => k \in created' \ closed'
         /\ stack' = Rest \/ \E f : stack' = <<f>> \o Rest
  <2>1. Effect
    BY <1>2, <1>4, CloseNowEffect
  <2>2. Kept(stack, stack', Connects)
    <3>1. stack' = Rest \/ \E f : stack' = <<f>> \o Rest
      BY <2>1
    <3>2. IsStack(stack) /\ stack # <<>> /\ Head(stack).at \notin {"connect", "attach"}
      BY <1>1, <1>3
    <3> HIDE DEF Effect
    <3>3. Kept(stack, Rest, Connects) /\ \A f : Kept(stack, <<f>> \o Rest, Connects)
      BY <3>2, KeptForms DEF Rest
    <3> QED
      BY <3>1, <3>3, Zenon
  <2> QED
    BY <1>2, <2>1, <2>2, ConnectionStepOK
<1>5. ASSUME UNCHANGED <<fd, attached, closed>>, SameOpen,
             \/ stack' = Rest
             \/ \E f : stack' = <<f>> \o Rest
             \/ \E f, g : stack' = <<f, g>> \o Rest
      PROVE  OwnersOK' /\ CallersOK'
  <2>1. Kept(stack, stack', Connects)
    <3>1. /\ Kept(stack, Rest, Connects)
          /\ \A f : Kept(stack, <<f>> \o Rest, Connects)
          /\ \A f, g : Kept(stack, <<f, g>> \o Rest, Connects)
      BY <1>1, <1>3, KeptForms DEF Rest
    <3> QED
      BY <1>5, <3>1, Zenon
  <2> QED
    BY <1>2, <1>5, <2>1, AtRestOK
<1>6. UNCHANGED sock => SameOpen
  BY <1>1 DEF SameOpen, Open
<1>7. CASE RecvDone(k) \/ RecvEnd(k) \/ RecvFails(k) \/ AfterRead(k) \/ onReadReady(k)
           \/ onWriteReady(k)
  <2>1. UNCHANGED <<sock, fd, attached, closed>>
    BY <1>7 DEF RecvDone, RecvEnd, RecvFails, AfterRead, onReadReady, onWriteReady
  <2>2. \/ stack' = Rest
        \/ \E f : stack' = <<f>> \o Rest
        \/ \E f, g : stack' = <<f, g>> \o Rest
    BY <1>7, Zenon DEF RecvDone, RecvEnd, RecvFails, AfterRead, onReadReady, onWriteReady
  <2> QED
    BY <1>5, <1>6, <2>1, <2>2
<1>8. CASE onReady(k)
  <2>1. UNCHANGED <<sock, fd, attached, closed>>
    BY <1>8 DEF onReady
  <2>2. \/ stack' = Rest
        \/ \E f : stack' = <<f>> \o Rest
        \/ \E f, g : stack' = <<f, g>> \o Rest
    BY <1>8, Zenon DEF onReady
  <2> QED
    BY <1>5, <1>6, <2>1, <2>2
<1>9. CASE RecvData(k)
  <2>1. UNCHANGED <<fd, attached, closed>> /\ fd[k] \in Fds /\ sock[fd[k]].rx > 0
    BY <1>1, <1>9 DEF RecvData
  <2>2. sock[fd[k]].rx - 1 \in Nat
    BY <1>1, <2>1 DEF Sockets
  <2>3. sock' = [sock EXCEPT ![fd[k]].rx = sock[fd[k]].rx - 1]
    BY <1>9 DEF RecvData
  <2>4. SameOpen
    BY <1>1, <2>2, <2>3, CountChanges
  <2>5. \E f, g : stack' = <<f, g>> \o Rest
    BY <1>9, Zenon DEF RecvData
  <2> QED
    BY <1>5, <2>1, <2>4, <2>5
<1>10. CASE onWriteEof(k)
  BY <1>4, <1>10 DEF onWriteEof
<1>11. CASE AfterClosed(k) \/ CloseStep(k)
  <2>1. closeNow(k, Rest) /\ Head(stack).w = k /\ Head(stack).at # "ready"
    BY <1>11 DEF AfterClosed, CloseStep, At
  <2>2. Head(stack) \in Frames(stack)
    BY <1>1, <1>3, FrameForms
  <2>3. k \in created
    BY <2>1, <2>2 DEF FramesOK
  <2> QED
    BY <1>4, <2>1, <2>3
<1> QED
  BY <1>7, <1>8, <1>9, <1>10, <1>11 DEF ConnStep

LEMMA ConnectionFrames ==
  ASSUME OwnersOK, CallersOK, FramesOK, NEW k \in Conns,
         \/ ConnCall(k)
         \/ ConnStep(k) \/ onReady(k) \/ onReadReady(k) \/ onWriteEof(k) \/ onWriteReady(k)
  PROVE  FramesOK'
<1> USE DEF connectVars, connVars, watcherVars, attachedVars, loopVars
<1>1. /\ IsStack(stack) /\ (fd[k] # NoFd => k \in created)
      /\ Worker \notin Conns
  BY CoreAssumption, ConnAssumption DEF CallersOK, ConnsOK
<1>2. \A l, n, ev : Frame(l, k, n, ev).w = k /\ Calls(l, k).w = k
  BY DEF Calls, Frame
<1>3. CASE create(k) \/ startConnection(k) \/ stopConnection(k) \/ trySendBlocks(k)
           \/ shutdownWrite(k)
  <2>1. UNCHANGED stack /\ created \subseteq created'
    BY <1>3 DEF create, startConnection, stopConnection, trySendBlocks, shutdownWrite
  <2> QED
    BY <2>1 DEF FramesOK
<1>4. CASE destroyConnection(k)
  <2>1. UNCHANGED stack /\ created' = created \ {k} /\ MayDestroy(k)
    BY <1>4 DEF destroyConnection
  <2>2. \A f \in Frames(stack) : f.w # k
    BY <2>1 DEF MayDestroy, Frames
  <2> QED
    BY <2>1, <2>2 DEF FramesOK
<1>5. CASE close(k) \/ trySendFails(k)
  <2>1. k \in created /\ UNCHANGED created
    BY <1>1, <1>5 DEF close, trySendFails
  <2>2. \/ stack' = stack
        \/ \E f : f.w = k /\ stack' = <<f>> \o stack
        \/ \E f, g : f.w = k /\ g.w = k /\ stack' = <<f, g>> \o stack
    BY <1>2, <1>5, Zenon DEF close, closeNow, trySendFails
  <2>3. Adds(stack, stack', k)
    BY <1>1, <2>2, AddForms
  <2> QED
    BY <2>1, <2>3, FramesKept
<1>6. CASE ConnStep(k) \/ onReady(k) \/ onReadReady(k) \/ onWriteEof(k) \/ onWriteReady(k)
  <2>1. stack # <<>> /\ Head(stack).w = k /\ UNCHANGED created
    BY <1>6 DEF ConnStep, onReady, onReadReady, onWriteEof, onWriteReady, RecvDone, RecvData,
                RecvEnd, RecvFails, AfterClosed, AfterRead, CloseStep, At
  <2>2. Head(stack).at # "ready" => k \in created
    BY <1>1, <2>1, FrameForms DEF FramesOK
  <2>3. CASE stack' = Rest
    <3>1. Adds(stack, stack', Worker)
      BY <1>1, <2>1, <2>3, AddForms DEF Rest
    <3> QED
      BY <1>1, <2>1, <3>1, FramesKept
  <2>4. ASSUME stack' # Rest PROVE FramesOK'
    <3>1. \/ \E f : f.w = k /\ stack' = <<f>> \o Rest
          \/ \E f, g : f.w = k /\ g.w = k /\ stack' = <<f, g>> \o Rest
      <4>1. CASE onReady(k)
        BY <1>2, <2>4, <4>1, Zenon DEF onReady
      <4>2. CASE onReadReady(k) \/ onWriteEof(k) \/ onWriteReady(k)
        BY <1>2, <2>4, <4>2, Zenon DEF onReadReady, onWriteEof, onWriteReady, closeNow
      <4>3. CASE ConnStep(k)
        BY <1>2, <2>4, <4>3, Zenon DEF ConnStep, RecvDone, RecvData, RecvEnd, RecvFails,
                AfterClosed, AfterRead, CloseStep, closeNow
      <4> QED
        BY <1>6, <4>1, <4>2, <4>3
    <3>2. k \in created
      <4>1. CASE Head(stack).at # "ready"
        BY <2>2, <4>1
      <4>2. CASE Head(stack).at = "ready"
        <5>1. ~ConnStep(k)
          BY <4>2 DEF ConnStep, RecvDone, RecvData, RecvEnd, RecvFails, AfterClosed, AfterRead,
                      CloseStep, At
        <5>2. fd[k] # NoFd
          BY <1>6, <2>4, <5>1 DEF onReady, onReadReady, onWriteEof, onWriteReady
        <5> QED
          BY <1>1, <5>2
      <4> QED
        BY <4>1, <4>2
    <3>3. Adds(stack, stack', k)
      <4>1. /\ \A f : f.w = k => Adds(stack, <<f>> \o Rest, k)
            /\ \A f, g : f.w = k /\ g.w = k => Adds(stack, <<f, g>> \o Rest, k)
        BY <1>1, <2>1, AddForms DEF Rest
      <4> QED
        BY <3>1, <4>1, Zenon
    <3> QED
      BY <2>1, <3>2, <3>3, FramesKept
  <2> QED
    BY <2>3, <2>4
<1> QED
  BY <1>3, <1>4, <1>5, <1>6 DEF ConnCall

----------------------------------------------------------------------------
\* The inductive invariant.
NetInv == OwnersOK /\ CallersOK /\ FramesOK

LEMMA NetInit == Init => NetInv
<1> SUFFICES ASSUME Init PROVE NetInv
  OBVIOUS
<1> USE DEF Init, ConnectInit, ConnInit
<1>1. OwnersOK
  <2>1. sock \in [Fds -> Sockets] /\ Open = {}
    BY SocketKinds DEF Open
  <2>2. fd \in [Watchers -> Fds \cup {NoFd}] /\ \A w \in Watchers : fd[w] = NoFd
    OBVIOUS
  <2>3. {fd[w] : w \in Watchers} \ {NoFd} = {}
    BY <2>2
  <2> QED
    BY <2>1, <2>2, <2>3 DEF OwnersOK, SocketOwnedOnce
<1>2. IsStack(stack) /\ Len(stack) = 0
  <2>1. <<>> \in Seq({}) /\ Len(<<>>) = 0
    OBVIOUS
  <2> QED
    BY <2>1, Zenon DEF IsStack
<1>3. CallersOK
  <2>1. StartsOK
    BY ConnectAssumption DEF StartsOK
  <2>2. ConnsOK
    BY ConnAssumption DEF ConnsOK
  <2> QED
    BY <1>2, <2>1, <2>2 DEF CallersOK
<1>4. FramesOK
  BY <1>2 DEF FramesOK, Frames
<1> QED
  BY <1>1, <1>3, <1>4 DEF NetInv

LEMMA NetNext == NetInv /\ [Next]_vars => NetInv'
<1> SUFFICES ASSUME NetInv, [Next]_vars PROVE NetInv'
  OBVIOUS
<1>1. OwnersOK /\ CallersOK /\ FramesOK /\ IsStack(stack)
  BY DEF NetInv, CallersOK
<1>2. ASSUME UNCHANGED <<coreVars, connectVars, connVars>> PROVE NetInv'
  BY <1>1, <1>2 DEF coreVars, connectVars, connVars, watcherVars, attachedVars, loopVars, NetInv,
                    OwnersOK, SocketOwnedOnce, Open, CallersOK, StartsOK, ConnsOK, FramesOK
<1>3. ASSUME Dispatch \/ applyPendingChanges \/ Wait \/ RunTask \/ UserReturns, LeavesTcp
      PROVE  NetInv'
  BY <1>1, <1>3, CoreKeeps, WorkerFrames DEF NetInv
<1>4. ASSUME NEW w \in Connects, Connect(w), UNCHANGED connVars PROVE NetInv'
  <2>1. ConnectCall(w) \/ ConnectStep(w)
    BY <1>4 DEF Connect, ConnectorCall, ConnectorStep, EpollConnectCall, PollConnectCall,
                KqueueConnectCall, MacPollConnectCall, EpollConnectStep, PollConnectStep,
                KqueueConnectStep, MacPollConnectStep
  <2> QED
    BY <1>1, <1>4, <2>1, ConnectKeeps, ConnectFrames DEF NetInv
<1>5. ASSUME NEW a \in Accepts, Listen(a), UNCHANGED connVars PROVE NetInv'
  <2>1. AcceptCall(a) \/ AcceptStep(a)
    BY <1>5 DEF Listen, EpollTcpAcceptWatcher, PollTcpAcceptWatcher, KqueueTcpAcceptWatcher,
                MacPollTcpAcceptWatcher
  <2> QED
    BY <1>1, <1>5, <2>1, AcceptKeeps, AcceptFrames DEF NetInv
<1>6. ASSUME NEW k \in Conns, Connection(k) PROVE NetInv'
  <2>1. \/ ConnCall(k)
        \/ ConnStep(k) \/ onReady(k) \/ onReadReady(k) \/ onWriteEof(k) \/ onWriteReady(k)
    BY <1>6 DEF Connection, ConnectionCall, ConnectionStep, EpollConnectionCall,
                PollConnectionCall, KqueueConnectionCall, MacPollConnectionCall,
                EpollConnectionStep, PollConnectionStep, KqueueConnectionStep,
                MacPollConnectionStep
  <2>2. OwnersOK' /\ CallersOK'
    BY <1>1, <2>1, CallKeeps, StepKeeps
  <2> QED
    BY <1>1, <2>1, <2>2, ConnectionFrames DEF NetInv
<1>7. ASSUME NEW t \in Timers, Timer(t) \/ Expire(t), LeavesTcp PROVE NetInv'
  <2>1. TimerCall(t) \/ TimerStep(t) \/ Expire(t)
    BY <1>7 DEF Timer, EpollWorkerTimerWatcher, PollWorkerTimerWatcher
  <2> QED
    BY <1>1, <1>7, <2>1, TimerKeeps, TimerFrames DEF NetInv
<1>8. ASSUME DropStream \/ Peer PROVE NetInv'
  <2>1. UNCHANGED <<stack, created>>
    BY <1>8 DEF DropStream, Peer, Complete, PeerSends, PeerCloses, PeerResets, Drain, exceptSock,
                connVars
  <2>2. FramesOK'
    BY <1>1, <2>1 DEF FramesOK
  <2> QED
    BY <1>1, <1>8, <2>2, DropKeeps, PeerKeeps DEF NetInv
<1>9. CASE Next
  BY <1>2, <1>3, <1>4, <1>5, <1>6, <1>7, <1>8, <1>9 DEF Next, Thread, Poll, Return, LeavesTcp
<1>10. CASE UNCHANGED vars
  BY <1>2, <1>10 DEF vars
<1> QED
  BY <1>9, <1>10

\* Every open socket is owned by exactly one watcher or stream, whatever callbacks start,
\* stop, cancel, close and destroy, and however descriptors are handed over and reused.
THEOREM SocketsOwned == Spec => []SocketOwnedOnce
<1>1. NetInv => SocketOwnedOnce
  BY DEF NetInv, OwnersOK
<1> QED
  BY <1>1, NetInit, NetNext, PTL DEF Spec

(* Callbacks. *)

\* The callback f, when f is one, is not after the last one of its watcher.
Allowed(f) ==
  /\ f.at \in {"on_connected", "on_error"} => f.w \notin canceled
  /\ f.at \in {"on_close", "on_recv"} => f.w \notin closed

\* The step to the stack t calls nobody it must not call.
Proper(t) == t = stack \/ Len(t) < Len(stack) \/ Allowed(Head(t))

LEMMA ProperForms ==
  ASSUME IsStack(stack)
  PROVE  /\ Proper(stack)
         /\ \A s, f : IsStack(s) /\ Allowed(f) => Proper(<<f>> \o s)
         /\ \A s, f, g : IsStack(s) /\ Allowed(f) => Proper(<<f, g>> \o s)
         /\ stack # <<>> => Proper(Rest) /\ IsStack(Rest)
<1>1. Proper(stack)
  BY DEF Proper
<1>2. ASSUME NEW s, NEW f, IsStack(s), Allowed(f) PROVE Proper(<<f>> \o s)
  <2>1. Head(<<f>> \o s) = f
    BY <1>2, Pushed
  <2> QED
    BY <1>2, <2>1 DEF Proper
<1>3. ASSUME NEW s, NEW f, NEW g, IsStack(s), Allowed(f) PROVE Proper(<<f, g>> \o s)
  <2>1. IsStack(<<g>> \o s) /\ <<f, g>> \o s = <<f>> \o (<<g>> \o s)
    BY <1>3, Pushed, PushedTwo
  <2> QED
    BY <1>2, <1>3, <2>1
<1>4. ASSUME stack # <<>> PROVE Proper(Rest) /\ IsStack(Rest)
  BY <1>4, Popped DEF Proper, Rest
<1> QED
  BY <1>1, <1>2, <1>3, <1>4

LEMMA ProperStep ==
  ASSUME IsStack(stack), IsStack(stack'), Proper(stack')
  PROVE  /\ \A w \in canceled : ~Called("on_connected", w) /\ ~Called("on_error", w)
         /\ \A k \in closed : ~Called("on_close", k) /\ ~Called("on_recv", k)
<1>1. Len(stack) \in Nat /\ Len(stack') \in Nat
  BY DEF IsStack
<1> QED
  BY <1>1 DEF Proper, Called, Allowed

\* Frames that call nobody.
LEMMA HandlersAllowed ==
  \A l, w, n, ev :
    l \notin {"on_connected", "on_error", "on_close", "on_recv"} =>
      Allowed(Frame(l, w, n, ev)) /\ Allowed(Calls(l, w))
BY DEF Allowed, Frame, Calls

\* Callbacks of accept, connection and timer watchers.
LEMMA NotCanceled ==
  ASSUME CallersOK, NEW w \in Watchers \ Connects
  PROVE  Allowed(Calls("on_error", w))
BY DEF CallersOK, Allowed, Calls, Frame

LEMMA WorkerProper ==
  ASSUME CallersOK, Dispatch \/ applyPendingChanges \/ Wait \/ RunTask \/ UserReturns
  PROVE  Proper(stack')
<1>1. IsStack(stack)
  BY DEF CallersOK
<1>2. CASE Dispatch
  <2>1. \/ stack' = stack
        \/ \E s \in snapshot : \E e \in ready : stack' = <<Frame("ready", s.w, 0, e.ev)>> \o stack
    BY <1>2, Zenon DEF Dispatch
  <2> QED
    BY <1>1, <2>1, ProperForms, HandlersAllowed
<1>3. CASE applyPendingChanges \/ UserReturns
  BY <1>1, <1>3, ProperForms DEF applyPendingChanges, UserReturns, InUser, At
<1>4. CASE Wait \/ RunTask
  <2>1. \E l \in {"dispatch", "task"} : stack' = <<Calls(l, Worker)>>
    BY <1>4 DEF Wait, EpollWait, PollWait, KqueueWait, MacPollWait, TakeEvents, RunTask
  <2>2. \A f : Head(<<f>>) = f
    OBVIOUS
  <2>3. \A l \in {"dispatch", "task"} : Allowed(Calls(l, Worker))
    BY HandlersAllowed
  <2> QED
    BY <2>1, <2>2, <2>3 DEF Proper
<1> QED
  BY <1>2, <1>3, <1>4

LEMMA ConnectProper ==
  ASSUME CallersOK, NEW w \in Connects, ConnectCall(w) \/ ConnectStep(w)
  PROVE  Proper(stack')
<1>1. IsStack(stack) /\ w \notin closed
  BY ConnAssumption DEF CallersOK
<1>2. w \notin canceled =>
        Allowed(Calls("on_error", w)) /\ Allowed(Calls("on_connected", w))
  BY <1>1 DEF Allowed, Calls, Frame
<1>3. \A l \in {"connect", "attach", "check"} : Allowed(Calls(l, w))
  BY HandlersAllowed
<1>4. CASE start(w)
  <2>1. IsStack(<<Calls("connect", w)>> \o stack)
    BY <1>1, Pushed
  <2>2. w \notin canceled
    BY <1>4 DEF start
  <2>3. \/ stack' = <<Calls("connect", w)>> \o stack
        \/ stack' = <<Calls("on_error", w)>> \o (<<Calls("connect", w)>> \o stack)
    BY <1>4 DEF start, fail
  <2> QED
    BY <1>1, <1>2, <1>3, <2>1, <2>2, <2>3, ProperForms
<1>5. CASE startConnect(w)
  <2>1. stack # <<>>
    BY <1>5 DEF startConnect, At
  <2>2. IsStack(Rest) /\ IsStack(<<Calls("attach", w)>> \o Rest)
    BY <1>1, <2>1, ProperForms, Pushed
  <2>3. \/ stack' = Rest
        \/ stack' = <<Calls("check", w), Calls("attach", w)>> \o Rest
        \/ stack' = <<Calls("attach", w)>> \o Rest
        \/ w \notin canceled /\ stack' = <<Calls("on_error", w)>> \o (<<Calls("attach", w)>> \o Rest)
    BY <1>5, Zenon DEF startConnect, fail
  <2> QED
    BY <1>1, <1>2, <1>3, <2>1, <2>2, <2>3, ProperForms
<1>6. CASE startEnds(w) \/ onReadyConnect(w) \/ CheckNothing(w) \/ CheckFails(w) \/ CheckSucceeds(w)
  <2>1. stack # <<>>
    BY <1>6 DEF startEnds, onReadyConnect, CheckNothing, CheckFails, CheckSucceeds, At
  <2>2. IsStack(Rest) /\ <<>> \o Rest = Rest
    <3>1. PICK S : Rest \in Seq(S)
      BY <1>1, <2>1, Popped DEF Rest, IsStack
    <3> QED
      BY <3>1 DEF IsStack
  <2>3. \/ stack' = Rest
        \/ stack' = <<Calls("check", w)>> \o Rest
        \/ w \notin canceled /\ \E l \in {"on_error", "on_connected"} : stack' = <<Calls(l, w)>> \o Rest
    BY <1>6, <2>2 DEF startEnds, onReadyConnect, CheckNothing, CheckFails, CheckSucceeds, fail
  <2> QED
    BY <1>1, <1>2, <1>3, <2>1, <2>2, <2>3, ProperForms
<1>7. CASE stop(w) \/ cancel(w) \/ destroy(w)
  BY <1>7 DEF stop, cancel, destroy, Proper
<1> QED
  BY <1>4, <1>5, <1>6, <1>7 DEF ConnectCall, ConnectStep

LEMMA AcceptProper ==
  ASSUME CallersOK, NEW a \in Accepts, AcceptCall(a) \/ AcceptStep(a)
  PROVE  Proper(stack')
<1>1. IsStack(stack) /\ a \in Watchers \ Connects
  BY AcceptAssumption DEF CallersOK
<1>2. /\ Allowed(Calls("on_error", a)) /\ Allowed(Calls("on_accept", a))
      /\ \A n : Allowed(Frame("accept", a, n, {}))
  BY <1>1, NotCanceled, HandlersAllowed
<1>3. CASE AcceptStep(a)
  <2>1. stack # <<>>
    BY <1>3 DEF AcceptStep, onReadyAccept, AcceptDone, Accept, AcceptFails, At
  <2>2. \/ stack' = Rest
        \/ \E f : Allowed(f) /\ stack' = <<f>> \o Rest
        \/ \E f, g : Allowed(f) /\ stack' = <<f, g>> \o Rest
    BY <1>2, <1>3, Zenon DEF AcceptStep, onReadyAccept, AcceptDone, Accept, AcceptFails
  <2> QED
    BY <1>1, <2>1, <2>2, ProperForms
<1>4. CASE AcceptCall(a)
  BY <1>4 DEF AcceptCall, createListenSocket, startAccept, stopAccept, destroyAccept, Proper
<1> QED
  BY <1>3, <1>4

LEMMA TimerProper ==
  ASSUME CallersOK, NEW t \in Timers, TimerCall(t) \/ TimerStep(t) \/ Expire(t)
  PROVE  Proper(stack')
<1>1. IsStack(stack)
  BY DEF CallersOK
<1>2. \A l \in {"on_timer", "drain"} : Allowed(Calls(l, t))
  BY HandlersAllowed
<1>3. \A n, ev : Allowed(Frame("expire", t, n, ev))
  BY HandlersAllowed
<1>4. CASE TimerStep(t)
  <2>1. stack # <<>>
    BY <1>4 DEF TimerStep, onReadyTimer, ReadExpirations, Drained, CallBack, At
  <2>2. \/ stack' = Rest
        \/ \E f : Allowed(f) /\ stack' = <<f>> \o Rest
        \/ \E f, g : Allowed(f) /\ stack' = <<f, g>> \o Rest
    <3>1. CASE CallBack(t)
      BY <1>2, <3>1, Zenon DEF CallBack
    <3>2. CASE onReadyTimer(t) \/ ReadExpirations(t) \/ Drained(t)
      BY <1>2, <1>3, <3>2, Zenon DEF onReadyTimer, ReadExpirations, Drained
    <3> QED
      BY <1>4, <3>1, <3>2 DEF TimerStep
  <2> QED
    BY <1>1, <2>1, <2>2, ProperForms
<1>5. CASE TimerCall(t) \/ Expire(t)
  BY <1>5 DEF TimerCall, createTimer, startTimer, stopTimer, setItimerspec,
              clearItimerspec, Settime, destroyTimer, Expire, watcherVars, loopVars, Proper
<1> QED
  BY <1>4, <1>5

LEMMA ConnectionProper ==
  ASSUME CallersOK, NEW k \in Conns,
         \/ ConnCall(k)
         \/ ConnStep(k) \/ onReady(k) \/ onReadReady(k) \/ onWriteEof(k) \/ onWriteReady(k)
  PROVE  Proper(stack')
<1>1. IsStack(stack) /\ k \in Watchers \ Connects /\ (k \in closed => fd[k] = NoFd)
  BY ConnAssumption DEF CallersOK, ConnsOK
<1>3. /\ Allowed(Calls("on_error", k)) /\ Allowed(Calls("close", k)) /\ Allowed(Calls("after", k))
      /\ Allowed(Calls("on_send_ready", k))
      /\ \A n, ev : Allowed(Frame("recv", k, n, ev)) /\ Allowed(Frame("after", k, n, ev))
  BY <1>1, NotCanceled, HandlersAllowed
<1>4. k \notin closed => Allowed(Calls("on_close", k)) /\ Allowed(Calls("on_recv", k))
  BY DEF Allowed, Calls, Frame
<1>5. CASE create(k) \/ startConnection(k) \/ stopConnection(k) \/ trySendBlocks(k)
           \/ shutdownWrite(k) \/ destroyConnection(k)
  BY <1>5 DEF create, startConnection, stopConnection, trySendBlocks, shutdownWrite,
              destroyConnection, Proper
<1>6. CASE close(k) \/ trySendFails(k)
  <2>1. \/ stack' = stack
        \/ \E f : Allowed(f) /\ stack' = <<f>> \o stack
        \/ \E f, g : Allowed(f) /\ stack' = <<f, g>> \o stack
    BY <1>3, <1>4, <1>6, Zenon DEF close, closeNow, trySendFails
  <2> QED
    BY <1>1, <2>1, ProperForms
<1>7. CASE ConnStep(k) \/ onReady(k) \/ onReadReady(k) \/ onWriteEof(k) \/ onWriteReady(k)
  <2>1. stack # <<>>
    BY <1>7 DEF ConnStep, onReady, onReadReady, onWriteEof, onWriteReady, RecvDone, RecvData,
                RecvEnd, RecvFails, AfterClosed, AfterRead, CloseStep, At
  <2>2. \/ stack' = Rest
        \/ \E f : Allowed(f) /\ stack' = <<f>> \o Rest
        \/ \E f, g : Allowed(f) /\ stack' = <<f, g>> \o Rest
    <3>1. CASE onReady(k)
      BY <1>3, <3>1, Zenon DEF onReady
    <3>2. CASE onReadReady(k) \/ onWriteEof(k) \/ onWriteReady(k)
      BY <1>3, <1>4, <3>2, Zenon DEF onReadReady, onWriteEof, onWriteReady, closeNow
    <3>3. CASE RecvData(k)
      BY <1>1, <1>4, <3>3, Zenon DEF RecvData
    <3>4. CASE RecvDone(k) \/ RecvEnd(k) \/ RecvFails(k) \/ AfterClosed(k) \/ AfterRead(k)
               \/ CloseStep(k)
      BY <1>3, <1>4, <3>4, Zenon DEF RecvDone, RecvEnd, RecvFails, AfterClosed, AfterRead,
                                     CloseStep, closeNow
    <3> QED
      BY <1>7, <3>1, <3>2, <3>3, <3>4 DEF ConnStep
  <2> QED
    BY <1>1, <2>1, <2>2, ProperForms
<1> QED
  BY <1>5, <1>6, <1>7 DEF ConnCall

LEMMA NextProper == NetInv /\ [Next]_vars => Proper(stack')
<1> SUFFICES ASSUME NetInv, [Next]_vars PROVE Proper(stack')
  OBVIOUS
<1>1. CallersOK
  BY DEF NetInv
<1>2. ASSUME UNCHANGED stack PROVE Proper(stack')
  BY <1>2 DEF Proper
<1>3. ASSUME Dispatch \/ applyPendingChanges \/ Wait \/ RunTask \/ UserReturns
      PROVE  Proper(stack')
  BY <1>1, <1>3, WorkerProper
<1>4. ASSUME NEW w \in Connects, Connect(w) PROVE Proper(stack')
  <2>1. ConnectCall(w) \/ ConnectStep(w)
    BY <1>4 DEF Connect, ConnectorCall, ConnectorStep, EpollConnectCall, PollConnectCall,
                KqueueConnectCall, MacPollConnectCall, EpollConnectStep, PollConnectStep,
                KqueueConnectStep, MacPollConnectStep
  <2> QED
    BY <1>1, <2>1, ConnectProper
<1>5. ASSUME NEW a \in Accepts, Listen(a) PROVE Proper(stack')
  <2>1. AcceptCall(a) \/ AcceptStep(a)
    BY <1>5 DEF Listen, EpollTcpAcceptWatcher, PollTcpAcceptWatcher, KqueueTcpAcceptWatcher,
                MacPollTcpAcceptWatcher
  <2> QED
    BY <1>1, <2>1, AcceptProper
<1>6. ASSUME NEW k \in Conns, Connection(k) PROVE Proper(stack')
  <2>1. \/ ConnCall(k)
        \/ ConnStep(k) \/ onReady(k) \/ onReadReady(k) \/ onWriteEof(k) \/ onWriteReady(k)
    BY <1>6 DEF Connection, ConnectionCall, ConnectionStep, EpollConnectionCall,
                PollConnectionCall, KqueueConnectionCall, MacPollConnectionCall,
                EpollConnectionStep, PollConnectionStep, KqueueConnectionStep,
                MacPollConnectionStep
  <2> QED
    BY <1>1, <2>1, ConnectionProper
<1>7. ASSUME NEW t \in Timers, Timer(t) \/ Expire(t) PROVE Proper(stack')
  <2>1. TimerCall(t) \/ TimerStep(t) \/ Expire(t)
    BY <1>7 DEF Timer, EpollWorkerTimerWatcher, PollWorkerTimerWatcher
  <2> QED
    BY <1>1, <2>1, TimerProper
<1>8. ASSUME DropStream \/ Peer PROVE Proper(stack')
  <2>1. UNCHANGED stack
    BY <1>8 DEF DropStream, Peer, Complete, PeerSends, PeerCloses, PeerResets, Drain, exceptSock
  <2> QED
    BY <1>2, <2>1
<1>9. CASE Next
  BY <1>2, <1>3, <1>4, <1>5, <1>6, <1>7, <1>8, <1>9 DEF Next, Thread, Poll, Return, coreVars
<1>10. CASE UNCHANGED vars
  BY <1>2, <1>10 DEF vars, coreVars
<1> QED
  BY <1>9, <1>10

\* No step calls on_connected or on_error of a cancelled connect watcher, nor on_recv or
\* on_close of a connection watcher that has called on_close.  Its on_error and
\* on_send_ready are not barred: a handler that goes on after it may call them.
THEOREM SilentAfterTheLast == Spec => NoCallAfterTheLast
<1> DEFINE NoCall ==
      /\ \A w \in canceled : ~Called("on_connected", w) /\ ~Called("on_error", w)
      /\ \A k \in closed : ~Called("on_close", k) /\ ~Called("on_recv", k)
<1>1. NetInv /\ NetInv' /\ [Next]_vars => NoCall
  <2> SUFFICES ASSUME NetInv, NetInv', [Next]_vars PROVE NoCall
    OBVIOUS
  <2>1. IsStack(stack) /\ IsStack(stack')
    BY DEF NetInv, CallersOK
  <2> QED
    BY <2>1, NextProper, ProperStep
<1>2. NetInv /\ NetInv' /\ [Next]_vars => [NoCall]_vars
  BY <1>1
<1> QED
  BY <1>2, NetInit, NetNext, PTL DEF Spec, NoCallAfterTheLast

----------------------------------------------------------------------------
(* The core's own state. *)

\* The sources the watchers want to be attached.
Want == {source[w] : w \in attached} \cup {WriteSource(k) : k \in write_attached}

\* The sources the core has once the deferred changes are made are those the watchers want,
\* and only a dispatch defers changes.
RegInv ==
  /\ RegOK(reg) /\ pending_ops \in Seq(Changes) /\ events \in Wants
  /\ in_dispatch => KnownBackend /\ snapshot = reg.sources
  /\ ~in_dispatch => pending_ops = <<>>
  /\ Live(reg.armed, pending_ops, Len(pending_ops)) = Want

\* The request of ops makes q of reg, and P of the changes.
Requested(q, P, ops) == q = Applied(reg, ops) /\ P = Deferred(ops)

\* Where the changes all lead.
Answered(q, P, all) ==
  /\ RegOK(q) /\ P \in Seq(Changes)
  /\ in_dispatch => q = reg
  /\ ~in_dispatch => P = <<>>
  /\ Live(q.armed, P, Len(P)) = Live(reg.armed, all, Len(all))
  /\ /\ KeyFacts(reg, pending_ops) /\ Clean(reg.armed, all)
     /\ \A s \in Live(reg.armed, all, Len(all)) : s.fd \in Open
     => KeyFacts(q, P)

\* A request is applied at once, or deferred: the sources it leads to are the same.
LEMMA RequestFacts ==
  ASSUME RegInv, KnownBackend, NEW ops \in Seq(Changes), NEW q, NEW P, Requested(q, P, ops),
         NEW all, all = pending_ops \o ops
  PROVE  Answered(q, P, all)
<1> USE DEF Answered
<1>1. CASE in_dispatch
  <2>1. q = reg /\ P = all
    BY <1>1 DEF Requested, Applied, Deferred
  <2>2. /\ all \in Seq(Changes)
        /\ \A i \in 1 .. Len(pending_ops) : i \in 1 .. Len(all) /\ all[i] = pending_ops[i]
    BY DEF RegInv
  <2>3. \A s : Untouched(all, s) => Untouched(pending_ops, s)
    BY <2>2 DEF Untouched
  <2> QED
    BY <1>1, <2>1, <2>2, <2>3 DEF RegInv, KeyFacts
<1>2. CASE ~in_dispatch
  <2>1. q = ApplyOps(reg, ops) /\ P = <<>> /\ pending_ops = <<>>
    BY <1>2 DEF Requested, Applied, Deferred, RegInv
  <2>2. all = ops
    BY <2>1
  <2>3. RegOK(q) /\ q.armed = Live(reg.armed, ops, Len(ops))
    BY <2>1, FoldTyped DEF RegInv
  <2>4. Live(q.armed, P, Len(P)) = q.armed
    BY <2>1, LiveNone
  <2>5. <<>> \in Seq(Changes)
    OBVIOUS
  <2>6. ASSUME KeyFacts(reg, pending_ops), Clean(reg.armed, all),
               \A s \in Live(reg.armed, all, Len(all)) : s.fd \in Open
        PROVE  KeyFacts(q, P)
    <3>1. \A s : Untouched(pending_ops, s)
      BY <2>1 DEF Untouched
    <3>2. KeyFacts(reg, ops)
      BY <2>2, <2>6, <3>1 DEF KeyFacts
    <3> QED
      BY <2>1, <2>2, <2>6, <3>2, FoldFacts DEF RegInv
  <2> QED
    BY <1>2, <2>1, <2>2, <2>3, <2>4, <2>5, <2>6
<1> QED
  BY <1>1, <1>2

\* The sources the core still has, or that it is asked to change.
Mentioned(r, P) == r.armed \cup {P[i].src : i \in 1 .. Len(P)}

\* A request leaves the core with the sources W, and the sources M mentioned, when the
\* sockets fs are closed.
Leaves(q, P, W, M, fs) ==
  /\ RegOK(q) /\ P \in Seq(Changes)
  /\ in_dispatch => q.sources = reg.sources
  /\ ~in_dispatch => P = <<>>
  /\ Live(q.armed, P, Len(P)) = W
  /\ Mentioned(q, P) \subseteq M
  /\ KeyFacts(reg, pending_ops) /\ KeysDistinct(W) /\ (\A s \in W : s.fd \in Open \ fs)
       => KeyFacts(q, P)

\* It mentions no other source.
LEMMA RequestMentions ==
  ASSUME RegInv, KnownBackend, NEW ops \in Seq(Changes), NEW q, NEW P, Requested(q, P, ops)
  PROVE  Mentioned(q, P) \subseteq
           Mentioned(reg, pending_ops) \cup {ops[i].src : i \in 1 .. Len(ops)}
<1>1. CASE in_dispatch
  <2>1. q = reg /\ P = pending_ops \o ops
    BY <1>1 DEF Requested, Applied, Deferred
  <2>2. \A i \in 1 .. Len(pending_ops \o ops) :
          \/ i \in 1 .. Len(pending_ops) /\ (pending_ops \o ops)[i] = pending_ops[i]
          \/ \E j \in 1 .. Len(ops) : (pending_ops \o ops)[i] = ops[j]
    <3> DEFINE m == Len(pending_ops)
               n == Len(ops)
               all == pending_ops \o ops
    <3>1. /\ m \in Nat /\ n \in Nat /\ Len(all) = m + n
          /\ \A i \in 1 .. m + n : all[i] = IF i <= m THEN pending_ops[i] ELSE ops[i - m]
      BY DEF RegInv
    <3> HIDE DEF m, n, all
    <3>2. \A i \in 1 .. m + n : i \in 1 .. m \/ (~(i <= m) /\ i - m \in 1 .. n)
      BY <3>1
    <3>3. \A i \in 1 .. m : i <= m
      BY <3>1
    <3>4. \A i \in 1 .. Len(all) : \/ i \in 1 .. m /\ all[i] = pending_ops[i]
                                   \/ \E j \in 1 .. n : all[i] = ops[j]
      BY <3>1, <3>2, <3>3
    <3> QED
      BY <3>4 DEF m, n, all
  <2> QED
    BY <2>1, <2>2 DEF Mentioned
<1>2. CASE ~in_dispatch
  <2>1. q = ApplyOps(reg, ops) /\ P = <<>>
    BY <1>2 DEF Requested, Applied, Deferred, RegInv
  <2>2. q.armed = Live(reg.armed, ops, Len(ops))
    BY <2>1, FoldTyped DEF RegInv
  <2>3. Mentioned(q, P) = q.armed
    BY <2>1 DEF Mentioned
  <2> QED
    BY <2>2, <2>3 DEF Live, Mentioned
<1> QED
  BY <1>1, <1>2

\* The empty request.
LEMMA RequestNothing ==
  ASSUME RegInv
  PROVE  Leaves(reg, pending_ops, Want, Mentioned(reg, pending_ops), {})
BY DEF RegInv, Leaves

\* A request of one change.
LEMMA OneChange ==
  ASSUME NEW op \in Changes
  PROVE  /\ <<op>> \in Seq(Changes) /\ Len(<<op>>) = 1 /\ <<op>>[1] = op
         /\ {<<op>>[i].src : i \in 1 .. Len(<<op>>)} = {op.src}
<1>1. <<op>> \in Seq(Changes) /\ Len(<<op>>) = 1 /\ <<op>>[1] = op
  OBVIOUS
<1>2. {<<op>>[i].src : i \in 1 .. 1} = {op.src}
  OBVIOUS
<1> QED
  BY <1>1, <1>2

\* addSource() of a source that is not wanted yet.
LEMMA RequestAdd ==
  ASSUME RegInv, KnownBackend, NEW s \in Srcs, s \notin Want, NEW q, NEW P, Requested(q, P, <<addSource(s)>>)
  PROVE  Leaves(q, P, Want \cup {s}, Mentioned(reg, pending_ops) \cup {s}, {})
<1> DEFINE op == addSource(s)
           ops == <<op>>
           all == pending_ops \o ops
<1>1. op \in Changes /\ op.src = s /\ op.kind = "add"
  BY DEF addSource, Changes
<1> HIDE DEF op
<1>2. ops \in Seq(Changes) /\ {ops[i].src : i \in 1 .. Len(ops)} = {s}
  BY <1>1, OneChange
<1>3. pending_ops \in Seq(Changes) /\ Live(reg.armed, pending_ops, Len(pending_ops)) = Want
  BY DEF RegInv
<1>4. AfterOp(Want, op) = Want \cup {s}
  BY <1>1 DEF AfterOp
<1>5. Live(reg.armed, all, Len(all)) = Want \cup {s}
  BY <1>1, <1>3, <1>4, LiveAppend
<1>6. KeyFacts(reg, pending_ops) /\ KeysDistinct(Want \cup {s}) => Clean(reg.armed, all)
  BY <1>1, <1>3, <1>4, CleanAppend DEF KeyFacts
<1>7. Mentioned(q, P) \subseteq Mentioned(reg, pending_ops) \cup {s}
  BY <1>2, RequestMentions DEF op
<1>8. Requested(q, P, ops)
  BY DEF op
<1> HIDE DEF all, ops
<1>9. all = pending_ops \o ops
  BY DEF all
<1>10. Answered(q, P, all)
  BY <1>2, <1>8, <1>9, RequestFacts
<1> QED
  BY <1>5, <1>6, <1>7, <1>10 DEF Leaves, Answered

\* Removals keep keys distinct, whatever is removed.
LEMMA RequestRemove ==
  ASSUME RegInv, KnownBackend, NEW s \in Srcs, NEW q, NEW P, Requested(q, P, <<removeSource(s)>>)
  PROVE  Leaves(q, P, Want \ {s}, Mentioned(reg, pending_ops) \cup {s}, {})
<1> DEFINE op == removeSource(s)
           ops == <<op>>
           all == pending_ops \o ops
<1>1. op \in Changes /\ op.src = s /\ op.kind = "remove"
  BY DEF removeSource, Changes
<1> HIDE DEF op
<1>2. ops \in Seq(Changes) /\ {ops[i].src : i \in 1 .. Len(ops)} = {s}
  BY <1>1, OneChange
<1>3. pending_ops \in Seq(Changes) /\ Live(reg.armed, pending_ops, Len(pending_ops)) = Want
  BY DEF RegInv
<1>4. AfterOp(Want, op) = Want \ {s}
  BY <1>1 DEF AfterOp
<1>5. Live(reg.armed, all, Len(all)) = Want \ {s}
  BY <1>1, <1>3, <1>4, LiveAppend
<1>6. KeyFacts(reg, pending_ops) /\ KeysDistinct(Want \ {s}) => Clean(reg.armed, all)
  BY <1>1, <1>3, <1>4, CleanAppend DEF KeyFacts
<1>7. Mentioned(q, P) \subseteq Mentioned(reg, pending_ops) \cup {s}
  BY <1>2, RequestMentions DEF op
<1>8. Requested(q, P, ops)
  BY DEF op
<1> HIDE DEF all, ops
<1>9. all = pending_ops \o ops
  BY DEF all
<1>10. Answered(q, P, all)
  BY <1>2, <1>8, <1>9, RequestFacts
<1> QED
  BY <1>5, <1>6, <1>7, <1>10 DEF Leaves, Answered

\* removeSource() twice, of both sources of a kqueue connection.
LEMMA RequestRemoveBoth ==
  ASSUME RegInv, KnownBackend, NEW s \in Srcs, NEW u \in Srcs,
         NEW q, NEW P, Requested(q, P, <<removeSource(u)>> \o <<removeSource(s)>>)
  PROVE  Leaves(q, P, (Want \ {u}) \ {s}, Mentioned(reg, pending_ops) \cup {s, u}, {})
<1> DEFINE a == removeSource(u)
           b == removeSource(s)
           ops == <<a>> \o <<b>>
           some == pending_ops \o <<a>>
           all == pending_ops \o ops
<1>1. a \in Changes /\ a.src = u /\ a.kind = "remove" /\ b \in Changes /\ b.src = s /\ b.kind = "remove"
  BY DEF removeSource, Changes
<1> HIDE DEF a, b
<1>2. /\ ops \in Seq(Changes) /\ Len(ops) = 2 /\ ops[1] = a /\ ops[2] = b
      /\ some \in Seq(Changes)
  BY <1>1 DEF RegInv
<1>3. {ops[i].src : i \in 1 .. Len(ops)} \subseteq {s, u}
  <2>1. \A i \in 1 .. 2 : i = 1 \/ i = 2
    OBVIOUS
  <2> HIDE DEF ops
  <2> QED
    BY <1>1, <1>2, <2>1
<1>4. pending_ops \in Seq(Changes) /\ Live(reg.armed, pending_ops, Len(pending_ops)) = Want
  BY DEF RegInv
<1>5. all = some \o <<b>>
  BY <1>1, <1>4
<1>6. AfterOp(Want, a) = Want \ {u} /\ AfterOp(Want \ {u}, b) = (Want \ {u}) \ {s}
  BY <1>1 DEF AfterOp
<1>7. Live(reg.armed, some, Len(some)) = Want \ {u}
  BY <1>1, <1>4, <1>6, LiveAppend
<1> HIDE DEF all, some
<1>8. Live(reg.armed, all, Len(all)) = (Want \ {u}) \ {s}
  <2>1. some \in Seq(Changes) /\ b \in Changes
    BY <1>1, <1>2
  <2>2. Live(reg.armed, some \o <<b>>, Len(some \o <<b>>)) = AfterOp(Live(reg.armed, some, Len(some)), b)
    BY <2>1, LiveAppend
  <2> QED
    BY <1>5, <1>6, <1>7, <2>2
<1>9. ASSUME KeyFacts(reg, pending_ops) PROVE Clean(reg.armed, all)
  <2>1. Clean(reg.armed, pending_ops) /\ KeysDistinct(Want)
    BY <1>4, <1>9, CleanDistinct DEF KeyFacts
  <2>2. KeysDistinct(Want \ {u}) /\ KeysDistinct((Want \ {u}) \ {s})
    BY <2>1 DEF KeysDistinct
  <2>3. Clean(reg.armed, some)
    BY <1>1, <1>4, <1>6, <2>1, <2>2, CleanAppend DEF some
  <2> QED
    BY <1>1, <1>2, <1>5, <1>6, <1>7, <2>2, <2>3, CleanAppend
<1>10. Requested(q, P, ops)
  BY DEF a, b
<1>11. all = pending_ops \o ops
  BY DEF all
<1> HIDE DEF ops
<1>12. Mentioned(q, P) \subseteq Mentioned(reg, pending_ops) \cup {s, u}
  BY <1>2, <1>3, <1>10, RequestMentions
<1>13. Answered(q, P, all)
  BY <1>2, <1>10, <1>11, RequestFacts
<1> QED
  BY <1>8, <1>9, <1>12, <1>13 DEF Leaves, Answered

\* The sources stop() removes.
Dropped(w) == {source[w]} \cup (IF w \in write_attached THEN {WriteSource(w)} ELSE {})

\* What stop() asks for.
LEMMA RequestDetached ==
  ASSUME RegInv, KnownBackend, NEW w, source[w] \in Srcs,
         w \in write_attached => WriteSource(w) \in Srcs,
         NEW q, NEW P, Requested(q, P, Detached(w))
  PROVE  Leaves(q, P, Want \ Dropped(w), Mentioned(reg, pending_ops) \cup Dropped(w), {})
<1>1. CASE w \in write_attached
  <2>1. Requested(q, P, <<removeSource(WriteSource(w))>> \o <<removeSource(source[w])>>)
    BY <1>1 DEF Detached
  <2>2. Leaves(q, P, (Want \ {WriteSource(w)}) \ {source[w]},
               Mentioned(reg, pending_ops) \cup {source[w], WriteSource(w)}, {})
    BY <1>1, <2>1, RequestRemoveBoth
  <2>3. /\ (Want \ {WriteSource(w)}) \ {source[w]} = Want \ Dropped(w)
        /\ Mentioned(reg, pending_ops) \cup {source[w], WriteSource(w)}
             = Mentioned(reg, pending_ops) \cup Dropped(w)
    BY <1>1 DEF Dropped
  <2> QED
    BY <2>2, <2>3
<1>2. CASE w \notin write_attached
  <2>1. Detached(w) = <<removeSource(source[w])>>
    <3>1. <<removeSource(source[w])>> \in Seq({removeSource(source[w])})
      OBVIOUS
    <3> QED
      BY <1>2, <3>1 DEF Detached
  <2>2. Leaves(q, P, Want \ {source[w]}, Mentioned(reg, pending_ops) \cup {source[w]}, {})
    BY <2>1, RequestRemove
  <2> QED
    BY <1>2, <2>2 DEF Dropped
<1> QED
  BY <1>1, <1>2

\* The sockets fs are closed.
LEMMA LeavesForgotten ==
  ASSUME NEW q, NEW P, NEW W, NEW M, NEW fs, Leaves(q, P, W, M, {})
  PROVE  Leaves(Forgotten(q, fs), P, W, M, fs)
<1> DEFINE f == Forgotten(q, fs)
<1>1. RegOK(q) /\ P \in Seq(Changes) /\ Live(q.armed, P, Len(P)) = W
  BY DEF Leaves
<1>2. RegOK(f) /\ f.armed = q.armed
  BY <1>1, ForgetFacts
<1>3. \A C : KeyFacts(q, C) /\ (\A s \in q.armed : Untouched(C, s) => s.fd \notin fs) => KeyFacts(f, C)
  BY <1>1, ForgetFacts
<1>4. \A s \in q.armed : Untouched(P, s) => s \in W
  BY <1>1, LiveMember DEF Untouched
<1>5. Mentioned(f, P) = Mentioned(q, P) /\ f.sources = q.sources
  BY <1>1, <1>2 DEF Mentioned, RegOK
<1> HIDE DEF f
<1>6. ASSUME KeyFacts(reg, pending_ops), KeysDistinct(W), \A s \in W : s.fd \in Open \ fs
      PROVE  KeyFacts(f, P)
  <2>1. KeyFacts(q, P)
    BY <1>6 DEF Leaves
  <2> QED
    BY <1>3, <1>4, <1>6, <2>1
<1>7. Leaves(f, P, W, M, fs)
  BY <1>1, <1>2, <1>5, <1>6 DEF Leaves
<1> QED
  BY <1>7 DEF f

----------------------------------------------------------------------------
(* The watchers and their sources. *)

\* The source objects w may have.
Shapes(w) == [w : {w}, id : Nat, fd : Fds \cup {NoFd}, flt : {"any", "read", "write"}]

\* How the source of w, its fd and its flags agree.
WatcherOK(w) ==
  /\ source[w] \in Shapes(w)
  /\ w \in Connects => starts[w] \in Nat
  /\ w \in Connects /\ w \in attached => source[w].fd = fd[w] /\ source[w].flt = Filter("write")
  /\ w \notin Connects /\ fd[w] # NoFd => source[w].fd = fd[w]
  /\ w \in Accepts /\ fd[w] # NoFd => source[w].flt = Filter("read")
  /\ w \in Timers /\ fd[w] # NoFd => source[w].flt = "any" /\ backend # "kqueue"
  /\ w \in created => /\ source[w].id = 0 /\ source[w].fd \in Fds /\ source[w].flt = Filter("read")
                      /\ w \in closed \/ fd[w] # NoFd
  /\ w \in Conns /\ w \in attached => w \in created /\ (w \in closed => w \in restarted)
  /\ w \in write_attached => w \in created /\ backend = "kqueue"
  /\ w \in attached /\ w \notin Conns => fd[w] # NoFd
  /\ w \in orphans => w \notin attached

\* All watchers do.
WatchersOK ==
  /\ \A w \in Watchers : WatcherOK(w)
  /\ DOMAIN source = Watchers /\ DOMAIN starts = Connects
  /\ attached \subseteq Watchers /\ write_attached \subseteq Conns

\* Two uses of a connection watcher are excepted by RegistrationExact.
Good == restarted = {} /\ write_attached \cap closed = {}

\* What w wants to be attached, and the others.
Own(w) ==
  (IF w \in attached THEN {source[w]} ELSE {})
    \cup (IF w \in write_attached THEN {WriteSource(w)} ELSE {})
Others(w) == {s \in Want : s.w # w}

\* Filters of the backend.
LEMMA FilterFacts ==
  /\ \A flt \in {"read", "write"} : Filter(flt) \in Filters
  /\ backend # "kqueue" => "any" \in Filters
  /\ backend = "kqueue" => \A flt \in {"read", "write"} : Filter(flt) = flt
BY DEF Filter, Filters

\* The source of a watcher in use is one the core may know.
LEMMA SourcesTyped ==
  ASSUME OwnersOK, NEW w \in Watchers, WatcherOK(w)
  PROVE  /\ w \in created \/ w \in attached \/ (w \notin Connects /\ fd[w] # NoFd /\ w \notin Conns)
              => source[w] \in Srcs
         /\ w \in write_attached => WriteSource(w) \in Srcs
         /\ source[w].w = w /\ WriteSource(w).w = w
<1>1. source[w].w = w /\ WriteSource(w).w = w /\ source[w].id \in Nat
  BY DEF WatcherOK, Shapes, WriteSource, Source
<1>2. ASSUME source[w].fd \in Fds, source[w].flt \in Filters PROVE source[w] \in Srcs
  BY <1>2 DEF WatcherOK, Shapes, Srcs
<1>3. CASE w \in created
  <2>1. source[w].fd \in Fds /\ source[w].flt \in Filters
    BY <1>3, FilterFacts DEF WatcherOK
  <2>2. w \in write_attached => WriteSource(w) \in Srcs
    BY <2>1 DEF WatcherOK, Srcs, WriteSource, Source, Filters
  <2> QED
    BY <1>1, <1>2, <2>1, <2>2
<1>4. CASE w \notin created
  <2>1. w \notin write_attached
    BY <1>4 DEF WatcherOK
  <2>2. ASSUME w \in attached \/ (w \notin Connects /\ fd[w] # NoFd /\ w \notin Conns)
        PROVE  source[w] \in Srcs
    <3>1. w \in Connects \/ w \in Accepts \/ w \in Timers
      BY <1>4, <2>2, NetworkAssumption DEF WatcherOK
    <3>2. fd[w] # NoFd /\ fd[w] \in Fds /\ source[w].fd = fd[w]
      BY <1>4, <2>2, NetworkAssumption DEF WatcherOK, OwnersOK
    <3>3. source[w].flt \in Filters
      <4>1. CASE w \in Connects
        BY <2>2, <4>1, FilterFacts DEF WatcherOK
      <4>2. CASE w \in Accepts
        BY <3>2, <4>2, FilterFacts DEF WatcherOK
      <4>3. CASE w \in Timers
        BY <3>2, <4>3, FilterFacts DEF WatcherOK
      <4> QED
        BY <3>1, <4>1, <4>2, <4>3
    <3> QED
      BY <1>2, <3>2, <3>3
  <2> QED
    BY <1>1, <1>4, <2>1, <2>2
<1> QED
  BY <1>3, <1>4

\* Who wants what.
WantOwned ==
  /\ \A w \in Watchers : Want = Others(w) \cup Own(w) /\ \A s \in Own(w) : s.w = w
  /\ \A s \in Want : s.w \in Watchers /\ s \in Own(s.w)

\* Each source wanted belongs to one watcher.
LEMMA WantSplit == WatchersOK => WantOwned
<1> SUFFICES ASSUME WatchersOK PROVE WantOwned
  OBVIOUS
<1> USE DEF WantOwned
<1>1. \A v \in Watchers : source[v].w = v /\ WriteSource(v).w = v
  BY DEF WatchersOK, WatcherOK, Shapes, WriteSource, Source
<1>2. attached \subseteq Watchers /\ write_attached \subseteq Watchers
  BY ConnAssumption DEF WatchersOK
<1>3. \A s \in Want : s.w \in Watchers /\ s \in Own(s.w)
  BY <1>1, <1>2 DEF Want, Own
<1>4. \A w \in Watchers : \A s \in Own(w) : s.w = w /\ s \in Want
  BY <1>1, <1>2 DEF Own, Want
<1> QED
  BY <1>3, <1>4 DEF Others

\* What is wanted has keys of its own and open sockets, the exceptions apart.
WantDistinct == KeysDistinct(Want) /\ \A s \in Want : s.fd = fd[s.w] /\ s.fd \in Open

\* Sources that are wanted have fds of their own, which are open.
LEMMA WantFacts == OwnersOK /\ WatchersOK /\ Good => WantDistinct
<1> SUFFICES ASSUME OwnersOK, WatchersOK, Good PROVE WantDistinct
  OBVIOUS
<1> USE DEF WantDistinct
<1>1. ASSUME NEW s \in Want
      PROVE  /\ s.w \in Watchers /\ s.fd = fd[s.w] /\ s.fd # NoFd /\ s.fd \in Open
             /\ s \in Own(s.w)
  <2> DEFINE w == s.w
  <2>1. w \in Watchers /\ s \in Own(w) /\ WatcherOK(w)
    BY WantSplit DEF WatchersOK, WantOwned
  <2> HIDE DEF w
  <2>2. s.fd = source[w].fd /\ (w \in attached \/ w \in write_attached)
    BY <2>1 DEF Own, WriteSource, Source
  <2>3. fd[w] # NoFd /\ source[w].fd = fd[w]
    <3>1. CASE w \in Connects \/ w \in Accepts \/ w \in Timers
      <4>1. w \notin Conns /\ w \in attached
        BY <2>1, <2>2, <3>1, ConnAssumption, NetworkAssumption DEF WatchersOK
      <4> QED
        BY <2>1, <4>1 DEF WatcherOK
    <3>2. CASE w \in Conns
      <4>1. w \in created /\ w \notin closed /\ w \notin Connects
        BY <2>1, <2>2, <3>2, ConnAssumption DEF WatcherOK, Good
      <4> QED
        BY <2>1, <4>1 DEF WatcherOK
    <3> QED
      BY <2>1, <3>1, <3>2, NetworkAssumption
  <2>4. fd[w] \in Open
    BY <2>1, <2>3 DEF OwnersOK, SocketOwnedOnce
  <2> QED
    BY <2>1, <2>2, <2>3, <2>4 DEF w
<1>2. ASSUME NEW s \in Want, NEW u \in Want, Key(s) = Key(u) PROVE s = u
  <2>1. s.fd = u.fd /\ s.flt = u.flt
    BY <1>2 DEF Key
  <2>2. s.w = u.w
    BY <1>1, <2>1 DEF OwnersOK, SocketOwnedOnce
  <2> DEFINE w == s.w
  <2>3. s \in Own(w) /\ u \in Own(w) /\ WatcherOK(w)
    BY <1>1, <2>2 DEF WatchersOK
  <2> HIDE DEF w
  <2>4. WriteSource(w).flt = "write"
    BY DEF WriteSource, Source
  <2>5. w \in write_attached => source[w].flt # "write"
    BY <2>3, FilterFacts DEF WatcherOK
  <2> QED
    BY <2>1, <2>3, <2>4, <2>5 DEF Own
<1> QED
  BY <1>1, <1>2 DEF KeysDistinct

\* But for the two uses excepted, the registrations are right, the deferred changes apart.
KeyInv == Good => KeyFacts(reg, pending_ops)

\* The sources of timers that the core still has are those of timers with an fd.
TimersHeld ==
  \A s \in Mentioned(reg, pending_ops) : s.w \in Timers => s = source[s.w] /\ fd[s.w] # NoFd

\* The part of the inductive invariant about the core.
CoreInv == RegInv /\ KeyInv /\ WatchersOK /\ TimersHeld

\* The step concerns no watcher but w.
Only(w) ==
  /\ UNCHANGED <<backend, in_dispatch, snapshot>>
  /\ DOMAIN source' = Watchers /\ DOMAIN starts' = Connects
  /\ \A v \in Watchers \ {w} : /\ source'[v] = source[v] /\ fd'[v] = fd[v]
                               /\ v \in Connects => starts'[v] = starts[v]
  /\ attached' \ {w} = attached \ {w} /\ write_attached' \ {w} = write_attached \ {w}
  /\ created' \ {w} = created \ {w} /\ closed' \ {w} = closed \ {w}
  /\ restarted' \ {w} = restarted \ {w} /\ orphans' \ {w} = orphans \ {w}
  /\ restarted \subseteq restarted'
  /\ w \in write_attached \cap closed => w \in write_attached' \cap closed' \/ restarted' # {}

\* The sets of keys and sources depend on the backend alone.
LEMMA SetsSame ==
  ASSUME UNCHANGED backend
  PROVE  /\ Keys' = Keys /\ Srcs' = Srcs /\ Changes' = Changes /\ Regs' = Regs
         /\ \A flt : Filter(flt)' = Filter(flt)
         /\ KnownBackend' <=> KnownBackend
BY DEF Keys, Srcs, Changes, Regs, Filter, Filters, KnownBackend

\* The watchers that are not concerned stay as they are.
LEMMA OthersKept ==
  ASSUME CallersOK', WatchersOK, NEW w \in Watchers, Only(w), WatcherOK(w)'
  PROVE  /\ WatchersOK' /\ Want' = Others(w) \cup Own(w)'
         /\ Good' => Good
<1>1. ASSUME NEW v \in Watchers \ {w} PROVE WatcherOK(v)' /\ Own(v)' = Own(v)
  <2>1. /\ source'[v] = source[v] /\ fd'[v] = fd[v] /\ (v \in Connects => starts'[v] = starts[v])
        /\ v \in attached' <=> v \in attached
        /\ v \in write_attached' <=> v \in write_attached
        /\ v \in created' <=> v \in created
        /\ v \in closed' <=> v \in closed
        /\ v \in restarted' <=> v \in restarted
        /\ v \in orphans' <=> v \in orphans
        /\ backend' = backend
    BY DEF Only
  <2>2. \A flt : Filter(flt)' = Filter(flt)
    BY <2>1, SetsSame
  <2>3. WatcherOK(v)
    BY DEF WatchersOK
  <2>4. WatcherOK(v)'
    BY <2>1, <2>2, <2>3 DEF WatcherOK, Shapes
  <2>5. Own(v)' = Own(v)
    BY <2>1 DEF Own, WriteSource, Source
  <2> QED
    BY <2>4, <2>5
<1>2. \A v \in Watchers : WatcherOK(v)'
  BY <1>1
<1>3. attached' \subseteq Watchers /\ write_attached' \subseteq Conns
  <2>1. attached' \subseteq Watchers
    BY DEF Only, WatchersOK
  <2>2. w \in write_attached' => w \in Conns
    BY DEF WatcherOK, CallersOK
  <2>3. write_attached' \subseteq Conns
    BY <2>2 DEF Only, WatchersOK
  <2> QED
    BY <2>1, <2>3
<1>4. WatchersOK'
  BY <1>2, <1>3 DEF WatchersOK, Only
<1>5. \A s : s \in Want' <=> s \in Others(w) \cup Own(w)'
  <2>1. /\ \A v \in Watchers : \A s \in Own(v) : s.w = v
        /\ \A s \in Want : s.w \in Watchers /\ s \in Own(s.w)
        /\ \A v \in Watchers : Want = Others(v) \cup Own(v)
    BY WantSplit DEF WantOwned
  <2>2. /\ \A v \in Watchers : \A s \in Own(v)' : s.w = v
        /\ \A s \in Want' : s.w \in Watchers /\ s \in Own(s.w)'
        /\ \A v \in Watchers : Want' = Others(v)' \cup Own(v)'
    <3>1. WantOwned'
      BY <1>4, WantSplit, PTL
    <3> QED
      BY <3>1 DEF WantOwned
  <2>3. ASSUME NEW s \in Want' PROVE s \in Others(w) \cup Own(w)'
    BY <1>1, <2>1, <2>2, <2>3 DEF Others
  <2>4. ASSUME NEW s \in Others(w) PROVE s \in Want'
    <3>1. s \in Want /\ s.w # w
      BY <2>4 DEF Others
    <3>2. s.w \in Watchers /\ s \in Own(s.w)
      BY <2>1, <3>1
    <3>3. s \in Own(s.w)'
      BY <1>1, <3>1, <3>2
    <3> QED
      BY <2>2, <3>2, <3>3
  <2> QED
    BY <2>2, <2>3, <2>4
<1>6. Want' = Others(w) \cup Own(w)'
  BY <1>5
<1>7. Good' => Good
  <2> SUFFICES ASSUME Good' PROVE Good
    OBVIOUS
  <2>1. restarted = {} /\ restarted' = {}
    BY DEF Good, Only
  <2>2. ASSUME NEW k \in write_attached \cap closed PROVE FALSE
    <3>1. k \in write_attached' \cap closed'
      BY <2>1 DEF Only
    <3> QED
      BY <3>1 DEF Good
  <2> QED
    BY <2>1, <2>2 DEF Good
<1> QED
  BY <1>4, <1>6, <1>7

\* The registrations are still right after a step that leaves the core's alone.
LEMMA FactsKept ==
  ASSUME UNCHANGED backend, NEW q, NEW P,
         KeyFacts(q, P), \A s \in q.armed : Untouched(P, s) => Interest(s)' = Interest(s)
  PROVE  /\ Clean(q.armed, P) /\ (\A s \in q.armed : Untouched(P, s) => Key(s) = Key(s))
         /\ \A key \in Keys' : /\ key \in q.interest => q.fd_events[key] # {}
                               /\ q.fd_events[key] # {} => \E s \in q.armed : Key(s) = key
         /\ \A s \in q.armed : Untouched(P, s) =>
              q.fd_events[Key(s)] = Interest(s)' /\ Key(s) \in q.interest
<1>1. Keys' = Keys
  BY SetsSame
<1> QED
  BY <1>1 DEF KeyFacts, Sound, Right

\* The same, of the next state.
LEMMA KeyFactsPrimed ==
  ASSUME UNCHANGED backend, KeyFacts(reg', pending_ops'),
         \A s \in reg'.armed : Untouched(pending_ops', s) => Interest(s)' = Interest(s)
  PROVE  KeyFacts(reg, pending_ops)'
<1>1. /\ Clean(reg'.armed, pending_ops')
      /\ \A key \in Keys' : /\ key \in reg'.interest => reg'.fd_events[key] # {}
                            /\ reg'.fd_events[key] # {} => \E s \in reg'.armed : Key(s) = key
      /\ \A s \in reg'.armed : Untouched(pending_ops', s) =>
           reg'.fd_events[Key(s)] = Interest(s)' /\ Key(s) \in reg'.interest
  BY FactsKept
<1> QED
  BY <1>1 DEF KeyFacts, Sound, Right

\* The step of a watcher w that asks something of the core, and closes the sockets fs.
LEMMA ActorStep ==
  ASSUME OwnersOK', CallersOK', CoreInv, NEW w \in Watchers, Only(w), WatcherOK(w)',
         NEW M, NEW fs, Leaves(reg', pending_ops', Others(w) \cup Own(w)', M, fs),
         Open' \subseteq Open \ fs,
         events' \in Wants, \A v \in Watchers \ {w} : events'[v] = events[v],
         Own(w)' = {} \/ UNCHANGED events
  PROVE  WatchersOK' /\ RegInv' /\ KeyInv'
<1>1. RegInv /\ KeyInv /\ WatchersOK
  BY DEF CoreInv
<1>2. WatchersOK' /\ Want' = Others(w) \cup Own(w)' /\ (Good' => Good)
  BY <1>1, OthersKept
<1>3. UNCHANGED <<backend, in_dispatch, snapshot>>
  BY DEF Only
<1>4. RegInv'
  BY <1>1, <1>2, <1>3, SetsSame DEF RegInv, RegOK, Leaves
<1>5. ASSUME Good' PROVE KeyFacts(reg, pending_ops)'
  <2>1. WantDistinct'
    BY <1>2, <1>5, WantFacts, PTL
  <2>2. KeyFacts(reg', pending_ops')
    BY <1>1, <1>2, <1>5, <2>1 DEF WantDistinct, Leaves, KeyInv
  <2>3. ASSUME NEW s \in reg'.armed, Untouched(pending_ops', s) PROVE Interest(s)' = Interest(s)
    <3>1. s \in Want'
      BY <1>2, <2>3, LiveMember DEF Leaves, Untouched
    <3>2. s.w \in Watchers /\ (s.w = w => s \in Own(w)')
      <4>1. WantOwned'
        BY <1>2, WantSplit, PTL
      <4> QED
        BY <3>1, <4>1 DEF WantOwned
    <3>3. events'[s.w] = events[s.w]
      BY <3>2
    <3> QED
      BY <3>3 DEF Interest
  <2> QED
    BY <1>3, <2>2, <2>3, KeyFactsPrimed
<1>6. KeyInv'
  BY <1>5 DEF KeyInv
<1> QED
  BY <1>2, <1>4, <1>6

\* A step that asks nothing of it.
LEMMA StillStep ==
  ASSUME CallersOK', CoreInv, NEW w \in Watchers, Only(w), WatcherOK(w)',
         UNCHANGED <<reg, pending_ops, events>>, Own(w)' = Own(w)
  PROVE  WatchersOK' /\ RegInv' /\ KeyInv'
<1>1. RegInv /\ KeyInv /\ WatchersOK
  BY DEF CoreInv
<1>2. WatchersOK' /\ Want' = Others(w) \cup Own(w)' /\ (Good' => Good)
  BY <1>1, OthersKept
<1>3. Want' = Want
  BY <1>1, <1>2, WantSplit DEF WantOwned
<1>4. UNCHANGED <<backend, in_dispatch, snapshot>>
  BY DEF Only
<1>5. RegInv'
  BY <1>1, <1>3, <1>4, SetsSame DEF RegInv, RegOK
<1>6. ASSUME Good' PROVE KeyFacts(reg, pending_ops)'
  <2>1. KeyFacts(reg', pending_ops')
    BY <1>1, <1>2, <1>6 DEF KeyInv
  <2>2. \A s : Interest(s)' = Interest(s)
    BY DEF Interest
  <2> QED
    BY <1>4, <2>1, <2>2, KeyFactsPrimed
<1>7. KeyInv'
  BY <1>6 DEF KeyInv
<1> QED
  BY <1>2, <1>5, <1>7

\* No timer is concerned.
LEMMA TimersStillHeld ==
  ASSUME TimersHeld, NEW w \in Watchers \ Timers, Only(w),
         \A s \in Mentioned(reg', pending_ops') : s \in Mentioned(reg, pending_ops) \/ s.w = w
  PROVE  TimersHeld'
<1> SUFFICES ASSUME NEW s \in Mentioned(reg', pending_ops'), s.w \in Timers
             PROVE  s = source'[s.w] /\ fd'[s.w] # NoFd
  BY DEF TimersHeld, Mentioned
<1>1. s \in Mentioned(reg, pending_ops) /\ s.w \in Watchers \ {w}
  BY TimerAssumption
<1> QED
  BY <1>1 DEF TimersHeld, Only

(* The frames of a watcher. *)

\* The label and the watcher of a frame, and the frames with some of those.
Tag(f) == <<f.at, f.w>>
Tagged(s, A) == {s[i] : i \in {j \in 1 .. Len(s) : Tag(s[j]) \in A}}

\* The frames of s with a tag of A are F, which are one at most.
Has(s, A, F) ==
  /\ Tagged(s, A) = F
  /\ \A i, j \in 1 .. Len(s) : Tag(s[i]) \in A /\ Tag(s[j]) \in A => i = j

\* A frame is pushed.
LEMMA HasPushed ==
  ASSUME NEW s, IsStack(s), NEW f, NEW A
  PROVE  /\ Tag(f) \notin A => \A F : Has(s, A, F) => Has(<<f>> \o s, A, F)
         /\ Tag(f) \in A /\ Has(s, A, {}) => Has(<<f>> \o s, A, {f})
<1> DEFINE t == <<f>> \o s
<1>1. /\ Len(s) \in Nat /\ Len(t) = Len(s) + 1 /\ t[1] = f
      /\ \A i \in 1 .. Len(s) : t[i + 1] = s[i]
  BY Pushed
<1> HIDE DEF t
<1>2. \A j \in 1 .. Len(t) : j = 1 \/ (j - 1 \in 1 .. Len(s) /\ j = (j - 1) + 1)
  BY <1>1
<1>3. \A j \in 1 .. Len(t) : j = 1 \/ (j - 1 \in 1 .. Len(s) /\ t[j] = s[j - 1])
  BY <1>1, <1>2
<1>4. \A i \in 1 .. Len(s) : i + 1 \in 1 .. Len(t)
  BY <1>1
<1>5. 1 \in 1 .. Len(t)
  BY <1>1
<1>6. ASSUME Tag(f) \notin A, NEW F, Has(s, A, F) PROVE Has(t, A, F)
  <2>1. Tagged(t, A) \subseteq Tagged(s, A)
    BY <1>1, <1>3, <1>6 DEF Tagged
  <2>2. Tagged(s, A) \subseteq Tagged(t, A)
    BY <1>1, <1>4 DEF Tagged
  <2>3. ASSUME NEW i \in 1 .. Len(t), NEW j \in 1 .. Len(t), Tag(t[i]) \in A, Tag(t[j]) \in A
        PROVE  i = j
    <3>1. i - 1 \in 1 .. Len(s) /\ t[i] = s[i - 1] /\ j - 1 \in 1 .. Len(s) /\ t[j] = s[j - 1]
      BY <1>1, <1>3, <1>6, <2>3
    <3>2. i - 1 = j - 1
      BY <1>6, <2>3, <3>1 DEF Has
    <3> QED
      BY <3>2
  <2> QED
    BY <1>6, <2>1, <2>2, <2>3 DEF Has
<1>7. ASSUME Tag(f) \in A, Has(s, A, {}) PROVE Has(t, A, {f})
  <2>1. \A i \in 1 .. Len(s) : Tag(s[i]) \notin A
    BY <1>7 DEF Has, Tagged
  <2>2. \A j \in 1 .. Len(t) : Tag(t[j]) \in A => j = 1
    BY <1>3, <2>1
  <2>3. Tagged(t, A) = {f}
    BY <1>1, <1>5, <1>7, <2>2 DEF Tagged
  <2> QED
    BY <2>2, <2>3 DEF Has
<1> QED
  BY <1>6, <1>7 DEF t

\* A frame is popped.
LEMMA HasPopped ==
  ASSUME NEW s, IsStack(s), s # <<>>, NEW A, NEW F, Has(s, A, F)
  PROVE  /\ Tag(Head(s)) \notin A => Has(Tail(s), A, F)
         /\ Tag(Head(s)) \in A => F = {Head(s)} /\ Has(Tail(s), A, {})
<1> DEFINE t == Tail(s)
<1>1. /\ Len(s) \in Nat \ {0} /\ Len(t) = Len(s) - 1 /\ Head(s) = s[1]
      /\ \A i \in 1 .. Len(t) : t[i] = s[i + 1]
  BY Popped
<1> HIDE DEF t
<1>2. \A j \in 1 .. Len(s) : j = 1 \/ (j - 1 \in 1 .. Len(t) /\ j = (j - 1) + 1)
  BY <1>1
<1>3. \A j \in 1 .. Len(s) : j = 1 \/ (j - 1 \in 1 .. Len(t) /\ s[j] = t[j - 1])
  BY <1>1, <1>2
<1>4. \A i \in 1 .. Len(t) : i + 1 \in 1 .. Len(s) /\ i + 1 # 1
  BY <1>1
<1>5. 1 \in 1 .. Len(s)
  BY <1>1
<1>6. ASSUME Tag(Head(s)) \notin A PROVE Has(t, A, F)
  <2>1. Tagged(s, A) \subseteq Tagged(t, A)
    BY <1>1, <1>3, <1>6 DEF Tagged
  <2>2. Tagged(t, A) \subseteq Tagged(s, A)
    BY <1>1, <1>4 DEF Tagged
  <2>3. ASSUME NEW i \in 1 .. Len(t), NEW j \in 1 .. Len(t), Tag(t[i]) \in A, Tag(t[j]) \in A
        PROVE  i = j
    <3>1. i + 1 = j + 1
      BY <1>1, <1>4, <2>3 DEF Has
    <3> QED
      BY <3>1
  <2> QED
    BY <2>1, <2>2, <2>3 DEF Has
<1>7. ASSUME Tag(Head(s)) \in A PROVE F = {Head(s)} /\ Has(t, A, {})
  <2>1. \A j \in 1 .. Len(s) : Tag(s[j]) \in A => j = 1
    BY <1>1, <1>5, <1>7 DEF Has
  <2>2. F = {s[1]}
    BY <1>1, <1>5, <1>7, <2>1 DEF Has, Tagged
  <2>3. \A i \in 1 .. Len(t) : Tag(t[i]) \notin A
    BY <1>1, <1>4, <2>1
  <2>4. Has(t, A, {})
    BY <2>3 DEF Has, Tagged
  <2> QED
    BY <1>1, <2>2, <2>4
<1> QED
  BY <1>6, <1>7 DEF t

\* core_->runOnce() is only called when the thread is in the middle of nothing.
Bottom(s) == \A i \in 1 .. Len(s) : s[i].at = "dispatch" => i = Len(s)

\* What the frames hold.
GoodFrame(f) ==
  /\ f.at = "dispatch" => in_dispatch
  /\ f.at = "expire" => f.n \in Nat \ {0}
  /\ f.at = "after" /\ backend = "kqueue" => f.ev = {}
\* No stack holds anything else.
Sane(s) == Bottom(s) /\ \A i \in 1 .. Len(s) : GoodFrame(s[i])

\* A handler or callback is pushed.
LEMMA SanePushed ==
  ASSUME NEW s, IsStack(s), Sane(s), NEW f, f.at # "dispatch", GoodFrame(f)
  PROVE  Sane(<<f>> \o s)
<1> DEFINE t == <<f>> \o s
<1>1. /\ Len(s) \in Nat /\ Len(t) = Len(s) + 1 /\ t[1] = f
      /\ \A i \in 1 .. Len(s) : t[i + 1] = s[i]
  BY Pushed
<1> HIDE DEF t
<1>2. \A j \in 1 .. Len(t) : j = 1 \/ (j - 1 \in 1 .. Len(s) /\ j = (j - 1) + 1)
  BY <1>1
<1>3. \A j \in 1 .. Len(t) : j = 1 \/ (j - 1 \in 1 .. Len(s) /\ t[j] = s[j - 1])
  BY <1>1, <1>2
<1>4. ASSUME NEW j \in 1 .. Len(t) PROVE (t[j].at = "dispatch" => j = Len(t)) /\ GoodFrame(t[j])
  <2>1. CASE j = 1
    BY <1>1, <2>1
  <2>2. CASE j - 1 \in 1 .. Len(s) /\ t[j] = s[j - 1]
    <3>1. (s[j - 1].at = "dispatch" => j - 1 = Len(s)) /\ GoodFrame(s[j - 1])
      BY <2>2 DEF Sane, Bottom
    <3> QED
      BY <1>1, <2>2, <3>1
  <2> QED
    BY <1>3, <2>1, <2>2
<1> QED
  BY <1>4 DEF Sane, Bottom, t

\* A frame is popped; under a dispatch there is nothing.
LEMMA SanePopped ==
  ASSUME NEW s, IsStack(s), s # <<>>, Sane(s)
  PROVE  Sane(Tail(s)) /\ (Head(s).at = "dispatch" => s = <<Head(s)>>)
<1> DEFINE t == Tail(s)
<1>1. /\ Len(s) \in Nat \ {0} /\ Len(t) = Len(s) - 1 /\ Head(s) = s[1]
      /\ \A i \in 1 .. Len(t) : t[i] = s[i + 1]
  BY Popped
<1> HIDE DEF t
<1>2. \A i \in 1 .. Len(t) : i + 1 \in 1 .. Len(s)
  BY <1>1
<1>3. ASSUME NEW i \in 1 .. Len(t) PROVE (t[i].at = "dispatch" => i = Len(t)) /\ GoodFrame(t[i])
  <2>1. t[i] = s[i + 1] /\ (s[i + 1].at = "dispatch" => i + 1 = Len(s)) /\ GoodFrame(s[i + 1])
    BY <1>1, <1>2 DEF Sane, Bottom
  <2> QED
    BY <1>1, <2>1
<1>4. Sane(t)
  BY <1>3 DEF Sane, Bottom
<1>5. ASSUME Head(s).at = "dispatch" PROVE s = <<Head(s)>>
  <2>1. 1 \in 1 .. Len(s)
    BY <1>1
  <2>2. Len(s) = 1
    BY <1>1, <1>5, <2>1 DEF Sane, Bottom
  <2>3. PICK S : s \in Seq(S)
    BY DEF IsStack
  <2> QED
    BY <2>2, <2>3
<1> QED
  BY <1>4, <1>5 DEF t

\* From s to t only frames of w come and go.
Stays(s, t, w) ==
  /\ IsStack(t)
  /\ Sane(s) => Sane(t)
  /\ \A A : (\A a \in A : a[2] # w) => \A F : Has(s, A, F) => Has(t, A, F)

\* A frame of w.
Mine(f, w) == f.w = w /\ f.at # "dispatch" /\ GoodFrame(f)

\* A frame of one watcher has no tag of another.
LEMMA TagFacts ==
  ASSUME NEW f, NEW A, \A a \in A : a[2] # f.w
  PROVE  Tag(f) \notin A
<1>1. Tag(f)[2] = f.w
  BY DEF Tag
<1> QED
  BY <1>1

\* Pushing a frame of w.
LEMMA StaysPushed ==
  ASSUME NEW s, IsStack(s), NEW w, NEW f, Mine(f, w)
  PROVE  Stays(s, <<f>> \o s, w)
<1>1. IsStack(<<f>> \o s)
  BY Pushed
<1>2. Sane(s) => Sane(<<f>> \o s)
  BY SanePushed DEF Mine
<1>3. ASSUME NEW A, \A a \in A : a[2] # w, NEW F, Has(s, A, F) PROVE Has(<<f>> \o s, A, F)
  <2>1. Tag(f) \notin A
    BY <1>3, TagFacts, Zenon DEF Mine
  <2> QED
    BY <1>3, <2>1, HasPushed, Zenon
<1> QED
  BY <1>1, <1>2, <1>3, Zenon DEF Stays

\* Popping a frame of w.
LEMMA StaysPopped ==
  ASSUME NEW s, IsStack(s), s # <<>>, NEW w, Head(s).w = w
  PROVE  Stays(s, Tail(s), w)
<1>1. IsStack(Tail(s))
  BY Popped
<1>2. Sane(s) => Sane(Tail(s))
  BY SanePopped
<1>3. ASSUME NEW A, \A a \in A : a[2] # w, NEW F, Has(s, A, F) PROVE Has(Tail(s), A, F)
  <2>1. Tag(Head(s)) \notin A
    BY <1>3, TagFacts, Zenon
  <2> QED
    BY <1>3, <2>1, HasPopped, Zenon
<1> QED
  BY <1>1, <1>2, <1>3, Zenon DEF Stays

\* One after the other.
LEMMA StaysThen ==
  ASSUME NEW s, NEW t, NEW u, NEW w, Stays(s, t, w), Stays(t, u, w)
  PROVE  Stays(s, u, w)
BY Zenon DEF Stays

\* Pushing two.
LEMMA StaysPushedTwo ==
  ASSUME NEW s, IsStack(s), NEW w, NEW f, NEW g, Mine(f, w), Mine(g, w)
  PROVE  Stays(s, <<f, g>> \o s, w)
<1>1. Stays(s, <<g>> \o s, w)
  BY StaysPushed
<1>2. Stays(<<g>> \o s, <<f>> \o (<<g>> \o s), w)
  BY <1>1, StaysPushed DEF Stays
<1>3. <<f, g>> \o s = <<f>> \o (<<g>> \o s)
  BY PushedTwo, Zenon
<1> QED
  BY <1>1, <1>2, <1>3, StaysThen, Zenon

\* All that a handler of w does to the stack.
LEMMA StaysForms ==
  ASSUME NEW s, IsStack(s), NEW w
  PROVE  /\ Stays(s, s, w)
         /\ \A f : Mine(f, w) => Stays(s, <<f>> \o s, w)
         /\ \A f, g : Mine(f, w) /\ Mine(g, w) => Stays(s, <<f, g>> \o s, w)
         /\ s # <<>> /\ Head(s).w = w =>
              /\ Stays(s, Tail(s), w)
              /\ \A f : Mine(f, w) => Stays(s, <<f>> \o Tail(s), w)
              /\ \A f, g : Mine(f, w) /\ Mine(g, w) => Stays(s, <<f, g>> \o Tail(s), w)
<1>1. Stays(s, s, w)
  BY DEF Stays
<1>2. ASSUME NEW f, Mine(f, w) PROVE Stays(s, <<f>> \o s, w)
  BY <1>2, StaysPushed
<1>3. ASSUME NEW f, NEW g, Mine(f, w), Mine(g, w) PROVE Stays(s, <<f, g>> \o s, w)
  BY <1>3, StaysPushedTwo
<1>4. ASSUME s # <<>>, Head(s).w = w
      PROVE  /\ Stays(s, Tail(s), w)
             /\ \A f : Mine(f, w) => Stays(s, <<f>> \o Tail(s), w)
             /\ \A f, g : Mine(f, w) /\ Mine(g, w) => Stays(s, <<f, g>> \o Tail(s), w)
  <2>1. Stays(s, Tail(s), w) /\ IsStack(Tail(s))
    BY <1>4, StaysPopped, Popped
  <2>2. ASSUME NEW f, Mine(f, w) PROVE Stays(s, <<f>> \o Tail(s), w)
    BY <2>1, <2>2, StaysPushed, StaysThen, Zenon
  <2>3. ASSUME NEW f, NEW g, Mine(f, w), Mine(g, w) PROVE Stays(s, <<f, g>> \o Tail(s), w)
    BY <2>1, <2>3, StaysPushedTwo, StaysThen, Zenon
  <2> QED
    BY <2>1, <2>2, <2>3
<1> QED
  BY <1>1, <1>2, <1>3, <1>4

(* The invariant of the stack and of the timers. *)

\* The frames of a start() that is not finished, and those of a timer's callback.
StartTags(w) == {"connect", "attach"} \X {w}
TimerTags(t) == {"ready", "drain", "expire"} \X {t}

\* The expirations that the frames F have still to report.
Unreported(F) ==
  IF \E f \in F : f.at = "expire" THEN (CHOOSE f \in F : f.at = "expire").n ELSE 0

\* A connect watcher is in the middle of one start() at most, and of none once attached.
StartInv(w) == \E F : Has(stack, StartTags(w), F) /\ (w \in attached => F = {})
\* A timer's callback runs once at most, in a dispatch that holds its source; what is owed is
\* what the kernel has and what the callback has read.
TimerInv(t) ==
  \E F : /\ Has(stack, TimerTags(t), F)
         /\ F # {} => in_dispatch /\ source[t] \in snapshot
         /\ fd[t] # NoFd => sock[fd[t]].st = "timer" /\ owed[t] = sock[fd[t]].rx + Unreported(F)

\* The part of the inductive invariant about the stack and the timers.
StackInv ==
  /\ Sane(stack)
  /\ \A w \in Connects : StartInv(w)
  /\ \A t \in Timers : TimerInv(t)
  /\ DOMAIN owed = Timers

\* The sockets of the other watchers are left alone.
LeavesAlone(w) == \A v \in Watchers \ {w} : fd[v] # NoFd => sock'[fd[v]] = sock[fd[v]]

\* Tags of one watcher are of no other.
LEMMA OtherTags ==
  ASSUME NEW w, NEW v, v # w
  PROVE  (\A a \in StartTags(v) : a[2] # w) /\ (\A a \in TimerTags(v) : a[2] # w)
BY DEF StartTags, TimerTags

\* Frames stay good while the backend and the dispatch do.
LEMMA SaneKept ==
  ASSUME NEW s, UNCHANGED <<backend, in_dispatch>>
  PROVE  Sane(s) => \A i \in 1 .. Len(s) : GoodFrame(s[i])'
BY DEF Sane, GoodFrame

\* The start() of another watcher goes on.
LEMMA StartOther ==
  ASSUME NEW w, NEW v, v # w, StartInv(v), Stays(stack, stack', w),
         v \in attached' => v \in attached
  PROVE  StartInv(v)'
<1>1. PICK F : Has(stack, StartTags(v), F) /\ (v \in attached => F = {})
  BY DEF StartInv
<1>2. Has(stack', StartTags(v), F)
  BY <1>1, OtherTags, Zenon DEF Stays
<1>3. Has(stack', StartTags(v), F) /\ (v \in attached' => F = {})
  BY <1>1, <1>2
<1> QED
  BY <1>3, Zenon DEF StartInv, Has, Tagged, Tag, StartTags

\* Another timer is left as it was.
LEMMA TimerOther ==
  ASSUME NEW w, NEW t, t # w, TimerInv(t), Stays(stack, stack', w),
         UNCHANGED <<in_dispatch, snapshot>>, source'[t] = source[t], fd'[t] = fd[t],
         fd[t] # NoFd => sock'[fd[t]] = sock[fd[t]], owed'[t] = owed[t]
  PROVE  TimerInv(t)'
<1>1. PICK F : /\ Has(stack, TimerTags(t), F)
               /\ F # {} => in_dispatch /\ source[t] \in snapshot
               /\ fd[t] # NoFd => sock[fd[t]].st = "timer" /\ owed[t] = sock[fd[t]].rx + Unreported(F)
  BY Zenon DEF TimerInv
<1>2. Has(stack', TimerTags(t), F)
  BY <1>1, OtherTags, Zenon DEF Stays
<1> DEFINE u == Unreported(F)
<1>3. fd[t] # NoFd => sock[fd[t]].st = "timer" /\ owed[t] = sock[fd[t]].rx + u
  BY <1>1
<1> HIDE DEF u
<1>4. /\ Has(stack', TimerTags(t), F)
      /\ F # {} => in_dispatch' /\ source'[t] \in snapshot'
      /\ fd'[t] # NoFd => sock'[fd'[t]].st = "timer" /\ owed'[t] = sock'[fd'[t]].rx + u
  BY <1>1, <1>2, <1>3
<1>5. Unreported(F)' = u
  BY DEF Unreported, u
<1>6. Has(stack, TimerTags(t), F)'
  BY <1>4, Zenon DEF Has, Tagged, Tag, TimerTags
<1>7. /\ F # {} => in_dispatch' /\ source'[t] \in snapshot'
      /\ fd'[t] # NoFd => sock'[fd'[t]].st = "timer" /\ owed'[t] = sock'[fd'[t]].rx + Unreported(F)'
  BY <1>4, <1>5, Zenon
<1> QED
  BY <1>6, <1>7, Zenon DEF TimerInv

\* The step of a watcher that is no timer.
LEMMA StackStep ==
  ASSUME StackInv, NEW w \in Watchers \ Timers, Only(w), Stays(stack, stack', w), LeavesAlone(w),
         UNCHANGED owed, w \in Connects => StartInv(w)'
  PROVE  StackInv'
<1>1. UNCHANGED <<backend, in_dispatch, snapshot>>
  BY DEF Only
<1>2. Sane(stack)'
  <2>1. Sane(stack')
    BY DEF Stays, StackInv
  <2> QED
    BY <1>1, <2>1, SaneKept DEF Sane, Bottom
<1>3. ASSUME NEW v \in Connects PROVE StartInv(v)'
  <2>1. CASE v = w
    BY <2>1
  <2>2. CASE v # w
    <3>1. v \in attached' => v \in attached
      BY <2>2 DEF Only
    <3> QED
      BY <2>2, <3>1, StartOther DEF StackInv
  <2> QED
    BY <2>1, <2>2
<1>4. ASSUME NEW t \in Timers PROVE TimerInv(t)'
  <2>1. t \in Watchers \ {w}
    BY TimerAssumption
  <2>2. /\ source'[t] = source[t] /\ fd'[t] = fd[t] /\ owed'[t] = owed[t]
        /\ fd[t] # NoFd => sock'[fd[t]] = sock[fd[t]]
    BY <2>1 DEF Only, LeavesAlone
  <2> QED
    BY <1>1, <2>1, <2>2, TimerOther DEF StackInv
<1> QED
  BY <1>2, <1>3, <1>4 DEF StackInv

(* What the watchers ask of the core. *)

\* The step keeps the registrations right.
Registers == WatchersOK' /\ RegInv' /\ KeyInv'

\* What the core has, or is asked to change, after the step, is of w or from before.
Mentions(w) == \A s \in Mentioned(reg', pending_ops') : s \in Mentioned(reg, pending_ops) \/ s.w = w

\* But for the sources of w that stop() removes, it is from before.
Drops(w) == \A s \in Mentioned(reg', pending_ops') : s \in Mentioned(reg, pending_ops) \cup Dropped(w)

\* The state before a step of the watcher w, which is the only one concerned.
Acts(w) ==
  /\ OwnersOK /\ OwnersOK' /\ CallersOK' /\ CoreInv /\ KnownBackend
  /\ w \in Watchers /\ Only(w) /\ WatcherOK(w)'

\* What an attached watcher wants is what its stop() removes.
LEMMA OwnSources ==
  ASSUME OwnersOK, WatchersOK, NEW w \in attached
  PROVE  /\ source[w] \in Srcs /\ (w \in write_attached => WriteSource(w) \in Srcs)
         /\ \A s \in Dropped(w) : s.w = w
         /\ Want \ Dropped(w) = Others(w)
<1>1. w \in Watchers /\ WatcherOK(w)
  BY DEF WatchersOK
<1>2. /\ source[w] \in Srcs /\ (w \in write_attached => WriteSource(w) \in Srcs)
      /\ source[w].w = w /\ WriteSource(w).w = w
  BY <1>1, SourcesTyped
<1>3. Own(w) = Dropped(w) /\ \A s \in Dropped(w) : s.w = w
  BY <1>2 DEF Own, Dropped
<1>4. Want = Others(w) \cup Own(w)
  BY <1>1, WantSplit DEF WantOwned
<1>5. \A s \in Others(w) : s.w # w
  BY DEF Others
<1> QED
  BY <1>2, <1>3, <1>4, <1>5

\* After stop() the core is left with what the others want.
LEMMA DetachLeaves ==
  ASSUME OwnersOK, WatchersOK, RegInv, KnownBackend, NEW w \in attached,
         NEW q, NEW P, Requested(q, P, Detached(w))
  PROVE  Leaves(q, P, Others(w), Mentioned(reg, pending_ops) \cup Dropped(w), {})
<1>1. Leaves(q, P, Want \ Dropped(w), Mentioned(reg, pending_ops) \cup Dropped(w), {})
  BY OwnSources, RequestDetached
<1> QED
  BY <1>1, OwnSources

\* stop() keeps the registrations right.
LEMMA DetachStep ==
  ASSUME NEW w, Acts(w), w \in attached, detach(w), Open' = Open, UNCHANGED events
  PROVE  Registers /\ Mentions(w) /\ Drops(w)
<1>1. OwnersOK /\ WatchersOK /\ RegInv /\ KnownBackend
  BY DEF Acts, CoreInv
<1>2. Requested(reg', pending_ops', Detached(w))
  BY DEF detach, Requested
<1> DEFINE M == Mentioned(reg, pending_ops) \cup Dropped(w)
<1>3. Leaves(reg', pending_ops', Others(w), M, {})
  BY <1>1, <1>2, DetachLeaves
<1>4. Own(w)' = {}
  BY DEF detach, Own
<1>5. Leaves(reg', pending_ops', Others(w) \cup Own(w)', M, {})
  BY <1>3, <1>4
<1> HIDE DEF M
<1>6. Open' \subseteq Open \ {} /\ \A v \in Watchers \ {w} : events'[v] = events[v]
  OBVIOUS
<1>7. events' \in Wants
  BY <1>1 DEF RegInv
<1>8. Registers
  BY <1>4, <1>5, <1>6, <1>7, ActorStep DEF Acts, Registers
<1>9. Mentioned(reg', pending_ops') \subseteq M
  BY <1>3 DEF Leaves
<1>10. Mentions(w) /\ Drops(w)
  BY <1>1, <1>9, OwnSources DEF Mentions, Drops, M
<1> QED
  BY <1>8, <1>10

\* So does stop() with the close() after it.
LEMMA DetachAndCloseStep ==
  ASSUME NEW w, Acts(w), w \in attached, DetachAndClose(w),
         events' \in Wants, \A v \in Watchers \ {w} : events'[v] = events[v]
  PROVE  Registers /\ Mentions(w) /\ Drops(w)
<1>1. OwnersOK /\ WatchersOK /\ RegInv /\ KnownBackend
  BY DEF Acts, CoreInv
<1> DEFINE r == Applied(reg, Detached(w))
           M == Mentioned(reg, pending_ops) \cup Dropped(w)
<1>2. Requested(r, pending_ops', Detached(w)) /\ reg' = Forgotten(r, {fd[w]}) /\ sock' = Shut({fd[w]})
  BY DEF DetachAndClose, closeFd, Requested
<1> HIDE DEF r
<1>3. Leaves(r, pending_ops', Others(w), M, {})
  BY <1>1, <1>2, DetachLeaves
<1> HIDE DEF M
<1>4. Leaves(reg', pending_ops', Others(w), M, {fd[w]})
  BY <1>2, <1>3, LeavesForgotten
<1>5. Own(w)' = {}
  BY DEF DetachAndClose, Own
<1>6. Leaves(reg', pending_ops', Others(w) \cup Own(w)', M, {fd[w]})
  BY <1>4, <1>5
<1>7. Open' \subseteq Open \ {fd[w]}
  BY <1>1, <1>2, SocketsClose DEF OwnersOK, Closed
<1>8. Registers
  BY <1>5, <1>6, <1>7, ActorStep DEF Acts, Registers
<1>9. Mentioned(reg', pending_ops') \subseteq M
  BY <1>4 DEF Leaves
<1>10. Mentions(w) /\ Drops(w)
  BY <1>1, <1>9, OwnSources DEF Mentions, Drops, M
<1> QED
  BY <1>8, <1>10

\* The fd of a watcher that is not attached.
LEMMA CloseUnattachedStep ==
  ASSUME NEW w, Acts(w), w \notin attached, closeFd(w, reg), UNCHANGED <<pending_ops, attachedVars>>,
         w \in write_attached => source'[w] = source[w] /\ UNCHANGED events,
         events' \in Wants, \A v \in Watchers \ {w} : events'[v] = events[v]
  PROVE  Registers /\ Mentions(w) /\ Drops(w)
<1>1. OwnersOK /\ WatchersOK /\ RegInv /\ KnownBackend /\ w \in Watchers
  BY DEF Acts, CoreInv
<1> DEFINE M == Mentioned(reg, pending_ops)
<1>2. Leaves(reg, pending_ops, Want, M, {})
  BY <1>1, RequestNothing
<1> HIDE DEF M
<1>3. Leaves(reg', pending_ops', Want, M, {fd[w]})
  BY <1>2, LeavesForgotten DEF closeFd
<1>4. Own(w)' = Own(w) /\ (w \notin write_attached => Own(w)' = {})
  BY DEF Own, WriteSource, Source, attachedVars
<1>5. Want = Others(w) \cup Own(w)
  BY <1>1, WantSplit DEF WantOwned
<1>6. Leaves(reg', pending_ops', Others(w) \cup Own(w)', M, {fd[w]})
  BY <1>3, <1>4, <1>5
<1>7. Open' \subseteq Open \ {fd[w]}
  BY <1>1, SocketsClose DEF OwnersOK, Closed, closeFd
<1>8. Registers
  BY <1>4, <1>6, <1>7, ActorStep DEF Acts, Registers
<1>9. Mentioned(reg', pending_ops') \subseteq M
  BY <1>3 DEF Leaves
<1> QED
  BY <1>8, <1>9 DEF Mentions, Drops, M

\* w attaches the source s.
LEMMA AttachStep ==
  ASSUME NEW w, Acts(w), NEW s \in Srcs, s \notin Own(w), s.w = w,
         Requested(reg', pending_ops', <<addSource(s)>>),
         Own(w)' = Own(w) \cup {s}, Open' = Open, UNCHANGED events
  PROVE  /\ Registers
         /\ \A u \in Mentioned(reg', pending_ops') : u \in Mentioned(reg, pending_ops) \/ u = s
<1>1. OwnersOK /\ WatchersOK /\ RegInv /\ KnownBackend /\ w \in Watchers
  BY DEF Acts, CoreInv
<1>2. Want = Others(w) \cup Own(w) /\ s \notin Want
  BY <1>1, WantSplit DEF WantOwned, Others
<1> DEFINE M == Mentioned(reg, pending_ops) \cup {s}
<1>3. Leaves(reg', pending_ops', Want \cup {s}, M, {})
  BY <1>1, <1>2, RequestAdd
<1> HIDE DEF M
<1>4. Want \cup {s} = Others(w) \cup Own(w)'
  BY <1>2
<1>5. Leaves(reg', pending_ops', Others(w) \cup Own(w)', M, {})
  BY <1>3, <1>4
<1>6. Open' \subseteq Open \ {} /\ \A v \in Watchers \ {w} : events'[v] = events[v]
  OBVIOUS
<1>7. events' \in Wants
  BY <1>1 DEF RegInv
<1>8. Registers
  BY <1>5, <1>6, <1>7, ActorStep DEF Acts, Registers
<1>9. Mentioned(reg', pending_ops') \subseteq M
  BY <1>3 DEF Leaves
<1> QED
  BY <1>8, <1>9 DEF M

\* Nothing is asked.
LEMMA QuietStep ==
  ASSUME NEW w, Acts(w), UNCHANGED <<reg, pending_ops, events>>, Own(w)' = Own(w)
  PROVE  Registers /\ Mentions(w)
BY StillStep DEF Acts, Registers, Mentions

(* Connect watchers. *)

\* What a step of a connect watcher must leave to keep its part.
LEMMA ConnectActs ==
  ASSUME NetInv, NetInv', CoreInv, KnownBackend, NEW w \in Connects, Only(w),
         source'[w] \in Shapes(w), starts'[w] \in Nat, write_attached' \subseteq write_attached,
         w \in attached' => /\ source'[w].fd = fd'[w] /\ source'[w].flt = Filter("write")
                            /\ fd'[w] # NoFd
  PROVE  /\ Acts(w)
         /\ Own(w) = IF w \in attached THEN {source[w]} ELSE {}
         /\ Own(w)' = IF w \in attached' THEN {source'[w]} ELSE {}
<1>1. w \in Watchers /\ w \notin Conns /\ w \notin Accepts /\ w \notin Timers
  BY ConnectAssumption, AcceptAssumption, ConnAssumption, NetworkAssumption
<1>2. w \notin created' /\ w \notin orphans'
  BY <1>1 DEF NetInv, CallersOK
<1>3. w \notin write_attached /\ w \notin write_attached'
  BY <1>1 DEF CoreInv, WatchersOK
<1>4. Filter("write")' = Filter("write")
  BY SetsSame DEF Only
<1>5. WatcherOK(w)'
  BY <1>1, <1>2, <1>3, <1>4 DEF WatcherOK, Shapes
<1> QED
  BY <1>1, <1>3, <1>5 DEF Acts, NetInv, Own

\* What is known of one before.
LEMMA ConnectBefore ==
  ASSUME NetInv, CoreInv, NEW w \in Connects
  PROVE  /\ w \in Watchers \ Timers /\ source[w] \in Shapes(w) /\ starts[w] \in Nat
         /\ w \in attached => /\ source[w].fd = fd[w] /\ source[w].flt = Filter("write")
                              /\ fd[w] # NoFd
         /\ DOMAIN source = Watchers /\ DOMAIN starts = Connects
         /\ fd \in [Watchers -> Fds \cup {NoFd}]
         /\ w \notin write_attached
<1>1. w \in Watchers /\ w \notin Conns /\ w \notin Timers
  BY ConnectAssumption, ConnAssumption, NetworkAssumption
<1> QED
  BY <1>1 DEF NetInv, OwnersOK, CoreInv, WatchersOK, WatcherOK

\* The steps of a connect watcher keep the registrations right.
LEMMA ConnectRegisters ==
  ASSUME NetInv, NetInv', CoreInv, StackInv, KnownBackend, NEW w \in Connects,
         ConnectCall(w) \/ ConnectStep(w), UNCHANGED <<connVars, addOnVars>>
  PROVE  Only(w) /\ Registers /\ Mentions(w)
<1> USE DEF connectVars, connVars, watcherVars, attachedVars, loopVars
<1>1. /\ w \in Watchers \ Timers /\ source[w] \in Shapes(w) /\ starts[w] \in Nat
      /\ w \in attached => /\ source[w].fd = fd[w] /\ source[w].flt = Filter("write")
                           /\ fd[w] # NoFd
      /\ DOMAIN source = Watchers /\ DOMAIN starts = Connects
      /\ fd \in [Watchers -> Fds \cup {NoFd}] /\ w \notin write_attached
  BY ConnectBefore
<1>2. \A f : Source(w, 0, f, "any").w = w
  BY DEF Source
<1>3. CASE start(w)
  <2>1. Only(w) /\ w \notin attached' /\ UNCHANGED <<source, write_attached>> /\ starts'[w] \in Nat
    <3>1. starts' = [starts EXCEPT ![w] = @ + 1] /\ w \notin attached
          /\ UNCHANGED <<backend, in_dispatch, snapshot, orphans, source, attached, write_attached,
                         created, closed, restarted>>
      BY <1>3 DEF start
    <3>2. \A v \in Watchers \ {w} : fd'[v] = fd[v]
      BY <1>1, <1>3 DEF start
    <3> QED
      BY <1>1, <3>1, <3>2 DEF Only
  <2>2. Acts(w) /\ Own(w)' = Own(w)
    BY <1>1, <1>3, <2>1, ConnectActs DEF start
  <2> QED
    BY <1>3, <2>1, <2>2, QuietStep DEF start
<1>4. CASE startConnect(w) \/ onReadyConnect(w) \/ CheckNothing(w)
  <2>1. UNCHANGED <<reg, pending_ops, loopVars, watcherVars, starts>>
    BY <1>4 DEF startConnect, onReadyConnect, CheckNothing
  <2>2. Only(w)
    BY <1>1, <2>1 DEF Only
  <2>3. Acts(w) /\ Own(w)' = Own(w)
    BY <1>1, <2>1, <2>2, ConnectActs
  <2> QED
    BY <2>1, <2>2, <2>3, QuietStep
<1>5. CASE startEnds(w)
  <2>1. CASE fd[w] = NoFd
    <3>1. UNCHANGED <<reg, pending_ops, loopVars, watcherVars, starts>>
      BY <1>5, <2>1 DEF startEnds
    <3>2. Only(w)
      BY <1>1, <3>1 DEF Only
    <3>3. Acts(w) /\ Own(w)' = Own(w)
      BY <1>1, <3>1, <3>2, ConnectActs
    <3> QED
      BY <3>1, <3>2, <3>3, QuietStep
  <2>2. CASE fd[w] # NoFd
    <3> DEFINE s == Source(w, starts[w], fd[w], Filter("write"))
    <3>1. /\ source' = [source EXCEPT ![w] = s]
          /\ reg' = Applied(reg, <<addSource(source'[w])>>)
          /\ pending_ops' = Deferred(<<addSource(source'[w])>>)
          /\ attached' = attached \cup {w}
          /\ UNCHANGED <<write_attached, sock, loopVars, events, fd, connectVars>>
      BY <1>5, <2>2 DEF startEnds, attachSource
    <3>2. s \in Srcs /\ s \in Shapes(w) /\ s.w = w /\ s.fd = fd[w] /\ s.flt = Filter("write")
      <4>1. Filter("write") \in Filters /\ Filter("write") \in {"any", "read", "write"}
        BY DEF Filter, Filters
      <4>2. fd[w] \in Fds
        BY <1>1, <2>2
      <4> QED
        BY <1>1, <4>1, <4>2 DEF Srcs, Shapes, Source
    <3> HIDE DEF s
    <3>3. source'[w] = s /\ Requested(reg', pending_ops', <<addSource(s)>>)
      BY <1>1, <3>1 DEF Requested
    <3>4. Only(w)
      BY <1>1, <3>1 DEF Only
    <3>5. Acts(w) /\ Own(w) = (IF w \in attached THEN {source[w]} ELSE {}) /\ Own(w)' = {s}
      BY <1>1, <2>2, <3>1, <3>2, <3>3, <3>4, ConnectActs
    <3>6. w \notin attached
      <4>1. PICK F : Has(stack, StartTags(w), F) /\ (w \in attached => F = {})
        BY DEF StackInv, StartInv
      <4>2. stack # <<>> /\ Tag(Head(stack)) \in StartTags(w)
        BY <1>5 DEF startEnds, At, Tag, StartTags
      <4>3. F # {}
        BY <4>1, <4>2, HasPopped DEF NetInv, CallersOK
      <4> QED
        BY <4>1, <4>3
    <3>7. Own(w) = {}
      BY <3>5, <3>6
    <3>8. Open' = Open
      BY <3>1 DEF Open
    <3>9. Registers /\ Mentions(w)
      BY <3>1, <3>2, <3>3, <3>5, <3>7, <3>8, AttachStep DEF Mentions
    <3> QED
      BY <3>4, <3>9
  <2> QED
    BY <2>1, <2>2
<1>6. ASSUME DetachAndClose(w), UNCHANGED <<loopVars, events, source, starts, connVars>>
      PROVE  Only(w) /\ Registers /\ Mentions(w)
  <2>1. /\ w \in attached /\ attached' = attached \ {w} /\ write_attached' = write_attached \ {w}
        /\ fd' = [fd EXCEPT ![w] = NoFd]
    BY <1>6 DEF DetachAndClose, closeFd
  <2>2. Only(w)
    BY <1>1, <1>6, <2>1 DEF Only
  <2>3. Acts(w)
    BY <1>1, <1>6, <2>1, <2>2, ConnectActs
  <2>4. events' \in Wants /\ \A v \in Watchers \ {w} : events'[v] = events[v]
    BY <1>6 DEF CoreInv, RegInv
  <2> QED
    BY <1>6, <2>1, <2>2, <2>3, <2>4, DetachAndCloseStep
<1>7. ASSUME UNCHANGED <<reg, pending_ops, loopVars, attachedVars, events, source, starts, connVars>>,
             w \notin attached, \A v \in Watchers \ {w} : fd'[v] = fd[v]
      PROVE  Only(w) /\ Registers /\ Mentions(w)
  <2>1. Only(w)
    BY <1>1, <1>7 DEF Only
  <2>2. Acts(w) /\ Own(w)' = Own(w)
    BY <1>1, <1>7, <2>1, ConnectActs
  <2> QED
    BY <1>7, <2>1, <2>2, QuietStep
<1>8. CASE stop(w)
  BY <1>6, <1>8 DEF stop
<1>9. CASE cancel(w)
  BY <1>6, <1>7, <1>9 DEF cancel
<1>10. CASE destroy(w)
  <2>1. /\ source' = [source EXCEPT ![w] = Source(w, 0, NoFd, "any")]
        /\ UNCHANGED <<loopVars, events, starts, connVars>>
        /\ StopAndClose(w)
    BY <1>10 DEF destroy
  <2>2. source'[w] \in Shapes(w)
    BY <1>1, <2>1 DEF Source, Shapes
  <2>3. /\ attached' = attached \ {w} /\ write_attached' = write_attached \ {w}
        /\ fd' = [fd EXCEPT ![w] = NoFd]
    BY <1>1, <2>1 DEF StopAndClose, DetachAndClose, closeFd
  <2>4. Only(w)
    BY <1>1, <2>1, <2>3 DEF Only
  <2>5. Acts(w)
    BY <1>1, <2>1, <2>2, <2>3, <2>4, ConnectActs
  <2>6. events' \in Wants /\ \A v \in Watchers \ {w} : events'[v] = events[v]
    BY <2>1 DEF CoreInv, RegInv
  <2>7. CASE w \in attached
    <3>1. DetachAndClose(w)
      BY <2>1, <2>7 DEF StopAndClose
    <3> QED
      BY <2>4, <2>5, <2>6, <2>7, <3>1, DetachAndCloseStep
  <2>8. CASE w \notin attached
    <3>1. closeFd(w, reg) /\ UNCHANGED <<pending_ops, attachedVars>>
      BY <2>1, <2>8 DEF StopAndClose, DetachAndClose
    <3> QED
      BY <1>1, <2>4, <2>5, <2>6, <2>8, <3>1, CloseUnattachedStep
  <2> QED
    BY <2>7, <2>8
<1>11. CASE CheckFails(w)
  BY <1>6, <1>7, <1>11 DEF CheckFails
<1>12. CASE CheckSucceeds(w)
  <2>1. /\ fd' = [fd EXCEPT ![w] = NoFd]
        /\ UNCHANGED <<loopVars, events, source, starts, connVars, sock>>
    BY <1>12 DEF CheckSucceeds
  <2>2. CASE w \notin attached
    BY <1>1, <1>7, <1>12, <2>1, <2>2 DEF CheckSucceeds, detach
  <2>3. CASE w \in attached
    <3>1. detach(w)
      BY <1>12, <2>3 DEF CheckSucceeds
    <3>2. attached' = attached \ {w} /\ write_attached' = write_attached \ {w}
      BY <3>1 DEF detach
    <3>3. Only(w)
      BY <1>1, <2>1, <3>2 DEF Only
    <3>4. Acts(w)
      BY <1>1, <2>1, <3>2, <3>3, ConnectActs
    <3>5. Open' = Open
      BY <2>1 DEF Open
    <3> QED
      BY <2>1, <2>3, <3>1, <3>3, <3>4, <3>5, DetachStep
  <2> QED
    BY <2>2, <2>3
<1> QED
  BY <1>3, <1>4, <1>5, <1>8, <1>9, <1>10, <1>11, <1>12 DEF ConnectCall, ConnectStep

\* The sockets of the other watchers are left alone.
LEMMA ApartIf ==
  ASSUME OwnersOK, NEW w \in Watchers,
         \A f \in Open : f \notin streams /\ f # fd[w] => sock'[f] = sock[f]
  PROVE  LeavesAlone(w)
BY DEF LeavesAlone, OwnersOK, SocketOwnedOnce

\* One socket changes, which is that of w, or new.
LEMMA ApartSock ==
  ASSUME OwnersOK, NEW w \in Watchers
  PROVE  /\ UNCHANGED sock => LeavesAlone(w)
         /\ \A x : sock' = [sock EXCEPT ![fd[w]] = x] => LeavesAlone(w)
         /\ \A x : \A f \in NewFd : sock' = [sock EXCEPT ![f] = x] => LeavesAlone(w)
         /\ sock' = Shut({fd[w]}) => LeavesAlone(w)
<1>1. sock \in [Fds -> Sockets] /\ Open \subseteq Fds /\ \A f \in NewFd : f \notin Open
  BY DEF OwnersOK, Open, NewFd
<1>2. UNCHANGED sock => LeavesAlone(w)
  BY ApartIf
<1>3. ASSUME NEW x, sock' = [sock EXCEPT ![fd[w]] = x] PROVE LeavesAlone(w)
  BY <1>1, <1>3, ApartIf
<1>4. ASSUME NEW x, NEW f \in NewFd, sock' = [sock EXCEPT ![f] = x] PROVE LeavesAlone(w)
  BY <1>1, <1>4, ApartIf
<1>5. ASSUME sock' = Shut({fd[w]}) PROVE LeavesAlone(w)
  BY <1>1, <1>5, ApartIf DEF Shut
<1> QED
  BY <1>2, <1>3, <1>4, <1>5

\* A callback's frame is of its watcher.
LEMMA CallsMine ==
  ASSUME NEW w, NEW l, l \notin {"dispatch", "expire"}
  PROVE  /\ Mine(Calls(l, w), w) /\ Tag(Calls(l, w)) = <<l, w>>
BY DEF Mine, Calls, Frame, GoodFrame, Tag

\* StartInv in the next state.
LEMMA StartIf ==
  ASSUME NEW w, NEW F, Has(stack', StartTags(w), F), w \in attached' => F = {}
  PROVE  StartInv(w)'
BY Zenon DEF StartInv, Has, Tagged, Tag, StartTags

\* Nothing pushed.
LEMMA NothingBefore == ASSUME NEW s, IsStack(s) PROVE <<>> \o s = s
<1>1. PICK S : s \in Seq(S)
  BY DEF IsStack
<1> QED
  BY <1>1

\* The steps of a connect watcher move its own frames only.
LEMMA ConnectStack ==
  ASSUME NetInv, StackInv, NEW w \in Connects, ConnectCall(w) \/ ConnectStep(w)
  PROVE  Stays(stack, stack', w) /\ StartInv(w)'
<1> DEFINE A == StartTags(w)
<1>1. IsStack(stack) /\ w \in Watchers
  BY ConnectAssumption DEF NetInv, CallersOK
<1>2. PICK F : Has(stack, A, F) /\ (w \in attached => F = {})
  BY DEF StackInv, StartInv
<1>3. \A l : <<l, w>> \in A <=> l \in {"connect", "attach"}
  BY DEF StartTags
<1>4. /\ \A l \in {"connect", "attach", "check", "on_error", "on_connected"} :
           Mine(Calls(l, w), w) /\ Tag(Calls(l, w)) = <<l, w>>
  BY CallsMine
<1> HIDE DEF A
<1>5. ASSUME NEW s, IsStack(s), NEW G, Has(s, A, G)
      PROVE  /\ \A l \in {"check", "on_error", "on_connected"} : Has(<<Calls(l, w)>> \o s, A, G)
             /\ G = {} => \A l \in {"connect", "attach"} :
                            Has(<<Calls(l, w)>> \o s, A, {Calls(l, w)})
  <2>1. ASSUME NEW l \in {"check", "on_error", "on_connected"} PROVE Has(<<Calls(l, w)>> \o s, A, G)
    <3>1. Tag(Calls(l, w)) \notin A
      BY <1>3, <1>4
    <3> QED
      BY <1>5, <3>1, HasPushed, Zenon
  <2>2. ASSUME G = {}, NEW l \in {"connect", "attach"}
        PROVE  Has(<<Calls(l, w)>> \o s, A, {Calls(l, w)})
    <3>1. Tag(Calls(l, w)) \in A
      BY <1>3, <1>4
    <3> QED
      BY <1>5, <2>2, <3>1, HasPushed, Zenon
  <2> QED
    BY <2>1, <2>2
<1>6. CASE start(w)
  <2> DEFINE s == <<Calls("connect", w)>> \o stack
  <2>1. F = {}
    <3>1. \A i \in 1 .. Len(stack) : Tag(stack[i]) \notin A
      BY <1>6 DEF start, Starting, Tag, A, StartTags
    <3> QED
      BY <1>2, <3>1 DEF Has, Tagged
  <2>2. Has(s, A, {Calls("connect", w)}) /\ IsStack(s) /\ Stays(stack, s, w)
    BY <1>1, <1>2, <1>4, <1>5, <2>1, Pushed, StaysForms
  <2>3. stack' = s \/ stack' = <<Calls("on_error", w)>> \o s
    BY <1>6 DEF start, fail
  <2> HIDE DEF s
  <2>4. Has(<<Calls("on_error", w)>> \o s, A, {Calls("connect", w)})
    BY <1>5, <2>2
  <2>5. Stays(stack, <<Calls("on_error", w)>> \o s, w)
    BY <1>4, <2>2, StaysPushed, StaysThen
  <2>6. w \notin attached'
    BY <1>6 DEF start, attachedVars
  <2> QED
    BY <2>2, <2>3, <2>4, <2>5, <2>6, StartIf DEF A
<1>7. CASE stop(w) \/ cancel(w) \/ destroy(w)
  <2>1. stack' = stack /\ (w \in attached' => w \in attached)
    BY <1>7 DEF stop, cancel, destroy, DetachAndClose, StopAndClose, attachedVars
  <2>2. Has(stack', A, F) /\ (w \in attached' => F = {})
    BY <1>2, <2>1
  <2> QED
    BY <1>1, <2>1, <2>2, StaysForms, StartIf DEF A
<1>8. ASSUME stack # <<>>, Head(stack).w = w, Head(stack).at \in {"connect", "attach"}
      PROVE  IsStack(Rest) /\ Has(Rest, A, {}) /\ Stays(stack, Rest, w)
  <2>1. Tag(Head(stack)) \in A
    BY <1>8 DEF Tag, A, StartTags
  <2> QED
    BY <1>1, <1>2, <1>8, <2>1, HasPopped, Popped, StaysForms DEF Rest
<1>9. CASE startConnect(w)
  <2> DEFINE s == <<Calls("attach", w)>> \o Rest
  <2>1. IsStack(Rest) /\ Has(Rest, A, {}) /\ Stays(stack, Rest, w)
    BY <1>8, <1>9 DEF startConnect, At
  <2>2. IsStack(s) /\ Has(s, A, {Calls("attach", w)}) /\ Stays(stack, s, w)
    <3>1. Stays(Rest, s, w)
      BY <1>4, <2>1, StaysPushed
    <3> QED
      BY <1>5, <2>1, <3>1, Pushed, StaysThen
  <2>3. \/ stack' = Rest
        \/ stack' = s
        \/ \E l \in {"check", "on_error"} : stack' = <<Calls(l, w)>> \o s
    <3>1. CASE stack' = <<Calls("check", w), Calls("attach", w)>> \o Rest
      <4>1. stack' = <<Calls("check", w)>> \o s
        BY <2>1, <3>1, PushedTwo
      <4> QED
        BY <4>1
    <3>2. CASE fail(w, s)
      BY <3>2 DEF fail
    <3> QED
      BY <1>9, <3>1, <3>2 DEF startConnect
  <2> HIDE DEF s
  <2>4. \A l \in {"check", "on_error"} :
          Has(<<Calls(l, w)>> \o s, A, {Calls("attach", w)}) /\ Stays(stack, <<Calls(l, w)>> \o s, w)
    <3>1. ASSUME NEW l \in {"check", "on_error"}
          PROVE  Has(<<Calls(l, w)>> \o s, A, {Calls("attach", w)}) /\ Stays(stack, <<Calls(l, w)>> \o s, w)
      <4>1. Mine(Calls(l, w), w)
        BY <1>4
      <4>2. Stays(stack, <<Calls(l, w)>> \o s, w)
        BY <2>2, <4>1, StaysPushed, StaysThen
      <4> QED
        BY <1>5, <2>2, <4>2
    <3> QED
      BY <3>1
  <2>5. w \notin attached'
    <3>1. F = {Head(stack)}
      <4>1. Tag(Head(stack)) \in A
        BY <1>9 DEF startConnect, At, Tag, A, StartTags
      <4>2. stack # <<>>
        BY <1>9 DEF startConnect, At
      <4> QED
        BY <1>1, <1>2, <4>1, <4>2, HasPopped
    <3>2. attached' = attached
      BY <1>9 DEF startConnect, watcherVars, attachedVars
    <3> QED
      BY <1>2, <3>1, <3>2
  <2> QED
    BY <2>1, <2>2, <2>3, <2>4, <2>5, StartIf DEF A
<1>10. CASE startEnds(w)
  <2>1. IsStack(Rest) /\ Has(Rest, A, {}) /\ Stays(stack, Rest, w) /\ stack' = Rest
    BY <1>8, <1>10 DEF startEnds, At
  <2> QED
    BY <2>1, StartIf DEF A
<1>11. CASE onReadyConnect(w) \/ CheckNothing(w) \/ CheckFails(w) \/ CheckSucceeds(w)
  <2>1. stack # <<>> /\ Head(stack).w = w /\ Tag(Head(stack)) \notin A
    BY <1>11 DEF onReadyConnect, CheckNothing, CheckFails, CheckSucceeds, At, Tag, A, StartTags
  <2>2. IsStack(Rest) /\ Has(Rest, A, F) /\ Stays(stack, Rest, w)
    BY <1>1, <1>2, <2>1, HasPopped, Popped, StaysForms DEF Rest
  <2>3. stack' = Rest \/ \E l \in {"check", "on_error", "on_connected"} : stack' = <<Calls(l, w)>> \o Rest
    <3>1. <<>> \o Rest = Rest
      BY <2>2, NothingBefore
    <3> QED
      BY <1>11, <3>1 DEF onReadyConnect, CheckNothing, CheckFails, CheckSucceeds, fail
  <2>4. ASSUME NEW l \in {"check", "on_error", "on_connected"}
        PROVE  Has(<<Calls(l, w)>> \o Rest, A, F) /\ Stays(stack, <<Calls(l, w)>> \o Rest, w)
    BY <1>4, <1>5, <2>2, StaysPushed, StaysThen
  <2>5. Has(stack', A, F) /\ Stays(stack, stack', w)
    BY <2>2, <2>3, <2>4
  <2>6. w \in attached' => w \in attached
    BY <1>11 DEF onReadyConnect, CheckNothing, CheckFails, CheckSucceeds, watcherVars, attachedVars,
                 DetachAndClose, detach
  <2> QED
    BY <1>2, <2>5, <2>6, StartIf DEF A
<1> QED
  BY <1>6, <1>7, <1>9, <1>10, <1>11 DEF ConnectCall, ConnectStep

\* The step of a watcher that is no timer.
LEMMA WatcherStep ==
  ASSUME CoreInv, StackInv, NEW w \in Watchers \ Timers, Only(w), Registers, Mentions(w),
         Stays(stack, stack', w), LeavesAlone(w), UNCHANGED owed, w \in Connects => StartInv(w)'
  PROVE  CoreInv' /\ StackInv'
BY StackStep, TimersStillHeld DEF CoreInv, Registers, Mentions

\* A connect watcher keeps the invariant.
LEMMA ConnectWorks ==
  ASSUME NetInv, NetInv', CoreInv, StackInv, NEW w \in Connects, Connect(w),
         UNCHANGED <<connVars, addOnVars>>
  PROVE  CoreInv' /\ StackInv'
<1>1. w \in Watchers \ Timers
  BY ConnectBefore
<1>2. (ConnectCall(w) \/ ConnectStep(w)) /\ KnownBackend
  BY DEF Connect, ConnectorCall, ConnectorStep, EpollConnectCall, PollConnectCall, KqueueConnectCall,
         MacPollConnectCall, EpollConnectStep, PollConnectStep, KqueueConnectStep, MacPollConnectStep,
         KnownBackend
<1>3. Only(w) /\ Registers /\ Mentions(w)
  BY <1>2, ConnectRegisters
<1>4. Stays(stack, stack', w) /\ StartInv(w)'
  BY <1>2, ConnectStack
<1>5. LeavesAlone(w)
  <2>1. OwnersOK
    BY DEF NetInv
  <2>2. ASSUME DetachAndClose(w) \/ StopAndClose(w) PROVE sock' = Shut({fd[w]})
    BY <2>2 DEF DetachAndClose, StopAndClose, closeFd
  <2>3. CASE start(w)
    BY <1>1, <2>1, <2>3, ApartSock DEF start
  <2>4. CASE startConnect(w)
    BY <1>1, <2>1, <2>4, ApartSock DEF startConnect
  <2>5. CASE CheckFails(w)
    BY <1>1, <2>1, <2>2, <2>5, ApartSock DEF CheckFails
  <2>6. CASE stop(w) \/ cancel(w) \/ destroy(w)
    BY <1>1, <2>1, <2>2, <2>6, ApartSock DEF stop, cancel, destroy
  <2>7. CASE startEnds(w) \/ onReadyConnect(w) \/ CheckNothing(w) \/ CheckSucceeds(w)
    BY <1>1, <2>1, <2>7, ApartSock DEF startEnds, onReadyConnect, CheckNothing, CheckSucceeds
  <2> QED
    BY <1>2, <2>3, <2>4, <2>5, <2>6, <2>7 DEF ConnectCall, ConnectStep
<1> QED
  BY <1>1, <1>3, <1>4, <1>5, WatcherStep DEF addOnVars, timerVars

(* Accept watchers. *)

\* What is known of an accept watcher before its step.
LEMMA AcceptBefore ==
  ASSUME NetInv, CoreInv, NEW a \in Accepts
  PROVE  /\ a \in Watchers \ Timers /\ a \notin Connects /\ a \notin Conns
         /\ source[a] \in Shapes(a)
         /\ fd[a] # NoFd => source[a].fd = fd[a] /\ source[a].flt = Filter("read")
         /\ a \in attached => fd[a] # NoFd
         /\ DOMAIN source = Watchers /\ DOMAIN starts = Connects
         /\ fd \in [Watchers -> Fds \cup {NoFd}]
         /\ a \notin write_attached
<1>1. a \in Watchers /\ a \notin Conns /\ a \notin Timers /\ a \notin Connects
  BY AcceptAssumption, ConnAssumption, NetworkAssumption
<1> QED
  BY <1>1 DEF NetInv, OwnersOK, CoreInv, WatchersOK, WatcherOK

\* What its step must leave.
LEMMA AcceptActs ==
  ASSUME NetInv, NetInv', CoreInv, KnownBackend, NEW a \in Accepts, Only(a),
         source'[a] \in Shapes(a), write_attached' \subseteq write_attached,
         fd'[a] # NoFd => source'[a].fd = fd'[a] /\ source'[a].flt = Filter("read"),
         a \in attached' => fd'[a] # NoFd
  PROVE  /\ Acts(a)
         /\ Own(a) = IF a \in attached THEN {source[a]} ELSE {}
         /\ Own(a)' = IF a \in attached' THEN {source'[a]} ELSE {}
<1>1. a \in Watchers /\ a \notin Conns /\ a \notin Connects /\ a \notin Timers
  BY AcceptBefore
<1>2. a \notin created' /\ a \notin orphans'
  BY <1>1 DEF NetInv, CallersOK
<1>3. a \notin write_attached /\ a \notin write_attached'
  BY <1>1 DEF CoreInv, WatchersOK
<1>4. Filter("read")' = Filter("read")
  BY SetsSame DEF Only
<1>5. WatcherOK(a)'
  BY <1>1, <1>2, <1>3, <1>4 DEF WatcherOK, Shapes
<1> QED
  BY <1>1, <1>3, <1>5 DEF Acts, NetInv, Own

\* The steps of an accept watcher keep the registrations right.
LEMMA AcceptRegisters ==
  ASSUME NetInv, NetInv', CoreInv, KnownBackend, NEW a \in Accepts,
         AcceptCall(a) \/ AcceptStep(a), UNCHANGED <<connVars, addOnVars>>
  PROVE  Only(a) /\ Registers /\ Mentions(a)
<1> USE DEF connectVars, connVars, watcherVars, attachedVars, loopVars
<1>1. /\ a \in Watchers \ Timers /\ source[a] \in Shapes(a) /\ a \notin Connects /\ a \notin Conns
      /\ fd[a] # NoFd => source[a].fd = fd[a] /\ source[a].flt = Filter("read")
      /\ a \in attached => fd[a] # NoFd
      /\ DOMAIN source = Watchers /\ DOMAIN starts = Connects
      /\ fd \in [Watchers -> Fds \cup {NoFd}] /\ a \notin write_attached
  BY AcceptBefore
<1>2. UNCHANGED starts
  BY DEF AcceptCall, AcceptStep, createListenSocket, startAccept, stopAccept, destroyAccept,
         onReadyAccept, AcceptDone, Accept, AcceptFails
<1>3. CASE createListenSocket(a)
  <2>1. PICK f \in NewFd : /\ fd' = [fd EXCEPT ![a] = f]
                           /\ source' = [source EXCEPT ![a] = Source(a, 0, f, Filter("read"))]
    BY <1>3 DEF createListenSocket
  <2>2. UNCHANGED <<reg, pending_ops, loopVars, events, attachedVars, connVars>> /\ a \notin attached
    BY <1>1, <1>3 DEF createListenSocket
  <2>3. Only(a)
    BY <1>1, <1>2, <2>1, <2>2 DEF Only
  <2>4. source'[a] \in Shapes(a) /\ source'[a].fd = fd'[a] /\ source'[a].flt = Filter("read")
    <3>1. f \in Fds /\ Filter("read") \in {"any", "read", "write"}
      BY DEF NewFd, Filter
    <3> QED
      BY <1>1, <2>1, <3>1 DEF Source, Shapes
  <2>5. Acts(a) /\ Own(a)' = Own(a)
    BY <1>1, <2>2, <2>3, <2>4, AcceptActs
  <2> QED
    BY <2>2, <2>3, <2>5, QuietStep
<1>4. CASE startAccept(a)
  <2>1. /\ fd[a] # NoFd /\ a \notin attached /\ attached' = attached \cup {a}
        /\ reg' = Applied(reg, <<addSource(source[a])>>)
        /\ pending_ops' = Deferred(<<addSource(source[a])>>)
        /\ UNCHANGED <<sock, loopVars, events, fd, source, write_attached, connVars>>
    BY <1>4 DEF startAccept, attach, attachSource
  <2>2. Only(a)
    BY <1>1, <1>2, <2>1 DEF Only
  <2>3. Acts(a) /\ Own(a)' = {source[a]} /\ Own(a) = {}
    BY <1>1, <2>1, <2>2, AcceptActs
  <2>4. source[a] \in Srcs /\ source[a].w = a
    BY <1>1, <2>1, SourcesTyped DEF CoreInv, WatchersOK, NetInv
  <2>5. Open' = Open /\ Requested(reg', pending_ops', <<addSource(source[a])>>)
    BY <2>1 DEF Open, Requested
  <2>6. Registers /\ Mentions(a)
    BY <2>1, <2>3, <2>4, <2>5, AttachStep DEF Mentions
  <2> QED
    BY <2>2, <2>6
<1>5. CASE stopAccept(a)
  <2>1. /\ detach(a) /\ a \in attached
        /\ attached' = attached \ {a} /\ write_attached' = write_attached \ {a}
        /\ UNCHANGED <<sock, loopVars, events, fd, source, connVars>>
    BY <1>5 DEF stopAccept, detach
  <2>2. Only(a)
    BY <1>1, <1>2, <2>1 DEF Only
  <2>3. Acts(a) /\ Open' = Open
    BY <1>1, <2>1, <2>2, AcceptActs DEF Open
  <2> QED
    BY <2>1, <2>2, <2>3, DetachStep
<1>6. CASE destroyAccept(a)
  <2>1. /\ source' = [source EXCEPT ![a] = Source(a, 0, NoFd, "any")]
        /\ UNCHANGED <<loopVars, events, connVars>>
        /\ StopAndClose(a)
    BY <1>6 DEF destroyAccept
  <2>2. source'[a] \in Shapes(a)
    BY <1>1, <2>1 DEF Source, Shapes
  <2>3. /\ attached' = attached \ {a} /\ write_attached' = write_attached \ {a}
        /\ fd' = [fd EXCEPT ![a] = NoFd]
    BY <1>1, <2>1 DEF StopAndClose, DetachAndClose, closeFd
  <2>4. Only(a)
    BY <1>1, <1>2, <2>1, <2>3 DEF Only
  <2>5. Acts(a)
    BY <1>1, <2>1, <2>2, <2>3, <2>4, AcceptActs
  <2>6. events' \in Wants /\ \A v \in Watchers \ {a} : events'[v] = events[v]
    BY <2>1 DEF CoreInv, RegInv
  <2>7. CASE a \in attached
    <3>1. DetachAndClose(a)
      BY <2>1, <2>7 DEF StopAndClose
    <3> QED
      BY <2>4, <2>5, <2>6, <2>7, <3>1, DetachAndCloseStep
  <2>8. CASE a \notin attached
    <3>1. closeFd(a, reg) /\ UNCHANGED <<pending_ops, attachedVars>>
      BY <2>1, <2>8 DEF StopAndClose, DetachAndClose
    <3> QED
      BY <1>1, <2>4, <2>5, <2>6, <2>8, <3>1, CloseUnattachedStep
  <2> QED
    BY <2>7, <2>8
<1>7. CASE AcceptStep(a)
  <2>1. UNCHANGED <<reg, pending_ops, loopVars, watcherVars, connVars>>
    BY <1>7 DEF AcceptStep, onReadyAccept, AcceptDone, Accept, AcceptFails
  <2>2. Only(a)
    BY <1>1, <1>2, <2>1 DEF Only
  <2>3. Acts(a) /\ Own(a)' = Own(a)
    BY <1>1, <2>1, <2>2, AcceptActs
  <2> QED
    BY <2>1, <2>2, <2>3, QuietStep
<1> QED
  BY <1>3, <1>4, <1>5, <1>6, <1>7 DEF AcceptCall

\* The steps of an accept watcher move its own frames only.
LEMMA AcceptStack ==
  ASSUME NetInv, NEW a \in Accepts, AcceptCall(a) \/ AcceptStep(a)
  PROVE  Stays(stack, stack', a) /\ LeavesAlone(a)
<1>1. IsStack(stack) /\ a \in Watchers /\ OwnersOK
  BY AcceptAssumption DEF NetInv, CallersOK
<1>2. CASE AcceptCall(a)
  <2>1. stack' = stack
    BY <1>2 DEF AcceptCall, createListenSocket, startAccept, stopAccept, destroyAccept
  <2>2. Stays(stack, stack', a)
    BY <1>1, <2>1, StaysForms
  <2>3. ASSUME StopAndClose(a) PROVE sock' = Shut({fd[a]})
    BY <2>3 DEF DetachAndClose, StopAndClose, closeFd
  <2>4. LeavesAlone(a)
    BY <1>1, <1>2, <2>3, ApartSock
       DEF AcceptCall, createListenSocket, startAccept, stopAccept, destroyAccept
  <2> QED
    BY <2>2, <2>4
<1>3. CASE AcceptStep(a)
  <2>1. stack # <<>> /\ Head(stack).w = a
    BY <1>3 DEF AcceptStep, onReadyAccept, AcceptDone, Accept, AcceptFails, At
  <2>2. Mine(Calls("on_accept", a), a) /\ Mine(Calls("on_error", a), a)
    BY CallsMine
  <2>3. \A n : Mine(Frame("accept", a, n, {}), a)
    BY DEF Mine, Frame, GoodFrame
  <2>4. \/ stack' = Rest
        \/ \E f : Mine(f, a) /\ stack' = <<f>> \o Rest
        \/ \E f, g : Mine(f, a) /\ Mine(g, a) /\ stack' = <<f, g>> \o Rest
    BY <1>3, <2>2, <2>3, Zenon DEF AcceptStep, onReadyAccept, AcceptDone, Accept, AcceptFails
  <2>5. Stays(stack, stack', a)
    BY <1>1, <2>1, <2>4, StaysForms, Zenon DEF Rest
  <2>6. LeavesAlone(a)
    <3>1. CASE onReadyAccept(a) \/ AcceptDone(a)
      BY <1>1, <3>1, ApartSock DEF onReadyAccept, AcceptDone
    <3>2. CASE AcceptFails(a)
      BY <1>1, <3>2, ApartSock DEF AcceptFails
    <3>3. CASE Accept(a)
      <4>1. PICK f \in NewFd : sock' = [sock EXCEPT ![fd[a]].rx = @ - 1,
                                                    ![f] = [NoSocket EXCEPT !.st = "up"]]
        BY <3>3 DEF Accept
      <4>2. f \notin Open /\ sock \in [Fds -> Sockets] /\ Open \subseteq Fds
        BY <1>1 DEF NewFd, OwnersOK, Open
      <4>3. \A g \in Open : g # fd[a] => sock'[g] = sock[g]
        BY <4>1, <4>2
      <4> QED
        BY <1>1, <4>3, ApartIf
    <3> QED
      BY <1>3, <3>1, <3>2, <3>3 DEF AcceptStep
  <2> QED
    BY <2>5, <2>6
<1> QED
  BY <1>2, <1>3

\* An accept watcher keeps the invariant.
LEMMA AcceptWorks ==
  ASSUME NetInv, NetInv', CoreInv, StackInv, NEW a \in Accepts, Listen(a),
         UNCHANGED <<connVars, addOnVars>>
  PROVE  CoreInv' /\ StackInv'
<1>1. (AcceptCall(a) \/ AcceptStep(a)) /\ KnownBackend
  BY DEF Listen, EpollTcpAcceptWatcher, PollTcpAcceptWatcher, KqueueTcpAcceptWatcher,
         MacPollTcpAcceptWatcher, KnownBackend
<1>2. a \in Watchers \ Timers /\ a \notin Connects
  BY AcceptBefore
<1>3. Only(a) /\ Registers /\ Mentions(a)
  BY <1>1, AcceptRegisters
<1>4. Stays(stack, stack', a) /\ LeavesAlone(a)
  BY <1>1, AcceptStack
<1> QED
  BY <1>2, <1>3, <1>4, WatcherStep DEF addOnVars, timerVars

\* w detaches its source s alone.
LEMMA RemoveSourceStep ==
  ASSUME NEW w, Acts(w), NEW s \in Srcs, s.w = w,
         Requested(reg', pending_ops', <<removeSource(s)>>),
         Own(w)' = Own(w) \ {s}, Open' = Open, UNCHANGED events
  PROVE  Registers /\ Mentions(w)
<1>1. OwnersOK /\ WatchersOK /\ RegInv /\ KnownBackend /\ w \in Watchers
  BY DEF Acts, CoreInv
<1>2. Want = Others(w) \cup Own(w) /\ s \notin Others(w)
  BY <1>1, WantSplit DEF WantOwned, Others
<1> DEFINE M == Mentioned(reg, pending_ops) \cup {s}
<1>3. Leaves(reg', pending_ops', Want \ {s}, M, {})
  BY <1>1, <1>2, RequestRemove
<1> HIDE DEF M
<1>4. Want \ {s} = Others(w) \cup Own(w)'
  BY <1>2
<1>5. Leaves(reg', pending_ops', Others(w) \cup Own(w)', M, {})
  BY <1>3, <1>4
<1>6. Open' \subseteq Open \ {} /\ \A v \in Watchers \ {w} : events'[v] = events[v]
  OBVIOUS
<1>7. events' \in Wants
  BY <1>1 DEF RegInv
<1>8. Registers
  BY <1>5, <1>6, <1>7, ActorStep DEF Acts, Registers
<1>9. Mentioned(reg', pending_ops') \subseteq M
  BY <1>3 DEF Leaves
<1> QED
  BY <1>8, <1>9 DEF Mentions, M

\* A registration that is there is changed.
LEMMA ChangeEffect ==
  ASSUME NEW r \in Regs, NEW key \in Keys, NEW ev \in SUBSET Events, ev # {},
         key \in r.interest => r.fd_events[key] # {},
         NEW q \in {EpollRegister(r, key, ev), PollRegister(r, key, ev), MacPollRegister(r, key, ev)}
  PROVE  /\ key \in q.interest => q.fd_events[key] # {}
         /\ key \in r.interest => q.fd_events[key] = ev /\ key \in q.interest
<1>1. \/ q = r /\ key \notin r.interest
      \/ q = [r EXCEPT !.fd_events[key] = ev, !.interest = @ \cup {key}]
  BY DEF EpollRegister, PollRegister, MacPollRegister
<1>2. CASE q = r /\ key \notin r.interest
  BY <1>2
<1>3. CASE q = [r EXCEPT !.fd_events[key] = ev, !.interest = @ \cup {key}]
  BY <1>3 DEF Regs
<1> QED
  BY <1>1, <1>2, <1>3

\* w changes what it is interested in.
LEMMA EventsStep ==
  ASSUME NEW w, Acts(w), NEW ev \in Wanted, setEvents(w, ev), source[w] \in Srcs,
         w \notin write_attached, UNCHANGED <<pending_ops, attached, write_attached, source>>
  PROVE  Registers /\ Mentions(w)
<1> DEFINE s0 == source[w]
           key == Key(s0)
<1>1. /\ WatchersOK /\ RegInv /\ KeyInv /\ w \in Watchers /\ CallersOK' /\ Only(w) /\ WatcherOK(w)'
      /\ RegOK(reg) /\ events \in Wants /\ backend # "kqueue"
      /\ UNCHANGED <<backend, in_dispatch, snapshot>>
  BY DEF Acts, CoreInv, RegInv, setEvents, EpollSetEvents, PollSetEvents, MacPollSetEvents, Only
<1>2. /\ events' = [events EXCEPT ![w] = ev]
      /\ \/ s0 \notin reg.armed /\ reg' = reg
         \/ /\ s0 \in reg.armed
            /\ reg' \in {EpollRegister(reg, key, ev), PollRegister(reg, key, ev),
                         MacPollRegister(reg, key, ev)}
  BY DEF setEvents, EpollSetEvents, PollSetEvents, MacPollSetEvents, SetEvents
<1>3. /\ events' \in Wants /\ events'[w] = ev /\ \A v \in Watchers \ {w} : events'[v] = events[v]
  BY <1>1, <1>2 DEF Wants
<1>4. WatchersOK' /\ Want' = Others(w) \cup Own(w)' /\ (Good' => Good)
  BY <1>1, OthersKept
<1>5. Own(w) \subseteq {s0} /\ Own(w)' = Own(w)
  BY DEF Own
<1>6. Want' = Want
  BY <1>1, <1>4, <1>5, WantSplit DEF WantOwned
<1>7. reg \in Regs /\ key \in Keys /\ ev \in SUBSET Events /\ ev # {}
  BY <1>1, SourceFacts DEF RegOK, Wanted
<1> HIDE DEF key, s0
<1>8. /\ reg' \in Regs /\ reg'.armed = reg.armed /\ reg'.sources = reg.sources
      /\ \A j \in Keys : j # key => /\ reg'.fd_events[j] = reg.fd_events[j]
                                    /\ j \in reg'.interest <=> j \in reg.interest
  <2>1. CASE reg' = reg
    BY <1>7, <2>1
  <2>2. CASE reg' # reg
    BY <1>2, <1>7, <2>2, RegisterTyped
  <2> QED
    BY <2>1, <2>2
<1>9. RegInv'
  <2>1. Live(reg'.armed, pending_ops', Len(pending_ops')) = Want'
    BY <1>1, <1>6, <1>8 DEF RegInv
  <2> QED
    BY <1>1, <1>3, <1>8, <2>1, SetsSame DEF RegInv, RegOK
<1>10. ASSUME Good' PROVE KeyFacts(reg, pending_ops)'
  <2>1. KeyFacts(reg, pending_ops)
    BY <1>1, <1>4, <1>10 DEF KeyInv
  <2>2. KeysDistinct(reg.armed)
    BY <1>1, <2>1, CleanDistinct DEF KeyFacts, RegInv
  <2>3. ASSUME NEW s \in reg.armed, Untouched(pending_ops, s) PROVE s.w = w => s = s0
    <3>1. s \in Want
      BY <1>1, <2>3, LiveMember DEF RegInv, Untouched
    <3>2. s \in Own(s.w)
      BY <1>1, <3>1, WantSplit DEF WantOwned
    <3> QED
      BY <1>5, <3>2
  <2>4. \A j \in Keys : /\ j \in reg.interest => reg.fd_events[j] # {}
                        /\ reg.fd_events[j] # {} => \E s \in reg.armed : Key(s) = j
    BY <2>1 DEF KeyFacts, Sound
  <2>5. s0 \in reg.armed => /\ key \in reg'.interest => reg'.fd_events[key] # {}
                            /\ key \in reg.interest => reg'.fd_events[key] = ev /\ key \in reg'.interest
    BY <1>2, <1>7, <2>4, ChangeEffect
  <2>6. ASSUME NEW j \in Keys
        PROVE  /\ j \in reg'.interest => reg'.fd_events[j] # {}
               /\ reg'.fd_events[j] # {} => \E s \in reg'.armed : Key(s) = j
    <3>1. CASE s0 \notin reg.armed
      BY <1>2, <2>4, <3>1
    <3>2. CASE s0 \in reg.armed /\ j # key
      BY <1>8, <2>4, <3>2
    <3>3. CASE s0 \in reg.armed /\ j = key
      BY <1>8, <2>5, <3>3 DEF key
    <3> QED
      BY <3>1, <3>2, <3>3
  <2>7. ASSUME NEW s \in reg.armed, Untouched(pending_ops, s)
        PROVE  reg'.fd_events[Key(s)] = Interest(s)' /\ Key(s) \in reg'.interest
    <3>1. reg.fd_events[Key(s)] = Interest(s) /\ Key(s) \in reg.interest /\ s \in Srcs /\ Key(s) \in Keys
      <4>1. s \in Srcs
        BY <1>7 DEF Regs
      <4> QED
        BY <2>1, <2>7, <4>1, SourceFacts DEF KeyFacts, Right
    <3>2. CASE s = s0
      <4>1. s.flt = "any" /\ s.w = w
        <5>1. s.flt = "any"
          BY <1>1, <3>1 DEF Srcs, Filters
        <5>2. WatcherOK(w)
          BY <1>1 DEF WatchersOK
        <5> QED
          BY <3>2, <5>1, <5>2 DEF s0, WatcherOK, Shapes
      <4>2. Interest(s)' = ev
        BY <1>3, <4>1 DEF Interest
      <4> QED
        BY <2>5, <3>1, <3>2, <4>2 DEF key
    <3>3. CASE s # s0
      <4>1. s.w # w /\ s.w \in Watchers
        BY <2>3, <2>7, <3>1, <3>3 DEF Srcs
      <4>2. Interest(s)' = Interest(s)
        BY <1>3, <4>1 DEF Interest
      <4>3. s0 \in reg.armed => Key(s) # key
        BY <2>2, <3>3 DEF KeysDistinct, key
      <4> QED
        BY <1>2, <1>8, <3>1, <4>2, <4>3
    <3> QED
      BY <3>2, <3>3
  <2>8. Clean(reg'.armed, pending_ops')
    BY <1>8, <2>1 DEF KeyFacts
  <2>9. Keys' = Keys
    BY <1>1, SetsSame
  <2>10. \A s \in reg'.armed : Untouched(pending_ops', s) =>
           reg'.fd_events[Key(s)] = Interest(s)' /\ Key(s) \in reg'.interest
    BY <1>8, <2>7
  <2> QED
    BY <2>6, <2>8, <2>9, <2>10 DEF KeyFacts, Sound, Right
<1>11. KeyInv'
  BY <1>10 DEF KeyInv
<1>12. Mentions(w)
  BY <1>8 DEF Mentions, Mentioned
<1> QED
  BY <1>4, <1>9, <1>11, <1>12 DEF Registers

(* Connection watchers. *)

\* What is known of a connection watcher before its step.
LEMMA ConnBefore ==
  ASSUME NetInv, CoreInv, NEW k \in Conns
  PROVE  /\ k \in Watchers \ Timers /\ k \notin Connects /\ k \notin Accepts
         /\ source[k] \in Shapes(k)
         /\ fd[k] # NoFd => k \in created \ closed /\ source[k].fd = fd[k]
         /\ k \in created => /\ source[k].id = 0 /\ source[k].fd \in Fds /\ source[k].flt = Filter("read")
                             /\ k \in closed \/ fd[k] # NoFd
         /\ k \in attached => k \in created /\ (k \in closed => k \in restarted)
         /\ k \in write_attached => k \in created /\ backend = "kqueue"
         /\ k \in closed => k \in created
         /\ DOMAIN source = Watchers /\ DOMAIN starts = Connects
         /\ fd \in [Watchers -> Fds \cup {NoFd}]
         /\ k \in created => source[k] \in Srcs /\ (k \in write_attached => WriteSource(k) \in Srcs)
<1>1. k \in Watchers /\ k \notin Connects /\ k \notin Timers /\ k \notin Accepts
  BY ConnAssumption, NetworkAssumption
<1>2. k \in created => source[k] \in Srcs /\ (k \in write_attached => WriteSource(k) \in Srcs)
  BY <1>1, SourcesTyped DEF NetInv, CoreInv, WatchersOK
<1> QED
  BY <1>1, <1>2 DEF NetInv, OwnersOK, CallersOK, ConnsOK, CoreInv, WatchersOK, WatcherOK

\* What its step must leave.
LEMMA ConnActs ==
  ASSUME NetInv, NetInv', CoreInv, KnownBackend, NEW k \in Conns, Only(k),
         source'[k] \in Shapes(k),
         fd'[k] # NoFd => source'[k].fd = fd'[k],
         k \in created' => /\ source'[k].id = 0 /\ source'[k].fd \in Fds
                           /\ source'[k].flt = Filter("read")
                           /\ k \in closed' \/ fd'[k] # NoFd,
         k \in attached' => k \in created' /\ (k \in closed' => k \in restarted'),
         k \in write_attached' => k \in created' /\ backend = "kqueue"
  PROVE  Acts(k)
<1>1. k \in Watchers /\ k \notin Connects /\ k \notin Accepts /\ k \notin Timers
  BY ConnBefore
<1>2. k \notin orphans'
  BY <1>1 DEF NetInv, CallersOK
<1>3. Filter("read")' = Filter("read") /\ backend' = backend
  BY SetsSame DEF Only
<1>4. WatcherOK(k)'
  BY <1>1, <1>2, <1>3 DEF WatcherOK, Shapes
<1> QED
  BY <1>1, <1>4 DEF Acts, NetInv

\* A step that leaves what k is alone.
LEMMA ConnSame ==
  ASSUME NetInv, NetInv', CoreInv, KnownBackend, NEW k \in Conns,
         UNCHANGED <<loopVars, fd, source, attached, starts, created, closed, restarted>>,
         write_attached' \ {k} = write_attached \ {k},
         k \in write_attached' => k \in created /\ backend = "kqueue",
         k \in write_attached \cap closed => k \in write_attached'
  PROVE  Only(k) /\ Acts(k)
<1>1. Only(k)
  BY ConnBefore DEF Only, loopVars
<1> QED
  BY <1>1, ConnBefore, ConnActs DEF loopVars

\* A step of it that asks nothing of the core.
LEMMA ConnQuiet ==
  ASSUME NetInv, NetInv', CoreInv, KnownBackend, NEW k \in Conns,
         UNCHANGED <<reg, pending_ops, loopVars, watcherVars, starts, created, closed, restarted>>
  PROVE  Only(k) /\ Registers /\ Mentions(k)
<1> USE DEF watcherVars, attachedVars
<1>1. Only(k) /\ Acts(k)
  BY ConnBefore, ConnSame
<1>2. Own(k)' = Own(k)
  BY DEF Own, WriteSource, Source
<1> QED
  BY <1>1, <1>2, QuietStep

\* Its two sources differ.
LEMMA WriteSourceFacts ==
  ASSUME NetInv, CoreInv, NEW k \in created
  PROVE  /\ source[k] # WriteSource(k) /\ WriteSource(k).w = k /\ source[k].w = k
         /\ backend = "kqueue" => WriteSource(k) \in Srcs
<1>1. k \in Conns
  BY DEF NetInv, CallersOK
<1>2. k \in Watchers /\ source[k].id = 0 /\ source[k].fd \in Fds /\ source[k].w = k
  BY <1>1, ConnBefore DEF Shapes
<1>3. WriteSource(k).id = 1 /\ WriteSource(k).w = k
  BY DEF WriteSource, Source
<1>4. backend = "kqueue" => WriteSource(k) \in Srcs
  BY <1>2 DEF WriteSource, Source, Srcs, Filters
<1> QED
  BY <1>2, <1>3, <1>4

\* What it asks for is something.
LEMMA ReadableWanted == Readable \in Wanted /\ Readable \cup {"OUT"} \in Wanted
BY DEF Readable, Wanted, Events

\* armWritable() keeps the registrations right, with setEvents() or with a second source.
LEMMA ArmStep ==
  ASSUME NetInv, NetInv', CoreInv, KnownBackend, NEW k \in created, armWritable(k), Open' = Open,
         UNCHANGED <<loopVars, fd, source, attached, starts, created, closed, restarted>>
  PROVE  Only(k) /\ Registers /\ Mentions(k)
<1>1. k \in Conns
  BY DEF NetInv, CallersOK
<1>2. ASSUME UNCHANGED <<reg, pending_ops, events, write_attached>>
      PROVE  Only(k) /\ Registers /\ Mentions(k)
  BY <1>1, <1>2, ConnQuiet DEF watcherVars, attachedVars
<1>3. CASE backend = "kqueue" /\ k \notin write_attached
  <2> DEFINE s == WriteSource(k)
  <2>1. /\ reg' = Applied(reg, <<addSource(s)>>) /\ pending_ops' = Deferred(<<addSource(s)>>)
        /\ write_attached' = write_attached \cup {k} /\ UNCHANGED events
    BY <1>3 DEF armWritable, attachWrite, attachSource
  <2>2. Only(k) /\ Acts(k)
    BY <1>1, <1>3, <2>1, ConnSame
  <2>3. s \in Srcs /\ s.w = k /\ s # source[k]
    BY <1>3, WriteSourceFacts
  <2>4. Own(k)' = Own(k) \cup {s} /\ s \notin Own(k)
    BY <1>3, <2>1, <2>3 DEF Own, WriteSource, Source
  <2>5. Requested(reg', pending_ops', <<addSource(s)>>)
    BY <2>1 DEF Requested
  <2> HIDE DEF s
  <2>6. Registers /\ Mentions(k)
    BY <2>1, <2>2, <2>3, <2>4, <2>5, AttachStep DEF Mentions
  <2> QED
    BY <2>2, <2>6
<1>4. CASE backend # "kqueue" /\ "OUT" \notin events[k]
  <2>1. setEvents(k, Readable \cup {"OUT"}) /\ UNCHANGED <<pending_ops, write_attached>>
    BY <1>4 DEF armWritable
  <2>2. k \notin write_attached /\ source[k] \in Srcs
    BY <1>1, <1>4, ConnBefore
  <2>3. Only(k) /\ Acts(k)
    BY <1>1, <2>1, <2>2, ConnSame
  <2> QED
    BY <2>1, <2>2, <2>3, ReadableWanted, EventsStep
<1> QED
  BY <1>2, <1>3, <1>4 DEF armWritable, attachWrite

\* So does disarmWritable().
LEMMA DisarmStep ==
  ASSUME NetInv, NetInv', CoreInv, KnownBackend, NEW k \in created, disarmWritable(k), Open' = Open,
         backend = "kqueue" => k \notin closed,
         UNCHANGED <<loopVars, fd, source, attached, starts, created, closed, restarted>>
  PROVE  Only(k) /\ Registers /\ Mentions(k)
<1>1. k \in Conns
  BY DEF NetInv, CallersOK
<1>2. ASSUME UNCHANGED <<reg, pending_ops, events, write_attached>>
      PROVE  Only(k) /\ Registers /\ Mentions(k)
  BY <1>1, <1>2, ConnQuiet DEF watcherVars, attachedVars
<1>3. CASE backend = "kqueue" /\ k \in write_attached
  <2> DEFINE s == WriteSource(k)
  <2>1. /\ reg' = Applied(reg, <<removeSource(s)>>) /\ pending_ops' = Deferred(<<removeSource(s)>>)
        /\ write_attached' = write_attached \ {k} /\ UNCHANGED events
    BY <1>3 DEF disarmWritable, detachWrite
  <2>2. Only(k) /\ Acts(k)
    BY <1>1, <1>3, <2>1, ConnSame
  <2>3. s \in Srcs /\ s.w = k /\ s # source[k]
    BY <1>3, WriteSourceFacts
  <2>4. Own(k)' = Own(k) \ {s}
    BY <1>3, <2>1, <2>3 DEF Own, WriteSource, Source
  <2>5. Requested(reg', pending_ops', <<removeSource(s)>>)
    BY <2>1 DEF Requested
  <2> HIDE DEF s
  <2>6. Registers /\ Mentions(k)
    BY <2>1, <2>2, <2>3, <2>4, <2>5, RemoveSourceStep
  <2> QED
    BY <2>2, <2>6
<1>4. CASE backend # "kqueue" /\ "OUT" \in events[k]
  <2>1. setEvents(k, Readable) /\ UNCHANGED <<pending_ops, write_attached>>
    BY <1>4 DEF disarmWritable
  <2>2. k \notin write_attached /\ source[k] \in Srcs
    BY <1>1, <1>4, ConnBefore
  <2>3. Only(k) /\ Acts(k)
    BY <1>1, <2>1, <2>2, ConnSame
  <2> QED
    BY <2>1, <2>2, <2>3, ReadableWanted, EventsStep
<1> QED
  BY <1>2, <1>3, <1>4 DEF disarmWritable, detachWrite

\* So does closeNow().
LEMMA CloseNowStep ==
  ASSUME NetInv, NetInv', CoreInv, KnownBackend, NEW k \in created, NEW rest, closeNow(k, rest),
         UNCHANGED <<loopVars, events, source, starts, created, restarted>>
  PROVE  Only(k) /\ Registers /\ Mentions(k)
<1> USE DEF watcherVars, attachedVars, loopVars
<1>1. k \in Conns
  BY DEF NetInv, CallersOK
<1>2. CASE k \in closed
  <2>1. UNCHANGED <<reg, pending_ops, loopVars, watcherVars, starts, created, closed, restarted>>
    BY <1>2 DEF closeNow
  <2> QED
    BY <1>1, <2>1, ConnQuiet
<1>3. CASE k \notin closed
  <2>1. closed' = closed \cup {k} /\ StopAndClose(k)
    BY <1>3 DEF closeNow
  <2>2. /\ fd' = [fd EXCEPT ![k] = NoFd]
        /\ attached' = attached \ {k} /\ write_attached' \subseteq write_attached
        /\ write_attached' \ {k} = write_attached \ {k}
    BY <2>1 DEF StopAndClose, DetachAndClose, closeFd
  <2>3. Only(k)
    BY <1>1, <1>3, <2>1, <2>2, ConnBefore DEF Only
  <2>4. Acts(k)
    BY <1>1, <2>1, <2>2, <2>3, ConnBefore, ConnActs
  <2>5. events' \in Wants /\ \A v \in Watchers \ {k} : events'[v] = events[v]
    BY DEF CoreInv, RegInv
  <2>6. CASE k \in attached
    <3>1. DetachAndClose(k)
      BY <2>1, <2>6 DEF StopAndClose
    <3> QED
      BY <2>3, <2>4, <2>5, <2>6, <3>1, DetachAndCloseStep
  <2>7. CASE k \notin attached
    <3>1. closeFd(k, reg) /\ UNCHANGED <<pending_ops, attachedVars>>
      BY <2>1, <2>7 DEF StopAndClose, DetachAndClose
    <3> QED
      BY <2>3, <2>4, <2>5, <2>7, <3>1, CloseUnattachedStep
  <2> QED
    BY <2>6, <2>7
<1> QED
  BY <1>2, <1>3

\* The calls of a connection watcher keep the registrations right.
LEMMA ConnCallRegisters ==
  ASSUME NetInv, NetInv', CoreInv, KnownBackend, NEW k \in Conns, ConnCall(k),
         UNCHANGED addOnVars
  PROVE  Only(k) /\ Registers /\ Mentions(k)
<1> USE DEF connectVars, connVars, watcherVars, attachedVars, loopVars
<1>1. /\ k \in Watchers \ Timers /\ k \notin Connects /\ k \notin Accepts
      /\ source[k] \in Shapes(k)
      /\ fd[k] # NoFd => k \in created \ closed /\ source[k].fd = fd[k]
      /\ k \in created => /\ source[k].id = 0 /\ source[k].fd \in Fds /\ source[k].flt = Filter("read")
                          /\ k \in closed \/ fd[k] # NoFd
      /\ k \in attached => k \in created /\ (k \in closed => k \in restarted)
      /\ k \in write_attached => k \in created /\ backend = "kqueue"
      /\ k \in closed => k \in created
      /\ DOMAIN source = Watchers /\ DOMAIN starts = Connects
      /\ fd \in [Watchers -> Fds \cup {NoFd}]
      /\ k \in created => source[k] \in Srcs /\ (k \in write_attached => WriteSource(k) \in Srcs)
  BY ConnBefore
<1>2. CASE create(k)
  <2>1. PICK f \in streams : /\ fd' = [fd EXCEPT ![k] = f]
                             /\ source' = [source EXCEPT ![k] = Source(k, 0, f, Filter("read"))]
    BY <1>2 DEF create
  <2>2. /\ created' = created \cup {k} /\ k \notin created
        /\ UNCHANGED <<reg, pending_ops, loopVars, events, attachedVars, starts, closed, restarted>>
    BY <1>2 DEF create
  <2>3. Only(k)
    BY <1>1, <2>1, <2>2 DEF Only
  <2>4. f \in Fds /\ f # NoFd /\ Filter("read") \in {"any", "read", "write"}
    BY CoreAssumption DEF NetInv, OwnersOK, Filter
  <2>5. /\ source'[k] \in Shapes(k) /\ source'[k].fd = f /\ source'[k].flt = Filter("read")
        /\ source'[k].id = 0 /\ fd'[k] = f
    BY <1>1, <2>1, <2>4 DEF Source, Shapes
  <2>6. Acts(k)
    BY <1>1, <2>2, <2>3, <2>4, <2>5, ConnActs
  <2>7. Own(k)' = Own(k)
    BY <1>1, <2>2 DEF Own
  <2> QED
    BY <2>2, <2>3, <2>6, <2>7, QuietStep
<1>3. CASE startConnection(k)
  <2>1. /\ k \in created \ attached /\ attached' = attached \cup {k}
        /\ reg' = Applied(reg, <<addSource(source[k])>>)
        /\ pending_ops' = Deferred(<<addSource(source[k])>>)
        /\ restarted' = restarted \cup ({k} \cap closed)
        /\ UNCHANGED <<sock, loopVars, events, fd, source, write_attached, starts, created, closed>>
    BY <1>3 DEF startConnection, attach, attachSource
  <2>2. Only(k)
    BY <1>1, <2>1 DEF Only
  <2>3. Acts(k)
    BY <1>1, <2>1, <2>2, ConnActs
  <2>4. Own(k)' = Own(k) \cup {source[k]} /\ source[k] \notin Own(k) /\ source[k].w = k
    BY <2>1, WriteSourceFacts DEF Own, WriteSource, Source
  <2>5. Open' = Open /\ Requested(reg', pending_ops', <<addSource(source[k])>>)
    BY <2>1 DEF Open, Requested
  <2>6. Registers /\ Mentions(k)
    BY <1>1, <2>1, <2>3, <2>4, <2>5, AttachStep DEF Mentions
  <2> QED
    BY <2>2, <2>6
<1>4. CASE stopConnection(k)
  <2>1. /\ detach(k) /\ k \in attached
        /\ attached' = attached \ {k} /\ write_attached' = write_attached \ {k}
        /\ UNCHANGED <<sock, loopVars, events, fd, source, starts, created, closed, restarted>>
    BY <1>4 DEF stopConnection, detach
  <2>2. Only(k)
    BY <1>1, <2>1 DEF Only
  <2>3. Acts(k) /\ Open' = Open
    BY <1>1, <2>1, <2>2, ConnActs DEF Open
  <2> QED
    BY <2>1, <2>2, <2>3, DetachStep
<1>5. CASE trySendBlocks(k)
  <2>1. k \in created /\ armWritable(k)
    BY <1>1, <1>5 DEF trySendBlocks
  <2>2. Open' = Open
    <3>1. SameOpen
      BY <1>5, FlagChanges DEF trySendBlocks, NetInv, OwnersOK
    <3> QED
      BY <3>1 DEF SameOpen
  <2>3. UNCHANGED <<loopVars, fd, source, attached, starts, created, closed, restarted>>
    BY <1>5 DEF trySendBlocks
  <2> QED
    BY <2>1, <2>2, <2>3, ArmStep
<1>6. CASE trySendFails(k) \/ shutdownWrite(k)
  <2>1. UNCHANGED <<reg, pending_ops, loopVars, watcherVars, starts, created, closed, restarted>>
    BY <1>6 DEF trySendFails, shutdownWrite
  <2> QED
    BY <2>1, ConnQuiet
<1>7. CASE close(k)
  <2>1. /\ k \in created /\ closeNow(k, stack)
        /\ UNCHANGED <<loopVars, events, source, starts, created, restarted>>
    BY <1>7 DEF close
  <2> QED
    BY <2>1, CloseNowStep
<1>8. CASE destroyConnection(k)
  <2>1. /\ k \in created /\ (k \in write_attached => k \in attached) /\ StopAndClose(k)
        /\ created' = created \ {k} /\ closed' = closed \ {k}
        /\ events' = [events EXCEPT ![k] = Readable]
        /\ source' = [source EXCEPT ![k] = Source(k, 0, NoFd, "any")]
        /\ UNCHANGED <<loopVars, starts, restarted>>
    BY <1>8 DEF destroyConnection
  <2>2. /\ attached' = attached \ {k} /\ write_attached' = write_attached \ {k}
        /\ fd' = [fd EXCEPT ![k] = NoFd]
    BY <2>1 DEF StopAndClose, DetachAndClose, closeFd
  <2>3. Only(k)
    BY <1>1, <2>1, <2>2 DEF Only
  <2>4. source'[k] \in Shapes(k)
    BY <1>1, <2>1 DEF Source, Shapes
  <2>5. Acts(k)
    BY <1>1, <2>1, <2>2, <2>3, <2>4, ConnActs
  <2>6. events' \in Wants /\ \A v \in Watchers \ {k} : events'[v] = events[v]
    BY <2>1, ReadableWanted DEF CoreInv, RegInv, Wants
  <2>7. CASE k \in attached
    <3>1. DetachAndClose(k)
      BY <2>1, <2>7 DEF StopAndClose
    <3> QED
      BY <2>3, <2>5, <2>6, <2>7, <3>1, DetachAndCloseStep
  <2>8. CASE k \notin attached
    <3>1. closeFd(k, reg) /\ UNCHANGED <<pending_ops, attachedVars>> /\ k \notin write_attached
      BY <2>1, <2>8 DEF StopAndClose, DetachAndClose
    <3> QED
      BY <2>3, <2>5, <2>6, <2>8, <3>1, CloseUnattachedStep
  <2> QED
    BY <2>7, <2>8
<1> QED
  BY <1>2, <1>3, <1>4, <1>5, <1>6, <1>7, <1>8 DEF ConnCall

\* What the frame on top of the stack holds.
LEMMA HeadFrame ==
  ASSUME NetInv, StackInv, stack # <<>>
  PROVE  /\ GoodFrame(Head(stack))
         /\ Head(stack).w \in Conns /\ Head(stack).at # "ready" => Head(stack).w \in created
<1>1. 1 \in 1 .. Len(stack) /\ Head(stack) = stack[1]
  BY Popped DEF NetInv, CallersOK
<1>2. Head(stack) \in Frames(stack)
  BY <1>1 DEF Frames
<1> QED
  BY <1>1, <1>2 DEF StackInv, Sane, NetInv, FramesOK

\* The steps of the callbacks that the core calls.
Handles(k) ==
  \/ backend # "kqueue" /\ onReady(k)
  \/ backend = "kqueue" /\ (onReadReady(k) \/ onWriteEof(k) \/ onWriteReady(k))
  \/ ConnStep(k)

\* The handlers of a connection watcher keep the registrations right.
LEMMA ConnStepRegisters ==
  ASSUME NetInv, NetInv', CoreInv, StackInv, KnownBackend, NEW k \in Conns, Handles(k),
         UNCHANGED addOnVars
  PROVE  Only(k) /\ Registers /\ Mentions(k)
<1> USE DEF connectVars, connVars, watcherVars, attachedVars, loopVars
<1>1. stack # <<>> => /\ GoodFrame(Head(stack))
                      /\ Head(stack).w = k /\ Head(stack).at # "ready" => k \in created
  BY HeadFrame
<1>2. fd[k] # NoFd => k \in created \ closed
  BY ConnBefore
<1>3. CASE onReady(k) \/ onReadReady(k) \/ RecvDone(k) \/ RecvData(k) \/ RecvEnd(k) \/ RecvFails(k)
  <2>1. UNCHANGED <<reg, pending_ops, loopVars, watcherVars, starts, created, closed, restarted>>
    BY <1>3 DEF onReady, onReadReady, RecvDone, RecvData, RecvEnd, RecvFails
  <2> QED
    BY <2>1, ConnQuiet
<1>4. CASE AfterClosed(k) \/ CloseStep(k)
  <2>1. /\ k \in created /\ closeNow(k, Rest)
        /\ UNCHANGED <<loopVars, events, source, starts, created, restarted>>
    BY <1>1, <1>4 DEF AfterClosed, CloseStep, At
  <2> QED
    BY <2>1, CloseNowStep
<1>5. CASE onWriteEof(k)
  <2>1. /\ k \in created /\ closeNow(k, Rest)
        /\ UNCHANGED <<loopVars, events, source, starts, created, restarted>>
    BY <1>2, <1>5 DEF onWriteEof
  <2> QED
    BY <2>1, CloseNowStep
<1>6. CASE AfterRead(k)
  <2>1. k \in created /\ (backend = "kqueue" => "OUT" \notin Head(stack).ev)
    BY <1>1, <1>6 DEF AfterRead, At, GoodFrame
  <2>2. CASE "OUT" \in Head(stack).ev /\ disarmWritable(k)
    <3>1. UNCHANGED <<loopVars, fd, source, attached, starts, created, closed, restarted, sock>>
      BY <1>6 DEF AfterRead
    <3> QED
      BY <2>1, <2>2, <3>1, DisarmStep DEF Open
  <2>3. CASE UNCHANGED <<events, reg, pending_ops, write_attached>>
    <3>1. UNCHANGED <<reg, pending_ops, loopVars, watcherVars, starts, created, closed, restarted>>
      BY <1>6, <2>3 DEF AfterRead
    <3> QED
      BY <3>1, ConnQuiet
  <2> QED
    BY <1>6, <2>2, <2>3 DEF AfterRead
<1>7. CASE onWriteReady(k)
  <2>1. CASE fd[k] # NoFd /\ disarmWritable(k)
    <3>1. UNCHANGED <<loopVars, fd, source, attached, starts, created, closed, restarted, sock>>
      BY <1>7 DEF onWriteReady
    <3> QED
      BY <1>2, <2>1, <3>1, DisarmStep DEF Open
  <2>2. CASE UNCHANGED <<events, reg, pending_ops, write_attached>>
    <3>1. UNCHANGED <<reg, pending_ops, loopVars, watcherVars, starts, created, closed, restarted>>
      BY <1>7, <2>2 DEF onWriteReady
    <3> QED
      BY <3>1, ConnQuiet
  <2> QED
    BY <1>7, <2>1, <2>2 DEF onWriteReady
<1> QED
  BY <1>3, <1>4, <1>5, <1>6, <1>7 DEF Handles, ConnStep

\* The frames of a connection watcher are its own.
LEMMA ConnFrames ==
  ASSUME NEW k
  PROVE  /\ \A l \in {"on_recv", "on_send_ready", "on_close", "on_error", "close", "after"} :
              Mine(Calls(l, k), k)
         /\ \A n : Mine(Frame("recv", k, n, {}), k)
         /\ backend # "kqueue" => \A ev : Mine(Frame("after", k, 0, ev), k)
<1>1. \A l \in {"on_recv", "on_send_ready", "on_close", "on_error", "close", "after"} : Mine(Calls(l, k), k)
  BY CallsMine
<1>2. \A n : Mine(Frame("recv", k, n, {}), k)
  BY DEF Mine, Frame, GoodFrame
<1>3. backend # "kqueue" => \A ev : Mine(Frame("after", k, 0, ev), k)
  BY DEF Mine, Frame, GoodFrame
<1> QED
  BY <1>1, <1>2, <1>3

\* The steps of a connection watcher move its own frames only.
LEMMA ConnStack ==
  ASSUME NetInv, NEW k \in Conns, ConnCall(k) \/ Handles(k)
  PROVE  Stays(stack, stack', k) /\ LeavesAlone(k)
<1>1. IsStack(stack) /\ k \in Watchers /\ OwnersOK
  BY ConnAssumption DEF NetInv, CallersOK
<1>2. Stays(stack, stack', k)
  <2>1. CASE ConnCall(k)
    <3>1. \/ stack' = stack
          \/ \E f : Mine(f, k) /\ stack' = <<f>> \o stack
          \/ \E f, g : Mine(f, k) /\ Mine(g, k) /\ stack' = <<f, g>> \o stack
      <4>1. /\ Mine(Calls("on_error", k), k) /\ Mine(Calls("close", k), k)
            /\ Mine(Calls("on_close", k), k)
        BY ConnFrames
      <4> QED
        BY <2>1, <4>1, Zenon DEF ConnCall, create, startConnection, stopConnection, trySendBlocks,
           trySendFails, shutdownWrite, close, closeNow, destroyConnection
    <3> QED
      BY <1>1, <3>1, StaysForms, Zenon
  <2>2. CASE Handles(k)
    <3>1. stack # <<>> /\ Head(stack).w = k
      BY <2>2 DEF Handles, ConnStep, onReady, onReadReady, onWriteEof, onWriteReady, RecvDone, RecvData,
         RecvEnd, RecvFails, AfterClosed, AfterRead, CloseStep, At
    <3>2. \/ stack' = Rest
          \/ \E f : Mine(f, k) /\ stack' = <<f>> \o Rest
          \/ \E f, g : Mine(f, k) /\ Mine(g, k) /\ stack' = <<f, g>> \o Rest
      <4>1. /\ Mine(Calls("on_error", k), k) /\ Mine(Calls("close", k), k)
            /\ Mine(Calls("on_close", k), k) /\ Mine(Calls("on_recv", k), k)
            /\ Mine(Calls("on_send_ready", k), k) /\ Mine(Calls("after", k), k)
            /\ \A n : Mine(Frame("recv", k, n, {}), k)
            /\ backend # "kqueue" => \A ev : Mine(Frame("after", k, 0, ev), k)
        BY ConnFrames
      <4>2. CASE backend # "kqueue" /\ onReady(k)
        BY <4>1, <4>2, Zenon DEF onReady
      <4>3. CASE onReadReady(k)
        BY <4>1, <4>3, Zenon DEF onReadReady
      <4>4. CASE onWriteEof(k) \/ AfterClosed(k) \/ CloseStep(k)
        BY <4>1, <4>4, Zenon DEF onWriteEof, AfterClosed, CloseStep, closeNow
      <4>5. CASE onWriteReady(k) \/ AfterRead(k)
        BY <4>1, <4>5, Zenon DEF onWriteReady, AfterRead
      <4>6. CASE RecvDone(k) \/ RecvData(k) \/ RecvEnd(k) \/ RecvFails(k)
        BY <4>1, <4>6, Zenon DEF RecvDone, RecvData, RecvEnd, RecvFails
      <4> QED
        BY <2>2, <4>2, <4>3, <4>4, <4>5, <4>6 DEF Handles, ConnStep
    <3> QED
      BY <1>1, <3>1, <3>2, StaysForms, Zenon DEF Rest
  <2> QED
    BY <2>1, <2>2
<1>3. LeavesAlone(k)
  <2>1. \/ UNCHANGED sock
        \/ \E x : sock' = [sock EXCEPT ![fd[k]] = x]
        \/ sock' = Shut({fd[k]})
    <3>1. ASSUME NEW rest, closeNow(k, rest) PROVE UNCHANGED sock \/ sock' = Shut({fd[k]})
      BY <3>1 DEF closeNow, DetachAndClose, StopAndClose, closeFd
    <3>2. CASE close(k) \/ CloseStep(k) \/ AfterClosed(k) \/ onWriteEof(k)
      BY <3>1, <3>2, Zenon DEF close, CloseStep, AfterClosed, onWriteEof
    <3>3. CASE destroyConnection(k)
      BY <3>3 DEF destroyConnection, DetachAndClose, StopAndClose, closeFd
    <3>4. CASE trySendBlocks(k) \/ shutdownWrite(k) \/ RecvData(k)
      BY <3>4, Zenon DEF trySendBlocks, shutdownWrite, RecvData
    <3>5. CASE \/ create(k) \/ startConnection(k) \/ stopConnection(k) \/ trySendFails(k)
               \/ onReady(k) \/ onReadReady(k) \/ onWriteReady(k) \/ RecvDone(k) \/ RecvEnd(k)
               \/ RecvFails(k) \/ AfterRead(k)
      BY <3>5 DEF create, startConnection, stopConnection, trySendFails, onReady, onReadReady,
         onWriteReady, RecvDone, RecvEnd, RecvFails, AfterRead
    <3> QED
      BY <3>2, <3>3, <3>4, <3>5 DEF ConnCall, Handles, ConnStep
  <2> QED
    BY <1>1, <2>1, ApartSock
<1> QED
  BY <1>2, <1>3

\* A connection watcher keeps the invariant.
LEMMA ConnectionWorks ==
  ASSUME NetInv, NetInv', CoreInv, StackInv, NEW k \in Conns, Connection(k), UNCHANGED addOnVars
  PROVE  CoreInv' /\ StackInv'
<1>1. (ConnCall(k) \/ Handles(k)) /\ KnownBackend
  BY DEF Connection, ConnectionCall, ConnectionStep, EpollConnectionCall, PollConnectionCall,
         KqueueConnectionCall, MacPollConnectionCall, EpollConnectionStep, PollConnectionStep,
         KqueueConnectionStep, MacPollConnectionStep, KnownBackend, Handles
<1>2. k \in Watchers \ Timers /\ k \notin Connects
  BY ConnBefore
<1>3. Only(k) /\ Registers /\ Mentions(k)
  BY <1>1, ConnCallRegisters, ConnStepRegisters
<1>4. Stays(stack, stack', k) /\ LeavesAlone(k)
  BY <1>1, ConnStack
<1> QED
  BY <1>2, <1>3, <1>4, WatcherStep DEF addOnVars, timerVars

(* Timers. *)

\* What is known of a timer watcher before its step.
LEMMA TimerBefore ==
  ASSUME NetInv, CoreInv, NEW t \in Timers
  PROVE  /\ t \in Watchers /\ t \notin Connects /\ t \notin Accepts /\ t \notin Conns
         /\ source[t] \in Shapes(t) /\ source[t].w = t
         /\ fd[t] # NoFd => /\ source[t].fd = fd[t] /\ source[t].flt = "any" /\ source[t] \in Srcs
                            /\ fd[t] \in Open /\ fd[t] \in Fds
         /\ t \in attached => fd[t] # NoFd
         /\ t \in orphans => t \notin attached
         /\ DOMAIN source = Watchers /\ DOMAIN starts = Connects
         /\ fd \in [Watchers -> Fds \cup {NoFd}]
         /\ t \notin write_attached /\ t \notin created /\ Dropped(t) = {source[t]}
<1>1. t \in Watchers /\ t \notin Connects /\ t \notin Accepts /\ t \notin Conns
  BY TimerAssumption, NetworkAssumption
<1>2. t \notin write_attached /\ t \notin created /\ Dropped(t) = {source[t]}
  BY <1>1 DEF NetInv, CallersOK, CoreInv, WatchersOK, Dropped
<1>3. fd[t] # NoFd => source[t] \in Srcs
  BY <1>1, SourcesTyped DEF NetInv, CoreInv, WatchersOK
<1>4. fd[t] # NoFd => fd[t] \in Open /\ fd[t] \in Fds
  BY <1>1 DEF NetInv, OwnersOK, SocketOwnedOnce
<1> QED
  BY <1>1, <1>2, <1>3, <1>4 DEF NetInv, OwnersOK, CoreInv, WatchersOK, WatcherOK, Shapes

\* What its step must leave.
LEMMA TimerActs ==
  ASSUME NetInv, NetInv', CoreInv, KnownBackend, backend # "kqueue", NEW t \in Timers, Only(t),
         source'[t] \in Shapes(t),
         fd'[t] # NoFd => source'[t].fd = fd'[t] /\ source'[t].flt = "any",
         t \in attached' => fd'[t] # NoFd /\ t \notin orphans',
         write_attached' \subseteq write_attached
  PROVE  /\ Acts(t)
         /\ Own(t) = IF t \in attached THEN {source[t]} ELSE {}
         /\ Own(t)' = IF t \in attached' THEN {source'[t]} ELSE {}
<1>1. t \in Watchers /\ t \notin Connects /\ t \notin Accepts /\ t \notin Conns /\ t \notin write_attached
  BY TimerBefore
<1>2. t \notin created' /\ t \notin write_attached'
  BY <1>1 DEF NetInv, CallersOK
<1>3. backend' = backend
  BY DEF Only
<1>4. WatcherOK(t)'
  BY <1>1, <1>2, <1>3 DEF WatcherOK, Shapes
<1> QED
  BY <1>1, <1>2, <1>4 DEF Acts, NetInv, Own

\* The timer whose source the core has.
LEMMA TimersHeldStep ==
  ASSUME TimersHeld, NEW t \in Timers, Only(t),
         \A s \in Mentioned(reg', pending_ops') :
           IF s.w = t THEN s = source'[t] /\ fd'[t] # NoFd ELSE s \in Mentioned(reg, pending_ops)
  PROVE  TimersHeld'
<1> SUFFICES ASSUME NEW s \in Mentioned(reg', pending_ops'), s.w \in Timers
             PROVE  s = source'[s.w] /\ fd'[s.w] # NoFd
  BY DEF TimersHeld, Mentioned
<1>1. CASE s.w = t
  BY <1>1
<1>2. CASE s.w # t
  <2>1. s \in Mentioned(reg, pending_ops) /\ s.w \in Watchers \ {t}
    BY <1>2, TimerAssumption
  <2> QED
    BY <2>1 DEF TimersHeld, Only
<1> QED
  BY <1>1, <1>2

\* The step of a timer watcher, and the frames and expirations of the others.
LEMMA TimerStackStep ==
  ASSUME StackInv, NEW t \in Timers, Only(t), Stays(stack, stack', t), LeavesAlone(t),
         \A u \in Timers \ {t} : owed'[u] = owed[u], DOMAIN owed' = Timers, TimerInv(t)'
  PROVE  StackInv'
<1>1. UNCHANGED <<backend, in_dispatch, snapshot>>
  BY DEF Only
<1>2. Sane(stack)'
  <2>1. Sane(stack')
    BY DEF Stays, StackInv
  <2> QED
    BY <1>1, <2>1, SaneKept DEF Sane, Bottom
<1>3. ASSUME NEW v \in Connects PROVE StartInv(v)'
  <2>1. v # t
    BY TimerAssumption, ConnectAssumption, NetworkAssumption
  <2>2. v \in attached' => v \in attached
    BY <2>1 DEF Only
  <2> QED
    BY <2>1, <2>2, StartOther DEF StackInv
<1>4. ASSUME NEW u \in Timers PROVE TimerInv(u)'
  <2>1. CASE u = t
    BY <2>1
  <2>2. CASE u # t
    <3>1. u \in Watchers \ {t}
      BY <2>2, TimerAssumption
    <3>2. /\ source'[u] = source[u] /\ fd'[u] = fd[u] /\ owed'[u] = owed[u]
          /\ fd[u] # NoFd => sock'[fd[u]] = sock[fd[u]]
      BY <2>2, <3>1 DEF Only, LeavesAlone
    <3> QED
      BY <1>1, <2>2, <3>2, TimerOther DEF StackInv
  <2> QED
    BY <2>1, <2>2
<1> QED
  BY <1>2, <1>3, <1>4 DEF StackInv

\* The frames of a timer.
LEMMA TimerIf ==
  ASSUME NEW t, NEW F, Has(stack', TimerTags(t), F),
         F # {} => in_dispatch' /\ source'[t] \in snapshot',
         fd'[t] # NoFd => sock'[fd'[t]].st = "timer" /\ owed'[t] = sock'[fd'[t]].rx + Unreported(F)
  PROVE  TimerInv(t)'
<1> DEFINE u == Unreported(F)
<1>1. Unreported(F)' = u
  BY DEF Unreported, u
<1>2. Has(stack, TimerTags(t), F)'
  BY Zenon DEF Has, Tagged, Tag, TimerTags
<1>3. /\ F # {} => in_dispatch' /\ source'[t] \in snapshot'
      /\ fd'[t] # NoFd => sock'[fd'[t]].st = "timer" /\ owed'[t] = sock'[fd'[t]].rx + Unreported(F)'
  BY <1>1, Zenon
<1> QED
  BY <1>2, <1>3, Zenon DEF TimerInv

\* The unreported expirations of one frame.
LEMMA UnreportedFacts ==
  /\ Unreported({}) = 0
  /\ \A f : Unreported({f}) = IF f.at = "expire" THEN f.n ELSE 0
BY DEF Unreported

\* A timer with frames is held by the dispatch under way.
LEMMA FramesHeld ==
  ASSUME CoreInv, NEW t \in Timers, in_dispatch, source[t] \in snapshot, source[t].w = t
  PROVE  fd[t] # NoFd
<1>1. source[t] \in Mentioned(reg, pending_ops)
  BY DEF CoreInv, RegInv, RegOK, Mentioned
<1> QED
  BY <1>1 DEF CoreInv, TimersHeld

\* A step that concerns neither the core nor the source of t.
LEMMA TimerQuiet ==
  ASSUME NetInv, NetInv', CoreInv, KnownBackend, backend # "kqueue", NEW t \in Timers,
         UNCHANGED <<reg, pending_ops, backend, in_dispatch, snapshot, watcherVars, connectVars, connVars>>,
         orphans' \ {t} = orphans \ {t}, t \in orphans' => t \notin attached
  PROVE  Only(t) /\ Registers /\ TimersHeld'
<1> USE DEF watcherVars, attachedVars, connectVars, connVars
<1>1. Only(t)
  BY TimerBefore DEF Only
<1>2. Acts(t) /\ Own(t)' = Own(t)
  BY <1>1, TimerBefore, TimerActs
<1>3. Registers
  BY <1>2, QuietStep
<1>4. TimersHeld'
  BY <1>1, TimersHeldStep DEF CoreInv, TimersHeld, Mentioned
<1> QED
  BY <1>1, <1>3, <1>4

\* A detached timer keeps its fd.
LEMMA TimerDetached ==
  ASSUME NetInv, NetInv', CoreInv, KnownBackend, backend # "kqueue", NEW t \in Timers, detach(t),
         UNCHANGED <<backend, in_dispatch, snapshot, events, fd, source, sock, connectVars, connVars>>,
         orphans' \ {t} = orphans \ {t}
  PROVE  Only(t) /\ Registers /\ TimersHeld'
<1> USE DEF connectVars, connVars
<1>1. /\ t \in attached /\ attached' = attached \ {t} /\ write_attached' = write_attached \ {t}
  BY DEF detach
<1>2. Only(t)
  BY <1>1, TimerBefore DEF Only
<1>3. Acts(t)
  BY <1>1, <1>2, TimerBefore, TimerActs
<1>4. Open' = Open
  BY DEF Open
<1>5. Registers /\ Drops(t)
  BY <1>1, <1>3, <1>4, DetachStep
<1>6. \A s \in Mentioned(reg', pending_ops') : s \in Mentioned(reg, pending_ops) \/ s = source[t]
  BY <1>5, TimerBefore DEF Drops
<1>7. source'[t] = source[t] /\ fd'[t] = fd[t] /\ fd[t] # NoFd
  BY <1>1, TimerBefore
<1>8. TimersHeld'
  <2>1. ASSUME NEW s \in Mentioned(reg', pending_ops')
        PROVE  IF s.w = t THEN s = source'[t] /\ fd'[t] # NoFd ELSE s \in Mentioned(reg, pending_ops)
    BY <1>6, <1>7, <2>1, TimerBefore DEF CoreInv, TimersHeld
  <2> QED
    BY <1>2, <2>1, TimersHeldStep DEF CoreInv
<1> QED
  BY <1>2, <1>5, <1>8

\* A new timer has no source in the core yet.
LEMMA CreateTimerRegisters ==
  ASSUME NetInv, NetInv', CoreInv, KnownBackend, backend # "kqueue", NEW t \in Timers, createTimer(t),
         UNCHANGED <<connectVars, connVars>>
  PROVE  Only(t) /\ Registers /\ TimersHeld'
<1> USE DEF attachedVars, loopVars, connectVars, connVars
<1>1. PICK f \in NewFd : /\ fd' = [fd EXCEPT ![t] = f]
                         /\ source' = [source EXCEPT ![t] = Source(t, 0, f, "any")]
  BY DEF createTimer
<1>2. /\ UNCHANGED <<reg, pending_ops, loopVars, events, attachedVars>>
      /\ fd[t] = NoFd /\ t \notin attached
  BY TimerBefore DEF createTimer
<1>3. Only(t)
  BY <1>1, <1>2, TimerBefore DEF Only
<1>4. source'[t] \in Shapes(t) /\ source'[t].fd = f /\ source'[t].flt = "any" /\ fd'[t] = f
  <2>1. f \in Fds
    BY DEF NewFd
  <2> QED
    BY <1>1, <2>1, TimerBefore DEF Source, Shapes
<1>5. Acts(t) /\ Own(t)' = Own(t)
  BY <1>2, <1>3, <1>4, TimerBefore, TimerActs
<1>6. Registers
  BY <1>2, <1>5, QuietStep
<1>7. TimersHeld'
  BY <1>2, <1>3, TimersHeldStep DEF CoreInv, TimersHeld, Mentioned
<1> QED
  BY <1>3, <1>6, <1>7

\* startTimer() keeps the registrations right.
LEMMA StartTimerRegisters ==
  ASSUME NetInv, NetInv', CoreInv, KnownBackend, backend # "kqueue", NEW t \in Timers, startTimer(t),
         UNCHANGED <<connectVars, connVars>>
  PROVE  Only(t) /\ Registers /\ TimersHeld'
<1> USE DEF loopVars, connectVars, connVars
<1>1. /\ fd[t] # NoFd /\ t \notin orphans /\ t \notin attached /\ attached' = attached \cup {t}
      /\ reg' = Applied(reg, <<addSource(source[t])>>)
      /\ pending_ops' = Deferred(<<addSource(source[t])>>)
      /\ UNCHANGED <<sock, loopVars, events, fd, source, write_attached>>
  BY DEF startTimer, attach, attachSource, Alive
<1>2. Only(t)
  BY <1>1, TimerBefore DEF Only
<1>3. Acts(t) /\ Own(t)' = {source[t]} /\ Own(t) = {}
  BY <1>1, <1>2, TimerBefore, TimerActs
<1>4. source[t] \in Srcs /\ source[t].w = t
  BY <1>1, TimerBefore
<1>5. Open' = Open /\ Requested(reg', pending_ops', <<addSource(source[t])>>)
  BY <1>1 DEF Open, Requested
<1>6. /\ Registers
      /\ \A u \in Mentioned(reg', pending_ops') : u \in Mentioned(reg, pending_ops) \/ u = source[t]
  BY <1>1, <1>3, <1>4, <1>5, AttachStep
<1>7. TimersHeld'
  <2>1. ASSUME NEW s \in Mentioned(reg', pending_ops')
        PROVE  IF s.w = t THEN s = source'[t] /\ fd'[t] # NoFd ELSE s \in Mentioned(reg, pending_ops)
    BY <1>1, <1>4, <1>6, <2>1 DEF CoreInv, TimersHeld
  <2> QED
    BY <1>2, <2>1, TimersHeldStep DEF CoreInv
<1> QED
  BY <1>2, <1>6, <1>7

\* The destructor does, whether it closes the fd or leaves it to the source.
LEMMA DestroyTimerRegisters ==
  ASSUME NetInv, NetInv', CoreInv, KnownBackend, backend # "kqueue", NEW t \in Timers, destroyTimer(t),
         UNCHANGED <<connectVars, connVars>>
  PROVE  Only(t) /\ Registers /\ TimersHeld'
<1> USE DEF attachedVars, connectVars, connVars
<1>1. UNCHANGED <<backend, in_dispatch, snapshot, events, source>> /\ fd[t] # NoFd /\ t \notin orphans
  BY DEF destroyTimer, Alive
<1>2. CASE Held(t) /\ UNCHANGED <<sock, fd>> /\ orphans' = orphans \cup {t}
  <2>1. CASE detach(t)
    BY <1>1, <1>2, <2>1, TimerDetached
  <2>2. CASE t \notin attached /\ UNCHANGED <<reg, pending_ops, attachedVars>>
    <3>1. UNCHANGED watcherVars
      BY <1>1, <1>2, <2>2 DEF watcherVars
    <3> QED
      BY <1>1, <1>2, <2>2, <3>1, TimerQuiet
  <2> QED
    BY <1>2, <2>1, <2>2 DEF destroyTimer
<1>3. CASE ~Held(t) /\ StopAndClose(t) /\ UNCHANGED orphans
  <2>1. /\ attached' = attached \ {t} /\ write_attached' = write_attached \ {t}
        /\ fd' = [fd EXCEPT ![t] = NoFd]
    BY <1>3, TimerBefore DEF StopAndClose, DetachAndClose, closeFd
  <2>2. Only(t)
    BY <1>1, <1>3, <2>1, TimerBefore DEF Only
  <2>3. Acts(t) /\ Own(t)' = {}
    BY <1>1, <2>1, <2>2, TimerBefore, TimerActs
  <2>4. events' \in Wants /\ \A v \in Watchers \ {t} : events'[v] = events[v]
    BY <1>1 DEF CoreInv, RegInv
  <2>5. Registers /\ Drops(t)
    <3>1. CASE t \in attached
      <4>1. DetachAndClose(t)
        BY <1>3, <3>1 DEF StopAndClose
      <4> QED
        BY <2>3, <2>4, <3>1, <4>1, DetachAndCloseStep
    <3>2. CASE t \notin attached
      <4>1. closeFd(t, reg) /\ UNCHANGED <<pending_ops, attachedVars>>
        BY <1>3, <3>2 DEF StopAndClose, DetachAndClose
      <4> QED
        BY <1>1, <2>3, <2>4, <3>2, <4>1, TimerBefore, CloseUnattachedStep
    <3> QED
      BY <3>1, <3>2
  <2>6. ASSUME NEW s \in Mentioned(reg', pending_ops') PROVE s.w # t
    <3>1. CASE in_dispatch
      <4>1. t \notin attached
        BY <1>3, <3>1 DEF Held
      <4>2. closeFd(t, reg) /\ pending_ops' = pending_ops
        BY <1>3, <4>1 DEF StopAndClose, DetachAndClose
      <4>3. Forgotten(reg, {fd[t]}).armed = reg.armed
        BY ForgetFacts DEF CoreInv, RegInv
      <4>4. s \in Mentioned(reg, pending_ops)
        BY <4>2, <4>3 DEF closeFd, Mentioned
      <4>5. snapshot = reg.armed
        BY <3>1 DEF CoreInv, RegInv, RegOK
      <4>6. source[t] \notin Mentioned(reg, pending_ops)
        BY <1>3, <4>5 DEF Held, Mentioned
      <4> QED
        BY <4>4, <4>6 DEF CoreInv, TimersHeld
    <3>2. CASE ~in_dispatch
      <4>1. pending_ops' = <<>>
        BY <1>1, <2>5, <3>2 DEF Registers, RegInv
      <4>2. Mentioned(reg', pending_ops') = reg'.armed
        BY <4>1 DEF Mentioned
      <4>3. Live(reg'.armed, pending_ops', Len(pending_ops')) = reg'.armed
        BY <4>1, LiveNone
      <4>4. reg'.armed = Want'
        BY <2>5, <4>3 DEF Registers, RegInv
      <4>5. WantOwned'
        <5>1. WatchersOK'
          BY <2>5 DEF Registers
        <5> QED
          BY <5>1, WantSplit, PTL
      <4>6. s \in Own(s.w)'
        BY <4>2, <4>4, <4>5 DEF WantOwned
      <4> QED
        BY <2>3, <4>6
    <3> QED
      BY <3>1, <3>2
  <2>7. TimersHeld'
    <3>1. \A s \in Mentioned(reg', pending_ops') : s \in Mentioned(reg, pending_ops)
      BY <2>5, <2>6, TimerBefore DEF Drops
    <3> QED
      BY <2>2, <2>6, <3>1, TimersHeldStep DEF CoreInv
  <2> QED
    BY <2>2, <2>5, <2>7
<1> QED
  BY <1>2, <1>3 DEF destroyTimer

\* The steps of a timer watcher keep the registrations right.
LEMMA TimerRegisters ==
  ASSUME NetInv, NetInv', CoreInv, KnownBackend, backend # "kqueue", NEW t \in Timers,
         TimerCall(t) \/ TimerStep(t), UNCHANGED <<connectVars, connVars>>
  PROVE  Only(t) /\ Registers /\ TimersHeld'
<1>1. CASE stopTimer(t)
  <2>1. /\ detach(t)
        /\ UNCHANGED <<backend, in_dispatch, snapshot, events, fd, source, sock, connectVars, connVars, orphans>>
    BY <1>1 DEF stopTimer, loopVars
  <2> QED
    BY <2>1, TimerDetached
<1>2. CASE setItimerspec(t) \/ clearItimerspec(t) \/ TimerStep(t)
  <2>1. UNCHANGED <<reg, pending_ops, backend, in_dispatch, snapshot, watcherVars, connectVars, connVars, orphans>>
    BY <1>2 DEF setItimerspec, clearItimerspec, Settime, TimerStep, onReadyTimer, ReadExpirations,
       Drained, CallBack, loopVars
  <2> QED
    BY <2>1, TimerBefore, TimerQuiet
<1> QED
  BY <1>1, <1>2, CreateTimerRegisters, StartTimerRegisters, DestroyTimerRegisters DEF TimerCall

\* The frames of a timer are its own.
LEMMA FramesOfTimer ==
  ASSUME NEW t
  PROVE  /\ \A l \in {"drain", "on_timer"} : Mine(Calls(l, t), t) /\ Tag(Calls(l, t)) = <<l, t>>
         /\ \A n \in Nat \ {0} : Mine(Frame("expire", t, n, {}), t)
         /\ \A n : Tag(Frame("expire", t, n, {})) = <<"expire", t>>
         /\ <<"drain", t>> \in TimerTags(t) /\ <<"expire", t>> \in TimerTags(t)
         /\ <<"ready", t>> \in TimerTags(t) /\ <<"on_timer", t>> \notin TimerTags(t)
<1>1. \A l \in {"drain", "on_timer"} : Mine(Calls(l, t), t) /\ Tag(Calls(l, t)) = <<l, t>>
  BY CallsMine
<1>2. \A n \in Nat \ {0} : Mine(Frame("expire", t, n, {}), t)
  BY DEF Mine, Frame, GoodFrame
<1>3. \A n : Tag(Frame("expire", t, n, {})) = <<"expire", t>>
  BY DEF Tag, Frame
<1>4. /\ <<"drain", t>> \in TimerTags(t) /\ <<"expire", t>> \in TimerTags(t)
      /\ <<"ready", t>> \in TimerTags(t) /\ <<"on_timer", t>> \notin TimerTags(t)
  BY DEF TimerTags
<1> QED
  BY <1>1, <1>2, <1>3, <1>4

\* What they have still to report.
LEMMA ReportsOfTimer ==
  ASSUME NEW t
  PROVE  /\ \A n : Unreported({Frame("expire", t, n, {})}) = n
         /\ Unreported({Calls("drain", t)}) = 0 /\ Unreported({}) = 0
<1>1. ASSUME NEW n PROVE Unreported({Frame("expire", t, n, {})}) = n
  <2> DEFINE f == Frame("expire", t, n, {})
  <2>1. f.at = "expire" /\ f.n = n
    BY DEF Frame
  <2> HIDE DEF f
  <2>2. Unreported({f}) = n
    BY <2>1, UnreportedFacts
  <2> QED
    BY <2>2 DEF f
<1>2. Unreported({Calls("drain", t)}) = 0
  <2> DEFINE f == Calls("drain", t)
  <2>1. f.at # "expire"
    BY DEF Calls, Frame
  <2> HIDE DEF f
  <2>2. Unreported({f}) = 0
    BY <2>1, UnreportedFacts
  <2> QED
    BY <2>2 DEF f
<1>3. Unreported({}) = 0
  BY UnreportedFacts
<1> QED
  BY <1>1, <1>2, <1>3, Zenon

\* A frame's unreported expirations are a number.
LEMMA UnreportedTyped ==
  ASSUME NEW s, Sane(s), NEW A, NEW F, Has(s, A, F)
  PROVE  Unreported(F) \in Nat
<1>1. CASE \E f \in F : f.at = "expire"
  <2> DEFINE g == CHOOSE f \in F : f.at = "expire"
  <2>1. g \in F /\ g.at = "expire"
    BY <1>1
  <2> HIDE DEF g
  <2>2. PICK i \in 1 .. Len(s) : g = s[i]
    BY <2>1 DEF Has, Tagged
  <2>3. g.n \in Nat
    BY <2>1, <2>2 DEF Sane, GoodFrame
  <2> QED
    BY <1>1, <2>3 DEF Unreported, g
<1>2. CASE ~ \E f \in F : f.at = "expire"
  BY <1>2 DEF Unreported
<1> QED
  BY <1>1, <1>2

\* What the steps of a timer t leave behind.
TimerLeaves(t) ==
  /\ Stays(stack, stack', t) /\ LeavesAlone(t)
  /\ \A u \in Timers \ {t} : owed'[u] = owed[u]
  /\ DOMAIN owed' = Timers
  /\ TimerInv(t)'

\* t's own part before the step: the frames F, the expirations r in the kernel.
TimerHas(t, F) ==
  /\ Has(stack, TimerTags(t), F)
  /\ F # {} => in_dispatch /\ source[t] \in snapshot /\ fd[t] # NoFd
  /\ Unreported(F) \in Nat
  /\ fd[t] # NoFd => /\ sock[fd[t]].st = "timer" /\ sock[fd[t]] \in Sockets
                     /\ sock[fd[t]].rx \in Nat /\ owed[t] = sock[fd[t]].rx + Unreported(F)

\* What is known of its frames and expirations before its step.
LEMMA TimerHad ==
  ASSUME NetInv, CoreInv, StackInv, NEW t \in Timers
  PROVE  /\ \E F : TimerHas(t, F)
         /\ IsStack(stack) /\ Sane(stack) /\ t \in Watchers /\ DOMAIN owed = Timers
         /\ OwnersOK /\ sock \in [Fds -> Sockets] /\ fd \in [Watchers -> Fds \cup {NoFd}]
<1>1. /\ IsStack(stack) /\ Sane(stack) /\ t \in Watchers /\ DOMAIN owed = Timers
      /\ OwnersOK /\ sock \in [Fds -> Sockets] /\ fd \in [Watchers -> Fds \cup {NoFd}]
  BY TimerAssumption DEF NetInv, OwnersOK, CallersOK, StackInv
<1>2. PICK F : /\ Has(stack, TimerTags(t), F)
               /\ F # {} => in_dispatch /\ source[t] \in snapshot
               /\ fd[t] # NoFd => sock[fd[t]].st = "timer" /\ owed[t] = sock[fd[t]].rx + Unreported(F)
  BY Zenon DEF StackInv, TimerInv
<1>3. F # {} => fd[t] # NoFd
  BY <1>2, TimerBefore, FramesHeld
<1>4. fd[t] # NoFd => sock[fd[t]] \in Sockets
  BY <1>1
<1>5. fd[t] # NoFd => sock[fd[t]].rx \in Nat
  BY <1>4 DEF Sockets
<1>6. Unreported(F) \in Nat
  BY <1>1, <1>2, UnreportedTyped
<1>7. TimerHas(t, F)
  BY <1>2, <1>3, <1>4, <1>5, <1>6, Zenon DEF TimerHas
<1> QED
  BY <1>1, <1>7

\* A new timerfd has no expirations, and its watcher no frames.
LEMMA CreateTimerStack ==
  ASSUME NetInv, CoreInv, StackInv, NEW t \in Timers, createTimer(t)
  PROVE  TimerLeaves(t)
<1>1. PICK f \in NewFd : /\ fd' = [fd EXCEPT ![t] = f]
                         /\ sock' = [sock EXCEPT ![f] = [NoSocket EXCEPT !.st = "timer"]]
  BY DEF createTimer
<1>2. fd[t] = NoFd /\ stack' = stack /\ owed' = [owed EXCEPT ![t] = 0]
  BY DEF createTimer
<1>3. PICK F : TimerHas(t, F)
  BY TimerHad
<1>4. F = {} /\ Has(stack', TimerTags(t), F)
  BY <1>2, <1>3 DEF TimerHas
<1>5. f \in Fds /\ fd'[t] = f
  BY <1>1, TimerHad DEF NewFd
<1>6. sock'[f].st = "timer" /\ sock'[f].rx = 0
  BY <1>1, <1>5, TimerHad DEF NoSocket
<1>7. owed'[t] = 0
  BY <1>2, TimerHad
<1>8. TimerInv(t)'
  <2>1. owed'[t] = sock'[fd'[t]].rx + Unreported(F)
    <3>1. Unreported(F) = 0
      BY <1>4, UnreportedFacts
    <3> QED
      BY <1>5, <1>6, <1>7, <3>1
  <2>2. sock'[fd'[t]].st = "timer"
    BY <1>5, <1>6
  <2> QED
    BY <1>4, <2>1, <2>2, TimerIf, Zenon
<1>9. Stays(stack, stack', t) /\ LeavesAlone(t)
  BY <1>1, <1>2, TimerHad, StaysForms, ApartSock
<1> QED
  BY <1>2, <1>8, <1>9, TimerHad DEF TimerLeaves

\* Calls that leave the expirations alone.
LEMMA SameFramesTimerStack ==
  ASSUME NetInv, CoreInv, StackInv, NEW t \in Timers,
         UNCHANGED <<stack, owed, in_dispatch, snapshot, source>>,
         \/ UNCHANGED <<sock, fd>>
         \/ sock' = Shut({fd[t]}) /\ fd' = [fd EXCEPT ![t] = NoFd]
  PROVE  TimerLeaves(t)
<1>1. PICK F : TimerHas(t, F)
  BY TimerHad
<1>2. Has(stack', TimerTags(t), F) /\ (F # {} => in_dispatch' /\ source'[t] \in snapshot')
  BY <1>1 DEF TimerHas
<1>3. fd'[t] # NoFd => sock'[fd'[t]].st = "timer" /\ owed'[t] = sock'[fd'[t]].rx + Unreported(F)
  <2>1. CASE UNCHANGED <<sock, fd>>
    BY <1>1, <2>1 DEF TimerHas
  <2>2. CASE fd' = [fd EXCEPT ![t] = NoFd]
    BY <2>2, TimerHad
  <2> QED
    BY <2>1, <2>2
<1>4. TimerInv(t)'
  BY <1>2, <1>3, TimerIf, Zenon
<1>5. Stays(stack, stack', t) /\ LeavesAlone(t)
  BY TimerHad, StaysForms, ApartSock
<1> QED
  BY <1>4, <1>5, TimerHad DEF TimerLeaves

\* timerfd_settime() discards those the kernel has.
LEMMA SettimeStack ==
  ASSUME NetInv, CoreInv, StackInv, NEW t \in Timers, NEW s, Settime(t, s)
  PROVE  TimerLeaves(t)
<1>1. /\ fd[t] # NoFd /\ UNCHANGED <<stack, in_dispatch, snapshot, source, fd>>
      /\ owed' = [owed EXCEPT ![t] = @ - sock[fd[t]].rx]
      /\ sock' = [sock EXCEPT ![fd[t]].rx = 0]
  BY DEF Settime, Alive, loopVars, watcherVars
<1>2. PICK F : TimerHas(t, F)
  BY TimerHad
<1>3. Has(stack', TimerTags(t), F) /\ (F # {} => in_dispatch' /\ source'[t] \in snapshot')
  BY <1>1, <1>2 DEF TimerHas
<1>4. fd[t] \in Fds /\ owed'[t] = owed[t] - sock[fd[t]].rx
  BY <1>1, TimerHad
<1>5. sock'[fd[t]].st = "timer" /\ sock'[fd[t]].rx = 0
  <2>1. sock'[fd[t]] = [sock[fd[t]] EXCEPT !.rx = 0]
    BY <1>1, <1>4, TimerHad
  <2>2. sock[fd[t]] \in Sockets /\ sock[fd[t]].st = "timer"
    BY <1>1, <1>2 DEF TimerHas
  <2> QED
    BY <2>1, <2>2 DEF Sockets
<1>6. owed'[t] = Unreported(F)
  <2>1. /\ sock[fd[t]].rx \in Nat /\ Unreported(F) \in Nat
        /\ owed[t] = sock[fd[t]].rx + Unreported(F)
    BY <1>1, <1>2 DEF TimerHas
  <2> HIDE <1>1, <1>2
  <2> QED
    BY <1>4, <2>1
<1>7. owed'[t] = sock'[fd'[t]].rx + Unreported(F)
  <2>1. Unreported(F) \in Nat
    BY <1>2 DEF TimerHas
  <2> QED
    BY <1>1, <1>5, <1>6, <2>1
<1>8. TimerInv(t)'
  BY <1>1, <1>3, <1>5, <1>7, TimerIf, Zenon
<1>9. Stays(stack, stack', t) /\ LeavesAlone(t)
  BY <1>1, TimerHad, StaysForms, ApartSock
<1> QED
  BY <1>1, <1>8, <1>9, TimerHad DEF TimerLeaves

\* A handler of a timer on top of the stack is its only one.
LEMMA HandlerOnTop ==
  ASSUME NetInv, CoreInv, StackInv, NEW t \in Timers, NEW l \in {"ready", "drain", "expire"}, At(l, t)
  PROVE  /\ Has(Rest, TimerTags(t), {}) /\ IsStack(Rest) /\ Stays(stack, Rest, t)
         /\ TimerHas(t, {Head(stack)}) /\ Head(stack).at = l /\ GoodFrame(Head(stack))
<1>1. stack # <<>> /\ Head(stack).at = l /\ Head(stack).w = t
  BY DEF At
<1>2. IsStack(stack) /\ Sane(stack)
  BY TimerHad
<1>3. Tag(Head(stack)) \in TimerTags(t)
  BY <1>1 DEF Tag, TimerTags
<1>4. PICK F : TimerHas(t, F)
  BY TimerHad
<1>5. F = {Head(stack)} /\ Has(Tail(stack), TimerTags(t), {})
  <2>1. Has(stack, TimerTags(t), F)
    BY <1>4 DEF TimerHas
  <2> QED
    BY <1>1, <1>2, <1>3, <2>1, HasPopped, Zenon
<1>6. IsStack(Tail(stack)) /\ Stays(stack, Tail(stack), t)
  BY <1>1, <1>2, Popped, StaysForms
<1>7. GoodFrame(Head(stack))
  <2>1. Head(stack) = stack[1] /\ Len(stack) \in Nat \ {0}
    BY <1>1, <1>2, Popped
  <2>2. 1 \in 1 .. Len(stack)
    BY <2>1
  <2> QED
    BY <1>2, <2>1, <2>2 DEF Sane
<1> QED
  BY <1>1, <1>4, <1>5, <1>6, <1>7 DEF Rest

\* The timer's part of its handlers.
LEMMA HandlerLeaves ==
  ASSUME NetInv, CoreInv, StackInv, NEW t \in Timers, NEW F, NEW G,
         UNCHANGED <<loopVars, watcherVars>>,
         TimerHas(t, F), F # {}, Has(stack', TimerTags(t), G),
         sock'[fd[t]].st = "timer", owed'[t] = sock'[fd[t]].rx + Unreported(G)
  PROVE  TimerInv(t)'
<1>1. in_dispatch' /\ source'[t] \in snapshot' /\ fd'[t] = fd[t]
  BY DEF TimerHas, loopVars, watcherVars
<1> QED
  BY <1>1, TimerIf, Zenon

\* The callback begins.
LEMMA ReadyTimerStack ==
  ASSUME NetInv, CoreInv, StackInv, NEW t \in Timers, onReadyTimer(t)
  PROVE  TimerLeaves(t)
<1>1. /\ At("ready", t) /\ stack' = <<Calls("drain", t)>> \o Rest
      /\ UNCHANGED <<sock, loopVars, watcherVars, owed>>
  BY DEF onReadyTimer, timerVars
<1> DEFINE f == Calls("drain", t)
           h == Head(stack)
<1>2. Mine(f, t) /\ Tag(f) \in TimerTags(t) /\ Unreported({f}) = 0
  BY FramesOfTimer, ReportsOfTimer
<1> HIDE DEF f
<1>3. /\ Has(Rest, TimerTags(t), {}) /\ IsStack(Rest) /\ Stays(stack, Rest, t)
      /\ TimerHas(t, {h}) /\ h.at = "ready"
  BY <1>1, HandlerOnTop
<1>4. stack' = <<f>> \o Rest
  BY <1>1 DEF f
<1>5. Has(stack', TimerTags(t), {f})
  BY <1>2, <1>3, <1>4, HasPushed, Zenon
<1>6. sock'[fd[t]].st = "timer" /\ owed'[t] = sock'[fd[t]].rx + Unreported({f})
  <2>1. Unreported({h}) = 0
    BY <1>3, UnreportedFacts
  <2> QED
    BY <1>1, <1>2, <1>3, <2>1 DEF TimerHas
<1>7. TimerInv(t)'
  BY <1>1, <1>3, <1>5, <1>6, HandlerLeaves
<1>8. Stays(stack, stack', t)
  BY <1>2, <1>3, <1>4, StaysPushed, StaysThen, Zenon
<1>9. LeavesAlone(t)
  BY <1>1, TimerHad, ApartSock
<1> QED
  BY <1>1, <1>7, <1>8, <1>9, TimerHad DEF TimerLeaves

\* read() moves them from the kernel to the callback.
LEMMA ReadExpirationsStack ==
  ASSUME NetInv, CoreInv, StackInv, NEW t \in Timers, ReadExpirations(t)
  PROVE  TimerLeaves(t)
<1> DEFINE n == sock[fd[t]].rx
           f == Frame("expire", t, n, {})
           h == Head(stack)
<1>1. /\ At("drain", t) /\ stack' = <<f>> \o Rest /\ n > 0
      /\ sock' = [sock EXCEPT ![fd[t]].rx = 0]
      /\ UNCHANGED <<loopVars, watcherVars, owed>>
  BY DEF ReadExpirations, timerVars
<1>2. /\ Has(Rest, TimerTags(t), {}) /\ IsStack(Rest) /\ Stays(stack, Rest, t)
      /\ TimerHas(t, {h}) /\ h.at = "drain"
  BY <1>1, HandlerOnTop
<1>3. /\ fd[t] # NoFd /\ fd[t] \in Fds /\ n \in Nat \ {0}
      /\ sock[fd[t]] \in Sockets /\ sock[fd[t]].st = "timer" /\ owed[t] = n + Unreported({h})
  BY <1>1, <1>2, TimerHad DEF TimerHas
<1>4. Mine(f, t) /\ Tag(f) \in TimerTags(t) /\ Unreported({f}) = n
  BY <1>3, FramesOfTimer, ReportsOfTimer
<1>5. sock'[fd[t]].st = "timer" /\ sock'[fd[t]].rx = 0
  <2>1. sock'[fd[t]] = [sock[fd[t]] EXCEPT !.rx = 0]
    BY <1>1, <1>3, TimerHad
  <2> QED
    BY <1>3, <2>1 DEF Sockets
<1> HIDE DEF f
<1>6. Has(stack', TimerTags(t), {f})
  BY <1>1, <1>2, <1>4, HasPushed, Zenon
<1>7. owed'[t] = sock'[fd[t]].rx + Unreported({f})
  <2>1. Unreported({h}) = 0
    BY <1>2, UnreportedFacts
  <2>2. owed'[t] = owed[t]
    BY <1>1
  <2> HIDE DEF n
  <2> QED
    BY <1>3, <1>4, <1>5, <2>1, <2>2
<1>8. TimerInv(t)'
  BY <1>1, <1>2, <1>5, <1>6, <1>7, HandlerLeaves
<1>9. Stays(stack, stack', t) /\ LeavesAlone(t)
  <2>1. Stays(stack, stack', t)
    BY <1>1, <1>2, <1>4, StaysPushed, StaysThen, Zenon
  <2> QED
    BY <1>1, <2>1, TimerHad, ApartSock
<1> QED
  BY <1>1, <1>8, <1>9, TimerHad DEF TimerLeaves

\* There are none left.
LEMMA DrainedStack ==
  ASSUME NetInv, CoreInv, StackInv, NEW t \in Timers, Drained(t)
  PROVE  TimerLeaves(t)
<1> DEFINE h == Head(stack)
<1>1. /\ At("drain", t) /\ stack' = Rest /\ UNCHANGED <<sock, loopVars, watcherVars, owed>>
  BY DEF Drained, timerVars
<1>2. /\ Has(Rest, TimerTags(t), {}) /\ Stays(stack, Rest, t)
      /\ TimerHas(t, {h}) /\ h.at = "drain"
  BY <1>1, HandlerOnTop
<1>3. Has(stack', TimerTags(t), {})
  BY <1>1, <1>2
<1>4. sock'[fd[t]].st = "timer" /\ owed'[t] = sock'[fd[t]].rx + Unreported({})
  <2>1. Unreported({h}) = 0 /\ Unreported({}) = 0
    BY <1>2, UnreportedFacts
  <2> QED
    BY <1>1, <1>2, <2>1 DEF TimerHas
<1>5. TimerInv(t)'
  BY <1>1, <1>2, <1>3, <1>4, HandlerLeaves
<1>6. LeavesAlone(t) /\ Stays(stack, stack', t)
  BY <1>1, <1>2, TimerHad, ApartSock
<1> QED
  BY <1>1, <1>5, <1>6, TimerHad DEF TimerLeaves

\* cb is called for one of them.
LEMMA CallBackStack ==
  ASSUME NetInv, CoreInv, StackInv, NEW t \in Timers, CallBack(t)
  PROVE  TimerLeaves(t)
<1> DEFINE h == Head(stack)
           n == h.n
           f == IF n = 1 THEN Calls("drain", t) ELSE Frame("expire", t, n - 1, {})
           c == Calls("on_timer", t)
<1>1. /\ At("expire", t) /\ stack' = <<c, f>> \o Rest
      /\ owed' = [owed EXCEPT ![t] = @ - 1]
      /\ UNCHANGED <<sock, loopVars, watcherVars>>
  BY DEF CallBack
<1>2. /\ Has(Rest, TimerTags(t), {}) /\ IsStack(Rest) /\ Stays(stack, Rest, t)
      /\ TimerHas(t, {h}) /\ h.at = "expire" /\ n \in Nat \ {0}
  BY <1>1, HandlerOnTop DEF GoodFrame
<1>3. Unreported({h}) = n
  BY <1>2, UnreportedFacts
<1>4. n # 1 => n - 1 \in Nat \ {0}
  <2> HIDE DEF n
  <2> QED
    BY <1>2
<1>5. Mine(f, t) /\ Tag(f) \in TimerTags(t) /\ Unreported({f}) = n - 1
  <2>1. CASE n = 1
    <3>1. n - 1 = 0 /\ f = Calls("drain", t)
      BY <2>1
    <3> HIDE DEF f, n
    <3> QED
      BY <3>1, FramesOfTimer, ReportsOfTimer
  <2>2. CASE n # 1
    <3>1. n - 1 \in Nat \ {0} /\ f = Frame("expire", t, n - 1, {})
      BY <1>4, <2>2
    <3> HIDE DEF f, n
    <3> QED
      BY <3>1, FramesOfTimer, ReportsOfTimer
  <2> QED
    BY <2>1, <2>2
<1>6. Mine(c, t) /\ Tag(c) \notin TimerTags(t)
  BY FramesOfTimer
<1> HIDE DEF f, c
<1>7. stack' = <<c>> \o (<<f>> \o Rest) /\ IsStack(<<f>> \o Rest)
  <2>1. IsStack(Rest)
    BY <1>2
  <2>2. IsStack(<<f>> \o Rest)
    BY <2>1, Pushed
  <2>3. <<c, f>> \o Rest = <<c>> \o (<<f>> \o Rest)
    BY <2>1, PushedTwo, Zenon
  <2>4. stack' = <<c, f>> \o Rest
    BY <1>1
  <2> QED
    BY <2>2, <2>3, <2>4
<1>8. Has(stack', TimerTags(t), {f})
  <2>1. Has(<<f>> \o Rest, TimerTags(t), {f})
    BY <1>2, <1>5, HasPushed, Zenon
  <2> QED
    BY <1>6, <1>7, <2>1, HasPushed, Zenon
<1>9. sock'[fd[t]].st = "timer" /\ owed'[t] = sock'[fd[t]].rx + Unreported({f})
  <2>1. /\ sock[fd[t]].st = "timer" /\ sock[fd[t]].rx \in Nat /\ owed[t] = sock[fd[t]].rx + n
    BY <1>2, <1>3 DEF TimerHas
  <2>2. owed'[t] = owed[t] - 1 /\ sock' = sock
    BY <1>1, TimerHad
  <2> HIDE DEF n
  <2> QED
    BY <1>2, <1>5, <2>1, <2>2
<1>10. TimerInv(t)'
  BY <1>1, <1>2, <1>8, <1>9, HandlerLeaves
<1>11. Stays(stack, stack', t) /\ LeavesAlone(t)
  <2>1. Stays(Rest, <<f>> \o Rest, t) /\ Stays(<<f>> \o Rest, <<c>> \o (<<f>> \o Rest), t)
    BY <1>2, <1>5, <1>6, <1>7, StaysPushed
  <2>2. Stays(stack, stack', t)
    BY <1>2, <1>7, <2>1, StaysThen, Zenon
  <2> QED
    BY <1>1, <2>2, TimerHad, ApartSock
<1> QED
  BY <1>1, <1>10, <1>11, TimerHad DEF TimerLeaves

\* A timer watcher keeps the invariant.
LEMMA TimerWorks ==
  ASSUME NetInv, NetInv', CoreInv, StackInv, NEW t \in Timers, Timer(t), LeavesTcp,
         UNCHANGED <<textVars, program>>
  PROVE  CoreInv' /\ StackInv'
<1>1. (TimerCall(t) \/ TimerStep(t)) /\ KnownBackend /\ backend # "kqueue"
  BY DEF Timer, EpollWorkerTimerWatcher, PollWorkerTimerWatcher, KnownBackend
<1>2. Only(t) /\ Registers /\ TimersHeld'
  BY <1>1, TimerRegisters DEF LeavesTcp
<1>3. TimerLeaves(t)
  <2>1. CASE startTimer(t) \/ stopTimer(t)
    <3>1. UNCHANGED <<stack, owed, in_dispatch, snapshot, source, sock, fd>>
      BY <2>1 DEF startTimer, stopTimer, loopVars, timerVars
    <3> QED
      BY <3>1, SameFramesTimerStack
  <2>2. CASE destroyTimer(t)
    <3>1. UNCHANGED <<stack, owed, in_dispatch, snapshot, source>>
      BY <2>2 DEF destroyTimer, timerVars
    <3>2. UNCHANGED <<sock, fd>> \/ (sock' = Shut({fd[t]}) /\ fd' = [fd EXCEPT ![t] = NoFd])
      BY <2>2 DEF destroyTimer, StopAndClose, DetachAndClose, closeFd
    <3> QED
      BY <3>1, <3>2, SameFramesTimerStack
  <2>3. CASE setItimerspec(t) \/ clearItimerspec(t)
    BY <2>3, SettimeStack DEF setItimerspec, clearItimerspec
  <2> QED
    BY <1>1, <2>1, <2>2, <2>3, CreateTimerStack, ReadyTimerStack, ReadExpirationsStack, DrainedStack,
       CallBackStack DEF TimerCall, TimerStep
<1>4. StackInv'
  BY <1>2, <1>3, TimerStackStep DEF TimerLeaves
<1>5. CoreInv'
  BY <1>2 DEF CoreInv, Registers
<1> QED
  BY <1>4, <1>5

\* What the invariant of the core says of the watchers.
watcherSays == <<backend, events, source, attached, write_attached, starts, created, closed, restarted>>

\* What is wanted depends on nothing else.
LEMMA WantSays ==
  ASSUME UNCHANGED watcherSays
  PROVE  /\ Want' = Want /\ (Good' <=> Good)
         /\ \A s : Interest(s)' = Interest(s)
         /\ \A w : Own(w)' = Own(w)
BY DEF watcherSays, Want, WriteSource, Source, Good, Interest, Own

\* Nor does how the watchers agree, their fds and the orphans apart.
LEMMA SameWatchers ==
  ASSUME WatchersOK, UNCHANGED <<watcherSays, fd, orphans>>
  PROVE  WatchersOK'
<1>1. \A flt : Filter(flt)' = Filter(flt)
  BY SetsSame DEF watcherSays
<1>2. ASSUME NEW w \in Watchers PROVE WatcherOK(w)'
  <2>1. WatcherOK(w)
    BY DEF WatchersOK
  <2> QED
    BY <1>1, <2>1 DEF WatcherOK, Shapes, watcherSays
<1> QED
  BY <1>2 DEF WatchersOK, watcherSays

\* No watcher is concerned; the kernel's list may lose what nobody wants.
LEMMA CoreKept ==
  ASSUME CoreInv, UNCHANGED <<watcherSays, fd, orphans, pending_ops>>,
         in_dispatch' => KnownBackend /\ snapshot' = reg.sources,
         ~in_dispatch' => pending_ops = <<>>,
         RegOK(reg'), reg'.armed = reg.armed,
         KeyFacts(reg, pending_ops) /\ Good => KeyFacts(reg', pending_ops)
  PROVE  CoreInv'
<1>1. RegInv /\ KeyInv /\ WatchersOK /\ TimersHeld
  BY DEF CoreInv
<1>2. UNCHANGED <<backend, events>>
  BY DEF watcherSays
<1>3. WatchersOK'
  BY <1>1, SameWatchers
<1>4. reg'.sources = reg.sources
  BY <1>1 DEF RegInv, RegOK
<1>5. RegInv'
  BY <1>1, <1>2, <1>4, WantSays, SetsSame DEF RegInv, RegOK
<1>6. KeyInv'
  <2>1. ASSUME Good' PROVE KeyFacts(reg, pending_ops)'
    <3>1. KeyFacts(reg', pending_ops')
      BY <1>1, <2>1, WantSays DEF KeyInv
    <3> QED
      BY <1>2, <3>1, WantSays, KeyFactsPrimed
  <2> QED
    BY <2>1 DEF KeyInv
<1>7. TimersHeld'
  BY <1>1 DEF TimersHeld, Mentioned, watcherSays
<1> QED
  BY <1>3, <1>5, <1>6, <1>7 DEF CoreInv

\* Nor is the core.
LEMMA CoreStill ==
  ASSUME CoreInv, UNCHANGED <<watcherSays, fd, orphans, pending_ops, reg, in_dispatch, snapshot>>
  PROVE  CoreInv'
BY CoreKept DEF CoreInv, RegInv

\* In the middle of nothing there are no frames.
LEMMA NoFrames ==
  ASSUME NEW A, NEW F
  PROVE  Has(<<>>, A, F) <=> F = {}
<1>1. \A i : i \notin 1 .. Len(<<>>)
  OBVIOUS
<1> QED
  BY <1>1 DEF Has, Tagged

\* The callbacks, tasks and dispatches are no frames of a start() or of a timer.
LEMMA OtherFrames ==
  ASSUME NEW f, f.at \in Callbacks \cup {"dispatch"}, NEW w
  PROVE  Tag(f) \notin StartTags(w) /\ Tag(f) \notin TimerTags(w)
BY DEF Tag, StartTags, TimerTags, Callbacks

\* The frames of starts and timers stay.
SameFrames(s, t) ==
  /\ Sane(s) => Sane(t)
  /\ \A w, F : /\ Has(s, StartTags(w), F) => Has(t, StartTags(w), F)
               /\ Has(s, TimerTags(w), F) => Has(t, TimerTags(w), F)

\* Callbacks, tasks and dispatches come and go.
LEMMA SameFramesForms ==
  ASSUME NEW s, IsStack(s)
  PROVE  /\ SameFrames(s, s)
         /\ \A f : f.at \in Callbacks => SameFrames(s, <<f>> \o s)
         /\ s # <<>> /\ Head(s).at \in Callbacks \cup {"dispatch"} => SameFrames(s, Tail(s))
<1>1. SameFrames(s, s)
  BY DEF SameFrames
<1>2. ASSUME NEW f, f.at \in Callbacks PROVE SameFrames(s, <<f>> \o s)
  <2>1. \A w : Tag(f) \notin StartTags(w) /\ Tag(f) \notin TimerTags(w)
    BY <1>2, OtherFrames
  <2>2. f.at # "dispatch" /\ GoodFrame(f)
    BY <1>2 DEF Callbacks, GoodFrame
  <2>3. Sane(s) => Sane(<<f>> \o s)
    BY <2>2, SanePushed
  <2>4. ASSUME NEW w, NEW F
        PROVE  /\ Has(s, StartTags(w), F) => Has(<<f>> \o s, StartTags(w), F)
               /\ Has(s, TimerTags(w), F) => Has(<<f>> \o s, TimerTags(w), F)
    BY <2>1, HasPushed, Zenon
  <2> QED
    BY <2>3, <2>4, Zenon DEF SameFrames
<1>3. ASSUME s # <<>>, Head(s).at \in Callbacks \cup {"dispatch"} PROVE SameFrames(s, Tail(s))
  <2>1. \A w : Tag(Head(s)) \notin StartTags(w) /\ Tag(Head(s)) \notin TimerTags(w)
    BY <1>3, OtherFrames
  <2>2. Sane(s) => Sane(Tail(s))
    BY <1>3, SanePopped
  <2>3. ASSUME NEW w, NEW F
        PROVE  /\ Has(s, StartTags(w), F) => Has(Tail(s), StartTags(w), F)
               /\ Has(s, TimerTags(w), F) => Has(Tail(s), TimerTags(w), F)
    BY <1>3, <2>1, HasPopped, Zenon
  <2> QED
    BY <2>2, <2>3, Zenon DEF SameFrames
<1> QED
  BY <1>1, <1>2, <1>3

\* The expirations stay, too.
LEMMA StackStill ==
  ASSUME StackInv, SameFrames(stack, stack'),
         UNCHANGED <<backend, in_dispatch, snapshot, source, fd, attached, owed>>,
         \A t \in Timers : fd[t] # NoFd => sock'[fd[t]] = sock[fd[t]]
  PROVE  StackInv'
<1>1. Sane(stack)'
  <2>1. Sane(stack')
    BY DEF SameFrames, StackInv
  <2> QED
    BY <2>1, SaneKept DEF Sane, Bottom
<1>2. ASSUME NEW w \in Connects PROVE StartInv(w)'
  <2>1. PICK F : Has(stack, StartTags(w), F) /\ (w \in attached => F = {})
    BY DEF StackInv, StartInv
  <2>2. Has(stack', StartTags(w), F)
    BY <2>1, Zenon DEF SameFrames
  <2> QED
    BY <2>1, <2>2, StartIf
<1>3. ASSUME NEW t \in Timers PROVE TimerInv(t)'
  <2>1. PICK F : /\ Has(stack, TimerTags(t), F)
                 /\ F # {} => in_dispatch /\ source[t] \in snapshot
                 /\ fd[t] # NoFd => sock[fd[t]].st = "timer" /\ owed[t] = sock[fd[t]].rx + Unreported(F)
    BY Zenon DEF StackInv, TimerInv
  <2>2. Has(stack', TimerTags(t), F)
    BY <2>1, Zenon DEF SameFrames
  <2>3. /\ F # {} => in_dispatch' /\ source'[t] \in snapshot'
        /\ fd'[t] # NoFd => sock'[fd'[t]].st = "timer" /\ owed'[t] = sock'[fd'[t]].rx + Unreported(F)
    BY <2>1
  <2> QED
    BY <2>2, <2>3, TimerIf, Zenon
<1> QED
  BY <1>1, <1>2, <1>3 DEF StackInv

\* wait() keeps the invariant: nothing is under way before, and nothing deferred.
LEMMA WaitWorks ==
  ASSUME NetInv, CoreInv, StackInv, Poll
  PROVE  CoreInv' /\ StackInv'
<1>1. /\ KnownBackend /\ stack = <<>> /\ stack' = <<Calls("dispatch", Worker)>>
      /\ in_dispatch' /\ snapshot' = reg.sources
      /\ UNCHANGED <<backend, orphans, sock, reg, pending_ops, watcherVars, connectVars, connVars, timerVars>>
  BY DEF Poll, Wait, EpollWait, PollWait, KqueueWait, MacPollWait, TakeEvents, KnownBackend, LeavesTcp,
         addOnVars
<1>2. CoreInv'
  <2>1. UNCHANGED <<watcherSays, fd, orphans, pending_ops>>
    BY <1>1 DEF watcherSays, watcherVars, attachedVars, connectVars, connVars
  <2> QED
    BY <1>1, <2>1, CoreKept DEF CoreInv, RegInv
<1> DEFINE f == Calls("dispatch", Worker)
<1>3. f.at = "dispatch" /\ Head(stack') = f
  BY <1>1 DEF Calls, Frame
<1> HIDE DEF f
<1>4. Sane(stack)'
  <2>1. Len(stack') = 1 /\ stack'[1] = f
    BY <1>1 DEF f
  <2>2. GoodFrame(f)'
    BY <1>1, <1>3 DEF GoodFrame
  <2>3. \A i \in 1 .. Len(stack') : i = 1
    BY <2>1
  <2> QED
    BY <2>1, <2>2, <2>3 DEF Sane, Bottom, GoodFrame
<1>5. IsStack(<<>>) /\ stack' = <<f>> \o <<>>
  BY <1>1 DEF IsStack, f
<1>6. ASSUME NEW A, Tag(f) \notin A, NEW F, Has(stack, A, F) PROVE Has(stack', A, F) /\ F = {}
  <2>1. F = {} /\ Has(<<>>, A, {})
    BY <1>1, <1>6, NoFrames
  <2>2. Has(<<f>> \o <<>>, A, {})
    BY <1>5, <1>6, <2>1, HasPushed, Zenon
  <2> QED
    BY <1>5, <2>1, <2>2
<1>7. \A w : Tag(f) \notin StartTags(w) /\ Tag(f) \notin TimerTags(w)
  BY <1>3, OtherFrames
<1>8. ASSUME NEW w \in Connects PROVE StartInv(w)'
  <2>1. PICK F : Has(stack, StartTags(w), F) /\ (w \in attached => F = {})
    BY DEF StackInv, StartInv
  <2>2. Has(stack', StartTags(w), F) /\ F = {}
    BY <1>6, <1>7, <2>1
  <2> QED
    BY <2>2, StartIf
<1>9. ASSUME NEW t \in Timers PROVE TimerInv(t)'
  <2>1. PICK F : /\ Has(stack, TimerTags(t), F)
                 /\ F # {} => in_dispatch /\ source[t] \in snapshot
                 /\ fd[t] # NoFd => sock[fd[t]].st = "timer" /\ owed[t] = sock[fd[t]].rx + Unreported(F)
    BY Zenon DEF StackInv, TimerInv
  <2>2. Has(stack', TimerTags(t), F) /\ F = {}
    BY <1>6, <1>7, <2>1
  <2>3. fd'[t] # NoFd => sock'[fd'[t]].st = "timer" /\ owed'[t] = sock'[fd'[t]].rx + Unreported(F)
    BY <1>1, <2>1 DEF watcherVars, timerVars
  <2> QED
    BY <2>2, <2>3, TimerIf, Zenon
<1>10. DOMAIN owed' = Timers
  BY <1>1 DEF StackInv, timerVars
<1> QED
  BY <1>2, <1>4, <1>8, <1>9, <1>10 DEF StackInv

\* A dispatch is under way, and its frame is the only one.
LEMMA DispatchFrame ==
  ASSUME NetInv, CoreInv, StackInv, At("dispatch", Worker)
  PROVE  /\ in_dispatch /\ KnownBackend /\ snapshot = reg.sources
         /\ IsStack(stack) /\ stack # <<>> /\ Rest = <<>>
         /\ \A w, F : Has(stack, StartTags(w), F) \/ Has(stack, TimerTags(w), F) => F = {}
<1>1. IsStack(stack) /\ stack # <<>> /\ Head(stack).at = "dispatch" /\ Sane(stack)
  BY DEF At, NetInv, CallersOK, StackInv
<1>2. stack = <<Head(stack)>>
  BY <1>1, SanePopped
<1>3. Rest = <<>>
  <2> DEFINE h == Head(stack)
  <2>1. Tail(<<h>>) = <<>>
    <3> HIDE DEF h
    <3> QED
      OBVIOUS
  <2> QED
    BY <1>2, <2>1, Zenon DEF Rest
<1>4. in_dispatch
  <2>1. Head(stack) = stack[1] /\ Len(stack) \in Nat \ {0}
    BY <1>1, Popped
  <2>2. 1 \in 1 .. Len(stack)
    BY <2>1
  <2> QED
    BY <1>1, <2>1, <2>2 DEF Sane, GoodFrame
<1>5. ASSUME NEW w, NEW F, Has(stack, StartTags(w), F) \/ Has(stack, TimerTags(w), F) PROVE F = {}
  <2>1. Tag(Head(stack)) \notin StartTags(w) /\ Tag(Head(stack)) \notin TimerTags(w)
    BY <1>1, OtherFrames
  <2>2. ASSUME NEW A, Tag(Head(stack)) \notin A, Has(stack, A, F) PROVE F = {}
    <3>1. Has(Tail(stack), A, F)
      BY <1>1, <2>2, HasPopped, Zenon
    <3> QED
      BY <1>3, <3>1, NoFrames DEF Rest
  <2> QED
    BY <1>5, <2>1, <2>2
<1> QED
  BY <1>1, <1>3, <1>4, <1>5 DEF CoreInv, RegInv

\* Dispatching an event keeps the invariant: a source in the snapshot is that of its timer.
LEMMA DispatchWorks ==
  ASSUME NetInv, CoreInv, StackInv, Dispatch, LeavesTcp, UNCHANGED addOnVars
  PROVE  CoreInv' /\ StackInv'
<1>1. /\ At("dispatch", Worker)
      /\ UNCHANGED <<backend, orphans, sock, reg, pending_ops, in_dispatch, snapshot, watcherVars,
                     connectVars, connVars, timerVars>>
      /\ \/ UNCHANGED stack
         \/ \E e : \E s \in snapshot : stack' = <<Frame("ready", s.w, 0, e.ev)>> \o stack
  <2>1. \/ UNCHANGED stack
        \/ \E e : \E s \in snapshot : stack' = <<Frame("ready", s.w, 0, e.ev)>> \o stack
    BY Zenon DEF Dispatch
  <2> QED
    BY <2>1 DEF Dispatch, LeavesTcp, addOnVars
<1>2. CoreInv'
  BY <1>1, CoreStill DEF watcherSays, watcherVars, attachedVars, connectVars, connVars
<1>3. IsStack(stack) /\ UNCHANGED <<backend, in_dispatch, snapshot, source, fd, attached, owed, sock>>
  BY <1>1 DEF NetInv, CallersOK, watcherVars, attachedVars, timerVars
<1>4. CASE UNCHANGED stack
  BY <1>2, <1>3, <1>4, SameFramesForms, StackStill
<1>5. ASSUME NEW e, NEW s \in snapshot, stack' = <<Frame("ready", s.w, 0, e.ev)>> \o stack
      PROVE  StackInv'
  <2> DEFINE f == Frame("ready", s.w, 0, e.ev)
  <2>1. f.at = "ready" /\ f.w = s.w /\ Mine(f, s.w) /\ Tag(f) = <<"ready", s.w>>
    BY DEF Frame, Mine, GoodFrame, Tag
  <2>2. stack' = <<f>> \o stack
    BY <1>5
  <2> HIDE DEF f
  <2>3. Stays(stack, stack', s.w)
    BY <1>3, <2>1, <2>2, StaysPushed
  <2>4. Sane(stack)'
    <3>1. Sane(stack')
      BY <2>3 DEF Stays, StackInv
    <3> QED
      BY <1>3, <3>1, SaneKept DEF Sane, Bottom
  <2>5. ASSUME NEW w \in Connects PROVE StartInv(w)'
    <3>1. PICK F : Has(stack, StartTags(w), F) /\ (w \in attached => F = {})
      BY DEF StackInv, StartInv
    <3>2. Tag(f) \notin StartTags(w)
      BY <2>1 DEF StartTags
    <3>3. Has(stack', StartTags(w), F)
      BY <1>3, <2>2, <3>1, <3>2, HasPushed, Zenon
    <3> QED
      BY <1>3, <3>1, <3>3, StartIf
  <2>6. ASSUME NEW t \in Timers PROVE TimerInv(t)'
    <3>1. CASE t # s.w
      BY <1>3, <2>3, <3>1, TimerOther DEF StackInv
    <3>2. CASE t = s.w
      <4>1. PICK F : /\ Has(stack, TimerTags(t), F)
                     /\ fd[t] # NoFd => sock[fd[t]].st = "timer" /\ owed[t] = sock[fd[t]].rx + Unreported(F)
        BY Zenon DEF StackInv, TimerInv
      <4>2. F = {} /\ in_dispatch /\ snapshot = reg.sources
        BY <1>1, <4>1, DispatchFrame
      <4>3. Tag(f) \in TimerTags(t)
        BY <2>1, <3>2 DEF TimerTags
      <4>4. Has(stack', TimerTags(t), {f})
        BY <1>3, <2>2, <4>1, <4>2, <4>3, HasPushed, Zenon
      <4>5. s = source[t]
        <5>1. s \in Mentioned(reg, pending_ops)
          BY <4>2 DEF Mentioned, CoreInv, RegInv, RegOK
        <5> QED
          BY <3>2, <5>1 DEF CoreInv, TimersHeld
      <4>6. Unreported({f}) = Unreported(F)
        BY <2>1, <4>2, UnreportedFacts
      <4>7. /\ {f} # {} => in_dispatch' /\ source'[t] \in snapshot'
            /\ fd'[t] # NoFd => sock'[fd'[t]].st = "timer" /\ owed'[t] = sock'[fd'[t]].rx + Unreported({f})
        BY <1>3, <4>1, <4>2, <4>5, <4>6
      <4> QED
        BY <4>4, <4>7, TimerIf, Zenon
    <3> QED
      BY <3>1, <3>2
  <2> QED
    BY <1>3, <2>4, <2>5, <2>6 DEF StackInv
<1> QED
  BY <1>1, <1>2, <1>4, <1>5

\* What is wanted is not the orphans', nor a stream's.
LEMMA WantedFds ==
  ASSUME NetInv, CoreInv, Good, NEW s \in Want
  PROVE  /\ s.fd \in Open /\ s.fd \notin OrphanFds /\ s.fd \notin streams
         /\ s.w \in Watchers /\ s.w \notin orphans
<1>1. OwnersOK /\ WatchersOK /\ orphans \subseteq Timers /\ SocketOwnedOnce /\ created \subseteq Conns
  BY DEF NetInv, OwnersOK, CallersOK, CoreInv
<1>2. s.w \in Watchers /\ s \in Own(s.w)
  BY <1>1, WantSplit DEF WantOwned
<1>3. s.fd = fd[s.w] /\ s.fd \in Open /\ s.fd # NoFd
  <2>1. s.fd = fd[s.w] /\ s.fd \in Open
    BY <1>1, WantFacts DEF WantDistinct
  <2> QED
    BY <2>1, CoreAssumption DEF Open
<1>4. s.w \notin orphans
  <2>1. s.w \in orphans => s.w \notin Conns /\ s.w \notin attached
    BY <1>1, <1>2, TimerAssumption, NetworkAssumption DEF WatchersOK, WatcherOK
  <2>2. s.w \in attached \/ s.w \in write_attached
    BY <1>2 DEF Own
  <2>3. write_attached \subseteq Conns
    BY <1>1 DEF WatchersOK
  <2> QED
    BY <2>1, <2>2, <2>3
<1>5. ASSUME NEW o \in orphans, fd[o] = s.fd PROVE FALSE
  <2>1. o \in Watchers /\ o # s.w
    BY <1>1, <1>4, <1>5, TimerAssumption
  <2> QED
    BY <1>1, <1>2, <1>3, <1>5, <2>1 DEF SocketOwnedOnce
<1>6. s.fd \notin streams
  BY <1>1, <1>2, <1>3 DEF SocketOwnedOnce
<1> QED
  BY <1>2, <1>3, <1>4, <1>5, <1>6 DEF OrphanFds

\* After applyPendingChanges() nothing is deferred, and the orphans are gone.
LEMMA ApplyCore ==
  ASSUME NetInv, CoreInv, StackInv, applyPendingChanges, LeavesTcp
  PROVE  CoreInv'
<1> DEFINE q == ApplyOps(reg, pending_ops)
<1>1. /\ At("dispatch", Worker)
      /\ reg' = Forgotten(q, OrphanFds) /\ orphans' = {} /\ pending_ops' = <<>> /\ ~in_dispatch'
      /\ fd' = [w \in Watchers |-> IF w \in orphans THEN NoFd ELSE fd[w]]
      /\ UNCHANGED watcherSays
  BY DEF applyPendingChanges, LeavesTcp, watcherSays, attachedVars, connectVars, connVars
<1>2. UNCHANGED <<backend, events, source>>
  BY <1>1 DEF watcherSays
<1>3. /\ RegInv /\ KeyInv /\ WatchersOK /\ TimersHeld /\ KnownBackend
      /\ RegOK(reg) /\ pending_ops \in Seq(Changes) /\ events \in Wants
      /\ Live(reg.armed, pending_ops, Len(pending_ops)) = Want
  BY <1>1, DispatchFrame DEF CoreInv, RegInv
<1>4. RegOK(q) /\ q.armed = Want
  BY <1>3, FoldTyped
<1> HIDE DEF q
<1>5. RegOK(reg') /\ reg'.armed = Want
  BY <1>1, <1>4, ForgetFacts
<1>6. Want' = Want /\ (Good' <=> Good) /\ (\A s : Interest(s)' = Interest(s)) /\ \A w : Own(w)' = Own(w)
  BY <1>1, WantSays
<1>7. RegInv'
  <2>1. pending_ops' \in Seq(Changes') /\ Len(pending_ops') = 0
    BY <1>1
  <2>2. Live(reg'.armed, pending_ops', Len(pending_ops')) = Want'
    BY <1>5, <1>6, <2>1, LiveNone
  <2>3. RegOK(reg)' /\ events' \in Wants'
    BY <1>2, <1>3, <1>5, SetsSame DEF RegOK, Wants
  <2> QED
    BY <1>1, <2>1, <2>2, <2>3 DEF RegInv
<1>8. KeyInv'
  <2>1. ASSUME Good' PROVE KeyFacts(reg, pending_ops)'
    <3>1. Good /\ KeyFacts(reg, pending_ops)
      BY <1>3, <1>6, <2>1 DEF KeyInv
    <3>2. \A s \in Want : s.fd \in Open /\ s.fd \notin OrphanFds
      BY <3>1, WantedFds
    <3>3. KeyFacts(q, <<>>)
      BY <1>3, <3>1, <3>2, FoldFacts DEF q
    <3>4. KeyFacts(reg', pending_ops')
      BY <1>1, <1>4, <3>2, <3>3, ForgetFacts
    <3> QED
      BY <1>2, <1>6, <3>4, KeyFactsPrimed
  <2> QED
    BY <2>1 DEF KeyInv
<1>9. WatchersOK'
  <2>1. \A flt : Filter(flt)' = Filter(flt)
    BY <1>2, SetsSame
  <2>2. ASSUME NEW w \in Watchers PROVE WatcherOK(w)'
    <3>1. WatcherOK(w)
      BY <1>3 DEF WatchersOK
    <3>2. CASE w \notin orphans
      <4>1. fd'[w] = fd[w]
        BY <1>1, <3>2
      <4> QED
        BY <1>1, <2>1, <3>1, <4>1 DEF WatcherOK, Shapes, watcherSays
    <3>3. CASE w \in orphans
      <4>1. fd'[w] = NoFd
        BY <1>1, <3>3
      <4>2. w \in Timers /\ w \notin attached
        BY <3>1, <3>3 DEF WatcherOK, NetInv, CallersOK
      <4>3. w \notin Connects /\ w \notin Accepts /\ w \notin Conns /\ w \notin created
        BY <4>2, NetworkAssumption DEF NetInv, CallersOK
      <4>4. w \notin write_attached
        BY <1>3, <4>3 DEF WatchersOK
      <4> QED
        BY <1>1, <3>1, <4>1, <4>2, <4>3, <4>4 DEF WatcherOK, Shapes, watcherSays
    <3> QED
      BY <3>2, <3>3
  <2> QED
    BY <1>1, <1>3, <2>2 DEF WatchersOK, watcherSays
<1>10. TimersHeld'
  <2>1. ASSUME NEW s \in Mentioned(reg', pending_ops'), s.w \in Timers
        PROVE  s = source'[s.w] /\ fd'[s.w] # NoFd
    <3>1. s \in Want
      BY <1>1, <1>5, <2>1 DEF Mentioned
    <3>2. s.w \in Watchers /\ s \in Own(s.w) /\ s.w \notin Conns
      BY <1>3, <2>1, <3>1, WantSplit, NetworkAssumption DEF WantOwned
    <3>3. s = source[s.w] /\ s.w \in attached
      BY <1>3, <3>2 DEF Own, WatchersOK
    <3>4. fd[s.w] # NoFd /\ s.w \notin orphans
      BY <1>3, <3>2, <3>3 DEF WatchersOK, WatcherOK
    <3> QED
      BY <1>1, <1>2, <3>2, <3>3, <3>4
  <2> QED
    BY <2>1 DEF TimersHeld, Mentioned
<1> QED
  BY <1>7, <1>8, <1>9, <1>10 DEF CoreInv

\* applyPendingChanges() keeps the invariant.
LEMMA ApplyWorks ==
  ASSUME NetInv, CoreInv, StackInv, applyPendingChanges, LeavesTcp, UNCHANGED addOnVars
  PROVE  CoreInv' /\ StackInv'
<1>1. /\ At("dispatch", Worker) /\ stack' = Rest /\ sock' = Shut(OrphanFds)
      /\ fd' = [w \in Watchers |-> IF w \in orphans THEN NoFd ELSE fd[w]]
      /\ UNCHANGED <<owed, attached>>
  BY DEF applyPendingChanges, addOnVars, timerVars, attachedVars
<1>2. /\ stack' = <<>>
      /\ \A w, F : Has(stack, StartTags(w), F) \/ Has(stack, TimerTags(w), F) => F = {}
  BY <1>1, DispatchFrame
<1>3. \A A : Has(stack', A, {})
  BY <1>2, NoFrames
<1>4. Sane(stack)'
  <2>1. \A i : i \notin 1 .. Len(stack')
    BY <1>2
  <2> QED
    BY <2>1 DEF Sane, Bottom
<1>5. ASSUME NEW w \in Connects PROVE StartInv(w)'
  BY <1>3, StartIf
<1>6. ASSUME NEW t \in Timers PROVE TimerInv(t)'
  <2>1. PICK F : /\ Has(stack, TimerTags(t), F)
                 /\ fd[t] # NoFd => sock[fd[t]].st = "timer" /\ owed[t] = sock[fd[t]].rx + Unreported(F)
    BY Zenon DEF StackInv, TimerInv
  <2>2. F = {} /\ Has(stack', TimerTags(t), F)
    BY <1>2, <1>3, <2>1
  <2>3. ASSUME fd'[t] # NoFd
        PROVE  sock'[fd'[t]].st = "timer" /\ owed'[t] = sock'[fd'[t]].rx + Unreported(F)
    <3>1. t \in Watchers /\ t \notin orphans /\ fd'[t] = fd[t] /\ fd[t] # NoFd
      BY <1>1, <2>3, TimerAssumption
    <3>2. fd[t] \in Fds /\ fd[t] \notin OrphanFds
      BY <3>1, TimerAssumption DEF NetInv, OwnersOK, CallersOK, SocketOwnedOnce, OrphanFds
    <3>3. sock'[fd[t]] = sock[fd[t]]
      BY <1>1, <3>2 DEF Shut
    <3> QED
      BY <1>1, <2>1, <3>1, <3>3
  <2> QED
    BY <2>2, <2>3, TimerIf, Zenon
<1>7. DOMAIN owed' = Timers
  BY <1>1 DEF StackInv
<1> QED
  BY <1>4, <1>5, <1>6, <1>7, ApplyCore DEF StackInv

\* A timer with an fd has a timerfd.
LEMMA TimerSockets ==
  ASSUME NetInv, StackInv, NEW t \in Timers, fd[t] # NoFd
  PROVE  sock[fd[t]].st = "timer" /\ fd[t] \in Fds /\ fd[t] \notin streams
<1>1. t \in Watchers
  BY TimerAssumption
<1>2. sock[fd[t]].st = "timer"
  <2>1. PICK F : /\ Has(stack, TimerTags(t), F)
                 /\ fd[t] # NoFd => sock[fd[t]].st = "timer" /\ owed[t] = sock[fd[t]].rx + Unreported(F)
    BY Zenon DEF StackInv, TimerInv
  <2> QED
    BY <2>1
<1> QED
  BY <1>1, <1>2 DEF NetInv, OwnersOK, SocketOwnedOnce

\* The sockets of the timers apart, at most the stack moves.
LEMMA StillWorks ==
  ASSUME NetInv, CoreInv, StackInv, SameFrames(stack, stack'),
         UNCHANGED <<reg, pending_ops, backend, in_dispatch, snapshot, orphans, watcherVars,
                     canceled, starts, connVars, addOnVars>>,
         \A t \in Timers : fd[t] # NoFd => sock'[fd[t]] = sock[fd[t]]
  PROVE  CoreInv' /\ StackInv'
<1>1. UNCHANGED <<watcherSays, fd, orphans, pending_ops, reg, in_dispatch, snapshot>>
  BY DEF watcherSays, watcherVars, attachedVars, connVars
<1>2. UNCHANGED <<backend, in_dispatch, snapshot, source, fd, attached, owed>>
  BY DEF watcherVars, attachedVars, addOnVars, timerVars
<1> QED
  BY <1>1, <1>2, CoreStill, StackStill

\* Tasks begin and callbacks return.
LEMMA UserWorks ==
  ASSUME NetInv, CoreInv, StackInv, RunTask \/ UserReturns, LeavesTcp, UNCHANGED addOnVars
  PROVE  CoreInv' /\ StackInv'
<1>1. /\ UNCHANGED <<sock, reg, pending_ops, backend, in_dispatch, snapshot, orphans, watcherVars,
                     canceled, starts, connVars, addOnVars>>
      /\ \/ stack = <<>> /\ stack' = <<Calls("task", Worker)>>
         \/ stack # <<>> /\ Head(stack).at \in Callbacks /\ stack' = Tail(stack)
  BY DEF RunTask, UserReturns, InUser, Rest, LeavesTcp, connectVars, loopVars
<1>2. IsStack(stack)
  BY DEF NetInv, CallersOK
<1>3. SameFrames(stack, stack')
  <2>1. CASE stack = <<>> /\ stack' = <<Calls("task", Worker)>>
    <3> DEFINE f == Calls("task", Worker)
    <3>1. f.at \in Callbacks
      BY DEF Calls, Frame, Callbacks
    <3>2. stack' = <<f>> \o stack
      BY <2>1
    <3> HIDE DEF f
    <3> QED
      BY <1>2, <3>1, <3>2, SameFramesForms
  <2>2. CASE stack # <<>> /\ Head(stack).at \in Callbacks /\ stack' = Tail(stack)
    BY <1>2, <2>2, SameFramesForms
  <2> QED
    BY <1>1, <2>1, <2>2
<1> QED
  BY <1>1, <1>3, StillWorks

\* Peers move no timerfd.
LEMMA PeerWorks ==
  ASSUME NetInv, CoreInv, StackInv, Peer
  PROVE  CoreInv' /\ StackInv'
<1>1. UNCHANGED exceptSock
  BY DEF Peer, Complete, PeerSends, PeerCloses, PeerResets, Drain
<1>2. PICK f \in Fds : sock[f].st # "timer" /\ \E x : sock' = [sock EXCEPT ![f] = x]
  <2>1. ASSUME NEW f \in Fds, Complete(f) \/ PeerSends(f) \/ PeerCloses(f) \/ PeerResets(f) \/ Drain(f)
        PROVE  sock[f].st # "timer" /\ \E x : sock' = [sock EXCEPT ![f] = x]
    BY <2>1 DEF Complete, PeerSends, PeerCloses, PeerResets, Drain
  <2> QED
    BY <2>1, Zenon DEF Peer
<1>3. ASSUME NEW t \in Timers, fd[t] # NoFd PROVE sock'[fd[t]] = sock[fd[t]]
  <2>1. fd[t] # f /\ fd[t] \in Fds
    BY <1>2, <1>3, TimerSockets
  <2>2. sock \in [Fds -> Sockets]
    BY DEF NetInv, OwnersOK
  <2> QED
    BY <1>2, <2>1, <2>2
<1>4. SameFrames(stack, stack')
  BY <1>1 DEF SameFrames, exceptSock
<1> QED
  BY <1>1, <1>3, <1>4, StillWorks DEF exceptSock, loopVars, connectVars

\* The fd of a dropped stream is wanted by nobody.
LEMMA DropWorks ==
  ASSUME NetInv, CoreInv, StackInv, DropStream
  PROVE  CoreInv' /\ StackInv'
<1>1. PICK f \in streams : sock' = [sock EXCEPT ![f] = NoSocket] /\ reg' = Forgotten(reg, {f})
  BY DEF DropStream
<1>2. UNCHANGED <<pending_ops, backend, in_dispatch, snapshot, orphans, stack, watcherVars, canceled,
                  starts, connVars, addOnVars>>
  BY DEF DropStream, loopVars
<1>3. UNCHANGED <<watcherSays, fd, orphans, pending_ops>>
  BY <1>2 DEF watcherSays, watcherVars, attachedVars, connVars
<1>4. RegInv /\ RegOK(reg)
  BY DEF CoreInv, RegInv
<1>5. RegOK(reg') /\ reg'.armed = reg.armed
  BY <1>1, <1>4, ForgetFacts
<1>6. ASSUME KeyFacts(reg, pending_ops), Good PROVE KeyFacts(reg', pending_ops)
  <2>1. ASSUME NEW s \in reg.armed, Untouched(pending_ops, s) PROVE s.fd \notin {f}
    <3>1. s \in Want
      BY <1>4, <2>1, LiveMember DEF RegInv, Untouched
    <3> QED
      BY <1>6, <3>1, WantedFds
  <2> QED
    BY <1>1, <1>4, <1>6, <2>1, ForgetFacts
<1>7. CoreInv'
  BY <1>2, <1>3, <1>4, <1>5, <1>6, CoreKept DEF RegInv
<1>8. ASSUME NEW t \in Timers, fd[t] # NoFd PROVE sock'[fd[t]] = sock[fd[t]]
  <2>1. fd[t] # f /\ fd[t] \in Fds
    BY <1>8, TimerSockets
  <2>2. sock \in [Fds -> Sockets]
    BY DEF NetInv, OwnersOK
  <2> QED
    BY <1>1, <2>1, <2>2
<1>9. StackInv'
  <2>1. SameFrames(stack, stack')
    BY <1>2 DEF SameFrames
  <2> QED
    BY <1>2, <1>8, <2>1, StackStill DEF watcherVars, attachedVars, addOnVars, timerVars
<1> QED
  BY <1>7, <1>9

\* The kernel owes one expiration more.
LEMMA ExpireWorks ==
  ASSUME NetInv, CoreInv, StackInv, NEW t \in Timers, Expire(t), LeavesTcp
  PROVE  CoreInv' /\ StackInv'
<1>1. /\ fd[t] # NoFd
      /\ sock' = [sock EXCEPT ![fd[t]].rx = @ + 1] /\ owed' = [owed EXCEPT ![t] = @ + 1]
      /\ UNCHANGED <<reg, pending_ops, backend, in_dispatch, snapshot, orphans, stack, watcherVars,
                     connectVars, connVars>>
  BY DEF Expire, LeavesTcp, loopVars
<1>2. CoreInv'
  BY <1>1, CoreStill DEF watcherSays, watcherVars, attachedVars, connectVars, connVars
<1>3. Only(t)
  BY <1>1, TimerBefore DEF Only, watcherVars, attachedVars, connectVars, connVars
<1>4. Stays(stack, stack', t) /\ LeavesAlone(t)
  BY <1>1, TimerHad, StaysForms, ApartSock
<1>5. PICK F : TimerHas(t, F)
  BY TimerHad
<1>6. /\ Has(stack', TimerTags(t), F) /\ (F # {} => in_dispatch' /\ source'[t] \in snapshot')
      /\ fd'[t] = fd[t]
  BY <1>1, <1>5 DEF TimerHas, watcherVars
<1>7. sock'[fd[t]].st = "timer" /\ owed'[t] = sock'[fd[t]].rx + Unreported(F)
  <2>1. fd[t] \in Fds
    BY <1>1, TimerHad
  <2>2. /\ sock[fd[t]] \in Sockets /\ sock[fd[t]].st = "timer" /\ sock[fd[t]].rx \in Nat
        /\ Unreported(F) \in Nat /\ owed[t] = sock[fd[t]].rx + Unreported(F)
    BY <1>1, <1>5 DEF TimerHas
  <2>3. sock'[fd[t]] = [sock[fd[t]] EXCEPT !.rx = @ + 1]
    BY <1>1, <2>1, TimerHad
  <2>4. sock'[fd[t]].st = "timer" /\ sock'[fd[t]].rx = sock[fd[t]].rx + 1
    BY <2>2, <2>3 DEF Sockets
  <2>5. owed'[t] = owed[t] + 1
    BY <1>1, TimerHad
  <2> HIDE <1>1, <1>5
  <2> QED
    BY <2>2, <2>4, <2>5
<1>8. TimerInv(t)'
  BY <1>6, <1>7, TimerIf, Zenon
<1>9. StackInv'
  BY <1>1, <1>3, <1>4, <1>8, TimerHad, TimerStackStep
<1> QED
  BY <1>2, <1>9

\* The inductive invariant, next to that of the owners.
WorksInv == NetInv /\ CoreInv /\ StackInv

\* It holds at first.
LEMMA WorksInit == Init => WorksInv
<1> SUFFICES ASSUME Init PROVE WorksInv
  OBVIOUS
<1>1. NetInv
  BY NetInit
<1>2. /\ reg = [sources |-> {}, armed |-> {}, fd_events |-> [key \in Keys |-> {}], interest |-> {}]
      /\ pending_ops = <<>> /\ in_dispatch = FALSE /\ stack = <<>>
      /\ \A w \in Watchers : fd[w] = NoFd /\ source[w] = Source(w, 0, NoFd, "any")
      /\ DOMAIN source = Watchers /\ attached = {} /\ write_attached = {} /\ orphans = {}
      /\ starts = [w \in Connects |-> 0] /\ created = {} /\ closed = {} /\ restarted = {}
      /\ DOMAIN owed = Timers
  BY DEF Init, ConnectInit, ConnInit, TimerInit
<1>3. Want = {}
  BY <1>2 DEF Want
<1>4. RegOK(reg) /\ reg.armed = {} /\ Len(pending_ops) = 0
  BY <1>2 DEF RegOK, Regs
<1>5. events \in Wants
  <2>1. \A w \in Watchers : events[w] \in Wanted
    BY NetworkAssumption DEF Init, Wanted, Events, Readable
  <2> QED
    BY <2>1 DEF Init, Wants
<1>6. RegInv
  <2>1. pending_ops \in Seq(Changes)
    BY <1>2
  <2> QED
    BY <1>2, <1>3, <1>4, <1>5, <2>1, LiveNone DEF RegInv
<1>7. KeyInv
  <2>1. Clean(reg.armed, pending_ops)
    <3>1. Live(reg.armed, pending_ops, 0) = {}
      BY <1>4, LiveNone
    <3>2. \A i \in 0 .. Len(pending_ops) : i = 0
      BY <1>4
    <3>3. \A i : i \notin 1 .. Len(pending_ops)
      BY <1>4
    <3> QED
      BY <3>1, <3>2, <3>3 DEF Clean, KeysDistinct
  <2>2. Sound(reg)
    BY <1>2 DEF Sound
  <2> QED
    BY <1>4, <2>1, <2>2 DEF KeyInv, KeyFacts
<1>8. WatchersOK
  <2>1. ASSUME NEW w \in Watchers PROVE WatcherOK(w)
    BY <1>2 DEF WatcherOK, Shapes, Source
  <2> QED
    BY <1>2, <2>1 DEF WatchersOK
<1>9. TimersHeld
  <2>1. \A i : i \notin 1 .. Len(pending_ops)
    BY <1>4
  <2> QED
    BY <1>4, <2>1 DEF TimersHeld, Mentioned
<1>10. StackInv
  <2>1. Sane(stack)
    <3>1. \A i : i \notin 1 .. Len(stack)
      BY <1>2
    <3> QED
      BY <3>1 DEF Sane, Bottom
  <2>2. \A A : Has(stack, A, {})
    BY <1>2, NoFrames
  <2>3. ASSUME NEW w \in Connects PROVE StartInv(w)
    BY <2>2, Zenon DEF StartInv
  <2>4. ASSUME NEW t \in Timers PROVE TimerInv(t)
    <3>1. Has(stack, TimerTags(t), {}) /\ fd[t] = NoFd
      BY <1>2, <2>2, TimerAssumption
    <3> QED
      BY <3>1, Zenon DEF TimerInv
  <2> QED
    BY <1>2, <2>1, <2>3, <2>4 DEF StackInv
<1> QED
  BY <1>1, <1>6, <1>7, <1>8, <1>9, <1>10 DEF WorksInv, CoreInv

\* Every step keeps it.
LEMMA WorksNext == WorksInv /\ [Next]_vars => WorksInv'
<1> SUFFICES ASSUME NetInv, CoreInv, StackInv, [Next]_vars PROVE WorksInv'
  BY DEF WorksInv
<1>1. NetInv'
  BY NetNext
<1> SUFFICES CoreInv' /\ StackInv'
  BY <1>1 DEF WorksInv
<1>2. ASSUME UNCHANGED <<coreVars, connectVars, connVars, timerVars>> PROVE CoreInv' /\ StackInv'
  <2>1. UNCHANGED <<watcherSays, fd, orphans, pending_ops, reg, in_dispatch, snapshot>>
    BY <1>2 DEF coreVars, loopVars, watcherSays, watcherVars, attachedVars, connectVars, connVars
  <2>2. UNCHANGED <<stack, sock, backend, in_dispatch, snapshot, source, fd, attached, owed>>
    BY <1>2 DEF coreVars, loopVars, watcherVars, attachedVars, timerVars
  <2>3. SameFrames(stack, stack')
    BY <2>2 DEF SameFrames
  <2> QED
    BY <2>1, <2>2, <2>3, CoreStill, StackStill
<1>3. CASE Next
  <2>1. CASE Thread
    <3>1. CASE (Dispatch \/ applyPendingChanges) /\ LeavesTcp /\ UNCHANGED addOnVars
      BY <3>1, DispatchWorks, ApplyWorks
    <3>2. CASE \E w \in Connects \cap program : Connect(w) /\ UNCHANGED <<connVars, addOnVars>>
      BY <1>1, <3>2, ConnectWorks
    <3>3. CASE \E a \in Accepts \cap program : Listen(a) /\ UNCHANGED <<connVars, addOnVars>>
      BY <1>1, <3>3, AcceptWorks
    <3>4. CASE \E k \in Conns \cap program : Connection(k) /\ UNCHANGED addOnVars
      BY <1>1, <3>4, ConnectionWorks
    <3>5. CASE \E t \in Timers \cap program : Timer(t) /\ LeavesTcp /\ UNCHANGED <<textVars, program>>
      BY <1>1, <3>5, TimerWorks
    <3> QED
      BY <2>1, <3>1, <3>2, <3>3, <3>4, <3>5 DEF Thread
  <2>2. CASE Poll
    BY <2>2, WaitWorks
  <2>3. CASE Return \/ (RunTask /\ LeavesTcp /\ UNCHANGED addOnVars)
    BY <2>3, UserWorks DEF Return
  <2>4. CASE \E t \in Timers : Expire(t) /\ LeavesTcp /\ UNCHANGED <<textVars, program>>
    BY <2>4, ExpireWorks
  <2>5. CASE UNCHANGED <<coreVars, connectVars, connVars, timerVars>>
    BY <1>2, <2>5
  <2> QED
    BY <1>3, <2>1, <2>2, <2>3, <2>4, <2>5, DropWorks, PeerWorks DEF Next
<1>4. CASE UNCHANGED vars
  BY <1>2, <1>4 DEF vars, addOnVars
<1> QED
  BY <1>3, <1>4

\* So it always holds.
LEMMA WorksAlways == Spec => []WorksInv
BY WorksInit, WorksNext, PTL DEF Spec

\* It says what each timer owes.
LEMMA ExpirationsOnce == WorksInv => OncePerExpiration
<1> SUFFICES ASSUME NetInv, CoreInv, StackInv, NEW t \in Timers, fd[t] # NoFd
             PROVE  LET read == {stack[i].n : i \in {j \in 1 .. Len(stack) :
                                                       stack[j].at = "expire" /\ stack[j].w = t}}
                    IN  owed[t] = sock[fd[t]].rx + MapThenSumSet(LAMBDA n : n, read)
  BY Zenon DEF WorksInv, OncePerExpiration
<1> DEFINE read == {stack[i].n : i \in {j \in 1 .. Len(stack) : stack[j].at = "expire" /\ stack[j].w = t}}
<1>1. PICK F : TimerHas(t, F)
  BY TimerHad
<1>2. /\ Has(stack, TimerTags(t), F) /\ sock[fd[t]].rx \in Nat
      /\ owed[t] = sock[fd[t]].rx + Unreported(F) /\ Unreported(F) \in Nat
  BY <1>1 DEF TimerHas
<1>3. \A i \in 1 .. Len(stack) : stack[i].at = "expire" /\ stack[i].w = t => Tag(stack[i]) \in TimerTags(t)
  BY DEF Tag, TimerTags
<1>4. CASE \E i \in 1 .. Len(stack) : stack[i].at = "expire" /\ stack[i].w = t
  <2>1. PICK i \in 1 .. Len(stack) : stack[i].at = "expire" /\ stack[i].w = t
    BY <1>4
  <2>2. \A j \in 1 .. Len(stack) : Tag(stack[j]) \in TimerTags(t) => j = i
    BY <1>2, <1>3, <2>1 DEF Has
  <2> DEFINE f == stack[i]
  <2>3. F = {f}
    BY <1>2, <1>3, <2>1, <2>2 DEF Has, Tagged
  <2>4. read = {f.n}
    BY <1>3, <2>1, <2>2
  <2>5. f.at = "expire"
    BY <2>1
  <2> HIDE DEF f, read
  <2>6. Unreported(F) = f.n
    BY <2>3, <2>5, UnreportedFacts
  <2>7. f.n \in Nat
    BY <1>2, <2>6
  <2>8. MapThenSumSet(LAMBDA n : n, {f.n}) = f.n
    BY <2>7, SumOfOne
  <2>9. MapThenSumSet(LAMBDA n : n, read) = Unreported(F)
    BY <2>4, <2>6, <2>8, Zenon
  <2> QED
    BY <1>2, <2>9 DEF read
<1>5. CASE ~ \E i \in 1 .. Len(stack) : stack[i].at = "expire" /\ stack[i].w = t
  <2>1. read = {}
    BY <1>5
  <2>2. ~ \E f \in F : f.at = "expire"
    <3> SUFFICES ASSUME NEW f \in F, f.at = "expire" PROVE FALSE
      OBVIOUS
    <3>1. PICK i \in 1 .. Len(stack) : f = stack[i] /\ Tag(stack[i]) \in TimerTags(t)
      BY <1>2 DEF Has, Tagged
    <3>2. stack[i].w = t
      BY <3>1 DEF Tag, TimerTags
    <3> QED
      BY <1>5, <3>1, <3>2
  <2>3. Unreported(F) = 0
    BY <2>2 DEF Unreported
  <2> HIDE DEF read
  <2>4. MapThenSumSet(LAMBDA n : n, read) = Unreported(F)
    BY <2>1, <2>3, SumOfNone, Zenon
  <2> QED
    BY <1>2, <2>4 DEF read
<1> QED
  BY <1>4, <1>5

\* Between dispatches it says what is registered.
LEMMA RegistrationsExact == WorksInv => RegistrationExact
<1> SUFFICES ASSUME NetInv, CoreInv, ~in_dispatch, Good
             PROVE  /\ reg.sources = Want
                    /\ reg.armed = reg.sources
                    /\ \A key \in Keys :
                         LET wanted == UNION {Interest(s) : s \in {t \in reg.sources : Key(t) = key}}
                         IN  reg.fd_events[key] = wanted /\ (key \in reg.interest <=> wanted # {})
  BY Zenon DEF WorksInv, RegistrationExact, Good, Want
<1>1. pending_ops = <<>> /\ RegOK(reg) /\ KeyFacts(reg, pending_ops) /\ events \in Wants
  BY DEF CoreInv, RegInv, KeyInv
<1>2. Len(pending_ops) = 0
  BY <1>1
<1>3. reg.armed = Want /\ reg.sources = reg.armed
  <2>1. Live(reg.armed, pending_ops, Len(pending_ops)) = reg.armed
    BY <1>2, LiveNone
  <2> QED
    BY <1>1, <2>1 DEF CoreInv, RegInv, RegOK
<1>4. reg.sources \in SUBSET Srcs
  BY <1>1 DEF RegOK, Regs
<1>5. Sound(reg) /\ \A s \in reg.armed : Right(reg, s)
  BY <1>1, <1>2 DEF KeyFacts, Untouched
<1>6. KeysDistinct(Want)
  BY WantFacts DEF NetInv, CoreInv, WantDistinct
<1>7. ASSUME NEW key \in Keys
      PROVE  LET wanted == UNION {Interest(s) : s \in {t \in reg.sources : Key(t) = key}}
             IN  reg.fd_events[key] = wanted /\ (key \in reg.interest <=> wanted # {})
  <2> DEFINE S == {t \in reg.sources : Key(t) = key}
             wanted == UNION {Interest(s) : s \in S}
  <2>1. CASE S = {}
    <3>1. wanted = {}
      BY <2>1
    <3>2. ~ \E s \in reg.armed : Key(s) = key
      BY <1>3, <2>1
    <3>3. reg.fd_events[key] = {} /\ key \notin reg.interest
      BY <1>5, <3>2 DEF Sound
    <3> QED
      BY <3>1, <3>3
  <2>2. ASSUME NEW s \in S PROVE reg.fd_events[key] = wanted /\ (key \in reg.interest <=> wanted # {})
    <3>1. S = {s}
      BY <1>3, <1>6, <2>2 DEF KeysDistinct
    <3>2. wanted = Interest(s)
      BY <3>1
    <3>3. s \in reg.armed /\ s \in Srcs /\ Key(s) = key
      BY <1>3, <1>4, <2>2
    <3>4. Interest(s) # {}
      BY <1>1, <3>3, SourceFacts DEF Wanted
    <3>5. reg.fd_events[key] = Interest(s) /\ key \in reg.interest
      BY <1>5, <3>3 DEF Right
    <3> QED
      BY <3>2, <3>4, <3>5
  <2> QED
    BY <2>1, <2>2
<1> QED
  BY <1>3, <1>7

\* Every expiration of a timer is reported once: those that are owed are the ones the kernel
\* holds and the ones its callback has read, whatever callbacks set, stop and destroy meanwhile.
THEOREM TimersReport == Spec => []OncePerExpiration
BY WorksAlways, ExpirationsOnce, PTL

\* Between dispatches the core, the backend and the kernel have exactly the sources and events
\* that the watchers want, however changes were deferred and descriptors closed and reused.
THEOREM RegistrationsRight == Spec => []RegistrationExact
BY WorksAlways, RegistrationsExact, PTL

----------------------------------------------------------------------------
(* Texts of endpoints. *)

\* The words and marks a text is made of, and what is logged of a peer that is gone.
Alphabet == Words \cup Punctuation \cup {"empty"}
TextSeq == Seq(Alphabet)

\* No place of t holds one of chars.
Free(t, chars) == \A i \in 1 .. Len(t) : t[i] \notin chars

\* 0 is a port.
LEMMA ZeroIs == Zero \in Ports /\ Zero \in DOMAIN Numbers /\ Ports \subseteq DOMAIN Numbers
  BY EndpointAssumption DEF Zero, Ports, MaxPort

\* A text with a mark c between u and v.
LEMMA Marked ==
  ASSUME NEW u \in TextSeq, NEW c \in Alphabet, NEW v \in TextSeq
  PROVE  /\ u \o <<c>> \o v \in TextSeq
         /\ Len(u \o <<c>> \o v) = Len(u) + 1 + Len(v)
         /\ \A i \in 1 .. Len(u) : (u \o <<c>> \o v)[i] = u[i]
         /\ (u \o <<c>> \o v)[Len(u) + 1] = c
         /\ \A i \in 1 .. Len(v) : (u \o <<c>> \o v)[Len(u) + 1 + i] = v[i]
<1> DEFINE w == u \o <<c>>
<1>1. /\ <<c>> \in TextSeq /\ Len(<<c>>) = 1 /\ <<c>>[1] = c
      /\ Len(u) \in Nat /\ Len(v) \in Nat
  BY DEF TextSeq
<1>2. /\ w \in TextSeq /\ Len(w) = Len(u) + 1
      /\ \A i \in 1 .. Len(u) + 1 : w[i] = IF i <= Len(u) THEN u[i] ELSE <<c>>[i - Len(u)]
  BY <1>1, ConcatProperties DEF TextSeq
<1>3. /\ \A i \in 1 .. Len(u) : w[i] = u[i]
      /\ w[Len(u) + 1] = c
  <2> HIDE DEF w
  <2>1. \A i \in 1 .. Len(u) : i \in 1 .. Len(u) + 1 /\ i <= Len(u)
    BY <1>1
  <2>2. Len(u) + 1 \in 1 .. Len(u) + 1 /\ ~(Len(u) + 1 <= Len(u)) /\ Len(u) + 1 - Len(u) = 1
    BY <1>1
  <2>3. w[Len(u) + 1] = <<c>>[Len(u) + 1 - Len(u)]
    BY ONLY <1>2, <2>2
  <2>4. w[Len(u) + 1] = <<c>>[1]
    BY <2>2, <2>3
  <2>5. \A i \in 1 .. Len(u) : w[i] = u[i]
    BY ONLY <1>2, <2>1
  <2> QED
    BY <1>1, <2>4, <2>5
<1> HIDE DEF w
<1>4. /\ w \o v \in TextSeq /\ Len(w \o v) = Len(u) + 1 + Len(v)
      /\ \A i \in 1 .. Len(u) + 1 + Len(v) : (w \o v)[i] = IF i <= Len(u) + 1 THEN w[i] ELSE v[i - (Len(u) + 1)]
  <2>1. w \in Seq(Alphabet) /\ v \in Seq(Alphabet)
    BY <1>2 DEF TextSeq
  <2>2. /\ w \o v \in Seq(Alphabet) /\ Len(w \o v) = Len(w) + Len(v)
        /\ \A i \in 1 .. Len(w) + Len(v) : (w \o v)[i] = IF i <= Len(w) THEN w[i] ELSE v[i - Len(w)]
    BY ONLY <2>1, ConcatProperties
  <2> QED
    BY ONLY <1>2, <2>2 DEF TextSeq
<1>5. /\ \A i \in 1 .. Len(u) : (w \o v)[i] = u[i]
      /\ (w \o v)[Len(u) + 1] = c
  <2>1. \A i \in 1 .. Len(u) + 1 : i \in 1 .. Len(u) + 1 + Len(v) /\ i <= Len(u) + 1
    BY <1>1
  <2>2. \A i \in 1 .. Len(u) + 1 : (w \o v)[i] = w[i]
    BY ONLY <1>4, <2>1
  <2>3. Len(u) + 1 \in 1 .. Len(u) + 1 /\ \A i \in 1 .. Len(u) : i \in 1 .. Len(u) + 1
    BY <1>1
  <2> QED
    BY ONLY <1>3, <2>2, <2>3
<1>6. ASSUME NEW i \in 1 .. Len(v) PROVE (w \o v)[Len(u) + 1 + i] = v[i]
  <2>1. /\ Len(u) + 1 + i \in 1 .. Len(u) + 1 + Len(v) /\ ~(Len(u) + 1 + i <= Len(u) + 1)
        /\ Len(u) + 1 + i - (Len(u) + 1) = i
    BY <1>1
  <2>2. (w \o v)[Len(u) + 1 + i] = v[Len(u) + 1 + i - (Len(u) + 1)]
    BY ONLY <1>4, <2>1
  <2> QED
    BY <2>1, <2>2
<1> QED
  BY <1>4, <1>5, <1>6 DEF w

\* A text is what is before a place, what is there and what is after it.
LEMMA SplitAt ==
  ASSUME NEW t \in TextSeq, NEW i \in 1 .. Len(t)
  PROVE  /\ Before(t, i) \in TextSeq /\ After(t, i) \in TextSeq
         /\ Len(Before(t, i)) = i - 1 /\ Len(After(t, i)) = Len(t) - i
         /\ \A j \in 1 .. i - 1 : Before(t, i)[j] = t[j]
         /\ \A j \in 1 .. Len(t) - i : After(t, i)[j] = t[i + j]
         /\ t = Before(t, i) \o <<t[i]>> \o After(t, i)
<1>1. Len(t) \in Nat /\ \A j \in 1 .. Len(t) : t[j] \in Alphabet
  BY ElementOfSeq DEF TextSeq
<1>2. /\ Before(t, i) \in TextSeq /\ Len(Before(t, i)) = i - 1
      /\ \A j \in 1 .. i - 1 : Before(t, i)[j] = t[j]
  <2>1. /\ SubSeq(t, 1, i - 1) \in Seq(Alphabet)
        /\ Len(SubSeq(t, 1, i - 1)) = IF 1 <= i - 1 THEN (i - 1) - 1 + 1 ELSE 0
        /\ \A j \in 1 .. (i - 1) - 1 + 1 : SubSeq(t, 1, i - 1)[j] = t[1 + j - 1]
    BY <1>1, SubSeqProperties
  <2> QED
    BY <1>1, <2>1 DEF Before, TextSeq
<1>3. /\ After(t, i) \in TextSeq /\ Len(After(t, i)) = Len(t) - i
      /\ \A j \in 1 .. Len(t) - i : After(t, i)[j] = t[i + j]
  <2>1. /\ SubSeq(t, i + 1, Len(t)) \in Seq(Alphabet)
        /\ Len(SubSeq(t, i + 1, Len(t))) = IF i + 1 <= Len(t) THEN Len(t) - (i + 1) + 1 ELSE 0
        /\ \A j \in 1 .. Len(t) - (i + 1) + 1 : SubSeq(t, i + 1, Len(t))[j] = t[(i + 1) + j - 1]
    BY <1>1, SubSeqProperties
  <2> QED
    BY <1>1, <2>1 DEF After, TextSeq
<1> DEFINE u == Before(t, i)  v == After(t, i)
<1> HIDE DEF u, v
<1>4. t[i] \in Alphabet
  BY <1>1
<1>5. /\ u \o <<t[i]>> \o v \in TextSeq
      /\ Len(u \o <<t[i]>> \o v) = Len(u) + 1 + Len(v)
      /\ \A j \in 1 .. Len(u) : (u \o <<t[i]>> \o v)[j] = u[j]
      /\ (u \o <<t[i]>> \o v)[Len(u) + 1] = t[i]
      /\ \A j \in 1 .. Len(v) : (u \o <<t[i]>> \o v)[Len(u) + 1 + j] = v[j]
  BY <1>2, <1>3, <1>4, Marked DEF u, v
<1> DEFINE s == u \o <<t[i]>> \o v
<1> HIDE DEF s
<1>6. Len(s) = Len(t)
  <2>1. Len(u) = i - 1 /\ Len(v) = Len(t) - i /\ Len(s) = Len(u) + 1 + Len(v)
    BY <1>2, <1>3, <1>5 DEF s, u, v
  <2> QED
    BY <1>1, <2>1
<1>7. ASSUME NEW j \in 1 .. Len(t) PROVE t[j] = s[j]
  <2>1. CASE j < i
    BY <1>1, <1>2, <1>5, <2>1 DEF s, u
  <2>2. CASE j = i
    BY <1>1, <1>2, <1>5, <2>2 DEF s, u
  <2>3. CASE j > i
    <3>1. j - i \in 1 .. Len(v) /\ Len(u) + 1 + (j - i) = j /\ i + (j - i) = j
      BY <1>1, <1>2, <1>3, <2>3 DEF u, v
    <3>2. s[Len(u) + 1 + (j - i)] = v[j - i]
      BY <1>5, <3>1 DEF s
    <3>3. v[j - i] = t[i + (j - i)]
      BY <1>1, <1>3, <2>3 DEF v
    <3> QED
      BY <3>1, <3>2, <3>3
  <2> QED
    BY <1>1, <2>1, <2>2, <2>3
<1>8. t = s
  <2>1. s \in Seq(Alphabet) /\ t \in Seq(Alphabet)
    BY <1>5 DEF s, TextSeq
  <2> QED
    BY <1>6, <1>7, <2>1, SeqEqual
<1> QED
  BY <1>2, <1>3, <1>8 DEF s, u, v
\* What is before the mark and after it.
LEMMA AroundMark ==
  ASSUME NEW u \in TextSeq, NEW c \in Alphabet, NEW v \in TextSeq
  PROVE  LET t == u \o <<c>> \o v
         IN  /\ Len(u) + 1 \in 1 .. Len(t) /\ t \in TextSeq /\ t[Len(u) + 1] = c
             /\ Before(t, Len(u) + 1) = u /\ After(t, Len(u) + 1) = v
<1> DEFINE t == u \o <<c>> \o v
<1>1. /\ t \in TextSeq
      /\ Len(t) = Len(u) + 1 + Len(v)
      /\ \A i \in 1 .. Len(u) : t[i] = u[i]
      /\ t[Len(u) + 1] = c
      /\ \A i \in 1 .. Len(v) : t[Len(u) + 1 + i] = v[i]
  BY Marked
<1> HIDE DEF t
<1>2. Len(u) \in Nat /\ Len(v) \in Nat
  BY DEF TextSeq
<1> DEFINE n == Len(u) + 1
<1>3. n \in 1 .. Len(t) /\ n - 1 = Len(u) /\ Len(t) - n = Len(v)
  BY <1>1, <1>2
<1>4. /\ Before(t, n) \in TextSeq /\ After(t, n) \in TextSeq
      /\ Len(Before(t, n)) = n - 1 /\ Len(After(t, n)) = Len(t) - n
      /\ \A j \in 1 .. n - 1 : Before(t, n)[j] = t[j]
      /\ \A j \in 1 .. Len(t) - n : After(t, n)[j] = t[n + j]
  <2> HIDE DEF n
  <2> QED
    BY ONLY <1>1, <1>3, SplitAt
<1>5. Before(t, n) = u
  <2>1. Before(t, n) \in Seq(Alphabet) /\ u \in Seq(Alphabet) /\ Len(Before(t, n)) = Len(u)
    BY <1>3, <1>4 DEF TextSeq
  <2>2. \A j \in 1 .. Len(Before(t, n)) : Before(t, n)[j] = u[j]
    BY <1>1, <1>3, <1>4, <2>1
  <2> QED
    BY ONLY <2>1, <2>2, SeqEqual
<1>6. After(t, n) = v
  <2>1. After(t, n) \in Seq(Alphabet) /\ v \in Seq(Alphabet) /\ Len(After(t, n)) = Len(v)
    BY <1>3, <1>4 DEF TextSeq
  <2>2. \A j \in 1 .. Len(After(t, n)) : After(t, n)[j] = v[j]
    BY <1>1, <1>3, <1>4, <2>1
  <2> QED
    BY ONLY <2>1, <2>2, SeqEqual
<1> QED
  BY <1>1, <1>3, <1>5, <1>6 DEF t

\* A set of numbers has a least one.
LEMMA LeastNat ==
  ASSUME NEW S \in SUBSET Nat, S # {}
  PROVE  \E i \in S : \A j \in S : i <= j
<1> DEFINE R == OpToRel(<, Nat)
<1>1. IsWellFoundedOn(R, Nat)
  BY NatLessThanWellFounded
<1>2. R = {ss \in Nat \X Nat : ss[1] < ss[2]}
  BY DEF OpToRel
<1> HIDE DEF R
<1>3. PICK i \in S : \A j \in S : <<j, i>> \notin R
  BY <1>1, WFMin
<1>4. ASSUME NEW j \in S PROVE i <= j
  <2>1. i \in Nat /\ j \in Nat /\ <<j, i>> \notin R
    BY <1>3
  <2> QED
    BY <1>2, <2>1
<1> QED
  BY <1>4

\* First() and Final() choose what they are meant to.
LEMMA LeastPlace ==
  ASSUME NEW S \in SUBSET Nat, S # {}
  PROVE  First(S) \in S /\ \A j \in S : First(S) <= j
<1>1. PICK i \in S : \A j \in S : i <= j
  BY LeastNat
<1> QED
  BY <1>1 DEF First

LEMMA LastPlace ==
  ASSUME NEW n \in Nat, NEW S \in SUBSET (1 .. n), S # {}
  PROVE  Final(S) \in S /\ \A j \in S : j <= Final(S)
<1> DEFINE T == {n - i : i \in S}
<1>1. T \in SUBSET Nat /\ T # {}
  <2>1. \A i \in S : n - i \in Nat
    OBVIOUS
  <2> QED
    BY <2>1
<1>2. PICK k \in T : \A j \in T : k <= j
  <2> HIDE DEF T
  <2> QED
    BY <1>1, LeastNat
<1>3. PICK i \in S : k = n - i
  OBVIOUS
<1>4. ASSUME NEW j \in S PROVE j <= i
  <2>1. n - j \in T /\ n - j \in Nat /\ k \in Nat
    BY <1>1
  <2>2. k <= n - j
    BY <1>2, <2>1
  <2> QED
    BY <1>3, <2>2
<1> QED
  BY <1>4 DEF Final

\* A mark that is the first, or the last, of its kind is found.
LEMMA FirstOf ==
  ASSUME NEW chars, NEW u \in TextSeq, NEW c \in Alphabet, NEW v \in TextSeq, Free(u, chars), c \in chars
  PROVE  LET t == u \o <<c>> \o v
         IN  /\ Places(t, chars) # {} /\ First(Places(t, chars)) = Len(u) + 1
             /\ Before(t, First(Places(t, chars))) = u /\ After(t, First(Places(t, chars))) = v
<1> DEFINE t == u \o <<c>> \o v
<1>1. /\ t \in TextSeq /\ \A i \in 1 .. Len(u) : t[i] = u[i]
  BY Marked
<1>2. /\ Len(u) + 1 \in 1 .. Len(t) /\ t[Len(u) + 1] = c
      /\ Before(t, Len(u) + 1) = u /\ After(t, Len(u) + 1) = v
  BY AroundMark
<1> HIDE DEF t
<1> DEFINE P == Places(t, chars)
<1>3. Len(u) \in Nat /\ Len(t) \in Nat
  BY <1>1 DEF TextSeq
<1>4. P \in SUBSET Nat /\ Len(u) + 1 \in P
  BY <1>2, <1>3 DEF Places
<1>5. First(P) \in P /\ \A j \in P : First(P) <= j
  <2> HIDE DEF P
  <2> QED
    BY <1>4, LeastPlace
<1>6. First(P) = Len(u) + 1
  <2>1. First(P) \in 1 .. Len(t) /\ t[First(P)] \in chars /\ First(P) <= Len(u) + 1
    BY <1>4, <1>5 DEF Places
  <2>2. First(P) \notin 1 .. Len(u)
    BY <1>1, <2>1 DEF Free
  <2> QED
    BY <1>3, <2>1, <2>2
<1> QED
  BY <1>2, <1>4, <1>6 DEF t

LEMMA FinalOf ==
  ASSUME NEW chars, NEW u \in TextSeq, NEW c \in Alphabet, NEW v \in TextSeq, Free(v, chars), c \in chars
  PROVE  LET t == u \o <<c>> \o v
         IN  /\ Places(t, chars) # {} /\ Final(Places(t, chars)) = Len(u) + 1
             /\ Before(t, Final(Places(t, chars))) = u /\ After(t, Final(Places(t, chars))) = v
<1> DEFINE t == u \o <<c>> \o v
<1>1. /\ t \in TextSeq /\ Len(t) = Len(u) + 1 + Len(v) /\ \A i \in 1 .. Len(v) : t[Len(u) + 1 + i] = v[i]
  BY Marked
<1>2. /\ Len(u) + 1 \in 1 .. Len(t) /\ t[Len(u) + 1] = c
      /\ Before(t, Len(u) + 1) = u /\ After(t, Len(u) + 1) = v
  BY AroundMark
<1> HIDE DEF t
<1> DEFINE P == Places(t, chars)
<1>3. Len(u) \in Nat /\ Len(v) \in Nat /\ Len(t) \in Nat
  BY <1>1 DEF TextSeq
<1>4. P \in SUBSET (1 .. Len(t)) /\ Len(u) + 1 \in P
  BY <1>2, <1>3 DEF Places
<1>5. Final(P) \in P /\ \A j \in P : j <= Final(P)
  <2> HIDE DEF P
  <2> QED
    BY <1>3, <1>4, LastPlace
<1>6. Final(P) = Len(u) + 1
  <2>1. Final(P) \in 1 .. Len(t) /\ t[Final(P)] \in chars /\ Len(u) + 1 <= Final(P)
    BY <1>4, <1>5 DEF Places
  <2>2. ASSUME Final(P) > Len(u) + 1 PROVE FALSE
    <3> DEFINE i == Final(P) - (Len(u) + 1)
    <3>1. i \in 1 .. Len(v) /\ Len(u) + 1 + i = Final(P)
      BY <1>1, <1>3, <2>1, <2>2
    <3>2. t[Final(P)] = v[i]
      BY <1>1, <3>1
    <3> QED
      BY <2>1, <3>1, <3>2 DEF Free
  <2> QED
    BY <1>3, <2>1, <2>2
<1> QED
  BY <1>2, <1>4, <1>6 DEF t

\* The text before the first place, and after the last one.
LEMMA SplitFirst ==
  ASSUME NEW chars, NEW t \in TextSeq, Places(t, chars) # {}
  PROVE  LET i == First(Places(t, chars))
         IN  /\ i \in 1 .. Len(t) /\ t[i] \in chars /\ Free(Before(t, i), chars)
             /\ Before(t, i) \in TextSeq /\ After(t, i) \in TextSeq
             /\ t = Before(t, i) \o <<t[i]>> \o After(t, i)
<1> DEFINE P == Places(t, chars)
<1>1. P \in SUBSET Nat
  BY DEF Places, TextSeq
<1>2. First(P) \in P /\ \A j \in P : First(P) <= j
  <2> HIDE DEF P
  <2> QED
    BY <1>1, LeastPlace DEF P
<1> DEFINE i == First(P)
<1>3. i \in 1 .. Len(t) /\ t[i] \in chars /\ Len(t) \in Nat
  BY <1>2 DEF Places, TextSeq
<1>4. \A j \in 1 .. Len(t) : t[j] \in chars => i <= j
  BY <1>2 DEF Places
<1> HIDE DEF i
<1>5. /\ Before(t, i) \in TextSeq /\ After(t, i) \in TextSeq
      /\ Len(Before(t, i)) = i - 1
      /\ \A j \in 1 .. i - 1 : Before(t, i)[j] = t[j]
      /\ t = Before(t, i) \o <<t[i]>> \o After(t, i)
  BY <1>3, SplitAt
<1>6. Free(Before(t, i), chars)
  BY <1>3, <1>4, <1>5 DEF Free
<1> QED
  BY <1>3, <1>5, <1>6 DEF i

LEMMA SplitFinal ==
  ASSUME NEW chars, NEW t \in TextSeq, Places(t, chars) # {}
  PROVE  LET i == Final(Places(t, chars))
         IN  /\ i \in 1 .. Len(t) /\ t[i] \in chars
             /\ Before(t, i) \in TextSeq /\ After(t, i) \in TextSeq
             /\ t = Before(t, i) \o <<t[i]>> \o After(t, i)
<1> DEFINE P == Places(t, chars)
<1>1. Len(t) \in Nat /\ P \in SUBSET (1 .. Len(t))
  BY DEF Places, TextSeq
<1>2. Final(P) \in P
  <2> HIDE DEF P
  <2> QED
    BY <1>1, LastPlace DEF P
<1> DEFINE i == Final(P)
<1>3. i \in 1 .. Len(t) /\ t[i] \in chars
  BY <1>2 DEF Places
<1> HIDE DEF i
<1> QED
  BY <1>3, SplitAt DEF i

LEMMA LenNat == \A t \in TextSeq : Len(t) \in Nat
  BY DEF TextSeq

LEMMA Within ==
  \A n \in Nat : \A m \in 1 .. n, k \in 1 .. n :
    /\ m \in Nat /\ m \in Int /\ k \in Int
    /\ 1 \in 1 .. n /\ n \in 1 .. n
    /\ \A i \in m .. k : i \in 1 .. n
  OBVIOUS

\* Texts of one word or mark, of two, and of none.
LEMMA Ones ==
  ASSUME NEW c \in Alphabet
  PROVE  <<c>> \in TextSeq /\ Len(<<c>>) = 1 /\ <<c>>[1] = c
  BY DEF TextSeq

LEMMA None0 == <<>> \in TextSeq /\ Len(<<>>) = 0
  BY DEF TextSeq

LEMMA OneIs ==
  ASSUME NEW t \in TextSeq, Len(t) = 1
  PROVE  t = <<t[1]>>
  BY DEF TextSeq

LEMMA Twos ==
  ASSUME NEW c \in Alphabet, NEW d \in Alphabet
  PROVE  <<c, d>> = <<c>> \o <<d>>
<1>1. <<c>> \in Seq(Alphabet) /\ <<d>> \in Seq(Alphabet) /\ Len(<<c>>) = 1 /\ Len(<<d>>) = 1
  OBVIOUS
<1> DEFINE s == <<c>> \o <<d>>
<1>2. /\ s \in Seq(Alphabet) /\ Len(s) = Len(<<c>>) + Len(<<d>>)
      /\ \A i \in 1 .. Len(<<c>>) + Len(<<d>>) : s[i] = IF i <= Len(<<c>>) THEN <<c>>[i] ELSE <<d>>[i - Len(<<c>>)]
  BY ONLY <1>1, ConcatProperties
<1>3. Len(s) = 2 /\ s[1] = c /\ s[2] = d
  <2> HIDE DEF s
  <2> QED
    BY <1>1, <1>2
<1> HIDE DEF s
<1>4. <<c, d>> \in Seq(Alphabet) /\ Len(<<c, d>>) = 2
  OBVIOUS
<1>5. \A i \in 1 .. Len(<<c, d>>) : <<c, d>>[i] = s[i]
  BY <1>3, <1>4
<1>6. <<c, d>> = s
  BY <1>2, <1>3, <1>4, <1>5, SeqEqual
<1> QED
  BY <1>6 DEF s

LEMMA Paired ==
  ASSUME NEW u \in TextSeq, NEW c \in Alphabet, NEW d \in Alphabet
  PROVE  u \o <<c, d>> = u \o <<c>> \o <<d>>
<1>1. u \in Seq(Alphabet) /\ <<c>> \in Seq(Alphabet) /\ <<d>> \in Seq(Alphabet)
  BY DEF TextSeq
<1>2. (u \o <<c>>) \o <<d>> = u \o (<<c>> \o <<d>>)
  BY ONLY <1>1, ConcatAssociative
<1> QED
  BY <1>2, Twos

\* The first word or mark of a text, and the rest.
LEMMA HeadFirst ==
  ASSUME NEW t \in TextSeq, t # <<>>
  PROVE  Tail(t) \in TextSeq /\ t = <<t[1]>> \o Tail(t) /\ Len(t) \in Nat /\ 1 \in 1 .. Len(t) /\ t[1] \in Alphabet
  BY DEF TextSeq

LEMMA TailOf ==
  ASSUME NEW c \in Alphabet, NEW t \in TextSeq
  PROVE  /\ <<c>> \o t \in TextSeq /\ <<c>> \o t # <<>> /\ (<<c>> \o t)[1] = c /\ Tail(<<c>> \o t) = t
         /\ Len(<<c>> \o t) = Len(t) + 1
         /\ \A i \in 1 .. Len(t) : (<<c>> \o t)[i + 1] = t[i]
  BY DEF TextSeq

LEMMA NoneLeft ==
  ASSUME NEW t \in TextSeq
  PROVE  t \o <<>> = t /\ <<>> \o t = t
  BY ConcatEmptySeq DEF TextSeq

\* What the alphabet has.
LEMMA Marks == Punctuation \subseteq Alphabet /\ DOMAIN Numbers \subseteq Alphabet /\ Dotted \subseteq Alphabet
               /\ Pieces \subseteq Alphabet /\ Ports \subseteq Alphabet
  BY ZeroIs DEF Alphabet, Words

----------------------------------------------------------------------------
(* An IPv6 address with or without a scope. *)

\* A number is read as a scope.
LEMMA ScopeIs ==
  ASSUME NEW n \in DOMAIN Numbers
  PROVE  parseScopeIdNumeric(<<n>>) = n /\ n # None
  BY EndpointAssumption DEF parseScopeIdNumeric

\* An address with a scope is read,
LEMMA ScopedRead ==
  ASSUME NEW u \in TextSeq, Free(u, {"%"}), inet_pton6(u), NEW port, NEW n \in DOMAIN Numbers,
         NEW t, t = u \o <<"%", n>> \/ (n = Zero /\ t = u)
  PROVE  parseIpv6WithOptionalScope(t, port) = makeIpEndpointV6(u, port, n)
<1> DEFINE P == Places(t, {"%"})
<1>1. n # None
  BY ScopeIs
<1>2. CASE t = u \o <<"%", n>>
  <2>1. "%" \in Alphabet /\ n \in Alphabet /\ <<n>> \in TextSeq
    BY Marks, Ones DEF Punctuation
  <2>2. t = u \o <<"%">> \o <<n>>
    BY <1>2, <2>1, Paired
  <2>3. P # {} /\ Before(t, First(P)) = u /\ After(t, First(P)) = <<n>>
    BY <2>1, <2>2, FirstOf
  <2> HIDE DEF P
  <2> QED
    BY <1>1, <2>3, ScopeIs DEF parseIpv6WithOptionalScope, P
<1>3. CASE n = Zero /\ t = u
  <2>1. P = {}
    BY <1>3 DEF Free, Places
  <2> QED
    BY <1>1, <1>3, <2>1 DEF parseIpv6WithOptionalScope
<1> QED
  BY <1>2, <1>3

\* and nothing else.
LEMMA ScopedWritten ==
  ASSUME NEW t \in TextSeq, NEW port, parseIpv6WithOptionalScope(t, port) # None
  PROVE  \E u \in TextSeq, n \in DOMAIN Numbers :
           /\ parseIpv6WithOptionalScope(t, port) = makeIpEndpointV6(u, port, n)
           /\ t = u \o <<"%", n>> \/ (n = Zero /\ t = u)
<1> DEFINE P == Places(t, {"%"})
<1>1. CASE P = {}
  <2>1. parseIpv6WithOptionalScope(t, port) = makeIpEndpointV6(t, port, Zero)
    BY <1>1 DEF parseIpv6WithOptionalScope
  <2> QED
    BY <2>1, ZeroIs
<1>2. CASE P # {}
  <2> DEFINE i == First(P)  u == Before(t, i)  v == After(t, i)  n == parseScopeIdNumeric(v)
  <2>1. /\ t[i] \in {"%"} /\ u \in TextSeq /\ v \in TextSeq
        /\ t = u \o <<t[i]>> \o v
    BY <1>2, SplitFirst
  <2>2. n # None /\ parseIpv6WithOptionalScope(t, port) = makeIpEndpointV6(u, port, n)
    BY <1>2 DEF parseIpv6WithOptionalScope
  <2> HIDE DEF i, u, P
  <2>3. Len(v) = 1 /\ v[1] = n /\ n \in DOMAIN Numbers
    BY <2>2 DEF parseScopeIdNumeric
  <2> HIDE DEF v, n
  <2>4. v = <<n>>
    BY <2>1, <2>3, OneIs
  <2>5. t = u \o <<"%">> \o <<n>>
    BY <2>1, <2>4
  <2>6. t = u \o <<"%", n>>
    <3>1. "%" \in Alphabet /\ n \in Alphabet
      BY <2>3, Marks DEF Punctuation
    <3> QED
      BY <2>1, <2>5, <3>1, Paired
  <2> QED
    BY <2>1, <2>2, <2>3, <2>6
<1> QED
  BY <1>1, <1>2

----------------------------------------------------------------------------
(* In brackets, with or without a port. *)

\* What follows the bracket, for a port.
PortText(r, port) == (r = <<>> /\ port = Zero) \/ (port \in Ports /\ r = <<":", port>>)

\* A port is read as one.
LEMMA PortIs ==
  ASSUME NEW n \in Ports
  PROVE  parsePort(<<n>>) = n /\ n # None
  BY EndpointAssumption, ZeroIs DEF parsePort

\* What is in brackets is read, with the port behind them,
LEMMA BracketRead ==
  ASSUME NEW s \in TextSeq, Free(s, {"]"}), NEW port, NEW r, PortText(r, port)
  PROVE  parseBracketed(<<"[">> \o s \o <<"]">> \o r) = parseIpv6WithOptionalScope(s, port)
<1> DEFINE b == <<"[">> \o s  t == b \o <<"]">> \o r  P == Places(t, {"]"})
<1>1. "[" \in Alphabet /\ "]" \in Alphabet /\ ":" \in Alphabet
  BY Marks DEF Punctuation
<1>2. b \in TextSeq /\ Tail(b) = s
  BY <1>1, TailOf
<1>3. Free(b, {"]"})
  <2>1. /\ Len(b) = Len(s) + 1 /\ b[1] = "["
        /\ \A i \in 1 .. Len(s) : b[i + 1] = s[i]
    BY <1>1, TailOf
  <2> HIDE DEF b
  <2>2. ASSUME NEW i \in 1 .. Len(b) PROVE b[i] # "]"
    <3>1. CASE i = 1
      BY <2>1, <3>1
    <3>2. CASE i # 1
      <4>1. i - 1 \in 1 .. Len(s) /\ (i - 1) + 1 = i
        BY <2>1, <3>2 DEF TextSeq
      <4>2. b[i] = s[i - 1]
        BY <2>1, <4>1
      <4> QED
        BY <4>1, <4>2 DEF Free
    <3> QED
      BY <3>1, <3>2
  <2> QED
    BY <2>2 DEF Free
<1>4. r \in TextSeq
  <2>1. CASE r = <<>>
    BY <2>1, None0
  <2>2. CASE port \in Ports /\ r = <<":", port>>
    BY <1>1, <2>2, Marks DEF TextSeq
  <2> QED
    BY <2>1, <2>2 DEF PortText
<1>5. P # {} /\ Before(t, First(P)) = b /\ After(t, First(P)) = r
  <2> HIDE DEF b
  <2> QED
    BY <1>1, <1>2, <1>3, <1>4, FirstOf
<1> HIDE DEF b, t, P
<1>6. parseBracketed(t) =
        LET p == CASE r = <<>> -> Zero
                   [] r # <<>> /\ r[1] = ":" -> parsePort(Tail(r))
                   [] OTHER -> None
        IN IF p = None THEN None ELSE parseIpv6WithOptionalScope(s, p)
  BY <1>2, <1>5 DEF parseBracketed, P
<1>7. CASE r = <<>> /\ port = Zero
  BY <1>6, <1>7, ZeroIs, EndpointAssumption DEF t, b
<1>8. CASE port \in Ports /\ r = <<":", port>>
  <2>1. r # <<>> /\ r[1] = ":" /\ Tail(r) = <<port>>
    BY <1>8
  <2> QED
    BY <1>6, <1>8, <2>1, PortIs DEF t, b
<1> QED
  BY <1>7, <1>8 DEF PortText

\* and nothing else.
LEMMA BracketWritten ==
  ASSUME NEW t \in TextSeq, t # <<>>, t[1] = "[", parseBracketed(t) # None
  PROVE  \E s \in TextSeq, r \in TextSeq, port \in Ports :
           /\ PortText(r, port)
           /\ t = <<"[">> \o s \o <<"]">> \o r
           /\ parseBracketed(t) = parseIpv6WithOptionalScope(s, port)
<1> DEFINE P == Places(t, {"]"})  i == First(P)  b == Before(t, i)  r == After(t, i)  s == Tail(b)
           p == CASE r = <<>> -> Zero
                  [] r # <<>> /\ r[1] = ":" -> parsePort(Tail(r))
                  [] OTHER -> None
<1>1. P # {}
  BY DEF parseBracketed
<1>2. p # None /\ parseBracketed(t) = parseIpv6WithOptionalScope(s, p)
  BY <1>1 DEF parseBracketed
<1>3. /\ i \in 1 .. Len(t) /\ t[i] \in {"]"} /\ b \in TextSeq /\ r \in TextSeq
      /\ t = b \o <<t[i]>> \o r
  BY <1>1, SplitFirst
<1>4. Len(b) = i - 1 /\ \A j \in 1 .. i - 1 : b[j] = t[j]
  <2> HIDE DEF i
  <2> QED
    BY <1>3, SplitAt
<1> HIDE DEF P, i, b, s
<1>5. b # <<>> /\ b[1] = "["
  <2>1. i # 1 /\ i \in Nat
    BY <1>3 DEF TextSeq
  <2>2. 1 \in 1 .. i - 1
    BY <1>3, <2>1 DEF TextSeq
  <2> QED
    BY <1>4, <2>1, <2>2, None0
<1>6. s \in TextSeq /\ b = <<"[">> \o s
  BY <1>3, <1>5, HeadFirst DEF s
<1>7. t = <<"[">> \o s \o <<"]">> \o r
  BY <1>3, <1>6
<1>8. p \in Ports /\ PortText(r, p)
  <2>1. CASE r = <<>>
    BY <2>1, ZeroIs DEF PortText
  <2>2. CASE r # <<>> /\ r[1] = ":"
    <3>1. parsePort(Tail(r)) # None
      BY <1>2, <2>2
    <3> DEFINE v == Tail(r)
    <3>2. v \in TextSeq /\ r = <<":">> \o v
      BY <1>3, <2>2, HeadFirst
    <3> HIDE DEF v
    <3>3. Len(v) = 1 /\ v[1] \in Ports /\ parsePort(v) = v[1]
      BY <3>1 DEF parsePort, v
    <3>4. v = <<v[1]>>
      BY <3>2, <3>3, OneIs
    <3>5. r = <<":", v[1]>>
      <4>1. v[1] \in Alphabet /\ ":" \in Alphabet
        BY <3>3, Marks DEF Punctuation
      <4> QED
        BY <3>2, <3>4, <4>1, Twos
    <3>6. p = v[1]
      BY <2>2, <3>3 DEF v
    <3> QED
      BY <3>3, <3>5, <3>6 DEF PortText
  <2> QED
    BY <1>2, <2>1, <2>2
<1> HIDE DEF p, r
<1> QED
  BY <1>2, <1>3, <1>6, <1>7, <1>8

----------------------------------------------------------------------------
(* A dotted address with or without a port. *)

\* A dotted address and a number are words.
LEMMA DottedIs ==
  ASSUME NEW a \in Dotted
  PROVE  /\ a \in Alphabet /\ <<a>> \in TextSeq /\ inet_pton4(<<a>>)
         /\ a \notin Pieces /\ a \notin Punctuation
  BY Marks, Ones, EndpointAssumption DEF inet_pton4, Words

LEMMA PortWord ==
  ASSUME NEW n \in DOMAIN Numbers
  PROVE  n \in Alphabet /\ <<n>> \in TextSeq /\ n \notin Pieces /\ n \notin Punctuation
  BY Marks, Ones, EndpointAssumption DEF Words

\* A dotted address is read, with the port behind it,
LEMMA DottedRead ==
  ASSUME NEW a \in Dotted, NEW n \in Ports
  PROVE  /\ parseDotted(<<a>>) = makeIpEndpointV4(<<a>>, Zero)
         /\ parseDotted(<<a>> \o <<":", n>>) = makeIpEndpointV4(<<a>>, n)
<1> DEFINE C == {":"} \cup Pieces
<1>1. a \notin C /\ n \notin C /\ ":" \in C /\ ":" \in Alphabet /\ n \in DOMAIN Numbers
  BY DottedIs, PortWord, ZeroIs, Marks DEF Punctuation
<1>2. /\ <<a>> \in TextSeq /\ <<n>> \in TextSeq /\ n \in Alphabet
  BY <1>1, DottedIs, PortWord
<1>3. parseDotted(<<a>>) = makeIpEndpointV4(<<a>>, Zero)
  <2>1. Places(<<a>>, C) = {}
    <3> HIDE DEF C
    <3> QED
      BY <1>1 DEF Places
  <2>2. Zero # None
    BY PortIs, ZeroIs
  <2> QED
    BY <2>1, <2>2, DottedIs DEF parseDotted, parseIpv4
<1>4. parseDotted(<<a>> \o <<":", n>>) = makeIpEndpointV4(<<a>>, n)
  <2> DEFINE t == <<a>> \o <<":", n>>  P == Places(t, C)
  <2>1. t = <<a>> \o <<":">> \o <<n>>
    BY <1>1, <1>2, Paired
  <2>2. Free(<<n>>, C)
    <3> HIDE DEF C
    <3> QED
      BY <1>1 DEF Free
  <2> HIDE DEF C
  <2>3. /\ P # {} /\ Final(P) = Len(<<a>>) + 1
        /\ Before(t, Final(P)) = <<a>> /\ After(t, Final(P)) = <<n>>
    <3> DEFINE x == <<a>> \o <<":">> \o <<n>>
    <3>1. /\ Places(x, C) # {} /\ Final(Places(x, C)) = Len(<<a>>) + 1
          /\ Before(x, Final(Places(x, C))) = <<a>> /\ After(x, Final(Places(x, C))) = <<n>>
      BY <1>1, <1>2, <2>2, FinalOf
    <3>2. t = x
      BY <2>1
    <3> HIDE DEF t, x
    <3> QED
      BY <3>1, <3>2 DEF P
  <2>4. t[Len(<<a>>) + 1] = ":"
    BY <1>1, <1>2, <2>1, Marked
  <2>5. ":" \notin Pieces
    BY EndpointAssumption DEF Words, Punctuation
  <2> HIDE DEF t, P
  <2>6. parseDotted(t) = IF parsePort(<<n>>) = None THEN None ELSE parseIpv4(<<a>>, parsePort(<<n>>))
    BY <2>3, <2>4, <2>5 DEF parseDotted, P, C
  <2>7. parsePort(<<n>>) = n /\ n # None
    BY PortIs
  <2> QED
    BY <2>6, <2>7, DottedIs DEF parseIpv4, t
<1> QED
  BY <1>3, <1>4

\* and nothing else.
LEMMA DottedWritten ==
  ASSUME NEW t \in TextSeq, parseDotted(t) # None
  PROVE  \E u \in TextSeq, n \in Ports :
           /\ parseDotted(t) = makeIpEndpointV4(u, n)
           /\ t = u \o <<":", n>> \/ (n = Zero /\ t = u)
<1> DEFINE C == {":"} \cup Pieces  P == Places(t, C)
<1>1. CASE P = {}
  <2>1. parseDotted(t) = makeIpEndpointV4(t, Zero)
    BY <1>1 DEF parseDotted, parseIpv4
  <2> QED
    BY <2>1, ZeroIs
<1>2. CASE P # {}
  <2> DEFINE i == Final(P)  u == Before(t, i)  v == After(t, i)
  <2>1. /\ t[i] \in C /\ u \in TextSeq /\ v \in TextSeq
        /\ t = u \o <<t[i]>> \o v
    <3> HIDE DEF C
    <3> QED
      BY <1>2, SplitFinal
  <2>2. t[i] \notin Pieces /\ parsePort(v) # None /\ parseDotted(t) = makeIpEndpointV4(u, parsePort(v))
    BY <1>2 DEF parseDotted, parseIpv4
  <2>3. t[i] = ":"
    BY <2>1, <2>2
  <2> HIDE DEF i, u, v, P, C
  <2>4. Len(v) = 1 /\ v[1] \in Ports /\ parsePort(v) = v[1]
    BY <2>2 DEF parsePort
  <2>5. v = <<v[1]>>
    BY <2>1, <2>4, OneIs
  <2>6. t = u \o <<":", v[1]>>
    <3>1. ":" \in Alphabet /\ v[1] \in Alphabet
      BY <2>4, Marks DEF Punctuation
    <3>2. t = u \o <<":">> \o <<v[1]>>
      BY <2>1, <2>3, <2>5
    <3> QED
      BY <2>1, <3>1, <3>2, Paired
  <2> QED
    BY <2>1, <2>2, <2>4, <2>6
<1> QED
  BY <1>1, <1>2

----------------------------------------------------------------------------
(* All notations. *)

\* What parseIpEndpoint() does with a text that is trimmed.
Read(t) ==
  CASE t = <<>> -> None
    [] t # <<>> /\ t[1] = "[" -> parseBracketed(t)
    [] t # <<>> /\ t[1] # "[" /\ Places(t, Dotted) # {} -> parseDotted(t)
    [] OTHER -> parseIpv6WithOptionalScope(t, Zero)

\* What is read is a notation of the endpoint it is read as.
LEMMA ReadIsNotation ==
  ASSUME NEW t \in TextSeq, Read(t) # None
  PROVE  Read(t).port \in Ports /\ t \in Notations(Read(t))
<1>1. CASE t # <<>> /\ t[1] = "["
  <2>1. Read(t) = parseBracketed(t)
    BY <1>1 DEF Read
  <2>2. PICK s \in TextSeq, r \in TextSeq, port \in Ports :
          /\ PortText(r, port)
          /\ t = <<"[">> \o s \o <<"]">> \o r
          /\ parseBracketed(t) = parseIpv6WithOptionalScope(s, port)
    BY <1>1, <2>1, BracketWritten
  <2>3. PICK u \in TextSeq, n \in DOMAIN Numbers :
          /\ parseIpv6WithOptionalScope(s, port) = makeIpEndpointV6(u, port, n)
          /\ s = u \o <<"%", n>> \/ (n = Zero /\ s = u)
    BY <2>1, <2>2, ScopedWritten
  <2> DEFINE ep == makeIpEndpointV6(u, port, n)
             scoped == {ep.ip \o <<"%", ep.scope_id>>}
                         \cup (IF ep.scope_id = Zero THEN {ep.ip} ELSE {})
             inBrackets == {<<"[">> \o x \o <<"]">> : x \in scoped}
             c == <<"[">> \o s \o <<"]">>
  <2>4. Read(t) = ep
    BY <2>1, <2>2, <2>3
  <2>5. ep.ip = u /\ ep.port = port /\ ep.scope_id = n /\ ~isV4(ep)
    BY DEF makeIpEndpointV6, isV4
  <2>6. s \in scoped
    BY <2>3, <2>5
  <2>7. c \in inBrackets
    BY <2>6
  <2>8. Notations(ep) = {x \o <<":", ep.port>> : x \in inBrackets}
                          \cup (IF ep.port # Zero THEN {}
                                  ELSE inBrackets \cup {x \in scoped : Places(x, Dotted) = {}})
    <3> HIDE DEF ep
    <3> QED
      BY <2>5 DEF Notations
  <2>9. t \in Notations(ep)
    <3> HIDE DEF ep, scoped, inBrackets
    <3>1. CASE r = <<>> /\ port = Zero
      <4>1. c \in TextSeq
        <5>1. "[" \in Alphabet /\ "]" \in Alphabet
          BY Marks DEF Punctuation
        <5>2. <<"[">> \o s \in TextSeq
          BY <5>1, TailOf
        <5>3. c \o <<>> \in TextSeq /\ <<"[">> \o s \o <<"]">> \o <<>> \in TextSeq
          BY <5>1, <5>2, None0, Marked
        <5> DEFINE b == <<"[">> \o s
        <5>4. <<"]">> \in TextSeq
          BY <5>1, Ones
        <5> HIDE DEF b
        <5>5. b \in Seq(Alphabet) /\ <<"]">> \in Seq(Alphabet)
          BY <5>2, <5>4 DEF TextSeq, b
        <5>6. b \o <<"]">> \in Seq(Alphabet)
          BY ONLY <5>5, ConcatProperties
        <5> QED
          BY <5>6 DEF b, TextSeq
      <4>2. t = c
        <5> HIDE DEF c
        <5>1. t = c \o <<>>
          BY <2>2, <3>1 DEF c
        <5> QED
          BY <4>1, <5>1, NoneLeft
      <4> QED
        BY <2>5, <2>7, <2>8, <3>1, <4>2
    <3>2. CASE port \in Ports /\ r = <<":", port>>
      <4>1. t = c \o <<":", ep.port>>
        BY <2>2, <2>5, <3>2
      <4> HIDE DEF c
      <4> QED
        BY <2>7, <2>8, <4>1
    <3> QED
      BY <2>2, <3>1, <3>2 DEF PortText
  <2> QED
    BY <2>2, <2>4, <2>5, <2>9
<1>2. CASE t # <<>> /\ t[1] # "[" /\ Places(t, Dotted) # {}
  <2>1. Read(t) = parseDotted(t)
    BY <1>2 DEF Read
  <2>2. PICK u \in TextSeq, n \in Ports :
           /\ parseDotted(t) = makeIpEndpointV4(u, n)
           /\ t = u \o <<":", n>> \/ (n = Zero /\ t = u)
    BY <2>1, DottedWritten
  <2> DEFINE ep == makeIpEndpointV4(u, n)
  <2>3. Read(t) = ep /\ ep.ip = u /\ ep.port = n /\ isV4(ep)
    BY <2>1, <2>2 DEF makeIpEndpointV4, isV4
  <2> HIDE DEF ep
  <2>4. t \in Notations(ep)
    BY <2>2, <2>3 DEF Notations
  <2> QED
    BY <2>2, <2>3, <2>4
<1>3. CASE t # <<>> /\ t[1] # "[" /\ Places(t, Dotted) = {}
  <2>1. Read(t) = parseIpv6WithOptionalScope(t, Zero)
    BY <1>3 DEF Read
  <2>2. PICK u \in TextSeq, n \in DOMAIN Numbers :
          /\ parseIpv6WithOptionalScope(t, Zero) = makeIpEndpointV6(u, Zero, n)
          /\ t = u \o <<"%", n>> \/ (n = Zero /\ t = u)
    BY <2>1, ScopedWritten
  <2> DEFINE ep == makeIpEndpointV6(u, Zero, n)
  <2>3. Read(t) = ep /\ ep.ip = u /\ ep.port = Zero /\ ep.scope_id = n /\ ~isV4(ep)
    BY <2>1, <2>2 DEF makeIpEndpointV6, isV4
  <2> HIDE DEF ep
  <2>4. t \in Notations(ep)
    BY <1>3, <2>2, <2>3 DEF Notations
  <2> QED
    BY <2>3, <2>4, ZeroIs
<1> QED
  BY <1>1, <1>2, <1>3 DEF Read

\* Texts without certain marks.
LEMMA FreeConcat ==
  ASSUME NEW u \in TextSeq, NEW v \in TextSeq, NEW chars, Free(u, chars), Free(v, chars)
  PROVE  u \o v \in TextSeq /\ Free(u \o v, chars)
<1>1. /\ u \o v \in Seq(Alphabet) /\ Len(u \o v) = Len(u) + Len(v)
      /\ \A i \in 1 .. Len(u) + Len(v) : (u \o v)[i] = IF i <= Len(u) THEN u[i] ELSE v[i - Len(u)]
  BY ConcatProperties DEF TextSeq
<1>2. Len(u) \in Nat /\ Len(v) \in Nat
  BY DEF TextSeq
<1> DEFINE w == u \o v
<1> HIDE DEF w
<1>3. ASSUME NEW i \in 1 .. Len(w) PROVE w[i] \notin chars
  <2>1. CASE i <= Len(u)
    BY <1>1, <1>2, <2>1 DEF Free, w
  <2>2. CASE ~(i <= Len(u))
    <3>1. i - Len(u) \in 1 .. Len(v)
      BY <1>1, <1>2, <2>2 DEF w
    <3>2. w[i] = v[i - Len(u)]
      BY <1>1, <2>2 DEF w
    <3> QED
      BY <3>1, <3>2 DEF Free
  <2> QED
    BY <2>1, <2>2
<1> QED
  BY <1>1, <1>3 DEF Free, w, TextSeq

LEMMA FreeOne ==
  ASSUME NEW c \in Alphabet, NEW chars, c \notin chars
  PROVE  <<c>> \in TextSeq /\ Free(<<c>>, chars)
  BY Ones DEF Free

LEMMA FreePair ==
  ASSUME NEW u \in TextSeq, NEW c \in Alphabet, NEW d \in Alphabet, NEW chars,
         Free(u, chars), c \notin chars, d \notin chars
  PROVE  u \o <<c, d>> \in TextSeq /\ Free(u \o <<c, d>>, chars)
<1>1. u \o <<c, d>> = u \o <<c>> \o <<d>>
  BY Paired
<1>2. u \o <<c>> \in TextSeq /\ Free(u \o <<c>>, chars)
  BY FreeOne, FreeConcat
<1>3. <<d>> \in TextSeq /\ Free(<<d>>, chars)
  BY FreeOne
<1> DEFINE w == u \o <<c>>
<1> HIDE DEF w
<1>4. w \o <<d>> \in TextSeq /\ Free(w \o <<d>>, chars)
  BY <1>2, <1>3, FreeConcat DEF w
<1> QED
  BY <1>1, <1>4 DEF w

\* What is in no text of an address.
Closing == {"]", " ", "%"}

\* A piece is a word.
LEMMA PieceIs ==
  ASSUME NEW h \in Pieces
  PROVE  h \in Alphabet /\ h \notin Punctuation
  BY Marks, EndpointAssumption DEF Words

\* The addresses of the endpoints are read by inet_pton(), and hide no bracket, blank or scope.
LEMMA AddressIs ==
  ASSUME NEW u \in V6Addresses
  PROVE  /\ u \in TextSeq /\ Free(u, Closing) /\ inet_pton6(u)
         /\ u # <<>> /\ u[1] \in Pieces
<1>1. ASSUME NEW h \in Pieces, u = <<h>>
      PROVE  /\ u \in TextSeq /\ Free(u, Closing) /\ inet_pton6(u)
             /\ u # <<>> /\ u[1] \in Pieces
  <2>1. u \in TextSeq /\ Len(u) = 1 /\ u[1] = h /\ h \notin Punctuation
    BY <1>1, PieceIs, Ones
  <2>2. Free(u, Closing)
    <3>1. h \notin Closing
      BY <2>1 DEF Closing, Punctuation
    <3> QED
      BY <1>1, <2>1, <3>1, FreeOne, PieceIs
  <2>3. inet_pton6(u)
    BY <2>1 DEF inet_pton6
  <2> QED
    BY <2>1, <2>2, <2>3, None0
<1>2. ASSUME NEW h \in Mapped, NEW a \in Dotted, u = <<h, ":", a>>
      PROVE  /\ u \in TextSeq /\ Free(u, Closing) /\ inet_pton6(u)
             /\ u # <<>> /\ u[1] \in Pieces
  <2>1. h \in Pieces /\ h \in Alphabet /\ h \notin Punctuation /\ a \in Alphabet /\ a \notin Punctuation
        /\ ":" \in Alphabet
    BY PieceIs, DottedIs, Marks DEF Pieces, Punctuation
  <2>2. u \in TextSeq /\ Len(u) = 3 /\ u[1] = h /\ u[2] = ":" /\ u[3] = a
    BY <1>2, <2>1 DEF TextSeq
  <2>3. Free(u, Closing)
    <3>1. h \notin Closing /\ a \notin Closing /\ ":" \notin Closing
      BY <2>1 DEF Closing, Punctuation
    <3>2. \A i \in 1 .. Len(u) : i = 1 \/ i = 2 \/ i = 3
      BY <2>2
    <3> QED
      BY <2>2, <3>1, <3>2 DEF Free
  <2>4. inet_pton6(u)
    <3>1. \A i \in 1 .. Len(u) : i % 2 = 0 => u[i] = ":"
      BY <2>2
    <3>2. \A j \in (1 .. Len(u)) \ {1} : j % 2 = 1 => u[j] \in Groups4 \/ (j = Len(u) /\ j > 1 /\ u[j] \in Dotted)
      BY <2>2
    <3> QED
      BY <2>1, <2>2, <3>1, <3>2 DEF inet_pton6
  <2>5. u # <<>>
    BY ONLY <2>2, None0
  <2>6. u[1] \in Pieces
    BY ONLY <2>1, <2>2
  <2> QED
    BY ONLY <2>2, <2>3, <2>4, <2>5, <2>6
<1> QED
  BY <1>1, <1>2 DEF V6Addresses

\* So do they with a scope.
LEMMA ScopedText ==
  ASSUME NEW u \in V6Addresses, NEW n \in DOMAIN Numbers,
         NEW x, x = u \o <<"%", n>> \/ (n = Zero /\ x = u)
  PROVE  /\ x \in TextSeq /\ Free(x, {"]"}) /\ Free(x, {" "}) /\ x # <<>> /\ x[1] \in Pieces
         /\ \A port : parseIpv6WithOptionalScope(x, port) = makeIpEndpointV6(u, port, n)
<1>1. /\ u \in TextSeq /\ Free(u, Closing) /\ inet_pton6(u)
      /\ u # <<>> /\ u[1] \in Pieces
  BY AddressIs
<1>2. Free(u, {"%"}) /\ Free(u, {"]"}) /\ Free(u, {" "})
  BY <1>1 DEF Free, Closing
<1>3. \A port : parseIpv6WithOptionalScope(x, port) = makeIpEndpointV6(u, port, n)
  BY <1>1, <1>2, ScopedRead
<1>4. CASE x = u \o <<"%", n>>
  <2>1. "%" \in Alphabet /\ n \in Alphabet /\ n \notin Punctuation
    BY PortWord, Marks DEF Punctuation
  <2>2. x \in TextSeq /\ Free(x, {"]"}) /\ Free(x, {" "})
    BY <1>1, <1>2, <1>4, <2>1, FreePair DEF Punctuation
  <2>3. x # <<>> /\ x[1] = u[1]
    <3>1. x = u \o <<"%">> \o <<n>> /\ <<n>> \in TextSeq
      BY <1>1, <1>4, <2>1, Paired, Ones
    <3>2. 1 \in 1 .. Len(u)
      BY <1>1, HeadFirst
    <3>3. /\ Len(x) = Len(u) + 1 + Len(<<n>>) /\ \A i \in 1 .. Len(u) : x[i] = u[i]
      BY <1>1, <2>1, <3>1, Marked
    <3>4. Len(u) \in Nat /\ Len(<<n>>) \in Nat
      BY <1>1, <3>1 DEF TextSeq
    <3>5. Len(x) # 0
      BY <3>3, <3>4
    <3> QED
      BY <3>2, <3>3, <3>5, None0
  <2> QED
    BY <1>1, <1>3, <2>2, <2>3
<1>5. CASE n = Zero /\ x = u
  BY <1>1, <1>2, <1>3, <1>5
<1> QED
  BY <1>4, <1>5

\* The endpoints, by their families.
LEMMA EndpointIs ==
  ASSUME NEW e \in Endpoints
  PROVE  \/ \E a \in Dotted, n \in Ports : e = makeIpEndpointV4(<<a>>, n)
         \/ \E u \in V6Addresses, n \in Ports, s \in DOMAIN Numbers : e = makeIpEndpointV6(u, n, s)
<1>1. e \in V4Endpoints => \E a \in Dotted, n \in Ports : e = makeIpEndpointV4(<<a>>, n)
  BY DEF V4Endpoints
<1>2. e \in V6Endpoints => \E u \in V6Addresses, n \in Ports, s \in DOMAIN Numbers : e = makeIpEndpointV6(u, n, s)
  BY DEF V6Endpoints
<1> QED
  BY <1>1, <1>2 DEF Endpoints

\* A notation of an endpoint is read as it.
LEMMA NotationIsRead ==
  ASSUME NEW e \in Endpoints, NEW t \in Notations(e)
  PROVE  t \in TextSeq /\ Free(t, {" "}) /\ t # <<>> /\ Read(t) = e
<1>1. ASSUME NEW a \in Dotted, NEW n \in Ports, e = makeIpEndpointV4(<<a>>, n)
      PROVE  t \in TextSeq /\ Free(t, {" "}) /\ t # <<>> /\ Read(t) = e
  <2>1. e.ip = <<a>> /\ e.port = n /\ isV4(e)
    BY <1>1 DEF makeIpEndpointV4, isV4
  <2>2. t = <<a>> \o <<":", n>> \/ (n = Zero /\ t = <<a>>)
    BY <2>1 DEF Notations
  <2>3. /\ a \in Alphabet /\ <<a>> \in TextSeq /\ a \notin Punctuation
        /\ n \in Alphabet /\ n \notin Punctuation /\ <<n>> \in TextSeq /\ ":" \in Alphabet
    BY DottedIs, PortWord, ZeroIs, Marks DEF Punctuation
  <2>4. Free(<<a>>, {" "})
    BY <2>3, FreeOne DEF Punctuation
  <2>5. t \in TextSeq /\ Free(t, {" "})
    BY <2>2, <2>3, <2>4, FreePair DEF Punctuation
  <2>6. 1 \in 1 .. Len(t) /\ t[1] = a
    <3>1. CASE t = <<a>>
      BY <3>1, <2>3, Ones
    <3>2. CASE t = <<a>> \o <<":", n>>
      <4>1. t = <<a>> \o <<":">> \o <<n>>
        BY <2>3, <3>2, Paired
      <4>2. Len(t) = 1 + 1 + 1 /\ \A i \in 1 .. Len(<<a>>) : t[i] = <<a>>[i]
        BY <2>3, <4>1, Marked, Ones
      <4> QED
        BY <2>3, <4>2, Ones
    <3> QED
      BY <2>2, <3>1, <3>2
  <2>7. t # <<>> /\ t[1] # "[" /\ Places(t, Dotted) # {}
    <3>1. t # <<>>
      BY <2>6, None0
    <3>2. a # "["
      BY <2>3 DEF Punctuation
    <3>3. 1 \in Places(t, Dotted)
      BY <2>6 DEF Places
    <3> QED
      BY <2>6, <3>1, <3>2, <3>3
  <2>8. Read(t) = parseDotted(t)
    BY <2>7 DEF Read
  <2> QED
    BY <1>1, <2>2, <2>5, <2>7, <2>8, DottedRead
<1>2. ASSUME NEW u \in V6Addresses, NEW n \in Ports, NEW s \in DOMAIN Numbers, e = makeIpEndpointV6(u, n, s)
      PROVE  t \in TextSeq /\ Free(t, {" "}) /\ t # <<>> /\ Read(t) = e
  <2> DEFINE scoped == {e.ip \o <<"%", e.scope_id>>}
                         \cup (IF e.scope_id = Zero THEN {e.ip} ELSE {})
             inBrackets == {<<"[">> \o x \o <<"]">> : x \in scoped}
  <2>1. e.ip = u /\ e.port = n /\ e.scope_id = s /\ ~isV4(e)
    BY <1>2 DEF makeIpEndpointV6, isV4
  <2>2. t \in {x \o <<":", e.port>> : x \in inBrackets}
                \cup (IF e.port # Zero THEN {}
                        ELSE inBrackets \cup {x \in scoped : Places(x, Dotted) = {}})
    BY <2>1 DEF Notations
  <2>3. ASSUME NEW x \in scoped
        PROVE  /\ x \in TextSeq /\ Free(x, {"]"}) /\ Free(x, {" "}) /\ x # <<>> /\ x[1] \in Pieces
               /\ \A port : parseIpv6WithOptionalScope(x, port) = makeIpEndpointV6(u, port, s)
    <3>1. x = u \o <<"%", s>> \/ (s = Zero /\ x = u)
      BY <2>1
    <3> HIDE DEF scoped
    <3> QED
      BY <3>1, ScopedText
  <2>4. ASSUME NEW x \in scoped, Places(x, Dotted) = {}, n = Zero, t = x
        PROVE  t \in TextSeq /\ Free(t, {" "}) /\ t # <<>> /\ Read(t) = e
    <3>1. x[1] # "["
      BY <2>3, PieceIs DEF Punctuation
    <3>2. Read(t) = parseIpv6WithOptionalScope(x, Zero)
      BY <2>3, <2>4, <3>1 DEF Read
    <3> QED
      BY <1>2, <2>3, <2>4, <3>2
  <2>5. ASSUME NEW x \in scoped, NEW r, PortText(r, n), t = <<"[">> \o x \o <<"]">> \o r
        PROVE  t \in TextSeq /\ Free(t, {" "}) /\ t # <<>> /\ Read(t) = e
    <3>1. x \in TextSeq /\ Free(x, {"]"}) /\ Free(x, {" "})
      BY <2>3
    <3>2. "[" \in Alphabet /\ "]" \in Alphabet /\ ":" \in Alphabet /\ n \in Alphabet /\ n \notin Punctuation
      BY Marks, PortWord, ZeroIs DEF Punctuation
    <3> DEFINE b == <<"[">> \o x
    <3>3. b \in TextSeq /\ Free(b, {" "}) /\ b # <<>> /\ b[1] = "["
      <4>1. <<"[">> \in TextSeq /\ Free(<<"[">>, {" "})
        <5>1. "[" \notin {" "}
          OBVIOUS
        <5> QED
          BY ONLY <3>2, <5>1, FreeOne
      <4>2. b \in TextSeq /\ Free(b, {" "})
        BY ONLY <3>1, <4>1, FreeConcat
      <4>3. b # <<>> /\ b[1] = "["
        BY ONLY <3>1, <3>2, TailOf
      <4> QED
        BY <4>2, <4>3
    <3> HIDE DEF b
    <3>4. r \in TextSeq /\ Free(r, {" "})
      <4>1. CASE r = <<>>
        BY <4>1, None0 DEF Free
      <4>2. CASE r = <<":", n>>
        <5>1. r = <<":">> \o <<n>>
          BY <3>2, <4>2, Twos
        <5>2. /\ <<":">> \in TextSeq /\ Free(<<":">>, {" "})
              /\ <<n>> \in TextSeq /\ Free(<<n>>, {" "})
          <6>1. n \notin {" "} /\ ":" \notin {" "}
            BY <3>2 DEF Punctuation
          <6> QED
            BY ONLY <3>2, <6>1, FreeOne
        <5> QED
          BY <5>1, <5>2, FreeConcat
      <4> QED
        BY <2>5, <4>1, <4>2 DEF PortText
    <3>5. b \o <<"]">> \in TextSeq /\ Free(b \o <<"]">>, {" "})
      BY <3>2, <3>3, FreeOne, FreeConcat
    <3>6. t \in TextSeq /\ Free(t, {" "})
      <4> DEFINE w == b \o <<"]">>
      <4> HIDE DEF w
      <4>1. w \o r \in TextSeq /\ Free(w \o r, {" "})
        BY <3>4, <3>5, FreeConcat DEF w
      <4> QED
        BY <2>5, <4>1 DEF w, b
    <3>7. t # <<>> /\ t[1] = "["
      <4>1. t = b \o <<"]">> \o r
        BY <2>5 DEF b
      <4>2. Len(t) = Len(b) + 1 + Len(r) /\ \A i \in 1 .. Len(b) : t[i] = b[i]
        <5>1. b \in TextSeq /\ r \in TextSeq /\ "]" \in Alphabet
          BY ONLY <3>2, <3>3, <3>4
        <5>2. /\ Len(b \o <<"]">> \o r) = Len(b) + 1 + Len(r)
              /\ \A i \in 1 .. Len(b) : (b \o <<"]">> \o r)[i] = b[i]
          BY ONLY <5>1, Marked
        <5> QED
          BY ONLY <4>1, <5>2
      <4>3. 1 \in 1 .. Len(b) /\ Len(b) \in Nat /\ Len(r) \in Nat
        <5>1. Len(r) \in Nat
          BY ONLY <3>4, LenNat
        <5> QED
          BY ONLY <3>3, <5>1, HeadFirst
      <4>4. Len(t) # 0 /\ t[1] = b[1]
        BY <4>2, <4>3
      <4> QED
        BY <3>3, <4>4, None0
    <3>8. Read(t) = parseBracketed(t)
      BY <3>7 DEF Read
    <3>9. parseBracketed(t) = parseIpv6WithOptionalScope(x, n)
      BY <2>5, <3>1, BracketRead
    <3> QED
      BY <1>2, <2>3, <3>6, <3>7, <3>8, <3>9
  <2>6. CASE t \in {x \o <<":", e.port>> : x \in inBrackets}
    <3>1. PICK x \in scoped : t = <<"[">> \o x \o <<"]">> \o <<":", n>>
      BY <2>1, <2>6
    <3> QED
      BY <2>5, <3>1 DEF PortText
  <2>7. CASE n = Zero /\ t \in inBrackets
    <3>1. PICK x \in scoped : t = <<"[">> \o x \o <<"]">>
      BY <2>7
    <3>2. t \o <<>> = t
      <4>1. "[" \in Alphabet /\ "]" \in Alphabet /\ x \in TextSeq
        BY <2>3, Marks DEF Punctuation
      <4>2. <<"[">> \o x \in TextSeq /\ <<"]">> \in TextSeq
        BY <4>1, TailOf, Ones
      <4> DEFINE w == <<"[">> \o x
      <4> HIDE DEF w
      <4>3. w \in Seq(Alphabet) /\ <<"]">> \in Seq(Alphabet)
        BY <4>2 DEF w, TextSeq
      <4>4. w \o <<"]">> \in Seq(Alphabet)
        BY ONLY <4>3, ConcatProperties
      <4>5. t \in TextSeq
        BY <3>1, <4>4 DEF w, TextSeq
      <4> QED
        BY <4>5, NoneLeft
    <3>3. t = <<"[">> \o x \o <<"]">> \o <<>>
      BY <3>1, <3>2
    <3> QED
      BY <2>5, <2>7, <3>3 DEF PortText
  <2>8. CASE n = Zero /\ t \in {x \in scoped : Places(x, Dotted) = {}}
    BY <2>4, <2>8
  <2> QED
    BY <2>1, <2>2, <2>6, <2>7, <2>8
<1> QED
  BY <1>1, <1>2, EndpointIs

----------------------------------------------------------------------------
(* The text that changes. *)

\* Blanks around a text are cut off, and only those.
LEMMA TrimmedIs ==
  ASSUME NEW t \in TextSeq
  PROVE  Trimmed(t) \in TextSeq
<1> DEFINE kept == {i \in 1 .. Len(t) : t[i] # " "}
<1>1. CASE kept = {}
  BY <1>1, None0 DEF Trimmed
<1>2. CASE kept # {}
  <2>1. Len(t) \in Nat /\ kept \in SUBSET Nat /\ kept \in SUBSET (1 .. Len(t))
    <3>1. Len(t) \in Nat
      BY DEF TextSeq
    <3>2. \A i \in 1 .. Len(t) : i \in Nat
      BY <3>1
    <3> QED
      BY <3>1, <3>2
  <2>2. First(kept) \in kept /\ Final(kept) \in kept
    <3> HIDE DEF kept
    <3> QED
      BY <1>2, <2>1, LeastPlace, LastPlace
  <2> DEFINE m == First(kept)  n == Final(kept)
  <2>3. m \in 1 .. Len(t) /\ n \in 1 .. Len(t)
    BY <2>2
  <2>4. Trimmed(t) = SubSeq(t, m, n)
    BY <1>2 DEF Trimmed
  <2> HIDE DEF m, n
  <2>5. m \in Int /\ n \in Int /\ \A i \in m .. n : t[i] \in Alphabet
    <3>1. m \in Int /\ n \in Int /\ \A i \in m .. n : i \in 1 .. Len(t)
      BY ONLY <2>1, <2>3, Within
    <3>2. \A i \in 1 .. Len(t) : t[i] \in Alphabet
      BY ElementOfSeq DEF TextSeq
    <3> QED
      BY ONLY <3>1, <3>2
  <2>6. SubSeq(t, m, n) \in Seq(Alphabet)
    BY ONLY <2>5, SubSeqProperties
  <2> QED
    BY <2>4, <2>6 DEF TextSeq
<1> QED
  BY <1>1, <1>2

LEMMA TrimmedAlready ==
  ASSUME NEW t \in TextSeq, t # <<>>, Free(t, {" "})
  PROVE  Trimmed(t) = t
<1> DEFINE kept == {i \in 1 .. Len(t) : t[i] # " "}
<1>1. Len(t) \in Nat /\ 1 \in 1 .. Len(t)
  BY HeadFirst
<1>2. kept = 1 .. Len(t)
  BY DEF Free
<1>3. kept # {} /\ First(kept) \in kept /\ Final(kept) \in kept
      /\ \A j \in kept : First(kept) <= j /\ j <= Final(kept)
  <2>1. kept \in SUBSET Nat /\ kept \in SUBSET (1 .. Len(t)) /\ kept # {}
    <3>1. \A i \in 1 .. Len(t) : i \in Nat
      BY ONLY <1>1, Within
    <3> HIDE DEF kept
    <3> QED
      BY <1>1, <1>2, <3>1
  <2> HIDE DEF kept
  <2> QED
    BY <1>1, <2>1, LeastPlace, LastPlace
<1> DEFINE m == First(kept)  n == Final(kept)
<1>4. Trimmed(t) = SubSeq(t, m, n)
  BY <1>3 DEF Trimmed
<1>5. m = 1 /\ n = Len(t)
  <2>3. m \in kept /\ n \in kept /\ \A j \in kept : m <= j /\ j <= n
    BY <1>3
  <2> HIDE DEF kept, m, n
  <2>1. Len(t) \in kept /\ 1 \in kept /\ m \in 1 .. Len(t) /\ n \in 1 .. Len(t)
    BY ONLY <1>1, <1>2, <2>3, Within
  <2>2. m <= 1 /\ Len(t) <= n
    BY <2>1, <2>3
  <2> QED
    BY ONLY <1>1, <2>1, <2>2
<1>6. SubSeq(t, 1, Len(t)) = t
  BY SubSeqFull DEF TextSeq
<1> QED
  BY <1>4, <1>5, <1>6

\* A text is made of the alphabet, and what is logged of a peer is its endpoint.
TextInv ==
  /\ text \in TextSeq
  /\ wrote # None => wrote \in Endpoints /\ text = ipPortToString(wrote)

\* What is logged is one of the notations.
LEMMA PeerText ==
  ASSUME NEW e \in Endpoints
  PROVE  ipPortToString(e) \in Notations(e)
<1>1. ASSUME NEW a \in Dotted, NEW n \in Ports, e = makeIpEndpointV4(<<a>>, n)
      PROVE  ipPortToString(e) \in Notations(e)
  <2>1. e.ip = <<a>> /\ e.port = n /\ isV4(e) /\ ~isV6(e)
    BY <1>1 DEF makeIpEndpointV4, isV4, isV6
  <2>2. <<a>> \o <<>> = <<a>>
    BY DottedIs, NoneLeft
  <2>3. ipToString(e) = <<a>>
    BY <2>1, <2>2 DEF ipToString
  <2> QED
    BY <2>1, <2>3 DEF ipPortToString, Notations
<1>2. ASSUME NEW u \in V6Addresses, NEW n \in Ports, NEW s \in DOMAIN Numbers, e = makeIpEndpointV6(u, n, s)
      PROVE  ipPortToString(e) \in Notations(e)
  <2> DEFINE scoped == {e.ip \o <<"%", e.scope_id>>}
                         \cup (IF e.scope_id = Zero THEN {e.ip} ELSE {})
             inBrackets == {<<"[">> \o x \o <<"]">> : x \in scoped}
             x == ipToString(e)
  <2>1. e.ip = u /\ e.port = n /\ e.scope_id = s /\ ~isV4(e) /\ isV6(e)
    BY <1>2 DEF makeIpEndpointV6, isV4, isV6
  <2>2. x = u \o <<"%", s>> \/ (s = Zero /\ x = u)
    <3>1. u \o <<>> = u
      BY AddressIs, NoneLeft
    <3> QED
      BY <2>1, <3>1 DEF ipToString
  <2>3. x \in scoped
    BY <2>1, <2>2
  <2>4. x \in TextSeq
    BY <2>2, ScopedText
  <2>5. ipPortToString(e) = <<"[">> \o x \o <<"]", ":", n>>
    BY <2>1 DEF ipPortToString
  <2>6. <<"[">> \o x \o <<"]", ":", n>> = <<"[">> \o x \o <<"]">> \o <<":", n>>
    <3>1. "[" \in Alphabet /\ "]" \in Alphabet /\ ":" \in Alphabet /\ n \in Alphabet
      BY PortWord, ZeroIs, Marks DEF Punctuation
    <3> DEFINE b == <<"[">> \o x
    <3>2. b \in Seq(Alphabet)
      BY <2>4, <3>1, TailOf DEF TextSeq
    <3> HIDE DEF b
    <3>3. /\ <<"]">> \in Seq(Alphabet) /\ <<":", n>> \in Seq(Alphabet)
          /\ <<"]", ":", n>> \in Seq(Alphabet)
      BY <3>1
    <3>4. (b \o <<"]">>) \o <<":", n>> = b \o (<<"]">> \o <<":", n>>)
      BY ONLY <3>2, <3>3, ConcatAssociative
    <3>5. <<"]">> \o <<":", n>> = <<"]", ":", n>>
      <4> DEFINE v == <<":", n>>  w == <<"]">> \o v  y == <<"]", ":", n>>
      <4>1. v \in TextSeq /\ Len(v) = 2 /\ v[1] = ":" /\ v[2] = n
        BY <3>3 DEF TextSeq
      <4>2. w \in TextSeq /\ w[1] = "]" /\ Len(w) = 3 /\ \A i \in 1 .. Len(v) : w[i + 1] = v[i]
        <5> HIDE DEF v
        <5>1. /\ w \in TextSeq /\ w[1] = "]" /\ Len(w) = Len(v) + 1
              /\ \A i \in 1 .. Len(v) : w[i + 1] = v[i]
          BY ONLY <3>1, <4>1, TailOf
        <5> HIDE DEF w
        <5> QED
          BY ONLY <4>1, <5>1
      <4>3. w[2] = ":" /\ w[3] = n
        <5>1. w[1 + 1] = v[1] /\ w[2 + 1] = v[2]
          <6> HIDE DEF w, v
          <6> QED
            BY <4>1, <4>2
        <5> HIDE DEF w, v
        <5> QED
          BY <4>1, <5>1
      <4>4. y \in Seq(Alphabet) /\ Len(y) = 3 /\ y[1] = "]" /\ y[2] = ":" /\ y[3] = n
        BY <3>3
      <4>5. w = y
        <5> HIDE DEF w, y
        <5>1. w \in Seq(Alphabet) /\ Len(w) = Len(y) /\ \A i \in 1 .. Len(w) : w[i] = y[i]
          BY <4>2, <4>3, <4>4 DEF TextSeq
        <5> QED
          BY ONLY <4>4, <5>1, SeqEqual
      <4> QED
        BY <4>5
    <3> QED
      BY <3>4, <3>5 DEF b
  <2> HIDE DEF x
  <2>7. ipPortToString(e) \in {y \o <<":", e.port>> : y \in inBrackets}
    BY <2>1, <2>3, <2>5, <2>6
  <2> HIDE DEF inBrackets, scoped
  <2> QED
    BY <2>1, <2>7 DEF Notations, inBrackets, scoped
<1> QED
  BY <1>1, <1>2, EndpointIs

\* Texts are read as they are written.
LEMMA TextRead == TextInv => ReadsWhatIsWritten
<1> SUFFICES ASSUME TextInv, text # <<>> PROVE
      LET ep == parseIpEndpoint(text)
      IN  /\ wrote # None => ep = wrote
          /\ ep # None => ep.port \in Ports /\ Trimmed(text) \in Notations(ep)
          /\ \A e \in Endpoints : Trimmed(text) \in Notations(e) => ep = e
  BY DEF ReadsWhatIsWritten
<1> DEFINE t == Trimmed(text)
<1>1. t \in TextSeq
  BY TrimmedIs DEF TextInv
<1>2. parseIpEndpoint(text) = Read(t)
  BY DEF parseIpEndpoint, Read
<1>3. ASSUME wrote # None PROVE Read(t) = wrote
  <2>1. wrote \in Endpoints /\ text \in Notations(wrote)
    BY <1>3, PeerText DEF TextInv
  <2>2. text \in TextSeq /\ Free(text, {" "}) /\ text # <<>> /\ Read(text) = wrote
    BY <2>1, NotationIsRead
  <2>3. t = text
    BY <2>2, TrimmedAlready
  <2> QED
    BY <2>2, <2>3
<1>4. \A e \in Endpoints : t \in Notations(e) => Read(t) = e
  BY NotationIsRead
<1> HIDE DEF t
<1>5. Read(t) # None => Read(t).port \in Ports /\ t \in Notations(Read(t))
  BY <1>1, ReadIsNotation
<1> QED
  BY <1>2, <1>3, <1>4, <1>5 DEF t

\* No text at first.
LEMMA TextStart == TextInit => TextInv
  BY None0 DEF TextInit, TextInv

\* What is printed is a text.
LEMMA EndpointText ==
  ASSUME NEW e \in Endpoints
  PROVE  ipPortToString(e) \in TextSeq /\ ipPortToString(e) # <<>> /\ ipToString(e) \in TextSeq
<1>1. ipPortToString(e) \in TextSeq /\ ipPortToString(e) # <<>>
  BY PeerText, NotationIsRead
<1>2. ipToString(e) \in TextSeq
  <2>1. ASSUME NEW a \in Dotted, NEW n \in Ports, e = makeIpEndpointV4(<<a>>, n)
        PROVE  ipToString(e) \in TextSeq
    <3>1. ipToString(e) = <<a>> \o <<>>
      BY <2>1 DEF makeIpEndpointV4, ipToString, isV6
    <3> QED
      BY <3>1, DottedIs, NoneLeft
  <2>2. ASSUME NEW u \in V6Addresses, NEW n \in Ports, NEW s \in DOMAIN Numbers, e = makeIpEndpointV6(u, n, s)
        PROVE  ipToString(e) \in TextSeq
    <3>1. ipToString(e) = u \o (IF s # Zero THEN <<"%", s>> ELSE <<>>)
      BY <2>2 DEF makeIpEndpointV6, ipToString, isV6
    <3>2. u \o <<>> = u
      BY AddressIs, NoneLeft
    <3>3. ipToString(e) = u \o <<"%", s>> \/ (s = Zero /\ ipToString(e) = u)
      BY <3>1, <3>2
    <3> QED
      BY <3>3, ScopedText
  <2> QED
    BY <2>1, <2>2, EndpointIs
<1> QED
  BY <1>1, <1>2

\* A mistake leaves a text of the same alphabet.
LEMMA EditedText ==
  ASSUME NEW t \in TextSeq, NEW i \in 1 .. Len(t), NEW c \in Alphabet
  PROVE  RemoveAt(t, i) \in TextSeq /\ ReplaceAt(t, i, c) \in TextSeq /\ InsertAt(t, i, c) \in TextSeq
<1>1. Before(t, i) \in TextSeq /\ After(t, i) \in TextSeq /\ t[i] \in Alphabet
  BY SplitAt, ElementOfSeq DEF TextSeq
<1> DEFINE b == SubSeq(t, 1, i - 1)  a == SubSeq(t, i + 1, Len(t))
<1>2. b \in TextSeq /\ a \in TextSeq
  BY <1>1 DEF Before, After
<1>3. RemoveAt(t, i) = b \o a
  BY DEF RemoveAt
<1>4. b \o a \in TextSeq
  <2> HIDE DEF a, b
  <2> QED
    BY <1>2, ConcatProperties DEF TextSeq
<1>5. ReplaceAt(t, i, c) \in TextSeq
  BY ExceptSeq DEF ReplaceAt, TextSeq
<1>6. InsertAt(t, i, c) \in TextSeq
  <2> DEFINE r == SubSeq(t, i, Len(t))
  <2>1. r \in TextSeq
    <3>1. i \in Int /\ Len(t) \in Int /\ \A j \in i .. Len(t) : t[j] \in Alphabet
      <4>1. Len(t) \in Nat
        BY LenNat
      <4>2. \A j \in i .. Len(t) : j \in 1 .. Len(t)
        BY ONLY <4>1, i \in 1 .. Len(t), Within
      <4> QED
        BY <4>1, <4>2, ElementOfSeq DEF TextSeq
    <3>2. r \in Seq(Alphabet)
      BY ONLY <3>1, SubSeqProperties
    <3> QED
      BY <3>2 DEF TextSeq
  <2>2. InsertAt(t, i, c) = b \o <<c>> \o r
    BY DEF InsertAt
  <2> HIDE DEF b, r
  <2>3. b \o <<c>> \o r \in TextSeq
    BY <1>2, <2>1, Marked
  <2> QED
    BY <2>2, <2>3
<1> QED
  BY <1>3, <1>4, <1>5, <1>6

\* Every step of the texts keeps that.
LEMMA TextStep ==
  ASSUME TextInv, TextNext
  PROVE  TextInv'
<1>1. CASE PrintPeer
  <2>1. PICK ep \in Endpoints, gone \in BOOLEAN :
          /\ wrote' = bestEffortFillEndpoints(ep, gone)
          /\ text' = IF wrote' = None THEN <<"empty">> ELSE ipPortToString(wrote')
    BY <1>1 DEF PrintPeer
  <2>2. wrote' = None \/ wrote' = ep
    <3>1. fromSockaddr(toSockaddr(ep)) = ep
      <4>1. ASSUME NEW a \in Dotted, NEW n \in Ports, ep = makeIpEndpointV4(<<a>>, n)
            PROVE  fromSockaddr(toSockaddr(ep)) = ep
        <5>1. toSockaddr(ep) = [family |-> "in", addr |-> <<a>>, port |-> n, scope |-> Zero, len |-> 16]
          BY <4>1 DEF toSockaddr, makeIpEndpointV4, isV4, SockaddrLen
        <5> QED
          BY <4>1, <5>1 DEF fromSockaddr, makeIpEndpointV4, SockaddrLen
      <4>2. ASSUME NEW u \in V6Addresses, NEW n \in Ports, NEW s \in DOMAIN Numbers, ep = makeIpEndpointV6(u, n, s)
            PROVE  fromSockaddr(toSockaddr(ep)) = ep
        <5>1. toSockaddr(ep) = [family |-> "in6", addr |-> u, port |-> n, scope |-> s, len |-> 28]
          BY <4>2 DEF toSockaddr, makeIpEndpointV6, isV4, SockaddrLen
        <5> QED
          BY <4>2, <5>1 DEF fromSockaddr, makeIpEndpointV6, SockaddrLen
      <4> QED
        BY <4>1, <4>2, EndpointIs
    <3> QED
      BY <2>1, <3>1 DEF bestEffortFillEndpoints
  <2>3. <<"empty">> \in TextSeq
    BY Ones DEF Alphabet
  <2>4. CASE wrote' = None
    BY <2>1, <2>3, <2>4 DEF TextInv
  <2>5. CASE wrote' # None
    BY <2>1, <2>2, <2>5, EndpointText DEF TextInv
  <2> QED
    BY <2>4, <2>5
<1>2. CASE PrintHost
  <2>1. PICK ep \in Endpoints : text' = ipToString(ep)
    BY <1>2 DEF PrintHost
  <2>2. text = <<>> /\ wrote' = wrote
    BY <1>2 DEF PrintHost
  <2>3. wrote' = None
    BY <2>2, EndpointText DEF TextInv
  <2>4. text' \in TextSeq
    BY <2>1, EndpointText
  <2> QED
    BY <2>3, <2>4 DEF TextInv
<1>3. CASE Edit
  <2>1. PICK i \in 1 .. Len(text), c \in Words \cup Punctuation :
          text' \in {RemoveAt(text, i), ReplaceAt(text, i, c), InsertAt(text, i, c)}
    BY <1>3 DEF Edit
  <2>2. c \in Alphabet /\ text \in TextSeq
    BY DEF Alphabet, TextInv
  <2>3. text' \in TextSeq
    BY <2>1, <2>2, EditedText
  <2>4. wrote' = None
    BY <1>3 DEF Edit
  <2> QED
    BY <2>3, <2>4 DEF TextInv
<1>4. CASE Clear
  BY <1>4, None0 DEF Clear, TextInv
<1> QED
  BY <1>1, <1>2, <1>3, <1>4 DEF TextNext

\* No watcher touches a text.
LEMMA TextApart == [Next]_vars => TextNext \/ UNCHANGED textVars
<1> SUFFICES ASSUME [Next]_vars PROVE TextNext \/ UNCHANGED textVars
  OBVIOUS
<1>1. CASE Thread
  BY <1>1 DEF Thread, addOnVars
<1>2. CASE Peer
  BY <1>2 DEF Peer, Complete, PeerSends, PeerCloses, PeerResets, Drain, exceptSock, addOnVars
<1>3. CASE DropStream
  BY <1>3 DEF DropStream, addOnVars
<1>4. CASE Poll \/ Return
  BY <1>4 DEF Poll, Return, addOnVars
<1>5. CASE UNCHANGED vars
  BY <1>5 DEF vars, addOnVars
<1>6. ASSUME ~Thread, ~Peer, ~DropStream, ~Poll, ~Return, Next PROVE TextNext \/ UNCHANGED textVars
  BY <1>6 DEF Next, addOnVars
<1> QED
  BY <1>1, <1>2, <1>3, <1>4, <1>5, <1>6

\* A text is read as an endpoint exactly if it is one of the notations of that endpoint, with blanks
\* around it, and what is logged of a peer as the peer's endpoint, whatever words and mistakes there
\* are: parseIpEndpoint() and ipPortToString() agree.
THEOREM EndpointsRead == Spec => []ReadsWhatIsWritten
<1>1. Init => TextInv
  BY TextStart DEF Init
<1>2. TextInv /\ [Next]_vars => TextInv'
  <2> SUFFICES ASSUME TextInv, [Next]_vars PROVE TextInv'
    OBVIOUS
  <2>1. CASE TextNext
    BY <2>1, TextStep
  <2>2. CASE UNCHANGED textVars
    BY <2>2 DEF TextInv, textVars
  <2> QED
    BY <2>1, <2>2, TextApart
<1> QED
  BY <1>1, <1>2, TextRead, PTL DEF Spec
=============================================================================
