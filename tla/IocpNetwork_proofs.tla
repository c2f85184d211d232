------------------------- MODULE IocpNetwork_proofs -------------------------
(***************************************************************************)
(* Proofs about IocpNetwork for every number of watchers, descriptors and  *)
(* accept operations: who has an OVERLAPPED, and who owns which socket.    *)
(*                                                                         *)
(* An OVERLAPPED is with the kernel, on the port, among the events of the  *)
(* dispatch, or with a frame of the stack: a handler in the middle of its  *)
(* completion, or code that is about to issue the operation.  The          *)
(* invariant says that it is in one place only; the rest of it is what a   *)
(* step needs to know to keep that.                                        *)
(***************************************************************************)
EXTENDS IocpNetwork, EventCore_proofs, FiniteSetTheorems

----------------------------------------------------------------------------
(* Who owns which socket. *)

\* What sock says of a socket.
Sockets == [st : {"none", "idle", "listen", "up", "error"},
            rx : Nat, fin : BOOLEAN, full : BOOLEAN, shut : BOOLEAN]

\* What may hold a descriptor: a watcher, or an operation of an accept watcher.
Holders == ({"fd"} \X Watchers) \cup ({"op"} \X AcceptOps)
\* The descriptor that the holder x has.
Held(x) == IF x[1] = "fd" THEN fd[x[2]] ELSE accept_fd[x[2]]

\* The types of what OwnersOK is about.
FdsTyped ==
  /\ sock \in [Fds -> Sockets]
  /\ fd \in [Watchers -> Fds \cup {NoFd}]
  /\ accept_fd \in [AcceptOps -> Fds \cup {NoFd}]
  /\ streams \subseteq Fds

\* SocketOwnedOnce, without counting.
OwnersOK ==
  /\ FdsTyped
  /\ \A x, y \in Holders : x # y /\ Held(x) # NoFd => Held(x) # Held(y)
  /\ \A x \in Holders : Held(x) \notin streams
  /\ Open = streams \cup ({Held(x) : x \in Holders} \ {NoFd})

\* Nobody but x gets or loses a descriptor; x has f now.
Changed(x, f) ==
  /\ fd' \in [Watchers -> Fds \cup {NoFd}]
  /\ accept_fd' \in [AcceptOps -> Fds \cup {NoFd}]
  /\ Held(x)' = f
  /\ \A y \in Holders \ {x} : Held(y)' = Held(y)

\* A holder has a descriptor or none.
LEMMA HeldTyped == ASSUME FdsTyped, NEW x \in Holders PROVE Held(x) \in Fds \cup {NoFd}
BY DEF FdsTyped, Holders, Held

\* Assigning fd_ changes what that watcher holds, and nothing else.
LEMMA WatcherChanged ==
  ASSUME FdsTyped, NEW w \in Watchers, NEW f \in Fds \cup {NoFd},
         fd' = [fd EXCEPT ![w] = f], UNCHANGED accept_fd
  PROVE  <<"fd", w>> \in Holders /\ Held(<<"fd", w>>) = fd[w] /\ Changed(<<"fd", w>>, f)
<1>1. /\ fd' \in [Watchers -> Fds \cup {NoFd}] /\ fd'[w] = f
      /\ \A v \in Watchers \ {w} : fd'[v] = fd[v]
  BY DEF FdsTyped
<1>2. ASSUME NEW y \in Holders \ {<<"fd", w>>} PROVE Held(y)' = Held(y)
  BY <1>1 DEF Holders, Held
<1> QED
  BY <1>1, <1>2 DEF Holders, Held, Changed, FdsTyped

\* Assigning the accept_fd of an operation changes what it holds, and nothing else.
LEMMA OpChanged ==
  ASSUME FdsTyped, NEW op \in AcceptOps, NEW f \in Fds \cup {NoFd},
         accept_fd' = [accept_fd EXCEPT ![op] = f], UNCHANGED fd
  PROVE  <<"op", op>> \in Holders /\ Held(<<"op", op>>) = accept_fd[op] /\ Changed(<<"op", op>>, f)
<1>1. /\ accept_fd' \in [AcceptOps -> Fds \cup {NoFd}] /\ accept_fd'[op] = f
      /\ \A p \in AcceptOps \ {op} : accept_fd'[p] = accept_fd[p]
  BY DEF FdsTyped
<1>2. ASSUME NEW y \in Holders \ {<<"op", op>>} PROVE Held(y)' = Held(y)
  BY <1>1 DEF Holders, Held
<1> QED
  BY <1>1, <1>2 DEF Holders, Held, Changed, FdsTyped

\* No socket is opened or closed.
SameOpen == sock' \in [Fds -> Sockets] /\ Open' = Open
\* f was free, or one of those that are closed, and is open now.
Opened(f, fs) == f \in Fds \ (Open \ fs) /\ sock' \in [Fds -> Sockets] /\ Open' = (Open \ fs) \cup {f}
\* The sockets of fs are closed, as far as they were open.
Closed(fs) == sock' \in [Fds -> Sockets] /\ Open' = Open \ fs

\* Nobody gets, opens or closes a socket.
LEMMA OwnersUnchanged ==
  ASSUME OwnersOK, SameOpen, UNCHANGED <<fd, accept_fd, streams>>
  PROVE  OwnersOK'
BY DEF OwnersOK, FdsTyped, SameOpen, Held

\* x closes what it holds, if anything.
LEMMA HolderCloses ==
  ASSUME OwnersOK, NEW x \in Holders, Changed(x, NoFd), Closed({Held(x)}), UNCHANGED streams
  PROVE  OwnersOK'
<1> USE DEF OwnersOK, Closed, Changed
<1>1. {Held(y)' : y \in Holders} \ {NoFd} = ({Held(y) : y \in Holders} \ {NoFd}) \ {Held(x)}
  OBVIOUS
<1>2. Held(x) \notin streams /\ NoFd \notin streams
  BY CoreAssumption DEF FdsTyped
<1>3. FdsTyped'
  BY DEF FdsTyped
<1>4. Open' = streams' \cup ({Held(y)' : y \in Holders} \ {NoFd})
  BY <1>1, <1>2
<1>5. \A y, z \in Holders : y # z /\ Held(y)' # NoFd => Held(y)' # Held(z)'
  OBVIOUS
<1>6. \A y \in Holders : Held(y)' \notin streams'
  BY <1>2
<1> QED
  BY <1>3, <1>4, <1>5, <1>6 DEF Holders, AcceptOps

\* x closes what it holds, if anything, and holds a new socket.
LEMMA HolderOpens ==
  ASSUME OwnersOK, NEW x \in Holders, NEW f, f # NoFd, Changed(x, f), Opened(f, {Held(x)}),
         UNCHANGED streams
  PROVE  OwnersOK'
<1> USE DEF OwnersOK, Opened, Changed
<1>1. Held(x) \notin streams /\ NoFd \notin streams
  BY CoreAssumption DEF FdsTyped
<1>2. f \notin streams /\ \A y \in Holders \ {x} : Held(y) # f
  <2>1. f \in Open => f = Held(x)
    OBVIOUS
  <2> QED
    BY <1>1, <2>1
<1>3. {Held(y)' : y \in Holders} \ {NoFd} = (({Held(y) : y \in Holders} \ {NoFd}) \ {Held(x)}) \cup {f}
  BY <1>2
<1>4. FdsTyped'
  BY DEF FdsTyped
<1>5. Open' = streams' \cup ({Held(y)' : y \in Holders} \ {NoFd})
  BY <1>1, <1>3
<1>6. \A y, z \in Holders : y # z /\ Held(y)' # NoFd => Held(y)' # Held(z)'
  BY <1>2
<1>7. \A y \in Holders : Held(y)' \notin streams'
  BY <1>2
<1> QED
  BY <1>4, <1>5, <1>6, <1>7 DEF Holders, AcceptOps

\* The stream takes the socket of x.
LEMMA HolderGives ==
  ASSUME OwnersOK, NEW x \in Holders, Held(x) # NoFd, Changed(x, NoFd), SameOpen,
         streams' = streams \cup {Held(x)}
  PROVE  OwnersOK'
<1> USE DEF OwnersOK, SameOpen, Changed
<1>1. {Held(y)' : y \in Holders} \ {NoFd} = ({Held(y) : y \in Holders} \ {NoFd}) \ {Held(x)}
  OBVIOUS
<1>2. NoFd \notin streams' /\ Held(x) \in Fds
  BY HeldTyped, CoreAssumption DEF FdsTyped
<1>3. FdsTyped'
  BY <1>2 DEF FdsTyped
<1>4. Open' = streams' \cup ({Held(y)' : y \in Holders} \ {NoFd})
  BY <1>1
<1>5. \A y, z \in Holders : y # z /\ Held(y)' # NoFd => Held(y)' # Held(z)'
  OBVIOUS
<1>6. \A y \in Holders : Held(y)' \notin streams'
  BY <1>2
<1> QED
  BY <1>3, <1>4, <1>5, <1>6 DEF Holders, AcceptOps

\* x takes the socket of a stream.
LEMMA HolderTakes ==
  ASSUME OwnersOK, NEW x \in Holders, NEW f \in streams, Held(x) = NoFd, Changed(x, f), SameOpen,
         streams' = streams \ {f}
  PROVE  OwnersOK'
<1> USE DEF OwnersOK, SameOpen, Changed
<1>1. f # NoFd /\ \A y \in Holders : Held(y) # f
  BY CoreAssumption DEF FdsTyped
<1>2. {Held(y)' : y \in Holders} \ {NoFd} = ({Held(y) : y \in Holders} \ {NoFd}) \cup {f}
  BY <1>1
<1>3. FdsTyped'
  BY DEF FdsTyped
<1>4. Open' = streams' \cup ({Held(y)' : y \in Holders} \ {NoFd})
  BY <1>1, <1>2
<1>5. \A y, z \in Holders : y # z /\ Held(y)' # NoFd => Held(y)' # Held(z)'
  BY <1>1
<1>6. \A y \in Holders : Held(y)' \notin streams'
  OBVIOUS
<1> QED
  BY <1>3, <1>4, <1>5, <1>6 DEF Holders, AcceptOps

\* A stream closes its socket.
LEMMA StreamCloses ==
  ASSUME OwnersOK, NEW f \in streams, Closed({f}), streams' = streams \ {f},
         UNCHANGED <<fd, accept_fd>>
  PROVE  OwnersOK'
<1> USE DEF OwnersOK, Closed
<1>1. f # NoFd /\ \A y \in Holders : Held(y) # f
  BY CoreAssumption DEF FdsTyped
<1>2. \A y \in Holders : Held(y)' = Held(y)
  BY DEF Held
<1>3. FdsTyped'
  BY DEF FdsTyped
<1> QED
  BY <1>1, <1>2, <1>3 DEF Holders, AcceptOps

\* x is injective on the holders with a socket.
LEMMA ImageCounts ==
  ASSUME NEW S, NEW f \in [S -> Fds],
         \A v, w \in S : v # w => f[v] # f[w]
  PROVE  /\ IsFiniteSet({f[v] : v \in S}) /\ Cardinality({f[v] : v \in S}) = Cardinality(S)
<1> DEFINE T == {f[v] : v \in S}
<1>1. f \in Injection(S, Fds)
  BY DEF Injection, IsInjective
<1>2. IsFiniteSet(S)
  BY <1>1, FS_Injection, CoreAssumption
<1>3. f \in Bijection(S, T)
  BY DEF Bijection, Injection, IsInjective, Surjection
<1>4. ExistsBijection(S, T)
  BY <1>3 DEF ExistsBijection
<1> HIDE DEF T
<1>5. IsFiniteSet(T) /\ Cardinality(T) = Cardinality(S)
  BY <1>2, <1>4, FS_Bijection
<1> QED
  BY <1>5 DEF T

\* Different holders have different sockets, and together with the streams all open ones: so the counts agree.
LEMMA OwnedOnce == OwnersOK => SocketOwnedOnce
<1> SUFFICES ASSUME OwnersOK PROVE SocketOwnedOnce
  OBVIOUS
<1> DEFINE ofWatchers == {w \in Watchers : fd[w] # NoFd}
           ofOps == {op \in AcceptOps : accept_fd[op] # NoFd}
           W == {fd[w] : w \in ofWatchers}
           A == {accept_fd[op] : op \in ofOps}
<1>1. /\ \A w \in Watchers : <<"fd", w>> \in Holders /\ Held(<<"fd", w>>) = fd[w]
      /\ \A op \in AcceptOps : <<"op", op>> \in Holders /\ Held(<<"op", op>>) = accept_fd[op]
  BY DEF Holders, Held
<1>2. W \subseteq Fds /\ A \subseteq Fds /\ streams \subseteq Fds
  BY DEF OwnersOK, FdsTyped
<1>3. ASSUME NEW v \in ofWatchers, NEW w \in ofWatchers, v # w PROVE fd[v] # fd[w]
  <2>1. <<"fd", v>> # <<"fd", w>>
    BY <1>3
  <2> QED
    BY <1>1, <2>1 DEF OwnersOK
<1>4. ASSUME NEW v \in ofOps, NEW w \in ofOps, v # w PROVE accept_fd[v] # accept_fd[w]
  <2>1. <<"op", v>> # <<"op", w>>
    BY <1>4
  <2> QED
    BY <1>1, <2>1 DEF OwnersOK
<1>5. ASSUME NEW w \in ofWatchers, NEW op \in ofOps PROVE fd[w] # accept_fd[op]
  <2>1. <<"fd", w>> # <<"op", op>>
    OBVIOUS
  <2> QED
    BY <1>1, <2>1 DEF OwnersOK
<1>6. W \cap A = {} /\ (W \cup A) \cap streams = {}
  BY <1>1, <1>5 DEF OwnersOK
<1>7. Open = W \cup A \cup streams
  <2>1. {Held(x) : x \in Holders} \ {NoFd} = W \cup A
    <3>1. ASSUME NEW x \in Holders, Held(x) # NoFd PROVE Held(x) \in W \cup A
      BY <3>1 DEF Holders, Held
    <3>2. \A w \in ofWatchers : fd[w] \in {Held(x) : x \in Holders} \ {NoFd}
      BY <1>1
    <3>3. \A op \in ofOps : accept_fd[op] \in {Held(x) : x \in Holders} \ {NoFd}
      BY <1>1
    <3> QED
      BY <3>1, <3>2, <3>3
  <2> QED
    BY <2>1 DEF OwnersOK
<1>8. IsFiniteSet(W) /\ Cardinality(W) = Cardinality(ofWatchers)
  <2> DEFINE f == [w \in ofWatchers |-> fd[w]]
  <2>1. f \in [ofWatchers -> Fds] /\ \A v, w \in ofWatchers : v # w => f[v] # f[w]
    BY <1>3 DEF OwnersOK, FdsTyped
  <2>2. {f[w] : w \in ofWatchers} = W
    OBVIOUS
  <2> HIDE DEF f, ofWatchers
  <2> QED
    BY <2>1, <2>2, ImageCounts
<1>9. IsFiniteSet(A) /\ Cardinality(A) = Cardinality(ofOps)
  <2> DEFINE f == [op \in ofOps |-> accept_fd[op]]
  <2>1. f \in [ofOps -> Fds] /\ \A v, w \in ofOps : v # w => f[v] # f[w]
    BY <1>4 DEF OwnersOK, FdsTyped
  <2>2. {f[op] : op \in ofOps} = A
    OBVIOUS
  <2> HIDE DEF f, ofOps
  <2> QED
    BY <2>1, <2>2, ImageCounts
<1>10. IsFiniteSet(streams)
  BY <1>2, CoreAssumption, FS_Subset
<1> HIDE DEF W, A, ofWatchers, ofOps
<1>11. /\ IsFiniteSet(W \cup A) /\ Cardinality({}) = 0
       /\ Cardinality(W \cup A) = Cardinality(W) + Cardinality(A) - Cardinality({})
  BY <1>6, <1>8, <1>9, FS_Union, FS_EmptySet
<1>12. Cardinality((W \cup A) \cup streams) = Cardinality(W \cup A) + Cardinality(streams) - Cardinality({})
  BY <1>6, <1>10, <1>11, FS_Union
<1>13. Cardinality(W) \in Int /\ Cardinality(A) \in Int /\ Cardinality(streams) \in Int /\ Cardinality(W \cup A) \in Int
  BY <1>8, <1>9, <1>10, <1>11, FS_CardinalityType
<1>14. Cardinality(W \cup A \cup streams) = Cardinality(ofWatchers) + Cardinality(ofOps) + Cardinality(streams)
  BY <1>8, <1>9, <1>11, <1>12, <1>13
<1> QED
  BY <1>7, <1>14 DEF SocketOwnedOnce, W, A, ofWatchers, ofOps

----------------------------------------------------------------------------
(* What the actions do to the sockets. *)

\* The values that the actions give a socket.
LEMMA SocketKinds ==
  /\ NoSocket \in Sockets /\ NoSocket.st = "none"
  /\ NewSocket \in Sockets /\ NewSocket.st # "none"
  /\ \A st \in {"listen", "error"} :
       [NoSocket EXCEPT !.st = st] \in Sockets /\ [NoSocket EXCEPT !.st = st].st = st
BY DEF Sockets, NoSocket, NewSocket

\* A socket changes, but is not closed.
LEMMA SocketChanges ==
  ASSUME sock \in [Fds -> Sockets], NEW x, NEW r, sock' = [sock EXCEPT ![x] = r],
         x \in Fds => r \in Sockets /\ (r.st = "none" <=> sock[x].st = "none")
  PROVE  SameOpen
<1>1. \A f \in Fds : sock'[f] \in Sockets /\ (sock'[f].st = "none" <=> sock[f].st = "none")
  OBVIOUS
<1>2. sock' \in [Fds -> Sockets]
  BY <1>1
<1> QED
  BY <1>1, <1>2 DEF SameOpen, Open

\* A free one is opened; the old one of the holder is closed before.
LEMMA SocketOpens ==
  ASSUME sock \in [Fds -> Sockets], NEW g, NEW f \in Fds \ (Open \ {g}), NEW r \in Sockets, r.st # "none",
         \A e \in Fds : sock'[e] = IF e = f THEN r ELSE IF e = g THEN NoSocket ELSE sock[e],
         DOMAIN sock' = Fds, sock' = [e \in Fds |-> sock'[e]]
  PROVE  Opened(f, {g})
<1>1. sock' \in [Fds -> Sockets]
  <2>1. \A e \in Fds : sock'[e] \in Sockets
    BY SocketKinds
  <2> QED
    BY <2>1
<1>2. Open' = (Open \ {g}) \cup {f}
  BY SocketKinds DEF Open
<1> QED
  BY <1>1, <1>2 DEF Opened

\* closesocket() of each of fs.
LEMMA SocketsClose ==
  ASSUME sock \in [Fds -> Sockets], NEW fs, sock' = Shut(fs)
  PROVE  Closed(fs)
<1>1. \A g \in Fds : sock'[g] = IF g \in fs THEN NoSocket ELSE sock[g]
  BY DEF Shut
<1>2. sock' \in [Fds -> Sockets]
  BY SocketKinds DEF Shut
<1>3. Open' = Open \ fs
  BY <1>1, SocketKinds DEF Open
<1> QED
  BY <1>2, <1>3 DEF Closed

\* The fd of w is closed.
LEMMA FdCloses ==
  ASSUME OwnersOK, NEW w \in Watchers, NEW r, closeFd(w, r), UNCHANGED <<accept_fd, streams>>
  PROVE  OwnersOK'
<1>1. FdsTyped
  BY DEF OwnersOK
<1>2. Closed({fd[w]})
  BY <1>1, SocketsClose DEF closeFd, FdsTyped
<1>3. <<"fd", w>> \in Holders /\ Held(<<"fd", w>>) = fd[w] /\ Changed(<<"fd", w>>, NoFd)
  BY <1>1, WatcherChanged DEF closeFd
<1> QED
  BY <1>2, <1>3, HolderCloses

\* A watcher without a socket gets a new one.
LEMMA FdOpens ==
  ASSUME OwnersOK, NEW w \in Watchers, fd[w] = NoFd, NEW f \in NewFd,
         NEW r \in Sockets, r.st # "none",
         fd' = [fd EXCEPT ![w] = f], sock' = [sock EXCEPT ![f] = r], UNCHANGED <<accept_fd, streams>>
  PROVE  OwnersOK'
<1>1. FdsTyped /\ f \in Fds \ Open
  BY DEF OwnersOK, NewFd
<1>2. <<"fd", w>> \in Holders /\ Held(<<"fd", w>>) = NoFd /\ Changed(<<"fd", w>>, f)
  BY <1>1, WatcherChanged
<1>3. NoFd \notin Fds /\ f # NoFd
  BY <1>1, CoreAssumption
<1>4. Opened(f, {NoFd})
  <2>1. \A e \in Fds : sock'[e] = IF e = f THEN r ELSE IF e = NoFd THEN NoSocket ELSE sock[e]
    BY <1>1, <1>3 DEF FdsTyped
  <2>2. DOMAIN sock' = Fds /\ sock' = [e \in Fds |-> sock'[e]] /\ f \in Fds \ (Open \ {NoFd})
    BY <1>1 DEF FdsTyped
  <2> QED
    BY <1>1, <2>1, <2>2, SocketOpens DEF FdsTyped
<1> QED
  BY <1>2, <1>3, <1>4, HolderOpens

----------------------------------------------------------------------------
(* The OVERLAPPEDs that the frames stand for. *)

\* The frame f will use ov, or closes what is left of its last use.
WillIssue(f, ov) ==
  \/ f.at = "connect" /\ ov = <<f.w, "connect">>
  \/ f.at \in {"repost", "drop"} /\ ov \in AcceptOps /\ ov = <<f.w, f.n>>
  \/ f.at = "post" /\ ov \in AcceptOps /\ ov[1] = f.w /\ ov[2] >= f.n
\* The frame f handles the completion of ov.
Waits(f, ov) == f.at = "ready" /\ f.ev = {ov}

\* What a frame stands for: its label, the completion it handles, the OVERLAPPEDs it has.
Claims(f) ==
  {<<"at", <<f.at, f.w>>>>}
    \cup {<<"wait", ov>> : ov \in {o \in Overlappeds : Waits(f, o)}}
    \cup {<<"op", ov>> : ov \in {o \in Overlappeds : Waits(f, o) \/ WillIssue(f, o)}}

\* What a frame stands for, case by case.
LEMMA ClaimFacts ==
  ASSUME NEW f
  PROVE  /\ \A l, w : <<"at", <<l, w>>>> \in Claims(f) <=> f.at = l /\ f.w = w
         /\ \A ov \in Overlappeds :
              /\ <<"wait", ov>> \in Claims(f) <=> Waits(f, ov)
              /\ <<"op", ov>> \in Claims(f) <=> Waits(f, ov) \/ WillIssue(f, ov)
BY DEF Claims

\* A frame of any other label has no OVERLAPPED.
LEMMA PlainFrame ==
  ASSUME NEW f, f.at \notin {"ready", "connect", "post", "repost", "drop"}, NEW ov
  PROVE  ~Waits(f, ov) /\ ~WillIssue(f, ov)
BY DEF Waits, WillIssue

\* A frame of the stack s stands for x; no two of them do.
In(s, x) == \E i \in 1 .. Len(s) : x \in Claims(s[i])
Once(s, x) == \A i, j \in 1 .. Len(s) : x \in Claims(s[i]) /\ x \in Claims(s[j]) => i = j

\* What the frames stand for once f is pushed;
LEMMA InPushed ==
  ASSUME NEW s, IsStack(s), NEW f, NEW x
  PROVE  /\ In(<<f>> \o s, x) <=> x \in Claims(f) \/ In(s, x)
         /\ Once(<<f>> \o s, x) <=> Once(s, x) /\ ~(x \in Claims(f) /\ In(s, x))
<1> DEFINE t == <<f>> \o s
<1>1. /\ Len(s) \in Nat /\ Len(t) = Len(s) + 1 /\ t[1] = f
      /\ \A i \in 1 .. Len(s) : t[i + 1] = s[i]
  BY Pushed
<1> HIDE DEF t
<1>2. \A j \in 1 .. Len(t) : j = 1 \/ (j - 1 \in 1 .. Len(s) /\ j = (j - 1) + 1 /\ t[j] = s[j - 1])
  <2>1. \A j \in 1 .. Len(t) : j = 1 \/ (j - 1 \in 1 .. Len(s) /\ j = (j - 1) + 1)
    BY <1>1
  <2> QED
    BY <1>1, <2>1
<1>3. /\ 1 \in 1 .. Len(t)
      /\ \A i \in 1 .. Len(s) : i + 1 \in 1 .. Len(t) /\ t[i + 1] = s[i] /\ i + 1 # 1
  BY <1>1
<1>4. In(t, x) => x \in Claims(f) \/ In(s, x)
  BY <1>1, <1>2 DEF In
<1>5. x \in Claims(f) => In(t, x)
  BY <1>1, <1>3 DEF In
<1>6. In(s, x) => In(t, x)
  BY <1>3 DEF In
<1>7. ASSUME Once(t, x) PROVE Once(s, x) /\ ~(x \in Claims(f) /\ In(s, x))
  <2>1. ASSUME NEW i \in 1 .. Len(s), NEW j \in 1 .. Len(s), x \in Claims(s[i]), x \in Claims(s[j])
        PROVE  i = j
    <3>1. i + 1 = j + 1
      BY <1>3, <1>7, <2>1 DEF Once
    <3> QED
      BY <3>1
  <2>2. ASSUME x \in Claims(f), NEW i \in 1 .. Len(s), x \in Claims(s[i]) PROVE FALSE
    <3>1. i + 1 = 1
      BY <1>1, <1>3, <1>7, <2>2 DEF Once
    <3> QED
      BY <3>1, <1>3
  <2> QED
    BY <2>1, <2>2 DEF Once, In
<1>8. ASSUME Once(s, x), ~(x \in Claims(f) /\ In(s, x)) PROVE Once(t, x)
  <2> SUFFICES ASSUME NEW i \in 1 .. Len(t), NEW j \in 1 .. Len(t), x \in Claims(t[i]), x \in Claims(t[j])
               PROVE  i = j
    BY DEF Once
  <2>1. CASE i = 1 /\ j = 1
    BY <2>1
  <2>2. CASE i # 1 /\ j # 1
    <3>1. i - 1 = j - 1
      BY <1>2, <1>8, <2>2 DEF Once
    <3> QED
      BY <3>1
  <2>3. CASE i = 1 /\ j # 1
    BY <1>1, <1>2, <1>8, <2>3 DEF In
  <2>4. CASE i # 1 /\ j = 1
    BY <1>1, <1>2, <1>8, <2>4 DEF In
  <2> QED
    BY <2>1, <2>2, <2>3, <2>4
<1> QED
  BY <1>4, <1>5, <1>6, <1>7, <1>8 DEF t

\* once the innermost frame is popped;
LEMMA InPopped ==
  ASSUME NEW s, IsStack(s), s # <<>>, NEW x
  PROVE  /\ In(s, x) <=> x \in Claims(Head(s)) \/ In(Tail(s), x)
         /\ Once(s, x) <=> Once(Tail(s), x) /\ ~(x \in Claims(Head(s)) /\ In(Tail(s), x))
<1>1. PICK S : s \in Seq(S)
  BY DEF IsStack
<1>2. s = <<Head(s)>> \o Tail(s)
  BY <1>1
<1>3. IsStack(Tail(s))
  BY Popped
<1> DEFINE f == Head(s)
           t == Tail(s)
<1> HIDE DEF f, t
<1>4. In(<<f>> \o t, x) <=> x \in Claims(f) \/ In(t, x)
  BY <1>3, InPushed DEF t
<1>5. Once(<<f>> \o t, x) <=> Once(t, x) /\ ~(x \in Claims(f) /\ In(t, x))
  BY <1>3, InPushed DEF t
<1>6. s = <<f>> \o t
  BY <1>2 DEF f, t
<1> QED
  BY <1>4, <1>5, <1>6 DEF f, t

\* once two frames are pushed;
LEMMA InPushedTwo ==
  ASSUME NEW s, IsStack(s), NEW f, NEW g, NEW x
  PROVE  /\ In(<<f, g>> \o s, x) <=> x \in Claims(f) \/ x \in Claims(g) \/ In(s, x)
         /\ Once(<<f, g>> \o s, x) <=> /\ Once(s, x)
                                       /\ ~(x \in Claims(g) /\ In(s, x))
                                       /\ ~(x \in Claims(f) /\ (x \in Claims(g) \/ In(s, x)))
<1> DEFINE t == <<g>> \o s
<1>1. IsStack(t) /\ (In(t, x) <=> x \in Claims(g) \/ In(s, x))
  BY InPushed, Pushed
<1>2. Once(t, x) <=> Once(s, x) /\ ~(x \in Claims(g) /\ In(s, x))
  BY InPushed
<1>3. <<f, g>> \o s = <<f>> \o t
  BY PushedTwo
<1> HIDE DEF t
<1>4. In(<<f>> \o t, x) <=> x \in Claims(f) \/ In(t, x)
  BY <1>1, InPushed
<1>5. Once(<<f>> \o t, x) <=> Once(t, x) /\ ~(x \in Claims(f) /\ In(t, x))
  BY <1>1, InPushed
<1> QED
  BY <1>1, <1>2, <1>3, <1>4, <1>5

\* and when there is none.
LEMMA InNone == \A x : ~In(<<>>, x) /\ Once(<<>>, x)
BY DEF In, Once

\* The kernel, the port, or the events of the dispatch have ov.
InKernel(ov) == \E o \in inflight : o.ov = ov
InPort(ov) == \E i \in 1 .. Len(port) : port[i].ov = ov
InReady(ov) == \E e \in ready : e.ov = ov

\* Who has ov is unique: the kernel, the port, the events, or a frame.
Single(ov) ==
  /\ \A o, p \in inflight : o.ov = ov /\ p.ov = ov => o = p
  /\ \A i, j \in 1 .. Len(port) : port[i].ov = ov /\ port[j].ov = ov => i = j
  /\ \A d, e \in ready : d.ov = ov /\ e.ov = ov => d = e
  /\ Once(stack, <<"op", ov>>)
  /\ InKernel(ov) => ~InPort(ov) /\ ~InReady(ov) /\ ~In(stack, <<"op", ov>>)
  /\ InPort(ov) => ~InReady(ov) /\ ~In(stack, <<"op", ov>>)
  /\ InReady(ov) => ~In(stack, <<"op", ov>>)

\* Its operation is not handled yet.
Out(ov) == InKernel(ov) \/ InPort(ov) \/ InReady(ov) \/ In(stack, <<"wait", ov>>)

\* The flag of an open connection is set while its operation is not handled, or for good
\* if that was never noticed; one that does not exist has none; an accept has a socket.
OpInv(ov) ==
  /\ Single(ov)
  /\ ov \in lost => ~Out(ov)
  /\ ov[1] \in Conns \ created => ov \notin busy /\ ov \notin lost /\ ~Out(ov)
  /\ ov[1] \in created \ closed => (ov \in busy <=> Out(ov) \/ ov \in lost)
  /\ ov \in AcceptOps /\ Out(ov) => accept_fd[ov] # NoFd

\* The frame that handles the completion of ov has ov.
LEMMA WaitIsOp ==
  ASSUME NEW s, NEW ov \in Overlappeds, In(s, <<"wait", ov>>)
  PROVE  In(s, <<"op", ov>>)
BY ClaimFacts DEF In

\* The watcher of ov is as before, or created, or closed.
OwnerKept(ov) ==
  /\ ov[1] \in Conns \ created' => ov[1] \notin created
  /\ ov[1] \in created' \ closed' => ov[1] \in Conns /\ (ov[1] \in created => ov[1] \notin closed)

\* The kernel, the port and the events have what they had of ov.
SameKernel(ov) == \A o : o \in inflight' /\ o.ov = ov <=> o \in inflight /\ o.ov = ov
SamePort(ov) ==
  \A i : i \in 1 .. Len(port') /\ port'[i].ov = ov <=> i \in 1 .. Len(port) /\ port[i].ov = ov
SameReady(ov) == \A e : e \in ready' /\ e.ov = ov <=> e \in ready /\ e.ov = ov
Same(ov) == SameKernel(ov) /\ SamePort(ov) /\ SameReady(ov)

\* So it is when none of them changes.
LEMMA NothingMoved == ASSUME UNCHANGED <<inflight, port, ready>>, NEW ov PROVE Same(ov)
BY DEF Same, SameKernel, SamePort, SameReady

\* Then ov is where it was, and as often.
LEMMA SameIn ==
  ASSUME NEW ov, Same(ov)
  PROVE  /\ InKernel(ov)' <=> InKernel(ov)
         /\ InPort(ov)' <=> InPort(ov)
         /\ InReady(ov)' <=> InReady(ov)
         /\ Single(ov) =>
              /\ \A o, p \in inflight' : o.ov = ov /\ p.ov = ov => o = p
              /\ \A i, j \in 1 .. Len(port') : port'[i].ov = ov /\ port'[j].ov = ov => i = j
              /\ \A d, e \in ready' : d.ov = ov /\ e.ov = ov => d = e
<1>1. InKernel(ov)' <=> InKernel(ov)
  BY DEF InKernel, Same, SameKernel
<1>2. InPort(ov)' <=> InPort(ov)
  BY DEF InPort, Same, SamePort
<1>3. InReady(ov)' <=> InReady(ov)
  BY DEF InReady, Same, SameReady
<1>4. ASSUME Single(ov)
      PROVE  /\ \A o, p \in inflight' : o.ov = ov /\ p.ov = ov => o = p
             /\ \A i, j \in 1 .. Len(port') : port'[i].ov = ov /\ port'[j].ov = ov => i = j
             /\ \A d, e \in ready' : d.ov = ov /\ e.ov = ov => d = e
  BY <1>4 DEF Single, Same, SameKernel, SamePort, SameReady
<1> QED
  BY <1>1, <1>2, <1>3, <1>4

\* The frames keep what they have of ov.
StackKept(ov) ==
  /\ In(stack', <<"op", ov>>) => In(stack, <<"op", ov>>)
  /\ Once(stack, <<"op", ov>>) => Once(stack', <<"op", ov>>)
  /\ In(stack', <<"wait", ov>>) <=> In(stack, <<"wait", ov>>)

\* Nothing happens to ov.
LEMMA OpKept ==
  ASSUME NEW ov, OpInv(ov), Same(ov), StackKept(ov), OwnerKept(ov),
         ov \in lost' <=> ov \in lost, ov \in busy' <=> ov \in busy,
         ov \in AcceptOps /\ Out(ov) => accept_fd'[ov] # NoFd
  PROVE  OpInv(ov)'
<1>1. Out(ov)' <=> Out(ov)
  BY SameIn DEF Out, StackKept
<1>2. Single(ov)'
  BY SameIn DEF Single, OpInv, StackKept
<1> QED
  BY <1>1, <1>2 DEF OpInv, OwnerKept

\* An operation begins.
LEMMA OpIssued ==
  ASSUME NEW ov \in Overlappeds, OpInv(ov), NEW f, Issue(ov, f), UNCHANGED <<ready, created, closed>>,
         ~InKernel(ov), ~InPort(ov), ~InReady(ov),
         ~In(stack', <<"op", ov>>), Once(stack', <<"op", ov>>),
         ov[1] \in Conns => ov[1] \in created, ov \in AcceptOps => accept_fd'[ov] # NoFd
  PROVE  OpInv(ov)'
<1> DEFINE z == [ov |-> ov, fd |-> f, n |-> Cardinality({o \in inflight : o.ov = ov})]
<1>1. inflight' = inflight \cup {z} /\ z.ov = ov
  BY DEF Issue
<1> HIDE DEF z
<1>2. /\ InKernel(ov)' /\ \A o, p \in inflight' : o.ov = ov /\ p.ov = ov => o = p
  BY <1>1 DEF InKernel
<1>3. ~InPort(ov)' /\ \A i, j \in 1 .. Len(port') : port'[i].ov = ov /\ port'[j].ov = ov => i = j
  BY DEF InPort, Issue
<1>4. ~InReady(ov)' /\ \A d, e \in ready' : d.ov = ov /\ e.ov = ov => d = e
  BY DEF InReady
<1>5. Single(ov)'
  BY <1>2, <1>3, <1>4 DEF Single
<1>6. Out(ov)'
  BY <1>2 DEF Out
<1>7. ov \in busy' /\ ov \notin lost'
  BY DEF Issue
<1> QED
  BY <1>5, <1>6, <1>7 DEF OpInv

\* It is another one's.
LEMMA OthersIssued ==
  ASSUME NEW ov, NEW u, u # ov, NEW f, Issue(ov, f), UNCHANGED ready
  PROVE  Same(u) /\ (u \in lost' <=> u \in lost) /\ (u \in busy' <=> u \in busy)
BY DEF Issue, Same, SameKernel, SamePort, SameReady

\* The completion is handled, or ignored.
LEMMA OpConsumed ==
  ASSUME NEW ov \in Overlappeds, OpInv(ov), In(stack, <<"wait", ov>>),
         Same(ov), OwnerKept(ov),
         ~In(stack', <<"wait", ov>>), Once(stack', <<"op", ov>>),
         \/ ov \notin lost' /\ ov \notin busy'
         \/ ov \in lost' /\ (ov \in busy' <=> ov \in busy)
  PROVE  OpInv(ov)'
<1>1. In(stack, <<"op", ov>>) /\ ~InKernel(ov) /\ ~InPort(ov) /\ ~InReady(ov)
  BY WaitIsOp DEF OpInv, Single
<1>3. ~InKernel(ov)' /\ ~InPort(ov)' /\ ~InReady(ov)'
  BY <1>1, SameIn
<1>4. Single(ov)' /\ ~Out(ov)'
  BY <1>3, SameIn DEF Single, Out, OpInv
<1>5. Out(ov)
  BY DEF Out
<1> QED
  BY <1>4, <1>5 DEF OpInv, OwnerKept

----------------------------------------------------------------------------
(* The queues. *)

\* A packet is posted;
LEMMA Appended ==
  ASSUME NEW s, IsStack(s), NEW x
  PROVE  /\ IsStack(Append(s, x)) /\ Len(s) \in Nat /\ Len(Append(s, x)) = Len(s) + 1
         /\ Append(s, x)[Len(s) + 1] = x
         /\ \A i \in 1 .. Len(s) : Append(s, x)[i] = s[i]
<1>1. PICK S : s \in Seq(S)
  BY DEF IsStack
<1>2. s \in Seq(S \cup {x})
  BY <1>1
<1> QED
  BY <1>2 DEF IsStack

\* or several.
LEMMA Joined ==
  ASSUME NEW s, IsStack(s), NEW t, IsStack(t)
  PROVE  /\ IsStack(s \o t) /\ Len(s) \in Nat /\ Len(t) \in Nat /\ Len(s \o t) = Len(s) + Len(t)
         /\ \A i \in 1 .. Len(s) : (s \o t)[i] = s[i]
         /\ \A i \in 1 .. Len(t) : (s \o t)[Len(s) + i] = t[i]
<1>1. PICK S, T : s \in Seq(S) /\ t \in Seq(T)
  BY DEF IsStack
<1>2. s \in Seq(S \cup T) /\ t \in Seq(S \cup T)
  BY <1>1
<1>3. \A i \in 1 .. Len(t) : Len(s) + i \in 1 .. Len(s) + Len(t) /\ ~(Len(s) + i <= Len(s)) /\ (Len(s) + i) - Len(s) = i
  BY <1>2
<1> QED
  BY <1>2, <1>3 DEF IsStack

\* The members of a finite set, each once.
LEMMA SetToSeqFacts ==
  ASSUME NEW S, IsFiniteSet(S)
  PROVE  /\ Cardinality(S) \in Nat
         /\ SetToSeq(S) \in [1 .. Cardinality(S) -> S]
         /\ \A i, j \in 1 .. Cardinality(S) : SetToSeq(S)[i] = SetToSeq(S)[j] => i = j
         /\ \A x \in S : \E i \in 1 .. Cardinality(S) : SetToSeq(S)[i] = x
<1> DEFINE n == Cardinality(S)
           q == SetToSeq(S)
<1>1. n \in Nat /\ ExistsBijection(1 .. n, S)
  BY FS_CardinalityType
<1>2. \E f \in [1 .. n -> S] : IsInjective(f)
  BY <1>1 DEF ExistsBijection, Bijection, Injection
<1>3. q \in [1 .. n -> S] /\ IsInjective(q)
  BY <1>2 DEF SetToSeq
<1>4. q \in Injection(1 .. n, S)
  BY <1>3 DEF Injection
<1>5. Cardinality(1 .. n) = n
  BY <1>1, FS_Interval
<1> HIDE DEF q
<1>6. q \in Surjection(1 .. n, S)
  BY <1>4, <1>5, FS_Injection
<1>7. \A x \in S : \E i \in 1 .. n : q[i] = x
  BY <1>6 DEF Surjection
<1>8. \A i, j \in 1 .. n : q[i] = q[j] => i = j
  BY <1>3 DEF IsInjective
<1> QED
  BY <1>1, <1>3, <1>7, <1>8 DEF q

\* An operation completes: its packet is posted, or nobody learns of it.
LEMMA OpCompleted ==
  ASSUME NEW ov, OpInv(ov), NEW o \in inflight, o.ov = ov, NEW r, Complete(o, r), IsStack(port),
         UNCHANGED <<ready, stack, created, closed, accept_fd>>
  PROVE  OpInv(ov)'
<1>1. InKernel(ov) /\ Out(ov)
  BY DEF InKernel, Out
<1>2. ~InPort(ov) /\ ~InReady(ov) /\ ~In(stack, <<"op", ov>>) /\ ov \notin lost
  BY <1>1 DEF OpInv, Single
<1>3. ~InKernel(ov)'
  BY DEF Complete, InKernel, OpInv, Single
<1>4. ~InReady(ov)' /\ UNCHANGED busy
  BY <1>2 DEF InReady, Complete
<1>5. \A p, q \in inflight' : p.ov = ov /\ q.ov = ov => p = q
  BY <1>3 DEF InKernel
<1>6. /\ \A d, e \in ready' : d.ov = ov /\ e.ov = ov => d = e
      /\ Once(stack', <<"op", ov>>) /\ ~In(stack', <<"op", ov>>)
  BY <1>2 DEF OpInv, Single
<1>7. CASE Associated(o.fd)
  <2> DEFINE x == Packet(o.fd, o.ov)
  <2>1. port' = Append(port, x) /\ x.ov = ov /\ UNCHANGED lost
    BY <1>7 DEF Complete, Packet
  <2> HIDE DEF x
  <2>2. /\ Len(port) \in Nat /\ Len(port') = Len(port) + 1 /\ port'[Len(port) + 1] = x
        /\ \A i \in 1 .. Len(port) : port'[i] = port[i]
    BY <2>1, Appended
  <2>3. /\ Len(port) + 1 \in 1 .. Len(port')
        /\ \A i \in 1 .. Len(port') : i = Len(port) + 1 \/ i \in 1 .. Len(port)
    BY <2>2
  <2>4. \A i \in 1 .. Len(port') : port'[i].ov = ov <=> i = Len(port) + 1
    BY <1>2, <2>1, <2>2, <2>3 DEF InPort
  <2>5. InPort(ov)'
    BY <2>3, <2>4 DEF InPort
  <2>6. Single(ov)' /\ Out(ov)'
    BY <1>3, <1>4, <1>5, <1>6, <2>4, <2>5 DEF Single, Out
  <2> QED
    BY <1>1, <1>2, <1>4, <2>1, <2>6 DEF OpInv
<1>8. CASE ~Associated(o.fd)
  <2>1. UNCHANGED port /\ lost' = lost \cup {ov}
    BY <1>8 DEF Complete
  <2>2. ~InPort(ov)' /\ \A i, j \in 1 .. Len(port') : port'[i].ov = ov /\ port'[j].ov = ov => i = j
    BY <1>2, <2>1 DEF InPort
  <2>3. In(stack', <<"wait", ov>>) <=> In(stack, <<"wait", ov>>)
    OBVIOUS
  <2>4. ~In(stack, <<"wait", ov>>)
    <3>1. \A f : <<"wait", ov>> \in Claims(f) => <<"op", ov>> \in Claims(f)
      BY DEF Claims
    <3> QED
      BY <1>2, <3>1 DEF In
  <2>5. Single(ov)' /\ ~Out(ov)'
    BY <1>3, <1>4, <1>5, <1>6, <2>2, <2>3, <2>4 DEF Single, Out
  <2> QED
    BY <1>1, <1>2, <1>4, <2>1, <2>5 DEF OpInv
<1> QED
  BY <1>7, <1>8

\* It is the operation of another OVERLAPPED.
LEMMA OthersCompleted ==
  ASSUME NEW o \in inflight, NEW r, Complete(o, r), IsStack(port), UNCHANGED ready,
         NEW u, u # o.ov
  PROVE  Same(u) /\ (u \in lost' <=> u \in lost) /\ (u \in busy' <=> u \in busy)
<1>1. SameKernel(u) /\ SameReady(u) /\ (u \in lost' <=> u \in lost) /\ UNCHANGED busy
  BY DEF Complete, SameKernel, SameReady
<1>2. SamePort(u)
  <2>1. CASE UNCHANGED port
    BY <2>1 DEF SamePort
  <2>2. CASE port' = Append(port, Packet(o.fd, o.ov))
    <3> DEFINE x == Packet(o.fd, o.ov)
    <3>1. port' = Append(port, x) /\ x.ov # u
      BY <2>2 DEF Packet
    <3> HIDE DEF x
    <3>2. /\ Len(port) \in Nat /\ Len(port') = Len(port) + 1 /\ port'[Len(port) + 1] = x
          /\ \A i \in 1 .. Len(port) : port'[i] = port[i]
      BY <3>1, Appended
    <3>3. /\ \A i \in 1 .. Len(port') : i = Len(port) + 1 \/ i \in 1 .. Len(port)
          /\ \A i \in 1 .. Len(port) : i \in 1 .. Len(port')
      BY <3>2
    <3> QED
      BY <3>1, <3>2, <3>3 DEF SamePort
  <2> QED
    BY <2>1, <2>2 DEF Complete
<1> QED
  BY <1>1, <1>2 DEF Same

\* The operations on the socket f.
Gone(f) == {o \in inflight : o.fd = f}

\* The abort posts q: packets of operations that end, and one at most for ov.
Posted(q, f, ov) ==
  /\ IsStack(q) /\ port' = port \o q
  /\ \A i \in 1 .. Len(q) : \E o \in Gone(f) : q[i].ov = o.ov
  /\ \A i, j \in 1 .. Len(q) : q[i].ov = ov /\ q[j].ov = ov => i = j

\* Where the packets are.
LEMMA PostedAt ==
  ASSUME IsStack(port), NEW q, NEW f, NEW ov, Posted(q, f, ov)
  PROVE  /\ Len(port) \in Nat /\ Len(q) \in Nat /\ Len(port') = Len(port) + Len(q)
         /\ \A i \in 1 .. Len(port) : port'[i] = port[i]
         /\ \A i \in 1 .. Len(q) : port'[Len(port) + i] = q[i]
<1> DEFINE p == port \o q
<1>1. IsStack(q) /\ port' = p
  BY DEF Posted
<1>2. /\ Len(port) \in Nat /\ Len(q) \in Nat /\ Len(p) = Len(port) + Len(q)
      /\ \A i \in 1 .. Len(port) : p[i] = port[i]
      /\ \A i \in 1 .. Len(q) : p[Len(port) + i] = q[i]
  BY <1>1, Joined
<1> HIDE DEF p
<1> QED
  BY <1>1, <1>2

\* What the abort appends to the port.
LEMMA AbortedPort ==
  ASSUME IsStack(port), IsFiniteSet(inflight), NEW f, Abort(f), Associated(f),
         NEW ov, \A o, p \in Gone(f) : o.ov = ov /\ p.ov = ov => o = p
  PROVE  \E q : Posted(q, f, ov)
<1> DEFINE n == Cardinality(Gone(f))
           all == SetToSeq(Gone(f))
           q == [i \in 1 .. n |-> Packet(f, all[i].ov)]
<1>1. IsFiniteSet(Gone(f))
  BY FS_Subset DEF Gone
<1>2. /\ n \in Nat /\ all \in [1 .. n -> Gone(f)]
      /\ \A i, j \in 1 .. n : all[i] = all[j] => i = j
  BY <1>1, SetToSeqFacts
<1>3. port' = port \o q
  BY DEF Abort, Gone
<1> HIDE DEF all, n
<1>4. \A i \in 1 .. n : q[i].ov = all[i].ov
  BY DEF Packet
<1>5. q \in Seq({Packet(f, all[i].ov) : i \in 1 .. n}) /\ Len(q) = n
  BY <1>2
<1> HIDE DEF q
<1>6. IsStack(q)
  BY <1>5 DEF IsStack
<1>7. \A i \in 1 .. Len(q) : \E o \in Gone(f) : q[i].ov = o.ov
  BY <1>2, <1>4, <1>5
<1>8. ASSUME NEW i \in 1 .. Len(q), NEW j \in 1 .. Len(q), q[i].ov = ov, q[j].ov = ov
      PROVE  i = j
  <2>1. all[i] = all[j]
    BY <1>2, <1>4, <1>5, <1>8
  <2> QED
    BY <1>2, <1>5, <2>1
<1> QED
  BY <1>3, <1>6, <1>7, <1>8 DEF Posted

\* The socket f is closed: nothing happens to the OVERLAPPEDs of the others.
LEMMA OthersAborted ==
  ASSUME IsStack(port), IsFiniteSet(inflight), NEW f, Abort(f), UNCHANGED ready,
         NEW u, \A o \in inflight : o.ov = u => o.fd # f
  PROVE  Same(u) /\ (u \in lost' <=> u \in lost)
<1>1. SameKernel(u) /\ SameReady(u) /\ UNCHANGED lost
  BY DEF Abort, SameKernel, SameReady
<1>2. SamePort(u)
  <2>1. CASE ~Associated(f)
    <3>1. UNCHANGED port
      BY <2>1 DEF Abort
    <3> QED
      BY <3>1 DEF SamePort
  <2>2. CASE Associated(f)
    <3>1. PICK q : Posted(q, f, u)
      <4>1. \A p, r \in Gone(f) : p.ov = u /\ r.ov = u => p = r
        BY DEF Gone
      <4> QED
        BY <2>2, <4>1, AbortedPort
    <3>2. \A i \in 1 .. Len(q) : q[i].ov # u
      BY <3>1 DEF Gone, Posted
    <3>3. /\ Len(port) \in Nat /\ Len(q) \in Nat /\ Len(port') = Len(port) + Len(q)
          /\ \A i \in 1 .. Len(port) : port'[i] = port[i]
          /\ \A i \in 1 .. Len(q) : port'[Len(port) + i] = q[i]
      BY <3>1, PostedAt
    <3>4. /\ \A i \in 1 .. Len(port) : i \in 1 .. Len(port')
          /\ \A i \in 1 .. Len(port') :
               i \in 1 .. Len(port) \/ (i - Len(port) \in 1 .. Len(q) /\ i = Len(port) + (i - Len(port)))
      BY <3>3
    <3>5. \A i \in 1 .. Len(port') : i \in 1 .. Len(port) \/ port'[i].ov # u
      <4> TAKE i \in 1 .. Len(port')
      <4>1. CASE i \in 1 .. Len(port)
        BY <4>1
      <4>2. CASE i - Len(port) \in 1 .. Len(q) /\ i = Len(port) + (i - Len(port))
        <5> DEFINE j == i - Len(port)
        <5>1. j \in 1 .. Len(q) /\ i = Len(port) + j
          BY <4>2
        <5> HIDE DEF j
        <5> QED
          BY <5>1, <3>2, <3>3
      <4> QED
        BY <4>1, <4>2, <3>4
    <3> QED
      BY <3>3, <3>4, <3>5 DEF SamePort
  <2> QED
    BY <2>1, <2>2
<1> QED
  BY <1>1, <1>2 DEF Same

\* The operation is aborted with the socket of its watcher.
LEMMA OpAborted ==
  ASSUME NEW ov, OpInv(ov), IsStack(port), IsFiniteSet(inflight), NEW f, Abort(f),
         NEW o \in inflight, o.ov = ov, o.fd = f,
         UNCHANGED <<ready, accept_fd>>, StackKept(ov), OwnerKept(ov),
         ov[1] \notin created' \ closed'
  PROVE  OpInv(ov)'
<1>1. InKernel(ov) /\ Out(ov)
  BY DEF InKernel, Out
<1>2. ~InPort(ov) /\ ~InReady(ov) /\ ~In(stack, <<"op", ov>>) /\ ov \notin lost
  BY <1>1 DEF OpInv, Single
<1>3. ~InKernel(ov)' /\ \A p, q \in inflight' : p.ov = ov /\ q.ov = ov => p = q
  BY DEF Abort, InKernel, OpInv, Single
<1>4. ~InReady(ov)' /\ ~In(stack', <<"op", ov>>) /\ Once(stack', <<"op", ov>>)
  BY <1>2 DEF InReady, StackKept, OpInv, Single
<1>5. \A d, e \in ready' : d.ov = ov /\ e.ov = ov => d = e
  BY DEF OpInv, Single
<1>6. \A i, j \in 1 .. Len(port') : port'[i].ov = ov /\ port'[j].ov = ov => i = j
  <2>1. CASE ~Associated(f)
    <3>1. UNCHANGED port
      BY <2>1 DEF Abort
    <3> QED
      BY <3>1 DEF OpInv, Single
  <2>2. CASE Associated(f)
    <3>1. PICK q : Posted(q, f, ov)
      <4>1. \A p, r \in Gone(f) : p.ov = ov /\ r.ov = ov => p = r
        BY DEF Gone, OpInv, Single
      <4> QED
        BY <2>2, <4>1, AbortedPort
    <3>2. /\ Len(port) \in Nat /\ Len(q) \in Nat /\ Len(port') = Len(port) + Len(q)
          /\ \A i \in 1 .. Len(port) : port'[i] = port[i]
          /\ \A i \in 1 .. Len(q) : port'[Len(port) + i] = q[i]
      BY <3>1, PostedAt
    <3>3. \A i \in 1 .. Len(port') :
            i \in 1 .. Len(port) \/ \E k \in 1 .. Len(q) : i = Len(port) + k
      <4> TAKE i \in 1 .. Len(port')
      <4>1. i \in 1 .. Len(port) \/ (i - Len(port) \in 1 .. Len(q) /\ i = Len(port) + (i - Len(port)))
        BY <3>2
      <4> QED
        BY <4>1
    <3> SUFFICES ASSUME NEW i \in 1 .. Len(port'), NEW j \in 1 .. Len(port'),
                        port'[i].ov = ov, port'[j].ov = ov
                 PROVE  i = j
      OBVIOUS
    <3>4. i \notin 1 .. Len(port) /\ j \notin 1 .. Len(port)
      BY <1>2, <3>2 DEF InPort
    <3>5. PICK k \in 1 .. Len(q), l \in 1 .. Len(q) : i = Len(port) + k /\ j = Len(port) + l
      BY <3>3, <3>4
    <3>6. k = l
      BY <3>1, <3>2, <3>5 DEF Posted
    <3> QED
      BY <3>5, <3>6
  <2> QED
    BY <2>1, <2>2
<1>7. Single(ov)'
  BY <1>3, <1>4, <1>5, <1>6 DEF Single
<1>8. UNCHANGED lost
  BY DEF Abort
<1> QED
  BY <1>1, <1>2, <1>7, <1>8 DEF OpInv, OwnerKept

----------------------------------------------------------------------------
(* The frames. *)

\* The frames that the code pushes.
GoodFrame(f) ==
  /\ f.at = "post" => f.n \in Nat \ {0}
  /\ f.at \in {"repost", "drop"} => f.n \in 1 .. AcceptDepth
  /\ f.at = "ready" => \E ov \in Overlappeds : f.ev = {ov}
  /\ f.at = "close" => f.w \in created

StackOK(s) == IsStack(s) /\ \A i \in 1 .. Len(s) : GoodFrame(s[i])

\* A frame that says nothing about OVERLAPPEDs, dispatches and sockets.
Plain(f) == f.at \notin {"ready", "connect", "post", "repost", "drop", "dispatch"} /\ GoodFrame(f)

\* What the invariants ask of the stack.
Tokens ==
  {<<"at", <<"dispatch", Worker>>>>} \cup {<<"at", <<"connect", c>>>> : c \in Connects}
    \cup {<<"op", ov>> : ov \in Overlappeds} \cup {<<"wait", ov>> : ov \in Overlappeds}

\* The frames of s and of t stand for x alike.
Alike(s, t, x) == (In(s, x) <=> In(t, x)) /\ (Once(s, x) <=> Once(t, x))

\* From s to t only plain frames come and go.
Calm(s, t) == StackOK(t) /\ \A x \in Tokens : Alike(s, t, x)

\* A plain frame stands for nothing that matters here.
LEMMA PlainClaims == ASSUME NEW f, Plain(f) PROVE Claims(f) \cap Tokens = {}
<1>1. \A ov \in Overlappeds : <<"wait", ov>> \notin Claims(f) /\ <<"op", ov>> \notin Claims(f)
  BY PlainFrame, ClaimFacts DEF Plain
<1>2. /\ <<"at", <<"dispatch", Worker>>>> \notin Claims(f)
      /\ \A c \in Connects : <<"at", <<"connect", c>>>> \notin Claims(f)
  BY ClaimFacts DEF Plain
<1> QED
  BY <1>1, <1>2 DEF Tokens

\* Pushing such a frame, and popping one, leaves such frames.
LEMMA StackPushed ==
  ASSUME NEW s, StackOK(s), NEW f, GoodFrame(f)
  PROVE  StackOK(<<f>> \o s)
<1> DEFINE t == <<f>> \o s
<1>1. /\ IsStack(t) /\ Len(s) \in Nat /\ Len(t) = Len(s) + 1 /\ t[1] = f
      /\ \A i \in 1 .. Len(s) : t[i + 1] = s[i]
  BY Pushed DEF StackOK
<1> HIDE DEF t
<1>2. \A j \in 1 .. Len(t) : j = 1 \/ (j - 1 \in 1 .. Len(s) /\ j = (j - 1) + 1)
  BY <1>1
<1>3. \A j \in 1 .. Len(t) : j = 1 \/ (j - 1 \in 1 .. Len(s) /\ t[j] = s[j - 1])
  BY <1>1, <1>2
<1>4. \A j \in 1 .. Len(t) : GoodFrame(t[j])
  BY <1>1, <1>3 DEF StackOK
<1> QED
  BY <1>1, <1>4 DEF StackOK, t

LEMMA StackPopped ==
  ASSUME NEW s, StackOK(s), s # <<>>
  PROVE  StackOK(Tail(s)) /\ GoodFrame(Head(s))
<1> DEFINE t == Tail(s)
<1>1. /\ IsStack(t) /\ Len(s) \in Nat \ {0} /\ Len(t) = Len(s) - 1 /\ Head(s) = s[1]
      /\ \A i \in 1 .. Len(t) : t[i] = s[i + 1]
  BY Popped DEF StackOK
<1> HIDE DEF t
<1>2. 1 \in 1 .. Len(s) /\ \A i \in 1 .. Len(t) : i + 1 \in 1 .. Len(s)
  BY <1>1
<1>3. \A i \in 1 .. Len(t) : GoodFrame(t[i])
  BY <1>1, <1>2 DEF StackOK
<1>4. GoodFrame(Head(s))
  BY <1>1, <1>2 DEF StackOK
<1> QED
  BY <1>1, <1>3, <1>4 DEF StackOK, t

\* A plain frame is pushed.
LEMMA CalmPushed ==
  ASSUME NEW s, StackOK(s), NEW f, Plain(f)
  PROVE  Calm(s, <<f>> \o s)
<1>1. StackOK(<<f>> \o s) /\ IsStack(s)
  BY StackPushed DEF Plain, StackOK
<1>2. \A x \in Tokens : x \notin Claims(f)
  BY PlainClaims
<1>3. \A x \in Tokens : Alike(s, <<f>> \o s, x)
  BY <1>1, <1>2, InPushed DEF Alike
<1> QED
  BY <1>1, <1>3 DEF Calm

\* One calm change after another.
LEMMA CalmThen ==
  ASSUME NEW s, NEW t, NEW u, Calm(s, t), Calm(t, u)
  PROVE  Calm(s, u)
BY DEF Calm, Alike

\* Two plain frames are pushed.
LEMMA CalmPushedTwo ==
  ASSUME NEW s, StackOK(s), NEW f, NEW g, Plain(f), Plain(g)
  PROVE  Calm(s, <<f, g>> \o s)
<1>1. Calm(s, <<g>> \o s)
  BY CalmPushed
<1>2. Calm(<<g>> \o s, <<f>> \o (<<g>> \o s))
  BY <1>1, CalmPushed DEF Calm
<1>3. <<f, g>> \o s = <<f>> \o (<<g>> \o s)
  BY PushedTwo, Zenon DEF StackOK
<1> QED
  BY <1>1, <1>2, <1>3, CalmThen, Zenon

\* A plain frame is popped.
LEMMA CalmPopped ==
  ASSUME NEW s, StackOK(s), s # <<>>, Plain(Head(s))
  PROVE  Calm(s, Tail(s))
<1>1. StackOK(Tail(s)) /\ IsStack(s)
  BY StackPopped DEF StackOK
<1>2. \A x \in Tokens : x \notin Claims(Head(s))
  BY PlainClaims
<1>3. \A x \in Tokens : Alike(s, Tail(s), x)
  BY <1>1, <1>2, InPopped DEF Alike
<1> QED
  BY <1>1, <1>3 DEF Calm

\* The ways in which the stack changes calmly.
LEMMA CalmForms ==
  ASSUME NEW s, StackOK(s)
  PROVE  /\ Calm(s, s)
         /\ \A f : Plain(f) => Calm(s, <<f>> \o s)
         /\ \A f, g : Plain(f) /\ Plain(g) => Calm(s, <<f, g>> \o s)
<1>1. Calm(s, s)
  BY DEF Calm, Alike
<1>2. ASSUME NEW f, Plain(f) PROVE Calm(s, <<f>> \o s)
  BY <1>2, CalmPushed
<1>3. ASSUME NEW f, NEW g, Plain(f), Plain(g) PROVE Calm(s, <<f, g>> \o s)
  BY <1>3, CalmPushedTwo
<1> QED
  BY <1>1, <1>2, <1>3

\* What a frame claims, if it has the OVERLAPPEDs of mine, and waits for those of waited.
FrameClaims(f, mine, waited, connects) ==
  /\ \A u \in Overlappeds : /\ <<"op", u>> \in Claims(f) <=> u \in mine
                            /\ <<"wait", u>> \in Claims(f) <=> u \in waited
  /\ <<"at", <<"dispatch", Worker>>>> \notin Claims(f)
  /\ \A c \in Connects : <<"at", <<"connect", c>>>> \in Claims(f) <=> c \in connects

\* The frame of a handler has the OVERLAPPED it waits for.
LEMMA ReadyClaims ==
  ASSUME NEW f, f.at = "ready", NEW ov \in Overlappeds, f.ev = {ov}
  PROVE  FrameClaims(f, {ov}, {ov}, {})
<1>1. \A u \in Overlappeds : (Waits(f, u) <=> u = ov) /\ ~WillIssue(f, u)
  BY DEF Waits, WillIssue
<1>2. \A u \in Overlappeds : /\ <<"wait", u>> \in Claims(f) <=> u = ov
                             /\ <<"op", u>> \in Claims(f) <=> u = ov
  BY <1>1, ClaimFacts
<1>3. /\ <<"at", <<"dispatch", Worker>>>> \notin Claims(f)
      /\ \A c \in Connects : <<"at", <<"connect", c>>>> \notin Claims(f)
  BY ClaimFacts
<1> QED
  BY <1>2, <1>3 DEF FrameClaims

\* The frame of start() in the middle of a connect has the OVERLAPPED of the connect.
LEMMA ConnectClaims ==
  ASSUME NEW f, f.at = "connect", NEW c \in Connects, f.w = c
  PROVE  FrameClaims(f, {<<c, "connect">>}, {}, {c})
<1>2. \A u \in Overlappeds : ~Waits(f, u) /\ (WillIssue(f, u) <=> u = <<c, "connect">>)
  BY DEF Waits, WillIssue
<1>3. \A u \in Overlappeds : /\ <<"wait", u>> \notin Claims(f)
                             /\ <<"op", u>> \in Claims(f) <=> u = <<c, "connect">>
  BY <1>2, ClaimFacts
<1>4. /\ <<"at", <<"dispatch", Worker>>>> \notin Claims(f)
      /\ \A b \in Connects : <<"at", <<"connect", b>>>> \in Claims(f) <=> b = c
  BY ClaimFacts
<1> QED
  BY <1>3, <1>4 DEF FrameClaims

\* The frame that posts one accept again, or closes its socket, has its OVERLAPPED.
LEMMA RepostClaims ==
  ASSUME NEW f, f.at \in {"repost", "drop"}, NEW a \in Accepts, f.w = a, f.n \in 1 .. AcceptDepth
  PROVE  FrameClaims(f, {<<a, f.n>>}, {}, {})
<1>1. <<a, f.n>> \in Overlappeds /\ <<a, f.n>> \in AcceptOps
  BY IocpAssumption DEF AcceptOps
<1>2. \A u \in Overlappeds : ~Waits(f, u) /\ (WillIssue(f, u) <=> u = <<a, f.n>>)
  BY <1>1 DEF Waits, WillIssue
<1>3. \A u \in Overlappeds : /\ <<"wait", u>> \notin Claims(f)
                             /\ <<"op", u>> \in Claims(f) <=> u = <<a, f.n>>
  BY <1>2, ClaimFacts
<1>4. /\ <<"at", <<"dispatch", Worker>>>> \notin Claims(f)
      /\ \A b \in Connects : <<"at", <<"connect", b>>>> \notin Claims(f)
  BY ClaimFacts
<1> QED
  BY <1>3, <1>4 DEF FrameClaims

\* The operations of a from number n on.
OpsFrom(a, n) == {op \in AcceptOps : op[1] = a /\ op[2] >= n}

\* The frame that posts one accept after another has those to come.
LEMMA PostClaims ==
  ASSUME NEW f, f.at = "post", NEW a, f.w = a
  PROVE  FrameClaims(f, OpsFrom(a, f.n), {}, {})
<1>2. \A u \in Overlappeds : ~Waits(f, u) /\ (WillIssue(f, u) <=> u \in OpsFrom(a, f.n))
  BY DEF Waits, WillIssue, OpsFrom
<1>3. \A u \in Overlappeds : /\ <<"wait", u>> \notin Claims(f)
                             /\ <<"op", u>> \in Claims(f) <=> u \in OpsFrom(a, f.n)
  BY <1>2, ClaimFacts
<1>4. /\ <<"at", <<"dispatch", Worker>>>> \notin Claims(f)
      /\ \A b \in Connects : <<"at", <<"connect", b>>>> \notin Claims(f)
  BY ClaimFacts
<1> QED
  BY <1>3, <1>4 DEF FrameClaims

\* The dispatch of the events is on the stack; c is between its socket and the ConnectEx.
Dispatching == <<"at", <<"dispatch", Worker>>>>
Connecting(c) == <<"at", <<"connect", c>>>>

\* All of these are tokens.
LEMMA TokenKinds ==
  /\ Dispatching \in Tokens
  /\ \A c \in Connects : Connecting(c) \in Tokens
  /\ \A ov \in Overlappeds : <<"op", ov>> \in Tokens /\ <<"wait", ov>> \in Tokens
BY DEF Tokens, Dispatching, Connecting

\* The innermost frame goes, and plain ones come.
LEMMA HeadPopped ==
  ASSUME StackOK(stack), stack # <<>>, Calm(Rest, stack'), NEW x \in Tokens
  PROVE  /\ In(stack', x) => In(stack, x)
         /\ x \notin Claims(Head(stack)) => (In(stack', x) <=> In(stack, x))
         /\ x \in Claims(Head(stack)) => In(stack, x) /\ (Once(stack, x) => ~In(stack', x))
         /\ Once(stack, x) => Once(stack', x)
<1>1. /\ In(stack, x) <=> x \in Claims(Head(stack)) \/ In(Tail(stack), x)
      /\ Once(stack, x) <=> Once(Tail(stack), x) /\ ~(x \in Claims(Head(stack)) /\ In(Tail(stack), x))
  BY InPopped DEF StackOK
<1>2. Alike(Tail(stack), stack', x)
  BY DEF Calm, Rest
<1> QED
  BY <1>1, <1>2 DEF Alike

\* What ov is told of the stack when it changes calmly;
LEMMA KeptCalm ==
  ASSUME Calm(stack, stack'), NEW ov \in Overlappeds
  PROVE  StackKept(ov)
BY TokenKinds DEF Calm, Alike, StackKept

\* when a frame goes that does not handle its completion;
LEMMA KeptByPop ==
  ASSUME StackOK(stack), stack # <<>>, Calm(Rest, stack'), NEW ov \in Overlappeds,
         <<"wait", ov>> \notin Claims(Head(stack))
  PROVE  StackKept(ov)
BY TokenKinds, HeadPopped DEF StackKept

\* and when the one that has it goes.
LEMMA FreedByPop ==
  ASSUME StackOK(stack), stack # <<>>, Calm(Rest, stack'), NEW ov \in Overlappeds,
         Once(stack, <<"op", ov>>), <<"op", ov>> \in Claims(Head(stack))
  PROVE  /\ In(stack, <<"op", ov>>) /\ Once(stack', <<"op", ov>>)
         /\ ~In(stack', <<"op", ov>>) /\ ~In(stack', <<"wait", ov>>)
BY TokenKinds, HeadPopped, WaitIsOp

\* The frame of the handler of ov is the innermost one.
LEMMA HandlerHead ==
  ASSUME StackOK(stack), NEW w, At("ready", w)
  PROVE  \E ov \in Overlappeds : Head(stack).ev = {ov} /\ FrameClaims(Head(stack), {ov}, {ov}, {})
<1>1. GoodFrame(Head(stack))
  BY StackPopped DEF At
<1>2. PICK ov \in Overlappeds : Head(stack).ev = {ov}
  BY <1>1 DEF GoodFrame, At
<1> QED
  BY <1>2, ReadyClaims DEF At

----------------------------------------------------------------------------

\* The queues hold operations of the watchers' sockets, and events wait for the dispatch.
QueuesOK ==
  /\ IsFiniteSet(inflight)
  /\ \A o \in inflight : o.ov \in Overlappeds /\ o.fd \in Fds /\ fd[o.ov[1]] = o.fd
  /\ IsStack(port) /\ \A i \in 1 .. Len(port) : port[i].ov \in Overlappeds
  /\ \A e \in ready : e.ov \in Overlappeds
  /\ ready # {} => In(stack, Dispatching)

\* Which watchers have a socket.
LinksOK ==
  /\ orphans = {} /\ created \subseteq Conns /\ closed \subseteq created
  /\ \A k \in Conns : fd[k] # NoFd <=> k \in created \ closed
  /\ \A a \in attached \cap Accepts : fd[a] # NoFd
  /\ \A c \in Connects : fd[c] # NoFd => c \in attached \/ In(stack, Connecting(c))

\* The inductive invariant.
OpsOK == \A ov \in Overlappeds : OpInv(ov)

IInv == OwnersOK /\ QueuesOK /\ LinksOK /\ StackOK(stack) /\ OpsOK

\* Connections are created and closed, for good.
Grows == created \subseteq created' /\ closed \subseteq closed' /\ created' \subseteq Conns

\* A connection that is created, or closed, stays so.
LEMMA GrownOwner == ASSUME Grows, NEW ov \in Overlappeds PROVE OwnerKept(ov)
BY DEF Grows, OwnerKept

\* The frames are good ones after the step as well.
LEMMA StackStays == ASSUME Grows, StackOK(stack') PROVE StackOK(stack)'
BY DEF Grows, StackOK, GoodFrame

\* The invariants when no operation begins, ends or moves;
LEMMA OpsKept ==
  ASSUME OpsOK, Grows, UNCHANGED <<inflight, port, ready, lost, busy, accept_fd>>,
         \A ov \in Overlappeds : StackKept(ov)
  PROVE  OpsOK'
<1> SUFFICES ASSUME NEW ov \in Overlappeds PROVE OpInv(ov)'
  BY DEF OpsOK
<1>1. OpInv(ov) /\ Same(ov) /\ OwnerKept(ov) /\ StackKept(ov)
  BY NothingMoved, GrownOwner DEF OpsOK
<1>2. ov \in AcceptOps /\ Out(ov) => accept_fd'[ov] # NoFd
  BY <1>1 DEF OpInv
<1> QED
  BY <1>1, <1>2, OpKept

\* when the queues stay, and the sockets they refer to;
LEMMA QueuesKept ==
  ASSUME QueuesOK, UNCHANGED <<inflight, port, ready>>,
         \A o \in inflight : fd'[o.ov[1]] = fd[o.ov[1]],
         In(stack, Dispatching) => In(stack', Dispatching)
  PROVE  QueuesOK'
BY DEF QueuesOK

\* and when nobody gets or loses a socket.
LEMMA LinksKept ==
  ASSUME LinksOK, UNCHANGED <<orphans, created, closed, fd>>,
         attached \cap Connects \subseteq attached', attached' \cap Accepts \subseteq attached,
         \A c \in Connects : In(stack, Connecting(c)) => In(stack', Connecting(c))
  PROVE  LinksOK'
BY DEF LinksOK

\* Tokens that a calm change keeps.
LEMMA CalmTokens ==
  ASSUME Calm(stack, stack')
  PROVE  /\ In(stack, Dispatching) => In(stack', Dispatching)
         /\ \A c \in Connects : In(stack, Connecting(c)) => In(stack', Connecting(c))
BY TokenKinds DEF Calm, Alike

\* Tokens that the end of the innermost frame keeps.
LEMMA PopTokens ==
  ASSUME StackOK(stack), stack # <<>>, Calm(Rest, stack'),
         NEW mine, NEW waited, NEW cs, FrameClaims(Head(stack), mine, waited, cs)
  PROVE  /\ In(stack, Dispatching) => In(stack', Dispatching)
         /\ \A c \in Connects \ cs : In(stack, Connecting(c)) => In(stack', Connecting(c))
BY TokenKinds, HeadPopped DEF FrameClaims, Dispatching, Connecting

\* Nothing but plain frames, sockets and what is registered.
LEMMA CalmStep ==
  ASSUME IInv, Calm(stack, stack'), OwnersOK',
         UNCHANGED <<inflight, port, ready, lost, busy, accept_fd, orphans, created, closed, fd>>,
         attached \cap Connects \subseteq attached', attached' \cap Accepts \subseteq attached
  PROVE  IInv'
<1>1. Grows /\ StackOK(stack')
  BY DEF Grows, IInv, LinksOK, Calm
<1>2. OpsOK'
  BY <1>1, KeptCalm, OpsKept DEF IInv
<1>3. QueuesOK'
  BY CalmTokens, QueuesKept DEF IInv
<1>4. LinksOK'
  BY CalmTokens, LinksKept DEF IInv
<1> QED
  BY <1>1, <1>2, <1>3, <1>4, StackStays DEF IInv

\* The innermost frame, which waits for no completion, is through.
LEMMA PopStep ==
  ASSUME IInv, stack # <<>>, Calm(Rest, stack'), OwnersOK',
         UNCHANGED <<inflight, port, ready, lost, busy, accept_fd, orphans, created, closed, fd>>,
         NEW mine, NEW cs, FrameClaims(Head(stack), mine, {}, cs),
         attached \cap Connects \subseteq attached', attached' \cap Accepts \subseteq attached,
         \A c \in cs \cap Connects : fd[c] # NoFd => c \in attached'
  PROVE  IInv'
<1>1. Grows /\ StackOK(stack') /\ StackOK(stack)
  BY DEF Grows, IInv, LinksOK, Calm
<1>2. \A ov \in Overlappeds : StackKept(ov)
  BY <1>1, KeptByPop DEF FrameClaims
<1>3. OpsOK'
  BY <1>1, <1>2, OpsKept DEF IInv
<1>4. /\ In(stack, Dispatching) => In(stack', Dispatching)
      /\ \A c \in Connects \ cs : In(stack, Connecting(c)) => In(stack', Connecting(c))
  BY <1>1, PopTokens
<1>5. QueuesOK'
  BY <1>4, QueuesKept DEF IInv
<1>6. LinksOK'
  BY <1>4 DEF IInv, LinksOK
<1> QED
  BY <1>1, <1>3, <1>5, <1>6, StackStays DEF IInv

\* Nobody has an operation with ov.
Free(ov) == ~InKernel(ov) /\ ~InPort(ov) /\ ~InReady(ov)

\* Nobody else has the OVERLAPPED of a completion that is being handled.
LEMMA WaitedIsFree ==
  ASSUME NEW ov \in Overlappeds, OpInv(ov), In(stack, <<"wait", ov>>)
  PROVE  Free(ov) /\ Out(ov) /\ ov \notin lost
BY WaitIsOp DEF Free, Out, OpInv, Single

\* The handler of the completion of ov is through with it.
LEMMA HandlerCalm ==
  ASSUME IInv, stack # <<>>, Calm(Rest, stack'), NEW ov \in Overlappeds,
         FrameClaims(Head(stack), {ov}, {ov}, {})
  PROVE  /\ In(stack, <<"wait", ov>>) /\ ~In(stack', <<"wait", ov>>)
         /\ ~In(stack', <<"op", ov>>) /\ Once(stack', <<"op", ov>>)
         /\ \A u \in Overlappeds \ {ov} : StackKept(u)
         /\ In(stack, Dispatching) => In(stack', Dispatching)
         /\ \A c \in Connects : In(stack, Connecting(c)) => In(stack', Connecting(c))
         /\ StackOK(stack')
<1>1. StackOK(stack) /\ StackOK(stack') /\ Once(stack, <<"op", ov>>)
  BY DEF IInv, Calm, OpsOK, OpInv, Single
<1>2. <<"op", ov>> \in Claims(Head(stack)) /\ <<"wait", ov>> \in Claims(Head(stack))
  BY DEF FrameClaims
<1>3. /\ ~In(stack', <<"op", ov>>) /\ Once(stack', <<"op", ov>>) /\ ~In(stack', <<"wait", ov>>)
  BY <1>1, <1>2, FreedByPop
<1>4. In(stack, <<"wait", ov>>)
  BY <1>1, <1>2, TokenKinds, HeadPopped
<1>5. \A u \in Overlappeds \ {ov} : StackKept(u)
  BY <1>1, KeptByPop DEF FrameClaims
<1> QED
  BY <1>1, <1>3, <1>4, <1>5, PopTokens

\* It calls back, and will issue the operation again.
LEMMA HandlerReposts ==
  ASSUME IInv, stack # <<>>, NEW ov \in AcceptOps,
         FrameClaims(Head(stack), {ov}, {ov}, {}),
         NEW f, Plain(f), NEW g, g = Frame("repost", ov[1], ov[2], {}), stack' = <<f, g>> \o Rest
  PROVE  /\ In(stack, <<"wait", ov>>) /\ ~In(stack', <<"wait", ov>>)
         /\ Once(stack', <<"op", ov>>)
         /\ \A u \in Overlappeds \ {ov} : StackKept(u)
         /\ In(stack, Dispatching) => In(stack', Dispatching)
         /\ \A c \in Connects : In(stack, Connecting(c)) => In(stack', Connecting(c))
         /\ StackOK(stack')
<1>1. StackOK(stack) /\ Once(stack, <<"op", ov>>) /\ ov \in Overlappeds
  BY IocpAssumption DEF IInv, OpsOK, OpInv, Single, AcceptOps
<1>2. StackOK(Rest) /\ IsStack(stack)
  BY <1>1, StackPopped DEF Rest, StackOK
<1>3. g.at = "repost" /\ g.w = ov[1] /\ g.n = ov[2] /\ ov[1] \in Accepts /\ ov[2] \in 1 .. AcceptDepth
      /\ ov = <<ov[1], ov[2]>>
  BY DEF Frame, AcceptOps
<1>4. FrameClaims(g, {ov}, {}, {})
  BY <1>3, RepostClaims
<1>5. StackOK(stack')
  <2>1. GoodFrame(g)
    BY <1>3 DEF GoodFrame
  <2>2. StackOK(<<g>> \o Rest)
    BY <1>2, <2>1, StackPushed
  <2>3. stack' = <<f>> \o (<<g>> \o Rest)
    BY <1>2, PushedTwo DEF StackOK
  <2> QED
    BY <2>2, <2>3, StackPushed DEF Plain
<1>6. \A x \in Tokens : x \notin Claims(f)
  BY PlainClaims
<1>7. ASSUME NEW x \in Tokens
      PROVE  /\ In(stack, x) <=> x \in Claims(Head(stack)) \/ In(Rest, x)
             /\ Once(stack, x) <=> Once(Rest, x) /\ ~(x \in Claims(Head(stack)) /\ In(Rest, x))
             /\ In(stack', x) <=> x \in Claims(g) \/ In(Rest, x)
             /\ Once(stack', x) <=> Once(Rest, x) /\ ~(x \in Claims(g) /\ In(Rest, x))
  <2>1. /\ In(stack, x) <=> x \in Claims(Head(stack)) \/ In(Rest, x)
        /\ Once(stack, x) <=> Once(Rest, x) /\ ~(x \in Claims(Head(stack)) /\ In(Rest, x))
    BY <1>2, InPopped DEF Rest
  <2>2. IsStack(Rest)
    BY <1>2 DEF StackOK
  <2> QED
    BY <1>6, <2>1, <2>2, InPushedTwo
<1>8. \A u \in Overlappeds : <<"op", u>> \in Tokens /\ <<"wait", u>> \in Tokens
  BY TokenKinds
<1>9. /\ In(stack, <<"wait", ov>>) /\ ~In(stack', <<"wait", ov>>) /\ Once(stack', <<"op", ov>>)
  <2>1. ~In(Rest, <<"op", ov>>) /\ Once(Rest, <<"op", ov>>) /\ In(stack, <<"wait", ov>>)
    BY <1>1, <1>7, <1>8 DEF FrameClaims
  <2>2. ~In(Rest, <<"wait", ov>>)
    BY <1>1, <2>1, WaitIsOp
  <2> QED
    BY <1>1, <1>4, <1>7, <1>8, <2>1, <2>2 DEF FrameClaims
<1>10. ASSUME NEW u \in Overlappeds \ {ov} PROVE StackKept(u)
  BY <1>4, <1>7, <1>8 DEF FrameClaims, StackKept
<1>11. /\ In(stack, Dispatching) => In(stack', Dispatching)
       /\ \A c \in Connects : In(stack, Connecting(c)) => In(stack', Connecting(c))
  BY <1>7, TokenKinds DEF FrameClaims, Dispatching, Connecting
<1> QED
  BY <1>5, <1>9, <1>10, <1>11

\* A completion is handled: no OVERLAPPED is worse off.
LEMMA OpsConsumed ==
  ASSUME OpsOK, Grows, NEW ov \in Overlappeds, In(stack, <<"wait", ov>>), Same(ov),
         ~In(stack', <<"wait", ov>>), Once(stack', <<"op", ov>>),
         \/ ov \notin lost' /\ ov \notin busy'
         \/ ov \in lost' /\ (ov \in busy' <=> ov \in busy),
         \A u \in Overlappeds \ {ov} :
           /\ Same(u) /\ StackKept(u)
           /\ u \in lost' <=> u \in lost
           /\ u \in busy' <=> u \in busy
           /\ u \in AcceptOps => accept_fd'[u] = accept_fd[u]
  PROVE  OpsOK'
<1>1. OpInv(ov)'
  BY GrownOwner, OpConsumed DEF OpsOK
<1>2. ASSUME NEW u \in Overlappeds \ {ov} PROVE OpInv(u)'
  <2>1. OpInv(u) /\ OwnerKept(u)
    BY GrownOwner DEF OpsOK
  <2>2. u \in AcceptOps /\ Out(u) => accept_fd'[u] # NoFd
    BY <2>1 DEF OpInv
  <2> QED
    BY <2>1, <2>2, OpKept
<1> QED
  BY <1>1, <1>2 DEF OpsOK

\* An operation begins: no OVERLAPPED is worse off.
LEMMA OpsIssued ==
  ASSUME OpsOK, NEW ov \in Overlappeds, NEW f, Issue(ov, f), Free(ov), Grows,
         UNCHANGED <<ready, created, closed>>,
         ~In(stack', <<"op", ov>>), Once(stack', <<"op", ov>>),
         ov[1] \in Conns => ov[1] \in created, ov \in AcceptOps => accept_fd'[ov] # NoFd,
         \A u \in Overlappeds \ {ov} : StackKept(u) /\ (u \in AcceptOps => accept_fd'[u] = accept_fd[u])
  PROVE  OpsOK'
<1>1. OpInv(ov)'
  BY OpIssued DEF OpsOK, Free
<1>2. ASSUME NEW u \in Overlappeds \ {ov} PROVE OpInv(u)'
  <2>1. OpInv(u) /\ OwnerKept(u)
    BY GrownOwner DEF OpsOK
  <2>2. u \in AcceptOps /\ Out(u) => accept_fd'[u] # NoFd
    BY <2>1 DEF OpInv
  <2>3. Same(u) /\ (u \in lost' <=> u \in lost) /\ (u \in busy' <=> u \in busy)
    BY OthersIssued
  <2> QED
    BY <2>1, <2>2, <2>3, OpKept
<1> QED
  BY <1>1, <1>2 DEF OpsOK

\* The new operation is on the socket of its watcher.
LEMMA QueuesIssued ==
  ASSUME QueuesOK, NEW ov \in Overlappeds, NEW f \in Fds, fd[ov[1]] = f, Issue(ov, f),
         UNCHANGED <<ready, fd>>, In(stack, Dispatching) => In(stack', Dispatching)
  PROVE  QueuesOK'
<1> DEFINE z == [ov |-> ov, fd |-> f, n |-> Cardinality({o \in inflight : o.ov = ov})]
<1>1. inflight' = inflight \cup {z} /\ z.ov = ov /\ z.fd = f /\ UNCHANGED port
  BY DEF Issue
<1> HIDE DEF z
<1>2. IsFiniteSet(inflight')
  BY <1>1, FS_AddElement DEF QueuesOK
<1> QED
  BY <1>1, <1>2 DEF QueuesOK

\* An operation of another connection is issued when its flag allows it.
LEMMA ConnectionOps ==
  ASSUME IInv, NEW k \in Conns, NEW tag \in {"recv", "send"}, fd[k] # NoFd
  PROVE  /\ <<k, tag>> \in Overlappeds /\ <<k, tag>> \notin AcceptOps /\ k \in created \ closed
         /\ fd[k] \in Fds
         /\ <<k, tag>> \notin busy => Free(<<k, tag>>) /\ ~In(stack, <<"op", <<k, tag>>>>)
<1> DEFINE ov == <<k, tag>>
<1>1. ov \in Overlappeds /\ ov \notin AcceptOps /\ ov[1] = k
  BY IocpAssumption DEF AcceptOps
<1>2. k \in created \ closed /\ fd[k] \in Fds
  BY IocpAssumption DEF IInv, LinksOK, OwnersOK, FdsTyped
<1>3. ASSUME ov \notin busy PROVE Free(ov) /\ ~In(stack, <<"op", ov>>)
  <2>1. OpInv(ov) /\ ~Out(ov)
    BY <1>1, <1>2, <1>3 DEF IInv, OpsOK, OpInv
  <2>2. \A f : ~WillIssue(f, ov)
    BY <1>1 DEF WillIssue
  <2>3. In(stack, <<"op", ov>>) => In(stack, <<"wait", ov>>)
    BY <1>1, <2>2, ClaimFacts DEF In
  <2> QED
    BY <2>1, <2>3 DEF Out, Free
<1> QED
  BY <1>1, <1>2, <1>3

\* Each watcher has an OVERLAPPED, of its own.
LEMMA HasOverlapped == \A w \in Watchers : \E ov \in Overlappeds : ov[1] = w
<1>1. \A w \in Connects : <<w, "connect">> \in Overlappeds
  BY IocpAssumption
<1>2. \A w \in Accepts : <<w, 1>> \in Overlappeds
  <2>1. 1 \in 1 .. AcceptDepth
    BY IocpAssumption
  <2> QED
    BY <2>1, IocpAssumption
<1>3. \A w \in Conns : <<w, "recv">> \in Overlappeds
  BY IocpAssumption
<1>4. \A w \in Watchers : w \in Connects \/ w \in Accepts \/ w \in Conns
  BY IocpAssumption
<1> QED
  BY <1>1, <1>2, <1>3, <1>4

\* The OVERLAPPEDs with operations on the socket of w are those of w.
LEMMA SocketOfWatcher ==
  ASSUME OwnersOK, QueuesOK, NEW w \in Watchers, fd[w] # NoFd, NEW o \in inflight, o.fd = fd[w]
  PROVE  o.ov[1] = w
<1>1. o.ov[1] \in Watchers /\ fd[o.ov[1]] = fd[w]
  BY PortAssumption DEF QueuesOK
<1>2. <<"fd", w>> \in Holders /\ <<"fd", o.ov[1]>> \in Holders
  BY <1>1 DEF Holders
<1>3. Held(<<"fd", w>>) = fd[w] /\ Held(<<"fd", o.ov[1]>>) = fd[w]
  BY <1>1 DEF Held
<1>4. <<"fd", w>> = <<"fd", o.ov[1]>>
  BY <1>2, <1>3 DEF OwnersOK
<1> QED
  BY <1>4

\* No operation is left on a socket that is closed.
LEMMA QueuesAborted ==
  ASSUME IInv, NEW w \in Watchers, fd[w] # NoFd, Abort(fd[w]),
         fd' = [fd EXCEPT ![w] = NoFd], UNCHANGED ready,
         In(stack, Dispatching) => In(stack', Dispatching)
  PROVE  QueuesOK'
<1> DEFINE f == fd[w]
<1>1. OwnersOK /\ QueuesOK /\ OpsOK
  BY DEF IInv
<1>2. IsFiniteSet(inflight') /\ inflight' = {o \in inflight : o.fd # f}
  <2>1. inflight' = {o \in inflight : o.fd # f}
    BY DEF Abort
  <2>2. inflight' \subseteq inflight
    BY <2>1
  <2> QED
    BY <1>1, <2>1, <2>2, FS_Subset DEF QueuesOK
<1>3. \A o \in inflight' : o.ov \in Overlappeds /\ o.fd \in Fds /\ fd'[o.ov[1]] = o.fd
  <2> TAKE o \in inflight'
  <2>1. o.ov \in Overlappeds /\ o.fd \in Fds /\ fd[o.ov[1]] = o.fd /\ o.ov[1] # w
    BY <1>1, <1>2 DEF QueuesOK
  <2>2. fd'[o.ov[1]] = fd[o.ov[1]]
    BY <1>1, <2>1, PortAssumption DEF OwnersOK, FdsTyped
  <2> QED
    BY <2>1, <2>2
<1>4. IsStack(port') /\ \A i \in 1 .. Len(port') : port'[i].ov \in Overlappeds
  <2>1. CASE ~Associated(f)
    BY <1>1, <2>1 DEF Abort, QueuesOK
  <2>2. CASE Associated(f)
    <3>1. PICK ov \in Overlappeds : ov[1] = w
      BY HasOverlapped
    <3>2. PICK q : Posted(q, f, ov)
      <4>1. \A o, p \in Gone(f) : o.ov = ov /\ p.ov = ov => o = p
        BY <1>1 DEF Gone, OpsOK, OpInv, Single
      <4> QED
        BY <1>1, <2>2, <4>1, AbortedPort DEF QueuesOK
    <3>3. \A i \in 1 .. Len(q) : q[i].ov \in Overlappeds
      BY <1>1, <3>2 DEF Posted, Gone, QueuesOK
    <3>4. /\ IsStack(port')
          /\ Len(port) \in Nat /\ Len(q) \in Nat /\ Len(port') = Len(port) + Len(q)
          /\ \A i \in 1 .. Len(port) : port'[i] = port[i]
          /\ \A i \in 1 .. Len(q) : port'[Len(port) + i] = q[i]
      <4>1. IsStack(q) /\ port' = port \o q /\ IsStack(port)
        BY <1>1, <3>2 DEF Posted, QueuesOK
      <4>2. IsStack(port \o q)
        BY <4>1, Joined, Zenon
      <4> QED
        BY <3>2, <4>1, <4>2, PostedAt, Zenon
    <3>5. \A i \in 1 .. Len(port') :
            i \in 1 .. Len(port) \/ \E j \in 1 .. Len(q) : i = Len(port) + j
      <4>1. \A n, m \in Nat : \A i \in 1 .. (n + m) : i \in 1 .. n \/ \E j \in 1 .. m : i = n + j
        <5> TAKE n, m \in Nat
        <5> TAKE i \in 1 .. (n + m)
        <5>1. i \in 1 .. n \/ (i - n \in 1 .. m /\ i = n + (i - n))
          OBVIOUS
        <5> QED
          BY <5>1
      <4>2. \A i \in 1 .. (Len(port) + Len(q)) :
              i \in 1 .. Len(port) \/ \E j \in 1 .. Len(q) : i = Len(port) + j
        BY <3>4, <4>1, Zenon
      <4> QED
        BY ONLY <3>4, <4>2
    <3> QED
      BY <1>1, <3>3, <3>4, <3>5 DEF QueuesOK
  <2> QED
    BY <2>1, <2>2
<1> QED
  BY <1>1, <1>2, <1>3, <1>4 DEF QueuesOK

\* The socket of w is closed.
LEMMA SocketCloses ==
  ASSUME IInv, NEW w \in Watchers, NEW r, CloseSocket(w, r), Grows, w \notin created' \ closed',
         UNCHANGED <<ready, accept_fd, streams>>,
         In(stack, Dispatching) => In(stack', Dispatching)
  PROVE  /\ OwnersOK' /\ QueuesOK' /\ fd' = [fd EXCEPT ![w] = NoFd]
         /\ UNCHANGED lost
         /\ \A ov \in Overlappeds :
              /\ ~InKernel(ov) => Same(ov)
              /\ StackKept(ov) /\ (ov \in busy' <=> ov \in busy) => OpInv(ov)'
<1>1. OwnersOK /\ QueuesOK /\ OpsOK
  BY DEF IInv
<1>2. OwnersOK' /\ fd' = [fd EXCEPT ![w] = NoFd]
  BY <1>1, FdCloses DEF CloseSocket, closeFd
<1>3. CASE fd[w] = NoFd
  <2>1. UNCHANGED <<inflight, port, result, lost>> /\ fd' = fd
    BY <1>1, <1>2, <1>3 DEF CloseSocket, OwnersOK, FdsTyped
  <2>2. QueuesOK'
    BY <1>1, <2>1, QueuesKept
  <2>3. ASSUME NEW ov \in Overlappeds
        PROVE  Same(ov) /\ (StackKept(ov) /\ (ov \in busy' <=> ov \in busy) => OpInv(ov)')
    <3>1. OpInv(ov) /\ Same(ov) /\ OwnerKept(ov)
      BY <1>1, <2>1, NothingMoved, GrownOwner DEF OpsOK
    <3>2. ov \in AcceptOps /\ Out(ov) => accept_fd'[ov] # NoFd
      BY <3>1 DEF OpInv
    <3> QED
      BY <2>1, <3>1, <3>2, OpKept
  <2> QED
    BY <1>2, <2>1, <2>2, <2>3
<1>4. CASE fd[w] # NoFd
  <2>1. Abort(fd[w]) /\ UNCHANGED lost
    BY <1>4 DEF CloseSocket, Abort
  <2>2. QueuesOK'
    BY <1>2, <1>4, <2>1, QueuesAborted
  <2>3. IsStack(port) /\ IsFiniteSet(inflight)
    BY <1>1 DEF QueuesOK
  <2>4. ASSUME NEW ov \in Overlappeds, \A o \in inflight : o.ov = ov => o.fd # fd[w]
        PROVE  Same(ov) /\ (StackKept(ov) /\ (ov \in busy' <=> ov \in busy) => OpInv(ov)')
    <3>1. OpInv(ov) /\ Same(ov) /\ OwnerKept(ov)
      BY <1>1, <2>1, <2>3, <2>4, OthersAborted, GrownOwner DEF OpsOK
    <3>2. ov \in AcceptOps /\ Out(ov) => accept_fd'[ov] # NoFd
      BY <3>1 DEF OpInv
    <3> QED
      BY <2>1, <3>1, <3>2, OpKept
  <2>5. ASSUME NEW ov \in Overlappeds, NEW o \in inflight, o.ov = ov, o.fd = fd[w], StackKept(ov)
        PROVE  OpInv(ov)' /\ InKernel(ov)
    <3>1. OpInv(ov) /\ OwnerKept(ov) /\ InKernel(ov)
      BY <1>1, <2>5, GrownOwner DEF OpsOK, InKernel
    <3>2. ov[1] \notin created' \ closed'
      BY <1>1, <1>4, <2>5, SocketOfWatcher
    <3> QED
      BY <2>1, <2>3, <2>5, <3>1, <3>2, OpAborted
  <2>6. ASSUME NEW ov \in Overlappeds
        PROVE  /\ ~InKernel(ov) => Same(ov)
               /\ StackKept(ov) /\ (ov \in busy' <=> ov \in busy) => OpInv(ov)'
    BY <2>4, <2>5 DEF InKernel
  <2> QED
    BY <1>2, <2>1, <2>2, <2>6
<1> QED
  BY <1>3, <1>4

\* The frames of the callbacks, and of the close after an error, are plain.
LEMMA PlainCalls ==
  /\ \A l \in Callbacks \cup {"rearm"} : \A w : Plain(Calls(l, w))
  /\ \A k \in created : Plain(Calls("close", k))
BY DEF Callbacks, Calls, Frame, Plain, GoodFrame

\* Nothing of what owns a socket changes.
LEMMA OwnersSame ==
  ASSUME OwnersOK, UNCHANGED <<sock, fd, accept_fd, streams>>
  PROVE  OwnersOK'
<1>1. SameOpen
  BY DEF OwnersOK, FdsTyped, SameOpen, Open
<1> QED
  BY <1>1, OwnersUnchanged

\* After stop(), no operation of w is left.
LEMMA QuiescedIsFree ==
  ASSUME NEW w, Quiesced(w), NEW ov \in Overlappeds, ov[1] = w
  PROVE  Free(ov) /\ ~In(stack, <<"op", ov>>)
<1>1. ~Outstanding(ov) /\ ~Queued(ov)
  BY DEF Quiesced, OfWatcher, Outstanding
<1>2. Free(ov)
  BY <1>1 DEF Free, InKernel, InPort, InReady, Outstanding, Queued
<1>3. ASSUME NEW i \in 1 .. Len(stack) PROVE <<"op", ov>> \notin Claims(stack[i])
  <2>1. ~Waits(stack[i], ov)
    BY <1>1 DEF Waits, Queued
  <2>2. ~WillIssue(stack[i], ov)
    BY DEF Quiesced, WillIssue
  <2> QED
    BY <2>1, <2>2, ClaimFacts
<1> QED
  BY <1>2, <1>3 DEF In

\* A frame is pushed that will issue operations, with nobody's OVERLAPPEDs.
LEMMA ClaimStep ==
  ASSUME IInv, NEW g, GoodFrame(g), NEW mine, NEW cs, FrameClaims(g, mine, {}, cs),
         \A ov \in mine \cap Overlappeds : Free(ov) /\ ~In(stack, <<"op", ov>>),
         Calm(<<g>> \o stack, stack'),
         UNCHANGED <<inflight, port, ready, lost, busy, accept_fd, created, closed>>
  PROVE  /\ StackOK(stack)' /\ OpsOK'
         /\ In(stack, Dispatching) => In(stack', Dispatching)
         /\ \A c \in Connects : In(stack', Connecting(c)) <=> c \in cs \/ In(stack, Connecting(c))
<1>1. Grows /\ StackOK(stack) /\ IsStack(stack) /\ OpsOK /\ StackOK(stack')
  BY DEF Grows, IInv, LinksOK, StackOK, Calm
<1>2. ASSUME NEW x \in Tokens
      PROVE  /\ In(stack', x) <=> x \in Claims(g) \/ In(stack, x)
             /\ Once(stack', x) <=> Once(stack, x) /\ ~(x \in Claims(g) /\ In(stack, x))
  BY <1>1, InPushed DEF Calm, Alike
<1>3. \A u \in Overlappeds : <<"op", u>> \in Tokens /\ <<"wait", u>> \in Tokens
  BY TokenKinds
<1>4. ASSUME NEW u \in Overlappeds, u \notin mine PROVE OpInv(u)'
  <2>1. StackKept(u)
    BY <1>2, <1>3, <1>4 DEF FrameClaims, StackKept
  <2>2. OpInv(u) /\ Same(u) /\ OwnerKept(u)
    BY <1>1, NothingMoved, GrownOwner DEF OpsOK
  <2>3. u \in AcceptOps /\ Out(u) => accept_fd'[u] # NoFd
    BY <2>2 DEF OpInv
  <2> QED
    BY <2>1, <2>2, <2>3, OpKept
<1>5. ASSUME NEW u \in Overlappeds, u \in mine PROVE OpInv(u)'
  <2>1. OpInv(u) /\ Same(u) /\ OwnerKept(u) /\ Free(u) /\ ~In(stack, <<"op", u>>)
    BY <1>1, <1>5, NothingMoved, GrownOwner DEF OpsOK
  <2>2. Once(stack', <<"op", u>>) /\ (In(stack', <<"wait", u>>) <=> In(stack, <<"wait", u>>))
    BY <1>2, <1>3, <2>1 DEF FrameClaims, OpInv, Single
  <2>3. ~InKernel(u)' /\ ~InPort(u)' /\ ~InReady(u)'
    BY <2>1, SameIn DEF Free
  <2>4. Single(u)' /\ (Out(u)' <=> Out(u))
    BY <2>1, <2>2, <2>3, SameIn DEF Single, OpInv, Out, Free
  <2>5. u \in AcceptOps /\ Out(u) => accept_fd'[u] # NoFd
    BY <2>1 DEF OpInv
  <2> QED
    BY <2>1, <2>4, <2>5 DEF OpInv, OwnerKept
<1>6. OpsOK'
  BY <1>4, <1>5 DEF OpsOK
<1>7. /\ In(stack, Dispatching) => In(stack', Dispatching)
      /\ \A c \in Connects : In(stack', Connecting(c)) <=> c \in cs \/ In(stack, Connecting(c))
  BY <1>2, TokenKinds DEF FrameClaims, Dispatching, Connecting
<1> QED
  BY <1>1, <1>6, <1>7, StackStays

\* A watcher without a socket has no operation when it gets one.
LEMMA QueuesGiven ==
  ASSUME QueuesOK, FdsTyped, NEW w \in Watchers, fd[w] = NoFd, NEW f, fd' = [fd EXCEPT ![w] = f],
         UNCHANGED <<inflight, port, ready>>, In(stack, Dispatching) => In(stack', Dispatching)
  PROVE  QueuesOK'
<1>1. \A o \in inflight : o.ov[1] \in Watchers /\ fd[o.ov[1]] # NoFd
  BY PortAssumption, CoreAssumption DEF QueuesOK
<1>2. \A o \in inflight : fd'[o.ov[1]] = fd[o.ov[1]]
  BY <1>1 DEF FdsTyped
<1> QED
  BY <1>2, QueuesKept

\* The handler leaves the completion alone.
LEMMA IgnoreStep ==
  ASSUME IInv, NEW w, At("ready", w), Ignore,
         UNCHANGED <<exceptStack, inflight, port, result, busy, tcpVars>>
  PROVE  IInv'
<1>1. PICK ov \in Overlappeds : Head(stack).ev = {ov} /\ FrameClaims(Head(stack), {ov}, {ov}, {})
  BY HandlerHead DEF IInv
<1>2. /\ stack # <<>> /\ stack' = Rest /\ lost' = lost \cup {ov}
      /\ UNCHANGED <<inflight, port, ready, orphans, created, closed, fd, accept_fd, busy, attached, sock, streams>>
  BY <1>1 DEF At, Ignore, exceptStack, tcpVars, loopVars, watcherVars, attachedVars
<1>3. Calm(Rest, stack') /\ Grows
  BY <1>2, StackPopped, CalmForms DEF IInv, Rest, Grows, LinksOK
<1>4. /\ In(stack, <<"wait", ov>>) /\ ~In(stack', <<"wait", ov>>)
      /\ Once(stack', <<"op", ov>>)
      /\ \A u \in Overlappeds \ {ov} : StackKept(u)
      /\ In(stack, Dispatching) => In(stack', Dispatching)
      /\ \A c \in Connects : In(stack, Connecting(c)) => In(stack', Connecting(c))
      /\ StackOK(stack')
  BY <1>1, <1>2, <1>3, HandlerCalm
<1>5. \A u : Same(u)
  BY <1>2, NothingMoved
<1>6. OpsOK'
  BY <1>2, <1>3, <1>4, <1>5, OpsConsumed DEF IInv
<1>7. OwnersOK' /\ QueuesOK' /\ LinksOK'
  BY <1>2, <1>4, OwnersSame, QueuesKept, LinksKept DEF IInv
<1> QED
  BY <1>3, <1>4, <1>6, <1>7, StackStays DEF IInv

\* It clears the flag, and calls back.
LEMMA HandledStep ==
  ASSUME IInv, NEW w, At("ready", w), NEW ov \in Overlappeds, Head(stack).ev = {ov},
         Calm(Rest, stack'), busy' = busy \ {ov},
         UNCHANGED <<exceptStack, inflight, port, lost, streams, accept_fd, created, closed>>
  PROVE  IInv'
<1>1. FrameClaims(Head(stack), {ov}, {ov}, {})
  BY ReadyClaims DEF At
<1>2. /\ stack # <<>>
      /\ UNCHANGED <<inflight, port, ready, orphans, created, closed, fd, accept_fd, attached, sock, streams, lost>>
  BY <1>1 DEF At, exceptStack, loopVars, watcherVars, attachedVars
<1>3. Grows
  BY <1>2 DEF IInv, Grows, LinksOK
<1>4. /\ In(stack, <<"wait", ov>>) /\ ~In(stack', <<"wait", ov>>)
      /\ Once(stack', <<"op", ov>>)
      /\ \A u \in Overlappeds \ {ov} : StackKept(u)
      /\ In(stack, Dispatching) => In(stack', Dispatching)
      /\ \A c \in Connects : In(stack, Connecting(c)) => In(stack', Connecting(c))
      /\ StackOK(stack')
  BY <1>1, <1>2, HandlerCalm
<1>5. \A u : Same(u)
  BY <1>2, NothingMoved
<1>6. ov \notin lost' /\ ov \notin busy'
  BY <1>2, <1>4, WaitedIsFree DEF IInv, OpsOK
<1>7. OpsOK'
  BY <1>2, <1>3, <1>4, <1>5, <1>6, OpsConsumed DEF IInv
<1>8. OwnersOK' /\ QueuesOK' /\ LinksOK'
  BY <1>2, <1>4, OwnersSame, QueuesKept, LinksKept DEF IInv
<1> QED
  BY <1>3, <1>4, <1>7, <1>8, StackStays DEF IInv

----------------------------------------------------------------------------
(* The connect watcher. *)

\* Its stack after a pushed plain frame, or none.
LEMMA MaybeCalls ==
  ASSUME NEW s, StackOK(s), NEW t, NEW l \in Callbacks, NEW w,
         t = s \/ t = <<Calls(l, w)>> \o s
  PROVE  Calm(s, t)
BY CalmForms, PlainCalls

\* A connect watcher has one OVERLAPPED.
LEMMA ConnectUntouched ==
  ASSUME NEW c \in Connects
  PROVE  c \in Watchers /\ c \notin Accepts /\ c \notin Conns /\ <<c, "connect">> \in Overlappeds
         /\ <<c, "connect">> \notin AcceptOps
         /\ \A ov \in Overlappeds : ov[1] = c => ov = <<c, "connect">>
BY IocpAssumption DEF AcceptOps

\* start() opens a socket, and will connect it.
LEMMA ConnectStarts == ASSUME IInv, NEW c \in Connects, startConnecting(c), Quiesced(c) PROVE IInv'
<1> DEFINE g == Calls("connect", c)
           rest == <<g>> \o stack
<1>1. /\ c \in Watchers /\ c \notin Accepts /\ c \notin Conns
      /\ \A ov \in Overlappeds : ov[1] = c => ov = <<c, "connect">>
  BY ConnectUntouched
<1>2. GoodFrame(g) /\ FrameClaims(g, {<<c, "connect">>}, {}, {c})
  BY ConnectClaims DEF Calls, Frame, GoodFrame
<1>3. StackOK(rest) /\ StackOK(stack)
  BY <1>2, StackPushed DEF IInv
<1> HIDE DEF g
<1>4. /\ c \notin attached /\ Quiesced(c)
      /\ UNCHANGED <<inflight, port, ready, lost, busy, accept_fd, created, closed, orphans, attached, streams>>
  BY DEF startConnecting, loopVars, attachedVars, portVars
<1>5. Calm(rest, stack')
  BY <1>3, MaybeCalls DEF startConnecting, onErrorUnlessCanceled, Callbacks, g
<1>6. \A ov \in {<<c, "connect">>} \cap Overlappeds : Free(ov) /\ ~In(stack, <<"op", ov>>)
  BY <1>4, QuiescedIsFree
<1>7. /\ StackOK(stack)' /\ OpsOK'
      /\ In(stack, Dispatching) => In(stack', Dispatching)
      /\ \A d \in Connects : In(stack', Connecting(d)) <=> d \in {c} \/ In(stack, Connecting(d))
  BY <1>2, <1>4, <1>5, <1>6, ClaimStep
<1>8. fd[c] = NoFd
  <2>1. ~In(stack, Connecting(c))
    <3>1. \A i \in 1 .. Len(stack) : stack[i].w = c => stack[i].at # "connect"
      BY <1>4 DEF Quiesced
    <3> QED
      BY <3>1, ClaimFacts DEF In, Connecting
  <2> QED
    BY <1>4, <2>1 DEF IInv, LinksOK
<1>9. CASE UNCHANGED <<sock, fd>>
  <2>1. OwnersOK' /\ QueuesOK'
    BY <1>4, <1>7, <1>9, OwnersSame, QueuesKept DEF IInv
  <2>2. LinksOK'
    BY <1>4, <1>7, <1>9, LinksKept DEF IInv
  <2> QED
    BY <1>7, <2>1, <2>2 DEF IInv
<1>10. CASE \E f \in NewFd : fd' = [fd EXCEPT ![c] = f] /\ sock' = [sock EXCEPT ![f] = NewSocket]
  <2>1. PICK f \in NewFd : fd' = [fd EXCEPT ![c] = f] /\ sock' = [sock EXCEPT ![f] = NewSocket]
    BY <1>10
  <2>2. OwnersOK /\ FdsTyped
    BY DEF IInv, OwnersOK
  <2>3. OwnersOK'
    BY <1>1, <1>4, <1>8, <2>1, <2>2, SocketKinds, FdOpens
  <2>4. QueuesOK'
    BY <1>1, <1>4, <1>7, <1>8, <2>1, <2>2, QueuesGiven DEF IInv
  <2>5. \A w \in Watchers \ {c} : fd'[w] = fd[w]
    BY <2>1, <2>2 DEF FdsTyped
  <2>6. LinksOK'
    BY <1>1, <1>4, <1>7, <2>5, IocpAssumption DEF IInv, LinksOK
  <2> QED
    BY <1>7, <2>3, <2>4, <2>6 DEF IInv
<1> QED
  BY <1>9, <1>10 DEF startConnecting

\* The socket of c is closed, and c is detached perhaps.
LEMMA ConnectCloses ==
  ASSUME IInv, NEW c \in Connects, NEW r, CloseSocket(c, r),
         UNCHANGED <<ready, accept_fd, streams, orphans, created, closed>>,
         attached' = attached \/ attached' = attached \ {c},
         In(stack, Dispatching) => In(stack', Dispatching),
         \A d \in Connects \ {c} : In(stack, Connecting(d)) => In(stack', Connecting(d))
  PROVE  /\ OwnersOK' /\ QueuesOK' /\ LinksOK' /\ Grows /\ UNCHANGED lost
         /\ \A ov \in Overlappeds :
              /\ ~InKernel(ov) => Same(ov)
              /\ StackKept(ov) /\ (ov \in busy' <=> ov \in busy) => OpInv(ov)'
<1>1. c \in Watchers /\ c \notin Accepts /\ c \notin Conns
  BY ConnectUntouched
<1>2. Grows /\ c \notin created' \ closed'
  BY <1>1 DEF IInv, LinksOK, Grows
<1>3. /\ OwnersOK' /\ QueuesOK' /\ fd' = [fd EXCEPT ![c] = NoFd] /\ UNCHANGED lost
      /\ \A ov \in Overlappeds :
              /\ ~InKernel(ov) => Same(ov)
              /\ StackKept(ov) /\ (ov \in busy' <=> ov \in busy) => OpInv(ov)'
  BY <1>1, <1>2, SocketCloses
<1>4. fd'[c] = NoFd /\ \A w \in Watchers \ {c} : fd'[w] = fd[w]
  BY <1>1, <1>3 DEF IInv, OwnersOK, FdsTyped
<1>5. LinksOK'
  BY <1>1, <1>4, IocpAssumption DEF IInv, LinksOK
<1> QED
  BY <1>2, <1>3, <1>5

\* ConnectEx begins, or start() fails and closes the socket.
LEMMA ConnectGoesOn == ASSUME IInv, NEW c \in Connects, startConnect(c) PROVE IInv'
<1> DEFINE ov == <<c, "connect">>
<1>1. /\ c \in Watchers /\ c \notin Accepts /\ c \notin Conns /\ ov \in Overlappeds /\ ov \notin AcceptOps
  BY ConnectUntouched
<1>2. At("connect", c) /\ stack # <<>> /\ FrameClaims(Head(stack), {ov}, {}, {c})
  BY ConnectClaims DEF startConnect, At
<1>3. UNCHANGED <<ready, orphans, created, closed, streams, accept_fd>>
  BY DEF startConnect, loopVars, tcpVars
<1>4. StackOK(stack) /\ StackOK(Rest) /\ OwnersOK /\ QueuesOK /\ OpsOK
  BY <1>2, StackPopped DEF IInv, Rest
<1>5. Calm(Rest, stack')
  BY <1>4, MaybeCalls DEF startConnect, Callbacks
<1>6. CASE fd[c] = NoFd /\ stack' = Rest /\ UNCHANGED <<sock, fd, attached, portVars>>
  <2>1. UNCHANGED <<inflight, port, lost, busy>>
    BY <1>6 DEF portVars
  <2>2. OwnersOK'
    BY <1>3, <1>4, <1>6, OwnersSame
  <2> QED
    BY <1>2, <1>3, <1>5, <1>6, <2>1, <2>2, PopStep
<1>7. CASE fd[c] # NoFd /\ attached' = attached \cup {c} /\ UNCHANGED <<sock, fd, portVars>>
  <2>1. UNCHANGED <<inflight, port, lost, busy>>
    BY <1>7 DEF portVars
  <2>2. OwnersOK'
    BY <1>3, <1>4, <1>7, OwnersSame
  <2> QED
    BY <1>1, <1>2, <1>3, <1>5, <1>7, <2>1, <2>2, PopStep
<1>8. CASE fd[c] # NoFd /\ attached' = attached \cup {c} /\ Issue(ov, fd[c]) /\ UNCHANGED <<sock, fd>>
  <2>1. OwnersOK'
    BY <1>3, <1>4, <1>8, OwnersSame
  <2>2. Once(stack, <<"op", ov>>) /\ <<"op", ov>> \in Claims(Head(stack))
    BY <1>1, <1>2, <1>4 DEF FrameClaims, OpsOK, OpInv, Single
  <2>3. In(stack, <<"op", ov>>) /\ Once(stack', <<"op", ov>>) /\ ~In(stack', <<"op", ov>>)
    BY <1>1, <1>2, <1>4, <1>5, <2>2, FreedByPop
  <2>4. Free(ov)
    BY <1>1, <1>4, <2>3 DEF OpsOK, OpInv, Single, Free
  <2>5. \A u \in Overlappeds : StackKept(u)
    BY <1>2, <1>4, <1>5, KeptByPop DEF FrameClaims
  <2>6. Grows
    BY <1>3 DEF IInv, LinksOK, Grows
  <2>7. OpsOK'
    BY <1>1, <1>3, <1>4, <1>8, <2>3, <2>4, <2>5, <2>6, OpsIssued
  <2>8. /\ In(stack, Dispatching) => In(stack', Dispatching)
        /\ \A d \in Connects \ {c} : In(stack, Connecting(d)) => In(stack', Connecting(d))
    BY <1>2, <1>4, <1>5, PopTokens
  <2>9. QueuesOK'
    <3>1. fd[c] \in Fds /\ ov[1] = c
      BY <1>1, <1>4, <1>8 DEF OwnersOK, FdsTyped
    <3> QED
      BY <1>1, <1>3, <1>4, <1>8, <2>8, <3>1, QueuesIssued
  <2>10. LinksOK'
    BY <1>1, <1>3, <1>8, <2>8 DEF IInv, LinksOK
  <2> QED
    BY <1>5, <2>1, <2>6, <2>7, <2>9, <2>10, StackStays DEF IInv, Calm
<1>9. CASE UNCHANGED <<attached, busy>> /\ \E r : CloseSocket(c, r)
  <2>1. PICK r : CloseSocket(c, r)
    BY <1>9
  <2>2. /\ In(stack, Dispatching) => In(stack', Dispatching)
        /\ \A d \in Connects \ {c} : In(stack, Connecting(d)) => In(stack', Connecting(d))
    BY <1>2, <1>4, <1>5, PopTokens
  <2>3. /\ OwnersOK' /\ QueuesOK' /\ LinksOK' /\ Grows
        /\ \A u \in Overlappeds : StackKept(u) /\ (u \in busy' <=> u \in busy) => OpInv(u)'
    BY <1>3, <1>9, <2>1, <2>2, ConnectCloses
  <2>4. \A u \in Overlappeds : StackKept(u)
    BY <1>2, <1>4, <1>5, KeptByPop DEF FrameClaims
  <2>5. OpsOK'
    BY <1>9, <2>3, <2>4 DEF OpsOK
  <2> QED
    BY <1>5, <2>3, <2>5, StackStays DEF IInv, Calm
<1> QED
  BY <1>6, <1>7, <1>8, <1>9 DEF startConnect

\* stop() while no handler returns: the stack is as before.
LEMMA ConnectStopped ==
  ASSUME IInv, NEW c \in Connects, StopConnecting(c),
         UNCHANGED <<stack, ready, accept_fd, streams, orphans, created, closed, busy>>
  PROVE  IInv'
<1>1. Calm(stack, stack')
  BY CalmForms DEF IInv
<1>2. PICK r : CloseSocket(c, r) /\ attached' = attached \ {c}
  BY DEF StopConnecting
<1>3. /\ OwnersOK' /\ QueuesOK' /\ LinksOK' /\ Grows
      /\ \A u \in Overlappeds : StackKept(u) /\ (u \in busy' <=> u \in busy) => OpInv(u)'
  BY <1>2, ConnectCloses
<1>4. OpsOK'
  BY <1>1, <1>3, KeptCalm DEF OpsOK
<1> QED
  BY <1>1, <1>3, <1>4, StackStays DEF IInv, Calm

\* stop() and cancel() close the socket.
LEMMA ConnectStops == ASSUME IInv, NEW c \in Connects, stopConnecting(c) PROVE IInv'
BY ConnectStopped DEF stopConnecting, loopVars, tcpVars

LEMMA ConnectCanceled == ASSUME IInv, NEW c \in Connects, cancel(c) PROVE IInv'
<1>1. UNCHANGED <<stack, ready, accept_fd, streams, orphans, created, closed, busy>>
  BY DEF cancel, loopVars
<1>2. CASE StopConnecting(c)
  BY <1>1, <1>2, ConnectStopped
<1>3. CASE UNCHANGED <<sock, fd, attachedVars, inflight, port, lost>>
  <2>1. Calm(stack, stack')
    BY <1>1, CalmForms DEF IInv
  <2>2. OwnersOK' /\ UNCHANGED attached
    BY <1>1, <1>3, OwnersSame DEF IInv, attachedVars
  <2> QED
    BY <1>1, <1>3, <2>1, <2>2, CalmStep
<1> QED
  BY <1>2, <1>3 DEF cancel

\* The connect completes, and its socket becomes a stream;
LEMMA ConnectSucceeds == ASSUME IInv, NEW c \in Connects, ConnectCompletes(c) PROVE IInv'
<1> DEFINE ov == <<c, "connect">>
<1>1. /\ c \in Watchers /\ c \notin Accepts /\ c \notin Conns /\ ov \in Overlappeds
      /\ \A u \in Overlappeds : u[1] = c => u = ov
  BY ConnectUntouched
<1>2. /\ stack # <<>> /\ FrameClaims(Head(stack), {ov}, {ov}, {}) /\ fd[c] # NoFd
  BY <1>1, ReadyClaims DEF ConnectCompletes, At
<1>3. /\ streams' = streams \cup {fd[c]} /\ fd' = [fd EXCEPT ![c] = NoFd] /\ busy' = busy \ {ov}
      /\ attached' = attached \ {c}
      /\ UNCHANGED <<sock, ready, orphans, inflight, port, lost, accept_fd, created, closed>>
  BY DEF ConnectCompletes, detach, loopVars
<1>4. StackOK(stack) /\ StackOK(Rest) /\ OwnersOK /\ FdsTyped /\ QueuesOK /\ OpsOK
  BY <1>2, StackPopped DEF IInv, Rest, OwnersOK
<1>5. Calm(Rest, stack')
  BY <1>4, MaybeCalls DEF ConnectCompletes, Callbacks
<1>6. /\ In(stack, <<"wait", ov>>) /\ ~In(stack', <<"wait", ov>>)
      /\ Once(stack', <<"op", ov>>)
      /\ \A u \in Overlappeds \ {ov} : StackKept(u)
      /\ In(stack, Dispatching) => In(stack', Dispatching)
      /\ \A d \in Connects : In(stack, Connecting(d)) => In(stack', Connecting(d))
  BY <1>1, <1>2, <1>5, HandlerCalm
<1>7. Free(ov) /\ ov \notin lost
  BY <1>1, <1>4, <1>6, WaitedIsFree DEF OpsOK
<1>8. Grows /\ \A u : Same(u)
  BY <1>3, NothingMoved DEF IInv, LinksOK, Grows
<1>9. OpsOK'
  BY <1>1, <1>3, <1>4, <1>6, <1>7, <1>8, OpsConsumed
<1>10. fd'[c] = NoFd /\ \A w \in Watchers \ {c} : fd'[w] = fd[w]
  BY <1>1, <1>3, <1>4 DEF FdsTyped
<1>11. QueuesOK'
  <2>1. \A o \in inflight : o.ov \in Overlappeds /\ o.ov # ov
    BY <1>4, <1>7 DEF Free, InKernel, QueuesOK
  <2>2. \A o \in inflight : o.ov[1] \in Watchers \ {c}
    BY <1>1, <2>1, PortAssumption
  <2> QED
    BY <1>3, <1>4, <1>6, <1>10, <2>2, QueuesKept
<1>12. LinksOK'
  BY <1>1, <1>3, <1>6, <1>10, IocpAssumption DEF IInv, LinksOK
<1>13. OwnersOK'
  <2>1. <<"fd", c>> \in Holders /\ Held(<<"fd", c>>) = fd[c] /\ Changed(<<"fd", c>>, NoFd)
    BY <1>1, <1>3, <1>4, WatcherChanged
  <2>2. SameOpen
    BY <1>3, <1>4 DEF FdsTyped, SameOpen, Open
  <2> QED
    BY <1>2, <1>3, <1>4, <2>1, <2>2, HolderGives
<1> QED
  BY <1>5, <1>8, <1>9, <1>11, <1>12, <1>13, StackStays DEF IInv, Calm

\* or it fails, and the socket is closed.
LEMMA ConnectRefused == ASSUME IInv, NEW c \in Connects, ConnectFails(c) PROVE IInv'
<1> DEFINE ov == <<c, "connect">>
<1>1. c \in Watchers /\ ov \in Overlappeds
  BY ConnectUntouched
<1>2. stack # <<>> /\ FrameClaims(Head(stack), {ov}, {ov}, {})
  BY <1>1, ReadyClaims DEF ConnectFails, At
<1>3. /\ attached' = attached \ {c} /\ busy' = busy \ {ov} /\ \E r : CloseSocket(c, r)
      /\ UNCHANGED <<ready, orphans, accept_fd, streams, created, closed>>
  BY DEF ConnectFails, StopConnecting, loopVars, tcpVars
<1>4. StackOK(stack) /\ StackOK(Rest) /\ OpsOK
  BY <1>2, StackPopped DEF IInv, Rest
<1>5. Calm(Rest, stack')
  BY <1>4, MaybeCalls DEF ConnectFails, Callbacks
<1>6. /\ In(stack, <<"wait", ov>>) /\ ~In(stack', <<"wait", ov>>)
      /\ Once(stack', <<"op", ov>>)
      /\ \A u \in Overlappeds \ {ov} : StackKept(u)
      /\ In(stack, Dispatching) => In(stack', Dispatching)
      /\ \A d \in Connects : In(stack, Connecting(d)) => In(stack', Connecting(d))
  BY <1>1, <1>2, <1>5, HandlerCalm
<1>7. PICK r : CloseSocket(c, r)
  BY <1>3
<1>8. /\ OwnersOK' /\ QueuesOK' /\ LinksOK' /\ Grows /\ UNCHANGED lost
      /\ \A u \in Overlappeds :
           /\ ~InKernel(u) => Same(u)
           /\ StackKept(u) /\ (u \in busy' <=> u \in busy) => OpInv(u)'
  BY <1>3, <1>6, <1>7, ConnectCloses
<1>9. Free(ov) /\ ov \notin lost /\ OpInv(ov)
  BY <1>1, <1>4, <1>6, WaitedIsFree DEF OpsOK
<1>10. OpInv(ov)'
  <2>1. Same(ov) /\ OwnerKept(ov) /\ ov \notin lost' /\ ov \notin busy'
    BY <1>1, <1>3, <1>8, <1>9, GrownOwner DEF Free
  <2> QED
    BY <1>1, <1>6, <1>9, <2>1, OpConsumed
<1>11. OpsOK'
  BY <1>3, <1>6, <1>8, <1>10 DEF OpsOK
<1> QED
  BY <1>5, <1>8, <1>11, StackStays DEF IInv, Calm

\* Every step of a connect watcher.
LEMMA ConnectStep ==
  ASSUME IInv, NEW c \in Connects, IocpTcpConnectWatcher(c), ~restarted_early'
  PROVE  IInv'
<1>1. CASE ConnectIgnores(c)
  BY <1>1, IgnoreStep DEF ConnectIgnores
<1>2. CASE startConnecting(c)
  <2>1. Quiesced(c)
    BY <1>2 DEF startConnecting, Restarted
  <2> QED
    BY <1>2, <2>1, ConnectStarts
<1> QED
  BY <1>1, <1>2, ConnectGoesOn, ConnectStops, ConnectCanceled, ConnectSucceeds, ConnectRefused
     DEF IocpTcpConnectWatcher

----------------------------------------------------------------------------
(* The accept watcher. *)

\* The OVERLAPPEDs of an accept watcher are its accept operations.
LEMMA AcceptUntouched ==
  ASSUME NEW a \in Accepts
  PROVE  a \in Watchers /\ a \notin Connects /\ a \notin Conns
         /\ \A ov \in Overlappeds : ov[1] = a => ov \in AcceptOps
BY IocpAssumption DEF AcceptOps

\* The constructor opens the listening socket.
LEMMA AcceptListens == ASSUME IInv, NEW a \in Accepts, createListenSocket(a) PROVE IInv'
<1>1. a \in Watchers /\ a \notin Connects /\ a \notin Conns
  BY AcceptUntouched
<1>2. /\ fd[a] = NoFd
      /\ UNCHANGED <<inflight, port, ready, lost, busy, accept_fd, created, closed, orphans, attached, streams, stack>>
  BY DEF createListenSocket, loopVars, attachedVars, portVars, tcpVars
<1>3. PICK f \in NewFd : fd' = [fd EXCEPT ![a] = f] /\ sock' = [sock EXCEPT ![f] = [NoSocket EXCEPT !.st = "listen"]]
  BY DEF createListenSocket
<1>4. OwnersOK /\ FdsTyped /\ OpsOK /\ Calm(stack, stack')
  BY <1>2, CalmForms DEF IInv, OwnersOK
<1>5. OwnersOK'
  <2> DEFINE r == [NoSocket EXCEPT !.st = "listen"]
  <2>1. r \in Sockets /\ r.st # "none"
    BY SocketKinds
  <2>2. sock' = [sock EXCEPT ![f] = r]
    BY <1>3
  <2> HIDE DEF r
  <2> QED
    BY <1>1, <1>2, <1>3, <1>4, <2>1, <2>2, FdOpens
<1>6. QueuesOK'
  BY <1>1, <1>2, <1>3, <1>4, QueuesGiven DEF IInv
<1>7. \A w \in Watchers \ {a} : fd'[w] = fd[w]
  BY <1>3, <1>4 DEF FdsTyped
<1>8. fd'[a] # NoFd
  BY <1>1, <1>3, <1>4, CoreAssumption DEF FdsTyped, NewFd
<1>9. LinksOK'
  BY <1>1, <1>2, <1>7, <1>8, IocpAssumption DEF IInv, LinksOK
<1>10. Grows
  BY <1>2 DEF IInv, LinksOK, Grows
<1>11. OpsOK'
  BY <1>2, <1>4, <1>10, KeptCalm, OpsKept
<1> QED
  BY <1>4, <1>5, <1>6, <1>9, <1>10, <1>11, StackStays DEF IInv, Calm

\* start() will post one accept after another.
LEMMA AcceptStarts == ASSUME IInv, NEW a \in Accepts, startAccept(a), Quiesced(a) PROVE IInv'
<1> DEFINE g == Frame("post", a, 1, {})
<1>1. a \in Watchers /\ a \notin Connects
  BY AcceptUntouched
<1>2. GoodFrame(g) /\ FrameClaims(g, OpsFrom(a, 1), {}, {})
  BY PostClaims DEF Frame, GoodFrame
<1>3. stack' = <<g>> \o stack
  BY DEF startAccept
<1> HIDE DEF g
<1>4. /\ fd[a] # NoFd /\ Quiesced(a) /\ attached' = attached \cup {a}
      /\ UNCHANGED <<inflight, port, ready, lost, busy, accept_fd, created, closed, orphans, streams, sock, fd>>
  BY DEF startAccept, attach, loopVars, portVars, tcpVars
<1>5. Calm(<<g>> \o stack, stack')
  BY <1>2, <1>3, StackPushed, CalmForms DEF IInv
<1>6. \A ov \in OpsFrom(a, 1) \cap Overlappeds : Free(ov) /\ ~In(stack, <<"op", ov>>)
  BY <1>4, QuiescedIsFree DEF OpsFrom
<1>7. /\ StackOK(stack)' /\ OpsOK'
      /\ In(stack, Dispatching) => In(stack', Dispatching)
      /\ \A c \in Connects : In(stack', Connecting(c)) <=> c \in {} \/ In(stack, Connecting(c))
  BY <1>2, <1>4, <1>5, <1>6, ClaimStep
<1>8. OwnersOK' /\ QueuesOK'
  BY <1>4, <1>7, OwnersSame, QueuesKept DEF IInv
<1>9. LinksOK'
  BY <1>1, <1>4, <1>7 DEF IInv, LinksOK
<1> QED
  BY <1>7, <1>8, <1>9 DEF IInv

\* stop() detaches the watcher, and leaves its operations.
LEMMA AcceptStops == ASSUME IInv, NEW a \in Accepts, stopAccept(a) PROVE IInv'
<1>1. a \notin Connects
  BY AcceptUntouched
<1>2. /\ attached' = attached \ {a}
      /\ UNCHANGED <<inflight, port, ready, lost, busy, accept_fd, created, closed, orphans, streams, sock, fd, stack>>
  BY DEF stopAccept, detach, loopVars, portVars, tcpVars
<1>3. Calm(stack, stack') /\ OwnersOK'
  BY <1>2, CalmForms, OwnersSame DEF IInv
<1> QED
  BY <1>1, <1>2, <1>3, CalmStep

----------------------------------------------------------------------------
\* t is the stack without the frame's claim on op.
Freed(op, t) ==
  /\ StackOK(t)
  /\ ~In(t, <<"op", op>>) /\ Once(t, <<"op", op>>)
  /\ \A u \in Overlappeds \ {op} : Alike(stack, t, <<"op", u>>)
  /\ \A u \in Overlappeds : Alike(stack, t, <<"wait", u>>)
  /\ Alike(stack, t, Dispatching)
  /\ \A c \in Connects : Alike(stack, t, Connecting(c))

\* The frame that posts an accept again, or closes its socket, gives up its OVERLAPPED.
LEMMA RepostFrees ==
  ASSUME IInv, NEW a \in Accepts, At("repost", a) \/ At("drop", a)
  PROVE  /\ <<a, Head(stack).n>> \in AcceptOps
         /\ In(stack, <<"op", <<a, Head(stack).n>>>>)
         /\ Freed(<<a, Head(stack).n>>, Rest)
<1> DEFINE op == <<a, Head(stack).n>>
<1>1. stack # <<>> /\ StackOK(stack) /\ StackOK(Rest) /\ GoodFrame(Head(stack))
  BY StackPopped DEF IInv, At, Rest
<1>2. Head(stack).n \in 1 .. AcceptDepth
  BY <1>1 DEF GoodFrame, At
<1>3. op \in AcceptOps /\ op \in Overlappeds
  BY <1>2, IocpAssumption DEF AcceptOps
<1>4. FrameClaims(Head(stack), {op}, {}, {})
  BY <1>2, RepostClaims DEF At
<1> HIDE DEF op
<1>5. Once(stack, <<"op", op>>) /\ Calm(Rest, Rest)
  BY <1>1, <1>3, CalmForms DEF IInv, OpsOK, OpInv, Single
<1>6. ASSUME NEW x \in Tokens
      PROVE  /\ In(stack, x) <=> x \in Claims(Head(stack)) \/ In(Rest, x)
             /\ Once(stack, x) <=> Once(Rest, x) /\ ~(x \in Claims(Head(stack)) /\ In(Rest, x))
  BY <1>1, InPopped DEF Rest, StackOK
<1>7. /\ In(stack, <<"op", op>>) /\ ~In(Rest, <<"op", op>>) /\ Once(Rest, <<"op", op>>)
      /\ \A u \in Overlappeds \ {op} : Alike(stack, Rest, <<"op", u>>)
      /\ \A u \in Overlappeds : Alike(stack, Rest, <<"wait", u>>)
  BY <1>3, <1>4, <1>5, <1>6, TokenKinds DEF FrameClaims, Alike
<1>8. /\ Alike(stack, Rest, Dispatching)
      /\ \A c \in Connects : Alike(stack, Rest, Connecting(c))
  BY <1>4, <1>6, TokenKinds DEF FrameClaims, Alike, Dispatching, Connecting
<1> QED
  BY <1>1, <1>3, <1>7, <1>8 DEF Freed, op

\* The frame that posts each gives up one, and keeps those to come.
LEMMA PostFrees ==
  ASSUME IInv, NEW a \in Accepts, At("post", a), ~(Head(stack).n > AcceptDepth)
  PROVE  /\ <<a, Head(stack).n>> \in AcceptOps
         /\ In(stack, <<"op", <<a, Head(stack).n>>>>)
         /\ Freed(<<a, Head(stack).n>>, <<Frame("post", a, Head(stack).n + 1, {})>> \o Rest)
<1> DEFINE n == Head(stack).n
           op == <<a, n>>
           g == Frame("post", a, n + 1, {})
           t == <<g>> \o Rest
<1>1. stack # <<>> /\ StackOK(stack) /\ StackOK(Rest) /\ GoodFrame(Head(stack))
  BY StackPopped DEF IInv, At, Rest
<1>2. n \in 1 .. AcceptDepth /\ n \in Nat /\ n + 1 \in Nat \ {0}
  <2>1. n \in Nat \ {0}
    BY <1>1 DEF GoodFrame, At
  <2> QED
    BY <2>1, IocpAssumption
<1>3. op \in AcceptOps /\ op \in Overlappeds
  BY <1>2, IocpAssumption DEF AcceptOps
<1>4. FrameClaims(Head(stack), OpsFrom(a, n), {}, {})
  BY PostClaims DEF At
<1>5. FrameClaims(g, OpsFrom(a, n + 1), {}, {}) /\ GoodFrame(g)
  <2>1. g.at = "post" /\ g.w = a /\ g.n = n + 1
    BY DEF Frame
  <2>2. FrameClaims(g, OpsFrom(a, g.n), {}, {})
    BY <2>1, PostClaims
  <2> QED
    BY <1>2, <2>1, <2>2 DEF GoodFrame
<1>6. op \in OpsFrom(a, n) /\ op \notin OpsFrom(a, n + 1)
      /\ \A u \in Overlappeds \ {op} : u \in OpsFrom(a, n) <=> u \in OpsFrom(a, n + 1)
  <2>1. \A u \in AcceptOps : u[1] = a => u[2] \in Nat /\ u = <<a, u[2]>>
    BY DEF AcceptOps
  <2>2. op \in OpsFrom(a, n) /\ op \notin OpsFrom(a, n + 1)
    BY <1>2, <1>3 DEF OpsFrom
  <2>3. ASSUME NEW u \in AcceptOps, u # op, u[1] = a PROVE u[2] >= n <=> u[2] >= n + 1
    <3>1. u[2] \in Nat /\ u[2] # n
      BY <2>1, <2>3
    <3> QED
      BY <1>2, <3>1
  <2> QED
    BY <2>2, <2>3 DEF OpsFrom
<1>7. Once(stack, <<"op", op>>)
  BY <1>3 DEF IInv, OpsOK, OpInv, Single
<1> HIDE DEF op, n, g
<1>8. StackOK(t)
  BY <1>1, <1>5, StackPushed
<1>9. ASSUME NEW x \in Tokens
      PROVE  /\ In(stack, x) <=> x \in Claims(Head(stack)) \/ In(Rest, x)
             /\ Once(stack, x) <=> Once(Rest, x) /\ ~(x \in Claims(Head(stack)) /\ In(Rest, x))
             /\ In(t, x) <=> x \in Claims(g) \/ In(Rest, x)
             /\ Once(t, x) <=> Once(Rest, x) /\ ~(x \in Claims(g) /\ In(Rest, x))
  BY <1>1, InPopped, InPushed DEF Rest, StackOK
<1> HIDE DEF t
<1>10. /\ In(stack, <<"op", op>>) /\ ~In(t, <<"op", op>>) /\ Once(t, <<"op", op>>)
  BY <1>3, <1>4, <1>5, <1>6, <1>7, <1>9, TokenKinds DEF FrameClaims
<1>11. /\ \A u \in Overlappeds \ {op} : Alike(stack, t, <<"op", u>>)
       /\ \A u \in Overlappeds : Alike(stack, t, <<"wait", u>>)
  BY <1>4, <1>5, <1>6, <1>9, TokenKinds DEF FrameClaims, Alike
<1>12. /\ Alike(stack, t, Dispatching)
       /\ \A c \in Connects : Alike(stack, t, Connecting(c))
  BY <1>4, <1>5, <1>9, TokenKinds DEF FrameClaims, Alike, Dispatching, Connecting
<1> QED
  BY <1>3, <1>8, <1>10, <1>11, <1>12 DEF Freed, op, n, t, g

\* What the OVERLAPPEDs are told of that.
LEMMA FreedStack ==
  ASSUME NEW op \in AcceptOps, NEW t, Freed(op, t), Calm(t, stack'), Once(stack, <<"op", op>>)
  PROVE  /\ \A u \in Overlappeds \ {op} : StackKept(u)
         /\ Once(stack', <<"op", op>>) /\ ~In(stack', <<"op", op>>) /\ StackKept(op)
         /\ In(stack, Dispatching) => In(stack', Dispatching)
         /\ \A c \in Connects : In(stack, Connecting(c)) => In(stack', Connecting(c))
<1>1. op \in Overlappeds
  BY IocpAssumption DEF AcceptOps
<1>2. \A u \in Overlappeds : Alike(t, stack', <<"op", u>>) /\ Alike(t, stack', <<"wait", u>>)
  BY TokenKinds DEF Calm
<1>3. Alike(t, stack', Dispatching) /\ \A c \in Connects : Alike(t, stack', Connecting(c))
  BY TokenKinds DEF Calm
<1> QED
  BY <1>1, <1>2, <1>3 DEF Freed, Alike, StackKept

\* The socket that the operation held is closed, and replaced by f, if anything.
LEMMA OpReplaced ==
  ASSUME OwnersOK, NEW op \in AcceptOps, NEW f \in (Fds \ Open) \cup ({accept_fd[op]} \ {NoFd}),
         sock' = [[g \in Fds |-> IF g = accept_fd[op] THEN NoSocket ELSE sock[g]] EXCEPT ![f] = NewSocket],
         accept_fd' = [accept_fd EXCEPT ![op] = f], UNCHANGED <<fd, streams>>
  PROVE  OwnersOK' /\ f # NoFd
<1>1. FdsTyped /\ accept_fd[op] \in Fds \cup {NoFd} /\ NoFd \notin Fds
  BY CoreAssumption DEF OwnersOK, FdsTyped
<1>2. f \in Fds /\ f # NoFd
  BY <1>1
<1>3. <<"op", op>> \in Holders /\ Held(<<"op", op>>) = accept_fd[op] /\ Changed(<<"op", op>>, f)
  BY <1>1, <1>2, OpChanged
<1>4. Opened(f, {accept_fd[op]})
  <2> DEFINE g == accept_fd[op]
             s == [h \in Fds |-> IF h = g THEN NoSocket ELSE sock[h]]
  <2>1. sock' = [s EXCEPT ![f] = NewSocket] /\ DOMAIN s = Fds
        /\ \A h \in Fds : s[h] = IF h = g THEN NoSocket ELSE sock[h]
    OBVIOUS
  <2> HIDE DEF s
  <2>2. /\ DOMAIN sock' = Fds /\ sock' = [h \in Fds |-> sock'[h]]
        /\ \A h \in Fds : sock'[h] = IF h = f THEN NewSocket ELSE IF h = g THEN NoSocket ELSE sock[h]
    BY <2>1
  <2>3. f \in Fds \ (Open \ {g})
    BY <1>2
  <2> HIDE DEF g
  <2>4. Opened(f, {g})
    BY <1>1, <2>2, <2>3, SocketKinds, SocketOpens DEF FdsTyped
  <2> QED
    BY <2>4 DEF g
<1> QED
  BY <1>2, <1>3, <1>4, HolderOpens

\* The socket that the operation held is closed.
LEMMA OpCloses ==
  ASSUME OwnersOK, NEW op \in AcceptOps,
         sock' = [g \in Fds |-> IF g = accept_fd[op] THEN NoSocket ELSE sock[g]],
         accept_fd' = [accept_fd EXCEPT ![op] = NoFd], UNCHANGED <<fd, streams>>
  PROVE  OwnersOK'
<1>1. FdsTyped
  BY DEF OwnersOK
<1>2. <<"op", op>> \in Holders /\ Held(<<"op", op>>) = accept_fd[op] /\ Changed(<<"op", op>>, NoFd)
  BY <1>1, OpChanged
<1>3. Closed({accept_fd[op]})
  <2>1. sock' = Shut({accept_fd[op]})
    BY DEF Shut
  <2> QED
    BY <1>1, <2>1, SocketsClose DEF FdsTyped
<1> QED
  BY <1>2, <1>3, HolderCloses

\* The operation has no socket any more, and nobody its OVERLAPPED.
LEMMA OpGivenUp ==
  ASSUME IInv, NEW op \in AcceptOps, In(stack, <<"op", op>>), NEW t, Freed(op, t), Calm(t, stack'),
         sock' = [g \in Fds |-> IF g = accept_fd[op] THEN NoSocket ELSE sock[g]],
         accept_fd' = [accept_fd EXCEPT ![op] = NoFd],
         UNCHANGED <<reg, pending_ops, loopVars, watcherVars, portVars, streams, created, closed>>
  PROVE  IInv'
<1>1. op \in Overlappeds
  BY IocpAssumption DEF AcceptOps
<1>2. OwnersOK /\ QueuesOK /\ LinksOK /\ OpsOK /\ OpInv(op)
  BY <1>1 DEF IInv, OpsOK
<1>3. Once(stack, <<"op", op>>) /\ Free(op)
  BY <1>2 DEF OpInv, Single, Free
<1>4. UNCHANGED <<ready, orphans, created, closed, fd, attached, streams, inflight, port, lost, busy>>
  BY DEF loopVars, watcherVars, attachedVars, portVars
<1>5. Grows
  BY <1>2, <1>4 DEF Grows, LinksOK
<1>6. /\ \A u \in Overlappeds \ {op} : StackKept(u)
      /\ StackKept(op)
      /\ In(stack, Dispatching) => In(stack', Dispatching)
      /\ \A c \in Connects : In(stack, Connecting(c)) => In(stack', Connecting(c))
  BY <1>3, FreedStack
<1>7. StackOK(stack)' /\ LinksOK'
  BY <1>2, <1>4, <1>5, <1>6, StackStays, LinksKept DEF Calm
<1>8. OwnersOK' /\ QueuesOK'
  BY <1>2, <1>4, <1>6, OpCloses, QueuesKept
<1>9. \A u \in AcceptOps \ {op} : accept_fd'[u] = accept_fd[u]
  BY <1>2 DEF OwnersOK, FdsTyped
<1>10. ~Out(op)
  <2>1. ~In(t, <<"wait", op>>)
    BY <1>1, WaitIsOp DEF Freed
  <2>2. ~In(stack, <<"wait", op>>)
    BY <1>1, <2>1 DEF Freed, Alike
  <2> QED
    BY <1>3, <2>2 DEF Free, Out
<1>11. ASSUME NEW u \in Overlappeds PROVE OpInv(u)'
  <2>1. OpInv(u) /\ Same(u) /\ OwnerKept(u) /\ StackKept(u)
    BY <1>2, <1>4, <1>5, <1>6, NothingMoved, GrownOwner DEF OpsOK
  <2>2. u \in AcceptOps /\ Out(u) => accept_fd'[u] # NoFd
    BY <1>9, <1>10, <2>1 DEF OpInv
  <2> QED
    BY <1>4, <2>1, <2>2, OpKept
<1> QED
  BY <1>7, <1>8, <1>11 DEF IInv, OpsOK

\* The frame that closes the socket of the operation after on_error.
DropFrame(op) == Frame("drop", op[1], op[2], {})
LEMMA DropClaims ==
  ASSUME NEW op \in AcceptOps, NEW g, g = DropFrame(op)
  PROVE  FrameClaims(g, {op}, {}, {}) /\ GoodFrame(g)
<1>1. g.at = "drop" /\ g.w = op[1] /\ g.n = op[2] /\ op[1] \in Accepts /\ op[2] \in 1 .. AcceptDepth
      /\ op = <<op[1], op[2]>>
  BY DEF Frame, DropFrame, AcceptOps
<1>2. FrameClaims(g, {op}, {}, {})
  BY <1>1, RepostClaims
<1> QED
  BY <1>1, <1>2 DEF GoodFrame

\* It is pushed.
LEMMA DropPushed ==
  ASSUME NEW op \in AcceptOps, In(stack, <<"op", op>>), Once(stack, <<"op", op>>), NEW t, Freed(op, t),
         stack' = <<Calls("on_error", op[1]), DropFrame(op)>> \o t
  PROVE  Calm(stack, stack')
<1> DEFINE g == DropFrame(op)
           s == <<g>> \o t
<1>1. op \in Overlappeds
  BY IocpAssumption DEF AcceptOps
<1>2. FrameClaims(g, {op}, {}, {}) /\ GoodFrame(g)
  BY DropClaims
<1> HIDE DEF g
<1>3. Plain(Calls("on_error", op[1]))
  BY PlainCalls DEF Callbacks
<1>4. StackOK(t) /\ StackOK(s) /\ IsStack(t)
  BY <1>2, StackPushed DEF Freed, StackOK
<1>5. \A x : /\ In(s, x) <=> x \in Claims(g) \/ In(t, x)
             /\ Once(s, x) <=> Once(t, x) /\ ~(x \in Claims(g) /\ In(t, x))
  BY <1>4, InPushed
<1>6. stack' = <<Calls("on_error", op[1])>> \o s
  BY <1>4, PushedTwo DEF g
<1> HIDE DEF s
<1>7. Alike(stack, s, <<"op", op>>)
  BY <1>1, <1>2, <1>5 DEF FrameClaims, Freed, Alike
<1>8. \A u \in Overlappeds : Alike(stack, s, <<"wait", u>>) /\ (u # op => Alike(stack, s, <<"op", u>>))
  BY <1>2, <1>5 DEF FrameClaims, Freed, Alike
<1>9. Alike(stack, s, Dispatching) /\ \A c \in Connects : Alike(stack, s, Connecting(c))
  BY <1>2, <1>5 DEF FrameClaims, Freed, Alike, Dispatching, Connecting
<1>10. \A x \in Tokens : Alike(stack, s, x)
  BY <1>7, <1>8, <1>9 DEF Tokens, Dispatching, Connecting
<1>11. Calm(stack, s)
  BY <1>4, <1>10 DEF Calm
<1>12. Calm(s, stack')
  BY <1>3, <1>4, <1>6, CalmForms
<1> QED
  BY <1>11, <1>12, CalmThen

\* AcceptEx failed: the operation has a new socket until on_error returns.
Unposted(op, t) ==
  /\ \E f \in (Fds \ Open) \cup ({accept_fd[op]} \ {NoFd}) :
       /\ sock' = [[g \in Fds |-> IF g = accept_fd[op] THEN NoSocket ELSE sock[g]] EXCEPT ![f] = NewSocket]
       /\ accept_fd' = [accept_fd EXCEPT ![op] = f]
  /\ stack' = <<Calls("on_error", op[1]), DropFrame(op)>> \o t
  /\ UNCHANGED portVars
LEMMA AcceptUnposted ==
  ASSUME IInv, NEW op \in AcceptOps, In(stack, <<"op", op>>), NEW t, Freed(op, t), Unposted(op, t),
         UNCHANGED <<reg, pending_ops, loopVars, watcherVars, streams, created, closed>>
  PROVE  IInv'
<1>1. op \in Overlappeds
  BY IocpAssumption DEF AcceptOps
<1>2. OwnersOK /\ QueuesOK /\ LinksOK /\ OpsOK /\ OpInv(op)
  BY <1>1 DEF IInv, OpsOK
<1>3. UNCHANGED <<ready, orphans, created, closed, fd, attached, streams, inflight, port, lost, busy>>
  BY DEF loopVars, watcherVars, attachedVars, portVars, Unposted
<1>4. Calm(stack, stack')
  BY <1>2, DropPushed DEF Unposted, OpInv, Single
<1>5. Grows
  BY <1>2, <1>3 DEF Grows, LinksOK
<1>6. PICK f \in (Fds \ Open) \cup ({accept_fd[op]} \ {NoFd}) :
        /\ sock' = [[g \in Fds |-> IF g = accept_fd[op] THEN NoSocket ELSE sock[g]] EXCEPT ![f] = NewSocket]
        /\ accept_fd' = [accept_fd EXCEPT ![op] = f]
  BY DEF Unposted
<1>7. OwnersOK' /\ f # NoFd
  BY <1>2, <1>3, <1>6, OpReplaced
<1>8. /\ accept_fd'[op] = f
      /\ \A u \in AcceptOps \ {op} : accept_fd'[u] = accept_fd[u]
  BY <1>2, <1>6 DEF OwnersOK, FdsTyped
<1>9. StackOK(stack)' /\ QueuesOK' /\ LinksOK'
  BY <1>2, <1>3, <1>4, <1>5, CalmTokens, StackStays, QueuesKept, LinksKept DEF Calm
<1>10. ASSUME NEW u \in Overlappeds PROVE OpInv(u)'
  <2>1. OpInv(u) /\ Same(u) /\ OwnerKept(u) /\ StackKept(u)
    BY <1>2, <1>3, <1>4, <1>5, NothingMoved, GrownOwner, KeptCalm DEF OpsOK
  <2>2. u \in AcceptOps /\ Out(u) => accept_fd'[u] # NoFd
    BY <1>7, <1>8, <2>1 DEF OpInv
  <2> QED
    BY <1>3, <2>1, <2>2, OpKept
<1> QED
  BY <1>7, <1>9, <1>10 DEF IInv, OpsOK

\* postAccept(): a new socket for the operation, and AcceptEx.
LEMMA AcceptPosted ==
  ASSUME IInv, NEW op \in AcceptOps, In(stack, <<"op", op>>), NEW t, Freed(op, t), postAccept(op, t),
         UNCHANGED <<reg, pending_ops, loopVars, watcherVars, streams, created, closed>>
  PROVE  IInv'
<1> SUFFICES ASSUME ~Unposted(op, t) PROVE IInv'
  BY AcceptUnposted
<1> DEFINE a == op[1]
<1>1. a \in Accepts /\ a \in Watchers /\ op \in Overlappeds /\ a \notin Conns
  BY AcceptUntouched, IocpAssumption DEF AcceptOps
<1>2. OwnersOK /\ QueuesOK /\ LinksOK /\ OpsOK /\ OpInv(op)
  BY <1>1 DEF IInv, OpsOK
<1>3. Once(stack, <<"op", op>>) /\ Free(op) /\ StackOK(t)
  BY <1>2 DEF OpInv, Single, Free, Freed
<1>4. UNCHANGED <<ready, orphans, created, closed, fd, attached, streams>>
  BY DEF loopVars, watcherVars, attachedVars
<1>5. Grows
  BY <1>2, <1>4 DEF Grows, LinksOK
<1>6. Calm(t, stack')
  BY <1>3, CalmForms, MaybeCalls DEF postAccept, Callbacks, Unposted, DropFrame
<1>7. /\ \A u \in Overlappeds \ {op} : StackKept(u)
      /\ Once(stack', <<"op", op>>) /\ ~In(stack', <<"op", op>>) /\ StackKept(op)
      /\ In(stack, Dispatching) => In(stack', Dispatching)
      /\ \A c \in Connects : In(stack, Connecting(c)) => In(stack', Connecting(c))
  BY <1>3, <1>6, FreedStack
<1>8. StackOK(stack)' /\ LinksOK'
  BY <1>2, <1>4, <1>5, <1>6, <1>7, StackStays, LinksKept DEF Calm
<1>9. CASE UNCHANGED <<sock, accept_fd, portVars>>
  <2>1. UNCHANGED <<inflight, port, lost, busy>>
    BY <1>9 DEF portVars
  <2>2. OwnersOK' /\ QueuesOK'
    BY <1>2, <1>4, <1>7, <1>9, <2>1, OwnersSame, QueuesKept
  <2>3. OpsOK'
    BY <1>2, <1>4, <1>5, <1>7, <1>9, <2>1, OpsKept
  <2> QED
    BY <1>8, <2>2, <2>3 DEF IInv
<1>10. ASSUME NEW f \in (Fds \ Open) \cup ({accept_fd[op]} \ {NoFd}),
              sock' = [[g \in Fds |-> IF g = accept_fd[op] THEN NoSocket ELSE sock[g]] EXCEPT ![f] = NewSocket],
              accept_fd' = [accept_fd EXCEPT ![op] = f],
              Issue(op, fd[a]), a \in attached
       PROVE  IInv'
  <2>1. OwnersOK' /\ f # NoFd
    BY <1>2, <1>4, <1>10, OpReplaced
  <2>2. /\ accept_fd'[op] = f
        /\ \A u \in AcceptOps \ {op} : accept_fd'[u] = accept_fd[u]
    BY <1>2, <1>10 DEF OwnersOK, FdsTyped
  <2>3. OpsOK'
    BY <1>1, <1>2, <1>3, <1>4, <1>5, <1>7, <1>10, <2>1, <2>2, OpsIssued
  <2>4. fd[a] \in Fds
    BY <1>1, <1>2, <1>10 DEF LinksOK, OwnersOK, FdsTyped
  <2>5. QueuesOK'
    BY <1>1, <1>2, <1>4, <1>7, <1>10, <2>4, QueuesIssued
  <2> QED
    BY <1>8, <2>1, <2>3, <2>5 DEF IInv
<1>11. ASSUME sock' = [g \in Fds |-> IF g = accept_fd[op] THEN NoSocket ELSE sock[g]],
              accept_fd' = [accept_fd EXCEPT ![op] = NoFd], UNCHANGED portVars
       PROVE  IInv'
  BY <1>6, <1>11, OpGivenUp
<1>12. \/ UNCHANGED <<sock, accept_fd, portVars>>
       \/ /\ a \in attached /\ Issue(op, fd[a])
          /\ \E f \in (Fds \ Open) \cup ({accept_fd[op]} \ {NoFd}) :
               /\ sock' = [[g \in Fds |-> IF g = accept_fd[op] THEN NoSocket ELSE sock[g]] EXCEPT ![f] = NewSocket]
               /\ accept_fd' = [accept_fd EXCEPT ![op] = f]
       \/ /\ sock' = [g \in Fds |-> IF g = accept_fd[op] THEN NoSocket ELSE sock[g]]
          /\ accept_fd' = [accept_fd EXCEPT ![op] = NoFd] /\ UNCHANGED portVars
  BY DEF postAccept, Unposted, DropFrame
<1> QED
  BY <1>9, <1>10, <1>11, <1>12

\* It is called for each operation by start(),
LEMMA AcceptPostsEach == ASSUME IInv, NEW a \in Accepts, PostEach(a) PROVE IInv'
<1>1. At("post", a) /\ stack # <<>>
      /\ UNCHANGED <<reg, pending_ops, loopVars, watcherVars, streams, created, closed>>
  BY DEF PostEach, At
<1>2. CASE Head(stack).n > AcceptDepth
  <2>1. stack' = Rest /\ UNCHANGED <<sock, accept_fd, portVars>>
    BY <1>2 DEF PostEach
  <2>2. UNCHANGED <<inflight, port, lost, busy, ready, orphans, fd, attached>>
    BY <1>1, <2>1 DEF portVars, loopVars, watcherVars, attachedVars
  <2>3. Calm(Rest, stack')
    BY <1>1, <2>1, StackPopped, CalmForms DEF IInv, Rest
  <2>4. FrameClaims(Head(stack), OpsFrom(a, Head(stack).n), {}, {})
    BY <1>1, PostClaims DEF At
  <2>5. OwnersOK'
    BY <1>1, <2>1, <2>2, OwnersSame DEF IInv
  <2> QED
    BY <1>1, <2>1, <2>2, <2>3, <2>4, <2>5, PopStep
<1>3. CASE ~(Head(stack).n > AcceptDepth)
  <2> DEFINE op == <<a, Head(stack).n>>
             t == <<Frame("post", a, Head(stack).n + 1, {})>> \o Rest
  <2>1. postAccept(op, t)
    BY <1>3 DEF PostEach
  <2>2. op \in AcceptOps /\ In(stack, <<"op", op>>) /\ Freed(op, t)
    BY <1>1, <1>3, PostFrees
  <2> HIDE DEF op, t
  <2> QED
    BY <1>1, <2>1, <2>2, AcceptPosted
<1> QED
  BY <1>2, <1>3

\* and for one when its completion is handled.
LEMMA AcceptReposts == ASSUME IInv, NEW a \in Accepts, Repost(a) PROVE IInv'
<1> DEFINE op == <<a, Head(stack).n>>
<1>1. At("repost", a) /\ postAccept(op, Rest)
      /\ UNCHANGED <<reg, pending_ops, loopVars, watcherVars, streams, created, closed>>
  BY DEF Repost
<1>2. op \in AcceptOps /\ In(stack, <<"op", op>>) /\ Freed(op, Rest)
  BY <1>1, RepostFrees
<1> HIDE DEF op
<1> QED
  BY <1>1, <1>2, AcceptPosted

\* When AcceptEx failed, its socket is closed in the end.
LEMMA AcceptDrops == ASSUME IInv, NEW a \in Accepts, Drop(a) PROVE IInv'
<1> DEFINE op == <<a, Head(stack).n>>
<1>1. /\ At("drop", a) /\ stack' = Rest
      /\ sock' = [f \in Fds |-> IF f = accept_fd[op] THEN NoSocket ELSE sock[f]]
      /\ accept_fd' = [accept_fd EXCEPT ![op] = NoFd]
      /\ UNCHANGED <<reg, pending_ops, loopVars, watcherVars, portVars, streams, created, closed>>
  BY DEF Drop
<1>2. op \in AcceptOps /\ In(stack, <<"op", op>>) /\ Freed(op, Rest)
  BY <1>1, RepostFrees
<1>3. Calm(Rest, stack')
  BY <1>1, <1>2, CalmForms DEF Freed
<1> HIDE DEF op
<1> QED
  BY <1>1, <1>2, <1>3, OpGivenUp

\* The completion is handled: the operation gives its socket away or closes it.
LEMMA AcceptHandled ==
  ASSUME IInv, NEW a \in Accepts, At("ready", a), NEW op \in Head(stack).ev \cap OfWatcher(a),
         NEW l \in Callbacks, stack' = <<Calls(l, a), Frame("repost", a, op[2], {})>> \o Rest,
         accept_fd' = [accept_fd EXCEPT ![op] = NoFd], busy' = busy \ {op},
         UNCHANGED <<loopVars, watcherVars, inflight, port, lost, created, closed>>
  PROVE  /\ op \in AcceptOps /\ accept_fd[op] # NoFd
         /\ OwnersOK' => IInv'
<1>1. PICK ov \in Overlappeds : Head(stack).ev = {ov} /\ FrameClaims(Head(stack), {ov}, {ov}, {})
  BY HandlerHead DEF IInv
<1>2. op = ov /\ op \in AcceptOps /\ op[1] = a /\ op \in Overlappeds
  BY <1>1, AcceptUntouched DEF OfWatcher
<1>3. stack # <<>> /\ UNCHANGED <<ready, orphans, fd, attached>>
  BY DEF At, loopVars, watcherVars, attachedVars
<1>4. Plain(Calls(l, a))
  BY PlainCalls
<1>5. /\ In(stack, <<"wait", op>>) /\ ~In(stack', <<"wait", op>>)
      /\ Once(stack', <<"op", op>>)
      /\ \A u \in Overlappeds \ {op} : StackKept(u)
      /\ In(stack, Dispatching) => In(stack', Dispatching)
      /\ \A c \in Connects : In(stack, Connecting(c)) => In(stack', Connecting(c))
      /\ StackOK(stack')
  BY <1>1, <1>2, <1>3, <1>4, HandlerReposts
<1>6. OpsOK /\ QueuesOK /\ LinksOK /\ OpInv(op) /\ Out(op) /\ op \notin lost /\ accept_fd[op] # NoFd
  <2>1. OpInv(op)
    BY <1>2 DEF IInv, OpsOK
  <2>2. Out(op) /\ op \notin lost
    BY <1>2, <1>5, <2>1, WaitedIsFree
  <2> QED
    BY <1>2, <2>1, <2>2 DEF IInv, OpInv
<1>7. Grows /\ \A u : Same(u)
  BY <1>3, <1>6, NothingMoved DEF LinksOK, Grows
<1>8. \A u \in AcceptOps \ {op} : accept_fd'[u] = accept_fd[u]
  BY DEF IInv, OwnersOK, FdsTyped
<1>9. OpsOK'
  BY <1>2, <1>5, <1>6, <1>7, <1>8, OpsConsumed
<1>10. QueuesOK' /\ LinksOK'
  BY <1>3, <1>5, <1>6, QueuesKept, LinksKept
<1> QED
  BY <1>2, <1>5, <1>6, <1>7, <1>9, <1>10, StackStays DEF IInv

\* An accept completes, and its socket becomes a stream;
LEMMA AcceptSucceeds == ASSUME IInv, NEW a \in Accepts, AcceptCompletes(a) PROVE IInv'
<1>1. PICK op \in Head(stack).ev \cap OfWatcher(a) :
        /\ streams' = streams \cup {accept_fd[op]}
        /\ accept_fd' = [accept_fd EXCEPT ![op] = NoFd]
        /\ busy' = busy \ {op}
        /\ stack' = <<Calls("on_accept", a), Frame("repost", a, op[2], {})>> \o Rest
  BY DEF AcceptCompletes
<1>2. At("ready", a) /\ UNCHANGED <<sock, loopVars, watcherVars, inflight, port, lost, created, closed>>
  BY DEF AcceptCompletes, exceptStack
<1>3. op \in AcceptOps /\ accept_fd[op] # NoFd /\ (OwnersOK' => IInv')
  <2>1. "on_accept" \in Callbacks
    BY DEF Callbacks
  <2> QED
    BY <1>1, <1>2, <2>1, AcceptHandled
<1>4. OwnersOK /\ FdsTyped /\ UNCHANGED fd
  BY <1>2 DEF IInv, OwnersOK, watcherVars
<1>5. <<"op", op>> \in Holders /\ Held(<<"op", op>>) = accept_fd[op] /\ Changed(<<"op", op>>, NoFd)
  BY <1>1, <1>3, <1>4, OpChanged
<1>6. SameOpen
  BY <1>2, <1>4 DEF FdsTyped, SameOpen, Open
<1>7. OwnersOK'
  BY <1>1, <1>3, <1>4, <1>5, <1>6, HolderGives
<1> QED
  BY <1>3, <1>7

\* or it fails, and its socket is closed.
LEMMA AcceptRefused == ASSUME IInv, NEW a \in Accepts, AcceptFails(a) PROVE IInv'
<1>1. PICK op \in Head(stack).ev \cap OfWatcher(a) :
        /\ sock' = [sock EXCEPT ![accept_fd[op]] = NoSocket]
        /\ accept_fd' = [accept_fd EXCEPT ![op] = NoFd]
        /\ busy' = busy \ {op}
        /\ stack' = <<Calls("on_error", a), Frame("repost", a, op[2], {})>> \o Rest
  BY DEF AcceptFails
<1>2. At("ready", a) /\ UNCHANGED <<loopVars, watcherVars, inflight, port, lost, streams, created, closed>>
  BY DEF AcceptFails
<1>3. op \in AcceptOps /\ accept_fd[op] # NoFd /\ (OwnersOK' => IInv')
  <2>1. "on_error" \in Callbacks
    BY DEF Callbacks
  <2> QED
    BY <1>1, <1>2, <2>1, AcceptHandled
<1>4. OwnersOK /\ FdsTyped /\ UNCHANGED fd
  BY <1>2 DEF IInv, OwnersOK, watcherVars
<1>5. sock' = [g \in Fds |-> IF g = accept_fd[op] THEN NoSocket ELSE sock[g]]
  BY <1>1, <1>4 DEF FdsTyped
<1>6. OwnersOK'
  BY <1>1, <1>2, <1>3, <1>4, <1>5, OpCloses
<1> QED
  BY <1>3, <1>6

\* Every step of an accept watcher.
LEMMA AcceptStep ==
  ASSUME IInv, NEW a \in Accepts, IocpTcpAcceptWatcher(a), ~restarted_early'
  PROVE  IInv'
<1>1. CASE AcceptIgnores(a)
  BY <1>1, IgnoreStep DEF AcceptIgnores
<1>2. CASE startAccept(a)
  <2>1. Quiesced(a)
    BY <1>2 DEF startAccept, Restarted
  <2> QED
    BY <1>2, <2>1, AcceptStarts
<1> QED
  BY <1>1, <1>2, AcceptListens, AcceptStops, AcceptPostsEach, AcceptReposts, AcceptDrops,
     AcceptSucceeds, AcceptRefused DEF IocpTcpAcceptWatcher

----------------------------------------------------------------------------
(* The connection watcher. *)

\* A connection has an OVERLAPPED to receive and one to send.
LEMMA ConnUntouched ==
  ASSUME NEW k \in Conns
  PROVE  k \in Watchers /\ k \notin Connects /\ k \notin Accepts
         /\ \A tag \in {"recv", "send"} : <<k, tag>> \in Overlappeds
BY IocpAssumption

\* The constructor takes the socket of a stream.
LEMMA ConnCreated == ASSUME IInv, NEW k \in Conns, create(k) PROVE IInv'
<1>1. k \in Watchers /\ k \notin Connects /\ k \notin Accepts
  BY ConnUntouched
<1>2. /\ k \notin created /\ created' = created \cup {k}
      /\ UNCHANGED <<sock, inflight, port, ready, lost, busy, accept_fd, closed, orphans, attached, stack>>
  BY DEF create, loopVars, attachedVars, portVars
<1>3. PICK f \in streams : streams' = streams \ {f} /\ fd' = [fd EXCEPT ![k] = f]
  BY DEF create
<1>4. OwnersOK /\ FdsTyped /\ OpsOK /\ QueuesOK /\ LinksOK /\ Calm(stack, stack')
  BY <1>2, CalmForms DEF IInv, OwnersOK
<1>5. fd[k] = NoFd /\ k \notin closed /\ f \in Fds /\ f # NoFd
  BY <1>2, <1>4, CoreAssumption DEF LinksOK, FdsTyped
<1>6. OwnersOK'
  <2>1. <<"fd", k>> \in Holders /\ Held(<<"fd", k>>) = fd[k] /\ Changed(<<"fd", k>>, f)
    BY <1>1, <1>2, <1>3, <1>4, <1>5, WatcherChanged
  <2>2. SameOpen
    BY <1>2, <1>4 DEF FdsTyped, SameOpen, Open
  <2> QED
    BY <1>3, <1>4, <1>5, <2>1, <2>2, HolderTakes
<1>7. QueuesOK'
  BY <1>1, <1>2, <1>3, <1>4, <1>5, QueuesGiven
<1>8. fd'[k] = f /\ \A w \in Watchers \ {k} : fd'[w] = fd[w]
  BY <1>1, <1>3, <1>4 DEF FdsTyped
<1>9. LinksOK'
  BY <1>1, <1>2, <1>4, <1>5, <1>8, IocpAssumption DEF LinksOK
<1>10. Grows
  BY <1>2, <1>4 DEF LinksOK, Grows
<1>11. OpsOK'
  BY <1>2, <1>4, <1>10, KeptCalm, OpsKept
<1> QED
  BY <1>4, <1>6, <1>7, <1>9, <1>10, <1>11, StackStays DEF IInv, Calm

\* startRecv(), and what else the caller does: t is what the caller leaves of the stack.
LEMMA RecvStarts ==
  ASSUME IInv, NEW k \in Conns, k \in created, NEW t, Calm(stack, t), startRecv(k, t),
         UNCHANGED <<sock, loopVars, events, fd, source, tcpVars>>,
         attached \cap Connects \subseteq attached', attached' \cap Accepts \subseteq attached
  PROVE  IInv'
<1> DEFINE ov == <<k, "recv">>
<1>1. UNCHANGED <<ready, orphans, created, closed, streams, accept_fd>>
  BY DEF loopVars, tcpVars
<1>2. OwnersOK'
  BY <1>1, OwnersSame DEF IInv
<1>3. StackOK(t)
  BY DEF Calm
<1>4. Calm(stack, stack')
  <2>1. CASE stack' = t
    BY <2>1
  <2>2. CASE stack' = <<Calls("on_error", k), Calls("close", k)>> \o t
    <3>1. Plain(Calls("on_error", k)) /\ Plain(Calls("close", k))
      BY PlainCalls DEF Callbacks
    <3>2. Calm(t, stack')
      BY <1>3, <2>2, <3>1, CalmPushedTwo
    <3> QED
      BY <3>2, CalmThen
  <2> QED
    BY <2>1, <2>2 DEF startRecv
<1>5. CASE UNCHANGED portVars
  <2>1. UNCHANGED <<inflight, port, lost, busy>>
    BY <1>5 DEF portVars
  <2> QED
    BY <1>1, <1>2, <1>4, <2>1, CalmStep
<1>6. CASE fd[k] # NoFd /\ ov \notin busy /\ Issue(ov, fd[k])
  <2>1. /\ ov \in Overlappeds /\ ov \notin AcceptOps /\ fd[k] \in Fds
        /\ Free(ov) /\ ~In(stack, <<"op", ov>>)
    BY <1>6, ConnectionOps
  <2>2. \A u \in Overlappeds : StackKept(u)
    BY <1>4, KeptCalm
  <2>3. /\ OpsOK /\ QueuesOK /\ LinksOK /\ Grows /\ OpInv(ov)
    BY <1>1, <2>1 DEF IInv, OpsOK, LinksOK, Grows
  <2>4. ~In(stack', <<"op", ov>>) /\ Once(stack', <<"op", ov>>)
    BY <2>1, <2>2, <2>3 DEF StackKept, OpInv, Single
  <2>5. OpsOK'
    BY <1>1, <1>6, <2>1, <2>2, <2>3, <2>4, OpsIssued
  <2>6. QueuesOK' /\ LinksOK'
    <3>1. ov[1] = k
      OBVIOUS
    <3> QED
      BY <1>1, <1>4, <1>6, <2>1, <2>3, <3>1, CalmTokens, QueuesIssued, LinksKept
  <2> QED
    BY <1>2, <1>4, <2>3, <2>5, <2>6, StackStays DEF IInv, Calm
<1> QED
  BY <1>5, <1>6 DEF startRecv

\* start() begins to receive.
LEMMA ConnStarts == ASSUME IInv, NEW k \in Conns, startConnection(k) PROVE IInv'
<1>1. k \notin Connects /\ k \notin Accepts
  BY ConnUntouched
<1>2. /\ k \in created /\ startRecv(k, stack) /\ attached' = attached \cup {k}
      /\ UNCHANGED <<sock, loopVars, events, fd, source, tcpVars>>
  BY DEF startConnection, attach
<1>3. Calm(stack, stack)
  BY CalmForms DEF IInv
<1> QED
  BY <1>1, <1>2, <1>3, RecvStarts

\* stop() detaches the connection, and leaves its operations.
LEMMA ConnStops == ASSUME IInv, NEW k \in Conns, stopConnection(k) PROVE IInv'
<1>1. k \notin Connects
  BY ConnUntouched
<1>2. /\ attached' = attached \ {k}
      /\ UNCHANGED <<inflight, port, ready, lost, busy, accept_fd, created, closed, orphans, streams, sock, fd, stack>>
  BY DEF stopConnection, detach, loopVars, portVars, tcpVars
<1>3. Calm(stack, stack') /\ OwnersOK'
  BY <1>2, CalmForms, OwnersSame DEF IInv
<1> QED
  BY <1>1, <1>2, <1>3, CalmStep

\* send() while one is sent queues the data;
LEMMA ConnSendWaits == ASSUME IInv, NEW k \in Conns, SendBusy(k) PROVE IInv'
<1>1. UNCHANGED <<inflight, port, ready, lost, busy, accept_fd, created, closed, orphans, streams, sock, fd, stack, attached>>
  BY DEF SendBusy, exceptStack, loopVars, watcherVars, attachedVars, portVars
<1>2. Calm(stack, stack') /\ OwnersOK'
  BY <1>1, CalmForms, OwnersSame DEF IInv
<1> QED
  BY <1>1, <1>2, CalmStep

\* otherwise it begins an operation,
LEMMA ConnSends == ASSUME IInv, NEW k \in Conns, SendIssued(k) PROVE IInv'
<1> DEFINE ov == <<k, "send">>
<1>1. /\ fd[k] # NoFd /\ ov \notin busy /\ Issue(ov, fd[k])
      /\ UNCHANGED <<ready, orphans, created, closed, streams, accept_fd, sock, fd, stack, attached>>
  BY DEF SendIssued, exceptStack, loopVars, watcherVars, attachedVars, tcpVars
<1>2. Calm(stack, stack') /\ OwnersOK'
  BY <1>1, CalmForms, OwnersSame DEF IInv
<1>3. /\ ov \in Overlappeds /\ ov \notin AcceptOps /\ fd[k] \in Fds /\ ov[1] = k
      /\ k \in created \ closed /\ Free(ov) /\ ~In(stack, <<"op", ov>>)
  BY <1>1, ConnectionOps
<1>4. \A u \in Overlappeds : StackKept(u)
  BY <1>2, KeptCalm
<1>5. /\ OpsOK /\ QueuesOK /\ LinksOK /\ Grows /\ OpInv(ov)
  BY <1>1, <1>3 DEF IInv, OpsOK, LinksOK, Grows
<1>6. ~In(stack', <<"op", ov>>) /\ Once(stack', <<"op", ov>>)
  BY <1>3, <1>4, <1>5 DEF StackKept, OpInv, Single
<1>7. OpsOK'
  BY <1>1, <1>3, <1>4, <1>5, <1>6, OpsIssued
<1>8. QueuesOK' /\ LinksOK'
  BY <1>1, <1>2, <1>3, <1>5, CalmTokens, QueuesIssued, LinksKept
<1> QED
  BY <1>2, <1>5, <1>7, <1>8, StackStays DEF IInv, Calm

\* or fails.
LEMMA ConnSendRefused == ASSUME IInv, NEW k \in Conns, SendFails(k) PROVE IInv'
<1>1. /\ fd[k] # NoFd /\ stack' = <<Calls("on_error", k), Calls("close", k)>> \o stack
      /\ UNCHANGED <<inflight, port, ready, lost, busy, accept_fd, created, closed, orphans, streams, sock, fd, attached>>
  BY DEF SendFails, exceptStack, loopVars, watcherVars, attachedVars, portVars, tcpVars
<1>2. k \in created
  BY <1>1 DEF IInv, LinksOK
<1>3. Plain(Calls("on_error", k)) /\ Plain(Calls("close", k))
  BY <1>2, PlainCalls DEF Callbacks
<1>4. Calm(stack, stack') /\ OwnersOK'
  BY <1>1, <1>3, CalmPushedTwo, OwnersSame DEF IInv
<1> QED
  BY <1>1, <1>4, CalmStep

\* A socket changes that is open, and stays so.
LEMMA OpenChanges ==
  ASSUME OwnersOK, NEW f, NEW r, sock' = [sock EXCEPT ![f] = r],
         f \in Fds => r \in Sockets /\ (r.st = "none" <=> sock[f].st = "none"),
         UNCHANGED <<fd, accept_fd, streams>>
  PROVE  OwnersOK'
BY SocketChanges, OwnersUnchanged DEF OwnersOK, FdsTyped

\* shutdownWrite() changes the socket, and closes nothing.
LEMMA ConnShuts == ASSUME IInv, NEW k \in Conns, shutdownWrite(k) PROVE IInv'
<1> DEFINE f == fd[k]
           r == [sock[f] EXCEPT !.shut = TRUE]
<1>1. /\ sock' = [sock EXCEPT ![f] = r]
      /\ UNCHANGED <<inflight, port, ready, lost, busy, accept_fd, created, closed, orphans, streams, fd, attached, stack>>
  BY DEF shutdownWrite, loopVars, watcherVars, attachedVars, portVars, tcpVars
<1>2. f \in Fds => r \in Sockets /\ (r.st = "none" <=> sock[f].st = "none")
  <2>1. f \in Fds => sock[f] \in Sockets
    BY DEF IInv, OwnersOK, FdsTyped
  <2> QED
    BY <2>1 DEF Sockets
<1> HIDE DEF r, f
<1>3. OwnersOK'
  BY <1>1, <1>2, OpenChanges DEF IInv
<1>4. Calm(stack, stack')
  BY <1>1, CalmForms DEF IInv
<1> QED
  BY <1>1, <1>3, <1>4, CalmStep

\* The connection k is closed.
LEMMA ConnCloses ==
  ASSUME IInv, NEW k \in created, NEW r, CloseSocket(k, r), closed' = closed \cup {k},
         attached' = attached \ {k},
         UNCHANGED <<ready, accept_fd, streams, orphans, created>>,
         In(stack, Dispatching) => In(stack', Dispatching),
         \A c \in Connects : In(stack, Connecting(c)) => In(stack', Connecting(c))
  PROVE  /\ OwnersOK' /\ QueuesOK' /\ LinksOK' /\ Grows /\ UNCHANGED lost
         /\ \A ov \in Overlappeds :
              /\ ~InKernel(ov) => Same(ov)
              /\ StackKept(ov) /\ (ov \in busy' <=> ov \in busy) => OpInv(ov)'
<1>1. k \in Conns /\ k \in Watchers /\ k \notin Connects /\ k \notin Accepts
  BY ConnUntouched DEF IInv, LinksOK
<1>2. Grows /\ k \notin created' \ closed'
  BY DEF IInv, LinksOK, Grows
<1>3. /\ OwnersOK' /\ QueuesOK' /\ fd' = [fd EXCEPT ![k] = NoFd] /\ UNCHANGED lost
      /\ \A ov \in Overlappeds :
              /\ ~InKernel(ov) => Same(ov)
              /\ StackKept(ov) /\ (ov \in busy' <=> ov \in busy) => OpInv(ov)'
  BY <1>1, <1>2, SocketCloses
<1>4. fd'[k] = NoFd /\ \A w \in Watchers \ {k} : fd'[w] = fd[w]
  BY <1>1, <1>3 DEF IInv, OwnersOK, FdsTyped
<1>5. LinksOK'
  BY <1>1, <1>4, IocpAssumption DEF IInv, LinksOK
<1> QED
  BY <1>2, <1>3, <1>5

\* closeNow(): the socket is closed with what is outstanding on it.
LEMMA CalmCloses ==
  ASSUME IInv, NEW k \in created, NEW t, Calm(stack, t), closeNow(k, t), UNCHANGED <<busy, exceptClose>>
  PROVE  IInv'
<1>1. UNCHANGED <<ready, orphans, accept_fd, streams, created, busy>>
  BY DEF exceptClose, loopVars
<1>2. StackOK(t)
  BY DEF Calm
<1>3. CASE stack' = t /\ UNCHANGED <<sock, fd, attached, inflight, port, lost, closed>>
  <2>1. OwnersOK'
    BY <1>1, <1>3, OwnersSame DEF IInv
  <2> QED
    BY <1>1, <1>3, <2>1, CalmStep
<1>4. CASE /\ closed' = closed \cup {k} /\ attached' = attached \ {k}
           /\ stack' = <<Calls("on_close", k)>> \o t /\ \E r : CloseSocket(k, r)
  <2>1. Calm(stack, stack')
    <3>1. Plain(Calls("on_close", k))
      BY PlainCalls DEF Callbacks
    <3>2. Calm(t, stack')
      BY <1>2, <1>4, <3>1, CalmPushed
    <3> QED
      BY <3>2, CalmThen
  <2>2. PICK r : CloseSocket(k, r)
    BY <1>4
  <2>3. /\ OwnersOK' /\ QueuesOK' /\ LinksOK' /\ Grows
        /\ \A ov \in Overlappeds : StackKept(ov) /\ (ov \in busy' <=> ov \in busy) => OpInv(ov)'
    BY <1>1, <1>4, <2>1, <2>2, CalmTokens, ConnCloses
  <2>4. OpsOK'
    BY <1>1, <2>1, <2>3, KeptCalm DEF OpsOK
  <2> QED
    BY <2>1, <2>3, <2>4, StackStays DEF IInv, Calm
<1> QED
  BY <1>3, <1>4 DEF closeNow

\* close() of the user;
LEMMA ConnClosedByUser == ASSUME IInv, NEW k \in Conns, close(k) PROVE IInv'
<1>1. Calm(stack, stack)
  BY CalmForms DEF IInv
<1> QED
  BY <1>1, CalmCloses DEF close

\* and after on_error.
LEMMA ConnClosedLater == ASSUME IInv, NEW k \in Conns, CloseStep(k) PROVE IInv'
<1>1. At("close", k) /\ closeNow(k, Rest) /\ UNCHANGED <<busy, exceptClose>>
  BY DEF CloseStep
<1>2. stack # <<>> /\ GoodFrame(Head(stack))
  BY <1>1, StackPopped DEF IInv, At
<1>3. k \in created /\ Plain(Head(stack))
  BY <1>1, <1>2 DEF GoodFrame, At, Plain
<1>4. Calm(stack, Rest)
  BY <1>2, <1>3, CalmPopped DEF IInv, Rest
<1> QED
  BY <1>1, <1>3, <1>4, CalmCloses

\* The peer has ended: the connection is closed.
LEMMA ConnEnds == ASSUME IInv, NEW k \in Conns, RecvEnd(k) PROVE IInv'
<1> DEFINE ov == <<k, "recv">>
<1>1. ov \in Overlappeds
  BY ConnUntouched
<1>2. /\ stack # <<>> /\ FrameClaims(Head(stack), {ov}, {ov}, {})
      /\ fd[k] # NoFd /\ k \notin closed
  BY <1>1, ReadyClaims DEF RecvEnd, Completed, At
<1>3. /\ closed' = closed \cup {k} /\ attached' = attached \ {k} /\ busy' = busy \ {ov}
      /\ stack' = <<Calls("on_close", k)>> \o Rest /\ \E r : CloseSocket(k, r)
      /\ UNCHANGED <<ready, orphans, accept_fd, streams, created>>
  BY <1>2 DEF RecvEnd, closeNow, exceptClose, loopVars
<1>4. StackOK(stack) /\ StackOK(Rest) /\ OpsOK /\ k \in created
  BY <1>2, StackPopped DEF IInv, Rest, LinksOK
<1>5. Calm(Rest, stack')
  BY <1>3, <1>4, MaybeCalls DEF Callbacks
<1>6. /\ In(stack, <<"wait", ov>>) /\ ~In(stack', <<"wait", ov>>)
      /\ Once(stack', <<"op", ov>>)
      /\ \A u \in Overlappeds \ {ov} : StackKept(u)
      /\ In(stack, Dispatching) => In(stack', Dispatching)
      /\ \A d \in Connects : In(stack, Connecting(d)) => In(stack', Connecting(d))
  BY <1>1, <1>2, <1>5, HandlerCalm
<1>7. PICK r : CloseSocket(k, r)
  BY <1>3
<1>8. /\ OwnersOK' /\ QueuesOK' /\ LinksOK' /\ Grows /\ UNCHANGED lost
      /\ \A u \in Overlappeds :
           /\ ~InKernel(u) => Same(u)
           /\ StackKept(u) /\ (u \in busy' <=> u \in busy) => OpInv(u)'
  BY <1>3, <1>4, <1>6, <1>7, ConnCloses
<1>9. Free(ov) /\ ov \notin lost /\ OpInv(ov)
  BY <1>1, <1>4, <1>6, WaitedIsFree DEF OpsOK
<1>10. OpInv(ov)'
  <2>1. Same(ov) /\ OwnerKept(ov) /\ ov \notin lost' /\ ov \notin busy'
    BY <1>1, <1>3, <1>8, <1>9, GrownOwner DEF Free
  <2> QED
    BY <1>1, <1>6, <1>9, <2>1, OpConsumed
<1>11. OpsOK'
  BY <1>3, <1>6, <1>8, <1>10 DEF OpsOK
<1> QED
  BY <1>5, <1>8, <1>11, StackStays DEF IInv, Calm

\* A completion reports an error.
LEMMA ConnFails == ASSUME IInv, NEW k \in Conns, CompletedError(k) PROVE IInv'
<1>1. PICK tag \in {"recv", "send"} : Completed(k, tag) /\ busy' = busy \ {<<k, tag>>}
  BY DEF CompletedError
<1>2. <<k, tag>> \in Overlappeds
  BY ConnUntouched
<1>3. /\ At("ready", k) /\ stack # <<>> /\ Head(stack).ev = {<<k, tag>>} /\ fd[k] # NoFd
      /\ stack' = <<Calls("on_error", k), Calls("close", k)>> \o Rest
      /\ UNCHANGED <<exceptStack, inflight, port, lost, streams, accept_fd, created, closed>>
  BY <1>1 DEF CompletedError, Completed, At, tcpVars
<1>4. Plain(Calls("on_error", k)) /\ Plain(Calls("close", k))
  BY <1>3, PlainCalls DEF Callbacks, IInv, LinksOK
<1>5. Calm(Rest, stack')
  BY <1>3, <1>4, StackPopped, CalmPushedTwo DEF IInv, Rest
<1> QED
  BY <1>1, <1>2, <1>3, <1>5, HandledStep

\* Data has been received.
LEMMA ConnReceives == ASSUME IInv, NEW k \in Conns, RecvData(k) PROVE IInv'
<1>1. <<k, "recv">> \in Overlappeds
  BY ConnUntouched
<1>2. /\ At("ready", k) /\ stack # <<>> /\ Head(stack).ev = {<<k, "recv">>}
      /\ busy' = busy \ {<<k, "recv">>}
      /\ stack' = <<Calls("on_recv", k), Calls("rearm", k)>> \o Rest
      /\ UNCHANGED <<exceptStack, inflight, port, lost, streams, accept_fd, created, closed>>
  BY DEF RecvData, Completed, At, tcpVars
<1>3. Plain(Calls("on_recv", k)) /\ Plain(Calls("rearm", k))
  BY PlainCalls DEF Callbacks
<1>4. Calm(Rest, stack')
  BY <1>2, <1>3, StackPopped, CalmPushedTwo DEF IInv, Rest
<1> QED
  BY <1>1, <1>2, <1>4, HandledStep

\* Data has been sent.
LEMMA ConnSent == ASSUME IInv, NEW k \in Conns, SendComplete(k) PROVE IInv'
<1>1. <<k, "send">> \in Overlappeds
  BY ConnUntouched
<1>2. /\ At("ready", k) /\ stack # <<>> /\ Head(stack).ev = {<<k, "send">>}
      /\ busy' = busy \ {<<k, "send">>}
      /\ UNCHANGED <<exceptStack, inflight, port, lost, streams, accept_fd, created, closed>>
  BY DEF SendComplete, Completed, At
<1>3. StackOK(Rest)
  BY <1>2, StackPopped DEF IInv, Rest
<1>4. <<>> \o Rest = Rest
  <2>1. PICK S : Rest \in Seq(S)
    BY <1>3 DEF StackOK, IsStack
  <2> QED
    BY <2>1
<1>5. stack' = Rest \/ stack' = <<Calls("on_send_ready", k)>> \o Rest
  BY <1>4 DEF SendComplete
<1>6. Calm(Rest, stack')
  BY <1>3, <1>5, MaybeCalls DEF Callbacks
<1> QED
  BY <1>1, <1>2, <1>6, HandledStep

\* After on_recv, the next receive begins.
LEMMA ConnRearms == ASSUME IInv, NEW k \in Conns, Rearm(k) PROVE IInv'
<1>1. At("rearm", k) /\ stack # <<>> /\ UNCHANGED <<exceptStack, tcpVars>>
  BY DEF Rearm, At
<1>2. GoodFrame(Head(stack)) /\ StackOK(stack)
  BY <1>1, StackPopped DEF IInv
<1>3. Plain(Head(stack))
  BY <1>1, <1>2 DEF At, Plain
<1>4. Calm(stack, Rest)
  BY <1>1, <1>2, <1>3, CalmPopped DEF Rest
<1>5. UNCHANGED <<sock, loopVars, events, fd, source, tcpVars, ready, orphans, created, closed, streams, accept_fd, attached>>
  BY <1>1 DEF exceptStack, loopVars, watcherVars, attachedVars, tcpVars
<1>6. OwnersOK'
  BY <1>5, OwnersSame DEF IInv
<1>7. CASE stack' = Rest /\ UNCHANGED portVars
  <2>1. UNCHANGED <<inflight, port, lost, busy>>
    BY <1>7 DEF portVars
  <2> QED
    BY <1>4, <1>5, <1>6, <1>7, <2>1, CalmStep
<1>8. CASE k \in closed
  BY <1>7, <1>8 DEF Rearm
<1>9. CASE k \notin closed /\ k \in created
  <2>1. startRecv(k, Rest)
    BY <1>9 DEF Rearm
  <2> QED
    BY <1>4, <1>5, <1>9, <2>1, RecvStarts
<1>10. CASE k \notin created
  <2>1. startRecv(k, Rest) /\ fd[k] = NoFd
    BY <1>10 DEF Rearm, IInv, LinksOK
  <2> QED
    BY <1>7, <2>1 DEF startRecv
<1> QED
  BY <1>8, <1>9, <1>10

\* Every step of a connection.
LEMMA ConnStep == ASSUME IInv, NEW k \in Conns, IocpTcpConnectionWatcher(k) PROVE IInv'
<1>1. CASE CompletionIgnored(k)
  BY <1>1, IgnoreStep DEF CompletionIgnored
<1> QED
  BY <1>1, ConnCreated, ConnStarts, ConnStops, ConnClosedByUser, ConnClosedLater, ConnSendWaits,
     ConnSends, ConnSendRefused, ConnShuts, ConnFails, ConnEnds, ConnReceives, ConnRearms, ConnSent
     DEF IocpTcpConnectionWatcher

----------------------------------------------------------------------------
(* The kernel and the peers. *)

\* A descriptor that something holds is of an open socket.
LEMMA HeldIsOpen ==
  ASSUME OwnersOK
  PROVE  /\ \A w \in Watchers : fd[w] # NoFd => fd[w] \in Fds /\ sock[fd[w]] \in Sockets /\ sock[fd[w]].st # "none"
         /\ \A op \in AcceptOps : accept_fd[op] # NoFd =>
              accept_fd[op] \in Fds /\ sock[accept_fd[op]] \in Sockets /\ sock[accept_fd[op]].st # "none"
<1>1. /\ \A w \in Watchers : <<"fd", w>> \in Holders /\ Held(<<"fd", w>>) = fd[w]
      /\ \A op \in AcceptOps : <<"op", op>> \in Holders /\ Held(<<"op", op>>) = accept_fd[op]
  BY DEF Holders, Held
<1>2. \A x \in Holders : Held(x) # NoFd => Held(x) \in Open
  BY DEF OwnersOK
<1>3. \A f \in Open : f \in Fds /\ sock[f] \in Sockets /\ sock[f].st # "none"
  BY DEF Open, OwnersOK, FdsTyped
<1> QED
  BY <1>1, <1>2, <1>3

\* An operation completes, with what it does to the socket.
LEMMA CompleteStep ==
  ASSUME IInv, NEW o \in inflight, NEW r, Complete(o, r), OwnersOK',
         UNCHANGED <<reg, pending_ops, loopVars, stack, watcherVars, tcpVars>>
  PROVE  IInv'
<1>1. UNCHANGED <<ready, orphans, created, closed, fd, attached, accept_fd, streams, stack>>
  BY DEF loopVars, watcherVars, attachedVars, tcpVars
<1>2. /\ QueuesOK /\ LinksOK /\ OpsOK /\ Grows /\ o.ov \in Overlappeds /\ o.fd \in Fds
      /\ IsStack(port) /\ IsFiniteSet(inflight)
  BY <1>1 DEF IInv, LinksOK, Grows, QueuesOK
<1>3. Calm(stack, stack')
  BY <1>1, CalmForms DEF IInv
<1>4. inflight' = inflight \ {o} /\ inflight' \subseteq inflight
  BY DEF Complete
<1>5. IsStack(port') /\ \A i \in 1 .. Len(port') : port'[i].ov \in Overlappeds
  <2>1. CASE UNCHANGED port
    BY <1>2, <2>1 DEF QueuesOK
  <2>2. CASE port' = Append(port, Packet(o.fd, o.ov))
    <3> DEFINE x == Packet(o.fd, o.ov)
    <3>1. port' = Append(port, x) /\ x.ov \in Overlappeds
      BY <1>2, <2>2 DEF Packet
    <3> HIDE DEF x
    <3>2. /\ IsStack(port') /\ Len(port) \in Nat /\ Len(port') = Len(port) + 1 /\ port'[Len(port) + 1] = x
          /\ \A i \in 1 .. Len(port) : port'[i] = port[i]
      BY <1>2, <3>1, Appended
    <3>3. \A i \in 1 .. Len(port') : i = Len(port) + 1 \/ i \in 1 .. Len(port)
      BY <3>2
    <3> QED
      BY <1>2, <3>1, <3>2, <3>3 DEF QueuesOK
  <2> QED
    BY <2>1, <2>2 DEF Complete
<1>6. QueuesOK'
  <2>1. IsFiniteSet(inflight')
    BY <1>2, <1>4, FS_Subset
  <2> QED
    BY <1>1, <1>2, <1>4, <1>5, <2>1 DEF QueuesOK
<1>7. OpInv(o.ov)'
  BY <1>1, <1>2, OpCompleted DEF OpsOK
<1>8. ASSUME NEW u \in Overlappeds, u # o.ov PROVE OpInv(u)'
  <2>1. OpInv(u) /\ OwnerKept(u) /\ StackKept(u)
    BY <1>2, <1>3, GrownOwner, KeptCalm DEF OpsOK
  <2>2. u \in AcceptOps /\ Out(u) => accept_fd'[u] # NoFd
    BY <1>1, <2>1 DEF OpInv
  <2>3. Same(u) /\ (u \in lost' <=> u \in lost) /\ (u \in busy' <=> u \in busy)
    BY <1>1, <1>2, <1>8, OthersCompleted
  <2> QED
    BY <2>1, <2>2, <2>3, OpKept
<1>9. OpsOK'
  BY <1>7, <1>8 DEF OpsOK
<1>10. LinksOK'
  BY <1>1, <1>2, <1>3, CalmTokens, LinksKept
<1> QED
  BY <1>2, <1>3, <1>6, <1>9, <1>10, StackStays DEF IInv, Calm

\* The kernel completes an operation: a connect, an accept, a receive, a send.
LEMMA KernelStep == ASSUME IInv, Kernel PROVE IInv'
<1>1. UNCHANGED <<reg, pending_ops, loopVars, stack, watcherVars, tcpVars>>
  BY DEF Kernel
<1>2. PICK o \in inflight : ConnectOp(o) \/ RecvOp(o) \/ SendOp(o) \/ AcceptOp(o)
  BY DEF Kernel
<1>3. /\ OwnersOK /\ o.ov \in Overlappeds /\ o.ov[1] \in Watchers /\ fd[o.ov[1]] = o.fd /\ o.fd \in Fds
      /\ OpInv(o.ov)
  BY PortAssumption DEF IInv, QueuesOK, OpsOK
<1>4. o.fd # NoFd /\ sock[o.fd] \in Sockets /\ sock[o.fd].st # "none" /\ sock \in [Fds -> Sockets]
  BY <1>3, HeldIsOpen, CoreAssumption DEF OwnersOK, FdsTyped
<1>5. UNCHANGED <<fd, accept_fd, streams>>
  BY <1>1 DEF watcherVars, tcpVars
<1>6. \E r : Complete(o, r)
  BY <1>2 DEF ConnectOp, RecvOp, SendOp, AcceptOp
<1>7. SameOpen
  <2>1. CASE UNCHANGED sock
    BY <1>4, <2>1 DEF SameOpen, Open
  <2>2. CASE sock' = [sock EXCEPT ![o.fd].st = "up"]
    <3> DEFINE r == [sock[o.fd] EXCEPT !.st = "up"]
    <3>1. sock' = [sock EXCEPT ![o.fd] = r]
      BY <2>2
    <3>2. r \in Sockets /\ r.st # "none"
      BY <1>4 DEF Sockets
    <3> HIDE DEF r
    <3> QED
      BY <1>4, <3>1, <3>2, SocketChanges
  <2>3. CASE sock[o.fd].rx > 0 /\ sock' = [sock EXCEPT ![o.fd].rx = @ - 1]
    <3> DEFINE r == [sock[o.fd] EXCEPT !.rx = @ - 1]
    <3>1. sock' = [sock EXCEPT ![o.fd] = r]
      BY <2>3
    <3>2. r \in Sockets /\ r.st # "none"
      BY <1>4, <2>3 DEF Sockets
    <3> HIDE DEF r
    <3> QED
      BY <1>4, <3>1, <3>2, SocketChanges
  <2>4. CASE /\ o.ov[1] \in Accepts /\ sock[o.fd].rx > 0
             /\ sock' = [sock EXCEPT ![o.fd].rx = @ - 1, ![accept_fd[o.ov]].st = "up"]
    <3> DEFINE g == accept_fd[o.ov]
               r == [sock[o.fd] EXCEPT !.rx = @ - 1]
               q == [sock[g] EXCEPT !.st = "up"]
    <3>1. o.ov \in AcceptOps
      BY <1>3, <2>4, AcceptUntouched
    <3>2. g # NoFd
      <4>1. Out(o.ov)
        BY DEF Out, InKernel
      <4> QED
        BY <1>3, <3>1, <4>1 DEF OpInv
    <3>3. g \in Fds /\ sock[g] \in Sockets /\ sock[g].st # "none"
      BY <1>3, <3>1, <3>2, HeldIsOpen
    <3>4. g # o.fd
      <4>1. <<"fd", o.ov[1]>> \in Holders /\ Held(<<"fd", o.ov[1]>>) = o.fd
        BY <1>3 DEF Holders, Held
      <4>2. <<"op", o.ov>> \in Holders /\ Held(<<"op", o.ov>>) = g
        BY <3>1 DEF Holders, Held
      <4>3. <<"fd", o.ov[1]>> # <<"op", o.ov>>
        OBVIOUS
      <4> QED
        BY <1>3, <1>4, <4>1, <4>2, <4>3 DEF OwnersOK
    <3>5. r \in Sockets /\ r.st # "none" /\ q \in Sockets /\ q.st # "none"
      BY <1>4, <2>4, <3>3 DEF Sockets
    <3>6. sock' = [[sock EXCEPT ![o.fd] = r] EXCEPT ![g] = q]
      BY <1>3, <1>4, <2>4, <3>3, <3>4
    <3> HIDE DEF g, r, q
    <3>7. \A f \in Fds : sock'[f] = IF f = g THEN q ELSE IF f = o.fd THEN r ELSE sock[f]
      BY <1>3, <1>4, <3>3, <3>6
    <3>8. sock' \in [Fds -> Sockets]
      BY <1>4, <3>3, <3>5, <3>6
    <3>9. \A f \in Fds : sock'[f].st = "none" <=> sock[f].st = "none"
      BY <1>4, <3>3, <3>5, <3>7
    <3> QED
      BY <3>8, <3>9 DEF SameOpen, Open
  <2> QED
    BY <1>2, <2>1, <2>2, <2>3, <2>4 DEF ConnectOp, RecvOp, SendOp, AcceptOp
<1>8. OwnersOK'
  BY <1>3, <1>5, <1>7, OwnersUnchanged
<1> QED
  BY <1>1, <1>6, <1>8, CompleteStep

\* The peers send, end, or reset: no socket is opened or closed by that.
LEMMA PeerStep == ASSUME IInv, Peer PROVE IInv'
<1>1. UNCHANGED <<inflight, port, ready, lost, busy, accept_fd, created, closed, orphans, streams, fd, attached, stack>>
  BY DEF Peer, loopVars, watcherVars, attachedVars, portVars, tcpVars
<1>2. PICK w \in Accepts \cup Conns :
        /\ fd[w] # NoFd
        /\ \/ sock' = [sock EXCEPT ![fd[w]].rx = @ + 1]
           \/ sock' = [sock EXCEPT ![fd[w]].fin = TRUE]
           \/ sock' = [sock EXCEPT ![fd[w]] = [NoSocket EXCEPT !.st = "error"]]
  BY DEF Peer
<1> DEFINE f == fd[w]
<1>3. f \in Fds /\ sock[f] \in Sockets /\ sock[f].st # "none" /\ OwnersOK
  BY <1>2, IocpAssumption, HeldIsOpen DEF IInv
<1>4. \E r \in Sockets : r.st # "none" /\ sock' = [sock EXCEPT ![f] = r]
  <2>1. CASE sock' = [sock EXCEPT ![f].rx = @ + 1]
    <3>1. [sock[f] EXCEPT !.rx = @ + 1] \in Sockets /\ [sock[f] EXCEPT !.rx = @ + 1].st # "none"
      BY <1>3 DEF Sockets
    <3> QED
      BY <2>1, <3>1
  <2>2. CASE sock' = [sock EXCEPT ![f].fin = TRUE]
    <3>1. [sock[f] EXCEPT !.fin = TRUE] \in Sockets /\ [sock[f] EXCEPT !.fin = TRUE].st # "none"
      BY <1>3 DEF Sockets
    <3> QED
      BY <2>2, <3>1
  <2>3. CASE sock' = [sock EXCEPT ![f] = [NoSocket EXCEPT !.st = "error"]]
    BY <2>3, SocketKinds
  <2> QED
    BY <1>2, <2>1, <2>2, <2>3
<1> HIDE DEF f
<1>5. OwnersOK'
  BY <1>1, <1>3, <1>4, OpenChanges
<1>6. Calm(stack, stack')
  BY <1>1, CalmForms DEF IInv
<1> QED
  BY <1>1, <1>5, <1>6, CalmStep

\* The user drops a stream that on_accept or on_connected gave.
LEMMA StreamDropped == ASSUME IInv, DropStream PROVE IInv'
<1>1. UNCHANGED <<inflight, port, ready, lost, busy, accept_fd, created, closed, orphans, fd, attached, stack>>
  BY DEF DropStream, loopVars, watcherVars, attachedVars, portVars
<1>2. PICK f \in streams : streams' = streams \ {f} /\ sock' = [sock EXCEPT ![f] = NoSocket]
  BY DEF DropStream
<1>3. OwnersOK /\ FdsTyped
  BY DEF IInv, OwnersOK
<1>4. Closed({f})
  <2>1. sock' = Shut({f})
    BY <1>2, <1>3 DEF Shut, FdsTyped
  <2> QED
    BY <1>3, <2>1, SocketsClose DEF FdsTyped
<1>5. OwnersOK'
  BY <1>1, <1>2, <1>3, <1>4, StreamCloses
<1>6. Calm(stack, stack')
  BY <1>1, CalmForms DEF IInv
<1> QED
  BY <1>1, <1>5, <1>6, CalmStep

----------------------------------------------------------------------------
(* The loop. *)

\* The stack when the worker polls.
LEMMA EmptyStack == StackOK(<<>>) /\ IsStack(<<>>) /\ Len(<<>>) = 0
<1>1. <<>> \in Seq({}) /\ Len(<<>>) = 0
  OBVIOUS
<1> QED
  BY <1>1 DEF StackOK, IsStack

\* The frame of the dispatch has no OVERLAPPED.
LEMMA DispatchClaims ==
  ASSUME NEW f, f.at = "dispatch"
  PROVE  /\ GoodFrame(f)
         /\ \A u \in Overlappeds : <<"op", u>> \notin Claims(f) /\ <<"wait", u>> \notin Claims(f)
         /\ \A c \in Connects : Connecting(c) \notin Claims(f)
         /\ f.w = Worker => Dispatching \in Claims(f)
BY PlainFrame, ClaimFacts DEF GoodFrame, Connecting, Dispatching

\* The stack when the port is asked.
LEMMA StackBegins ==
  ASSUME StackOK(stack), \A x : ~In(stack, x) /\ Once(stack, x),
         NEW f, GoodFrame(f), stack' = <<f>> \o stack,
         \A u \in Overlappeds : <<"op", u>> \notin Claims(f) /\ <<"wait", u>> \notin Claims(f)
  PROVE  /\ StackOK(stack') /\ \A x : In(stack', x) <=> x \in Claims(f)
         /\ \A u \in Overlappeds : StackKept(u)
<1>1. IsStack(stack)
  BY DEF StackOK
<1>2. StackOK(stack')
  BY StackPushed
<1>3. \A x : (In(stack', x) <=> x \in Claims(f)) /\ Once(stack', x)
  BY <1>1, InPushed
<1> QED
  BY <1>2, <1>3 DEF StackKept

\* A task of the worker begins;
LEMMA TaskStep == ASSUME IInv, RunTask, UNCHANGED <<portVars, tcpVars>> PROVE IInv'
<1>1. UNCHANGED <<inflight, port, ready, lost, busy, accept_fd, created, closed, orphans, fd, attached, sock, streams>>
  BY DEF RunTask, loopVars, watcherVars, attachedVars, portVars, tcpVars
<1>2. stack = <<>> /\ stack' = <<Calls("task", Worker)>>
  BY DEF RunTask
<1>3. stack' = <<Calls("task", Worker)>> \o stack
  BY <1>2
<1>4. Calm(stack, stack')
  BY <1>3, CalmPushed, PlainCalls DEF IInv, Callbacks
<1>5. OwnersOK'
  BY <1>1, OwnersSame DEF IInv
<1> QED
  BY <1>1, <1>4, <1>5, CalmStep

\* a callback, or a task, returns;
LEMMA ReturnStep == ASSUME IInv, UserReturns, UNCHANGED <<portVars, tcpVars>> PROVE IInv'
<1>1. UNCHANGED <<inflight, port, ready, lost, busy, accept_fd, created, closed, orphans, fd, attached, sock, streams>>
  BY DEF UserReturns, loopVars, watcherVars, attachedVars, portVars, tcpVars
<1>2. stack # <<>> /\ stack' = Tail(stack) /\ Head(stack).at \in Callbacks
  BY DEF UserReturns, InUser, Rest
<1>3. Plain(Head(stack))
  BY <1>2, StackPopped DEF IInv, Plain, Callbacks
<1>4. Calm(stack, stack')
  BY <1>2, <1>3, CalmPopped DEF IInv
<1>5. OwnersOK'
  BY <1>1, OwnersSame DEF IInv
<1> QED
  BY <1>1, <1>4, <1>5, CalmStep

\* the deferred changes are made.
LEMMA ChangesApplied == ASSUME IInv, applyPendingChanges, UNCHANGED <<portVars, tcpVars>> PROVE IInv'
<1>1. OwnersOK /\ FdsTyped /\ QueuesOK /\ LinksOK /\ OpsOK /\ StackOK(stack)
  BY DEF IInv, OwnersOK
<1>2. /\ At("dispatch", Worker) /\ stack # <<>> /\ ready = {} /\ stack' = Rest
      /\ UNCHANGED <<inflight, port, ready, lost, busy, accept_fd, created, closed, attached, streams>>
      /\ orphans' = {}
  BY DEF applyPendingChanges, At, attachedVars, portVars, tcpVars
<1>3. UNCHANGED <<sock, fd>>
  <2>1. orphans = {} /\ OrphanFds = {}
    BY <1>1 DEF LinksOK, OrphanFds
  <2>2. sock' = [f \in Fds |-> sock[f]] /\ fd' = [w \in Watchers |-> fd[w]]
    BY <2>1 DEF applyPendingChanges, Shut
  <2> QED
    BY <1>1, <2>2 DEF FdsTyped
<1>4. Calm(Rest, stack') /\ StackOK(stack') /\ Grows
  BY <1>1, <1>2, StackPopped, CalmForms DEF Rest, LinksOK, Grows
<1>5. /\ \A u \in Overlappeds : <<"wait", u>> \notin Claims(Head(stack))
      /\ \A c \in Connects : Connecting(c) \notin Claims(Head(stack))
  BY <1>2, DispatchClaims DEF At
<1>6. \A u \in Overlappeds : StackKept(u)
  BY <1>1, <1>2, <1>4, <1>5, KeptByPop
<1>7. \A c \in Connects : In(stack, Connecting(c)) => In(stack', Connecting(c))
  BY <1>1, <1>2, <1>4, <1>5, TokenKinds, HeadPopped
<1>8. OpsOK'
  BY <1>1, <1>2, <1>4, <1>6, OpsKept
<1>9. OwnersOK'
  BY <1>1, <1>2, <1>3, OwnersSame
<1>10. QueuesOK'
  BY <1>1, <1>2, <1>3 DEF QueuesOK
<1>11. LinksOK'
  BY <1>1, <1>2, <1>3, <1>7 DEF LinksOK
<1> QED
  BY <1>4, <1>8, <1>9, <1>10, <1>11, StackStays DEF IInv

\* The event of the packet i.
Taken(i) == [n |-> i, key |-> port[i].key, ov |-> port[i].ov]

\* The packets of the port become the events of the dispatch.
LEMMA WaitStep == ASSUME IInv, IocpWait, UNCHANGED tcpVars PROVE IInv'
<1>1. OwnersOK /\ QueuesOK /\ LinksOK /\ OpsOK
  BY DEF IInv
<1>2. /\ stack = <<>> /\ stack' = <<Calls("dispatch", Worker)>> /\ port' = <<>>
      /\ ready' = {[n |-> i, key |-> port[i].key, ov |-> port[i].ov] : i \in 1 .. Len(port)}
      /\ UNCHANGED <<inflight, lost, busy, accept_fd, created, closed, orphans, fd, attached, sock, streams>>
  BY DEF IocpWait, watcherVars, attachedVars, tcpVars
<1>3. LET f == Calls("dispatch", Worker)
      IN  /\ GoodFrame(f) /\ \A u \in Overlappeds : <<"op", u>> \notin Claims(f) /\ <<"wait", u>> \notin Claims(f)
          /\ Dispatching \in Claims(f)
  BY DispatchClaims DEF Calls, Frame
<1>4. /\ StackOK(stack') /\ \A x : ~In(stack, x)
      /\ \A u \in Overlappeds : StackKept(u) /\ ~In(stack', <<"op", u>>) /\ ~In(stack', <<"wait", u>>)
      /\ In(stack', Dispatching)
  <2> DEFINE f == Calls("dispatch", Worker)
  <2> HIDE DEF f
  <2>1. stack' = <<f>> \o stack /\ GoodFrame(f) /\ Dispatching \in Claims(f)
        /\ \A u \in Overlappeds : <<"op", u>> \notin Claims(f) /\ <<"wait", u>> \notin Claims(f)
    BY <1>2, <1>3 DEF f
  <2>2. StackOK(stack) /\ \A x : ~In(stack, x) /\ Once(stack, x)
    BY <1>2, EmptyStack, InNone
  <2> QED
    BY <2>1, <2>2, StackBegins
<1>5. ready = {}
  BY <1>1, <1>4 DEF QueuesOK
<1>6. /\ \A e \in ready' : \E i \in 1 .. Len(port) : e = Taken(i)
      /\ \A i \in 1 .. Len(port) : Taken(i) \in ready'
      /\ \A i \in 1 .. Len(port) : Taken(i).ov = port[i].ov
  BY <1>2 DEF Taken
<1>7. Grows /\ Len(port') = 0 /\ IsStack(port') /\ 1 .. 0 = {}
  BY <1>1, <1>2, EmptyStack DEF LinksOK, Grows
<1>8. QueuesOK'
  BY <1>1, <1>2, <1>4, <1>6, <1>7 DEF QueuesOK
<1>9. LinksOK'
  BY <1>1, <1>2, <1>4 DEF LinksOK
<1>10. ASSUME NEW u \in Overlappeds PROVE OpInv(u)'
  <2>1. OpInv(u) /\ Single(u) /\ OwnerKept(u) /\ ~In(stack, <<"wait", u>>)
    BY <1>1, <1>4, <1>7, GrownOwner DEF OpsOK, OpInv
  <2>2. InKernel(u)' <=> InKernel(u)
    BY <1>2 DEF InKernel
  <2>3. ~InPort(u)' /\ ~InReady(u)
    BY <1>5, <1>7 DEF InPort, InReady
  <2>4. InReady(u)' <=> InPort(u)
    BY <1>6 DEF InReady, InPort
  <2>5. \A d, e \in ready' : d.ov = u /\ e.ov = u => d = e
    BY <1>6, <2>1 DEF Single
  <2>6. Once(stack', <<"op", u>>) /\ ~In(stack', <<"op", u>>) /\ ~In(stack', <<"wait", u>>)
    BY <1>4, <2>1 DEF StackKept, Single
  <2>7. Single(u)'
    BY <1>2, <1>7, <2>1, <2>2, <2>3, <2>4, <2>5, <2>6 DEF Single
  <2>8. Out(u)' <=> Out(u)
    BY <2>1, <2>2, <2>3, <2>4, <2>6 DEF Out
  <2> QED
    BY <1>2, <2>1, <2>7, <2>8 DEF OpInv
<1>11. OpsOK'
  BY <1>10 DEF OpsOK
<1>12. OwnersOK'
  BY <1>1, <1>2, OwnersSame
<1> QED
  BY <1>4, <1>7, <1>8, <1>9, <1>11, <1>12, StackStays DEF IInv

\* An event is dispatched to a source, or to none.
LEMMA DispatchStep == ASSUME IInv, IocpDispatch, UNCHANGED tcpVars PROVE IInv'
<1>1. OwnersOK /\ QueuesOK /\ LinksOK /\ OpsOK /\ StackOK(stack) /\ IsStack(stack)
  BY DEF IInv, StackOK
<1>2. UNCHANGED <<inflight, port, busy, accept_fd, created, closed, orphans, fd, attached, sock, streams>>
  BY DEF IocpDispatch, watcherVars, attachedVars, tcpVars
<1>3. PICK e \in ready :
        /\ ready' = ready \ {e}
        /\ \/ lost' = lost \cup {e.ov} /\ UNCHANGED stack
           \/ (\E s \in Matching(e) : stack' = <<Frame("ready", s.w, 0, {e.ov})>> \o stack) /\ UNCHANGED lost
  BY DEF IocpDispatch
<1> DEFINE ov == e.ov
<1>4. ov \in Overlappeds /\ OpInv(ov) /\ Single(ov) /\ InReady(ov) /\ Out(ov)
  BY <1>1, <1>3 DEF QueuesOK, OpsOK, OpInv, InReady, Out
<1>5. ~InKernel(ov) /\ ~InPort(ov) /\ ~In(stack, <<"op", ov>>) /\ ~In(stack, <<"wait", ov>>) /\ ov \notin lost
  BY <1>4, WaitIsOp DEF Single, OpInv
<1>6. /\ ~InKernel(ov)' /\ ~InPort(ov)' /\ ~InReady(ov)'
  BY <1>2, <1>3, <1>4, <1>5 DEF InKernel, InPort, InReady, Single
<1>7. \A u \in Overlappeds \ {ov} : Same(u)
  BY <1>2, <1>3 DEF Same, SameKernel, SamePort, SameReady
<1>8. Grows /\ OwnersOK'
  BY <1>1, <1>2, OwnersSame DEF LinksOK, Grows
<1>9. /\ StackOK(stack')
      /\ In(stack, Dispatching) => In(stack', Dispatching)
      /\ \A c \in Connects : In(stack, Connecting(c)) => In(stack', Connecting(c))
      /\ \A u \in Overlappeds \ {ov} : StackKept(u)
      /\ Once(stack', <<"op", ov>>)
      /\ \/ ~In(stack', <<"op", ov>>) /\ ~In(stack', <<"wait", ov>>) /\ lost' = lost \cup {ov}
         \/ In(stack', <<"wait", ov>>) /\ UNCHANGED lost
  <2>1. CASE lost' = lost \cup {ov} /\ UNCHANGED stack
    <3>1. \A u \in Overlappeds : StackKept(u)
      BY <2>1 DEF StackKept
    <3> QED
      BY <1>1, <1>4, <1>5, <2>1, <3>1 DEF Single
  <2>2. CASE (\E s \in Matching(e) : stack' = <<Frame("ready", s.w, 0, {e.ov})>> \o stack) /\ UNCHANGED lost
    <3>1. PICK s \in Matching(e) : stack' = <<Frame("ready", s.w, 0, {e.ov})>> \o stack
      BY <2>2
    <3> DEFINE f == Frame("ready", s.w, 0, {e.ov})
    <3>2. f.at = "ready" /\ f.ev = {ov}
      BY DEF Frame
    <3>3. stack' = <<f>> \o stack
      BY <3>1
    <3> HIDE DEF f, ov
    <3>4. FrameClaims(f, {ov}, {ov}, {}) /\ GoodFrame(f)
      BY <1>4, <3>2, ReadyClaims DEF GoodFrame
    <3>5. StackOK(stack')
      BY <1>1, <3>3, <3>4, StackPushed
    <3>6. \A x : /\ In(stack', x) <=> x \in Claims(f) \/ In(stack, x)
                 /\ Once(stack', x) <=> Once(stack, x) /\ ~(x \in Claims(f) /\ In(stack, x))
      BY <1>1, <3>3, InPushed
    <3>7. \A u \in Overlappeds \ {ov} : StackKept(u)
      BY <3>4, <3>6 DEF FrameClaims, StackKept
    <3>8. In(stack', <<"wait", ov>>) /\ Once(stack', <<"op", ov>>)
      BY <1>4, <1>5, <3>4, <3>6 DEF FrameClaims, Single
    <3> QED
      BY <2>2, <3>5, <3>6, <3>7, <3>8
  <2> QED
    BY <1>3, <2>1, <2>2
<1>10. QueuesOK'
  BY <1>1, <1>2, <1>3, <1>9 DEF QueuesOK
<1>11. LinksOK'
  BY <1>1, <1>2, <1>9, LinksKept
<1>12. OpInv(ov)'
  <2>1. /\ OwnerKept(ov)
        /\ \A o, p \in inflight' : o.ov = ov /\ p.ov = ov => o = p
        /\ \A i, j \in 1 .. Len(port') : port'[i].ov = ov /\ port'[j].ov = ov => i = j
        /\ \A d, c \in ready' : d.ov = ov /\ c.ov = ov => d = c
    BY <1>2, <1>3, <1>4, <1>8, GrownOwner DEF Single
  <2>2. Single(ov)'
    BY <1>6, <1>9, <2>1 DEF Single
  <2>3. Out(ov)' <=> In(stack', <<"wait", ov>>)
    BY <1>6 DEF Out
  <2> QED
    BY <1>2, <1>4, <1>5, <1>9, <2>1, <2>2, <2>3, WaitIsOp DEF OpInv
<1>13. ASSUME NEW u \in Overlappeds \ {ov} PROVE OpInv(u)'
  <2>1. OpInv(u) /\ OwnerKept(u) /\ StackKept(u) /\ Same(u)
    BY <1>1, <1>7, <1>8, <1>9, GrownOwner DEF OpsOK
  <2>2. u \in AcceptOps /\ Out(u) => accept_fd'[u] # NoFd
    BY <1>2, <2>1 DEF OpInv
  <2>3. (u \in lost' <=> u \in lost) /\ (u \in busy' <=> u \in busy)
    BY <1>2, <1>9
  <2> QED
    BY <2>1, <2>2, <2>3, OpKept
<1>14. OpsOK'
  BY <1>12, <1>13 DEF OpsOK
<1> QED
  BY <1>8, <1>9, <1>10, <1>11, <1>14, StackStays DEF IInv

\* The invariant holds initially,
LEMMA IInvInit == Init => IInv
<1> SUFFICES ASSUME Init PROVE IInv
  OBVIOUS
<1>1. /\ inflight = {} /\ port = <<>> /\ ready = {} /\ busy = {} /\ lost = {} /\ stack = <<>>
      /\ streams = {} /\ created = {} /\ closed = {} /\ attached = {} /\ orphans = {}
      /\ sock = [f \in Fds |-> NoSocket] /\ fd = [w \in Watchers |-> NoFd]
      /\ accept_fd = [op \in AcceptOps |-> NoFd]
  BY DEF Init, PortInit, TcpInit
<1>2. /\ FdsTyped /\ Open = {} /\ \A x \in Holders : Held(x) = NoFd
  <2>1. FdsTyped
    BY <1>1, SocketKinds DEF FdsTyped
  <2>2. Open = {}
    BY <1>1, SocketKinds DEF Open
  <2>3. \A x \in Holders : Held(x) = NoFd
    BY <1>1 DEF Holders, Held
  <2> QED
    BY <2>1, <2>2, <2>3
<1>3. OwnersOK
  BY <1>1, <1>2 DEF OwnersOK
<1>4. StackOK(stack) /\ IsStack(port) /\ Len(port) = 0 /\ Len(stack) = 0 /\ 1 .. 0 = {}
  BY <1>1, EmptyStack
<1>5. IsFiniteSet(inflight)
  BY <1>1, FS_EmptySet
<1>6. QueuesOK
  BY <1>1, <1>4, <1>5 DEF QueuesOK
<1>7. LinksOK
  BY <1>1, IocpAssumption DEF LinksOK
<1>8. ASSUME NEW ov \in Overlappeds PROVE OpInv(ov)
  <2>1. ~In(stack, <<"op", ov>>) /\ ~In(stack, <<"wait", ov>>) /\ Once(stack, <<"op", ov>>)
    BY <1>1, InNone
  <2>2. ~InKernel(ov) /\ ~InPort(ov) /\ ~InReady(ov)
    BY <1>1, <1>4 DEF InKernel, InPort, InReady
  <2>3. Single(ov) /\ ~Out(ov)
    BY <1>1, <1>4, <2>1, <2>2 DEF Single, Out
  <2> QED
    BY <1>1, <2>3 DEF OpInv
<1> QED
  BY <1>3, <1>4, <1>6, <1>7, <1>8 DEF IInv, OpsOK

\* every step keeps it, up to a start() that comes too early,
LEMMA IInvStep == ASSUME IInv, [Next]_vars, ~restarted_early' PROVE IInv'
<1>1. CASE Thread
  <2>1. CASE IocpDispatch /\ UNCHANGED tcpVars
    BY <2>1, DispatchStep
  <2>2. CASE applyPendingChanges /\ UNCHANGED <<portVars, tcpVars>>
    BY <2>2, ChangesApplied
  <2>3. CASE \E c \in Connects : IocpTcpConnectWatcher(c)
    BY <2>3, ConnectStep
  <2>4. CASE \E a \in Accepts : IocpTcpAcceptWatcher(a)
    BY <2>4, AcceptStep
  <2>5. CASE \E k \in Conns : IocpTcpConnectionWatcher(k)
    BY <2>5, ConnStep
  <2> QED
    BY <1>1, <2>1, <2>2, <2>3, <2>4, <2>5 DEF Thread
<1>2. CASE Others
  <2>1. CASE Poll
    BY <2>1, WaitStep DEF Poll
  <2>2. CASE Return
    BY <2>2, ReturnStep DEF Return
  <2>3. CASE DropStream
    BY <2>3, StreamDropped
  <2>4. CASE Kernel
    BY <2>4, KernelStep
  <2>5. CASE Peer
    BY <2>5, PeerStep
  <2>6. CASE Task
    BY <2>6, TaskStep DEF Task
  <2> QED
    BY <1>2, <2>1, <2>2, <2>3, <2>4, <2>5, <2>6 DEF Others
<1>3. CASE UNCHANGED vars
  <2>1. UNCHANGED <<inflight, port, ready, lost, busy, accept_fd, created, closed, orphans, fd, attached, sock, streams, stack>>
    BY <1>3 DEF vars, coreVars, portVars, tcpVars, loopVars, watcherVars, attachedVars
  <2>2. Calm(stack, stack') /\ OwnersOK'
    BY <2>1, CalmForms, OwnersSame DEF IInv
  <2> QED
    BY <2>1, <2>2, CalmStep
<1> QED
  BY <1>1, <1>2, <1>3 DEF Next, NotFollowed

\* which stays known,
LEMMA EarlyStays == restarted_early /\ [Next]_vars => restarted_early'
BY DEF Next, NotFollowed, vars

\* and so it always holds until then.
UpToRestart == ~restarted_early => IInv
LEMMA Inductive == Spec => []UpToRestart
<1>1. Init => UpToRestart
  BY IInvInit DEF UpToRestart
<1>2. UpToRestart /\ [Next]_vars => UpToRestart'
  BY IInvStep, EarlyStays DEF UpToRestart
<1> QED
  BY <1>1, <1>2, PTL DEF Spec

----------------------------------------------------------------------------
\* Elements that are all the same are one at most.
LEMMA AtMostOne ==
  ASSUME NEW S, \A x, y \in S : x = y
  PROVE  (Cardinality(S) = 0 /\ S = {}) \/ (Cardinality(S) = 1 /\ S # {})
<1>1. CASE S = {}
  BY <1>1, FS_EmptySet
<1>2. CASE S # {}
  <2>1. PICK x : S = {x}
    BY <1>2
  <2> QED
    BY <1>2, <2>1, FS_Singleton
<1> QED
  BY <1>1, <1>2

\* With the holders of an OVERLAPPED apart, the counts of OverlappedsExact are at most one.
LEMMA Exact == UpToRestart => OverlappedsExact
<1> SUFFICES ASSUME IInv, NEW ov \in Overlappeds
             PROVE  /\ Cardinality({o \in inflight : o.ov = ov})
                         + Cardinality({i \in 1 .. Len(port) : port[i].ov = ov})
                         + Cardinality({e \in ready : e.ov = ov}) <= 1
                    /\ ov[1] \in created \ closed =>
                         (ov \in busy <=> Outstanding(ov) \/ ov \in lost)
  BY DEF OverlappedsExact, UpToRestart
<1>1. OpInv(ov) /\ Single(ov)
  BY DEF IInv, OpsOK, OpInv
<1> DEFINE K == {o \in inflight : o.ov = ov}
           P == {i \in 1 .. Len(port) : port[i].ov = ov}
           R == {e \in ready : e.ov = ov}
<1>2. (Cardinality(K) = 0 /\ K = {}) \/ (Cardinality(K) = 1 /\ K # {})
  <2>1. \A x, y \in K : x = y
    BY <1>1 DEF Single
  <2> HIDE DEF K
  <2> QED
    BY <2>1, AtMostOne
<1>3. (Cardinality(P) = 0 /\ P = {}) \/ (Cardinality(P) = 1 /\ P # {})
  <2>1. \A x, y \in P : x = y
    BY <1>1 DEF Single
  <2> HIDE DEF P
  <2> QED
    BY <2>1, AtMostOne
<1>4. (Cardinality(R) = 0 /\ R = {}) \/ (Cardinality(R) = 1 /\ R # {})
  <2>1. \A x, y \in R : x = y
    BY <1>1 DEF Single
  <2> HIDE DEF R
  <2> QED
    BY <2>1, AtMostOne
<1>5. /\ K # {} => P = {} /\ R = {}
      /\ P # {} => R = {}
  BY <1>1 DEF Single, InKernel, InPort, InReady
<1>6. Cardinality(K) + Cardinality(P) + Cardinality(R) <= 1
  <2> HIDE DEF K, P, R
  <2> QED
    BY <1>2, <1>3, <1>4, <1>5
<1>7. Outstanding(ov) <=> Out(ov)
  <2>1. In(stack, <<"wait", ov>>) <=> \E i \in 1 .. Len(stack) : stack[i].at = "ready" /\ stack[i].ev = {ov}
    BY ClaimFacts DEF In, Waits
  <2> QED
    BY <2>1 DEF Outstanding, Queued, Out, InKernel, InPort, InReady
<1> QED
  BY <1>1, <1>6, <1>7 DEF OpInv

\* An OVERLAPPED is with one operation: one at most is with the kernel, on the port and among
\* the events of the dispatch together, whatever stop(), close(), the callbacks and a start()
\* after the last operations have ended do between its issue and its completion.  And
\* receiving_ and sending_ of an open connection are set exactly while the operation is
\* outstanding, or if its completion went unnoticed.  A start() of a connect or accept watcher
\* that comes before that, which the code lets pass, ends what is claimed.
THEOREM OperationsExact == Spec => []OverlappedsExact
BY Inductive, Exact, PTL

\* Each open socket is the fd_ of one watcher, the accept socket of one operation or a stream
\* given to the user, never of two of them, and each of those is open: none is closed twice,
\* and none is leaked, by any order of calls, completions and failures up to a start() that
\* comes before the last operations of its watcher have ended.
THEOREM HandlesOwned == Spec => []SocketOwnedOnce
<1>1. UpToRestart => SocketOwnedOnce
  BY OwnedOnce DEF IInv, UpToRestart, SocketOwnedOnce
<1> QED
  BY <1>1, Inductive, PTL
=============================================================================
