---------------------------- MODULE Chat_proofs ----------------------------
(***************************************************************************)
(* Proofs about the chat server, for every number of executors and         *)
(* clients: a coroutine is resumed by one party only, one chain sends on a *)
(* connection at a time, a session outlives its children, and a stream     *)
(* that is dropped has its watcher closed.  Each follows from the          *)
(* inductive invariant IInv of ChatSteps_proofs, which every step keeps.   *)
(***************************************************************************)
EXTENDS ChatSteps_proofs

----------------------------------------------------------------------------
(* The chains in sendAll(). *)

\* What a child has below the frame of sendAll().
Base(c, k) == On(Then(c), k, On("child done", k, <<>>))

\* The stack below the frame of sendAll().
LEMMA BaseIs ==
  ASSUME NEW k \in Clients, NEW c, c \in {writer(k), helper(k)}
  PROVE  /\ Base(c, k) \in Stack /\ Base(c, k) # <<>>
         /\ \A j : ~ Sends(Base(c, k), j)
         /\ StackOf(c, Base(c, k))
         /\ Head(Base(c, k)).at \in {"writer", "return"} /\ Head(Base(c, k)).on = k
<1>1. Then(c) \in {"writer", "return"} /\ Then(c) \in Labels
  BY CoroNames DEF Labels
<1>2. Base(c, k) \in Stack
  BY <1>1, Rests DEF Base
<1>3. StackOf(c, Base(c, k))
  BY NewSend DEF Base
<1>4. ASSUME NEW j PROVE ~ Sends(Base(c, k), j)
  <2>1. ~ Sends(On("writer", k, On("child done", k, <<>>)), j) /\ ~ Sends(On("return", k, On("child done", k, <<>>)), j)
    BY QuietRests
  <2> QED
    BY <1>1, <2>1 DEF Base
<1>5. Base(c, k) # <<>> /\ Head(Base(c, k)).at \in {"writer", "return"} /\ Head(Base(c, k)).on = k
  <2> DEFINE u == On("child done", k, <<>>)
             l == Then(c)
  <2>1. u \in Stack /\ l \in Labels /\ k \in Subjects /\ Base(c, k) = On(l, k, u) /\ l \in {"writer", "return"}
    BY <1>1, Rests, SubjectFacts DEF Base
  <2> HIDE DEF u, l
  <2>2. Base(c, k) # <<>> /\ Head(Base(c, k)).at = l /\ Head(Base(c, k)).on = k
    BY ONLY <2>1, OnHead
  <2> QED
    BY <2>1, <2>2
<1> QED
  BY <1>2, <1>3, <1>4, <1>5

\* A chain in sendAll() is the writer or the helper of a client.
LEMMA InSendIs ==
  ASSUME IInv, NEW e \in Execs, NEW c, c # None, NEW l \in InSend, At(e, c, l)
  PROVE  /\ c \in Coros /\ running[e] = c /\ hand[e] = None /\ c # Room /\ c # Main
         /\ \E k \in Clients : c \in {writer(k), helper(k)} /\ frames[c] = On(l, k, Base(c, k))
         /\ frames[c] # <<>> /\ Head(frames[c]).at = l
<1>1. /\ c \in Coros /\ running[e] = c /\ hand[e] = None /\ Where(c, l, frames[c])
      /\ frames[c] # <<>> /\ Head(frames[c]).at = l
  BY Here
<1>2. PICK k \in Clients : c \in {writer(k), helper(k)} /\ frames[c] = On(l, k, On(Then(c), k, On("child done", k, <<>>)))
  BY <1>1 DEF Where, InSend
<1>3. c # Room /\ c # Main
  BY <1>2, CoroNames
<1> QED
  BY <1>1, <1>2, <1>3 DEF Base

\* The steps of sendAll() on its stack.
LEMMA InSendSteps ==
  ASSUME NEW k \in Clients, NEW c, c \in {writer(k), helper(k)}, NEW l \in InSend, frames[c] = On(l, k, Base(c, k))
  PROVE  /\ Inner(c).on = k /\ Outer(c) = Base(c, k) /\ Tail(frames[c]) = Base(c, k)
         /\ \A m : <<Frame(m, k)>> \o Base(c, k) = On(m, k, Base(c, k))
<1>1. l \in Labels /\ k \in Subjects /\ Base(c, k) \in Stack
  BY BaseIs, SubjectFacts DEF InSend, Labels
<1>2. Head(frames[c]).on = k /\ Tail(frames[c]) = Base(c, k)
  BY <1>1, OnParts
<1> QED
  BY <1>2 DEF Inner, Outer, On

\* The chain that is between the lock and the unlock, or has been passed the lock, owns it.
LEMMA SenderOwns ==
  ASSUME NEW k \in Clients, NEW c, c \in {writer(k), helper(k)}, NEW l \in {"send", "send ready"},
         frames[c] = On(l, k, Base(c, k))
  PROVE  Owner(c, k)
<1>1. l \in Labels /\ k \in Subjects /\ Base(c, k) \in Stack
  BY BaseIs, SubjectFacts DEF Labels
<1>2. Sends(On(l, k, Base(c, k)), k)
  BY ONLY <1>1, SendsOn
<1> QED
  BY <1>2, SendingIsSends DEF Owner

\* A chain at "locked" that no longer waits has the lock.
LEMMA PassedOwns ==
  ASSUME NEW k \in Clients, NEW c, c \in {writer(k), helper(k)}, frames[c] = On("locked", k, Base(c, k)), NotLock(c)
  PROVE  Owner(c, k)
<1> DEFINE l == "locked"
<1>1. l \in Labels /\ k \in Subjects /\ Base(c, k) \in Stack
  BY BaseIs, SubjectFacts DEF Labels
<1>2. l = "locked" /\ frames[c] = On(l, k, Base(c, k))
  OBVIOUS
<1> HIDE DEF l
<1>3. frames[c] # <<>> /\ Head(frames[c]) = Frame(l, k)
  BY <1>1, <1>2, OnFacts
<1> QED
  BY <1>2, <1>3 DEF Owner, HeadIs, NotLock

\* The chain that owns the lock goes on sending.
LEMMA SendsOnKeeps ==
  ASSUME IInv, NEW e \in Execs, NEW c, running[e] = c, NEW k \in Clients, c \in {writer(k), helper(k)},
         frames' = [frames EXCEPT ![c] = On("send", k, Base(c, k))], Owner(c, k),
         UNCHANGED execVars,
         UNCHANGED <<queue, groupVars, watcher, send_locked, send_lock_waiters, timers, rr, chunks, roomVars>>,
         got' = [d \in Coros |-> got'[d]], got'[Room] = got[Room], got'[Main] = got[Main]
  PROVE  IInv'
<1> DEFINE t == Base(c, k)
           l == "send"
           s == On(l, k, t)
<1>1. c \in Coros /\ c # Main /\ c # Room /\ \A j \in Clients : c # session(j)
  BY CoroNames
<1>2. t \in Stack /\ l \in Labels /\ k \in Subjects /\ \A j : ~ Sends(t, j)
  BY BaseIs, SubjectFacts DEF Labels
<1>3. StackOf(c, s)
  BY NewSend DEF Base, InSend
<1>4. frames' = [frames EXCEPT ![c] = s]
  OBVIOUS
<1>5. l = "send"
  OBVIOUS
<1> HIDE DEF t, l
<1>6. s \in Stack /\ s # <<>> /\ Head(s).at = l
  BY ONLY <1>2, OnFacts
<1>7. \A j : Sends(s, j) => j = k
  <2> SUFFICES ASSUME NEW j, Sends(s, j) PROVE j = k
    OBVIOUS
  <2>1. (l \in {"send", "send ready"} /\ k = j) \/ Sends(t, j)
    BY <1>2, SendsOn
  <2> QED
    BY <1>2, <2>1
<1> HIDE DEF s
<1>8. \A j \in Clients : /\ Sends(s, j) => Owner(c, j)
                         /\ Head(s) # Frame("locked", j)
                         /\ c = session(j) /\ Head(s).at \in {"session", "session end", "joined"} => active[j] = 0
  <2>1. \A j \in Clients : Head(s) # Frame("locked", j)
    BY <1>5, <1>6, FrameFacts
  <2> QED
    BY <1>1, <1>7, <2>1
<1>9. c = Main => Head(s).at # "main" /\ queue[accepted].exec # NoExec
  BY <1>1
<1>10. GoesOn(e, c)
  BY DEF GoesOn
<1> QED
  BY <1>1, <1>3, <1>4, <1>6, <1>8, <1>9, <1>10, Walk

----------------------------------------------------------------------------
(* The steps of the chain that has the lock. *)

\* The chain that has been passed the lock goes on to send.
LEMMA LockPassedOnKeeps ==
  ASSUME IInv, NEW e \in Execs, NEW c, c # None, LockPassedOn(e, c), UNCHANGED roomVars
  PROVE  IInv'
<1>1. At(e, c, "locked") /\ "locked" \in InSend
  BY DEF LockPassedOn, InSend
<1>2. c \in Coros /\ running[e] = c
  BY <1>1, InSendIs
<1>3. PICK k \in Clients : c \in {writer(k), helper(k)} /\ frames[c] = On("locked", k, Base(c, k))
  BY <1>1, InSendIs
<1>4. Inner(c).on = k /\ Outer(c) = Base(c, k) /\ <<Frame("send", k)>> \o Base(c, k) = On("send", k, Base(c, k))
  BY <1>1, <1>3, InSendSteps
<1>5. frames' = [frames EXCEPT ![c] = On("send", k, Base(c, k))]
  BY <1>4 DEF LockPassedOn, Locked, Goto
<1>6. Owner(c, k)
  BY <1>2, <1>3, Alone, PassedOwns DEF IInv
<1>7. send_locked' = send_locked
  BY <1>2, <1>4, <1>6 DEF LockPassedOn, Locked, IInv, Locks
<1>8. UNCHANGED execVars
      /\ UNCHANGED <<queue, groupVars, watcher, send_locked, send_lock_waiters, timers, rr, chunks, roomVars>>
      /\ got' = [d \in Coros |-> got'[d]] /\ got'[Room] = got[Room] /\ got'[Main] = got[Main]
  BY <1>7 DEF LockPassedOn, IInv, Typed
<1> QED
  BY <1>2, <1>3, <1>5, <1>6, <1>8, SendsOnKeeps

\* The socket takes data again.
LEMMA SendReadyKeeps ==
  ASSUME IInv, NEW e \in Execs, NEW c, c # None, SendReady(e, c), got[c] # None, UNCHANGED roomVars
  PROVE  IInv'
<1>1. At(e, c, "send ready") /\ "send ready" \in InSend
  BY DEF SendReady, InSend
<1>2. c \in Coros /\ running[e] = c /\ c # Room /\ c # Main
  BY <1>1, InSendIs
<1>3. PICK k \in Clients : c \in {writer(k), helper(k)} /\ frames[c] = On("send ready", k, Base(c, k))
  <2>1. IInv /\ e \in Execs /\ c # None
    OBVIOUS
  <2> QED
    BY ONLY <1>1, <2>1, InSendIs
<1>4. Inner(c).on = k /\ Outer(c) = Base(c, k) /\ <<Frame("send", k)>> \o Base(c, k) = On("send", k, Base(c, k))
  BY <1>1, <1>3, InSendSteps
<1>5. frames' = [frames EXCEPT ![c] = On("send", k, Base(c, k))]
  BY <1>4 DEF SendReady, Goto
<1>6. Owner(c, k)
  <2>1. "send ready" \in {"send", "send ready"}
    OBVIOUS
  <2> QED
    BY <1>3, <2>1, SenderOwns
<1>8. UNCHANGED execVars
      /\ UNCHANGED <<queue, groupVars, watcher, send_locked, send_lock_waiters, timers, rr, chunks, roomVars>>
      /\ got' = [d \in Coros |-> got'[d]] /\ got'[Room] = got[Room] /\ got'[Main] = got[Main]
  BY <1>2, CoroNames DEF SendReady, Consumed, IInv, Typed
<1> QED
  BY <1>2, <1>3, <1>5, <1>6, <1>8, SendsOnKeeps

\* The socket is full.
LEMMA SendBlocksKeeps ==
  ASSUME IInv, NEW e \in Execs, NEW c, c # None, SendBlocks(e, c), UNCHANGED roomVars
  PROVE  IInv'
<1>1. At(e, c, "send") /\ "send" \in InSend
  BY DEF SendBlocks, InSend
<1>2. c \in Coros /\ running[e] = c /\ c # Room /\ c # Main
  BY <1>1, InSendIs
<1>3. PICK k \in Clients : c \in {writer(k), helper(k)} /\ frames[c] = On("send", k, Base(c, k))
  BY <1>1, InSendIs
<1>4. Inner(c).on = k /\ Outer(c) = Base(c, k)
  BY <1>1, <1>3, InSendSteps
<1>5. Owner(c, k)
  BY <1>3, SenderOwns
<1>6. PICK l \in Popping : frames' = [frames EXCEPT ![c] = <<Frame(l, send_ready_q(k)), Frame("send ready", k)>> \o Base(c, k)]
  BY <1>4 DEF SendBlocks, pop, Popping
<1> DEFINE u == Base(c, k)
           m == "send ready"
           t == On(m, k, u)
           y == send_ready_q(k)
<1>7. u \in Stack /\ m \in Labels /\ l \in Labels /\ k \in Subjects /\ y \in Subjects /\ \A j : ~ Sends(u, j)
  BY <1>3, BaseIs, SubjectFacts DEF Labels, Popping
<1>8. StackOf(c, On(l, y, t))
  BY <1>3, NewSend DEF Base
<1>9. frames' = [frames EXCEPT ![c] = <<Frame(l, y), Frame(m, k)>> \o u]
  BY <1>6
<1> HIDE DEF u, m, y
<1>10. <<Frame(l, y), Frame(m, k)>> \o u = On(l, y, t) /\ t \in Stack
  <2>1. <<Frame(l, y), Frame(m, k)>> \o u = On(l, y, On(m, k, u))
    BY ONLY <1>7, OnPairs
  <2>2. On(m, k, u) \in Stack
    BY ONLY <1>7, OnFacts
  <2> QED
    BY <2>1, <2>2
<1>11. \A j : Sends(t, j) => j = k
  <2> SUFFICES ASSUME NEW j, Sends(t, j) PROVE j = k
    OBVIOUS
  <2>1. (m \in {"send", "send ready"} /\ k = j) \/ Sends(u, j)
    BY <1>7, SendsOn
  <2> QED
    BY <1>7, <2>1
<1> HIDE DEF t
<1>12. frames' = [frames EXCEPT ![c] = On(l, y, t)]
  BY <1>9, <1>10
<1>13. GoesOn(e, c)
       /\ UNCHANGED <<queue, groupVars, watcher, send_locked, send_lock_waiters, timers, rr, chunks, roomVars>>
       /\ got' = [d \in Coros |-> got'[d]] /\ got'[Room] = got[Room] /\ got'[Main] = got[Main]
  BY DEF SendBlocks, IInv, Typed, GoesOn
<1>14. l \notin {"send", "send ready", "locked", "main", "session", "session end", "joined"}
  BY <1>6 DEF Popping
<1>15. \A j \in Clients : Sends(t, j) => Owner(c, j)
  BY <1>5, <1>11
<1> QED
  BY <1>2, <1>7, <1>8, <1>10, <1>12, <1>13, <1>14, <1>15, WalkOn

\* Some of the data is sent.
LEMMA SendSomeKeeps ==
  ASSUME IInv, NEW e \in Execs, NEW c, c # None, SendSome(e, c), UNCHANGED roomVars
  PROVE  IInv'
<1>1. UNCHANGED <<taskVars, watcher, send_locked, send_lock_waiters, timers, rr, chunks, roomVars>>
  BY DEF SendSome
<1>2. Typed'
  BY <1>1 DEF Typed, IInv, taskVars, execVars, groupVars, roomVars
<1>3. TokensStay
  BY <1>1, TokensSame DEF taskVars, execVars
<1>4. \A d \in Coros : Places(d)' = Places(d)
  <2> SUFFICES ASSUME NEW d \in Coros PROVE Places(d)' = Places(d)
    OBVIOUS
  <2>1. Queued /\ Queued'
    BY <1>2 DEF IInv, Typed, Queued
  <2> QED
    BY <1>1, <2>1, PartsSame, PlacesAll DEF taskVars, execVars, groupVars
<1> QED
  BY <1>1, <1>2, <1>3, <1>4, StillQueued DEF taskVars, execVars, groupVars, roomVars

----------------------------------------------------------------------------
(* A sender that waits, or gets or gives up the lock. *)

\* Nobody queues for a lock but who did, and chain c where its frames s say.
LockWaits(c, s) ==
  \A j \in Clients, d \in Coros : Among(send_lock_waiters'[j], d) =>
    Among(send_lock_waiters[j], d) \/ (d = c /\ Head(s) = Frame("locked", j))

\* A child moves within sendAll(), and the lock stays with whoever has it.
LEMMA SenderMoves ==
  ASSUME IInv, Typed', NEW e \in Execs, NEW c, running[e] = c, NEW k \in Clients, c \in {writer(k), helper(k)},
         NEW s \in Stack, s # <<>>, StackOf(c, s), frames' = [frames EXCEPT ![c] = s],
         UNCHANGED <<queue, groupVars, watcher, chunks, roomVars>>, got'[Room] = got[Room], got'[Main] = got[Main],
         TokensStay, \A d \in Coros : Places(d)' = Places(d), Locks', LockWaits(c, s)
  PROVE  IInv'
<1>1. c \in Coros /\ c # None /\ c # Main /\ c # Room /\ \A j \in Clients : c # session(j)
  BY CoroNames, NotCoros
<1>2. frames[c] # <<>> /\ NotWait(c) /\ NotJoin(c) /\ NotLock(c)
  BY <1>1, Alone DEF IInv
<1>3. queue' = queue /\ active' = active /\ join_waiter' = join_waiter /\ watcher' = watcher
      /\ chunks' = chunks /\ clients' = clients /\ it' = it /\ got'[Room] = got[Room] /\ got'[Main] = got[Main]
  BY DEF groupVars, roomVars
<1>4. WaitsMove(c, s)
  BY <1>3 DEF WaitsMove, LockWaits
<1>5. Ticketed'
  <2>1. Queued /\ Queued' /\ queue[accepted].q \in Seq(Streams)
    BY DEF IInv, Typed, Queued
  <2>2. \A j \in Clients : Tickets(j)' = Tickets(j)
    BY <1>3, <2>1, TicketsSame
  <2> QED
    BY <1>3, <2>2, TicketedStays DEF IInv
<1>6. \A j \in Clients, x \in Execs : Cleaning(x, j)' <=> Cleaning(x, j)
  BY TokenNames DEF TokensStay, Cleaning
<1>7. RoomServed
  BY <1>3 DEF RoomServed
<1> QED
  BY <1>1, <1>2, <1>3, <1>4, <1>5, <1>6, <1>7, MovesOn

\* Who owns the lock of a stream, of the chains that a step leaves where they are.
LEMMA OwnerElsewhere ==
  ASSUME NEW d, NEW j, frames'[d] = frames[d],
         Among(send_lock_waiters[j], d) => Among(send_lock_waiters'[j], d)
  PROVE  Owner(d, j)' => Owner(d, j)
<1>1. Sending(d, j)' <=> Sending(d, j)
  BY DEF Sending
<1> QED
  BY <1>1 DEF Owner, HeadIs

\* Of the chain that moves.
LEMMA OwnerMoved ==
  ASSUME NEW c, NEW j, NEW s, frames'[c] = s, Owner(c, j)'
  PROVE  Sends(s, j) \/ (s # <<>> /\ Head(s) = Frame("locked", j) /\ ~ Among(send_lock_waiters'[j], c))
<1>1. Sending(c, j)' <=> Sends(s, j)
  BY DEF Sending, Sends
<1> QED
  BY <1>1 DEF Owner, HeadIs

\* The frames of a chain in sendAll().
LEMMA InSendStack ==
  ASSUME NEW k \in Clients, NEW c, c \in {writer(k), helper(k)}, NEW l \in InSend
  PROVE  /\ On(l, k, Base(c, k)) \in Stack /\ On(l, k, Base(c, k)) # <<>>
         /\ StackOf(c, On(l, k, Base(c, k))) /\ Head(On(l, k, Base(c, k))) = Frame(l, k)
<1>1. l \in Labels /\ k \in Subjects /\ Base(c, k) \in Stack /\ \A j : ~ Sends(Base(c, k), j)
  BY BaseIs, SubjectFacts DEF InSend, Labels
<1>2. StackOf(c, On(l, k, Base(c, k)))
  BY NewSend DEF Base
<1>3. On(l, k, Base(c, k)) \in Stack /\ On(l, k, Base(c, k)) # <<>> /\ Head(On(l, k, Base(c, k))) = Frame(l, k)
  BY ONLY <1>1, OnFacts
<1> QED
  BY <1>2, <1>3

\* The stacks of sendAll();
LEMMA InSendOn ==
  ASSUME NEW k \in Clients, NEW c, c \in {writer(k), helper(k)}, NEW l \in InSend, NEW s, s = On(l, k, Base(c, k))
  PROVE  s \in Stack /\ s # <<>> /\ StackOf(c, s) /\ Head(s) = Frame(l, k)
BY InSendStack

\* they send to that client only.
LEMMA InSendOnly ==
  ASSUME NEW k \in Clients, NEW c, c \in {writer(k), helper(k)}, NEW l \in InSend, NEW j
  PROVE  Sends(On(l, k, Base(c, k)), j) => j = k /\ l \in {"send", "send ready"}
<1>1. l \in Labels /\ k \in Subjects /\ Base(c, k) \in Stack /\ ~ Sends(Base(c, k), j)
  BY BaseIs, SubjectFacts DEF InSend, Labels
<1>2. Sends(On(l, k, Base(c, k)), j) => (l \in {"send", "send ready"} /\ k = j) \/ Sends(Base(c, k), j)
  BY <1>1, SendsOn
<1> QED
  BY <1>1, <1>2

\* The lock is free.
LEMMA TakesLockKeeps ==
  ASSUME IInv, NEW e \in Execs, NEW c, c # None, LockAwaiter(e, c), Inner(c).on \notin send_locked, UNCHANGED roomVars
  PROVE  IInv'
<1>1. At(e, c, "sendAll") /\ "sendAll" \in InSend /\ IInv /\ e \in Execs /\ c # None
  BY DEF LockAwaiter, InSend
<1>2. c \in Coros /\ running[e] = c
  BY <1>1, InSendIs
<1>3. PICK k \in Clients : c \in {writer(k), helper(k)} /\ frames[c] = On("sendAll", k, Base(c, k))
  BY ONLY <1>1, InSendIs
<1>4. Inner(c).on = k /\ Outer(c) = Base(c, k) /\ <<Frame("send", k)>> \o Base(c, k) = On("send", k, Base(c, k))
  BY <1>1, <1>3, InSendSteps
<1> DEFINE s == On("send", k, Base(c, k))
<1>5. frames' = [frames EXCEPT ![c] = s] /\ send_locked' = send_locked \cup {k}
  BY <1>4 DEF LockAwaiter, Locked, Goto
<1>6. s \in Stack /\ s # <<>> /\ StackOf(c, s) /\ Head(s) = Frame("send", k) /\ \A j : Sends(s, j) => j = k
  <2> DEFINE l == "send"
  <2>1. l \in InSend /\ k \in Clients /\ s = On(l, k, Base(c, k)) /\ l = "send" /\ c \in {writer(k), helper(k)}
    BY <1>3 DEF InSend
  <2> HIDE DEF l, s
  <2>2. s \in Stack /\ s # <<>> /\ StackOf(c, s) /\ Head(s) = Frame(l, k)
    BY <2>1, InSendOn
  <2>3. ASSUME NEW j, Sends(s, j) PROVE j = k
    BY <2>1, <2>3, InSendOnly
  <2> QED
    BY <2>1, <2>2, <2>3
<1> HIDE DEF s
<1>7. UNCHANGED <<runq, inbound, hand, got, queue, groupVars, watcher, timers, rr, chunks, roomVars, running, send_lock_waiters>>
  BY <1>4 DEF LockAwaiter
<1>8. Typed'
  <2>1. Typed /\ Stacks
    BY DEF IInv
  <2>2. frames' \in [Coros -> Stack]
    BY <1>2, <1>5, <1>6, <2>1, StacksStay
  <2> QED
    BY <1>5, <1>7, <2>1, <2>2 DEF Typed, groupVars, roomVars
<1>9. \A d \in Coros : Places(d)' = Places(d)
  <2> SUFFICES ASSUME NEW d \in Coros PROVE Places(d)' = Places(d)
    OBVIOUS
  <2>1. Queued /\ Queued'
    BY <1>8 DEF IInv, Typed, Queued
  <2> QED
    BY <1>7, <2>1, PartsSame, PlacesAll DEF groupVars
<1>10. TokensStay
  BY <1>7, TokensSame
<1>11. Locks'
  <2> SUFFICES ASSUME NEW j \in Clients, NEW d \in Coros, Owner(d, j)'
               PROVE  j \in send_locked' /\ \A b \in Coros : Owner(b, j)' => d = b
    BY DEF Locks
  <2>1. \A b \in Coros : b # c => frames'[b] = frames[b]
    BY <1>2, <1>5 DEF IInv, Typed
  <2>2. frames'[c] = s
    BY <1>2, <1>5 DEF IInv, Typed
  <2>3. ASSUME NEW b \in Coros, Owner(b, j)' PROVE (b = c /\ j = k) \/ (b # c /\ Owner(b, j) /\ j # k)
    <3>1. CASE b = c
      <4>1. Sends(s, j) \/ Head(s) = Frame("locked", j)
        BY <2>2, <2>3, <3>1, OwnerMoved
      <4>2. Head(s) # Frame("locked", j)
        BY <1>6, FrameFacts
      <4> QED
        BY <1>6, <3>1, <4>1, <4>2
    <3>2. CASE b # c
      <4>1. Owner(b, j)
        BY <1>7, <2>1, <2>3, <3>2, OwnerElsewhere
      <4> QED
        BY <1>4, <3>2, <4>1 DEF IInv, Locks
    <3> QED
      BY <3>1, <3>2
  <2> QED
    BY <1>5, <2>3 DEF IInv, Locks
<1>12. LockWaits(c, s)
  BY <1>7 DEF LockWaits
<1>13. UNCHANGED <<queue, groupVars, watcher, chunks, roomVars>> /\ got'[Room] = got[Room] /\ got'[Main] = got[Main]
  BY <1>7
<1>14. frames' = [frames EXCEPT ![c] = s]
  BY <1>5
<1> QED
  BY <1>2, <1>3, <1>6, <1>8, <1>9, <1>10, <1>11, <1>12, <1>13, <1>14, SenderMoves

----------------------------------------------------------------------------
(* A chain that leaves the thread, and waits for the lock or for a timer. *)

\* Worker e's thread is free again.
Leaves(e, c) == /\ e \in Execs /\ running[e] = c /\ running'[e] = None
                /\ \A x \in Execs : x # e => running'[x] = running[x]

\* A chain stops running;
LEMMA LeavesIs ==
  ASSUME Typed, NEW e \in Execs, NEW c, running[e] = c, running' = [running EXCEPT ![e] = None]
  PROVE  Leaves(e, c) /\ running' \in [Execs -> Coros \cup {None}]
BY DEF Typed, Leaves

\* it is no longer counted there.
LEMMA LeavesRun ==
  ASSUME NEW e, NEW c, Leaves(e, c), NEW d \in Coros
  PROVE  RunN(d)' = RunN(d) - One(c = d) /\ One(c = d) \in {0, 1}
<1>1. e \in Execs /\ running[e] = c /\ running'[e] = None /\ \A x \in Execs : x # e => running'[x] = running[x]
  BY DEF Leaves
<1>2. RunN(d)' = RunN(d) - One(running[e] = d) + One(running'[e] = d) /\ RunN(d) \in Nat
  BY <1>1, RunSet
<1>3. One(running'[e] = d) = 0
  BY <1>1, NotCoros DEF One
<1> QED
  BY <1>1, <1>2, <1>3 DEF One

\* Chain c queues for the lock of stream k.
LockQueued(k, c) ==
  /\ Changed(send_lock_waiters, send_lock_waiters', Clients, Coros, k) /\ c \in Coros
  /\ send_lock_waiters'[k] = Append(send_lock_waiters[k], c)

\* A chain queues for the lock;
LEMMA LockQueuedIs ==
  ASSUME send_lock_waiters \in [Clients -> Seq(Coros)], NEW k \in Clients, NEW c \in Coros,
         send_lock_waiters' = [send_lock_waiters EXCEPT ![k] = Append(@, c)]
  PROVE  LockQueued(k, c)
<1>1. Append(send_lock_waiters[k], c) \in Seq(Coros)
  BY AppendProperties
<1> QED
  BY <1>1, Finite DEF LockQueued, Changed

\* it is one more there.
LEMMA LockQueuedFacts ==
  ASSUME NEW k, NEW c, LockQueued(k, c), NEW t
  PROVE  /\ send_lock_waiters' \in [Clients -> Seq(Coros)]
         /\ LockN(t)' = LockN(t) + One(c = t)
         /\ \A j \in Clients : Among(send_lock_waiters'[j], t) <=> Among(send_lock_waiters[j], t) \/ (j = k /\ c = t)
<1>1. Changed(send_lock_waiters, send_lock_waiters', Clients, Coros, k) /\ c \in Coros
      /\ send_lock_waiters'[k] = Append(send_lock_waiters[k], c)
  BY DEF LockQueued
<1>2. /\ send_lock_waiters[k] \in Seq(Coros) /\ send_lock_waiters' \in [Clients -> Seq(Coros)] /\ k \in Clients
      /\ \A y \in Clients \ {k} : send_lock_waiters'[y] = send_lock_waiters[y]
  BY <1>1 DEF Changed
<1>3. LockN(t)' = LockN(t) + One(c = t)
  <2>1. InQueues(send_lock_waiters', Clients, t) = InQueues(send_lock_waiters, Clients, t) + One(c = t)
    BY <1>1, InQueuesPost
  <2> QED
    BY <2>1 DEF LockN
<1>4. Append(send_lock_waiters[k], c) = send_lock_waiters[k] \o <<c>> /\ <<c>> \in Seq(Coros)
  BY <1>1, <1>2, AppendIsConcat
<1>5. Among(<<c>>, t) <=> c = t
  BY DEF Among
<1>6. Among(send_lock_waiters[k] \o <<c>>, t) <=> Among(send_lock_waiters[k], t) \/ Among(<<c>>, t)
  BY <1>2, <1>4, AmongCat
<1>7. ASSUME NEW j \in Clients
      PROVE  Among(send_lock_waiters'[j], t) <=> Among(send_lock_waiters[j], t) \/ (j = k /\ c = t)
  <2>1. CASE j = k
    BY <1>1, <1>4, <1>5, <1>6, <2>1
  <2>2. CASE j # k
    BY <1>2, <2>2
  <2> QED
    BY <2>1, <2>2
<1> QED
  BY <1>2, <1>3, <1>7

\* The lock is another chain's.
LEMMA WaitsForLockKeeps ==
  ASSUME IInv, NEW e \in Execs, NEW c, c # None, LockAwaiter(e, c), Inner(c).on \in send_locked, UNCHANGED roomVars
  PROVE  IInv'
<1>1. At(e, c, "sendAll") /\ "sendAll" \in InSend /\ IInv /\ e \in Execs /\ c # None
  BY DEF LockAwaiter, InSend
<1>2. c \in Coros /\ running[e] = c
  BY <1>1, InSendIs
<1>3. PICK k \in Clients : c \in {writer(k), helper(k)} /\ frames[c] = On("sendAll", k, Base(c, k))
  BY ONLY <1>1, InSendIs
<1>4. Inner(c).on = k /\ Outer(c) = Base(c, k) /\ <<Frame("locked", k)>> \o Base(c, k) = On("locked", k, Base(c, k))
  BY <1>1, <1>3, InSendSteps
<1> DEFINE s == On("locked", k, Base(c, k))
<1>5. /\ frames' = [frames EXCEPT ![c] = s] /\ send_locked' = send_locked
      /\ send_lock_waiters' = [send_lock_waiters EXCEPT ![k] = Append(@, c)]
      /\ running' = [running EXCEPT ![e] = None]
  BY <1>4 DEF LockAwaiter, Locked, Goto, suspend
<1>6. s \in Stack /\ s # <<>> /\ StackOf(c, s) /\ Head(s) = Frame("locked", k) /\ \A j : ~ Sends(s, j)
  <2> DEFINE l == "locked"
  <2>1. l \in InSend /\ k \in Clients /\ s = On(l, k, Base(c, k)) /\ l = "locked" /\ c \in {writer(k), helper(k)}
    BY <1>3 DEF InSend
  <2> HIDE DEF l, s
  <2>2. s \in Stack /\ s # <<>> /\ StackOf(c, s) /\ Head(s) = Frame(l, k)
    BY <2>1, InSendOn
  <2>3. ASSUME NEW j, Sends(s, j) PROVE FALSE
    <3>1. l \in {"send", "send ready"}
      BY <2>1, <2>3, InSendOnly
    <3> QED
      BY <2>1, <3>1
  <2> QED
    BY <2>1, <2>2, <2>3
<1> HIDE DEF s
<1>7. UNCHANGED <<runq, inbound, hand, got, queue, groupVars, watcher, timers, rr, chunks, roomVars>>
  BY DEF LockAwaiter
<1>8. LockQueued(k, c) /\ Leaves(e, c) /\ running' \in [Execs -> Coros \cup {None}]
  BY <1>2, <1>5, LockQueuedIs, LeavesIs DEF IInv, Typed
<1>9. Typed'
  <2>1. Typed /\ Stacks
    BY DEF IInv
  <2>2. frames' \in [Coros -> Stack]
    BY <1>2, <1>5, <1>6, <2>1, StacksStay
  <2>3. send_lock_waiters' \in [Clients -> Seq(Coros)]
    BY <1>8 DEF LockQueued, Changed
  <2>4. send_locked' \subseteq Clients
    BY <1>5, <2>1 DEF Typed
  <2> QED
    BY <1>7, <1>8, <2>1, <2>2, <2>3, <2>4 DEF Typed, groupVars, roomVars
<1>10. \A d \in Coros : Places(d)' = Places(d)
  <2> SUFFICES ASSUME NEW d \in Coros PROVE Places(d)' = Places(d)
    OBVIOUS
  <2>1. Queued /\ Queued'
    BY <1>9 DEF IInv, Typed, Queued
  <2>2. LockN(d)' = LockN(d) + One(c = d)
    BY <1>8, LockQueuedFacts
  <2>3. RunN(d)' = RunN(d) - One(c = d) /\ One(c = d) \in {0, 1}
    BY <1>8, LeavesRun
  <2>4. /\ HandN(d)' = HandN(d) /\ WaitN(d)' = WaitN(d) /\ JoinN(d)' = JoinN(d)
        /\ TimeN(d)' = TimeN(d) /\ RunqN(d)' = RunqN(d) /\ InbN(d)' = InbN(d)
    BY <1>7, PartsSame DEF groupVars
  <2>5. /\ Numbers(d) /\ Numbers(d)'
        /\ Places(d) = RunN(d) + HandN(d) + WaitN(d) + JoinN(d) + TimeN(d) + RunqN(d) + InbN(d) + LockN(d)
        /\ Places(d)' = RunN(d)' + HandN(d)' + WaitN(d)' + JoinN(d)' + TimeN(d)' + RunqN(d)' + InbN(d)' + LockN(d)'
    BY <2>1, PlacesAll
  <2> QED
    BY <2>2, <2>3, <2>4, <2>5 DEF Numbers
<1>11. TokensStay
  BY <1>7, TokensSame
<1>12. \A j \in Clients, d \in Coros :
         Among(send_lock_waiters'[j], d) <=> Among(send_lock_waiters[j], d) \/ (j = k /\ c = d)
  <2> TAKE j \in Clients, d \in Coros
  <2>1. LockQueued(k, c)
    BY <1>8
  <2>2. \A i \in Clients : Among(send_lock_waiters'[i], d) <=> Among(send_lock_waiters[i], d) \/ (i = k /\ c = d)
    BY ONLY <2>1, LockQueuedFacts
  <2> QED
    BY <2>2
<1>13. LockWaits(c, s)
  BY <1>6, <1>12 DEF LockWaits
<1>14. Locks'
  <2>1. frames'[c] = s /\ \A d \in Coros : d # c => frames'[d] = frames[d]
    BY <1>2, <1>5 DEF IInv, Typed
  <2>2. \A j \in Clients : s # <<>> /\ Head(s) = Frame("locked", j) => Among(send_lock_waiters'[j], c)
    BY <1>2, <1>3, <1>6, <1>12, FrameFacts
  <2>3. \A j \in Clients, d \in Coros : Among(send_lock_waiters[j], d) => Among(send_lock_waiters'[j], d)
    BY <1>12
  <2>4. send_locked \subseteq send_locked'
    BY <1>5
  <2> QED
    BY <1>2, <1>6, <2>1, <2>2, <2>3, <2>4, LocksMove
<1>15. frames' = [frames EXCEPT ![c] = s]
  BY <1>5
<1>16. UNCHANGED <<queue, groupVars, watcher, chunks, roomVars>> /\ got'[Room] = got[Room] /\ got'[Main] = got[Main]
  BY <1>7
<1>17. IInv /\ e \in Execs /\ running[e] = c /\ k \in Clients /\ c \in {writer(k), helper(k)}
       /\ s \in Stack /\ s # <<>> /\ StackOf(c, s)
  BY <1>2, <1>3, <1>6
<1> QED
  BY ONLY <1>9, <1>10, <1>11, <1>13, <1>14, <1>15, <1>16, <1>17, SenderMoves

----------------------------------------------------------------------------
(* Waiting for a timer, and for the children. *)

\* The helper waits for a timer.
LEMMA SleepsKeeps ==
  ASSUME IInv, NEW e \in Execs, NEW c, c # None, At(e, c, "sleepFor"),
         timers' = [timers EXCEPT ![e] = @ \cup {c}], Goto(c, "return"), suspend(e),
         UNCHANGED <<runq, inbound, hand, got, queue, groupVars, streamVars, listening, rr, chunks, roomVars>>
  PROVE  IInv'
<1>1. /\ c \in Coros /\ running[e] = c /\ Where(c, "sleepFor", frames[c])
  BY Here
<1>2. PICK k \in Clients : c = helper(k) /\ frames[c] = On("sleepFor", 0, On("slept", k, On("child done", k, <<>>)))
  BY <1>1 DEF Where, SessionAlone, InSend, Popping
<1> DEFINE u == On("slept", k, On("child done", k, <<>>))
           l == "return"
           s == On(l, 0, u)
<1>3. u \in Stack /\ 0 \in Subjects /\ l \in Labels /\ "sleepFor" \in Labels /\ \A j : ~ Sends(u, j)
  BY Rests, SubjectFacts, QuietRests DEF Labels
<1>4. StackOf(c, s) /\ c \in {writer(k), helper(k)} /\ frames[c] = On("sleepFor", 0, u)
  BY <1>2, NewHelper
<1>5. frames' = [frames EXCEPT ![c] = <<Frame(l, Inner(c).on)>> \o Outer(c)]
  BY DEF Goto
<1>6. l = "return"
  OBVIOUS
<1> HIDE DEF u, l
<1>7. Inner(c).on = 0 /\ Outer(c) = u
  BY ONLY <1>3, <1>4, OnParts DEF Inner, Outer
<1>8. frames' = [frames EXCEPT ![c] = s]
  BY <1>5, <1>7 DEF On
<1>9. s \in Stack /\ s # <<>> /\ Head(s).at = l
  BY ONLY <1>3, OnFacts DEF s
<1>10. ASSUME NEW j PROVE ~ Sends(s, j)
  <2>1. Sends(s, j) => (l \in {"send", "send ready"} /\ 0 = j) \/ Sends(u, j)
    BY <1>3, SendsOn
  <2> QED
    BY <1>3, <1>6, <2>1
<1> HIDE DEF s
<1>11. NotTime(c)
  BY <1>1, Alone, NotCoros DEF IInv
<1>12. Leaves(e, c) /\ running' \in [Execs -> Coros \cup {None}]
  BY <1>1, LeavesIs DEF IInv, suspend
<1>13. timers' \in [Execs -> SUBSET Coros] /\ timers'[e] = timers[e] \cup {c} /\ \A x \in Execs : x # e => timers'[x] = timers[x]
  BY <1>1 DEF IInv, Typed
<1>14. /\ runq' = runq /\ inbound' = inbound /\ hand' = hand /\ got' = got /\ queue' = queue
       /\ active' = active /\ join_waiter' = join_waiter /\ watcher' = watcher /\ send_locked' = send_locked
       /\ send_lock_waiters' = send_lock_waiters /\ rr' = rr /\ chunks' = chunks /\ clients' = clients /\ it' = it
  BY DEF groupVars, streamVars, roomVars
<1>15. frames' \in [Coros -> Stack]
  BY <1>1, <1>4, <1>8, <1>9, StacksStay DEF IInv
<1>16. Typed'
  BY <1>12, <1>13, <1>14, <1>15 DEF IInv, Typed
<1>17. \A d \in Coros : Places(d)' = Places(d)
  <2> SUFFICES ASSUME NEW d \in Coros PROVE Places(d)' = Places(d)
    OBVIOUS
  <2>1. Queued /\ Queued'
    BY <1>16 DEF IInv, Typed, Queued
  <2>2. TimeN(d)' = TimeN(d) + One(c = d)
    <3>1. TimeN(d)' = TimeN(d) - One(d \in timers[e]) + One(d \in timers'[e]) /\ TimeN(d) \in Nat
      BY <1>13, TimeSet
    <3>2. One(d \in timers'[e]) = One(d \in timers[e]) + One(c = d) /\ One(d \in timers[e]) \in {0, 1}
      BY <1>11, <1>13 DEF One, NotTime
    <3> QED
      BY <3>1, <3>2 DEF One
  <2>3. RunN(d)' = RunN(d) - One(c = d) /\ One(c = d) \in {0, 1}
    BY <1>12, LeavesRun
  <2>4. /\ HandN(d)' = HandN(d) /\ WaitN(d)' = WaitN(d) /\ JoinN(d)' = JoinN(d)
        /\ LockN(d)' = LockN(d) /\ RunqN(d)' = RunqN(d) /\ InbN(d)' = InbN(d)
    BY <1>14, PartsSame
  <2>5. /\ Numbers(d) /\ Numbers(d)'
        /\ Places(d) = RunN(d) + HandN(d) + WaitN(d) + JoinN(d) + TimeN(d) + RunqN(d) + InbN(d) + LockN(d)
        /\ Places(d)' = RunN(d)' + HandN(d)' + WaitN(d)' + JoinN(d)' + TimeN(d)' + RunqN(d)' + InbN(d)' + LockN(d)'
    BY <2>1, PlacesAll
  <2> QED
    BY <2>2, <2>3, <2>4, <2>5 DEF Numbers
<1>18. TokensStay
  BY <1>14, TokensSame
<1>19. LockWaits(c, s)
  BY <1>14 DEF LockWaits
<1>20. Locks'
  <2>1. frames'[c] = s /\ \A d \in Coros : d # c => frames'[d] = frames[d]
    BY <1>1, <1>8 DEF IInv, Typed
  <2>2. \A j \in Clients : Head(s) # Frame("locked", j)
    BY <1>6, <1>9, FrameFacts
  <2> QED
    BY <1>1, <1>10, <1>14, <2>1, <2>2, LocksMove
<1>21. UNCHANGED <<queue, groupVars, watcher, chunks, roomVars>> /\ got'[Room] = got[Room] /\ got'[Main] = got[Main]
  BY <1>14
<1> QED
  BY <1>1, <1>4, <1>8, <1>9, <1>16, <1>17, <1>18, <1>19, <1>20, <1>21, SenderMoves

\* join() leaves itself for the last child.
LEMMA JoinsKeeps ==
  ASSUME IInv, NEW e \in Execs, NEW c, c # None, At(e, c, "join"), active[Inner(c).on] > 0,
         join_waiter' = [join_waiter EXCEPT ![Inner(c).on] = c], Goto(c, "joined"), suspend(e),
         UNCHANGED <<runq, inbound, hand, got, queue, active, tcpVars, roomVars>>
  PROVE  IInv'
<1>1. /\ c \in Coros /\ running[e] = c /\ Where(c, "join", frames[c]) /\ frames[c] # <<>>
  BY Here
<1>2. PICK k \in Clients : c = session(k) /\ frames[c] = On("join", k, On("session end", k, <<>>))
  BY <1>1 DEF Where, SessionAlone, InSend, Popping
<1> DEFINE u == On("session end", k, <<>>)
           l == "joined"
           m == "join"
           s == On(l, k, u)
<1>3. u \in Stack /\ k \in Subjects /\ l \in Labels /\ m \in Labels /\ \A j : ~ Sends(u, j)
  BY Rests, SubjectFacts, QuietRests DEF Labels
<1>4. StackOf(c, s) /\ frames[c] = On(m, k, u)
  BY <1>2, NewSession
<1>5. frames' = [frames EXCEPT ![c] = <<Frame(l, Inner(c).on)>> \o Outer(c)]
  BY DEF Goto
<1>6. l = "joined" /\ m = "join"
  OBVIOUS
<1> HIDE DEF u, l, m
<1>7. Inner(c).on = k /\ Outer(c) = u
  BY ONLY <1>3, <1>4, OnParts DEF Inner, Outer
<1>8. frames' = [frames EXCEPT ![c] = s]
  BY <1>5, <1>7 DEF On
<1>9. s \in Stack /\ s # <<>> /\ Head(s) = Frame(l, k)
  BY ONLY <1>3, OnFacts DEF s
<1>10. ASSUME NEW j PROVE ~ Sends(s, j)
  <2>1. Sends(s, j) => (l \in {"send", "send ready"} /\ k = j) \/ Sends(u, j)
    BY <1>3, SendsOn
  <2> QED
    BY <1>3, <1>6, <2>1
<1> HIDE DEF s
<1>11. NotWait(c) /\ NotJoin(c) /\ NotLock(c)
  BY <1>1, Alone, NotCoros DEF IInv
<1>12. Leaves(e, c) /\ running' \in [Execs -> Coros \cup {None}]
  BY <1>1, LeavesIs DEF IInv, suspend
<1>13. /\ join_waiter' \in [Clients -> Coros \cup {None}] /\ join_waiter'[k] = c
       /\ \A j \in Clients : j # k => join_waiter'[j] = join_waiter[j]
  BY <1>1, <1>7 DEF IInv, Typed
<1>14. /\ runq' = runq /\ inbound' = inbound /\ hand' = hand /\ got' = got /\ queue' = queue
       /\ active' = active /\ timers' = timers /\ watcher' = watcher /\ send_locked' = send_locked
       /\ send_lock_waiters' = send_lock_waiters /\ rr' = rr /\ chunks' = chunks /\ clients' = clients /\ it' = it
  BY DEF tcpVars, streamVars, roomVars
<1>22. join_waiter[k] = None
  <2>1. join_waiter[k] # None => frames[session(k)] = On("joined", k, On("session end", k, <<>>))
    BY JoinWaiterIs
  <2>2. Head(On(m, k, u)).at = m /\ Head(On(l, k, u)).at = l
    BY ONLY <1>3, OnAt
  <2> QED
    BY <1>2, <1>4, <1>6, <2>1, <2>2 DEF u
<1>15. frames' \in [Coros -> Stack]
  BY <1>1, <1>4, <1>8, <1>9, StacksStay DEF IInv
<1>16. Typed'
  BY <1>12, <1>13, <1>14, <1>15 DEF IInv, Typed
<1>17. \A d \in Coros : Places(d)' = Places(d)
  <2> SUFFICES ASSUME NEW d \in Coros PROVE Places(d)' = Places(d)
    OBVIOUS
  <2>1. Queued /\ Queued'
    BY <1>16 DEF IInv, Typed, Queued
  <2>2. JoinN(d)' = JoinN(d) + One(c = d)
    <3>1. JoinN(d)' = JoinN(d) - One(join_waiter[k] = d) + One(join_waiter'[k] = d) /\ JoinN(d) \in Nat
      BY <1>13, JoinSet
    <3>2. One(join_waiter[k] = d) = 0
      BY <1>22, NotCoros DEF One
    <3> QED
      BY <1>13, <3>1, <3>2 DEF One
  <2>3. RunN(d)' = RunN(d) - One(c = d) /\ One(c = d) \in {0, 1}
    BY <1>12, LeavesRun
  <2>4. /\ HandN(d)' = HandN(d) /\ WaitN(d)' = WaitN(d) /\ TimeN(d)' = TimeN(d)
        /\ LockN(d)' = LockN(d) /\ RunqN(d)' = RunqN(d) /\ InbN(d)' = InbN(d)
    BY <1>14, PartsSame
  <2>5. /\ Numbers(d) /\ Numbers(d)'
        /\ Places(d) = RunN(d) + HandN(d) + WaitN(d) + JoinN(d) + TimeN(d) + RunqN(d) + InbN(d) + LockN(d)
        /\ Places(d)' = RunN(d)' + HandN(d)' + WaitN(d)' + JoinN(d)' + TimeN(d)' + RunqN(d)' + InbN(d)' + LockN(d)'
    BY <2>1, PlacesAll
  <2> QED
    BY <2>2, <2>3, <2>4, <2>5 DEF Numbers
<1>18. TokensStay
  BY <1>14, TokensSame
<1>19. WaitsMove(c, s)
  BY <1>2, <1>6, <1>9, <1>13, <1>14 DEF WaitsMove
<1>20. Locks'
  <2>1. frames'[c] = s /\ \A d \in Coros : d # c => frames'[d] = frames[d]
    BY <1>1, <1>8 DEF IInv, Typed
  <2>2. \A j \in Clients : Head(s) # Frame("locked", j)
    BY <1>6, <1>9, FrameFacts
  <2> QED
    BY <1>1, <1>10, <1>14, <2>1, <2>2, LocksMove
<1>21. Ticketed'
  <2>1. Queued /\ Queued' /\ queue[accepted].q \in Seq(Streams)
    BY <1>16 DEF IInv, Typed, Queued
  <2>2. \A j \in Clients : Tickets(j)' = Tickets(j)
    BY <1>14, <1>18, <2>1, TicketsSame
  <2> QED
    BY <1>14, <2>2, TicketedStays DEF IInv
<1>23. \A j \in Clients, x \in Execs : Cleaning(x, j)' <=> Cleaning(x, j)
  BY <1>18, TokenNames DEF TokensStay, Cleaning
<1>24. RoomServed
  BY <1>14 DEF RoomServed
<1>25. c # Main /\ c # Room /\ \A j \in Clients : c = session(j) => j = k
  BY <1>2, CoroNames
<1>26. \A j \in Clients : c = session(j) /\ Head(s).at \in {"session", "session end", "joined"} =>
           active[j] = 0 \/ (join_waiter'[j] # None /\ Head(s).at = "joined")
  BY <1>1, <1>6, <1>9, <1>13, <1>25, FrameFacts, NotCoros
<1> QED
  BY <1>1, <1>4, <1>8, <1>9, <1>11, <1>14, <1>16, <1>17, <1>19, <1>20, <1>21, <1>23, <1>24, <1>25, <1>26, MovesOn

----------------------------------------------------------------------------
(* The chains that are scheduled when their queues are closed or pushed to. *)

\* SetToSeq puts each element of a set in one place;
LEMMA SetToSeqFacts ==
  ASSUME NEW S, IsFiniteSet(S)
  PROVE  /\ SetToSeq(S) \in Seq(S) /\ Len(SetToSeq(S)) = Cardinality(S)
         /\ \A i, j \in 1 .. Cardinality(S) : SetToSeq(S)[i] = SetToSeq(S)[j] => i = j
         /\ \A x \in S : \E i \in 1 .. Cardinality(S) : SetToSeq(S)[i] = x
<1> DEFINE n == Cardinality(S)
           f == SetToSeq(S)
<1>1. n \in Nat /\ ExistsBijection(1 .. n, S)
  BY FS_CardinalityType
<1>2. PICK g : g \in Bijection(1 .. n, S)
  BY <1>1, Fun_ExistsBij
<1>3. g \in [1 .. n -> S] /\ IsInjective(g)
  BY <1>2, Fun_BijectionProperties DEF Bijection, Injection, IsInjective
<1>4. f \in [1 .. n -> S] /\ IsInjective(f)
  BY <1>3 DEF SetToSeq
<1> HIDE DEF f
<1>5. f \in Injection(1 .. n, S)
  BY <1>4 DEF Injection
<1>6. Cardinality(1 .. n) = n /\ IsFiniteSet(1 .. n)
  BY <1>1, FS_Interval
<1>7. f \in Surjection(1 .. n, S)
  BY <1>5, <1>6, FS_Injection
<1>8. \A x \in S : \E i \in 1 .. n : f[i] = x
  BY <1>7 DEF Surjection
<1>9. f \in Seq(S) /\ Len(f) = n
  <2> HIDE DEF n
  <2>1. f \in Seq(S) /\ DOMAIN f = 1 .. n
    BY <1>1, <1>4, SeqDef
  <2>2. Len(f) \in Nat /\ DOMAIN f = 1 .. Len(f)
    BY <2>1
  <2> QED
    BY <1>1, <2>1, <2>2
<1> QED
  BY <1>4, <1>8, <1>9 DEF f, IsInjective

\* so each occurs once.
LEMMA SetToSeqOccurs ==
  ASSUME NEW S, IsFiniteSet(S), NEW t
  PROVE  Occurs(SetToSeq(S), t) = One(t \in S)
<1> DEFINE n == Cardinality(S)
           f == SetToSeq(S)
<1>1. /\ f \in Seq(S) /\ Len(f) = n /\ \A i, j \in 1 .. n : f[i] = f[j] => i = j
      /\ \A x \in S : \E i \in 1 .. n : f[i] = x
  BY SetToSeqFacts
<1> HIDE DEF f, n
<1>2. DOMAIN f = 1 .. n /\ \A i \in 1 .. n : f[i] \in S
  BY <1>1
<1>3. CASE t \in S
  <2>1. PICK i \in 1 .. n : f[i] = t
    BY <1>1, <1>3
  <2>2. Slots(f, t) = {i}
    BY <1>1, <1>2, <2>1 DEF Slots
  <2> QED
    BY <1>3, <2>2, FS_Singleton DEF Occurs, One, f
<1>4. CASE t \notin S
  <2>1. Slots(f, t) = {}
    BY <1>2, <1>4 DEF Slots
  <2> QED
    BY <1>4, <2>1, FS_EmptySet DEF Occurs, One, f
<1> QED
  BY <1>3, <1>4

\* The waiters of two queues at most: each occurs once, as it waits in one queue only.
LEMMA WaitersFacts ==
  ASSUME Typed, NEW qs, NEW q, NEW r, qs \subseteq Queues, qs \subseteq {q, r}, NEW t \in Coros
  PROVE  /\ Waiters(qs) \in Seq(Coros)
         /\ Occurs(Waiters(qs), t) = One(\E x \in qs : queue[x].waiter = t)
<1> DEFINE S == {queue[x].waiter : x \in qs} \ {None}
           T == {queue[q].waiter, queue[r].waiter}
<1>1. IsFiniteSet(T)
  <2>1. IsFiniteSet({queue[q].waiter}) /\ T = {queue[q].waiter} \cup {queue[r].waiter}
    BY FS_Singleton
  <2> QED
    BY <2>1, FS_AddElement
<1>0. \A x \in Queues : queue[x].waiter \in Coros \cup {None}
  BY DEF Typed
<1>2. S \in SUBSET T /\ S \subseteq Coros
  <2>1. \A y \in S : y \in T /\ y \in Coros
    BY <1>0
  <2> QED
    BY <2>1
<1>3. t \in S <=> \E x \in qs : queue[x].waiter = t
  BY NotCoros
<1>4. Waiters(qs) = SetToSeq(S)
  BY DEF Waiters
<1> HIDE DEF S, T
<1>5. IsFiniteSet(S)
  BY <1>1, <1>2, FS_Subset
<1>6. SetToSeq(S) \in Seq(S)
  BY <1>5, SetToSeqFacts
<1>7. SetToSeq(S) \in Seq(Coros)
  BY <1>2, <1>6, SeqMonotonic
<1>8. Occurs(SetToSeq(S), t) = One(t \in S)
  BY <1>5, SetToSeqOccurs
<1>9. One(t \in S) = One(\E x \in qs : queue[x].waiter = t)
  BY <1>3 DEF One
<1> QED
  BY <1>4, <1>7, <1>8, <1>9

\* The chains of w no longer wait in their queues, where nothing else changes that
\* matters to the chains that do.
Wakes(w) ==
  /\ w \in Seq(Coros)
  /\ \A d \in Coros : WaitN(d)' = WaitN(d) - Occurs(w, d)
  /\ \A q \in Queues : /\ (queue'[q].waiter = None \/ queue'[q].waiter = queue[q].waiter)
                        /\ queue'[q].exec = queue[q].exec
  /\ queue'[cmds] = queue[cmds]

\* The waiters of the queues of qs are reset.
Resets(qs) ==
  /\ \A q \in Queues : q \in qs => queue'[q].waiter = None
  /\ \A q \in Queues : q \notin qs => queue'[q].waiter = queue[q].waiter
  /\ \A q \in Queues : queue'[q].exec = queue[q].exec
  /\ queue'[cmds] = queue[cmds]

\* Their chains no longer wait when the queues are reset.
LEMMA ResetsWake ==
  ASSUME Typed, OneResumption, NEW qs, NEW q, NEW r, qs \subseteq Queues, qs \subseteq {q, r}, Resets(qs)
  PROVE  Wakes(Waiters(qs))
<1>1. /\ \A x \in Queues : x \in qs => queue'[x].waiter = None
      /\ \A x \in Queues : x \notin qs => queue'[x].waiter = queue[x].waiter
  BY DEF Resets
<1>6. /\ \A x \in Queues : queue'[x].exec = queue[x].exec
      /\ queue'[cmds] = queue[cmds]
  BY DEF Resets
<1>2. ASSUME NEW d \in Coros PROVE WaitN(d)' = WaitN(d) - Occurs(Waiters(qs), d)
  <2> DEFINE A == {x \in Queues : queue[x].waiter = d}
             B == {x \in Queues : queue'[x].waiter = d}
  <2>0. d # None
    BY NotCoros
  <2>1. WaitN(d) = Cardinality(A) /\ WaitN(d)' = Cardinality(B) /\ A \in SUBSET Queues
    BY DEF WaitN
  <2>2. Occurs(Waiters(qs), d) = One(\E x \in qs : queue[x].waiter = d)
    BY WaitersFacts
  <2>3. CASE \E x \in qs : queue[x].waiter = d
    <3>1. PICK x \in qs : queue[x].waiter = d
      BY <2>3
    <3>2. IsFiniteSet(A) /\ x \in A
      BY <2>1, <3>1, Finite, FS_Subset
    <3>3. Cardinality(A) <= 1 /\ Cardinality(A) \in Nat
      <4>1. Queued
        BY DEF Typed, Queued
      <4>3. Places(d) = IF frames[d] = <<>> THEN 0 ELSE 1
        BY DEF OneResumption
      <4>4. Places(d) <= 1 /\ Places(d) \in Nat
        BY <4>3
      <4>2. Numbers(d)
        BY <4>1, NumbersFacts
      <4> QED
        BY <2>1, <4>4, <4>2, PlacesSum DEF Numbers
    <3>4. Cardinality(A) # 0
      BY <3>2, FS_EmptySet
    <3>5. Cardinality(A) = 1
      BY <3>3, <3>4
    <3>6. A = {x}
      BY <3>2, <3>5, FS_Singleton
    <3>7. B = {}
      <4> SUFFICES ASSUME NEW y \in Queues, queue'[y].waiter = d PROVE FALSE
        OBVIOUS
      <4>1. y \notin qs /\ queue[y].waiter = d
        BY <1>1, <2>0
      <4>2. y \in A
        BY <4>1
      <4> QED
        BY <3>1, <3>6, <4>1, <4>2
    <3>8. WaitN(d) = 1 /\ WaitN(d)' = 0
      BY <2>1, <3>5, <3>7, FS_EmptySet
    <3>9. Occurs(Waiters(qs), d) = 1
      BY <2>2, <2>3 DEF One
    <3> QED
      BY <3>8, <3>9
  <2>4. CASE ~ \E x \in qs : queue[x].waiter = d
    <3>1. \A y \in Queues : queue[y].waiter = d <=> queue'[y].waiter = d
      BY <1>1, <2>0, <2>4
    <3>4. A = B
      BY <3>1
    <3>2. Occurs(Waiters(qs), d) = 0
      BY <2>2, <2>4 DEF One
    <3>3. Cardinality(A) \in Nat
      BY <2>1, Finite, FS_Subset, FS_CardinalityType
    <3>5. WaitN(d)' = WaitN(d) /\ WaitN(d) \in Nat
      BY <2>1, <3>3, <3>4
    <3> QED
      BY <3>2, <3>5
  <2> QED
    BY <2>3, <2>4
<1>3. Waiters(qs) \in Seq(Coros)
  BY CoroNames, WaitersFacts
<1>4. \A x \in Queues : /\ (queue'[x].waiter = None \/ queue'[x].waiter = queue[x].waiter)
                         /\ queue'[x].exec = queue[x].exec
  BY <1>1, <1>6
<1>5. \A d \in Coros : WaitN(d)' = WaitN(d) - Occurs(Waiters(qs), d)
  BY <1>2
<1> QED
  BY <1>6, <1>3, <1>4, <1>5 DEF Wakes

----------------------------------------------------------------------------
(* The callbacks of the watchers. *)

\* The type of an AsyncQueue.
QueueSet == [q : Seq(Values), closed : BOOLEAN, exec : Execs \cup {NoExec}, waiter : Coros \cup {None}]

\* close() of some queues;
LEMMA ClosedIs ==
  ASSUME Typed, NEW qs, qs \subseteq Queues, cmds \notin qs, queue' = ClosedLocal(qs)
  PROVE  /\ Resets(qs) /\ queue' \in [Queues -> QueueSet]
         /\ \A x \in Queues : queue'[x].q = queue[x].q
<1>1. queue \in [Queues -> QueueSet]
  BY DEF Typed, QueueSet
<1>2. queue' = [x \in Queues |-> IF x \in qs THEN [queue[x] EXCEPT !.closed = TRUE, !.waiter = None] ELSE queue[x]]
  BY DEF ClosedLocal
<1>3. ASSUME NEW x \in Queues
      PROVE  /\ queue'[x] \in QueueSet /\ queue'[x].q = queue[x].q /\ queue'[x].exec = queue[x].exec
             /\ x \in qs => queue'[x].waiter = None
             /\ x \notin qs => queue'[x] = queue[x]
  BY <1>1, <1>2 DEF QueueSet
<1>4. queue' \in [Queues -> QueueSet]
  <2>1. DOMAIN queue' = Queues /\ queue' = [x \in DOMAIN queue' |-> queue'[x]]
    BY <1>2
  <2> QED
    BY <1>3, <2>1
<1>5. Resets(qs)
  BY <1>3, QueueNames DEF Resets
<1> QED
  BY <1>3, <1>4, <1>5

\* The value v is pushed to queue q, unless it is closed.
Woken(q) == IF queue[q].closed THEN {} ELSE {q}

\* push() to one.
LEMMA PushedIs ==
  ASSUME Typed, NEW q \in Queues, q # cmds, NEW v \in Values, queue' = PushedLocal(q, v)
  PROVE  /\ Resets(Woken(q)) /\ queue' \in [Queues -> QueueSet]
         /\ \A x \in Queues : x # q => queue'[x].q = queue[x].q
         /\ (queue'[q].q = queue[q].q \/ queue'[q].q = Append(queue[q].q, v))
<1>1. queue \in [Queues -> QueueSet]
  BY DEF Typed, QueueSet
<1>2. CASE queue[q].closed
  <2>1. queue' = queue /\ Woken(q) = {}
    BY <1>2 DEF PushedLocal, Woken
  <2>2. Resets(Woken(q))
    BY <2>1 DEF Resets
  <2> QED
    BY <1>1, <2>1, <2>2
<1>3. CASE ~ queue[q].closed
  <2>1. queue' = [queue EXCEPT ![q].q = Append(@, v), ![q].waiter = None] /\ Woken(q) = {q}
    BY <1>3 DEF PushedLocal, Woken
  <2> DEFINE a == Append(queue[q].q, v)
  <2>2. a \in Seq(Values)
    BY <1>1, AppendProperties DEF QueueSet
  <2>3. queue' = [queue EXCEPT ![q].q = a, ![q].waiter = None]
    BY <2>1
  <2> HIDE DEF a
  <2>4. /\ queue' \in [Queues -> QueueSet] /\ queue'[q].q = a /\ queue'[q].waiter = None /\ queue'[q].exec = queue[q].exec
        /\ \A x \in Queues : x # q => queue'[x] = queue[x]
    BY <1>1, <2>2, <2>3 DEF QueueSet
  <2>5. Resets(Woken(q))
    BY <2>1, <2>4, QueueNames DEF Resets
  <2> QED
    BY <2>4, <2>5 DEF a
<1> QED
  BY <1>2, <1>3

\* Nothing changes for the chains but that those of w are scheduled.
LEMMA CallbackKeeps ==
  ASSUME IInv, NEW e \in Execs, NEW w, Wakes(w), Posts(e, w), queue' \in [Queues -> QueueSet],
         queue'[accepted].q \in Seq(Streams),
         UNCHANGED <<inbound, running, hand, frames, got, groupVars, send_locked, send_lock_waiters, timers, rr, roomVars>>,
         chunks' \in [Clients -> Nat \cup {-1}], watcher' \in [Clients -> {"none", "open", "closed"}],
         \A k \in Clients : /\ watcher'[k] = "none" <=> watcher[k] = "none"
                            /\ watcher'[k] = "open" => watcher[k] = "open",
         Ticketed'
  PROVE  IInv'
<1>1. /\ inbound' = inbound /\ running' = running /\ hand' = hand /\ frames' = frames /\ got' = got
      /\ active' = active /\ join_waiter' = join_waiter /\ send_locked' = send_locked
      /\ send_lock_waiters' = send_lock_waiters /\ timers' = timers /\ rr' = rr /\ clients' = clients /\ it' = it
  BY DEF groupVars, roomVars
<1>2. queue'[cmds] = queue[cmds]
      /\ \A q \in Queues : /\ (queue'[q].waiter = None \/ queue'[q].waiter = queue[q].waiter)
                           /\ queue'[q].exec = queue[q].exec
  BY DEF Wakes
<1>3. runq' \in [Execs -> Seq(Tasks)] /\ TokensStay
  BY <1>1, TokensPosts DEF Posts, Changed
<1>4. Typed'
  BY <1>1, <1>2, <1>3 DEF IInv, Typed, QueueSet
<1>5. \A d \in Coros : Places(d)' = Places(d)
  <2> SUFFICES ASSUME NEW d \in Coros PROVE Places(d)' = Places(d)
    OBVIOUS
  <2>1. Queued /\ Queued'
    BY <1>4 DEF IInv, Typed, Queued
  <2>2. RunqN(d)' = RunqN(d) + Occurs(w, d) /\ Occurs(w, d) \in Nat
    BY PostsFacts
  <2>3. WaitN(d)' = WaitN(d) - Occurs(w, d)
    BY DEF Wakes
  <2>4. /\ HandN(d)' = HandN(d) /\ RunN(d)' = RunN(d) /\ JoinN(d)' = JoinN(d)
        /\ LockN(d)' = LockN(d) /\ TimeN(d)' = TimeN(d) /\ InbN(d)' = InbN(d)
    BY <1>1, PartsSame
  <2>5. /\ Numbers(d) /\ Numbers(d)'
        /\ Places(d) = RunN(d) + HandN(d) + WaitN(d) + JoinN(d) + TimeN(d) + RunqN(d) + InbN(d) + LockN(d)
        /\ Places(d)' = RunN(d)' + HandN(d)' + WaitN(d)' + JoinN(d)' + TimeN(d)' + RunqN(d)' + InbN(d)' + LockN(d)'
    BY <2>1, PlacesAll
  <2> QED
    BY ONLY <2>2, <2>3, <2>4, <2>5 DEF Numbers
<1>6. \A k \in Clients, x \in Execs : /\ Cleaning(x, k)' => Cleaning(x, k)
                                      /\ Cleaning(x, k) => Cleaning(x, k)' \/ watcher'[k] # "open"
  BY <1>3, TokenNames DEF TokensStay, Cleaning
<1> QED
  BY <1>1, <1>2, <1>4, <1>5, <1>6, Still

\* No queue, no waiters.
LEMMA WaitersNone == Waiters({}) = <<>>
<1> DEFINE S == {queue[q].waiter : q \in {}} \ {None}
<1>1. S = {} /\ IsFiniteSet(S) /\ Cardinality(S) = 0
  <2>1. S = {}
    OBVIOUS
  <2> QED
    BY <2>1, FS_EmptySet
<1>2. SetToSeq(S) \in Seq(S) /\ Len(SetToSeq(S)) = 0
  BY <1>1, SetToSeqFacts
<1> HIDE DEF S
<1>3. SetToSeq(S) = <<>>
  BY <1>2, EmptySeq
<1> QED
  BY <1>3 DEF Waiters, S

\* Nobody is woken up;
LEMMA NoneWakes ==
  ASSUME Typed, OneResumption, queue' = queue
  PROVE  Wakes(<<>>) /\ queue' \in [Queues -> QueueSet]
<1>1. Resets({})
  BY DEF Resets
<1>2. Wakes(Waiters({}))
  BY <1>1, ResetsWake
<1> QED
  BY <1>2, WaitersNone DEF Typed, QueueSet

\* push() wakes up the waiter of that queue;
LEMMA PushWakes ==
  ASSUME Typed, OneResumption, NEW q \in Queues, q # cmds, NEW v \in Values, queue' = PushedLocal(q, v)
  PROVE  /\ Wakes(WokenLocal(q)) /\ queue' \in [Queues -> QueueSet]
         /\ \A x \in Queues : x # q => queue'[x].q = queue[x].q
         /\ (queue'[q].q = queue[q].q \/ queue'[q].q = Append(queue[q].q, v))
<1>1. /\ Resets(Woken(q)) /\ queue' \in [Queues -> QueueSet]
      /\ \A x \in Queues : x # q => queue'[x].q = queue[x].q
      /\ (queue'[q].q = queue[q].q \/ queue'[q].q = Append(queue[q].q, v))
  BY PushedIs
<1>2. Woken(q) \subseteq Queues /\ Woken(q) \subseteq {q, q}
  BY DEF Woken
<1>3. Resets(Woken(q))
  BY <1>1
<1>4. Wakes(Waiters(Woken(q)))
  BY <1>2, <1>3, ResetsWake
<1>5. Waiters(Woken(q)) = WokenLocal(q)
  BY WaitersNone DEF Woken, WokenLocal
<1> QED
  BY <1>1, <1>4, <1>5

\* close() those of all it closes.
LEMMA CloseWakes ==
  ASSUME Typed, OneResumption, NEW qs, NEW q \in Queues, NEW r \in Queues, qs \subseteq {q, r}, cmds \notin qs,
         queue' = ClosedLocal(qs)
  PROVE  /\ Wakes(Waiters(qs)) /\ queue' \in [Queues -> QueueSet]
         /\ \A x \in Queues : queue'[x].q = queue[x].q
<1>1. qs \subseteq Queues
  OBVIOUS
<1>2. /\ Resets(qs) /\ queue' \in [Queues -> QueueSet]
      /\ \A x \in Queues : queue'[x].q = queue[x].q
  BY <1>1, ClosedIs
<1>3. Resets(qs)
  BY <1>2
<1>4. Wakes(Waiters(qs))
  BY <1>1, <1>3, ResetsWake
<1> QED
  BY <1>2, <1>4

\* Nobody is given a ticket, and none is used up.
LEMMA StillTicketed ==
  ASSUME IInv, runq' \in [Execs -> Seq(Tasks)], inbound' \in [Execs -> Seq(Tasks)],
         send_lock_waiters' \in [Clients -> Seq(Coros)], TokensStay,
         queue'[accepted].q = queue[accepted].q, got'[Main] = got[Main],
         \A k \in Clients : watcher'[k] = "none" <=> watcher[k] = "none",
         \A k \in Clients : chunks'[k] = -1 => chunks[k] = -1
  PROVE  Ticketed'
<1>1. Queued /\ Queued' /\ queue[accepted].q \in Seq(Streams)
  BY DEF IInv, Typed, Queued
<1>2. \A k \in Clients : Tickets(k)' = Tickets(k)
  BY <1>1, TicketsSame
<1> QED
  BY <1>2, TicketedStays DEF IInv

\* The listener fails, and serveRoundRobin() is told.
LEMMA OnAcceptErrorKeeps ==
  ASSUME IInv, OnAcceptError, UNCHANGED roomVars
  PROVE  IInv'
<1> DEFINE w == Waiters({accepted})
<1>1. queue' = ClosedLocal({accepted}) /\ runq' = [runq EXCEPT ![0] = @ \o w]
  BY DEF OnAcceptError
<1>2. Typed /\ OneResumption /\ runq \in [Execs -> Seq(Tasks)] /\ accepted \in Queues /\ cmds \notin {accepted}
  BY QueueNames DEF IInv, Typed
<1>3. 0 \in Execs
  BY TcpAssumption
<1>4. Wakes(w) /\ queue' \in [Queues -> QueueSet] /\ queue'[accepted].q = queue[accepted].q
  BY <1>1, <1>2, CloseWakes
<1> HIDE DEF w
<1>5. w \in Seq(Coros)
  BY <1>4 DEF Wakes
<1>6. Posts(0, w)
  BY <1>1, <1>2, <1>3, <1>5, PostsSome
<1>7. UNCHANGED <<inbound, running, hand, frames, got, groupVars, send_locked, send_lock_waiters, timers, rr, roomVars>>
      /\ chunks' = chunks /\ watcher' = watcher
  BY DEF OnAcceptError, streamVars
<1>8. TokensStay /\ runq' \in [Execs -> Seq(Tasks)]
  BY <1>6, <1>7, TokensPosts DEF Posts, Changed
<1>9. Ticketed'
  BY <1>4, <1>7, <1>8, StillTicketed DEF IInv, Typed
<1>10. queue'[accepted].q \in Seq(Streams)
  BY <1>4 DEF IInv, Typed
<1>11. chunks' \in [Clients -> Nat \cup {-1}] /\ watcher' \in [Clients -> {"none", "open", "closed"}]
  BY <1>7 DEF IInv, Typed
<1>12. \A k \in Clients : /\ watcher'[k] = "none" <=> watcher[k] = "none"
                          /\ watcher'[k] = "open" => watcher[k] = "open"
  BY <1>7
<1> QED
  BY <1>3, <1>4, <1>6, <1>7, <1>9, <1>10, <1>11, <1>12, CallbackKeeps

\* The values that the steps push.
LEMMA ValuesAre ==
  /\ Chunks \subseteq Values /\ <<"ready", 0>> \in Values /\ <<"msg", 0>> \in Values /\ <<"say", 0>> \in Values
  /\ \A k \in Clients : /\ <<"stream", k>> \in Streams /\ <<"stream", k>> \in Values
                        /\ <<"join", k>> \in Commands /\ <<"leave", k>> \in Commands
                        /\ <<"join", k>> \in Values /\ <<"leave", k>> \in Values
  /\ <<"say", 0>> \in Commands
BY DEF Values, Streams, Commands

\* A callback that closes or pushes to queues of client k.
LEMMA StreamCallback ==
  ASSUME IInv, NEW e \in Execs, NEW w, Wakes(w), queue' \in [Queues -> QueueSet],
         runq' = [runq EXCEPT ![e] = @ \o w],
         queue'[accepted].q = queue[accepted].q,
         UNCHANGED <<inbound, running, hand, frames, got, groupVars, send_locked, send_lock_waiters, timers, rr, roomVars>>,
         chunks' \in [Clients -> Nat \cup {-1}], watcher' \in [Clients -> {"none", "open", "closed"}],
         \A k \in Clients : /\ watcher'[k] = "none" <=> watcher[k] = "none"
                            /\ watcher'[k] = "open" => watcher[k] = "open",
         \A k \in Clients : chunks'[k] = -1 => chunks[k] = -1
  PROVE  IInv'
<1>1. w \in Seq(Coros) /\ runq \in [Execs -> Seq(Tasks)]
  BY DEF Wakes, IInv, Typed
<1>2. Posts(e, w)
  BY <1>1, PostsSome
<1>3. inbound' = inbound /\ send_lock_waiters' = send_lock_waiters /\ got'[Main] = got[Main]
  OBVIOUS
<1>4. TokensStay /\ runq' \in [Execs -> Seq(Tasks)]
  BY <1>2, <1>3, TokensPosts DEF Posts, Changed
<1>5. inbound' \in [Execs -> Seq(Tasks)] /\ send_lock_waiters' \in [Clients -> Seq(Coros)]
  BY <1>3 DEF IInv, Typed
<1>6. Ticketed'
  BY <1>3, <1>4, <1>5, StillTicketed
<1>7. queue'[accepted].q \in Seq(Streams)
  BY DEF IInv, Typed
<1> QED
  BY <1>2, <1>6, <1>7, CallbackKeeps

\* Data of client k is received.
LEMMA OnRecvKeeps ==
  ASSUME IInv, NEW e \in Execs, NEW k \in Clients, OnRecv(e, k, Alive), UNCHANGED roomVars
  PROVE  IInv'
<1>1. Typed /\ OneResumption /\ recv_q(k) \in Queues /\ recv_q(k) # cmds /\ recv_q(k) # accepted
  BY QueueNames DEF IInv
<1>2. UNCHANGED <<inbound, running, hand, frames, got, groupVars, send_locked, send_lock_waiters, timers, rr, roomVars>>
      /\ watcher' = watcher
  BY DEF OnRecv, streamVars
<1>3. /\ chunks' \in [Clients -> Nat \cup {-1}]
      /\ \A j \in Clients : chunks'[j] = -1 => chunks[j] = -1
  <2>1. chunks \in [Clients -> Nat \cup {-1}] /\ chunks' = [chunks EXCEPT ![k] = @ + 1]
    BY <1>1 DEF OnRecv, Typed
  <2>2. chunks[k] # -1
    BY DEF OnRecv, IInv, Ticketed
  <2> QED
    BY <2>1, <2>2
<1>4. /\ watcher' \in [Clients -> {"none", "open", "closed"}]
      /\ \A j \in Clients : /\ watcher'[j] = "none" <=> watcher[j] = "none"
                            /\ watcher'[j] = "open" => watcher[j] = "open"
  BY <1>1, <1>2 DEF Typed
<1>5. CASE k \in Alive
  <2>1. PICK v \in Chunks : queue' = PushedLocal(recv_q(k), v)
    BY <1>5 DEF OnRecv
  <2>2. v \in Values
    BY ValuesAre
  <2> DEFINE w == WokenLocal(recv_q(k))
             q == recv_q(k)
  <2>3. Wakes(w) /\ queue' \in [Queues -> QueueSet] /\ \A x \in Queues : x # q => queue'[x].q = queue[x].q
    BY <1>1, <2>1, <2>2, PushWakes
  <2>4. runq' = [runq EXCEPT ![e] = @ \o w]
    BY <1>5 DEF OnRecv
  <2>5. queue'[accepted].q = queue[accepted].q
    BY <1>1, <2>3, QueueNames
  <2> HIDE DEF w, q
  <2>6. Wakes(w) /\ queue' \in [Queues -> QueueSet]
    BY <2>3
  <2> QED
    BY <1>2, <1>3, <1>4, <2>4, <2>5, <2>6, StreamCallback
<1>6. CASE k \notin Alive
  <2> DEFINE w == <<>>
  <2>1. queue' = queue /\ runq' = runq
    BY <1>6 DEF OnRecv
  <2>2. Wakes(w) /\ queue' \in [Queues -> QueueSet]
    BY <1>1, <2>1, NoneWakes
  <2>3. runq' = [runq EXCEPT ![e] = @ \o w]
    <3>1. runq \in [Execs -> Seq(Tasks)]
      BY <1>1 DEF Typed
    <3>2. runq[e] \o <<>> = runq[e]
      BY <3>1, ConcatEmptySeq
    <3> QED
      BY <2>1, <3>1, <3>2
  <2>4. queue'[accepted].q = queue[accepted].q
    BY <2>1
  <2> HIDE DEF w
  <2> QED
    BY <1>2, <1>3, <1>4, <2>2, <2>3, <2>4, StreamCallback
<1> QED
  BY <1>5, <1>6

\* The socket of client k takes data again.
LEMMA OnSendReadyKeeps ==
  ASSUME IInv, NEW e \in Execs, NEW k \in Clients, OnSendReady(e, k, Alive), UNCHANGED roomVars
  PROVE  IInv'
<1>1. Typed /\ OneResumption /\ send_ready_q(k) \in Queues /\ send_ready_q(k) # cmds /\ send_ready_q(k) # accepted
  BY QueueNames DEF IInv
<1>2. UNCHANGED <<inbound, running, hand, frames, got, groupVars, send_locked, send_lock_waiters, timers, rr, roomVars>>
      /\ watcher' = watcher /\ chunks' = chunks
  BY DEF OnSendReady
<1>3. /\ chunks' \in [Clients -> Nat \cup {-1}]
      /\ \A j \in Clients : chunks'[j] = -1 => chunks[j] = -1
  BY <1>1, <1>2 DEF Typed
<1>4. /\ watcher' \in [Clients -> {"none", "open", "closed"}]
      /\ \A j \in Clients : /\ watcher'[j] = "none" <=> watcher[j] = "none"
                            /\ watcher'[j] = "open" => watcher[j] = "open"
  BY <1>1, <1>2 DEF Typed
<1>5. CASE k \in Alive
  <2> DEFINE v == <<"ready", 0>>
  <2>1. queue' = PushedLocal(send_ready_q(k), v)
    BY <1>5 DEF OnSendReady
  <2>2. v \in Values
    BY ValuesAre
  <2> DEFINE w == WokenLocal(send_ready_q(k))
             q == send_ready_q(k)
  <2> HIDE DEF v
  <2>3. Wakes(w) /\ queue' \in [Queues -> QueueSet] /\ \A x \in Queues : x # q => queue'[x].q = queue[x].q
    BY <1>1, <2>1, <2>2, PushWakes
  <2>4. runq' = [runq EXCEPT ![e] = @ \o w]
    BY <1>5 DEF OnSendReady
  <2>5. queue'[accepted].q = queue[accepted].q
    BY <1>1, <2>3, QueueNames
  <2> HIDE DEF w, q
  <2>6. Wakes(w) /\ queue' \in [Queues -> QueueSet]
    BY <2>3
  <2> QED
    BY <1>2, <1>3, <1>4, <2>4, <2>5, <2>6, StreamCallback
<1>6. CASE k \notin Alive
  <2> DEFINE w == <<>>
  <2>1. queue' = queue /\ runq' = runq
    BY <1>6 DEF OnSendReady
  <2>2. Wakes(w) /\ queue' \in [Queues -> QueueSet]
    BY <1>1, <2>1, NoneWakes
  <2>3. runq' = [runq EXCEPT ![e] = @ \o w]
    <3>1. runq \in [Execs -> Seq(Tasks)]
      BY <1>1 DEF Typed
    <3>2. runq[e] \o <<>> = runq[e]
      BY <3>1, ConcatEmptySeq
    <3> QED
      BY <2>1, <3>1, <3>2
  <2>4. queue'[accepted].q = queue[accepted].q
    BY <2>1
  <2> HIDE DEF w
  <2> QED
    BY <1>2, <1>3, <1>4, <2>2, <2>3, <2>4, StreamCallback
<1> QED
  BY <1>5, <1>6

\* The connection of client k is closed.
LEMMA OnCloseKeeps ==
  ASSUME IInv, NEW e \in Execs, NEW k \in Clients, OnClose(e, k, Alive), UNCHANGED roomVars
  PROVE  IInv'
<1> DEFINE qs == IF k \in Alive THEN {recv_q(k), send_ready_q(k)} ELSE {}
           w == Waiters(qs)
<1>1. /\ Typed /\ OneResumption /\ recv_q(k) \in Queues /\ send_ready_q(k) \in Queues
      /\ qs \subseteq {recv_q(k), send_ready_q(k)} /\ cmds \notin qs
  BY QueueNames DEF IInv
<1>2. UNCHANGED <<inbound, running, hand, frames, got, groupVars, send_locked, send_lock_waiters, timers, rr, roomVars>>
      /\ chunks' = chunks
  BY DEF OnClose
<1>3. /\ chunks' \in [Clients -> Nat \cup {-1}]
      /\ \A j \in Clients : chunks'[j] = -1 => chunks[j] = -1
  BY <1>1, <1>2 DEF Typed
<1>4. /\ watcher' \in [Clients -> {"none", "open", "closed"}]
      /\ \A j \in Clients : /\ watcher'[j] = "none" <=> watcher[j] = "none"
                            /\ watcher'[j] = "open" => watcher[j] = "open"
  BY <1>1 DEF Typed, OnClose, CloseWatcher
<1>5. queue' = ClosedLocal(qs) /\ runq' = [runq EXCEPT ![e] = @ \o w]
  BY DEF OnClose
<1> HIDE DEF qs
<1>6. Wakes(w) /\ queue' \in [Queues -> QueueSet] /\ \A x \in Queues : queue'[x].q = queue[x].q
  BY <1>1, <1>5, CloseWakes
<1>7. queue'[accepted].q = queue[accepted].q
  BY <1>6, QueueNames
<1> HIDE DEF w
<1>8. Wakes(w) /\ queue' \in [Queues -> QueueSet] /\ runq' = [runq EXCEPT ![e] = @ \o w]
  BY <1>5, <1>6
<1> QED
  BY <1>2, <1>3, <1>4, <1>7, <1>8, StreamCallback

----------------------------------------------------------------------------
(* A connection is accepted; a stream that was dropped elsewhere is closed. *)

\* A client that connects has one ticket: in the queue of accepted streams, at most.
LEMMA AcceptTickets ==
  ASSUME IInv, NEW k \in Clients, chunks[k] = -1, NEW e, NEW w, Posts(e, w),
         UNCHANGED <<inbound, got, watcher>>,
         queue'[accepted].q = queue[accepted].q \/ queue'[accepted].q = Append(queue[accepted].q, <<"stream", k>>),
         chunks' = [chunks EXCEPT ![k] = 0]
  PROVE  Ticketed'
<1>1. queue[accepted].q \in Seq(Streams) /\ chunks \in [Clients -> Nat \cup {-1}] /\ <<"stream", k>> \in Streams
      /\ runq \in [Execs -> Seq(Tasks)] /\ inbound \in [Execs -> Seq(Tasks)]
  BY ValuesAre DEF IInv, Typed
<1>2. Ticketed
  BY DEF IInv
<1> SUFFICES ASSUME NEW j \in Clients
             PROVE  /\ Tickets(j)' <= 1
                    /\ watcher'[j] # "none" => Tickets(j)' = 0
                    /\ chunks'[j] = -1 => watcher'[j] = "none" /\ Tickets(j)' = 0
  BY DEF Ticketed
<1> DEFINE s == <<"start", j>>
           v == <<"stream", k>>
           u == <<"stream", j>>
<1>3. RunqN(s)' = RunqN(s)
  <2>1. s \notin Coros
    BY NotCoros
  <2>2. RunqN(s) \in Nat
    BY <1>1, RunqSome
  <2>3. RunqN(s)' = RunqN(s) + Occurs(w, s) /\ Occurs(w, s) = 0
    BY <2>1, PostsFacts
  <2> QED
    BY <2>2, <2>3
<1>4. InbN(s)' = InbN(s) /\ got'[Main] = got[Main] /\ watcher' = watcher
  BY DEF InbN
<1>5. v = u <=> k = j
  OBVIOUS
<1>5a. v \in Streams /\ queue[accepted].q \in Seq(Streams)
  BY <1>1
<1>6. /\ Tickets(j) = Occurs(queue[accepted].q, u) + One(got[Main] = u) + RunqN(s) + InbN(s)
      /\ Tickets(j)' = Occurs(queue'[accepted].q, u) + One(got'[Main] = u) + RunqN(s)' + InbN(s)'
  BY TicketsParts
<1>7. RunqN(s) \in Nat /\ InbN(s) \in Nat /\ One(got[Main] = u) \in Nat
  BY <1>1, RunqSome, InbSome DEF One
<1> HIDE DEF s, v, u
<1>8. Occurs(queue[accepted].q, u) \in Nat
  BY <1>1, OccursFacts
<1>9. Occurs(queue'[accepted].q, u) = Occurs(queue[accepted].q, u)
      \/ Occurs(queue'[accepted].q, u) = Occurs(queue[accepted].q, u) + One(v = u)
  <2>1. Occurs(Append(queue[accepted].q, v), u) = Occurs(queue[accepted].q, u) + One(v = u)
    BY ONLY <1>5a, OccursAppend
  <2>2. queue'[accepted].q = queue[accepted].q \/ queue'[accepted].q = Append(queue[accepted].q, v)
    BY DEF v
  <2>3. CASE queue'[accepted].q = queue[accepted].q
    BY ONLY <2>3
  <2>4. CASE queue'[accepted].q = Append(queue[accepted].q, v)
    BY ONLY <2>1, <2>4
  <2> QED
    BY ONLY <2>2, <2>3, <2>4
<1>10. CASE j = k
  <2>1. Tickets(j) = 0 /\ watcher[j] = "none"
    BY <1>2, <1>10 DEF Ticketed
  <2>2. chunks'[j] # -1
    BY <1>1, <1>10
  <2>3. One(v = u) \in {0, 1}
    BY DEF One
  <2>4. Tickets(j)' <= 1
    BY <1>3, <1>4, <1>6, <1>7, <1>8, <1>9, <2>1, <2>3
  <2> QED
    BY <1>4, <2>1, <2>2, <2>4
<1>11. CASE j # k
  <2>1. One(v = u) = 0
    BY <1>5, <1>11 DEF One
  <2>2. Tickets(j)' = Tickets(j)
    BY <1>3, <1>4, <1>6, <1>7, <1>8, <1>9, <2>1
  <2>3. chunks'[j] = chunks[j]
    BY <1>1, <1>11
  <2> QED
    BY <1>2, <1>4, <2>2, <2>3 DEF Ticketed
<1> QED
  BY <1>10, <1>11

\* Client k connects.
LEMMA OnAcceptKeeps ==
  ASSUME IInv, NEW k \in Clients, OnAccept(k), UNCHANGED roomVars
  PROVE  IInv'
<1> DEFINE v == <<"stream", k>>
           w == WokenLocal(accepted)
           e == 0
<1>1. Typed /\ OneResumption /\ accepted \in Queues /\ accepted # cmds /\ v \in Values /\ v \in Streams
  BY QueueNames, ValuesAre DEF IInv
<1>2. /\ UNCHANGED <<inbound, running, hand, frames, got, groupVars, send_locked, send_lock_waiters, timers, rr, roomVars>>
      /\ watcher' = watcher /\ got' = got /\ inbound' = inbound
  BY DEF OnAccept, streamVars
<1>3. queue' = PushedLocal(accepted, v) /\ runq' = [runq EXCEPT ![e] = @ \o w]
      /\ chunks[k] = -1 /\ chunks' = [chunks EXCEPT ![k] = 0]
  BY DEF OnAccept
<1>4. e \in Execs
  BY TcpAssumption
<1>5. /\ Wakes(w) /\ queue' \in [Queues -> QueueSet]
      /\ queue'[accepted].q = queue[accepted].q \/ queue'[accepted].q = Append(queue[accepted].q, v)
  BY <1>1, <1>3, PushWakes
<1> HIDE DEF w, e
<1>6. w \in Seq(Coros) /\ runq \in [Execs -> Seq(Tasks)]
  BY <1>1, <1>5 DEF Wakes, Typed
<1>7. Posts(e, w)
  BY <1>3, <1>4, <1>6, PostsSome
<1>8. Ticketed'
  BY <1>2, <1>3, <1>5, <1>7, AcceptTickets
<1>9. queue'[accepted].q \in Seq(Streams)
  <2>1. queue[accepted].q \in Seq(Streams)
    BY <1>1 DEF Typed
  <2> HIDE DEF v
  <2>2. Append(queue[accepted].q, v) \in Seq(Streams)
    BY <1>1, <2>1
  <2> QED
    BY <1>5, <2>1, <2>2
<1>10. chunks' \in [Clients -> Nat \cup {-1}] /\ watcher' \in [Clients -> {"none", "open", "closed"}]
  BY <1>1, <1>2, <1>3 DEF Typed
<1>11. \A j \in Clients : /\ watcher'[j] = "none" <=> watcher[j] = "none"
                          /\ watcher'[j] = "open" => watcher[j] = "open"
  BY <1>2
<1>12. Wakes(w) /\ queue' \in [Queues -> QueueSet]
  BY <1>5
<1> QED
  BY <1>2, <1>4, <1>7, <1>8, <1>9, <1>10, <1>11, <1>12, CallbackKeeps

\* A token at the head of the private tasks is not a chain.
LEMMA TokenTaken ==
  ASSUME NEW e, Takes(e), NEW r \in {"start", "cleanup"}, Head(runq[e])[1] = r
  PROVE  \E k \in Clients : Head(runq[e]) = <<r, k>> /\ k = Head(runq[e])[2]
<1> DEFINE t == Head(runq[e])
<1>1. t \in Tasks
  BY TakesFacts
<1>2. t[1] = r
  OBVIOUS
<1> HIDE DEF t
<1>3. t \notin Coros
  BY <1>2, NotCoros
<1>4. t \in {"start", "cleanup"} \X Clients
  BY <1>1, <1>3 DEF Tasks
<1> QED
  BY <1>2, <1>4 DEF t

\* The task of a stream that was dropped on another worker.
LEMMA CleanupKeeps ==
  ASSUME IInv, NEW e \in Execs, Cleanup(e), UNCHANGED roomVars
  PROVE  IInv'
<1>1. /\ runq[e] # <<>> /\ runq' = [runq EXCEPT ![e] = Tail(@)] /\ Head(runq[e])[1] = "cleanup"
      /\ watcher' = [watcher EXCEPT ![Head(runq[e])[2]] = "closed"]
  BY DEF Cleanup, CloseWatcher
<1>2. /\ inbound' = inbound /\ running' = running /\ hand' = hand /\ frames' = frames /\ got' = got
      /\ queue' = queue /\ active' = active /\ join_waiter' = join_waiter /\ send_locked' = send_locked
      /\ send_lock_waiters' = send_lock_waiters /\ timers' = timers /\ rr' = rr /\ chunks' = chunks
      /\ clients' = clients /\ it' = it
  BY DEF Cleanup, groupVars, roomVars
<1>3. runq \in [Execs -> Seq(Tasks)] /\ inbound \in [Execs -> Seq(Tasks)]
      /\ watcher \in [Clients -> {"none", "open", "closed"}]
      /\ send_lock_waiters \in [Clients -> Seq(Coros)]
  BY DEF IInv, Typed
<1>4. Takes(e)
  BY <1>1, <1>3, TakesIs
<1>5. PICK k \in Clients : Head(runq[e]) = <<"cleanup", k>> /\ k = Head(runq[e])[2]
  BY <1>1, <1>4, TokenTaken
<1>6. watcher[k] # "none"
  <2>1. Among(runq[e], <<"cleanup", k>>)
    BY <1>4, <1>5, TakesFacts
  <2> QED
    BY <2>1 DEF IInv, Known
<1>7. /\ watcher' \in [Clients -> {"none", "open", "closed"}]
      /\ \A j \in Clients : /\ watcher'[j] = "none" <=> watcher[j] = "none"
                            /\ watcher'[j] = "open" => watcher[j] = "open"
      /\ watcher'[k] = "closed"
  BY <1>1, <1>3, <1>5, <1>6
<1>8. runq' \in [Execs -> Seq(Tasks)]
  BY <1>4, TakesFacts
<1>9. Typed'
  BY <1>2, <1>7, <1>8 DEF IInv, Typed
<1>10. ASSUME NEW t, t # <<"cleanup", k>>
       PROVE  RunqN(t)' = RunqN(t)
  <2>1. One(Head(runq[e]) = t) = 0
    BY <1>5, <1>10, OneIs
  <2>2. RunqN(t) \in Nat /\ RunqN(t)' = RunqN(t) - One(Head(runq[e]) = t)
    BY <1>3, <1>4, TakesFacts, RunqSome
  <2> QED
    BY <2>1, <2>2
<1>11. ASSUME NEW d \in Coros PROVE Places(d)' = Places(d)
  <2>1. /\ Numbers(d) /\ Numbers(d)'
        /\ Places(d) = RunN(d) + HandN(d) + WaitN(d) + JoinN(d) + TimeN(d) + RunqN(d) + InbN(d) + LockN(d)
        /\ Places(d)' = RunN(d)' + HandN(d)' + WaitN(d)' + JoinN(d)' + TimeN(d)' + RunqN(d)' + InbN(d)' + LockN(d)'
    BY <1>9, PlacesAll DEF IInv, Typed, Queued
  <2>2. RunqN(d)' = RunqN(d)
    BY <1>10, NotCoros
  <2>3. /\ HandN(d)' = HandN(d) /\ WaitN(d)' = WaitN(d) /\ JoinN(d)' = JoinN(d) /\ RunN(d)' = RunN(d)
        /\ TimeN(d)' = TimeN(d) /\ InbN(d)' = InbN(d) /\ LockN(d)' = LockN(d)
    BY <1>2, PartsSame
  <2> QED
    BY <2>1, <2>2, <2>3
<1>12. Ticketed'
  <2>1. ASSUME NEW j \in Clients PROVE Tickets(j)' = Tickets(j)
    <3>1. RunqN(<<"start", j>>)' = RunqN(<<"start", j>>)
      BY <1>10
    <3>2. InbN(<<"start", j>>)' = InbN(<<"start", j>>)
      BY <1>2 DEF InbN
    <3> QED
      BY <1>2, <3>1, <3>2, TicketsParts
  <2> QED
    BY <1>2, <1>7, <2>1, TicketedStays DEF IInv
<1>13. ASSUME NEW j \in Clients, NEW x \in Execs
       PROVE  /\ Cleaning(x, j)' => Cleaning(x, j)
              /\ Cleaning(x, j) => Cleaning(x, j)' \/ watcher'[j] # "open"
  <2>1. Among(runq'[x], <<"cleanup", j>>) => Among(runq[x], <<"cleanup", j>>)
    BY <1>4, TakesFacts
  <2>2. j # k => (Among(runq[x], <<"cleanup", j>>) => Among(runq'[x], <<"cleanup", j>>))
    <3>1. j # k => Head(runq[e]) # <<"cleanup", j>>
      BY <1>5
    <3> QED
      BY <1>4, <3>1, TakesFacts
  <2>3. inbound' = inbound
    BY <1>2
  <2> QED
    BY <1>7, <2>1, <2>2, <2>3 DEF Cleaning
<1> QED
  BY <1>2, <1>7, <1>9, <1>11, <1>12, <1>13, Still

----------------------------------------------------------------------------
(* The lock is passed on, or is free. *)

\* The lock of stream k goes to the first chain that queues for it, if any: nx.
Unlocks(k, nx) ==
  /\ Changed(send_lock_waiters, send_lock_waiters', Clients, Coros, k)
  /\ \/ /\ send_lock_waiters[k] = <<>> /\ send_lock_waiters'[k] = <<>> /\ nx = <<>>
        /\ send_locked' = send_locked \ {k}
     \/ /\ send_lock_waiters[k] # <<>> /\ send_lock_waiters'[k] = Tail(send_lock_waiters[k])
        /\ nx = <<Head(send_lock_waiters[k])>> /\ send_locked' = send_locked

\* unlockSend() passes the lock on to the first in the queue;
LEMMA UnlocksIs ==
  ASSUME Typed, NEW k \in Clients, unlockSend(k), NEW nx,
         nx = IF send_lock_waiters[k] = <<>> THEN <<>> ELSE <<Head(send_lock_waiters[k])>>
  PROVE  Unlocks(k, nx)
<1>1. send_lock_waiters \in [Clients -> Seq(Coros)] /\ IsFiniteSet(Clients)
  BY Finite DEF Typed
<1>2. CASE send_lock_waiters[k] = <<>>
  <2>1. send_lock_waiters' = send_lock_waiters /\ send_locked' = send_locked \ {k} /\ nx = <<>>
    BY <1>2 DEF unlockSend
  <2>2. Changed(send_lock_waiters, send_lock_waiters', Clients, Coros, k)
    BY <1>1, <2>1 DEF Changed
  <2> QED
    BY <1>2, <2>1, <2>2 DEF Unlocks
<1>3. CASE send_lock_waiters[k] # <<>>
  <2>1. /\ send_lock_waiters' = [send_lock_waiters EXCEPT ![k] = Tail(@)] /\ send_locked' = send_locked
        /\ nx = <<Head(send_lock_waiters[k])>>
    BY <1>3 DEF unlockSend
  <2>2. Tail(send_lock_waiters[k]) \in Seq(Coros)
    BY <1>1, <1>3, OccursTail
  <2>3. Changed(send_lock_waiters, send_lock_waiters', Clients, Coros, k)
    BY <1>1, <2>1, <2>2 DEF Changed
  <2>4. send_lock_waiters'[k] = Tail(send_lock_waiters[k])
    BY <1>1, <2>1
  <2> QED
    BY <1>3, <2>1, <2>3, <2>4 DEF Unlocks
<1> QED
  BY <1>2, <1>3

\* who is then one less there.
LEMMA UnlocksFacts ==
  ASSUME NEW k, NEW nx, Unlocks(k, nx), NEW t
  PROVE  /\ send_lock_waiters' \in [Clients -> Seq(Coros)] /\ k \in Clients /\ nx \in Seq(Coros)
         /\ LockN(t)' = LockN(t) - Occurs(nx, t) /\ Occurs(nx, t) \in Nat
         /\ send_locked' \subseteq send_locked
<1>1. Changed(send_lock_waiters, send_lock_waiters', Clients, Coros, k)
  BY DEF Unlocks
<1>2. /\ send_lock_waiters' \in [Clients -> Seq(Coros)] /\ k \in Clients /\ send_lock_waiters \in [Clients -> Seq(Coros)]
      /\ send_locked' \subseteq send_locked
  BY <1>1 DEF Changed, Unlocks
<1> DEFINE f == send_lock_waiters
           g == send_lock_waiters'
<1>3. CASE f[k] = <<>> /\ g[k] = <<>> /\ nx = <<>>
  <2>1. Occurs(nx, t) = 0 /\ Occurs(f[k], t) = 0 /\ Occurs(g[k], t) = 0
    BY <1>3, OccursNone
  <2>2. InQueues(g, Clients, t) = InQueues(f, Clients, t) - Occurs(f[k], t) + Occurs(g[k], t)
        /\ InQueues(f, Clients, t) \in Nat
    BY <1>1, InQueuesChange
  <2>3. LockN(t)' = LockN(t) - Occurs(nx, t)
    BY <2>1, <2>2 DEF LockN
  <2>4. nx \in Seq(Coros)
    BY <1>3
  <2> QED
    BY <1>2, <2>1, <2>3, <2>4
<1>4. CASE f[k] # <<>> /\ g[k] = Tail(f[k]) /\ nx = <<Head(f[k])>>
  <2>1. Head(f[k]) \in Coros
    BY <1>2, <1>4, OccursTail
  <2>2. nx \in Seq(Coros)
    BY <1>4, <2>1
  <2>3. Occurs(nx, t) = One(Head(f[k]) = t)
    BY <1>4, OccursOne
  <2>4. InQueues(g, Clients, t) = InQueues(f, Clients, t) - One(Head(f[k]) = t)
    BY <1>1, <1>4, InQueuesTake
  <2> QED
    BY <1>2, <2>2, <2>3, <2>4 DEF LockN, One
<1> QED
  BY <1>3, <1>4 DEF Unlocks

\* Who still queues for a lock, and who no longer does.
LEMMA UnlocksAmong ==
  ASSUME NEW k, NEW nx, Unlocks(k, nx), NEW t, NEW j \in Clients
  PROVE  /\ Among(send_lock_waiters'[j], t) => Among(send_lock_waiters[j], t)
         /\ Among(send_lock_waiters[j], t) => Among(send_lock_waiters'[j], t) \/ (j = k /\ nx = <<t>>)
<1>1. Changed(send_lock_waiters, send_lock_waiters', Clients, Coros, k)
  BY DEF Unlocks
<1>2. CASE j # k
  BY <1>1, <1>2 DEF Changed
<1>3. CASE j = k
  <2>1. send_lock_waiters[k] \in Seq(Coros)
    BY <1>1 DEF Changed
  <2>2. CASE send_lock_waiters[k] = <<>> /\ send_lock_waiters'[k] = <<>>
    BY <1>3, <2>2
  <2>3. CASE send_lock_waiters[k] # <<>> /\ send_lock_waiters'[k] = Tail(send_lock_waiters[k]) /\ nx = <<Head(send_lock_waiters[k])>>
    <3>1. /\ Among(Tail(send_lock_waiters[k]), t) => Among(send_lock_waiters[k], t)
          /\ Head(send_lock_waiters[k]) # t => (Among(send_lock_waiters[k], t) => Among(Tail(send_lock_waiters[k]), t))
      BY <2>1, <2>3, AmongTail
    <3> QED
      BY <1>3, <2>3, <3>1
  <2> QED
    BY <2>2, <2>3 DEF Unlocks
<1> QED
  BY <1>2, <1>3

\* The owner gives the lock up, and at most one of those that queue for it gets it.
LEMMA LocksPass ==
  ASSUME IInv, NEW k, NEW nx, Unlocks(k, nx), NEW c \in Coros, NEW s, Owner(c, k), s # <<>>,
         frames'[c] = s, \A d \in Coros : d # c => frames'[d] = frames[d],
         \A j \in Clients : ~ Sends(s, j) /\ Head(s) # Frame("locked", j)
  PROVE  Locks'
<1>0. k \in Clients /\ Locks
  BY UnlocksFacts DEF IInv
<1>1. ASSUME NEW j \in Clients, NEW d \in Coros, Owner(d, j)'
      PROVE  d # c /\ (j # k => Owner(d, j)) /\ (j = k => nx = <<d>>)
  <2>1. d # c
    <3>1. ASSUME d = c PROVE FALSE
      <4>1. Sends(s, j) \/ (s # <<>> /\ Head(s) = Frame("locked", j))
        BY <1>1, <3>1, OwnerMoved
      <4> QED
        BY <4>1
    <3> QED
      BY <3>1
  <2>2. frames'[d] = frames[d]
    BY <2>1
  <2>3. CASE Among(send_lock_waiters[j], d) => Among(send_lock_waiters'[j], d)
    <3>1. Owner(d, j)
      BY <1>1, <2>2, <2>3, OwnerElsewhere
    <3>2. j # k
      BY <1>0, <2>1, <3>1 DEF Locks
    <3> QED
      BY <2>1, <3>1, <3>2
  <2>4. CASE ~ (Among(send_lock_waiters[j], d) => Among(send_lock_waiters'[j], d))
    <3>1. j = k /\ nx = <<d>>
      BY <2>4, UnlocksAmong
    <3> QED
      BY <2>1, <3>1
  <2> QED
    BY <2>3, <2>4
<1>2. ASSUME NEW j \in Clients, NEW d \in Coros, Owner(d, j)'
      PROVE  j \in send_locked' /\ \A b \in Coros : Owner(b, j)' => d = b
  <2>1. d # c /\ (j # k => Owner(d, j)) /\ (j = k => nx = <<d>>)
    BY <1>1, <1>2
  <2>2. CASE j = k
    <3>1. send_locked' = send_locked
      BY <2>1, <2>2 DEF Unlocks
    <3>2. k \in send_locked
      BY <1>0 DEF Locks
    <3>3. ASSUME NEW b \in Coros, Owner(b, j)' PROVE d = b
      <4>1. nx = <<b>> /\ nx = <<d>>
        BY <1>1, <2>1, <2>2, <3>3
      <4> QED
        BY <4>1
    <3> QED
      BY <2>2, <3>1, <3>2, <3>3
  <2>3. CASE j # k
    <3>1. j \in send_locked'
      BY <1>0, <2>1, <2>3 DEF Locks, Unlocks
    <3>2. ASSUME NEW b \in Coros, Owner(b, j)' PROVE d = b
      <4>1. Owner(b, j) /\ Owner(d, j)
        BY <1>1, <2>1, <2>3, <3>2
      <4> QED
        BY <1>0, <4>1 DEF Locks
    <3> QED
      BY <3>1, <3>2
  <2> QED
    BY <2>2, <2>3
<1> QED
  BY <1>2 DEF Locks

----------------------------------------------------------------------------
(* The end of sendAll(). *)

\* The chains of w and of nx, and then chain c.
LEMMA ThreeOccur ==
  ASSUME NEW w \in Seq(Coros), NEW nx \in Seq(Coros), NEW c \in Coros, NEW r \in Seq(Tasks)
  PROVE  /\ w \o nx \o <<c>> \in Seq(Coros)
         /\ r \o w \o nx \o <<c>> = r \o (w \o nx \o <<c>>)
         /\ \A d : Occurs(w \o nx \o <<c>>, d) = Occurs(w, d) + Occurs(nx, d) + One(c = d)
<1> DEFINE u == w \o nx \o <<c>>
<1>1. <<c>> \in Seq(Coros) /\ w \o nx \in Seq(Coros) /\ u \in Seq(Coros)
  OBVIOUS
<1>2. r \in Seq(Tasks) /\ w \in Seq(Tasks) /\ nx \in Seq(Tasks) /\ <<c>> \in Seq(Tasks)
  BY <1>1, CorosAreTasks
<1>3. r \o w \o nx \o <<c>> = r \o u
  <2>1. ((r \o w) \o nx) \o <<c>> = (r \o w) \o (nx \o <<c>>)
    BY <1>2
  <2>2. (r \o w) \o (nx \o <<c>>) = r \o (w \o (nx \o <<c>>))
    BY <1>2
  <2>3. w \o (nx \o <<c>>) = (w \o nx) \o <<c>>
    BY <1>2
  <2> QED
    BY <2>1, <2>2, <2>3
<1>4. \A d : Occurs(u, d) = Occurs(w, d) + Occurs(nx, d) + One(c = d)
  <2> SUFFICES ASSUME NEW d PROVE Occurs(u, d) = Occurs(w, d) + Occurs(nx, d) + One(c = d)
    OBVIOUS
  <2>1. Occurs(u, d) = Occurs(w \o nx, d) + Occurs(<<c>>, d)
    BY <1>1, OccursCat
  <2>2. Occurs(w \o nx, d) = Occurs(w, d) + Occurs(nx, d)
    BY OccursCat
  <2>3. Occurs(<<c>>, d) = One(c = d)
    BY OccursOne
  <2> QED
    BY <2>1, <2>2, <2>3
<1> QED
  BY <1>1, <1>3, <1>4

\* The chain leaves sendAll(), whatever becomes of its stream.
LEMMA EndsSending ==
  ASSUME IInv, NEW e \in Execs, NEW c, NEW k \in Clients, c \in {writer(k), helper(k)}, running[e] = c,
         Owner(c, k), NEW w, Wakes(w), NEW nx, Unlocks(k, nx),
         queue' \in [Queues -> QueueSet], queue'[accepted].q = queue[accepted].q,
         frames' = [frames EXCEPT ![c] = Base(c, k)],
         runq' = [runq EXCEPT ![e] = @ \o w \o nx \o <<c>>], running' = [running EXCEPT ![e] = None],
         UNCHANGED <<inbound, hand, groupVars, timers, rr, chunks, roomVars>>,
         got' = [d \in Coros |-> got'[d]], got'[Room] = got[Room], got'[Main] = got[Main],
         watcher' \in [Clients -> {"none", "open", "closed"}],
         \A j \in Clients : /\ watcher'[j] = "none" <=> watcher[j] = "none"
                            /\ watcher'[j] = "open" => watcher[j] = "open"
  PROVE  IInv'
<1> DEFINE s == Base(c, k)
<1>1. c \in Coros /\ c # Main /\ c # Room /\ c # None /\ \A j \in Clients : c # session(j)
  BY CoroNames, NotCoros
<1>2. /\ s \in Stack /\ s # <<>> /\ StackOf(c, s) /\ \A j : ~ Sends(s, j)
      /\ Head(s).at \in {"writer", "return"}
  BY BaseIs
<1>3. \A j \in Clients : Head(s) # Frame("locked", j)
  BY <1>2, FrameFacts
<1>4. frames' = [frames EXCEPT ![c] = s]
  OBVIOUS
<1> HIDE DEF s
<1>5. /\ frames' \in [Coros -> Stack] /\ frames'[c] = s /\ \A d \in Coros : d # c => frames'[d] = frames[d]
  BY <1>1, <1>2, <1>4, StacksStay DEF IInv
<1>6. /\ inbound' = inbound /\ hand' = hand /\ active' = active /\ join_waiter' = join_waiter
      /\ timers' = timers /\ rr' = rr /\ chunks' = chunks /\ clients' = clients /\ it' = it
  BY DEF groupVars, roomVars
<1>7. w \in Seq(Coros) /\ queue'[cmds] = queue[cmds]
      /\ \A q \in Queues : /\ (queue'[q].waiter = None \/ queue'[q].waiter = queue[q].waiter)
                           /\ queue'[q].exec = queue[q].exec
  BY DEF Wakes
<1>8. nx \in Seq(Coros) /\ send_lock_waiters' \in [Clients -> Seq(Coros)] /\ send_locked' \subseteq send_locked
  BY UnlocksFacts
<1> DEFINE u == w \o nx \o <<c>>
<1>8a. u = w \o nx \o <<c>>
  OBVIOUS
<1> HIDE DEF u
<1>9. Posts(e, u) /\ \A d : Occurs(u, d) = Occurs(w, d) + Occurs(nx, d) + One(c = d)
  <2>1. runq \in [Execs -> Seq(Tasks)] /\ c \in Coros /\ e \in Execs
    BY <1>1 DEF IInv, Typed
  <2>2. runq[e] \in Seq(Tasks)
    BY <2>1
  <2>2a. w \in Seq(Coros) /\ nx \in Seq(Coros) /\ c \in Coros
    BY <1>7, <1>8, <2>1
  <2>3. /\ u \in Seq(Coros) /\ runq[e] \o w \o nx \o <<c>> = runq[e] \o u
        /\ \A d : Occurs(u, d) = Occurs(w, d) + Occurs(nx, d) + One(c = d)
    <3> DEFINE r == runq[e]
    <3>0. r \in Seq(Tasks)
      BY <2>2
    <3> HIDE DEF r
    <3>1. w \o nx \o <<c>> \in Seq(Coros)
      BY ONLY <2>2, <2>2a, ThreeOccur
    <3>2. r \o w \o nx \o <<c>> = r \o (w \o nx \o <<c>>)
      BY ONLY <3>0, <2>2a, ThreeOccur
    <3>3. \A d : Occurs(w \o nx \o <<c>>, d) = Occurs(w, d) + Occurs(nx, d) + One(c = d)
      BY ONLY <2>2, <2>2a, ThreeOccur
    <3> QED
      BY ONLY <1>8a, <3>1, <3>2, <3>3 DEF r
  <2>4. runq' = [runq EXCEPT ![e] = @ \o w \o nx \o <<c>>]
    OBVIOUS
  <2>5. runq' = [runq EXCEPT ![e] = @ \o u]
    BY ONLY <2>3, <2>4
  <2> QED
    BY ONLY <2>1, <2>3, <2>5, PostsSome
<1>10. runq' \in [Execs -> Seq(Tasks)] /\ TokensStay
  BY <1>6, <1>9, TokensPosts DEF Posts, Changed
<1>11. Leaves(e, c) /\ running' \in [Execs -> Coros \cup {None}]
  BY LeavesIs DEF IInv
<1>12. Typed'
  <2>1. send_locked' \subseteq Clients
    BY <1>8 DEF IInv, Typed
  <2>2. queue'[accepted].q = queue[accepted].q /\ got'[Main] = got[Main] /\ got'[Room] = got[Room]
        /\ got' = [d \in Coros |-> got'[d]]
    OBVIOUS
  <2> QED
    BY <1>5, <1>6, <1>7, <1>8, <1>10, <1>11, <2>1, <2>2 DEF IInv, Typed, QueueSet
<1>13. \A d \in Coros : Places(d)' = Places(d)
  <2> SUFFICES ASSUME NEW d \in Coros PROVE Places(d)' = Places(d)
    OBVIOUS
  <2>1. Queued /\ Queued'
    BY <1>12 DEF IInv, Typed, Queued
  <2>2. RunqN(d)' = RunqN(d) + (Occurs(w, d) + Occurs(nx, d) + One(c = d))
    BY <1>9, PostsFacts
  <2>3. WaitN(d)' = WaitN(d) - Occurs(w, d)
    BY DEF Wakes
  <2>4. LockN(d)' = LockN(d) - Occurs(nx, d) /\ Occurs(nx, d) \in Nat
    BY UnlocksFacts
  <2>5. RunN(d)' = RunN(d) - One(c = d) /\ One(c = d) \in {0, 1}
    BY <1>11, LeavesRun
  <2>6. HandN(d)' = HandN(d) /\ JoinN(d)' = JoinN(d) /\ TimeN(d)' = TimeN(d) /\ InbN(d)' = InbN(d)
    BY <1>6, PartsSame
  <2>7. /\ Numbers(d) /\ Numbers(d)'
        /\ Places(d) = RunN(d) + HandN(d) + WaitN(d) + JoinN(d) + TimeN(d) + RunqN(d) + InbN(d) + LockN(d)
        /\ Places(d)' = RunN(d)' + HandN(d)' + WaitN(d)' + JoinN(d)' + TimeN(d)' + RunqN(d)' + InbN(d)' + LockN(d)'
    BY <2>1, PlacesAll
  <2>8. Occurs(w, d) \in Nat
    BY <1>7, OccursFacts
  <2> QED
    BY ONLY <2>2, <2>3, <2>4, <2>5, <2>6, <2>7, <2>8 DEF Numbers
<1>14. Locks'
  <2>1. IInv /\ Unlocks(k, nx) /\ Owner(c, k)
    OBVIOUS
  <2> QED
    BY ONLY <1>1, <1>2, <1>3, <1>5, <2>1, LocksPass
<1>15. Ticketed'
  <2>1. /\ runq' \in [Execs -> Seq(Tasks)] /\ inbound' \in [Execs -> Seq(Tasks)]
        /\ send_lock_waiters' \in [Clients -> Seq(Coros)]
    BY <1>12 DEF Typed
  <2>2. \A j \in Clients : watcher'[j] = "none" <=> watcher[j] = "none"
    OBVIOUS
  <2>3. \A j \in Clients : chunks'[j] = -1 => chunks[j] = -1
    BY <1>6
  <2> QED
    BY <1>10, <2>1, <2>2, <2>3, StillTicketed
<1>16. \A j \in Clients, x \in Execs : Cleaning(x, j)' <=> Cleaning(x, j)
  BY <1>10, TokenNames DEF TokensStay, Cleaning
<1>17. RoomServed
  BY <1>7 DEF RoomServed
<1>18. WaitsMove(c, s)
  <2>1. \A j \in Clients, d \in Coros : Among(send_lock_waiters'[j], d) => Among(send_lock_waiters[j], d)
    BY UnlocksAmong
  <2> QED
    BY <1>6, <1>7, <2>1 DEF WaitsMove
<1>19. NotWait(c) /\ NotJoin(c) /\ NotLock(c) /\ frames[c] # <<>>
  BY <1>1, Alone DEF IInv
<1>20. got'[Room] = got[Room]
       /\ \A j \in Clients : /\ watcher'[j] = "none" <=> watcher[j] = "none"
                             /\ watcher'[j] = "open" => watcher[j] = "open"
  OBVIOUS
<1>21. IInv
  OBVIOUS
<1> QED
  BY ONLY <1>1, <1>2, <1>4, <1>6, <1>12, <1>13, <1>14, <1>15, <1>16, <1>17, <1>18, <1>19, <1>20, <1>21, MovesOn

\* sendAll() ends, having sent all or failed: unlockSend(), and the return.
LEMMA SendEndsKeeps ==
  ASSUME IInv, NEW e \in Execs, NEW c, c # None, NEW l \in {"send", "send ready"}, At(e, c, l), NEW w, Wakes(w),
         queue' \in [Queues -> QueueSet], queue'[accepted].q = queue[accepted].q,
         SendEnds(e, c, w), UNCHANGED <<groupVars, timers, rr, chunks, roomVars>>,
         got' = [d \in Coros |-> got'[d]], c # Room => got'[Room] = got[Room], c # Main => got'[Main] = got[Main],
         watcher' \in [Clients -> {"none", "open", "closed"}],
         \A j \in Clients : /\ watcher'[j] = "none" <=> watcher[j] = "none"
                            /\ watcher'[j] = "open" => watcher[j] = "open"
  PROVE  IInv'
<1>1. l \in InSend /\ IInv /\ e \in Execs /\ c # None /\ At(e, c, l)
  BY DEF InSend
<1>2. c \in Coros /\ running[e] = c /\ c # Room /\ c # Main
  BY ONLY <1>1, InSendIs
<1>3. PICK k \in Clients : c \in {writer(k), helper(k)} /\ frames[c] = On(l, k, Base(c, k))
  BY ONLY <1>1, InSendIs
<1>4. Inner(c).on = k /\ Tail(frames[c]) = Base(c, k)
  BY <1>1, <1>3, InSendSteps
<1>5. Owner(c, k)
  BY <1>3, SenderOwns
<1> DEFINE nx == IF send_lock_waiters[k] = <<>> THEN <<>> ELSE <<Head(send_lock_waiters[k])>>
<1>6. /\ unlockSend(k) /\ frames' = [frames EXCEPT ![c] = Base(c, k)]
      /\ runq' = [runq EXCEPT ![e] = @ \o w \o nx \o <<c>>] /\ running' = [running EXCEPT ![e] = None]
      /\ UNCHANGED <<inbound, hand>>
  BY <1>4 DEF SendEnds, suspend
<1>7. nx = IF send_lock_waiters[k] = <<>> THEN <<>> ELSE <<Head(send_lock_waiters[k])>>
  OBVIOUS
<1> HIDE DEF nx
<1>8. Unlocks(k, nx)
  BY <1>6, <1>7, UnlocksIs DEF IInv
<1>9. UNCHANGED <<inbound, hand, groupVars, timers, rr, chunks, roomVars>>
  BY <1>6
<1>10. /\ Wakes(w) /\ queue' \in [Queues -> QueueSet] /\ queue'[accepted].q = queue[accepted].q
       /\ got' = [d \in Coros |-> got'[d]] /\ got'[Room] = got[Room] /\ got'[Main] = got[Main]
       /\ watcher' \in [Clients -> {"none", "open", "closed"}]
       /\ \A j \in Clients : /\ watcher'[j] = "none" <=> watcher[j] = "none"
                             /\ watcher'[j] = "open" => watcher[j] = "open"
  BY <1>2
<1>11. /\ frames' = [frames EXCEPT ![c] = Base(c, k)]
       /\ runq' = [runq EXCEPT ![e] = @ \o w \o nx \o <<c>>] /\ running' = [running EXCEPT ![e] = None]
  BY <1>6
<1> QED
  BY ONLY <1>1, <1>2, <1>3, <1>5, <1>8, <1>9, <1>10, <1>11, EndsSending

\* Everything is sent.
LEMMA SendDoneKeeps ==
  ASSUME IInv, NEW e \in Execs, NEW c, c # None, SendDone(e, c), UNCHANGED roomVars
  PROVE  IInv'
<1> DEFINE l == "send"
           w == <<>>
<1>1. l \in {"send", "send ready"} /\ At(e, c, l) /\ SendEnds(e, c, w)
  BY DEF SendDone
<1>2. UNCHANGED <<groupVars, timers, rr, chunks, roomVars>> /\ queue' = queue /\ watcher' = watcher /\ got' = got
  BY DEF SendDone
<1>3. Typed /\ OneResumption
  BY DEF IInv
<1>4. Wakes(w) /\ queue' \in [Queues -> QueueSet]
  BY <1>2, <1>3, NoneWakes
<1>5. /\ watcher' \in [Clients -> {"none", "open", "closed"}] /\ got' = [d \in Coros |-> got'[d]]
      /\ queue'[accepted].q = queue[accepted].q
  BY <1>2, <1>3 DEF Typed
<1> HIDE DEF l, w
<1> QED
  BY <1>1, <1>2, <1>4, <1>5, SendEndsKeeps

\* The stream was closed while the chain waited.
LEMMA SendReadyEndsKeeps ==
  ASSUME IInv, NEW e \in Execs, NEW c, c # None, SendReady(e, c), got[c] = None, UNCHANGED roomVars
  PROVE  IInv'
<1> DEFINE l == "send ready"
           w == <<>>
<1>1. l \in {"send", "send ready"} /\ At(e, c, l) /\ SendEnds(e, c, w)
  BY DEF SendReady
<1>2. /\ UNCHANGED <<groupVars, timers, rr, chunks, roomVars>> /\ queue' = queue /\ watcher' = watcher
      /\ got' = [got EXCEPT ![c] = None]
  BY DEF SendReady, Consumed
<1>3. Typed /\ OneResumption
  BY DEF IInv
<1>4. Wakes(w) /\ queue' \in [Queues -> QueueSet]
  BY <1>2, <1>3, NoneWakes
<1>5. /\ watcher' \in [Clients -> {"none", "open", "closed"}] /\ got' = [d \in Coros |-> got'[d]]
      /\ queue'[accepted].q = queue[accepted].q
  BY <1>2, <1>3 DEF Typed
<1>6. (c # Room => got'[Room] = got[Room]) /\ (c # Main => got'[Main] = got[Main])
  BY <1>2, <1>3, CoroNames DEF Typed
<1>7. UNCHANGED <<groupVars, timers, rr, chunks, roomVars>> /\ queue' = queue /\ watcher' = watcher
  BY <1>2
<1> HIDE DEF l, w
<1> QED
  BY <1>1, <1>4, <1>5, <1>6, <1>7, SendEndsKeeps

\* trySend() fails, and closes the connection.
LEMMA SendFailsKeeps ==
  ASSUME IInv, NEW e \in Execs, NEW c, c # None, SendFails(e, c), UNCHANGED roomVars
  PROVE  IInv'
<1> DEFINE l == "send"
<1>1. l \in InSend /\ At(e, c, l) /\ IInv /\ e \in Execs /\ c # None /\ l \in {"send", "send ready"}
  BY DEF SendFails, InSend
<1> HIDE DEF l
<1>2. PICK k \in Clients : c \in {writer(k), helper(k)} /\ frames[c] = On(l, k, Base(c, k))
  BY ONLY <1>1, InSendIs
<1>3. Inner(c).on = k
  BY <1>1, <1>2, InSendSteps
<1> DEFINE qs == {recv_q(k), send_ready_q(k)}
           w == Waiters(qs)
<1>4. SendEnds(e, c, w) /\ queue' = ClosedLocal(qs) /\ CloseWatcher(k)
  BY <1>3 DEF SendFails
<1>5. /\ Typed /\ OneResumption /\ recv_q(k) \in Queues /\ send_ready_q(k) \in Queues
      /\ qs \subseteq {recv_q(k), send_ready_q(k)} /\ cmds \notin qs
  BY QueueNames DEF IInv
<1> HIDE DEF qs
<1>6. Wakes(w) /\ queue' \in [Queues -> QueueSet] /\ \A x \in Queues : queue'[x].q = queue[x].q
  BY <1>4, <1>5, CloseWakes
<1>7. queue'[accepted].q = queue[accepted].q
  BY <1>6, QueueNames
<1>8. UNCHANGED <<groupVars, timers, rr, chunks, roomVars>> /\ got' = got
  BY DEF SendFails
<1>9. watcher[k] # "none"
  <2>1. (frames[c] # <<>> /\ frames[session(k)] # <<>>) \/ watcher[k] # "none"
    <3>1. frames[c] # <<>>
      BY ONLY <1>1, InSendIs
    <3>2. active[k] # 0
      <4>1. active[k] = One(frames[writer(k)] # <<>>) + One(frames[helper(k)] # <<>>)
        BY DEF IInv, Children
      <4> QED
        BY <1>2, <3>1, <4>1 DEF One
    <3>3. ~ Childless(k)
      BY <3>2 DEF IInv, Children
    <3> QED
      BY <3>1, <3>3 DEF Childless
  <2> QED
    BY <2>1 DEF IInv, Children
<1>10. /\ watcher' \in [Clients -> {"none", "open", "closed"}]
       /\ \A j \in Clients : /\ watcher'[j] = "none" <=> watcher[j] = "none"
                             /\ watcher'[j] = "open" => watcher[j] = "open"
  BY <1>4, <1>5, <1>9 DEF CloseWatcher, Typed
<1>11. got' = [d \in Coros |-> got'[d]] /\ (c # Room => got'[Room] = got[Room]) /\ (c # Main => got'[Main] = got[Main])
  BY <1>5, <1>8 DEF Typed
<1> HIDE DEF w
<1>12. UNCHANGED <<groupVars, timers, rr, chunks, roomVars>> /\ SendEnds(e, c, w) /\ Wakes(w)
       /\ queue' \in [Queues -> QueueSet]
  BY <1>4, <1>6, <1>8
<1> QED
  BY ONLY <1>1, <1>7, <1>10, <1>11, <1>12, SendEndsKeeps

----------------------------------------------------------------------------
(* serveRoundRobin(). *)

\* The chain of main takes a step of its own.
LEMMA MainMoves ==
  ASSUME IInv, Typed', NEW e \in Execs, running[e] = Main, NEW s \in Stack, s # <<>>, StackOf(Main, s),
         frames' = [frames EXCEPT ![Main] = s], Head(s).at \notin {"main", "locked"}, \A j : ~ Sends(s, j),
         UNCHANGED <<groupVars, send_locked, send_lock_waiters, watcher, roomVars>>, got'[Room] = got[Room],
         \A q \in Queues : /\ queue'[q].waiter = queue[q].waiter
                           /\ queue[q].exec # NoExec =>
                                queue'[q].exec # NoExec /\ (q = accepted \/ queue'[q].exec = queue[q].exec),
         queue'[accepted].exec # NoExec, queue'[cmds] = queue[cmds],
         \A d \in Coros : Places(d)' = Places(d), Ticketed',
         \A k \in Clients, x \in Execs : Cleaning(x, k)' <=> Cleaning(x, k)
  PROVE  IInv'
<1>1. Main \in Coros /\ Main # Room /\ Main # None /\ \A j \in Clients : Main # session(j)
  BY CoroNames, NotCoros
<1>2. NotWait(Main) /\ NotJoin(Main) /\ NotLock(Main) /\ frames[Main] # <<>>
  BY <1>1, Alone DEF IInv
<1>3. frames'[Main] = s /\ \A d \in Coros : d # Main => frames'[d] = frames[d]
  BY <1>1 DEF IInv, Typed
<1>4. \A j \in Clients : Head(s) # Frame("locked", j)
  BY FrameFacts
<1>5. /\ active' = active /\ join_waiter' = join_waiter /\ send_locked' = send_locked
      /\ send_lock_waiters' = send_lock_waiters /\ watcher' = watcher /\ clients' = clients /\ it' = it
  BY DEF groupVars, roomVars
<1>6. Locks'
  BY <1>1, <1>3, <1>4, <1>5, LocksMove
<1>7. WaitsMove(Main, s)
  BY <1>5 DEF WaitsMove
<1>8. RoomServed
  BY DEF RoomServed
<1>9. /\ IInv /\ Typed' /\ s \in Stack /\ s # <<>> /\ StackOf(Main, s) /\ got'[Room] = got[Room]
      /\ \A d \in Coros : Places(d)' = Places(d)
      /\ Ticketed' /\ \A k \in Clients, x \in Execs : Cleaning(x, k)' <=> Cleaning(x, k)
      /\ Head(s).at # "main" /\ queue'[accepted].exec # NoExec
  OBVIOUS
<1>10. frames' = [frames EXCEPT ![Main] = s]
  OBVIOUS
<1> QED
  BY ONLY <1>1, <1>2, <1>5, <1>6, <1>7, <1>8, <1>9, <1>10, MovesOn

\* What serveRoundRobin() has below its frame, and goes on with.
LEMMA Serving ==
  ASSUME IInv, NEW e \in Execs, NEW c, c # None, NEW l \in {"listen", "served"}, At(e, c, l), Goto(c, "serve")
  PROVE  /\ c = Main /\ running[e] = Main /\ frames[Main] = On(l, 0, On("return", 0, <<>>))
         /\ \E s \in Stack : /\ s # <<>> /\ StackOf(Main, s) /\ Head(s).at = "serve"
                             /\ frames' = [frames EXCEPT ![Main] = s] /\ \A j : ~ Sends(s, j)
<1>1. /\ c \in Coros /\ running[e] = c /\ Where(c, l, frames[c]) /\ l \in Labels
  BY Here
<1>2. c = Main /\ frames[c] = On(l, 0, On("return", 0, <<>>))
  BY <1>1 DEF Where
<1> DEFINE u == On("return", 0, <<>>)
           m == "serve"
           s == On(m, 0, u)
<1>3. u \in Stack /\ 0 \in Subjects /\ m \in Labels /\ l \in Labels /\ \A j : ~ Sends(u, j)
  BY <1>1, Rests, SubjectFacts, QuietRests DEF Labels
<1>4. StackOf(Main, s)
  BY NewMain
<1>5. frames' = [frames EXCEPT ![c] = <<Frame(m, Inner(c).on)>> \o Outer(c)] /\ frames[c] = On(l, 0, u)
  BY <1>2 DEF Goto
<1>6. m = "serve"
  OBVIOUS
<1> HIDE DEF u, m
<1>7. Inner(c).on = 0 /\ Outer(c) = u
  BY ONLY <1>3, <1>5, OnParts DEF Inner, Outer
<1>8. frames' = [frames EXCEPT ![c] = s]
  BY <1>5, <1>7 DEF On
<1>9. s \in Stack /\ s # <<>> /\ Head(s).at = m
  BY ONLY <1>3, OnFacts DEF s
<1>10. ASSUME NEW j PROVE ~ Sends(s, j)
  <2>1. Sends(s, j) => (m \in {"send", "send ready"} /\ 0 = j) \/ Sends(u, j)
    BY <1>3, SendsOn
  <2> QED
    BY <1>3, <1>6, <2>1
<1> HIDE DEF s
<1> QED
  BY <1>1, <1>2, <1>4, <1>6, <1>8, <1>9, <1>10

\* The queue of accepted streams is bound.
LEMMA ListenKeeps ==
  ASSUME IInv, NEW e \in Execs, NEW c, c # None, Listen(e, c), UNCHANGED roomVars
  PROVE  IInv'
<1> DEFINE l == "listen"
<1>1. l \in {"listen", "served"} /\ At(e, c, l) /\ Goto(c, "serve")
  BY DEF Listen
<1> HIDE DEF l
<1>2. c = Main /\ running[e] = Main
  BY <1>1, Serving
<1>3. PICK s \in Stack : /\ s # <<>> /\ StackOf(Main, s) /\ Head(s).at = "serve"
                         /\ frames' = [frames EXCEPT ![Main] = s] /\ \A j : ~ Sends(s, j)
  BY <1>1, Serving
<1>4. /\ runq' = runq /\ inbound' = inbound /\ running' = running /\ hand' = hand /\ got' = got
      /\ active' = active /\ join_waiter' = join_waiter /\ watcher' = watcher
      /\ send_locked' = send_locked /\ send_lock_waiters' = send_lock_waiters /\ timers' = timers
      /\ rr' = rr /\ chunks' = chunks /\ clients' = clients /\ it' = it
  BY DEF Listen, execVars, groupVars, streamVars, roomVars
<1>5. queue' = [queue EXCEPT ![accepted].exec = e]
  BY DEF Listen, bind
<1>6. queue \in [Queues -> QueueSet] /\ accepted \in Queues /\ cmds \in Queues /\ accepted # cmds
      /\ NoExec \notin Execs
  BY QueueNames, TcpAssumption DEF IInv, Typed, QueueSet
<1>7. queue' \in [Queues -> QueueSet]
  BY <1>5, <1>6 DEF QueueSet
<1>8. /\ \A q \in Queues : q # accepted => queue'[q] = queue[q]
      /\ queue'[accepted].q = queue[accepted].q /\ queue'[accepted].waiter = queue[accepted].waiter
      /\ queue'[accepted].exec = e
  BY <1>5, <1>6 DEF QueueSet
<1>9. frames' \in [Coros -> Stack]
  BY <1>3, StacksStay, CoroNames DEF IInv
<1>10. Typed'
  BY <1>4, <1>6, <1>7, <1>8, <1>9 DEF IInv, Typed, QueueSet
<1>11. \A d \in Coros : Places(d)' = Places(d)
  <2> SUFFICES ASSUME NEW d \in Coros PROVE Places(d)' = Places(d)
    OBVIOUS
  <2>1. Queued /\ Queued'
    BY <1>10 DEF IInv, Typed, Queued
  <2>2. \A q \in Queues : queue'[q].waiter = queue[q].waiter
    BY <1>8
  <2> QED
    BY <1>4, <2>1, <2>2, PartsSame, PlacesAll
<1>12. TokensStay
  BY <1>4, TokensSame
<1>13. Ticketed'
  BY <1>4, <1>8, <1>10, <1>12, StillTicketed DEF Typed
<1>14. \A j \in Clients, x \in Execs : Cleaning(x, j)' <=> Cleaning(x, j)
  BY <1>12, TokenNames DEF TokensStay, Cleaning
<1>15. /\ \A q \in Queues : /\ queue'[q].waiter = queue[q].waiter
                            /\ queue[q].exec # NoExec =>
                                queue'[q].exec # NoExec /\ (q = accepted \/ queue'[q].exec = queue[q].exec)
       /\ queue'[accepted].exec # NoExec /\ queue'[cmds] = queue[cmds]
  BY <1>6, <1>8
<1>16. UNCHANGED <<groupVars, send_locked, send_lock_waiters, watcher, roomVars>> /\ got'[Room] = got[Room]
  BY <1>4 DEF groupVars
<1>17. IInv /\ e \in Execs /\ Head(s).at \notin {"main", "locked"}
  BY <1>3
<1> QED
  BY ONLY <1>2, <1>3, <1>10, <1>11, <1>13, <1>14, <1>15, <1>16, <1>17, MainMoves

\* A stream goes to the worker whose turn it is.
LEMMA ServedKeeps ==
  ASSUME IInv, NEW e \in Execs, NEW c, c # None, Served(e, c), got[c] # None, UNCHANGED roomVars
  PROVE  IInv'
<1> DEFINE l == "served"
<1>1. l \in {"listen", "served"} /\ At(e, c, l) /\ Goto(c, "serve")
  BY DEF Served
<1> HIDE DEF l
<1>2. c = Main /\ running[e] = Main
  BY <1>1, Serving
<1>3. PICK s \in Stack : /\ s # <<>> /\ StackOf(Main, s) /\ Head(s).at = "serve"
                         /\ frames' = [frames EXCEPT ![Main] = s] /\ \A j : ~ Sends(s, j)
  BY <1>1, Serving
<1>4. PICK k \in Clients : got[Main] = <<"stream", k>>
  <2>1. got[Main] \in Streams
    BY <1>2 DEF IInv, Typed
  <2> QED
    BY <2>1 DEF Streams
<1>5. /\ runq' = runq /\ running' = running /\ hand' = hand /\ queue' = queue
      /\ active' = active /\ join_waiter' = join_waiter /\ watcher' = watcher
      /\ send_locked' = send_locked /\ send_lock_waiters' = send_lock_waiters /\ timers' = timers
      /\ chunks' = chunks /\ clients' = clients /\ it' = it
  BY DEF Served, groupVars, streamVars, roomVars
<1> DEFINE x == rr % WorkerN
           a == <<"start", k>>
<1>6. inbound' = Posted(inbound, a, x) /\ rr' = (rr + 1) % WorkerN /\ got' = [got EXCEPT ![Main] = None]
  BY <1>2, <1>4 DEF Served, Consumed
<1>7. x \in Execs /\ rr' \in Execs /\ a \in Tasks /\ a \notin Coros
  <2>1. rr \in 0 .. WorkerN - 1 /\ WorkerN \in Nat \ {0}
    BY TcpAssumption DEF IInv, Typed
  <2>2. rr % WorkerN \in 0 .. WorkerN - 1 /\ (rr + 1) % WorkerN \in 0 .. WorkerN - 1
    BY <2>1
  <2>3. a \in Tasks \ Coros
    BY TokenNames
  <2> QED
    BY <1>6, <2>2, <2>3, TcpAssumption
<1>8. a = <<"start", k>>
  OBVIOUS
<1> HIDE DEF x, a
<1>9. Sent(x, a)
  BY <1>6, <1>7, SentIs DEF IInv, Typed
<1>10. inbound' \in [Execs -> Seq(Tasks)]
  BY <1>9, SentFacts
<1>11. frames' \in [Coros -> Stack]
  BY <1>3, StacksStay, CoroNames DEF IInv
<1>12. /\ got' = [d \in Coros |-> got'[d]] /\ got'[Main] = None /\ got'[Room] = got[Room]
  <2>1. got = [d \in Coros |-> got[d]]
    BY DEF IInv, Typed
  <2>2. got' = [got EXCEPT ![Main] = None]
    BY <1>6
  <2> QED
    BY ONLY <2>1, <2>2, CoroNames
<1>13. Typed'
  BY <1>5, <1>7, <1>10, <1>11, <1>12 DEF IInv, Typed
<1>14. ASSUME NEW t, t # a PROVE InbN(t)' = InbN(t)
  <2>1. InbN(t)' = InbN(t) + One(a = t)
    BY <1>9, SentFacts
  <2>2. One(a = t) = 0
    BY <1>14 DEF One
  <2>3. InbN(t) \in Nat
    BY InbSome DEF IInv, Typed
  <2> QED
    BY <2>1, <2>2, <2>3
<1>15. \A d \in Coros : Places(d)' = Places(d)
  <2> SUFFICES ASSUME NEW d \in Coros PROVE Places(d)' = Places(d)
    OBVIOUS
  <2>1. Queued /\ Queued'
    BY <1>13 DEF IInv, Typed, Queued
  <2>2. InbN(d)' = InbN(d)
    BY <1>7, <1>14
  <2> QED
    BY <1>5, <2>1, <2>2, PartsSame, PlacesAll
<1>16. Ticketed'
  <2> SUFFICES ASSUME NEW j \in Clients PROVE Tickets(j)' = Tickets(j)
    BY <1>5, TicketedStays DEF IInv
  <2>1. RunqN(<<"start", j>>)' = RunqN(<<"start", j>>)
    BY <1>5 DEF RunqN
  <2>2. /\ Tickets(j) = Occurs(queue[accepted].q, <<"stream", j>>) + One(got[Main] = <<"stream", j>>)
                           + RunqN(<<"start", j>>) + InbN(<<"start", j>>)
        /\ Tickets(j)' = Occurs(queue'[accepted].q, <<"stream", j>>) + One(got'[Main] = <<"stream", j>>)
                           + RunqN(<<"start", j>>)' + InbN(<<"start", j>>)'
    BY TicketsParts
  <2>3. One(got'[Main] = <<"stream", j>>) = 0
    BY <1>12, TokenIsSome DEF One
  <2>4. queue'[accepted].q = queue[accepted].q
    BY <1>5
  <2>5. RunqN(<<"start", j>>) \in Nat /\ InbN(<<"start", j>>) \in Nat
    BY RunqSome, InbSome DEF IInv, Typed
  <2>6. Occurs(queue[accepted].q, <<"stream", j>>) \in Nat
    <3>1. queue[accepted].q \in Seq(Streams)
      BY DEF IInv, Typed
    <3> QED
      BY <3>1, OccursFacts
  <2>7. InbN(<<"start", j>>)' = InbN(<<"start", j>>) + One(got[Main] = <<"stream", j>>)
        /\ One(got[Main] = <<"stream", j>>) \in {0, 1}
    <3>1. InbN(<<"start", j>>)' = InbN(<<"start", j>>) + One(a = <<"start", j>>)
      BY <1>9, SentFacts
    <3>2. One(a = <<"start", j>>) = One(got[Main] = <<"stream", j>>)
      BY <1>4, <1>8 DEF One
    <3> QED
      BY <3>1, <3>2 DEF One
  <2> QED
    BY ONLY <2>1, <2>2, <2>3, <2>4, <2>5, <2>6, <2>7
<1>17. \A j \in Clients, y \in Execs : Cleaning(y, j)' <=> Cleaning(y, j)
  <2> SUFFICES ASSUME NEW j \in Clients, NEW y \in Execs PROVE Cleaning(y, j)' <=> Cleaning(y, j)
    OBVIOUS
  <2>1. a # <<"cleanup", j>>
    BY <1>8
  <2>2. Among(inbound'[y], <<"cleanup", j>>) <=> Among(inbound[y], <<"cleanup", j>>)
    BY <1>9, <2>1, SentAmong
  <2> QED
    BY <1>5, <2>2 DEF Cleaning
<1>18. /\ \A q \in Queues : /\ queue'[q].waiter = queue[q].waiter
                            /\ queue[q].exec # NoExec =>
                                queue'[q].exec # NoExec /\ (q = accepted \/ queue'[q].exec = queue[q].exec)
       /\ queue'[cmds] = queue[cmds]
  BY <1>5
<1>19. queue'[accepted].exec # NoExec
  <2>1. Head(frames[Main]).at \notin {"main", "listen"} /\ frames[Main] # <<>>
    BY <1>1, <1>2 DEF At, l
  <2> QED
    BY <1>5, <2>1 DEF IInv, Bound
<1>20. UNCHANGED <<groupVars, send_locked, send_lock_waiters, watcher, roomVars>> /\ got'[Room] = got[Room]
  BY <1>5, <1>12 DEF groupVars
<1>21. IInv /\ e \in Execs /\ Head(s).at \notin {"main", "locked"}
  BY <1>3
<1> QED
  BY ONLY <1>2, <1>3, <1>13, <1>15, <1>16, <1>17, <1>18, <1>19, <1>20, <1>21, MainMoves

----------------------------------------------------------------------------
(* push() and close(): the waiter goes from the queue to the hand of the worker. *)

\* Whom the executor resumes next, by wakeOne().
Hands == (Coros \X Execs) \cup {None}
\* The waiter of q is taken from it, to be posted by wakeOne().
HandsOver(e, q) ==
  /\ e \in Execs /\ q \in Queues /\ hand[e] = None
  /\ hand' \in [Execs -> Hands]
  /\ \A x \in Execs : x # e => hand'[x] = hand[x]
  /\ \A r \in Queues : r # q => queue'[r].waiter = queue[r].waiter
  /\ \/ queue'[q].waiter = queue[q].waiter /\ hand'[e] = None
     \/ queue[q].waiter = None /\ queue'[q].waiter = None /\ hand'[e] = None
     \/ queue[q].waiter # None /\ queue'[q].waiter = None /\ hand'[e] = <<queue[q].waiter, queue[q].exec>>

\* Such is a push that finds a waiter, or none;
LEMMA HandsOverIs ==
  ASSUME IInv, NEW e \in Execs, hand[e] = None, NEW q \in Queues, NEW b \in BOOLEAN,
         \A r \in Queues : r # q => queue'[r].waiter = queue[r].waiter,
         b => queue'[q].waiter = queue[q].waiter, ~ b => queue'[q].waiter = None
  PROVE  hand' = [hand EXCEPT ![e] = IF b THEN None ELSE Taken(q)] => HandsOver(e, q)
<1> SUFFICES ASSUME hand' = [hand EXCEPT ![e] = IF b THEN None ELSE Taken(q)] PROVE HandsOver(e, q)
  OBVIOUS
<1>1. hand \in [Execs -> Hands]
  BY DEF IInv, Typed, Hands
<1>2. queue[q].waiter \in Coros \cup {None} /\ queue[q].exec \in Execs \cup {NoExec}
  BY DEF IInv, Typed
<1>3. queue[q].waiter # None => queue[q].exec # NoExec
  BY DEF IInv, Parked
<1> DEFINE h == IF b THEN None ELSE Taken(q)
<1>4. h \in Hands
  BY <1>2, <1>3 DEF Taken, Hands
<1>5. /\ ~ b /\ queue[q].waiter = None => h = None
      /\ ~ b /\ queue[q].waiter # None => h = <<queue[q].waiter, queue[q].exec>>
      /\ b => h = None
  BY <1>3 DEF Taken
<1>6. hand' = [hand EXCEPT ![e] = h]
  OBVIOUS
<1> HIDE DEF h
<1>7. hand' \in [Execs -> Hands] /\ hand'[e] = h /\ \A x \in Execs : x # e => hand'[x] = hand[x]
  BY <1>1, <1>4, <1>6
<1> QED
  BY <1>5, <1>7 DEF HandsOver

\* A pair is not None.
LEMMA PairIs == \A a, b : <<a, b>> # None /\ <<a, b>>[1] = a
BY DEF None

\* The chain is in one place as before.
LEMMA HandsOverFacts ==
  ASSUME NEW e, NEW q, HandsOver(e, q), NEW d \in Coros
  PROVE  HandN(d)' + WaitN(d)' = HandN(d) + WaitN(d)
<1>1. /\ HandN(d)' = HandN(d) - One(hand[e] # None /\ hand[e][1] = d) + One(hand'[e] # None /\ hand'[e][1] = d)
      /\ HandN(d) \in Nat
  BY HandSet DEF HandsOver
<1>2. /\ WaitN(d)' = WaitN(d) - One(queue[q].waiter = d) + One(queue'[q].waiter = d)
      /\ WaitN(d) \in Nat
  BY WaitSet DEF HandsOver
<1>3. hand[e] = None /\ d # None
  BY NotCoros DEF HandsOver
<1>4. One(hand[e] # None /\ hand[e][1] = d) = 0
  BY <1>3 DEF One
<1>5. CASE hand'[e] = None /\ queue'[q].waiter = queue[q].waiter
  <2>1. One(hand'[e] # None /\ hand'[e][1] = d) = 0 /\ One(queue[q].waiter = d) \in {0, 1}
    BY <1>5 DEF One
  <2>2. One(queue[q].waiter = d) = One(queue'[q].waiter = d)
    BY <1>5
  <2> QED
    BY <1>1, <1>2, <1>4, <2>1, <2>2
<1>6. CASE queue[q].waiter # None /\ queue'[q].waiter = None /\ hand'[e] = <<queue[q].waiter, queue[q].exec>>
  <2>1. hand'[e] # None /\ hand'[e][1] = queue[q].waiter
    BY ONLY <1>6, PairIs
  <2>2. One(hand'[e] # None /\ hand'[e][1] = d) = One(queue[q].waiter = d) /\ One(queue[q].waiter = d) \in {0, 1}
    BY <2>1 DEF One
  <2>3. One(queue'[q].waiter = d) = 0
    BY <1>3, <1>6 DEF One
  <2> QED
    BY <1>1, <1>2, <1>4, <2>2, <2>3
<1> QED
  BY <1>5, <1>6 DEF HandsOver

\* no queue gets a waiter by it.
LEMMA HandsOverWaits ==
  ASSUME NEW e, NEW q, HandsOver(e, q)
  PROVE  /\ hand' \in [Execs -> Hands]
         /\ \A r \in Queues : queue'[r].waiter = None \/ queue'[r].waiter = queue[r].waiter
BY DEF HandsOver

\* What push() does to the queue.
LEMMA PushedOver ==
  ASSUME IInv, NEW e \in Execs, hand[e] = None, NEW q \in Queues, NEW v \in Values, push(e, q, v)
  PROVE  /\ HandsOver(e, q) /\ queue' \in [Queues -> QueueSet]
         /\ \A r \in Queues : r # q => queue'[r] = queue[r]
         /\ queue'[q].closed = queue[q].closed /\ queue'[q].exec = queue[q].exec
         /\ IF queue[q].closed THEN queue'[q].q = queue[q].q ELSE queue'[q].q = Append(queue[q].q, v)
<1>1. queue \in [Queues -> QueueSet]
  BY DEF IInv, Typed, QueueSet
<1>2. queue[q].q \in Seq(Values) /\ Append(queue[q].q, v) \in Seq(Values) /\ queue[q].closed \in BOOLEAN
  BY <1>1 DEF QueueSet
<1>3. queue' = IF queue[q].closed THEN queue ELSE [queue EXCEPT ![q].q = Append(@, v), ![q].waiter = None]
  BY DEF push
<1>4. hand' = [hand EXCEPT ![e] = IF queue[q].closed THEN None ELSE Taken(q)]
  BY DEF push
<1>5. CASE queue[q].closed
  <2>1. queue' = queue
    BY <1>3, <1>5
  <2>2. HandsOver(e, q)
    BY <1>2, <1>4, <1>5, <2>1, HandsOverIs
  <2> QED
    BY <1>1, <1>5, <2>1, <2>2
<1>6. CASE ~ queue[q].closed
  <2>1. queue' = [queue EXCEPT ![q].q = Append(@, v), ![q].waiter = None]
    BY <1>3, <1>6
  <2>2. /\ queue' \in [Queues -> QueueSet] /\ \A r \in Queues : r # q => queue'[r] = queue[r]
        /\ queue'[q].closed = queue[q].closed /\ queue'[q].exec = queue[q].exec
        /\ queue'[q].q = Append(queue[q].q, v) /\ queue'[q].waiter = None
    BY <1>1, <1>2, <2>1 DEF QueueSet
  <2>3. HandsOver(e, q)
    <3>1. /\ \A r \in Queues : r # q => queue'[r].waiter = queue[r].waiter
          /\ queue'[q].waiter = None
      BY <2>2
    <3>2. IInv /\ e \in Execs /\ hand[e] = None /\ q \in Queues
      OBVIOUS
    <3> QED
      BY ONLY <1>2, <1>4, <1>6, <3>1, <3>2, HandsOverIs
  <2> QED
    BY <1>6, <2>2, <2>3
<1> QED
  BY <1>5, <1>6

\* What close() does to the queue.
LEMMA ClosedOver ==
  ASSUME IInv, NEW e \in Execs, hand[e] = None, NEW q \in Queues, close(e, q)
  PROVE  /\ HandsOver(e, q) /\ queue' \in [Queues -> QueueSet]
         /\ \A r \in Queues : r # q => queue'[r] = queue[r]
         /\ queue'[q].exec = queue[q].exec /\ queue'[q].q = queue[q].q
<1>1. queue \in [Queues -> QueueSet]
  BY DEF IInv, Typed, QueueSet
<1>2. queue' = [queue EXCEPT ![q].closed = TRUE, ![q].waiter = None]
  BY DEF close
<1>3. /\ queue' \in [Queues -> QueueSet] /\ \A r \in Queues : r # q => queue'[r] = queue[r]
      /\ queue'[q].exec = queue[q].exec /\ queue'[q].q = queue[q].q /\ queue'[q].waiter = None
  BY <1>1, <1>2 DEF QueueSet
<1> DEFINE b == FALSE
<1>4. hand' = [hand EXCEPT ![e] = IF b THEN None ELSE Taken(q)] /\ b \in BOOLEAN /\ ~ b
  BY DEF close
<1> HIDE DEF b
<1>5. HandsOver(e, q)
  <2>1. /\ \A r \in Queues : r # q => queue'[r].waiter = queue[r].waiter
        /\ queue'[q].waiter = None
    BY <1>3
  <2>2. IInv /\ e \in Execs /\ hand[e] = None /\ q \in Queues
    OBVIOUS
  <2> QED
    BY ONLY <1>4, <2>1, <2>2, HandsOverIs
<1> QED
  BY <1>3, <1>5

----------------------------------------------------------------------------
(* The session pushes to the room or to its outbox, or closes the outbox. *)

\* The labels that chatSession() goes through when its stream is closed.
Between == {"recv", "leave", "close outbox", "join group"}

\* The session takes such a step.
LEMMA SessionMoves ==
  ASSUME IInv, NEW e \in Execs, NEW c, NEW k \in Clients, c = session(k), running[e] = c,
         NEW m \in Between,
         frames' = [frames EXCEPT ![c] = On(m, k, <<>>)],
         NEW q, HandsOver(e, q), q # accepted, \A r \in Queues : r # q => queue'[r] = queue[r],
         queue'[q].exec = queue[q].exec,
         queue' \in [Queues -> QueueSet], queue'[cmds].q \in Seq(Commands), RoomServed,
         UNCHANGED <<runq, inbound, running, groupVars, tcpVars, roomVars>>,
         got' = [d \in Coros |-> got'[d]], got'[Room] = got[Room], got'[Main] = got[Main]
  PROVE  IInv'
<1>1. c \in Coros /\ c # Main /\ c # Room /\ c # None /\ \A j \in Clients : c = session(j) => j = k
  <2>1. c = session(k) /\ k \in Clients
    OBVIOUS
  <2> QED
    BY ONLY <2>1, CoroNames, NotCoros
<1> DEFINE t == <<>>
           s == On(m, k, t)
<1>2. m \in Labels /\ k \in Subjects /\ m \in SessionAlone /\ m # "locked"
  BY SubjectFacts DEF Labels, SessionAlone, Between
<1>3. StackOf(c, s)
  BY <1>2, NewSession
<1>2a. t \in Stack /\ \A j : ~ Sends(t, j)
  BY EmptyStack, SendsNone
<1> HIDE DEF t
<1>4. s \in Stack /\ s # <<>> /\ Head(s).at = m
  BY ONLY <1>2, <1>2a, OnFacts DEF s
<1>5. ASSUME NEW j PROVE ~ Sends(s, j)
  <2>1. Sends(s, j) => (m \in {"send", "send ready"} /\ k = j) \/ Sends(t, j)
    BY <1>2, <1>2a, SendsOn
  <2> QED
    BY <1>2a, <2>1 DEF Between
<1>6. frames' = [frames EXCEPT ![c] = s]
  BY DEF t
<1> HIDE DEF s
<1>7. /\ frames' \in [Coros -> Stack] /\ frames'[c] = s /\ \A d \in Coros : d # c => frames'[d] = frames[d]
  BY <1>1, <1>3, <1>4, <1>6, StacksStay DEF IInv
<1>8. /\ runq' = runq /\ inbound' = inbound /\ running' = running
      /\ active' = active /\ join_waiter' = join_waiter /\ watcher' = watcher
      /\ send_locked' = send_locked /\ send_lock_waiters' = send_lock_waiters /\ timers' = timers
      /\ rr' = rr /\ chunks' = chunks /\ clients' = clients /\ it' = it
  BY DEF tcpVars, streamVars, groupVars, roomVars
<1>9. /\ hand' \in [Execs -> Hands]
      /\ \A r \in Queues : queue'[r].waiter = None \/ queue'[r].waiter = queue[r].waiter
  BY HandsOverWaits
<1>10. \A r \in Queues : queue'[r].exec = queue[r].exec
  OBVIOUS
<1>11. queue'[accepted].q = queue[accepted].q
  BY QueueNames
<1>12. Typed'
  BY <1>7, <1>8, <1>9, <1>11 DEF IInv, Typed, QueueSet, Hands
<1>13. \A d \in Coros : Places(d)' = Places(d)
  <2> SUFFICES ASSUME NEW d \in Coros PROVE Places(d)' = Places(d)
    OBVIOUS
  <2>1. Queued /\ Queued'
    BY <1>12 DEF IInv, Typed, Queued
  <2>2. HandN(d)' + WaitN(d)' = HandN(d) + WaitN(d)
    BY HandsOverFacts
  <2>3. /\ RunN(d)' = RunN(d) /\ JoinN(d)' = JoinN(d) /\ TimeN(d)' = TimeN(d)
        /\ InbN(d)' = InbN(d) /\ RunqN(d)' = RunqN(d) /\ LockN(d)' = LockN(d)
    BY <1>8, PartsSame
  <2>4. /\ Numbers(d) /\ Numbers(d)'
        /\ Places(d) = RunN(d) + HandN(d) + WaitN(d) + JoinN(d) + TimeN(d) + RunqN(d) + InbN(d) + LockN(d)
        /\ Places(d)' = RunN(d)' + HandN(d)' + WaitN(d)' + JoinN(d)' + TimeN(d)' + RunqN(d)' + InbN(d)' + LockN(d)'
    BY <2>1, PlacesAll
  <2> QED
    <3>1. /\ HandN(d) \in Nat /\ WaitN(d) \in Nat /\ HandN(d)' \in Nat /\ WaitN(d)' \in Nat
          /\ RunN(d) \in Nat /\ JoinN(d) \in Nat /\ TimeN(d) \in Nat
          /\ RunqN(d) \in Nat /\ InbN(d) \in Nat /\ LockN(d) \in Nat
      BY <2>4 DEF Numbers
    <3> QED
      BY ONLY <2>2, <2>3, <2>4, <3>1
<1>14. TokensStay
  BY <1>8, TokensSame
<1>15. Ticketed'
  <2>1. got'[Main] = got[Main]
    OBVIOUS
  <2> QED
    BY <1>8, <1>11, <1>12, <1>14, <2>1, StillTicketed DEF Typed
<1>16. \A j \in Clients, x \in Execs : Cleaning(x, j)' <=> Cleaning(x, j)
  BY <1>14, TokenNames DEF TokensStay, Cleaning
<1>17. WaitsMove(c, s)
  <2>1. \A r \in Queues : queue[r].exec # NoExec => queue'[r].exec # NoExec
    BY <1>10
  <2> QED
    BY <1>8, <1>9, <1>10, <2>1 DEF WaitsMove
<1>18. Locks'
  <2>1. \A j \in Clients : Head(s) # Frame("locked", j)
    <3> SUFFICES ASSUME NEW j \in Clients, Head(s) = Frame("locked", j) PROVE FALSE
      OBVIOUS
    <3>1. Head(s).at = "locked"
      BY FrameFacts
    <3> QED
      BY <1>2, <1>4, <3>1
  <2>2. IInv
    OBVIOUS
  <2> QED
    BY ONLY <1>1, <1>5, <1>7, <1>8, <2>1, <2>2, LocksMove
<1>19. NotWait(c) /\ NotJoin(c) /\ NotLock(c) /\ frames[c] # <<>>
  BY <1>1, Alone DEF IInv
<1>20. \A j \in Clients : c = session(j) /\ Head(s).at \in {"session", "session end", "joined"} =>
           active[j] = 0 \/ (join_waiter'[j] # None /\ Head(s).at = "joined")
  BY <1>4 DEF Between
<1>21. IInv /\ RoomServed /\ got'[Room] = got[Room]
  OBVIOUS
<1> QED
  BY ONLY <1>1, <1>3, <1>4, <1>6, <1>8, <1>12, <1>13, <1>15, <1>16, <1>17, <1>18, <1>19, <1>20, <1>21, MovesOn

\* The session between two awaits.
LEMMA SessionGoes ==
  ASSUME IInv, NEW e \in Execs, NEW c, c # None, NEW l \in SessionAlone, At(e, c, l),
         NEW m \in Between, Goto(c, m)
  PROVE  /\ running[e] = c /\ hand[e] = None
         /\ \E k \in Clients : /\ c = session(k) /\ Inner(c).on = k
                               /\ frames' = [frames EXCEPT ![c] = On(m, k, <<>>)]
<1>1. /\ c \in Coros /\ running[e] = c /\ Where(c, l, frames[c]) /\ l \in Labels /\ hand[e] = None
  BY Here
<1>2. PICK k \in Clients : c = session(k) /\ frames[c] = On(l, k, <<>>)
  BY <1>1 DEF Where
<1>3. frames' = [frames EXCEPT ![c] = <<Frame(m, Inner(c).on)>> \o Outer(c)]
  BY DEF Goto
<1>4. Inner(c).on = k /\ Outer(c) = <<>>
  <2> DEFINE t == <<>>
  <2>1. l \in Labels /\ k \in Subjects /\ t \in Stack /\ frames[c] = On(l, k, t)
    BY <1>1, <1>2, SubjectFacts, EmptyStack
  <2>2. t = <<>>
    OBVIOUS
  <2> HIDE DEF t
  <2> QED
    BY ONLY <2>1, <2>2, OnParts DEF Inner, Outer
<1>5. frames' = [frames EXCEPT ![c] = On(m, k, <<>>)]
  BY <1>3, <1>4 DEF On
<1> QED
  BY <1>1, <1>2, <1>4, <1>5

\* The room gets a command.
LEMMA PushServed ==
  ASSUME IInv, NEW v \in Commands, \A k \in Clients : v # <<"join", k>>,
         queue'[cmds].closed = queue[cmds].closed, queue'[cmds].q = Append(queue[cmds].q, v)
  PROVE  RoomServed /\ queue'[cmds].q \in Seq(Commands)
<1> DEFINE s == queue[cmds].q
           u == queue'[cmds].q
<1>1. s \in Seq(Commands) /\ u = Append(s, v)
  BY DEF IInv, Typed
<1> HIDE DEF s, u
<1>2. u \in Seq(Commands) /\ u # <<>>
  BY <1>1
<1>3. ASSUME NEW t PROVE Among(u, t) <=> Among(s, t) \/ t = v
  <2>1. <<v>> \in Seq(Commands) /\ u = s \o <<v>>
    BY <1>1
  <2>2. Among(s \o <<v>>, t) <=> Among(s, t) \/ Among(<<v>>, t)
    BY <1>1, <2>1, AmongCat
  <2>3. Among(<<v>>, t) <=> t = v
    BY DEF Among
  <2> QED
    BY ONLY <2>1, <2>2, <2>3
<1>4. queue'[cmds].closed = queue[cmds].closed
  OBVIOUS
<1>5. \A k \in Clients : v # <<"join", k>>
  OBVIOUS
<1>6. /\ \A t : Among(s, t) => Among(u, t)
      /\ \A k \in Clients : Among(u, <<"join", k>>) => Among(s, <<"join", k>>)
  BY ONLY <1>3, <1>5
<1> QED
  BY ONLY <1>2, <1>4, <1>6 DEF RoomServed, s, u

\* The queue of commands is as it was.
LEMMA NoPushServed ==
  ASSUME IInv, queue'[cmds] = queue[cmds]
  PROVE  RoomServed /\ queue'[cmds].q \in Seq(Commands)
BY DEF RoomServed, IInv, Typed

\* A line is received: the room is told.
LEMMA SessionSaysKeeps ==
  ASSUME IInv, NEW e \in Execs, NEW c, c # None, At(e, c, "received"), push(e, cmds, <<"say", 0>>), Goto(c, "recv"),
         Consumed(c), UNCHANGED <<runq, inbound, running, groupVars, tcpVars, roomVars>>
  PROVE  IInv'
<1> DEFINE l == "received"
           m == "recv"
           v == <<"say", 0>>
<1>1. l \in SessionAlone /\ m \in Between /\ At(e, c, l) /\ Goto(c, m) /\ push(e, cmds, v)
  BY DEF SessionAlone, Between
<1>2. v \in Commands /\ v \in Values /\ \A k \in Clients : v # <<"join", k>>
  BY ValuesAre
<1> HIDE DEF l, m, v
<1>3. IInv /\ e \in Execs /\ c # None
  OBVIOUS
<1>4. running[e] = c /\ hand[e] = None
  BY ONLY <1>1, <1>3, SessionGoes
<1>5. PICK k \in Clients : c = session(k) /\ Inner(c).on = k /\ frames' = [frames EXCEPT ![c] = On(m, k, <<>>)]
  BY ONLY <1>1, <1>3, SessionGoes
<1> DEFINE q == cmds
<1>6. q \in Queues /\ q # accepted /\ q = cmds /\ push(e, q, v)
  BY <1>1, QueueNames
<1> HIDE DEF q
<1>7. /\ HandsOver(e, q) /\ queue' \in [Queues -> QueueSet]
      /\ \A r \in Queues : r # q => queue'[r] = queue[r]
      /\ queue'[q].closed = queue[q].closed /\ queue'[q].exec = queue[q].exec
      /\ IF queue[q].closed THEN queue'[q].q = queue[q].q ELSE queue'[q].q = Append(queue[q].q, v)
  BY ONLY <1>2, <1>3, <1>4, <1>6, PushedOver
<1>8. RoomServed /\ queue'[cmds].q \in Seq(Commands)
  <2>1. ~ queue[cmds].closed
    BY DEF IInv, RoomOK
  <2>2. queue'[cmds].closed = queue[cmds].closed /\ queue'[cmds].q = Append(queue[cmds].q, v)
    BY ONLY <1>6, <1>7, <2>1
  <2> QED
    BY <1>2, <2>2, PushServed
<1>9. got' = [d \in Coros |-> got'[d]] /\ got'[Room] = got[Room] /\ got'[Main] = got[Main]
  <2>1. c # Room /\ c # Main
    BY <1>5, CoroNames
  <2>2. got = [d \in Coros |-> got[d]]
    BY DEF IInv, Typed
  <2>3. got' = [got EXCEPT ![c] = None]
    BY DEF Consumed
  <2> QED
    BY ONLY <2>1, <2>2, <2>3, CoroNames
<1>10. UNCHANGED <<runq, inbound, running, groupVars, tcpVars, roomVars>>
  OBVIOUS
<1> QED
  BY ONLY <1>1, <1>3, <1>4, <1>5, <1>6, <1>7, <1>8, <1>9, <1>10, SessionMoves

\* The client has sent /quit: its writer is told.
LEMMA SessionQuitsKeeps ==
  ASSUME IInv, NEW e \in Execs, NEW c, c # None, At(e, c, "received"), push(e, outbox(Inner(c).on), <<"msg", 0>>),
         Goto(c, "leave"), Consumed(c), UNCHANGED <<runq, inbound, running, groupVars, tcpVars, roomVars>>
  PROVE  IInv'
<1> DEFINE l == "received"
           m == "leave"
           v == <<"msg", 0>>
<1>1. l \in SessionAlone /\ m \in Between /\ At(e, c, l) /\ Goto(c, m) /\ push(e, outbox(Inner(c).on), v)
  BY DEF SessionAlone, Between
<1>2. v \in Values
  BY ValuesAre
<1> HIDE DEF l, m, v
<1>3. IInv /\ e \in Execs /\ c # None
  OBVIOUS
<1>4. running[e] = c /\ hand[e] = None
  BY ONLY <1>1, <1>3, SessionGoes
<1>5. PICK k \in Clients : c = session(k) /\ Inner(c).on = k /\ frames' = [frames EXCEPT ![c] = On(m, k, <<>>)]
  BY ONLY <1>1, <1>3, SessionGoes
<1> DEFINE q == outbox(k)
<1>6. q \in Queues /\ q # accepted /\ q # cmds /\ push(e, q, v)
  BY <1>1, <1>5, QueueNames
<1> HIDE DEF q
<1>7. /\ HandsOver(e, q) /\ queue' \in [Queues -> QueueSet]
      /\ \A r \in Queues : r # q => queue'[r] = queue[r]
      /\ queue'[q].closed = queue[q].closed /\ queue'[q].exec = queue[q].exec
  BY ONLY <1>2, <1>3, <1>4, <1>6, PushedOver
<1>8. RoomServed /\ queue'[cmds].q \in Seq(Commands)
  <2>1. queue'[cmds] = queue[cmds]
    BY ONLY <1>6, <1>7, QueueNames
  <2> QED
    BY <2>1, NoPushServed
<1>9. got' = [d \in Coros |-> got'[d]] /\ got'[Room] = got[Room] /\ got'[Main] = got[Main]
  <2>1. c # Room /\ c # Main
    BY <1>5, CoroNames
  <2>2. got = [d \in Coros |-> got[d]]
    BY DEF IInv, Typed
  <2>3. got' = [got EXCEPT ![c] = None]
    BY DEF Consumed
  <2> QED
    BY ONLY <2>1, <2>2, <2>3, CoroNames
<1>10. UNCHANGED <<runq, inbound, running, groupVars, tcpVars, roomVars>>
  OBVIOUS
<1> QED
  BY ONLY <1>1, <1>3, <1>4, <1>5, <1>6, <1>7, <1>8, <1>9, <1>10, SessionMoves

\* What the session has received.
LEMMA SessionReceivedKeeps ==
  ASSUME IInv, NEW e \in Execs, NEW c, c # None, SessionReceived(e, c)
  PROVE  IInv'
<1>1. At(e, c, "received") /\ Consumed(c) /\ UNCHANGED <<runq, inbound, running, groupVars, tcpVars, roomVars>>
  BY DEF SessionReceived
<1>2. CASE got[c] = None /\ Goto(c, "leave") /\ UNCHANGED <<queue, hand>>
  BY <1>1, <1>2, SessionEofKeeps
<1>3. CASE push(e, cmds, <<"say", 0>>) /\ Goto(c, "recv")
  BY <1>1, <1>3, SessionSaysKeeps
<1>4. CASE push(e, outbox(Inner(c).on), <<"msg", 0>>) /\ Goto(c, "leave")
  BY <1>1, <1>4, SessionQuitsKeeps
<1> QED
  BY <1>2, <1>3, <1>4 DEF SessionReceived

\* The room is told that the client leaves.
LEMMA SessionLeaveKeeps ==
  ASSUME IInv, NEW e \in Execs, NEW c, c # None, SessionLeave(e, c)
  PROVE  IInv'
<1> DEFINE l == "leave"
           m == "close outbox"
<1>1. l \in SessionAlone /\ m \in Between /\ At(e, c, l) /\ Goto(c, m)
  BY DEF SessionAlone, Between, SessionLeave
<1> HIDE DEF l, m
<1>3. IInv /\ e \in Execs /\ c # None
  OBVIOUS
<1>4. running[e] = c /\ hand[e] = None
  BY ONLY <1>1, <1>3, SessionGoes
<1>5. PICK k \in Clients : c = session(k) /\ Inner(c).on = k /\ frames' = [frames EXCEPT ![c] = On(m, k, <<>>)]
  BY ONLY <1>1, <1>3, SessionGoes
<1> DEFINE q == cmds
           v == <<"leave", k>>
<1>6. q \in Queues /\ q # accepted /\ q = cmds /\ push(e, q, v)
  BY <1>5, QueueNames DEF SessionLeave
<1>2. v \in Commands /\ v \in Values /\ \A j \in Clients : v # <<"join", j>>
  BY ValuesAre
<1> HIDE DEF q, v
<1>7. /\ HandsOver(e, q) /\ queue' \in [Queues -> QueueSet]
      /\ \A r \in Queues : r # q => queue'[r] = queue[r]
      /\ queue'[q].closed = queue[q].closed /\ queue'[q].exec = queue[q].exec
      /\ IF queue[q].closed THEN queue'[q].q = queue[q].q ELSE queue'[q].q = Append(queue[q].q, v)
  BY ONLY <1>2, <1>3, <1>4, <1>6, PushedOver
<1>8. RoomServed /\ queue'[cmds].q \in Seq(Commands)
  <2>1. ~ queue[cmds].closed
    BY DEF IInv, RoomOK
  <2>2. queue'[cmds].closed = queue[cmds].closed /\ queue'[cmds].q = Append(queue[cmds].q, v)
    BY ONLY <1>6, <1>7, <2>1
  <2> QED
    BY <1>2, <2>2, PushServed
<1>9. got' = [d \in Coros |-> got'[d]] /\ got'[Room] = got[Room] /\ got'[Main] = got[Main]
  BY DEF SessionLeave, IInv, Typed
<1>10. UNCHANGED <<runq, inbound, running, groupVars, tcpVars, roomVars>>
  BY DEF SessionLeave
<1> QED
  BY ONLY <1>1, <1>3, <1>4, <1>5, <1>6, <1>7, <1>8, <1>9, <1>10, SessionMoves

\* The outbox is closed.
LEMMA SessionClosesKeeps ==
  ASSUME IInv, NEW e \in Execs, NEW c, c # None, SessionCloses(e, c)
  PROVE  IInv'
<1> DEFINE l == "close outbox"
           m == "join group"
<1>1. l \in SessionAlone /\ m \in Between /\ At(e, c, l) /\ Goto(c, m)
  BY DEF SessionAlone, Between, SessionCloses
<1> HIDE DEF l, m
<1>3. IInv /\ e \in Execs /\ c # None
  OBVIOUS
<1>4. running[e] = c /\ hand[e] = None
  BY ONLY <1>1, <1>3, SessionGoes
<1>5. PICK k \in Clients : c = session(k) /\ Inner(c).on = k /\ frames' = [frames EXCEPT ![c] = On(m, k, <<>>)]
  BY ONLY <1>1, <1>3, SessionGoes
<1> DEFINE q == outbox(k)
<1>6. q \in Queues /\ q # accepted /\ q # cmds /\ close(e, q)
  BY <1>5, QueueNames DEF SessionCloses
<1> HIDE DEF q
<1>7. /\ HandsOver(e, q) /\ queue' \in [Queues -> QueueSet]
      /\ \A r \in Queues : r # q => queue'[r] = queue[r]
      /\ queue'[q].exec = queue[q].exec
  BY ONLY <1>3, <1>4, <1>6, ClosedOver
<1>8. RoomServed /\ queue'[cmds].q \in Seq(Commands)
  <2>1. queue'[cmds] = queue[cmds]
    BY ONLY <1>6, <1>7, QueueNames
  <2> QED
    BY <2>1, NoPushServed
<1>9. got' = [d \in Coros |-> got'[d]] /\ got'[Room] = got[Room] /\ got'[Main] = got[Main]
  BY DEF SessionCloses, IInv, Typed
<1>10. UNCHANGED <<runq, inbound, running, groupVars, tcpVars, roomVars>>
  BY DEF SessionCloses
<1> QED
  BY ONLY <1>1, <1>3, <1>4, <1>5, <1>6, <1>7, <1>8, <1>9, <1>10, SessionMoves

----------------------------------------------------------------------------
(* A reference to a client is given up. *)

\* At most one stream is dropped: it is closed here, or its worker is told to.
Drops ==
  \/ watcher' = watcher /\ inbound' = inbound
  \/ \E k \in Clients :
       /\ watcher[k] # "none"
       /\ \/ watcher' = [watcher EXCEPT ![k] = "closed"] /\ inbound' = inbound
          \/ watcher' = watcher /\ Sent(exec(k), <<"cleanup", k>>)

\* The worker of a stream is known once there is a stream.
LEMMA ExecKnown ==
  ASSUME IInv, NEW k \in Clients, watcher[k] # "none"
  PROVE  exec(k) \in Execs
<1>1. queue[recv_q(k)].exec # NoExec
  BY DEF IInv, Bound
<1>2. queue[recv_q(k)].exec \in Execs \cup {NoExec}
  BY QueueNames DEF IInv, Typed
<1> QED
  BY <1>1, <1>2 DEF exec

\* A stream is dropped on its own worker, or by a cleanup posted there;
LEMMA DropStreamIs ==
  ASSUME IInv, NEW e \in Execs, NEW k \in Clients, watcher[k] # "none", DropStream(e, k)
  PROVE  \/ watcher' = [watcher EXCEPT ![k] = "closed"] /\ inbound' = inbound
         \/ watcher' = watcher /\ Sent(exec(k), <<"cleanup", k>>)
<1>1. CASE exec(k) = e
  BY <1>1 DEF DropStream, CloseWatcher
<1>2. CASE exec(k) # e
  <2> DEFINE a == <<"cleanup", k>>
             x == exec(k)
  <2>1. a \in Tasks /\ x \in Execs
    BY TokenNames, ExecKnown
  <2>2. inbound' = Posted(inbound, a, x) /\ watcher' = watcher
    BY <1>2 DEF DropStream
  <2>3. inbound \in [Execs -> Seq(Tasks)]
    BY DEF IInv, Typed
  <2> HIDE DEF a, x
  <2>4. Sent(x, a)
    BY <2>1, <2>2, <2>3, SentIs
  <2> QED
    BY <2>2, <2>4 DEF a, x
<1> QED
  BY <1>1, <1>2

\* Drop() of the one client that loses a reference.
LEMMA DropIs ==
  ASSUME IInv, NEW e \in Execs, NEW k \in Clients, NEW ks \in SUBSET {k}, k \in ks => watcher[k] # "none",
         Drop(e, ks), runq' = runq, exec(k)' = exec(k)
  PROVE  Drops /\ (k \in ks => k \in Alive' \/ watcher'[k] # "open" \/ Cleaning(exec(k), k)')
<1>1. CASE UNCHANGED <<watcher, want_send_ready, inbound>> /\ ks \ Alive' = {}
  BY <1>1 DEF Drops
<1>2. CASE \E j \in ks \ Alive' : DropStream(e, j)
  <2>1. k \in ks /\ DropStream(e, k) /\ watcher[k] # "none"
    BY <1>2
  <2>2. \/ watcher' = [watcher EXCEPT ![k] = "closed"] /\ inbound' = inbound
        \/ watcher' = watcher /\ Sent(exec(k), <<"cleanup", k>>)
    BY <2>1, DropStreamIs
  <2>3. Drops
    BY <2>1, <2>2 DEF Drops
  <2>4. CASE watcher' = [watcher EXCEPT ![k] = "closed"]
    <3>1. watcher \in [Clients -> {"none", "open", "closed"}]
      BY DEF IInv, Typed
    <3>2. watcher'[k] # "open"
      BY ONLY <2>4, <3>1, k \in Clients
    <3> QED
      BY <2>3, <3>2
  <2>5. CASE Sent(exec(k), <<"cleanup", k>>)
    <3> DEFINE a == <<"cleanup", k>>
    <3>0. PICK x \in Execs : x = exec(k) /\ x = exec(k)'
      BY <2>1, ExecKnown
    <3>1. Sent(x, a)
      BY <2>5, <3>0
    <3> HIDE DEF a
    <3>2. Among(inbound'[x], a)
      BY <3>1, SentAmong
    <3>3. Cleaning(x, k)'
      BY <3>2 DEF a, Cleaning
    <3> QED
      BY <2>3, <3>0, <3>3 DEF Cleaning
  <2> QED
    BY <2>2, <2>4, <2>5
<1> QED
  BY <1>1, <1>2 DEF Drop

\* What it does to the streams.
LEMMA DropsWatchers ==
  ASSUME IInv, Drops
  PROVE  /\ watcher' \in [Clients -> {"none", "open", "closed"}]
         /\ \A k \in Clients : /\ watcher'[k] = "none" <=> watcher[k] = "none"
                               /\ watcher'[k] = "open" => watcher[k] = "open"
<1>1. watcher \in [Clients -> {"none", "open", "closed"}]
  BY DEF IInv, Typed
<1>2. CASE watcher' = watcher
  BY <1>1, <1>2
<1>3. ASSUME NEW k \in Clients, watcher[k] # "none", watcher' = [watcher EXCEPT ![k] = "closed"]
      PROVE  /\ watcher' \in [Clients -> {"none", "open", "closed"}]
             /\ \A j \in Clients : /\ watcher'[j] = "none" <=> watcher[j] = "none"
                                   /\ watcher'[j] = "open" => watcher[j] = "open"
  BY <1>1, <1>3
<1> QED
  BY <1>2, <1>3 DEF Drops

\* What it does to the tasks.
LEMMA DropsTasks ==
  ASSUME IInv, Drops
  PROVE  inbound' \in [Execs -> Seq(Tasks)]
<1>1. inbound \in [Execs -> Seq(Tasks)]
  BY DEF IInv, Typed
<1>2. ASSUME NEW x, NEW a, Sent(x, a) PROVE inbound' \in [Execs -> Seq(Tasks)]
  BY <1>2, SentFacts
<1> QED
  BY <1>1, <1>2 DEF Drops

\* no chain moves by it;
LEMMA DropsCounts ==
  ASSUME Drops, NEW t, \A k \in Clients : t # <<"cleanup", k>>
  PROVE  InbN(t)' = InbN(t)
<1>1. CASE inbound' = inbound
  BY <1>1, PartsSame
<1>2. ASSUME NEW k \in Clients, Sent(exec(k), <<"cleanup", k>>) PROVE InbN(t)' = InbN(t)
  <2> DEFINE a == <<"cleanup", k>>
             x == exec(k)
  <2>1. Sent(x, a) /\ t # a
    BY <1>2
  <2> HIDE DEF a, x
  <2>2. InbN(t)' = InbN(t) + One(a = t)
    BY <2>1, SentFacts
  <2>3. One(a = t) = 0
    BY <2>1 DEF One
  <2>4. InbN(t) \in Nat
    <3>1. Changed(inbound, inbound', Execs, Tasks, x)
      BY <2>1 DEF Sent
    <3> QED
      BY <3>1, InbSome DEF Changed
  <2> QED
    BY ONLY <2>2, <2>3, <2>4
<1> QED
  BY <1>1, <1>2 DEF Drops

\* and only known streams are cleaned up.
LEMMA DropsCleaning ==
  ASSUME Drops, runq' = runq, NEW x \in Execs, NEW j \in Clients
  PROVE  /\ Cleaning(x, j) => Cleaning(x, j)'
         /\ Cleaning(x, j)' => Cleaning(x, j) \/ watcher[j] # "none"
<1>1. CASE inbound' = inbound
  BY <1>1 DEF Cleaning
<1>2. ASSUME NEW k \in Clients, watcher[k] # "none", Sent(exec(k), <<"cleanup", k>>)
      PROVE  /\ Cleaning(x, j) => Cleaning(x, j)'
             /\ Cleaning(x, j)' => Cleaning(x, j) \/ watcher[j] # "none"
  <2> DEFINE a == <<"cleanup", k>>
             y == exec(k)
             t == <<"cleanup", j>>
  <2>1. Sent(y, a) /\ (t = a => j = k)
    BY <1>2
  <2> HIDE DEF a, y, t
  <2>2. Among(inbound'[x], t) <=> Among(inbound[x], t) \/ (x = y /\ a = t)
    BY <2>1, SentAmong
  <2>3. /\ Cleaning(x, j) <=> Among(runq[x], t) \/ Among(inbound[x], t)
        /\ Cleaning(x, j)' <=> Among(runq[x], t) \/ Among(inbound'[x], t)
    BY DEF Cleaning, t
  <2> QED
    BY ONLY <1>2, <2>1, <2>2, <2>3
<1> QED
  BY <1>1, <1>2 DEF Drops

----------------------------------------------------------------------------
(* The room keeps the thread. *)

\* The room changes its own variables, wakes a writer, or gives up a client.
LEMMA RoomTyped ==
  ASSUME IInv, NEW s \in Stack, StackOf(Room, s), frames' = [frames EXCEPT ![Room] = s],
         UNCHANGED <<runq, running, groupVars, send_locked, send_lock_waiters, timers, rr, chunks>>,
         Drops, hand' \in [Execs -> Hands], queue' \in [Queues -> QueueSet],
         queue'[accepted] = queue[accepted], queue'[cmds] = queue[cmds],
         got' = [d \in Coros |-> got'[d]], got'[Main] = got[Main], got'[Room] \in Commands \cup {None},
         clients' \in Seq(Clients), it' \in Nat \ {0}
  PROVE  Typed'
<1>1. frames' \in [Coros -> Stack]
  BY CoroNames DEF IInv, Typed
<1>2. watcher' \in [Clients -> {"none", "open", "closed"}] /\ inbound' \in [Execs -> Seq(Tasks)]
  BY DropsWatchers, DropsTasks
<1>3. /\ runq' = runq /\ running' = running /\ active' = active /\ join_waiter' = join_waiter
      /\ send_locked' = send_locked /\ send_lock_waiters' = send_lock_waiters /\ timers' = timers
      /\ rr' = rr /\ chunks' = chunks
  BY DEF groupVars
<1> QED
  BY <1>1, <1>2, <1>3 DEF IInv, Typed, QueueSet, Hands

\* The room takes a step;
LEMMA RoomGoes ==
  ASSUME IInv, NEW e \in Execs, running[e] = Room, NEW s \in Stack, s # <<>>, StackOf(Room, s),
         frames' = [frames EXCEPT ![Room] = s],
         UNCHANGED <<runq, running, groupVars, send_locked, send_lock_waiters, timers, rr, chunks>>,
         Drops, hand' \in [Execs -> Hands], queue' \in [Queues -> QueueSet],
         \A d \in Coros : HandN(d)' + WaitN(d)' = HandN(d) + WaitN(d),
         \A r \in Queues : /\ (queue'[r].waiter = None \/ queue'[r].waiter = queue[r].waiter)
                           /\ queue'[r].exec = queue[r].exec,
         queue'[accepted] = queue[accepted], queue'[cmds] = queue[cmds],
         got' = [d \in Coros |-> got'[d]], got'[Main] = got[Main], got'[Room] \in Commands \cup {None},
         \A k \in Clients : got'[Room] = <<"join", k>> => got[Room] = <<"join", k>>,
         clients' \in Seq(Clients), it' \in Nat \ {0},
         \A k \in Clients : Among(clients', k) => Among(clients, k) \/ watcher[k] # "none",
         RoomOK',
         \A k \in Clients : watcher'[k] = "open" /\ k \in Alive => k \in Alive' \/ Cleaning(exec(k), k)'
  PROVE  IInv'
<1>1. Typed'
  BY RoomTyped
<1>2. frames[Room] # <<>> /\ NotWait(Room) /\ NotJoin(Room) /\ NotLock(Room)
  <2>1. Room # None
    BY CoroNames, NotCoros
  <2> QED
    BY <2>1, Alone DEF IInv
<1>3. /\ runq' = runq /\ running' = running /\ active' = active /\ join_waiter' = join_waiter
      /\ send_locked' = send_locked /\ send_lock_waiters' = send_lock_waiters /\ timers' = timers
      /\ rr' = rr /\ chunks' = chunks
  BY DEF groupVars
<1>4. /\ watcher' \in [Clients -> {"none", "open", "closed"}]
      /\ \A k \in Clients : /\ watcher'[k] = "none" <=> watcher[k] = "none"
                            /\ watcher'[k] = "open" => watcher[k] = "open"
  BY DropsWatchers
<1>5. ASSUME NEW d \in Coros PROVE Places(d)' = Places(d)
  <2>1. /\ Numbers(d) /\ Numbers(d)'
        /\ Places(d) = RunN(d) + HandN(d) + WaitN(d) + JoinN(d) + TimeN(d) + RunqN(d) + InbN(d) + LockN(d)
        /\ Places(d)' = RunN(d)' + HandN(d)' + WaitN(d)' + JoinN(d)' + TimeN(d)' + RunqN(d)' + InbN(d)' + LockN(d)'
    BY <1>1, PlacesAll DEF IInv, Typed, Queued
  <2>2. /\ RunN(d)' = RunN(d) /\ JoinN(d)' = JoinN(d) /\ RunqN(d)' = RunqN(d)
        /\ TimeN(d)' = TimeN(d) /\ LockN(d)' = LockN(d)
    BY <1>3, PartsSame
  <2>3. InbN(d)' = InbN(d)
    <3>1. \A k \in Clients : d # <<"cleanup", k>>
      BY NotCoros
    <3> QED
      BY <3>1, DropsCounts
  <2>4. HandN(d)' + WaitN(d)' = HandN(d) + WaitN(d)
    OBVIOUS
  <2>5. /\ RunN(d) \in Nat /\ HandN(d) \in Nat /\ WaitN(d) \in Nat /\ JoinN(d) \in Nat /\ TimeN(d) \in Nat
        /\ RunqN(d) \in Nat /\ InbN(d) \in Nat /\ LockN(d) \in Nat /\ HandN(d)' \in Nat /\ WaitN(d)' \in Nat
    BY <2>1 DEF Numbers
  <2> QED
    BY ONLY <2>1, <2>2, <2>3, <2>4, <2>5
<1>6. WaitsMove(Room, s)
  BY <1>3 DEF WaitsMove
<1>7. Ticketed'
  <2>1. ASSUME NEW k \in Clients PROVE Tickets(k)' = Tickets(k)
    <3> DEFINE t == <<"start", k>>
    <3>1. InbN(t)' = InbN(t)
      <4>1. \A j \in Clients : t # <<"cleanup", j>>
        OBVIOUS
      <4> HIDE DEF t
      <4> QED
        BY <4>1, DropsCounts
    <3>2. RunqN(t)' = RunqN(t)
      BY <1>3, PartsSame
    <3> QED
      BY <3>1, <3>2, TicketsParts
  <2>2. Ticketed
    BY DEF IInv
  <2> QED
    BY <1>3, <1>4, <2>1, <2>2, TicketedStays
<1>8. \A k \in Clients, x \in Execs : /\ Cleaning(x, k) => Cleaning(x, k)' \/ watcher'[k] # "open"
                                      /\ Cleaning(x, k)' => Cleaning(x, k) \/ watcher[k] # "none"
  BY <1>3, DropsCleaning
<1>9. \A k \in Clients : watcher[k] = "none" =>
        ~ Among(queue'[cmds].q, <<"join", k>>) /\ got'[Room] # <<"join", k>> /\ ~ Among(clients', k)
  <2>1. Known
    BY DEF IInv
  <2> QED
    BY <2>1 DEF Known
<1> QED
  BY <1>1, <1>2, <1>3, <1>4, <1>5, <1>6, <1>7, <1>8, <1>9, RoomMoves

----------------------------------------------------------------------------
(* The steps of the room that wake nobody. *)

\* one that changes nothing of the others.
LEMMA RoomWalks ==
  ASSUME IInv, NEW e \in Execs, running[e] = Room, NEW s \in Stack, s # <<>>, StackOf(Room, s),
         frames' = [frames EXCEPT ![Room] = s],
         UNCHANGED <<runq, running, hand, queue, groupVars, send_locked, send_lock_waiters, timers, rr, chunks>>,
         Drops,
         got' = [d \in Coros |-> got'[d]], got'[Main] = got[Main], got'[Room] \in Commands \cup {None},
         \A k \in Clients : got'[Room] = <<"join", k>> => got[Room] = <<"join", k>>,
         clients' \in Seq(Clients), it' \in Nat \ {0},
         \A k \in Clients : Among(clients', k) => Among(clients, k) \/ watcher[k] # "none",
         RoomOK',
         \A k \in Clients : watcher'[k] = "open" /\ k \in Alive => k \in Alive' \/ Cleaning(exec(k), k)'
  PROVE  IInv'
<1>1. queue' = queue /\ hand' = hand
  OBVIOUS
<1>2. hand' \in [Execs -> Hands] /\ queue' \in [Queues -> QueueSet]
  BY <1>1 DEF IInv, Typed, QueueSet, Hands
<1>3. \A d \in Coros : HandN(d)' + WaitN(d)' = HandN(d) + WaitN(d)
  BY <1>1, PartsSame
<1> QED
  BY <1>1, <1>2, <1>3, RoomGoes

\* Where the room is.
LEMMA RoomAtIs ==
  ASSUME NEW l \in Labels, NEW x \in Subjects, NEW t \in Stack
  PROVE  /\ frames[Room] = On(l, x, t) => \A L : RoomAt(L) <=> l \in L
         /\ frames'[Room] = On(l, x, t) => \A L : RoomAt(L)' <=> l \in L
<1>1. Head(On(l, x, t)).at = l /\ On(l, x, t) # <<>>
  BY OnFacts
<1> QED
  BY <1>1 DEF RoomAt, Inner

\* The labels of the room itself.
RoomAlone == {"room", "command", "cast", "pushed"}

\* The room at one of them.
LEMMA RoomHere ==
  ASSUME IInv, NEW e \in Execs, NEW l \in RoomAlone, At(e, Room, l)
  PROVE  /\ running[e] = Room /\ hand[e] = None /\ l \in Labels
         /\ \E t \in Stack : t = <<>> /\ frames[Room] = On(l, 0, t)
<1>0. l \in Labels
  BY DEF RoomAlone, Labels
<1>1. Room # None /\ l \in Labels
  BY <1>0, CoroNames, NotCoros
<1>2. Where(Room, l, frames[Room]) /\ running[e] = Room /\ hand[e] = None
  BY <1>1, Here
<1>3. frames[Room] = On(l, 0, <<>>)
  BY <1>2 DEF Where, RoomAlone
<1> QED
  BY <1>1, <1>2, <1>3, EmptyStack

\* The room goes on to pop().
LEMMA RoomAwaits ==
  ASSUME IInv, NEW e \in Execs, NEW l \in RoomAlone, At(e, Room, l), pop(Room, cmds, "command")
  PROVE  \E m \in Popping :
           /\ frames' = [frames EXCEPT ![Room] = On(m, cmds, On("command", 0, <<>>))]
           /\ m = "resume" => queue[cmds].q # <<>>
<1>1. PICK t \in Stack : t = <<>> /\ frames[Room] = On(l, 0, t) /\ l \in Labels
  BY RoomHere
<1> DEFINE n == "command"
           m == IF await_ready(cmds) THEN "resume" ELSE "suspend"
<1>2. n \in Labels /\ m \in Labels /\ m \in Popping /\ 0 \in Subjects /\ cmds \in Subjects
  BY LabelFacts, SubjectFacts DEF Popping
<1>3. m = "resume" => queue[cmds].q # <<>>
  BY DEF await_ready, IInv, RoomOK
<1>4. frames' = [frames EXCEPT ![Room] = <<Frame(m, cmds), Frame(n, Inner(Room).on)>> \o Outer(Room)]
  BY DEF pop
<1> HIDE DEF m, n
<1>5. <<Frame(m, cmds), Frame(n, Inner(Room).on)>> \o Outer(Room) = On(m, cmds, On(n, 0, t))
  BY ONLY <1>1, <1>2, StepAwait
<1>6. frames' = [frames EXCEPT ![Room] = On(m, cmds, On(n, 0, <<>>))]
  BY ONLY <1>1, <1>4, <1>5
<1> QED
  BY ONLY <1>2, <1>3, <1>6 DEF n

\* What is so of the room that is in pop().
LEMMA RoomAwaitsFacts ==
  ASSUME IInv, NEW m \in Popping, frames' = [frames EXCEPT ![Room] = On(m, cmds, On("command", 0, <<>>))],
         m = "resume" => queue[cmds].q # <<>>, queue' = queue
  PROVE  /\ On(m, cmds, On("command", 0, <<>>)) \in Stack /\ On(m, cmds, On("command", 0, <<>>)) # <<>>
         /\ StackOf(Room, On(m, cmds, On("command", 0, <<>>)))
         /\ RoomOK' /\ ~ RoomAt({"command", "cast", "pushed"})' /\ ~ RoomAt({"pushed"})'
         /\ \A k \in Clients : frames'[session(k)] = frames[session(k)]
<1> DEFINE u == On("command", 0, <<>>)
           s == On(m, cmds, u)
<1>1. u \in Stack /\ m \in Labels /\ cmds \in Subjects /\ StackOf(Room, s)
  BY Rests, SubjectFacts, LabelFacts, NewRoom DEF Popping
<1>2. m \notin {"command", "cast", "pushed"} /\ m \notin {"pushed"}
  BY DEF Popping
<1>3. frames \in [Coros -> Stack] /\ frames' = [frames EXCEPT ![Room] = s]
  BY DEF IInv, Typed
<1>4. queue' = queue /\ (m = "resume" => queue[cmds].q # <<>>) /\ ~ queue[cmds].closed
  BY DEF IInv, RoomOK
<1> HIDE DEF u
<1>5. s \in Stack /\ s # <<>> /\ Head(s) = Frame(m, cmds)
  BY <1>1, OnFacts
<1>6. frames'[Room] = s /\ \A k \in Clients : frames'[session(k)] = frames[session(k)]
  BY ONLY <1>3, CoroNames
<1>7. ~ RoomAt({"command", "cast", "pushed"})' /\ ~ RoomAt({"pushed"})'
  BY <1>1, <1>2, <1>6, RoomAtIs
<1>8. HeadIs(Room, Frame("resume", cmds))' => m = "resume"
  <2>1. HeadIs(Room, Frame("resume", cmds))' => Frame(m, cmds) = Frame("resume", cmds)
    BY ONLY <1>5, <1>6 DEF HeadIs, s, cmds
  <2> QED
    BY <2>1, FrameFacts
<1>9. RoomOK'
  BY <1>4, <1>7, <1>8 DEF RoomOK
<1> QED
  BY <1>1, <1>5, <1>6, <1>7, <1>9 DEF u

----------------------------------------------------------------------------
(* The room awaits the first command, and the next one. *)

\* The clients that have another reference than the room's live on.
LEMMA AliveAwaits ==
  ASSUME NEW k \in Clients, k \in Alive, frames'[session(k)] = frames[session(k)], queue' = queue,
         ~ RoomAt({"pushed"}), RoomAt({"command", "cast", "pushed"}) => got[Room] # <<"join", k>>
  PROVE  k \in Alive'
BY DEF Alive, InSession, InJoin, Pinned

\* The room keeps the invariant when it awaits the next command.
LEMMA RoomPopsKeeps ==
  ASSUME IInv, NEW e \in Execs, RoomPops(e)
  PROVE  IInv'
<1> DEFINE l == "room"
<1>1. At(e, Room, l) /\ l \in RoomAlone /\ pop(Room, cmds, "command")
  BY DEF RoomPops, RoomAlone
<1>2. l \notin {"command", "cast", "pushed"} /\ l \notin {"pushed"}
  OBVIOUS
<1> HIDE DEF l
<1>3. IInv /\ e \in Execs
  OBVIOUS
<1>4. PICK t \in Stack : t = <<>> /\ frames[Room] = On(l, 0, t)
  BY ONLY <1>1, <1>3, RoomHere
<1>5. running[e] = Room /\ l \in Labels
  BY ONLY <1>1, <1>3, RoomHere
<1>6. PICK m \in Popping : /\ frames' = [frames EXCEPT ![Room] = On(m, cmds, On("command", 0, <<>>))]
                           /\ m = "resume" => queue[cmds].q # <<>>
  BY ONLY <1>1, <1>3, RoomAwaits
<1>7. /\ runq' = runq /\ running' = running /\ inbound' = inbound /\ hand' = hand /\ queue' = queue /\ got' = got
      /\ watcher' = watcher /\ send_locked' = send_locked /\ send_lock_waiters' = send_lock_waiters
      /\ timers' = timers /\ rr' = rr /\ chunks' = chunks /\ UNCHANGED groupVars
      /\ clients' = clients /\ it' = it
  BY DEF RoomPops, execVars, tcpVars, streamVars, roomVars
<1>8. /\ On(m, cmds, On("command", 0, <<>>)) \in Stack /\ On(m, cmds, On("command", 0, <<>>)) # <<>>
      /\ StackOf(Room, On(m, cmds, On("command", 0, <<>>)))
      /\ RoomOK'
      /\ \A k \in Clients : frames'[session(k)] = frames[session(k)]
  BY ONLY <1>3, <1>6, <1>7, RoomAwaitsFacts
<1>9. \A k \in Clients : k \in Alive => k \in Alive'
  <2>1. ~ RoomAt({"pushed"}) /\ ~ RoomAt({"command", "cast", "pushed"})
    BY <1>2, <1>4, <1>5, RoomAtIs, SubjectFacts
  <2> QED
    BY ONLY <1>7, <1>8, <2>1, AliveAwaits
<1>10. /\ got' = [d \in Coros |-> got'[d]] /\ got'[Main] = got[Main] /\ got'[Room] \in Commands \cup {None}
       /\ \A k \in Clients : got'[Room] = <<"join", k>> => got[Room] = <<"join", k>>
       /\ clients' \in Seq(Clients) /\ it' \in Nat \ {0}
       /\ \A k \in Clients : Among(clients', k) => Among(clients, k) \/ watcher[k] # "none"
  BY <1>7 DEF IInv, Typed
<1>11. Drops
  BY <1>7 DEF Drops
<1> QED
  BY ONLY <1>3, <1>5, <1>6, <1>7, <1>8, <1>9, <1>10, <1>11, RoomWalks

\* The client that the command was about.
LEMMA RoomLoopsKeeps ==
  ASSUME IInv, NEW e \in Execs, RoomLoops(e)
  PROVE  IInv'
<1> DEFINE l == "cast"
<1>1. At(e, Room, l) /\ l \in RoomAlone /\ pop(Room, cmds, "command")
  BY DEF RoomLoops, RoomAlone
<1>2. l \in {"command", "cast", "pushed"} /\ l \notin {"pushed"}
  OBVIOUS
<1> HIDE DEF l
<1>3. IInv /\ e \in Execs
  OBVIOUS
<1>4. PICK t \in Stack : t = <<>> /\ frames[Room] = On(l, 0, t)
  BY ONLY <1>1, <1>3, RoomHere
<1>5. running[e] = Room /\ l \in Labels
  BY ONLY <1>1, <1>3, RoomHere
<1>6. PICK m \in Popping : /\ frames' = [frames EXCEPT ![Room] = On(m, cmds, On("command", 0, <<>>))]
                           /\ m = "resume" => queue[cmds].q # <<>>
  BY ONLY <1>1, <1>3, RoomAwaits
<1>7. /\ runq' = runq /\ running' = running /\ hand' = hand /\ queue' = queue /\ got' = [got EXCEPT ![Room] = None]
      /\ send_locked' = send_locked /\ send_lock_waiters' = send_lock_waiters
      /\ timers' = timers /\ rr' = rr /\ chunks' = chunks /\ UNCHANGED groupVars
      /\ clients' = clients /\ it' = 1
  BY DEF RoomLoops, Consumed
<1>8. /\ On(m, cmds, On("command", 0, <<>>)) \in Stack /\ On(m, cmds, On("command", 0, <<>>)) # <<>>
      /\ StackOf(Room, On(m, cmds, On("command", 0, <<>>)))
      /\ RoomOK'
      /\ \A k \in Clients : frames'[session(k)] = frames[session(k)]
  BY ONLY <1>3, <1>6, <1>7, RoomAwaitsFacts
<1>9. ~ RoomAt({"pushed"}) /\ RoomAt({"command", "cast", "pushed"})
  BY <1>2, <1>4, <1>5, RoomAtIs, SubjectFacts
<1>10. /\ got' = [d \in Coros |-> got'[d]] /\ got'[Main] = got[Main] /\ got'[Room] = None
  <2>1. got = [d \in Coros |-> got[d]]
    BY DEF IInv, Typed
  <2> QED
    BY ONLY <1>7, <2>1, CoroNames
<1>11. /\ got'[Room] \in Commands \cup {None}
       /\ \A k \in Clients : got'[Room] = <<"join", k>> => got[Room] = <<"join", k>>
       /\ clients' \in Seq(Clients) /\ it' \in Nat \ {0}
       /\ \A k \in Clients : Among(clients', k) => Among(clients, k) \/ watcher[k] # "none"
  <2>1. clients \in Seq(Clients) /\ 1 \in Nat \ {0}
    BY DEF IInv, Typed
  <2>2. \A k : <<"join", k>> # None
    BY TokenIsSome
  <2> QED
    BY ONLY <1>7, <1>10, <2>1, <2>2
<1>12. Drop(e, IF got[Room][1] = "join" THEN {got[Room][2]} ELSE {})
  BY DEF RoomLoops
<1>13. Drops /\ \A k \in Clients : watcher'[k] = "open" /\ k \in Alive => k \in Alive' \/ Cleaning(exec(k), k)'
  <2>1. CASE \E j \in Clients : got[Room] = <<"join", j>>
    <3>1. PICK j \in Clients : got[Room] = <<"join", j>>
      BY <2>1
    <3>2. Drop(e, {j}) /\ watcher[j] # "none"
      <4>1. Known
        BY DEF IInv
      <4>2. watcher[j] # "none"
        BY ONLY <3>1, <4>1 DEF Known
      <4>3. (IF got[Room][1] = "join" THEN {got[Room][2]} ELSE {}) = {j}
        BY ONLY <3>1
      <4> QED
        BY ONLY <1>12, <4>2, <4>3
    <3>3. exec(j)' = exec(j)
      BY <1>7 DEF exec
    <3> DEFINE ks == {j}
    <3>4. ks \in SUBSET {j} /\ Drop(e, ks) /\ j \in ks
      BY <3>2
    <3> HIDE DEF ks
    <3>5. Drops /\ (j \in Alive' \/ watcher'[j] # "open" \/ Cleaning(exec(j), j)')
      BY ONLY <1>3, <1>7, <3>2, <3>3, <3>4, j \in Clients, DropIs
    <3>6. ASSUME NEW k \in Clients, k \in Alive, k # j PROVE k \in Alive'
      <4>1. got[Room] # <<"join", k>>
        BY <3>1, <3>6
      <4> QED
        BY <1>7, <1>8, <1>9, <3>6, <4>1, AliveAwaits
    <3> QED
      BY <3>5, <3>6
  <2>2. CASE \A j \in Clients : got[Room] # <<"join", j>>
    <3>1. Drop(e, {})
      <4>1. got[Room] \in Commands
        BY <1>9 DEF IInv, Typed, RoomOK
      <4>2. got[Room][1] # "join"
        BY <2>2, <4>1 DEF Commands
      <4> QED
        BY <1>12, <4>2
    <3>2. Drops
      BY <3>1 DEF Drop, Drops
    <3>3. \A k \in Clients : k \in Alive => k \in Alive'
      BY <1>7, <1>8, <1>9, <2>2, AliveAwaits
    <3> QED
      BY <3>2, <3>3
  <2> QED
    BY <2>1, <2>2
<1> QED
  BY ONLY <1>3, <1>5, <1>6, <1>7, <1>8, <1>10, <1>11, <1>13, RoomWalks

----------------------------------------------------------------------------
(* What remove_if() keeps. *)

\* A set of numbers has a least one.
LEMMA LeastIs ==
  ASSUME NEW T, T \subseteq Nat, T # {}
  PROVE  \E x \in T : \A y \in T : x <= y
<1> DEFINE R == OpToRel(<, Nat)
<1>1. IsWellFoundedOn(R, Nat)
  BY NatLessThanWellFounded
<1>2. \A x, y \in Nat : x < y => <<x, y>> \in R
  BY DEF OpToRel
<1> HIDE DEF R
<1>3. PICK x \in T : \A y \in T : <<y, x>> \notin R
  BY <1>1, WFMin
<1>4. \A y \in T : x \in Nat /\ y \in Nat /\ ~ (y < x)
  BY <1>2, <1>3
<1>5. \A y \in T : x <= y
  BY <1>4
<1> QED
  BY <1>5

\* Counting up, as a set: what holds of 0 and is passed on holds up to n.
LEMMA CountUp ==
  ASSUME NEW n \in Nat, NEW G, 0 \in G, \A i \in Nat : i \in G /\ i < n => i + 1 \in G
  PROVE  n \in G
<1> DEFINE T == (0 .. n) \ G
<1>1. SUFFICES ASSUME T # {} PROVE FALSE
  BY DEF T
<1>2. T \subseteq Nat
  OBVIOUS
<1> HIDE DEF T
<1>3. PICK x \in T : \A y \in T : x <= y
  BY ONLY <1>1, <1>2, LeastIs
<1>4. x \in Nat /\ x <= n /\ x \notin G
  BY <1>3 DEF T
<1>5. x # 0 /\ x - 1 \in Nat /\ x - 1 < n /\ x - 1 < x /\ (x - 1) + 1 = x
  BY <1>4
<1>6. x - 1 \notin T
  BY ONLY <1>3, <1>4, <1>5
<1>7. x - 1 \in G
  BY <1>4, <1>5, <1>6 DEF T
<1> QED
  BY <1>4, <1>5, <1>7

\* The entry after one more element of s.
Keep(kept, s, S, i) ==
  IF i = 0 THEN <<>> ELSE IF s[i] \in S THEN Append(kept[i - 1], s[i]) ELSE kept[i - 1]
\* kept is the recursive function of Kept.
Keeping(kept, s, S) == kept = [i \in 0 .. Len(s) |-> Keep(kept, s, S, i)]

\* Kept is its last value;
LEMMA KeptIs ==
  ASSUME NEW s, NEW S
  PROVE  Kept(s, S) = (CHOOSE kept : Keeping(kept, s, S))[Len(s)]
  BY DEF Kept, Keeping, Keep

\* there is one;
LEMMA KeepingExists ==
  ASSUME NEW X, NEW s \in Seq(X), NEW S
  PROVE  \E kept : Keeping(kept, s, S)
<1> DEFINE Upto(f, n) == f = [i \in 0 .. n |-> f[i]] /\ \A i \in 0 .. n : f[i] = Keep(f, s, S, i)
           G == {n \in Nat : \E f : Upto(f, n)}
<1>1. Len(s) \in Nat /\ G \in SUBSET Nat
  OBVIOUS
<1>2. 0 \in G
  <2> DEFINE f == [i \in 0 .. 0 |-> <<>>]
  <2>1. Upto(f, 0)
    BY DEF Keep
  <2> QED
    BY <2>1
<1>3. ASSUME NEW n \in G PROVE n + 1 \in G
  <2>1. n \in Nat
    OBVIOUS
  <2>2. PICK f : Upto(f, n)
    OBVIOUS
  <2> DEFINE g == [i \in 0 .. n + 1 |-> IF i = n + 1 THEN Keep(f, s, S, i) ELSE f[i]]
  <2>3. ASSUME NEW i \in 0 .. n + 1 PROVE g[i] = Keep(g, s, S, i)
    <3>1. i # 0 => i - 1 \in 0 .. n /\ i - 1 # n + 1 /\ i - 1 \in 0 .. n + 1
      BY <2>1
    <3>2. i # 0 => g[i - 1] = f[i - 1]
      BY <3>1
    <3>3. Keep(g, s, S, i) = Keep(f, s, S, i)
      BY <3>2 DEF Keep
    <3>4. CASE i = n + 1
      BY <3>3, <3>4
    <3>5. CASE i # n + 1
      <4>1. i \in 0 .. n
        BY <2>1, <3>5
      <4>2. f[i] = Keep(f, s, S, i)
        BY <2>2, <4>1
      <4>3. g[i] = f[i]
        BY <3>5
      <4> QED
        BY ONLY <3>3, <4>2, <4>3
    <3> QED
      BY <3>4, <3>5
  <2>4. g = [i \in 0 .. n + 1 |-> g[i]]
    OBVIOUS
  <2> HIDE DEF g
  <2>5. Upto(g, n + 1)
    BY <2>3, <2>4
  <2> QED
    BY <2>1, <2>5
<1> HIDE DEF G
<1>4. Len(s) \in G
  <2>1. \A i \in Nat : i \in G /\ i < Len(s) => i + 1 \in G
    BY <1>3
  <2> QED
    BY ONLY <1>1, <1>2, <2>1, CountUp
<1>5. PICK f : Upto(f, Len(s))
  BY <1>4 DEF G
<1>6. Keeping(f, s, S)
  BY <1>5 DEF Keeping
<1> QED
  BY <1>6

\* and its values are sequences of what s has.
LEMMA KeepingType ==
  ASSUME NEW X, NEW s \in Seq(X), NEW S, NEW kept, Keeping(kept, s, S)
  PROVE  kept[Len(s)] \in Seq(X)
<1> DEFINE G == {n \in Nat : n <= Len(s) => kept[n] \in Seq(X)}
<1>1. Len(s) \in Nat /\ G \in SUBSET Nat
  OBVIOUS
<1>2. ASSUME NEW i \in 0 .. Len(s) PROVE kept[i] = Keep(kept, s, S, i)
  BY DEF Keeping
<1>3. 0 \in G
  <2>1. kept[0] = <<>>
    BY <1>1, <1>2 DEF Keep
  <2>2. <<>> \in Seq(X)
    OBVIOUS
  <2> QED
    BY <2>1, <2>2
<1>4. ASSUME NEW n \in G, n < Len(s) PROVE n + 1 \in G
  <2>1. n \in Nat /\ kept[n] \in Seq(X) /\ n + 1 \in 1 .. Len(s) /\ n + 1 \in 0 .. Len(s) /\ n + 1 # 0 /\ (n + 1) - 1 = n
    BY <1>1, <1>4
  <2>2. s[n + 1] \in X
    BY <2>1
  <2>3. kept[n + 1] = IF s[n + 1] \in S THEN Append(kept[n], s[n + 1]) ELSE kept[n]
    BY <1>2, <2>1 DEF Keep
  <2>4. kept[n + 1] \in Seq(X)
    BY <2>1, <2>2, <2>3
  <2> QED
    BY <2>1, <2>4
<1> HIDE DEF G
<1>5. Len(s) \in G
  <2>1. \A i \in Nat : i \in G /\ i < Len(s) => i + 1 \in G
    BY <1>4
  <2> QED
    BY ONLY <1>1, <1>3, <2>1, CountUp
<1> QED
  BY <1>1, <1>5 DEF G

\* What is kept was there before.
LEMMA KeptFacts ==
  ASSUME NEW X, NEW s \in Seq(X), NEW S
  PROVE  Kept(s, S) \in Seq(X) /\ \A t : Among(Kept(s, S), t) => Among(s, t)
<1> DEFINE Y == {x \in X : Among(s, x)}
           kept == CHOOSE f : Keeping(f, s, S)
<1>1. s \in Seq(Y)
  BY DEF Among
<1>2. Keeping(kept, s, S)
  BY KeepingExists
<1> HIDE DEF kept
<1>3. kept[Len(s)] \in Seq(X)
  BY <1>2, KeepingType
<1>4. kept[Len(s)] \in Seq(Y)
  <2> HIDE DEF Y
  <2> QED
    BY <1>1, <1>2, KeepingType
<1>5. Kept(s, S) = kept[Len(s)]
  BY KeptIs DEF kept
<1>6. ASSUME NEW t, Among(kept[Len(s)], t) PROVE Among(s, t)
  <2>1. t \in Y
    <3> HIDE DEF Y
    <3> QED
      BY <1>4, <1>6, AmongType
  <2> QED
    BY <2>1
<1> QED
  BY <1>3, <1>5, <1>6

----------------------------------------------------------------------------
(* The room handles a command, and goes on after a push. *)

\* The room goes on at another label of its loop.
LEMMA RoomGoto ==
  ASSUME IInv, NEW e \in Execs, NEW l \in RoomAlone, At(e, Room, l), NEW m \in RoomAlone, Goto(Room, m)
  PROVE  /\ On(m, 0, <<>>) \in Stack /\ On(m, 0, <<>>) # <<>> /\ StackOf(Room, On(m, 0, <<>>))
         /\ Head(On(m, 0, <<>>)) = Frame(m, 0)
         /\ frames' = [frames EXCEPT ![Room] = On(m, 0, <<>>)]
         /\ frames'[Room] = On(m, 0, <<>>)
         /\ \A L : RoomAt(L) <=> l \in L
         /\ \A L : RoomAt(L)' <=> m \in L
         /\ \A k \in Clients : frames'[session(k)] = frames[session(k)]
<1>1. PICK t \in Stack : t = <<>> /\ frames[Room] = On(l, 0, t)
  BY RoomHere
<1>2. l \in Labels /\ m \in Labels /\ 0 \in Subjects
  BY SubjectFacts DEF RoomAlone, Labels
<1>3. StackOf(Room, On(m, 0, <<>>))
  BY NewRoom DEF RoomAlone
<1>4. frames' = [frames EXCEPT ![Room] = <<Frame(m, Inner(Room).on)>> \o Outer(Room)]
  BY DEF Goto
<1>5. frames \in [Coros -> Stack]
  BY DEF IInv, Typed
<1>6. <<Frame(m, Inner(Room).on)>> \o Outer(Room) = On(m, 0, t)
  BY ONLY <1>1, <1>2, StepGoto
<1>7. frames' = [frames EXCEPT ![Room] = On(m, 0, t)]
  BY ONLY <1>4, <1>6
<1> DEFINE s == On(m, 0, t)
<1>8. s \in Stack /\ s # <<>> /\ Head(s) = Frame(m, 0)
  BY ONLY <1>1, <1>2, OnFacts
<1>9. frames' = [frames EXCEPT ![Room] = s]
  BY <1>7
<1> HIDE DEF s
<1>10. frames'[Room] = s /\ \A k \in Clients : frames'[session(k)] = frames[session(k)]
  BY ONLY <1>5, <1>8, <1>9, CoroNames
<1>11. frames'[Room] = On(m, 0, t)
  BY ONLY <1>10 DEF s
<1>12. (\A L : RoomAt(L) <=> l \in L) /\ (\A L : RoomAt(L)' <=> m \in L)
  BY <1>1, <1>2, <1>11, RoomAtIs
<1> QED
  BY ONLY <1>1, <1>3, <1>7, <1>8, <1>10, <1>11, <1>12 DEF s

\* The label of the room that is not in pop().
LEMMA RoomNotPopping ==
  ASSUME NEW m \in RoomAlone, NEW s, s # <<>>, Head(s) = Frame(m, 0), frames'[Room] = s
  PROVE  ~ HeadIs(Room, Frame("resume", cmds))'
<1>1. Frame(m, 0).at = m /\ Frame("resume", cmds).at = "resume"
  BY FrameFacts
<1>2. m # "resume"
  BY DEF RoomAlone
<1> QED
  BY <1>1, <1>2 DEF HeadIs, cmds

\* What the command does to the list.
LEMMA HandledClients ==
  ASSUME IInv, got[Room] # None,
         clients' = CASE got[Room][1] = "join"  -> Append(clients, got[Room][2])
                      [] got[Room][1] = "leave" -> Kept(clients, Alive \ {got[Room][2]})
                      [] OTHER -> clients
  PROVE  /\ clients' \in Seq(Clients)
         /\ \A k \in Clients : Among(clients', k) => Among(clients, k) \/ watcher[k] # "none"
<1>1. clients \in Seq(Clients) /\ got[Room] \in Commands
  BY DEF IInv, Typed
<1>5. /\ got[Room][1] = "join" => clients' = Append(clients, got[Room][2])
      /\ got[Room][1] = "leave" => clients' = Kept(clients, Alive \ {got[Room][2]})
      /\ got[Room][1] = "say" => clients' = clients
  OBVIOUS
<1>2. CASE \E j \in Clients : got[Room] = <<"join", j>>
  <2>1. PICK j \in Clients : got[Room] = <<"join", j>>
    BY <1>2
  <2>2. watcher[j] # "none"
    <3>1. Known
      BY DEF IInv
    <3> QED
      BY ONLY <2>1, <3>1 DEF Known
  <2>3. clients' = Append(clients, j)
    <3>1. got[Room][1] = "join" /\ got[Room][2] = j
      BY ONLY <2>1
    <3> QED
      BY ONLY <1>5, <3>1
  <2>4. clients' = clients \o <<j>> /\ <<j>> \in Seq(Clients)
    <3>1. clients \in Seq(Clients) /\ j \in Clients
      BY <1>1
    <3> QED
      BY ONLY <2>3, <3>1
  <2>5. ASSUME NEW k \in Clients PROVE Among(clients', k) => Among(clients, k) \/ k = j
    <3>1. Among(clients \o <<j>>, k) <=> Among(clients, k) \/ Among(<<j>>, k)
      BY <1>1, <2>4, AmongCat
    <3>2. Among(<<j>>, k) => k = j
      BY DEF Among
    <3> QED
      BY ONLY <2>4, <3>1, <3>2
  <2> QED
    BY ONLY <1>1, <2>1, <2>2, <2>3, <2>5
<1>3. CASE \E j \in Clients : got[Room] = <<"leave", j>>
  <2>1. PICK j \in Clients : got[Room] = <<"leave", j>>
    BY <1>3
  <2>2. clients' = Kept(clients, Alive \ {j})
    <3>1. got[Room][1] = "leave" /\ got[Room][2] = j
      BY ONLY <2>1
    <3> QED
      BY ONLY <1>5, <3>1
  <2> QED
    BY ONLY <1>1, <2>2, KeptFacts
<1>4. CASE got[Room] = <<"say", 0>>
  <2>1. got[Room][1] = "say"
    BY ONLY <1>4
  <2>2. clients' = clients
    BY ONLY <1>5, <2>1
  <2> QED
    BY ONLY <1>1, <2>2
<1>6. \/ got[Room] = <<"say", 0>> \/ \E j \in Clients : got[Room] = <<"join", j>>
      \/ \E j \in Clients : got[Room] = <<"leave", j>>
  BY ONLY <1>1 DEF Commands
<1> QED
  BY ONLY <1>2, <1>3, <1>4, <1>6

\* handle() keeps the invariant: "join" adds a client, "leave" removes it and "say" starts a broadcast.
LEMMA handleKeeps ==
  ASSUME IInv, NEW e \in Execs, handle(e)
  PROVE  IInv'
<1> DEFINE l == "command"
           m == "cast"
<1>1. At(e, Room, l) /\ l \in RoomAlone /\ Goto(Room, m) /\ m \in RoomAlone
  BY DEF handle, RoomAlone
<1>2. /\ l \in {"command", "cast", "pushed"} /\ l \notin {"pushed"}
      /\ m \in {"command", "cast", "pushed"} /\ m \notin {"pushed"}
  OBVIOUS
<1> HIDE DEF l, m
<1>3. IInv /\ e \in Execs
  OBVIOUS
<1>4. running[e] = Room
  BY ONLY <1>1, <1>3, RoomHere
<1> DEFINE s == On(m, 0, <<>>)
<1>5. /\ s \in Stack /\ s # <<>> /\ StackOf(Room, s) /\ Head(s) = Frame(m, 0)
      /\ frames' = [frames EXCEPT ![Room] = s] /\ frames'[Room] = s
      /\ \A L : RoomAt(L) <=> l \in L
      /\ \A L : RoomAt(L)' <=> m \in L
      /\ \A k \in Clients : frames'[session(k)] = frames[session(k)]
  BY ONLY <1>1, <1>3, RoomGoto
<1> HIDE DEF s
<1>6. /\ runq' = runq /\ running' = running /\ inbound' = inbound /\ hand' = hand /\ queue' = queue /\ got' = got
      /\ watcher' = watcher /\ send_locked' = send_locked /\ send_lock_waiters' = send_lock_waiters
      /\ timers' = timers /\ rr' = rr /\ chunks' = chunks /\ UNCHANGED groupVars /\ it' = 1
  BY DEF handle, execVars, tcpVars, streamVars
<1>7. got[Room] # None
  BY <1>2, <1>5 DEF IInv, RoomOK
<1>8. /\ clients' \in Seq(Clients)
      /\ \A k \in Clients : Among(clients', k) => Among(clients, k) \/ watcher[k] # "none"
  BY <1>7, HandledClients DEF handle
<1>9. RoomOK'
  <2>1. ~ HeadIs(Room, Frame("resume", cmds))'
    BY ONLY <1>1, <1>5, RoomNotPopping
  <2>2. ~ queue[cmds].closed
    BY DEF IInv, RoomOK
  <2>3. ~ RoomAt({"pushed"})'
    BY <1>2, <1>5
  <2> QED
    BY ONLY <1>6, <1>7, <2>1, <2>2, <2>3 DEF RoomOK
<1>10. \A k \in Clients : k \in Alive => k \in Alive'
  <2>1. ~ RoomAt({"pushed"}) /\ RoomAt({"command", "cast", "pushed"})'
    BY ONLY <1>2, <1>5
  <2> QED
    BY ONLY <1>5, <1>6, <2>1 DEF Alive, InSession, InJoin, Pinned
<1>11. /\ got' = [d \in Coros |-> got'[d]] /\ got'[Main] = got[Main] /\ got'[Room] \in Commands \cup {None}
       /\ \A k \in Clients : got'[Room] = <<"join", k>> => got[Room] = <<"join", k>>
       /\ it' \in Nat \ {0}
  <2>1. got = [d \in Coros |-> got[d]] /\ got[Room] \in Commands \cup {None}
    BY DEF IInv, Typed
  <2> QED
    BY ONLY <1>6, <2>1
<1>12. Drops
  BY <1>6 DEF Drops
<1> QED
  BY ONLY <1>3, <1>4, <1>5, <1>6, <1>8, <1>9, <1>10, <1>11, <1>12, RoomWalks

\* The client that got the message is let go.
LEMMA BroadcastNextKeeps ==
  ASSUME IInv, NEW e \in Execs, BroadcastNext(e)
  PROVE  IInv'
<1> DEFINE l == "pushed"
           m == "cast"
           j == clients[it]
<1>1. At(e, Room, l) /\ l \in RoomAlone /\ Goto(Room, m) /\ m \in RoomAlone
  BY DEF BroadcastNext, RoomAlone
<1>2. /\ l \in {"command", "cast", "pushed"} /\ l \in {"pushed"}
      /\ m \in {"command", "cast", "pushed"} /\ m \notin {"pushed"}
  OBVIOUS
<1> HIDE DEF l, m
<1>3. IInv /\ e \in Execs
  OBVIOUS
<1>4. running[e] = Room
  BY ONLY <1>1, <1>3, RoomHere
<1> DEFINE s == On(m, 0, <<>>)
<1>5. /\ s \in Stack /\ s # <<>> /\ StackOf(Room, s) /\ Head(s) = Frame(m, 0)
      /\ frames' = [frames EXCEPT ![Room] = s] /\ frames'[Room] = s
      /\ \A L : RoomAt(L) <=> l \in L
      /\ \A L : RoomAt(L)' <=> m \in L
      /\ \A k \in Clients : frames'[session(k)] = frames[session(k)]
  BY ONLY <1>1, <1>3, RoomGoto
<1> HIDE DEF s
<1>6. /\ runq' = runq /\ running' = running /\ hand' = hand /\ queue' = queue /\ got' = got
      /\ send_locked' = send_locked /\ send_lock_waiters' = send_lock_waiters
      /\ timers' = timers /\ rr' = rr /\ chunks' = chunks /\ UNCHANGED groupVars /\ it' = it + 1 /\ clients' = clients
  BY DEF BroadcastNext
<1>7. got[Room] # None /\ it \in 1 .. Len(clients) /\ clients \in Seq(Clients)
  BY <1>2, <1>5 DEF IInv, RoomOK, Typed
<1>8. j \in Clients /\ Among(clients, j) /\ Drop(e, {j})
  BY <1>7 DEF Among, BroadcastNext
<1>9. RoomOK'
  <2>1. ~ HeadIs(Room, Frame("resume", cmds))'
    BY ONLY <1>1, <1>5, RoomNotPopping
  <2>2. ~ queue[cmds].closed
    BY DEF IInv, RoomOK
  <2>3. ~ RoomAt({"pushed"})'
    BY <1>2, <1>5
  <2> QED
    BY ONLY <1>6, <1>7, <2>1, <2>2, <2>3 DEF RoomOK
<1>10. ASSUME NEW k \in Clients, k # j, k \in Alive PROVE k \in Alive'
  <2>1. ~ Pinned(k)
    BY <1>10 DEF Pinned
  <2>2. RoomAt({"command", "cast", "pushed"})'
    BY ONLY <1>2, <1>5
  <2> QED
    BY ONLY <1>5, <1>6, <1>10, <2>1, <2>2 DEF Alive, InSession, InJoin
<1>11. /\ got' = [d \in Coros |-> got'[d]] /\ got'[Main] = got[Main] /\ got'[Room] \in Commands \cup {None}
       /\ \A k \in Clients : got'[Room] = <<"join", k>> => got[Room] = <<"join", k>>
       /\ it' \in Nat \ {0} /\ clients' \in Seq(Clients)
       /\ \A k \in Clients : Among(clients', k) => Among(clients, k) \/ watcher[k] # "none"
  <2>1. got = [d \in Coros |-> got[d]] /\ got[Room] \in Commands \cup {None}
    BY DEF IInv, Typed
  <2>2. it' \in Nat \ {0}
    BY <1>6, <1>7
  <2> QED
    BY ONLY <1>6, <1>7, <2>1, <2>2
<1>12. watcher[j] # "none"
  <2>1. Known
    BY DEF IInv
  <2> QED
    BY ONLY <1>8, <2>1 DEF Known
<1>13. PICK i \in Clients : i = j
  BY <1>8
<1> HIDE DEF j
<1>14. Drops /\ (i \in Alive' \/ watcher'[i] # "open" \/ Cleaning(exec(i), i)')
  <2>1. exec(i)' = exec(i)
    BY <1>6 DEF exec
  <2> DEFINE ks == {i}
  <2>2. ks \in SUBSET {i} /\ i \in ks /\ Drop(e, ks) /\ watcher[i] # "none"
    BY <1>8, <1>12, <1>13
  <2> HIDE DEF ks
  <2> QED
    BY ONLY <1>3, <1>6, <1>13, <2>1, <2>2, DropIs
<1>15. \A k \in Clients : watcher'[k] = "open" /\ k \in Alive => k \in Alive' \/ Cleaning(exec(k), k)'
  BY <1>10, <1>13, <1>14
<1> QED
  BY ONLY <1>3, <1>4, <1>5, <1>6, <1>9, <1>11, <1>14, <1>15, RoomWalks

----------------------------------------------------------------------------
(* The room's broadcast. *)

\* The list without one of its entries.
LEMMA RemovedFacts ==
  ASSUME NEW X, NEW s \in Seq(X), NEW i \in 1 .. Len(s)
  PROVE  RemoveAt(s, i) \in Seq(X) /\ \A t : Among(RemoveAt(s, i), t) => Among(s, t)
<1> DEFINE a == SubSeq(s, 1, i - 1)
           b == SubSeq(s, i + 1, Len(s))
<1>1. Len(s) \in Nat /\ i \in Nat /\ i >= 1 /\ i <= Len(s)
  OBVIOUS
<1>2. a \in Seq(X) /\ Len(a) = i - 1 /\ \A j \in 1 .. i - 1 : a[j] = s[j]
  BY <1>1
<1>3. b \in Seq(X) /\ Len(b) = Len(s) - i /\ \A j \in 1 .. Len(s) - i : b[j] = s[i + j]
  BY <1>1
<1>4. RemoveAt(s, i) = a \o b
  BY DEF RemoveAt
<1> HIDE DEF a, b
<1>5. ASSUME NEW t, Among(a, t) PROVE Among(s, t)
  <2>1. PICK j \in 1 .. Len(a) : a[j] = t
    BY <1>2, <1>5 DEF Among
  <2>2. j \in 1 .. Len(s) /\ s[j] = t
    BY <1>1, <1>2, <2>1
  <2> QED
    BY <2>2 DEF Among
<1>6. ASSUME NEW t, Among(b, t) PROVE Among(s, t)
  <2>1. PICK j \in 1 .. Len(b) : b[j] = t
    BY <1>3, <1>6 DEF Among
  <2>2. i + j \in 1 .. Len(s) /\ s[i + j] = t
    BY <1>1, <1>3, <2>1
  <2> QED
    BY <2>2 DEF Among
<1>7. a \o b \in Seq(X)
  BY <1>2, <1>3
<1>8. ASSUME NEW t, Among(a \o b, t) PROVE Among(s, t)
  BY <1>2, <1>3, <1>5, <1>6, <1>8, AmongCat
<1> QED
  BY <1>4, <1>7, <1>8

\* The broadcast erases a client whose session has gone.
LEMMA ErasesKeeps ==
  ASSUME IInv, NEW e \in Execs, At(e, Room, "cast"), it <= Len(clients), clients' = RemoveAt(clients, it),
         UNCHANGED <<frames, queue, hand, runq, inbound, running, got, groupVars, tcpVars, it>>
  PROVE  IInv'
<1> DEFINE l == "cast"
<1>1. At(e, Room, l) /\ l \in RoomAlone /\ l \in {"command", "cast", "pushed"} /\ l \notin {"pushed"}
  BY DEF RoomAlone
<1> HIDE DEF l
<1>3. IInv /\ e \in Execs
  OBVIOUS
<1>4. PICK t \in Stack : t = <<>> /\ frames[Room] = On(l, 0, t)
  BY ONLY <1>1, <1>3, RoomHere
<1>5. running[e] = Room /\ l \in Labels
  BY ONLY <1>1, <1>3, RoomHere
<1> DEFINE s == frames[Room]
<1>6. /\ runq' = runq /\ running' = running /\ inbound' = inbound /\ hand' = hand /\ queue' = queue /\ got' = got
      /\ watcher' = watcher /\ send_locked' = send_locked /\ send_lock_waiters' = send_lock_waiters
      /\ timers' = timers /\ rr' = rr /\ chunks' = chunks /\ UNCHANGED groupVars /\ it' = it /\ frames' = frames
  BY DEF tcpVars, streamVars
<1>7. frames' = [frames EXCEPT ![Room] = s] /\ s \in Stack /\ StackOf(Room, s)
  BY <1>6, CoroNames, StacksOf DEF IInv, Typed
<1>8. s # <<>>
  BY ONLY <1>4, <1>5, SubjectFacts, OnFacts
<1>9. ~ RoomAt({"pushed"})
  BY <1>1, <1>4, <1>5, RoomAtIs, SubjectFacts
<1>10. clients \in Seq(Clients) /\ it \in 1 .. Len(clients)
  <2>1. clients \in Seq(Clients) /\ it \in Nat \ {0}
    BY DEF IInv, Typed
  <2> QED
    BY <2>1
<1>11. clients' \in Seq(Clients) /\ \A t1 : Among(clients', t1) => Among(clients, t1)
  BY <1>10, RemovedFacts
<1>12. RoomOK'
  <2>1. RoomAt({"command", "cast", "pushed"})' => RoomAt({"command", "cast", "pushed"})
    BY <1>6 DEF RoomAt, Inner
  <2>2. ~ RoomAt({"pushed"})'
    BY <1>6, <1>9 DEF RoomAt, Inner
  <2>3. HeadIs(Room, Frame("resume", cmds))' => HeadIs(Room, Frame("resume", cmds))
    BY <1>6 DEF HeadIs, Room, cmds
  <2>4. RoomOK
    BY DEF IInv
  <2> QED
    BY ONLY <1>6, <2>1, <2>2, <2>3, <2>4 DEF RoomOK
<1>13. \A k \in Clients : k \in Alive => k \in Alive'
  <2>1. RoomAt({"command", "cast", "pushed"}) => RoomAt({"command", "cast", "pushed"})'
    BY <1>6 DEF RoomAt, Inner
  <2> QED
    BY ONLY <1>6, <1>9, <2>1 DEF Alive, InSession, InJoin, Pinned, session
<1>14. /\ got' = [d \in Coros |-> got'[d]] /\ got'[Main] = got[Main] /\ got'[Room] \in Commands \cup {None}
       /\ \A k \in Clients : got'[Room] = <<"join", k>> => got[Room] = <<"join", k>>
       /\ it' \in Nat \ {0}
  BY <1>6 DEF IInv, Typed
<1>15. Drops
  BY <1>6 DEF Drops
<1> HIDE DEF s
<1> QED
  BY ONLY <1>3, <1>5, <1>6, <1>7, <1>8, <1>11, <1>12, <1>13, <1>14, <1>15, RoomWalks

\* The message goes to the outbox of the client.
LEMMA CastsKeeps ==
  ASSUME IInv, NEW e \in Execs, At(e, Room, "cast"), it <= Len(clients),
         push(e, outbox(clients[it]), <<"msg", 0>>), Goto(Room, "pushed"),
         UNCHANGED <<clients, runq, inbound, running, got, groupVars, tcpVars, it>>
  PROVE  IInv'
<1> DEFINE l == "cast"
           m == "pushed"
           v == <<"msg", 0>>
<1>1. At(e, Room, l) /\ l \in RoomAlone /\ Goto(Room, m) /\ m \in RoomAlone
  BY DEF RoomAlone
<1>2. l \in {"command", "cast", "pushed"} /\ l \notin {"pushed"}
  OBVIOUS
<1>20. m \in {"command", "cast", "pushed"}
  OBVIOUS
<1>21. v \in Values /\ push(e, outbox(clients[it]), v)
  BY ValuesAre
<1> HIDE DEF l, m, v
<1>3. IInv /\ e \in Execs
  OBVIOUS
<1>4. running[e] = Room /\ hand[e] = None
  BY ONLY <1>1, <1>3, RoomHere
<1> DEFINE s == On(m, 0, <<>>)
<1>5. /\ s \in Stack /\ s # <<>> /\ StackOf(Room, s) /\ Head(s) = Frame(m, 0)
      /\ frames' = [frames EXCEPT ![Room] = s] /\ frames'[Room] = s
      /\ \A L : RoomAt(L) <=> l \in L
      /\ \A L : RoomAt(L)' <=> m \in L
      /\ \A k \in Clients : frames'[session(k)] = frames[session(k)]
  BY ONLY <1>1, <1>3, RoomGoto
<1> HIDE DEF s
<1>6. /\ runq' = runq /\ running' = running /\ inbound' = inbound /\ got' = got
      /\ watcher' = watcher /\ send_locked' = send_locked /\ send_lock_waiters' = send_lock_waiters
      /\ timers' = timers /\ rr' = rr /\ chunks' = chunks /\ UNCHANGED groupVars /\ it' = it /\ clients' = clients
  BY DEF tcpVars, streamVars
<1>7. clients \in Seq(Clients) /\ it \in 1 .. Len(clients) /\ it \in Nat \ {0}
  <2>1. clients \in Seq(Clients) /\ it \in Nat \ {0}
    BY DEF IInv, Typed
  <2> QED
    BY <2>1
<1>8. PICK k \in Clients : k = clients[it]
  BY <1>7
<1> DEFINE q == outbox(k)
<1>9. q \in Queues /\ q # accepted /\ q # cmds /\ push(e, q, v)
  BY <1>8, <1>21, QueueNames
<1> HIDE DEF q
<1>10. /\ HandsOver(e, q) /\ queue' \in [Queues -> QueueSet]
       /\ \A r \in Queues : r # q => queue'[r] = queue[r]
       /\ queue'[q].closed = queue[q].closed /\ queue'[q].exec = queue[q].exec
  BY ONLY <1>3, <1>4, <1>9, <1>21, PushedOver
<1>11. \A d \in Coros : HandN(d)' + WaitN(d)' = HandN(d) + WaitN(d)
  BY ONLY <1>10, HandsOverFacts
<1>12. /\ hand' \in [Execs -> Hands]
       /\ \A r \in Queues : queue'[r].waiter = None \/ queue'[r].waiter = queue[r].waiter
  BY ONLY <1>10, HandsOverWaits
<1>13. queue'[accepted] = queue[accepted] /\ queue'[cmds] = queue[cmds]
  BY ONLY <1>9, <1>10, QueueNames
<1>14. \A r \in Queues : /\ (queue'[r].waiter = None \/ queue'[r].waiter = queue[r].waiter)
                         /\ queue'[r].exec = queue[r].exec
  BY ONLY <1>10, <1>12
<1>15. RoomOK'
  <2>1. ~ HeadIs(Room, Frame("resume", cmds))'
    BY ONLY <1>1, <1>5, RoomNotPopping
  <2>2. ~ queue[cmds].closed /\ got[Room] # None
    BY <1>2, <1>5 DEF IInv, RoomOK
  <2>3. it <= Len(clients)
    OBVIOUS
  <2> QED
    BY ONLY <1>6, <1>13, <2>1, <2>2, <2>3 DEF RoomOK
<1>16. \A j \in Clients : j \in Alive => j \in Alive'
  <2>1. ~ RoomAt({"pushed"}) /\ RoomAt({"command", "cast", "pushed"})'
    BY ONLY <1>2, <1>20, <1>5
  <2> QED
    BY ONLY <1>5, <1>6, <1>13, <2>1 DEF Alive, InSession, InJoin, Pinned
<1>17. /\ got' = [d \in Coros |-> got'[d]] /\ got'[Main] = got[Main] /\ got'[Room] \in Commands \cup {None}
       /\ \A j \in Clients : got'[Room] = <<"join", j>> => got[Room] = <<"join", j>>
       /\ it' \in Nat \ {0} /\ clients' \in Seq(Clients)
       /\ \A j \in Clients : Among(clients', j) => Among(clients, j) \/ watcher[j] # "none"
  <2>1. got = [d \in Coros |-> got[d]] /\ got[Room] \in Commands \cup {None}
    BY DEF IInv, Typed
  <2> QED
    BY ONLY <1>6, <1>7, <2>1
<1>18. Drops
  BY <1>6 DEF Drops
<1> QED
  BY ONLY <1>3, <1>4, <1>5, <1>6, <1>10, <1>11, <1>12, <1>13, <1>14, <1>15, <1>16, <1>17, <1>18, RoomGoes

\* broadcastImpl() keeps the invariant.
LEMMA broadcastImplKeeps ==
  ASSUME IInv, NEW e \in Execs, broadcastImpl(e)
  PROVE  IInv'
<1>1. /\ At(e, Room, "cast") /\ it <= Len(clients)
      /\ UNCHANGED <<runq, inbound, running, got, groupVars, tcpVars, it>>
  BY DEF broadcastImpl
<1>2. CASE clients' = RemoveAt(clients, it) /\ UNCHANGED <<frames, queue, hand>>
  BY <1>1, <1>2, ErasesKeeps
<1>3. CASE push(e, outbox(clients[it]), <<"msg", 0>>) /\ Goto(Room, "pushed") /\ UNCHANGED clients
  BY <1>1, <1>3, CastsKeeps
<1> QED
  BY <1>2, <1>3 DEF broadcastImpl

----------------------------------------------------------------------------
(* A chain that ends. *)

\* The streams whose worker has a task that closes them are among those there are.
LEMMA KnownGoes ==
  ASSUME IInv,
         \A k \in Clients : watcher'[k] = "none" <=> watcher[k] = "none",
         \A k \in Clients, x \in Execs : Cleaning(x, k)' => Cleaning(x, k) \/ watcher[k] # "none",
         \A k \in Clients : watcher[k] = "none" =>
           ~ Among(queue'[cmds].q, <<"join", k>>) /\ got'[Room] # <<"join", k>> /\ ~ Among(clients', k)
  PROVE  Known'
<1>1. ASSUME NEW k \in Clients, watcher'[k] = "none"
      PROVE  /\ ~ Among(queue'[cmds].q, <<"join", k>>) /\ got'[Room] # <<"join", k>>
             /\ ~ Among(clients', k)
             /\ \A e \in Execs : ~ Among(runq'[e], <<"cleanup", k>>) /\ ~ Among(inbound'[e], <<"cleanup", k>>)
  <2>1. watcher[k] = "none"
    BY <1>1
  <2>2. \A e \in Execs : ~ Cleaning(e, k)
    BY <2>1 DEF IInv, Known, Cleaning
  <2>3. \A e \in Execs : ~ Cleaning(e, k)'
    BY <2>1, <2>2
  <2>4. \A e \in Execs : ~ Among(runq'[e], <<"cleanup", k>>) /\ ~ Among(inbound'[e], <<"cleanup", k>>)
    BY <2>3 DEF Cleaning
  <2> QED
    BY <2>1, <2>4
<1> QED
  BY <1>1 DEF Known, Among

\* A stream that loses its last reference is closed or will be.
LEMMA DroppedGoes ==
  ASSUME IInv,
         \A k \in Clients : watcher'[k] = "open" => watcher[k] = "open",
         \A k \in Clients : queue'[recv_q(k)].exec = queue[recv_q(k)].exec,
         \A k \in Clients, x \in Execs : Cleaning(x, k) => Cleaning(x, k)' \/ watcher'[k] # "open",
         \A k \in Clients : watcher'[k] = "open" /\ k \in Alive => k \in Alive' \/ Cleaning(exec(k), k)'
  PROVE  DroppedStreamIsClosed'
<1>1. ASSUME NEW k \in Clients, watcher'[k] = "open", k \notin Alive'
      PROVE  Cleaning(exec(k), k)'
  <2>1. watcher[k] = "open"
    BY <1>1
  <2>2. exec(k) \in Execs /\ exec(k)' = exec(k)
    BY <2>1, ExecKnown DEF exec
  <2>3. CASE k \in Alive
    BY <1>1, <2>3
  <2>4. CASE k \notin Alive
    <3>1. Cleaning(exec(k), k)
      BY <2>1, <2>4, RangeAmong DEF IInv, DroppedStreamIsClosed, Cleaning
    <3> QED
      BY <1>1, <2>2, <3>1
  <2> QED
    BY <2>3, <2>4
<1>2. ASSUME NEW k \in Clients, watcher'[k] = "open", k \notin Alive'
      PROVE  (\E qs \in {runq[exec(k)], inbound[exec(k)]} : <<"cleanup", k>> \in Range(qs))'
  <2>1. Cleaning(exec(k), k)'
    BY <1>1, <1>2
  <2> QED
    BY <2>1, RangeAmong DEF Cleaning
<1> QED
  BY <1>2 DEF DroppedStreamIsClosed

\* Chain c ends on worker e, which may schedule who joins it, and drops a client.
LEMMA Ends ==
  ASSUME IInv, Typed', NEW e \in Execs, NEW c \in Coros, running[e] = c, c # Room,
         frames' = [frames EXCEPT ![c] = <<>>], running' = [running EXCEPT ![e] = None],
         UNCHANGED <<hand, got, queue, send_locked, send_lock_waiters, timers, chunks, clients, it>>,
         \A k \in Clients : join_waiter'[k] = None \/ join_waiter'[k] = join_waiter[k],
         \A d \in Coros : JoinN(d)' + RunqN(d)' = JoinN(d) + RunqN(d) /\ InbN(d)' = InbN(d),
         \A k \in Clients : Tickets(k)' = Tickets(k),
         \A k \in Clients : /\ watcher'[k] = "none" <=> watcher[k] = "none"
                            /\ watcher'[k] = "open" => watcher[k] = "open",
         \A k \in Clients, x \in Execs : /\ Cleaning(x, k) => Cleaning(x, k)' \/ watcher'[k] # "open"
                                         /\ Cleaning(x, k)' => Cleaning(x, k) \/ watcher[k] # "none",
         \A k \in Clients : watcher'[k] = "open" /\ k \in Alive => k \in Alive' \/ Cleaning(exec(k), k)',
         Children'
  PROVE  IInv'
<1>1. c # None /\ frames[c] # <<>> /\ NotWait(c) /\ NotJoin(c) /\ NotLock(c)
  BY Alone, NotCoros DEF IInv
<1>2. /\ hand' = hand /\ got' = got /\ queue' = queue /\ send_locked' = send_locked
      /\ send_lock_waiters' = send_lock_waiters /\ timers' = timers /\ chunks' = chunks
      /\ clients' = clients /\ it' = it
  OBVIOUS
<1> DEFINE s == <<>>
<1>3. s \in Stack /\ StackOf(c, s) /\ frames' = [frames EXCEPT ![c] = s]
  BY CoroCases, CoroNames, EmptyStack DEF StackOf, MainStack, SessionStack, WriterStack, HelperStack
<1> HIDE DEF s
<1>4. /\ Stacks' /\ frames'[c] = s /\ \A d \in Coros : d # c => frames'[d] = frames[d]
  BY <1>3, StacksStay DEF IInv
<1>5. frames'[c] = <<>>
  BY <1>4 DEF s
<1>6. OneResumption'
  <2>1. ASSUME NEW d \in Coros
        PROVE  /\ Places(d) \in Nat
               /\ Places(d)' = Places(d) + One(frames'[d] # <<>>) - One(frames[d] # <<>>)
    <3>1. /\ Numbers(d) /\ Numbers(d)'
          /\ Places(d) = RunN(d) + HandN(d) + WaitN(d) + JoinN(d) + TimeN(d) + RunqN(d) + InbN(d) + LockN(d)
          /\ Places(d)' = RunN(d)' + HandN(d)' + WaitN(d)' + JoinN(d)' + TimeN(d)' + RunqN(d)' + InbN(d)' + LockN(d)'
      BY PlacesAll DEF IInv, Typed, Queued
    <3>2. /\ HandN(d)' = HandN(d) /\ WaitN(d)' = WaitN(d)
          /\ TimeN(d)' = TimeN(d) /\ LockN(d)' = LockN(d)
      BY <1>2, PartsSame
    <3>3. RunN(d)' = RunN(d) - One(running[e] = d) + One(running'[e] = d)
      <4>1. \A x \in Execs : x # e => running'[x] = running[x]
        BY DEF IInv, Typed
      <4> QED
        BY <4>1, RunSet
    <3>4. running'[e] # d
      <4>1. running'[e] = None
        BY DEF IInv, Typed
      <4> QED
        BY <4>1, NotCoros
    <3>5. JoinN(d)' + RunqN(d)' = JoinN(d) + RunqN(d) /\ InbN(d)' = InbN(d)
      OBVIOUS
    <3>6. /\ RunN(d) \in Nat /\ HandN(d) \in Nat /\ WaitN(d) \in Nat /\ JoinN(d) \in Nat /\ TimeN(d) \in Nat
          /\ RunqN(d) \in Nat /\ InbN(d) \in Nat /\ LockN(d) \in Nat /\ JoinN(d)' \in Nat /\ RunqN(d)' \in Nat
          /\ RunN(d)' \in Nat
      BY <3>1 DEF Numbers
    <3>7. One(running'[e] = d) = 0 /\ (d # c => One(running[e] = d) = 0) /\ (d = c => One(running[e] = d) = 1)
      BY <3>4 DEF One
    <3> DEFINE old == One(frames[d] # <<>>)
               new == One(frames'[d] # <<>>)
               sum == Places(d)
               sum1 == Places(d)'
    <3>8. d = c => new = 0 /\ old = 1
      BY <1>1, <1>5 DEF One
    <3>9. d # c => new = old
      BY <1>4
    <3>10. old \in Nat
      BY DEF One
    <3>11. sum \in Nat
      BY ONLY <3>1, <3>6
    <3>14. One(running[e] = d) \in Nat
      BY DEF One
    <3>15. RunN(d)' = RunN(d) - One(running[e] = d)
      BY ONLY <3>3, <3>6, <3>7, <3>14
    <3>12. sum1 = sum - One(running[e] = d)
      BY ONLY <3>1, <3>2, <3>5, <3>6, <3>14, <3>15
    <3> HIDE DEF old, new, sum, sum1
    <3>13. sum1 = sum + new - old
      BY ONLY <3>7, <3>8, <3>9, <3>10, <3>11, <3>12
    <3> QED
      BY <3>11, <3>13 DEF old, new, sum, sum1
  <2>2. OneResumption
    BY DEF IInv
  <2> QED
    BY <2>1, <2>2, OneResumptionStays
<1>7. Parked'
  <2>1. Parked
    BY DEF IInv
  <2>2. \A q \in Queues : queue'[q].waiter # None =>
           /\ queue'[q].waiter = queue[q].waiter /\ frames'[queue[q].waiter] = frames[queue[q].waiter]
           /\ queue[q].exec # NoExec => queue'[q].exec # NoExec
    <3>1. \A q \in Queues : queue[q].waiter \in Coros \cup {None} /\ queue[q].waiter # c
      BY <1>1 DEF IInv, Typed, NotWait
    <3> QED
      BY ONLY <1>2, <1>4, <3>1
  <2>3. \A k \in Clients : join_waiter'[k] # None =>
           join_waiter'[k] = join_waiter[k] /\ frames'[join_waiter[k]] = frames[join_waiter[k]]
    <3>1. \A k \in Clients : join_waiter[k] \in Coros \cup {None} /\ join_waiter[k] # c
      BY <1>1 DEF IInv, Typed, NotJoin
    <3>2. \A k \in Clients : join_waiter'[k] = None \/ join_waiter'[k] = join_waiter[k]
      OBVIOUS
    <3> QED
      BY ONLY <1>4, <3>1, <3>2
  <2>4. \A k \in Clients, d \in Coros : Among(send_lock_waiters'[k], d) =>
           Among(send_lock_waiters[k], d) /\ frames'[d] = frames[d]
    BY ONLY <1>1, <1>2, <1>4 DEF NotLock
  <2> QED
    BY ONLY <2>1, <2>2, <2>3, <2>4, ParkedStays
<1>8. \A d \in Coros : frames'[d] = frames[d] \/ (frames'[d] = <<>> /\ frames[d] # <<>>)
  BY ONLY <1>1, <1>4, <1>5
<1>9. Bound'
  <2>1. Bound
    BY DEF IInv
  <2>2. \A k \in Clients : watcher'[k] # "none" => watcher[k] # "none"
    OBVIOUS
  <2> QED
    BY ONLY <1>2, <1>8, <2>1, <2>2, CoroNames, BoundStays
<1>10. Ticketed'
  <2>1. Ticketed /\ \A k \in Clients : Tickets(k)' = Tickets(k) /\ (watcher'[k] = "none" <=> watcher[k] = "none")
    BY DEF IInv
  <2> QED
    BY ONLY <1>2, <2>1, TicketedStays
<1>11. Known'
  <2>1. Known
    BY DEF IInv
  <2>2. \A k \in Clients : watcher[k] = "none" =>
           ~ Among(queue'[cmds].q, <<"join", k>>) /\ got'[Room] # <<"join", k>> /\ ~ Among(clients', k)
    BY ONLY <1>2, <2>1 DEF Known
  <2> QED
    BY <2>2, KnownGoes
<1>12. Locks'
  <2>1. Locks
    BY DEF IInv
  <2>2. ASSUME NEW k \in Clients, NEW d \in Coros, Owner(d, k)' PROVE Owner(d, k)
    <3>1. frames'[d] = frames[d]
      <4>1. d # c
        <5>1. ~ Sends(<<>>, k)
          BY SendsNone
        <5>2. frames'[c] = <<>> => ~ Owner(c, k)'
          BY <5>1 DEF Owner, Sending, Sends, HeadIs
        <5> QED
          BY <1>5, <2>2, <5>2
      <4> QED
        BY <1>4, <4>1
    <3> QED
      BY <1>2, <2>2, <3>1 DEF Owner, Sending, HeadIs
  <2> QED
    BY <1>2, <2>1, <2>2, LocksStay
<1>13. RoomOK'
  BY <1>2, <1>4, CoroNames, RoomStays DEF IInv
<1>14. DroppedStreamIsClosed'
  BY <1>2, DroppedGoes
<1> QED
  BY <1>4, <1>6, <1>7, <1>9, <1>10, <1>11, <1>12, <1>13, <1>14 DEF IInv

----------------------------------------------------------------------------
(* async_main() and a session end. *)

\* When async_main() returns, nobody awaits it.
LEMMA MainEndsKeeps ==
  ASSUME IInv, NEW e \in Execs, return(e, Main), UNCHANGED roomVars, frames[Main] = On("return", 0, <<>>)
  PROVE  IInv'
<1>1. running[e] = Main /\ frames[Main] # <<>>
  BY DEF return, At
<1>2. Tail(frames[Main]) = <<>>
  <2> DEFINE t == <<>>
             l == "return"
  <2>1. t \in Stack /\ l \in Labels /\ frames[Main] = On(l, 0, t) /\ 0 \in Subjects
    BY EmptyStack, SubjectFacts DEF Labels
  <2> HIDE DEF t, l
  <2>2. Tail(frames[Main]) = t
    BY ONLY <2>1, OnParts
  <2> QED
    BY <2>2 DEF t
<1>3. /\ frames' = [frames EXCEPT ![Main] = <<>>] /\ running' = [running EXCEPT ![e] = None]
      /\ runq' = runq /\ inbound' = inbound /\ hand' = hand
  BY <1>2 DEF return, final, Outer
<1>4. /\ got' = got /\ queue' = queue /\ active' = active /\ join_waiter' = join_waiter
      /\ watcher' = watcher /\ send_locked' = send_locked /\ send_lock_waiters' = send_lock_waiters
      /\ timers' = timers /\ rr' = rr /\ chunks' = chunks /\ clients' = clients /\ it' = it
  BY DEF return, groupVars, tcpVars, streamVars, roomVars
<1>5. frames'[Main] = <<>> /\ \A d \in Coros : d # Main => frames'[d] = frames[d]
  <2>1. frames \in [Coros -> Stack]
    BY DEF IInv, Typed
  <2> QED
    BY ONLY <1>3, <2>1, CoroNames
<1>6. Typed'
  <2>1. frames' \in [Coros -> Stack]
    BY <1>3, EmptyStack DEF IInv, Typed
  <2>2. running' \in [Execs -> Coros \cup {None}]
    BY <1>3 DEF IInv, Typed
  <2> QED
    BY <1>3, <1>4, <2>1, <2>2 DEF IInv, Typed
<1>7. \A d \in Coros : JoinN(d)' + RunqN(d)' = JoinN(d) + RunqN(d) /\ InbN(d)' = InbN(d)
  BY <1>3, <1>4, PartsSame
<1>8. \A k \in Clients : Tickets(k)' = Tickets(k)
  BY <1>3, <1>4 DEF Tickets, InQueues
<1>9. \A k \in Clients, x \in Execs : Cleaning(x, k)' <=> Cleaning(x, k)
  BY <1>3 DEF Cleaning
<1>10. \A k \in Clients : k \in Alive => k \in Alive'
  <2>1. frames'[Room] = frames[Room] /\ \A k \in Clients : frames'[session(k)] = frames[session(k)]
    BY ONLY <1>5, CoroNames
  <2> QED
    BY <1>4, <2>1 DEF Alive, InSession, InJoin, Pinned, RoomAt, Inner
<1>11. Children'
  <2>1. ~ HeadIs(Main, Frame("main", 0))'
    BY <1>5 DEF HeadIs, Main
  <2>2. Children
    BY DEF IInv
  <2>3. \A k \in Clients : /\ frames'[writer(k)] = frames[writer(k)] /\ frames'[helper(k)] = frames[helper(k)]
                           /\ frames'[session(k)] = frames[session(k)]
    BY ONLY <1>5, CoroNames
  <2>4. \A k \in Clients : Childless(k)' => Childless(k)
    BY <1>4, <2>3 DEF Childless, HeadIs, session
  <2> QED
    BY <1>4, <2>1, <2>2, <2>3, <2>4, ChildrenStay
<1>12. Main \in Coros /\ Main # Room /\ IInv /\ e \in Execs
  BY CoroNames
<1> QED
  BY ONLY <1>1, <1>3, <1>4, <1>6, <1>7, <1>8, <1>9, <1>10, <1>11, <1>12, Ends

\* The session ends, and with it the client if the room does not have it.
LEMMA SessionEndsKeeps ==
  ASSUME IInv, NEW e \in Execs, NEW c, c # None, SessionEnds(e, c)
  PROVE  IInv'
<1> DEFINE l == "session end"
<1>0. At(e, c, l) /\ l \in SessionAlone
  BY DEF SessionEnds, SessionAlone
<1> HIDE DEF l
<1>1. c \in Coros /\ running[e] = c /\ Where(c, l, frames[c]) /\ frames[c] # <<>>
  BY <1>0, Here
<1>2. PICK k \in Clients : c = session(k) /\ frames[c] = On(l, k, <<>>)
  BY <1>0, <1>1 DEF Where
<1>3. Inner(c).on = k /\ Head(frames[c]) = Frame(l, k)
  <2> DEFINE t == <<>>
  <2>1. t \in Stack /\ l \in Labels /\ frames[c] = On(l, k, t) /\ k \in Subjects
    BY <1>0, <1>2, EmptyStack, SubjectFacts DEF SessionAlone, Labels
  <2> HIDE DEF t
  <2> QED
    BY ONLY <2>1, OnFacts DEF Inner
<1>4. /\ frames' = [frames EXCEPT ![c] = <<>>] /\ running' = [running EXCEPT ![e] = None]
      /\ runq' = runq /\ hand' = hand /\ got' = got /\ queue' = queue /\ active' = active
      /\ join_waiter' = join_waiter /\ send_locked' = send_locked /\ send_lock_waiters' = send_lock_waiters
      /\ timers' = timers /\ rr' = rr /\ chunks' = chunks /\ clients' = clients /\ it' = it
  BY DEF SessionEnds, suspend, groupVars, roomVars
<1>5. frames'[c] = <<>> /\ \A d \in Coros : d # c => frames'[d] = frames[d]
  <2>1. frames \in [Coros -> Stack]
    BY DEF IInv, Typed
  <2> QED
    BY ONLY <1>1, <1>4, <2>1
<1>6. watcher[k] # "none" /\ active[k] = 0
  <2>1. Children
    BY DEF IInv
  <2>2. watcher[k] # "none"
    BY <1>1, <1>2, <2>1 DEF Children
  <2>3. Childless(k)
    BY <1>1, <1>2, <1>3 DEF Childless, HeadIs, l
  <2> QED
    BY <2>1, <2>2, <2>3 DEF Children
<1>7. Drops /\ (k \in Alive' \/ watcher'[k] # "open" \/ Cleaning(exec(k), k)')
  <2> DEFINE ks == {k}
  <2>1. ks \in SUBSET {k} /\ k \in ks /\ Drop(e, ks)
    BY <1>3 DEF SessionEnds
  <2> HIDE DEF ks
  <2>2. exec(k)' = exec(k)
    BY <1>4 DEF exec
  <2>3. IInv /\ e \in Execs /\ k \in Clients
    OBVIOUS
  <2> QED
    BY ONLY <1>4, <1>6, <2>1, <2>2, <2>3, DropIs
<1>8. /\ watcher' \in [Clients -> {"none", "open", "closed"}]
      /\ \A j \in Clients : /\ watcher'[j] = "none" <=> watcher[j] = "none"
                            /\ watcher'[j] = "open" => watcher[j] = "open"
  BY <1>7, DropsWatchers
<1>9. Typed'
  <2>1. frames' \in [Coros -> Stack]
    BY <1>1, <1>4, EmptyStack DEF IInv, Typed
  <2>2. running' \in [Execs -> Coros \cup {None}]
    BY <1>4 DEF IInv, Typed
  <2>3. inbound' \in [Execs -> Seq(Tasks)]
    BY <1>7, DropsTasks
  <2> QED
    BY <1>4, <1>8, <2>1, <2>2, <2>3 DEF IInv, Typed
<1>10. \A d \in Coros : JoinN(d)' + RunqN(d)' = JoinN(d) + RunqN(d) /\ InbN(d)' = InbN(d)
  <2>1. ASSUME NEW d \in Coros PROVE InbN(d)' = InbN(d)
    <3>1. \A j \in Clients : d # <<"cleanup", j>>
      BY NotCoros
    <3> QED
      BY <1>7, <3>1, DropsCounts
  <2> QED
    BY <1>4, <2>1, PartsSame
<1>11. ASSUME NEW j \in Clients PROVE Tickets(j)' = Tickets(j)
  <2> DEFINE t == <<"start", j>>
  <2>1. InbN(t)' = InbN(t)
    <3>1. \A i \in Clients : t # <<"cleanup", i>>
      OBVIOUS
    <3> HIDE DEF t
    <3> QED
      BY <1>7, <3>1, DropsCounts
  <2>2. RunqN(t)' = RunqN(t)
    BY <1>4, PartsSame
  <2> QED
    BY <1>4, <2>1, <2>2, TicketsParts
<1>12. \A j \in Clients, x \in Execs : /\ Cleaning(x, j) => Cleaning(x, j)' \/ watcher'[j] # "open"
                                       /\ Cleaning(x, j)' => Cleaning(x, j) \/ watcher[j] # "none"
  BY <1>4, <1>7, DropsCleaning
<1>13. ASSUME NEW j \in Clients, j # k PROVE j \in Alive => j \in Alive'
  <2>1. frames'[Room] = frames[Room] /\ frames'[session(j)] = frames[session(j)]
    BY <1>2, <1>5, <1>13, CoroNames
  <2> QED
    BY ONLY <1>4, <1>13, <2>1 DEF Alive, InSession, InJoin, Pinned, RoomAt, Inner
<1>14. \A j \in Clients : watcher'[j] = "open" /\ j \in Alive => j \in Alive' \/ Cleaning(exec(j), j)'
  BY <1>7, <1>13
<1>15. Children'
  <2>1. Children
    BY DEF IInv
  <2>2. frames'[Main] = frames[Main] /\ frames'[Room] = frames[Room]
    BY <1>2, <1>5, CoroNames
  <2>3. \A j \in Clients : /\ frames'[writer(j)] = frames[writer(j)] /\ frames'[helper(j)] = frames[helper(j)]
                           /\ j # k => frames'[session(j)] = frames[session(j)]
                           /\ frames'[session(j)] # <<>> => frames[session(j)] # <<>>
    BY <1>1, <1>2, <1>5, CoroNames
  <2>4. HeadIs(Main, Frame("main", 0))' => frames'[Room] = <<>>
    BY <2>1, <2>2 DEF Children, HeadIs, Main
  <2>5. \A j \in Clients : j # k => (Childless(j)' => Childless(j))
    BY <1>4, <2>3 DEF Childless, HeadIs, session
  <2>6. Childless(k)
    BY <1>1, <1>2, <1>3 DEF Childless, HeadIs, l
  <2> QED
    BY <1>4, <1>8, <2>1, <2>3, <2>4, <2>5, <2>6, ChildrenStay
<1>16. c # Room /\ IInv /\ e \in Execs /\ \A j \in Clients : join_waiter'[j] = None \/ join_waiter'[j] = join_waiter[j]
  BY <1>2, <1>4, CoroNames
<1> QED
  BY ONLY <1>1, <1>4, <1>8, <1>9, <1>10, <1>11, <1>12, <1>14, <1>15, <1>16, Ends

----------------------------------------------------------------------------
(* A child ends. *)

\* The waiter of join() goes from the group to the private tasks.
LEMMA JoinWakes ==
  ASSUME IInv, NEW e \in Execs, NEW k \in Clients, NEW w, w = join_waiter[k], w # None,
         join_waiter' = [join_waiter EXCEPT ![k] = None], runq' = Posted(runq, w, e), inbound' = inbound
  PROVE  /\ runq' \in [Execs -> Seq(Tasks)] /\ join_waiter' \in [Clients -> Coros \cup {None}]
         /\ TokensStay
         /\ \A d \in Coros : JoinN(d)' + RunqN(d)' = JoinN(d) + RunqN(d)
<1>1. w \in Coros /\ join_waiter \in [Clients -> Coros \cup {None}] /\ runq \in [Execs -> Seq(Tasks)]
  BY DEF IInv, Typed
<1>2. Posts(e, <<w>>) /\ \A d : Occurs(<<w>>, d) = One(w = d)
  BY <1>1, PostsOne
<1>3. TokensStay
  BY <1>2, TokensPosts
<1>4. runq' \in [Execs -> Seq(Tasks)]
  BY <1>2 DEF Posts, Changed
<1>5. /\ join_waiter' \in [Clients -> Coros \cup {None}] /\ join_waiter'[k] = None
      /\ \A x \in Clients : x # k => join_waiter'[x] = join_waiter[x]
  BY <1>1
<1>6. ASSUME NEW d \in Coros PROVE JoinN(d)' + RunqN(d)' = JoinN(d) + RunqN(d)
  <2>1. /\ JoinN(d)' = JoinN(d) - One(join_waiter[k] = d) + One(join_waiter'[k] = d)
        /\ JoinN(d) \in Nat /\ JoinN(d)' \in Nat
    BY <1>5, JoinSet
  <2>2. RunqN(d)' = RunqN(d) + Occurs(<<w>>, d)
    BY <1>2, PostsFacts
  <2>3. RunqN(d) \in Nat
    BY <1>1, RunqSome
  <2>4. One(join_waiter'[k] = d) = 0 /\ One(w = d) \in Nat /\ One(join_waiter[k] = d) = One(w = d)
    BY <1>5, NotCoros DEF One
  <2>5. Occurs(<<w>>, d) = One(w = d)
    BY <1>2
  <2> QED
    BY ONLY <2>1, <2>2, <2>3, <2>4, <2>5
<1> QED
  BY <1>3, <1>4, <1>5, <1>6

\* What counts the children of a client.
LEMMA ChildCount ==
  ASSUME Children, NEW k \in Clients, NEW c \in {writer(k), helper(k)}, frames[c] # <<>>, frames'[c] = <<>>,
         \A d \in Coros : d # c => frames'[d] = frames[d],
         active \in [Clients -> Nat], active' = [active EXCEPT ![k] = @ - 1]
  PROVE  /\ active[k] >= 1 /\ active' \in [Clients -> Nat]
         /\ \A j \in Clients : active'[j] = One(frames'[writer(j)] # <<>>) + One(frames'[helper(j)] # <<>>)
<1>1. \A j \in Clients : active[j] = One(frames[writer(j)] # <<>>) + One(frames[helper(j)] # <<>>)
  BY DEF Children
<1>2. \A j \in Clients : j # k => frames'[writer(j)] = frames[writer(j)] /\ frames'[helper(j)] = frames[helper(j)]
  BY CoroNames
<1>3. \A j \in Clients : j # k => active'[j] = active[j]
  OBVIOUS
<1>4. active'[k] = active[k] - 1 /\ active[k] \in Nat
  OBVIOUS
<1>5. CASE c = writer(k)
  <2>1. frames'[helper(k)] = frames[helper(k)]
    BY <1>5, CoroNames
  <2>2. One(frames[writer(k)] # <<>>) = 1 /\ One(frames'[writer(k)] # <<>>) = 0
    BY <1>5 DEF One
  <2>3. One(frames[helper(k)] # <<>>) \in Nat
    BY DEF One
  <2>4. active[k] = 1 + One(frames[helper(k)] # <<>>)
    BY ONLY <1>1, <2>2, k \in Clients
  <2>5. active[k] >= 1 /\ active'[k] = One(frames'[writer(k)] # <<>>) + One(frames'[helper(k)] # <<>>)
    BY ONLY <1>4, <2>1, <2>2, <2>3, <2>4
  <2>6. active' \in [Clients -> Nat]
    BY <1>4, <2>5
  <2> QED
    BY <1>1, <1>2, <1>3, <2>5, <2>6
<1>6. CASE c = helper(k)
  <2>1. frames'[writer(k)] = frames[writer(k)]
    BY <1>6, CoroNames
  <2>2. One(frames[helper(k)] # <<>>) = 1 /\ One(frames'[helper(k)] # <<>>) = 0
    BY <1>6 DEF One
  <2>3. One(frames[writer(k)] # <<>>) \in Nat
    BY DEF One
  <2>4. active[k] = One(frames[writer(k)] # <<>>) + 1
    BY ONLY <1>1, <2>2, k \in Clients
  <2>5. active[k] >= 1 /\ active'[k] = One(frames'[writer(k)] # <<>>) + One(frames'[helper(k)] # <<>>)
    BY ONLY <1>4, <2>1, <2>2, <2>3, <2>4
  <2>6. active' \in [Clients -> Nat]
    BY <1>4, <2>5
  <2> QED
    BY <1>1, <1>2, <1>3, <2>5, <2>6
<1> QED
  BY <1>5, <1>6

\* The last child schedules who waits in join().
LEMMA ChildDoneKeeps ==
  ASSUME IInv, NEW e \in Execs, NEW c, c # None, ChildDone(e, c), UNCHANGED <<tcpVars, roomVars>>
  PROVE  IInv'
<1> DEFINE l == "child done"
<1>0. At(e, c, l) /\ l \in {"child", "child done"} /\ l \in Labels
  BY DEF ChildDone, Labels
<1> HIDE DEF l
<1>1. c \in Coros /\ running[e] = c /\ Where(c, l, frames[c]) /\ frames[c] # <<>>
  BY <1>0, Here
<1>2. PICK k \in Clients : c \in {writer(k), helper(k)} /\ frames[c] = On(l, k, <<>>)
  BY <1>0, <1>1 DEF Where
<1>3. Inner(c).on = k /\ Tail(frames[c]) = <<>>
  <2> DEFINE t == <<>>
  <2>1. t \in Stack /\ l \in Labels /\ frames[c] = On(l, k, t) /\ k \in Subjects
    BY <1>0, <1>2, EmptyStack, SubjectFacts
  <2> HIDE DEF t
  <2>2. Inner(c).on = k /\ Tail(frames[c]) = t
    BY ONLY <2>1, OnFacts DEF Inner
  <2> QED
    BY <2>2 DEF t
<1> DEFINE w == join_waiter[k]
<1>4. /\ frames' = [frames EXCEPT ![c] = <<>>] /\ running' = [running EXCEPT ![e] = None]
      /\ inbound' = inbound /\ hand' = hand /\ got' = got /\ queue' = queue
      /\ active' = [active EXCEPT ![k] = @ - 1]
  BY <1>3 DEF ChildDone, suspend
<1>5. \/ /\ active[k] = 1 /\ w # None /\ join_waiter' = [join_waiter EXCEPT ![k] = None]
         /\ runq' = Posted(runq, w, e)
      \/ ~ (active[k] = 1 /\ w # None) /\ join_waiter' = join_waiter /\ runq' = runq
  BY <1>3 DEF ChildDone
<1>6. /\ watcher' = watcher /\ send_locked' = send_locked /\ send_lock_waiters' = send_lock_waiters
      /\ timers' = timers /\ rr' = rr /\ chunks' = chunks /\ clients' = clients /\ it' = it
  BY DEF tcpVars, streamVars, roomVars
<1>7. frames'[c] = <<>> /\ \A d \in Coros : d # c => frames'[d] = frames[d]
  <2>1. frames \in [Coros -> Stack]
    BY DEF IInv, Typed
  <2> QED
    BY ONLY <1>1, <1>4, <2>1
<1>8. /\ active[k] >= 1 /\ active[k] \in Nat /\ active' \in [Clients -> Nat]
      /\ \A j \in Clients : active'[j] = One(frames'[writer(j)] # <<>>) + One(frames'[helper(j)] # <<>>)
      /\ \A j \in Clients : j # k => active'[j] = active[j]
      /\ active'[k] = active[k] - 1
  <2>1. Children /\ active \in [Clients -> Nat]
    BY DEF IInv, Typed
  <2>2. \A j \in Clients : j # k => active'[j] = active[j]
    BY <1>4, <2>1
  <2>3. active'[k] = active[k] - 1 /\ active[k] \in Nat
    BY <1>4, <2>1
  <2>4. /\ active[k] >= 1 /\ active' \in [Clients -> Nat]
        /\ \A j \in Clients : active'[j] = One(frames'[writer(j)] # <<>>) + One(frames'[helper(j)] # <<>>)
    BY <1>1, <1>2, <1>4, <1>7, <2>1, ChildCount
  <2> QED
    BY <2>2, <2>3, <2>4
<1>9. /\ runq' \in [Execs -> Seq(Tasks)] /\ join_waiter' \in [Clients -> Coros \cup {None}]
      /\ TokensStay
      /\ \A d \in Coros : JoinN(d)' + RunqN(d)' = JoinN(d) + RunqN(d)
  <2>1. CASE w # None /\ join_waiter' = [join_waiter EXCEPT ![k] = None] /\ runq' = Posted(runq, w, e)
    BY <1>4, <2>1, JoinWakes
  <2>2. CASE join_waiter' = join_waiter /\ runq' = runq
    BY <1>4, <2>2, PartsSame, TokensSame DEF IInv, Typed
  <2> QED
    BY <1>5, <2>1, <2>2
<1>10. \A j \in Clients : /\ join_waiter'[j] = None \/ join_waiter'[j] = join_waiter[j]
                          /\ j # k => join_waiter'[j] = join_waiter[j]
  <2>1. join_waiter \in [Clients -> Coros \cup {None}]
    BY DEF IInv, Typed
  <2> QED
    BY <1>5, <2>1
<1>11. Typed'
  <2>1. frames' \in [Coros -> Stack]
    BY <1>1, <1>4, EmptyStack DEF IInv, Typed
  <2>2. running' \in [Execs -> Coros \cup {None}]
    BY <1>4 DEF IInv, Typed
  <2>3. /\ inbound' = inbound /\ hand' = hand /\ got' = got /\ queue' = queue
    BY <1>4
  <2>4. runq' \in [Execs -> Seq(Tasks)] /\ join_waiter' \in [Clients -> Coros \cup {None}] /\ active' \in [Clients -> Nat]
    BY <1>8, <1>9
  <2>5. Typed
    BY DEF IInv
  <2> QED
    BY ONLY <1>6, <2>1, <2>2, <2>3, <2>4, <2>5 DEF Typed
<1>12. \A d \in Coros : JoinN(d)' + RunqN(d)' = JoinN(d) + RunqN(d) /\ InbN(d)' = InbN(d)
  BY <1>4, <1>9, PartsSame
<1>13. \A j \in Clients : Tickets(j)' = Tickets(j)
  <2>1. Queued /\ Queued' /\ queue[accepted].q \in Seq(Streams)
    BY <1>11 DEF IInv, Typed, Queued
  <2> QED
    BY <1>4, <1>9, <2>1, TicketsSame
<1>14. ASSUME NEW j \in Clients, NEW x \in Execs PROVE Cleaning(x, j)' <=> Cleaning(x, j)
  <2>1. <<"cleanup", j>> \in Tasks \ Coros
    BY TokenNames
  <2> QED
    BY <1>9, <2>1 DEF TokensStay, Cleaning
<1>15. \A j \in Clients : frames'[session(j)] = frames[session(j)]
  BY <1>2, <1>7, CoroNames
<1>16. frames'[Room] = frames[Room] /\ frames'[Main] = frames[Main] /\ c # Room
  BY <1>2, <1>7, CoroNames
<1>17. \A j \in Clients : j \in Alive => j \in Alive'
  BY <1>4, <1>6, <1>15, <1>16 DEF Alive, InSession, InJoin, Pinned, RoomAt, Inner
<1>18. Children'
  <2>1. Children
    BY DEF IInv
  <2>2. HeadIs(Main, Frame("main", 0))' => frames'[Room] = <<>>
    BY <1>16, <2>1 DEF Children, HeadIs, Main
  <2>3. ASSUME NEW j \in Clients, Childless(j)' PROVE active'[j] = 0
    <3>1. CASE Childless(j)
      <4>1. active[j] = 0
        BY <2>1, <3>1 DEF Children
      <4> QED
        BY <1>8, <4>1
    <3>2. CASE ~ Childless(j)
      <4>1. join_waiter[j] # None /\ join_waiter'[j] = None
        BY ONLY <1>15, <2>3, <3>2 DEF Childless, HeadIs, session
      <4>2. j = k
        BY <1>10, <4>1
      <4>3. active[k] = 1
        <5>1. join_waiter' # join_waiter
          BY <4>1
        <5> QED
          BY <1>5, <5>1
      <4> QED
        BY <1>8, <4>2, <4>3
    <3> QED
      BY <3>1, <3>2
  <2>4. \A j \in Clients : watcher'[j] = "none" => frames'[session(j)] = <<>>
    BY <1>6, <1>15, <2>1 DEF Children
  <2> QED
    BY <1>8, <2>2, <2>3, <2>4 DEF Children, session, writer, helper
<1>19. /\ \A j \in Clients : join_waiter'[j] = None \/ join_waiter'[j] = join_waiter[j]
       /\ UNCHANGED <<hand, got, queue, send_locked, send_lock_waiters, timers, chunks, clients, it>>
       /\ IInv /\ e \in Execs
  BY <1>4, <1>6, <1>10
<1>20. /\ \A j \in Clients : /\ watcher'[j] = "none" <=> watcher[j] = "none"
                             /\ watcher'[j] = "open" => watcher[j] = "open"
       /\ frames' = [frames EXCEPT ![c] = <<>>] /\ running' = [running EXCEPT ![e] = None]
  BY <1>4, <1>6
<1> QED
  BY ONLY <1>1, <1>11, <1>12, <1>13, <1>14, <1>16, <1>17, <1>18, <1>19, <1>20, Ends

----------------------------------------------------------------------------
(* Chains are spawned. *)

\* A stack that neither sends nor waits for the lock.
Quiet(s) == s # <<>> /\ \A k \in Clients : ~ Sends(s, k) /\ Head(s) # Frame("locked", k)

\* A chain without frames waits nowhere.
LEMMA NoFrames ==
  ASSUME IInv, NEW c \in Coros, frames[c] = <<>>
  PROVE  NotWait(c) /\ NotJoin(c) /\ NotLock(c)
<1>1. Parked /\ c # None
  BY NotCoros DEF IInv
<1> QED
  BY <1>1 DEF Parked, HeadIs, NotWait, NotJoin, NotLock

\* The chains in D get new frames, and none of them waits anywhere.
LEMMA Spawns ==
  ASSUME IInv, Typed', NEW D \in SUBSET Coros, \A d \in Coros : d \notin D => frames'[d] = frames[d],
         \A d \in D : NotWait(d) /\ NotJoin(d) /\ NotLock(d) /\ Quiet(frames'[d]) /\ StackOf(d, frames'[d]),
         \A d \in Coros : /\ Places(d) \in Nat
                          /\ Places(d)' = Places(d) + One(frames'[d] # <<>>) - One(frames[d] # <<>>),
         \A q \in Queues : /\ (queue'[q].waiter = None \/ queue'[q].waiter = queue[q].waiter)
                           /\ queue[q].exec # NoExec => queue'[q].exec # NoExec,
         join_waiter' = join_waiter, send_locked' = send_locked, send_lock_waiters' = send_lock_waiters,
         Bound', Children', Ticketed', Known', RoomOK', DroppedStreamIsClosed'
  PROVE  IInv'
<1>1. Stacks'
  <2>1. \A d \in Coros : StackOf(d, frames'[d])
    BY StacksOf DEF IInv
  <2> QED
    BY <2>1, CoroNames DEF Stacks, StackOf
<1>2. OneResumption'
  BY OneResumptionStays DEF IInv
<1>3. Parked'
  <2>1. Parked
    BY DEF IInv
  <2>2. \A q \in Queues : queue'[q].waiter # None =>
           /\ queue'[q].waiter = queue[q].waiter /\ frames'[queue[q].waiter] = frames[queue[q].waiter]
           /\ queue[q].exec # NoExec => queue'[q].exec # NoExec
    <3>1. \A q \in Queues : queue[q].waiter \in Coros \cup {None} /\ queue[q].waiter \notin D
      BY DEF IInv, Typed, NotWait
    <3> QED
      BY <3>1
  <2>3. \A k \in Clients : join_waiter'[k] # None =>
           join_waiter'[k] = join_waiter[k] /\ frames'[join_waiter[k]] = frames[join_waiter[k]]
    <3>1. \A k \in Clients : join_waiter[k] \in Coros \cup {None} /\ join_waiter[k] \notin D
      BY DEF IInv, Typed, NotJoin
    <3> QED
      BY <3>1
  <2>4. \A k \in Clients, d \in Coros : Among(send_lock_waiters'[k], d) =>
           Among(send_lock_waiters[k], d) /\ frames'[d] = frames[d]
    BY DEF NotLock
  <2> QED
    BY ONLY <2>1, <2>2, <2>3, <2>4, ParkedStays
<1>4. Locks'
  <2>1. Locks /\ send_locked \subseteq send_locked' /\ send_lock_waiters' = send_lock_waiters
    BY DEF IInv
  <2>2. ASSUME NEW k \in Clients, NEW d \in Coros, Owner(d, k)' PROVE Owner(d, k)
    <3>1. d \notin D
      <4>1. Quiet(frames'[d]) => ~ Owner(d, k)'
        BY DEF Quiet, Owner, Sending, Sends, HeadIs
      <4> QED
        BY <2>2, <4>1
    <3>2. frames'[d] = frames[d]
      BY <3>1
    <3> QED
      BY <2>1, <2>2, <3>2 DEF Owner, Sending, HeadIs
  <2> QED
    BY <2>1, <2>2, LocksStay
<1> QED
  BY <1>1, <1>2, <1>3, <1>4 DEF IInv

\* A frame that does not send, on top of frames that do not.
LEMMA QuietOn ==
  ASSUME NEW l \in Labels, l \notin {"send", "send ready", "locked"}, NEW x \in Subjects, NEW t \in Stack,
         \A k \in Clients : ~ Sends(t, k)
  PROVE  Quiet(On(l, x, t)) /\ On(l, x, t) \in Stack
<1>1. On(l, x, t) # <<>> /\ On(l, x, t) \in Stack /\ Head(On(l, x, t)).at = l
  BY ONLY OnFacts, l \in Labels, x \in Subjects, t \in Stack
<1>2. \A k : Frame("locked", k).at = "locked"
  BY FrameFacts
<1>3. \A k \in Clients : ~ Sends(On(l, x, t), k)
  BY SendsOn
<1> QED
  BY <1>1, <1>2, <1>3 DEF Quiet

\* The room is spawned, and async_main() awaits serveRoundRobin().
MainStarts == <<Frame("listen", 0), Frame("return", 0)>>
RoomStarts == <<Frame("room", 0)>>
\* The stacks that async_main() starts;
LEMMA StartFrames ==
  /\ MainStarts = On("listen", 0, On("return", 0, <<>>)) /\ RoomStarts = On("room", 0, <<>>)
  /\ MainStarts \in Stack /\ RoomStarts \in Stack /\ Quiet(MainStarts) /\ Quiet(RoomStarts)
  /\ StackOf(Main, MainStarts) /\ StackOf(Room, RoomStarts)
  /\ Head(MainStarts).at = "listen" /\ Head(RoomStarts).at = "room"
<1> DEFINE t == <<>>
           a == "listen"
           b == "return"
           r == "room"
<1>1. t \in Stack /\ 0 \in Subjects /\ \A k : ~ Sends(t, k)
  BY EmptyStack, SubjectFacts, SendsNone
<1>2. a \in Labels /\ a \notin {"send", "send ready", "locked"}
  BY DEF Labels
<1>3. b \in Labels /\ b \notin {"send", "send ready", "locked"}
  BY DEF Labels
<1>4. r \in Labels /\ r \notin {"send", "send ready", "locked"}
  BY DEF Labels
<1>5. MainStarts = On(a, 0, On(b, 0, t))
  BY DEF MainStarts, On
<1>6. RoomStarts = On(r, 0, t)
  BY DEF RoomStarts, On
<1>7. StackOf(Main, MainStarts) /\ StackOf(Room, RoomStarts)
  BY <1>5, <1>6, NewMain, NewRoom
<1> HIDE DEF t, a, b, r
<1>8. Quiet(On(r, 0, t)) /\ On(r, 0, t) \in Stack /\ Head(On(r, 0, t)).at = r
  <2>1. Quiet(On(r, 0, t)) /\ On(r, 0, t) \in Stack
    BY ONLY <1>1, <1>4, QuietOn
  <2>2. Head(On(r, 0, t)).at = r
    BY ONLY <1>1, <1>4, OnAt
  <2> QED
    BY ONLY <2>1, <2>2
<1>9. Quiet(On(b, 0, t)) /\ On(b, 0, t) \in Stack
  BY ONLY <1>1, <1>3, QuietOn
<1> DEFINE u == On(b, 0, t)
<1>10. u \in Stack /\ \A k \in Clients : ~ Sends(u, k)
  BY ONLY <1>9 DEF Quiet
<1> HIDE DEF u
<1>11. Quiet(On(a, 0, u)) /\ On(a, 0, u) \in Stack /\ Head(On(a, 0, u)).at = a
  <2>1. Quiet(On(a, 0, u)) /\ On(a, 0, u) \in Stack
    BY ONLY <1>1, <1>2, <1>10, QuietOn
  <2>2. Head(On(a, 0, u)).at = a
    BY ONLY <1>1, <1>2, <1>10, OnAt
  <2> QED
    BY ONLY <2>1, <2>2
<1>12. MainStarts = On("listen", 0, On("return", 0, <<>>)) /\ RoomStarts = On("room", 0, <<>>)
  BY <1>5, <1>6 DEF a, b, r, t
<1> QED
  BY ONLY <1>5, <1>6, <1>7, <1>8, <1>11, <1>12 DEF u, a, r

----------------------------------------------------------------------------
(* async_main(). *)

\* A sequence of two.
LEMMA PairAppends ==
  ASSUME NEW S, NEW a \in S, NEW b \in S
  PROVE  Append(<<a>>, b) = <<a, b>>
<1>1. Append(<<a>>, b) \in Seq(S) /\ Len(Append(<<a>>, b)) = 2
  OBVIOUS
<1>2. <<a>> \in Seq(S) /\ Len(<<a>>) = 1 /\ <<a>>[1] = a
  OBVIOUS
<1>3. \A i \in 1 .. Len(Append(<<a>>, b)) : Append(<<a>>, b)[i] = <<a, b>>[i]
  <2>1. Append(<<a>>, b)[1] = a /\ Append(<<a>>, b)[2] = b
    BY <1>2
  <2> QED
    BY <1>1, <2>1
<1>4. <<a, b>> \in Seq(S) /\ Len(<<a, b>>) = 2
  OBVIOUS
<1> QED
  BY <1>1, <1>3, <1>4, SeqEqual

\* Two chains are scheduled.
LEMMA OccursTwo == 
  ASSUME NEW a \in Coros, NEW b \in Coros, a # b
  PROVE  <<a, b>> \in Seq(Coros) /\ \A t : Occurs(<<a, b>>, t) = One(a = t) + One(b = t)
<1> DEFINE x == <<a>>
<1>1. x \in Seq(Coros) /\ <<a, b>> \in Seq(Coros) /\ a \in Coros /\ b \in Coros
  <2>1. a \in Coros /\ b \in Coros
    OBVIOUS
  <2> QED
    BY ONLY <2>1
<1>2. Append(x, b) = <<a, b>>
  BY ONLY <1>1, PairAppends
<1>3. \A t : Occurs(x, t) = One(a = t)
  BY OccursOne
<1> HIDE DEF x
<1>4. \A t : Occurs(Append(x, b), t) = Occurs(x, t) + One(b = t)
  BY ONLY <1>1, OccursAppend
<1> QED
  BY ONLY <1>1, <1>2, <1>3, <1>4

\* what it does;
LEMMA async_mainFacts ==
  ASSUME IInv, NEW e \in Execs, NEW c, c # None, async_main(e, c)
  PROVE  /\ c = Main /\ running[e] = Main /\ frames[Main] # <<>> /\ frames[Room] = <<>>
         /\ frames'[Main] = MainStarts /\ frames'[Room] = RoomStarts
         /\ \A d \in Coros : d \notin {Main, Room} => frames'[d] = frames[d]
         /\ frames' \in [Coros -> Stack]
<1> DEFINE l == "main"
<1>0. At(e, c, l) /\ l \in Labels
  BY DEF async_main, Labels
<1> HIDE DEF l
<1>1. c \in Coros /\ running[e] = c /\ Where(c, l, frames[c]) /\ frames[c] # <<>>
  BY <1>0, Here
<1>2. c = Main /\ frames[c] = On(l, 0, <<>>)
  BY <1>1 DEF Where, l
<1>3. HeadIs(Main, Frame("main", 0))
  <2> DEFINE t == <<>>
  <2>1. t \in Stack /\ frames[c] = On(l, 0, t) /\ 0 \in Subjects
    BY <1>2, EmptyStack, SubjectFacts
  <2> HIDE DEF t
  <2>2. Head(frames[c]) = Frame(l, 0)
    BY ONLY <1>0, <2>1, OnFacts
  <2> QED
    BY <1>1, <1>2, <2>2 DEF HeadIs, l
<1>4. frames[Room] = <<>>
  BY <1>3 DEF IInv, Children
<1>5. frames' = [frames EXCEPT ![Room] = RoomStarts, ![Main] = MainStarts]
  BY <1>2 DEF async_main, RoomStarts, MainStarts
<1>6. frames \in [Coros -> Stack]
  BY DEF IInv, Typed
<1>7. Main \in Coros /\ Room \in Coros /\ Main # Room
  BY CoroNames
<1>8. MainStarts \in Stack /\ RoomStarts \in Stack
  BY StartFrames
<1> HIDE DEF MainStarts, RoomStarts
<1>9. /\ frames'[Main] = MainStarts /\ frames'[Room] = RoomStarts
      /\ \A d \in Coros : d \notin {Main, Room} => frames'[d] = frames[d]
      /\ frames' \in [Coros -> Stack]
  BY ONLY <1>5, <1>6, <1>7, <1>8
<1> QED
  BY <1>1, <1>2, <1>4, <1>9

\* and that it keeps the invariant.
LEMMA async_mainKeeps ==
  ASSUME IInv, NEW e \in Execs, NEW c, c # None, async_main(e, c)
  PROVE  IInv'
<1>1. /\ c = Main /\ running[e] = Main /\ frames[Main] # <<>> /\ frames[Room] = <<>>
      /\ frames'[Main] = MainStarts /\ frames'[Room] = RoomStarts
      /\ \A d \in Coros : d \notin {Main, Room} => frames'[d] = frames[d]
      /\ frames' \in [Coros -> Stack]
  BY async_mainFacts
<1>2. /\ queue' = bind(queue, cmds, e) /\ runq' = [runq EXCEPT ![e] = @ \o <<Room, Main>>]
      /\ running' = [running EXCEPT ![e] = None]
  BY <1>1 DEF async_main, suspend
<1>3. /\ inbound' = inbound /\ hand' = hand /\ got' = got /\ active' = active
      /\ join_waiter' = join_waiter
      /\ watcher' = watcher /\ send_locked' = send_locked /\ send_lock_waiters' = send_lock_waiters
      /\ timers' = timers /\ rr' = rr /\ chunks' = chunks /\ clients' = clients /\ it' = it
  BY DEF async_main, groupVars, tcpVars, streamVars, roomVars
<1>4. Main \in Coros /\ Room \in Coros /\ Main # Room /\ Main # None /\ e # NoExec
  BY CoroNames, NotCoros, TcpAssumption
<1>5. /\ queue'[cmds] = [queue[cmds] EXCEPT !.exec = e]
      /\ \A q \in Queues : q # cmds => queue'[q] = queue[q]
      /\ queue' \in [Queues -> [q : Seq(Values), closed : BOOLEAN, exec : Execs \cup {NoExec},
                           waiter : Coros \cup {None}]]
  <2>1. queue \in [Queues -> [q : Seq(Values), closed : BOOLEAN, exec : Execs \cup {NoExec},
                             waiter : Coros \cup {None}]]
    BY DEF IInv, Typed
  <2>2. queue' = [queue EXCEPT ![cmds].exec = e] /\ e \in Execs /\ cmds \in Queues
    BY <1>2, QueueNames DEF bind
  <2>3. queue'[cmds] = [queue[cmds] EXCEPT !.exec = e] /\ \A q \in Queues : q # cmds => queue'[q] = queue[q]
    BY ONLY <2>1, <2>2
  <2>4. [queue[cmds] EXCEPT !.exec = e] \in [q : Seq(Values), closed : BOOLEAN, exec : Execs \cup {NoExec},
                             waiter : Coros \cup {None}]
    BY ONLY <2>1, <2>2
  <2>5. queue' = [queue EXCEPT ![cmds] = [queue[cmds] EXCEPT !.exec = e]]
    BY ONLY <2>1, <2>2
  <2> QED
    BY ONLY <2>1, <2>2, <2>3, <2>4, <2>5
<1>6. \A q \in Queues : /\ queue'[q].waiter = queue[q].waiter /\ queue'[q].q = queue[q].q
                        /\ queue'[q].closed = queue[q].closed
                        /\ queue[q].exec # NoExec => queue'[q].exec # NoExec
                        /\ q # cmds => queue'[q].exec = queue[q].exec
  <2>1. queue[cmds] \in [q : Seq(Values), closed : BOOLEAN, exec : Execs \cup {NoExec},
                             waiter : Coros \cup {None}]
    BY QueueNames DEF IInv, Typed
  <2>2. /\ queue'[cmds].waiter = queue[cmds].waiter /\ queue'[cmds].q = queue[cmds].q
        /\ queue'[cmds].closed = queue[cmds].closed /\ queue'[cmds].exec = e
    BY ONLY <1>5, <2>1
  <2>3. ASSUME NEW q \in Queues, q # cmds PROVE queue'[q] = queue[q]
    BY <1>5, <2>3
  <2> QED
    BY <1>4, <2>2, <2>3
<1>7. queue'[cmds].exec = e
  BY <1>5, QueueNames DEF IInv, Typed
<1>8. Typed'
  <2>1. runq' \in [Execs -> Seq(Tasks)]
    <3>1. <<Room, Main>> \in Seq(Tasks)
      BY <1>4, CorosAreTasks
    <3>2. runq \in [Execs -> Seq(Tasks)] /\ runq[e] \in Seq(Tasks)
      BY DEF IInv, Typed
    <3>3. runq[e] \o <<Room, Main>> \in Seq(Tasks)
      BY ONLY <3>1, <3>2
    <3> QED
      BY ONLY <1>2, <3>2, <3>3
  <2>2. running' \in [Execs -> Coros \cup {None}]
    BY <1>2 DEF IInv, Typed
  <2>3. queue'[accepted].q = queue[accepted].q /\ queue'[cmds].q = queue[cmds].q
    BY <1>6, QueueNames
  <2>4. Typed
    BY DEF IInv
  <2> QED
    BY <1>1, <1>3, <1>5, <2>1, <2>2, <2>3, <2>4 DEF Typed
<1>9. Posts(e, <<Room, Main>>)
  BY <1>2, <1>4, PostsSome, OccursTwo DEF IInv, Typed
<1>10. Queued /\ Queued'
  BY <1>8 DEF IInv, Typed, Queued
<1>11. \A d \in Coros : /\ Places(d) \in Nat
                        /\ Places(d)' = Places(d) + One(frames'[d] # <<>>) - One(frames[d] # <<>>)
  <2> TAKE d \in Coros
  <2> DEFINE s == <<Room, Main>>
  <2>1. Posts(e, s) /\ Occurs(s, d) = One(Room = d) + One(Main = d)
    BY <1>4, <1>9, OccursTwo
  <2> HIDE DEF s
  <2>2. HandN(d)' = HandN(d) /\ WaitN(d)' = WaitN(d) /\ JoinN(d)' = JoinN(d) /\ TimeN(d)' = TimeN(d)
        /\ LockN(d)' = LockN(d)
    BY <1>3, <1>6, PartsSame
  <2>3. (\A x \in Execs : x # e => running'[x] = running[x]) /\ running'[e] = None
    BY <1>2 DEF IInv, Typed
  <2>4. /\ Places(d)' = Places(d) - One(running[e] = d) + One(running'[e] = d) + Occurs(s, d)
                           + (HandN(d)' - HandN(d)) + (WaitN(d)' - WaitN(d)) + (JoinN(d)' - JoinN(d))
                           + (TimeN(d)' - TimeN(d)) + (LockN(d)' - LockN(d))
        /\ Numbers(d) /\ Numbers(d)' /\ Occurs(s, d) \in Nat /\ Places(d) \in Nat /\ Places(d)' \in Nat
    <3>1. inbound' = inbound /\ e \in Execs
      BY <1>3
    <3> QED
      BY ONLY <1>10, <2>1, <2>3, <3>1, PlacesStep
  <2>5. One(running[e] = d) = One(Main = d) /\ One(running'[e] = d) = 0
    BY <1>1, <2>3, NotCoros DEF One
  <2>6. One(frames'[d] # <<>>) - One(frames[d] # <<>>) = One(Room = d)
    <3>1. MainStarts # <<>> /\ RoomStarts # <<>>
      BY StartFrames DEF Quiet
    <3>2. CASE d = Room
      BY <1>1, <3>1, <3>2 DEF One
    <3>3. CASE d = Main
      BY <1>1, <1>4, <3>1, <3>3 DEF One
    <3>4. CASE d \notin {Main, Room}
      <4>1. frames'[d] = frames[d]
        BY <1>1, <3>4
      <4> QED
        BY <3>4, <4>1 DEF One
    <3> QED
      BY <3>2, <3>3, <3>4
  <2>7. One(Main = d) \in Nat /\ One(Room = d) \in Nat /\ One(frames'[d] # <<>>) \in Nat
        /\ One(frames[d] # <<>>) \in Nat
    BY DEF One
  <2> DEFINE a == One(running[e] = d)
             b == One(running'[e] = d)
             m == One(Main = d)
             r == One(Room = d)
             o == One(frames'[d] # <<>>)
             n == One(frames[d] # <<>>)
  <2>8. a = m /\ b = 0 /\ o - n = r /\ m \in Nat /\ r \in Nat /\ o \in Nat /\ n \in Nat
        /\ Occurs(s, d) = r + m
    BY <2>1, <2>5, <2>6, <2>7
  <2>9. /\ Places(d)' = Places(d) - a + b + Occurs(s, d)
                           + (HandN(d)' - HandN(d)) + (WaitN(d)' - WaitN(d)) + (JoinN(d)' - JoinN(d))
                           + (TimeN(d)' - TimeN(d)) + (LockN(d)' - LockN(d))
        /\ Numbers(d) /\ Places(d) \in Nat
    BY <2>4
  <2>10. Places(d)' = Places(d) + o - n /\ Places(d) \in Nat
    <3> HIDE DEF a, b, m, r, o, n
    <3> QED
      BY ONLY <2>2, <2>8, <2>9 DEF Numbers
  <2> QED
    BY <2>10
<1>12. NotWait(Main) /\ NotJoin(Main) /\ NotLock(Main) /\ NotWait(Room) /\ NotJoin(Room) /\ NotLock(Room)
  BY <1>1, <1>4, Alone, NoFrames DEF IInv
<1>13. frames'[Main] # <<>> /\ Head(frames'[Main]).at = "listen"
       /\ frames'[Room] # <<>> /\ Head(frames'[Room]).at = "room"
  BY <1>1, StartFrames DEF Quiet
<1>14. \A k \in Clients : /\ frames'[writer(k)] = frames[writer(k)] /\ frames'[helper(k)] = frames[helper(k)]
                          /\ frames'[session(k)] = frames[session(k)]
  BY ONLY <1>1, CoroNames
<1>15. Bound'
  <2>1. \A k \in Clients : /\ queue'[recv_q(k)].exec = queue[recv_q(k)].exec
                           /\ queue'[send_ready_q(k)].exec = queue[send_ready_q(k)].exec
                           /\ queue'[outbox(k)].exec = queue[outbox(k)].exec
    BY <1>6, QueueNames
  <2>2. Bound
    BY DEF IInv
  <2> QED
    BY <1>3, <1>4, <1>7, <1>13, <1>14, <2>1, <2>2 DEF Bound
<1>16. Children'
  <2>1. ~ HeadIs(Main, Frame("main", 0))'
    <3>1. Frame("main", 0).at = "main"
      BY FrameFacts
    <3>2. Head(frames'[Main]) # Frame("main", 0)
      BY <1>13, <3>1
    <3> QED
      BY <3>2 DEF HeadIs, Main
  <2>2. \A k \in Clients : Childless(k)' => Childless(k)
    BY <1>3, <1>14 DEF Childless, HeadIs, session
  <2>3. Children
    BY DEF IInv
  <2> QED
    BY <1>3, <1>14, <2>1, <2>2, <2>3, ChildrenStay
<1>17. TokensStay
  BY <1>3, <1>9, TokensPosts
<1>18. Ticketed'
  <2>1. queue'[accepted].q = queue[accepted].q /\ queue[accepted].q \in Seq(Streams) /\ got'[Main] = got[Main]
    BY <1>3, <1>6, QueueNames DEF IInv, Typed
  <2>2. \A k \in Clients : Tickets(k)' = Tickets(k)
    BY ONLY <1>10, <1>17, <2>1, TicketsSame
  <2>3. Ticketed
    BY DEF IInv
  <2> QED
    BY <1>3, <2>2, <2>3, TicketedStays
<1>19. queue'[cmds].q = queue[cmds].q /\ queue'[cmds].closed = queue[cmds].closed
  BY <1>6, QueueNames
<1>20. Known'
  <2>1. Known
    BY DEF IInv
  <2> QED
    BY <1>3, <1>17, <1>19, <2>1, KnownStays
<1>21. RoomOK'
  <2>1. ~ RoomAt({"command", "cast", "pushed"})' /\ ~ RoomAt({"pushed"})'
    BY <1>13 DEF RoomAt, Inner, Room
  <2>2. ~ HeadIs(Room, Frame("resume", cmds))'
    <3>1. Frame("resume", cmds).at = "resume"
      BY FrameFacts
    <3>2. Head(frames'[Room]) # Frame("resume", cmds)
      BY <1>13, <3>1
    <3> QED
      BY <3>2 DEF HeadIs, Room, cmds
  <2>3. ~ queue[cmds].closed
    BY DEF IInv, RoomOK
  <2> QED
    BY <1>19, <2>1, <2>2, <2>3 DEF RoomOK, cmds
<1>22. DroppedStreamIsClosed'
  <2>1. Typed /\ Bound /\ DroppedStreamIsClosed
    BY DEF IInv
  <2>2. \A k \in Clients, x \in Execs :
           Among(runq[x], <<"cleanup", k>>) \/ Among(inbound[x], <<"cleanup", k>>)
             => Among(runq'[x], <<"cleanup", k>>) \/ Among(inbound'[x], <<"cleanup", k>>) \/ watcher'[k] # "open"
    BY <1>3, <1>9, PostsFacts
  <2>3. \A k \in Clients : exec(k)' = exec(k)
    BY <1>6, QueueNames DEF exec, recv_q
  <2>4. ASSUME NEW k \in Clients, k \in Alive PROVE k \in Alive'
    <3>1. ~ RoomAt({"command", "cast", "pushed"}) /\ ~ RoomAt({"pushed"})
      BY <1>1 DEF RoomAt
    <3>2. CASE InSession(k)
      BY <1>14, <3>2 DEF InSession, Alive, session
    <3>3. CASE InJoin(k)
      BY <1>19, <3>1, <3>3 DEF InJoin, Alive, cmds
    <3> QED
      BY <2>4, <3>1, <3>2, <3>3 DEF Alive, Pinned
  <2>5. \A k \in Clients : watcher'[k] = "open" =>
           \/ watcher[k] = "open" /\ exec(k)' = exec(k) /\ (k \in Alive => k \in Alive')
           \/ k \in Alive'
    BY <1>3, <2>3, <2>4
  <2> QED
    BY ONLY <2>1, <2>2, <2>5, DroppedStays
<1> DEFINE D == {Main, Room}
<1>23. D \in SUBSET Coros /\ \A d \in Coros : d \notin D => frames'[d] = frames[d]
  BY <1>1, <1>4
<1>24. \A d \in D : NotWait(d) /\ NotJoin(d) /\ NotLock(d) /\ Quiet(frames'[d]) /\ StackOf(d, frames'[d])
  BY <1>1, <1>12, StartFrames
<1>25. \A q \in Queues : /\ (queue'[q].waiter = None \/ queue'[q].waiter = queue[q].waiter)
                         /\ queue[q].exec # NoExec => queue'[q].exec # NoExec
  BY <1>6
<1>26. IInv /\ join_waiter' = join_waiter /\ send_locked' = send_locked /\ send_lock_waiters' = send_lock_waiters
  BY <1>3
<1> HIDE DEF D
<1> QED
  BY ONLY <1>8, <1>11, <1>15, <1>16, <1>18, <1>20, <1>21, <1>22, <1>23, <1>24, <1>25, <1>26, Spawns

----------------------------------------------------------------------------
(* chatSession(). *)

\* The frames of a chain that starts, or starts over, at label l.
Starting(l, k) == <<Frame(l, k)>>

\* The frames of a chain that starts, or starts over.
LEMMA AloneFrames ==
  ASSUME NEW k \in Clients, NEW l \in Labels, l \notin {"send", "send ready", "locked"}
  PROVE  /\ Starting(l, k) = On(l, k, <<>>) /\ Starting(l, k) \in Stack /\ Quiet(Starting(l, k))
         /\ Starting(l, k) # <<>> /\ Head(Starting(l, k)).at = l
<1> DEFINE t == <<>>
<1>1. t \in Stack /\ k \in Subjects /\ \A j : ~ Sends(t, j)
  BY EmptyStack, SubjectFacts, SendsNone
<1>2. Starting(l, k) = On(l, k, t)
  <2> DEFINE f == Frame(l, k)
             u == <<f>>
             X == {f}
  <2>1. u \in Seq(X) /\ Starting(l, k) = u /\ On(l, k, t) = u \o <<>>
    <3>1. Starting(l, k) = u
      BY DEF Starting
    <3>2. u \in Seq(X)
      <4>1. f \in X
        OBVIOUS
      <4> HIDE DEF f, X
      <4> QED
        BY ONLY <4>1
    <3>3. On(l, k, t) = u \o <<>>
      BY DEF On, t
    <3> QED
      BY ONLY <3>1, <3>2, <3>3
  <2> HIDE DEF f, u, X, t
  <2> QED
    BY ONLY <2>1, ConcatEmptySeq
<1>3. l \in Labels /\ l \notin {"send", "send ready", "locked"}
  OBVIOUS
<1> HIDE DEF t
<1>4. Quiet(On(l, k, t)) /\ On(l, k, t) \in Stack
  BY ONLY <1>1, <1>3, QuietOn
<1>5. Head(On(l, k, t)).at = l
  BY ONLY <1>1, <1>3, OnAt
<1>6. Starting(l, k) = On(l, k, <<>>)
  BY <1>2 DEF t
<1> QED
  BY ONLY <1>2, <1>4, <1>5, <1>6 DEF Quiet

\* The children that the session of client k spawns.
Kids(k) == <<writer(k)>> \o IF k \in Helpers THEN <<helper(k)>> ELSE <<>>

\* The children that a session spawns.
LEMMA KidsFacts ==
  ASSUME NEW k \in Clients
  PROVE  /\ Kids(k) \in Seq(Coros)
         /\ k \in Helpers => /\ Range(Kids(k)) = {writer(k), helper(k)} /\ Len(Kids(k)) = 2
                             /\ \A t : Occurs(Kids(k), t) = One(writer(k) = t) + One(helper(k) = t)
         /\ k \notin Helpers => /\ Range(Kids(k)) = {writer(k)} /\ Len(Kids(k)) = 1
                                /\ \A t : Occurs(Kids(k), t) = One(writer(k) = t)
<1> DEFINE a == writer(k)
           b == helper(k)
<1>1. a \in Coros /\ b \in Coros /\ a # b
  BY CoroNames
<1>2. CASE k \in Helpers
  <2>1. Kids(k) = <<a>> \o <<b>>
    BY <1>2 DEF Kids
  <2> HIDE DEF a, b
  <2>2. Kids(k) = <<a, b>>
    <3> DEFINE u == <<a>>
    <3>1. u \in Seq(Coros) /\ u \o <<b>> = Append(u, b)
      <4>1. a \in Coros /\ b \in Coros /\ u \in Seq(Coros)
        BY ONLY <1>1
      <4> HIDE DEF u
      <4> QED
        BY ONLY <4>1, AppendIsConcat
    <3>2. Append(u, b) = <<a, b>>
      BY ONLY <1>1, PairAppends
    <3> QED
      BY ONLY <2>1, <3>1, <3>2
  <2>3. <<a, b>> \in Seq(Coros) /\ \A t : Occurs(<<a, b>>, t) = One(a = t) + One(b = t)
    BY ONLY <1>1, OccursTwo
  <2>4. Range(<<a, b>>) = {a, b} /\ Len(<<a, b>>) = 2
    BY DEF Range
  <2> QED
    BY ONLY <1>2, <2>2, <2>3, <2>4 DEF a, b
<1>3. CASE k \notin Helpers
  <2>1. Kids(k) = <<a>> \o <<>>
    BY <1>3 DEF Kids
  <2> HIDE DEF a, b
  <2>2. Kids(k) = <<a>>
    <3>1. <<a>> \in Seq(Coros)
      BY <1>1
    <3> QED
      BY ONLY <2>1, <3>1
  <2>3. <<a>> \in Seq(Coros) /\ \A t : Occurs(<<a>>, t) = One(a = t)
    BY <1>1, OccursOne
  <2>4. Range(<<a>>) = {a} /\ Len(<<a>>) = 1
    BY DEF Range
  <2> QED
    BY ONLY <1>3, <2>2, <2>3, <2>4 DEF a
<1> QED
  BY <1>2, <1>3

\* What chatSession() does when it begins;
LEMMA chatSessionFacts ==
  ASSUME IInv, NEW e \in Execs, NEW c, c # None, chatSession(e, c)
  PROVE  \E k \in Clients :
           /\ c = session(k) /\ Inner(c).on = k /\ running[e] = c /\ hand[e] = None /\ frames[c] # <<>>
           /\ watcher[k] # "none" /\ active[k] = 0
           /\ frames[writer(k)] = <<>> /\ frames[helper(k)] = <<>>
<1> DEFINE l == "session"
<1>0. At(e, c, l) /\ l \in SessionAlone /\ l \in Labels
  BY DEF chatSession, SessionAlone, Labels
<1> HIDE DEF l
<1>1. c \in Coros /\ running[e] = c /\ hand[e] = None /\ Where(c, l, frames[c]) /\ frames[c] # <<>>
  BY <1>0, Here
<1>2. PICK k \in Clients : c = session(k) /\ frames[c] = On(l, k, <<>>)
  BY <1>0, <1>1 DEF Where
<1>3. Inner(c).on = k /\ Head(frames[c]) = Frame(l, k)
  <2> DEFINE t == <<>>
  <2>1. t \in Stack /\ frames[c] = On(l, k, t) /\ k \in Subjects
    BY <1>2, EmptyStack, SubjectFacts
  <2> HIDE DEF t
  <2> QED
    BY ONLY <1>0, <2>1, OnFacts DEF Inner
<1>4. Children
  BY DEF IInv
<1>5. watcher[k] # "none" /\ active[k] = 0
  <2>1. Childless(k)
    BY <1>1, <1>2, <1>3 DEF Childless, HeadIs, l
  <2> QED
    BY <1>1, <1>2, <1>4, <2>1 DEF Children
<1>6. One(frames[writer(k)] # <<>>) + One(frames[helper(k)] # <<>>) = 0
  BY <1>4, <1>5 DEF Children
<1>7. frames[writer(k)] = <<>> /\ frames[helper(k)] = <<>>
  <2>1. CASE frames[writer(k)] # <<>> /\ frames[helper(k)] # <<>>
    BY <1>6, <2>1 DEF One
  <2>2. CASE frames[writer(k)] # <<>> /\ frames[helper(k)] = <<>>
    BY <1>6, <2>2 DEF One
  <2>3. CASE frames[writer(k)] = <<>> /\ frames[helper(k)] # <<>>
    BY <1>6, <2>3 DEF One
  <2> QED
    BY <2>1, <2>2, <2>3
<1> QED
  BY <1>1, <1>2, <1>3, <1>5, <1>7

\* the stacks of the children;
LEMMA ChildFrames ==
  ASSUME NEW k \in Clients
  PROVE  /\ Quiet(Starting("child", k)) /\ Starting("child", k) \in Stack
         /\ StackOf(writer(k), Starting("child", k)) /\ StackOf(helper(k), Starting("child", k))
         /\ Quiet(Starting("recv", k)) /\ Starting("recv", k) \in Stack
         /\ StackOf(session(k), Starting("recv", k)) /\ Head(Starting("recv", k)).at = "recv"
         /\ Quiet(Starting("session", k)) /\ Starting("session", k) \in Stack
         /\ StackOf(session(k), Starting("session", k)) /\ Head(Starting("session", k)).at = "session"
<1> DEFINE a == "child"
           b == "recv"
           d == "session"
<1>1. a \in Labels /\ a \notin {"send", "send ready", "locked"} /\ a \in {"child", "child done"}
  BY DEF Labels
<1>2. b \in Labels /\ b \notin {"send", "send ready", "locked"} /\ b \in SessionAlone
  BY DEF Labels, SessionAlone
<1>3. d \in Labels /\ d \notin {"send", "send ready", "locked"} /\ d \in SessionAlone
  BY DEF Labels, SessionAlone
<1>4. k \in Clients
  OBVIOUS
<1> HIDE DEF a, b, d
<1>5. /\ StackOf(writer(k), On(a, k, <<>>)) /\ StackOf(helper(k), On(a, k, <<>>))
      /\ StackOf(session(k), On(b, k, <<>>)) /\ StackOf(session(k), On(d, k, <<>>))
  BY <1>1, <1>2, <1>3, NewWriter, NewHelper, NewSession
<1>6. /\ Starting(a, k) = On(a, k, <<>>) /\ Starting(a, k) \in Stack /\ Quiet(Starting(a, k))
  BY ONLY <1>1, <1>4, AloneFrames
<1>7. /\ Starting(b, k) = On(b, k, <<>>) /\ Starting(b, k) \in Stack /\ Quiet(Starting(b, k))
      /\ Head(Starting(b, k)).at = b
  BY ONLY <1>2, <1>4, AloneFrames
<1>8. /\ Starting(d, k) = On(d, k, <<>>) /\ Starting(d, k) \in Stack /\ Quiet(Starting(d, k))
      /\ Head(Starting(d, k)).at = d
  BY ONLY <1>3, <1>4, AloneFrames
<1> QED
  BY ONLY <1>5, <1>6, <1>7, <1>8 DEF a, b, d

\* What chatSession() does, with the children that client k has.
LEMMA chatSessionDoes ==
  ASSUME IInv, NEW e \in Execs, NEW k \in Clients, chatSession(e, session(k)), Inner(session(k)).on = k
  PROVE  /\ \A d \in Coros : frames'[d] = CASE d \in Range(Kids(k)) -> Starting("child", k)
                                            [] d = session(k) -> Starting("recv", k)
                                            [] OTHER -> frames[d]
         /\ frames' = [d \in Coros |-> frames'[d]]
         /\ active' = [active EXCEPT ![k] = Len(Kids(k))]
         /\ runq' = [runq EXCEPT ![e] = @ \o Kids(k)]
         /\ queue' = [bind(queue, outbox(k), e) EXCEPT
                        ![cmds].q = Append(@, <<"join", k>>), ![cmds].waiter = None]
         /\ hand' = [hand EXCEPT ![e] = Taken(cmds)]
         /\ inbound' = inbound /\ running' = running /\ got' = got /\ join_waiter' = join_waiter
         /\ watcher' = watcher /\ send_locked' = send_locked /\ send_lock_waiters' = send_lock_waiters
         /\ timers' = timers /\ rr' = rr /\ chunks' = chunks /\ clients' = clients /\ it' = it
<1>1. /\ frames' = [d \in Coros |->
              CASE d \in Range(Kids(k)) -> Starting("child", k)
                [] d = session(k) -> Starting("recv", k)
                [] OTHER -> frames[d]]
      /\ active' = [active EXCEPT ![k] = Len(Kids(k))]
      /\ runq' = [runq EXCEPT ![e] = @ \o Kids(k)]
      /\ queue' = [bind(queue, outbox(k), e) EXCEPT
                        ![cmds].q = Append(@, <<"join", k>>), ![cmds].waiter = None]
      /\ hand' = [hand EXCEPT ![e] = Taken(cmds)]
  BY DEF chatSession, Kids, Starting
<1> HIDE DEF Kids, Starting
<1>2. /\ \A d \in Coros : frames'[d] = CASE d \in Range(Kids(k)) -> Starting("child", k)
                                            [] d = session(k) -> Starting("recv", k)
                                            [] OTHER -> frames[d]
      /\ frames' = [d \in Coros |-> frames'[d]]
  BY ONLY <1>1
<1>3. /\ inbound' = inbound /\ running' = running /\ got' = got /\ join_waiter' = join_waiter
      /\ watcher' = watcher /\ send_locked' = send_locked /\ send_lock_waiters' = send_lock_waiters
      /\ timers' = timers /\ rr' = rr /\ chunks' = chunks /\ clients' = clients /\ it' = it
  BY DEF chatSession, tcpVars, streamVars, roomVars
<1> QED
  BY ONLY <1>1, <1>2, <1>3

\* The frames after it.
LEMMA chatSessionFrames ==
  ASSUME IInv, NEW k \in Clients, frames' = [d \in Coros |-> frames'[d]],
         \A d \in Coros : frames'[d] = CASE d \in Range(Kids(k)) -> Starting("child", k)
                                         [] d = session(k) -> Starting("recv", k)
                                         [] OTHER -> frames[d]
  PROVE  /\ frames' \in [Coros -> Stack]
         /\ frames'[session(k)] = Starting("recv", k) /\ frames'[writer(k)] = Starting("child", k)
         /\ frames'[helper(k)] = IF k \in Helpers THEN Starting("child", k) ELSE frames[helper(k)]
         /\ \A d \in Range(Kids(k)) : d \in Coros /\ frames'[d] = Starting("child", k) /\ d \in {writer(k), helper(k)}
         /\ \A d \in Coros : d # session(k) /\ d \notin Range(Kids(k)) => frames'[d] = frames[d]
<1> DEFINE R == Range(Kids(k))
           a == Starting("child", k)
           b == Starting("recv", k)
<1>1. /\ writer(k) \in R /\ R \subseteq {writer(k), helper(k)} /\ (helper(k) \in R <=> k \in Helpers)
  BY KidsFacts, CoroNames
<1>2. /\ session(k) \in Coros /\ writer(k) \in Coros /\ helper(k) \in Coros
      /\ session(k) # writer(k) /\ session(k) # helper(k)
  BY CoroNames
<1>3. a \in Stack /\ b \in Stack /\ frames \in [Coros -> Stack]
  BY ChildFrames DEF IInv, Typed
<1>4. /\ \A d \in Coros : frames'[d] = CASE d \in R -> a [] d = session(k) -> b [] OTHER -> frames[d]
      /\ frames' = [d \in Coros |-> frames'[d]]
  OBVIOUS
<1> HIDE DEF R, a, b
<1>5. \A d \in Coros : /\ d \in R => frames'[d] = a
                       /\ d \notin R /\ d = session(k) => frames'[d] = b
                       /\ d \notin R /\ d # session(k) => frames'[d] = frames[d]
  <2> TAKE d \in Coros
  <2>1. frames'[d] = CASE d \in R -> a [] d = session(k) -> b [] OTHER -> frames[d]
    BY ONLY <1>4, d \in Coros
  <2>2. CASE d \in R
    <3>1. session(k) \notin R
      BY ONLY <1>1, <1>2
    <3>2. d # session(k)
      BY ONLY <2>2, <3>1
    <3> QED
      BY ONLY <2>1, <2>2, <3>2
  <2>3. CASE d \notin R /\ d = session(k)
    BY ONLY <2>1, <2>3
  <2>4. CASE d \notin R /\ d # session(k)
    BY ONLY <2>1, <2>4
  <2> QED
    BY ONLY <2>2, <2>3, <2>4
<1>6. frames' \in [Coros -> Stack]
  BY ONLY <1>3, <1>4, <1>5
<1>7. session(k) \notin R
  BY ONLY <1>1, <1>2
<1>8. frames'[helper(k)] = IF k \in Helpers THEN a ELSE frames[helper(k)]
  BY ONLY <1>1, <1>2, <1>5
<1>9. \A d \in R : d \in Coros /\ frames'[d] = a /\ d \in {writer(k), helper(k)}
  BY ONLY <1>1, <1>2, <1>5
<1>10. /\ frames'[session(k)] = b /\ frames'[writer(k)] = a
       /\ \A d \in Coros : d # session(k) /\ d \notin R => frames'[d] = frames[d]
  BY ONLY <1>1, <1>2, <1>5, <1>7
<1> QED
  BY ONLY <1>6, <1>8, <1>9, <1>10 DEF R, a, b

\* The queues after it.
Announced(e, k) ==
  /\ queue' = [bind(queue, outbox(k), e) EXCEPT ![cmds].q = Append(@, <<"join", k>>), ![cmds].waiter = None]
  /\ hand' = [hand EXCEPT ![e] = Taken(cmds)]

\* the queues it pushes to and binds;
LEMMA chatSessionQueues ==
  ASSUME IInv, NEW e \in Execs, NEW k \in Clients, hand[e] = None, Announced(e, k)
  PROVE  /\ HandsOver(e, cmds) /\ queue' \in [Queues -> QueueSet]
         /\ queue'[cmds].q = Append(queue[cmds].q, <<"join", k>>)
         /\ \A q \in Queues : q # cmds => queue'[q].q = queue[q].q
         /\ \A q \in Queues : queue'[q].closed = queue[q].closed
         /\ queue'[outbox(k)].exec = e
         /\ \A q \in Queues : q # outbox(k) => queue'[q].exec = queue[q].exec
<1> DEFINE v == <<"join", k>>
           o == outbox(k)
           w == [queue[o] EXCEPT !.exec = e]
           u == [queue[cmds] EXCEPT !.q = Append(@, v), !.waiter = None]
<1>1. queue \in [Queues -> QueueSet] /\ queue[cmds].q \in Seq(Commands)
  BY DEF IInv, Typed, QueueSet
<1>2. o \in Queues /\ cmds \in Queues /\ o # cmds
  BY QueueNames
<1>3. v \in Commands /\ v \in Values
  BY DEF Commands, Values
<1>4. w \in QueueSet /\ w.q = queue[o].q /\ w.closed = queue[o].closed /\ w.waiter = queue[o].waiter /\ w.exec = e
  BY ONLY <1>1, <1>2, e \in Execs DEF QueueSet
<1>5. /\ u.q = Append(queue[cmds].q, v) /\ u.closed = queue[cmds].closed /\ u.waiter = None
      /\ u.exec = queue[cmds].exec /\ u \in QueueSet
  <2>1. queue[cmds] \in QueueSet
    BY ONLY <1>1, <1>2
  <2> HIDE DEF v
  <2>2. Append(queue[cmds].q, v) \in Seq(Values)
    BY ONLY <1>3, <2>1 DEF QueueSet
  <2> QED
    BY ONLY <2>1, <2>2 DEF QueueSet
<1>6. queue' = [queue EXCEPT ![o] = w, ![cmds] = u]
  <2>1. queue' = [[queue EXCEPT ![o].exec = e] EXCEPT ![cmds].q = Append(@, v), ![cmds].waiter = None]
    BY DEF Announced, bind
  <2> HIDE DEF v, o
  <2>2. [queue EXCEPT ![o].exec = e] = [queue EXCEPT ![o] = w]
    BY ONLY <1>1, <1>2
  <2> DEFINE q1 == [queue EXCEPT ![o] = w]
  <2>3. q1[cmds] = queue[cmds] /\ q1 \in [Queues -> QueueSet]
    BY ONLY <1>1, <1>2, <1>4
  <2>4. queue' = [q1 EXCEPT ![cmds].q = Append(@, v), ![cmds].waiter = None]
    BY ONLY <2>1, <2>2
  <2> HIDE DEF q1
  <2>5. queue' = [q1 EXCEPT ![cmds] = u]
    BY ONLY <1>2, <2>3, <2>4 DEF QueueSet
  <2> QED
    BY ONLY <1>1, <1>2, <2>5 DEF q1
<1> HIDE DEF o, w, u, v
<1>7. /\ queue' \in [Queues -> QueueSet] /\ queue'[o] = w /\ queue'[cmds] = u
      /\ \A q \in Queues : q # o /\ q # cmds => queue'[q] = queue[q]
  BY ONLY <1>1, <1>2, <1>4, <1>5, <1>6
<1>8. HandsOver(e, cmds)
  <2> DEFINE b == FALSE
  <2>1. /\ \A r \in Queues : r # cmds => queue'[r].waiter = queue[r].waiter
        /\ ~ b => queue'[cmds].waiter = None
        /\ b => queue'[cmds].waiter = queue[cmds].waiter
        /\ b \in BOOLEAN
    BY ONLY <1>4, <1>5, <1>7
  <2>2. hand' = [hand EXCEPT ![e] = IF b THEN None ELSE Taken(cmds)]
    BY DEF Announced
  <2> HIDE DEF b
  <2>3. IInv /\ e \in Execs /\ hand[e] = None
    OBVIOUS
  <2> QED
    BY ONLY <1>2, <2>1, <2>2, <2>3, HandsOverIs
<1>9. /\ queue'[cmds].q = Append(queue[cmds].q, v)
      /\ \A q \in Queues : q # cmds => queue'[q].q = queue[q].q
      /\ \A q \in Queues : queue'[q].closed = queue[q].closed
      /\ queue'[o].exec = e
      /\ \A q \in Queues : q # o => queue'[q].exec = queue[q].exec
  BY ONLY <1>2, <1>4, <1>5, <1>7
<1> QED
  BY ONLY <1>7, <1>8, <1>9 DEF o, v

\* The children have their places and their frames.
LEMMA chatSessionPlaces ==
  ASSUME IInv, Typed', NEW e \in Execs, NEW k \in Clients, HandsOver(e, cmds), Posts(e, Kids(k)),
         inbound' = inbound, running' = running, join_waiter' = join_waiter, timers' = timers,
         send_lock_waiters' = send_lock_waiters,
         frames[session(k)] # <<>>, frames[writer(k)] = <<>>, frames[helper(k)] = <<>>,
         frames'[session(k)] # <<>>, frames'[writer(k)] # <<>>, frames'[helper(k)] # <<>> <=> k \in Helpers,
         \A d \in Coros : d # session(k) /\ d \notin Range(Kids(k)) => frames'[d] = frames[d],
         NEW d \in Coros
  PROVE  /\ Places(d) \in Nat
         /\ Places(d)' = Places(d) + One(frames'[d] # <<>>) - One(frames[d] # <<>>)
<1>1. Queued /\ Queued'
  BY DEF IInv, Typed, Queued
<1> DEFINE s == Kids(k)
<1>2. /\ RunqN(d)' = RunqN(d) + Occurs(s, d) /\ Occurs(s, d) \in Nat
  BY PostsFacts
<1>3. HandN(d)' + WaitN(d)' = HandN(d) + WaitN(d)
  BY HandsOverFacts
<1>4. RunN(d)' = RunN(d) /\ JoinN(d)' = JoinN(d) /\ TimeN(d)' = TimeN(d) /\ InbN(d)' = InbN(d) /\ LockN(d)' = LockN(d)
  BY PartsSame
<1> DEFINE o == One(frames'[d] # <<>>)
           n == One(frames[d] # <<>>)
<1>5. o \in Nat /\ n \in Nat /\ o - n = Occurs(s, d)
  <2>1. /\ session(k) # writer(k) /\ session(k) # helper(k) /\ writer(k) # helper(k)
    BY CoroNames
  <2>2. /\ k \in Helpers => Occurs(s, d) = One(writer(k) = d) + One(helper(k) = d)
        /\ k \notin Helpers => Occurs(s, d) = One(writer(k) = d)
        /\ k \in Helpers => Range(s) = {writer(k), helper(k)}
        /\ k \notin Helpers => Range(s) = {writer(k)}
    BY KidsFacts
  <2>3. o \in Nat /\ n \in Nat
    BY DEF One
  <2>4. CASE d = writer(k)
    <3>1. o = 1 /\ n = 0 /\ One(writer(k) = d) = 1 /\ One(helper(k) = d) = 0
      BY <2>1, <2>4 DEF One
    <3> QED
      BY ONLY <2>2, <2>3, <3>1
  <2>5. CASE d = helper(k)
    <3>1. n = 0 /\ One(writer(k) = d) = 0 /\ One(helper(k) = d) = 1
      BY <2>1, <2>5 DEF One
    <3>2. o = One(k \in Helpers)
      BY <2>5 DEF One
    <3>3. k \in Helpers => o = 1
      BY <3>2 DEF One
    <3>4. k \notin Helpers => o = 0
      BY <3>2 DEF One
    <3> QED
      BY ONLY <2>2, <2>3, <3>1, <3>3, <3>4
  <2>6. CASE d # writer(k) /\ d # helper(k)
    <3>1. One(writer(k) = d) = 0 /\ One(helper(k) = d) = 0
      BY <2>6 DEF One
    <3>2. frames'[d] # <<>> <=> frames[d] # <<>>
      BY <2>2, <2>6
    <3>3. o = n
      BY <3>2 DEF One
    <3> QED
      BY ONLY <2>2, <2>3, <3>1, <3>3
  <2> QED
    BY <2>4, <2>5, <2>6
<1> HIDE DEF s, o, n
<1>6. Places(d) \in Nat /\ Places(d)' = Places(d) + o - n
  <2>1. /\ Numbers(d) /\ Numbers(d)'
        /\ Places(d) = RunN(d) + HandN(d) + WaitN(d) + JoinN(d) + TimeN(d) + RunqN(d) + InbN(d) + LockN(d)
        /\ Places(d)' = RunN(d)' + HandN(d)' + WaitN(d)' + JoinN(d)' + TimeN(d)' + RunqN(d)' + InbN(d)' + LockN(d)'
    BY <1>1, PlacesAll
  <2> QED
    BY ONLY <1>2, <1>3, <1>4, <1>5, <2>1 DEF Numbers
<1> QED
  BY <1>6 DEF o, n

\* and that it keeps the invariant.
LEMMA chatSessionKeeps ==
  ASSUME IInv, NEW e \in Execs, NEW c, c # None, chatSession(e, c)
  PROVE  IInv'
<1>1. PICK k \in Clients :
           /\ c = session(k) /\ Inner(c).on = k /\ running[e] = c /\ hand[e] = None /\ frames[c] # <<>>
           /\ watcher[k] # "none" /\ active[k] = 0
           /\ frames[writer(k)] = <<>> /\ frames[helper(k)] = <<>>
  BY chatSessionFacts
<1>2. /\ \A d \in Coros : frames'[d] = CASE d \in Range(Kids(k)) -> Starting("child", k)
                                            [] d = session(k) -> Starting("recv", k)
                                            [] OTHER -> frames[d]
      /\ frames' = [d \in Coros |-> frames'[d]]
      /\ active' = [active EXCEPT ![k] = Len(Kids(k))]
      /\ runq' = [runq EXCEPT ![e] = @ \o Kids(k)]
      /\ queue' = [bind(queue, outbox(k), e) EXCEPT
                        ![cmds].q = Append(@, <<"join", k>>), ![cmds].waiter = None]
      /\ hand' = [hand EXCEPT ![e] = Taken(cmds)]
      /\ inbound' = inbound /\ running' = running /\ got' = got /\ join_waiter' = join_waiter
      /\ watcher' = watcher /\ send_locked' = send_locked /\ send_lock_waiters' = send_lock_waiters
      /\ timers' = timers /\ rr' = rr /\ chunks' = chunks /\ clients' = clients /\ it' = it
  BY <1>1, chatSessionDoes
<1>3. /\ inbound' = inbound /\ running' = running /\ got' = got /\ join_waiter' = join_waiter
      /\ watcher' = watcher /\ send_locked' = send_locked /\ send_lock_waiters' = send_lock_waiters
      /\ timers' = timers /\ rr' = rr /\ chunks' = chunks /\ clients' = clients /\ it' = it
  BY <1>2
<1>4. /\ frames' \in [Coros -> Stack]
      /\ frames'[session(k)] = Starting("recv", k) /\ frames'[writer(k)] = Starting("child", k)
      /\ frames'[helper(k)] = IF k \in Helpers THEN Starting("child", k) ELSE frames[helper(k)]
      /\ \A d \in Range(Kids(k)) : d \in Coros /\ frames'[d] = Starting("child", k) /\ d \in {writer(k), helper(k)}
      /\ \A d \in Coros : d # session(k) /\ d \notin Range(Kids(k)) => frames'[d] = frames[d]
  BY <1>2, chatSessionFrames
<1>5. /\ HandsOver(e, cmds) /\ queue' \in [Queues -> QueueSet]
      /\ queue'[cmds].q = Append(queue[cmds].q, <<"join", k>>)
      /\ \A q \in Queues : q # cmds => queue'[q].q = queue[q].q
      /\ \A q \in Queues : queue'[q].closed = queue[q].closed
      /\ queue'[outbox(k)].exec = e
      /\ \A q \in Queues : q # outbox(k) => queue'[q].exec = queue[q].exec
  <2>1. Announced(e, k)
    BY <1>2 DEF Announced
  <2>2. IInv /\ e \in Execs /\ hand[e] = None /\ k \in Clients
    BY <1>1
  <2> QED
    BY ONLY <2>1, <2>2, chatSessionQueues
<1>6. /\ Kids(k) \in Seq(Coros) /\ Len(Kids(k)) = IF k \in Helpers THEN 2 ELSE 1
  BY KidsFacts
<1>7. Posts(e, Kids(k))
  <2>1. runq \in [Execs -> Seq(Tasks)]
    BY DEF IInv, Typed
  <2> QED
    BY <1>2, <1>6, <2>1, PostsSome
<1>8. runq' \in [Execs -> Seq(Tasks)]
  BY <1>7 DEF Posts, Changed
<1>9. queue[cmds].q \in Seq(Commands) /\ <<"join", k>> \in Commands /\ queue'[cmds].q \in Seq(Commands)
  <2>1. queue[cmds].q \in Seq(Commands)
    BY DEF IInv, Typed
  <2> DEFINE v == <<"join", k>>
  <2>2. v \in Commands
    BY DEF Commands
  <2>3. queue'[cmds].q = Append(queue[cmds].q, v)
    BY <1>5
  <2> HIDE DEF v
  <2>4. queue'[cmds].q \in Seq(Commands)
    BY ONLY <2>1, <2>2, <2>3
  <2> QED
    BY <2>1, <2>2, <2>4 DEF v
<1>10. Typed'
  <2>1. hand' \in [Execs -> (Coros \X Execs) \cup {None}]
    BY <1>5 DEF HandsOver, Hands
  <2>2. queue' \in [Queues -> [q : Seq(Values), closed : BOOLEAN, exec : Execs \cup {NoExec},
                           waiter : Coros \cup {None}]]
    BY <1>5 DEF QueueSet
  <2>3. queue'[accepted].q = queue[accepted].q
    BY <1>5, QueueNames
  <2>4. active' \in [Clients -> Nat]
    <3>1. active \in [Clients -> Nat] /\ Len(Kids(k)) \in Nat
      BY <1>6 DEF IInv, Typed
    <3> QED
      BY <1>2, <3>1
  <2>5. Typed
    BY DEF IInv
  <2> QED
    BY ONLY <1>3, <1>4, <1>8, <1>9, <2>1, <2>2, <2>3, <2>4, <2>5 DEF Typed
<1>11. /\ frames'[session(k)] # <<>> /\ Head(frames'[session(k)]).at = "recv" /\ frames'[writer(k)] # <<>>
       /\ frames'[helper(k)] # <<>> <=> k \in Helpers
  BY <1>1, <1>4, ChildFrames DEF Quiet
<1>12. /\ frames'[Main] = frames[Main] /\ frames'[Room] = frames[Room]
       /\ \A j \in Clients \ {k} : /\ frames'[writer(j)] = frames[writer(j)] /\ frames'[helper(j)] = frames[helper(j)]
                                   /\ frames'[session(j)] = frames[session(j)]
  <2>1. \A d \in Coros : d \notin {session(k), writer(k), helper(k)} => frames'[d] = frames[d]
    BY <1>4
  <2> QED
    BY <2>1, CoroNames
<1>13. \A d \in Coros : /\ Places(d) \in Nat
                        /\ Places(d)' = Places(d) + One(frames'[d] # <<>>) - One(frames[d] # <<>>)
  <2>1. frames[session(k)] # <<>>
    BY <1>1
  <2> QED
    BY <1>1, <1>3, <1>4, <1>5, <1>7, <1>10, <1>11, <2>1, chatSessionPlaces
<1>14. Bound'
  <2>1. Bound
    BY DEF IInv
  <2>2. \A q \in Queues : queue[q].exec # NoExec => queue'[q].exec # NoExec
    BY <1>5, TcpAssumption
  <2>3. queue'[outbox(k)].exec # NoExec
    BY <1>5, TcpAssumption
  <2>4. \A j \in Clients : frames'[writer(j)] # <<>> => queue'[outbox(j)].exec # NoExec
    <3> TAKE j \in Clients
    <3>1. CASE j = k
      BY <2>3, <3>1
    <3>2. CASE j # k
      BY <1>12, <2>1, <2>2, <3>2, QueueNames DEF Bound
    <3> QED
      BY <3>1, <3>2
  <2> QED
    BY <1>3, <1>12, <2>1, <2>2, <2>4, QueueNames DEF Bound
<1>15. Children'
  <2>1. Children
    BY DEF IInv
  <2>2. HeadIs(Main, Frame("main", 0))' => frames'[Room] = <<>>
    BY <1>12, <2>1 DEF Children, HeadIs, Main
  <2>3. \A j \in Clients \ {k} : active'[j] = active[j]
    BY <1>2 DEF IInv, Typed
  <2>4. active'[k] = Len(Kids(k))
    BY <1>2 DEF IInv, Typed
  <2>5. \A j \in Clients \ {k} : Childless(j)' => Childless(j)
    BY <1>3, <1>12 DEF Childless, HeadIs, session
  <2>6. ~ Childless(k)'
    <3>1. /\ Frame("session", k).at = "session" /\ Frame("session end", k).at = "session end"
          /\ Frame("joined", k).at = "joined"
      BY FrameFacts
    <3> QED
      BY <1>11, <3>1 DEF Childless, HeadIs, session
  <2>7. active'[k] = One(frames'[writer(k)] # <<>>) + One(frames'[helper(k)] # <<>>)
    <3>1. One(frames'[writer(k)] # <<>>) = 1
      BY <1>11 DEF One
    <3>2. k \in Helpers => One(frames'[helper(k)] # <<>>) = 1
      BY <1>11 DEF One
    <3>3. k \notin Helpers => One(frames'[helper(k)] # <<>>) = 0
      BY <1>11 DEF One
    <3> QED
      BY ONLY <1>6, <2>4, <3>1, <3>2, <3>3
  <2>8. ASSUME NEW j \in Clients
        PROVE  /\ active'[j] = One(frames'[writer(j)] # <<>>) + One(frames'[helper(j)] # <<>>)
               /\ watcher'[j] = "none" => frames'[session(j)] = <<>>
               /\ Childless(j)' => active'[j] = 0
    <3>1. CASE j = k
      BY <1>1, <1>3, <2>6, <2>7, <3>1
    <3>2. CASE j # k
      BY <1>3, <1>12, <2>1, <2>3, <2>5, <3>2 DEF Children
    <3> QED
      BY <3>1, <3>2
  <2> QED
    BY <2>2, <2>8 DEF Children
<1>16. Queued /\ Queued' /\ TokensStay
  BY <1>3, <1>7, <1>10, TokensPosts DEF IInv, Typed, Queued
<1>17. Ticketed'
  <2>1. queue'[accepted].q = queue[accepted].q /\ queue[accepted].q \in Seq(Streams) /\ got'[Main] = got[Main]
    BY <1>3, <1>5, QueueNames DEF IInv, Typed
  <2>2. \A j \in Clients : Tickets(j)' = Tickets(j)
    BY ONLY <1>16, <2>1, TicketsSame
  <2>3. Ticketed
    BY DEF IInv
  <2> QED
    BY <1>3, <2>2, <2>3, TicketedStays
<1>18. \A t : Among(queue'[cmds].q, t) <=> Among(queue[cmds].q, t) \/ t = <<"join", k>>
  <2> DEFINE v == <<"join", k>>
  <2> HIDE DEF v
  <2>1. queue'[cmds].q = Append(queue[cmds].q, v) /\ queue[cmds].q \in Seq(Commands) /\ v \in Commands
    BY <1>5, <1>9 DEF v
  <2>2. ASSUME NEW t PROVE Among(Append(queue[cmds].q, v), t) <=> Among(queue[cmds].q, t) \/ t = v
    <3>1. Append(queue[cmds].q, v) = queue[cmds].q \o <<v>> /\ <<v>> \in Seq(Commands)
      BY <2>1, AppendIsConcat
    <3>2. Among(<<v>>, t) <=> t = v
      BY DEF Among
    <3>3. Among(queue[cmds].q \o <<v>>, t) <=> Among(queue[cmds].q, t) \/ Among(<<v>>, t)
      BY <2>1, <3>1, AmongCat
    <3> QED
      BY <3>1, <3>2, <3>3
  <2> QED
    BY <2>1, <2>2 DEF v
<1>19. Known'
  <2>1. Known
    BY DEF IInv
  <2>2. \A j \in Clients :
           \/ watcher'[j] # "none"
           \/ /\ watcher[j] = "none"
              /\ Among(queue'[cmds].q, <<"join", j>>) => Among(queue[cmds].q, <<"join", j>>)
              /\ got'[Room] = <<"join", j>> => got[Room] = <<"join", j>> \/ Among(queue[cmds].q, <<"join", j>>)
              /\ Among(clients', j) => Among(clients, j) \/ got[Room] = <<"join", j>>
    <3> TAKE j \in Clients
    <3>1. CASE j = k
      BY <1>1, <1>3, <3>1
    <3>2. CASE j # k
      <4>1. <<"join", j>> # <<"join", k>>
        BY <3>2
      <4> QED
        BY <1>3, <1>18, <4>1
    <3> QED
      BY <3>1, <3>2
  <2> QED
    BY <1>16, <2>1, <2>2, KnownStays
<1>20. RoomOK'
  <2>1. queue'[cmds].q # <<>>
    <3> DEFINE v == <<"join", k>>
    <3> HIDE DEF v
    <3>1. queue'[cmds].q = Append(queue[cmds].q, v) /\ queue[cmds].q \in Seq(Commands) /\ v \in Commands
      BY <1>5, <1>9 DEF v
    <3> QED
      BY ONLY <3>1
  <2>2. RoomOK /\ queue'[cmds].closed = queue[cmds].closed
    BY <1>5, QueueNames DEF IInv
  <2> QED
    BY <1>3, <1>12, <2>1, <2>2, RoomStays
<1>21. DroppedStreamIsClosed'
  <2>1. Typed /\ Bound /\ DroppedStreamIsClosed
    BY DEF IInv
  <2>2. \A j \in Clients, x \in Execs :
           Among(runq[x], <<"cleanup", j>>) \/ Among(inbound[x], <<"cleanup", j>>)
             => Among(runq'[x], <<"cleanup", j>>) \/ Among(inbound'[x], <<"cleanup", j>>) \/ watcher'[j] # "open"
    BY <1>3, <1>7, PostsFacts
  <2>3. \A j \in Clients : exec(j)' = exec(j)
    <3> TAKE j \in Clients
    <3>1. recv_q(j) \in Queues /\ recv_q(j) # outbox(k)
      BY QueueNames
    <3>2. queue'[recv_q(j)].exec = queue[recv_q(j)].exec
      BY ONLY <1>5, <3>1
    <3> QED
      BY <3>2 DEF exec, recv_q
  <2>4. ASSUME NEW j \in Clients, j \in Alive PROVE j \in Alive'
    <3>1. frames[session(j)] # <<>> => frames'[session(j)] # <<>>
      BY <1>11, <1>12
    <3>2. frames'[Room] = frames[Room] /\ got'[Room] = got[Room] /\ it' = it /\ clients' = clients
      BY <1>3, <1>12
    <3>3. Among(queue[cmds].q, <<"join", j>>) => Among(queue'[cmds].q, <<"join", j>>)
      BY <1>18
    <3> QED
      BY <1>9, <2>4, <3>1, <3>2, <3>3, AliveStays
  <2>5. \A j \in Clients : watcher'[j] = "open" =>
           \/ watcher[j] = "open" /\ exec(j)' = exec(j) /\ (j \in Alive => j \in Alive')
           \/ j \in Alive'
    BY <1>3, <2>3, <2>4
  <2> QED
    BY ONLY <2>1, <2>2, <2>5, DroppedStays
<1> DEFINE D == {session(k)} \cup Range(Kids(k))
<1>22. D \in SUBSET Coros /\ \A d \in Coros : d \notin D => frames'[d] = frames[d]
  BY <1>4, CoroNames
<1>23. \A d \in D : NotWait(d) /\ NotJoin(d) /\ NotLock(d) /\ Quiet(frames'[d]) /\ StackOf(d, frames'[d])
  <2>1. NotWait(session(k)) /\ NotJoin(session(k)) /\ NotLock(session(k))
    BY <1>1, Alone DEF IInv
  <2>2. \A d \in {writer(k), helper(k)} : NotWait(d) /\ NotJoin(d) /\ NotLock(d)
    BY <1>1, NoFrames, CoroNames
  <2>3. Quiet(frames'[session(k)]) /\ StackOf(session(k), frames'[session(k)])
    BY <1>4, ChildFrames
  <2>4. \A d \in Range(Kids(k)) : d \in {writer(k), helper(k)} /\ Quiet(frames'[d]) /\ StackOf(d, frames'[d])
    BY <1>4, ChildFrames
  <2> QED
    BY <2>1, <2>2, <2>3, <2>4
<1>24. \A q \in Queues : /\ (queue'[q].waiter = None \/ queue'[q].waiter = queue[q].waiter)
                         /\ queue[q].exec # NoExec => queue'[q].exec # NoExec
  <2>1. \A q \in Queues : queue'[q].waiter = None \/ queue'[q].waiter = queue[q].waiter
    BY <1>5, HandsOverWaits
  <2>2. \A q \in Queues : queue[q].exec # NoExec => queue'[q].exec # NoExec
    BY <1>5, TcpAssumption
  <2> QED
    BY <2>1, <2>2
<1>25. IInv /\ join_waiter' = join_waiter /\ send_locked' = send_locked /\ send_lock_waiters' = send_lock_waiters
  BY <1>3
<1> HIDE DEF D
<1> QED
  BY ONLY <1>10, <1>13, <1>14, <1>15, <1>17, <1>19, <1>20, <1>21, <1>22, <1>23, <1>24, <1>25, Spawns

----------------------------------------------------------------------------
(* StartSession(). *)

\* The first private task of worker e is replaced by chain c, as its last.
Starts(e, t, c) ==
  /\ Changed(runq, runq', Execs, Tasks, e) /\ runq[e] # <<>> /\ Head(runq[e]) = t
  /\ runq'[e] = Append(Tail(runq[e]), c)

\* A task of the run queue is replaced by a chain at its end;
LEMMA StartsIs ==
  ASSUME IInv, NEW e \in Execs, runq[e] # <<>>, NEW c \in Coros,
         runq' = [runq EXCEPT ![e] = Append(Tail(@), c)]
  PROVE  Starts(e, Head(runq[e]), c)
<1>1. runq \in [Execs -> Seq(Tasks)] /\ IsFiniteSet(Execs) /\ c \in Tasks
  BY Finite, CorosAreTasks DEF IInv, Typed
<1> DEFINE u == Tail(runq[e])
<1>2. u \in Seq(Tasks)
  BY <1>1, OccursTail
<1> HIDE DEF u
<1>3. Append(u, c) \in Seq(Tasks)
  BY ONLY <1>1, <1>2
<1>4. runq' = [runq EXCEPT ![e] = Append(u, c)]
  BY DEF u
<1> DEFINE v == Append(u, c)
<1> HIDE DEF v
<1>5. runq' \in [Execs -> Seq(Tasks)] /\ runq'[e] = v /\ \A y \in Execs \ {e} : runq'[y] = runq[y]
  BY ONLY <1>1, <1>3, <1>4, e \in Execs DEF v
<1> QED
  BY <1>1, <1>5 DEF Starts, Changed, u, v

\* what that counts.
LEMMA StartsFacts ==
  ASSUME IInv, NEW e \in Execs, NEW t, NEW c \in Coros, Starts(e, t, c), NEW d
  PROVE  /\ RunqN(d)' = RunqN(d) - One(t = d) + One(c = d) /\ RunqN(d) \in Nat /\ RunqN(d)' \in Nat
         /\ t = d => RunqN(d) >= 1
         /\ t \in Tasks
         /\ \A x \in Execs : d # t /\ d # c => (Among(runq'[x], d) <=> Among(runq[x], d))
<1> DEFINE s == runq[e]
           u == Tail(s)
           v == runq'[e]
<1>1. s \in Seq(Tasks) /\ s # <<>> /\ Head(s) = t /\ v = Append(u, c) /\ c \in Tasks /\ v \in Seq(Tasks)
  BY CorosAreTasks DEF IInv, Typed, Starts, Changed
<1>2. Changed(runq, runq', Execs, Tasks, e)
  BY DEF Starts
<1> HIDE DEF s, u, v
<1>3. Occurs(u, d) = Occurs(s, d) - One(t = d) /\ u \in Seq(Tasks) /\ t \in Tasks
  BY ONLY <1>1, OccursTail DEF u
<1>4. Occurs(v, d) = Occurs(u, d) + One(c = d)
  BY ONLY <1>1, <1>3, OccursAppend
<1>5. /\ RunqN(d)' = RunqN(d) - Occurs(s, d) + Occurs(v, d)
      /\ RunqN(d) \in Nat /\ RunqN(d)' \in Nat /\ Occurs(s, d) <= RunqN(d) /\ Occurs(s, d) \in Nat /\ Occurs(v, d) \in Nat
  BY <1>2, InQueuesChange DEF RunqN, s, v
<1>6. One(t = d) \in Nat /\ One(c = d) \in Nat /\ (t = d => One(t = d) = 1)
  BY DEF One
<1>7. Occurs(u, d) \in Nat
  BY ONLY <1>3, OccursFacts
<1>8. RunqN(d)' = RunqN(d) - One(t = d) + One(c = d)
  BY ONLY <1>3, <1>4, <1>5, <1>6, <1>7
<1>9. t = d => RunqN(d) >= 1
  BY ONLY <1>3, <1>5, <1>6, <1>7
<1>10. ASSUME NEW x \in Execs, d # t, d # c PROVE Among(runq'[x], d) <=> Among(runq[x], d)
  <2>1. CASE x = e
    <3>1. One(t = d) = 0 /\ One(c = d) = 0
      BY <1>10 DEF One
    <3>2. Occurs(v, d) = Occurs(s, d)
      BY ONLY <1>3, <1>4, <1>5, <3>1
    <3>3. Among(v, d) <=> Among(s, d)
      <4>1. Occurs(v, d) >= 1 <=> Among(v, d)
        BY ONLY <1>1, OccursFacts
      <4>2. Occurs(s, d) >= 1 <=> Among(s, d)
        BY ONLY <1>1, OccursFacts
      <4> QED
        BY ONLY <3>2, <4>1, <4>2
    <3> QED
      BY <2>1, <3>3 DEF s, v
  <2>2. CASE x # e
    BY <1>2, <2>2 DEF Changed
  <2> QED
    BY <2>1, <2>2
<1> QED
  BY <1>3, <1>5, <1>8, <1>9, <1>10

\* A token at the head of the private tasks is not a chain.
LEMMA TokenHead ==
  ASSUME IInv, NEW e \in Execs, runq[e] # <<>>, NEW r \in {"start", "cleanup"}, Head(runq[e])[1] = r
  PROVE  \E k \in Clients : Head(runq[e]) = <<r, k>> /\ k = Head(runq[e])[2]
<1> DEFINE t == Head(runq[e])
<1>1. t \in Tasks
  <2>1. runq[e] \in Seq(Tasks) /\ runq[e] # <<>>
    BY DEF IInv, Typed
  <2> QED
    BY ONLY <2>1, OccursTail
<1>2. t[1] = r
  OBVIOUS
<1> HIDE DEF t
<1>3. t \notin Coros
  BY <1>2, NotCoros
<1> QED
  BY <1>1, <1>2, <1>3 DEF Tasks, t

\* Who starts has a ticket, and there is nothing of it yet.
LEMMA StartFacts ==
  ASSUME IInv, NEW e \in Execs, StartSession(e)
  PROVE  \E k \in Clients :
           /\ Head(runq[e]) = <<"start", k>> /\ k = Head(runq[e])[2]
           /\ Starts(e, <<"start", k>>, session(k))
           /\ watcher[k] = "none" /\ chunks[k] # -1 /\ frames[session(k)] = <<>> /\ active[k] = 0
           /\ Tickets(k) <= 1 /\ RunqN(<<"start", k>>) >= 1
<1>1. runq[e] # <<>> /\ Head(runq[e])[1] = "start"
  BY DEF StartSession
<1>2. PICK k \in Clients : Head(runq[e]) = <<"start", k>> /\ k = Head(runq[e])[2]
  <2> DEFINE r == "start"
  <2>1. r \in {"start", "cleanup"} /\ Head(runq[e])[1] = r
    BY <1>1
  <2> HIDE DEF r
  <2>2. \E k \in Clients : Head(runq[e]) = <<r, k>> /\ k = Head(runq[e])[2]
    BY <1>1, <2>1, TokenHead
  <2> QED
    BY <2>2 DEF r
<1> DEFINE t == <<"start", k>>
<1>3. Starts(e, t, session(k))
  <2>1. runq' = [runq EXCEPT ![e] = Append(Tail(@), session(k))]
    BY <1>2 DEF StartSession
  <2>2. session(k) \in Coros /\ Head(runq[e]) = t
    BY <1>2, CoroNames
  <2> HIDE DEF t, session
  <2>3. Starts(e, Head(runq[e]), session(k))
    BY <1>1, <2>1, <2>2, StartsIs
  <2> QED
    BY <2>2, <2>3
<1>4. RunqN(t) >= 1 /\ RunqN(t) \in Nat
  <2>1. session(k) \in Coros
    BY CoroNames
  <2> HIDE DEF t
  <2> QED
    BY <1>3, <2>1, StartsFacts
<1>5. Tickets(k) >= 1
  <2>1. Queued
    BY DEF IInv, Typed, Queued
  <2>2. Tickets(k) = Occurs(queue[accepted].q, <<"stream", k>>) + One(got[Main] = <<"stream", k>>)
                           + RunqN(t) + InbN(t)
    BY TicketsParts
  <2>3. Occurs(queue[accepted].q, <<"stream", k>>) \in Nat
    BY OccursFacts DEF IInv, Typed
  <2>4. One(got[Main] = <<"stream", k>>) \in Nat
    BY DEF One
  <2>5. InbN(t) \in Nat
    BY InbSome DEF IInv, Typed
  <2> HIDE DEF t
  <2> QED
    BY ONLY <1>4, <2>2, <2>3, <2>4, <2>5
<1>6. watcher[k] = "none" /\ Tickets(k) <= 1 /\ chunks[k] # -1
  <2>1. Ticketed
    BY DEF IInv
  <2> QED
    BY <1>5, <2>1 DEF Ticketed
<1>7. frames[session(k)] = <<>> /\ active[k] = 0
  <2>1. Children
    BY DEF IInv
  <2> QED
    BY <1>6, <2>1 DEF Children, Childless
<1> QED
  BY <1>2, <1>3, <1>4, <1>6, <1>7

\* The queues after StartSession().
LEMMA StartQueues ==
  ASSUME IInv, NEW e \in Execs, NEW k \in Clients
  PROVE  queue' = bind(bind(queue, recv_q(k), e), send_ready_q(k), e) =>
           /\ queue' \in [Queues -> QueueSet]
           /\ \A q \in Queues : /\ queue'[q].q = queue[q].q /\ queue'[q].closed = queue[q].closed
                                /\ queue'[q].waiter = queue[q].waiter
           /\ queue'[recv_q(k)].exec = e /\ queue'[send_ready_q(k)].exec = e
           /\ \A q \in Queues \ {recv_q(k), send_ready_q(k)} : queue'[q].exec = queue[q].exec
<1> SUFFICES ASSUME queue' = bind(bind(queue, recv_q(k), e), send_ready_q(k), e)
             PROVE  /\ queue' \in [Queues -> QueueSet]
                    /\ \A q \in Queues : /\ queue'[q].q = queue[q].q /\ queue'[q].closed = queue[q].closed
                                         /\ queue'[q].waiter = queue[q].waiter
                    /\ queue'[recv_q(k)].exec = e /\ queue'[send_ready_q(k)].exec = e
                    /\ \A q \in Queues \ {recv_q(k), send_ready_q(k)} : queue'[q].exec = queue[q].exec
  OBVIOUS
<1> DEFINE a == recv_q(k)
           b == send_ready_q(k)
           u == [queue[a] EXCEPT !.exec = e]
           v == [queue[b] EXCEPT !.exec = e]
<1>1. a \in Queues /\ b \in Queues /\ a # b
  BY QueueNames
<1>2. queue \in [Queues -> QueueSet] /\ e \in Execs
  BY DEF IInv, Typed, QueueSet
<1>3. queue' = [[queue EXCEPT ![a].exec = e] EXCEPT ![b].exec = e]
  BY DEF bind
<1> HIDE DEF a, b
<1>4. /\ u \in QueueSet /\ u.exec = e /\ u.q = queue[a].q /\ u.closed = queue[a].closed /\ u.waiter = queue[a].waiter
      /\ v \in QueueSet /\ v.exec = e /\ v.q = queue[b].q /\ v.closed = queue[b].closed /\ v.waiter = queue[b].waiter
  BY ONLY <1>1, <1>2 DEF QueueSet
<1>5. queue' = [queue EXCEPT ![a] = u, ![b] = v]
  BY ONLY <1>1, <1>2, <1>3
<1> HIDE DEF u, v
<1>6. /\ queue' \in [Queues -> QueueSet] /\ queue'[a] = u /\ queue'[b] = v
      /\ \A q \in Queues : q # a /\ q # b => queue'[q] = queue[q]
  BY ONLY <1>1, <1>2, <1>4, <1>5
<1>7. \A q \in Queues : /\ queue'[q].q = queue[q].q /\ queue'[q].closed = queue[q].closed
                        /\ queue'[q].waiter = queue[q].waiter
  BY ONLY <1>4, <1>6
<1>8. /\ queue'[a].exec = e /\ queue'[b].exec = e
      /\ \A q \in Queues \ {a, b} : queue'[q].exec = queue[q].exec
  BY ONLY <1>4, <1>6
<1> QED
  BY ONLY <1>6, <1>7, <1>8 DEF a, b

\* What is not a start of this client is where it was.
LEMMA StartsTokens ==
  ASSUME IInv, NEW e \in Execs, NEW k \in Clients, Starts(e, <<"start", k>>, session(k)), inbound' = inbound
  PROVE  /\ \A j \in Clients, x \in Execs : Cleaning(x, j)' <=> Cleaning(x, j)
         /\ \A j \in Clients : RunqN(<<"start", j>>)' = RunqN(<<"start", j>>) - One(j = k)
         /\ \A d \in Coros : RunqN(d)' = RunqN(d) + One(session(k) = d)
         /\ \A d : RunqN(d) \in Nat /\ RunqN(d)' \in Nat
<1> DEFINE t == <<"start", k>>
           c == session(k)
<1>1. c \in Coros /\ t \notin Coros /\ Starts(e, t, c)
  BY CoroNames, NotCoros
<1>2. \A j \in Clients : <<"cleanup", j>> # t /\ <<"cleanup", j>> \notin Coros /\ <<"start", j>> \notin Coros
                         /\ (t = <<"start", j>> <=> j = k)
  BY NotCoros
<1> HIDE DEF t, c
<1>3. \A d : /\ RunqN(d)' = RunqN(d) - One(t = d) + One(c = d) /\ RunqN(d) \in Nat /\ RunqN(d)' \in Nat
             /\ \A x \in Execs : d # t /\ d # c => (Among(runq'[x], d) <=> Among(runq[x], d))
  BY <1>1, StartsFacts
<1>4. \A j \in Clients, x \in Execs : Cleaning(x, j)' <=> Cleaning(x, j)
  BY <1>1, <1>2, <1>3 DEF Cleaning
<1>5. \A j \in Clients : RunqN(<<"start", j>>)' = RunqN(<<"start", j>>) - One(j = k)
  <2> TAKE j \in Clients
  <2> DEFINE d == <<"start", j>>
  <2>1. One(t = d) = One(j = k) /\ One(c = d) = 0
    BY <1>1, <1>2 DEF One
  <2>2. One(j = k) \in Nat
    BY DEF One
  <2> HIDE DEF d
  <2>3. RunqN(d)' = RunqN(d) - One(t = d) + One(c = d) /\ RunqN(d) \in Nat
    BY <1>3
  <2>4. RunqN(d)' = RunqN(d) - One(j = k)
    BY ONLY <2>1, <2>2, <2>3
  <2> QED
    BY <2>4 DEF d
<1>6. \A d \in Coros : RunqN(d)' = RunqN(d) + One(c = d)
  <2> TAKE d \in Coros
  <2>1. One(t = d) = 0 /\ One(c = d) \in Nat
    BY <1>1 DEF One
  <2>2. RunqN(d)' = RunqN(d) - One(t = d) + One(c = d) /\ RunqN(d) \in Nat
    BY <1>3
  <2> QED
    BY ONLY <2>1, <2>2
<1> QED
  BY <1>3, <1>4, <1>5, <1>6 DEF c

\* startSession() keeps the invariant: the ticket becomes a watcher and a chain.
LEMMA StartSessionKeeps ==
  ASSUME IInv, NEW e \in Execs, StartSession(e), UNCHANGED roomVars
  PROVE  IInv'
<1>1. PICK k \in Clients :
           /\ Head(runq[e]) = <<"start", k>> /\ k = Head(runq[e])[2]
           /\ Starts(e, <<"start", k>>, session(k))
           /\ watcher[k] = "none" /\ chunks[k] # -1 /\ frames[session(k)] = <<>> /\ active[k] = 0
           /\ Tickets(k) <= 1 /\ RunqN(<<"start", k>>) >= 1
  BY StartFacts
<1>2. /\ frames' = [frames EXCEPT ![session(k)] = Starting("session", k)]
      /\ queue' = bind(bind(queue, recv_q(k), e), send_ready_q(k), e)
      /\ watcher' = [watcher EXCEPT ![k] = "open"]
  BY <1>1 DEF StartSession, Spawned, Starting
<1>3. /\ inbound' = inbound /\ running' = running /\ hand' = hand /\ got' = got /\ active' = active
      /\ join_waiter' = join_waiter /\ send_locked' = send_locked /\ send_lock_waiters' = send_lock_waiters
      /\ timers' = timers /\ rr' = rr /\ chunks' = chunks /\ clients' = clients /\ it' = it
  BY DEF StartSession, groupVars, roomVars
<1>4. /\ queue' \in [Queues -> QueueSet]
      /\ \A q \in Queues : /\ queue'[q].q = queue[q].q /\ queue'[q].closed = queue[q].closed
                           /\ queue'[q].waiter = queue[q].waiter
      /\ queue'[recv_q(k)].exec = e /\ queue'[send_ready_q(k)].exec = e
      /\ \A q \in Queues \ {recv_q(k), send_ready_q(k)} : queue'[q].exec = queue[q].exec
  BY <1>2, StartQueues
<1>5. /\ frames' \in [Coros -> Stack] /\ frames'[session(k)] = Starting("session", k)
      /\ \A d \in Coros : d # session(k) => frames'[d] = frames[d]
  <2> DEFINE s == Starting("session", k)
             c == session(k)
  <2>1. frames \in [Coros -> Stack] /\ s \in Stack /\ c \in Coros /\ frames' = [frames EXCEPT ![c] = s]
    BY <1>2, ChildFrames, CoroNames DEF IInv, Typed
  <2> HIDE DEF s, c
  <2>2. /\ frames' \in [Coros -> Stack] /\ frames'[c] = s
        /\ \A d \in Coros : d # c => frames'[d] = frames[d]
    BY ONLY <2>1
  <2> QED
    BY <2>2 DEF s, c
<1>6. /\ watcher' \in [Clients -> {"none", "open", "closed"}] /\ watcher'[k] = "open"
      /\ \A j \in Clients \ {k} : watcher'[j] = watcher[j]
  BY <1>2 DEF IInv, Typed
<1>7. Typed'
  <2>1. runq' \in [Execs -> Seq(Tasks)]
    BY <1>1 DEF Starts, Changed
  <2>2. queue' \in [Queues -> [q : Seq(Values), closed : BOOLEAN, exec : Execs \cup {NoExec},
                           waiter : Coros \cup {None}]]
    BY <1>4 DEF QueueSet
  <2>3. queue'[accepted].q = queue[accepted].q /\ queue'[cmds].q = queue[cmds].q
    BY <1>4, QueueNames
  <2>4. Typed
    BY DEF IInv
  <2> QED
    BY ONLY <1>3, <1>5, <1>6, <2>1, <2>2, <2>3, <2>4 DEF Typed
<1>8. /\ \A j \in Clients, x \in Execs : Cleaning(x, j)' <=> Cleaning(x, j)
      /\ \A j \in Clients : RunqN(<<"start", j>>)' = RunqN(<<"start", j>>) - One(j = k)
      /\ \A d \in Coros : RunqN(d)' = RunqN(d) + One(session(k) = d)
      /\ \A d : RunqN(d) \in Nat /\ RunqN(d)' \in Nat
  <2>1. /\ Starts(e, <<"start", k>>, session(k)) /\ inbound' = inbound
        /\ IInv /\ e \in Execs /\ k \in Clients
    BY <1>1, <1>3
  <2> QED
    BY ONLY <2>1, StartsTokens
<1>9. Queued /\ Queued'
  BY <1>7 DEF IInv, Typed, Queued
<1>10. Starting("session", k) # <<>> /\ Head(Starting("session", k)).at = "session"
  BY ChildFrames DEF Quiet
<1>11. \A d \in Coros : /\ Places(d) \in Nat
                        /\ Places(d)' = Places(d) + One(frames'[d] # <<>>) - One(frames[d] # <<>>)
  <2> TAKE d \in Coros
  <2> DEFINE o == One(frames'[d] # <<>>)
             n == One(frames[d] # <<>>)
             m == One(session(k) = d)
  <2>1. RunqN(d)' = RunqN(d) + m
    BY <1>8
  <2>2. o \in Nat /\ n \in Nat /\ m \in Nat
    BY DEF One
  <2>3. o - n = m
    <3>1. CASE d = session(k)
      BY <1>1, <1>5, <1>10, <3>1 DEF One
    <3>2. CASE d # session(k)
      <4>1. frames'[d] = frames[d]
        BY <1>5, <3>2
      <4>2. m = 0 /\ o = n
        BY <3>2, <4>1 DEF One
      <4> QED
        BY ONLY <2>2, <4>2
    <3> QED
      BY <3>1, <3>2
  <2>4. /\ RunN(d)' = RunN(d) /\ HandN(d)' = HandN(d) /\ WaitN(d)' = WaitN(d) /\ JoinN(d)' = JoinN(d)
        /\ TimeN(d)' = TimeN(d) /\ InbN(d)' = InbN(d) /\ LockN(d)' = LockN(d)
    BY <1>3, <1>4, PartsSame
  <2>5. /\ Numbers(d) /\ Numbers(d)'
        /\ Places(d) = RunN(d) + HandN(d) + WaitN(d) + JoinN(d) + TimeN(d) + RunqN(d) + InbN(d) + LockN(d)
        /\ Places(d)' = RunN(d)' + HandN(d)' + WaitN(d)' + JoinN(d)' + TimeN(d)' + RunqN(d)' + InbN(d)' + LockN(d)'
    BY <1>9, PlacesAll
  <2>6. Places(d) \in Nat /\ Places(d)' = Places(d) + o - n
    <3> HIDE DEF o, n, m
    <3> QED
      BY ONLY <2>1, <2>2, <2>3, <2>4, <2>5 DEF Numbers
  <2> QED
    BY <2>6
<1>12. /\ frames'[Main] = frames[Main] /\ frames'[Room] = frames[Room]
       /\ \A j \in Clients : /\ frames'[writer(j)] = frames[writer(j)] /\ frames'[helper(j)] = frames[helper(j)]
                             /\ j # k => frames'[session(j)] = frames[session(j)]
  BY <1>5, CoroNames
<1>13. \A q \in Queues : queue[q].exec # NoExec => queue'[q].exec # NoExec
  BY <1>4, TcpAssumption
<1>14. Bound'
  <2>1. Bound
    BY DEF IInv
  <2>2. queue'[recv_q(k)].exec # NoExec /\ queue'[send_ready_q(k)].exec # NoExec
    BY <1>4, TcpAssumption
  <2>3. \A j \in Clients : watcher'[j] # "none" =>
          queue'[recv_q(j)].exec # NoExec /\ queue'[send_ready_q(j)].exec # NoExec
    <3> TAKE j \in Clients
    <3>1. CASE j = k
      BY <2>2, <3>1
    <3>2. CASE j # k
      BY <1>6, <1>13, <2>1, <3>2, QueueNames DEF Bound
    <3> QED
      BY <3>1, <3>2
  <2>4. /\ queue[cmds].exec # NoExec => queue'[cmds].exec # NoExec
        /\ queue[accepted].exec # NoExec => queue'[accepted].exec # NoExec
        /\ \A j \in Clients : queue[outbox(j)].exec # NoExec => queue'[outbox(j)].exec # NoExec
    BY <1>13, QueueNames
  <2> QED
    BY <1>12, <2>1, <2>3, <2>4 DEF Bound
<1>15. Children'
  <2>1. Children
    BY DEF IInv
  <2>2. HeadIs(Main, Frame("main", 0))' => frames'[Room] = <<>>
    BY <1>12, <2>1 DEF Children, HeadIs, Main
  <2>3. \A j \in Clients \ {k} : Childless(j)' => Childless(j)
    BY <1>3, <1>12 DEF Childless, HeadIs, session
  <2>4. ASSUME NEW j \in Clients
        PROVE  /\ active'[j] = One(frames'[writer(j)] # <<>>) + One(frames'[helper(j)] # <<>>)
               /\ watcher'[j] = "none" => frames'[session(j)] = <<>>
               /\ Childless(j)' => active'[j] = 0
    <3>1. active'[j] = One(frames'[writer(j)] # <<>>) + One(frames'[helper(j)] # <<>>)
      BY <1>3, <1>12, <2>1 DEF Children
    <3>2. CASE j = k
      BY <1>1, <1>3, <1>6, <3>1, <3>2
    <3>3. CASE j # k
      BY <1>3, <1>6, <1>12, <2>1, <2>3, <3>1, <3>3 DEF Children
    <3> QED
      BY <3>2, <3>3
  <2> QED
    BY <2>2, <2>4 DEF Children
<1>16. Ticketed'
  <2>1. Ticketed
    BY DEF IInv
  <2>2. \A j \in Clients : InbN(<<"start", j>>)' = InbN(<<"start", j>>) /\ InbN(<<"start", j>>) \in Nat
    BY <1>3, <1>9, PartsSame, InbSome DEF Queued
  <2>3. queue'[accepted].q = queue[accepted].q /\ queue[accepted].q \in Seq(Streams)
    BY <1>4, QueueNames DEF IInv, Typed
  <2>4. \A j \in Clients : Occurs(queue[accepted].q, <<"stream", j>>) \in Nat
    BY <2>3, OccursFacts
  <2>5. \A j \in Clients : /\ Tickets(j)' = Tickets(j) - One(j = k) /\ Tickets(j) \in Nat /\ Tickets(j)' \in Nat
    <3> TAKE j \in Clients
    <3> DEFINE t == <<"start", j>>
               a == Occurs(queue[accepted].q, <<"stream", j>>)
               b == One(got[Main] = <<"stream", j>>)
               z == One(j = k)
    <3>1. Tickets(j) = a + b + RunqN(t) + InbN(t) /\ Tickets(j)' = a + b + RunqN(t)' + InbN(t)'
      BY <1>3, <2>3, TicketsParts
    <3>2. b \in Nat /\ z \in Nat
      BY DEF One
    <3>3. RunqN(t)' = RunqN(t) - z /\ RunqN(t) \in Nat /\ RunqN(t)' \in Nat /\ InbN(t)' = InbN(t) /\ InbN(t) \in Nat /\ a \in Nat
      BY <1>8, <2>2, <2>4
    <3>4. Tickets(j)' = Tickets(j) - z /\ Tickets(j) \in Nat /\ Tickets(j)' \in Nat
      <4> HIDE DEF t, a, b, z
      <4> QED
        BY ONLY <3>1, <3>2, <3>3
    <3> QED
      BY <3>4
  <2>6. ASSUME NEW j \in Clients
        PROVE  /\ Tickets(j)' <= 1
               /\ watcher'[j] # "none" => Tickets(j)' = 0
               /\ chunks'[j] = -1 => watcher'[j] = "none" /\ Tickets(j)' = 0
    <3>1. CASE j = k
      <4>1. One(j = k) = 1
        BY <3>1 DEF One
      <4>2. Tickets(j)' = Tickets(j) - One(j = k) /\ Tickets(j) \in Nat /\ Tickets(j)' \in Nat
        BY <2>5
      <4>3. Tickets(j) <= 1 /\ chunks'[j] # -1
        BY <1>1, <1>3, <3>1
      <4>4. Tickets(j)' = 0
        BY ONLY <4>1, <4>2, <4>3
      <4> QED
        BY <4>3, <4>4
    <3>2. CASE j # k
      <4>1. One(j = k) = 0
        BY <3>2 DEF One
      <4>2. Tickets(j)' = Tickets(j) - One(j = k) /\ Tickets(j) \in Nat
        BY <2>5
      <4>3. Tickets(j)' = Tickets(j)
        BY ONLY <4>1, <4>2
      <4> QED
        BY <1>3, <1>6, <2>1, <3>2, <4>3 DEF Ticketed
    <3> QED
      BY <3>1, <3>2
  <2> QED
    BY <2>6 DEF Ticketed
<1>17. Known'
  <2>1. Known
    BY DEF IInv
  <2>2. queue'[cmds].q = queue[cmds].q
    BY <1>4, QueueNames
  <2>3. ASSUME NEW j \in Clients
        PROVE  \/ watcher'[j] # "none"
               \/ /\ ~ Among(queue'[cmds].q, <<"join", j>>) /\ got'[Room] # <<"join", j>>
                  /\ ~ Among(clients', j)
                  /\ \A x \in Execs : ~ Among(runq'[x], <<"cleanup", j>>) /\ ~ Among(inbound'[x], <<"cleanup", j>>)
    <3>1. CASE j = k
      BY <1>6, <3>1
    <3>2. CASE j # k
      <4>1. \A x \in Execs : Cleaning(x, j)' <=> Cleaning(x, j)
        BY <1>8
      <4> QED
        BY <1>3, <1>6, <2>1, <2>2, <3>2, <4>1 DEF Known, Cleaning
    <3> QED
      BY <3>1, <3>2
  <2> QED
    BY <2>3 DEF Known, cmds
<1>18. RoomOK'
  <2>1. RoomOK
    BY DEF IInv
  <2>2. /\ queue'[cmds].closed = queue[cmds].closed /\ queue'[cmds].q = queue[cmds].q
        /\ queue'[cmds].waiter = queue[cmds].waiter
    BY <1>4, QueueNames
  <2> QED
    BY <1>3, <1>12, <2>1, <2>2, RoomStays
<1>19. DroppedStreamIsClosed'
  <2>1. Typed /\ Bound /\ DroppedStreamIsClosed
    BY DEF IInv
  <2>2. \A j \in Clients, x \in Execs :
           Among(runq[x], <<"cleanup", j>>) \/ Among(inbound[x], <<"cleanup", j>>)
             => Among(runq'[x], <<"cleanup", j>>) \/ Among(inbound'[x], <<"cleanup", j>>) \/ watcher'[j] # "open"
    BY <1>8 DEF Cleaning
  <2>3. \A j \in Clients \ {k} : exec(j)' = exec(j)
    <3> TAKE j \in Clients \ {k}
    <3>1. recv_q(j) \in Queues \ {recv_q(k), send_ready_q(k)}
      BY QueueNames
    <3>2. queue'[recv_q(j)].exec = queue[recv_q(j)].exec
      BY ONLY <1>4, <3>1
    <3> QED
      BY <3>2 DEF exec, recv_q
  <2>4. queue'[cmds].q = queue[cmds].q
    BY <1>4, QueueNames
  <2>5. ASSUME NEW j \in Clients, j \in Alive PROVE j \in Alive'
    <3>1. frames[session(j)] # <<>> => frames'[session(j)] # <<>>
      BY <1>1, <1>12
    <3>2. frames'[Room] = frames[Room] /\ got'[Room] = got[Room] /\ it' = it /\ clients' = clients
      BY <1>3, <1>12
    <3>3. queue[cmds].q \in Seq(Commands) /\ queue'[cmds].q \in Seq(Commands)
      BY <2>4 DEF IInv, Typed
    <3>4. Among(queue[cmds].q, <<"join", j>>) => Among(queue'[cmds].q, <<"join", j>>)
      BY <2>4
    <3> QED
      BY <2>5, <3>1, <3>2, <3>3, <3>4, AliveStays
  <2>6. k \in Alive'
    <3>1. frames'[session(k)] # <<>>
      BY <1>5, <1>10
    <3> QED
      BY <3>1 DEF Alive, InSession, session
  <2>7. \A j \in Clients : watcher'[j] = "open" =>
           \/ watcher[j] = "open" /\ exec(j)' = exec(j) /\ (j \in Alive => j \in Alive')
           \/ j \in Alive'
    <3> TAKE j \in Clients
    <3>1. CASE j = k
      BY <2>6, <3>1
    <3>2. CASE j # k
      BY <1>6, <2>3, <2>5, <3>2
    <3> QED
      BY <3>1, <3>2
  <2> QED
    BY ONLY <2>1, <2>2, <2>7, DroppedStays
<1> DEFINE D == {session(k)}
<1>20. D \in SUBSET Coros /\ \A d \in Coros : d \notin D => frames'[d] = frames[d]
  BY <1>5, CoroNames
<1>21. \A d \in D : NotWait(d) /\ NotJoin(d) /\ NotLock(d) /\ Quiet(frames'[d]) /\ StackOf(d, frames'[d])
  <2>1. NotWait(session(k)) /\ NotJoin(session(k)) /\ NotLock(session(k))
    BY <1>1, NoFrames, CoroNames
  <2>2. Quiet(frames'[session(k)]) /\ StackOf(session(k), frames'[session(k)])
    BY <1>5, ChildFrames
  <2> QED
    BY <2>1, <2>2
<1>22. \A q \in Queues : /\ (queue'[q].waiter = None \/ queue'[q].waiter = queue[q].waiter)
                         /\ queue[q].exec # NoExec => queue'[q].exec # NoExec
  BY <1>4, <1>13
<1>23. IInv /\ join_waiter' = join_waiter /\ send_locked' = send_locked /\ send_lock_waiters' = send_lock_waiters
  BY <1>3
<1> HIDE DEF D
<1> QED
  BY ONLY <1>7, <1>11, <1>14, <1>15, <1>16, <1>17, <1>18, <1>19, <1>20, <1>21, <1>22, <1>23, Spawns

----------------------------------------------------------------------------
(* The initial states. *)

\* The initial state;
LEMMA InitIs ==
  ASSUME Init
  PROVE  /\ runq \in [Execs -> Seq(Tasks)] /\ 0 \in Execs /\ runq[0] = <<Main>>
         /\ \A e \in Execs : e # 0 => runq[e] = <<>>
         /\ \A e \in Execs : inbound[e] = <<>> /\ running[e] = None /\ hand[e] = None /\ timers[e] = {}
         /\ \A c \in Coros : got[c] = None /\ (c # Main => frames[c] = <<>>)
         /\ frames[Main] = Starting("main", 0) /\ frames \in [Coros -> Stack]
         /\ \A q \in Queues : queue[q] = AsyncQueue
         /\ \A k \in Clients : /\ active[k] = 0 /\ join_waiter[k] = None /\ watcher[k] = "none"
                               /\ send_lock_waiters[k] = <<>> /\ chunks[k] = -1
         /\ send_locked = {} /\ rr \in Execs /\ clients = <<>> /\ it = 1
<1>1. 0 \in Execs
  BY TcpAssumption
<1>2. Main \in Coros /\ <<Main>> \in Seq(Tasks)
  BY CoroNames, CorosAreTasks
<1>3. runq = [[e \in Execs |-> <<>>] EXCEPT ![0] = <<Main>>]
  BY DEF Init
<1>4. /\ runq \in [Execs -> Seq(Tasks)] /\ runq[0] = <<Main>>
      /\ \A e \in Execs : e # 0 => runq[e] = <<>>
  BY ONLY <1>1, <1>2, <1>3
<1>5. Starting("main", 0) = On("main", 0, <<>>) /\ Starting("main", 0) \in Stack
  <2> DEFINE t == <<>>
             l == "main"
  <2>1. t \in Stack /\ 0 \in Subjects /\ l \in Labels
    BY EmptyStack, SubjectFacts DEF Labels
  <2>2. Starting(l, 0) = On(l, 0, t)
    BY DEF Starting, On
  <2> HIDE DEF t, l
  <2>3. On(l, 0, t) \in Stack
    BY ONLY <2>1, OnFacts
  <2> QED
    BY <2>2, <2>3 DEF t, l
<1>6. /\ frames[Main] = Starting("main", 0) /\ frames \in [Coros -> Stack]
      /\ \A c \in Coros : c # Main => frames[c] = <<>>
  <2> DEFINE s == Starting("main", 0)
  <2>1. frames = [[c \in Coros |-> <<>>] EXCEPT ![Main] = s]
    BY DEF Init, Starting
  <2> HIDE DEF s
  <2>2. /\ frames[Main] = s /\ frames \in [Coros -> Stack]
        /\ \A c \in Coros : c # Main => frames[c] = <<>>
    BY ONLY <1>2, <1>5, <2>1, EmptyStack DEF s
  <2> QED
    BY <2>2 DEF s
<1>7. /\ \A e \in Execs : inbound[e] = <<>> /\ running[e] = None /\ hand[e] = None /\ timers[e] = {}
      /\ \A c \in Coros : got[c] = None
      /\ \A q \in Queues : queue[q] = AsyncQueue
      /\ \A k \in Clients : /\ active[k] = 0 /\ join_waiter[k] = None /\ watcher[k] = "none"
                            /\ send_lock_waiters[k] = <<>> /\ chunks[k] = -1
      /\ send_locked = {} /\ rr \in Execs /\ clients = <<>> /\ it = 1
  BY ChatAssumption DEF Init, TaskInit, TcpInit
<1> QED
  BY <1>1, <1>4, <1>6, <1>7

\* its types;
LEMMA InitTyped ==
  ASSUME Init
  PROVE  Typed
<1>1. /\ running = [e \in Execs |-> None] /\ hand = [e \in Execs |-> None]
      /\ inbound = [e \in Execs |-> <<>>] /\ timers = [e \in Execs |-> {}]
      /\ got = [c \in Coros |-> None] /\ queue = [q \in Queues |-> AsyncQueue]
      /\ active = [k \in Clients |-> 0] /\ join_waiter = [k \in Clients |-> None]
      /\ watcher = [k \in Clients |-> "none"] /\ send_lock_waiters = [k \in Clients |-> <<>>]
      /\ chunks = [k \in Clients |-> -1]
  BY ChatAssumption DEF Init, TaskInit, TcpInit
<1>2. runq \in [Execs -> Seq(Tasks)] /\ frames \in [Coros -> Stack]
  BY InitIs
<1>3. send_locked = {} /\ rr \in Execs /\ clients = <<>> /\ it = 1
  BY InitIs
<1>4. queue \in [Queues -> [q : Seq(Values), closed : BOOLEAN, exec : Execs \cup {NoExec},
                            waiter : Coros \cup {None}]]
  BY <1>1 DEF AsyncQueue
<1>5. queue[accepted].q = <<>> /\ queue[cmds].q = <<>>
  BY <1>1, QueueNames DEF AsyncQueue
<1>6. got[Main] = None /\ got[Room] = None
  BY <1>1, CoroNames
<1>7. queue[accepted].q \in Seq(Streams) /\ queue[cmds].q \in Seq(Commands) /\ clients \in Seq(Clients)
  BY <1>3, <1>5
<1>8. /\ running \in [Execs -> Coros \cup {None}] /\ hand \in [Execs -> (Coros \X Execs) \cup {None}]
      /\ inbound \in [Execs -> Seq(Tasks)] /\ timers \in [Execs -> SUBSET Coros]
      /\ got = [c \in Coros |-> got[c]]
  BY <1>1
<1>9. /\ active \in [Clients -> Nat] /\ join_waiter \in [Clients -> Coros \cup {None}]
      /\ watcher \in [Clients -> {"none", "open", "closed"}] /\ send_lock_waiters \in [Clients -> Seq(Coros)]
      /\ chunks \in [Clients -> Nat \cup {-1}]
  BY <1>1
<1>10. send_locked \subseteq Clients /\ it \in Nat \ {0}
  BY <1>3
<1> QED
  BY ONLY <1>2, <1>3, <1>4, <1>6, <1>7, <1>8, <1>9, <1>10 DEF Typed

\* async_main() is scheduled, and nothing else.
LEMMA InitCounts ==
  ASSUME Init, NEW t
  PROVE  RunqN(t) = One(Main = t) /\ InbN(t) = 0
<1>1. /\ runq \in [Execs -> Seq(Tasks)] /\ 0 \in Execs /\ runq[0] = <<Main>>
      /\ \A e \in Execs : e # 0 => runq[e] = <<>>
      /\ \A e \in Execs : inbound[e] = <<>>
  BY InitIs
<1> DEFINE f == [e \in Execs |-> <<>>]
           x == 0
<1>2. f \in [Execs -> Seq(Tasks)] /\ f[x] = <<>> /\ \A e \in Execs : f[e] = <<>>
  BY <1>1
<1>3. x \in Execs /\ runq[x] = <<Main>> /\ \A y \in Execs \ {x} : runq[y] = f[y]
  BY <1>1
<1> HIDE DEF f, x
<1>4. Changed(f, runq, Execs, Tasks, x)
  BY <1>1, <1>2, <1>3, Finite DEF Changed
<1>5. InQueues(f, Execs, t) = 0 /\ Occurs(f[x], t) = 0 /\ Occurs(runq[x], t) = One(Main = t)
  BY <1>2, <1>3, InQueuesNone, OccursNone, OccursOne
<1>6. InQueues(runq, Execs, t) = InQueues(f, Execs, t) - Occurs(f[x], t) + Occurs(runq[x], t)
      /\ Occurs(runq[x], t) \in Nat
  BY <1>4, InQueuesChange
<1>7. InQueues(runq, Execs, t) = One(Main = t)
  BY ONLY <1>5, <1>6
<1>8. InQueues(inbound, Execs, t) = 0
  BY <1>1, InQueuesNone
<1> QED
  BY <1>7, <1>8 DEF RunqN, InbN

\* its chains: main in the run queue of executor 0, no other in any place;
LEMMA InitPlaces ==
  ASSUME Init
  PROVE  OneResumption
<1> SUFFICES ASSUME NEW c \in Coros PROVE Places(c) = IF frames[c] = <<>> THEN 0 ELSE 1
  BY DEF OneResumption
<1>1. /\ \A e \in Execs : inbound[e] = <<>> /\ running[e] = None /\ hand[e] = None /\ timers[e] = {}
      /\ \A d \in Coros : d # Main => frames[d] = <<>>
      /\ frames[Main] = Starting("main", 0)
      /\ \A q \in Queues : queue[q] = AsyncQueue
      /\ \A k \in Clients : join_waiter[k] = None /\ send_lock_waiters[k] = <<>>
  BY InitIs
<1>2. c # None
  BY NotCoros
<1>3. RunN(c) = 0
  <2>1. {e \in Execs : running[e] = c} = {}
    BY <1>1, <1>2
  <2> QED
    BY <2>1, FS_EmptySet DEF RunN
<1>4. HandN(c) = 0
  <2>1. {e \in Execs : hand[e] # None /\ hand[e][1] = c} = {}
    BY <1>1
  <2> QED
    BY <2>1, FS_EmptySet DEF HandN
<1>5. WaitN(c) = 0
  <2>1. {q \in Queues : queue[q].waiter = c} = {}
    BY <1>1, <1>2 DEF AsyncQueue
  <2> QED
    BY <2>1, FS_EmptySet DEF WaitN
<1>6. JoinN(c) = 0
  <2>1. {k \in Clients : join_waiter[k] = c} = {}
    BY <1>1, <1>2
  <2> QED
    BY <2>1, FS_EmptySet DEF JoinN
<1>7. TimeN(c) = 0
  <2>1. {e \in Execs : c \in timers[e]} = {}
    BY <1>1
  <2> QED
    BY <2>1, FS_EmptySet DEF TimeN
<1>8. LockN(c) = 0
  BY <1>1, InQueuesNone DEF LockN
<1>9. RunqN(c) = One(Main = c) /\ InbN(c) = 0
  BY InitCounts
<1>10. One(Main = c) = IF frames[c] = <<>> THEN 0 ELSE 1
  <2>1. Starting("main", 0) # <<>>
    BY DEF Starting
  <2> QED
    BY <1>1, <2>1 DEF One
<1>11. One(Main = c) \in Nat
  BY DEF One
<1>12. Places(c) = RunN(c) + HandN(c) + WaitN(c) + JoinN(c) + TimeN(c) + RunqN(c) + InbN(c) + LockN(c)
  BY PlacesSum
<1> DEFINE o == One(Main = c)
<1> HIDE DEF o
<1>13. Places(c) = o
  BY ONLY <1>3, <1>4, <1>5, <1>6, <1>7, <1>8, <1>9, <1>11, <1>12 DEF o
<1> QED
  BY <1>10, <1>13 DEF o

\* it has the invariant.
LEMMA InitInv == Init => IInv
<1> SUFFICES ASSUME Init PROVE IInv
  OBVIOUS
<1>1. /\ runq \in [Execs -> Seq(Tasks)] /\ 0 \in Execs /\ runq[0] = <<Main>>
      /\ \A e \in Execs : e # 0 => runq[e] = <<>>
      /\ \A e \in Execs : inbound[e] = <<>> /\ running[e] = None /\ hand[e] = None /\ timers[e] = {}
      /\ \A c \in Coros : got[c] = None /\ (c # Main => frames[c] = <<>>)
      /\ frames[Main] = Starting("main", 0) /\ frames \in [Coros -> Stack]
      /\ \A q \in Queues : queue[q] = AsyncQueue
      /\ \A k \in Clients : /\ active[k] = 0 /\ join_waiter[k] = None /\ watcher[k] = "none"
                            /\ send_lock_waiters[k] = <<>> /\ chunks[k] = -1
      /\ send_locked = {} /\ rr \in Execs /\ clients = <<>> /\ it = 1
  BY InitIs
<1>2. Typed /\ OneResumption
  BY InitTyped, InitPlaces
<1>3. /\ Starting("main", 0) = On("main", 0, <<>>) /\ Quiet(Starting("main", 0))
      /\ Head(Starting("main", 0)) = Frame("main", 0) /\ Head(Starting("main", 0)).at = "main"
  <2> DEFINE t == <<>>
             l == "main"
  <2>1. t \in Stack /\ 0 \in Subjects /\ l \in Labels /\ l \notin {"send", "send ready", "locked"}
        /\ \A k \in Clients : ~ Sends(t, k)
    BY EmptyStack, SubjectFacts, SendsNone DEF Labels
  <2>2. Starting(l, 0) = On(l, 0, t)
    BY DEF Starting, On
  <2> HIDE DEF t, l
  <2>3. Quiet(On(l, 0, t))
    BY ONLY <2>1, QuietOn
  <2>4. Head(On(l, 0, t)) = Frame(l, 0)
    BY ONLY <2>1, OnFacts
  <2>5. Head(On(l, 0, t)).at = l
    BY ONLY <2>1, OnAt
  <2> QED
    BY <2>2, <2>3, <2>4, <2>5 DEF t, l
<1>4. Main # Room /\ Room \in Coros /\ Main \in Coros
      /\ \A k \in Clients : frames[session(k)] = <<>> /\ frames[writer(k)] = <<>> /\ frames[helper(k)] = <<>>
  BY <1>1, CoroNames
<1>5. frames[Room] = <<>>
  BY <1>1, <1>4
<1>6. Stacks
  <2>1. MainStack(frames[Main])
    <3>1. "main" \in {"main", "return"}
      OBVIOUS
    <3> QED
      BY <1>1, <1>3, <3>1 DEF MainStack
  <2>2. RoomStack(frames[Room])
    BY <1>5 DEF RoomStack
  <2>3. \A k \in Clients :
          SessionStack(k, frames[session(k)]) /\ WriterStack(k, frames[writer(k)]) /\ HelperStack(k, frames[helper(k)])
    BY <1>4 DEF SessionStack, WriterStack, HelperStack
  <2> QED
    BY <2>1, <2>2, <2>3 DEF Stacks
<1>7. Parked
  <2>1. \A q \in Queues : queue[q].waiter = None
    BY <1>1 DEF AsyncQueue
  <2>2. \A k \in Clients : \A c : ~ Among(send_lock_waiters[k], c)
    BY <1>1 DEF Among
  <2> QED
    BY <1>1, <2>1, <2>2 DEF Parked
<1>8. Bound
  BY <1>1, <1>3, <1>4, <1>5 DEF Bound
<1>9. Children
  <2>1. \A k \in Clients : active[k] = One(frames[writer(k)] # <<>>) + One(frames[helper(k)] # <<>>)
    BY <1>1, <1>4 DEF One
  <2> QED
    BY <1>1, <1>4, <1>5, <2>1 DEF Children
<1>10. Ticketed
  <2>1. \A k \in Clients : Tickets(k) = 0
    <3> TAKE k \in Clients
    <3>1. queue[accepted].q = <<>> /\ got[Main] = None
      BY <1>1, <1>4, QueueNames DEF AsyncQueue
    <3>2. Occurs(queue[accepted].q, <<"stream", k>>) = 0
      BY <3>1, OccursNone
    <3>3. One(got[Main] = <<"stream", k>>) = 0
      BY <3>1, PairIs DEF One
    <3>4. One(Main = <<"start", k>>) = 0
      BY <1>4, NotCoros DEF One
    <3>5. RunqN(<<"start", k>>) = 0 /\ InbN(<<"start", k>>) = 0
      BY <3>4, InitCounts
    <3>6. Tickets(k) = Occurs(queue[accepted].q, <<"stream", k>>) + One(got[Main] = <<"stream", k>>)
                           + RunqN(<<"start", k>>) + InbN(<<"start", k>>)
      BY TicketsParts
    <3> QED
      BY ONLY <3>2, <3>3, <3>5, <3>6
  <2> QED
    BY <1>1, <2>1 DEF Ticketed
<1>11. Known
  <2>1. queue[cmds].q = <<>> /\ got[Room] = None
    BY <1>1, <1>4, QueueNames DEF AsyncQueue
  <2>2. \A t : ~ Among(<<>>, t)
    BY DEF Among
  <2>3. \A k \in Clients, e \in Execs : ~ Among(runq[e], <<"cleanup", k>>)
    <3> TAKE k \in Clients, e \in Execs
    <3> DEFINE t == <<"cleanup", k>>
    <3>1. One(Main = t) = 0
      BY <1>4, NotCoros DEF One
    <3>2. RunqN(t) = 0
      BY <3>1, InitCounts
    <3> HIDE DEF t
    <3>3. Among(runq[e], t) => RunqN(t) >= 1
      BY <1>1, RunqSome
    <3>4. ~ Among(runq[e], t)
      BY ONLY <3>2, <3>3
    <3> QED
      BY <3>4 DEF t
  <2>4. ASSUME NEW k \in Clients
        PROVE  /\ ~ Among(queue[cmds].q, <<"join", k>>) /\ got[Room] # <<"join", k>> /\ ~ Among(clients, k)
               /\ \A e \in Execs : ~ Among(runq[e], <<"cleanup", k>>) /\ ~ Among(inbound[e], <<"cleanup", k>>)
    BY <1>1, <2>1, <2>2, <2>3, PairIs
  <2> QED
    BY <2>4 DEF Known
<1>12. Locks
  <2>1. \A c \in Coros, k \in Clients : ~ Owner(c, k)
    <3> TAKE c \in Coros, k \in Clients
    <3>1. CASE c = Main
      BY <1>1, <1>3, <3>1, SendingIsSends DEF Quiet, Owner, HeadIs
    <3>2. CASE c # Main
      BY <1>1, <3>2, SendingIsSends, SendsNone DEF Owner, HeadIs
    <3> QED
      BY <3>1, <3>2
  <2> QED
    BY <2>1 DEF Locks
<1>13. RoomOK
  <2>1. ~ queue[cmds].closed
    BY <1>1, QueueNames DEF AsyncQueue
  <2> QED
    BY <1>5, <2>1 DEF RoomOK, RoomAt, HeadIs
<1>14. DroppedStreamIsClosed
  BY <1>1 DEF DroppedStreamIsClosed
<1> QED
  BY <1>2, <1>6, <1>7, <1>8, <1>9, <1>10, <1>11, <1>12, <1>13, <1>14 DEF IInv

----------------------------------------------------------------------------
(* Every step keeps the invariant. *)

\* The steps of the coroutine library keep the invariant;
LEMMA TaskStepKeeps ==
  ASSUME IInv, NEW e \in Execs, TaskStep(e), UNCHANGED <<tcpVars, roomVars>>
  PROVE  IInv'
<1>1. CASE drainInbound(e)
  BY <1>1, drainInboundKeeps
<1>2. CASE resume(e)
  BY <1>2, resumeKeeps
<1>3. CASE wakeOne(e)
  BY <1>3, wakeOneKeeps
<1>4. ASSUME NEW c, c = running[e], c # None, await_suspend(e, c) PROVE IInv'
  BY <1>4, await_suspendKeeps
<1>5. ASSUME NEW c, c = running[e], c # None, await_resume(e, c) PROVE IInv'
  BY <1>5, await_resumeKeeps
<1>6. ASSUME NEW c, c = running[e], c # None, JoinGroup(e, c) PROVE IInv'
  <2>1. \/ /\ At(e, c, "join") /\ active[Inner(c).on] = 0 /\ final(e, c)
           /\ UNCHANGED <<got, queue, active, join_waiter, tcpVars, roomVars>>
        \/ /\ At(e, c, "join") /\ active[Inner(c).on] > 0
           /\ join_waiter' = [join_waiter EXCEPT ![Inner(c).on] = c] /\ Goto(c, "joined") /\ suspend(e)
           /\ UNCHANGED <<runq, inbound, hand, got, queue, active, tcpVars, roomVars>>
    BY <1>6 DEF JoinGroup
  <2>2. CASE /\ At(e, c, "join") /\ active[Inner(c).on] = 0 /\ final(e, c)
             /\ UNCHANGED <<got, queue, active, join_waiter, tcpVars, roomVars>>
    BY <1>6, <2>2, NothingToJoinKeeps
  <2>3. CASE /\ At(e, c, "join") /\ active[Inner(c).on] > 0
             /\ join_waiter' = [join_waiter EXCEPT ![Inner(c).on] = c] /\ Goto(c, "joined") /\ suspend(e)
             /\ UNCHANGED <<runq, inbound, hand, got, queue, active, tcpVars, roomVars>>
    BY <1>6, <2>3, JoinsKeeps
  <2> QED
    BY <2>1, <2>2, <2>3
<1>7. ASSUME NEW c, c = running[e], c # None, Joined(e, c) PROVE IInv'
  BY <1>7, JoinedKeeps
<1>8. ASSUME NEW c, c = running[e], c # None, ChildDone(e, c) PROVE IInv'
  BY <1>8, ChildDoneKeeps
<1>9. \/ drainInbound(e) \/ resume(e) \/ wakeOne(e)
      \/ \E c : /\ c = running[e] /\ c # None
                /\ \/ await_suspend(e, c) \/ await_resume(e, c)
                   \/ JoinGroup(e, c) \/ Joined(e, c) \/ ChildDone(e, c)
  BY DEF TaskStep
<1> QED
  BY ONLY <1>1, <1>2, <1>3, <1>4, <1>5, <1>6, <1>7, <1>8, <1>9

\* those of sleepFor();
LEMMA SleepForKeeps ==
  ASSUME IInv, NEW e \in Execs, NEW c, c # None, sleepFor(e, c), UNCHANGED roomVars
  PROVE  IInv'
<1>1. \/ /\ At(e, c, "sleepFor") /\ final(e, c)
         /\ UNCHANGED <<timers, got, queue, groupVars, streamVars, listening, rr, chunks, roomVars>>
      \/ /\ At(e, c, "sleepFor") /\ timers' = [timers EXCEPT ![e] = @ \cup {c}] /\ Goto(c, "return") /\ suspend(e)
         /\ UNCHANGED <<runq, inbound, hand, got, queue, groupVars, streamVars, listening, rr, chunks, roomVars>>
  BY DEF sleepFor
<1>2. CASE /\ At(e, c, "sleepFor") /\ final(e, c)
           /\ UNCHANGED <<timers, got, queue, groupVars, streamVars, listening, rr, chunks, roomVars>>
  BY <1>2, NoSleepKeeps
<1>3. CASE /\ At(e, c, "sleepFor") /\ timers' = [timers EXCEPT ![e] = @ \cup {c}] /\ Goto(c, "return") /\ suspend(e)
           /\ UNCHANGED <<runq, inbound, hand, got, queue, groupVars, streamVars, listening, rr, chunks, roomVars>>
  BY <1>3, SleepsKeeps
<1> QED
  BY <1>1, <1>2, <1>3

\* those of acceptStream();
LEMMA AcceptStreamKeeps ==
  ASSUME IInv, NEW e \in Execs, NEW c, c # None, acceptStream(e, c) \/ Served(e, c), UNCHANGED roomVars
  PROVE  IInv'
<1>1. CASE At(e, c, "serve") /\ await(e, c, "accept", 0, "served") /\ acceptStream(e, c)
  <2>1. UNCHANGED <<got, queue, groupVars, tcpVars, roomVars>>
    BY <1>1 DEF acceptStream
  <2> QED
    BY <1>1, <2>1, ServeKeeps
<1>2. CASE At(e, c, "accept") /\ pop(c, accepted, "return") /\ UNCHANGED execVars /\ acceptStream(e, c)
  <2>1. UNCHANGED <<execVars, got, queue, groupVars, tcpVars, roomVars>>
    BY <1>2 DEF acceptStream
  <2> QED
    BY <1>2, <2>1, AcceptKeeps
<1>3. CASE Served(e, c) /\ got[c] = None
  <2>1. /\ At(e, c, "served") /\ got[c] = None /\ final(e, c) /\ Consumed(c)
        /\ UNCHANGED <<rr, queue, groupVars, streamVars, timers, listening, chunks, roomVars>>
    BY <1>3 DEF Served
  <2> QED
    BY <2>1, StopsServingKeeps
<1>4. CASE Served(e, c) /\ got[c] # None
  BY <1>4, ServedKeeps
<1>5. acceptStream(e, c) => \/ At(e, c, "serve") /\ await(e, c, "accept", 0, "served")
                            \/ At(e, c, "accept") /\ pop(c, accepted, "return") /\ UNCHANGED execVars
  BY DEF acceptStream
<1> QED
  BY <1>1, <1>2, <1>3, <1>4, <1>5

\* those of the streams;
LEMMA TcpStepKeeps ==
  ASSUME IInv, NEW e \in Execs, TcpStep(e), UNCHANGED roomVars
  PROVE  IInv'
<1>1. CASE StartSession(e)
  BY <1>1, StartSessionKeeps
<1>2. CASE Cleanup(e)
  BY <1>2, CleanupKeeps
<1>3. ASSUME NEW c, c = running[e], c # None, recvSome(e, c) PROVE IInv'
  BY <1>3, recvSomeKeeps
<1>4. ASSUME NEW c, c = running[e], c # None, return(e, c) PROVE IInv'
  <2>1. CASE c = Main /\ frames[c] = On("return", 0, <<>>)
    <3>1. return(e, Main) /\ frames[Main] = On("return", 0, <<>>)
      BY <1>4, <2>1
    <3> QED
      BY <3>1, MainEndsKeeps
  <2>2. CASE c = Main => frames[c] # On("return", 0, <<>>)
    BY <1>4, <2>2, returnKeeps
  <2> QED
    BY <2>1, <2>2
<1>5. ASSUME NEW c, c = running[e], c # None, LockAwaiter(e, c) PROVE IInv'
  BY <1>5, TakesLockKeeps, WaitsForLockKeeps
<1>6. ASSUME NEW c, c = running[e], c # None, LockPassedOn(e, c) PROVE IInv'
  BY <1>6, LockPassedOnKeeps
<1>7. ASSUME NEW c, c = running[e], c # None, SendDone(e, c) PROVE IInv'
  BY <1>7, SendDoneKeeps
<1>8. ASSUME NEW c, c = running[e], c # None, SendFails(e, c) PROVE IInv'
  BY <1>8, SendFailsKeeps
<1>9. ASSUME NEW c, c = running[e], c # None, SendSome(e, c) PROVE IInv'
  BY <1>9, SendSomeKeeps
<1>10. ASSUME NEW c, c = running[e], c # None, SendBlocks(e, c) PROVE IInv'
  BY <1>10, SendBlocksKeeps
<1>11. ASSUME NEW c, c = running[e], c # None, SendReady(e, c) PROVE IInv'
  BY <1>11, SendReadyKeeps, SendReadyEndsKeeps
<1>12. ASSUME NEW c, c = running[e], c # None, sleepFor(e, c) PROVE IInv'
  BY <1>12, SleepForKeeps
<1>13. ASSUME NEW c, c = running[e], c # None, Listen(e, c) PROVE IInv'
  BY <1>13, ListenKeeps
<1>14. ASSUME NEW c, c = running[e], c # None, acceptStream(e, c) \/ Served(e, c) PROVE IInv'
  BY <1>14, AcceptStreamKeeps
<1>15. \/ StartSession(e) \/ Cleanup(e)
       \/ \E c : /\ c = running[e] /\ c # None
                 /\ \/ recvSome(e, c) \/ return(e, c) \/ LockAwaiter(e, c) \/ LockPassedOn(e, c)
                    \/ SendDone(e, c) \/ SendFails(e, c) \/ SendSome(e, c) \/ SendBlocks(e, c)
                    \/ SendReady(e, c) \/ sleepFor(e, c)
                    \/ Listen(e, c) \/ acceptStream(e, c) \/ Served(e, c)
  BY DEF TcpStep
<1> QED
  BY ONLY <1>1, <1>2, <1>3, <1>4, <1>5, <1>6, <1>7, <1>8, <1>9, <1>10, <1>11, <1>12, <1>13, <1>14, <1>15

\* the child that a task group starts;
LEMMA ChildKeeps ==
  ASSUME IInv, NEW e \in Execs, NEW c, c # None, Child(e, c)
  PROVE  IInv'
<1> DEFINE l == "child"
<1>1. At(e, c, l) /\ l \in {"child", "child done"}
  BY DEF Child
<1> HIDE DEF l
<1>2. Where(c, l, frames[c])
  BY <1>1, Here
<1>3. PICK k \in Clients : c \in {writer(k), helper(k)}
  BY <1>1, <1>2 DEF Where
<1>4. CASE c = writer(k)
  BY <1>4, ChildWriterKeeps
<1>5. CASE c = helper(k)
  BY <1>5, ChildHelperKeeps
<1> QED
  BY <1>3, <1>4, <1>5

\* the helper;
LEMMA HelperKeeps ==
  ASSUME IInv, NEW e \in Execs, NEW c, c # None, Helper(e, c)
  PROVE  IInv'
<1>1. CASE At(e, c, "helper") /\ await(e, c, "sleepFor", 0, "slept")
  <2>1. UNCHANGED <<got, queue, groupVars, tcpVars, roomVars>>
    BY DEF Helper
  <2> QED
    BY <1>1, <2>1, HelperSleepsKeeps
<1>2. CASE At(e, c, "slept") /\ await(e, c, "sendAll", Inner(c).on, "return")
  <2>1. UNCHANGED <<got, queue, groupVars, tcpVars, roomVars>>
    BY DEF Helper
  <2> QED
    BY <1>2, <2>1, HelperSendsKeeps
<1> QED
  BY <1>1, <1>2 DEF Helper

\* those of a session and its children;
LEMMA SessionStepKeeps ==
  ASSUME IInv, NEW e \in Execs, SessionStep(e)
  PROVE  IInv'
<1>1. ASSUME NEW c, c # None, async_main(e, c) PROVE IInv'
  BY <1>1, async_mainKeeps
<1>2. ASSUME NEW c, c # None, chatSession(e, c) PROVE IInv'
  BY <1>2, chatSessionKeeps
<1>3. ASSUME NEW c, c # None, SessionRecv(e, c) PROVE IInv'
  BY <1>3, SessionRecvKeeps
<1>4. ASSUME NEW c, c # None, SessionReceived(e, c) PROVE IInv'
  BY <1>4, SessionReceivedKeeps
<1>5. ASSUME NEW c, c # None, SessionLeave(e, c) PROVE IInv'
  BY <1>5, SessionLeaveKeeps
<1>6. ASSUME NEW c, c # None, SessionCloses(e, c) PROVE IInv'
  BY <1>6, SessionClosesKeeps
<1>7. ASSUME NEW c, c # None, SessionJoins(e, c) PROVE IInv'
  BY <1>7, SessionJoinsKeeps
<1>8. ASSUME NEW c, c # None, SessionEnds(e, c) PROVE IInv'
  BY <1>8, SessionEndsKeeps
<1>9. ASSUME NEW c, c # None, Child(e, c) PROVE IInv'
  BY <1>9, ChildKeeps
<1>10. ASSUME NEW c, c # None, WriterPops(e, c) PROVE IInv'
  BY <1>10, WriterPopsKeeps
<1>11. ASSUME NEW c, c # None, WriterGot(e, c) PROVE IInv'
  BY <1>11, WriterEndsKeeps, WriterSendsKeeps
<1>12. ASSUME NEW c, c # None, Helper(e, c) PROVE IInv'
  BY <1>12, HelperKeeps
<1>13. \E c : /\ c # None
              /\ \/ async_main(e, c) \/ chatSession(e, c) \/ SessionRecv(e, c) \/ SessionReceived(e, c)
                 \/ SessionLeave(e, c) \/ SessionCloses(e, c) \/ SessionJoins(e, c) \/ SessionEnds(e, c)
                 \/ Child(e, c) \/ WriterPops(e, c) \/ WriterGot(e, c) \/ Helper(e, c)
  BY DEF SessionStep
<1> QED
  BY ONLY <1>1, <1>2, <1>3, <1>4, <1>5, <1>6, <1>7, <1>8, <1>9, <1>10, <1>11, <1>12, <1>13

\* those of the room;
LEMMA RoomStepKeeps ==
  ASSUME IInv, NEW e \in Execs, RoomStep(e)
  PROVE  IInv'
BY RoomPopsKeeps, handleKeeps, broadcastImplKeeps, BroadcastNextKeeps, RoomLoopsKeeps DEF RoomStep

\* those of the callbacks of the watchers;
LEMMA CallbackStepKeeps ==
  ASSUME IInv, Callback, UNCHANGED roomVars
  PROVE  IInv'
BY OnAcceptErrorKeeps, OnAcceptKeeps, OnRecvKeeps, OnCloseKeeps, OnSendReadyKeeps DEF Callback

\* and stuttering does.
LEMMA StutterKeeps ==
  ASSUME IInv, UNCHANGED vars
  PROVE  IInv'
<1>1. /\ runq' = runq /\ inbound' = inbound /\ running' = running /\ hand' = hand /\ frames' = frames /\ got' = got
      /\ queue' = queue /\ active' = active /\ join_waiter' = join_waiter /\ watcher' = watcher
      /\ send_locked' = send_locked /\ send_lock_waiters' = send_lock_waiters
      /\ timers' = timers /\ rr' = rr /\ chunks' = chunks /\ clients' = clients /\ it' = it
  BY DEF vars, taskVars, execVars, groupVars, tcpVars, streamVars
<1>2. Typed' /\ Stacks'
  BY <1>1 DEF IInv, Typed, Stacks, Main, Room, session, writer, helper, accepted, cmds
<1>3. OneResumption'
  BY <1>1 DEF IInv, OneResumption, Places, InQueues
<1>4. Parked' /\ Bound' /\ Children'
  BY <1>1 DEF IInv, Parked, Bound, Children, Childless, HeadIs, Main, Room, session, writer, helper, accepted,
              cmds, recv_q, send_ready_q, outbox
<1>5. Ticketed' /\ Known'
  <2>1. Ticketed /\ Known /\ TokensStay
    BY <1>1, TokensSame DEF IInv
  <2>2. \A k \in Clients : Tickets(k)' = Tickets(k)
    BY <1>1 DEF Tickets, InQueues
  <2>3. Ticketed'
    BY <1>1, <2>1, <2>2, TicketedStays
  <2>4. Known'
    BY <1>1, <2>1, KnownStays
  <2> QED
    BY <2>3, <2>4
<1>6. Locks' /\ RoomOK'
  BY <1>1 DEF IInv, Locks, Owner, Sending, HeadIs, RoomOK, RoomAt, Inner, Room, cmds
<1>7. DroppedStreamIsClosed'
  BY <1>1 DEF IInv, DroppedStreamIsClosed, Alive, InSession, InJoin, Pinned, RoomAt, Inner, exec, recv_q, Room,
              cmds, session
<1> QED
  BY <1>2, <1>3, <1>4, <1>5, <1>6, <1>7 DEF IInv

\* Every step keeps the invariant.
LEMMA StepInv == IInv /\ [Next]_vars => IInv'
<1> SUFFICES ASSUME IInv, [Next]_vars PROVE IInv'
  OBVIOUS
<1>1. ASSUME NEW e \in Execs, TaskStep(e), UNCHANGED <<tcpVars, roomVars>> PROVE IInv'
  BY <1>1, TaskStepKeeps
<1>2. ASSUME NEW e \in Execs, TcpStep(e), UNCHANGED roomVars PROVE IInv'
  BY <1>2, TcpStepKeeps
<1>3. ASSUME NEW e \in Execs, TimerFires(e), UNCHANGED roomVars PROVE IInv'
  BY <1>3, TimerFiresKeeps
<1>4. ASSUME NEW e \in Execs, SessionStep(e) PROVE IInv'
  BY <1>4, SessionStepKeeps
<1>5. ASSUME NEW e \in Execs, RoomStep(e) PROVE IInv'
  BY <1>5, RoomStepKeeps
<1>6. CASE Callback /\ UNCHANGED roomVars
  BY <1>6, CallbackStepKeeps
<1>7. CASE UNCHANGED vars
  BY <1>7, StutterKeeps
<1> QED
  BY <1>1, <1>2, <1>3, <1>4, <1>5, <1>6, <1>7 DEF Next, Thread

----------------------------------------------------------------------------
(* The theorems. *)

\* The invariant holds in every reachable state, for every number of executors and clients and
\* whatever the order of their steps.
THEOREM Invariance == Spec => []IInv
BY InitInv, StepInv, PTL DEF Spec

\* A coroutine that has not ended is in one place only: it runs, is in a run queue or in the hands of
\* wakeOne(), or waits in one queue, join(), send lock or timer; so no two of push(), close(), a timer,
\* unlockSend() and a child that ends resume the same handle, and none is forgotten by all of them.
THEOREM ChatOneResumption == Spec => []OneResumption
<1>1. IInv => OneResumption
  BY DEF IInv
<1> QED
  BY <1>1, Invariance, PTL

\* Two chains between lock and unlock are one.
LEMMA SoleSender == IInv => OneSender
<1> SUFFICES ASSUME IInv, NEW k \in Clients PROVE Cardinality({c \in Coros : Sending(c, k)}) <= 1
  BY DEF OneSender
<1> DEFINE S == {c \in Coros : Sending(c, k)}
<1>1. \A c \in S, d \in S : c = d
  BY DEF IInv, Locks, Owner
<1>2. CASE S = {}
  <2> HIDE DEF S
  <2>1. Cardinality(S) = 0
    BY <1>2, FS_EmptySet
  <2> QED
    BY <2>1 DEF S
<1>3. CASE S # {}
  <2>1. PICK c \in S : TRUE
    BY <1>3
  <2> HIDE DEF S
  <2>2. S = {c}
    BY <1>1, <2>1
  <2>3. Cardinality(S) = 1
    BY <2>2, FS_Singleton
  <2> QED
    BY <2>3 DEF S
<1> QED
  BY <1>2, <1>3

\* Between lockSend() and unlockSend() of a connection is one chain at most, so the bytes of two
\* sendAll() calls, of the writer and of the helper, do not interleave: unlockSend() passes the
\* lock on to the first in the queue without freeing it.
THEOREM ChatOneSender == Spec => []OneSender
BY SoleSender, Invariance, PTL

\* join() returns after the last child, and active counts them.
LEMMA SessionOutlives == IInv => SessionOutlivesChildren
<1> SUFFICES ASSUME IInv, NEW k \in Clients, frames[session(k)] = <<>>
             PROVE  active[k] = 0 /\ frames[writer(k)] = <<>> /\ frames[helper(k)] = <<>>
  BY DEF SessionOutlivesChildren, InSession
<1>1. /\ active[k] = One(frames[writer(k)] # <<>>) + One(frames[helper(k)] # <<>>)
      /\ active[k] = 0
  BY DEF IInv, Children, Childless
<1>2. CASE frames[writer(k)] # <<>> /\ frames[helper(k)] # <<>>
  BY <1>1, <1>2 DEF One
<1>3. CASE frames[writer(k)] # <<>> /\ frames[helper(k)] = <<>>
  BY <1>1, <1>3 DEF One
<1>4. CASE frames[writer(k)] = <<>> /\ frames[helper(k)] # <<>>
  BY <1>1, <1>4 DEF One
<1> QED
  BY <1>1, <1>2, <1>3, <1>4

\* A session that has ended has no children left: TaskGroup::join() returns after the last of them has
\* counted down active_, though they end in any order, some before join() is called.
THEOREM ChatSessionOutlivesChildren == Spec => []SessionOutlivesChildren
BY SessionOutlives, Invariance, PTL

\* The watcher of a stream to which no chain has a reference any more is closed, or its cleanup is posted
\* to the worker that owns it: ~AsyncTcpStream leaks none, whichever worker drops the last reference.
THEOREM ChatDroppedStreamIsClosed == Spec => []DroppedStreamIsClosed
<1>1. IInv => DroppedStreamIsClosed
  BY DEF IInv
<1> QED
  BY <1>1, Invariance, PTL
=============================================================================
