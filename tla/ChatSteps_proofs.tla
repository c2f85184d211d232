------------------------- MODULE ChatSteps_proofs --------------------------
(***************************************************************************)
(* The inductive invariant of the chat server and the kinds of steps that  *)
(* keep it, for every number of executors and clients.                     *)
(*                                                                         *)
(* The state of a chain is its stack of frames.  The invariant says which  *)
(* stacks there are, and relates each of them to where the chain waits, to *)
(* the counters of the groups and to the locks.  Most steps then fall into *)
(* a few kinds: a chain moves on, stops, wakes another one up, or is given *)
(* to another executor.  This module has the facts about the stacks, the   *)
(* counts of the places where a chain waits, and the lemmas for a chain    *)
(* that moves on or is suspended and resumed by a queue; Chat_proofs goes  *)
(* through the rest of the program.                                        *)
(***************************************************************************)
EXTENDS Chat, FiniteSetTheorems, SequenceTheorems, FunctionTheorems,
        NaturalsInduction, WellFoundedInduction, TLAPS

----------------------------------------------------------------------------
(* The inductive invariant. *)

\* A stack of frames with one more on top.
On(l, x, s) == <<Frame(l, x)>> \o s

\* What a frame is about: a client, a queue, or nothing.
Subjects == Clients \cup {0} \cup Queues
Stack    == Seq([at : Labels, on : Subjects])

\* The frames of pop(), and those of sendAll() until it returns.
Popping == {"suspend", "resume"}
InSend  == {"sendAll", "locked", "send", "send ready"}

\* The stacks of frames that the chains have.
MainStack(s) ==
  \/ s = <<>>
  \/ \E l \in {"main", "return"} : s = On(l, 0, <<>>)
  \/ \E l \in {"listen", "serve", "served"} : s = On(l, 0, On("return", 0, <<>>))
  \/ \E l \in {"accept", "return"} : s = On(l, 0, On("served", 0, On("return", 0, <<>>)))
  \/ \E l \in Popping :
       s = On(l, accepted, On("return", 0, On("served", 0, On("return", 0, <<>>))))

RoomStack(s) ==
  \/ s = <<>>
  \/ \E l \in {"room", "command", "cast", "pushed"} : s = On(l, 0, <<>>)
  \/ \E l \in Popping : s = On(l, cmds, On("command", 0, <<>>))

SessionStack(k, s) ==
  \/ s = <<>>
  \/ \E l \in {"session", "recv", "received", "leave", "close outbox", "join group", "session end"} :
       s = On(l, k, <<>>)
  \/ \E l \in {"recvSome", "return"} : s = On(l, k, On("received", k, <<>>))
  \/ \E l \in Popping : s = On(l, recv_q(k), On("return", k, On("received", k, <<>>)))
  \/ \E l \in {"join", "joined"} : s = On(l, k, On("session end", k, <<>>))

\* sendAll() called by a child that goes on at label `then`.
SendStack(k, then, s) ==
  \/ \E l \in InSend : s = On(l, k, On(then, k, On("child done", k, <<>>)))
  \/ \E l \in Popping :
       s = On(l, send_ready_q(k), On("send ready", k, On(then, k, On("child done", k, <<>>))))

WriterStack(k, s) ==
  \/ s = <<>>
  \/ \E l \in {"child", "child done"} : s = On(l, k, <<>>)
  \/ \E l \in {"writer", "writer got"} : s = On(l, k, On("child done", k, <<>>))
  \/ \E l \in Popping : s = On(l, outbox(k), On("writer got", k, On("child done", k, <<>>)))
  \/ SendStack(k, "writer", s)

HelperStack(k, s) ==
  \/ s = <<>>
  \/ \E l \in {"child", "child done"} : s = On(l, k, <<>>)
  \/ \E l \in {"helper", "slept", "return"} : s = On(l, k, On("child done", k, <<>>))
  \/ \E l \in {"sleepFor", "return"} : s = On(l, 0, On("slept", k, On("child done", k, <<>>)))
  \/ SendStack(k, "return", s)

\* Every chain has one of its stacks.
Stacks ==
  /\ MainStack(frames[Main]) /\ RoomStack(frames[Room])
  /\ \A k \in Clients :
       /\ SessionStack(k, frames[session(k)])
       /\ WriterStack(k, frames[writer(k)]) /\ HelperStack(k, frames[helper(k)])

\* What a run queue has, and what an AsyncQueue has.
Tasks    == Coros \cup ({"start", "cleanup"} \X Clients)
Streams  == {"stream"} \X Clients
Commands == {<<"say", 0>>} \cup ({"join", "leave"} \X Clients)
Values   == Streams \cup Commands \cup Chunks \cup {<<"ready", 0>>, <<"msg", 0>>}

\* The types of the state.
Typed ==
  /\ running \in [Execs -> Coros \cup {None}]
  /\ hand \in [Execs -> (Coros \X Execs) \cup {None}]
  /\ runq \in [Execs -> Seq(Tasks)] /\ inbound \in [Execs -> Seq(Tasks)]
  /\ timers \in [Execs -> SUBSET Coros]
  /\ frames \in [Coros -> Stack] /\ got = [c \in Coros |-> got[c]]
  /\ queue \in [Queues -> [q : Seq(Values), closed : BOOLEAN, exec : Execs \cup {NoExec},
                           waiter : Coros \cup {None}]]
  /\ active \in [Clients -> Nat] /\ join_waiter \in [Clients -> Coros \cup {None}]
  /\ watcher \in [Clients -> {"none", "open", "closed"}]
  /\ send_locked \subseteq Clients /\ send_lock_waiters \in [Clients -> Seq(Coros)]
  /\ rr \in Execs /\ chunks \in [Clients -> Nat \cup {-1}]
  /\ clients \in Seq(Clients) /\ it \in Nat \ {0}
  /\ queue[accepted].q \in Seq(Streams) /\ got[Main] \in Streams \cup {None}
  /\ queue[cmds].q \in Seq(Commands) /\ got[Room] \in Commands \cup {None}

\* c has f as its innermost frame; x is in the sequence s.
HeadIs(c, f) == frames[c] # <<>> /\ Head(frames[c]) = f
Among(s, x) == \E i \in DOMAIN s : s[i] = x

\* Who waits somewhere is where its frames say.
Parked ==
  /\ \A q \in Queues : queue[q].waiter # None =>
       HeadIs(queue[q].waiter, Frame("resume", q)) /\ queue[q].exec # NoExec
  /\ \A k \in Clients : join_waiter[k] # None => HeadIs(join_waiter[k], Frame("joined", k))
  /\ \A k \in Clients, c \in Coros :
       Among(send_lock_waiters[k], c) => HeadIs(c, Frame("locked", k))

\* A queue that a chain may pop has been given its executor.
Bound ==
  /\ frames[Room] # <<>> => queue[cmds].exec # NoExec
  /\ \/ queue[accepted].exec # NoExec \/ frames[Main] = <<>>
     \/ Head(frames[Main]).at \in {"main", "listen"}
  /\ \A k \in Clients :
       /\ watcher[k] # "none" => queue[recv_q(k)].exec # NoExec /\ queue[send_ready_q(k)].exec # NoExec
       /\ frames[writer(k)] # <<>> => queue[outbox(k)].exec # NoExec

\* 1 for TRUE, and 0 for FALSE.
One(b) == IF b THEN 1 ELSE 0

\* The session of client k is not between the spawn of its children and join().
Childless(k) ==
  \/ frames[session(k)] = <<>> \/ HeadIs(session(k), Frame("session", k))
  \/ HeadIs(session(k), Frame("session end", k))
  \/ HeadIs(session(k), Frame("joined", k)) /\ join_waiter[k] = None

\* active counts the children that have not ended: none before the session spawns them and
\* once join() has returned. Main starts the room and a session needs its watcher.
Children ==
  /\ HeadIs(Main, Frame("main", 0)) => frames[Room] = <<>>
  /\ \A k \in Clients :
       /\ active[k] = One(frames[writer(k)] # <<>>) + One(frames[helper(k)] # <<>>)
       /\ watcher[k] = "none" => frames[session(k)] = <<>>
       /\ Childless(k) => active[k] = 0

\* How often a client is on its way to StartSession: accepted, or posted to its worker.
Tickets(k) ==
    Cardinality({i \in DOMAIN queue[accepted].q : queue[accepted].q[i] = <<"stream", k>>})
  + One(got[Main] = <<"stream", k>>)
  + InQueues(runq, Execs, <<"start", k>>) + InQueues(inbound, Execs, <<"start", k>>)

\* That is at most once, and never again once its watcher exists.
Ticketed ==
  \A k \in Clients :
    /\ Tickets(k) <= 1
    /\ watcher[k] # "none" => Tickets(k) = 0
    /\ chunks[k] = -1 => watcher[k] = "none" /\ Tickets(k) = 0

\* The room and the run queues know of a client only once its watcher exists.
Known ==
  \A k \in Clients :
    \/ watcher[k] # "none"
    \/ /\ ~ Among(queue[cmds].q, <<"join", k>>) /\ got[Room] # <<"join", k>>
       /\ ~ Among(clients, k)
       /\ \A e \in Execs : ~ Among(runq[e], <<"cleanup", k>>) /\ ~ Among(inbound[e], <<"cleanup", k>>)

\* c has the send lock of client k: it is sending, or the lock was passed on to it.
Owner(c, k) ==
  \/ Sending(c, k)
  \/ HeadIs(c, Frame("locked", k)) /\ ~ Among(send_lock_waiters[k], c)

\* send_locked is set while a chain has the lock, and one chain only has it.
Locks ==
  \A k \in Clients, c \in Coros : Owner(c, k) =>
    /\ k \in send_locked
    /\ \A d \in Coros : Owner(d, k) => c = d

\* The room has the command it handles, walks within its clients, and wakes up only with a command.
RoomOK ==
  /\ RoomAt({"command", "cast", "pushed"}) => got[Room] # None
  /\ RoomAt({"pushed"}) => it <= Len(clients)
  /\ HeadIs(Room, Frame("resume", cmds)) => queue[cmds].q # <<>> \/ queue[cmds].waiter = Room
  /\ ~ queue[cmds].closed

\* The inductive invariant.
IInv ==
  /\ Typed /\ Stacks /\ OneResumption /\ Parked /\ Bound /\ Children /\ Ticketed /\ Known
  /\ Locks /\ RoomOK /\ DroppedStreamIsClosed

----------------------------------------------------------------------------
(* Counting. *)

\* Cardinality, where two sets differ in one element only.
LEMMA CountMove ==
  ASSUME NEW S, NEW T, NEW x, IsFiniteSet(S), S \ {x} = T \ {x}
  PROVE  /\ IsFiniteSet(T) /\ Cardinality(S) \in Nat /\ Cardinality(T) \in Nat
         /\ Cardinality(T) = Cardinality(S) - One(x \in S) + One(x \in T)
         /\ x \in S => Cardinality(S) >= 1
<1> DEFINE R == S \ {x}
<1>1. IsFiniteSet(R) /\ Cardinality(S) \in Nat /\ Cardinality(R) \in Nat
  <2>1. IsFiniteSet(R)
    BY FS_RemoveElement
  <2> HIDE DEF R
  <2> QED
    BY <2>1, FS_CardinalityType
<1>2. /\ IsFiniteSet(R \cup {x})
      /\ Cardinality(R \cup {x}) = Cardinality(R) + 1
  <2>1. x \notin R
    OBVIOUS
  <2> HIDE DEF R
  <2> QED
    BY <1>1, <2>1, FS_AddElement
<1>3. \A V : V \ {x} = R => V = IF x \in V THEN R \cup {x} ELSE R
  OBVIOUS
<1>4. T \ {x} = R
  OBVIOUS
<1>5. S \ {x} = R
  OBVIOUS
<1> HIDE DEF R
<1>6. IsFiniteSet(S) /\ Cardinality(S) = Cardinality(R) + One(x \in S)
  <2>1. CASE x \in S
    <3>1. S = R \cup {x} /\ One(x \in S) = 1
      BY <1>3, <1>5, <2>1 DEF One
    <3> QED
      BY <1>2, <3>1
  <2>2. CASE x \notin S
    <3>1. S = R /\ One(x \in S) = 0
      BY <1>3, <1>5, <2>2 DEF One
    <3> QED
      BY <1>1, <3>1
  <2> QED
    BY <2>1, <2>2
<1>7. IsFiniteSet(T) /\ Cardinality(T) = Cardinality(R) + One(x \in T)
  <2>1. CASE x \in T
    <3>1. T = R \cup {x} /\ One(x \in T) = 1
      BY <1>3, <1>4, <2>1 DEF One
    <3> QED
      BY <1>2, <3>1
  <2>2. CASE x \notin T
    <3>1. T = R /\ One(x \in T) = 0
      BY <1>3, <1>4, <2>2 DEF One
    <3> QED
      BY <1>1, <3>1
  <2> QED
    BY <2>1, <2>2
<1>8. One(x \in S) \in {0, 1} /\ One(x \in T) \in {0, 1} /\ (x \in S => One(x \in S) = 1)
  BY DEF One
<1> QED
  BY <1>1, <1>6, <1>7, <1>8

\* The cardinality of a disjoint union.
LEMMA CountUnion ==
  ASSUME NEW S, NEW T, IsFiniteSet(S), IsFiniteSet(T), S \cap T = {}
  PROVE  IsFiniteSet(S \cup T) /\ Cardinality(S \cup T) = Cardinality(S) + Cardinality(T)
<1>1. IsFiniteSet(S \cup T)
      /\ Cardinality(S \cup T) = Cardinality(S) + Cardinality(T) - Cardinality(S \cap T)
  BY FS_Union
<1>2. Cardinality(S \cap T) = 0
  BY FS_EmptySet, Zenon
<1>3. Cardinality(S) \in Nat /\ Cardinality(T) \in Nat
  BY FS_CardinalityType
<1> QED
  BY <1>1, <1>2, <1>3

\* How often t stands in the sequence s.
Slots(s, t) == {i \in DOMAIN s : s[i] = t}
Occurs(s, t) == Cardinality(Slots(s, t))

\* Occurs is a number, positive where t is in the sequence;
LEMMA OccursFacts ==
  ASSUME NEW X, NEW s \in Seq(X), NEW t
  PROVE  /\ IsFiniteSet(Slots(s, t)) /\ Occurs(s, t) \in Nat
         /\ Slots(s, t) = {i \in 1 .. Len(s) : s[i] = t} /\ Len(s) \in Nat
         /\ Occurs(s, t) >= 1 <=> Among(s, t)
<1>1. DOMAIN s = 1 .. Len(s) /\ Len(s) \in Nat
  BY LenProperties
<1>2. IsFiniteSet(1 .. Len(s))
  BY <1>1, FS_Interval
<1>3. Slots(s, t) = {i \in 1 .. Len(s) : s[i] = t}
  BY <1>1 DEF Slots
<1>4. IsFiniteSet(Slots(s, t))
  <2>1. Slots(s, t) \subseteq 1 .. Len(s)
    BY <1>3
  <2> QED
    BY <1>2, <2>1, FS_Subset
<1>5. Occurs(s, t) \in Nat /\ (Occurs(s, t) = 0 <=> Slots(s, t) = {})
  BY <1>4, FS_CardinalityType, FS_EmptySet DEF Occurs
<1>6. Slots(s, t) # {} <=> Among(s, t)
  BY DEF Slots, Among
<1> QED
  BY <1>1, <1>3, <1>4, <1>5, <1>6

\* 0 in the empty sequence;
LEMMA OccursNone == \A t : Occurs(<<>>, t) = 0
<1> SUFFICES ASSUME NEW t PROVE Occurs(<<>>, t) = 0
  OBVIOUS
<1>1. Slots(<<>>, t) = {}
  BY DEF Slots
<1> QED
  BY <1>1, FS_EmptySet, Zenon DEF Occurs

\* 1 or 0 in one of length 1;
LEMMA OccursOne == \A a, t : Occurs(<<a>>, t) = One(a = t)
<1> SUFFICES ASSUME NEW a, NEW t PROVE Occurs(<<a>>, t) = One(a = t)
  OBVIOUS
<1>1. DOMAIN <<a>> = 1 .. 1 /\ <<a>>[1] = a
  OBVIOUS
<1>2. CASE a = t
  <2>1. Slots(<<a>>, t) = {1}
    BY <1>1, <1>2 DEF Slots
  <2>2. Cardinality({1}) = 1
    BY FS_Singleton
  <2> QED
    BY <1>2, <2>1, <2>2 DEF Occurs, One
<1>3. CASE a # t
  <2>1. Slots(<<a>>, t) = {}
    BY <1>1, <1>3 DEF Slots
  <2>2. Cardinality({}) = 0
    BY FS_EmptySet
  <2> QED
    BY <1>3, <2>1, <2>2 DEF Occurs, One
<1> QED
  BY <1>2, <1>3

\* Moving every position by k changes none of their number.
LEMMA Shifted ==
  ASSUME NEW S \in SUBSET Nat, NEW T, NEW k \in Nat, IsFiniteSet(S), T = {i + k : i \in S}
  PROVE  IsFiniteSet(T) /\ Cardinality(T) = Cardinality(S)
<1> DEFINE f == [i \in S |-> i + k]
<1>1. f \in Bijection(S, T)
  BY DEF Bijection, Injection, Surjection, IsInjective
<1> QED
  BY <1>1, FS_Bijection DEF ExistsBijection

\* and the sum in a concatenation.
LEMMA OccursCat ==
  ASSUME NEW X, NEW a \in Seq(X), NEW b \in Seq(X), NEW t
  PROVE  Occurs(a \o b, t) = Occurs(a, t) + Occurs(b, t)
<1> DEFINE k == Len(a)
           n == Len(b)
           s == a \o b
           B == {i + k : i \in Slots(b, t)}
<1>1. /\ s \in Seq(X) /\ Len(s) = k + n /\ k \in Nat /\ n \in Nat
      /\ \A i \in 1 .. k + n : s[i] = IF i <= k THEN a[i] ELSE b[i - k]
  BY ConcatProperties, LenProperties
<1>2. /\ Slots(s, t) = {i \in 1 .. Len(s) : s[i] = t}
      /\ Slots(a, t) = {i \in 1 .. k : a[i] = t}
      /\ Slots(b, t) = {i \in 1 .. n : b[i] = t}
      /\ IsFiniteSet(Slots(a, t)) /\ IsFiniteSet(Slots(b, t))
  BY <1>1, OccursFacts
<1> HIDE DEF s, k, n
<1>3. Slots(b, t) \in SUBSET Nat
  BY <1>1, <1>2
<1>4. IsFiniteSet(B) /\ Cardinality(B) = Occurs(b, t)
  BY <1>1, <1>2, <1>3, Shifted DEF Occurs
<1>5. Slots(a, t) \cap B = {}
  BY <1>1, <1>2
<1>6. Slots(s, t) = Slots(a, t) \cup B
  <2>1. ASSUME NEW i \in Slots(s, t) PROVE i \in Slots(a, t) \cup B
    <3>1. CASE i <= k
      BY <1>1, <1>2, <2>1, <3>1
    <3>2. CASE ~ (i <= k)
      <4>1. i - k \in 1 .. n /\ (i - k) + k = i
        BY <1>1, <1>2, <2>1, <3>2
      <4>2. i - k \in Slots(b, t)
        BY <1>1, <1>2, <2>1, <3>2, <4>1
      <4> QED
        BY <4>1, <4>2
    <3> QED
      BY <3>1, <3>2
  <2>2. ASSUME NEW i \in Slots(a, t) PROVE i \in Slots(s, t)
    BY <1>1, <1>2, <2>2
  <2>3. ASSUME NEW i \in Slots(b, t) PROVE i + k \in Slots(s, t)
    <3>1. i + k \in 1 .. k + n /\ ~ (i + k <= k) /\ (i + k) - k = i
      BY <1>1, <1>2, <2>3
    <3> QED
      BY <1>1, <1>2, <2>3, <3>1
  <2> QED
    BY <2>1, <2>2, <2>3
<1> HIDE DEF B
<1>7. Cardinality(Slots(a, t) \cup B) = Cardinality(Slots(a, t)) + Cardinality(B)
  BY <1>2, <1>4, <1>5, CountUnion
<1>8. Cardinality(Slots(s, t)) = Cardinality(Slots(a, t)) + Cardinality(B)
  BY <1>6, <1>7, Zenon
<1> QED
  BY <1>4, <1>8, Zenon DEF Occurs, s

\* So Append adds one, if it appends t;
LEMMA OccursAppend ==
  ASSUME NEW X, NEW s \in Seq(X), NEW a \in X, NEW t
  PROVE  Occurs(Append(s, a), t) = Occurs(s, t) + One(a = t)
<1>1. Append(s, a) = s \o <<a>> /\ <<a>> \in Seq(X)
  BY AppendIsConcat
<1>2. Occurs(s \o <<a>>, t) = Occurs(s, t) + Occurs(<<a>>, t)
  BY <1>1, OccursCat
<1>3. Occurs(<<a>>, t) = One(a = t)
  BY OccursOne
<1> QED
  BY <1>1, <1>2, <1>3

\* and Tail takes one away, if t was the head.
LEMMA OccursTail ==
  ASSUME NEW X, NEW s \in Seq(X), s # <<>>, NEW t
  PROVE  /\ Occurs(Tail(s), t) = Occurs(s, t) - One(Head(s) = t)
         /\ Head(s) \in X /\ Tail(s) \in Seq(X)
<1>1. Head(s) \in X /\ Tail(s) \in Seq(X) /\ <<Head(s)>> \in Seq(X)
  BY HeadTailProperties
<1>2. s = <<Head(s)>> \o Tail(s)
  <2> DEFINE r == <<Head(s)>> \o Tail(s)
  <2>1. Len(s) \in Nat \ {0} /\ Head(s) = s[1]
    BY EmptySeq
  <2>2. /\ Len(Tail(s)) = Len(s) - 1
        /\ \A i \in 1 .. Len(Tail(s)) : Tail(s)[i] = s[i + 1]
    BY HeadTailProperties
  <2>3. /\ r \in Seq(X) /\ Len(r) = 1 + (Len(s) - 1)
        /\ \A i \in 1 .. 1 + (Len(s) - 1) : r[i] = IF i <= 1 THEN <<Head(s)>>[i] ELSE Tail(s)[i - 1]
    <3>1. Len(<<Head(s)>>) = 1
      OBVIOUS
    <3> QED
      BY <1>1, <2>2, <3>1, ConcatProperties
  <2> HIDE DEF r
  <2>4. ASSUME NEW i \in 1 .. Len(s) PROVE s[i] = r[i]
    <3>1. CASE i = 1
      <4>1. <<Head(s)>>[1] = Head(s)
        OBVIOUS
      <4>2. i \in 1 .. 1 + (Len(s) - 1) /\ i <= 1
        BY <2>1, <3>1
      <4> QED
        BY <2>1, <2>3, <3>1, <4>1, <4>2
    <3>2. CASE i # 1
      <4>1. i \in 1 .. 1 + (Len(s) - 1) /\ ~ (i <= 1) /\ i - 1 \in 1 .. Len(Tail(s)) /\ (i - 1) + 1 = i
        BY <2>1, <2>2, <3>2
      <4> QED
        BY <2>2, <2>3, <4>1
    <3> QED
      BY <3>1, <3>2
  <2>5. Len(r) = Len(s)
    BY <2>1, <2>3
  <2> QED
    BY <2>3, <2>4, <2>5, SeqEqual DEF r
<1>3. Occurs(<<Head(s)>> \o Tail(s), t) = Occurs(<<Head(s)>>, t) + Occurs(Tail(s), t)
  BY <1>1, OccursCat
<1>4. Occurs(s, t) = One(Head(s) = t) + Occurs(Tail(s), t)
  <2>1. Occurs(<<Head(s)>>, t) = One(Head(s) = t)
    BY OccursOne
  <2> DEFINE r == <<Head(s)>> \o Tail(s)
  <2>2. s = r /\ Occurs(r, t) = Occurs(<<Head(s)>>, t) + Occurs(Tail(s), t)
    BY <1>2, <1>3
  <2> HIDE DEF r
  <2> QED
    BY <2>1, <2>2
<1>5. Occurs(Tail(s), t) \in Nat /\ One(Head(s) = t) \in Nat
  BY <1>1, OccursFacts DEF One
<1> QED
  BY <1>1, <1>4, <1>5

----------------------------------------------------------------------------
(* Counting in the queues of all workers, or in the locks of all streams. *)

\* The places of t in the queues f[x].
Cells(f, S, t) == UNION {{x} \X Slots(f[x], t) : x \in S}

\* InQueues counts them.
LEMMA CellsFacts ==
  ASSUME NEW S, IsFiniteSet(S), NEW X, NEW f \in [S -> Seq(X)], NEW t
  PROVE  /\ IsFiniteSet(Cells(f, S, t)) /\ InQueues(f, S, t) \in Nat
         /\ InQueues(f, S, t) = Cardinality(Cells(f, S, t))
         /\ \A x \in S : \A i : <<x, i>> \in Cells(f, S, t) <=> i \in Slots(f[x], t)
         /\ \A p \in Cells(f, S, t) : p[1] \in S /\ p = <<p[1], p[2]>>
<1> DEFINE col == [x \in S |-> {x} \X Slots(f[x], t)]
           cols == {col[x] : x \in S}
<1>1. \A x \in S : IsFiniteSet({x} \X Slots(f[x], t))
  <2> TAKE x \in S
  <2> DEFINE A == {x}
             B == Slots(f[x], t)
  <2>1. IsFiniteSet(A) /\ IsFiniteSet(B)
    BY FS_Singleton, OccursFacts
  <2> HIDE DEF A, B
  <2>2. IsFiniteSet(A \X B)
    BY <2>1, FS_Product, Zenon
  <2> QED
    BY <2>2 DEF A, B
<1>2. col \in Surjection(S, cols)
  BY DEF Surjection
<1>3. IsFiniteSet(cols)
  BY <1>2, FS_Surjection
<1>4. \A c \in cols : IsFiniteSet(c)
  BY <1>1
<1>5. IsFiniteSet(UNION cols)
  BY <1>3, <1>4, FS_UNION
<1>6. UNION cols = Cells(f, S, t)
  BY DEF Cells
<1>7. IsFiniteSet(Cells(f, S, t))
  BY <1>5, <1>6, Zenon
<1>8. InQueues(f, S, t) = Cardinality(Cells(f, S, t))
  BY DEF InQueues, Cells, Slots
<1>9. Cardinality(Cells(f, S, t)) \in Nat
  BY <1>7, FS_CardinalityType
<1>10. \A x \in S : \A i : <<x, i>> \in Cells(f, S, t) <=> i \in Slots(f[x], t)
  BY DEF Cells
<1>11. \A p \in Cells(f, S, t) : p[1] \in S /\ p = <<p[1], p[2]>>
  BY DEF Cells
<1> QED
  BY <1>7, <1>8, <1>9, <1>10, <1>11

\* Empty queues have nothing.
LEMMA InQueuesNone ==
  ASSUME NEW S, NEW f, NEW t, \A x \in S : f[x] = <<>>
  PROVE  InQueues(f, S, t) = 0
<1>1. \A x \in S : Slots(f[x], t) = {}
  BY DEF Slots
<1>2. Cells(f, S, t) = {}
  BY <1>1 DEF Cells
<1> QED
  BY <1>2, FS_EmptySet, Zenon DEF InQueues, Cells, Slots

\* One of the queues is replaced.
Changed(f, g, S, X, x) ==
  /\ IsFiniteSet(S) /\ f \in [S -> Seq(X)] /\ g \in [S -> Seq(X)] /\ x \in S
  /\ \A y \in S \ {x} : g[y] = f[y]

\* One of the queues changes;
LEMMA InQueuesChange ==
  ASSUME NEW S, NEW X, NEW f, NEW g, NEW x, NEW t, Changed(f, g, S, X, x)
  PROVE  /\ InQueues(g, S, t) = InQueues(f, S, t) - Occurs(f[x], t) + Occurs(g[x], t)
         /\ InQueues(f, S, t) \in Nat /\ InQueues(g, S, t) \in Nat
         /\ Occurs(f[x], t) <= InQueues(f, S, t) /\ Occurs(f[x], t) \in Nat /\ Occurs(g[x], t) \in Nat
<1> DEFINE rest == {p \in Cells(f, S, t) : p[1] # x}
           old == {x} \X Slots(f[x], t)
           new == {x} \X Slots(g[x], t)
<1>1. /\ IsFiniteSet(S) /\ f \in [S -> Seq(X)] /\ g \in [S -> Seq(X)] /\ x \in S
      /\ \A y \in S \ {x} : g[y] = f[y]
  BY DEF Changed
<1>2. /\ IsFiniteSet(Cells(f, S, t)) /\ InQueues(f, S, t) = Cardinality(Cells(f, S, t))
      /\ \A y \in S : \A i : <<y, i>> \in Cells(f, S, t) <=> i \in Slots(f[y], t)
      /\ \A p \in Cells(f, S, t) : p[1] \in S /\ p = <<p[1], p[2]>>
  BY <1>1, CellsFacts
<1>3. /\ InQueues(g, S, t) = Cardinality(Cells(g, S, t))
      /\ \A y \in S : \A i : <<y, i>> \in Cells(g, S, t) <=> i \in Slots(g[y], t)
      /\ \A p \in Cells(g, S, t) : p[1] \in S /\ p = <<p[1], p[2]>>
  BY <1>1, CellsFacts
<1>4. IsFiniteSet(rest)
  BY <1>2, FS_Subset
<1>5. ASSUME NEW V \in {Slots(f[x], t), Slots(g[x], t)}
      PROVE  IsFiniteSet({x} \X V) /\ Cardinality({x} \X V) = Cardinality(V) /\ Cardinality(V) \in Nat
  <2>1. IsFiniteSet(V)
    BY <1>1, OccursFacts
  <2> DEFINE W == {x}
  <2>2. IsFiniteSet(W) /\ Cardinality(W) = 1
    BY FS_Singleton
  <2> HIDE DEF W
  <2>3. IsFiniteSet(W \X V) /\ Cardinality(W \X V) = Cardinality(W) * Cardinality(V)
    BY <2>1, <2>2, FS_Product, Zenon
  <2>4. Cardinality(W \X V) = 1 * Cardinality(V)
    BY <2>2, <2>3, Zenon
  <2>5. Cardinality(V) \in Nat
    BY <2>1, FS_CardinalityType
  <2>6. 1 * Cardinality(V) = Cardinality(V)
    BY <2>5
  <2>7. Cardinality(W \X V) = Cardinality(V)
    BY <2>4, <2>6, Zenon
  <2> QED
    BY <2>3, <2>5, <2>7, Zenon DEF W
<1>6. rest \cap old = {} /\ rest \cap new = {}
  OBVIOUS
<1>7. Cells(f, S, t) = rest \cup old
  <2>1. ASSUME NEW p \in Cells(f, S, t) PROVE p \in rest \cup old
    BY <1>2, <2>1
  <2>2. ASSUME NEW i \in Slots(f[x], t) PROVE <<x, i>> \in Cells(f, S, t)
    BY <1>1, <1>2, <2>2
  <2> QED
    BY <2>1, <2>2
<1>8. Cells(g, S, t) = rest \cup new
  <2>1. ASSUME NEW p \in Cells(g, S, t) PROVE p \in rest \cup new
    <3>1. p[2] \in Slots(g[p[1]], t)
      BY <1>1, <1>3, <2>1
    <3>2. CASE p[1] = x
      BY <1>1, <1>3, <2>1, <3>1, <3>2
    <3>3. CASE p[1] # x
      <4>1. p[2] \in Slots(f[p[1]], t) /\ p[1] \in S /\ p = <<p[1], p[2]>>
        BY <1>1, <1>3, <2>1, <3>1, <3>3
      <4>2. p \in Cells(f, S, t)
        BY <1>2, <4>1
      <4> QED
        BY <3>3, <4>2
    <3> QED
      BY <3>2, <3>3
  <2>2. ASSUME NEW i \in Slots(g[x], t) PROVE <<x, i>> \in Cells(g, S, t)
    BY <1>1, <1>3, <2>2
  <2>3. ASSUME NEW p \in rest PROVE p \in Cells(g, S, t)
    <3>1. p[1] \in S \ {x} /\ p = <<p[1], p[2]>> /\ p[2] \in Slots(f[p[1]], t)
      BY <1>2, <2>3
    <3>2. p[2] \in Slots(g[p[1]], t)
      BY <1>1, <3>1
    <3> QED
      BY <1>1, <1>3, <3>1, <3>2
  <2> QED
    BY <2>1, <2>2, <2>3
<1>9. /\ IsFiniteSet(old) /\ Cardinality(old) = Occurs(f[x], t) /\ Occurs(f[x], t) \in Nat
      /\ IsFiniteSet(new) /\ Cardinality(new) = Occurs(g[x], t) /\ Occurs(g[x], t) \in Nat
  BY <1>5 DEF Occurs
<1> HIDE DEF rest, old, new
<1>10. Cardinality(rest \cup old) = Cardinality(rest) + Cardinality(old)
       /\ Cardinality(rest \cup new) = Cardinality(rest) + Cardinality(new)
  BY <1>4, <1>6, <1>9, CountUnion
<1>11. Cardinality(rest) \in Nat
  BY <1>4, FS_CardinalityType
<1>12. InQueues(f, S, t) = Cardinality(rest) + Occurs(f[x], t)
  BY <1>2, <1>7, <1>9, <1>10
<1>13. InQueues(g, S, t) = Cardinality(rest) + Occurs(g[x], t)
  BY <1>3, <1>8, <1>9, <1>10
<1> QED
  BY <1>3, <1>9, <1>11, <1>12, <1>13

\* The three things the code does to a queue.
LEMMA InQueuesAdd ==
  ASSUME NEW S, NEW X, NEW f, NEW g, NEW x, NEW t, Changed(f, g, S, X, x), NEW s \in Seq(X)
  PROVE  g[x] = f[x] \o s => InQueues(g, S, t) = InQueues(f, S, t) + Occurs(s, t)
<1>1. f[x] \in Seq(X)
  BY DEF Changed
<1>2. Occurs(f[x] \o s, t) = Occurs(f[x], t) + Occurs(s, t)
  BY <1>1, OccursCat
<1>3. Occurs(f[x], t) \in Nat /\ Occurs(s, t) \in Nat
  BY <1>1, OccursFacts
<1>4. /\ InQueues(g, S, t) = InQueues(f, S, t) - Occurs(f[x], t) + Occurs(g[x], t)
      /\ InQueues(f, S, t) \in Nat
  BY InQueuesChange
<1>5. g[x] = f[x] \o s => Occurs(g[x], t) = Occurs(f[x], t) + Occurs(s, t)
  BY <1>2, Zenon
<1> QED
  BY <1>3, <1>4, <1>5

\* by an Append;
LEMMA InQueuesPost ==
  ASSUME NEW S, NEW X, NEW f, NEW g, NEW x, NEW t, Changed(f, g, S, X, x), NEW a \in X
  PROVE  g[x] = Append(f[x], a) => InQueues(g, S, t) = InQueues(f, S, t) + One(a = t)
<1>1. f[x] \in Seq(X)
  BY DEF Changed
<1>2. Occurs(Append(f[x], a), t) = Occurs(f[x], t) + One(a = t)
  BY <1>1, OccursAppend
<1>3. Occurs(f[x], t) \in Nat /\ One(a = t) \in Nat
  BY <1>1, OccursFacts DEF One
<1>4. /\ InQueues(g, S, t) = InQueues(f, S, t) - Occurs(f[x], t) + Occurs(g[x], t)
      /\ InQueues(f, S, t) \in Nat
  BY InQueuesChange
<1>5. g[x] = Append(f[x], a) => Occurs(g[x], t) = Occurs(f[x], t) + One(a = t)
  BY <1>2, Zenon
<1> QED
  BY <1>3, <1>4, <1>5

\* or by a Tail.
LEMMA InQueuesTake ==
  ASSUME NEW S, NEW X, NEW f, NEW g, NEW x, NEW t, Changed(f, g, S, X, x), f[x] # <<>>
  PROVE  g[x] = Tail(f[x]) => /\ InQueues(g, S, t) = InQueues(f, S, t) - One(Head(f[x]) = t)
                              /\ Head(f[x]) = t => InQueues(f, S, t) >= 1
<1>1. f[x] \in Seq(X)
  BY DEF Changed
<1>2. Occurs(Tail(f[x]), t) = Occurs(f[x], t) - One(Head(f[x]) = t)
  BY <1>1, OccursTail
<1>3. /\ Occurs(f[x], t) \in Nat /\ One(Head(f[x]) = t) \in Nat
      /\ Head(f[x]) = t => One(Head(f[x]) = t) = 1
  BY <1>1, OccursFacts DEF One
<1>4. /\ InQueues(g, S, t) = InQueues(f, S, t) - Occurs(f[x], t) + Occurs(g[x], t)
      /\ InQueues(f, S, t) \in Nat /\ InQueues(g, S, t) \in Nat /\ Occurs(g[x], t) \in Nat
      /\ Occurs(f[x], t) <= InQueues(f, S, t)
  BY InQueuesChange
<1>5. g[x] = Tail(f[x]) => Occurs(g[x], t) = Occurs(f[x], t) - One(Head(f[x]) = t)
  BY <1>2, Zenon
<1> QED
  BY <1>3, <1>4, <1>5

\* What is in one of the queues is counted.
LEMMA InQueuesSome ==
  ASSUME NEW S, IsFiniteSet(S), NEW X, NEW f \in [S -> Seq(X)], NEW x \in S, NEW t, Among(f[x], t)
  PROVE  InQueues(f, S, t) >= 1
<1>1. PICK i : i \in Slots(f[x], t)
  BY DEF Among, Slots
<1>2. <<x, i>> \in Cells(f, S, t) /\ IsFiniteSet(Cells(f, S, t))
  BY <1>1, CellsFacts
<1>3. Cardinality(Cells(f, S, t)) # 0 /\ Cardinality(Cells(f, S, t)) \in Nat
  BY <1>2, FS_EmptySet, FS_CardinalityType
<1> QED
  BY <1>3, CellsFacts

----------------------------------------------------------------------------
(* The places of a chain, one kind after the other, and what changes them. *)

\* The parts of the sum Places: running, handed over, waiting in pop(), in join(), on a timer,
\* in a run queue, in the inbox of one, for a send lock.
RunN(c)  == Cardinality({e \in Execs : running[e] = c})
HandN(c) == Cardinality({e \in Execs : hand[e] # None /\ hand[e][1] = c})
WaitN(c) == Cardinality({q \in Queues : queue[q].waiter = c})
JoinN(c) == Cardinality({k \in Clients : join_waiter[k] = c})
TimeN(c) == Cardinality({e \in Execs : c \in timers[e]})
RunqN(t) == InQueues(runq, Execs, t)
InbN(t)  == InQueues(inbound, Execs, t)
LockN(c) == InQueues(send_lock_waiters, Clients, c)

\* Places is their sum.
LEMMA PlacesSum ==
  \A c : Places(c) = RunN(c) + HandN(c) + WaitN(c) + JoinN(c) + TimeN(c) + RunqN(c) + InbN(c) + LockN(c)
  BY DEF Places, RunN, HandN, WaitN, JoinN, TimeN, RunqN, InbN, LockN

\* The sets that are counted over are finite.
LEMMA Finite == IsFiniteSet(Execs) /\ IsFiniteSet(Queues) /\ IsFiniteSet(Clients)
<1>1. IsFiniteSet(Execs)
  <2>1. 0 \in Int /\ WorkerN - 1 \in Int /\ Execs = 0 .. WorkerN - 1
    BY TcpAssumption
  <2> QED
    BY <2>1, FS_Interval
<1>2. IsFiniteSet(Clients)
  BY TcpAssumption
<1>3. IsFiniteSet(Queues)
  <2> DEFINE A == {"recv", "send_ready", "outbox"}
             B == A \X Clients
  <2>1. IsFiniteSet(A)
    <3> DEFINE C == {"recv"}
               D == C \cup {"send_ready"}
    <3>1. IsFiniteSet(C)
      BY FS_Singleton
    <3>2. IsFiniteSet(D)
      <4> HIDE DEF C
      <4> QED
        BY <3>1, FS_AddElement
    <3>3. IsFiniteSet(D \cup {"outbox"})
      <4> HIDE DEF D
      <4> QED
        BY <3>2, FS_AddElement
    <3>4. A = D \cup {"outbox"}
      OBVIOUS
    <3> QED
      BY <3>3, <3>4
  <2>2. IsFiniteSet(B)
    <3> HIDE DEF A
    <3> QED
      BY <1>2, <2>1, FS_Product
  <2>3. IsFiniteSet((B \cup {accepted}) \cup {cmds})
    <3> HIDE DEF B
    <3>1. IsFiniteSet(B \cup {accepted})
      BY <2>2, FS_AddElement
    <3> DEFINE C == B \cup {accepted}
    <3> HIDE DEF C
    <3>2. IsFiniteSet(C) => IsFiniteSet(C \cup {cmds})
      BY FS_AddElement
    <3> QED
      BY <3>1, <3>2 DEF C
  <2>4. Queues = (B \cup {accepted}) \cup {cmds}
    BY ChatAssumption DEF AllQueues
  <2> QED
    BY <2>3, <2>4
<1> QED
  BY <1>1, <1>2, <1>3

\* Two subsets that differ in one element at most.
LEMMA CountPoint ==
  ASSUME NEW S, IsFiniteSet(S), NEW A \in SUBSET S, NEW B \in SUBSET S, NEW x,
         \A y \in S : y # x => (y \in A <=> y \in B)
  PROVE  /\ Cardinality(A) \in Nat /\ Cardinality(B) \in Nat
         /\ Cardinality(B) = Cardinality(A) - One(x \in A) + One(x \in B)
         /\ x \in A => Cardinality(A) >= 1
<1>1. IsFiniteSet(A)
  BY FS_Subset
<1>2. A \ {x} = B \ {x}
  OBVIOUS
<1> QED
  BY <1>1, <1>2, CountMove

\* What a part becomes when one of its places changes.
LEMMA RunSet ==
  ASSUME NEW e \in Execs, NEW c, \A x \in Execs : x # e => running'[x] = running[x]
  PROVE  /\ RunN(c)' = RunN(c) - One(running[e] = c) + One(running'[e] = c)
         /\ RunN(c) \in Nat /\ RunN(c)' \in Nat
         /\ running[e] = c => RunN(c) >= 1
<1> DEFINE A == {x \in Execs : running[x] = c}
           B == {x \in Execs : running'[x] = c}
<1>1. /\ A \in SUBSET Execs /\ B \in SUBSET Execs /\ \A y \in Execs : y # e => (y \in A <=> y \in B)
      /\ e \in A <=> running[e] = c
      /\ e \in B <=> running'[e] = c
      /\ RunN(c) = Cardinality(A) /\ RunN(c)' = Cardinality(B)
  BY DEF RunN
<1> HIDE DEF A, B
<1>2. /\ Cardinality(A) \in Nat /\ Cardinality(B) \in Nat
      /\ Cardinality(B) = Cardinality(A) - One(e \in A) + One(e \in B)
      /\ e \in A => Cardinality(A) >= 1
  BY <1>1, Finite, CountPoint
<1> QED
  BY <1>1, <1>2 DEF One

LEMMA HandSet ==
  ASSUME NEW e \in Execs, NEW c, \A x \in Execs : x # e => hand'[x] = hand[x]
  PROVE  /\ HandN(c)' = HandN(c) - One(hand[e] # None /\ hand[e][1] = c)
                                 + One(hand'[e] # None /\ hand'[e][1] = c)
         /\ HandN(c) \in Nat /\ HandN(c)' \in Nat
         /\ hand[e] # None /\ hand[e][1] = c => HandN(c) >= 1
<1> DEFINE A == {x \in Execs : hand[x] # None /\ hand[x][1] = c}
           B == {x \in Execs : hand'[x] # None /\ hand'[x][1] = c}
<1>1. /\ A \in SUBSET Execs /\ B \in SUBSET Execs /\ \A y \in Execs : y # e => (y \in A <=> y \in B)
      /\ e \in A <=> hand[e] # None /\ hand[e][1] = c
      /\ e \in B <=> hand'[e] # None /\ hand'[e][1] = c
      /\ HandN(c) = Cardinality(A) /\ HandN(c)' = Cardinality(B)
  BY DEF HandN, None
<1> HIDE DEF A, B
<1>2. /\ Cardinality(A) \in Nat /\ Cardinality(B) \in Nat
      /\ Cardinality(B) = Cardinality(A) - One(e \in A) + One(e \in B)
      /\ e \in A => Cardinality(A) >= 1
  BY <1>1, Finite, CountPoint
<1> QED
  BY <1>1, <1>2 DEF One

LEMMA WaitSet ==
  ASSUME NEW q \in Queues, NEW c, \A r \in Queues : r # q => queue'[r].waiter = queue[r].waiter
  PROVE  /\ WaitN(c)' = WaitN(c) - One(queue[q].waiter = c) + One(queue'[q].waiter = c)
         /\ WaitN(c) \in Nat /\ WaitN(c)' \in Nat
         /\ queue[q].waiter = c => WaitN(c) >= 1
<1> DEFINE A == {x \in Queues : queue[x].waiter = c}
           B == {x \in Queues : queue'[x].waiter = c}
<1>1. /\ A \in SUBSET Queues /\ B \in SUBSET Queues /\ \A y \in Queues : y # q => (y \in A <=> y \in B)
      /\ q \in A <=> queue[q].waiter = c
      /\ q \in B <=> queue'[q].waiter = c
      /\ WaitN(c) = Cardinality(A) /\ WaitN(c)' = Cardinality(B)
  BY DEF WaitN
<1> HIDE DEF A, B
<1>2. /\ Cardinality(A) \in Nat /\ Cardinality(B) \in Nat
      /\ Cardinality(B) = Cardinality(A) - One(q \in A) + One(q \in B)
      /\ q \in A => Cardinality(A) >= 1
  BY <1>1, Finite, CountPoint
<1> QED
  BY <1>1, <1>2 DEF One

LEMMA JoinSet ==
  ASSUME NEW k \in Clients, NEW c, \A x \in Clients : x # k => join_waiter'[x] = join_waiter[x]
  PROVE  /\ JoinN(c)' = JoinN(c) - One(join_waiter[k] = c) + One(join_waiter'[k] = c)
         /\ JoinN(c) \in Nat /\ JoinN(c)' \in Nat
         /\ join_waiter[k] = c => JoinN(c) >= 1
<1> DEFINE A == {x \in Clients : join_waiter[x] = c}
           B == {x \in Clients : join_waiter'[x] = c}
<1>1. /\ A \in SUBSET Clients /\ B \in SUBSET Clients /\ \A y \in Clients : y # k => (y \in A <=> y \in B)
      /\ k \in A <=> join_waiter[k] = c
      /\ k \in B <=> join_waiter'[k] = c
      /\ JoinN(c) = Cardinality(A) /\ JoinN(c)' = Cardinality(B)
  BY DEF JoinN
<1> HIDE DEF A, B
<1>2. /\ Cardinality(A) \in Nat /\ Cardinality(B) \in Nat
      /\ Cardinality(B) = Cardinality(A) - One(k \in A) + One(k \in B)
      /\ k \in A => Cardinality(A) >= 1
  BY <1>1, Finite, CountPoint
<1> QED
  BY <1>1, <1>2 DEF One

LEMMA TimeSet ==
  ASSUME NEW e \in Execs, NEW c, \A x \in Execs : x # e => timers'[x] = timers[x]
  PROVE  /\ TimeN(c)' = TimeN(c) - One(c \in timers[e]) + One(c \in timers'[e])
         /\ TimeN(c) \in Nat /\ TimeN(c)' \in Nat
         /\ c \in timers[e] => TimeN(c) >= 1
<1> DEFINE A == {x \in Execs : c \in timers[x]}
           B == {x \in Execs : c \in timers'[x]}
<1>1. /\ A \in SUBSET Execs /\ B \in SUBSET Execs /\ \A y \in Execs : y # e => (y \in A <=> y \in B)
      /\ e \in A <=> c \in timers[e]
      /\ e \in B <=> c \in timers'[e]
      /\ TimeN(c) = Cardinality(A) /\ TimeN(c)' = Cardinality(B)
  BY DEF TimeN
<1> HIDE DEF A, B
<1>2. /\ Cardinality(A) \in Nat /\ Cardinality(B) \in Nat
      /\ Cardinality(B) = Cardinality(A) - One(e \in A) + One(e \in B)
      /\ e \in A => Cardinality(A) >= 1
  BY <1>1, Finite, CountPoint
<1> QED
  BY <1>1, <1>2 DEF One

----------------------------------------------------------------------------
(* The stacks: what the innermost frame says of the others. *)

\* The fields of a frame.
LEMMA FrameFacts == \A l, x : Frame(l, x).at = l /\ Frame(l, x).on = x
  BY DEF Frame

\* A frame on top of a stack makes a stack, with that frame as its head.
LEMMA OnFacts ==
  ASSUME NEW l \in Labels, NEW x \in Subjects, NEW s \in Stack
  PROVE  /\ On(l, x, s) \in Stack /\ On(l, x, s) # <<>>
         /\ Head(On(l, x, s)) = Frame(l, x)
         /\ Head(On(l, x, s)).at = l /\ Head(On(l, x, s)).on = x
         /\ Tail(On(l, x, s)) = s
<1> DEFINE X == [at : Labels, on : Subjects]
           f == Frame(l, x)
           o == On(l, x, s)
<1>1. f \in X /\ s \in Seq(X)
  BY DEF Frame, Stack
<1>2. Stack = Seq(X) /\ o = <<f>> \o s
  BY DEF Stack, On
<1>7. f.at = l /\ f.on = x
  BY FrameFacts
<1> HIDE DEF X, f, o
<1>3. o \in Seq(X) /\ Len(o) = Len(s) + 1 /\ o[1] = f /\ Len(s) \in Nat
      /\ \A i \in 1 .. Len(s) : o[i + 1] = s[i]
  BY <1>1, <1>2
<1>4. o # <<>>
  BY <1>3
<1>5. Head(o) = f
  BY <1>3
<1>6. Tail(o) = s
  <2>1. Tail(o) \in Seq(X) /\ Len(Tail(o)) = Len(s)
    BY <1>3, <1>4
  <2>2. \A i \in 1 .. Len(s) : Tail(o)[i] = s[i]
    BY <1>3, <1>4
  <2> QED
    BY <1>1, <2>1, <2>2, SeqEqual
<1> QED
  BY <1>2, <1>3, <1>4, <1>5, <1>6, <1>7 DEF o, f

\* The empty stack is a stack.
LEMMA EmptyStack == <<>> \in Stack
  BY DEF Stack

\* The stack of chain c is one on top of its other frames.
LEMMA OnTop ==
  ASSUME NEW l \in Labels, NEW x \in Subjects, NEW m \in Labels, NEW y \in Subjects, NEW s \in Stack
  PROVE  /\ <<Frame(l, x)>> \o s = On(l, x, s)
         /\ <<Frame(l, x), Frame(m, y)>> \o s = On(l, x, On(m, y, s))
<1> DEFINE X == [at : Labels, on : Subjects]
           f == Frame(l, x)
           g == Frame(m, y)
           a == <<f, g>> \o s
           b == <<f>> \o (<<g>> \o s)
<1>1. f \in X /\ g \in X /\ s \in Seq(X)
  BY DEF Frame, Stack
<1>2. a = <<Frame(l, x), Frame(m, y)>> \o s /\ b = On(l, x, On(m, y, s))
  BY DEF On
<1> HIDE DEF X, f, g
<1>3. /\ a \in Seq(X) /\ Len(a) = Len(s) + 2 /\ a[1] = f /\ a[2] = g /\ Len(s) \in Nat
      /\ \A i \in 1 .. Len(s) : a[i + 2] = s[i]
  BY <1>1
<1> DEFINE t == <<g>> \o s
<1>4. /\ t \in Seq(X) /\ Len(t) = Len(s) + 1 /\ t[1] = g
      /\ \A i \in 1 .. Len(s) : t[i + 1] = s[i]
  BY <1>1
<1>5. b = <<f>> \o t
  OBVIOUS
<1> HIDE DEF t, a, b
<1>6. /\ b \in Seq(X) /\ Len(b) = Len(t) + 1 /\ b[1] = f
      /\ \A i \in 1 .. Len(t) : b[i + 1] = t[i]
  BY <1>1, <1>4, <1>5
<1>7. ASSUME NEW i \in 1 .. Len(a) PROVE a[i] = b[i]
  <2>1. CASE i = 1
    BY <1>3, <1>6, <2>1
  <2>2. CASE i = 2
    <3>1. 1 \in 1 .. Len(t) /\ 1 + 1 = i
      BY <1>3, <1>4, <2>2
    <3>2. b[1 + 1] = t[1]
      BY <1>6, <3>1
    <3> QED
      BY <1>3, <1>4, <2>2, <3>2
  <2>3. CASE i > 2
    <3>1. i - 1 \in 1 .. Len(t) /\ i - 2 \in 1 .. Len(s) /\ (i - 1) + 1 = i /\ (i - 2) + 2 = i /\ (i - 2) + 1 = i - 1
      BY <1>3, <1>4, <2>3
    <3>2. b[(i - 1) + 1] = t[i - 1] /\ t[(i - 2) + 1] = s[i - 2] /\ a[(i - 2) + 2] = s[i - 2]
      BY <1>3, <1>4, <1>6, <3>1
    <3> QED
      BY <3>1, <3>2
  <2> QED
    BY <1>3, <2>1, <2>2, <2>3
<1>8. Len(a) = Len(b)
  BY <1>3, <1>4, <1>6
<1>9. a = b
  BY <1>3, <1>6, <1>7, <1>8, SeqEqual
<1> QED
  BY <1>2, <1>9 DEF On

----------------------------------------------------------------------------
(* Which chains are in the middle of sending. *)

\* A frame of s sends to client k.
Sends(s, k) == \E i \in 1 .. Len(s) : s[i].at \in {"send", "send ready"} /\ s[i].on = k

\* That is what Sending says of a chain;
LEMMA SendingIsSends == \A c, k : Sending(c, k) <=> Sends(frames[c], k)
  BY DEF Sending, Sends

\* it is false of the empty stack;
LEMMA SendsNone == \A k : ~ Sends(<<>>, k)
  BY DEF Sends

\* and a frame on top adds itself.
LEMMA SendsOn ==
  ASSUME NEW l \in Labels, NEW x \in Subjects, NEW s \in Stack, NEW k
  PROVE  Sends(On(l, x, s), k) <=> (l \in {"send", "send ready"} /\ x = k) \/ Sends(s, k)
<1> DEFINE X == [at : Labels, on : Subjects]
           f == Frame(l, x)
           o == On(l, x, s)
<1>1. f \in X /\ s \in Seq(X) /\ f.at = l /\ f.on = x
  BY DEF Frame, Stack
<1>2. o = <<f>> \o s
  BY DEF On
<1> HIDE DEF X, f, o
<1>3. /\ o \in Seq(X) /\ Len(o) = Len(s) + 1 /\ o[1] = f /\ Len(s) \in Nat
      /\ \A i \in 1 .. Len(s) : o[i + 1] = s[i]
  BY <1>1, <1>2
<1>4. ASSUME Sends(o, k) PROVE (l \in {"send", "send ready"} /\ x = k) \/ Sends(s, k)
  <2>1. PICK i \in 1 .. Len(o) : o[i].at \in {"send", "send ready"} /\ o[i].on = k
    BY <1>4 DEF Sends
  <2>2. CASE i = 1
    BY <1>1, <1>3, <2>1, <2>2
  <2>3. CASE i # 1
    <3>1. i - 1 \in 1 .. Len(s) /\ (i - 1) + 1 = i
      BY <1>3, <2>3
    <3>2. o[i] = s[i - 1]
      BY <1>3, <3>1
    <3> QED
      BY <2>1, <3>1, <3>2 DEF Sends
  <2> QED
    BY <2>2, <2>3
<1>5. ASSUME l \in {"send", "send ready"} /\ x = k PROVE Sends(o, k)
  <2>1. 1 \in 1 .. Len(o)
    BY <1>3
  <2>2. o[1].at \in {"send", "send ready"} /\ o[1].on = k
    BY <1>1, <1>3, <1>5
  <2> QED
    BY <2>1, <2>2 DEF Sends
<1>6. ASSUME Sends(s, k) PROVE Sends(o, k)
  <2>1. PICK i \in 1 .. Len(s) : s[i].at \in {"send", "send ready"} /\ s[i].on = k
    BY <1>6 DEF Sends
  <2> DEFINE j == i + 1
  <2>2. j \in 1 .. Len(o) /\ o[j] = s[i]
    BY <1>3
  <2> HIDE DEF j
  <2> QED
    BY <2>1, <2>2 DEF Sends
<1> QED
  BY <1>4, <1>5, <1>6 DEF o

\* The client or queue of the head, and the rest.
LEMMA OnParts ==
  \A l \in Labels, x \in Subjects, t \in Stack : Head(On(l, x, t)).on = x /\ Tail(On(l, x, t)) = t
  BY OnFacts

\* Such a stack is one, and not empty.
LEMMA OnIs == \A l \in Labels, x \in Subjects, t \in Stack : On(l, x, t) \in Stack /\ On(l, x, t) # <<>>
  BY OnFacts

\* Two frames on top of a stack.
LEMMA OnPairs ==
  \A l \in Labels, x \in Subjects, m \in Labels, y \in Subjects, s \in Stack :
    <<Frame(l, x), Frame(m, y)>> \o s = On(l, x, On(m, y, s))
  BY OnTop

----------------------------------------------------------------------------
(* The names. *)

\* The label a child goes on at after sendAll().
Then(c) == IF c[1] = "writer" THEN "writer" ELSE "return"

\* The chains are these;
LEMMA CoroCases ==
  \A c \in Coros : c = Main \/ c = Room \/ \E k \in Clients : c \in {session(k), writer(k), helper(k)}
  BY ChatAssumption DEF AllCoros, session, writer, helper

\* they are different ones;
LEMMA CoroNames ==
  /\ Main \in Coros /\ Room \in Coros /\ Main # Room
  /\ \A k \in Clients :
       /\ session(k) \in Coros /\ writer(k) \in Coros /\ helper(k) \in Coros
       /\ Main \notin {session(k), writer(k), helper(k)}
       /\ Room \notin {session(k), writer(k), helper(k)}
       /\ \A j \in Clients :
            /\ (session(k) = session(j) <=> k = j) /\ (writer(k) = writer(j) <=> k = j)
            /\ (helper(k) = helper(j) <=> k = j)
            /\ session(k) # writer(j) /\ session(k) # helper(j) /\ writer(k) # helper(j)
       /\ Then(writer(k)) = "writer" /\ Then(helper(k)) = "return"
       /\ writer(k)[1] = "writer" /\ helper(k)[1] = "helper"
  BY ChatAssumption DEF AllCoros, session, writer, helper, Main, Room, Then

\* and no other task is one of them.
LEMMA NotCoros ==
  /\ None \notin Coros
  /\ \A k : <<"start", k>> \notin Coros /\ <<"cleanup", k>> \notin Coros
  /\ \A c \in Coros : c # None /\ c[1] # "start" /\ c[1] # "cleanup"
<1>1. \A c \in Coros : c[1] \in {"main", "room", "session", "writer", "helper"} /\ c # None
  BY CoroCases DEF session, writer, helper, Main, Room, None
<1> QED
  BY <1>1

\* The queues are different ones.
LEMMA QueueNames ==
  /\ accepted \in Queues /\ cmds \in Queues /\ accepted # cmds
  /\ \A k \in Clients :
       /\ recv_q(k) \in Queues /\ send_ready_q(k) \in Queues /\ outbox(k) \in Queues
       /\ accepted \notin {recv_q(k), send_ready_q(k), outbox(k)}
       /\ cmds \notin {recv_q(k), send_ready_q(k), outbox(k)}
       /\ \A j \in Clients :
            /\ (recv_q(k) = recv_q(j) <=> k = j) /\ (send_ready_q(k) = send_ready_q(j) <=> k = j)
            /\ (outbox(k) = outbox(j) <=> k = j)
            /\ recv_q(k) # send_ready_q(j) /\ recv_q(k) # outbox(j) /\ send_ready_q(k) # outbox(j)
  BY ChatAssumption DEF AllQueues, recv_q, send_ready_q, outbox, accepted, cmds

\* What frames are about.
LEMMA SubjectFacts ==
  /\ 0 \in Subjects /\ accepted \in Subjects /\ cmds \in Subjects
  /\ \A k \in Clients : /\ k \in Subjects /\ recv_q(k) \in Subjects /\ send_ready_q(k) \in Subjects
                        /\ outbox(k) \in Subjects
  BY QueueNames DEF Subjects

\* The labels of the frames.
LEMMA LabelFacts ==
  /\ "main" \in Labels
  /\ "listen" \in Labels
  /\ "serve" \in Labels
  /\ "accept" \in Labels
  /\ "served" \in Labels
  /\ "room" \in Labels
  /\ "command" \in Labels
  /\ "cast" \in Labels
  /\ "pushed" \in Labels
  /\ "session" \in Labels
  /\ "recv" \in Labels
  /\ "received" \in Labels
  /\ "leave" \in Labels
  /\ "close outbox" \in Labels
  /\ "join group" \in Labels
  /\ "session end" \in Labels
  /\ "join" \in Labels
  /\ "joined" \in Labels
  /\ "child" \in Labels
  /\ "child done" \in Labels
  /\ "writer" \in Labels
  /\ "writer got" \in Labels
  /\ "helper" \in Labels
  /\ "slept" \in Labels
  /\ "recvSome" \in Labels
  /\ "sendAll" \in Labels
  /\ "locked" \in Labels
  /\ "send" \in Labels
  /\ "send ready" \in Labels
  /\ "sleepFor" \in Labels
  /\ "return" \in Labels
  /\ "suspend" \in Labels
  /\ "resume" \in Labels
  BY DEF Labels

\* The label of the head.
LEMMA OnAt == \A l \in Labels, x \in Subjects, t \in Stack : Head(On(l, x, t)).at = l
  BY OnFacts

\* OnFacts of a stack with a name.
LEMMA OnHead ==
  ASSUME NEW s, NEW l \in Labels, NEW x \in Subjects, NEW t \in Stack, s = On(l, x, t)
  PROVE  s # <<>> /\ Head(s).at = l /\ Head(s).on = x /\ Tail(s) = t
  BY OnFacts

\* The stacks that chains have are stacks.
LEMMA Rests ==
  /\ <<>> \in Stack /\ On("return", 0, <<>>) \in Stack
  /\ On("served", 0, On("return", 0, <<>>)) \in Stack
  /\ On("return", 0, On("served", 0, On("return", 0, <<>>))) \in Stack
  /\ On("command", 0, <<>>) \in Stack
  /\ \A k \in Clients :
       /\ On("received", k, <<>>) \in Stack /\ On("return", k, On("received", k, <<>>)) \in Stack
       /\ On("session end", k, <<>>) \in Stack
       /\ On("child done", k, <<>>) \in Stack
       /\ On("writer got", k, On("child done", k, <<>>)) \in Stack
       /\ On("slept", k, On("child done", k, <<>>)) \in Stack
       /\ \A then \in Labels :
            /\ On(then, k, On("child done", k, <<>>)) \in Stack
            /\ On("send ready", k, On(then, k, On("child done", k, <<>>))) \in Stack
<1>1. ASSUME NEW l \in Labels, NEW x \in Subjects, NEW s \in Stack PROVE On(l, x, s) \in Stack
  BY OnFacts
<1>2. /\ On("return", 0, <<>>) \in Stack
      /\ On("served", 0, On("return", 0, <<>>)) \in Stack
      /\ On("return", 0, On("served", 0, On("return", 0, <<>>))) \in Stack
      /\ On("command", 0, <<>>) \in Stack
  <2>1. "return" \in Labels /\ "served" \in Labels /\ "command" \in Labels
    BY DEF Labels
  <2>2. On("return", 0, <<>>) \in Stack /\ On("command", 0, <<>>) \in Stack
    BY <1>1, <2>1, EmptyStack, SubjectFacts
  <2>3. On("served", 0, On("return", 0, <<>>)) \in Stack
    BY <1>1, <2>1, <2>2, SubjectFacts
  <2> QED
    BY <1>1, <2>1, <2>2, <2>3, SubjectFacts
<1>3. ASSUME NEW k \in Clients
      PROVE  /\ On("received", k, <<>>) \in Stack /\ On("return", k, On("received", k, <<>>)) \in Stack
             /\ On("session end", k, <<>>) \in Stack
             /\ On("child done", k, <<>>) \in Stack
             /\ On("writer got", k, On("child done", k, <<>>)) \in Stack
             /\ On("slept", k, On("child done", k, <<>>)) \in Stack
  <2>1. k \in Subjects
    BY SubjectFacts
  <2>3. /\ "received" \in Labels /\ "session end" \in Labels /\ "child done" \in Labels
        /\ "return" \in Labels /\ "writer got" \in Labels /\ "slept" \in Labels
    BY DEF Labels
  <2>2. On("received", k, <<>>) \in Stack /\ On("session end", k, <<>>) \in Stack /\ On("child done", k, <<>>) \in Stack
    BY <1>1, <2>1, <2>3, EmptyStack
  <2> QED
    BY <1>1, <2>1, <2>2, <2>3
<1>4. ASSUME NEW k \in Clients, NEW then \in Labels
      PROVE  /\ On(then, k, On("child done", k, <<>>)) \in Stack
             /\ On("send ready", k, On(then, k, On("child done", k, <<>>))) \in Stack
  <2>2. "send ready" \in Labels
    BY DEF Labels
  <2>1. On(then, k, On("child done", k, <<>>)) \in Stack
    BY <1>1, <1>3, SubjectFacts
  <2> QED
    BY <1>1, <2>1, <2>2, SubjectFacts
<1> QED
  BY <1>2, <1>3, <1>4, EmptyStack

\* The stack that each chain has with its head at label l;
MainIs(l, s) ==
  /\ l = "main" => s = On("main", 0, <<>>)
  /\ l \in {"listen", "serve", "served"} => s = On(l, 0, On("return", 0, <<>>))
  /\ l = "accept" => s = On("accept", 0, On("served", 0, On("return", 0, <<>>)))
  /\ l = "return" => \/ s = On("return", 0, <<>>)
                     \/ s = On("return", 0, On("served", 0, On("return", 0, <<>>)))
  /\ l \in Popping => s = On(l, accepted, On("return", 0, On("served", 0, On("return", 0, <<>>))))
  /\ l \in {"main", "listen", "serve", "served", "accept", "return"} \cup Popping

\* and that it has one of these.
LEMMA MainTop ==
  ASSUME NEW s, MainStack(s), s # <<>>
  PROVE  \E l : l = Head(s).at /\ MainIs(l, s)
<1>1. CASE \E l \in {"main", "return"} : s = On(l, 0, <<>>)
  <2> PICK l \in {"main", "return"} : s = On(l, 0, <<>>)
    BY <1>1
  <2>1. l \in Labels
    BY DEF Popping, Labels
  <2>4. 0 \in Subjects /\ <<>> \in Stack
    BY Rests, SubjectFacts, LabelFacts
  <2>2. Head(On(l, 0, <<>>)).at = l
    BY <2>1, <2>4, OnAt
  <2>3. MainIs(l, s)
    BY DEF MainIs, Popping
  <2> QED
    BY <2>2, <2>3
<1>2. CASE \E l \in {"listen", "serve", "served"} : s = On(l, 0, On("return", 0, <<>>))
  <2> PICK l \in {"listen", "serve", "served"} : s = On(l, 0, On("return", 0, <<>>))
    BY <1>2
  <2>1. l \in Labels
    BY DEF Popping, Labels
  <2>4. 0 \in Subjects /\ On("return", 0, <<>>) \in Stack
    BY Rests, SubjectFacts, LabelFacts
  <2>2. Head(On(l, 0, On("return", 0, <<>>))).at = l
    BY <2>1, <2>4, OnAt
  <2>3. MainIs(l, s)
    BY DEF MainIs, Popping
  <2> QED
    BY <2>2, <2>3
<1>3. CASE \E l \in {"accept", "return"} : s = On(l, 0, On("served", 0, On("return", 0, <<>>)))
  <2> PICK l \in {"accept", "return"} : s = On(l, 0, On("served", 0, On("return", 0, <<>>)))
    BY <1>3
  <2>1. l \in Labels
    BY DEF Popping, Labels
  <2>4. 0 \in Subjects /\ On("served", 0, On("return", 0, <<>>)) \in Stack
    BY Rests, SubjectFacts, LabelFacts
  <2>2. Head(On(l, 0, On("served", 0, On("return", 0, <<>>)))).at = l
    BY <2>1, <2>4, OnAt
  <2>3. MainIs(l, s)
    BY DEF MainIs, Popping
  <2> QED
    BY <2>2, <2>3
<1>4. CASE \E l \in Popping : s = On(l, accepted, On("return", 0, On("served", 0, On("return", 0, <<>>))))
  <2> PICK l \in Popping : s = On(l, accepted, On("return", 0, On("served", 0, On("return", 0, <<>>))))
    BY <1>4
  <2>1. l \in Labels
    BY DEF Popping, Labels
  <2>4. accepted \in Subjects /\ On("return", 0, On("served", 0, On("return", 0, <<>>))) \in Stack
    BY Rests, SubjectFacts, LabelFacts
  <2>2. Head(On(l, accepted, On("return", 0, On("served", 0, On("return", 0, <<>>))))).at = l
    BY <2>1, <2>4, OnAt
  <2>3. MainIs(l, s)
    BY DEF MainIs, Popping
  <2> QED
    BY <2>2, <2>3
<1> QED
  BY <1>1, <1>2, <1>3, <1>4 DEF MainStack

RoomIs(l, s) ==
  /\ l \in {"room", "command", "cast", "pushed"} => s = On(l, 0, <<>>)
  /\ l \in Popping => s = On(l, cmds, On("command", 0, <<>>))
  /\ l \in {"room", "command", "cast", "pushed"} \cup Popping

LEMMA RoomTop ==
  ASSUME NEW s, RoomStack(s), s # <<>>
  PROVE  \E l : l = Head(s).at /\ RoomIs(l, s)
<1>1. CASE \E l \in {"room", "command", "cast", "pushed"} : s = On(l, 0, <<>>)
  <2> PICK l \in {"room", "command", "cast", "pushed"} : s = On(l, 0, <<>>)
    BY <1>1
  <2>1. l \in Labels
    BY DEF Popping, Labels
  <2>4. 0 \in Subjects /\ <<>> \in Stack
    BY Rests, SubjectFacts, LabelFacts
  <2>2. Head(On(l, 0, <<>>)).at = l
    BY <2>1, <2>4, OnAt
  <2>3. RoomIs(l, s)
    BY DEF RoomIs, Popping
  <2> QED
    BY <2>2, <2>3
<1>2. CASE \E l \in Popping : s = On(l, cmds, On("command", 0, <<>>))
  <2> PICK l \in Popping : s = On(l, cmds, On("command", 0, <<>>))
    BY <1>2
  <2>1. l \in Labels
    BY DEF Popping, Labels
  <2>4. cmds \in Subjects /\ On("command", 0, <<>>) \in Stack
    BY Rests, SubjectFacts, LabelFacts
  <2>2. Head(On(l, cmds, On("command", 0, <<>>))).at = l
    BY <2>1, <2>4, OnAt
  <2>3. RoomIs(l, s)
    BY DEF RoomIs, Popping
  <2> QED
    BY <2>2, <2>3
<1> QED
  BY <1>1, <1>2 DEF RoomStack

\* The labels of chatSession() itself.
SessionAlone == {"session", "recv", "received", "leave", "close outbox", "join group", "session end"}

SessionIs(k, l, s) ==
  /\ l \in SessionAlone => s = On(l, k, <<>>)
  /\ l \in {"recvSome", "return"} => s = On(l, k, On("received", k, <<>>))
  /\ l \in Popping => s = On(l, recv_q(k), On("return", k, On("received", k, <<>>)))
  /\ l \in {"join", "joined"} => s = On(l, k, On("session end", k, <<>>))
  /\ l \in SessionAlone \cup {"recvSome", "return", "join", "joined"} \cup Popping

LEMMA SessionTop ==
  ASSUME NEW k \in Clients, NEW s, SessionStack(k, s), s # <<>>
  PROVE  \E l : l = Head(s).at /\ SessionIs(k, l, s)
<1>1. CASE \E l \in SessionAlone : s = On(l, k, <<>>)
  <2> PICK l \in SessionAlone : s = On(l, k, <<>>)
    BY <1>1
  <2>1. l \in Labels
    BY DEF Popping, SessionAlone, Labels
  <2>4. k \in Subjects /\ <<>> \in Stack
    BY Rests, SubjectFacts, LabelFacts
  <2>2. Head(On(l, k, <<>>)).at = l
    BY <2>1, <2>4, OnAt
  <2>3. SessionIs(k, l, s)
    BY DEF SessionIs, Popping, SessionAlone
  <2> QED
    BY <2>2, <2>3
<1>2. CASE \E l \in {"recvSome", "return"} : s = On(l, k, On("received", k, <<>>))
  <2> PICK l \in {"recvSome", "return"} : s = On(l, k, On("received", k, <<>>))
    BY <1>2
  <2>1. l \in Labels
    BY DEF Popping, SessionAlone, Labels
  <2>4. k \in Subjects /\ On("received", k, <<>>) \in Stack
    BY Rests, SubjectFacts, LabelFacts
  <2>2. Head(On(l, k, On("received", k, <<>>))).at = l
    BY <2>1, <2>4, OnAt
  <2>3. SessionIs(k, l, s)
    BY DEF SessionIs, Popping, SessionAlone
  <2> QED
    BY <2>2, <2>3
<1>3. CASE \E l \in Popping : s = On(l, recv_q(k), On("return", k, On("received", k, <<>>)))
  <2> PICK l \in Popping : s = On(l, recv_q(k), On("return", k, On("received", k, <<>>)))
    BY <1>3
  <2>1. l \in Labels
    BY DEF Popping, SessionAlone, Labels
  <2>4. recv_q(k) \in Subjects /\ On("return", k, On("received", k, <<>>)) \in Stack
    BY Rests, SubjectFacts, LabelFacts
  <2>2. Head(On(l, recv_q(k), On("return", k, On("received", k, <<>>)))).at = l
    BY <2>1, <2>4, OnAt
  <2>3. SessionIs(k, l, s)
    BY DEF SessionIs, Popping, SessionAlone
  <2> QED
    BY <2>2, <2>3
<1>4. CASE \E l \in {"join", "joined"} : s = On(l, k, On("session end", k, <<>>))
  <2> PICK l \in {"join", "joined"} : s = On(l, k, On("session end", k, <<>>))
    BY <1>4
  <2>1. l \in Labels
    BY DEF Popping, SessionAlone, Labels
  <2>4. k \in Subjects /\ On("session end", k, <<>>) \in Stack
    BY Rests, SubjectFacts, LabelFacts
  <2>2. Head(On(l, k, On("session end", k, <<>>))).at = l
    BY <2>1, <2>4, OnAt
  <2>3. SessionIs(k, l, s)
    BY DEF SessionIs, Popping, SessionAlone
  <2> QED
    BY <2>2, <2>3
<1> QED
  BY <1>1, <1>2, <1>3, <1>4 DEF SessionStack, SessionAlone

WriterIs(k, l, s) ==
  /\ l \in {"child", "child done"} => s = On(l, k, <<>>)
  /\ l \in {"writer", "writer got"} => s = On(l, k, On("child done", k, <<>>))
  /\ l \in InSend => s = On(l, k, On("writer", k, On("child done", k, <<>>)))
  /\ l \in Popping =>
       \/ s = On(l, outbox(k), On("writer got", k, On("child done", k, <<>>)))
       \/ s = On(l, send_ready_q(k), On("send ready", k, On("writer", k, On("child done", k, <<>>))))
  /\ l \in {"child", "child done", "writer", "writer got"} \cup InSend \cup Popping

LEMMA WriterTop ==
  ASSUME NEW k \in Clients, NEW s, WriterStack(k, s), s # <<>>
  PROVE  \E l : l = Head(s).at /\ WriterIs(k, l, s)
<1>1. CASE \E l \in {"child", "child done"} : s = On(l, k, <<>>)
  <2> PICK l \in {"child", "child done"} : s = On(l, k, <<>>)
    BY <1>1
  <2>1. l \in Labels
    BY DEF Popping, InSend, Labels
  <2>4. k \in Subjects /\ <<>> \in Stack
    BY Rests, SubjectFacts, LabelFacts
  <2>2. Head(On(l, k, <<>>)).at = l
    BY <2>1, <2>4, OnAt
  <2>3. WriterIs(k, l, s)
    BY DEF WriterIs, Popping, InSend
  <2> QED
    BY <2>2, <2>3
<1>2. CASE \E l \in {"writer", "writer got"} : s = On(l, k, On("child done", k, <<>>))
  <2> PICK l \in {"writer", "writer got"} : s = On(l, k, On("child done", k, <<>>))
    BY <1>2
  <2>1. l \in Labels
    BY DEF Popping, InSend, Labels
  <2>4. k \in Subjects /\ On("child done", k, <<>>) \in Stack
    BY Rests, SubjectFacts, LabelFacts
  <2>2. Head(On(l, k, On("child done", k, <<>>))).at = l
    BY <2>1, <2>4, OnAt
  <2>3. WriterIs(k, l, s)
    BY DEF WriterIs, Popping, InSend
  <2> QED
    BY <2>2, <2>3
<1>3. CASE \E l \in Popping : s = On(l, outbox(k), On("writer got", k, On("child done", k, <<>>)))
  <2> PICK l \in Popping : s = On(l, outbox(k), On("writer got", k, On("child done", k, <<>>)))
    BY <1>3
  <2>1. l \in Labels
    BY DEF Popping, InSend, Labels
  <2>4. outbox(k) \in Subjects /\ On("writer got", k, On("child done", k, <<>>)) \in Stack
    BY Rests, SubjectFacts, LabelFacts
  <2>2. Head(On(l, outbox(k), On("writer got", k, On("child done", k, <<>>)))).at = l
    BY <2>1, <2>4, OnAt
  <2>3. WriterIs(k, l, s)
    BY DEF WriterIs, Popping, InSend
  <2> QED
    BY <2>2, <2>3
<1>4. CASE \E l \in InSend : s = On(l, k, On("writer", k, On("child done", k, <<>>)))
  <2> PICK l \in InSend : s = On(l, k, On("writer", k, On("child done", k, <<>>)))
    BY <1>4
  <2>1. l \in Labels
    BY DEF Popping, InSend, Labels
  <2>4. k \in Subjects /\ On("writer", k, On("child done", k, <<>>)) \in Stack
    BY Rests, SubjectFacts, LabelFacts
  <2>2. Head(On(l, k, On("writer", k, On("child done", k, <<>>)))).at = l
    BY <2>1, <2>4, OnAt
  <2>3. WriterIs(k, l, s)
    BY DEF WriterIs, Popping, InSend
  <2> QED
    BY <2>2, <2>3
<1>5. CASE \E l \in Popping : s = On(l, send_ready_q(k), On("send ready", k, On("writer", k, On("child done", k, <<>>))))
  <2> PICK l \in Popping : s = On(l, send_ready_q(k), On("send ready", k, On("writer", k, On("child done", k, <<>>))))
    BY <1>5
  <2>1. l \in Labels
    BY DEF Popping, InSend, Labels
  <2>4. send_ready_q(k) \in Subjects /\ On("send ready", k, On("writer", k, On("child done", k, <<>>))) \in Stack
    BY Rests, SubjectFacts, LabelFacts
  <2>2. Head(On(l, send_ready_q(k), On("send ready", k, On("writer", k, On("child done", k, <<>>))))).at = l
    BY <2>1, <2>4, OnAt
  <2>3. WriterIs(k, l, s)
    BY DEF WriterIs, Popping, InSend
  <2> QED
    BY <2>2, <2>3
<1> QED
  BY <1>1, <1>2, <1>3, <1>4, <1>5 DEF WriterStack, SendStack

HelperIs(k, l, s) ==
  /\ l \in {"child", "child done"} => s = On(l, k, <<>>)
  /\ l \in {"helper", "slept"} => s = On(l, k, On("child done", k, <<>>))
  /\ l = "sleepFor" => s = On(l, 0, On("slept", k, On("child done", k, <<>>)))
  /\ l = "return" => \/ s = On(l, k, On("child done", k, <<>>))
                     \/ s = On(l, 0, On("slept", k, On("child done", k, <<>>)))
  /\ l \in InSend => s = On(l, k, On("return", k, On("child done", k, <<>>)))
  /\ l \in Popping =>
       s = On(l, send_ready_q(k), On("send ready", k, On("return", k, On("child done", k, <<>>))))
  /\ l \in {"child", "child done", "helper", "slept", "sleepFor", "return"} \cup InSend \cup Popping

LEMMA HelperTop ==
  ASSUME NEW k \in Clients, NEW s, HelperStack(k, s), s # <<>>
  PROVE  \E l : l = Head(s).at /\ HelperIs(k, l, s)
<1>1. CASE \E l \in {"child", "child done"} : s = On(l, k, <<>>)
  <2> PICK l \in {"child", "child done"} : s = On(l, k, <<>>)
    BY <1>1
  <2>1. l \in Labels
    BY DEF Popping, InSend, Labels
  <2>4. k \in Subjects /\ <<>> \in Stack
    BY Rests, SubjectFacts, LabelFacts
  <2>2. Head(On(l, k, <<>>)).at = l
    BY <2>1, <2>4, OnAt
  <2>3. HelperIs(k, l, s)
    BY DEF HelperIs, Popping, InSend
  <2> QED
    BY <2>2, <2>3
<1>2. CASE \E l \in {"helper", "slept", "return"} : s = On(l, k, On("child done", k, <<>>))
  <2> PICK l \in {"helper", "slept", "return"} : s = On(l, k, On("child done", k, <<>>))
    BY <1>2
  <2>1. l \in Labels
    BY DEF Popping, InSend, Labels
  <2>4. k \in Subjects /\ On("child done", k, <<>>) \in Stack
    BY Rests, SubjectFacts, LabelFacts
  <2>2. Head(On(l, k, On("child done", k, <<>>))).at = l
    BY <2>1, <2>4, OnAt
  <2>3. HelperIs(k, l, s)
    BY DEF HelperIs, Popping, InSend
  <2> QED
    BY <2>2, <2>3
<1>3. CASE \E l \in {"sleepFor", "return"} : s = On(l, 0, On("slept", k, On("child done", k, <<>>)))
  <2> PICK l \in {"sleepFor", "return"} : s = On(l, 0, On("slept", k, On("child done", k, <<>>)))
    BY <1>3
  <2>1. l \in Labels
    BY DEF Popping, InSend, Labels
  <2>4. 0 \in Subjects /\ On("slept", k, On("child done", k, <<>>)) \in Stack
    BY Rests, SubjectFacts, LabelFacts
  <2>2. Head(On(l, 0, On("slept", k, On("child done", k, <<>>)))).at = l
    BY <2>1, <2>4, OnAt
  <2>3. HelperIs(k, l, s)
    BY DEF HelperIs, Popping, InSend
  <2> QED
    BY <2>2, <2>3
<1>4. CASE \E l \in InSend : s = On(l, k, On("return", k, On("child done", k, <<>>)))
  <2> PICK l \in InSend : s = On(l, k, On("return", k, On("child done", k, <<>>)))
    BY <1>4
  <2>1. l \in Labels
    BY DEF Popping, InSend, Labels
  <2>4. k \in Subjects /\ On("return", k, On("child done", k, <<>>)) \in Stack
    BY Rests, SubjectFacts, LabelFacts
  <2>2. Head(On(l, k, On("return", k, On("child done", k, <<>>)))).at = l
    BY <2>1, <2>4, OnAt
  <2>3. HelperIs(k, l, s)
    BY DEF HelperIs, Popping, InSend
  <2> QED
    BY <2>2, <2>3
<1>5. CASE \E l \in Popping : s = On(l, send_ready_q(k), On("send ready", k, On("return", k, On("child done", k, <<>>))))
  <2> PICK l \in Popping : s = On(l, send_ready_q(k), On("send ready", k, On("return", k, On("child done", k, <<>>))))
    BY <1>5
  <2>1. l \in Labels
    BY DEF Popping, InSend, Labels
  <2>4. send_ready_q(k) \in Subjects /\ On("send ready", k, On("return", k, On("child done", k, <<>>))) \in Stack
    BY Rests, SubjectFacts, LabelFacts
  <2>2. Head(On(l, send_ready_q(k), On("send ready", k, On("return", k, On("child done", k, <<>>))))).at = l
    BY <2>1, <2>4, OnAt
  <2>3. HelperIs(k, l, s)
    BY DEF HelperIs, Popping, InSend
  <2> QED
    BY <2>2, <2>3
<1> QED
  BY <1>1, <1>2, <1>3, <1>4, <1>5 DEF HelperStack, SendStack

\* The stacks that a chain may have, the chain being a parameter.
StackOf(c, s) ==
  /\ c = Main => MainStack(s)
  /\ c = Room => RoomStack(s)
  /\ \A k \in Clients : /\ c = session(k) => SessionStack(k, s)
                        /\ c = writer(k) => WriterStack(k, s)
                        /\ c = helper(k) => HelperStack(k, s)

\* That is what Stacks says.
LEMMA StacksOf == Stacks <=> \A c \in Coros : StackOf(c, frames[c])
<1>1. ASSUME Stacks, NEW c \in Coros PROVE StackOf(c, frames[c])
  BY <1>1 DEF Stacks, StackOf
<1>2. ASSUME \A c \in Coros : StackOf(c, frames[c]) PROVE Stacks
  BY <1>2, CoroNames DEF Stacks, StackOf
<1> QED
  BY <1>1, <1>2

\* StackOf of each chain.
LEMMA StackOfRole ==
  /\ \A s : /\ StackOf(Main, s) <=> MainStack(s)
            /\ StackOf(Room, s) <=> RoomStack(s)
  /\ \A k \in Clients : \A s : /\ StackOf(session(k), s) <=> SessionStack(k, s)
                               /\ StackOf(writer(k), s) <=> WriterStack(k, s)
                               /\ StackOf(helper(k), s) <=> HelperStack(k, s)
<1>1. ASSUME NEW s
      PROVE  /\ StackOf(Main, s) <=> MainStack(s)
             /\ StackOf(Room, s) <=> RoomStack(s)
  BY CoroNames DEF StackOf
<1>2. ASSUME NEW k \in Clients, NEW s
      PROVE  /\ StackOf(session(k), s) <=> SessionStack(k, s)
             /\ StackOf(writer(k), s) <=> WriterStack(k, s)
             /\ StackOf(helper(k), s) <=> HelperStack(k, s)
  BY CoroNames DEF StackOf
<1> QED
  BY <1>1, <1>2

\* The stacks that a chain may have next.
LEMMA NewMain ==
  /\ StackOf(Main, <<>>)
  /\ \A l \in {"main", "return"} : StackOf(Main, On(l, 0, <<>>))
  /\ \A l \in {"listen", "serve", "served"} : StackOf(Main, On(l, 0, On("return", 0, <<>>)))
  /\ \A l \in {"accept", "return"} : StackOf(Main, On(l, 0, On("served", 0, On("return", 0, <<>>))))
  /\ \A l \in Popping :
       StackOf(Main, On(l, accepted, On("return", 0, On("served", 0, On("return", 0, <<>>)))))
<1>1. \A s : StackOf(Main, s) <=> MainStack(s)
  BY StackOfRole
<1> QED
  BY <1>1 DEF MainStack

\* The stacks of each chain, as the steps build them.
LEMMA NewRoom ==
  /\ \A l \in {"room", "command", "cast", "pushed"} : StackOf(Room, On(l, 0, <<>>))
  /\ \A l \in Popping : StackOf(Room, On(l, cmds, On("command", 0, <<>>)))
<1>1. \A s : StackOf(Room, s) <=> RoomStack(s)
  BY StackOfRole
<1> QED
  BY <1>1 DEF RoomStack

LEMMA NewSession ==
  ASSUME NEW k \in Clients
  PROVE  /\ StackOf(session(k), <<>>)
         /\ \A l \in SessionAlone : StackOf(session(k), On(l, k, <<>>))
         /\ \A l \in {"recvSome", "return"} : StackOf(session(k), On(l, k, On("received", k, <<>>)))
         /\ \A l \in Popping : StackOf(session(k), On(l, recv_q(k), On("return", k, On("received", k, <<>>))))
         /\ \A l \in {"join", "joined"} : StackOf(session(k), On(l, k, On("session end", k, <<>>)))
<1>1. \A s : StackOf(session(k), s) <=> SessionStack(k, s)
  BY StackOfRole
<1> QED
  BY <1>1 DEF SessionStack, SessionAlone

LEMMA NewWriter ==
  ASSUME NEW k \in Clients
  PROVE  /\ \A l \in {"child", "child done"} : StackOf(writer(k), On(l, k, <<>>))
         /\ \A l \in {"writer", "writer got"} : StackOf(writer(k), On(l, k, On("child done", k, <<>>)))
         /\ \A l \in Popping : StackOf(writer(k), On(l, outbox(k), On("writer got", k, On("child done", k, <<>>))))
         /\ StackOf(writer(k), <<>>)
<1>1. \A s : StackOf(writer(k), s) <=> WriterStack(k, s)
  BY StackOfRole
<1> QED
  BY <1>1 DEF WriterStack

LEMMA NewHelper ==
  ASSUME NEW k \in Clients
  PROVE  /\ \A l \in {"child", "child done"} : StackOf(helper(k), On(l, k, <<>>))
         /\ \A l \in {"helper", "slept", "return"} : StackOf(helper(k), On(l, k, On("child done", k, <<>>)))
         /\ \A l \in {"sleepFor", "return"} : StackOf(helper(k), On(l, 0, On("slept", k, On("child done", k, <<>>))))
         /\ StackOf(helper(k), <<>>)
<1>1. \A s : StackOf(helper(k), s) <=> HelperStack(k, s)
  BY StackOfRole
<1> QED
  BY <1>1 DEF HelperStack

LEMMA NewSend ==
  ASSUME NEW k \in Clients, NEW c \in {writer(k), helper(k)}
  PROVE  /\ \A l \in InSend : StackOf(c, On(l, k, On(Then(c), k, On("child done", k, <<>>))))
         /\ \A l \in Popping :
              StackOf(c, On(l, send_ready_q(k), On("send ready", k, On(Then(c), k, On("child done", k, <<>>)))))
         /\ StackOf(c, On(Then(c), k, On("child done", k, <<>>)))
<1>1. \A s : /\ StackOf(writer(k), s) <=> WriterStack(k, s)
             /\ StackOf(helper(k), s) <=> HelperStack(k, s)
  BY StackOfRole
<1>2. Then(writer(k)) = "writer" /\ Then(helper(k)) = "return"
  BY CoroNames
<1>3. CASE c = writer(k)
  BY <1>1, <1>2, <1>3 DEF WriterStack, SendStack
<1>4. CASE c = helper(k)
  BY <1>1, <1>2, <1>4 DEF HelperStack, SendStack
<1> QED
  BY <1>3, <1>4

\* Where a chain is, by the label of its innermost frame.
Where(c, l, s) ==
  /\ l = "main" => c = Main /\ s = On("main", 0, <<>>)
  /\ l \in {"listen", "serve", "served"} => c = Main /\ s = On(l, 0, On("return", 0, <<>>))
  /\ l = "accept" => c = Main /\ s = On("accept", 0, On("served", 0, On("return", 0, <<>>)))
  /\ l \in {"room", "command", "cast", "pushed"} => c = Room /\ s = On(l, 0, <<>>)
  /\ l \in SessionAlone => \E k \in Clients : c = session(k) /\ s = On(l, k, <<>>)
  /\ l = "recvSome" => \E k \in Clients : c = session(k) /\ s = On(l, k, On("received", k, <<>>))
  /\ l \in {"join", "joined"} => \E k \in Clients : c = session(k) /\ s = On(l, k, On("session end", k, <<>>))
  /\ l \in {"child", "child done"} => \E k \in Clients : c \in {writer(k), helper(k)} /\ s = On(l, k, <<>>)
  /\ l \in {"writer", "writer got"} =>
       \E k \in Clients : c = writer(k) /\ s = On(l, k, On("child done", k, <<>>))
  /\ l \in {"helper", "slept"} => \E k \in Clients : c = helper(k) /\ s = On(l, k, On("child done", k, <<>>))
  /\ l = "sleepFor" => \E k \in Clients : c = helper(k) /\ s = On(l, 0, On("slept", k, On("child done", k, <<>>)))
  /\ l \in InSend => \E k \in Clients :
       c \in {writer(k), helper(k)} /\ s = On(l, k, On(Then(c), k, On("child done", k, <<>>)))
  /\ l = "return" =>
       \/ c = Main /\ s = On("return", 0, <<>>)
       \/ c = Main /\ s = On("return", 0, On("served", 0, On("return", 0, <<>>)))
       \/ \E k \in Clients :
            \/ c = session(k) /\ s = On("return", k, On("received", k, <<>>))
            \/ c = helper(k) /\ s = On("return", k, On("child done", k, <<>>))
            \/ c = helper(k) /\ s = On("return", 0, On("slept", k, On("child done", k, <<>>)))
  /\ l \in Popping =>
       \/ c = Main /\ s = On(l, accepted, On("return", 0, On("served", 0, On("return", 0, <<>>))))
       \/ c = Room /\ s = On(l, cmds, On("command", 0, <<>>))
       \/ \E k \in Clients :
            \/ c = session(k) /\ s = On(l, recv_q(k), On("return", k, On("received", k, <<>>)))
            \/ c = writer(k) /\ s = On(l, outbox(k), On("writer got", k, On("child done", k, <<>>)))
            \/ /\ c \in {writer(k), helper(k)}
               /\ s = On(l, send_ready_q(k), On("send ready", k, On(Then(c), k, On("child done", k, <<>>))))

\* A chain has one of its stacks, known by the label of the head.
LEMMA WhereIs ==
  ASSUME NEW c \in Coros, NEW s, StackOf(c, s), s # <<>>
  PROVE  \E l : l = Head(s).at /\ Where(c, l, s) /\ l \in Labels
<1>1. CASE c = Main
  <2>1. MainStack(s)
    BY <1>1 DEF StackOf
  <2>2. PICK l : l = Head(s).at /\ MainIs(l, s)
    BY <2>1, MainTop
  <2>3. l \in Labels
    BY <2>2 DEF MainIs, SessionAlone, Popping, InSend, Labels
  <2>4. Where(c, l, s)
    BY <1>1, <2>2 DEF MainIs, Where, SessionAlone, Popping, InSend
  <2> QED
    BY <2>2, <2>3, <2>4
<1>2. CASE c = Room
  <2>1. RoomStack(s)
    BY <1>2 DEF StackOf
  <2>2. PICK l : l = Head(s).at /\ RoomIs(l, s)
    BY <2>1, RoomTop
  <2>3. l \in Labels
    BY <2>2 DEF RoomIs, SessionAlone, Popping, InSend, Labels
  <2>4. Where(c, l, s)
    BY <1>2, <2>2 DEF RoomIs, Where, SessionAlone, Popping, InSend
  <2> QED
    BY <2>2, <2>3, <2>4
<1>3. ASSUME NEW k \in Clients, c = session(k) PROVE \E l : l = Head(s).at /\ Where(c, l, s) /\ l \in Labels
  <2>1. SessionStack(k, s)
    BY <1>3 DEF StackOf
  <2>2. PICK l : l = Head(s).at /\ SessionIs(k, l, s)
    BY <2>1, SessionTop
  <2>3. l \in Labels
    BY <2>2 DEF SessionIs, SessionAlone, Popping, InSend, Labels
  <2>4. Where(c, l, s)
    BY <1>3, <2>2 DEF SessionIs, Where, SessionAlone, Popping, InSend
  <2> QED
    BY <2>2, <2>3, <2>4
<1>4. ASSUME NEW k \in Clients, c = writer(k) PROVE \E l : l = Head(s).at /\ Where(c, l, s) /\ l \in Labels
  <2>1. WriterStack(k, s) /\ Then(c) = "writer"
    BY <1>4, CoroNames DEF StackOf
  <2>2. PICK l : l = Head(s).at /\ WriterIs(k, l, s)
    BY <2>1, WriterTop
  <2>3. l \in Labels
    BY <2>2 DEF WriterIs, SessionAlone, Popping, InSend, Labels
  <2>4. Where(c, l, s)
    BY <1>4, <2>1, <2>2 DEF WriterIs, Where, SessionAlone, Popping, InSend
  <2> QED
    BY <2>2, <2>3, <2>4
<1>5. ASSUME NEW k \in Clients, c = helper(k) PROVE \E l : l = Head(s).at /\ Where(c, l, s) /\ l \in Labels
  <2>1. HelperStack(k, s) /\ Then(c) = "return"
    BY <1>5, CoroNames DEF StackOf
  <2>2. PICK l : l = Head(s).at /\ HelperIs(k, l, s)
    BY <2>1, HelperTop
  <2>3. l \in Labels
    BY <2>2 DEF HelperIs, SessionAlone, Popping, InSend, Labels
  <2>4. Where(c, l, s)
    BY <1>5, <2>1, <2>2 DEF HelperIs, Where, SessionAlone, Popping, InSend
  <2> QED
    BY <2>2, <2>3, <2>4
<1> QED
  BY <1>1, <1>2, <1>3, <1>4, <1>5, CoroCases

----------------------------------------------------------------------------
(* Where a chain is, and where it is not. *)

\* A set with an element has a cardinality of at least 1.
LEMMA CountSome ==
  ASSUME NEW S, IsFiniteSet(S), NEW A \in SUBSET S
  PROVE  Cardinality(A) \in Nat /\ \A x \in A : Cardinality(A) >= 1
<1>1. IsFiniteSet(A)
  BY FS_Subset
<1>2. Cardinality(A) \in Nat /\ (Cardinality(A) = 0 <=> A = {})
  BY <1>1, FS_CardinalityType, FS_EmptySet
<1> QED
  BY <1>2

\* A chain in one of its places is counted in that part of the sum.
LEMMA RunSome ==
  ASSUME NEW c
  PROVE  RunN(c) \in Nat /\ \A e \in Execs : running[e] = c => RunN(c) >= 1
<1> DEFINE A == {e \in Execs : running[e] = c}
<1>1. A \in SUBSET Execs /\ RunN(c) = Cardinality(A) /\ \A e \in Execs : running[e] = c => e \in A
  BY DEF RunN
<1> HIDE DEF A
<1>2. Cardinality(A) \in Nat /\ \A x \in A : Cardinality(A) >= 1
  BY <1>1, Finite, CountSome
<1> QED
  BY <1>1, <1>2

LEMMA HandSome ==
  ASSUME NEW c
  PROVE  HandN(c) \in Nat /\ \A e \in Execs : hand[e] # None /\ hand[e][1] = c => HandN(c) >= 1
<1> DEFINE A == {e \in Execs : hand[e] # None /\ hand[e][1] = c}
<1>1. A \in SUBSET Execs /\ HandN(c) = Cardinality(A) /\ \A e \in Execs : hand[e] # None /\ hand[e][1] = c => e \in A
  BY DEF HandN
<1> HIDE DEF A
<1>2. Cardinality(A) \in Nat /\ \A x \in A : Cardinality(A) >= 1
  BY <1>1, Finite, CountSome
<1> QED
  BY <1>1, <1>2

LEMMA WaitSome ==
  ASSUME NEW c
  PROVE  WaitN(c) \in Nat /\ \A q \in Queues : queue[q].waiter = c => WaitN(c) >= 1
<1> DEFINE A == {q \in Queues : queue[q].waiter = c}
<1>1. A \in SUBSET Queues /\ WaitN(c) = Cardinality(A) /\ \A q \in Queues : queue[q].waiter = c => q \in A
  BY DEF WaitN
<1> HIDE DEF A
<1>2. Cardinality(A) \in Nat /\ \A x \in A : Cardinality(A) >= 1
  BY <1>1, Finite, CountSome
<1> QED
  BY <1>1, <1>2

LEMMA JoinSome ==
  ASSUME NEW c
  PROVE  JoinN(c) \in Nat /\ \A k \in Clients : join_waiter[k] = c => JoinN(c) >= 1
<1> DEFINE A == {k \in Clients : join_waiter[k] = c}
<1>1. A \in SUBSET Clients /\ JoinN(c) = Cardinality(A) /\ \A k \in Clients : join_waiter[k] = c => k \in A
  BY DEF JoinN
<1> HIDE DEF A
<1>2. Cardinality(A) \in Nat /\ \A x \in A : Cardinality(A) >= 1
  BY <1>1, Finite, CountSome
<1> QED
  BY <1>1, <1>2

LEMMA TimeSome ==
  ASSUME NEW c
  PROVE  TimeN(c) \in Nat /\ \A e \in Execs : c \in timers[e] => TimeN(c) >= 1
<1> DEFINE A == {e \in Execs : c \in timers[e]}
<1>1. A \in SUBSET Execs /\ TimeN(c) = Cardinality(A) /\ \A e \in Execs : c \in timers[e] => e \in A
  BY DEF TimeN
<1> HIDE DEF A
<1>2. Cardinality(A) \in Nat /\ \A x \in A : Cardinality(A) >= 1
  BY <1>1, Finite, CountSome
<1> QED
  BY <1>1, <1>2

LEMMA RunqSome ==
  ASSUME runq \in [Execs -> Seq(Tasks)], NEW t
  PROVE  RunqN(t) \in Nat /\ \A x \in Execs : Among(runq[x], t) => RunqN(t) >= 1
<1>1. InQueues(runq, Execs, t) \in Nat
  BY Finite, CellsFacts
<1>2. ASSUME NEW x \in Execs, Among(runq[x], t) PROVE InQueues(runq, Execs, t) >= 1
  BY <1>2, Finite, InQueuesSome
<1> QED
  BY <1>1, <1>2 DEF RunqN

LEMMA InbSome ==
  ASSUME inbound \in [Execs -> Seq(Tasks)], NEW t
  PROVE  InbN(t) \in Nat /\ \A x \in Execs : Among(inbound[x], t) => InbN(t) >= 1
<1>1. InQueues(inbound, Execs, t) \in Nat
  BY Finite, CellsFacts
<1>2. ASSUME NEW x \in Execs, Among(inbound[x], t) PROVE InQueues(inbound, Execs, t) >= 1
  BY <1>2, Finite, InQueuesSome
<1> QED
  BY <1>1, <1>2 DEF InbN

LEMMA LockSome ==
  ASSUME send_lock_waiters \in [Clients -> Seq(Coros)], NEW t
  PROVE  LockN(t) \in Nat /\ \A x \in Clients : Among(send_lock_waiters[x], t) => LockN(t) >= 1
<1>1. InQueues(send_lock_waiters, Clients, t) \in Nat
  BY Finite, CellsFacts
<1>2. ASSUME NEW x \in Clients, Among(send_lock_waiters[x], t) PROVE InQueues(send_lock_waiters, Clients, t) >= 1
  BY <1>2, Finite, InQueuesSome
<1> QED
  BY <1>1, <1>2 DEF LockN

\* The parts of the sum are numbers.
Numbers(c) ==
  /\ RunN(c) \in Nat /\ HandN(c) \in Nat /\ WaitN(c) \in Nat /\ JoinN(c) \in Nat /\ TimeN(c) \in Nat
  /\ RunqN(c) \in Nat /\ InbN(c) \in Nat /\ LockN(c) \in Nat

\* The sequences that the sum counts over.
Queued == /\ runq \in [Execs -> Seq(Tasks)] /\ inbound \in [Execs -> Seq(Tasks)]
          /\ send_lock_waiters \in [Clients -> Seq(Coros)]

\* With them, the parts are numbers.
LEMMA NumbersFacts ==
  ASSUME Queued, NEW c
  PROVE  Numbers(c)
  BY RunSome, HandSome, WaitSome, JoinSome, TimeSome, RunqSome, InbSome, LockSome DEF Numbers, Queued

\* Chain c is in no place but a worker's thread.
NotRunq(c) == \A x \in Execs : ~ Among(runq[x], c) /\ ~ Among(inbound[x], c)
\* The chain is not in that place.
NotWait(c) == \A q \in Queues : queue[q].waiter # c
NotJoin(c) == \A k \in Clients : join_waiter[k] # c
NotLock(c) == \A k \in Clients : ~ Among(send_lock_waiters[k], c)
NotHand(c) == \A x \in Execs : ~ (hand[x] # None /\ hand[x][1] = c)
NotTime(c) == \A x \in Execs : c \notin timers[x]
NotRun(c)  == \A x \in Execs : running[x] # c

\* All parts of the sum but one are 0.
LEMMA OnePlace ==
  ASSUME Queued, NEW c, Places(c) <= 1
  PROVE  /\ RunN(c) >= 1 => NotRunq(c) /\ NotWait(c) /\ NotJoin(c) /\ NotLock(c) /\ NotHand(c) /\ NotTime(c)
         /\ WaitN(c) >= 1 => NotRunq(c) /\ NotRun(c) /\ NotJoin(c) /\ NotLock(c) /\ NotHand(c) /\ NotTime(c)
         /\ JoinN(c) >= 1 => NotRunq(c) /\ NotRun(c) /\ NotWait(c) /\ NotLock(c) /\ NotHand(c) /\ NotTime(c)
         /\ LockN(c) >= 1 => NotRunq(c) /\ NotRun(c) /\ NotWait(c) /\ NotJoin(c) /\ NotHand(c) /\ NotTime(c)
         /\ RunqN(c) >= 1 => NotRun(c) /\ NotWait(c) /\ NotJoin(c) /\ NotLock(c) /\ NotHand(c) /\ NotTime(c)
         /\ HandN(c) >= 1 => NotRunq(c) /\ NotRun(c) /\ NotWait(c) /\ NotJoin(c) /\ NotLock(c) /\ NotTime(c)
         /\ TimeN(c) >= 1 => NotRunq(c) /\ NotRun(c) /\ NotWait(c) /\ NotJoin(c) /\ NotLock(c) /\ NotHand(c)
<1>1. Numbers(c)
  BY NumbersFacts
<1>2. RunN(c) + HandN(c) + WaitN(c) + JoinN(c) + TimeN(c) + RunqN(c) + InbN(c) + LockN(c) <= 1
  BY PlacesSum
<1>3. /\ RunN(c) = 0 => NotRun(c)
      /\ HandN(c) = 0 => NotHand(c)
      /\ WaitN(c) = 0 => NotWait(c)
      /\ JoinN(c) = 0 => NotJoin(c)
      /\ TimeN(c) = 0 => NotTime(c)
      /\ LockN(c) = 0 => NotLock(c)
      /\ RunqN(c) = 0 /\ InbN(c) = 0 => NotRunq(c)
  BY RunSome, HandSome, WaitSome, JoinSome, TimeSome, RunqSome, InbSome, LockSome
     DEF Queued, NotRun, NotHand, NotWait, NotJoin, NotTime, NotLock, NotRunq
<1> DEFINE a == RunN(c)
           b == HandN(c)
           d == WaitN(c)
           f == JoinN(c)
           g == TimeN(c)
           h == RunqN(c)
           i == InbN(c)
           j == LockN(c)
<1>4. a \in Nat /\ b \in Nat /\ d \in Nat /\ f \in Nat /\ g \in Nat /\ h \in Nat /\ i \in Nat /\ j \in Nat
  BY <1>1 DEF Numbers
<1>5. a + b + d + f + g + h + i + j <= 1
  BY <1>2
<1> HIDE DEF a, b, d, f, g, h, i, j
<1>6. /\ a >= 1 => b = 0 /\ d = 0 /\ f = 0 /\ g = 0 /\ h = 0 /\ i = 0 /\ j = 0
      /\ b >= 1 => a = 0 /\ d = 0 /\ f = 0 /\ g = 0 /\ h = 0 /\ i = 0 /\ j = 0
      /\ d >= 1 => a = 0 /\ b = 0 /\ f = 0 /\ g = 0 /\ h = 0 /\ i = 0 /\ j = 0
      /\ f >= 1 => a = 0 /\ b = 0 /\ d = 0 /\ g = 0 /\ h = 0 /\ i = 0 /\ j = 0
      /\ g >= 1 => a = 0 /\ b = 0 /\ d = 0 /\ f = 0 /\ h = 0 /\ i = 0 /\ j = 0
      /\ h >= 1 => a = 0 /\ b = 0 /\ d = 0 /\ f = 0 /\ g = 0 /\ i = 0 /\ j = 0
      /\ j >= 1 => a = 0 /\ b = 0 /\ d = 0 /\ f = 0 /\ g = 0 /\ h = 0 /\ i = 0
  BY <1>4, <1>5
<1> QED
  BY <1>3, <1>6 DEF a, b, d, f, g, h, i, j

\* A chain that runs is in no other place.
LEMMA Alone ==
  ASSUME Typed, OneResumption, NEW e \in Execs, NEW c, running[e] = c, c # None
  PROVE  /\ c \in Coros /\ frames[c] # <<>>
         /\ NotRunq(c) /\ NotWait(c) /\ NotJoin(c) /\ NotLock(c) /\ NotHand(c) /\ NotTime(c)
<1>1. c \in Coros /\ Queued
  BY DEF Typed, Queued
<1>2. RunN(c) >= 1
  BY RunSome
<1>3. Places(c) >= 1
  <2>1. Numbers(c)
    BY <1>1, NumbersFacts
  <2> QED
    BY <1>2, <2>1, PlacesSum DEF Numbers
<1>4. Places(c) = (IF frames[c] = <<>> THEN 0 ELSE 1) /\ frames[c] # <<>>
  BY <1>1, <1>3 DEF OneResumption
<1> QED
  BY <1>1, <1>2, <1>4, OnePlace

----------------------------------------------------------------------------
(* What a step changes in the places of the chains. *)

\* Worker e gets the chains of s as its last private tasks.
Posts(e, s) == /\ Changed(runq, runq', Execs, Tasks, e) /\ s \in Seq(Coros)
               /\ runq'[e] = runq[e] \o s

\* A run queue may have any chain.
LEMMA CorosAreTasks == Coros \subseteq Tasks /\ \A s \in Seq(Coros) : s \in Seq(Tasks)
<1>1. Coros \subseteq Tasks
  BY DEF Tasks
<1>2. ASSUME NEW s \in Seq(Coros) PROVE s \in Seq(Tasks)
  <2>1. \A i \in 1 .. Len(s) : s[i] \in Tasks
    BY <1>1, ElementOfSeq
  <2>2. s = [i \in 1 .. Len(s) |-> s[i]] /\ Len(s) \in Nat
    BY LenProperties
  <2> QED
    BY <2>1, <2>2, SeqDef
<1> QED
  BY <1>1, <1>2

\* What is in a concatenation is in one of the two.
LEMMA AmongCat ==
  ASSUME NEW X, NEW s \in Seq(X), NEW u \in Seq(X), NEW t
  PROVE  Among(s \o u, t) <=> Among(s, t) \/ Among(u, t)
<1>1. s \o u \in Seq(X) /\ Occurs(s \o u, t) = Occurs(s, t) + Occurs(u, t)
  BY OccursCat, ConcatProperties
<1>2. Occurs(s, t) \in Nat /\ Occurs(u, t) \in Nat /\ (Occurs(s, t) >= 1 <=> Among(s, t))
      /\ (Occurs(u, t) >= 1 <=> Among(u, t)) /\ (Occurs(s \o u, t) >= 1 <=> Among(s \o u, t))
  BY <1>1, OccursFacts
<1> QED
  BY <1>1, <1>2

\* What is in a sequence has the type of its elements.
LEMMA AmongType ==
  ASSUME NEW X, NEW s \in Seq(X), NEW t, Among(s, t)
  PROVE  t \in X
<1>1. PICK i \in DOMAIN s : s[i] = t
  BY DEF Among
<1> QED
  BY <1>1, ElementOfSeq, LenProperties

\* Posting chains to a run queue adds them to what it counts;
LEMMA PostsFacts ==
  ASSUME NEW e, NEW s, Posts(e, s), NEW t
  PROVE  /\ RunqN(t)' = RunqN(t) + Occurs(s, t)
         /\ Occurs(s, t) \in Nat
         /\ t \notin Coros => Occurs(s, t) = 0
         /\ \A x \in Execs : Among(runq'[x], t) <=> Among(runq[x], t) \/ (x = e /\ Among(s, t))
         /\ t \notin Coros => ~ Among(s, t)
<1>1. Changed(runq, runq', Execs, Tasks, e) /\ s \in Seq(Coros) /\ s \in Seq(Tasks) /\ runq'[e] = runq[e] \o s
  BY CorosAreTasks DEF Posts
<1>2. RunqN(t)' = RunqN(t) + Occurs(s, t)
  <2>1. runq'[e] = runq[e] \o s => InQueues(runq', Execs, t) = InQueues(runq, Execs, t) + Occurs(s, t)
    BY <1>1, InQueuesAdd
  <2> QED
    BY <1>1, <2>1 DEF RunqN
<1>3. Occurs(s, t) \in Nat /\ (Occurs(s, t) >= 1 <=> Among(s, t)) /\ (t \notin Coros => ~ Among(s, t))
  BY <1>1, OccursFacts, AmongType
<1>4. ASSUME NEW x \in Execs PROVE Among(runq'[x], t) <=> Among(runq[x], t) \/ (x = e /\ Among(s, t))
  <2>1. CASE x # e
    BY <1>1, <2>1 DEF Changed
  <2>2. CASE x = e
    <3>1. runq[e] \in Seq(Tasks)
      BY <1>1 DEF Changed
    <3>2. Among(runq[e] \o s, t) <=> Among(runq[e], t) \/ Among(s, t)
      BY <1>1, <3>1, AmongCat
    <3> QED
      BY <1>1, <2>2, <3>2
  <2> QED
    BY <2>1, <2>2
<1> QED
  BY <1>2, <1>3, <1>4

\* The tasks that are no chains are the same, in their number and for each worker.
TokensStay ==
  \A t \in Tasks \ Coros :
    /\ RunqN(t)' + InbN(t)' = RunqN(t) + InbN(t)
    /\ \A x \in Execs : Among(runq'[x], t) \/ Among(inbound'[x], t) <=> Among(runq[x], t) \/ Among(inbound[x], t)

\* changes nothing of the sessions to start and the streams to clean up;
LEMMA TokensPosts ==
  ASSUME NEW e, NEW s, Posts(e, s), inbound' = inbound
  PROVE  TokensStay
<1> SUFFICES ASSUME NEW t \in Tasks \ Coros
             PROVE  /\ RunqN(t)' + InbN(t)' = RunqN(t) + InbN(t)
                    /\ \A x \in Execs : Among(runq'[x], t) \/ Among(inbound'[x], t)
                                          <=> Among(runq[x], t) \/ Among(inbound[x], t)
  BY DEF TokensStay
<1>1. RunqN(t)' = RunqN(t) + 0 /\ \A x \in Execs : Among(runq'[x], t) <=> Among(runq[x], t)
  BY PostsFacts
<1>2. InbN(t)' = InbN(t)
  BY DEF InbN
<1>3. RunqN(t) \in Nat
  <2>1. runq \in [Execs -> Seq(Tasks)]
    BY DEF Posts, Changed
  <2> QED
    BY <2>1, RunqSome
<1> QED
  BY <1>1, <1>2, <1>3

\* and nor does leaving the run queues alone.
LEMMA TokensSame ==
  ASSUME runq' = runq, inbound' = inbound
  PROVE  TokensStay
  BY DEF TokensStay, RunqN, InbN

\* a sequence of chains is posted;
LEMMA PostsSome ==
  ASSUME runq \in [Execs -> Seq(Tasks)], NEW e \in Execs, NEW s \in Seq(Coros),
         runq' = [runq EXCEPT ![e] = @ \o s]
  PROVE  Posts(e, s)
<1>1. s \in Seq(Tasks) /\ IsFiniteSet(Execs)
  BY CorosAreTasks, Finite
<1>2. runq[e] \o s \in Seq(Tasks)
  BY <1>1, ConcatProperties
<1>3. runq' \in [Execs -> Seq(Tasks)] /\ runq'[e] = runq[e] \o s /\ \A y \in Execs \ {e} : runq'[y] = runq[y]
  BY <1>2
<1> QED
  BY <1>1, <1>3 DEF Posts, Changed

\* one chain is posted.
LEMMA PostsOne ==
  ASSUME runq \in [Execs -> Seq(Tasks)], NEW e \in Execs, NEW c \in Coros, runq' = Posted(runq, c, e)
  PROVE  Posts(e, <<c>>) /\ \A d : Occurs(<<c>>, d) = One(c = d)
<1>1. <<c>> \in Seq(Coros) /\ runq[e] \in Seq(Tasks)
  OBVIOUS
<1>2. Append(runq[e], c) = runq[e] \o <<c>>
  BY <1>1, CorosAreTasks, AppendIsConcat
<1>3. runq' = [runq EXCEPT ![e] = @ \o <<c>>]
  BY <1>2 DEF Posted
<1> QED
  BY <1>1, <1>3, PostsSome, OccursOne

\* A part of the sum does not change when its variable does not.
LEMMA PartsSame ==
  ASSUME NEW d
  PROVE  /\ running' = running => RunN(d)' = RunN(d)
         /\ hand' = hand => HandN(d)' = HandN(d)
         /\ (\A q \in Queues : queue'[q].waiter = queue[q].waiter) => WaitN(d)' = WaitN(d)
         /\ join_waiter' = join_waiter => JoinN(d)' = JoinN(d)
         /\ timers' = timers => TimeN(d)' = TimeN(d)
         /\ runq' = runq => RunqN(d)' = RunqN(d)
         /\ inbound' = inbound => InbN(d)' = InbN(d)
         /\ send_lock_waiters' = send_lock_waiters => LockN(d)' = LockN(d)
<1>1. (\A q \in Queues : queue'[q].waiter = queue[q].waiter) => WaitN(d)' = WaitN(d)
  <2> SUFFICES ASSUME \A q \in Queues : queue'[q].waiter = queue[q].waiter PROVE WaitN(d)' = WaitN(d)
    OBVIOUS
  <2>1. {q \in Queues : queue'[q].waiter = d} = {q \in Queues : queue[q].waiter = d}
    OBVIOUS
  <2> QED
    BY <2>1 DEF WaitN
<1> QED
  BY <1>1 DEF RunN, HandN, JoinN, TimeN, RunqN, InbN, LockN

\* The parts are numbers after a step too.
LEMMA NumbersNext ==
  ASSUME Queued', NEW c
  PROVE  Numbers(c)'
<1> DEFINE A == {e \in Execs : running'[e] = c}
           B == {e \in Execs : hand'[e] # None /\ hand'[e][1] = c}
           C == {q \in Queues : queue'[q].waiter = c}
           D == {k \in Clients : join_waiter'[k] = c}
           E == {e \in Execs : c \in timers'[e]}
<1>1. /\ RunN(c)' = Cardinality(A) /\ HandN(c)' = Cardinality(B) /\ WaitN(c)' = Cardinality(C)
      /\ JoinN(c)' = Cardinality(D) /\ TimeN(c)' = Cardinality(E)
  BY DEF RunN, HandN, WaitN, JoinN, TimeN, None
<1>2. A \in SUBSET Execs /\ B \in SUBSET Execs /\ C \in SUBSET Queues /\ D \in SUBSET Clients /\ E \in SUBSET Execs
  OBVIOUS
<1> HIDE DEF A, B, C, D, E
<1>3. Cardinality(A) \in Nat /\ Cardinality(B) \in Nat /\ Cardinality(C) \in Nat /\ Cardinality(D) \in Nat
      /\ Cardinality(E) \in Nat
  BY <1>2, Finite, CountSome
<1>4. /\ InQueues(runq', Execs, c) \in Nat /\ InQueues(inbound', Execs, c) \in Nat
      /\ InQueues(send_lock_waiters', Clients, c) \in Nat
  BY Finite, CellsFacts DEF Queued
<1> QED
  BY <1>1, <1>3, <1>4 DEF Numbers, RunqN, InbN, LockN

\* A step that queues s on worker e, and changes the other places it has there.
LEMMA PlacesStep ==
  ASSUME Queued, Queued', NEW e \in Execs, NEW s, Posts(e, s), inbound' = inbound,
         \A x \in Execs : x # e => running'[x] = running[x], NEW d
  PROVE  /\ Places(d)' = Places(d) - One(running[e] = d) + One(running'[e] = d) + Occurs(s, d)
                           + (HandN(d)' - HandN(d)) + (WaitN(d)' - WaitN(d)) + (JoinN(d)' - JoinN(d))
                           + (TimeN(d)' - TimeN(d)) + (LockN(d)' - LockN(d))
         /\ Numbers(d) /\ Numbers(d)' /\ Occurs(s, d) \in Nat /\ Places(d) \in Nat /\ Places(d)' \in Nat
<1>1. Numbers(d) /\ Numbers(d)'
  <2>1. Numbers(d)
    BY NumbersFacts
  <2>2. Numbers(d)'
    BY NumbersNext
  <2> QED
    BY <2>1, <2>2
<1>2. /\ RunqN(d)' = RunqN(d) + Occurs(s, d) /\ Occurs(s, d) \in Nat
      /\ InbN(d)' = InbN(d)
      /\ RunN(d)' = RunN(d) - One(running[e] = d) + One(running'[e] = d)
  BY PostsFacts, PartsSame, RunSet
<1>3. Places(d) = RunN(d) + HandN(d) + WaitN(d) + JoinN(d) + TimeN(d) + RunqN(d) + InbN(d) + LockN(d)
  BY PlacesSum
<1>4. Places(d)' = RunN(d)' + HandN(d)' + WaitN(d)' + JoinN(d)' + TimeN(d)' + RunqN(d)' + InbN(d)' + LockN(d)'
  BY DEF Places, RunN, HandN, WaitN, JoinN, TimeN, RunqN, InbN, LockN
<1>5. One(running[e] = d) \in Nat /\ One(running'[e] = d) \in Nat
  BY DEF One
<1> QED
  BY <1>1, <1>2, <1>3, <1>4, <1>5 DEF Numbers

\* A chain has a place if and only if it has a frame.
LEMMA OneResumptionStays ==
  ASSUME OneResumption,
         \A d \in Coros : /\ Places(d) \in Nat
                          /\ Places(d)' = Places(d) + One(frames'[d] # <<>>) - One(frames[d] # <<>>)
  PROVE  OneResumption'
<1> SUFFICES ASSUME NEW d \in Coros PROVE Places(d)' = IF frames'[d] = <<>> THEN 0 ELSE 1
  BY DEF OneResumption
<1>1. Places(d) = IF frames[d] = <<>> THEN 0 ELSE 1
  BY DEF OneResumption
<1> QED
  BY <1>1 DEF One

----------------------------------------------------------------------------
(* What each part of the invariant depends on. *)

\* The stack of one chain changes into one of its stacks.
LEMMA StacksStay ==
  ASSUME Typed, Stacks, NEW c \in Coros, NEW s \in Stack, StackOf(c, s), frames' = [frames EXCEPT ![c] = s]
  PROVE  /\ Stacks' /\ frames' \in [Coros -> Stack] /\ frames'[c] = s
         /\ \A d \in Coros : d # c => frames'[d] = frames[d]
<1>1. frames \in [Coros -> Stack]
  BY DEF Typed
<1>2. /\ frames' \in [Coros -> Stack] /\ frames'[c] = s
      /\ \A d \in Coros : d # c => frames'[d] = frames[d]
  BY <1>1
<1>3. \A d \in Coros : StackOf(d, frames'[d])
  BY <1>2, StacksOf
<1>4. Stacks'
  BY <1>3, CoroNames DEF Stacks, StackOf
<1> QED
  BY <1>2, <1>4

\* Each conjunct of the invariant, and what of a step keeps it.
LEMMA ParkedStays ==
  ASSUME Parked,
         \A q \in Queues : queue'[q].waiter # None =>
           /\ queue'[q].waiter = queue[q].waiter /\ frames'[queue[q].waiter] = frames[queue[q].waiter]
           /\ queue[q].exec # NoExec => queue'[q].exec # NoExec,
         \A k \in Clients : join_waiter'[k] # None =>
           join_waiter'[k] = join_waiter[k] /\ frames'[join_waiter[k]] = frames[join_waiter[k]],
         \A k \in Clients, c \in Coros : Among(send_lock_waiters'[k], c) =>
           Among(send_lock_waiters[k], c) /\ frames'[c] = frames[c]
  PROVE  Parked'
<1>1. ASSUME NEW q \in Queues, queue'[q].waiter # None
      PROVE  HeadIs(queue[q].waiter, Frame("resume", q))' /\ queue'[q].exec # NoExec
  BY <1>1 DEF Parked, HeadIs, None
<1>2. ASSUME NEW k \in Clients, join_waiter'[k] # None
      PROVE  HeadIs(join_waiter[k], Frame("joined", k))'
  BY <1>2 DEF Parked, HeadIs, None
<1>3. ASSUME NEW k \in Clients, NEW c \in Coros, Among(send_lock_waiters'[k], c)
      PROVE  HeadIs(c, Frame("locked", k))'
  BY <1>3 DEF Parked, HeadIs
<1> QED
  BY <1>1, <1>2, <1>3 DEF Parked, Among, None

LEMMA BoundStays ==
  ASSUME Bound,
         \A q \in Queues : queue[q].exec # NoExec => queue'[q].exec # NoExec,
         frames'[Room] # <<>> => frames[Room] # <<>>,
         frames'[Main] = frames[Main] \/ frames'[Main] = <<>> \/ queue'[accepted].exec # NoExec,
         \A k \in Clients : /\ watcher'[k] # "none" => watcher[k] # "none"
                            /\ frames'[writer(k)] # <<>> => frames[writer(k)] # <<>>
  PROVE  Bound'
  BY QueueNames DEF Bound

LEMMA ChildrenStay ==
  ASSUME Children, active' = active,
         HeadIs(Main, Frame("main", 0))' => frames'[Room] = <<>>,
         \A k \in Clients :
           /\ frames'[writer(k)] = <<>> <=> frames[writer(k)] = <<>>
           /\ frames'[helper(k)] = <<>> <=> frames[helper(k)] = <<>>
           /\ watcher'[k] = "none" => watcher[k] = "none"
           /\ frames'[session(k)] # <<>> => frames[session(k)] # <<>>
           /\ Childless(k)' => Childless(k)
  PROVE  Children'
<1>1. ASSUME NEW k \in Clients
      PROVE  /\ active'[k] = One(frames'[writer(k)] # <<>>) + One(frames'[helper(k)] # <<>>)
             /\ watcher'[k] = "none" => frames'[session(k)] = <<>>
             /\ Childless(k)' => active'[k] = 0
  BY DEF Children, One
<1> QED
  BY <1>1 DEF Children

\* The tasks that are not chains.
LEMMA TokenNames ==
  \A k \in Clients : <<"start", k>> \in Tasks \ Coros /\ <<"cleanup", k>> \in Tasks \ Coros
  BY NotCoros DEF Tasks

\* The tickets stay when nothing that has them changes.
LEMMA TicketsSame ==
  ASSUME Queued, Queued', TokensStay, queue'[accepted].q = queue[accepted].q, got'[Main] = got[Main],
         queue[accepted].q \in Seq(Streams)
  PROVE  \A k \in Clients : Tickets(k)' = Tickets(k)
<1> SUFFICES ASSUME NEW k \in Clients PROVE Tickets(k)' = Tickets(k)
  OBVIOUS
<1> DEFINE t == <<"start", k>>
           a == Cardinality({i \in DOMAIN queue[accepted].q : queue[accepted].q[i] = <<"stream", k>>})
           b == One(got[Main] = <<"stream", k>>)
<1>1. /\ Tickets(k) = a + b + RunqN(t) + InbN(t)
      /\ Tickets(k)' = a + b + RunqN(t)' + InbN(t)'
  BY DEF Tickets, RunqN, InbN
<1>2. /\ RunqN(t) \in Nat /\ InbN(t) \in Nat /\ RunqN(t)' \in Nat /\ InbN(t)' \in Nat
  BY NumbersFacts, NumbersNext DEF Numbers
<1>3. RunqN(t)' + InbN(t)' = RunqN(t) + InbN(t)
  BY TokenNames DEF TokensStay
<1>4. a \in Nat /\ b \in Nat
  BY OccursFacts DEF One, Occurs, Slots
<1> HIDE DEF a, b, t
<1> QED
  BY <1>1, <1>2, <1>3, <1>4

LEMMA TicketedStays ==
  ASSUME Ticketed,
         \A k \in Clients : /\ Tickets(k)' = Tickets(k)
                            /\ watcher'[k] = "none" <=> watcher[k] = "none"
                            /\ chunks'[k] = -1 => chunks[k] = -1
  PROVE  Ticketed'
<1>1. ASSUME NEW k \in Clients
      PROVE  /\ Tickets(k)' <= 1
             /\ watcher'[k] # "none" => Tickets(k)' = 0
             /\ chunks'[k] = -1 => watcher'[k] = "none" /\ Tickets(k)' = 0
  BY DEF Ticketed
<1> QED
  BY <1>1 DEF Ticketed

LEMMA KnownStays ==
  ASSUME Known, TokensStay,
         \A k \in Clients :
           \/ watcher'[k] # "none"
           \/ /\ watcher[k] = "none"
              /\ Among(queue'[cmds].q, <<"join", k>>) => Among(queue[cmds].q, <<"join", k>>)
              /\ got'[Room] = <<"join", k>> => got[Room] = <<"join", k>> \/ Among(queue[cmds].q, <<"join", k>>)
              /\ Among(clients', k) => Among(clients, k) \/ got[Room] = <<"join", k>>
  PROVE  Known'
<1>1. ASSUME NEW k \in Clients, watcher'[k] = "none"
      PROVE  /\ ~ Among(queue'[cmds].q, <<"join", k>>) /\ got'[Room] # <<"join", k>>
             /\ ~ Among(clients', k)
             /\ \A e \in Execs : ~ Among(runq'[e], <<"cleanup", k>>) /\ ~ Among(inbound'[e], <<"cleanup", k>>)
  <2>1. /\ watcher[k] = "none" /\ ~ Among(queue[cmds].q, <<"join", k>>) /\ got[Room] # <<"join", k>>
        /\ ~ Among(clients, k)
        /\ \A e \in Execs : ~ Among(runq[e], <<"cleanup", k>>) /\ ~ Among(inbound[e], <<"cleanup", k>>)
    BY <1>1 DEF Known
  <2>2. <<"cleanup", k>> \in Tasks \ Coros
    BY TokenNames
  <2>3. \A e \in Execs : ~ Among(runq'[e], <<"cleanup", k>>) /\ ~ Among(inbound'[e], <<"cleanup", k>>)
    BY <2>1, <2>2 DEF TokensStay
  <2> QED
    BY <1>1, <2>1, <2>3
<1>2. ASSUME NEW k \in Clients
      PROVE  \/ watcher'[k] # "none"
             \/ /\ ~ Among(queue'[cmds].q, <<"join", k>>) /\ got'[Room] # <<"join", k>>
                /\ ~ Among(clients', k)
                /\ \A e \in Execs : ~ Among(runq'[e], <<"cleanup", k>>) /\ ~ Among(inbound'[e], <<"cleanup", k>>)
  BY <1>1
<1> QED
  BY <1>2 DEF Known

LEMMA LocksStay ==
  ASSUME Locks, send_locked \subseteq send_locked',
         \A k \in Clients, c \in Coros : Owner(c, k)' => Owner(c, k)
  PROVE  Locks'
<1>1. ASSUME NEW k \in Clients, NEW c \in Coros, Owner(c, k)'
      PROVE  k \in send_locked' /\ \A d \in Coros : Owner(d, k)' => c = d
  BY <1>1 DEF Locks
<1> QED
  BY <1>1 DEF Locks

LEMMA RoomStays ==
  ASSUME RoomOK, frames'[Room] = frames[Room], got'[Room] = got[Room], it' = it, clients' = clients,
         queue'[cmds].closed = queue[cmds].closed,
         queue[cmds].q # <<>> => queue'[cmds].q # <<>>,
         queue[cmds].waiter = Room => queue'[cmds].waiter = Room \/ queue'[cmds].q # <<>>
  PROVE  RoomOK'
  BY DEF RoomOK, RoomAt, Inner, HeadIs

\* Range and Among agree.
LEMMA RangeAmong == \A s, t : t \in Range(s) <=> Among(s, t)
  BY DEF Range, Among

\* The last conjunct: streams that the code has not dropped stay undropped, and dropped ones go on
\* being cleaned up.
LEMMA DroppedStays ==
  ASSUME Typed, Bound, DroppedStreamIsClosed,
         \A k \in Clients, x \in Execs :
           Among(runq[x], <<"cleanup", k>>) \/ Among(inbound[x], <<"cleanup", k>>)
             => Among(runq'[x], <<"cleanup", k>>) \/ Among(inbound'[x], <<"cleanup", k>>) \/ watcher'[k] # "open",
         \A k \in Clients : watcher'[k] = "open" =>
           \/ watcher[k] = "open" /\ exec(k)' = exec(k) /\ (k \in Alive => k \in Alive')
           \/ k \in Alive'
  PROVE  DroppedStreamIsClosed'
<1>1. ASSUME NEW k \in Clients, watcher'[k] = "open", k \notin Alive'
      PROVE  Among(runq'[exec(k)'], <<"cleanup", k>>) \/ Among(inbound'[exec(k)'], <<"cleanup", k>>)
  <2>1. watcher[k] = "open" /\ k \notin Alive /\ exec(k)' = exec(k)
    BY <1>1
  <2>2. exec(k) \in Execs
    BY <2>1, QueueNames DEF Bound, Typed, exec
  <2>3. Among(runq[exec(k)], <<"cleanup", k>>) \/ Among(inbound[exec(k)], <<"cleanup", k>>)
    BY <2>1, RangeAmong DEF DroppedStreamIsClosed
  <2> QED
    BY <1>1, <2>1, <2>2, <2>3
<1>2. ASSUME NEW k \in Clients, watcher'[k] = "open", k \notin Alive'
      PROVE  (\E qs \in {runq[exec(k)], inbound[exec(k)]} : <<"cleanup", k>> \in Range(qs))'
  BY <1>1, <1>2, RangeAmong
<1> QED
  BY <1>2 DEF DroppedStreamIsClosed

\* The client lives on, unless one of its references goes.
LEMMA AliveStays ==
  ASSUME NEW k \in Clients, k \in Alive,
         frames[session(k)] # <<>> => frames'[session(k)] # <<>>,
         frames'[Room] = frames[Room], got'[Room] = got[Room], it' = it, clients' = clients,
         Among(queue[cmds].q, <<"join", k>>) => Among(queue'[cmds].q, <<"join", k>>),
         queue[cmds].q \in Seq(Commands), queue'[cmds].q \in Seq(Commands)
  PROVE  k \in Alive'
<1>1. /\ DOMAIN queue[cmds].q = 1 .. Len(queue[cmds].q)
      /\ DOMAIN queue'[cmds].q = 1 .. Len(queue'[cmds].q)
  BY LenProperties
<1>5. /\ InJoin(k) <=> \/ Among(queue[cmds].q, <<"join", k>>)
                       \/ got[Room] = <<"join", k>> /\ RoomAt({"command", "cast", "pushed"})
      /\ InJoin(k)' <=> \/ Among(queue'[cmds].q, <<"join", k>>)
                        \/ got'[Room] = <<"join", k>> /\ frames'[Room] # <<>>
                           /\ Head(frames'[Room]).at \in {"command", "cast", "pushed"}
  BY <1>1 DEF InJoin, Among, RoomAt, Inner
<1>6. /\ RoomAt({"command", "cast", "pushed"}) =>
           frames'[Room] # <<>> /\ Head(frames'[Room]).at \in {"command", "cast", "pushed"}
      /\ RoomAt({"pushed"}) => frames'[Room] # <<>> /\ Head(frames'[Room]).at \in {"pushed"}
  BY DEF RoomAt, Inner
<1>2. CASE InSession(k)
  BY <1>2 DEF Alive, InSession
<1>3. CASE InJoin(k)
  BY <1>3, <1>5, <1>6 DEF Alive
<1>4. CASE Pinned(k)
  BY <1>4, <1>6 DEF Alive, Pinned, RoomAt, Inner
<1> QED
  BY <1>2, <1>3, <1>4 DEF Alive

----------------------------------------------------------------------------
(* A chain that goes on to another frame, and nothing else. *)

\* The chain of worker e keeps the thread, or goes through the private tasks.
GoesOn(e, c) ==
  \/ UNCHANGED execVars
  \/ /\ running' = [running EXCEPT ![e] = None] /\ runq' = Posted(runq, c, e)
     /\ UNCHANGED <<inbound, hand>>

\* A chain goes on running, or is posted again: its places are as many as before.
LEMMA GoesOnFacts ==
  ASSUME Typed, NEW e \in Execs, NEW c \in Coros, running[e] = c, GoesOn(e, c)
  PROVE  /\ TokensStay
         /\ running' \in [Execs -> Coros \cup {None}] /\ runq' \in [Execs -> Seq(Tasks)]
         /\ inbound' = inbound /\ hand' = hand
         /\ (/\ \A q \in Queues : queue'[q].waiter = queue[q].waiter
             /\ UNCHANGED <<join_waiter, timers, send_lock_waiters>>)
            => \A d \in Coros : Places(d)' = Places(d)
<1>1. CASE UNCHANGED execVars
  <2>1. running' = running /\ runq' = runq /\ inbound' = inbound /\ hand' = hand
    BY <1>1 DEF execVars
  <2>2. TokensStay
    BY <2>1, TokensSame
  <2>3. ASSUME \A q \in Queues : queue'[q].waiter = queue[q].waiter, join_waiter' = join_waiter,
               timers' = timers, send_lock_waiters' = send_lock_waiters, NEW d \in Coros
        PROVE  Places(d)' = Places(d)
    <3>1. /\ RunN(d)' = RunN(d) /\ HandN(d)' = HandN(d) /\ WaitN(d)' = WaitN(d) /\ JoinN(d)' = JoinN(d)
          /\ TimeN(d)' = TimeN(d) /\ RunqN(d)' = RunqN(d) /\ InbN(d)' = InbN(d) /\ LockN(d)' = LockN(d)
      BY <2>1, <2>3, PartsSame
    <3> QED
      BY <3>1 DEF Places, RunN, HandN, WaitN, JoinN, TimeN, RunqN, InbN, LockN
  <2> QED
    BY <2>1, <2>2, <2>3 DEF Typed
<1>2. CASE /\ running' = [running EXCEPT ![e] = None] /\ runq' = Posted(runq, c, e)
           /\ UNCHANGED <<inbound, hand>>
  <2>1. inbound' = inbound /\ hand' = hand /\ running'[e] = None
        /\ running' \in [Execs -> Coros \cup {None}] /\ \A x \in Execs : x # e => running'[x] = running[x]
    BY <1>2 DEF Typed
  <2>2. Posts(e, <<c>>) /\ \A d : Occurs(<<c>>, d) = One(c = d)
    BY <1>2, PostsOne DEF Typed
  <2>3. TokensStay /\ runq' \in [Execs -> Seq(Tasks)]
    BY <2>1, <2>2, TokensPosts DEF Posts, Changed
  <2>4. ASSUME \A q \in Queues : queue'[q].waiter = queue[q].waiter, join_waiter' = join_waiter,
               timers' = timers, send_lock_waiters' = send_lock_waiters, NEW d \in Coros
        PROVE  Places(d)' = Places(d)
    <3>1. Queued /\ Queued'
      BY <2>1, <2>3, <2>4 DEF Typed, Queued
    <3>2. /\ Places(d)' = Places(d) - One(running[e] = d) + One(running'[e] = d) + Occurs(<<c>>, d)
                           + (HandN(d)' - HandN(d)) + (WaitN(d)' - WaitN(d)) + (JoinN(d)' - JoinN(d))
                           + (TimeN(d)' - TimeN(d)) + (LockN(d)' - LockN(d))
          /\ Numbers(d) /\ Places(d) \in Nat
      BY <2>1, <2>2, <3>1, PlacesStep
    <3>3. HandN(d)' = HandN(d) /\ WaitN(d)' = WaitN(d) /\ JoinN(d)' = JoinN(d)
          /\ TimeN(d)' = TimeN(d) /\ LockN(d)' = LockN(d)
      BY <2>1, <2>4, PartsSame
    <3>4. running'[e] # d /\ Occurs(<<c>>, d) = One(c = d) /\ One(running'[e] = d) = 0 /\ One(c = d) \in Nat
      BY <2>1, <2>2, NotCoros DEF One
    <3> QED
      BY <3>2, <3>3, <3>4 DEF Numbers
  <2> QED
    BY <2>1, <2>3, <2>4
<1> QED
  BY <1>1, <1>2 DEF GoesOn

\* A chain other than the room takes a step that changes nothing but its stack and what it has got.
LEMMA Walk ==
  ASSUME IInv, NEW e \in Execs, NEW c \in Coros, running[e] = c, c # Room,
         NEW s \in Stack, s # <<>>, StackOf(c, s), frames' = [frames EXCEPT ![c] = s],
         GoesOn(e, c),
         UNCHANGED <<queue, groupVars, watcher, send_locked, send_lock_waiters, timers, rr, chunks, roomVars>>,
         got' = [d \in Coros |-> got'[d]], got'[Room] = got[Room], got'[Main] = got[Main],
         \A k \in Clients : /\ Sends(s, k) => Owner(c, k)
                            /\ Head(s) # Frame("locked", k)
                            /\ c = session(k) /\ Head(s).at \in {"session", "session end", "joined"} => active[k] = 0,
         c = Main => Head(s).at # "main" /\ queue[accepted].exec # NoExec
  PROVE  IInv'
<1> USE DEF IInv
<1>1. /\ Stacks' /\ frames' \in [Coros -> Stack] /\ frames'[c] = s /\ \A d \in Coros : d # c => frames'[d] = frames[d]
  BY StacksStay
<1>2. /\ frames[c] # <<>> /\ NotWait(c) /\ NotJoin(c) /\ NotLock(c)
  BY Alone, NotCoros
<1>3. /\ queue' = queue /\ active' = active /\ join_waiter' = join_waiter /\ watcher' = watcher
      /\ send_locked' = send_locked /\ send_lock_waiters' = send_lock_waiters /\ timers' = timers /\ rr' = rr
      /\ chunks' = chunks /\ clients' = clients /\ it' = it
  BY DEF groupVars, roomVars
<1>4. /\ TokensStay
      /\ running' \in [Execs -> Coros \cup {None}] /\ runq' \in [Execs -> Seq(Tasks)]
      /\ inbound' = inbound /\ hand' = hand
      /\ \A d \in Coros : Places(d)' = Places(d)
  BY <1>3, GoesOnFacts
<1>5. Typed'
  BY <1>1, <1>3, <1>4 DEF Typed
<1>6. OneResumption'
  <2>1. \A d \in Coros : Places(d)' = (IF frames'[d] = <<>> THEN 0 ELSE 1)
    BY <1>1, <1>2, <1>4 DEF OneResumption
  <2> QED
    BY <2>1 DEF OneResumption
<1>7. Parked'
  <2>1. \A q \in Queues : queue[q].waiter # None => queue[q].waiter \in Coros /\ queue[q].waiter # c
    BY <1>2 DEF Typed, NotWait
  <2>2. \A k \in Clients : join_waiter[k] # None => join_waiter[k] \in Coros /\ join_waiter[k] # c
    BY <1>2 DEF Typed, NotJoin
  <2>3. \A k \in Clients, d \in Coros : Among(send_lock_waiters[k], d) => d # c
    BY <1>2 DEF NotLock
  <2>4. \A q \in Queues : queue'[q].waiter # None =>
          /\ queue'[q].waiter = queue[q].waiter /\ frames'[queue[q].waiter] = frames[queue[q].waiter]
          /\ queue[q].exec # NoExec => queue'[q].exec # NoExec
    BY <1>1, <1>3, <2>1
  <2>5. \A k \in Clients : join_waiter'[k] # None =>
          join_waiter'[k] = join_waiter[k] /\ frames'[join_waiter[k]] = frames[join_waiter[k]]
    BY <1>1, <1>3, <2>2
  <2>6. \A k \in Clients, d \in Coros : Among(send_lock_waiters'[k], d) =>
          Among(send_lock_waiters[k], d) /\ frames'[d] = frames[d]
    BY <1>1, <1>3, <2>3
  <2>7. Parked
    OBVIOUS
  <2> QED
    BY <2>4, <2>5, <2>6, <2>7, ParkedStays
<1>8. Bound'
  <2>1. /\ frames'[Room] = frames[Room] /\ (frames'[Main] = frames[Main] \/ queue'[accepted].exec # NoExec)
        /\ \A k \in Clients : frames'[writer(k)] # <<>> => frames[writer(k)] # <<>>
    BY <1>1, <1>2, <1>3, CoroNames
  <2> QED
    BY <1>3, <2>1, BoundStays
<1>9. Children'
  <2>1. HeadIs(Main, Frame("main", 0))' => frames'[Room] = <<>>
    <3>1. CASE c = Main
      <4>1. Head(s) # Frame("main", 0)
        <5>1. Head(s).at # "main"
          BY <3>1
        <5>2. Frame("main", 0).at = "main"
          BY FrameFacts
        <5> QED
          BY <5>1, <5>2
      <4> QED
        BY <1>1, <3>1, <4>1 DEF HeadIs
    <3>2. CASE c # Main
      BY <1>1, <3>2, CoroNames DEF HeadIs, Children
    <3> QED
      BY <3>1, <3>2
  <2>2. ASSUME NEW k \in Clients
        PROVE  /\ frames'[writer(k)] = <<>> <=> frames[writer(k)] = <<>>
               /\ frames'[helper(k)] = <<>> <=> frames[helper(k)] = <<>>
               /\ frames'[session(k)] # <<>> => frames[session(k)] # <<>>
    BY <1>1, <1>2, CoroNames
  <2>3. ASSUME NEW k \in Clients, Childless(k)'
        PROVE  active[k] = 0
    <3>1. CASE c = session(k)
      <4>1. Head(s).at \in {"session", "session end", "joined"}
        <5>1. Head(s) \in {Frame("session", k), Frame("session end", k), Frame("joined", k)}
          BY <1>1, <2>3, <3>1 DEF Childless, HeadIs
        <5>2. /\ Frame("session", k).at = "session" /\ Frame("session end", k).at = "session end"
              /\ Frame("joined", k).at = "joined"
          BY FrameFacts
        <5> QED
          BY <5>1, <5>2
      <4> QED
        BY <3>1, <4>1
    <3>2. CASE c # session(k)
      <4>1. frames'[session(k)] = frames[session(k)]
        BY <1>1, <3>2, CoroNames
      <4>2. Childless(k)
        BY <1>3, <2>3, <4>1 DEF Childless, HeadIs
      <4> QED
        BY <4>2 DEF Children
    <3> QED
      BY <3>1, <3>2
  <2>4. ASSUME NEW k \in Clients
        PROVE  /\ active'[k] = One(frames'[writer(k)] # <<>>) + One(frames'[helper(k)] # <<>>)
               /\ watcher'[k] = "none" => frames'[session(k)] = <<>>
    BY <1>3, <2>2 DEF Children, One
  <2> QED
    BY <1>3, <2>1, <2>3, <2>4 DEF Children
<1>10. Ticketed'
  <2>1. Queued /\ Queued' /\ queue[accepted].q \in Seq(Streams)
    BY <1>5 DEF Typed, Queued
  <2>2. \A k \in Clients : Tickets(k)' = Tickets(k)
    BY <1>3, <1>4, <2>1, TicketsSame
  <2> QED
    BY <1>3, <2>2, TicketedStays
<1>11. Known'
  BY <1>3, <1>4, KnownStays
<1>12. Locks'
  <2>1. ASSUME NEW k \in Clients, NEW d \in Coros, Owner(d, k)'
        PROVE  Owner(d, k)
    <3>1. CASE d = c
      <4>1. Sending(c, k)' => Sends(s, k)
        BY <1>1 DEF Sending, Sends
      <4>2. ~ HeadIs(c, Frame("locked", k))'
        BY <1>1 DEF HeadIs
      <4> QED
        BY <2>1, <3>1, <4>1, <4>2 DEF Owner
    <3>2. CASE d # c
      <4>1. frames'[d] = frames[d]
        BY <1>1, <3>2
      <4> QED
        BY <1>3, <2>1, <4>1 DEF Owner, Sending, HeadIs
    <3> QED
      BY <3>1, <3>2
  <2> QED
    BY <1>3, <2>1, LocksStay
<1>13. RoomOK'
  <2>1. frames'[Room] = frames[Room]
    BY <1>1, CoroNames
  <2> QED
    BY <1>3, <2>1, RoomStays
<1>14. DroppedStreamIsClosed'
  <2>1. ASSUME NEW k \in Clients, k \in Alive PROVE k \in Alive'
    <3>1. /\ frames[session(k)] # <<>> => frames'[session(k)] # <<>>
          /\ frames'[Room] = frames[Room] /\ queue[cmds].q \in Seq(Commands)
      BY <1>1, CoroNames DEF Typed
    <3> QED
      BY <1>3, <2>1, <3>1, AliveStays
  <2>2. ASSUME NEW k \in Clients, NEW x \in Execs
        PROVE  Among(runq[x], <<"cleanup", k>>) \/ Among(inbound[x], <<"cleanup", k>>)
                 => Among(runq'[x], <<"cleanup", k>>) \/ Among(inbound'[x], <<"cleanup", k>>)
    BY <1>4, TokenNames DEF TokensStay
  <2> QED
    BY <1>3, <2>1, <2>2, DroppedStays DEF exec
<1> QED
  BY <1>1, <1>5, <1>6, <1>7, <1>8, <1>9, <1>10, <1>11, <1>12, <1>13, <1>14

----------------------------------------------------------------------------
(* The steps that take a chain from one frame to the next. *)

\* A chain that is at label l runs, and has the stack of that label.
LEMMA Here ==
  ASSUME IInv, NEW e \in Execs, NEW c, c # None, NEW l, At(e, c, l)
  PROVE  /\ c \in Coros /\ running[e] = c /\ hand[e] = None /\ frames[c] # <<>>
         /\ Where(c, l, frames[c]) /\ StackOf(c, frames[c]) /\ l \in Labels /\ Head(frames[c]).at = l
<1>1. running[e] = c /\ hand[e] = None /\ frames[c] # <<>> /\ Head(frames[c]).at = l
  BY DEF At
<1>2. c \in Coros
  BY <1>1, Alone DEF IInv
<1>3. StackOf(c, frames[c])
  BY <1>2, StacksOf DEF IInv
<1>4. PICK m : m = Head(frames[c]).at /\ Where(c, m, frames[c]) /\ m \in Labels
  BY <1>1, <1>2, <1>3, WhereIs
<1> QED
  BY <1>1, <1>2, <1>3, <1>4

\* What Goto, await and final make of a stack.
LEMMA StackSteps ==
  ASSUME NEW c, NEW l \in Labels, NEW x \in Subjects, NEW t \in Stack, frames[c] = On(l, x, t)
  PROVE  /\ Inner(c).at = l /\ Inner(c).on = x /\ Outer(c) = t /\ Tail(frames[c]) = t /\ frames[c] # <<>>
         /\ \A m \in Labels : <<Frame(m, Inner(c).on)>> \o Outer(c) = On(m, x, t) /\ On(m, x, t) \in Stack
         /\ \A m \in Labels, n \in Labels, y \in Subjects :
              /\ <<Frame(m, y), Frame(n, Inner(c).on)>> \o Outer(c) = On(m, y, On(n, x, t))
              /\ On(m, y, On(n, x, t)) \in Stack
<1>1. Inner(c).at = l /\ Inner(c).on = x /\ Outer(c) = t /\ Tail(frames[c]) = t /\ frames[c] # <<>>
  BY OnFacts DEF Inner, Outer
<1>2. ASSUME NEW m \in Labels
      PROVE  <<Frame(m, Inner(c).on)>> \o Outer(c) = On(m, x, t) /\ On(m, x, t) \in Stack
  BY <1>1, OnFacts DEF On
<1>3. ASSUME NEW m \in Labels, NEW n \in Labels, NEW y \in Subjects
      PROVE  /\ <<Frame(m, y), Frame(n, Inner(c).on)>> \o Outer(c) = On(m, y, On(n, x, t))
             /\ On(m, y, On(n, x, t)) \in Stack
  <2>1. On(n, x, t) \in Stack
    BY OnFacts
  <2>2. On(m, y, On(n, x, t)) \in Stack
    BY <2>1, OnFacts
  <2>3. <<Frame(m, y), Frame(n, x)>> \o t = On(m, y, On(n, x, t))
    BY OnTop
  <2> QED
    BY <1>1, <2>2, <2>3
<1> QED
  BY <1>1, <1>2, <1>3

\* The frames of a chain below the innermost one, of which none is sending.
LEMMA QuietRests ==
  ASSUME NEW j
  PROVE  /\ ~ Sends(<<>>, j) /\ ~ Sends(On("return", 0, <<>>), j)
         /\ ~ Sends(On("served", 0, On("return", 0, <<>>)), j)
         /\ ~ Sends(On("return", 0, On("served", 0, On("return", 0, <<>>))), j)
         /\ ~ Sends(On("command", 0, <<>>), j)
         /\ \A k \in Clients :
              /\ ~ Sends(On("received", k, <<>>), j) /\ ~ Sends(On("return", k, On("received", k, <<>>)), j)
              /\ ~ Sends(On("session end", k, <<>>), j)
              /\ ~ Sends(On("child done", k, <<>>), j)
              /\ ~ Sends(On("writer got", k, On("child done", k, <<>>)), j)
              /\ ~ Sends(On("slept", k, On("child done", k, <<>>)), j)
              /\ ~ Sends(On("writer", k, On("child done", k, <<>>)), j)
              /\ ~ Sends(On("return", k, On("child done", k, <<>>)), j)
<1> DEFINE Calm(l) == l \in Labels /\ l \notin {"send", "send ready"}
<1>1. /\ Calm("return") /\ Calm("served") /\ Calm("command") /\ Calm("received") /\ Calm("session end")
      /\ Calm("child done") /\ Calm("writer got") /\ Calm("slept") /\ Calm("writer")
  BY DEF Labels
<1>2. \A l, x, t : Calm(l) /\ x \in Subjects /\ t \in Stack /\ ~ Sends(t, j) => ~ Sends(On(l, x, t), j)
  BY SendsOn
<1> HIDE DEF Calm
<1>3. ~ Sends(<<>>, j)
  BY SendsNone
<1>4. /\ ~ Sends(On("return", 0, <<>>), j) /\ ~ Sends(On("command", 0, <<>>), j)
  BY <1>1, <1>2, <1>3, EmptyStack, SubjectFacts
<1>5. ~ Sends(On("served", 0, On("return", 0, <<>>)), j)
  BY <1>1, <1>2, <1>4, Rests, SubjectFacts
<1>6. ~ Sends(On("return", 0, On("served", 0, On("return", 0, <<>>))), j)
  BY <1>1, <1>2, <1>5, Rests, SubjectFacts
<1>7. ASSUME NEW k \in Clients
      PROVE  /\ ~ Sends(On("received", k, <<>>), j) /\ ~ Sends(On("session end", k, <<>>), j)
             /\ ~ Sends(On("child done", k, <<>>), j)
  BY <1>1, <1>2, <1>3, EmptyStack, SubjectFacts
<1>8. ASSUME NEW k \in Clients
      PROVE  /\ ~ Sends(On("return", k, On("received", k, <<>>)), j)
             /\ ~ Sends(On("writer got", k, On("child done", k, <<>>)), j)
             /\ ~ Sends(On("slept", k, On("child done", k, <<>>)), j)
             /\ ~ Sends(On("writer", k, On("child done", k, <<>>)), j)
             /\ ~ Sends(On("return", k, On("child done", k, <<>>)), j)
  <2>1. k \in Subjects /\ On("received", k, <<>>) \in Stack /\ On("child done", k, <<>>) \in Stack
    BY Rests, SubjectFacts
  <2> QED
    BY <1>1, <1>2, <1>7, <2>1
<1> QED
  BY <1>3, <1>4, <1>5, <1>6, <1>7, <1>8

\* The chain's step in the form of Walk, with a frame of label l on top of t.
LEMMA WalkOn ==
  ASSUME IInv, NEW e \in Execs, NEW c \in Coros, running[e] = c, c # Room,
         NEW l \in Labels, NEW x \in Subjects, NEW t \in Stack, StackOf(c, On(l, x, t)),
         frames' = [frames EXCEPT ![c] = On(l, x, t)],
         GoesOn(e, c),
         UNCHANGED <<queue, groupVars, watcher, send_locked, send_lock_waiters, timers, rr, chunks, roomVars>>,
         got' = [d \in Coros |-> got'[d]], got'[Room] = got[Room], got'[Main] = got[Main],
         l \notin {"send", "send ready", "locked", "main"}, \A k \in Clients : Sends(t, k) => Owner(c, k),
         \A k \in Clients : c = session(k) /\ l \in {"session", "session end", "joined"} => active[k] = 0,
         c = Main => queue[accepted].exec # NoExec
  PROVE  IInv'
<1>0. /\ On(l, x, t) \in Stack /\ On(l, x, t) # <<>>
      /\ Head(On(l, x, t)).at = l /\ Head(On(l, x, t)).on = x
  BY OnIs, OnAt, OnParts
<1> DEFINE s == On(l, x, t)
<1>1. s \in Stack /\ s # <<>> /\ Head(s).at = l /\ Head(s).on = x
  BY <1>0
<1>2. ASSUME NEW k \in Clients PROVE (Sends(s, k) => Owner(c, k)) /\ Head(s) # Frame("locked", k)
  <2>1. Sends(s, k) => Sends(t, k)
    BY SendsOn
  <2>2. Frame("locked", k).at = "locked"
    BY FrameFacts
  <2> QED
    BY <1>1, <2>1, <2>2
<1>3. StackOf(c, s) /\ frames' = [frames EXCEPT ![c] = s]
  OBVIOUS
<1> HIDE DEF s
<1>4. \A k \in Clients : /\ Sends(s, k) => Owner(c, k)
                         /\ Head(s) # Frame("locked", k)
                         /\ c = session(k) /\ Head(s).at \in {"session", "session end", "joined"} => active[k] = 0
  BY <1>1, <1>2
<1>5. c = Main => Head(s).at # "main" /\ queue[accepted].exec # NoExec
  BY <1>1
<1> QED
  BY <1>1, <1>3, <1>4, <1>5, Walk

\* What the steps of a chain do to its frames, one lemma for each kind of step.
LEMMA StepFinal ==
  ASSUME NEW c, NEW l \in Labels, NEW x \in Subjects, NEW t \in Stack, frames[c] = On(l, x, t)
  PROVE  /\ Inner(c).at = l /\ Inner(c).on = x /\ Outer(c) = t /\ Tail(frames[c]) = t /\ frames[c] # <<>>
         /\ Head(frames[c]).at = l /\ Head(frames[c]) = Frame(l, x)
  BY StackSteps, OnFacts

\* Goto;
LEMMA StepGoto ==
  ASSUME NEW c, NEW l \in Labels, NEW x \in Subjects, NEW t \in Stack, frames[c] = On(l, x, t),
         NEW m \in Labels
  PROVE  /\ <<Frame(m, Inner(c).on)>> \o Outer(c) = On(m, x, t) /\ On(m, x, t) \in Stack
         /\ Inner(c).on = x
<1>1. Inner(c).on = x /\ \A n \in Labels : <<Frame(n, Inner(c).on)>> \o Outer(c) = On(n, x, t) /\ On(n, x, t) \in Stack
  BY StackSteps
<1> QED
  BY <1>1

\* await.
LEMMA StepAwait ==
  ASSUME NEW c, NEW l \in Labels, NEW x \in Subjects, NEW t \in Stack, frames[c] = On(l, x, t),
         NEW m \in Labels, NEW n \in Labels, NEW y \in Subjects
  PROVE  /\ <<Frame(m, y), Frame(n, Inner(c).on)>> \o Outer(c) = On(m, y, On(n, x, t))
         /\ On(m, y, On(n, x, t)) \in Stack /\ On(n, x, t) \in Stack
         /\ Inner(c).on = x
<1>1. /\ Inner(c).on = x
      /\ \A a \in Labels, b \in Labels, z \in Subjects :
           /\ <<Frame(a, z), Frame(b, Inner(c).on)>> \o Outer(c) = On(a, z, On(b, x, t))
           /\ On(a, z, On(b, x, t)) \in Stack
  BY StackSteps
<1>2. On(n, x, t) \in Stack
  BY OnFacts
<1> QED
  BY <1>1, <1>2

\* The chain that waits in a queue or a group is the one that uses it.
LEMMA HeadWhere ==
  ASSUME Stacks, NEW c \in Coros, NEW l \in Labels, NEW x \in Subjects, HeadIs(c, Frame(l, x))
  PROVE  Where(c, l, frames[c]) /\ frames[c] # <<>> /\ Head(frames[c]) = Frame(l, x)
<1>1. frames[c] # <<>> /\ Head(frames[c]) = Frame(l, x)
  BY DEF HeadIs
<1>2. Head(frames[c]).at = l
  BY <1>1, FrameFacts
<1>3. StackOf(c, frames[c])
  BY StacksOf
<1>4. PICK m : m = Head(frames[c]).at /\ Where(c, m, frames[c]) /\ m \in Labels
  BY <1>1, <1>3, WhereIs
<1> QED
  BY <1>1, <1>2, <1>4

\* The chain that waits in join() is the session.
LEMMA JoinWaiterIs ==
  ASSUME IInv, NEW k \in Clients, join_waiter[k] # None
  PROVE  join_waiter[k] = session(k) /\ frames[session(k)] = On("joined", k, On("session end", k, <<>>))
<1> DEFINE c == join_waiter[k]
<1>1. c \in Coros /\ HeadIs(c, Frame("joined", k))
  BY DEF IInv, Typed, Parked
<1>2. "joined" \in Labels /\ k \in Subjects
  BY LabelFacts, SubjectFacts
<1> HIDE DEF c
<1>3. Where(c, "joined", frames[c]) /\ Head(frames[c]) = Frame("joined", k)
  BY <1>1, <1>2, HeadWhere DEF IInv
<1>4. PICK j \in Clients : c = session(j) /\ frames[c] = On("joined", j, On("session end", j, <<>>))
  BY <1>3 DEF Where
<1>5. j \in Subjects /\ On("session end", j, <<>>) \in Stack
  BY SubjectFacts, Rests
<1>6. Head(frames[c]) = Frame("joined", j)
  <2>1. Head(On("joined", j, On("session end", j, <<>>))) = Frame("joined", j)
    BY <1>2, <1>5, OnFacts
  <2> QED
    BY <1>4, <2>1
<1>7. j = k
  BY <1>3, <1>6, FrameFacts
<1> QED
  BY <1>4, <1>7 DEF c

\* The frames of the chain that is in pop() on queue q.
Consumer(c, q, l, s) ==
  \/ c = Main /\ q = accepted /\ s = On(l, accepted, On("return", 0, On("served", 0, On("return", 0, <<>>))))
  \/ c = Room /\ q = cmds /\ s = On(l, cmds, On("command", 0, <<>>))
  \/ \E k \in Clients :
       \/ c = session(k) /\ q = recv_q(k) /\ s = On(l, recv_q(k), On("return", k, On("received", k, <<>>)))
       \/ c = writer(k) /\ q = outbox(k) /\ s = On(l, outbox(k), On("writer got", k, On("child done", k, <<>>)))
       \/ /\ c \in {writer(k), helper(k)} /\ q = send_ready_q(k)
          /\ s = On(l, send_ready_q(k), On("send ready", k, On(Then(c), k, On("child done", k, <<>>))))

\* A chain in pop() is the consumer of that queue.
LEMMA PoppingIs ==
  ASSUME Stacks, NEW c \in Coros, NEW l \in Popping, NEW q \in Queues, HeadIs(c, Frame(l, q))
  PROVE  Consumer(c, q, l, frames[c])
<1>1. l \in Labels /\ q \in Subjects
  BY DEF Popping, Labels, Subjects
<1>2. Where(c, l, frames[c]) /\ Head(frames[c]) = Frame(l, q)
  BY <1>1, HeadWhere
<1>3. ASSUME NEW y \in Subjects, NEW t \in Stack, frames[c] = On(l, y, t)
      PROVE  q = y
  <2>1. Head(On(l, y, t)) = Frame(l, y)
    BY <1>1, OnFacts
  <2>2. Frame(l, q) = Frame(l, y)
    BY <1>2, <1>3, <2>1
  <2> QED
    BY <2>2, FrameFacts
<1>4. CASE c = Main /\ frames[c] = On(l, accepted, On("return", 0, On("served", 0, On("return", 0, <<>>))))
  <2>1. accepted \in Subjects /\ On("return", 0, On("served", 0, On("return", 0, <<>>))) \in Stack
    BY SubjectFacts, Rests
  <2> QED
    BY <1>3, <1>4, <2>1 DEF Consumer
<1>5. CASE c = Room /\ frames[c] = On(l, cmds, On("command", 0, <<>>))
  <2>1. cmds \in Subjects /\ On("command", 0, <<>>) \in Stack
    BY SubjectFacts, Rests
  <2> QED
    BY <1>3, <1>5, <2>1 DEF Consumer
<1>6. ASSUME NEW k \in Clients,
             c = session(k) /\ frames[c] = On(l, recv_q(k), On("return", k, On("received", k, <<>>)))
      PROVE  Consumer(c, q, l, frames[c])
  <2>1. recv_q(k) \in Subjects /\ On("return", k, On("received", k, <<>>)) \in Stack
    BY SubjectFacts, Rests
  <2> QED
    BY <1>3, <1>6, <2>1 DEF Consumer
<1>7. ASSUME NEW k \in Clients,
             c = writer(k) /\ frames[c] = On(l, outbox(k), On("writer got", k, On("child done", k, <<>>)))
      PROVE  Consumer(c, q, l, frames[c])
  <2>1. outbox(k) \in Subjects /\ On("writer got", k, On("child done", k, <<>>)) \in Stack
    BY SubjectFacts, Rests
  <2> QED
    BY <1>3, <1>7, <2>1 DEF Consumer
<1>8. ASSUME NEW k \in Clients, c \in {writer(k), helper(k)},
             frames[c] = On(l, send_ready_q(k), On("send ready", k, On(Then(c), k, On("child done", k, <<>>))))
      PROVE  Consumer(c, q, l, frames[c])
  <2>1. Then(c) \in Labels
    BY LabelFacts DEF Then
  <2>2. send_ready_q(k) \in Subjects /\ On("send ready", k, On(Then(c), k, On("child done", k, <<>>))) \in Stack
    BY <2>1, SubjectFacts, Rests
  <2>3. q = send_ready_q(k)
    BY <1>3, <1>8, <2>2
  <2> QED
    BY <1>8, <2>3 DEF Consumer
<1> QED
  BY <1>2, <1>4, <1>5, <1>6, <1>7, <1>8 DEF Where

\* recvSome().
LEMMA recvSomeKeeps ==
  ASSUME IInv, NEW e \in Execs, NEW c, c # None, recvSome(e, c), UNCHANGED roomVars
  PROVE  IInv'
<1>1. /\ c \in Coros /\ running[e] = c /\ Where(c, "recvSome", frames[c])
  BY Here DEF recvSome
<1>2. PICK k \in Clients : c = session(k) /\ frames[c] = On("recvSome", k, On("received", k, <<>>))
  BY <1>1 DEF Where, SessionAlone
<1> DEFINE u == On("received", k, <<>>)
<1>3. u \in Stack /\ k \in Subjects /\ "recvSome" \in Labels
  BY <1>2, Rests, SubjectFacts DEF Labels
<1> DEFINE l == IF await_ready(recv_q(k)) THEN "resume" ELSE "suspend"
<1>4. /\ <<Frame(l, recv_q(k)), Frame("return", Inner(c).on)>> \o Outer(c) = On(l, recv_q(k), On("return", k, u))
      /\ Inner(c).on = k /\ On("return", k, u) \in Stack /\ l \in Labels /\ recv_q(k) \in Subjects
  <2>1. frames[c] = On("recvSome", k, u)
    BY <1>2
  <2>2. "return" \in Labels /\ l \in Labels
    BY <1>2, CoroNames DEF Labels
  <2>3. recv_q(k) \in Subjects
    BY <1>2, SubjectFacts
  <2> HIDE DEF u, l
  <2>4. On("return", k, u) \in Stack
    BY <1>3, <2>2, OnFacts
  <2>5. Head(On("recvSome", k, u)).on = k /\ Tail(On("recvSome", k, u)) = u
    BY <1>3, OnParts
  <2>6. <<Frame(l, recv_q(k)), Frame("return", k)>> \o u = On(l, recv_q(k), On("return", k, u))
    BY <1>3, <2>2, <2>3, OnPairs
  <2>7. Inner(c).on = k /\ Outer(c) = u
    BY <2>1, <2>5 DEF Inner, Outer
  <2> QED
    BY <2>2, <2>3, <2>4, <2>6, <2>7
<1>5. frames' = [frames EXCEPT ![c] = On(l, recv_q(k), On("return", k, u))]
  BY <1>2, <1>4, CoroNames DEF recvSome, pop
<1>6. StackOf(c, On(l, recv_q(k), On("return", k, u)))
  BY <1>2, CoroNames, NewSession DEF Popping, SessionAlone, InSend
<1>7. \A j \in Clients : ~ Sends(On("return", k, u), j)
  BY <1>2, QuietRests
<1>8. GoesOn(e, c) /\ UNCHANGED <<queue, groupVars, watcher, send_locked, send_lock_waiters, timers, rr, chunks, roomVars>>
  BY <1>4 DEF recvSome, tcpVars, streamVars, groupVars, GoesOn
<1>10. got' = [d \in Coros |-> got'[d]] /\ got'[Room] = got[Room] /\ got'[Main] = got[Main]
  BY DEF recvSome, IInv, Typed
<1>9. c # Room /\ c # Main /\ l \notin {"send", "send ready", "locked", "main", "session", "session end", "joined"}
  BY <1>2, CoroNames
<1> HIDE DEF u, l
<1>12. On("return", k, u) \in Stack /\ l \in Labels /\ recv_q(k) \in Subjects
  BY <1>3, <1>4
<1> QED
  BY <1>1, <1>5, <1>6, <1>7, <1>8, <1>9, <1>10, <1>12, WalkOn

\* The session awaits what it receives.
LEMMA SessionRecvKeeps ==
  ASSUME IInv, NEW e \in Execs, NEW c, c # None, SessionRecv(e, c)
  PROVE  IInv'
<1>1. /\ c \in Coros /\ running[e] = c /\ Where(c, "recv", frames[c])
  BY Here DEF SessionRecv
<1>2. PICK k \in Clients : c = session(k) /\ frames[c] = On("recv", k, <<>>)
  BY <1>1 DEF Where, SessionAlone
<1> DEFINE u == <<>>
<1>3. u \in Stack /\ k \in Subjects /\ "recv" \in Labels
  BY <1>2, Rests, SubjectFacts DEF Labels
<1>4. /\ <<Frame("recvSome", k), Frame("received", Inner(c).on)>> \o Outer(c) = On("recvSome", k, On("received", k, u))
      /\ Inner(c).on = k /\ On("received", k, u) \in Stack /\ "recvSome" \in Labels /\ k \in Subjects
  <2>1. frames[c] = On("recv", k, u)
    BY <1>2
  <2>2. "received" \in Labels /\ "recvSome" \in Labels
    BY <1>2, CoroNames DEF Labels
  <2>3. k \in Subjects
    BY <1>2, SubjectFacts
  <2> HIDE DEF u
  <2>4. On("received", k, u) \in Stack
    BY <1>3, <2>2, OnFacts
  <2>5. Head(On("recv", k, u)).on = k /\ Tail(On("recv", k, u)) = u
    BY <1>3, OnParts
  <2>6. <<Frame("recvSome", k), Frame("received", k)>> \o u = On("recvSome", k, On("received", k, u))
    BY <1>3, <2>2, <2>3, OnPairs
  <2>7. Inner(c).on = k /\ Outer(c) = u
    BY <2>1, <2>5 DEF Inner, Outer
  <2> QED
    BY <2>2, <2>3, <2>4, <2>6, <2>7
<1>5. frames' = [frames EXCEPT ![c] = On("recvSome", k, On("received", k, u))]
  BY <1>2, <1>4, CoroNames DEF SessionRecv, await
<1>6. StackOf(c, On("recvSome", k, On("received", k, u)))
  BY <1>2, CoroNames, NewSession DEF Popping, SessionAlone, InSend
<1>7. \A j \in Clients : ~ Sends(On("received", k, u), j)
  BY <1>2, QuietRests
<1>8. GoesOn(e, c) /\ UNCHANGED <<queue, groupVars, watcher, send_locked, send_lock_waiters, timers, rr, chunks, roomVars>>
  BY <1>4 DEF SessionRecv, tcpVars, streamVars, groupVars, GoesOn, await
<1>10. got' = [d \in Coros |-> got'[d]] /\ got'[Room] = got[Room] /\ got'[Main] = got[Main]
  BY DEF SessionRecv, IInv, Typed
<1>9. c # Room /\ c # Main /\ "recvSome" \notin {"send", "send ready", "locked", "main", "session", "session end", "joined"}
  BY <1>2, CoroNames
<1> HIDE DEF u
<1>12. On("received", k, u) \in Stack /\ "recvSome" \in Labels /\ k \in Subjects
  BY <1>3, <1>4
<1> QED
  BY <1>1, <1>5, <1>6, <1>7, <1>8, <1>9, <1>10, <1>12, WalkOn

\* The session awaits its group.
LEMMA SessionJoinsKeeps ==
  ASSUME IInv, NEW e \in Execs, NEW c, c # None, SessionJoins(e, c)
  PROVE  IInv'
<1>1. /\ c \in Coros /\ running[e] = c /\ Where(c, "join group", frames[c])
  BY Here DEF SessionJoins
<1>2. PICK k \in Clients : c = session(k) /\ frames[c] = On("join group", k, <<>>)
  BY <1>1 DEF Where, SessionAlone
<1> DEFINE u == <<>>
<1>3. u \in Stack /\ k \in Subjects /\ "join group" \in Labels
  BY <1>2, Rests, SubjectFacts DEF Labels
<1>4. /\ <<Frame("join", k), Frame("session end", Inner(c).on)>> \o Outer(c) = On("join", k, On("session end", k, u))
      /\ Inner(c).on = k /\ On("session end", k, u) \in Stack /\ "join" \in Labels /\ k \in Subjects
  <2>1. frames[c] = On("join group", k, u)
    BY <1>2
  <2>2. "session end" \in Labels /\ "join" \in Labels
    BY <1>2, CoroNames DEF Labels
  <2>3. k \in Subjects
    BY <1>2, SubjectFacts
  <2> HIDE DEF u
  <2>4. On("session end", k, u) \in Stack
    BY <1>3, <2>2, OnFacts
  <2>5. Head(On("join group", k, u)).on = k /\ Tail(On("join group", k, u)) = u
    BY <1>3, OnParts
  <2>6. <<Frame("join", k), Frame("session end", k)>> \o u = On("join", k, On("session end", k, u))
    BY <1>3, <2>2, <2>3, OnPairs
  <2>7. Inner(c).on = k /\ Outer(c) = u
    BY <2>1, <2>5 DEF Inner, Outer
  <2> QED
    BY <2>2, <2>3, <2>4, <2>6, <2>7
<1>5. frames' = [frames EXCEPT ![c] = On("join", k, On("session end", k, u))]
  BY <1>2, <1>4, CoroNames DEF SessionJoins, await
<1>6. StackOf(c, On("join", k, On("session end", k, u)))
  BY <1>2, CoroNames, NewSession DEF Popping, SessionAlone, InSend
<1>7. \A j \in Clients : ~ Sends(On("session end", k, u), j)
  BY <1>2, QuietRests
<1>8. GoesOn(e, c) /\ UNCHANGED <<queue, groupVars, watcher, send_locked, send_lock_waiters, timers, rr, chunks, roomVars>>
  BY <1>4 DEF SessionJoins, tcpVars, streamVars, groupVars, GoesOn, await
<1>10. got' = [d \in Coros |-> got'[d]] /\ got'[Room] = got[Room] /\ got'[Main] = got[Main]
  BY DEF SessionJoins, IInv, Typed
<1>9. c # Room /\ c # Main /\ "join" \notin {"send", "send ready", "locked", "main", "session", "session end", "joined"}
  BY <1>2, CoroNames
<1> HIDE DEF u
<1>12. On("session end", k, u) \in Stack /\ "join" \in Labels /\ k \in Subjects
  BY <1>3, <1>4
<1> QED
  BY <1>1, <1>5, <1>6, <1>7, <1>8, <1>9, <1>10, <1>12, WalkOn

\* A writer starts.
LEMMA ChildWriterKeeps ==
  ASSUME IInv, NEW e \in Execs, NEW c, c # None, Child(e, c), NEW i \in Clients, c = writer(i)
  PROVE  IInv'
<1>1. /\ c \in Coros /\ running[e] = c /\ Where(c, "child", frames[c])
  BY Here DEF Child
<1> DEFINE k == i
<1>2. c = writer(k) /\ c[1] = "writer" /\ frames[c] = On("child", k, <<>>) /\ k \in Clients
  <2>1. PICK j \in Clients : c \in {writer(j), helper(j)} /\ frames[c] = On("child", j, <<>>)
    BY <1>1 DEF Where
  <2>2. j = i
    BY <2>1, CoroNames
  <2> QED
    BY <2>1, <2>2, CoroNames
<1> HIDE DEF k
<1> DEFINE u == <<>>
<1>3. u \in Stack /\ k \in Subjects /\ "child" \in Labels
  BY <1>2, Rests, SubjectFacts DEF Labels
<1>4. /\ <<Frame("writer", k), Frame("child done", Inner(c).on)>> \o Outer(c) = On("writer", k, On("child done", k, u))
      /\ Inner(c).on = k /\ On("child done", k, u) \in Stack /\ "writer" \in Labels /\ k \in Subjects
  <2>1. frames[c] = On("child", k, u)
    BY <1>2
  <2>2. "child done" \in Labels /\ "writer" \in Labels
    BY <1>2, CoroNames DEF Labels
  <2>3. k \in Subjects
    BY <1>2, SubjectFacts
  <2> HIDE DEF u
  <2>4. On("child done", k, u) \in Stack
    BY <1>3, <2>2, OnFacts
  <2>5. Head(On("child", k, u)).on = k /\ Tail(On("child", k, u)) = u
    BY <1>3, OnParts
  <2>6. <<Frame("writer", k), Frame("child done", k)>> \o u = On("writer", k, On("child done", k, u))
    BY <1>3, <2>2, <2>3, OnPairs
  <2>7. Inner(c).on = k /\ Outer(c) = u
    BY <2>1, <2>5 DEF Inner, Outer
  <2> QED
    BY <2>2, <2>3, <2>4, <2>6, <2>7
<1>13. await(e, c, "writer", k, "child done")
  <2>1. await(e, c, c[1], Inner(c).on, "child done")
    BY DEF Child
  <2>2. c[1] = "writer" /\ Inner(c).on = k
    BY <1>2, <1>4
  <2> QED
    BY <2>1, <2>2
<1>5. frames' = [frames EXCEPT ![c] = On("writer", k, On("child done", k, u))]
  BY <1>4, <1>13 DEF await
<1>6. StackOf(c, On("writer", k, On("child done", k, u)))
  BY <1>2, CoroNames, NewWriter DEF Popping, SessionAlone, InSend
<1>7. \A j \in Clients : ~ Sends(On("child done", k, u), j)
  BY <1>2, QuietRests
<1>8. GoesOn(e, c) /\ UNCHANGED <<queue, groupVars, watcher, send_locked, send_lock_waiters, timers, rr, chunks, roomVars>>
  BY <1>4 DEF Child, tcpVars, streamVars, groupVars, GoesOn, await
<1>10. got' = [d \in Coros |-> got'[d]] /\ got'[Room] = got[Room] /\ got'[Main] = got[Main]
  BY DEF Child, IInv, Typed
<1>9. c # Room /\ c # Main /\ "writer" \notin {"send", "send ready", "locked", "main", "session", "session end", "joined"}
  BY <1>2, CoroNames
<1> HIDE DEF u
<1>12. On("child done", k, u) \in Stack /\ "writer" \in Labels /\ k \in Subjects
  BY <1>3, <1>4
<1> QED
  BY <1>1, <1>5, <1>6, <1>7, <1>8, <1>9, <1>10, <1>12, WalkOn

\* A helper starts.
LEMMA ChildHelperKeeps ==
  ASSUME IInv, NEW e \in Execs, NEW c, c # None, Child(e, c), NEW i \in Clients, c = helper(i)
  PROVE  IInv'
<1>1. /\ c \in Coros /\ running[e] = c /\ Where(c, "child", frames[c])
  BY Here DEF Child
<1> DEFINE k == i
<1>2. c = helper(k) /\ c[1] = "helper" /\ frames[c] = On("child", k, <<>>) /\ k \in Clients
  <2>1. PICK j \in Clients : c \in {writer(j), helper(j)} /\ frames[c] = On("child", j, <<>>)
    BY <1>1 DEF Where
  <2>2. j = i
    BY <2>1, CoroNames
  <2> QED
    BY <2>1, <2>2, CoroNames
<1> HIDE DEF k
<1> DEFINE u == <<>>
<1>3. u \in Stack /\ k \in Subjects /\ "child" \in Labels
  BY <1>2, Rests, SubjectFacts DEF Labels
<1>4. /\ <<Frame("helper", k), Frame("child done", Inner(c).on)>> \o Outer(c) = On("helper", k, On("child done", k, u))
      /\ Inner(c).on = k /\ On("child done", k, u) \in Stack /\ "helper" \in Labels /\ k \in Subjects
  <2>1. frames[c] = On("child", k, u)
    BY <1>2
  <2>2. "child done" \in Labels /\ "helper" \in Labels
    BY <1>2, CoroNames DEF Labels
  <2>3. k \in Subjects
    BY <1>2, SubjectFacts
  <2> HIDE DEF u
  <2>4. On("child done", k, u) \in Stack
    BY <1>3, <2>2, OnFacts
  <2>5. Head(On("child", k, u)).on = k /\ Tail(On("child", k, u)) = u
    BY <1>3, OnParts
  <2>6. <<Frame("helper", k), Frame("child done", k)>> \o u = On("helper", k, On("child done", k, u))
    BY <1>3, <2>2, <2>3, OnPairs
  <2>7. Inner(c).on = k /\ Outer(c) = u
    BY <2>1, <2>5 DEF Inner, Outer
  <2> QED
    BY <2>2, <2>3, <2>4, <2>6, <2>7
<1>13. await(e, c, "helper", k, "child done")
  <2>1. await(e, c, c[1], Inner(c).on, "child done")
    BY DEF Child
  <2>2. c[1] = "helper" /\ Inner(c).on = k
    BY <1>2, <1>4
  <2> QED
    BY <2>1, <2>2
<1>5. frames' = [frames EXCEPT ![c] = On("helper", k, On("child done", k, u))]
  BY <1>4, <1>13 DEF await
<1>6. StackOf(c, On("helper", k, On("child done", k, u)))
  BY <1>2, CoroNames, NewHelper DEF Popping, SessionAlone, InSend
<1>7. \A j \in Clients : ~ Sends(On("child done", k, u), j)
  BY <1>2, QuietRests
<1>8. GoesOn(e, c) /\ UNCHANGED <<queue, groupVars, watcher, send_locked, send_lock_waiters, timers, rr, chunks, roomVars>>
  BY <1>4 DEF Child, tcpVars, streamVars, groupVars, GoesOn, await
<1>10. got' = [d \in Coros |-> got'[d]] /\ got'[Room] = got[Room] /\ got'[Main] = got[Main]
  BY DEF Child, IInv, Typed
<1>9. c # Room /\ c # Main /\ "helper" \notin {"send", "send ready", "locked", "main", "session", "session end", "joined"}
  BY <1>2, CoroNames
<1> HIDE DEF u
<1>12. On("child done", k, u) \in Stack /\ "helper" \in Labels /\ k \in Subjects
  BY <1>3, <1>4
<1> QED
  BY <1>1, <1>5, <1>6, <1>7, <1>8, <1>9, <1>10, <1>12, WalkOn

\* The writer awaits its outbox.
LEMMA WriterPopsKeeps ==
  ASSUME IInv, NEW e \in Execs, NEW c, c # None, WriterPops(e, c)
  PROVE  IInv'
<1>1. /\ c \in Coros /\ running[e] = c /\ Where(c, "writer", frames[c])
  BY Here DEF WriterPops
<1>2. PICK k \in Clients : c = writer(k) /\ frames[c] = On("writer", k, On("child done", k, <<>>))
  BY <1>1, CoroNames DEF Where, SessionAlone
<1> DEFINE u == On("child done", k, <<>>)
<1>3. u \in Stack /\ k \in Subjects /\ "writer" \in Labels
  BY <1>2, Rests, SubjectFacts DEF Labels
<1> DEFINE l == IF await_ready(outbox(k)) THEN "resume" ELSE "suspend"
<1>4. /\ <<Frame(l, outbox(k)), Frame("writer got", Inner(c).on)>> \o Outer(c) = On(l, outbox(k), On("writer got", k, u))
      /\ Inner(c).on = k /\ On("writer got", k, u) \in Stack /\ l \in Labels /\ outbox(k) \in Subjects
  <2>1. frames[c] = On("writer", k, u)
    BY <1>2
  <2>2. "writer got" \in Labels /\ l \in Labels
    BY <1>2, CoroNames DEF Labels
  <2>3. outbox(k) \in Subjects
    BY <1>2, SubjectFacts
  <2> HIDE DEF u, l
  <2>4. On("writer got", k, u) \in Stack
    BY <1>3, <2>2, OnFacts
  <2>5. Head(On("writer", k, u)).on = k /\ Tail(On("writer", k, u)) = u
    BY <1>3, OnParts
  <2>6. <<Frame(l, outbox(k)), Frame("writer got", k)>> \o u = On(l, outbox(k), On("writer got", k, u))
    BY <1>3, <2>2, <2>3, OnPairs
  <2>7. Inner(c).on = k /\ Outer(c) = u
    BY <2>1, <2>5 DEF Inner, Outer
  <2> QED
    BY <2>2, <2>3, <2>4, <2>6, <2>7
<1>5. frames' = [frames EXCEPT ![c] = On(l, outbox(k), On("writer got", k, u))]
  BY <1>2, <1>4, CoroNames DEF WriterPops, pop
<1>6. StackOf(c, On(l, outbox(k), On("writer got", k, u)))
  BY <1>2, CoroNames, NewWriter DEF Popping, SessionAlone, InSend
<1>7. \A j \in Clients : ~ Sends(On("writer got", k, u), j)
  BY <1>2, QuietRests
<1>8. GoesOn(e, c) /\ UNCHANGED <<queue, groupVars, watcher, send_locked, send_lock_waiters, timers, rr, chunks, roomVars>>
  BY <1>4 DEF WriterPops, tcpVars, streamVars, groupVars, GoesOn
<1>10. got' = [d \in Coros |-> got'[d]] /\ got'[Room] = got[Room] /\ got'[Main] = got[Main]
  BY DEF WriterPops, IInv, Typed
<1>9. c # Room /\ c # Main /\ l \notin {"send", "send ready", "locked", "main", "session", "session end", "joined"}
  BY <1>2, CoroNames
<1> HIDE DEF u, l
<1>12. On("writer got", k, u) \in Stack /\ l \in Labels /\ outbox(k) \in Subjects
  BY <1>3, <1>4
<1> QED
  BY <1>1, <1>5, <1>6, <1>7, <1>8, <1>9, <1>10, <1>12, WalkOn

\* The outbox is closed.
LEMMA WriterEndsKeeps ==
  ASSUME IInv, NEW e \in Execs, NEW c, c # None, WriterGot(e, c), got[c] = None
  PROVE  IInv'
<1>1. /\ c \in Coros /\ running[e] = c /\ Where(c, "writer got", frames[c])
  BY Here DEF WriterGot
<1>2. PICK k \in Clients : c = writer(k) /\ frames[c] = On("writer got", k, On("child done", k, <<>>))
  BY <1>1, CoroNames DEF Where, SessionAlone
<1> DEFINE u == On("child done", k, <<>>)
<1>3. u \in Stack /\ k \in Subjects /\ "writer got" \in Labels
  BY <1>2, Rests, SubjectFacts DEF Labels
<1>4. Outer(c) = u /\ Tail(frames[c]) = u /\ "child done" \in Labels /\ k \in Subjects /\ <<>> \in Stack /\ u = On("child done", k, <<>>) /\ u # <<>>
  <2>1. frames[c] = On("writer got", k, u)
    BY <1>2
  <2>2. "child done" \in Labels /\ k \in Subjects /\ <<>> \in Stack
    BY <1>2, Rests, SubjectFacts DEF Labels
  <2>4. u # <<>> /\ u = On("child done", k, <<>>)
    BY <2>2, OnIs
  <2> HIDE DEF u
  <2>5. Tail(On("writer got", k, u)) = u
    BY <1>3, OnParts
  <2> QED
    BY <2>1, <2>2, <2>4, <2>5 DEF Outer
<1>5. frames' = [frames EXCEPT ![c] = On("child done", k, <<>>)]
  BY <1>4 DEF WriterGot, final
<1>6. StackOf(c, On("child done", k, <<>>))
  BY <1>2, CoroNames, NewWriter DEF Popping, SessionAlone, InSend
<1>7. \A j \in Clients : ~ Sends(<<>>, j)
  BY <1>2, QuietRests
<1>8. GoesOn(e, c) /\ UNCHANGED <<queue, groupVars, watcher, send_locked, send_lock_waiters, timers, rr, chunks, roomVars>>
  BY <1>4 DEF WriterGot, tcpVars, streamVars, groupVars, GoesOn, final
<1>10. got' = [d \in Coros |-> got'[d]] /\ got'[Room] = got[Room] /\ got'[Main] = got[Main]
  BY <1>1, <1>2, CoroNames DEF WriterGot, Consumed, IInv, Typed
<1>9. c # Room /\ c # Main /\ "child done" \notin {"send", "send ready", "locked", "main", "session", "session end", "joined"}
  BY <1>2, CoroNames
<1> HIDE DEF u
<1>12. <<>> \in Stack /\ "child done" \in Labels /\ k \in Subjects
  BY <1>3, <1>4
<1> QED
  BY <1>1, <1>5, <1>6, <1>7, <1>8, <1>9, <1>10, <1>12, WalkOn

\* The writer sends what it got.
LEMMA WriterSendsKeeps ==
  ASSUME IInv, NEW e \in Execs, NEW c, c # None, WriterGot(e, c), got[c] # None
  PROVE  IInv'
<1>1. /\ c \in Coros /\ running[e] = c /\ Where(c, "writer got", frames[c])
  BY Here DEF WriterGot
<1>2. PICK k \in Clients : c = writer(k) /\ frames[c] = On("writer got", k, On("child done", k, <<>>))
  BY <1>1, CoroNames DEF Where, SessionAlone
<1> DEFINE u == On("child done", k, <<>>)
<1>3. u \in Stack /\ k \in Subjects /\ "writer got" \in Labels
  BY <1>2, Rests, SubjectFacts DEF Labels
<1>4. /\ <<Frame("sendAll", k), Frame("writer", Inner(c).on)>> \o Outer(c) = On("sendAll", k, On("writer", k, u))
      /\ Inner(c).on = k /\ On("writer", k, u) \in Stack /\ "sendAll" \in Labels /\ k \in Subjects
  <2>1. frames[c] = On("writer got", k, u)
    BY <1>2
  <2>2. "writer" \in Labels /\ "sendAll" \in Labels
    BY <1>2, CoroNames DEF Labels
  <2>3. k \in Subjects
    BY <1>2, SubjectFacts
  <2> HIDE DEF u
  <2>4. On("writer", k, u) \in Stack
    BY <1>3, <2>2, OnFacts
  <2>5. Head(On("writer got", k, u)).on = k /\ Tail(On("writer got", k, u)) = u
    BY <1>3, OnParts
  <2>6. <<Frame("sendAll", k), Frame("writer", k)>> \o u = On("sendAll", k, On("writer", k, u))
    BY <1>3, <2>2, <2>3, OnPairs
  <2>7. Inner(c).on = k /\ Outer(c) = u
    BY <2>1, <2>5 DEF Inner, Outer
  <2> QED
    BY <2>2, <2>3, <2>4, <2>6, <2>7
<1>13. await(e, c, "sendAll", Inner(c).on, "writer")
  BY DEF WriterGot
<1>5. frames' = [frames EXCEPT ![c] = On("sendAll", k, On("writer", k, u))]
  BY <1>2, <1>4, <1>13 DEF await
<1>6. StackOf(c, On("sendAll", k, On("writer", k, u)))
  BY <1>2, CoroNames, NewSend DEF Popping, SessionAlone, InSend
<1>7. \A j \in Clients : ~ Sends(On("writer", k, u), j)
  BY <1>2, QuietRests
<1>8. GoesOn(e, c) /\ UNCHANGED <<queue, groupVars, watcher, send_locked, send_lock_waiters, timers, rr, chunks, roomVars>>
  BY <1>4 DEF WriterGot, tcpVars, streamVars, groupVars, GoesOn, await
<1>10. got' = [d \in Coros |-> got'[d]] /\ got'[Room] = got[Room] /\ got'[Main] = got[Main]
  BY <1>1, <1>2, CoroNames DEF WriterGot, Consumed, IInv, Typed
<1>9. c # Room /\ c # Main /\ "sendAll" \notin {"send", "send ready", "locked", "main", "session", "session end", "joined"}
  BY <1>2, CoroNames
<1> HIDE DEF u
<1>12. On("writer", k, u) \in Stack /\ "sendAll" \in Labels /\ k \in Subjects
  BY <1>3, <1>4
<1> QED
  BY <1>1, <1>5, <1>6, <1>7, <1>8, <1>9, <1>10, <1>12, WalkOn

\* The helper sleeps.
LEMMA HelperSleepsKeeps ==
  ASSUME IInv, NEW e \in Execs, NEW c, c # None, At(e, c, "helper") /\ await(e, c, "sleepFor", 0, "slept") /\ UNCHANGED <<got, queue, groupVars, tcpVars, roomVars>>
  PROVE  IInv'
<1>1. /\ c \in Coros /\ running[e] = c /\ Where(c, "helper", frames[c])
  BY Here DEF At
<1>2. PICK k \in Clients : c = helper(k) /\ frames[c] = On("helper", k, On("child done", k, <<>>))
  BY <1>1, CoroNames DEF Where, SessionAlone
<1> DEFINE u == On("child done", k, <<>>)
<1>3. u \in Stack /\ k \in Subjects /\ "helper" \in Labels
  BY <1>2, Rests, SubjectFacts DEF Labels
<1>4. /\ <<Frame("sleepFor", 0), Frame("slept", Inner(c).on)>> \o Outer(c) = On("sleepFor", 0, On("slept", k, u))
      /\ Inner(c).on = k /\ On("slept", k, u) \in Stack /\ "sleepFor" \in Labels /\ 0 \in Subjects
  <2>1. frames[c] = On("helper", k, u)
    BY <1>2
  <2>2. "slept" \in Labels /\ "sleepFor" \in Labels
    BY <1>2, CoroNames DEF Labels
  <2>3. 0 \in Subjects
    BY <1>2, SubjectFacts
  <2> HIDE DEF u
  <2>4. On("slept", k, u) \in Stack
    BY <1>3, <2>2, OnFacts
  <2>5. Head(On("helper", k, u)).on = k /\ Tail(On("helper", k, u)) = u
    BY <1>3, OnParts
  <2>6. <<Frame("sleepFor", 0), Frame("slept", k)>> \o u = On("sleepFor", 0, On("slept", k, u))
    BY <1>3, <2>2, <2>3, OnPairs
  <2>7. Inner(c).on = k /\ Outer(c) = u
    BY <2>1, <2>5 DEF Inner, Outer
  <2> QED
    BY <2>2, <2>3, <2>4, <2>6, <2>7
<1>5. frames' = [frames EXCEPT ![c] = On("sleepFor", 0, On("slept", k, u))]
  BY <1>2, <1>4, CoroNames DEF await, await
<1>6. StackOf(c, On("sleepFor", 0, On("slept", k, u)))
  BY <1>2, CoroNames, NewHelper DEF Popping, SessionAlone, InSend
<1>7. \A j \in Clients : ~ Sends(On("slept", k, u), j)
  BY <1>2, QuietRests
<1>8. GoesOn(e, c) /\ UNCHANGED <<queue, groupVars, watcher, send_locked, send_lock_waiters, timers, rr, chunks, roomVars>>
  BY <1>4 DEF await, tcpVars, streamVars, groupVars, GoesOn, await
<1>10. got' = [d \in Coros |-> got'[d]] /\ got'[Room] = got[Room] /\ got'[Main] = got[Main]
  BY DEF await, IInv, Typed
<1>9. c # Room /\ c # Main /\ "sleepFor" \notin {"send", "send ready", "locked", "main", "session", "session end", "joined"}
  BY <1>2, CoroNames
<1> HIDE DEF u
<1>12. On("slept", k, u) \in Stack /\ "sleepFor" \in Labels /\ 0 \in Subjects
  BY <1>3, <1>4
<1> QED
  BY <1>1, <1>5, <1>6, <1>7, <1>8, <1>9, <1>10, <1>12, WalkOn

\* The helper sends.
LEMMA HelperSendsKeeps ==
  ASSUME IInv, NEW e \in Execs, NEW c, c # None, At(e, c, "slept") /\ await(e, c, "sendAll", Inner(c).on, "return") /\ UNCHANGED <<got, queue, groupVars, tcpVars, roomVars>>
  PROVE  IInv'
<1>1. /\ c \in Coros /\ running[e] = c /\ Where(c, "slept", frames[c])
  BY Here DEF At
<1>2. PICK k \in Clients : c = helper(k) /\ frames[c] = On("slept", k, On("child done", k, <<>>))
  BY <1>1, CoroNames DEF Where, SessionAlone
<1> DEFINE u == On("child done", k, <<>>)
<1>3. u \in Stack /\ k \in Subjects /\ "slept" \in Labels
  BY <1>2, Rests, SubjectFacts DEF Labels
<1>4. /\ <<Frame("sendAll", k), Frame("return", Inner(c).on)>> \o Outer(c) = On("sendAll", k, On("return", k, u))
      /\ Inner(c).on = k /\ On("return", k, u) \in Stack /\ "sendAll" \in Labels /\ k \in Subjects
  <2>1. frames[c] = On("slept", k, u)
    BY <1>2
  <2>2. "return" \in Labels /\ "sendAll" \in Labels
    BY <1>2, CoroNames DEF Labels
  <2>3. k \in Subjects
    BY <1>2, SubjectFacts
  <2> HIDE DEF u
  <2>4. On("return", k, u) \in Stack
    BY <1>3, <2>2, OnFacts
  <2>5. Head(On("slept", k, u)).on = k /\ Tail(On("slept", k, u)) = u
    BY <1>3, OnParts
  <2>6. <<Frame("sendAll", k), Frame("return", k)>> \o u = On("sendAll", k, On("return", k, u))
    BY <1>3, <2>2, <2>3, OnPairs
  <2>7. Inner(c).on = k /\ Outer(c) = u
    BY <2>1, <2>5 DEF Inner, Outer
  <2> QED
    BY <2>2, <2>3, <2>4, <2>6, <2>7
<1>5. frames' = [frames EXCEPT ![c] = On("sendAll", k, On("return", k, u))]
  BY <1>2, <1>4, CoroNames DEF await, await
<1>6. StackOf(c, On("sendAll", k, On("return", k, u)))
  BY <1>2, CoroNames, NewSend DEF Popping, SessionAlone, InSend
<1>7. \A j \in Clients : ~ Sends(On("return", k, u), j)
  BY <1>2, QuietRests
<1>8. GoesOn(e, c) /\ UNCHANGED <<queue, groupVars, watcher, send_locked, send_lock_waiters, timers, rr, chunks, roomVars>>
  BY <1>4 DEF await, tcpVars, streamVars, groupVars, GoesOn, await
<1>10. got' = [d \in Coros |-> got'[d]] /\ got'[Room] = got[Room] /\ got'[Main] = got[Main]
  BY DEF await, IInv, Typed
<1>9. c # Room /\ c # Main /\ "sendAll" \notin {"send", "send ready", "locked", "main", "session", "session end", "joined"}
  BY <1>2, CoroNames
<1> HIDE DEF u
<1>12. On("return", k, u) \in Stack /\ "sendAll" \in Labels /\ k \in Subjects
  BY <1>3, <1>4
<1> QED
  BY <1>1, <1>5, <1>6, <1>7, <1>8, <1>9, <1>10, <1>12, WalkOn

\* A delay that is not positive.
LEMMA NoSleepKeeps ==
  ASSUME IInv, NEW e \in Execs, NEW c, c # None, At(e, c, "sleepFor") /\ final(e, c) /\ UNCHANGED <<timers, got, queue, groupVars, streamVars, listening, rr, chunks, roomVars>>
  PROVE  IInv'
<1>1. /\ c \in Coros /\ running[e] = c /\ Where(c, "sleepFor", frames[c])
  BY Here DEF At
<1>2. PICK k \in Clients : c = helper(k) /\ frames[c] = On("sleepFor", 0, On("slept", k, On("child done", k, <<>>)))
  BY <1>1, CoroNames DEF Where, SessionAlone
<1> DEFINE u == On("slept", k, On("child done", k, <<>>))
<1>3. u \in Stack /\ 0 \in Subjects /\ "sleepFor" \in Labels
  BY <1>2, Rests, SubjectFacts DEF Labels
<1>4. Outer(c) = u /\ Tail(frames[c]) = u /\ "slept" \in Labels /\ k \in Subjects /\ On("child done", k, <<>>) \in Stack /\ u = On("slept", k, On("child done", k, <<>>)) /\ u # <<>>
  <2>1. frames[c] = On("sleepFor", 0, u)
    BY <1>2
  <2>2. "slept" \in Labels /\ k \in Subjects /\ On("child done", k, <<>>) \in Stack
    BY <1>2, Rests, SubjectFacts DEF Labels
  <2>4. u # <<>> /\ u = On("slept", k, On("child done", k, <<>>))
    BY <2>2, OnIs
  <2> HIDE DEF u
  <2>5. Tail(On("sleepFor", 0, u)) = u
    BY <1>3, OnParts
  <2> QED
    BY <2>1, <2>2, <2>4, <2>5 DEF Outer
<1>5. frames' = [frames EXCEPT ![c] = On("slept", k, On("child done", k, <<>>))]
  BY <1>4 DEF final, final
<1>6. StackOf(c, On("slept", k, On("child done", k, <<>>)))
  BY <1>2, CoroNames, NewHelper DEF Popping, SessionAlone, InSend
<1>7. \A j \in Clients : ~ Sends(On("child done", k, <<>>), j)
  BY <1>2, QuietRests
<1>8. GoesOn(e, c) /\ UNCHANGED <<queue, groupVars, watcher, send_locked, send_lock_waiters, timers, rr, chunks, roomVars>>
  BY <1>4 DEF final, tcpVars, streamVars, groupVars, GoesOn, final
<1>10. got' = [d \in Coros |-> got'[d]] /\ got'[Room] = got[Room] /\ got'[Main] = got[Main]
  BY DEF final, IInv, Typed
<1>9. c # Room /\ c # Main /\ "slept" \notin {"send", "send ready", "locked", "main", "session", "session end", "joined"}
  BY <1>2, CoroNames
<1> HIDE DEF u
<1>12. On("child done", k, <<>>) \in Stack /\ "slept" \in Labels /\ k \in Subjects
  BY <1>3, <1>4
<1> QED
  BY <1>1, <1>5, <1>6, <1>7, <1>8, <1>9, <1>10, <1>12, WalkOn

\* join() has waited for the last child.
LEMMA JoinedKeeps ==
  ASSUME IInv, NEW e \in Execs, NEW c, c # None, Joined(e, c), UNCHANGED <<tcpVars, roomVars>>
  PROVE  IInv'
<1>1. /\ c \in Coros /\ running[e] = c /\ Where(c, "joined", frames[c])
  BY Here DEF Joined
<1>2. PICK k \in Clients : c = session(k) /\ frames[c] = On("joined", k, On("session end", k, <<>>))
  BY <1>1 DEF Where, SessionAlone
<1> DEFINE u == On("session end", k, <<>>)
<1>3. u \in Stack /\ k \in Subjects /\ "joined" \in Labels
  BY <1>2, Rests, SubjectFacts DEF Labels
<1>4. Outer(c) = u /\ Tail(frames[c]) = u /\ "session end" \in Labels /\ k \in Subjects /\ <<>> \in Stack /\ u = On("session end", k, <<>>) /\ u # <<>>
  <2>1. frames[c] = On("joined", k, u)
    BY <1>2
  <2>2. "session end" \in Labels /\ k \in Subjects /\ <<>> \in Stack
    BY <1>2, Rests, SubjectFacts DEF Labels
  <2>4. u # <<>> /\ u = On("session end", k, <<>>)
    BY <2>2, OnFacts
  <2> HIDE DEF u
  <2>5. Tail(On("joined", k, u)) = u
    BY <1>3, OnParts
  <2> QED
    BY <2>1, <2>2, <2>4, <2>5 DEF Outer
<1>5. frames' = [frames EXCEPT ![c] = On("session end", k, <<>>)]
  BY <1>4 DEF Joined, final
<1>6. StackOf(c, On("session end", k, <<>>))
  BY <1>2, CoroNames, NewSession DEF Popping, SessionAlone, InSend
<1>7. \A j \in Clients : ~ Sends(<<>>, j)
  BY <1>2, QuietRests
<1>8. GoesOn(e, c) /\ UNCHANGED <<queue, groupVars, watcher, send_locked, send_lock_waiters, timers, rr, chunks, roomVars>>
  BY <1>4 DEF Joined, tcpVars, streamVars, groupVars, GoesOn, final
<1>10. got' = [d \in Coros |-> got'[d]] /\ got'[Room] = got[Room] /\ got'[Main] = got[Main]
  BY DEF Joined, IInv, Typed
<1>11. \A j \in Clients : c = session(j) => active[j] = 0
  <2>1. NotJoin(c)
    BY <1>1, Alone, NotCoros DEF IInv
  <2>2. HeadIs(c, Frame("joined", k))
    <3>1. frames[c] = On("joined", k, u)
      BY <1>2
    <3> HIDE DEF u
    <3> QED
      BY <1>3, <3>1, OnFacts DEF HeadIs
  <2>3. Childless(k)
    <3>1. join_waiter[k] = None
      BY <1>2, <2>1, JoinWaiterIs DEF NotJoin
    <3> QED
      BY <1>2, <2>2, <3>1 DEF Childless
  <2>4. active[k] = 0
    BY <2>3 DEF IInv, Children
  <2> QED
    BY <1>2, <2>4, CoroNames
<1>9. c # Room /\ c # Main /\ "session end" \notin {"send", "send ready", "locked", "main"}
  BY <1>2, CoroNames
<1> HIDE DEF u
<1>12. <<>> \in Stack /\ "session end" \in Labels /\ k \in Subjects
  BY <1>3, <1>4
<1> QED
  BY <1>1, <1>5, <1>6, <1>7, <1>8, <1>9, <1>10, <1>11, <1>12, WalkOn

\* join() finds no child.
LEMMA NothingToJoinKeeps ==
  ASSUME IInv, NEW e \in Execs, NEW c, c # None, At(e, c, "join") /\ active[Inner(c).on] = 0 /\ final(e, c) /\ UNCHANGED <<got, queue, active, join_waiter, tcpVars, roomVars>>
  PROVE  IInv'
<1>1. /\ c \in Coros /\ running[e] = c /\ Where(c, "join", frames[c])
  BY Here DEF At
<1>2. PICK k \in Clients : c = session(k) /\ frames[c] = On("join", k, On("session end", k, <<>>))
  BY <1>1 DEF Where, SessionAlone
<1> DEFINE u == On("session end", k, <<>>)
<1>3. u \in Stack /\ k \in Subjects /\ "join" \in Labels
  BY <1>2, Rests, SubjectFacts DEF Labels
<1>4. Outer(c) = u /\ Tail(frames[c]) = u /\ "session end" \in Labels /\ k \in Subjects /\ <<>> \in Stack /\ u = On("session end", k, <<>>) /\ u # <<>>
  <2>1. frames[c] = On("join", k, u)
    BY <1>2
  <2>2. "session end" \in Labels /\ k \in Subjects /\ <<>> \in Stack
    BY <1>2, Rests, SubjectFacts DEF Labels
  <2>4. u # <<>> /\ u = On("session end", k, <<>>)
    BY <2>2, OnFacts
  <2> HIDE DEF u
  <2>5. Tail(On("join", k, u)) = u
    BY <1>3, OnParts
  <2> QED
    BY <2>1, <2>2, <2>4, <2>5 DEF Outer
<1>5. frames' = [frames EXCEPT ![c] = On("session end", k, <<>>)]
  BY <1>4 DEF final, final
<1>6. StackOf(c, On("session end", k, <<>>))
  BY <1>2, CoroNames, NewSession DEF Popping, SessionAlone, InSend
<1>7. \A j \in Clients : ~ Sends(<<>>, j)
  BY <1>2, QuietRests
<1>8. GoesOn(e, c) /\ UNCHANGED <<queue, groupVars, watcher, send_locked, send_lock_waiters, timers, rr, chunks, roomVars>>
  BY <1>4 DEF final, tcpVars, streamVars, groupVars, GoesOn, final
<1>10. got' = [d \in Coros |-> got'[d]] /\ got'[Room] = got[Room] /\ got'[Main] = got[Main]
  BY DEF final, IInv, Typed
<1>11. \A j \in Clients : c = session(j) => active[j] = 0
  <2>1. frames[c] = On("join", k, u)
    BY <1>2
  <2> HIDE DEF u
  <2>2. Inner(c).on = k
    BY <1>3, <2>1, StackSteps
  <2> QED
    BY <1>2, <2>2, CoroNames
<1>9. c # Room /\ c # Main /\ "session end" \notin {"send", "send ready", "locked", "main"}
  BY <1>2, CoroNames
<1> HIDE DEF u
<1>12. <<>> \in Stack /\ "session end" \in Labels /\ k \in Subjects
  BY <1>3, <1>4
<1> QED
  BY <1>1, <1>5, <1>6, <1>7, <1>8, <1>9, <1>10, <1>11, <1>12, WalkOn

\* serveRoundRobin() awaits the next stream.
LEMMA ServeKeeps ==
  ASSUME IInv, NEW e \in Execs, NEW c, c # None, At(e, c, "serve") /\ await(e, c, "accept", 0, "served") /\ UNCHANGED <<got, queue, groupVars, tcpVars, roomVars>>
  PROVE  IInv'
<1>1. /\ c \in Coros /\ running[e] = c /\ Where(c, "serve", frames[c])
  BY Here DEF At
<1>2. c = Main /\ frames[c] = On("serve", 0, On("return", 0, <<>>))
  BY <1>1 DEF Where
<1> DEFINE u == On("return", 0, <<>>)
<1>3. u \in Stack /\ 0 \in Subjects /\ "serve" \in Labels
  BY <1>2, Rests, SubjectFacts DEF Labels
<1>4. /\ <<Frame("accept", 0), Frame("served", Inner(c).on)>> \o Outer(c) = On("accept", 0, On("served", 0, u))
      /\ Inner(c).on = 0 /\ On("served", 0, u) \in Stack /\ "accept" \in Labels /\ 0 \in Subjects
  <2>1. frames[c] = On("serve", 0, u)
    BY <1>2
  <2>2. "served" \in Labels /\ "accept" \in Labels
    BY <1>2, CoroNames DEF Labels
  <2>3. 0 \in Subjects
    BY <1>2, SubjectFacts
  <2> HIDE DEF u
  <2>4. On("served", 0, u) \in Stack
    BY <1>3, <2>2, OnFacts
  <2>5. Head(On("serve", 0, u)).on = 0 /\ Tail(On("serve", 0, u)) = u
    BY <1>3, OnParts
  <2>6. <<Frame("accept", 0), Frame("served", 0)>> \o u = On("accept", 0, On("served", 0, u))
    BY <1>3, <2>2, <2>3, OnPairs
  <2>7. Inner(c).on = 0 /\ Outer(c) = u
    BY <2>1, <2>5 DEF Inner, Outer
  <2> QED
    BY <2>2, <2>3, <2>4, <2>6, <2>7
<1>5. frames' = [frames EXCEPT ![c] = On("accept", 0, On("served", 0, u))]
  BY <1>2, <1>4, CoroNames DEF await, await
<1>6. StackOf(c, On("accept", 0, On("served", 0, u)))
  BY <1>2, CoroNames, NewMain DEF Popping, SessionAlone, InSend
<1>7. \A j \in Clients : ~ Sends(On("served", 0, u), j)
  BY <1>2, QuietRests
<1>8. GoesOn(e, c) /\ UNCHANGED <<queue, groupVars, watcher, send_locked, send_lock_waiters, timers, rr, chunks, roomVars>>
  BY <1>4 DEF await, tcpVars, streamVars, groupVars, GoesOn, await
<1>10. got' = [d \in Coros |-> got'[d]] /\ got'[Room] = got[Room] /\ got'[Main] = got[Main]
  BY DEF await, IInv, Typed
<1>9. c # Room /\ "accept" \notin {"send", "send ready", "locked", "main", "session", "session end", "joined"}
  BY <1>2, CoroNames
<1>11. queue[accepted].exec # NoExec
  <2>1. Head(frames[Main]).at = "serve" /\ frames[Main] # <<>>
    BY <1>2, Here DEF At
  <2> QED
    BY <2>1 DEF IInv, Bound
<1> HIDE DEF u
<1>12. On("served", 0, u) \in Stack /\ "accept" \in Labels /\ 0 \in Subjects
  BY <1>3, <1>4
<1> QED
  BY <1>1, <1>5, <1>6, <1>7, <1>8, <1>9, <1>10, <1>11, <1>12, WalkOn

\* acceptStream_() pops.
LEMMA AcceptKeeps ==
  ASSUME IInv, NEW e \in Execs, NEW c, c # None, At(e, c, "accept") /\ pop(c, accepted, "return") /\ UNCHANGED <<execVars, got, queue, groupVars, tcpVars, roomVars>>
  PROVE  IInv'
<1>1. /\ c \in Coros /\ running[e] = c /\ Where(c, "accept", frames[c])
  BY Here DEF At
<1>2. c = Main /\ frames[c] = On("accept", 0, On("served", 0, On("return", 0, <<>>)))
  BY <1>1 DEF Where
<1> DEFINE u == On("served", 0, On("return", 0, <<>>))
<1>3. u \in Stack /\ 0 \in Subjects /\ "accept" \in Labels
  BY <1>2, Rests, SubjectFacts DEF Labels
<1> DEFINE l == IF await_ready(accepted) THEN "resume" ELSE "suspend"
<1>4. /\ <<Frame(l, accepted), Frame("return", Inner(c).on)>> \o Outer(c) = On(l, accepted, On("return", 0, u))
      /\ Inner(c).on = 0 /\ On("return", 0, u) \in Stack /\ l \in Labels /\ accepted \in Subjects
  <2>1. frames[c] = On("accept", 0, u)
    BY <1>2
  <2>2. "return" \in Labels /\ l \in Labels
    BY <1>2, CoroNames DEF Labels
  <2>3. accepted \in Subjects
    BY <1>2, SubjectFacts
  <2> HIDE DEF u, l
  <2>4. On("return", 0, u) \in Stack
    BY <1>3, <2>2, OnFacts
  <2>5. Head(On("accept", 0, u)).on = 0 /\ Tail(On("accept", 0, u)) = u
    BY <1>3, OnParts
  <2>6. <<Frame(l, accepted), Frame("return", 0)>> \o u = On(l, accepted, On("return", 0, u))
    BY <1>3, <2>2, <2>3, OnPairs
  <2>7. Inner(c).on = 0 /\ Outer(c) = u
    BY <2>1, <2>5 DEF Inner, Outer
  <2> QED
    BY <2>2, <2>3, <2>4, <2>6, <2>7
<1>5. frames' = [frames EXCEPT ![c] = On(l, accepted, On("return", 0, u))]
  BY <1>2, <1>4, CoroNames DEF pop, pop
<1>6. StackOf(c, On(l, accepted, On("return", 0, u)))
  BY <1>2, CoroNames, NewMain DEF Popping, SessionAlone, InSend
<1>7. \A j \in Clients : ~ Sends(On("return", 0, u), j)
  BY <1>2, QuietRests
<1>8. GoesOn(e, c) /\ UNCHANGED <<queue, groupVars, watcher, send_locked, send_lock_waiters, timers, rr, chunks, roomVars>>
  BY <1>4 DEF pop, tcpVars, streamVars, groupVars, GoesOn
<1>10. got' = [d \in Coros |-> got'[d]] /\ got'[Room] = got[Room] /\ got'[Main] = got[Main]
  BY DEF pop, IInv, Typed
<1>9. c # Room /\ l \notin {"send", "send ready", "locked", "main", "session", "session end", "joined"}
  BY <1>2, CoroNames
<1>11. queue[accepted].exec # NoExec
  <2>1. Head(frames[Main]).at = "accept" /\ frames[Main] # <<>>
    BY <1>2, Here DEF At
  <2> QED
    BY <2>1 DEF IInv, Bound
<1> HIDE DEF u, l
<1>12. On("return", 0, u) \in Stack /\ l \in Labels /\ accepted \in Subjects
  BY <1>3, <1>4
<1> QED
  BY <1>1, <1>5, <1>6, <1>7, <1>8, <1>9, <1>10, <1>11, <1>12, WalkOn

\* The listener is closed.
LEMMA StopsServingKeeps ==
  ASSUME IInv, NEW e \in Execs, NEW c, c # None, At(e, c, "served") /\ got[c] = None /\ final(e, c) /\ Consumed(c) /\ UNCHANGED <<rr, queue, groupVars, streamVars, timers, listening, chunks, roomVars>>
  PROVE  IInv'
<1>1. /\ c \in Coros /\ running[e] = c /\ Where(c, "served", frames[c])
  BY Here DEF At
<1>2. c = Main /\ frames[c] = On("served", 0, On("return", 0, <<>>))
  BY <1>1 DEF Where
<1> DEFINE u == On("return", 0, <<>>)
<1>3. u \in Stack /\ 0 \in Subjects /\ "served" \in Labels
  BY <1>2, Rests, SubjectFacts DEF Labels
<1>4. Outer(c) = u /\ Tail(frames[c]) = u /\ "return" \in Labels /\ 0 \in Subjects /\ <<>> \in Stack /\ u = On("return", 0, <<>>) /\ u # <<>>
  <2>1. frames[c] = On("served", 0, u)
    BY <1>2
  <2>2. "return" \in Labels /\ 0 \in Subjects /\ <<>> \in Stack
    BY <1>2, Rests, SubjectFacts DEF Labels
  <2>4. u # <<>> /\ u = On("return", 0, <<>>)
    BY <2>2, OnFacts
  <2> HIDE DEF u
  <2>5. Tail(On("served", 0, u)) = u
    BY <1>3, OnParts
  <2> QED
    BY <2>1, <2>2, <2>4, <2>5 DEF Outer
<1>5. frames' = [frames EXCEPT ![c] = On("return", 0, <<>>)]
  BY <1>4 DEF final, final
<1>6. StackOf(c, On("return", 0, <<>>))
  BY <1>2, CoroNames, NewMain DEF Popping, SessionAlone, InSend
<1>7. \A j \in Clients : ~ Sends(<<>>, j)
  BY <1>2, QuietRests
<1>8. GoesOn(e, c) /\ UNCHANGED <<queue, groupVars, watcher, send_locked, send_lock_waiters, timers, rr, chunks, roomVars>>
  BY <1>4 DEF final, tcpVars, streamVars, groupVars, GoesOn, final
<1>10. got' = [d \in Coros |-> got'[d]] /\ got'[Room] = got[Room] /\ got'[Main] = got[Main]
  BY <1>1, <1>2, CoroNames DEF final, Consumed, IInv, Typed
<1>9. c # Room /\ "return" \notin {"send", "send ready", "locked", "main", "session", "session end", "joined"}
  BY <1>2, CoroNames
<1>11. queue[accepted].exec # NoExec
  <2>1. Head(frames[Main]).at = "served" /\ frames[Main] # <<>>
    BY <1>2, Here DEF At
  <2> QED
    BY <2>1 DEF IInv, Bound
<1> HIDE DEF u
<1>12. <<>> \in Stack /\ "return" \in Labels /\ 0 \in Subjects
  BY <1>3, <1>4
<1> QED
  BY <1>1, <1>5, <1>6, <1>7, <1>8, <1>9, <1>10, <1>11, <1>12, WalkOn

\* The stream has ended.
LEMMA SessionEofKeeps ==
  ASSUME IInv, NEW e \in Execs, NEW c, c # None, At(e, c, "received") /\ got[c] = None /\ Goto(c, "leave") /\ Consumed(c) /\ UNCHANGED <<queue, hand, runq, inbound, running, groupVars, tcpVars, roomVars>>
  PROVE  IInv'
<1>1. /\ c \in Coros /\ running[e] = c /\ Where(c, "received", frames[c])
  BY Here DEF At
<1>2. PICK k \in Clients : c = session(k) /\ frames[c] = On("received", k, <<>>)
  BY <1>1 DEF Where, SessionAlone
<1> DEFINE u == <<>>
<1>3. u \in Stack /\ k \in Subjects /\ "received" \in Labels
  BY <1>2, Rests, SubjectFacts DEF Labels
<1>4. <<Frame("leave", Inner(c).on)>> \o Outer(c) = On("leave", k, u) /\ "leave" \in Labels
  <2>1. frames[c] = On("received", k, u)
    BY <1>2
  <2>2. "leave" \in Labels
    BY DEF Labels
  <2> HIDE DEF u
  <2>3. Head(On("received", k, u)).on = k /\ Tail(On("received", k, u)) = u
    BY <1>3, OnParts
  <2> QED
    BY <2>1, <2>2, <2>3 DEF On, Inner, Outer
<1>5. frames' = [frames EXCEPT ![c] = On("leave", k, u)]
  BY <1>4 DEF Goto, Goto
<1>6. StackOf(c, On("leave", k, u))
  BY <1>2, CoroNames, NewSession DEF Popping, SessionAlone, InSend
<1>7. \A j \in Clients : ~ Sends(u, j)
  BY <1>2, QuietRests
<1>8. GoesOn(e, c) /\ UNCHANGED <<queue, groupVars, watcher, send_locked, send_lock_waiters, timers, rr, chunks, roomVars>>
  BY <1>4 DEF Goto, tcpVars, streamVars, groupVars, GoesOn, execVars
<1>10. got' = [d \in Coros |-> got'[d]] /\ got'[Room] = got[Room] /\ got'[Main] = got[Main]
  BY <1>1, <1>2, CoroNames DEF Goto, Consumed, IInv, Typed
<1>9. c # Room /\ c # Main /\ "leave" \notin {"send", "send ready", "locked", "main", "session", "session end", "joined"}
  BY <1>2, CoroNames
<1> HIDE DEF u
<1>12. u \in Stack /\ "leave" \in Labels /\ k \in Subjects
  BY <1>3, <1>4
<1> QED
  BY <1>1, <1>5, <1>6, <1>7, <1>8, <1>9, <1>10, <1>12, WalkOn

----------------------------------------------------------------------------
(* The steps of the workers' loops: no frame changes. *)

\* The cleanup of the stream of k is posted to x.
Cleaning(x, k) == Among(runq[x], <<"cleanup", k>>) \/ Among(inbound[x], <<"cleanup", k>>)

\* No chain takes a step: only places change hands, and their sum does not.
LEMMA Still ==
  ASSUME IInv, Typed', frames' = frames, join_waiter' = join_waiter, active' = active,
         send_locked' = send_locked, send_lock_waiters' = send_lock_waiters,
         clients' = clients, it' = it, got'[Room] = got[Room],
         \A d \in Coros : Places(d)' = Places(d),
         \A q \in Queues : /\ (queue'[q].waiter = None \/ queue'[q].waiter = queue[q].waiter)
                           /\ queue'[q].exec = queue[q].exec,
         queue'[cmds] = queue[cmds],
         \A k \in Clients : /\ watcher'[k] = "none" <=> watcher[k] = "none"
                            /\ watcher'[k] = "open" => watcher[k] = "open",
         Ticketed',
         \A k \in Clients, x \in Execs : /\ Cleaning(x, k)' => Cleaning(x, k)
                                         /\ Cleaning(x, k) => Cleaning(x, k)' \/ watcher'[k] # "open"
  PROVE  IInv'
<1> USE DEF IInv
<1>1. Stacks'
  BY DEF Stacks
<1>2. OneResumption'
  BY DEF OneResumption
<1>3. Parked'
  <2>1. \A q \in Queues : queue'[q].waiter # None =>
           /\ queue'[q].waiter = queue[q].waiter /\ frames'[queue[q].waiter] = frames[queue[q].waiter]
           /\ queue[q].exec # NoExec => queue'[q].exec # NoExec
    OBVIOUS
  <2>2. \A k \in Clients : join_waiter'[k] # None =>
           join_waiter'[k] = join_waiter[k] /\ frames'[join_waiter[k]] = frames[join_waiter[k]]
    OBVIOUS
  <2>3. \A k \in Clients, c \in Coros : Among(send_lock_waiters'[k], c) =>
           Among(send_lock_waiters[k], c) /\ frames'[c] = frames[c]
    OBVIOUS
  <2> QED
    BY <2>1, <2>2, <2>3, ParkedStays
<1>4. Bound'
  <2>1. \A q \in Queues : queue[q].exec # NoExec => queue'[q].exec # NoExec
    OBVIOUS
  <2> QED
    BY <2>1, BoundStays
<1>5. Children'
  <2>1. HeadIs(Main, Frame("main", 0))' => frames'[Room] = <<>>
    BY DEF Children, HeadIs
  <2>2. \A k \in Clients : Childless(k)' => Childless(k)
    BY DEF Childless, HeadIs
  <2> QED
    BY <2>1, <2>2, ChildrenStay
<1>6. Known'
  <2>1. ASSUME NEW k \in Clients, watcher'[k] = "none"
        PROVE  /\ ~ Among(queue'[cmds].q, <<"join", k>>) /\ got'[Room] # <<"join", k>>
               /\ ~ Among(clients', k)
               /\ \A e \in Execs : ~ Among(runq'[e], <<"cleanup", k>>) /\ ~ Among(inbound'[e], <<"cleanup", k>>)
    <3>1. watcher[k] = "none"
      BY <2>1
    <3>2. /\ ~ Among(queue[cmds].q, <<"join", k>>) /\ got[Room] # <<"join", k>>
          /\ ~ Among(clients, k)
          /\ \A e \in Execs : ~ Cleaning(e, k)
      BY <3>1 DEF Known, Cleaning
    <3>3. \A e \in Execs : ~ Cleaning(e, k)'
      BY <3>2
    <3>4. \A e \in Execs : ~ Among(runq'[e], <<"cleanup", k>>) /\ ~ Among(inbound'[e], <<"cleanup", k>>)
      BY <3>3 DEF Cleaning
    <3> QED
      BY <3>2, <3>4
  <2> QED
    BY <2>1 DEF Known, Among
<1>7. Locks'
  BY LocksStay DEF Owner, Sending, HeadIs
<1>8. RoomOK'
  BY RoomStays
<1>9. DroppedStreamIsClosed'
  <2>1. \A k \in Clients : k \in Alive => k \in Alive'
    <3>1. queue[cmds].q \in Seq(Commands)
      BY DEF Typed
    <3> QED
      BY <3>1, AliveStays
  <2>2. \A k \in Clients, x \in Execs :
           Among(runq[x], <<"cleanup", k>>) \/ Among(inbound[x], <<"cleanup", k>>)
             => Among(runq'[x], <<"cleanup", k>>) \/ Among(inbound'[x], <<"cleanup", k>>) \/ watcher'[k] # "open"
    BY DEF Cleaning
  <2>3. \A k \in Clients : exec(k)' = exec(k)
    BY QueueNames DEF exec
  <2> QED
    BY <2>1, <2>2, <2>3, DroppedStays
<1> QED
  BY <1>1, <1>2, <1>3, <1>4, <1>5, <1>6, <1>7, <1>8, <1>9

\* When nothing changes but where the chains are queued.
LEMMA StillQueued ==
  ASSUME IInv, Typed', frames' = frames, join_waiter' = join_waiter, active' = active,
         send_locked' = send_locked, send_lock_waiters' = send_lock_waiters,
         clients' = clients, it' = it, got' = got, queue' = queue, watcher' = watcher, chunks' = chunks,
         \A d \in Coros : Places(d)' = Places(d), TokensStay
  PROVE  IInv'
<1>1. Ticketed'
  <2>1. Queued /\ Queued' /\ queue[accepted].q \in Seq(Streams)
    BY DEF IInv, Typed, Queued
  <2>2. \A k \in Clients : Tickets(k)' = Tickets(k)
    BY <2>1, TicketsSame
  <2> QED
    BY <2>2, TicketedStays DEF IInv
<1>2. \A k \in Clients, x \in Execs : Cleaning(x, k)' <=> Cleaning(x, k)
  <2>1. ASSUME NEW k \in Clients, NEW x \in Execs PROVE Cleaning(x, k)' <=> Cleaning(x, k)
    BY TokenNames DEF TokensStay, Cleaning, Among
  <2> QED
    BY <2>1
<1> QED
  BY <1>1, <1>2, Still

----------------------------------------------------------------------------
(* Taking a task, posting to another worker, draining. *)

\* What is in the tail, and what is the head.
LEMMA AmongTail ==
  ASSUME NEW X, NEW s \in Seq(X), s # <<>>, NEW t
  PROVE  /\ Among(Tail(s), t) => Among(s, t)
         /\ Head(s) # t => (Among(s, t) => Among(Tail(s), t))
         /\ Head(s) = t => Among(s, t)
<1>1. Occurs(Tail(s), t) = Occurs(s, t) - One(Head(s) = t) /\ Tail(s) \in Seq(X)
  BY OccursTail
<1>2. /\ Occurs(s, t) \in Nat /\ (Occurs(s, t) >= 1 <=> Among(s, t))
      /\ Occurs(Tail(s), t) \in Nat /\ (Occurs(Tail(s), t) >= 1 <=> Among(Tail(s), t))
  BY <1>1, OccursFacts
<1>3. (Head(s) = t => One(Head(s) = t) = 1) /\ (Head(s) # t => One(Head(s) = t) = 0)
  BY DEF One
<1> QED
  BY <1>1, <1>2, <1>3

\* Worker e takes the first of its private tasks.
Takes(e) == /\ Changed(runq, runq', Execs, Tasks, e) /\ runq[e] # <<>> /\ runq'[e] = Tail(runq[e])

\* A task is taken from the run queue;
LEMMA TakesIs ==
  ASSUME runq \in [Execs -> Seq(Tasks)], NEW e \in Execs, runq[e] # <<>>, runq' = [runq EXCEPT ![e] = Tail(@)]
  PROVE  Takes(e)
<1>1. Tail(runq[e]) \in Seq(Tasks)
  BY OccursTail
<1> QED
  BY <1>1, Finite DEF Takes, Changed

\* it is one less there.
LEMMA TakesFacts ==
  ASSUME NEW e, Takes(e), NEW t
  PROVE  /\ runq' \in [Execs -> Seq(Tasks)]
         /\ RunqN(t)' = RunqN(t) - One(Head(runq[e]) = t)
         /\ Head(runq[e]) \in Tasks
         /\ \A x \in Execs : /\ Among(runq'[x], t) => Among(runq[x], t)
                             /\ Head(runq[e]) # t => (Among(runq[x], t) => Among(runq'[x], t))
         /\ Among(runq[e], Head(runq[e]))
<1>1. Changed(runq, runq', Execs, Tasks, e) /\ runq[e] # <<>> /\ runq'[e] = Tail(runq[e])
  BY DEF Takes
<1>2. /\ runq[e] \in Seq(Tasks) /\ runq' \in [Execs -> Seq(Tasks)] /\ \A x \in Execs \ {e} : runq'[x] = runq[x]
  BY <1>1 DEF Changed
<1>3. Head(runq[e]) \in Tasks /\ Among(runq[e], Head(runq[e]))
  BY <1>1, <1>2, OccursTail, AmongTail
<1>4. RunqN(t)' = RunqN(t) - One(Head(runq[e]) = t)
  <2>1. InQueues(runq', Execs, t) = InQueues(runq, Execs, t) - One(Head(runq[e]) = t)
    BY <1>1, InQueuesTake
  <2> QED
    BY <2>1 DEF RunqN
<1>5. ASSUME NEW x \in Execs
      PROVE  /\ Among(runq'[x], t) => Among(runq[x], t)
             /\ Head(runq[e]) # t => (Among(runq[x], t) => Among(runq'[x], t))
  <2>1. CASE x = e
    <3>1. /\ Among(Tail(runq[e]), t) => Among(runq[e], t)
          /\ Head(runq[e]) # t => (Among(runq[e], t) => Among(Tail(runq[e]), t))
      BY <1>1, <1>2, AmongTail
    <3> QED
      BY <1>1, <2>1, <3>1
  <2>2. CASE x # e
    BY <1>2, <2>2
  <2> QED
    BY <2>1, <2>2
<1> QED
  BY <1>2, <1>3, <1>4, <1>5

\* A task is posted to worker x.
Sent(x, a) == /\ Changed(inbound, inbound', Execs, Tasks, x) /\ a \in Tasks /\ inbound'[x] = Append(inbound[x], a)

\* A task is posted to the inbox;
LEMMA SentIs ==
  ASSUME inbound \in [Execs -> Seq(Tasks)], NEW x \in Execs, NEW a \in Tasks, inbound' = Posted(inbound, a, x)
  PROVE  Sent(x, a)
<1>1. Append(inbound[x], a) \in Seq(Tasks)
  BY AppendProperties
<1> QED
  BY <1>1, Finite DEF Sent, Changed, Posted

\* it is one more there.
LEMMA SentFacts ==
  ASSUME NEW x, NEW a, Sent(x, a), NEW t
  PROVE  /\ inbound' \in [Execs -> Seq(Tasks)]
         /\ InbN(t)' = InbN(t) + One(a = t)
         /\ \A y \in Execs : Among(inbound'[y], t) <=> Among(inbound[y], t) \/ (y = x /\ a = t)
<1>1. Changed(inbound, inbound', Execs, Tasks, x) /\ a \in Tasks /\ inbound'[x] = Append(inbound[x], a)
  BY DEF Sent
<1>2. /\ inbound[x] \in Seq(Tasks) /\ inbound' \in [Execs -> Seq(Tasks)]
      /\ \A y \in Execs \ {x} : inbound'[y] = inbound[y]
  BY <1>1 DEF Changed
<1>3. InbN(t)' = InbN(t) + One(a = t)
  <2>1. InQueues(inbound', Execs, t) = InQueues(inbound, Execs, t) + One(a = t)
    BY <1>1, InQueuesPost
  <2> QED
    BY <2>1 DEF InbN
<1>4. Append(inbound[x], a) = inbound[x] \o <<a>> /\ <<a>> \in Seq(Tasks)
  BY <1>1, <1>2, AppendIsConcat
<1>5. Among(<<a>>, t) <=> a = t
  BY DEF Among
<1>6. Among(inbound[x] \o <<a>>, t) <=> Among(inbound[x], t) \/ Among(<<a>>, t)
  BY <1>2, <1>4, AmongCat
<1>7. ASSUME NEW y \in Execs PROVE Among(inbound'[y], t) <=> Among(inbound[y], t) \/ (y = x /\ a = t)
  <2>1. CASE y = x
    BY <1>1, <1>4, <1>5, <1>6, <2>1
  <2>2. CASE y # x
    BY <1>2, <2>2
  <2> QED
    BY <2>1, <2>2
<1> QED
  BY <1>2, <1>3, <1>7

LEMMA SentAmong ==
  ASSUME NEW x, NEW a, Sent(x, a), NEW t, NEW y \in Execs
  PROVE  Among(inbound'[y], t) <=> Among(inbound[y], t) \/ (y = x /\ a = t)
  BY SentFacts

\* The inbound tasks of worker e are drained.
Drains(e) ==
  /\ Changed(runq, runq', Execs, Tasks, e) /\ Changed(inbound, inbound', Execs, Tasks, e)
  /\ runq'[e] = runq[e] \o inbound[e] /\ inbound'[e] = <<>>

\* The inbox is moved to the run queue;
LEMMA DrainsIs ==
  ASSUME runq \in [Execs -> Seq(Tasks)], inbound \in [Execs -> Seq(Tasks)], NEW e \in Execs,
         runq' = [runq EXCEPT ![e] = @ \o inbound[e]], inbound' = [inbound EXCEPT ![e] = <<>>]
  PROVE  Drains(e)
<1>1. runq[e] \o inbound[e] \in Seq(Tasks) /\ <<>> \in Seq(Tasks)
  BY ConcatProperties
<1> QED
  BY <1>1, Finite DEF Drains, Changed

\* the two together have what they had.
LEMMA DrainFacts ==
  ASSUME NEW e, Drains(e), NEW t
  PROVE  /\ runq' \in [Execs -> Seq(Tasks)] /\ inbound' \in [Execs -> Seq(Tasks)]
         /\ RunqN(t)' + InbN(t)' = RunqN(t) + InbN(t)
         /\ \A x \in Execs : Among(runq'[x], t) \/ Among(inbound'[x], t) <=> Among(runq[x], t) \/ Among(inbound[x], t)
<1>1. /\ Changed(runq, runq', Execs, Tasks, e) /\ Changed(inbound, inbound', Execs, Tasks, e)
      /\ runq'[e] = runq[e] \o inbound[e] /\ inbound'[e] = <<>>
  BY DEF Drains
<1>2. /\ runq \in [Execs -> Seq(Tasks)] /\ runq[e] \in Seq(Tasks) /\ inbound[e] \in Seq(Tasks)
      /\ runq' \in [Execs -> Seq(Tasks)] /\ inbound' \in [Execs -> Seq(Tasks)]
      /\ \A x \in Execs \ {e} : runq'[x] = runq[x] /\ inbound'[x] = inbound[x]
  BY <1>1 DEF Changed
<1>4. RunqN(t)' = RunqN(t) + Occurs(inbound[e], t)
  <2> DEFINE s == inbound[e]
  <2>1. Changed(runq, runq', Execs, Tasks, e) /\ s \in Seq(Tasks) /\ runq'[e] = runq[e] \o s
    BY <1>1, <1>2
  <2> HIDE DEF s
  <2>2. runq'[e] = runq[e] \o s => InQueues(runq', Execs, t) = InQueues(runq, Execs, t) + Occurs(s, t)
    BY <2>1, InQueuesAdd
  <2>3. RunqN(t)' = RunqN(t) + Occurs(s, t)
    BY <2>1, <2>2 DEF RunqN
  <2> QED
    BY <2>3 DEF s
<1>5. /\ InbN(t)' = InbN(t) - Occurs(inbound[e], t) + Occurs(inbound'[e], t)
      /\ Occurs(inbound[e], t) \in Nat /\ InbN(t) \in Nat
  <2>1. /\ InQueues(inbound', Execs, t) = InQueues(inbound, Execs, t) - Occurs(inbound[e], t) + Occurs(inbound'[e], t)
        /\ Occurs(inbound[e], t) \in Nat /\ InQueues(inbound, Execs, t) \in Nat
    BY <1>1, InQueuesChange
  <2> QED
    BY <2>1 DEF InbN
<1>6. Occurs(inbound'[e], t) = 0
  BY <1>1, OccursNone
<1>7. RunqN(t) \in Nat
  BY <1>2, RunqSome
<1>8. ~ Among(<<>>, t)
  BY DEF Among
<1>9. ASSUME NEW x \in Execs
      PROVE  Among(runq'[x], t) \/ Among(inbound'[x], t) <=> Among(runq[x], t) \/ Among(inbound[x], t)
  <2>1. CASE x = e
    <3>1. Among(runq[e] \o inbound[e], t) <=> Among(runq[e], t) \/ Among(inbound[e], t)
      BY <1>2, AmongCat
    <3> QED
      BY <1>1, <1>8, <2>1, <3>1
  <2>2. CASE x # e
    BY <1>2, <2>2
  <2> QED
    BY <2>1, <2>2
<1> QED
  BY <1>2, <1>4, <1>5, <1>6, <1>7, <1>9

\* drain_inbound() keeps the invariant.
LEMMA drainInboundKeeps ==
  ASSUME IInv, NEW e \in Execs, drainInbound(e), UNCHANGED <<tcpVars, roomVars>>
  PROVE  IInv'
<1>1. /\ runq' = [runq EXCEPT ![e] = @ \o inbound[e]] /\ inbound' = [inbound EXCEPT ![e] = <<>>]
      /\ running' = running /\ hand' = hand /\ frames' = frames /\ got' = got /\ queue' = queue
      /\ active' = active /\ join_waiter' = join_waiter
  BY DEF drainInbound, groupVars
<1>2. /\ watcher' = watcher /\ send_locked' = send_locked /\ send_lock_waiters' = send_lock_waiters
      /\ timers' = timers /\ rr' = rr /\ chunks' = chunks /\ clients' = clients /\ it' = it
  BY DEF tcpVars, streamVars, roomVars
<1>3. runq \in [Execs -> Seq(Tasks)] /\ inbound \in [Execs -> Seq(Tasks)]
  BY DEF IInv, Typed
<1>4. /\ runq' \in [Execs -> Seq(Tasks)] /\ inbound' \in [Execs -> Seq(Tasks)] /\ TokensStay
      /\ \A t : RunqN(t)' + InbN(t)' = RunqN(t) + InbN(t)
  <2>1. Drains(e)
    BY <1>1, <1>3, DrainsIs
  <2> QED
    BY <2>1, DrainFacts DEF TokensStay
<1>5. Typed'
  BY <1>1, <1>2, <1>4 DEF IInv, Typed
<1>6. ASSUME NEW d \in Coros PROVE Places(d)' = Places(d)
  <2>1. Numbers(d) /\ Numbers(d)'
    BY <1>5, NumbersFacts, NumbersNext DEF IInv, Typed, Queued
  <2>2. /\ RunN(d)' = RunN(d) /\ HandN(d)' = HandN(d) /\ WaitN(d)' = WaitN(d) /\ JoinN(d)' = JoinN(d)
        /\ TimeN(d)' = TimeN(d) /\ LockN(d)' = LockN(d)
    BY <1>1, <1>2, PartsSame
  <2>3. Places(d)' = RunN(d)' + HandN(d)' + WaitN(d)' + JoinN(d)' + TimeN(d)' + RunqN(d)' + InbN(d)' + LockN(d)'
    BY DEF Places, RunN, HandN, WaitN, JoinN, TimeN, RunqN, InbN, LockN
  <2>4. Places(d) = RunN(d) + HandN(d) + WaitN(d) + JoinN(d) + TimeN(d) + RunqN(d) + InbN(d) + LockN(d)
    BY PlacesSum
  <2>5. RunqN(d)' + InbN(d)' = RunqN(d) + InbN(d)
    BY <1>4
  <2> QED
    BY <2>1, <2>2, <2>3, <2>4, <2>5 DEF Numbers
<1> QED
  BY <1>1, <1>2, <1>4, <1>5, <1>6, StillQueued

\* The sum before and after a step.
LEMMA PlacesAll ==
  ASSUME Queued, Queued', NEW d
  PROVE  /\ Numbers(d) /\ Numbers(d)'
         /\ Places(d) = RunN(d) + HandN(d) + WaitN(d) + JoinN(d) + TimeN(d) + RunqN(d) + InbN(d) + LockN(d)
         /\ Places(d)' = RunN(d)' + HandN(d)' + WaitN(d)' + JoinN(d)' + TimeN(d)' + RunqN(d)' + InbN(d)' + LockN(d)'
<1>1. Numbers(d)
  BY NumbersFacts
<1>2. Numbers(d)'
  BY NumbersNext
<1>3. Places(d)' = RunN(d)' + HandN(d)' + WaitN(d)' + JoinN(d)' + TimeN(d)' + RunqN(d)' + InbN(d)' + LockN(d)'
  BY DEF Places, RunN, HandN, WaitN, JoinN, TimeN, RunqN, InbN, LockN
<1> QED
  BY <1>1, <1>2, <1>3, PlacesSum

\* One, evaluated.
LEMMA OneIs == /\ \A a, b : a = b => One(a = b) = 1
               /\ \A a, b : a # b => One(a = b) = 0
               /\ One(TRUE) = 1 /\ One(FALSE) = 0
  BY DEF One

\* Resuming the head of the run queue keeps the invariant.
LEMMA resumeKeeps ==
  ASSUME IInv, NEW e \in Execs, resume(e), UNCHANGED <<tcpVars, roomVars>>
  PROVE  IInv'
<1> DEFINE c == Head(runq[e])
<1>1. /\ running[e] = None /\ runq[e] # <<>> /\ c \in Coros
      /\ running' = [running EXCEPT ![e] = c] /\ runq' = [runq EXCEPT ![e] = Tail(@)]
      /\ inbound' = inbound /\ hand' = hand /\ frames' = frames /\ got' = got /\ queue' = queue
      /\ active' = active /\ join_waiter' = join_waiter
  BY DEF resume, Idle, groupVars
<1>2. /\ watcher' = watcher /\ send_locked' = send_locked /\ send_lock_waiters' = send_lock_waiters
      /\ timers' = timers /\ rr' = rr /\ chunks' = chunks /\ clients' = clients /\ it' = it
  BY DEF tcpVars, streamVars, roomVars
<1>3. runq \in [Execs -> Seq(Tasks)] /\ running \in [Execs -> Coros \cup {None}]
  BY DEF IInv, Typed
<1>4. Takes(e)
  BY <1>1, <1>3, TakesIs
<1>5. /\ running' \in [Execs -> Coros \cup {None}] /\ running'[e] = c
      /\ \A x \in Execs : x # e => running'[x] = running[x]
  BY <1>1, <1>3
<1>6. runq' \in [Execs -> Seq(Tasks)]
  BY <1>4, TakesFacts
<1>7. Typed'
  BY <1>1, <1>2, <1>5, <1>6 DEF IInv, Typed
<1> HIDE DEF c
<1>8. TokensStay
  <2>1. ASSUME NEW t \in Tasks \ Coros
        PROVE  /\ RunqN(t)' = RunqN(t)
               /\ \A x \in Execs : Among(runq'[x], t) <=> Among(runq[x], t)
    <3>1. c # t
      BY <1>1
    <3>2. /\ RunqN(t)' = RunqN(t) - One(Head(runq[e]) = t)
          /\ \A x \in Execs : /\ Among(runq'[x], t) => Among(runq[x], t)
                              /\ Head(runq[e]) # t => (Among(runq[x], t) => Among(runq'[x], t))
      BY <1>4, TakesFacts
    <3>3. One(Head(runq[e]) = t) = 0
      BY <3>1, OneIs DEF c
    <3>4. RunqN(t) \in Nat
      BY <1>3, RunqSome
    <3> QED
      BY <3>1, <3>2, <3>3, <3>4 DEF c
  <2> QED
    BY <1>1, <2>1 DEF TokensStay, InbN
<1>9. ASSUME NEW d \in Coros PROVE Places(d)' = Places(d)
  <2>1. /\ Numbers(d) /\ Numbers(d)'
        /\ Places(d) = RunN(d) + HandN(d) + WaitN(d) + JoinN(d) + TimeN(d) + RunqN(d) + InbN(d) + LockN(d)
        /\ Places(d)' = RunN(d)' + HandN(d)' + WaitN(d)' + JoinN(d)' + TimeN(d)' + RunqN(d)' + InbN(d)' + LockN(d)'
    BY <1>7, PlacesAll DEF IInv, Typed, Queued
  <2>2. RunN(d)' = RunN(d) - One(running[e] = d) + One(running'[e] = d)
    BY <1>5, RunSet
  <2>3. RunqN(d)' = RunqN(d) - One(Head(runq[e]) = d)
    BY <1>4, TakesFacts
  <2>4. /\ HandN(d)' = HandN(d) /\ WaitN(d)' = WaitN(d) /\ JoinN(d)' = JoinN(d)
        /\ TimeN(d)' = TimeN(d) /\ InbN(d)' = InbN(d) /\ LockN(d)' = LockN(d)
    BY <1>1, <1>2, PartsSame
  <2>5. One(running[e] = d) = 0 /\ One(running'[e] = d) = One(c = d) /\ One(Head(runq[e]) = d) = One(c = d)
        /\ One(c = d) \in {0, 1}
    BY <1>1, <1>5, NotCoros DEF c, One
  <2> QED
    BY <2>1, <2>2, <2>3, <2>4, <2>5 DEF Numbers
<1> QED
  BY <1>1, <1>2, <1>7, <1>8, <1>9, StillQueued

\* wakeOne() keeps the invariant: the chain it posts no longer waits.
LEMMA wakeOneKeeps ==
  ASSUME IInv, NEW e \in Execs, wakeOne(e), UNCHANGED <<tcpVars, roomVars>>
  PROVE  IInv'
<1>0. hand \in [Execs -> (Coros \X Execs) \cup {None}] /\ hand[e] # None
  BY DEF IInv, Typed, wakeOne
<1> DEFINE c == hand[e][1]
           x == hand[e][2]
<1>1. /\ c \in Coros /\ x \in Execs
  BY <1>0
<1>2. /\ hand' = [hand EXCEPT ![e] = None] /\ running' = running
      /\ frames' = frames /\ got' = got /\ queue' = queue
      /\ active' = active /\ join_waiter' = join_waiter
      /\ \/ runq' = Posted(runq, c, e) /\ inbound' = inbound
         \/ inbound' = Posted(inbound, c, x) /\ runq' = runq
  BY DEF wakeOne, groupVars
<1>3. /\ watcher' = watcher /\ send_locked' = send_locked /\ send_lock_waiters' = send_lock_waiters
      /\ timers' = timers /\ rr' = rr /\ chunks' = chunks /\ clients' = clients /\ it' = it
  BY DEF tcpVars, streamVars, roomVars
<1>4. runq \in [Execs -> Seq(Tasks)] /\ inbound \in [Execs -> Seq(Tasks)]
  BY DEF IInv, Typed
<1>5. /\ hand' \in [Execs -> (Coros \X Execs) \cup {None}] /\ hand'[e] = None
      /\ \A y \in Execs : y # e => hand'[y] = hand[y]
  BY <1>0, <1>2
<1> HIDE DEF c, x
<1>6. /\ runq' \in [Execs -> Seq(Tasks)] /\ inbound' \in [Execs -> Seq(Tasks)] /\ TokensStay
      /\ \A d \in Coros : RunqN(d)' + InbN(d)' = RunqN(d) + InbN(d) + One(c = d)
  <2>1. CASE runq' = Posted(runq, c, e) /\ inbound' = inbound
    <3>1. Posts(e, <<c>>) /\ \A d : Occurs(<<c>>, d) = One(c = d)
      BY <1>1, <1>4, <2>1, PostsOne
    <3>2. runq' \in [Execs -> Seq(Tasks)]
      BY <3>1 DEF Posts, Changed
    <3>3. TokensStay
      BY <2>1, <3>1, TokensPosts
    <3>4. ASSUME NEW d \in Coros PROVE RunqN(d)' + InbN(d)' = RunqN(d) + InbN(d) + One(c = d)
      <4>1. RunqN(d)' = RunqN(d) + Occurs(<<c>>, d) /\ InbN(d)' = InbN(d)
        BY <2>1, <3>1, PostsFacts, PartsSame
      <4>2. RunqN(d) \in Nat /\ InbN(d) \in Nat /\ One(c = d) \in Nat
        BY <1>4, RunqSome, InbSome DEF One
      <4> QED
        BY <3>1, <4>1, <4>2
    <3> QED
      BY <1>4, <2>1, <3>2, <3>3, <3>4
  <2>2. CASE inbound' = Posted(inbound, c, x) /\ runq' = runq
    <3>1. Sent(x, c)
      BY <1>1, <1>4, <2>2, SentIs, CorosAreTasks
    <3>2. inbound' \in [Execs -> Seq(Tasks)] /\ \A t : InbN(t)' = InbN(t) + One(c = t)
      BY <3>1, SentFacts
    <3>5. \A t : \A y \in Execs : Among(inbound'[y], t) <=> Among(inbound[y], t) \/ (y = x /\ c = t)
      BY <3>1, SentAmong
    <3>3. TokensStay
      <4>1. ASSUME NEW t \in Tasks \ Coros
            PROVE  /\ InbN(t)' = InbN(t)
                   /\ \A y \in Execs : Among(inbound'[y], t) <=> Among(inbound[y], t)
        <5>3. c # t
          BY <1>1
        <5>4. InbN(t) \in Nat
          BY <1>4, InbSome
        <5>1. c # t /\ One(c = t) = 0 /\ InbN(t) \in Nat
          BY <5>3, <5>4 DEF One
        <5>2. \A y \in Execs : Among(inbound'[y], t) <=> Among(inbound[y], t) \/ (y = x /\ c = t)
          BY <3>5
        <5>5. InbN(t)' = InbN(t) + 0
          BY <3>2, <5>1, Zenon
        <5> QED
          BY <5>1, <5>2, <5>5
      <4> QED
        BY <2>2, <4>1 DEF TokensStay, RunqN
    <3>4. ASSUME NEW d \in Coros PROVE RunqN(d)' + InbN(d)' = RunqN(d) + InbN(d) + One(c = d)
      <4>1. RunqN(d)' = RunqN(d)
        BY <2>2, PartsSame
      <4>2. RunqN(d) \in Nat /\ InbN(d) \in Nat /\ One(c = d) \in Nat
        BY <1>4, RunqSome, InbSome DEF One
      <4> QED
        BY <3>2, <4>1, <4>2
    <3> QED
      BY <1>4, <2>2, <3>2, <3>3, <3>4
  <2> QED
    BY <1>2, <2>1, <2>2 DEF c, x
<1>7. Typed'
  BY <1>2, <1>3, <1>5, <1>6 DEF IInv, Typed
<1>9. ASSUME NEW d \in Coros PROVE Places(d)' = Places(d)
  <2>1. /\ Numbers(d) /\ Numbers(d)'
        /\ Places(d) = RunN(d) + HandN(d) + WaitN(d) + JoinN(d) + TimeN(d) + RunqN(d) + InbN(d) + LockN(d)
        /\ Places(d)' = RunN(d)' + HandN(d)' + WaitN(d)' + JoinN(d)' + TimeN(d)' + RunqN(d)' + InbN(d)' + LockN(d)'
    BY <1>7, PlacesAll DEF IInv, Typed, Queued
  <2>2. HandN(d)' = HandN(d) - One(hand[e] # None /\ hand[e][1] = d) + One(hand'[e] # None /\ hand'[e][1] = d)
    BY <1>5, HandSet
  <2>3. One(hand[e] # None /\ hand[e][1] = d) = One(c = d) /\ One(hand'[e] # None /\ hand'[e][1] = d) = 0
        /\ One(c = d) \in {0, 1}
    BY <1>0, <1>5 DEF c, One
  <2>4. /\ RunN(d)' = RunN(d) /\ WaitN(d)' = WaitN(d) /\ JoinN(d)' = JoinN(d)
        /\ TimeN(d)' = TimeN(d) /\ LockN(d)' = LockN(d)
    BY <1>2, <1>3, PartsSame
  <2>5. RunqN(d)' + InbN(d)' = RunqN(d) + InbN(d) + One(c = d)
    BY <1>6
  <2> QED
    BY <2>1, <2>2, <2>3, <2>4, <2>5 DEF Numbers
<1> QED
  BY <1>2, <1>3, <1>6, <1>7, <1>9, StillQueued

\* A timer that fires keeps the invariant.
LEMMA TimerFiresKeeps ==
  ASSUME IInv, NEW e \in Execs, TimerFires(e), UNCHANGED roomVars
  PROVE  IInv'
<1>0. PICK c \in timers[e] : timers' = [timers EXCEPT ![e] = @ \ {c}] /\ runq' = Posted(runq, c, e)
  BY DEF TimerFires
<1>1. /\ runq \in [Execs -> Seq(Tasks)] /\ timers \in [Execs -> SUBSET Coros] /\ c \in Coros
  BY <1>0 DEF IInv, Typed
<1>2. /\ inbound' = inbound /\ running' = running /\ hand' = hand
      /\ frames' = frames /\ got' = got /\ queue' = queue
      /\ active' = active /\ join_waiter' = join_waiter
      /\ watcher' = watcher /\ send_locked' = send_locked /\ send_lock_waiters' = send_lock_waiters
      /\ rr' = rr /\ chunks' = chunks /\ clients' = clients /\ it' = it
  BY DEF TimerFires, groupVars, streamVars, roomVars
<1>3. /\ timers' \in [Execs -> SUBSET Coros] /\ timers'[e] = timers[e] \ {c}
      /\ \A x \in Execs : x # e => timers'[x] = timers[x]
  BY <1>0, <1>1
<1>4. Posts(e, <<c>>) /\ \A d : Occurs(<<c>>, d) = One(c = d)
  BY <1>0, <1>1, PostsOne
<1>5. runq' \in [Execs -> Seq(Tasks)] /\ TokensStay
  BY <1>2, <1>4, TokensPosts DEF Posts, Changed
<1>7. Typed'
  BY <1>2, <1>3, <1>5 DEF IInv, Typed
<1>9. ASSUME NEW d \in Coros PROVE Places(d)' = Places(d)
  <2>1. /\ Numbers(d) /\ Numbers(d)'
        /\ Places(d) = RunN(d) + HandN(d) + WaitN(d) + JoinN(d) + TimeN(d) + RunqN(d) + InbN(d) + LockN(d)
        /\ Places(d)' = RunN(d)' + HandN(d)' + WaitN(d)' + JoinN(d)' + TimeN(d)' + RunqN(d)' + InbN(d)' + LockN(d)'
    BY <1>7, PlacesAll DEF IInv, Typed, Queued
  <2>2. TimeN(d)' = TimeN(d) - One(d \in timers[e]) + One(d \in timers'[e])
    BY <1>3, TimeSet
  <2>3. One(d \in timers[e]) = One(c = d) + One(d \in timers'[e]) /\ One(d \in timers'[e]) \in {0, 1}
        /\ One(c = d) \in {0, 1}
    BY <1>0, <1>3 DEF One
  <2>4. /\ RunN(d)' = RunN(d) /\ WaitN(d)' = WaitN(d) /\ JoinN(d)' = JoinN(d)
        /\ HandN(d)' = HandN(d) /\ LockN(d)' = LockN(d) /\ InbN(d)' = InbN(d)
    BY <1>2, PartsSame
  <2>5. RunqN(d)' = RunqN(d) + One(c = d)
    BY <1>4, PostsFacts
  <2> QED
    BY <2>1, <2>2, <2>3, <2>4, <2>5 DEF Numbers
<1> QED
  BY <1>2, <1>5, <1>7, <1>9, StillQueued

----------------------------------------------------------------------------
(* A step in which one chain goes to other frames, wherever it then waits. *)

\* Where the chains wait is as before, but for chain c, whose frames are s now.
WaitsMove(c, s) ==
  /\ \A q \in Queues : queue'[q].waiter # None =>
       \/ queue'[q].waiter = queue[q].waiter
       \/ queue'[q].waiter = c /\ Head(s) = Frame("resume", q) /\ queue[q].exec # NoExec
  /\ \A q \in Queues : queue[q].exec # NoExec =>
       queue'[q].exec # NoExec /\ (q = accepted \/ queue'[q].exec = queue[q].exec)
  /\ \A k \in Clients :
       \/ join_waiter'[k] = join_waiter[k]
       \/ join_waiter'[k] = c /\ c = session(k) /\ Head(s) = Frame("joined", k)
  /\ \A k \in Clients, d \in Coros : Among(send_lock_waiters'[k], d) =>
       Among(send_lock_waiters[k], d) \/ (d = c /\ Head(s) = Frame("locked", k))

\* A chain that waits nowhere moves on: those that wait stay where they are.
LEMMA ParkedMoves ==
  ASSUME IInv, NEW c \in Coros, NEW s \in Stack, s # <<>>, frames'[c] = s,
         \A d \in Coros : d # c => frames'[d] = frames[d],
         NotWait(c), NotJoin(c), NotLock(c), WaitsMove(c, s)
  PROVE  Parked'
<1>1. ASSUME NEW q \in Queues, queue'[q].waiter # None
      PROVE  HeadIs(queue[q].waiter, Frame("resume", q))' /\ queue'[q].exec # NoExec
  <2>1. CASE queue'[q].waiter = queue[q].waiter
    <3>1. queue[q].waiter \in Coros /\ queue[q].waiter # c
      BY <1>1, <2>1 DEF IInv, Typed, NotWait
    <3>2. HeadIs(queue[q].waiter, Frame("resume", q)) /\ queue[q].exec # NoExec
      BY <1>1, <2>1 DEF IInv, Parked
    <3>3. frames'[queue[q].waiter] = frames[queue[q].waiter] /\ queue'[q].exec # NoExec
      BY <3>1, <3>2 DEF WaitsMove
    <3> QED
      BY <2>1, <3>2, <3>3 DEF HeadIs
  <2>2. CASE queue'[q].waiter = c /\ Head(s) = Frame("resume", q) /\ queue[q].exec # NoExec
    <3>1. queue'[q].exec # NoExec
      BY <2>2 DEF WaitsMove
    <3> QED
      BY <2>2, <3>1 DEF HeadIs
  <2> QED
    BY <1>1, <2>1, <2>2 DEF WaitsMove
<1>2. ASSUME NEW k \in Clients, join_waiter'[k] # None
      PROVE  HeadIs(join_waiter[k], Frame("joined", k))'
  <2>1. CASE join_waiter'[k] = join_waiter[k]
    <3>1. join_waiter[k] \in Coros /\ join_waiter[k] # c /\ HeadIs(join_waiter[k], Frame("joined", k))
      BY <1>2, <2>1 DEF IInv, Typed, NotJoin, Parked
    <3> QED
      BY <2>1, <3>1 DEF HeadIs
  <2>2. CASE join_waiter'[k] = c /\ Head(s) = Frame("joined", k)
    BY <2>2 DEF HeadIs
  <2> QED
    BY <2>1, <2>2 DEF WaitsMove
<1>3. ASSUME NEW k \in Clients, NEW d \in Coros, Among(send_lock_waiters'[k], d)
      PROVE  HeadIs(d, Frame("locked", k))'
  <2>1. CASE Among(send_lock_waiters[k], d)
    <3>1. d # c /\ HeadIs(d, Frame("locked", k))
      BY <2>1 DEF IInv, Parked, NotLock
    <3> QED
      BY <3>1 DEF HeadIs
  <2>2. CASE d = c /\ Head(s) = Frame("locked", k)
    BY <2>2 DEF HeadIs
  <2> QED
    BY <1>3, <2>1, <2>2 DEF WaitsMove
<1> QED
  BY <1>1, <1>2, <1>3 DEF Parked, Among, None

\* A chain takes a step; the premises are what the step shows of each conjunct.
LEMMA Moves ==
  ASSUME IInv, Typed', NEW c \in Coros, NEW s \in Stack, s # <<>>, StackOf(c, s), frames[c] # <<>>,
         frames' = [frames EXCEPT ![c] = s], NotWait(c), NotJoin(c), NotLock(c), WaitsMove(c, s),
         active' = active, \A d \in Coros : Places(d)' = Places(d),
         c = Main => Head(s).at # "main" /\ queue'[accepted].exec # NoExec,
         \A k \in Clients : c = session(k) /\ Head(s).at \in {"session", "session end", "joined"} =>
           active[k] = 0 \/ (join_waiter'[k] # None /\ Head(s).at = "joined"),
         \A k \in Clients : watcher'[k] = "none" <=> watcher[k] = "none",
         Ticketed', Known', Locks', RoomOK', DroppedStreamIsClosed'
  PROVE  IInv'
<1> USE DEF IInv
<1>1. /\ Stacks' /\ frames' \in [Coros -> Stack] /\ frames'[c] = s /\ \A d \in Coros : d # c => frames'[d] = frames[d]
  BY StacksStay
<1>6. OneResumption'
  <2>1. \A d \in Coros : Places(d)' = (IF frames'[d] = <<>> THEN 0 ELSE 1)
    BY <1>1 DEF OneResumption
  <2> QED
    BY <2>1 DEF OneResumption
<1>7. Parked'
  BY <1>1, ParkedMoves
<1>8. Bound'
  <2>1. /\ frames'[Room] # <<>> => frames[Room] # <<>>
        /\ frames'[Main] = frames[Main] \/ frames'[Main] = <<>> \/ queue'[accepted].exec # NoExec
        /\ \A k \in Clients : frames'[writer(k)] # <<>> => frames[writer(k)] # <<>>
    BY <1>1, CoroNames
  <2>2. \A q \in Queues : queue[q].exec # NoExec => queue'[q].exec # NoExec
    BY DEF WaitsMove
  <2> QED
    BY <2>1, <2>2, BoundStays
<1>9. Children'
  <2>1. HeadIs(Main, Frame("main", 0))' => frames'[Room] = <<>>
    <3>1. CASE c = Main
      <4>1. Head(s) # Frame("main", 0)
        <5>1. Head(s).at # "main"
          BY <3>1
        <5>2. Frame("main", 0).at = "main"
          BY FrameFacts
        <5> QED
          BY <5>1, <5>2
      <4> QED
        BY <1>1, <3>1, <4>1 DEF HeadIs
    <3>2. CASE c # Main
      <4>1. HeadIs(Main, Frame("main", 0))' => HeadIs(Main, Frame("main", 0))
        BY <1>1, <3>2, CoroNames DEF HeadIs
      <4>2. frames[Room] = <<>> => frames'[Room] = <<>>
        BY <1>1, CoroNames
      <4> QED
        BY <4>1, <4>2 DEF Children
    <3> QED
      BY <3>1, <3>2
  <2>2. ASSUME NEW k \in Clients
        PROVE  /\ frames'[writer(k)] = <<>> <=> frames[writer(k)] = <<>>
               /\ frames'[helper(k)] = <<>> <=> frames[helper(k)] = <<>>
               /\ frames'[session(k)] # <<>> => frames[session(k)] # <<>>
    BY <1>1, CoroNames
  <2>3. ASSUME NEW k \in Clients, Childless(k)'
        PROVE  active[k] = 0
    <3>1. CASE c = session(k)
      <4>0. /\ Frame("session", k).at = "session" /\ Frame("session end", k).at = "session end"
            /\ Frame("joined", k).at = "joined"
        BY FrameFacts
      <4>1. \/ Head(s) \in {Frame("session", k), Frame("session end", k)}
            \/ Head(s) = Frame("joined", k) /\ join_waiter'[k] = None
        BY <1>1, <2>3, <3>1 DEF Childless, HeadIs, None
      <4>2. Head(s).at \in {"session", "session end"} \/ (Head(s).at = "joined" /\ join_waiter'[k] = None)
        BY <4>0, <4>1
      <4> QED
        BY <3>1, <4>2
    <3>2. CASE c # session(k)
      <4>1. frames'[session(k)] = frames[session(k)] /\ join_waiter'[k] = join_waiter[k]
        BY <1>1, <3>2, CoroNames DEF WaitsMove
      <4>2. Childless(k)
        BY <2>3, <4>1 DEF Childless, HeadIs, None
      <4> QED
        BY <4>2 DEF Children
    <3> QED
      BY <3>1, <3>2
  <2>4. ASSUME NEW k \in Clients
        PROVE  /\ active'[k] = One(frames'[writer(k)] # <<>>) + One(frames'[helper(k)] # <<>>)
               /\ watcher'[k] = "none" => frames'[session(k)] = <<>>
    BY <2>2 DEF Children, One
  <2> QED
    BY <2>1, <2>3, <2>4 DEF Children
<1> QED
  BY <1>1, <1>6, <1>7, <1>8, <1>9

\* Who has the lock of a stream.
LEMMA LocksMove ==
  ASSUME IInv, NEW c \in Coros, NEW s, frames'[c] = s, \A d \in Coros : d # c => frames'[d] = frames[d],
         send_locked \subseteq send_locked',
         \A k \in Clients, d \in Coros : Among(send_lock_waiters[k], d) => Among(send_lock_waiters'[k], d),
         \A k \in Clients : /\ Sends(s, k) => Owner(c, k)
                            /\ s # <<>> /\ Head(s) = Frame("locked", k) => Among(send_lock_waiters'[k], c)
  PROVE  Locks'
<1>1. ASSUME NEW k \in Clients, NEW d \in Coros, Owner(d, k)'
      PROVE  Owner(d, k)
  <2>1. CASE d = c
    <3>1. Sending(c, k)' => Sends(s, k)
      BY DEF Sending, Sends
    <3>2. ~ (HeadIs(c, Frame("locked", k)) /\ ~ Among(send_lock_waiters[k], c))'
      BY DEF HeadIs
    <3> QED
      BY <1>1, <2>1, <3>1, <3>2 DEF Owner
  <2>2. CASE d # c
    <3>1. frames'[d] = frames[d]
      BY <2>2
    <3> QED
      BY <1>1, <3>1 DEF Owner, Sending, HeadIs
  <2> QED
    BY <2>1, <2>2
<1> QED
  BY <1>1, LocksStay DEF IInv

\* The commands of the room are as before, or there are more, but no Join.
RoomServed ==
  /\ queue'[cmds].closed = queue[cmds].closed
  /\ \A t : Among(queue[cmds].q, t) => Among(queue'[cmds].q, t)
  /\ \A k \in Clients : Among(queue'[cmds].q, <<"join", k>>) => Among(queue[cmds].q, <<"join", k>>)
  /\ queue[cmds].q # <<>> => queue'[cmds].q # <<>>
  /\ queue[cmds].waiter = Room => queue'[cmds].waiter = Room \/ queue'[cmds].q # <<>>

\* The step is of another chain than the room's.
LEMMA MovesOn ==
  ASSUME IInv, Typed', NEW c \in Coros, NEW s \in Stack, s # <<>>, StackOf(c, s), frames[c] # <<>>,
         frames' = [frames EXCEPT ![c] = s], NotWait(c), NotJoin(c), NotLock(c), WaitsMove(c, s),
         active' = active, \A d \in Coros : Places(d)' = Places(d),
         c = Main => Head(s).at # "main" /\ queue'[accepted].exec # NoExec,
         \A k \in Clients : c = session(k) /\ Head(s).at \in {"session", "session end", "joined"} =>
           active[k] = 0 \/ (join_waiter'[k] # None /\ Head(s).at = "joined"),
         \A k \in Clients : /\ watcher'[k] = "none" <=> watcher[k] = "none"
                            /\ watcher'[k] = "open" => watcher[k] = "open",
         Ticketed', Locks',
         \A k \in Clients, x \in Execs : Cleaning(x, k)' <=> Cleaning(x, k),
         c # Room, got'[Room] = got[Room], clients' = clients, it' = it, RoomServed
  PROVE  IInv'
<1>1. /\ frames'[c] = s /\ \A d \in Coros : d # c => frames'[d] = frames[d]
  BY StacksStay DEF IInv
<1>2. frames'[Room] = frames[Room]
  BY <1>1, CoroNames
<1>3. RoomOK'
  BY <1>2, RoomStays DEF IInv, RoomServed
<1>4. DroppedStreamIsClosed'
  <2>1. \A k \in Clients : k \in Alive => k \in Alive'
    <3>1. queue[cmds].q \in Seq(Commands) /\ queue'[cmds].q \in Seq(Commands)
      <4>1. Typed
        BY DEF IInv
      <4>2. queue[cmds].q \in Seq(Commands)
        BY <4>1 DEF Typed
      <4>3. queue'[cmds].q \in Seq(Commands)
        BY DEF Typed
      <4> QED
        BY <4>2, <4>3
    <3>2. ASSUME NEW k \in Clients, frames[session(k)] # <<>> PROVE frames'[session(k)] # <<>>
      <4>1. session(k) \in Coros
        BY CoroNames
      <4>2. CASE session(k) = c
        BY <1>1, <4>2
      <4>3. CASE session(k) # c
        BY <1>1, <3>2, <4>1, <4>3
      <4> QED
        BY <4>2, <4>3
    <3>3. \A k \in Clients : Among(queue[cmds].q, <<"join", k>>) => Among(queue'[cmds].q, <<"join", k>>)
      BY DEF RoomServed
    <3> QED
      BY <1>2, <3>1, <3>2, <3>3, AliveStays
  <2>2. \A k \in Clients, x \in Execs :
           Among(runq[x], <<"cleanup", k>>) \/ Among(inbound[x], <<"cleanup", k>>)
             => Among(runq'[x], <<"cleanup", k>>) \/ Among(inbound'[x], <<"cleanup", k>>) \/ watcher'[k] # "open"
    BY DEF Cleaning
  <2>3. ASSUME NEW k \in Clients, watcher'[k] = "open"
        PROVE  watcher[k] = "open" /\ exec(k)' = exec(k) /\ (k \in Alive => k \in Alive')
    <3>1. watcher[k] = "open"
      BY <2>3
    <3>2. exec(k) # NoExec /\ recv_q(k) \in Queues /\ recv_q(k) # accepted
      BY <3>1, QueueNames DEF IInv, Bound, exec
    <3>3. exec(k)' = exec(k)
      BY <3>2 DEF WaitsMove, exec
    <3> QED
      BY <2>1, <3>1, <3>3
  <2> QED
    BY <2>2, <2>3, DroppedStays DEF IInv
<1>5. Known'
  <2>1. ASSUME NEW k \in Clients, watcher'[k] = "none"
        PROVE  /\ ~ Among(queue'[cmds].q, <<"join", k>>) /\ got'[Room] # <<"join", k>>
               /\ ~ Among(clients', k)
               /\ \A e \in Execs : ~ Among(runq'[e], <<"cleanup", k>>) /\ ~ Among(inbound'[e], <<"cleanup", k>>)
    <3>1. watcher[k] = "none"
      BY <2>1
    <3>2. /\ ~ Among(queue[cmds].q, <<"join", k>>) /\ got[Room] # <<"join", k>>
          /\ ~ Among(clients, k)
          /\ \A e \in Execs : ~ Cleaning(e, k)
      BY <3>1 DEF IInv, Known, Cleaning
    <3>3. \A e \in Execs : ~ Cleaning(e, k)'
      BY <3>2
    <3>4. \A e \in Execs : ~ Among(runq'[e], <<"cleanup", k>>) /\ ~ Among(inbound'[e], <<"cleanup", k>>)
      BY <3>3 DEF Cleaning
    <3> QED
      BY <3>2, <3>4 DEF RoomServed
  <2> QED
    BY <2>1 DEF Known, Among
<1> QED
  BY <1>3, <1>4, <1>5, Moves

----------------------------------------------------------------------------
(* The chains in pop(). *)

\* Chain c, in pop() on queue q, has the frames t below that of pop().
PopOf(c, q, t) ==
  \/ c = Main /\ q = accepted /\ t = On("return", 0, On("served", 0, On("return", 0, <<>>)))
  \/ c = Room /\ q = cmds /\ t = On("command", 0, <<>>)
  \/ \E k \in Clients :
       \/ c = session(k) /\ q = recv_q(k) /\ t = On("return", k, On("received", k, <<>>))
       \/ c = writer(k) /\ q = outbox(k) /\ t = On("writer got", k, On("child done", k, <<>>))
       \/ /\ c \in {writer(k), helper(k)} /\ q = send_ready_q(k)
          /\ t = On("send ready", k, On(Then(c), k, On("child done", k, <<>>)))

\* A consumer in pop() has the frame it returns to;
LEMMA ConsumerPop ==
  ASSUME NEW c, NEW q, NEW l, NEW s, Consumer(c, q, l, s)
  PROVE  \E t : PopOf(c, q, t) /\ s = On(l, q, t)
  BY DEF Consumer, PopOf

\* known by its label;
LEMMA WherePop ==
  ASSUME NEW c, NEW l \in Popping, NEW s, Where(c, l, s)
  PROVE  \E q, t : PopOf(c, q, t) /\ s = On(l, q, t)
<1>1. CASE c = Main /\ s = On(l, accepted, On("return", 0, On("served", 0, On("return", 0, <<>>))))
  BY <1>1 DEF PopOf
<1>2. CASE c = Room /\ s = On(l, cmds, On("command", 0, <<>>))
  BY <1>2 DEF PopOf
<1>3. ASSUME NEW k \in Clients, c = session(k) /\ s = On(l, recv_q(k), On("return", k, On("received", k, <<>>)))
      PROVE  \E q, t : PopOf(c, q, t) /\ s = On(l, q, t)
  BY <1>3 DEF PopOf
<1>4. ASSUME NEW k \in Clients, c = writer(k) /\ s = On(l, outbox(k), On("writer got", k, On("child done", k, <<>>)))
      PROVE  \E q, t : PopOf(c, q, t) /\ s = On(l, q, t)
  BY <1>4 DEF PopOf
<1>5. ASSUME NEW k \in Clients, c \in {writer(k), helper(k)},
             s = On(l, send_ready_q(k), On("send ready", k, On(Then(c), k, On("child done", k, <<>>))))
      PROVE  \E q, t : PopOf(c, q, t) /\ s = On(l, q, t)
  <2> DEFINE t == On("send ready", k, On(Then(c), k, On("child done", k, <<>>)))
  <2>1. PopOf(c, send_ready_q(k), t)
    BY <1>5 DEF PopOf
  <2> HIDE DEF t
  <2> QED
    BY <1>5, <2>1 DEF t
<1> QED
  BY <1>1, <1>2, <1>3, <1>4, <1>5 DEF Where

\* It goes on to the frame it has called pop() from.
LEMMA PopFacts ==
  ASSUME NEW c, NEW q, NEW t, PopOf(c, q, t)
  PROVE  /\ q \in Queues /\ q \in Subjects /\ t \in Stack /\ t # <<>>
         /\ Head(t).at \in {"return", "command", "writer got", "send ready"}
         /\ StackOf(c, t) /\ \A m \in Popping : StackOf(c, On(m, q, t))
<1>0. /\ "return" \in Labels /\ "command" \in Labels /\ "writer got" \in Labels /\ "send ready" \in Labels
      /\ "served" \in Labels
  BY DEF Labels
<1>1. CASE c = Main /\ q = accepted /\ t = On("return", 0, On("served", 0, On("return", 0, <<>>)))
  <2>1. t \in Stack /\ On("served", 0, On("return", 0, <<>>)) \in Stack /\ accepted \in Subjects /\ 0 \in Subjects
    BY <1>1, Rests, SubjectFacts
  <2>2. Head(t).at = "return" /\ t # <<>>
    BY <1>0, <1>1, <2>1, OnHead
  <2>3. StackOf(Main, t) /\ \A m \in Popping : StackOf(Main, On(m, accepted, t))
    BY <1>1, NewMain
  <2> QED
    BY <1>1, <2>1, <2>2, <2>3, QueueNames, CoroNames
<1>2. CASE c = Room /\ q = cmds /\ t = On("command", 0, <<>>)
  <2>1. t \in Stack /\ <<>> \in Stack /\ cmds \in Subjects /\ 0 \in Subjects
    BY <1>2, Rests, SubjectFacts
  <2>2. Head(t).at = "command" /\ t # <<>>
    BY <1>0, <1>2, <2>1, OnHead
  <2>3. StackOf(Room, t) /\ \A m \in Popping : StackOf(Room, On(m, cmds, t))
    BY <1>2, NewRoom
  <2> QED
    BY <1>2, <2>1, <2>2, <2>3, QueueNames, CoroNames
<1>3. ASSUME NEW k \in Clients, c = session(k) /\ q = recv_q(k) /\ t = On("return", k, On("received", k, <<>>))
      PROVE  /\ q \in Queues /\ q \in Subjects /\ t \in Stack /\ t # <<>>
             /\ Head(t).at = "return"
             /\ StackOf(c, t) /\ \A m \in Popping : StackOf(c, On(m, q, t))
  <2>1. t \in Stack /\ On("received", k, <<>>) \in Stack /\ recv_q(k) \in Subjects /\ k \in Subjects
    BY <1>3, Rests, SubjectFacts
  <2> DEFINE u == On("received", k, <<>>)
  <2>4. u \in Stack /\ t = On("return", k, u)
    BY <1>3, <2>1
  <2> HIDE DEF u
  <2>2. Head(t).at = "return" /\ t # <<>>
    BY <1>0, <2>1, <2>4, OnHead
  <2>3. StackOf(session(k), t) /\ \A m \in Popping : StackOf(session(k), On(m, recv_q(k), t))
    BY <1>3, NewSession
  <2> QED
    BY <1>3, <2>1, <2>2, <2>3, QueueNames, CoroNames
<1>4. ASSUME NEW k \in Clients, c = writer(k) /\ q = outbox(k) /\ t = On("writer got", k, On("child done", k, <<>>))
      PROVE  /\ q \in Queues /\ q \in Subjects /\ t \in Stack /\ t # <<>>
             /\ Head(t).at = "writer got"
             /\ StackOf(c, t) /\ \A m \in Popping : StackOf(c, On(m, q, t))
  <2>1. t \in Stack /\ On("child done", k, <<>>) \in Stack /\ outbox(k) \in Subjects /\ k \in Subjects
    BY <1>4, Rests, SubjectFacts
  <2> DEFINE u == On("child done", k, <<>>)
  <2>4. u \in Stack /\ t = On("writer got", k, u)
    BY <1>4, <2>1
  <2> HIDE DEF u
  <2>2. Head(t).at = "writer got" /\ t # <<>>
    BY <1>0, <2>1, <2>4, OnHead
  <2>3. StackOf(writer(k), t) /\ \A m \in Popping : StackOf(writer(k), On(m, outbox(k), t))
    BY <1>4, NewWriter
  <2> QED
    BY <1>4, <2>1, <2>2, <2>3, QueueNames, CoroNames
<1>5. ASSUME NEW k \in Clients, c \in {writer(k), helper(k)}, q = send_ready_q(k),
             t = On("send ready", k, On(Then(c), k, On("child done", k, <<>>)))
      PROVE  /\ q \in Queues /\ q \in Subjects /\ t \in Stack /\ t # <<>>
             /\ Head(t).at = "send ready"
             /\ StackOf(c, t) /\ \A m \in Popping : StackOf(c, On(m, q, t))
  <2>0. Then(c) \in Labels /\ "send ready" \in InSend
    BY LabelFacts DEF Then, InSend
  <2>1. t \in Stack /\ On(Then(c), k, On("child done", k, <<>>)) \in Stack /\ send_ready_q(k) \in Subjects /\ k \in Subjects
    BY <1>5, <2>0, Rests, SubjectFacts
  <2>2. Head(t).at = "send ready" /\ t # <<>>
    BY <1>0, <1>5, <2>1, OnHead
  <2>3. StackOf(c, t) /\ \A m \in Popping : StackOf(c, On(m, send_ready_q(k), t))
    BY <1>5, <2>0, NewSend
  <2> QED
    BY <1>5, <2>1, <2>2, <2>3, QueueNames, CoroNames
<1> QED
  BY <1>1, <1>2, <1>3, <1>4, <1>5 DEF PopOf

\* A queue has one chain in pop(): two chains that send to a stream have its lock in turn.
LEMMA SoleConsumer ==
  ASSUME IInv, NEW c \in Coros, NEW d \in Coros, NEW q, NEW t, NEW u, PopOf(c, q, t), PopOf(d, q, u),
         NEW l \in Popping, NEW m \in Popping, frames[c] = On(l, q, t), frames[d] = On(m, q, u)
  PROVE  c = d
<1>1. CASE \E k \in Clients : q = send_ready_q(k)
  <2>1. PICK k \in Clients : q = send_ready_q(k)
    BY <1>1
  <2>2. /\ c \in {writer(k), helper(k)} /\ t = On("send ready", k, On(Then(c), k, On("child done", k, <<>>)))
        /\ d \in {writer(k), helper(k)} /\ u = On("send ready", k, On(Then(d), k, On("child done", k, <<>>)))
    BY <2>1, QueueNames DEF PopOf
  <2>3. ASSUME NEW b \in Coros, NEW v, NEW n \in Popping, PopOf(b, q, v), frames[b] = On(n, q, v),
               v = On("send ready", k, On(Then(b), k, On("child done", k, <<>>)))
        PROVE  Owner(b, k)
    <3>1. Then(b) \in Labels /\ "send ready" \in Labels /\ n \in Labels
      BY LabelFacts DEF Then, Popping
    <3>2. On(Then(b), k, On("child done", k, <<>>)) \in Stack /\ k \in Subjects /\ q \in Subjects /\ v \in Stack
      BY <2>3, <3>1, Rests, SubjectFacts, PopFacts
    <3>3. Sends(v, k)
      <4>1. Sends(On("send ready", k, On(Then(b), k, On("child done", k, <<>>))), k)
        <5> DEFINE rest == On(Then(b), k, On("child done", k, <<>>))
        <5>0. rest \in Stack /\ k \in Subjects
          BY <3>2
        <5> HIDE DEF rest
        <5>1. Sends(On("send ready", k, rest), k)
          BY <3>1, <5>0, SendsOn
        <5> QED
          BY <5>1 DEF rest
      <4> QED
        BY <2>3, <4>1
    <3>4. Sends(On(n, q, v), k)
      BY <3>1, <3>2, <3>3, SendsOn
    <3> QED
      BY <2>3, <3>4, SendingIsSends DEF Owner
  <2>4. Owner(c, k)
    BY <2>2, <2>3
  <2>5. Owner(d, k)
    BY <2>2, <2>3
  <2> QED
    BY <2>4, <2>5 DEF IInv, Locks
<1>2. CASE \A k \in Clients : q # send_ready_q(k)
  <2>1. \/ c = Main /\ q = accepted
        \/ c = Room /\ q = cmds
        \/ \E k \in Clients : (c = session(k) /\ q = recv_q(k)) \/ (c = writer(k) /\ q = outbox(k))
    BY <1>2, Zenon DEF PopOf
  <2>2. \/ d = Main /\ q = accepted
        \/ d = Room /\ q = cmds
        \/ \E k \in Clients : (d = session(k) /\ q = recv_q(k)) \/ (d = writer(k) /\ q = outbox(k))
    BY <1>2, Zenon DEF PopOf
  <2> QED
    BY <2>1, <2>2, QueueNames
<1> QED
  BY <1>1, <1>2

\* When a chain is in pop() and does not wait, nobody waits in the queue.
LEMMA NoWaiter ==
  ASSUME IInv, NEW c \in Coros, NEW q, NEW t, PopOf(c, q, t), NEW l \in Popping, frames[c] = On(l, q, t),
         NotWait(c)
  PROVE  queue[q].waiter = None
<1>1. q \in Queues
  BY PopFacts
<1>2. SUFFICES ASSUME queue[q].waiter # None PROVE FALSE
  OBVIOUS
<1> DEFINE d == queue[q].waiter
<1>3. d \in Coros /\ HeadIs(d, Frame("resume", q)) /\ "resume" \in Popping
  BY <1>1, <1>2 DEF IInv, Typed, Parked, Popping
<1>4. d # c
  BY <1>1 DEF NotWait
<1> HIDE DEF d
<1>5. Consumer(d, q, "resume", frames[d])
  BY <1>1, <1>3, PoppingIs DEF IInv
<1>6. PICK u : PopOf(d, q, u) /\ frames[d] = On("resume", q, u)
  BY <1>5, ConsumerPop
<1> QED
  BY <1>3, <1>4, <1>6, SoleConsumer

----------------------------------------------------------------------------
(* A step of the room. *)

\* what that frame is.
LEMMA PopType ==
  ASSUME NEW c, NEW q, NEW t, PopOf(c, q, t)
  PROVE  q \in Queues /\ q \in Subjects /\ t \in Stack /\ t # <<>>
  BY PopFacts

LEMMA PopStacks ==
  ASSUME NEW c, NEW q, NEW t, PopOf(c, q, t)
  PROVE  StackOf(c, t) /\ \A m \in Popping : StackOf(c, On(m, q, t))
  BY PopFacts

LEMMA PopNames ==
  ASSUME NEW c, NEW q, NEW t, PopOf(c, q, t)
  PROVE  (c = Room <=> q = cmds) /\ (c = Main <=> q = accepted)
<1>1. \/ c = Main /\ q = accepted
      \/ c = Room /\ q = cmds
      \/ \E k \in Clients : /\ c \in {session(k), writer(k), helper(k)}
                           /\ q \in {recv_q(k), outbox(k), send_ready_q(k)}
  BY DEF PopOf
<1> QED
  BY <1>1, CoroNames, QueueNames

LEMMA PopRoom ==
  ASSUME NEW c, NEW q, NEW t, PopOf(c, q, t), c = Room
  PROVE  q = cmds /\ t = On("command", 0, <<>>)
<1>1. \A k \in Clients : c \notin {session(k), writer(k), helper(k)} /\ c # Main
  BY CoroNames
<1>2. CASE c = Main
  BY <1>2, CoroNames
<1>3. CASE c = Room /\ q = cmds /\ t = On("command", 0, <<>>)
  BY <1>3
<1>4. ASSUME NEW k \in Clients, c = session(k) \/ c = writer(k) \/ c \in {writer(k), helper(k)}
      PROVE  q = cmds /\ t = On("command", 0, <<>>)
  BY <1>1, <1>4
<1> QED
  BY <1>2, <1>3, <1>4 DEF PopOf

LEMMA PopAt ==
  ASSUME NEW c, NEW q, NEW t, PopOf(c, q, t)
  PROVE  Head(t).at \in {"return", "command", "writer got", "send ready"}
  BY PopFacts

\* The room is never sending.
LEMMA RoomQuiet ==
  ASSUME NEW s, RoomStack(s), s # <<>>, NEW k \in Clients
  PROVE  ~ Sends(s, k) /\ Head(s) # Frame("locked", k)
<1>0. Frame("locked", k).at = "locked"
  BY FrameFacts
<1>1. ASSUME NEW l \in {"room", "command", "cast", "pushed"}, s = On(l, 0, <<>>)
      PROVE  ~ Sends(s, k) /\ Head(s) # Frame("locked", k)
  <2>1. l \in Labels /\ 0 \in Subjects /\ <<>> \in Stack
    BY Rests, SubjectFacts DEF Labels
  <2>2. Head(s).at = l
    BY <1>1, <2>1, OnHead
  <2>3. ~ Sends(On(l, 0, <<>>), k)
    BY <2>1, SendsOn, SendsNone
  <2> QED
    BY <1>0, <1>1, <2>2, <2>3
<1>2. ASSUME NEW l \in Popping, s = On(l, cmds, On("command", 0, <<>>))
      PROVE  ~ Sends(s, k) /\ Head(s) # Frame("locked", k)
  <2> DEFINE t == On("command", 0, <<>>)
  <2>1. l \in Labels /\ cmds \in Subjects /\ t \in Stack
    BY Rests, SubjectFacts DEF Labels, Popping
  <2>2. ~ Sends(t, k) /\ s = On(l, cmds, t)
    BY <1>2, QuietRests
  <2> HIDE DEF t
  <2>3. Head(s).at = l
    BY <2>1, <2>2, OnHead
  <2>4. ~ Sends(On(l, cmds, t), k)
    BY <2>1, <2>2, SendsOn DEF Popping
  <2> QED
    BY <1>0, <2>2, <2>3, <2>4 DEF Popping
<1> QED
  BY <1>1, <1>2 DEF RoomStack

\* The references to a client may go, when its stream is closed or a task will close it.
LEMMA RoomMoves ==
  ASSUME IInv, Typed', NEW s \in Stack, s # <<>>, StackOf(Room, s), frames[Room] # <<>>,
         frames' = [frames EXCEPT ![Room] = s], NotWait(Room), NotJoin(Room), NotLock(Room), WaitsMove(Room, s),
         active' = active, \A d \in Coros : Places(d)' = Places(d),
         send_locked' = send_locked, send_lock_waiters' = send_lock_waiters,
         \A k \in Clients : /\ watcher'[k] = "none" <=> watcher[k] = "none"
                            /\ watcher'[k] = "open" => watcher[k] = "open",
         Ticketed', RoomOK',
         \A k \in Clients, x \in Execs : /\ Cleaning(x, k) => Cleaning(x, k)' \/ watcher'[k] # "open"
                                         /\ Cleaning(x, k)' => Cleaning(x, k) \/ watcher[k] # "none",
         \A k \in Clients : watcher'[k] = "open" /\ k \in Alive => k \in Alive' \/ Cleaning(exec(k), k)',
         \A k \in Clients : watcher[k] = "none" =>
           ~ Among(queue'[cmds].q, <<"join", k>>) /\ got'[Room] # <<"join", k>> /\ ~ Among(clients', k)
  PROVE  IInv'
<1>1. /\ frames'[Room] = s /\ \A d \in Coros : d # Room => frames'[d] = frames[d]
  BY StacksStay, CoroNames DEF IInv
<1>2. Locks'
  <2>1. RoomStack(s)
    BY DEF StackOf
  <2>2. \A k \in Clients : ~ Sends(s, k) /\ Head(s) # Frame("locked", k)
    BY <2>1, RoomQuiet
  <2> QED
    BY <1>1, <2>2, LocksMove, CoroNames
<1>3. Known'
  <2>1. ASSUME NEW k \in Clients, watcher'[k] = "none"
        PROVE  /\ ~ Among(queue'[cmds].q, <<"join", k>>) /\ got'[Room] # <<"join", k>>
               /\ ~ Among(clients', k)
               /\ \A e \in Execs : ~ Among(runq'[e], <<"cleanup", k>>) /\ ~ Among(inbound'[e], <<"cleanup", k>>)
    <3>1. watcher[k] = "none"
      BY <2>1
    <3>2. \A e \in Execs : ~ Cleaning(e, k)
      BY <3>1 DEF IInv, Known, Cleaning
    <3>3. \A e \in Execs : ~ Cleaning(e, k)'
      BY <3>1, <3>2
    <3>4. \A e \in Execs : ~ Among(runq'[e], <<"cleanup", k>>) /\ ~ Among(inbound'[e], <<"cleanup", k>>)
      BY <3>3 DEF Cleaning
    <3> QED
      BY <3>1, <3>4
  <2> QED
    BY <2>1 DEF Known, Among
<1>4. DroppedStreamIsClosed'
  <2>1. ASSUME NEW k \in Clients, watcher'[k] = "open", k \notin Alive'
        PROVE  Cleaning(exec(k), k)' /\ exec(k)' = exec(k)
    <3>1. watcher[k] = "open"
      BY <2>1
    <3>2. exec(k) # NoExec /\ recv_q(k) \in Queues /\ recv_q(k) # accepted
      BY <3>1, QueueNames DEF IInv, Bound, exec
    <3>3. exec(k)' = exec(k) /\ exec(k) \in Execs
      BY <3>2 DEF WaitsMove, exec, IInv, Typed
    <3>4. CASE k \in Alive
      BY <2>1, <3>3, <3>4
    <3>5. CASE k \notin Alive
      <4>1. Cleaning(exec(k), k)
        BY <3>1, <3>5, RangeAmong DEF IInv, DroppedStreamIsClosed, Cleaning
      <4> QED
        BY <2>1, <3>3, <4>1
    <3> QED
      BY <3>4, <3>5
  <2>2. ASSUME NEW k \in Clients, watcher'[k] = "open", k \notin Alive'
        PROVE  (\E qs \in {runq[exec(k)], inbound[exec(k)]} : <<"cleanup", k>> \in Range(qs))'
    <3>1. Cleaning(exec(k), k)'
      BY <2>1, <2>2
    <3> QED
      BY <3>1, RangeAmong DEF Cleaning
  <2> QED
    BY <2>2 DEF DroppedStreamIsClosed
<1> QED
  BY <1>2, <1>3, <1>4, Moves, CoroNames

----------------------------------------------------------------------------
(* A chain that suspends in a queue. *)

\* The queue has been bound by then.
LEMMA PopBound ==
  ASSUME IInv, NEW c, NEW q, NEW t, PopOf(c, q, t), NEW l \in Popping, frames[c] = On(l, q, t)
  PROVE  queue[q].exec # NoExec
<1>0. /\ l \in Labels /\ l \notin {"main", "listen"} /\ q \in Subjects /\ t \in Stack
  BY PopFacts DEF Popping, Labels
<1>1. frames[c] # <<>> /\ Head(frames[c]).at = l
  BY <1>0, OnHead
<1>2. CASE c = Main /\ q = accepted
  BY <1>0, <1>1, <1>2 DEF IInv, Bound
<1>3. CASE c = Room /\ q = cmds
  BY <1>1, <1>3 DEF IInv, Bound
<1>4. ASSUME NEW k \in Clients, c = session(k), q = recv_q(k) PROVE queue[q].exec # NoExec
  BY <1>1, <1>4 DEF IInv, Bound, Children
<1>5. ASSUME NEW k \in Clients, c = writer(k), q = outbox(k) PROVE queue[q].exec # NoExec
  BY <1>1, <1>5 DEF IInv, Bound
<1>6. ASSUME NEW k \in Clients, c \in {writer(k), helper(k)}, q = send_ready_q(k) PROVE queue[q].exec # NoExec
  <2>1. active[k] # 0
    BY <1>1, <1>6 DEF IInv, Children, One
  <2>2. frames[session(k)] # <<>>
    BY <2>1 DEF IInv, Children, Childless
  <2>3. watcher[k] # "none"
    BY <2>2 DEF IInv, Children
  <2> QED
    BY <1>6, <2>3 DEF IInv, Bound
<1> QED
  BY <1>2, <1>3, <1>4, <1>5, <1>6 DEF PopOf

\* await_suspend of pop() keeps the invariant.
LEMMA await_suspendKeeps ==
  ASSUME IInv, NEW e \in Execs, NEW c, c # None, await_suspend(e, c), UNCHANGED <<tcpVars, roomVars>>
  PROVE  IInv'
<1>0. At(e, c, "suspend") /\ "suspend" \in Popping /\ "suspend" \in Labels /\ "resume" \in Labels /\ "resume" \in Popping
  BY DEF await_suspend, Popping, Labels
<1>1. /\ c \in Coros /\ running[e] = c /\ frames[c] # <<>> /\ Where(c, "suspend", frames[c])
  BY <1>0, Here
<1>2. PICK q, t : PopOf(c, q, t) /\ frames[c] = On("suspend", q, t)
  BY <1>0, <1>1, WherePop
<1>3. /\ q \in Queues /\ q \in Subjects /\ t \in Stack /\ t # <<>>
      /\ \A m \in Popping : StackOf(c, On(m, q, t))
      /\ c = Room <=> q = cmds
      /\ c = Main <=> q = accepted
  BY <1>2, PopType, PopStacks, PopNames
<1>4. NotWait(c) /\ NotJoin(c) /\ NotLock(c)
  BY <1>1, Alone, NotCoros DEF IInv
<1>5. queue[q].waiter = None /\ queue[q].exec # NoExec
  BY <1>0, <1>1, <1>2, <1>4, NoWaiter, PopBound
<1> DEFINE s == On("resume", q, t)
<1>6. s \in Stack /\ s # <<>> /\ StackOf(c, s) /\ Head(s).at = "resume" /\ Head(s) = Frame("resume", q)
  BY <1>0, <1>3, OnFacts
<1>7. Inner(c).on = q /\ <<Frame("resume", Inner(c).on)>> \o Outer(c) = s
  BY <1>0, <1>2, <1>3, StepGoto
<1>8. /\ queue' = [queue EXCEPT ![q].waiter = c] /\ running' = [running EXCEPT ![e] = None]
      /\ frames' = [frames EXCEPT ![c] = s]
      /\ runq' = runq /\ inbound' = inbound /\ hand' = hand /\ got' = got
      /\ active' = active /\ join_waiter' = join_waiter
  BY <1>7 DEF await_suspend, Goto, suspend, groupVars
<1>9. /\ watcher' = watcher /\ send_locked' = send_locked /\ send_lock_waiters' = send_lock_waiters
      /\ timers' = timers /\ rr' = rr /\ chunks' = chunks /\ clients' = clients /\ it' = it
  BY DEF tcpVars, streamVars, roomVars
<1> HIDE DEF s
<1>10. /\ queue'[q].waiter = c /\ \A r \in Queues : r # q => queue'[r].waiter = queue[r].waiter
       /\ \A r \in Queues : /\ queue'[r].q = queue[r].q /\ queue'[r].exec = queue[r].exec
                            /\ queue'[r].closed = queue[r].closed
       /\ queue' \in [Queues -> [q : Seq(Values), closed : BOOLEAN, exec : Execs \cup {NoExec},
                           waiter : Coros \cup {None}]]
  <2>1. queue \in [Queues -> [q : Seq(Values), closed : BOOLEAN, exec : Execs \cup {NoExec},
                           waiter : Coros \cup {None}]]
    BY DEF IInv, Typed
  <2> QED
    BY <1>1, <1>3, <1>8, <2>1
<1>11. /\ running' \in [Execs -> Coros \cup {None}] /\ running'[e] = None
       /\ \A x \in Execs : x # e => running'[x] = running[x]
  BY <1>8 DEF IInv, Typed
<1>12. frames' \in [Coros -> Stack]
  BY <1>1, <1>6, <1>8 DEF IInv, Typed
<1>13. Typed'
  BY <1>8, <1>9, <1>10, <1>11, <1>12, QueueNames DEF IInv, Typed
<1>14. ASSUME NEW d \in Coros PROVE Places(d)' = Places(d)
  <2>1. /\ Numbers(d) /\ Numbers(d)'
        /\ Places(d) = RunN(d) + HandN(d) + WaitN(d) + JoinN(d) + TimeN(d) + RunqN(d) + InbN(d) + LockN(d)
        /\ Places(d)' = RunN(d)' + HandN(d)' + WaitN(d)' + JoinN(d)' + TimeN(d)' + RunqN(d)' + InbN(d)' + LockN(d)'
    BY <1>13, PlacesAll DEF IInv, Typed, Queued
  <2>2. RunN(d)' = RunN(d) - One(running[e] = d) + One(running'[e] = d)
    BY <1>11, RunSet
  <2>3. WaitN(d)' = WaitN(d) - One(queue[q].waiter = d) + One(queue'[q].waiter = d)
    BY <1>3, <1>10, WaitSet
  <2>4. /\ HandN(d)' = HandN(d) /\ JoinN(d)' = JoinN(d) /\ RunqN(d)' = RunqN(d)
        /\ TimeN(d)' = TimeN(d) /\ InbN(d)' = InbN(d) /\ LockN(d)' = LockN(d)
    BY <1>8, <1>9, PartsSame
  <2>5. One(running[e] = d) = One(c = d) /\ One(running'[e] = d) = 0 /\ One(queue[q].waiter = d) = 0
        /\ One(queue'[q].waiter = d) = One(c = d) /\ One(c = d) \in {0, 1}
    BY <1>1, <1>5, <1>10, <1>11, NotCoros DEF One
  <2> QED
    BY <2>1, <2>2, <2>3, <2>4, <2>5 DEF Numbers
<1>15. WaitsMove(c, s)
  BY <1>3, <1>5, <1>6, <1>8, <1>9, <1>10 DEF WaitsMove
<1>16. Ticketed'
  <2>1. Queued /\ Queued' /\ queue[accepted].q \in Seq(Streams) /\ TokensStay
    BY <1>8, <1>13, TokensSame DEF IInv, Typed, Queued
  <2>2. queue'[accepted].q = queue[accepted].q
    BY <1>10, QueueNames
  <2>3. \A k \in Clients : Tickets(k)' = Tickets(k)
    BY <1>8, <2>1, <2>2, TicketsSame
  <2> QED
    BY <1>9, <2>3, TicketedStays DEF IInv
<1>17. \A k \in Clients, x \in Execs : Cleaning(x, k)' <=> Cleaning(x, k)
  BY <1>8 DEF Cleaning
<1>18. ASSUME c # Room PROVE IInv'
  <2>1. Locks'
    <3>1. frames'[c] = s /\ \A d \in Coros : d # c => frames'[d] = frames[d]
      BY <1>1, <1>8 DEF IInv, Typed
    <3>2. ASSUME NEW k \in Clients PROVE (Sends(s, k) => Owner(c, k)) /\ Head(s) # Frame("locked", k)
      <4>1. Sends(On("resume", q, t), k) <=> Sends(t, k)
        BY <1>0, <1>3, SendsOn
      <4>2. Sends(On("suspend", q, t), k) <=> Sends(t, k)
        BY <1>0, <1>3, SendsOn
      <4>3. Frame("locked", k).at = "locked"
        BY FrameFacts
      <4> QED
        BY <1>2, <1>6, <4>1, <4>2, <4>3, SendingIsSends DEF s, Owner
    <3> QED
      BY <1>1, <1>9, <3>1, <3>2, LocksMove
  <2>2. RoomServed
    <3>1. queue'[cmds] = queue[cmds]
      BY <1>3, <1>8, <1>18, QueueNames DEF IInv, Typed
    <3> QED
      BY <3>1 DEF RoomServed
  <2>3. c = Main => Head(s).at # "main" /\ queue'[accepted].exec # NoExec
    BY <1>3, <1>5, <1>6, <1>10
  <2> QED
    BY <1>1, <1>4, <1>6, <1>8, <1>9, <1>13, <1>14, <1>15, <1>16, <1>17, <1>18, <2>1, <2>2, <2>3, MovesOn
<1>19. ASSUME c = Room PROVE IInv'
  <2>1. q = cmds /\ t = On("command", 0, <<>>)
    BY <1>2, <1>19, PopRoom
  <2>2. frames'[Room] = s /\ frames[Room] = On("suspend", cmds, t)
    BY <1>1, <1>2, <1>8, <1>19, <2>1 DEF IInv, Typed
  <2>3. Head(frames'[Room]).at = "resume" /\ Head(frames[Room]).at = "suspend"
    BY <1>0, <1>3, <1>6, <2>1, <2>2, OnHead
  <2>4. RoomOK'
    <3>1. ~ queue'[cmds].closed /\ queue'[cmds].waiter = Room
      BY <1>10, <1>19, <2>1, QueueNames DEF IInv, RoomOK
    <3> QED
      BY <2>3, <3>1 DEF RoomOK, RoomAt, Inner
  <2>5. \A k \in Clients : k \in Alive => k \in Alive'
    <3>1. /\ ~ RoomAt({"command", "cast", "pushed"}) /\ ~ RoomAt({"pushed"})
          /\ \A k \in Clients : frames'[session(k)] = frames[session(k)]
      BY <1>8, <1>19, <2>3, CoroNames DEF RoomAt, Inner, IInv, Typed
    <3>2. queue'[cmds].q = queue[cmds].q
      BY <1>10, QueueNames
    <3> QED
      BY <3>1, <3>2 DEF Alive, InJoin, Pinned, InSession
  <2>6. \A k \in Clients : watcher[k] = "none" =>
           ~ Among(queue'[cmds].q, <<"join", k>>) /\ got'[Room] # <<"join", k>> /\ ~ Among(clients', k)
    BY <1>8, <1>9, <1>10, QueueNames DEF IInv, Known
  <2> QED
    BY <1>1, <1>4, <1>6, <1>8, <1>9, <1>13, <1>14, <1>15, <1>16, <1>17, <1>19, <2>4, <2>5, <2>6, RoomMoves
<1> QED
  BY <1>18, <1>19

----------------------------------------------------------------------------
(* A chain that goes on from pop(), with what is in the queue or nothing. *)

\* The first element g of s, if any, is taken, and u is left.
FirstOf(s, u, g) == \/ s = <<>> /\ u = <<>> /\ g = None
                    \/ s # <<>> /\ u = Tail(s) /\ g = Head(s)

\* What pop() takes from queue q, and what it leaves.
Popped(c, q) ==
  /\ \A r \in Queues : /\ queue'[r].waiter = queue[r].waiter /\ queue'[r].exec = queue[r].exec
                       /\ queue'[r].closed = queue[r].closed
                       /\ r # q => queue'[r] = queue[r]
  /\ \A d \in Coros : d # c => got'[d] = got[d]
  /\ FirstOf(queue[q].q, queue'[q].q, got'[c])

\* What await_resume takes from the queue;
LEMMA PoppedIs ==
  ASSUME Typed, NEW c \in Coros, NEW q \in Queues,
         IF queue[q].q = <<>> THEN got' = [got EXCEPT ![c] = None] /\ UNCHANGED queue
           ELSE /\ got' = [got EXCEPT ![c] = Head(queue[q].q)]
                /\ queue' = [queue EXCEPT ![q].q = Tail(@)]
  PROVE  /\ Popped(c, q) /\ got' = [d \in Coros |-> got'[d]]
         /\ queue' \in [Queues -> [q : Seq(Values), closed : BOOLEAN, exec : Execs \cup {NoExec},
                           waiter : Coros \cup {None}]]
<1>1. /\ queue \in [Queues -> [q : Seq(Values), closed : BOOLEAN, exec : Execs \cup {NoExec},
                           waiter : Coros \cup {None}]]
      /\ got = [d \in Coros |-> got[d]]
  BY DEF Typed
<1>2. CASE queue[q].q = <<>>
  BY <1>1, <1>2 DEF Popped, FirstOf
<1>3. CASE queue[q].q # <<>>
  <2>1. queue[q].q \in Seq(Values)
    BY <1>1
  <2>2. Tail(queue[q].q) \in Seq(Values)
    BY <1>3, <2>1
  <2>3. /\ queue' \in [Queues -> [q : Seq(Values), closed : BOOLEAN, exec : Execs \cup {NoExec},
                           waiter : Coros \cup {None}]]
        /\ \A r \in Queues : /\ queue'[r].waiter = queue[r].waiter /\ queue'[r].exec = queue[r].exec
                             /\ queue'[r].closed = queue[r].closed
                             /\ r # q => queue'[r] = queue[r]
        /\ queue'[q].q = Tail(queue[q].q)
    <3> DEFINE v == Tail(queue[q].q)
    <3>1. queue' = [queue EXCEPT ![q].q = v] /\ v \in Seq(Values)
      BY <1>3, <2>2
    <3> HIDE DEF v
    <3>2. /\ queue' \in [Queues -> [q : Seq(Values), closed : BOOLEAN, exec : Execs \cup {NoExec},
                           waiter : Coros \cup {None}]]
          /\ \A r \in Queues : /\ queue'[r].waiter = queue[r].waiter /\ queue'[r].exec = queue[r].exec
                               /\ queue'[r].closed = queue[r].closed
                               /\ r # q => queue'[r] = queue[r]
          /\ queue'[q].q = v
      BY <1>1, <3>1
    <3> QED
      BY <3>2 DEF v
  <2>4. got'[c] = Head(queue[q].q) /\ got' = [d \in Coros |-> got'[d]] /\ \A d \in Coros : d # c => got'[d] = got[d]
    <3> DEFINE v == Head(queue[q].q)
    <3>1. got' = [got EXCEPT ![c] = v]
      BY <1>3
    <3> HIDE DEF v
    <3>2. DOMAIN got = Coros
      BY <1>1
    <3>3. got'[c] = v /\ DOMAIN got' = Coros /\ \A d \in Coros : d # c => got'[d] = got[d]
      BY <3>1, <3>2
    <3>4. got' = [d \in Coros |-> got'[d]]
      BY <3>1, <3>2
    <3> QED
      BY <3>3, <3>4 DEF v
  <2> QED
    BY <1>3, <2>3, <2>4 DEF Popped, FirstOf
<1> QED
  BY <1>2, <1>3

\* The elements of a queue of one type.
LEMMA FirstOut ==
  ASSUME NEW X, NEW s \in Seq(X), NEW u, NEW g, FirstOf(s, u, g), NEW t, t # None
  PROVE  /\ u \in Seq(X) /\ (g = None \/ g \in X) /\ (s # <<>> => g \in X)
         /\ Among(u, t) => Among(s, t)
         /\ Among(s, t) => Among(u, t) \/ g = t
         /\ g = t => Among(s, t)
         /\ Occurs(u, t) + One(g = t) = Occurs(s, t)
<1>1. CASE s = <<>> /\ u = <<>> /\ g = None
  <2>1. ~ Among(<<>>, t) /\ Occurs(<<>>, t) = 0 /\ <<>> \in Seq(X)
    BY OccursNone DEF Among
  <2>2. One(g = t) = 0
    BY <1>1 DEF One
  <2>3. Occurs(s, t) = 0 /\ Occurs(u, t) = 0 /\ ~ Among(s, t) /\ ~ Among(u, t)
    BY <1>1, <2>1, Zenon
  <2>4. Occurs(u, t) + One(g = t) = Occurs(s, t)
    BY <2>2, <2>3
  <2> QED
    BY <1>1, <2>1, <2>3, <2>4
<1>2. CASE s # <<>> /\ u = Tail(s) /\ g = Head(s)
  <2>1. u \in Seq(X) /\ g \in X
    BY <1>2, OccursTail
  <2>2. Occurs(u, t) = Occurs(s, t) - One(g = t)
    BY <1>2, OccursTail
  <2>3. Occurs(s, t) \in Nat /\ One(g = t) \in Nat
    BY OccursFacts DEF One
  <2>4. /\ Among(u, t) => Among(s, t)
        /\ g # t => (Among(s, t) => Among(u, t))
        /\ g = t => Among(s, t)
    BY <1>2, AmongTail
  <2>5. Occurs(u, t) + One(g = t) = Occurs(s, t)
    BY <2>2, <2>3
  <2> QED
    BY <2>1, <2>4, <2>5
<1> QED
  BY <1>1, <1>2 DEF FirstOf

\* The parts of Tickets.
LEMMA TicketsParts ==
  \A k : /\ Tickets(k) = Occurs(queue[accepted].q, <<"stream", k>>) + One(got[Main] = <<"stream", k>>)
                           + RunqN(<<"start", k>>) + InbN(<<"start", k>>)
         /\ Tickets(k)' = Occurs(queue'[accepted].q, <<"stream", k>>) + One(got'[Main] = <<"stream", k>>)
                           + RunqN(<<"start", k>>)' + InbN(<<"start", k>>)'
  BY DEF Tickets, RunqN, InbN, Occurs, Slots

\* A client that has no ticket gets none.
LEMMA TicketedLess ==
  ASSUME Ticketed,
         \A k \in Clients : /\ Tickets(k) \in Nat /\ Tickets(k)' \in Nat /\ Tickets(k)' <= Tickets(k)
                            /\ watcher'[k] = "none" <=> watcher[k] = "none"
                            /\ chunks'[k] = -1 => chunks[k] = -1
  PROVE  Ticketed'
<1>1. ASSUME NEW k \in Clients
      PROVE  /\ Tickets(k)' <= 1
             /\ watcher'[k] # "none" => Tickets(k)' = 0
             /\ chunks'[k] = -1 => watcher'[k] = "none" /\ Tickets(k)' = 0
  BY DEF Ticketed
<1> QED
  BY <1>1 DEF Ticketed

\* a ticket is taken out of the queue of accepted streams into the hands of main.
LEMMA PoppedTickets ==
  ASSUME IInv, Typed', NEW c \in Coros, NEW q \in Queues, Popped(c, q), c = Main <=> q = accepted,
         runq' = runq, inbound' = inbound, watcher' = watcher, chunks' = chunks
  PROVE  Ticketed'
<1>1. Queued /\ Queued' /\ queue[accepted].q \in Seq(Streams)
  BY DEF IInv, Typed, Queued
<1>2. CASE c # Main
  <2>1. TokensStay
    BY TokensSame
  <2>2. queue'[accepted].q = queue[accepted].q /\ got'[Main] = got[Main]
    BY <1>2, QueueNames, CoroNames DEF Popped
  <2>3. \A k \in Clients : Tickets(k)' = Tickets(k)
    BY <1>1, <2>1, <2>2, TicketsSame
  <2> QED
    BY <2>3, TicketedStays DEF IInv
<1>3. CASE c = Main
  <2>1. ASSUME NEW k \in Clients
        PROVE  Tickets(k) \in Nat /\ Tickets(k)' \in Nat /\ Tickets(k)' <= Tickets(k)
    <3> DEFINE t == <<"stream", k>>
               u == <<"start", k>>
    <3>1. t # None
      BY DEF None
    <3> HIDE DEF t, u
    <3>2. Occurs(queue'[accepted].q, t) + One(got'[Main] = t) = Occurs(queue[accepted].q, t)
      <4> DEFINE s == queue[accepted].q
                 w == queue'[accepted].q
                 g == got'[Main]
      <4>1. s \in Seq(Streams) /\ FirstOf(s, w, g)
        BY <1>1, <1>3 DEF Popped
      <4> HIDE DEF s, w, g
      <4>2. Occurs(w, t) + One(g = t) = Occurs(s, t)
        BY <3>1, <4>1, FirstOut
      <4> QED
        BY <4>2 DEF s, w, g
    <3>3. /\ Tickets(k) = Occurs(queue[accepted].q, t) + One(got[Main] = t) + RunqN(u) + InbN(u)
          /\ Tickets(k)' = Occurs(queue'[accepted].q, t) + One(got'[Main] = t) + RunqN(u)' + InbN(u)'
      BY TicketsParts DEF t, u
    <3>4. RunqN(u)' = RunqN(u) /\ InbN(u)' = InbN(u) /\ RunqN(u) \in Nat /\ InbN(u) \in Nat
      BY <1>1, PartsSame, RunqSome, InbSome DEF Queued
    <3>5. Occurs(queue[accepted].q, t) \in Nat /\ One(got[Main] = t) \in Nat
          /\ Occurs(queue'[accepted].q, t) \in Nat /\ One(got'[Main] = t) \in Nat
      <4>1. queue'[accepted].q \in Seq(Streams)
        BY DEF Typed
      <4> QED
        BY <1>1, <4>1, OccursFacts DEF One
    <3> QED
      BY <3>2, <3>3, <3>4, <3>5
  <2> QED
    BY <2>1, TicketedLess DEF IInv
<1> QED
  BY <1>2, <1>3

----------------------------------------------------------------------------
(* A chain that returns from pop(). *)

\* What is in a queue of one type goes to who pops it.
LEMMA FirstType ==
  ASSUME NEW X, NEW s \in Seq(X), NEW u, NEW g, FirstOf(s, u, g)
  PROVE  u \in Seq(X) /\ (g = None \/ g \in X) /\ (s # <<>> => g \in X)
<1>1. s # <<>> => Head(s) \in X /\ Tail(s) \in Seq(X)
  OBVIOUS
<1>2. <<>> \in Seq(X)
  OBVIOUS
<1> QED
  BY <1>1, <1>2 DEF FirstOf

\* The elements of a sequence, its head taken away.
LEMMA FirstAmong ==
  ASSUME NEW X, NEW s \in Seq(X), NEW u, NEW g, FirstOf(s, u, g), NEW t, t # None
  PROVE  /\ Among(u, t) => Among(s, t)
         /\ Among(s, t) => Among(u, t) \/ g = t
         /\ g = t => Among(s, t)
  BY FirstOut

\* A command and a stream are not None.
LEMMA TokenIsSome == /\ \A k : <<"join", k>> # None /\ <<"stream", k>> # None
                     /\ None \notin Streams /\ None \notin Commands
  BY DEF None, Streams, Commands

\* await_resume of pop() keeps the invariant.
LEMMA await_resumeKeeps ==
  ASSUME IInv, NEW e \in Execs, NEW c, c # None, await_resume(e, c), UNCHANGED <<tcpVars, roomVars>>
  PROVE  IInv'
<1>0. At(e, c, "resume") /\ "resume" \in Popping /\ "resume" \in Labels
  BY DEF await_resume, Popping, Labels
<1>1. /\ c \in Coros /\ running[e] = c /\ frames[c] # <<>> /\ Where(c, "resume", frames[c])
  BY <1>0, Here
<1>2. PICK q, t : PopOf(c, q, t) /\ frames[c] = On("resume", q, t)
  BY <1>0, <1>1, WherePop
<1>3. /\ q \in Queues /\ q \in Subjects /\ t \in Stack /\ t # <<>>
      /\ StackOf(c, t)
      /\ c = Room <=> q = cmds
      /\ c = Main <=> q = accepted
  BY <1>2, PopType, PopStacks, PopNames
<1>4. NotWait(c) /\ NotJoin(c) /\ NotLock(c)
  BY <1>1, Alone, NotCoros DEF IInv
<1>5. queue[q].exec # NoExec
  BY <1>0, <1>1, <1>2, PopBound
<1>6. Head(t).at \in {"return", "command", "writer got", "send ready"}
  BY <1>2, PopAt
<1>7. Inner(c).on = q /\ Tail(frames[c]) = t
  BY <1>0, <1>2, <1>3, StepFinal
<1>8. /\ running' = running /\ runq' = runq /\ inbound' = inbound /\ hand' = hand
      /\ active' = active /\ join_waiter' = join_waiter
      /\ frames' = [frames EXCEPT ![c] = t]
      /\ IF queue[q].q = <<>> THEN got' = [got EXCEPT ![c] = None] /\ UNCHANGED queue
           ELSE /\ got' = [got EXCEPT ![c] = Head(queue[q].q)]
                /\ queue' = [queue EXCEPT ![q].q = Tail(@)]
  BY <1>7 DEF await_resume, execVars, groupVars
<1>9. /\ watcher' = watcher /\ send_locked' = send_locked /\ send_lock_waiters' = send_lock_waiters
      /\ timers' = timers /\ rr' = rr /\ chunks' = chunks /\ clients' = clients /\ it' = it
  BY DEF tcpVars, streamVars, roomVars
<1>10. /\ Popped(c, q) /\ got' = [d \in Coros |-> got'[d]]
       /\ queue' \in [Queues -> [q : Seq(Values), closed : BOOLEAN, exec : Execs \cup {NoExec},
                           waiter : Coros \cup {None}]]
  BY <1>1, <1>3, <1>8, PoppedIs DEF IInv
<1>11. /\ \A r \in Queues : /\ queue'[r].waiter = queue[r].waiter /\ queue'[r].exec = queue[r].exec
                            /\ queue'[r].closed = queue[r].closed
                            /\ r # q => queue'[r] = queue[r]
       /\ \A d \in Coros : d # c => got'[d] = got[d]
  BY <1>10 DEF Popped
<1>12. frames' \in [Coros -> Stack] /\ frames'[c] = t /\ \A d \in Coros : d # c => frames'[d] = frames[d]
  BY <1>1, <1>3, <1>8 DEF IInv, Typed
<1>13. queue'[accepted].q \in Seq(Streams) /\ got'[Main] \in Streams \cup {None}
  <2>1. queue[accepted].q \in Seq(Streams) /\ got[Main] \in Streams \cup {None}
    BY DEF IInv, Typed
  <2>2. CASE c = Main
    <3> DEFINE s == queue[accepted].q
               u == queue'[accepted].q
               g == got'[Main]
    <3>1. FirstOf(s, u, g) /\ s \in Seq(Streams)
      BY <1>3, <1>10, <2>1, <2>2 DEF Popped
    <3> HIDE DEF s, u, g
    <3>2. u \in Seq(Streams) /\ (g = None \/ g \in Streams)
      BY <3>1, FirstType
    <3> QED
      BY <3>2 DEF u, g
  <2>3. CASE c # Main
    BY <1>3, <1>11, <2>1, <2>3, QueueNames, CoroNames
  <2> QED
    BY <2>2, <2>3
<1>14. queue'[cmds].q \in Seq(Commands) /\ got'[Room] \in Commands \cup {None}
  <2>1. queue[cmds].q \in Seq(Commands) /\ got[Room] \in Commands \cup {None}
    BY DEF IInv, Typed
  <2>2. CASE c = Room
    <3> DEFINE s == queue[cmds].q
               u == queue'[cmds].q
               g == got'[Room]
    <3>1. FirstOf(s, u, g) /\ s \in Seq(Commands)
      BY <1>3, <1>10, <2>1, <2>2 DEF Popped
    <3> HIDE DEF s, u, g
    <3>2. u \in Seq(Commands) /\ (g = None \/ g \in Commands)
      BY <3>1, FirstType
    <3> QED
      BY <3>2 DEF u, g
  <2>3. CASE c # Room
    BY <1>3, <1>11, <2>1, <2>3, QueueNames, CoroNames
  <2> QED
    BY <2>2, <2>3
<1>15. Typed'
  BY <1>8, <1>9, <1>10, <1>12, <1>13, <1>14 DEF IInv, Typed
<1>16. ASSUME NEW d \in Coros PROVE Places(d)' = Places(d)
  <2>1. /\ Numbers(d) /\ Numbers(d)'
        /\ Places(d) = RunN(d) + HandN(d) + WaitN(d) + JoinN(d) + TimeN(d) + RunqN(d) + InbN(d) + LockN(d)
        /\ Places(d)' = RunN(d)' + HandN(d)' + WaitN(d)' + JoinN(d)' + TimeN(d)' + RunqN(d)' + InbN(d)' + LockN(d)'
    BY <1>15, PlacesAll DEF IInv, Typed, Queued
  <2>2. /\ RunN(d)' = RunN(d) /\ WaitN(d)' = WaitN(d)
        /\ HandN(d)' = HandN(d) /\ JoinN(d)' = JoinN(d) /\ RunqN(d)' = RunqN(d)
        /\ TimeN(d)' = TimeN(d) /\ InbN(d)' = InbN(d) /\ LockN(d)' = LockN(d)
    BY <1>8, <1>9, <1>11, PartsSame
  <2> QED
    BY <2>1, <2>2
<1>17. WaitsMove(c, t)
  BY <1>8, <1>9, <1>11 DEF WaitsMove
<1>18. Ticketed'
  BY <1>1, <1>3, <1>8, <1>9, <1>10, <1>15, PoppedTickets
<1>19. \A k \in Clients, x \in Execs : Cleaning(x, k)' <=> Cleaning(x, k)
  BY <1>8 DEF Cleaning
<1>20. ASSUME c # Room PROVE IInv'
  <2>1. Locks'
    <3>2. ASSUME NEW k \in Clients PROVE (Sends(t, k) => Owner(c, k)) /\ Head(t) # Frame("locked", k)
      <4>1. Sends(On("resume", q, t), k) <=> Sends(t, k)
        BY <1>0, <1>3, SendsOn
      <4>2. Frame("locked", k).at = "locked"
        BY FrameFacts
      <4> QED
        BY <1>2, <1>6, <4>1, <4>2, SendingIsSends DEF Owner
    <3> QED
      BY <1>1, <1>9, <1>12, <3>2, LocksMove
  <2>2. RoomServed
    <3>1. queue'[cmds] = queue[cmds]
      BY <1>3, <1>11, <1>20, QueueNames
    <3> QED
      BY <3>1 DEF RoomServed
  <2>3. c = Main => Head(t).at # "main" /\ queue'[accepted].exec # NoExec
    BY <1>3, <1>5, <1>6, <1>11
  <2>4. got'[Room] = got[Room]
    BY <1>11, <1>20, CoroNames
  <2> QED
    BY <1>1, <1>3, <1>4, <1>6, <1>8, <1>9, <1>15, <1>16, <1>17, <1>18, <1>19, <1>20, <2>1, <2>2, <2>3, <2>4, MovesOn
<1>21. ASSUME c = Room PROVE IInv'
  <2>1. q = cmds /\ t = On("command", 0, <<>>) /\ StackOf(Room, t)
    BY <1>2, <1>3, <1>21, PopRoom
  <2>2. Head(t).at = "command" /\ Head(frames[Room]) = Frame("resume", cmds) /\ Head(frames[Room]).at = "resume"
    <3>1. "command" \in Labels /\ 0 \in Subjects /\ <<>> \in Stack
      BY Rests, SubjectFacts DEF Labels
    <3>2. frames[Room] = On("resume", cmds, t)
      BY <1>2, <1>21, <2>1
    <3>3. Head(t).at = "command"
      BY <1>3, <2>1, <3>1, OnHead
    <3>4. /\ Head(On("resume", cmds, t)) = Frame("resume", cmds)
          /\ Head(On("resume", cmds, t)).at = "resume"
      BY <1>0, <1>3, SubjectFacts, OnFacts
    <3> QED
      BY <3>2, <3>3, <3>4
  <2>3. queue[cmds].q \in Seq(Commands) /\ queue[cmds].q # <<>>
    <3>1. queue[cmds].waiter # Room
      BY <1>4, <1>21, QueueNames DEF NotWait
    <3>2. HeadIs(Room, Frame("resume", cmds))
      BY <1>1, <1>21, <2>2 DEF HeadIs
    <3>3. queue[cmds].q # <<>>
      BY <3>1, <3>2 DEF IInv, RoomOK
    <3> QED
      BY <3>3 DEF IInv, Typed
  <2>4. /\ got'[Room] \in Commands
        /\ \A k \in Clients :
             /\ Among(queue'[cmds].q, <<"join", k>>) => Among(queue[cmds].q, <<"join", k>>)
             /\ Among(queue[cmds].q, <<"join", k>>) => Among(queue'[cmds].q, <<"join", k>>) \/ got'[Room] = <<"join", k>>
             /\ got'[Room] = <<"join", k>> => Among(queue[cmds].q, <<"join", k>>)
    <3> DEFINE s == queue[cmds].q
               u == queue'[cmds].q
               g == got'[Room]
    <3>1. FirstOf(s, u, g) /\ s \in Seq(Commands) /\ s # <<>>
      BY <1>10, <1>21, <2>1, <2>3 DEF Popped
    <3> HIDE DEF s, u, g
    <3>2. g \in Commands
      BY <3>1, FirstType
    <3>3. ASSUME NEW k \in Clients
          PROVE  /\ Among(u, <<"join", k>>) => Among(s, <<"join", k>>)
                 /\ Among(s, <<"join", k>>) => Among(u, <<"join", k>>) \/ g = <<"join", k>>
                 /\ g = <<"join", k>> => Among(s, <<"join", k>>)
      <4> DEFINE v == <<"join", k>>
      <4>1. v # None
        BY TokenIsSome
      <4> HIDE DEF v
      <4>2. /\ Among(u, v) => Among(s, v)
            /\ Among(s, v) => Among(u, v) \/ g = v
            /\ g = v => Among(s, v)
        BY <3>1, <4>1, FirstAmong
      <4> QED
        BY <4>2 DEF v
    <3> QED
      BY <3>2, <3>3 DEF s, u, g
  <2>5. RoomOK'
    <3>1. ~ queue'[cmds].closed /\ got'[Room] # None
      BY <1>11, <2>4, QueueNames, TokenIsSome DEF IInv, RoomOK
    <3>2. frames'[Room] # <<>> /\ Head(frames'[Room]).at = "command" /\ Frame("resume", cmds).at = "resume"
      BY <1>12, <1>21, <1>3, <2>2, FrameFacts
    <3> QED
      BY <3>1, <3>2 DEF RoomOK, RoomAt, Inner, HeadIs
  <2>6. \A k \in Clients : k \in Alive => k \in Alive'
    <3>1. ~ RoomAt({"command", "cast", "pushed"}) /\ ~ RoomAt({"pushed"}) /\ RoomAt({"command", "cast", "pushed"})'
      BY <1>12, <1>21, <1>3, <2>2 DEF RoomAt, Inner
    <3>2. \A k \in Clients : frames'[session(k)] = frames[session(k)]
      BY <1>12, <1>21, CoroNames
    <3>3. ASSUME NEW k \in Clients, InJoin(k) PROVE InJoin(k)'
      <4>1. Among(queue[cmds].q, <<"join", k>>)
        BY <2>3, <3>1, <3>3, LenProperties DEF InJoin, Among
      <4>2. CASE Among(queue'[cmds].q, <<"join", k>>)
        <5>1. queue'[cmds].q \in Seq(Commands)
          BY <1>14
        <5>2. DOMAIN queue'[cmds].q = 1 .. Len(queue'[cmds].q)
          BY <5>1, LenProperties
        <5> QED
          BY <4>2, <5>2 DEF InJoin, Among
      <4>3. CASE got'[Room] = <<"join", k>>
        BY <3>1, <4>3 DEF InJoin
      <4> QED
        BY <2>4, <4>1, <4>2, <4>3
    <3> QED
      BY <3>1, <3>2, <3>3 DEF Alive, Pinned, InSession
  <2>7. \A k \in Clients : watcher[k] = "none" =>
           ~ Among(queue'[cmds].q, <<"join", k>>) /\ got'[Room] # <<"join", k>> /\ ~ Among(clients', k)
    BY <1>9, <2>4 DEF IInv, Known
  <2> QED
    BY <1>1, <1>3, <1>4, <1>8, <1>9, <1>15, <1>16, <1>17, <1>18, <1>19, <1>21, <2>1, <2>5, <2>6, <2>7, RoomMoves
<1> QED
  BY <1>20, <1>21

----------------------------------------------------------------------------
(* A task that returns to the one that awaits it. *)

\* A stack of two frames and more.
LEMMA TwoFrames ==
  ASSUME NEW l \in Labels, NEW x \in Subjects, NEW m \in Labels, NEW y \in Subjects, NEW t \in Stack,
         NEW s, s = On(l, x, On(m, y, t))
  PROVE  On(m, y, t) # <<>> /\ s # <<>> /\ Head(s).at = l /\ Tail(s) = On(m, y, t)
<1>1. On(m, y, t) \in Stack /\ On(m, y, t) # <<>>
  BY OnFacts
<1> DEFINE u == On(m, y, t)
<1>2. u \in Stack /\ s = On(l, x, u)
  BY <1>1
<1> HIDE DEF u
<1>3. s # <<>> /\ Head(s).at = l /\ Tail(s) = u
  BY <1>2, OnHead
<1> QED
  BY <1>1, <1>3 DEF u

\* A coroutine returns to its caller;
LEMMA ReturnsTo ==
  ASSUME IInv, NEW e \in Execs, NEW c \in Coros, running[e] = c, c # Room,
         NEW l \in Labels, NEW m \in Labels, NEW y \in Subjects, NEW t \in Stack,
         frames[c] # <<>>, Head(frames[c]).at = l, Tail(frames[c]) = On(m, y, t), On(m, y, t) # <<>>,
         StackOf(c, On(m, y, t)),
         final(e, c), UNCHANGED <<got, queue, groupVars, tcpVars, roomVars>>,
         m \notin {"send", "send ready", "locked", "main", "session", "session end", "joined"},
         \A k \in Clients : ~ Sends(t, k),
         c = Main => l \notin {"main", "listen"}
  PROVE  IInv'
<1>1. On(m, y, t) # <<>> /\ Outer(c) = On(m, y, t) /\ Tail(frames[c]) = On(m, y, t)
      /\ frames[c] # <<>> /\ Head(frames[c]).at = l
  BY DEF Outer
<1>4. frames' = [frames EXCEPT ![c] = On(m, y, t)]
  BY <1>1 DEF final
<1>5. GoesOn(e, c) /\ UNCHANGED <<queue, groupVars, watcher, send_locked, send_lock_waiters, timers, rr, chunks, roomVars>>
  BY <1>1 DEF tcpVars, streamVars, groupVars, GoesOn, final
<1>6. got' = [d \in Coros |-> got'[d]] /\ got'[Room] = got[Room] /\ got'[Main] = got[Main]
  BY DEF IInv, Typed
<1>7. c = Main => queue[accepted].exec # NoExec
  BY <1>1 DEF IInv, Bound
<1> QED
  BY <1>4, <1>5, <1>6, <1>7, WalkOn

LEMMA TwoTop ==
  \A l \in Labels, x \in Subjects, m \in Labels, y \in Subjects, t \in Stack : \A s :
    s = On(l, x, On(m, y, t)) => On(m, y, t) # <<>> /\ s # <<>> /\ Head(s).at = l /\ Tail(s) = On(m, y, t)
<1> SUFFICES ASSUME NEW l \in Labels, NEW x \in Subjects, NEW m \in Labels, NEW y \in Subjects, NEW t \in Stack,
                    NEW s, s = On(l, x, On(m, y, t))
             PROVE  On(m, y, t) # <<>> /\ s # <<>> /\ Head(s).at = l /\ Tail(s) = On(m, y, t)
  OBVIOUS
<1>1. On(m, y, t) \in Stack /\ On(m, y, t) # <<>>
  BY OnIs
<1> DEFINE u == On(m, y, t)
<1>2. u \in Stack /\ s = On(l, x, u)
  BY <1>1
<1> HIDE DEF u
<1>3. l \in Labels /\ x \in Subjects /\ u \in Stack
  BY <1>2
<1>4. On(l, x, u) # <<>>
  BY ONLY <1>3, OnIs
<1>5. Head(On(l, x, u)).at = l
  BY ONLY <1>3, OnAt
<1>6. Tail(On(l, x, u)) = u
  BY ONLY <1>3, OnParts
<1>7. s # <<>> /\ Head(s).at = l /\ Tail(s) = u
  BY ONLY <1>2, <1>4, <1>5, <1>6
<1> QED
  BY <1>1, <1>7 DEF u

\* as co_return does.
LEMMA ReturnsFrom ==
  ASSUME IInv, NEW e \in Execs, NEW c \in Coros, running[e] = c, c # Room,
         NEW m \in Labels, NEW x \in Subjects, NEW y \in Subjects, NEW t \in Stack,
         frames[c] = On("return", x, On(m, y, t)),
         StackOf(c, On(m, y, t)),
         final(e, c), UNCHANGED <<got, queue, groupVars, tcpVars, roomVars>>,
         m \notin {"send", "send ready", "locked", "main", "session", "session end", "joined"},
         \A k \in Clients : ~ Sends(t, k)
  PROVE  IInv'
<1> DEFINE l == "return"
<1>1. l \in Labels /\ l \notin {"main", "listen"}
  BY DEF Labels
<1>2. frames[c] = On(l, x, On(m, y, t))
  OBVIOUS
<1> HIDE DEF l
<1>3. On(m, y, t) # <<>> /\ frames[c] # <<>> /\ Head(frames[c]).at = l /\ Tail(frames[c]) = On(m, y, t)
  <2>1. /\ l \in Labels /\ x \in Subjects /\ m \in Labels /\ y \in Subjects /\ t \in Stack
    BY <1>1
  <2>2. frames[c] = On(l, x, On(m, y, t)) =>
          On(m, y, t) # <<>> /\ frames[c] # <<>> /\ Head(frames[c]).at = l /\ Tail(frames[c]) = On(m, y, t)
    BY ONLY <2>1, TwoTop
  <2> QED
    BY <1>2, <2>2
<1> QED
  BY <1>1, <1>3, ReturnsTo

\* The task that returns is recvSome(), sendAll() of a helper, sleepFor() or acceptStream_().
LEMMA returnKeeps ==
  ASSUME IInv, NEW e \in Execs, NEW c, c # None, return(e, c), UNCHANGED roomVars,
         c = Main => frames[c] # On("return", 0, <<>>)
  PROVE  IInv'
<1>1. /\ c \in Coros /\ running[e] = c /\ Where(c, "return", frames[c])
  BY Here DEF return
<1>2. final(e, c) /\ UNCHANGED <<got, queue, groupVars, tcpVars, roomVars>>
  BY DEF return
<1>4. CASE c = Main /\ frames[c] = On("return", 0, On("served", 0, On("return", 0, <<>>)))
  <2> DEFINE t == On("return", 0, <<>>)
  <2>0. "served" \in Labels
    BY DEF Labels
  <2>1. t \in Stack /\ 0 \in Subjects /\ \A k \in Clients : ~ Sends(t, k)
    BY Rests, SubjectFacts, QuietRests
  <2>2. StackOf(c, On("served", 0, t)) /\ c # Room /\ frames[c] = On("return", 0, On("served", 0, t))
    BY <1>4, NewMain, CoroNames
  <2> HIDE DEF t
  <2>3. "served" \notin {"send", "send ready", "locked", "main", "session", "session end", "joined"}
    OBVIOUS
  <2> DEFINE m == "served"
  <2> HIDE DEF m
  <2>4. m \in Labels /\ StackOf(c, On(m, 0, t)) /\ frames[c] = On("return", 0, On(m, 0, t)) /\ c # Room
        /\ m \notin {"send", "send ready", "locked", "main", "session", "session end", "joined"}
    BY <2>0, <2>2, <2>3 DEF m
  <2>5. t \in Stack /\ 0 \in Subjects /\ 0 \in Subjects /\ \A j \in Clients : ~ Sends(t, j)
    BY <2>1, SubjectFacts
  <2>6. c \in Coros /\ running[e] = c
    BY <1>1
  <2> QED
    BY <1>2, <2>4, <2>5, <2>6, ReturnsFrom
<1>5. ASSUME NEW k \in Clients, c = session(k), frames[c] = On("return", k, On("received", k, <<>>))
      PROVE  IInv'
  <2> DEFINE t == <<>>
  <2>0. "received" \in Labels
    BY DEF Labels
  <2>1. t \in Stack /\ k \in Subjects /\ \A j \in Clients : ~ Sends(t, j)
    BY Rests, SubjectFacts, QuietRests
  <2>2. StackOf(c, On("received", k, t)) /\ c # Room /\ c # Main /\ frames[c] = On("return", k, On("received", k, t))
    BY <1>5, NewSession, CoroNames DEF SessionAlone
  <2> HIDE DEF t
  <2>3. "received" \notin {"send", "send ready", "locked", "main", "session", "session end", "joined"}
    OBVIOUS
  <2> DEFINE m == "received"
  <2> HIDE DEF m
  <2>4. m \in Labels /\ StackOf(c, On(m, k, t)) /\ frames[c] = On("return", k, On(m, k, t)) /\ c # Room
        /\ m \notin {"send", "send ready", "locked", "main", "session", "session end", "joined"}
    BY <2>0, <2>2, <2>3 DEF m
  <2>5. t \in Stack /\ k \in Subjects /\ k \in Subjects /\ \A j \in Clients : ~ Sends(t, j)
    BY <2>1, SubjectFacts
  <2>6. c \in Coros /\ running[e] = c
    BY <1>1
  <2> QED
    BY <1>2, <2>4, <2>5, <2>6, ReturnsFrom
<1>6. ASSUME NEW k \in Clients, c = helper(k), frames[c] = On("return", k, On("child done", k, <<>>))
      PROVE  IInv'
  <2> DEFINE t == <<>>
  <2>0. "child done" \in Labels
    BY DEF Labels
  <2>1. t \in Stack /\ k \in Subjects /\ \A j \in Clients : ~ Sends(t, j)
    BY Rests, SubjectFacts, QuietRests
  <2>2. StackOf(c, On("child done", k, t)) /\ c # Room /\ c # Main /\ frames[c] = On("return", k, On("child done", k, t))
    BY <1>6, NewHelper, CoroNames
  <2> HIDE DEF t
  <2>3. "child done" \notin {"send", "send ready", "locked", "main", "session", "session end", "joined"}
    OBVIOUS
  <2> DEFINE m == "child done"
  <2> HIDE DEF m
  <2>4. m \in Labels /\ StackOf(c, On(m, k, t)) /\ frames[c] = On("return", k, On(m, k, t)) /\ c # Room
        /\ m \notin {"send", "send ready", "locked", "main", "session", "session end", "joined"}
    BY <2>0, <2>2, <2>3 DEF m
  <2>5. t \in Stack /\ k \in Subjects /\ k \in Subjects /\ \A j \in Clients : ~ Sends(t, j)
    BY <2>1, SubjectFacts
  <2>6. c \in Coros /\ running[e] = c
    BY <1>1
  <2> QED
    BY <1>2, <2>4, <2>5, <2>6, ReturnsFrom
<1>7. ASSUME NEW k \in Clients, c = helper(k), frames[c] = On("return", 0, On("slept", k, On("child done", k, <<>>)))
      PROVE  IInv'
  <2> DEFINE t == On("child done", k, <<>>)
  <2>0. "slept" \in Labels
    BY DEF Labels
  <2>1. t \in Stack /\ k \in Subjects /\ 0 \in Subjects /\ \A j \in Clients : ~ Sends(t, j)
    BY Rests, SubjectFacts, QuietRests
  <2>2. StackOf(c, On("slept", k, t)) /\ c # Room /\ c # Main /\ frames[c] = On("return", 0, On("slept", k, t))
    BY <1>7, NewHelper, CoroNames
  <2> HIDE DEF t
  <2>3. "slept" \notin {"send", "send ready", "locked", "main", "session", "session end", "joined"}
    OBVIOUS
  <2> DEFINE m == "slept"
  <2> HIDE DEF m
  <2>4. m \in Labels /\ StackOf(c, On(m, k, t)) /\ frames[c] = On("return", 0, On(m, k, t)) /\ c # Room
        /\ m \notin {"send", "send ready", "locked", "main", "session", "session end", "joined"}
    BY <2>0, <2>2, <2>3 DEF m
  <2>5. t \in Stack /\ k \in Subjects /\ 0 \in Subjects /\ \A j \in Clients : ~ Sends(t, j)
    BY <2>1, SubjectFacts
  <2>6. c \in Coros /\ running[e] = c
    BY <1>1
  <2> QED
    BY <1>2, <2>4, <2>5, <2>6, ReturnsFrom
<1> QED
  BY <1>1, <1>4, <1>5, <1>6, <1>7 DEF Where
=============================================================================
