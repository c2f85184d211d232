--------------------------- MODULE EventCore_proofs ---------------------------
(***************************************************************************)
(* Lemmas about the operators of EventCore: what a sequence of changes     *)
(* makes of the sources, and of what a backend registers for them; and     *)
(* about the stack.                                                        *)
(***************************************************************************)
EXTENDS EventCore, SequenceTheorems, WellFoundedInduction, NaturalsInduction, TLAPS

\* Induction over the natural numbers.
LEMMA NatSteps ==
  ASSUME NEW S, 0 \in S, \A n \in Nat : n \in S => n + 1 \in S
  PROVE  Nat \subseteq S
<1> DEFINE R == OpToRel(<, Nat)
           T == Nat \ S
<1> SUFFICES ASSUME T # {} PROVE FALSE
  OBVIOUS
<1>1. IsWellFoundedOn(R, Nat)
  BY NatLessThanWellFounded
<1>2. PICK x \in T : \A y \in T : <<y, x>> \notin R
  <2>1. T \subseteq Nat
    OBVIOUS
  <2> HIDE DEF R, T
  <2> QED
    BY <1>1, <2>1, WFMin
<1>3. x \in Nat \ {0} /\ x - 1 \in Nat /\ x - 1 < x /\ (x - 1) + 1 = x
  <2>1. x \in Nat /\ x # 0
    OBVIOUS
  <2> HIDE DEF R, T
  <2> QED
    BY <2>1
<1>4. x - 1 \in T
  <2> HIDE DEF R
  <2> QED
    BY <1>3
<1>6. R = {ss \in Nat \X Nat : ss[1] < ss[2]}
  BY DEF OpToRel
<1>5. <<x - 1, x>> \in R
  <2> HIDE DEF R
  <2> QED
  BY <1>6, <1>3, <1>4
<1> QED
  BY <1>2, <1>4, <1>5

\* ApplyOps() makes the changes one after the other.
LEMMA ApplySteps ==
  ASSUME NEW r, NEW ops, NEW Ops, ops \in Seq(Ops)
  PROVE  \E g : /\ g[0] = r
                /\ \A i \in 1 .. Len(ops) : g[i] = ApplyOp(g[i - 1], ops[i])
                /\ ApplyOps(r, ops) = g[Len(ops)]
<1> DEFINE Body(it, s) == IF s = {} THEN r ELSE ApplyOp(it[s \ {Max(s)}], ops[Max(s)])
           Folds(n, it) == it = [s \in SUBSET (1 .. n) |-> Body(it, s)]
           Has == {n \in Nat : \E it : Folds(n, it)}
<1>1. ASSUME NEW a, NEW op
      PROVE  (CHOOSE x \in {ApplyOp(b, op) : b \in {a}} : TRUE) = ApplyOp(a, op)
  <2>1. {ApplyOp(b, op) : b \in {a}} = {ApplyOp(a, op)}
    OBVIOUS
  <2>2. \A y : (CHOOSE x \in {y} : TRUE) = y
    OBVIOUS
  <2> QED
    BY <2>1, <2>2, Zenon
<1>2. 0 \in Has
  <2>1. SUBSET (1 .. 0) = {{}}
    OBVIOUS
  <2>2. Folds(0, [s \in SUBSET (1 .. 0) |-> r])
    BY <2>1
  <2> QED
    BY <2>2
<1>3. ASSUME NEW n \in Nat, n \in Has PROVE n + 1 \in Has
  <2>1. PICK h : Folds(n, h)
    BY <1>3
  <2> DEFINE m == n + 1
             h2 == [s \in SUBSET (1 .. m) |->
                      IF m \in s THEN ApplyOp(h[s \ {m}], ops[m]) ELSE h[s]]
  <2>2. \A s \in SUBSET (1 .. m) : m \notin s => s \in SUBSET (1 .. n)
    OBVIOUS
  <2>3. \A s \in SUBSET (1 .. m) : m \in s => Max(s) = m
    <3> SUFFICES ASSUME NEW s \in SUBSET (1 .. m), m \in s PROVE Max(s) = m
      OBVIOUS
    <3>1. m \in s /\ \A y \in s : m >= y
      OBVIOUS
    <3>2. \A x \in s : (\A y \in s : x >= y) => x = m
      OBVIOUS
    <3> HIDE DEF m
    <3> QED
      BY <3>1, <3>2 DEF Max
  <2>4. \A s \in SUBSET (1 .. n) : h[s] = Body(h, s)
    BY <2>1
  <2> HIDE DEF m
  <2>5. \A s \in SUBSET (1 .. m) : m \notin s => h2[s] = h[s]
    OBVIOUS
  <2>6. ASSUME NEW s \in SUBSET (1 .. m) PROVE h2[s] = Body(h2, s)
    <3>1. CASE m \in s
      <4>1. s \ {m} \in SUBSET (1 .. m) /\ m \notin s \ {m} /\ s # {}
        BY <3>1
      <4>2. h2[s] = ApplyOp(h[s \ {m}], ops[m]) /\ h2[s \ {m}] = h[s \ {m}]
        BY <3>1, <4>1, <2>5
      <4>3. Max(s) = m
        BY <3>1, <2>3
      <4> HIDE DEF h2
      <4> QED
        BY <4>1, <4>2, <4>3
    <3>2. CASE m \notin s
      <4>1. s \in SUBSET (1 .. n) /\ s \ {Max(s)} \in SUBSET (1 .. m) /\ m \notin s \ {Max(s)}
        BY <3>2, <2>2
      <4>2. h2[s] = h[s] /\ h2[s \ {Max(s)}] = h[s \ {Max(s)}]
        BY <3>2, <4>1, <2>5
      <4>3. h[s] = Body(h, s)
        BY <4>1, <2>4
      <4> HIDE DEF h2
      <4> QED
        BY <4>2, <4>3
    <3> QED
      BY <3>1, <3>2
  <2>7. h2 = [s \in SUBSET (1 .. m) |-> h2[s]]
    OBVIOUS
  <2> HIDE DEF h2
  <2>8. Folds(m, h2)
    BY <2>6, <2>7
  <2>9. m \in Nat
    BY DEF m
  <2>10. m \in Has
    <3> HIDE DEF Folds
    <3> QED
      BY <2>8, <2>9
  <2> QED
    BY <2>10 DEF m
<1>4. Len(ops) \in Nat /\ DOMAIN ops = 1 .. Len(ops)
  OBVIOUS
<1>5. Len(ops) \in Has
  <2>1. \A n \in Nat : n \in Has => n + 1 \in Has
    BY <1>3
  <2> HIDE DEF Has
  <2>2. Nat \subseteq Has
    BY <1>2, <2>1, NatSteps
  <2> QED
    BY <1>4, <2>2
<1> DEFINE Raw(t, s) ==
             IF s = {} THEN r
               ELSE CHOOSE x \in {ApplyOp(b, ops[Max(s)]) : b \in {t[s \ {Max(s)}]}} : TRUE
           RawFolds(t) == t = [s \in SUBSET (DOMAIN ops) |-> Raw(t, s)]
           it == CHOOSE t : RawFolds(t)
<1>6. Folds(Len(ops), it)
  <2>1. \A t, s : Raw(t, s) = Body(t, s)
    BY <1>1
  <2> HIDE DEF Raw, Body
  <2>2. \A t : RawFolds(t) <=> Folds(Len(ops), t)
    BY <1>4, <2>1
  <2>3. \E t : Folds(Len(ops), t)
    BY <1>5
  <2> HIDE DEF RawFolds, Folds
  <2> QED
    BY <2>2, <2>3
<1>7. ApplyOps(r, ops) = it[DOMAIN ops]
  BY Zenon DEF ApplyOps, FoldLeft, MapThenFoldSet
<1> HIDE DEF it
<1> DEFINE g == [i \in 0 .. Len(ops) |-> it[1 .. i]]
<1>8. \A i \in 0 .. Len(ops) : g[i] = it[1 .. i]
  OBVIOUS
<1>9. \A s \in SUBSET (1 .. Len(ops)) : it[s] = Body(it, s)
  BY <1>6
<1>10. g[0] = r
  <2>1. 1 .. 0 = {} /\ {} \in SUBSET (1 .. Len(ops))
    OBVIOUS
  <2>2. it[{}] = r
    BY <1>9, <2>1
  <2>3. g[0] = it[{}]
    BY <1>4, <1>8, <2>1
  <2> QED
    BY <2>2, <2>3
<1>11. ASSUME NEW i \in 1 .. Len(ops) PROVE g[i] = ApplyOp(g[i - 1], ops[i])
  <2>1. /\ 1 .. i \in SUBSET (1 .. Len(ops)) /\ 1 .. i # {}
        /\ i - 1 \in 0 .. Len(ops) /\ i \in 0 .. Len(ops)
    <3> DEFINE N == Len(ops)
    <3>1. N \in Nat /\ i \in 1 .. N
      BY <1>4
    <3> HIDE DEF N, g
    <3>2. i \in 1 .. i
      BY <3>1
    <3>3. 1 .. i \in SUBSET (1 .. N) /\ i - 1 \in 0 .. N /\ i \in 0 .. N
      BY <3>1
    <3> QED
      BY <3>2, <3>3 DEF N
  <2>2. (1 .. i) \ {i} = 1 .. (i - 1)
    BY <1>4
  <2>3. Max(1 .. i) = i
    <3>1. i \in 1 .. i /\ \A y \in 1 .. i : i >= y
      BY <1>4
    <3>2. \A x \in 1 .. i : (\A y \in 1 .. i : x >= y) => x = i
      BY <1>4
    <3> QED
      BY <3>1, <3>2 DEF Max
  <2>4. it[1 .. i] = ApplyOp(it[1 .. (i - 1)], ops[i])
    BY <1>9, <2>1, <2>2, <2>3
  <2> HIDE DEF g
  <2> QED
    BY <1>8, <2>1, <2>4
<1>12. ApplyOps(r, ops) = g[Len(ops)]
  BY <1>4, <1>7, <1>8
<1> HIDE DEF g
<1> QED
  BY <1>10, <1>11, <1>12

\* The sums of OncePerExpiration.
LEMMA SumOfNone == MapThenSumSet(LAMBDA n : n, {}) = 0
<1> DEFINE Def(t) == t = [s \in SUBSET {} |->
                            IF s = {} THEN 0
                              ELSE (CHOOSE x \in s : TRUE) + t[s \ {CHOOSE x \in s : TRUE}]]
           it == CHOOSE t : Def(t)
<1>1. MapThenSumSet(LAMBDA n : n, {}) = it[{}]
  BY Zenon DEF MapThenSumSet, MapThenFoldSet
<1>2. SUBSET {} = {{}}
  OBVIOUS
<1>3. Def([s \in SUBSET {} |-> 0])
  BY <1>2
<1>4. Def(it)
  <2> HIDE DEF Def
  <2> QED
    BY <1>3, Zenon
<1>5. it[{}] = 0
  <2> HIDE DEF it
  <2> QED
    BY <1>2, <1>4
<1> QED
  BY <1>1, <1>5

LEMMA SumOfOne ==
  ASSUME NEW m \in Nat
  PROVE  MapThenSumSet(LAMBDA n : n, {m}) = m
<1> DEFINE Def(t) == t = [s \in SUBSET {m} |->
                            IF s = {} THEN 0
                              ELSE (CHOOSE x \in s : TRUE) + t[s \ {CHOOSE x \in s : TRUE}]]
           it == CHOOSE t : Def(t)
           h == [s \in SUBSET {m} |-> IF s = {} THEN 0 ELSE m]
<1>1. MapThenSumSet(LAMBDA n : n, {m}) = it[{m}]
  BY Zenon DEF MapThenSumSet, MapThenFoldSet
<1>2. SUBSET {m} = {{}, {m}} /\ {m} # {} /\ {m} \ {m} = {} /\ (CHOOSE x \in {m} : TRUE) = m
  OBVIOUS
<1>3. Def(h)
  <2>1. h[{}] = 0 /\ h[{m}] = m
    BY <1>2
  <2>2. m = m + 0
    OBVIOUS
  <2>3. \A s \in SUBSET {m} : h[s] = IF s = {} THEN 0
                              ELSE (CHOOSE x \in s : TRUE) + h[s \ {CHOOSE x \in s : TRUE}]
    <3> HIDE DEF h
    <3> QED
      BY <1>2, <2>1, <2>2
  <2>4. h = [s \in SUBSET {m} |-> h[s]]
    OBVIOUS
  <2> HIDE DEF h
  <2> QED
    BY <2>3, <2>4
<1>4. Def(it)
  <2> HIDE DEF Def, h
  <2> QED
    BY <1>3, Zenon
<1>5. it[{}] = 0 /\ it[{m}] = m + it[{}]
  <2> HIDE DEF it, h
  <2>1. {} \in SUBSET {m} /\ {m} \in SUBSET {m}
    OBVIOUS
  <2> QED
    BY <1>2, <1>4, <2>1
<1>6. it[{m}] = m
  <2> HIDE DEF it
  <2> QED
    BY <1>5
<1> QED
  BY <1>1, <1>6

(* The sources after deferred changes. *)

\* The sources after the first i changes: the old ones not touched, and those whose last
\* change adds them.
Live(S, ops, i) ==
  {s \in S : \A j \in 1 .. i : ops[j].src # s}
    \cup {ops[j].src : j \in {m \in 1 .. i : /\ ops[m].kind = "add"
                                             /\ \A l \in m + 1 .. i : ops[l].src # ops[m].src}}

\* What one change does to the set of sources.
AfterOp(S, op) == IF op.kind = "add" THEN S \cup {op.src} ELSE S \ {op.src}

\* Membership, as the two cases of the definition.
LEMMA LiveMember ==
  ASSUME NEW S, NEW ops, NEW i, NEW s
  PROVE  s \in Live(S, ops, i) <=>
           \/ s \in S /\ \A j \in 1 .. i : ops[j].src # s
           \/ \E j \in 1 .. i : /\ ops[j].kind = "add" /\ ops[j].src = s
                                /\ \A l \in j + 1 .. i : ops[l].src # s
<1>1. \/ s \in S /\ \A j \in 1 .. i : ops[j].src # s
      \/ \E j \in 1 .. i : /\ ops[j].kind = "add" /\ ops[j].src = s
                           /\ \A l \in j + 1 .. i : ops[l].src # s
      => s \in Live(S, ops, i)
  BY Zenon DEF Live
<1>2. s \in Live(S, ops, i) =>
      \/ s \in S /\ \A j \in 1 .. i : ops[j].src # s
      \/ \E j \in 1 .. i : /\ ops[j].kind = "add" /\ ops[j].src = s
                           /\ \A l \in j + 1 .. i : ops[l].src # s
  BY Zenon DEF Live
<1> QED
  BY <1>1, <1>2

\* Before the first change.
LEMMA LiveNone ==
  ASSUME NEW S, NEW ops
  PROVE  Live(S, ops, 0) = S
<1>1. \A s : s \in Live(S, ops, 0) <=> s \in S
  BY LiveMember
<1> QED
  BY <1>1

\* One change more.
LEMMA LiveStep ==
  ASSUME NEW S, NEW ops, NEW i \in Nat
  PROVE  Live(S, ops, i + 1) = AfterOp(Live(S, ops, i), ops[i + 1])
<1> DEFINE x == ops[i + 1].src
           added == ops[i + 1].kind = "add"
<1>1. /\ \A j : j \in 1 .. i + 1 <=> j \in 1 .. i \/ j = i + 1
      /\ \A j \in 1 .. i : \A l : l \in j + 1 .. i + 1 <=> l \in j + 1 .. i \/ l = i + 1
      /\ \A l : l \notin (i + 1) + 1 .. i + 1
      /\ \A j \in 1 .. i : j # i + 1
  OBVIOUS
<1> DEFINE n == i + 1
<1> HIDE DEF n
<1>2. ASSUME NEW s PROVE s \in Live(S, ops, n) <=> IF added THEN s \in Live(S, ops, i) \/ s = x
                                                   ELSE s \in Live(S, ops, i) /\ s # x
  <2>1. s \in Live(S, ops, i) <=>
           \/ s \in S /\ \A j \in 1 .. i : ops[j].src # s
           \/ \E j \in 1 .. i : /\ ops[j].kind = "add" /\ ops[j].src = s
                                /\ \A l \in j + 1 .. i : ops[l].src # s
    BY LiveMember
  <2>2. s \in Live(S, ops, n) <=>
           \/ s \in S /\ \A j \in 1 .. n : ops[j].src # s
           \/ \E j \in 1 .. n : /\ ops[j].kind = "add" /\ ops[j].src = s
                                /\ \A l \in j + 1 .. n : ops[l].src # s
    BY LiveMember
  <2>3. CASE s = x
    <3>1. s \in Live(S, ops, n) => added
      BY <1>1, <2>2, <2>3 DEF n
    <3>2. added => s \in Live(S, ops, n)
      BY <1>1, <2>2, <2>3 DEF n
    <3> QED
      BY <2>3, <3>1, <3>2
  <2>4. CASE s # x
    <3>1. s \in S /\ (\A j \in 1 .. i : ops[j].src # s) <=> s \in S /\ \A j \in 1 .. n : ops[j].src # s
      BY <1>1, <2>4 DEF n
    <3>2. \A j \in 1 .. i : (\A l \in j + 1 .. i : ops[l].src # s) <=> \A l \in j + 1 .. n : ops[l].src # s
      BY <1>1, <2>4 DEF n
    <3>3. (\E j \in 1 .. i : /\ ops[j].kind = "add" /\ ops[j].src = s
                             /\ \A l \in j + 1 .. i : ops[l].src # s)
            <=> \E j \in 1 .. n : /\ ops[j].kind = "add" /\ ops[j].src = s
                                  /\ \A l \in j + 1 .. n : ops[l].src # s
      BY <1>1, <2>4, <3>2 DEF n
    <3> QED
      BY <2>1, <2>2, <2>4, <3>1, <3>3
  <2> QED
    BY <2>3, <2>4
<1>3. Live(S, ops, n) = AfterOp(Live(S, ops, i), ops[n])
  BY <1>2 DEF AfterOp, n
<1> QED
  BY <1>3 DEF n

\* Only the changes themselves count.
LEMMA LiveSame ==
  ASSUME NEW S, NEW ops, NEW ops2, NEW i \in Nat, \A j \in 1 .. i : ops2[j] = ops[j]
  PROVE  Live(S, ops2, i) = Live(S, ops, i)
<1>1. \A j \in 1 .. i : \A l \in j + 1 .. i : l \in 1 .. i
  OBVIOUS
<1>2. ASSUME NEW s PROVE s \in Live(S, ops2, i) <=> s \in Live(S, ops, i)
  BY <1>1, LiveMember
<1> QED
  BY <1>2

\* A change is requested.
LEMMA LiveAppend ==
  ASSUME NEW S, NEW Ops, NEW ops \in Seq(Ops), NEW op \in Ops
  PROVE  LET all == ops \o <<op>>
         IN  /\ all \in Seq(Ops) /\ Len(all) = Len(ops) + 1 /\ Len(ops) \in Nat
             /\ \A j \in 1 .. Len(ops) : all[j] = ops[j]
             /\ all[Len(ops) + 1] = op
             /\ \A i \in 0 .. Len(ops) : Live(S, all, i) = Live(S, ops, i)
             /\ Live(S, all, Len(all)) = AfterOp(Live(S, ops, Len(ops)), op)
<1> DEFINE all == ops \o <<op>>
<1>1. /\ all \in Seq(Ops) /\ Len(all) = Len(ops) + 1 /\ Len(ops) \in Nat
      /\ \A j \in 1 .. Len(ops) : all[j] = ops[j]
      /\ all[Len(ops) + 1] = op
  OBVIOUS
<1> HIDE DEF all
<1>2. ASSUME NEW i \in 0 .. Len(ops) PROVE Live(S, all, i) = Live(S, ops, i)
  <2>1. i \in Nat /\ \A j \in 1 .. i : all[j] = ops[j]
    BY <1>1
  <2> QED
    BY <2>1, LiveSame
<1>3. Live(S, all, Len(ops) + 1) = AfterOp(Live(S, all, Len(ops)), all[Len(ops) + 1])
  BY <1>1, LiveStep
<1>4. Len(ops) \in 0 .. Len(ops)
  BY <1>1
<1>5. Live(S, all, Len(all)) = AfterOp(Live(S, ops, Len(ops)), op)
  BY <1>1, <1>2, <1>3, <1>4
<1> QED
  BY <1>1, <1>2, <1>5 DEF all

(* What the backends register. *)

\* The source objects the core may know, and the changes requested of it.
Srcs == [w : Watchers, id : Nat, fd : Fds, flt : Filters]
Changes == [kind : {"add", "remove"}, src : Srcs]
Regs == [sources : SUBSET Srcs, armed : SUBSET Srcs,
         fd_events : [Keys -> SUBSET Events], interest : SUBSET Keys]

\* Every source known is armed, and nothing else.
RegOK(r) == r \in Regs /\ r.sources = r.armed

\* The kernel has nothing that the backend has not, and that only for armed sources.
Sound(r) ==
  \A key \in Keys : /\ key \in r.interest => r.fd_events[key] # {}
                    /\ r.fd_events[key] # {} => \E s \in r.armed : Key(s) = key

\* The source is registered with the events it wants.
Right(r, s) == r.fd_events[Key(s)] = Interest(s) /\ Key(s) \in r.interest

\* No two sources share an fd and a filter.
KeysDistinct(W) == \A s, u \in W : Key(s) = Key(u) => s = u

\* What a source may ask for: something.
Wanted == (SUBSET Events) \ {{}}
Wants == [Watchers -> Wanted]

\* A source has a key of the backend, and asks for something.
LEMMA SourceFacts ==
  ASSUME NEW s \in Srcs
  PROVE  /\ Key(s) \in Keys /\ Key(s)[1] = s.fd
         /\ events \in Wants => Interest(s) \in Wanted
<1>1. Key(s) \in Keys /\ Key(s)[1] = s.fd
  BY DEF Srcs, Key, Keys
<1>2. ASSUME events \in Wants PROVE Interest(s) \in Wanted
  <2>1. s.flt \in {"any", "read", "write"} /\ s.w \in Watchers
    BY DEF Srcs, Filters
  <2>2. events[s.w] \in Wanted
    BY <1>2, <2>1 DEF Wants
  <2>3. {"IN"} \in Wanted /\ {"OUT"} \in Wanted
    BY DEF Events, Wanted
  <2>4. CASE s.flt = "any"
    BY <2>2, <2>4 DEF Interest
  <2>5. CASE s.flt = "read"
    BY <2>3, <2>5 DEF Interest
  <2>6. CASE s.flt = "write"
    BY <2>3, <2>6 DEF Interest
  <2> QED
    BY <2>1, <2>4, <2>5, <2>6
<1> QED
  BY <1>1, <1>2

\* Registering touches no other key, on every backend.
LEMMA RegisterTyped ==
  ASSUME NEW r \in Regs, NEW key \in Keys, NEW ev \in SUBSET Events,
         NEW q \in {EpollRegister(r, key, ev), PollRegister(r, key, ev),
                    MacPollRegister(r, key, ev), KqueueRegister(r, key, ev)}
  PROVE  /\ q \in Regs /\ q.armed = r.armed /\ q.sources = r.sources
         /\ \A k \in Keys : k # key => /\ q.fd_events[k] = r.fd_events[k]
                                       /\ k \in q.interest <=> k \in r.interest
<1>1. \/ q = r
      \/ q = [r EXCEPT !.fd_events[key] = ev, !.interest = @ \cup {key}]
      \/ q = [r EXCEPT !.fd_events[key] = ev, !.interest = @ \cup ({key} \cap (Open \X Filters))]
  BY DEF EpollRegister, PollRegister, MacPollRegister, KqueueRegister
<1>2. CASE q = r
  BY <1>2
<1>3. CASE q = [r EXCEPT !.fd_events[key] = ev, !.interest = @ \cup {key}]
  BY <1>3 DEF Regs
<1>4. CASE q = [r EXCEPT !.fd_events[key] = ev, !.interest = @ \cup ({key} \cap (Open \X Filters))]
  BY <1>4 DEF Regs
<1> QED
  BY <1>1, <1>2, <1>3, <1>4

\* A key that is not registered gets the events, if its fd is open.
LEMMA RegisterEffect ==
  ASSUME NEW r \in Regs, NEW key \in Keys, NEW ev \in SUBSET Events, ev # {},
         r.fd_events[key] = {}, key \notin r.interest,
         NEW q \in {EpollRegister(r, key, ev), PollRegister(r, key, ev),
                    MacPollRegister(r, key, ev), KqueueRegister(r, key, ev)}
  PROVE  /\ key \in q.interest => q.fd_events[key] # {}
         /\ key[1] \in Open => q.fd_events[key] = ev /\ key \in q.interest
<1>1. \/ q = r /\ key[1] \notin Open
      \/ q = [r EXCEPT !.fd_events[key] = ev, !.interest = @ \cup {key}]
      \/ q = [r EXCEPT !.fd_events[key] = ev, !.interest = @ \cup ({key} \cap (Open \X Filters))]
  BY DEF EpollRegister, PollRegister, MacPollRegister, KqueueRegister
<1>2. CASE q = r /\ key[1] \notin Open
  BY <1>2
<1>3. CASE q = [r EXCEPT !.fd_events[key] = ev, !.interest = @ \cup {key}]
  BY <1>3 DEF Regs
<1>4. CASE q = [r EXCEPT !.fd_events[key] = ev, !.interest = @ \cup ({key} \cap (Open \X Filters))]
  <2>1. q.fd_events[key] = ev
    BY <1>4 DEF Regs
  <2>2. key[1] \in Open => key \in Open \X Filters
    BY DEF Keys
  <2>3. key \in Open \X Filters => key \in q.interest
    BY <1>4 DEF Regs
  <2> QED
    BY <2>1, <2>2, <2>3
<1> QED
  BY <1>1, <1>2, <1>3, <1>4

\* Unregistering takes one key out, of the backend and of the kernel.
LEMMA UnregisterEffect ==
  ASSUME NEW r \in Regs, NEW key \in Keys, r.fd_events[key] = {} => key \notin r.interest,
         NEW q, q = Unregistered(r, key)
  PROVE  /\ q \in Regs /\ q.armed = r.armed /\ q.sources = r.sources
         /\ q.fd_events[key] = {} /\ key \notin q.interest
         /\ \A k \in Keys : k # key => /\ q.fd_events[k] = r.fd_events[k]
                                       /\ k \in q.interest <=> k \in r.interest
<1>1. CASE r.fd_events[key] = {}
  BY <1>1 DEF Unregistered
<1>2. CASE r.fd_events[key] # {}
  <2>1. q = [r EXCEPT !.fd_events[key] = {}, !.interest = @ \ {key}]
    BY <1>2 DEF Unregistered
  <2> QED
    BY <2>1 DEF Regs
<1> QED
  BY <1>1, <1>2

\* It also leaves the sources alone.
LEMMA UnregisterTyped ==
  ASSUME NEW r \in Regs, NEW key \in Keys, NEW q, q = Unregistered(r, key)
  PROVE  q \in Regs /\ q.armed = r.armed /\ q.sources = r.sources
<1>1. CASE r.fd_events[key] = {}
  BY <1>1 DEF Unregistered
<1>2. CASE r.fd_events[key] # {}
  BY <1>2 DEF Unregistered, Regs
<1> QED
  BY <1>1, <1>2

(* One change. *)

\* The backends whose kernel reports readiness; IOCP reports completions.
KnownBackend == backend \in {"epoll", "poll", "kqueue", "macpoll"}

\* arm() of each of them.
LEMMA ArmShape ==
  ASSUME KnownBackend, NEW r, NEW s
  PROVE  (arm(r, s) = r /\ s \in r.armed) \/
         (s \notin r.armed /\
          \E q \in {EpollRegister(r, Key(s), Interest(s)), PollRegister(r, Key(s), Interest(s)),
                    MacPollRegister(r, Key(s), Interest(s)), KqueueRegister(r, Key(s), Interest(s))} :
            arm(r, s) = [q EXCEPT !.armed = @ \cup {s}])
<1>1. CASE s \in r.armed
  BY <1>1 DEF KnownBackend, arm, EpollArm, PollArm, KqueueArm, MacPollArm, Arming
<1>2. CASE s \notin r.armed
  BY <1>2 DEF KnownBackend, arm, EpollArm, PollArm, KqueueArm, MacPollArm, Arming
<1> QED
  BY <1>1, <1>2

\* disarm() of each of them.
LEMMA DisarmShape ==
  ASSUME KnownBackend, NEW r, NEW s
  PROVE  IF s \in r.armed THEN disarm(r, s) = [Unregistered(r, Key(s)) EXCEPT !.armed = @ \ {s}]
                          ELSE disarm(r, s) = r
BY DEF KnownBackend, disarm, EpollDisarm, PollDisarm, KqueueDisarm, MacPollDisarm, Disarming,
       EpollUnregister, PollUnregister, KqueueUnregister, MacPollUnregister

\* q is p, but for its sources.
Sets(q, p, A, B) ==
  /\ q \in Regs /\ q.armed = A /\ q.sources = B
  /\ q.fd_events = p.fd_events /\ q.interest = p.interest

\* The two nested updates of ApplyOp().
LEMMA SetsBoth ==
  ASSUME NEW p \in Regs, NEW A \in SUBSET Srcs, NEW B \in SUBSET Srcs
  PROVE  /\ Sets([[p EXCEPT !.armed = A] EXCEPT !.sources = B], p, A, B)
         /\ Sets([p EXCEPT !.sources = B], p, p.armed, B)
         /\ [p EXCEPT !.armed = A].sources = p.sources
<1> DEFINE a == [p EXCEPT !.armed = A]
<1>1. ASSUME NEW c \in Regs PROVE Sets([c EXCEPT !.sources = B], c, c.armed, B)
  BY DEF Sets, Regs
<1>2. Sets(a, p, A, p.sources)
  BY DEF Sets, Regs
<1> HIDE DEF a
<1>3. Sets([a EXCEPT !.sources = B], p, A, B)
  BY <1>1, <1>2 DEF Sets
<1>4. a.sources = p.sources
  BY <1>2 DEF Sets
<1> QED
  BY <1>1, <1>3, <1>4 DEF a

\* An addition sets both sets of sources.
LEMMA AddStep ==
  ASSUME NEW p \in Regs, NEW s \in Srcs
  PROVE  Sets([[p EXCEPT !.armed = @ \cup {s}] EXCEPT !.sources = @ \cup {s}], p,
              p.armed \cup {s}, p.sources \cup {s})
<1> DEFINE A == p.armed \cup {s}
           B == p.sources \cup {s}
<1>1. A \in SUBSET Srcs /\ B \in SUBSET Srcs
  BY DEF Regs
<1> HIDE DEF A, B
<1>2. Sets([[p EXCEPT !.armed = A] EXCEPT !.sources = B], p, A, B)
  BY <1>1, SetsBoth
<1>3. [p EXCEPT !.armed = A].sources = p.sources
  BY <1>1, SetsBoth
<1> QED
  BY <1>2, <1>3 DEF A, B

\* So does a removal.
LEMMA RemoveStep ==
  ASSUME NEW p \in Regs, NEW s \in Srcs
  PROVE  Sets([[p EXCEPT !.armed = @ \ {s}] EXCEPT !.sources = @ \ {s}], p,
              p.armed \ {s}, p.sources \ {s})
<1> DEFINE A == p.armed \ {s}
           B == p.sources \ {s}
<1>1. A \in SUBSET Srcs /\ B \in SUBSET Srcs
  BY DEF Regs
<1> HIDE DEF A, B
<1>2. Sets([[p EXCEPT !.armed = A] EXCEPT !.sources = B], p, A, B)
  BY <1>1, SetsBoth
<1>3. [p EXCEPT !.armed = A].sources = p.sources
  BY <1>1, SetsBoth
<1> QED
  BY <1>2, <1>3 DEF A, B

\* What a change does: nothing, or the backend (un)registers the source before.
LEMMA OpShape ==
  ASSUME KnownBackend, NEW r, NEW op \in Changes, RegOK(r)
  PROVE  LET s == op.src
             q == ApplyOp(r, op)
         IN  /\ op.kind = "add" /\ s \in r.armed => Sets(q, r, r.armed, r.armed)
             /\ op.kind = "add" /\ s \notin r.armed =>
                  \E p \in {EpollRegister(r, Key(s), Interest(s)), PollRegister(r, Key(s), Interest(s)),
                            MacPollRegister(r, Key(s), Interest(s)),
                            KqueueRegister(r, Key(s), Interest(s))} :
                    p \in Regs /\ p.armed = r.armed /\ p.sources = r.sources =>
                      Sets(q, p, r.armed \cup {s}, r.armed \cup {s})
             /\ op.kind = "remove" /\ s \notin r.armed => Sets(q, r, r.armed, r.armed)
             /\ op.kind = "remove" /\ s \in r.armed =>
                  LET p == Unregistered(r, Key(s))
                  IN  p \in Regs /\ p.armed = r.armed /\ p.sources = r.sources =>
                        Sets(q, p, r.armed \ {s}, r.armed \ {s})
<1> DEFINE s == op.src
           q == ApplyOp(r, op)
<1>1. s \in Srcs /\ r \in Regs /\ r.armed = r.sources
  BY DEF Changes, RegOK
<1>2. ASSUME op.kind = "add" PROVE q = [arm(r, s) EXCEPT !.sources = @ \cup {s}]
  BY <1>2 DEF ApplyOp
<1>3. ASSUME op.kind = "remove" PROVE q = [disarm(r, s) EXCEPT !.sources = @ \ {s}]
  BY <1>3 DEF ApplyOp
<1>4. r.armed \in SUBSET Srcs /\ r.sources \cup {s} \in SUBSET Srcs /\ r.sources \ {s} \in SUBSET Srcs
  BY <1>1 DEF Regs
<1> HIDE DEF q, s
<1>5. ASSUME op.kind = "add", s \in r.armed PROVE Sets(q, r, r.armed, r.armed)
  <2>1. q = [r EXCEPT !.sources = r.sources \cup {s}] /\ r.sources \cup {s} = r.armed
    BY <1>1, <1>2, <1>5, ArmShape
  <2> QED
    BY <1>1, <1>4, <2>1, SetsBoth
<1>6. ASSUME op.kind = "remove", s \notin r.armed PROVE Sets(q, r, r.armed, r.armed)
  <2>1. q = [r EXCEPT !.sources = r.sources \ {s}] /\ r.sources \ {s} = r.armed
    BY <1>1, <1>3, <1>6, DisarmShape
  <2> QED
    BY <1>1, <1>4, <2>1, SetsBoth
<1>7. ASSUME op.kind = "add", s \notin r.armed
      PROVE  \E p \in {EpollRegister(r, Key(s), Interest(s)), PollRegister(r, Key(s), Interest(s)),
                       MacPollRegister(r, Key(s), Interest(s)), KqueueRegister(r, Key(s), Interest(s))} :
               p \in Regs /\ p.armed = r.armed /\ p.sources = r.sources =>
                 Sets(q, p, r.armed \cup {s}, r.armed \cup {s})
  <2>1. PICK p \in {EpollRegister(r, Key(s), Interest(s)), PollRegister(r, Key(s), Interest(s)),
                    MacPollRegister(r, Key(s), Interest(s)), KqueueRegister(r, Key(s), Interest(s))} :
               arm(r, s) = [p EXCEPT !.armed = @ \cup {s}]
    BY <1>7, ArmShape
  <2>2. ASSUME p \in Regs, p.armed = r.armed, p.sources = r.sources
        PROVE  Sets(q, p, r.armed \cup {s}, r.armed \cup {s})
    <3>1. q = [[p EXCEPT !.armed = @ \cup {s}] EXCEPT !.sources = @ \cup {s}]
      BY <1>2, <1>7, <2>1
    <3>2. Sets([[p EXCEPT !.armed = @ \cup {s}] EXCEPT !.sources = @ \cup {s}], p,
               p.armed \cup {s}, p.sources \cup {s})
      BY <1>1, <2>2, AddStep
    <3> QED
      BY <1>1, <2>2, <3>1, <3>2
  <2> QED
    BY <2>1, <2>2
<1>8. ASSUME op.kind = "remove", s \in r.armed,
             NEW p, p = Unregistered(r, Key(s)), p \in Regs, p.armed = r.armed, p.sources = r.sources
      PROVE  Sets(q, p, r.armed \ {s}, r.armed \ {s})
  <2>1. q = [[p EXCEPT !.armed = @ \ {s}] EXCEPT !.sources = @ \ {s}]
    BY <1>3, <1>8, DisarmShape
  <2>2. Sets([[p EXCEPT !.armed = @ \ {s}] EXCEPT !.sources = @ \ {s}], p,
             p.armed \ {s}, p.sources \ {s})
    BY <1>1, <1>8, RemoveStep
  <2> QED
    BY <1>1, <1>8, <2>1, <2>2
<1> QED
  BY <1>5, <1>6, <1>7, <1>8 DEF q, s

\* A change keeps known and armed sources the same.
LEMMA OpTyped ==
  ASSUME KnownBackend, events \in Wants, NEW r, RegOK(r), NEW op \in Changes
  PROVE  RegOK(ApplyOp(r, op)) /\ ApplyOp(r, op).armed = AfterOp(r.armed, op)
<1> DEFINE s == op.src
           q == ApplyOp(r, op)
<1>1. s \in Srcs /\ op.kind \in {"add", "remove"} /\ r \in Regs /\ r.sources = r.armed
  BY DEF Changes, RegOK
<1>2. Key(s) \in Keys /\ Interest(s) \in SUBSET Events
  BY <1>1, SourceFacts DEF Wanted
<1> HIDE DEF s, q
<1>3. SUFFICES \E p : Sets(q, p, AfterOp(r.armed, op), AfterOp(r.armed, op))
  BY DEF Sets, RegOK, q
<1>4. CASE op.kind = "add" /\ s \in r.armed
  <2>1. Sets(q, r, r.armed, r.armed) /\ AfterOp(r.armed, op) = r.armed
    BY <1>4, OpShape DEF AfterOp, q, s
  <2> QED
    BY <2>1
<1>5. CASE op.kind = "remove" /\ s \notin r.armed
  <2>1. Sets(q, r, r.armed, r.armed) /\ AfterOp(r.armed, op) = r.armed
    BY <1>5, OpShape DEF AfterOp, q, s
  <2> QED
    BY <2>1
<1>6. CASE op.kind = "add" /\ s \notin r.armed
  <2>1. PICK p \in {EpollRegister(r, Key(s), Interest(s)), PollRegister(r, Key(s), Interest(s)),
                    MacPollRegister(r, Key(s), Interest(s)), KqueueRegister(r, Key(s), Interest(s))} :
               p \in Regs /\ p.armed = r.armed /\ p.sources = r.sources =>
                 Sets(q, p, r.armed \cup {s}, r.armed \cup {s})
    BY <1>6, OpShape DEF q, s
  <2>2. p \in Regs /\ p.armed = r.armed /\ p.sources = r.sources
    BY <1>1, <1>2, <2>1, RegisterTyped
  <2>3. AfterOp(r.armed, op) = r.armed \cup {s}
    BY <1>6 DEF AfterOp, s
  <2> QED
    BY <2>1, <2>2, <2>3
<1>7. CASE op.kind = "remove" /\ s \in r.armed
  <2> DEFINE p == Unregistered(r, Key(s))
  <2>1. p \in Regs /\ p.armed = r.armed /\ p.sources = r.sources
    BY <1>1, <1>2, UnregisterTyped
  <2>2. Sets(q, p, r.armed \ {s}, r.armed \ {s})
    BY <1>7, <2>1, OpShape DEF q, s
  <2>3. AfterOp(r.armed, op) = r.armed \ {s}
    BY <1>7 DEF AfterOp, s
  <2> QED
    BY <2>2, <2>3
<1> QED
  BY <1>1, <1>4, <1>5, <1>6, <1>7 DEF s

\* A change keeps the registrations right, of sources with different keys.
LEMMA OpSound ==
  ASSUME KnownBackend, events \in Wants, NEW r, RegOK(r), NEW op \in Changes,
         Sound(r), KeysDistinct(r.armed), KeysDistinct(AfterOp(r.armed, op)),
         op.kind = "add" => op.src \notin r.armed
  PROVE  LET q == ApplyOp(r, op)
         IN  /\ Sound(q)
             /\ \A u \in q.armed : IF u \in r.armed THEN Right(r, u) => Right(q, u)
                                                  ELSE u.fd \in Open => Right(q, u)
<1> DEFINE s == op.src
           q == ApplyOp(r, op)
<1>1. s \in Srcs /\ op.kind \in {"add", "remove"} /\ r \in Regs /\ r.sources = r.armed
  BY DEF Changes, RegOK
<1>2. Key(s) \in Keys /\ Key(s)[1] = s.fd /\ Interest(s) \in SUBSET Events /\ Interest(s) # {}
  BY <1>1, SourceFacts DEF Wanted
<1>3. r.armed \in SUBSET Srcs /\ \A u \in Srcs : Key(u) \in Keys
  BY <1>1, SourceFacts DEF Regs
<1> HIDE DEF s, q
<1>4. CASE op.kind = "add"
  <2>1. s \notin r.armed /\ AfterOp(r.armed, op) = r.armed \cup {s}
    BY <1>4 DEF AfterOp, s
  <2>2. PICK p \in {EpollRegister(r, Key(s), Interest(s)), PollRegister(r, Key(s), Interest(s)),
                    MacPollRegister(r, Key(s), Interest(s)), KqueueRegister(r, Key(s), Interest(s))} :
               p \in Regs /\ p.armed = r.armed /\ p.sources = r.sources =>
                 Sets(q, p, r.armed \cup {s}, r.armed \cup {s})
    BY <1>4, <2>1, OpShape DEF q, s
  <2>3. /\ p \in Regs /\ p.armed = r.armed /\ p.sources = r.sources
        /\ \A k \in Keys : k # Key(s) => /\ p.fd_events[k] = r.fd_events[k]
                                         /\ k \in p.interest <=> k \in r.interest
    BY <1>1, <1>2, <2>2, RegisterTyped
  <2>4. \A u \in r.armed : Key(u) # Key(s)
    BY <2>1 DEF KeysDistinct
  <2>5. r.fd_events[Key(s)] = {} /\ Key(s) \notin r.interest
    BY <1>2, <2>4 DEF Sound
  <2>6. /\ Key(s) \in p.interest => p.fd_events[Key(s)] # {}
        /\ s.fd \in Open => p.fd_events[Key(s)] = Interest(s) /\ Key(s) \in p.interest
    BY <1>1, <1>2, <2>2, <2>5, RegisterEffect
  <2>7. /\ q.armed = r.armed \cup {s} /\ q.fd_events = p.fd_events /\ q.interest = p.interest
    BY <2>2, <2>3 DEF Sets
  <2>8. Sound(q)
    <3> SUFFICES ASSUME NEW key \in Keys
                 PROVE  /\ key \in q.interest => q.fd_events[key] # {}
                        /\ q.fd_events[key] # {} => \E u \in q.armed : Key(u) = key
      BY DEF Sound
    <3>1. CASE key = Key(s)
      BY <2>6, <2>7, <3>1
    <3>2. CASE key # Key(s)
      BY <2>3, <2>7, <3>2 DEF Sound
    <3> QED
      BY <3>1, <3>2
  <2>9. ASSUME NEW u \in q.armed, u \in r.armed, Right(r, u) PROVE Right(q, u)
    BY <1>3, <2>3, <2>4, <2>7, <2>9 DEF Right
  <2>10. ASSUME NEW u \in q.armed, u \notin r.armed, u.fd \in Open PROVE Right(q, u)
    BY <2>6, <2>7, <2>10 DEF Right
  <2> QED
    BY <2>8, <2>9, <2>10 DEF q
<1>5. CASE op.kind = "remove" /\ s \notin r.armed
  <2>1. Sets(q, r, r.armed, r.armed)
    BY <1>5, OpShape DEF q, s
  <2> QED
    BY <2>1 DEF Sets, Sound, Right, q
<1>6. CASE op.kind = "remove" /\ s \in r.armed
  <2> DEFINE p == Unregistered(r, Key(s))
  <2>1. r.fd_events[Key(s)] = {} => Key(s) \notin r.interest
    BY <1>2 DEF Sound
  <2>2. /\ p \in Regs /\ p.armed = r.armed /\ p.sources = r.sources
        /\ p.fd_events[Key(s)] = {} /\ Key(s) \notin p.interest
        /\ \A k \in Keys : k # Key(s) => /\ p.fd_events[k] = r.fd_events[k]
                                         /\ k \in p.interest <=> k \in r.interest
    BY <1>1, <1>2, <2>1, UnregisterEffect
  <2>3. Sets(q, p, r.armed \ {s}, r.armed \ {s})
    BY <1>6, <2>2, OpShape DEF q, s
  <2> HIDE DEF p
  <2>4. q.armed = r.armed \ {s} /\ q.fd_events = p.fd_events /\ q.interest = p.interest
    BY <2>3 DEF Sets
  <2>5. \A u \in r.armed : u # s => Key(u) # Key(s)
    BY <1>6 DEF KeysDistinct
  <2>6. Sound(q)
    <3> SUFFICES ASSUME NEW key \in Keys
                 PROVE  /\ key \in q.interest => q.fd_events[key] # {}
                        /\ q.fd_events[key] # {} => \E u \in q.armed : Key(u) = key
      BY DEF Sound
    <3>1. CASE key = Key(s)
      BY <2>2, <2>4, <3>1
    <3>2. CASE key # Key(s)
      <4>1. q.fd_events[key] = r.fd_events[key] /\ (key \in q.interest <=> key \in r.interest)
        BY <2>2, <2>4, <3>2
      <4>2. ASSUME r.fd_events[key] # {} PROVE \E u \in q.armed : Key(u) = key
        <5>1. PICK u \in r.armed : Key(u) = key
          BY <4>2 DEF Sound
        <5> QED
          BY <2>4, <3>2, <5>1
      <4> QED
        BY <4>1, <4>2 DEF Sound
    <3> QED
      BY <3>1, <3>2
  <2>7. ASSUME NEW u \in q.armed, Right(r, u) PROVE u \in r.armed /\ Right(q, u)
    BY <1>3, <2>2, <2>4, <2>5, <2>7 DEF Right
  <2> QED
    BY <2>4, <2>6, <2>7 DEF q
<1> QED
  BY <1>1, <1>4, <1>5, <1>6 DEF s

(* All changes. *)

\* Where the changes lead, no two sources share a key on the way, and none is added
\* while it is there.
Clean(S, ops) ==
  /\ \A i \in 0 .. Len(ops) : KeysDistinct(Live(S, ops, i))
  /\ \A i \in 1 .. Len(ops) : ops[i].kind = "add" => ops[i].src \notin Live(S, ops, i - 1)

\* No change is about s.
Untouched(ops, s) == \A i \in 1 .. Len(ops) : ops[i].src # s

\* ApplyOps() leads to the sources that are live after all changes.
LEMMA FoldTyped ==
  ASSUME KnownBackend, events \in Wants, NEW r, RegOK(r), NEW ops \in Seq(Changes)
  PROVE  RegOK(ApplyOps(r, ops)) /\ ApplyOps(r, ops).armed = Live(r.armed, ops, Len(ops))
<1>1. PICK g : /\ g[0] = r
               /\ \A i \in 1 .. Len(ops) : g[i] = ApplyOp(g[i - 1], ops[i])
               /\ ApplyOps(r, ops) = g[Len(ops)]
  BY ApplySteps
<1>2. Len(ops) \in Nat /\ \A i \in 1 .. Len(ops) : ops[i] \in Changes
  OBVIOUS
<1> DEFINE P(i) == RegOK(g[i]) /\ g[i].armed = Live(r.armed, ops, i)
           S == {i \in Nat : i <= Len(ops) => P(i)}
<1>3. P(0)
  BY <1>1, LiveNone
<1>4. ASSUME NEW i \in Nat, i + 1 <= Len(ops), P(i) PROVE P(i + 1)
  <2>1. i + 1 \in 1 .. Len(ops) /\ (i + 1) - 1 = i
    BY <1>2, <1>4
  <2>2. g[i + 1] = ApplyOp(g[i], ops[i + 1]) /\ ops[i + 1] \in Changes
    BY <1>1, <1>2, <2>1
  <2>3. RegOK(g[i + 1]) /\ g[i + 1].armed = AfterOp(g[i].armed, ops[i + 1])
    BY <1>4, <2>2, OpTyped
  <2> QED
    BY <1>4, <2>3, LiveStep
<1> HIDE DEF P
<1>5. 0 \in S /\ \A i \in Nat : i \in S => i + 1 \in S
  <2>1. \A i \in Nat : i + 1 <= Len(ops) => i <= Len(ops)
    BY <1>2
  <2> QED
    BY <1>3, <1>4, <2>1
<1>6. Nat \subseteq S
  <2> HIDE DEF S
  <2> QED
    BY <1>5, NatSteps
<1>7. P(Len(ops))
  BY <1>2, <1>6
<1> QED
  BY <1>1, <1>7 DEF P

\* ApplyOps() keeps registrations sound, and makes those of open fds right.
LEMMA FoldSound ==
  ASSUME KnownBackend, events \in Wants, NEW r, RegOK(r), NEW ops \in Seq(Changes),
         Sound(r), Clean(r.armed, ops),
         \A s \in r.armed : Untouched(ops, s) => Right(r, s)
  PROVE  /\ Sound(ApplyOps(r, ops))
         /\ \A s \in ApplyOps(r, ops).armed : s.fd \in Open => Right(ApplyOps(r, ops), s)
<1>1. PICK g : /\ g[0] = r
               /\ \A i \in 1 .. Len(ops) : g[i] = ApplyOp(g[i - 1], ops[i])
               /\ ApplyOps(r, ops) = g[Len(ops)]
  BY ApplySteps
<1>2. Len(ops) \in Nat /\ \A i \in 1 .. Len(ops) : ops[i] \in Changes
  OBVIOUS
<1> DEFINE Seen(i, s) == \E j \in 1 .. i : ops[j].src = s
           P(i) == /\ RegOK(g[i]) /\ g[i].armed = Live(r.armed, ops, i) /\ Sound(g[i])
                   /\ \A s \in g[i].armed :
                        s.fd \in Open /\ (Seen(i, s) \/ Right(r, s)) => Right(g[i], s)
           S == {i \in Nat : i <= Len(ops) => P(i)}
<1>3. P(0)
  <2>1. \A s : ~Seen(0, s)
    OBVIOUS
  <2> HIDE DEF Seen
  <2> QED
    BY <1>1, <2>1, LiveNone
<1>4. ASSUME NEW i \in Nat, i + 1 <= Len(ops), P(i) PROVE P(i + 1)
  <2>1. i + 1 \in 1 .. Len(ops) /\ (i + 1) - 1 = i /\ i \in 0 .. Len(ops) /\ i + 1 \in 0 .. Len(ops)
    BY <1>2, <1>4
  <2> DEFINE n == i + 1
             op == ops[n]
  <2>2. \A s : Seen(n, s) => Seen(i, s) \/ s = op.src
    <3>1. \A j \in 1 .. n : j \in 1 .. i \/ j = n
      OBVIOUS
    <3> QED
      BY <3>1
  <2>3. g[n] = ApplyOp(g[i], op) /\ op \in Changes
    BY <1>1, <1>2, <2>1
  <2>4. RegOK(g[n]) /\ g[n].armed = AfterOp(g[i].armed, op)
    <3> HIDE DEF n, op, Seen
    <3> QED
      BY <1>4, <2>3, OpTyped
  <2>5. g[n].armed = Live(r.armed, ops, n)
    BY <1>4, <2>4, LiveStep
  <2>6. /\ KeysDistinct(g[i].armed) /\ KeysDistinct(AfterOp(g[i].armed, op))
        /\ op.kind = "add" => op.src \notin g[i].armed
    <3> HIDE DEF Seen
    <3>1. \A j \in 0 .. Len(ops) : KeysDistinct(Live(r.armed, ops, j))
      BY DEF Clean
    <3>2. KeysDistinct(g[i].armed) /\ KeysDistinct(g[n].armed)
      BY <1>4, <2>1, <2>5, <3>1
    <3>3. op.kind = "add" => op.src \notin Live(r.armed, ops, n - 1)
      BY <2>1 DEF Clean
    <3> QED
      BY <1>4, <2>1, <2>4, <3>2, <3>3
  <2> HIDE DEF n, op, Seen
  <2>7. /\ Sound(g[n])
        /\ \A u \in g[n].armed : IF u \in g[i].armed THEN Right(g[i], u) => Right(g[n], u)
                                                     ELSE u.fd \in Open => Right(g[n], u)
    BY <1>4, <2>3, <2>6, OpSound
  <2>8. ASSUME NEW s \in g[n].armed, s.fd \in Open, Seen(n, s) \/ Right(r, s) PROVE Right(g[n], s)
    <3>1. CASE s \notin g[i].armed
      BY <2>7, <2>8, <3>1
    <3>2. CASE s \in g[i].armed /\ s # op.src
      BY <1>4, <2>2, <2>7, <2>8, <3>2
    <3>3. s = op.src => s \notin g[i].armed
      <4>1. op.kind # "add" => s # op.src
        BY <2>4 DEF AfterOp
      <4> QED
        BY <2>6, <4>1
    <3> QED
      BY <3>1, <3>2, <3>3
  <2> QED
    BY <2>4, <2>5, <2>7, <2>8 DEF n
<1> HIDE DEF P
<1>5. 0 \in S /\ \A i \in Nat : i \in S => i + 1 \in S
  <2>1. \A i \in Nat : i + 1 <= Len(ops) => i <= Len(ops)
    BY <1>2
  <2> QED
    BY <1>3, <1>4, <2>1
<1>6. Nat \subseteq S
  <2> HIDE DEF S
  <2> QED
    BY <1>5, NatSteps
<1>7. P(Len(ops))
  BY <1>2, <1>6
<1>8. ASSUME NEW s \in ApplyOps(r, ops).armed PROVE Seen(Len(ops), s) \/ Right(r, s)
  <2>1. CASE Untouched(ops, s)
    <3>1. s \in Live(r.armed, ops, Len(ops))
      BY <1>8, FoldTyped
    <3>2. s \in r.armed
      BY <2>1, <3>1, LiveMember DEF Untouched
    <3> QED
      BY <2>1, <3>2
  <2>2. CASE ~Untouched(ops, s)
    BY <2>2 DEF Untouched
  <2> QED
    BY <2>1, <2>2
<1> QED
  BY <1>1, <1>7, <1>8 DEF P

\* Changes that are requested go on from where those before lead.
LEMMA CleanAppend ==
  ASSUME NEW S, NEW P \in Seq(Changes), NEW op \in Changes, Clean(S, P),
         KeysDistinct(AfterOp(Live(S, P, Len(P)), op)),
         op.kind = "add" => op.src \notin Live(S, P, Len(P))
  PROVE  Clean(S, P \o <<op>>)
<1> DEFINE all == P \o <<op>>
<1>1. /\ all \in Seq(Changes) /\ Len(all) = Len(P) + 1 /\ Len(P) \in Nat
      /\ \A j \in 1 .. Len(P) : all[j] = P[j]
      /\ all[Len(P) + 1] = op
      /\ \A i \in 0 .. Len(P) : Live(S, all, i) = Live(S, P, i)
      /\ Live(S, all, Len(all)) = AfterOp(Live(S, P, Len(P)), op)
  BY LiveAppend
<1> HIDE DEF all
<1>2. ASSUME NEW i \in 0 .. Len(all) PROVE KeysDistinct(Live(S, all, i))
  <2>1. i \in 0 .. Len(P) \/ i = Len(all)
    BY <1>1
  <2> QED
    BY <1>1, <2>1 DEF Clean
<1>3. ASSUME NEW i \in 1 .. Len(all), all[i].kind = "add" PROVE all[i].src \notin Live(S, all, i - 1)
  <2>1. i \in 1 .. Len(P) \/ i = Len(P) + 1
    BY <1>1
  <2>2. i - 1 \in 0 .. Len(P)
    BY <1>1
  <2>3. Live(S, all, i - 1) = Live(S, P, i - 1)
    BY <1>1, <2>2
  <2>4. CASE i \in 1 .. Len(P)
    BY <1>1, <1>3, <2>3, <2>4 DEF Clean
  <2>5. CASE i = Len(P) + 1
    <3>1. i - 1 = Len(P) /\ all[i] = op
      BY <1>1, <2>5
    <3> QED
      BY <1>3, <2>3, <3>1
  <2> QED
    BY <2>1, <2>4, <2>5
<1> QED
  BY <1>2, <1>3 DEF Clean, all

\* Clean changes start from, and end with, distinct keys.
LEMMA CleanDistinct ==
  ASSUME NEW S, NEW P \in Seq(Changes), Clean(S, P)
  PROVE  KeysDistinct(Live(S, P, Len(P))) /\ KeysDistinct(S)
<1>1. Len(P) \in 0 .. Len(P) /\ 0 \in 0 .. Len(P)
  OBVIOUS
<1>2. Live(S, P, 0) = S
  BY LiveNone
<1> QED
  BY <1>1, <1>2 DEF Clean

\* The registrations are right, the changes P apart.
KeyFacts(r, P) ==
  Clean(r.armed, P) /\ Sound(r) /\ \A s \in r.armed : Untouched(P, s) => Right(r, s)

\* After ApplyOps() nothing is left to be done.
LEMMA FoldFacts ==
  ASSUME KnownBackend, events \in Wants, NEW r, RegOK(r), NEW ops \in Seq(Changes),
         KeyFacts(r, ops),
         \A s \in Live(r.armed, ops, Len(ops)) : s.fd \in Open
  PROVE  KeyFacts(ApplyOps(r, ops), <<>>)
<1> DEFINE F == ApplyOps(r, ops)
<1>1. F.armed = Live(r.armed, ops, Len(ops))
  BY FoldTyped
<1>2. Sound(F) /\ \A s \in F.armed : s.fd \in Open => Right(F, s)
  BY FoldSound DEF KeyFacts
<1>3. KeysDistinct(F.armed)
  BY <1>1, CleanDistinct DEF KeyFacts
<1> HIDE DEF F
<1>4. Clean(F.armed, <<>>)
  <2>1. Len(<<>>) = 0 /\ 0 .. 0 = {0} /\ 1 .. 0 = {}
    OBVIOUS
  <2> QED
    BY <1>3, <2>1, LiveNone DEF Clean
<1> QED
  BY <1>1, <1>2, <1>4 DEF KeyFacts, F

\* Sockets of no armed source are closed.
LEMMA ForgetFacts ==
  ASSUME NEW r, RegOK(r), NEW fs
  PROVE  LET q == Forgotten(r, fs)
         IN  /\ RegOK(q) /\ q.armed = r.armed
             /\ \A P : KeyFacts(r, P) /\ (\A s \in r.armed : Untouched(P, s) => s.fd \notin fs)
                         => KeyFacts(q, P)
<1> DEFINE q == Forgotten(r, fs)
<1>1. q = r \/ q = [r EXCEPT !.interest = {key \in @ : key[1] \notin fs}]
  BY DEF Forgotten
<1>2. r \in Regs
  BY DEF RegOK
<1>3. /\ q.armed = r.armed /\ q.sources = r.sources /\ q.fd_events = r.fd_events
      /\ q.interest \subseteq r.interest /\ \A key \in r.interest : key[1] \notin fs => key \in q.interest
  BY <1>1, <1>2 DEF Regs
<1>4. q \in Regs
  <2>1. CASE q = r
    BY <1>2, <2>1
  <2>2. CASE q = [r EXCEPT !.interest = {key \in @ : key[1] \notin fs}]
    BY <1>2, <2>2 DEF Regs
  <2> QED
    BY <1>1, <2>1, <2>2
<1> HIDE DEF q
<1>5. ASSUME NEW P, KeyFacts(r, P), \A s \in r.armed : Untouched(P, s) => s.fd \notin fs
      PROVE  KeyFacts(q, P)
  <2>1. Sound(q)
    BY <1>3, <1>5 DEF KeyFacts, Sound
  <2>2. ASSUME NEW s \in r.armed, Untouched(P, s) PROVE Right(q, s)
    <3>1. Key(s)[1] \notin fs
      BY <1>5, <2>2 DEF Key
    <3> QED
      BY <1>3, <1>5, <2>2, <3>1 DEF KeyFacts, Right
  <2> QED
    BY <1>3, <1>5, <2>1, <2>2 DEF KeyFacts
<1> QED
  BY <1>3, <1>4, <1>5 DEF RegOK, q

----------------------------------------------------------------------------
(* The stack. *)

\* The stack is a sequence, whatever its frames hold.
IsStack(s) == \E S : s \in Seq(S)

\* A frame is pushed;
LEMMA Pushed ==
  ASSUME NEW s, IsStack(s), NEW f
  PROVE  /\ IsStack(<<f>> \o s) /\ <<f>> \o s # <<>>
         /\ Len(s) \in Nat /\ Len(<<f>> \o s) = Len(s) + 1
         /\ Head(<<f>> \o s) = f /\ (<<f>> \o s)[1] = f
         /\ \A i \in 1 .. Len(s) : (<<f>> \o s)[i + 1] = s[i]
<1>1. PICK S : s \in Seq(S)
  BY DEF IsStack
<1>2. s \in Seq(S \cup {f}) /\ <<f>> \in Seq(S \cup {f})
  BY <1>1
<1>3. <<f>> \o s \in Seq(S \cup {f})
  BY <1>2
<1>4. Len(s) \in Nat /\ Len(<<f>> \o s) = Len(s) + 1
  BY <1>2
<1>5. /\ (<<f>> \o s)[1] = f
      /\ \A i \in 1 .. Len(s) : (<<f>> \o s)[i + 1] = s[i]
  BY <1>2, <1>4
<1>6. <<f>> \o s # <<>> /\ Head(<<f>> \o s) = f
  BY <1>3, <1>4, <1>5
<1> QED
  BY <1>3, <1>4, <1>5, <1>6 DEF IsStack

\* two are;
LEMMA PushedTwo ==
  ASSUME NEW s, IsStack(s), NEW f, NEW g
  PROVE  <<f, g>> \o s = <<f>> \o (<<g>> \o s)
<1>1. PICK S : s \in Seq(S)
  BY DEF IsStack
<1> DEFINE U == S \cup {f, g}
           t == <<f, g>> \o s
           u == <<f>> \o (<<g>> \o s)
<1>2. s \in Seq(U) /\ <<f>> \in Seq(U) /\ <<g>> \in Seq(U) /\ <<f, g>> \in Seq(U)
  BY <1>1
<1>3. <<g>> \o s \in Seq(U) /\ Len(<<g>> \o s) = Len(s) + 1
  BY <1>2
<1>4. /\ t \in Seq(U) /\ u \in Seq(U)
      /\ Len(t) = Len(s) + 2 /\ Len(u) = Len(s) + 2 /\ Len(s) \in Nat
  BY <1>2, <1>3
<1>5. ASSUME NEW i \in 1 .. Len(t) PROVE t[i] = u[i]
  BY <1>2, <1>3, <1>4
<1> HIDE DEF t, u
<1>6. t = u
  BY <1>4, <1>5, SeqEqual
<1> QED
  BY <1>6 DEF t, u

\* the innermost one is popped.
LEMMA Popped ==
  ASSUME NEW s, IsStack(s), s # <<>>
  PROVE  /\ IsStack(Tail(s))
         /\ Len(s) \in Nat \ {0} /\ Len(Tail(s)) = Len(s) - 1
         /\ Head(s) = s[1]
         /\ \A i \in 1 .. Len(Tail(s)) : Tail(s)[i] = s[i + 1]
<1>1. PICK S : s \in Seq(S)
  BY DEF IsStack
<1> QED
  BY <1>1 DEF IsStack
=============================================================================
