-------------------------- MODULE TaskDeque_proofs --------------------------
(***************************************************************************)
(* Proofs about TaskDeque for every number of thieves, every capacity and  *)
(* every number of pushes.                                                 *)
(***************************************************************************)
EXTENDS TaskDeque, SequenceTheorems, TLAPS

(***************************************************************************)
(* The inductive invariant of the index protocol.  Its heart is the last   *)
(* but one conjunct: a thief that is about to win its CAS wins an index    *)
(* the owner has not claimed, although it read bottom_ earlier.            *)
(***************************************************************************)
CursorInv ==
  /\ top <= LogicalBottom
  /\ LogicalBottom - top <= maxSize
  /\ LogicalBottom <= pushed

OwnerInv ==
  /\ pc[Owner] \in {"push_write", "push_publish"} =>
       idx[Owner] = bottom /\ bottom - top < maxSize /\ pushed < MaxPush
  /\ pc[Owner] \in {"pop_top", "pop_cas", "pop_restore", "last_restore"} =>
       idx[Owner] = bottom
  /\ pc[Owner] = "pop_cas" => top >= bottom
  /\ pc[Owner] \in {"pop_restore", "last_restore"} => top = bottom + 1

ThiefInv ==
  \A p \in Thieves :
    /\ pc[p] \in {"steal_bottom", "steal_cas"} => idx[p] <= top
    /\ pc[p] = "steal_cas" /\ idx[p] = top => top < LogicalBottom
    /\ pc[p] \in {"steal_count", "steal_read", "steal_clear"} => idx[p] < top

IndexInv == TypeOK /\ CursorInv /\ OwnerInv /\ ThiefInv

\* Names for two equations, so that the provers need not look into them.
IsAppend(v, w, x) == v = Append(w, x)
IsTail(v, w) == v = Tail(w)

\* A window of numbers is a sequence of them.
LEMMA WindowSeq ==
  ASSUME NEW f, NEW lo \in Nat, NEW hi \in Nat, lo <= hi,
         \A i \in lo .. hi - 1 : f[i] \in Nat
  PROVE  /\ Window(f, lo, hi) \in Seq(Nat)
         /\ Len(Window(f, lo, hi)) = hi - lo
         /\ \A i \in 1 .. hi - lo : Window(f, lo, hi)[i] = f[lo + i - 1]
<1>1. \A i \in 1 .. hi - lo : f[lo + i - 1] \in Nat
  OBVIOUS
<1> QED BY <1>1 DEF Window

\* Extending the window at its end appends.
LEMMA WindowAppend ==
  ASSUME NEW f, NEW g, NEW lo \in Nat, NEW hi \in Nat, lo <= hi,
         \A i \in lo .. hi - 1 : f[i] \in Nat, g[hi] \in Nat,
         \A i \in lo .. hi - 1 : g[i] = f[i]
  PROVE  IsAppend(Window(g, lo, hi + 1), Window(f, lo, hi), g[hi])
<1> DEFINE w == Window(f, lo, hi)
           v == Window(g, lo, hi + 1)
<1>1. /\ w \in Seq(Nat) /\ Len(w) = hi - lo
      /\ \A i \in 1 .. hi - lo : w[i] = f[lo + i - 1]
  <2>1. \A i \in 1 .. hi - lo : f[lo + i - 1] \in Nat
    OBVIOUS
  <2> QED
    BY <2>1 DEF Window
<1>2. /\ v \in Seq(Nat) /\ Len(v) = hi + 1 - lo
      /\ \A i \in 1 .. hi + 1 - lo : v[i] = g[lo + i - 1]
  <2>1. \A i \in 1 .. hi + 1 - lo : g[lo + i - 1] \in Nat
    OBVIOUS
  <2> QED
    BY <2>1 DEF Window
<1> HIDE DEF w, v
<1>3. Append(w, g[hi]) \in Seq(Nat) /\ Len(Append(w, g[hi])) = Len(v)
  <2>1. g[hi] \in Nat /\ Len(v) = Len(w) + 1
    BY <1>1, <1>2
  <2> QED
    BY <1>1, <2>1, AppendProperties
<1>4. \A i \in 1 .. Len(v) : v[i] = Append(w, g[hi])[i]
  BY <1>1, <1>2
<1>5. v = Append(w, g[hi])
  BY <1>2, <1>3, <1>4, SeqEqual
<1> QED BY <1>5 DEF IsAppend, w, v

\* Shrinking it at its start drops the head.
LEMMA WindowTail ==
  ASSUME NEW f, NEW g, NEW lo \in Nat, NEW hi \in Nat, lo < hi,
         \A i \in lo .. hi - 1 : f[i] \in Nat,
         \A i \in lo + 1 .. hi - 1 : g[i] = f[i]
  PROVE  IsTail(Window(g, lo + 1, hi), Window(f, lo, hi))
<1> DEFINE w == Window(f, lo, hi)
           v == Window(g, lo + 1, hi)
<1>1. /\ w \in Seq(Nat) /\ Len(w) = hi - lo
      /\ \A i \in 1 .. hi - lo : w[i] = f[lo + i - 1]
  <2>1. \A i \in 1 .. hi - lo : f[lo + i - 1] \in Nat
    OBVIOUS
  <2> QED
    BY <2>1 DEF Window
<1>2. /\ v \in Seq(Nat) /\ Len(v) = hi - (lo + 1)
      /\ \A i \in 1 .. hi - (lo + 1) : v[i] = g[(lo + 1) + i - 1]
  <2>1. \A i \in 1 .. hi - (lo + 1) : g[(lo + 1) + i - 1] \in Nat
    OBVIOUS
  <2> QED
    BY <2>1 DEF Window
<1> HIDE DEF w, v
<1>3. Tail(w) \in Seq(Nat) /\ Len(Tail(w)) = Len(v)
  BY <1>1, <1>2
<1>4. \A i \in 1 .. Len(v) : v[i] = Tail(w)[i]
  BY <1>1, <1>2
<1>5. v = Tail(w)
  BY <1>2, <1>3, <1>4, SeqEqual
<1> QED BY <1>5 DEF IsTail, w, v

\* Shrinking it at its end drops the last element.
LEMMA WindowFront ==
  ASSUME NEW f, NEW g, NEW lo \in Nat, NEW hi \in Nat, lo < hi,
         \A i \in lo .. hi - 1 : f[i] \in Nat,
         \A i \in lo .. hi - 2 : g[i] = f[i]
  PROVE  Window(g, lo, hi - 1) = SubSeq(Window(f, lo, hi), 1, hi - lo - 1)
<1> DEFINE w == Window(f, lo, hi)
           v == Window(g, lo, hi - 1)
<1>1. /\ w \in Seq(Nat) /\ Len(w) = hi - lo
      /\ \A i \in 1 .. hi - lo : w[i] = f[lo + i - 1]
  <2>1. \A i \in 1 .. hi - lo : f[lo + i - 1] \in Nat
    OBVIOUS
  <2> QED
    BY <2>1 DEF Window
<1>2. /\ v \in Seq(Nat) /\ Len(v) = (hi - 1) - lo
      /\ \A i \in 1 .. (hi - 1) - lo : v[i] = g[lo + i - 1]
  <2>1. \A i \in 1 .. (hi - 1) - lo : g[lo + i - 1] \in Nat
    OBVIOUS
  <2> QED
    BY <2>1 DEF Window
<1> HIDE DEF w, v
<1>3. SubSeq(w, 1, hi - lo - 1) \in Seq(Nat) /\ Len(SubSeq(w, 1, hi - lo - 1)) = Len(v)
  BY <1>1, <1>2
<1>4. \A i \in 1 .. Len(v) : v[i] = SubSeq(w, 1, hi - lo - 1)[i]
  BY <1>1, <1>2
<1>5. v = SubSeq(w, 1, hi - lo - 1)
  BY <1>2, <1>3, <1>4, SeqEqual
<1> QED BY <1>5 DEF w, v
USE ThreadsAssumption, CapacityAssumption, MaxPushAssumption

\* Initially all cursors are zero and nobody is inside a call.
LEMMA IndexInvInit == Init => IndexInv
<1> SUFFICES ASSUME Init PROVE IndexInv
  OBVIOUS
<1>1. TypeOK
  BY DEF Init, TypeOK, PcTypeOK, CursorTypeOK, SlotTypeOK, Threads, OwnerLabels, ThiefLabels, Empty
<1>2. CursorInv /\ OwnerInv /\ ThiefInv
  BY DEF Init, CursorInv, OwnerInv, ThiefInv, LogicalBottom, maxSize, Threads
<1> QED BY <1>1, <1>2 DEF IndexInv

\* The remainder of a division by the capacity is a slot.
LEMMA SlotType == \A i \in Nat : Slot(i) \in 0 .. Capacity - 1
  BY DEF Slot

\* Every step moves a thread to a label of its role.
LEMMA PcTypeNext == PcTypeOK /\ [Next]_vars => PcTypeOK'
<1> SUFFICES ASSUME PcTypeOK, [Next]_vars PROVE PcTypeOK'
  OBVIOUS
<1> USE DEF PcTypeOK, OwnerLabels, ThiefLabels, Threads, slots, history
<1>1. CASE PushLoad
  BY <1>1 DEF PushLoad, Enter
<1>2. CASE PushWrite
  BY <1>2 DEF PushWrite, Goto
<1>3. CASE PushPublish
  BY <1>3 DEF PushPublish, Goto
<1>4. CASE PushCount
  BY <1>4 DEF PushCount, Leave
<1>5. CASE PopReserve
  BY <1>5 DEF PopReserve, Enter
<1>6. CASE PopMany
  BY <1>6 DEF PopMany, Goto, Claim
<1>7. CASE PopLast
  BY <1>7 DEF PopLast, Goto
<1>8. CASE PopNone
  BY <1>8 DEF PopNone, Goto
<1>9. CASE PopCasWin
  BY <1>9 DEF PopCasWin, Goto, Claim
<1>10. CASE PopCasLose
  BY <1>10 DEF PopCasLose, Goto
<1>11. CASE PopRestore
  BY <1>11 DEF PopRestore, Leave
<1>12. CASE LastRestore
  BY <1>12 DEF LastRestore, Goto
<1>13. CASE LastCount
  BY <1>13 DEF LastCount, Goto
<1>14. CASE LastRead
  BY <1>14 DEF LastRead, Goto, MoveOut
<1>15. CASE LastClear
  BY <1>15 DEF LastClear, Leave, LeaveEmpty
<1>16. CASE PopRead
  BY <1>16 DEF PopRead, Goto, MoveOut
<1>17. CASE PopClear
  BY <1>17 DEF PopClear, Goto, LeaveEmpty
<1>18. CASE PopCount
  BY <1>18 DEF PopCount, Leave
<1>19. ASSUME NEW q \in Thieves, tryStealTop(q) PROVE PcTypeOK'
  <2>1. CASE StealTop(q)
    BY <2>1 DEF StealTop, Enter
  <2>2. CASE StealBottom(q)
    BY <2>2 DEF StealBottom, Goto
  <2>3. CASE StealNone(q)
    BY <2>3 DEF StealNone, Leave
  <2>4. CASE StealCasWin(q)
    BY <2>4 DEF StealCasWin, Goto, Claim
  <2>5. CASE StealCasLose(q)
    BY <2>5 DEF StealCasLose, Leave
  <2>6. CASE StealCount(q)
    BY <2>6 DEF StealCount, Goto
  <2>7. CASE StealRead(q)
    BY <2>7 DEF StealRead, Goto, MoveOut
  <2>8. CASE StealClear(q)
    BY <2>8 DEF StealClear, Leave, LeaveEmpty
  <2> QED
    BY <1>19, <2>1, <2>2, <2>3, <2>4, <2>5, <2>6, <2>7, <2>8 DEF tryStealTop
<1>20. CASE UNCHANGED vars
  BY <1>20 DEF vars
<1> QED
  BY <1>1, <1>2, <1>3, <1>4, <1>5, <1>6, <1>7, <1>8, <1>9, <1>10, <1>11, <1>12, <1>13, <1>14, <1>15, <1>16, <1>17, <1>18, <1>19, <1>20
     DEF Next, tryPushBottom, tryPopBottom

\* The cursors stay natural numbers bounded by the pushes.
LEMMA CursorTypeNext == PcTypeOK /\ CursorTypeOK /\ CursorInv /\ OwnerInv /\ ThiefInv /\ [Next]_vars => CursorTypeOK'
<1> SUFFICES ASSUME PcTypeOK /\ CursorTypeOK /\ CursorInv /\ OwnerInv /\ ThiefInv, [Next]_vars PROVE CursorTypeOK'
  OBVIOUS
<1> USE DEF PcTypeOK, CursorInv, OwnerInv, ThiefInv, Threads, slots, history, LogicalBottom, maxSize, CursorTypeOK
<1>1. CASE PushLoad
  BY <1>1 DEF PushLoad, Enter
<1>2. CASE PushWrite
  BY <1>2 DEF PushWrite, Goto
<1>3. CASE PushPublish
  BY <1>3 DEF PushPublish, Goto
<1>4. CASE PushCount
  BY <1>4 DEF PushCount, Leave
<1>5. CASE PopReserve
  BY <1>5 DEF PopReserve, Enter
<1>6. CASE PopMany
  BY <1>6 DEF PopMany, Goto, Claim
<1>7. CASE PopLast
  BY <1>7 DEF PopLast, Goto
<1>8. CASE PopNone
  BY <1>8 DEF PopNone, Goto
<1>9. CASE PopCasWin
  BY <1>9 DEF PopCasWin, Goto, Claim
<1>10. CASE PopCasLose
  BY <1>10 DEF PopCasLose, Goto
<1>11. CASE PopRestore
  BY <1>11 DEF PopRestore, Leave
<1>12. CASE LastRestore
  BY <1>12 DEF LastRestore, Goto
<1>13. CASE LastCount
  BY <1>13 DEF LastCount, Goto
<1>14. CASE LastRead
  BY <1>14 DEF LastRead, Goto, MoveOut
<1>15. CASE LastClear
  BY <1>15 DEF LastClear, Leave, LeaveEmpty
<1>16. CASE PopRead
  BY <1>16 DEF PopRead, Goto, MoveOut
<1>17. CASE PopClear
  BY <1>17 DEF PopClear, Goto, LeaveEmpty
<1>18. CASE PopCount
  BY <1>18 DEF PopCount, Leave
<1>19. ASSUME NEW q \in Thieves, tryStealTop(q) PROVE CursorTypeOK'
  <2>1. CASE StealTop(q)
    BY <2>1 DEF StealTop, Enter
  <2>2. CASE StealBottom(q)
    BY <2>2 DEF StealBottom, Goto
  <2>3. CASE StealNone(q)
    BY <2>3 DEF StealNone, Leave
  <2>4. CASE StealCasWin(q)
    BY <2>4 DEF StealCasWin, Goto, Claim
  <2>5. CASE StealCasLose(q)
    BY <2>5 DEF StealCasLose, Leave
  <2>6. CASE StealCount(q)
    BY <2>6 DEF StealCount, Goto
  <2>7. CASE StealRead(q)
    BY <2>7 DEF StealRead, Goto, MoveOut
  <2>8. CASE StealClear(q)
    BY <2>8 DEF StealClear, Leave, LeaveEmpty
  <2> QED
    BY <1>19, <2>1, <2>2, <2>3, <2>4, <2>5, <2>6, <2>7, <2>8 DEF tryStealTop
<1>20. CASE UNCHANGED vars
  BY <1>20 DEF vars
<1> QED
  BY <1>1, <1>2, <1>3, <1>4, <1>5, <1>6, <1>7, <1>8, <1>9, <1>10, <1>11, <1>12, <1>13, <1>14, <1>15, <1>16, <1>17, <1>18, <1>19, <1>20
     DEF Next, tryPushBottom, tryPopBottom

\* An empty slot is a legal value of a slot.
LEMMA EmptyType == Empty \in 0 .. MaxPush
  BY DEF Empty

\* Claiming an index keeps the types of the history it changes.
LEMMA ClaimType ==
  ASSUME CursorTypeOK, SlotTypeOK, NEW p \in Threads, Claim(p)
  PROVE  /\ mine' \in [Threads -> 0 .. MaxPush]
         /\ at' \in [0 .. MaxPush -> 0 .. MaxPush]
         /\ taken' \subseteq 0 .. MaxPush
<1>1. at[idx[p]] \in 0 .. MaxPush
  BY DEF CursorTypeOK, SlotTypeOK
<1>2. mine' \in [Threads -> 0 .. MaxPush]
  BY <1>1 DEF SlotTypeOK, Claim
<1>3. at' \in [0 .. MaxPush -> 0 .. MaxPush]
  BY EmptyType DEF SlotTypeOK, Claim
<1>4. taken' \subseteq 0 .. MaxPush
  BY <1>1 DEF SlotTypeOK, Claim
<1> QED
  BY <1>2, <1>3, <1>4

\* Moving a task out of its slot reads a task or an empty slot.
LEMMA MoveOutType ==
  ASSUME CursorTypeOK, SlotTypeOK, NEW p \in Threads, MoveOut(p)
  PROVE  SlotTypeOK'
<1>1. Slot(idx[p]) \in 0 .. Capacity - 1
  BY SlotType DEF CursorTypeOK
<1>2. buffer[Slot(idx[p])] \in 0 .. MaxPush
  BY <1>1 DEF SlotTypeOK
<1> QED
  BY <1>2 DEF SlotTypeOK, MoveOut, history

\* Leaving the slot empty writes a legal value.
LEMMA LeaveEmptyType ==
  ASSUME CursorTypeOK, SlotTypeOK, NEW p \in Threads, LeaveEmpty(p)
  PROVE  SlotTypeOK'
<1>1. buffer' \in [0 .. Capacity - 1 -> 0 .. MaxPush]
  BY EmptyType DEF SlotTypeOK, LeaveEmpty
<1>2. got' \in [Threads -> 0 .. MaxPush] /\ mine' \in [Threads -> 0 .. MaxPush]
  BY EmptyType DEF SlotTypeOK, LeaveEmpty
<1> QED
  BY <1>1, <1>2 DEF SlotTypeOK, LeaveEmpty

\* The steps that write a slot or its history keep their types.
LEMMA SlotTypeNext == CursorTypeOK /\ SlotTypeOK /\ OwnerInv /\ [Next]_vars => SlotTypeOK'
<1> SUFFICES ASSUME CursorTypeOK, SlotTypeOK, OwnerInv, [Next]_vars PROVE SlotTypeOK'
  OBVIOUS
<1>1. CASE PushWrite
  <2>1. pushed + 1 \in 0 .. MaxPush
    BY <1>1 DEF PushWrite, Goto, OwnerInv, CursorTypeOK
  <2>2. buffer' \in [0 .. Capacity - 1 -> 0 .. MaxPush]
    BY <1>1, <2>1 DEF PushWrite, SlotTypeOK
  <2> QED
    BY <1>1, <2>2 DEF PushWrite, SlotTypeOK, Moving, history
<1>2. CASE PushPublish
  <2>1. pushed + 1 \in 0 .. MaxPush
    BY <1>2 DEF PushPublish, Goto, OwnerInv, CursorTypeOK
  <2>2. at' \in [0 .. MaxPush -> 0 .. MaxPush]
    BY <1>2, <2>1 DEF PushPublish, SlotTypeOK
  <2> QED
    BY <1>2, <2>2 DEF PushPublish, SlotTypeOK, slots
<1>3. ASSUME NEW p \in Threads, Claim(p), UNCHANGED slots PROVE SlotTypeOK'
  BY <1>3, ClaimType DEF SlotTypeOK, slots
<1>4. ASSUME UNCHANGED <<slots, history>> PROVE SlotTypeOK'
  BY <1>4 DEF SlotTypeOK, slots, history
<1>5. CASE PushLoad \/ PushCount \/ PopReserve \/ PopLast \/ PopNone
           \/ PopCasLose \/ PopRestore \/ LastRestore \/ LastCount \/ PopCount
  BY <1>4, <1>5 DEF PushLoad, PushCount, PopReserve, PopLast, PopNone, PopCasLose,
     PopRestore, LastRestore, LastCount, PopCount
<1>6. CASE PopMany \/ PopCasWin
  BY <1>3, <1>6 DEF PopMany, PopCasWin, Threads
<1>7. CASE LastRead \/ PopRead
  BY <1>7, MoveOutType DEF LastRead, PopRead, Threads
<1>8. CASE LastClear \/ PopClear
  BY <1>8, LeaveEmptyType DEF LastClear, PopClear, Threads
<1>9. ASSUME NEW q \in Thieves, tryStealTop(q) PROVE SlotTypeOK'
  <2> q \in Threads
    BY DEF Threads
  <2>1. CASE StealTop(q) \/ StealBottom(q) \/ StealNone(q) \/ StealCasLose(q) \/ StealCount(q)
    BY <1>4, <2>1 DEF StealTop, StealBottom, StealNone, StealCasLose, StealCount
  <2>2. CASE StealCasWin(q)
    BY <1>3, <2>2 DEF StealCasWin
  <2>3. CASE StealRead(q)
    BY <2>3, MoveOutType DEF StealRead
  <2>4. CASE StealClear(q)
    BY <2>4, LeaveEmptyType DEF StealClear
  <2> QED
    BY <1>9, <2>1, <2>2, <2>3, <2>4 DEF tryStealTop
<1>10. CASE UNCHANGED vars
  BY <1>4, <1>10 DEF vars, slots, history
<1> QED
  BY <1>1, <1>2, <1>5, <1>6, <1>7, <1>8, <1>9, <1>10
     DEF Next, tryPushBottom, tryPopBottom

\* top_ never passes the logical bottom, which never runs away from it.
LEMMA CursorNext == PcTypeOK /\ CursorTypeOK /\ CursorInv /\ OwnerInv /\ ThiefInv /\ [Next]_vars => CursorInv'
<1> SUFFICES ASSUME PcTypeOK /\ CursorTypeOK /\ CursorInv /\ OwnerInv /\ ThiefInv, [Next]_vars PROVE CursorInv'
  OBVIOUS
<1> USE DEF PcTypeOK, CursorInv, OwnerInv, ThiefInv, Threads, slots, history, LogicalBottom, maxSize, CursorTypeOK
<1>1. CASE PushLoad
  BY <1>1 DEF PushLoad, Enter
<1>2. CASE PushWrite
  BY <1>2 DEF PushWrite, Goto
<1>3. CASE PushPublish
  BY <1>3 DEF PushPublish, Goto
<1>4. CASE PushCount
  BY <1>4 DEF PushCount, Leave
<1>5. CASE PopReserve
  BY <1>5 DEF PopReserve, Enter
<1>6. CASE PopMany
  BY <1>6 DEF PopMany, Goto, Claim
<1>7. CASE PopLast
  BY <1>7 DEF PopLast, Goto
<1>8. CASE PopNone
  BY <1>8 DEF PopNone, Goto
<1>9. CASE PopCasWin
  BY <1>9 DEF PopCasWin, Goto, Claim
<1>10. CASE PopCasLose
  BY <1>10 DEF PopCasLose, Goto
<1>11. CASE PopRestore
  BY <1>11 DEF PopRestore, Leave
<1>12. CASE LastRestore
  BY <1>12 DEF LastRestore, Goto
<1>13. CASE LastCount
  BY <1>13 DEF LastCount, Goto
<1>14. CASE LastRead
  BY <1>14 DEF LastRead, Goto, MoveOut
<1>15. CASE LastClear
  BY <1>15 DEF LastClear, Leave, LeaveEmpty
<1>16. CASE PopRead
  BY <1>16 DEF PopRead, Goto, MoveOut
<1>17. CASE PopClear
  BY <1>17 DEF PopClear, Goto, LeaveEmpty
<1>18. CASE PopCount
  BY <1>18 DEF PopCount, Leave
<1>19. ASSUME NEW q \in Thieves, tryStealTop(q) PROVE CursorInv'
  <2>1. CASE StealTop(q)
    BY <2>1 DEF StealTop, Enter
  <2>2. CASE StealBottom(q)
    BY <2>2 DEF StealBottom, Goto
  <2>3. CASE StealNone(q)
    BY <2>3 DEF StealNone, Leave
  <2>4. CASE StealCasWin(q)
    BY <2>4 DEF StealCasWin, Goto, Claim
  <2>5. CASE StealCasLose(q)
    BY <2>5 DEF StealCasLose, Leave
  <2>6. CASE StealCount(q)
    BY <2>6 DEF StealCount, Goto
  <2>7. CASE StealRead(q)
    BY <2>7 DEF StealRead, Goto, MoveOut
  <2>8. CASE StealClear(q)
    BY <2>8 DEF StealClear, Leave, LeaveEmpty
  <2> QED
    BY <1>19, <2>1, <2>2, <2>3, <2>4, <2>5, <2>6, <2>7, <2>8 DEF tryStealTop
<1>20. CASE UNCHANGED vars
  BY <1>20 DEF vars
<1> QED
  BY <1>1, <1>2, <1>3, <1>4, <1>5, <1>6, <1>7, <1>8, <1>9, <1>10, <1>11, <1>12, <1>13, <1>14, <1>15, <1>16, <1>17, <1>18, <1>19, <1>20
     DEF Next, tryPushBottom, tryPopBottom

\* What the owner's locals say of the cursors stays true while thieves move top_.
LEMMA OwnerNext == PcTypeOK /\ CursorTypeOK /\ CursorInv /\ OwnerInv /\ ThiefInv /\ [Next]_vars => OwnerInv'
<1> SUFFICES ASSUME PcTypeOK /\ CursorTypeOK /\ CursorInv /\ OwnerInv /\ ThiefInv, [Next]_vars PROVE OwnerInv'
  OBVIOUS
<1> USE DEF PcTypeOK, CursorInv, OwnerInv, ThiefInv, Threads, slots, history, LogicalBottom, maxSize, CursorTypeOK
<1>1. CASE PushLoad
  BY <1>1 DEF PushLoad, Enter
<1>2. CASE PushWrite
  BY <1>2 DEF PushWrite, Goto
<1>3. CASE PushPublish
  BY <1>3 DEF PushPublish, Goto
<1>4. CASE PushCount
  BY <1>4 DEF PushCount, Leave
<1>5. CASE PopReserve
  BY <1>5 DEF PopReserve, Enter
<1>6. CASE PopMany
  BY <1>6 DEF PopMany, Goto, Claim
<1>7. CASE PopLast
  BY <1>7 DEF PopLast, Goto
<1>8. CASE PopNone
  BY <1>8 DEF PopNone, Goto
<1>9. CASE PopCasWin
  BY <1>9 DEF PopCasWin, Goto, Claim
<1>10. CASE PopCasLose
  BY <1>10 DEF PopCasLose, Goto
<1>11. CASE PopRestore
  BY <1>11 DEF PopRestore, Leave
<1>12. CASE LastRestore
  BY <1>12 DEF LastRestore, Goto
<1>13. CASE LastCount
  BY <1>13 DEF LastCount, Goto
<1>14. CASE LastRead
  BY <1>14 DEF LastRead, Goto, MoveOut
<1>15. CASE LastClear
  BY <1>15 DEF LastClear, Leave, LeaveEmpty
<1>16. CASE PopRead
  BY <1>16 DEF PopRead, Goto, MoveOut
<1>17. CASE PopClear
  BY <1>17 DEF PopClear, Goto, LeaveEmpty
<1>18. CASE PopCount
  BY <1>18 DEF PopCount, Leave
<1>19. ASSUME NEW q \in Thieves, tryStealTop(q) PROVE OwnerInv'
  <2>1. CASE StealTop(q)
    BY <2>1 DEF StealTop, Enter
  <2>2. CASE StealBottom(q)
    BY <2>2 DEF StealBottom, Goto
  <2>3. CASE StealNone(q)
    BY <2>3 DEF StealNone, Leave
  <2>4. CASE StealCasWin(q)
    BY <2>4 DEF StealCasWin, Goto, Claim
  <2>5. CASE StealCasLose(q)
    BY <2>5 DEF StealCasLose, Leave
  <2>6. CASE StealCount(q)
    BY <2>6 DEF StealCount, Goto
  <2>7. CASE StealRead(q)
    BY <2>7 DEF StealRead, Goto, MoveOut
  <2>8. CASE StealClear(q)
    BY <2>8 DEF StealClear, Leave, LeaveEmpty
  <2> QED
    BY <1>19, <2>1, <2>2, <2>3, <2>4, <2>5, <2>6, <2>7, <2>8 DEF tryStealTop
<1>20. CASE UNCHANGED vars
  BY <1>20 DEF vars
<1> QED
  BY <1>1, <1>2, <1>3, <1>4, <1>5, <1>6, <1>7, <1>8, <1>9, <1>10, <1>11, <1>12, <1>13, <1>14, <1>15, <1>16, <1>17, <1>18, <1>19, <1>20
     DEF Next, tryPushBottom, tryPopBottom

\* What a thief read stays good enough for its CAS.
LEMMA ThiefNext == PcTypeOK /\ CursorTypeOK /\ CursorInv /\ OwnerInv /\ ThiefInv /\ [Next]_vars => ThiefInv'
<1> SUFFICES ASSUME PcTypeOK /\ CursorTypeOK /\ CursorInv /\ OwnerInv /\ ThiefInv, [Next]_vars PROVE ThiefInv'
  OBVIOUS
<1> USE DEF PcTypeOK, CursorInv, OwnerInv, ThiefInv, Threads, slots, history, LogicalBottom, maxSize, CursorTypeOK
<1>1. CASE PushLoad
  BY <1>1 DEF PushLoad, Enter
<1>2. CASE PushWrite
  BY <1>2 DEF PushWrite, Goto
<1>3. CASE PushPublish
  BY <1>3 DEF PushPublish, Goto
<1>4. CASE PushCount
  BY <1>4 DEF PushCount, Leave
<1>5. CASE PopReserve
  BY <1>5 DEF PopReserve, Enter
<1>6. CASE PopMany
  BY <1>6 DEF PopMany, Goto, Claim
<1>7. CASE PopLast
  BY <1>7 DEF PopLast, Goto
<1>8. CASE PopNone
  BY <1>8 DEF PopNone, Goto
<1>9. CASE PopCasWin
  BY <1>9 DEF PopCasWin, Goto, Claim
<1>10. CASE PopCasLose
  BY <1>10 DEF PopCasLose, Goto
<1>11. CASE PopRestore
  BY <1>11 DEF PopRestore, Leave
<1>12. CASE LastRestore
  BY <1>12 DEF LastRestore, Goto
<1>13. CASE LastCount
  BY <1>13 DEF LastCount, Goto
<1>14. CASE LastRead
  BY <1>14 DEF LastRead, Goto, MoveOut
<1>15. CASE LastClear
  BY <1>15 DEF LastClear, Leave, LeaveEmpty
<1>16. CASE PopRead
  BY <1>16 DEF PopRead, Goto, MoveOut
<1>17. CASE PopClear
  BY <1>17 DEF PopClear, Goto, LeaveEmpty
<1>18. CASE PopCount
  BY <1>18 DEF PopCount, Leave
<1>19. ASSUME NEW q \in Thieves, tryStealTop(q) PROVE ThiefInv'
  <2>1. CASE StealTop(q)
    BY <2>1 DEF StealTop, Enter
  <2>2. CASE StealBottom(q)
    BY <2>2 DEF StealBottom, Goto
  <2>3. CASE StealNone(q)
    BY <2>3 DEF StealNone, Leave
  <2>4. CASE StealCasWin(q)
    BY <2>4 DEF StealCasWin, Goto, Claim
  <2>5. CASE StealCasLose(q)
    BY <2>5 DEF StealCasLose, Leave
  <2>6. CASE StealCount(q)
    BY <2>6 DEF StealCount, Goto
  <2>7. CASE StealRead(q)
    BY <2>7 DEF StealRead, Goto, MoveOut
  <2>8. CASE StealClear(q)
    BY <2>8 DEF StealClear, Leave, LeaveEmpty
  <2> QED
    BY <1>19, <2>1, <2>2, <2>3, <2>4, <2>5, <2>6, <2>7, <2>8 DEF tryStealTop
<1>20. CASE UNCHANGED vars
  BY <1>20 DEF vars
<1> QED
  BY <1>1, <1>2, <1>3, <1>4, <1>5, <1>6, <1>7, <1>8, <1>9, <1>10, <1>11, <1>12, <1>13, <1>14, <1>15, <1>16, <1>17, <1>18, <1>19, <1>20
     DEF Next, tryPushBottom, tryPopBottom

\* The index invariant holds in every reachable state.
THEOREM IndexInvariant == Spec => []IndexInv
<1>1. IndexInv /\ [Next]_vars => IndexInv'
  BY PcTypeNext, CursorTypeNext, SlotTypeNext, CursorNext, OwnerNext, ThiefNext
     DEF IndexInv, TypeOK
<1> QED
  BY <1>1, IndexInvInit, PTL DEF Spec

\* Type correctness of the deque, whose cursors and indices are bounded by the
\* pushes made although pops and failed steals move them back and forth.
THEOREM TypeCorrect == Spec => []TypeOK
<1>1. IndexInv => TypeOK
  BY DEF IndexInv
<1> QED
  BY <1>1, IndexInvariant, PTL

\* Between two calls of the owner top_ <= bottom_ <= top_ + maxSize(), so the
\* unsigned subtraction in tryPushBottom never wraps.
THEOREM CursorsStayInRange == Spec => []CursorsInRange
<1>1. IndexInv => CursorsInRange
  BY DEF IndexInv, TypeOK, CursorTypeOK, CursorInv, CursorsInRange, LogicalBottom, maxSize
<1> QED
  BY <1>1, IndexInvariant, PTL

\* Two indices less than a buffer length apart have different slots.
LEMMA SlotsDiffer ==
  ASSUME NEW a \in Nat, NEW b \in Nat, 0 < a - b, a - b < Capacity
  PROVE  Slot(a) # Slot(b)
<1> SUFFICES ASSUME a % Capacity = b % Capacity PROVE FALSE
  BY DEF Slot
<1> DEFINE k == (a \div Capacity) - (b \div Capacity)
<1>1. /\ a = Capacity * (a \div Capacity) + (a % Capacity)
      /\ b = Capacity * (b \div Capacity) + (b % Capacity)
      /\ a \div Capacity \in Int /\ b \div Capacity \in Int
      /\ a % Capacity \in Int
  OBVIOUS
<1>2. a - b = Capacity * k /\ k \in Int
  BY <1>1
<1> HIDE DEF k
<1>3. CASE k <= 0
  <2>1. Capacity * k <= 0
    BY <1>2, <1>3
  <2> QED
    BY <2>1, <1>2
<1>4. CASE k >= 1
  <2>1. Capacity * k >= Capacity
    BY <1>2, <1>4
  <2> QED
    BY <2>1, <1>2
<1> QED
  BY <1>2, <1>3, <1>4

\* A thief whose claim is the latest one can move its task out in peace: no push
\* writes into its slot.
THEOREM ReservedSlotStaysFree == Spec => []ReservedSlotIsFree
<1>1. IndexInv => ReservedSlotIsFree
  <2> SUFFICES ASSUME IndexInv, pc[Owner] = "push_write",
                      NEW p \in Moving, top <= idx[p] + 1
               PROVE  Slot(idx[p]) # Slot(idx[Owner])
    BY DEF ReservedSlotIsFree
  <2>1. /\ idx[p] \in Nat /\ idx[Owner] \in Nat /\ top \in Nat
        /\ idx[p] < top
        /\ idx[Owner] - top < Capacity - 1
        /\ top <= idx[Owner]
    BY DEF IndexInv, TypeOK, CursorTypeOK, CursorInv, OwnerInv, ThiefInv, Moving,
           Threads, LogicalBottom, maxSize
  <2> QED
    BY <2>1, SlotsDiffer
<1> QED
  BY <1>1, IndexInvariant, PTL

(***************************************************************************)
(* Refinement.  The pending tasks are distinct, were pushed, and are not   *)
(* taken: with IndexInv this makes every claim a claim of a fresh task.    *)
(***************************************************************************)
PendingAt(lo, hi, f, t, n) ==
  /\ \A i \in lo .. hi - 1 : f[i] \in 1 .. n /\ f[i] \notin t
  /\ \A i, j \in lo .. hi - 1 : i # j => f[i] # f[j]
  /\ t \subseteq 1 .. n

PendingInv == PendingAt(top, LogicalBottom, at, taken, pushed)

\* Adding a new number at the end keeps the window fresh.
LEMMA PutPending ==
  ASSUME NEW lo \in Nat, NEW hi \in Nat, NEW f, NEW g, NEW t, NEW n \in Nat,
         lo <= hi, PendingAt(lo, hi, f, t, n),
         \A i \in lo .. hi - 1 : g[i] = f[i], g[hi] = n + 1
  PROVE  PendingAt(lo, hi + 1, g, t, n + 1)
<1>1. \A i \in lo .. hi : i = hi \/ i \in lo .. hi - 1
  OBVIOUS
<1>2. \A i \in lo .. hi : g[i] \in 1 .. n + 1 /\ g[i] \notin t
  BY <1>1 DEF PendingAt
<1>3. \A i, j \in lo .. hi : i # j => g[i] # g[j]
  BY <1>1 DEF PendingAt
<1>4. t \subseteq 1 .. n + 1
  BY DEF PendingAt
<1>5. (hi + 1) - 1 = hi
  OBVIOUS
<1> QED
  BY <1>2, <1>3, <1>4, <1>5 DEF PendingAt

\* So does taking the last one,
LEMMA TakeBackPending ==
  ASSUME NEW lo \in Nat, NEW hi \in Nat, NEW f, NEW g, NEW t, NEW n \in Nat,
         lo < hi, PendingAt(lo, hi, f, t, n),
         \A i \in lo .. hi - 2 : g[i] = f[i]
  PROVE  PendingAt(lo, hi - 1, g, t \cup {f[hi - 1]}, n)
<1>1. \A i \in lo .. (hi - 1) - 1 : i \in lo .. hi - 2 /\ i \in lo .. hi - 1 /\ i # hi - 1
  OBVIOUS
<1>2. hi - 1 \in lo .. hi - 1
  OBVIOUS
<1> QED
  BY <1>1, <1>2 DEF PendingAt

\* and taking the first one.
LEMMA TakeFrontPending ==
  ASSUME NEW lo \in Nat, NEW hi \in Nat, NEW f, NEW g, NEW t, NEW n \in Nat,
         lo < hi, PendingAt(lo, hi, f, t, n),
         \A i \in lo + 1 .. hi - 1 : g[i] = f[i]
  PROVE  PendingAt(lo + 1, hi, g, t \cup {f[lo]}, n)
<1>1. \A i \in lo + 1 .. hi - 1 : i \in lo .. hi - 1 /\ i # lo
  OBVIOUS
<1>2. lo \in lo .. hi - 1
  OBVIOUS
<1> QED
  BY <1>1, <1>2 DEF PendingAt
\* The steps that neither publish nor claim leave the pending tasks alone.
LEMMA QuietSteps ==
  ASSUME IndexInv, [Next]_vars
  PROVE  \/ PushPublish \/ PopMany \/ PopCasWin
         \/ \E q \in Thieves : StealCasWin(q)
         \/ /\ LogicalBottom' = LogicalBottom
            /\ UNCHANGED <<top, pushed, at, taken>>
<1> USE DEF IndexInv, TypeOK, PcTypeOK, CursorTypeOK, OwnerInv, LogicalBottom, Threads
<1>1. CASE PushLoad \/ PushWrite \/ PushCount
  BY <1>1 DEF PushLoad, PushWrite, PushCount, Enter, Goto, Leave, history, slots
<1>2. CASE PopReserve \/ PopLast \/ PopNone \/ PopCasLose \/ PopRestore
  BY <1>2 DEF PopReserve, PopLast, PopNone, PopCasLose, PopRestore, Enter, Goto, Leave,
     history, slots
<1>3. CASE LastRestore \/ LastCount \/ LastRead \/ LastClear
  BY <1>3 DEF LastRestore, LastCount, LastRead, LastClear, Goto, Leave, MoveOut,
     LeaveEmpty, history
<1>4. CASE PopRead \/ PopClear \/ PopCount
  BY <1>4 DEF PopRead, PopClear, PopCount, Goto, Leave, MoveOut, LeaveEmpty, history
<1>5. ASSUME NEW q \in Thieves, tryStealTop(q), ~StealCasWin(q)
      PROVE  LogicalBottom' = LogicalBottom /\ UNCHANGED <<top, pushed, at, taken>>
  BY <1>5 DEF tryStealTop, StealTop, StealBottom, StealNone, StealCasLose, StealCount,
     StealRead, StealClear, Enter, Goto, Leave, MoveOut, LeaveEmpty, history
<1>6. CASE UNCHANGED vars
  BY <1>6 DEF vars
<1> QED
  BY <1>1, <1>2, <1>3, <1>4, <1>5, <1>6 DEF Next, tryPushBottom, tryPopBottom

\* What a step does to the index range [lo, hi) of pending tasks: nothing, ...
Keeps(lo, hi) ==
  /\ LogicalBottom = hi /\ LogicalBottom' = hi /\ top = lo
  /\ UNCHANGED <<top, pushed, at, taken>>

\* ... add the next task at its end, ...
Extends(lo, hi) ==
  /\ LogicalBottom = hi /\ LogicalBottom' = hi + 1
  /\ top = lo /\ top' = lo
  /\ hi - lo < maxSize /\ pushed + 1 \in Task
  /\ \A i \in lo .. hi - 1 : at'[i] = at[i]
  /\ at'[hi] = pushed + 1
  /\ pushed' = pushed + 1 /\ taken' = taken

\* ... take the task at its end, ...
TakesLast(lo, hi) ==
  /\ lo < hi /\ LogicalBottom = hi /\ LogicalBottom' = hi - 1
  /\ top = lo /\ top' = lo
  /\ \A i \in lo .. hi - 2 : at'[i] = at[i]
  /\ taken' = taken \cup {at[hi - 1]} /\ pushed' = pushed

\* ... or take the task at its start.
TakesFirst(lo, hi) ==
  /\ lo < hi /\ LogicalBottom = hi /\ LogicalBottom' = hi
  /\ top = lo /\ top' = lo + 1
  /\ \A i \in lo + 1 .. hi - 1 : at'[i] = at[i]
  /\ taken' = taken \cup {at[lo]} /\ pushed' = pushed

\* A step of the owner or of a thief does one of these four things.
LEMMA RangeSteps ==
  ASSUME IndexInv, [Next]_vars
  PROVE  \E lo, hi \in Nat :
           /\ lo <= hi /\ pushed \in Nat
           /\ Keeps(lo, hi) \/ Extends(lo, hi) \/ TakesLast(lo, hi) \/ TakesFirst(lo, hi)
<1>a. /\ top \in Nat /\ bottom \in Nat /\ pushed \in Nat /\ MaxPush \in Nat
      /\ at \in [0 .. MaxPush -> 0 .. MaxPush]
  BY DEF IndexInv, TypeOK, CursorTypeOK, SlotTypeOK
<1>b. \E hi \in Nat : LogicalBottom = hi /\ top <= hi /\ hi <= pushed /\ hi <= MaxPush
  BY DEF IndexInv, TypeOK, CursorTypeOK, CursorInv, LogicalBottom
<1>1. CASE PushPublish
  <2>1. Extends(top, bottom) /\ top <= bottom
    BY <1>1, <1>a DEF IndexInv, TypeOK, PcTypeOK, CursorTypeOK, CursorInv, OwnerInv,
       LogicalBottom, PushPublish, Goto, Threads, Extends, Task
  <2> QED
    BY <1>a, <2>1
<1>2. CASE PopMany
  <2>1. TakesLast(top, bottom + 1) /\ top <= bottom + 1
    BY <1>2, <1>a DEF IndexInv, TypeOK, PcTypeOK, CursorTypeOK, CursorInv, OwnerInv,
       LogicalBottom, PopMany, Goto, Claim, Threads, TakesLast
  <2> QED
    BY <1>a, <2>1
<1>3. CASE PopCasWin
  <2>1. TakesFirst(top, bottom + 1) /\ top <= bottom + 1
    BY <1>3, <1>a DEF IndexInv, TypeOK, PcTypeOK, CursorTypeOK, CursorInv, OwnerInv,
       LogicalBottom, PopCasWin, Goto, Claim, Threads, TakesFirst
  <2> QED
    BY <1>a, <2>1
<1>4. ASSUME NEW q \in Thieves, StealCasWin(q)
      PROVE  \E hi \in Nat : TakesFirst(top, hi) /\ top <= hi
  <2>1. PICK hi \in Nat : LogicalBottom = hi /\ top <= hi /\ hi <= pushed /\ hi <= MaxPush
    BY <1>b
  <2>2. LogicalBottom' = LogicalBottom
    BY <1>4 DEF StealCasWin, Goto, LogicalBottom, IndexInv, TypeOK, PcTypeOK, Threads
  <2>3. idx[q] = top /\ top' = top + 1 /\ pushed' = pushed
    BY <1>4 DEF StealCasWin, Claim
  <2>4. top < hi
    BY <1>4, <2>1, <2>3 DEF StealCasWin, Goto, IndexInv, ThiefInv
  <2>5. /\ taken' = taken \cup {at[top]}
        /\ at' = [at EXCEPT ![top] = Empty]
    BY <1>4, <2>3 DEF StealCasWin, Claim
  <2>6. \A i \in top + 1 .. hi - 1 : at'[i] = at[i]
    BY <1>a, <2>1, <2>5
  <2>7. TakesFirst(top, hi)
    BY <2>1, <2>2, <2>3, <2>4, <2>5, <2>6 DEF TakesFirst
  <2> QED
    BY <2>1, <2>7
<1>5. CASE LogicalBottom' = LogicalBottom /\ UNCHANGED <<top, pushed, at, taken>>
  <2>1. PICK hi \in Nat : LogicalBottom = hi /\ top <= hi /\ hi <= pushed /\ hi <= MaxPush
    BY <1>b
  <2>2. Keeps(top, hi)
    BY <1>5, <2>1 DEF Keeps
  <2> QED
    BY <1>a, <2>1, <2>2
<1> QED
  BY <1>a, <1>1, <1>2, <1>3, <1>4, <1>5, QuietSteps

\* The pending tasks stay distinct, pushed and not taken.
LEMMA PendingNext == IndexInv /\ PendingInv /\ [Next]_vars => PendingInv'
<1> SUFFICES ASSUME IndexInv, PendingInv, [Next]_vars PROVE PendingInv'
  OBVIOUS
<1>1. PICK lo \in Nat, hi \in Nat :
        /\ lo <= hi /\ pushed \in Nat
        /\ Keeps(lo, hi) \/ Extends(lo, hi) \/ TakesLast(lo, hi) \/ TakesFirst(lo, hi)
  BY RangeSteps
<1>2. CASE Keeps(lo, hi)
  BY <1>2 DEF Keeps, PendingInv
<1>3. CASE Extends(lo, hi)
  <2>1. PendingAt(lo, hi, at, taken, pushed)
    BY <1>3 DEF Extends, PendingInv
  <2>2. PendingAt(lo, hi + 1, at', taken, pushed + 1)
    BY <1>1, <1>3, <2>1, PutPending DEF Extends
  <2> QED
    BY <1>3, <2>2 DEF Extends, PendingInv
<1>4. CASE TakesLast(lo, hi)
  <2>1. PendingAt(lo, hi, at, taken, pushed)
    BY <1>4 DEF TakesLast, PendingInv
  <2>2. PendingAt(lo, hi - 1, at', taken \cup {at[hi - 1]}, pushed)
    BY <1>1, <1>4, <2>1, TakeBackPending DEF TakesLast
  <2> QED
    BY <1>4, <2>2 DEF TakesLast, PendingInv
<1>5. CASE TakesFirst(lo, hi)
  <2>1. PendingAt(lo, hi, at, taken, pushed)
    BY <1>5 DEF TakesFirst, PendingInv
  <2>2. PendingAt(lo + 1, hi, at', taken \cup {at[lo]}, pushed)
    BY <1>1, <1>5, <2>1, TakeFrontPending DEF TakesFirst
  <2> QED
    BY <1>5, <2>2 DEF TakesFirst, PendingInv
<1> QED
  BY <1>1, <1>2, <1>3, <1>4, <1>5

\* Every step of the deque is a step of the atomic queue, or leaves it alone.
LEMMA RefinementStep ==
  IndexInv /\ PendingInv /\ [Next]_vars => [Abstract!Next]_(Abstract!vars)
<1> SUFFICES ASSUME IndexInv, PendingInv, [Next]_vars
             PROVE  [Abstract!Next]_(Abstract!vars)
  OBVIOUS
<1>1. PICK lo \in Nat, hi \in Nat :
        /\ lo <= hi /\ pushed \in Nat
        /\ Keeps(lo, hi) \/ Extends(lo, hi) \/ TakesLast(lo, hi) \/ TakesFirst(lo, hi)
  BY RangeSteps
<1>2. Items = Window(at, lo, hi)
  BY <1>1 DEF Items, Keeps, Extends, TakesLast, TakesFirst
<1>3. PendingAt(lo, hi, at, taken, pushed)
  BY <1>1 DEF PendingInv, Keeps, Extends, TakesLast, TakesFirst
<1>4. \A i \in lo .. hi - 1 : at[i] \in Nat
  BY <1>1, <1>3 DEF PendingAt
<1> DEFINE w == Window(at, lo, hi)
<1>5. /\ w \in Seq(Nat) /\ Len(w) = hi - lo
      /\ \A i \in 1 .. hi - lo : w[i] = at[lo + i - 1]
  <2>1. \A i \in 1 .. hi - lo : at[lo + i - 1] \in Nat
    BY <1>1, <1>4
  <2> QED
    BY <1>1, <2>1 DEF Window
<1> HIDE DEF w
<1>6. CASE Keeps(lo, hi)
  <2>1. Items' = Items /\ taken' = taken
    BY <1>6 DEF Keeps, Items
  <2> QED
    BY <2>1 DEF Abstract!vars
<1>7. CASE Extends(lo, hi)
  <2>0. /\ \A i \in lo .. hi - 1 : at'[i] = at[i]
        /\ at'[hi] = pushed + 1 /\ at'[hi] \in Nat
    BY <1>1, <1>7 DEF Extends
  <2>1. Window(at', lo, hi + 1) = Append(Window(at, lo, hi), at'[hi])
    <3>1. IsAppend(Window(at', lo, hi + 1), Window(at, lo, hi), at'[hi])
      BY <1>1, <1>4, <2>0, WindowAppend
    <3> QED
      BY <3>1 DEF IsAppend
  <2>2. Items' = Append(Items, pushed + 1)
    BY <1>2, <1>7, <2>1 DEF Extends, Items
  <2>3. pushed + 1 \notin {w[i] : i \in 1 .. Len(w)} \cup taken
    <3>1. \A i \in 1 .. Len(w) : lo + i - 1 \in lo .. hi - 1 /\ w[i] = at[lo + i - 1]
      BY <1>1, <1>5
    <3>2. \A i \in 1 .. Len(w) : w[i] \in 1 .. pushed
      BY <1>3, <3>1 DEF PendingAt
    <3>3. taken \subseteq 1 .. pushed
      BY <1>3 DEF PendingAt
    <3> QED
      BY <1>1, <3>2, <3>3
  <2>4. Abstract!Put(pushed + 1)
    BY <1>2, <1>5, <1>7, <2>2, <2>3 DEF Abstract!Put, Abstract!Pending, Extends, w
  <2> QED
    BY <1>7, <2>4 DEF Abstract!Next, Extends
<1>8. CASE TakesLast(lo, hi)
  <2>1. Window(at', lo, hi - 1) = SubSeq(Window(at, lo, hi), 1, hi - lo - 1)
    BY <1>1, <1>4, <1>8, WindowFront DEF TakesLast
  <2>2. Items' = SubSeq(Items, 1, Len(Items) - 1)
    BY <1>2, <1>5, <1>8, <2>1 DEF TakesLast, Items, w
  <2>3. w # <<>> /\ w[Len(w)] = at[hi - 1]
    BY <1>1, <1>5, <1>8 DEF TakesLast
  <2>4. Abstract!TakeBack
    BY <1>2, <1>8, <2>2, <2>3 DEF Abstract!TakeBack, TakesLast, w
  <2> QED
    BY <2>4 DEF Abstract!Next
<1>9. CASE TakesFirst(lo, hi)
  <2>1. Window(at', lo + 1, hi) = Tail(Window(at, lo, hi))
    <3>1. lo < hi /\ \A i \in lo + 1 .. hi - 1 : at'[i] = at[i]
      BY <1>9 DEF TakesFirst
    <3>2. IsTail(Window(at', lo + 1, hi), Window(at, lo, hi))
      BY <1>4, <3>1, WindowTail
    <3> QED
      BY <3>2 DEF IsTail
  <2>2. Items' = Tail(Items)
    BY <1>2, <1>9, <2>1 DEF TakesFirst, Items
  <2>3. w # <<>> /\ Head(w) = at[lo]
    BY <1>1, <1>5, <1>9 DEF TakesFirst
  <2>4. Abstract!TakeFront
    BY <1>2, <1>9, <2>2, <2>3 DEF Abstract!TakeFront, TakesFirst, w
  <2> QED
    BY <2>4 DEF Abstract!Next
<1> QED
  BY <1>1, <1>6, <1>7, <1>8, <1>9

\* The deque implements the atomic queue: for any number of thieves and any
\* interleaving each pushed task is claimed at most once, by the owner from the
\* back or by a thief from the front, and none disappears from the index range.
THEOREM Refinement == Spec => ImplementsWorkDeque
<1>1. Init => PendingInv
  BY DEF Init, PendingInv, PendingAt, LogicalBottom, Threads
<1>2. Init => Abstract!Init
  <2> SUFFICES ASSUME Init PROVE Items = <<>> /\ taken = {}
    BY DEF Abstract!Init
  <2>1. top = 0 /\ LogicalBottom = 0 /\ taken = {}
    BY DEF Init, LogicalBottom, Threads
  <2>2. Items = [i \in 1 .. 0 |-> at[0 + i - 1]]
    BY <2>1 DEF Items, Window
  <2> QED
    BY <2>1, <2>2
<1> QED
  BY <1>1, <1>2, IndexInvariant, PendingNext, RefinementStep, PTL
     DEF Spec, ImplementsWorkDeque, Abstract!Spec

(***************************************************************************)
(* What the slots hold.  As long as no claimed slot was written over, the  *)
(* slot of every pending index holds the pending task, that of an index    *)
(* being pushed the new task, and that of an index being moved out the     *)
(* claimed task; and a slot that is being moved out is nobody else's.      *)
(***************************************************************************)
ReadLabels  == {"steal_count", "steal_read", "last_restore", "last_count", "last_read",
                "pop_read"}
ClearLabels == {"steal_clear", "last_clear", "pop_clear"}
Holds(p)    == pc[p] \in ReadLabels \cup ClearLabels

PopIndexInv ==
  /\ pc[Owner] \in {"last_count", "last_read", "last_clear"} =>
       top = bottom /\ idx[Owner] + 1 = bottom
  /\ pc[Owner] \in {"pop_read", "pop_clear"} => idx[Owner] = bottom

PendingStored == \A i \in top .. LogicalBottom - 1 : buffer[Slot(i)] = at[i]

PushStored == pc[Owner] = "push_publish" => buffer[Slot(bottom)] = pushed + 1

HeldStored ==
  \A p \in Threads :
    /\ pc[p] \in ReadLabels => buffer[Slot(idx[p])] = mine[p]
    /\ pc[p] \in ClearLabels => got[p] = mine[p]

HeldApart ==
  \A p \in Threads : Holds(p) =>
    /\ \A i \in top .. LogicalBottom - 1 : Slot(i) # Slot(idx[p])
    /\ pc[Owner] = "push_publish" => Slot(bottom) # Slot(idx[p])
    /\ \A r \in Threads : Holds(r) /\ r # p => Slot(idx[r]) # Slot(idx[p])

StoredInv == PendingStored /\ PushStored /\ HeldStored /\ HeldApart
SlotInv   == PopIndexInv /\ (overrun = {} => StoredInv)

\* The owner keeps the index it claimed until it has moved the task out.
LEMMA PopIndexNext == IndexInv /\ PopIndexInv /\ [Next]_vars => PopIndexInv'
<1> SUFFICES ASSUME IndexInv, PopIndexInv, [Next]_vars PROVE PopIndexInv'
  OBVIOUS
<1> USE DEF IndexInv, TypeOK, PcTypeOK, CursorTypeOK, CursorInv, OwnerInv, LogicalBottom, Threads,
            PopIndexInv
<1>1. CASE tryPushBottom
  BY <1>1 DEF tryPushBottom, PushLoad, PushWrite, PushPublish, PushCount, Enter, Goto, Leave
<1>2. CASE tryPopBottom
  BY <1>2 DEF tryPopBottom, PopReserve, PopMany, PopLast, PopNone, PopCasWin, PopCasLose,
     PopRestore, LastRestore, LastCount, LastRead, LastClear, PopRead, PopClear, PopCount,
     Enter, Goto, Leave
<1>3. ASSUME NEW p \in Thieves, tryStealTop(p), ~StealCasWin(p) PROVE PopIndexInv'
  BY <1>3 DEF tryStealTop, StealTop, StealBottom, StealNone, StealCasLose,
     StealCount, StealRead, StealClear, Enter, Goto, Leave
<1>4. ASSUME NEW p \in Thieves, StealCasWin(p) PROVE PopIndexInv'
  BY <1>4 DEF StealCasWin, Goto, ThiefInv
<1>5. CASE UNCHANGED vars
  BY <1>5 DEF vars
<1> QED
  BY <1>1, <1>2, <1>3, <1>4, <1>5 DEF Next, tryStealTop

\* Where the indices are when the slots hold what they should.
SlotFacts ==
  /\ top \in Nat /\ bottom \in Nat /\ LogicalBottom \in 0 .. MaxPush
  /\ \A p \in Threads : idx[p] \in Nat
  /\ top <= LogicalBottom /\ LogicalBottom - top < Capacity
  /\ pc \in [Threads -> OwnerLabels \cup ThiefLabels]
  /\ pc[Owner] \in OwnerLabels
  /\ \A p \in Thieves : pc[p] \in ThiefLabels
  /\ \A i \in Nat : Slot(i) \in 0 .. Capacity - 1
  /\ buffer \in [0 .. Capacity - 1 -> 0 .. MaxPush]
  /\ got \in [Threads -> 0 .. MaxPush] /\ mine \in [Threads -> 0 .. MaxPush]
  /\ at \in [0 .. MaxPush -> 0 .. MaxPush]

LEMMA SlotFactsHold == IndexInv => SlotFacts
<1> SUFFICES ASSUME IndexInv PROVE SlotFacts
  OBVIOUS
<1>1. \A i \in Nat : Slot(i) \in 0 .. Capacity - 1
  BY DEF Slot
<1>2. /\ top \in Nat /\ bottom \in Nat /\ LogicalBottom \in 0 .. MaxPush
      /\ top <= LogicalBottom /\ LogicalBottom - top < Capacity
      /\ \A p \in Threads : idx[p] \in Nat
  BY DEF IndexInv, TypeOK, CursorTypeOK, CursorInv, LogicalBottom, maxSize
<1> QED
  BY <1>1, <1>2 DEF SlotFacts, IndexInv, TypeOK, PcTypeOK, SlotTypeOK

\* A step that touches neither slots nor claims keeps what the slots hold.
LEMMA QuietSlots ==
  ASSUME StoredInv,
         UNCHANGED <<buffer, got, at, mine, top, LogicalBottom>>,
         \A p \in Threads : Holds(p)' => Holds(p) /\ idx'[p] = idx[p]
                              /\ (pc'[p] \in ReadLabels <=> pc[p] \in ReadLabels)
                              /\ (pc'[p] \in ClearLabels <=> pc[p] \in ClearLabels),
         pc'[Owner] = "push_publish" =>
           pc[Owner] = "push_publish" /\ bottom' = bottom /\ pushed' = pushed
  PROVE  StoredInv'
<1>1. PendingStored' /\ PushStored'
  BY DEF StoredInv, PendingStored, PushStored
<1>2. HeldStored'
  BY DEF StoredInv, HeldStored, Holds
<1>3. HeldApart'
  BY DEF StoredInv, HeldApart
<1> QED
  BY <1>1, <1>2, <1>3 DEF StoredInv

LEMMA PushWriteSlots ==
  ASSUME IndexInv, StoredInv, PushWrite, overrun' = {}
  PROVE  StoredInv'
<1>0. SlotFacts
  BY SlotFactsHold
<1>1. /\ idx[Owner] = bottom /\ LogicalBottom = bottom /\ LogicalBottom' = bottom
      /\ pc[Owner] = "push_write" /\ pc' = [pc EXCEPT ![Owner] = "push_publish"]
      /\ buffer' = [buffer EXCEPT ![Slot(bottom)] = pushed + 1]
      /\ bottom - top < Capacity - 1
      /\ UNCHANGED <<idx, top, bottom, pushed, at, mine, got>>
  BY <1>0 DEF SlotFacts, PushWrite, Goto, IndexInv, OwnerInv, LogicalBottom, Threads, history,
         maxSize
<1>2. \A p \in Moving : Slot(idx[p]) # Slot(bottom)
  BY <1>1 DEF PushWrite
<1>3. \A p \in Threads : Holds(p) => p \in Moving
  BY <1>0, <1>1 DEF SlotFacts, Holds, Moving, Threads, ReadLabels, ClearLabels, ThiefLabels
<1>4. \A p \in Threads : p # Owner => pc'[p] = pc[p]
  BY <1>0, <1>1 DEF SlotFacts
<1>5. ~Holds(Owner) /\ ~Holds(Owner)' /\ Owner \in Threads /\ pc'[Owner] = "push_publish"
  BY <1>0, <1>1 DEF SlotFacts, Holds, Threads, ReadLabels, ClearLabels
<1>6. PendingStored'
  <2>1. \A i \in top .. bottom - 1 : Slot(i) # Slot(bottom) /\ Slot(i) \in 0 .. Capacity - 1
    <3> SUFFICES ASSUME NEW i \in top .. bottom - 1
                 PROVE  Slot(i) # Slot(bottom) /\ Slot(i) \in 0 .. Capacity - 1
      OBVIOUS
    <3>1. i \in Nat /\ bottom \in Nat /\ 0 < bottom - i /\ bottom - i < Capacity
      BY <1>0, <1>1 DEF SlotFacts
    <3> QED
      BY <1>0, <3>1, SlotsDiffer DEF SlotFacts
  <2> QED
    BY <1>0, <1>1, <2>1 DEF SlotFacts, StoredInv, PendingStored
<1>7. PushStored'
  BY <1>0, <1>1 DEF SlotFacts, PushStored
<1>8. HeldStored'
  BY <1>0, <1>1, <1>2, <1>3, <1>4, <1>5 DEF SlotFacts, StoredInv, HeldStored, Holds
<1>9. HeldApart'
  BY <1>1, <1>2, <1>3, <1>4, <1>5 DEF StoredInv, HeldApart, Holds
<1> QED
  BY <1>6, <1>7, <1>8, <1>9 DEF StoredInv

LEMMA PushPublishSlots ==
  ASSUME IndexInv, StoredInv, PushPublish
  PROVE  StoredInv'
<1>0. SlotFacts
  BY SlotFactsHold
<1>1. /\ LogicalBottom = bottom /\ LogicalBottom' = bottom + 1 /\ (bottom + 1) - 1 = bottom
      /\ pc[Owner] = "push_publish" /\ pc' = [pc EXCEPT ![Owner] = "push_count"]
      /\ at' = [at EXCEPT ![bottom] = pushed + 1] /\ bottom \in 0 .. MaxPush
      /\ UNCHANGED <<idx, top, buffer, mine, got>>
  BY <1>0 DEF SlotFacts, PushPublish, Goto, IndexInv, TypeOK, CursorTypeOK, OwnerInv, LogicalBottom, Threads,
         slots
<1>2. \A p \in Threads : p # Owner => pc'[p] = pc[p]
  BY <1>0, <1>1 DEF SlotFacts
<1>3. ~Holds(Owner) /\ ~Holds(Owner)' /\ Owner \in Threads /\ pc'[Owner] = "push_count"
  BY <1>0, <1>1 DEF SlotFacts, Holds, Threads, ReadLabels, ClearLabels
<1>4. PendingStored'
  <2>1. \A i \in top .. bottom : i = bottom \/ i \in top .. bottom - 1
    BY <1>0 DEF SlotFacts
  <2>2. \A i \in top .. bottom - 1 : at'[i] = at[i]
    BY <1>0, <1>1 DEF SlotFacts
  <2> QED
    BY <1>0, <1>1, <2>1, <2>2 DEF SlotFacts, StoredInv, PendingStored, PushStored
<1>5. PushStored'
  BY <1>3 DEF PushStored
<1>6. HeldStored'
  BY <1>1, <1>2, <1>3 DEF StoredInv, HeldStored, Holds
<1>7. HeldApart'
  <2>1. \A i \in top .. bottom : i = bottom \/ i \in top .. bottom - 1
    BY <1>0 DEF SlotFacts
  <2> QED
    BY <1>1, <1>2, <1>3, <2>1 DEF StoredInv, HeldApart, Holds
<1> QED
  BY <1>4, <1>5, <1>6, <1>7 DEF StoredInv

\* A claim: the pending range loses the index, which the thread now holds.
LEMMA ClaimSlots ==
  ASSUME IndexInv, StoredInv, NEW p \in Threads, NEW i \in top .. LogicalBottom - 1,
         i <= MaxPush, ~Holds(p), pc'[p] \in ReadLabels,
         pc' = [pc EXCEPT ![p] = pc'[p]], idx' = idx, idx[p] = i,
         mine' = [mine EXCEPT ![p] = at[i]], at' = [at EXCEPT ![i] = Empty],
         UNCHANGED <<buffer, got, pushed>>,
         top' \in Nat, LogicalBottom' \in Nat,
         \A j \in top' .. LogicalBottom' - 1 : j \in top .. LogicalBottom - 1 /\ j # i,
         pc'[Owner] = "push_publish" => bottom' = bottom /\ LogicalBottom = bottom
  PROVE  StoredInv'
<1>0. SlotFacts
  BY SlotFactsHold
<1>1. \A r \in Threads : r # p => pc'[r] = pc[r]
  BY <1>0 DEF SlotFacts
<1>2. \A j \in top .. LogicalBottom - 1 : j # i => Slot(j) # Slot(i)
  <2> SUFFICES ASSUME NEW j \in top .. LogicalBottom - 1, j # i PROVE Slot(j) # Slot(i)
    OBVIOUS
  <2>0. top \in Nat /\ LogicalBottom \in Nat /\ LogicalBottom - top < Capacity
    BY <1>0 DEF SlotFacts
  <2>1. i \in Nat /\ j \in Nat /\ j - i < Capacity /\ i - j < Capacity
    BY <2>0
  <2>2. CASE j > i
    BY <2>1, <2>2, SlotsDiffer
  <2>3. CASE i > j
    BY <2>1, <2>3, SlotsDiffer
  <2> QED
    BY <2>1, <2>2, <2>3
<1>3. PendingStored'
  <2>1. \A j \in top .. LogicalBottom - 1 : j \in 0 .. MaxPush
    BY <1>0 DEF SlotFacts
  <2>2. \A j \in top' .. LogicalBottom' - 1 : at'[j] = at[j]
    BY <1>0, <2>1 DEF SlotFacts
  <2> QED
    BY <2>2 DEF StoredInv, PendingStored
<1>4. PushStored'
  BY <1>0, <1>1 DEF SlotFacts, StoredInv, PushStored, ReadLabels, Threads
<1>5. HeldStored'
  BY <1>0, <1>1 DEF SlotFacts, StoredInv, HeldStored, PendingStored, ReadLabels, ClearLabels
<1>6. HeldApart'
  <2>1. \A r \in Threads : Holds(r)' => r = p \/ Holds(r)
    BY <1>1 DEF Holds
  <2>2. pc'[Owner] = "push_publish" => pc[Owner] = "push_publish" /\ Slot(bottom) # Slot(i)
    <3>1. pc'[Owner] = "push_publish" => pc[Owner] = "push_publish" /\ bottom = LogicalBottom
      BY <1>1 DEF ReadLabels, Threads
    <3>2. i \in Nat /\ LogicalBottom \in Nat /\ 0 < LogicalBottom - i
          /\ LogicalBottom - i < Capacity
      BY <1>0 DEF SlotFacts
    <3> QED
      BY <3>1, <3>2, SlotsDiffer
  <2> QED
    BY <1>1, <1>2, <2>1, <2>2 DEF StoredInv, HeldApart
<1> QED
  BY <1>3, <1>4, <1>5, <1>6 DEF StoredInv

\* The first half of a move takes the claimed task out of its slot.
LEMMA MoveOutSlots ==
  ASSUME IndexInv, StoredInv, NEW p \in Threads, MoveOut(p), idx' = idx,
         pc[p] \in ReadLabels, pc'[p] \in ClearLabels, pc' = [pc EXCEPT ![p] = pc'[p]],
         UNCHANGED <<top, bottom, LogicalBottom>>
  PROVE  StoredInv'
<1>0. SlotFacts
  BY SlotFactsHold
<1>1. \A r \in Threads : r # p => pc'[r] = pc[r]
  BY <1>0 DEF SlotFacts
<1>2. /\ got' = [got EXCEPT ![p] = buffer[Slot(idx[p])]]
      /\ UNCHANGED <<buffer, at, mine, pushed>>
  BY DEF MoveOut, history
<1>3. pc'[Owner] = "push_publish" => pc[Owner] = "push_publish"
  BY <1>1 DEF ClearLabels, Threads
<1>4. PendingStored' /\ PushStored'
  BY <1>2, <1>3 DEF StoredInv, PendingStored, PushStored
<1>5. HeldStored'
  BY <1>0, <1>1, <1>2 DEF SlotFacts, StoredInv, HeldStored, ReadLabels, ClearLabels
<1>6. HeldApart'
  BY <1>1, <1>3 DEF StoredInv, HeldApart, Holds
<1> QED
  BY <1>4, <1>5, <1>6 DEF StoredInv

\* The second half empties a slot that nobody else has a use for.
LEMMA LeaveEmptySlots ==
  ASSUME IndexInv, StoredInv, NEW p \in Threads, LeaveEmpty(p),
         pc[p] \in ClearLabels, ~Holds(p)', pc'[p] # "push_publish",
         pc' = [pc EXCEPT ![p] = pc'[p]],
         \A r \in Threads : r # p => idx'[r] = idx[r],
         UNCHANGED <<top, bottom, LogicalBottom>>
  PROVE  StoredInv'
<1>0. SlotFacts
  BY SlotFactsHold
<1>1. \A r \in Threads : r # p => pc'[r] = pc[r]
  BY <1>0 DEF SlotFacts
<1>2. /\ buffer' = [buffer EXCEPT ![Slot(idx[p])] = Empty]
      /\ got' = [got EXCEPT ![p] = Empty] /\ mine' = [mine EXCEPT ![p] = Empty]
      /\ UNCHANGED <<at, pushed>>
  BY DEF LeaveEmpty
<1>3. Holds(p) /\ (pc'[Owner] = "push_publish" => pc[Owner] = "push_publish")
  BY <1>1 DEF Holds, Threads
<1>4. PendingStored'
  <2>1. \A i \in top .. LogicalBottom - 1 : i \in Nat
    BY <1>0 DEF SlotFacts
  <2>2. \A i \in top .. LogicalBottom - 1 : Slot(i) # Slot(idx[p])
    BY <1>3 DEF StoredInv, HeldApart
  <2> QED
    BY <1>0, <1>2, <2>1, <2>2 DEF SlotFacts, StoredInv, PendingStored
<1>5. PushStored'
  BY <1>0, <1>2, <1>3 DEF SlotFacts, StoredInv, PushStored, HeldApart
<1>6. \A r \in Threads : Holds(r)' => r # p /\ Holds(r) /\ Slot(idx[r]) # Slot(idx[p])
  BY <1>1, <1>3 DEF StoredInv, HeldApart, Holds
<1>7. HeldStored'
  BY <1>0, <1>1, <1>2, <1>6 DEF SlotFacts, StoredInv, HeldStored, Holds
<1>8. HeldApart'
  BY <1>1, <1>3, <1>6 DEF StoredInv, HeldApart
<1> QED
  BY <1>4, <1>5, <1>7, <1>8 DEF StoredInv

\* Every step keeps what the slots hold, as long as it overruns none.
LEMMA StoredNext ==
  ASSUME IndexInv, PopIndexInv, StoredInv, [Next]_vars, overrun' = {}
  PROVE  StoredInv'
<1>0. SlotFacts
  BY SlotFactsHold
<1>n. /\ top \in Nat /\ bottom \in Nat /\ LogicalBottom \in Nat
      /\ top <= LogicalBottom /\ LogicalBottom <= MaxPush
  BY <1>0 DEF SlotFacts
<1>a. Owner \in Threads /\ \A p \in Thieves : p \in Threads /\ p # Owner
  BY DEF Threads
<1>b. ASSUME NEW p \in Threads, NEW from, NEW to, Goto(p, from, to)
      PROVE  /\ pc[p] = from /\ pc'[p] = to /\ pc' = [pc EXCEPT ![p] = pc'[p]] /\ idx' = idx
             /\ \A r \in Threads : r # p => pc'[r] = pc[r]
  BY <1>0, <1>b DEF SlotFacts, Goto
<1>c. ASSUME NEW p \in Threads, NEW from, Leave(p, from)
      PROVE  /\ pc[p] = from /\ pc'[p] = "idle" /\ pc' = [pc EXCEPT ![p] = pc'[p]]
             /\ \A r \in Threads : r # p => pc'[r] = pc[r] /\ idx'[r] = idx[r]
  BY <1>0, <1>c DEF SlotFacts, Leave, IndexInv, TypeOK, CursorTypeOK
<1>d. ASSUME NEW p \in Threads, NEW to, NEW i, Enter(p, to, i)
      PROVE  /\ pc[p] = "idle" /\ pc'[p] = to
             /\ \A r \in Threads : r # p => pc'[r] = pc[r] /\ idx'[r] = idx[r]
  BY <1>0, <1>d DEF SlotFacts, Enter, IndexInv, TypeOK, CursorTypeOK
<1>1. CASE PushWrite
  BY <1>1, PushWriteSlots
<1>2. CASE PushPublish
  BY <1>2, PushPublishSlots
<1>3. CASE PopMany
  <2>1. /\ pc[Owner] = "pop_top" /\ pc'[Owner] = "pop_read"
        /\ LogicalBottom = bottom + 1 /\ LogicalBottom' = bottom /\ idx[Owner] = bottom
        /\ top <= bottom /\ UNCHANGED <<top, bottom, buffer, got>>
    <3>1. pc[Owner] = "pop_top" /\ pc'[Owner] = "pop_read"
      BY <1>3, <1>a, <1>b DEF PopMany
    <3>2. idx[Owner] = bottom /\ top < idx[Owner] /\ UNCHANGED <<top, bottom, buffer, got>>
      BY <1>3, <3>1 DEF PopMany, IndexInv, OwnerInv, slots
    <3> QED
      BY <1>0, <3>1, <3>2 DEF SlotFacts, LogicalBottom
  <2>2. /\ idx' = idx /\ pc' = [pc EXCEPT ![Owner] = pc'[Owner]]
        /\ mine' = [mine EXCEPT ![Owner] = at[bottom]] /\ at' = [at EXCEPT ![bottom] = Empty]
        /\ pushed' = pushed /\ ~Holds(Owner) /\ pc'[Owner] \in ReadLabels
    BY <1>3, <1>a, <1>b, <2>1 DEF PopMany, Claim, Holds, ReadLabels, ClearLabels
  <2>3. /\ bottom \in top .. LogicalBottom - 1 /\ bottom <= MaxPush
        /\ \A j \in top' .. LogicalBottom' - 1 : j \in top .. LogicalBottom - 1 /\ j # bottom
        /\ top' \in Nat /\ LogicalBottom' \in Nat
    BY <1>n, <2>1
  <2> QED
    BY <1>a, <2>1, <2>2, <2>3, ClaimSlots
<1>4. CASE PopCasWin
  <2>1. /\ pc[Owner] = "pop_cas" /\ pc'[Owner] = "last_restore"
        /\ LogicalBottom = bottom + 1 /\ LogicalBottom' = bottom + 1 /\ idx[Owner] = bottom
        /\ top = bottom /\ top' = bottom + 1 /\ UNCHANGED <<bottom, buffer, got>>
    BY <1>0, <1>4 DEF SlotFacts, PopCasWin, Goto, LogicalBottom, IndexInv, OwnerInv, slots, Threads
  <2>2. /\ idx' = idx /\ pc' = [pc EXCEPT ![Owner] = pc'[Owner]]
        /\ mine' = [mine EXCEPT ![Owner] = at[bottom]] /\ at' = [at EXCEPT ![bottom] = Empty]
        /\ pushed' = pushed /\ ~Holds(Owner) /\ pc'[Owner] \in ReadLabels
    BY <1>4, <1>a, <1>b, <2>1 DEF PopCasWin, Claim, Holds, ReadLabels, ClearLabels
  <2>3. /\ bottom \in Nat /\ bottom \in top .. LogicalBottom - 1 /\ bottom <= MaxPush
        /\ top' \in Nat /\ LogicalBottom' \in Nat
    BY <1>n, <2>1
  <2>4. \A j \in top' .. LogicalBottom' - 1 : j \in top .. LogicalBottom - 1 /\ j # bottom
    BY <2>1, <2>3
  <2> QED
    BY <1>a, <2>1, <2>2, <2>3, <2>4, ClaimSlots
<1>5. ASSUME NEW p \in Thieves, StealCasWin(p)
      PROVE  StoredInv'
  <2>1. /\ pc[p] = "steal_cas" /\ pc'[p] = "steal_count" /\ pc'[Owner] = pc[Owner]
        /\ LogicalBottom' = LogicalBottom /\ idx[p] = top
        /\ top < LogicalBottom /\ top' = top + 1 /\ UNCHANGED <<bottom, buffer, got>>
    BY <1>0, <1>5, <1>a DEF SlotFacts, StealCasWin, Goto, LogicalBottom, IndexInv, ThiefInv, slots
  <2>2. pc[Owner] = "push_publish" => LogicalBottom = bottom
    BY DEF LogicalBottom
  <2>3. /\ idx' = idx /\ pc' = [pc EXCEPT ![p] = pc'[p]]
        /\ mine' = [mine EXCEPT ![p] = at[top]] /\ at' = [at EXCEPT ![top] = Empty]
        /\ pushed' = pushed /\ ~Holds(p) /\ pc'[p] \in ReadLabels
    BY <1>5, <1>a, <1>b, <2>1 DEF StealCasWin, Claim, Holds, ReadLabels, ClearLabels
  <2>4. /\ top \in Nat /\ top \in top .. LogicalBottom - 1 /\ top <= MaxPush
        /\ top' \in Nat /\ LogicalBottom \in Nat /\ LogicalBottom' \in Nat
    BY <1>n, <2>1
  <2>5. \A j \in top' .. LogicalBottom' - 1 : j \in top .. LogicalBottom - 1 /\ j # top
    BY <2>1, <2>4
  <2> QED
    BY <1>a, <2>1, <2>2, <2>3, <2>4, <2>5, ClaimSlots
<1>6. CASE LastRead \/ PopRead
  <2>1. LogicalBottom' = LogicalBottom
    BY <1>0, <1>6, <1>a DEF SlotFacts, LastRead, PopRead, Goto, LogicalBottom
  <2> QED
    BY <1>6, <1>a, <1>b, <2>1, MoveOutSlots DEF LastRead, PopRead, ReadLabels, ClearLabels
<1>7. ASSUME NEW p \in Thieves, StealRead(p) PROVE StoredInv'
  <2>1. LogicalBottom' = LogicalBottom
    BY <1>0, <1>7, <1>a DEF SlotFacts, StealRead, Goto, LogicalBottom
  <2> QED
    BY <1>7, <1>a, <1>b, <2>1, MoveOutSlots DEF StealRead, ReadLabels, ClearLabels
<1>8. CASE LastClear \/ PopClear
  <2>1. LogicalBottom' = LogicalBottom
    BY <1>0, <1>8, <1>a DEF SlotFacts, LastClear, PopClear, Goto, Leave, LogicalBottom
  <2> QED
    BY <1>8, <1>a, <1>b, <1>c, <2>1, LeaveEmptySlots
       DEF LastClear, PopClear, Holds, ReadLabels, ClearLabels
<1>9. ASSUME NEW p \in Thieves, StealClear(p) PROVE StoredInv'
  <2>1. LogicalBottom' = LogicalBottom
    BY <1>0, <1>9, <1>a DEF SlotFacts, StealClear, Leave, LogicalBottom
  <2> QED
    BY <1>9, <1>a, <1>c, <2>1, LeaveEmptySlots
       DEF StealClear, Holds, ReadLabels, ClearLabels
<1>10. CASE PushLoad \/ PushCount \/ PopReserve \/ PopLast \/ PopNone \/ PopCasLose \/ PopRestore
              \/ LastRestore \/ LastCount \/ PopCount
  <2>1. LogicalBottom' = LogicalBottom /\ UNCHANGED <<top, at>>
    <3>1. UNCHANGED <<top, at>>
      BY <1>10 DEF PushLoad, PushCount, PopReserve, PopLast, PopNone, PopCasLose, PopRestore,
         LastRestore, LastCount, PopCount, history
    <3>2. CASE PushLoad \/ PopReserve
      <4>1. pc[Owner] = "idle" /\ pc'[Owner] \in {"push_write", "pop_top"}
        BY <1>a, <1>d, <3>2 DEF PushLoad, PopReserve
      <4>2. bottom' = IF pc'[Owner] = "pop_top" THEN bottom - 1 ELSE bottom
        BY <1>a, <1>d, <3>2 DEF PushLoad, PopReserve
      <4> QED
        BY <1>n, <3>1, <4>1, <4>2 DEF LogicalBottom
    <3>3. CASE PushCount \/ PopLast \/ PopNone \/ PopCasLose \/ LastCount \/ PopCount
      <4>1. \/ pc[Owner] = "push_count" /\ pc'[Owner] = "idle"
            \/ pc[Owner] = "pop_top" /\ pc'[Owner] \in {"pop_cas", "pop_restore"}
            \/ pc[Owner] = "pop_cas" /\ pc'[Owner] = "pop_restore"
            \/ pc[Owner] = "last_count" /\ pc'[Owner] = "last_read"
            \/ pc[Owner] = "pop_count" /\ pc'[Owner] = "idle"
        BY <1>a, <1>b, <1>c, <3>3
           DEF PushCount, PopLast, PopNone, PopCasLose, LastCount, PopCount
      <4>2. bottom' = bottom
        BY <3>3 DEF PushCount, PopLast, PopNone, PopCasLose, LastCount, PopCount
      <4> QED
        BY <1>n, <3>1, <4>1, <4>2 DEF LogicalBottom
    <3>4. CASE PopRestore \/ LastRestore
      <4>1. /\ pc[Owner] \in {"pop_restore", "last_restore"}
            /\ pc'[Owner] \in {"idle", "last_count"}
        BY <1>a, <1>b, <1>c, <3>4 DEF PopRestore, LastRestore
      <4>2. bottom' = bottom + 1
        BY <3>4, <4>1 DEF PopRestore, LastRestore, IndexInv, OwnerInv
      <4> QED
        BY <1>n, <3>1, <4>1, <4>2 DEF LogicalBottom
    <3> QED
      BY <1>10, <3>1, <3>2, <3>3, <3>4
  <2> QED
    BY <1>10, <1>a, <1>b, <1>c, <1>d, <2>1, QuietSlots
       DEF PushLoad, PushCount, PopReserve, PopLast, PopNone, PopCasLose, PopRestore,
           LastRestore, LastCount, PopCount, Holds, ReadLabels, ClearLabels, slots, history
<1>11. ASSUME NEW p \in Thieves, 
              StealTop(p) \/ StealBottom(p) \/ StealNone(p) \/ StealCasLose(p) \/ StealCount(p)
       PROVE  StoredInv'
  <2>1. LogicalBottom' = LogicalBottom /\ UNCHANGED <<top, at, bottom, pushed>>
    BY <1>0, <1>11, <1>a DEF SlotFacts, StealTop, StealBottom, StealNone, StealCasLose, StealCount,
      Enter, Goto, Leave, LogicalBottom, history
  <2> QED
    BY <1>11, <1>a, <1>b, <1>c, <1>d, <2>1, QuietSlots
       DEF StealTop, StealBottom, StealNone, StealCasLose, StealCount, Holds, ReadLabels,
           ClearLabels, slots, history
<1>12. CASE UNCHANGED vars
  BY <1>12 DEF vars, StoredInv, PendingStored, PushStored, HeldStored, HeldApart, Holds,
     LogicalBottom
<1> QED
  BY <1>1, <1>2, <1>3, <1>4, <1>5, <1>6, <1>7, <1>8, <1>9, <1>10, <1>11, <1>12
     DEF Next, tryPushBottom, tryPopBottom, tryStealTop

\* A step never takes a thief out of overrun.
LEMMA OverrunGrows == [Next]_vars => overrun \subseteq overrun'
<1> USE DEF slots
<1>1. ASSUME tryPushBottom \/ tryPopBottom PROVE overrun \subseteq overrun'
  BY <1>1 DEF tryPushBottom, PushLoad, PushWrite, PushPublish, PushCount, tryPopBottom, PopReserve,
     PopMany, PopLast, PopNone, PopCasWin, PopCasLose, PopRestore, LastRestore, LastCount,
     LastRead, LastClear, PopRead, PopClear, PopCount, MoveOut, LeaveEmpty
<1>2. ASSUME NEW p \in Thieves, tryStealTop(p) PROVE overrun \subseteq overrun'
  BY <1>2 DEF tryStealTop, StealTop, StealBottom, StealNone, StealCasWin, StealCasLose,
     StealCount, StealRead, StealClear, MoveOut, LeaveEmpty
<1> QED
  BY <1>1, <1>2 DEF Next, vars

\* The inductive invariant of the slots.
THEOREM SlotInvariant == Spec => []SlotInv
<1>1. Init => SlotInv
  <2> SUFFICES ASSUME Init PROVE SlotInv
    OBVIOUS
  <2>1. /\ top = 0 /\ LogicalBottom = 0
        /\ \A p \in Threads : pc[p] = "idle"
    BY DEF Init, LogicalBottom, Threads
  <2> QED
    BY <2>1 DEF SlotInv, PopIndexInv, StoredInv, PendingStored, PushStored, HeldStored, HeldApart,
       Holds, ReadLabels, ClearLabels, Threads
<1>2. IndexInv /\ SlotInv /\ [Next]_vars => SlotInv'
  <2> SUFFICES ASSUME IndexInv, SlotInv, [Next]_vars PROVE SlotInv'
    OBVIOUS
  <2>1. PopIndexInv'
    BY PopIndexNext DEF SlotInv
  <2>2. ASSUME overrun' = {} PROVE StoredInv'
    BY <2>2, OverrunGrows, StoredNext DEF SlotInv
  <2> QED
    BY <2>1, <2>2 DEF SlotInv
<1> QED
  BY <1>1, <1>2, IndexInvariant, PTL DEF Spec

\* A thread that has moved a std::function out of the slot of the index it claimed
\* holds the task of that index, whatever the others did in the meantime, unless a
\* push overran a claimed slot.
THEOREM MovesClaimedTask == Spec => []MovesClaimedTaskUnlessOverrun
<1>1. SlotInv => MovesClaimedTaskUnlessOverrun
  BY DEF SlotInv, StoredInv, HeldStored, ClearLabels, MovesClaimedTaskUnlessOverrun
<1> QED
  BY <1>1, SlotInvariant, PTL
====
