------------------------------ MODULE TaskDeque ------------------------------
(***************************************************************************)
(* The Chase-Lev style deque of utils/concurrency/task_deque.cc: one owner *)
(* pushes and pops at the bottom, any number of thieves steal at the top.  *)
(* Every load, store and read-modify-write of top_, bottom_ and size_ is a *)
(* step, and so are the two halves of moving a std::function out of a slot *)
(* (copy it out, then leave the slot empty).  Memory is sequentially       *)
(* consistent: the seq_cst fences of tryPopBottom and tryStealTop order    *)
(* the only store/load pair whose reordering would matter.                 *)
(*                                                                         *)
(* Tasks are numbered in the order in which they are pushed; 0 is an empty *)
(* std::function, what a moved-from slot holds.                            *)
(***************************************************************************)
EXTENDS Integers, Sequences, FiniteSets

CONSTANTS Thieves,      \* the threads that call tryStealTop
          Owner,        \* the thread that calls tryPushBottom and tryPopBottom
          Capacity,     \* capacity_, already rounded by roundUpPow2
          SizeModulus,  \* size_t counts modulo this
          MaxPush       \* bound: how many tasks are ever pushed

ASSUME ThreadsAssumption == Owner \notin Thieves
ASSUME CapacityAssumption == Capacity \in Nat /\ Capacity >= 2
ASSUME PowerOfTwoAssumption == \E k \in 1 .. Capacity : Capacity = 2 ^ k
ASSUME ModulusAssumption == SizeModulus \in Nat /\ SizeModulus > Capacity
ASSUME MaxPushAssumption == MaxPush \in Nat

VARIABLES
  top, bottom, size,   \* top_, bottom_ and (before wrapping) size_
  buffer,              \* buffer_
  pc,                  \* where each thread is inside a call; "idle" is outside
  idx,                 \* the index a thread works on: b of the owner, t of a thief
  got,                 \* the task each thread moved out of a slot
  pushed,              \* history: how many tasks have been pushed
  at,                  \* history: at[i] is the pending task at index i
  mine,                \* history: the task at the index a thread has claimed
  taken,               \* history: the tasks whose index has been claimed
  overrun              \* history: the thieves whose slot was written over by a
                       \* push after they claimed it and before they emptied it

vars == <<top, bottom, size, buffer, pc, idx, got,
          pushed, at, mine, taken, overrun>>

Threads == Thieves \cup {Owner}
Task == 1 .. MaxPush
Empty == 0

\* Mutant: no slot is kept free.
maxSize_all == Capacity

maxSize == Capacity - 1

\* b & (capacity_ - 1) for a power of two.
Slot(i) == i % Capacity

approxSize == size % SizeModulus

OwnerLabels == {"idle", "push_write", "push_publish", "push_count",
                "pop_top", "pop_cas", "pop_restore",
                "last_restore", "last_count", "last_read", "last_clear",
                "pop_read", "pop_clear", "pop_count"}
ThiefLabels == {"idle", "steal_bottom", "steal_cas", "steal_count",
                "steal_read", "steal_clear"}

slots   == <<buffer, got, overrun>>
history == <<pushed, at, mine, taken>>

Init ==
  /\ top = 0 /\ bottom = 0 /\ size = 0
  /\ buffer = [s \in 0 .. Capacity - 1 |-> Empty]
  /\ pc = [p \in Threads |-> "idle"]
  /\ idx = [p \in Threads |-> 0]
  /\ got = [p \in Threads |-> Empty]
  /\ pushed = 0
  /\ at = [i \in 0 .. MaxPush |-> Empty]
  /\ mine = [p \in Threads |-> Empty]
  /\ taken = {}
  /\ overrun = {}

\* A thread starts a call, with i as its local index.
Enter(p, label, i) ==
  /\ pc[p] = "idle"
  /\ pc' = [pc EXCEPT ![p] = label]
  /\ idx' = [idx EXCEPT ![p] = i]

Goto(p, from, to) ==
  /\ pc[p] = from
  /\ pc' = [pc EXCEPT ![p] = to]
  /\ UNCHANGED idx

\* A call returns, and its locals are gone.
Leave(p, from) ==
  /\ pc[p] = from
  /\ pc' = [pc EXCEPT ![p] = "idle"]
  /\ idx' = [idx EXCEPT ![p] = 0]

\* A thread has claimed the task at its index; from here on nobody else may.
Claim(p) ==
  /\ mine' = [mine EXCEPT ![p] = at[idx[p]]]
  /\ taken' = taken \cup {at[idx[p]]}
  /\ at' = [at EXCEPT ![idx[p]] = Empty]
  /\ UNCHANGED pushed

\* The two halves of std::move(buffer_[i & (capacity_ - 1)]).
MoveOut(p) ==
  /\ got' = [got EXCEPT ![p] = buffer[Slot(idx[p])]]
  /\ UNCHANGED <<buffer, overrun, history>>

LeaveEmpty(p) ==
  /\ buffer' = [buffer EXCEPT ![Slot(idx[p])] = Empty]
  /\ got' = [got EXCEPT ![p] = Empty]
  /\ mine' = [mine EXCEPT ![p] = Empty]
  /\ UNCHANGED <<overrun, pushed, at, taken>>

----------------------------------------------------------------------------
(* tryPushBottom: load both cursors and refuse when full, write the slot,  *)
(* publish bottom_, then count.                                            *)

PushLoad ==
  /\ pushed < MaxPush
  /\ bottom - top < maxSize
  /\ Enter(Owner, "push_write", bottom)
  /\ UNCHANGED <<top, bottom, size, slots, history>>

\* The threads that have claimed an index and have not emptied its slot yet.
Moving == {p \in Thieves : pc[p] \in {"steal_count", "steal_read", "steal_clear"}}

PushWrite ==
  /\ Goto(Owner, "push_write", "push_publish")
  /\ buffer' = [buffer EXCEPT ![Slot(idx[Owner])] = pushed + 1]
  /\ overrun' = overrun \cup {p \in Moving : Slot(idx[p]) = Slot(idx[Owner])}
  /\ UNCHANGED <<top, bottom, size, got, history>>

PushPublish ==
  /\ Goto(Owner, "push_publish", "push_count")
  /\ bottom' = idx[Owner] + 1
  /\ pushed' = pushed + 1
  /\ at' = [at EXCEPT ![idx[Owner]] = pushed + 1]
  /\ UNCHANGED <<top, size, slots, mine, taken>>

PushCount ==
  /\ Leave(Owner, "push_count")
  /\ size' = size + 1
  /\ UNCHANGED <<top, bottom, slots, history>>

----------------------------------------------------------------------------
(* tryPopBottom: reserve the bottom index, then look at top_.  More than   *)
(* one task: the reserved one is the owner's.  Exactly one: race the       *)
(* thieves for it with the CAS.  None: put bottom_ back.                   *)

\* Mutant: the early return on b == 0 is gone.
PopReserve_unguarded ==
  /\ Enter(Owner, "pop_top", bottom - 1)
  /\ bottom' = bottom - 1
  /\ UNCHANGED <<top, size, slots, history>>

PopReserve ==
  /\ bottom # 0
  /\ Enter(Owner, "pop_top", bottom - 1)
  /\ bottom' = bottom - 1
  /\ UNCHANGED <<top, size, slots, history>>

\* Mutant: the last task is taken like any other, without the CAS.
PopMany_last ==
  /\ top <= idx[Owner]
  /\ Goto(Owner, "pop_top", "pop_read")
  /\ Claim(Owner)
  /\ UNCHANGED <<top, bottom, size, slots>>

PopMany ==
  /\ top < idx[Owner]
  /\ Goto(Owner, "pop_top", "pop_read")
  /\ Claim(Owner)
  /\ UNCHANGED <<top, bottom, size, slots>>

PopLast ==
  /\ top = idx[Owner]
  /\ Goto(Owner, "pop_top", "pop_cas")
  /\ UNCHANGED <<top, bottom, size, slots, history>>

PopNone ==
  /\ top > idx[Owner]
  /\ Goto(Owner, "pop_top", "pop_restore")
  /\ UNCHANGED <<top, bottom, size, slots, history>>

\* Mutant: top_ is stored without comparing it.
PopCasWin_blind ==
  /\ Goto(Owner, "pop_cas", "last_restore")
  /\ top' = idx[Owner] + 1
  /\ Claim(Owner)
  /\ UNCHANGED <<bottom, size, slots>>

PopCasWin ==
  /\ top = idx[Owner]
  /\ Goto(Owner, "pop_cas", "last_restore")
  /\ top' = top + 1
  /\ Claim(Owner)
  /\ UNCHANGED <<bottom, size, slots>>

PopCasLose ==
  /\ top # idx[Owner]
  /\ Goto(Owner, "pop_cas", "pop_restore")
  /\ UNCHANGED <<top, bottom, size, slots, history>>

\* Mutant: bottom_ stays reserved after a failed pop.
PopRestore_missing ==
  /\ Leave(Owner, "pop_restore")
  /\ UNCHANGED <<top, bottom, size, slots, history>>

PopRestore ==
  /\ Leave(Owner, "pop_restore")
  /\ bottom' = idx[Owner] + 1
  /\ UNCHANGED <<top, size, slots, history>>

\* The last task is counted before its slot is read ...
LastRestore ==
  /\ Goto(Owner, "last_restore", "last_count")
  /\ bottom' = idx[Owner] + 1
  /\ UNCHANGED <<top, size, slots, history>>

LastCount ==
  /\ Goto(Owner, "last_count", "last_read")
  /\ size' = size - 1
  /\ UNCHANGED <<top, bottom, slots, history>>

LastRead ==
  /\ Goto(Owner, "last_read", "last_clear")
  /\ MoveOut(Owner)
  /\ UNCHANGED <<top, bottom, size>>

LastClear ==
  /\ Leave(Owner, "last_clear")
  /\ LeaveEmpty(Owner)
  /\ UNCHANGED <<top, bottom, size>>

\* ... any other one after.
PopRead ==
  /\ Goto(Owner, "pop_read", "pop_clear")
  /\ MoveOut(Owner)
  /\ UNCHANGED <<top, bottom, size>>

PopClear ==
  /\ Goto(Owner, "pop_clear", "pop_count")
  /\ LeaveEmpty(Owner)
  /\ UNCHANGED <<top, bottom, size>>

PopCount ==
  /\ Leave(Owner, "pop_count")
  /\ size' = size - 1
  /\ UNCHANGED <<top, bottom, slots, history>>

----------------------------------------------------------------------------
(* tryStealTop: claim the top index with the CAS, count, and only then     *)
(* move the task out of its slot.                                          *)

StealTop(p) ==
  /\ Enter(p, "steal_bottom", top)
  /\ UNCHANGED <<top, bottom, size, slots, history>>

StealBottom(p) ==
  /\ idx[p] < bottom
  /\ Goto(p, "steal_bottom", "steal_cas")
  /\ UNCHANGED <<top, bottom, size, slots, history>>

StealNone(p) ==
  /\ idx[p] >= bottom
  /\ Leave(p, "steal_bottom")
  /\ UNCHANGED <<top, bottom, size, slots, history>>

StealCasWin(p) ==
  /\ top = idx[p]
  /\ Goto(p, "steal_cas", "steal_count")
  /\ top' = top + 1
  /\ Claim(p)
  /\ UNCHANGED <<bottom, size, slots>>

StealCasLose(p) ==
  /\ top # idx[p]
  /\ Leave(p, "steal_cas")
  /\ UNCHANGED <<top, bottom, size, slots, history>>

StealCount(p) ==
  /\ Goto(p, "steal_count", "steal_read")
  /\ size' = size - 1
  /\ UNCHANGED <<top, bottom, slots, history>>

StealRead(p) ==
  /\ Goto(p, "steal_read", "steal_clear")
  /\ MoveOut(p)
  /\ UNCHANGED <<top, bottom, size>>

StealClear(p) ==
  /\ Leave(p, "steal_clear")
  /\ LeaveEmpty(p)
  /\ UNCHANGED <<top, bottom, size>>

----------------------------------------------------------------------------
tryPushBottom == PushLoad \/ PushWrite \/ PushPublish \/ PushCount

tryPopBottom ==
  \/ PopReserve \/ PopMany \/ PopLast \/ PopNone
  \/ PopCasWin \/ PopCasLose \/ PopRestore
  \/ LastRestore \/ LastCount \/ LastRead \/ LastClear
  \/ PopRead \/ PopClear \/ PopCount

tryStealTop(p) ==
  \/ StealTop(p) \/ StealBottom(p) \/ StealNone(p)
  \/ StealCasWin(p) \/ StealCasLose(p)
  \/ StealCount(p) \/ StealRead(p) \/ StealClear(p)

Next ==
  \/ tryPushBottom
  \/ tryPopBottom
  \/ \E p \in Thieves : tryStealTop(p)

Spec == Init /\ [][Next]_vars

----------------------------------------------------------------------------
(* Properties. *)

PcTypeOK ==
  /\ pc \in [Threads -> OwnerLabels \cup ThiefLabels]
  /\ pc[Owner] \in OwnerLabels
  /\ \A p \in Thieves : pc[p] \in ThiefLabels

CursorTypeOK ==
  /\ top \in 0 .. MaxPush
  /\ bottom \in 0 .. MaxPush
  /\ size \in Int
  /\ idx \in [Threads -> 0 .. MaxPush]
  /\ pushed \in 0 .. MaxPush

SlotTypeOK ==
  /\ buffer \in [0 .. Capacity - 1 -> 0 .. MaxPush]
  /\ got \in [Threads -> 0 .. MaxPush]
  /\ at \in [0 .. MaxPush -> 0 .. MaxPush]
  /\ mine \in [Threads -> 0 .. MaxPush]
  /\ taken \subseteq 0 .. MaxPush
  /\ overrun \subseteq Thieves

\* The cursors and the indices of the threads stay within the pushes made, the
\* slots hold tasks, and each thread is inside one of the calls its role allows.
TypeOK == PcTypeOK /\ CursorTypeOK /\ SlotTypeOK

\* bottom_ as the other threads should count it: while the owner has reserved
\* an index and not decided whether it is its own, the task is still pending.
LogicalBottom ==
  IF pc[Owner] \in {"pop_top", "pop_cas", "pop_restore", "last_restore"}
    THEN bottom + 1
    ELSE bottom

\* The values of f from index lo up to hi, as a sequence.
Window(f, lo, hi) == [i \in 1 .. hi - lo |-> f[lo + i - 1]]

Items == Window(at, top, LogicalBottom)

\* The index protocol of tryPushBottom, tryPopBottom and tryStealTop implements
\* an atomic queue: whatever the interleaving of the owner and the thieves, each
\* index is claimed by one thread only, the owner claims the newest pending task
\* and a thief the oldest one.
Abstract == INSTANCE WorkDeque WITH
              Task <- Task, MaxItems <- maxSize, items <- Items, taken <- taken
ImplementsWorkDeque == Abstract!Spec

\* Outside a call of the owner the cursors are in order and at most maxSize()
\* apart, so the unsigned b - t of tryPushBottom never wraps and a full deque is
\* always recognised.
CursorsInRange ==
  pc[Owner] = "idle" => top <= bottom /\ bottom - top <= maxSize

\* The slot maxSize() keeps free is what lets tryStealTop read its slot after the
\* CAS: while nobody has claimed another index since, a push never writes there.
ReservedSlotIsFree ==
  pc[Owner] = "push_write" =>
    \A p \in Moving : top <= idx[p] + 1 => Slot(idx[p]) # Slot(idx[Owner])

\* Every thread moves out of the slot exactly the task whose index it claimed, as
\* long as no push has written over a slot that was claimed and not emptied yet.
MovesClaimedTaskUnlessOverrun ==
  overrun = {} =>
    \A p \in Threads :
      pc[p] \in {"pop_clear", "last_clear", "steal_clear"} => got[p] = mine[p]
=============================================================================
