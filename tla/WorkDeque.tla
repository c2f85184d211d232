------------------------------ MODULE WorkDeque ------------------------------
(***************************************************************************)
(* What a work-stealing deque promises its users: a queue of pending       *)
(* tasks.  The owner puts new tasks at the back and takes the most recent  *)
(* one from the back, thieves take the oldest one from the front, and each *)
(* of these happens in one indivisible step.  A task leaves the queue      *)
(* once and never comes back.  TaskDeque is shown to implement this.       *)
(***************************************************************************)
EXTENDS Naturals, Sequences

CONSTANT Task,      \* the tasks that may be put
         MaxItems   \* the most tasks the queue may hold

VARIABLES items,    \* the pending tasks, oldest first
          taken     \* the tasks that somebody has taken

TypeOK ==
  /\ items \in Seq(Task)
  /\ taken \subseteq Task

Pending == {items[i] : i \in 1 .. Len(items)}

Init ==
  /\ items = <<>>
  /\ taken = {}

Put(x) ==
  /\ Len(items) < MaxItems
  /\ x \notin Pending \cup taken
  /\ items' = Append(items, x)
  /\ UNCHANGED taken

TakeBack ==
  /\ items # <<>>
  /\ items' = SubSeq(items, 1, Len(items) - 1)
  /\ taken' = taken \cup {items[Len(items)]}

TakeFront ==
  /\ items # <<>>
  /\ items' = Tail(items)
  /\ taken' = taken \cup {Head(items)}

Next ==
  \/ \E x \in Task : Put(x)
  \/ TakeBack
  \/ TakeFront

vars == <<items, taken>>

Spec == Init /\ [][Next]_vars
=============================================================================
