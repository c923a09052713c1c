------------------------ MODULE FixLenLockFreeQueue ------------------------
(***************************************************************************)
(* FixLenLockFreeQueue: a ring of slots, each with a turn counter          *)
(* (occupy), and two ticket counters.  Every access to an atomic and every *)
(* access to a slot's storage is a step of its own.                        *)
(***************************************************************************)
EXTENDS FiniteSets, Integers, Sequences

CONSTANTS
  Thread,
  Value,
  NoValue,    \* contents of a slot nothing was constructed in
  Capacity,   \* capacity_
  MaxPush     \* bound: items pushed in a behaviour

ASSUME QueueAssumption ==
  /\ Capacity \in Nat \ {0}
  /\ MaxPush \in Nat
  /\ NoValue \notin Value

VARIABLES
  head,      \* head_: next ticket to push
  tail,      \* tail_: next ticket to pop
  occupy,    \* Slot::occupy
  storage,   \* Slot::storage
  pc,        \* where each thread is
  pos,       \* its local copy of head_ or tail_
  item,      \* the item it pushes
  retry,     \* whether it is in Push, which repeats TryEmplace
  pushed,    \* history: the item of every push ticket
  popped     \* history: the item of every pop ticket (NoValue: not yet moved)

vars == <<head, tail, occupy, storage, pc, pos, item, retry, pushed, popped>>
queue == <<head, tail, occupy, storage, pushed, popped>>

idx(i) == i % Capacity

\* Mutant: every turn looks like the first.
turnConstant(i) == 0

turn(i) == i \div Capacity

Pushing == {"load", "check", "cas", "construct", "publish", "reload"}
Popping == {"dcheck", "dcas", "move", "release", "dreload"}

Go(t, where) == pc' = [pc EXCEPT ![t] = where]

\* The operation returns; its locals are gone.
Return(t) ==
  /\ Go(t, "idle")
  /\ pos' = [pos EXCEPT ![t] = 0]
  /\ item' = [item EXCEPT ![t] = NoValue]
  /\ retry' = [retry EXCEPT ![t] = FALSE]

-----------------------------------------------------------------------------
(***************************************************************************)
(* TryEmplace and Push.                                                    *)
(***************************************************************************)
StartPush(t, v, again) ==
  /\ pc[t] = "idle"
  /\ Len(pushed) + Cardinality({u \in Thread : pc[u] \in Pushing}) < MaxPush
  /\ Go(t, "load")
  /\ item' = [item EXCEPT ![t] = v]
  /\ retry' = [retry EXCEPT ![t] = again]
  /\ UNCHANGED <<queue, pos>>

LoadHead(t) ==
  /\ pc[t] = "load"
  /\ pos' = [pos EXCEPT ![t] = head]
  /\ Go(t, "check")
  /\ UNCHANGED <<queue, item, retry>>

\* Mutant: a slot that is not empty yet is taken, too.
CheckFreeIgnored(t) ==
  /\ pc[t] = "check"
  /\ Go(t, "cas")
  /\ UNCHANGED <<queue, pos, item, retry>>

CheckFree(t) ==
  /\ pc[t] = "check"
  /\ Go(t, IF turn(pos[t]) * 2 = occupy[idx(pos[t])] THEN "cas" ELSE "reload")
  /\ UNCHANGED <<queue, pos, item, retry>>

\* compare_exchange_strong(head, head + 1); a failure reloads the local copy.
CasHead(t) ==
  /\ pc[t] = "cas"
  /\ IF head = pos[t]
     THEN /\ head' = head + 1
          /\ pushed' = Append(pushed, item[t])
          /\ Go(t, "construct")
          /\ UNCHANGED pos
     ELSE /\ pos' = [pos EXCEPT ![t] = head]
          /\ Go(t, "check")
          /\ UNCHANGED <<head, pushed>>
  /\ UNCHANGED <<tail, occupy, storage, popped, item, retry>>

Construct(t) ==
  /\ pc[t] = "construct"
  /\ storage' = [storage EXCEPT ![idx(pos[t])] = item[t]]
  /\ Go(t, "publish")
  /\ UNCHANGED <<head, tail, occupy, pushed, popped, pos, item, retry>>

PublishSlot(t) ==
  /\ pc[t] = "publish"
  /\ occupy' = [occupy EXCEPT ![idx(pos[t])] = turn(pos[t]) * 2 + 1]
  /\ Return(t)
  /\ UNCHANGED <<head, tail, storage, pushed, popped>>

\* The slot was not free: full if head_ has not moved, else try again.
ReloadHead(t) ==
  /\ pc[t] = "reload"
  /\ IF head # pos[t] \/ retry[t]
     THEN /\ pos' = [pos EXCEPT ![t] = head]
          /\ Go(t, IF head # pos[t] THEN "check" ELSE "load")
          /\ UNCHANGED <<item, retry>>
     ELSE Return(t)
  /\ UNCHANGED queue

-----------------------------------------------------------------------------
(***************************************************************************)
(* Pop.                                                                    *)
(***************************************************************************)
StartPop(t) ==
  /\ pc[t] = "idle"
  /\ pos' = [pos EXCEPT ![t] = tail]
  /\ Go(t, "dcheck")
  /\ UNCHANGED <<queue, item, retry>>

CheckReady(t) ==
  /\ pc[t] = "dcheck"
  /\ Go(t, IF turn(pos[t]) * 2 + 1 = occupy[idx(pos[t])] THEN "dcas" ELSE "dreload")
  /\ UNCHANGED <<queue, pos, item, retry>>

CasTail(t) ==
  /\ pc[t] = "dcas"
  /\ IF tail = pos[t]
     THEN /\ tail' = tail + 1
          /\ popped' = Append(popped, NoValue)
          /\ Go(t, "move")
          /\ UNCHANGED pos
     ELSE /\ pos' = [pos EXCEPT ![t] = tail]
          /\ Go(t, "dcheck")
          /\ UNCHANGED <<tail, popped>>
  /\ UNCHANGED <<head, occupy, storage, pushed, item, retry>>

\* *data = slot.Move(); slot.Destroy()
Move(t) ==
  /\ pc[t] = "move"
  /\ popped' = [popped EXCEPT ![pos[t] + 1] = storage[idx(pos[t])]]
  /\ storage' = [storage EXCEPT ![idx(pos[t])] = NoValue]
  /\ Go(t, "release")
  /\ UNCHANGED <<head, tail, occupy, pushed, pos, item, retry>>

ReleaseSlot(t) ==
  /\ pc[t] = "release"
  /\ occupy' = [occupy EXCEPT ![idx(pos[t])] = turn(pos[t]) * 2 + 2]
  /\ Return(t)
  /\ UNCHANGED <<head, tail, storage, pushed, popped>>

\* Mutant: an empty queue is polled for ever.
ReloadTailSpins(t) ==
  /\ pc[t] = "dreload"
  /\ pos' = [pos EXCEPT ![t] = tail]
  /\ Go(t, "dcheck")
  /\ UNCHANGED <<queue, item, retry>>

ReloadTail(t) ==
  /\ pc[t] = "dreload"
  /\ IF tail # pos[t]
     THEN /\ pos' = [pos EXCEPT ![t] = tail]
          /\ Go(t, "dcheck")
          /\ UNCHANGED <<item, retry>>
     ELSE Return(t)
  /\ UNCHANGED queue

-----------------------------------------------------------------------------
Init ==
  /\ head = 0 /\ tail = 0
  /\ occupy = [i \in 0..(Capacity - 1) |-> 0]
  /\ storage = [i \in 0..(Capacity - 1) |-> NoValue]
  /\ pc = [t \in Thread |-> "idle"]
  /\ pos = [t \in Thread |-> 0]
  /\ item = [t \in Thread |-> NoValue]
  /\ retry = [t \in Thread |-> FALSE]
  /\ pushed = <<>>
  /\ popped = <<>>

\* The steps of an operation that has begun.
Continue(t) ==
  \/ LoadHead(t) \/ CheckFree(t) \/ CasHead(t) \/ Construct(t) \/ PublishSlot(t)
  \/ ReloadHead(t)
  \/ CheckReady(t) \/ CasTail(t) \/ Move(t) \/ ReleaseSlot(t) \/ ReloadTail(t)

Next ==
  \E t \in Thread :
    \/ \E v \in Value, again \in BOOLEAN : StartPush(t, v, again)
    \/ StartPop(t)
    \/ Continue(t)

\* The operating system runs every thread; nobody has to start an operation.
Spec == Init /\ [][Next]_vars /\ \A t \in Thread : WF_vars(Continue(t))

-----------------------------------------------------------------------------
\* Every pop ticket gets the item of the push with the same ticket: nothing is
\* lost, duplicated or reordered, although a slot is filled and emptied outside
\* the compare-and-swap that assigned it.
FirstInFirstOut ==
  \A i \in DOMAIN popped :
    popped[i] = pushed[i] \/ \E t \in Thread : pc[t] = "move" /\ pos[t] = i - 1

\* No two threads touch one slot's storage at a time.
SlotExclusive ==
  \A t, u \in Thread :
    /\ t # u
    /\ pc[t] \in {"construct", "publish", "move", "release"}
    /\ pc[u] \in {"construct", "publish", "move", "release"}
    => idx(pos[t]) # idx(pos[u])

\* The queue implements the bounded FIFO: the places between tail_ and head_.
Fifo ==
  INSTANCE BoundedFifo WITH
    items <- [i \in 1..(head - tail) |->
                [value |-> pushed[tail + i],
                 ready |-> occupy[idx(tail + i - 1)] = turn(tail + i - 1) * 2 + 1]]

ImplementsFifo == Fifo!Spec

\* TryEmplace and Pop return: a retry means another thread made progress.
Returns ==
  \A t \in Thread :
    pc[t] \in Popping \cup Pushing ~> pc[t] = "idle" \/ (retry[t] /\ pc[t] \in Pushing)
=============================================================================
