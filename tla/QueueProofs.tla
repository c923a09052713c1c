----------------------------- MODULE QueueProofs -----------------------------
(***************************************************************************)
(* Proofs about the two lock-free queues, for any number of threads.       *)
(***************************************************************************)
EXTENDS FixLenLockFreeQueue, LockFreeQueue, OrderLemmas

-----------------------------------------------------------------------------
(***************************************************************************)
(* Proofs about FixLenLockFreeQueue for every number of threads and every  *)
(* capacity: exclusive use of a slot, first in first out, and the          *)
(* refinement of BoundedFifo.                                              *)
(***************************************************************************)

(***************************************************************************)
(* Tickets, slots and turns.                                               *)
(***************************************************************************)

\* A ticket is determined by its slot and its turn.
LEMMA TicketParts ==
  ASSUME NEW i \in Nat
  PROVE  /\ idx(i) \in 0..(Capacity - 1)
         /\ turn(i) \in Nat
         /\ i = Capacity * turn(i) + idx(i)
BY QueueAssumption DEF idx, turn

\* The next ticket of a slot comes a capacity later and is of the next turn.
LEMMA NextTurn ==
  ASSUME NEW i \in Nat
  PROVE  idx(i + Capacity) = idx(i) /\ turn(i + Capacity) = turn(i) + 1
BY QueueAssumption DEF idx, turn

\* Two tickets of one slot and one turn are the same ticket.
LEMMA SameTicket ==
  ASSUME NEW i \in Nat, NEW j \in Nat, idx(i) = idx(j), turn(i) = turn(j)
  PROVE  i = j
BY TicketParts

\* Different tickets of one slot are at least a capacity apart.
LEMMA FarApart ==
  ASSUME NEW i \in Nat, NEW j \in Nat, idx(i) = idx(j), i < j
  PROVE  j - i >= Capacity
<1>1. Capacity \in Nat /\ Capacity > 0
  BY QueueAssumption
<1>2. turn(i) \in Nat /\ turn(j) \in Nat /\ idx(i) \in Nat
  BY TicketParts
<1>3. i = Capacity * turn(i) + idx(i) /\ j = Capacity * turn(j) + idx(i)
  BY TicketParts
<1>4. turn(j) > turn(i)
  <2> SUFFICES ASSUME turn(j) <= turn(i) PROVE FALSE
    BY <1>2
  <2>1. PICK d \in Nat : turn(i) = turn(j) + d
    <3>1. turn(i) - turn(j) \in Nat
      BY <1>2
    <3> QED
      BY <3>1, <1>2
  <2>2. Capacity * turn(i) = Capacity * turn(j) + Capacity * d
    BY <1>1, <1>2, <2>1
  <2>3. Capacity * d >= 0
    BY <1>1, <2>1
  <2> QED
    BY <1>1, <1>2, <1>3, <2>2, <2>3
<1>5. PICK d \in Nat : turn(j) = turn(i) + 1 + d
  <2>1. turn(j) - turn(i) - 1 \in Nat
    BY <1>2, <1>4
  <2> QED
    BY <2>1, <1>2
<1>6. Capacity * turn(j) = Capacity * turn(i) + Capacity + Capacity * d
  BY <1>1, <1>2, <1>5
<1>7. Capacity * d >= 0
  BY <1>1, <1>5
<1> QED
  BY <1>1, <1>2, <1>3, <1>6, <1>7

-----------------------------------------------------------------------------
(***************************************************************************)
(* The inductive invariant.                                                *)
(***************************************************************************)
Filling == {"construct", "publish"}
Emptying == {"move", "release"}

Slots == 0..(Capacity - 1)

RingTypes ==
  /\ head \in Nat
  /\ tail \in Nat
  /\ occupy \in [Slots -> Nat]
  /\ storage \in [Slots -> Value \cup {NoValue}]
  /\ pc \in [Thread -> {"idle"} \cup Pushing \cup Popping]
  /\ pos \in [Thread -> Nat]
  /\ item \in [Thread -> Value \cup {NoValue}]
  /\ pushed \in Seq(Value)
  /\ popped \in Seq(Value \cup {NoValue})
  /\ Len(pushed) = head
  /\ Len(popped) = tail
  /\ \A t \in Thread : pc[t] \in Pushing => item[t] \in Value

\* The tickets in the ring.
Window == tail <= head /\ head <= tail + Capacity

\* A thread that fills a slot has a ticket in the ring and the slot's turn.
FillingInv ==
  \A t \in Thread :
    pc[t] \in Filling =>
      /\ tail <= pos[t]
      /\ pos[t] < head
      /\ occupy[idx(pos[t])] = turn(pos[t]) * 2
      /\ pushed[pos[t] + 1] = item[t]
      /\ pc[t] = "publish" => storage[idx(pos[t])] = item[t]

\* A thread that empties a slot has a ticket that left the ring, and nobody can
\* have taken the slot's next ticket.
EmptyingInv ==
  \A t \in Thread :
    pc[t] \in Emptying =>
      /\ pos[t] < tail
      /\ head <= pos[t] + Capacity
      /\ occupy[idx(pos[t])] = turn(pos[t]) * 2 + 1
      /\ pc[t] = "move" => storage[idx(pos[t])] = pushed[pos[t] + 1]
      /\ pc[t] = "release" => popped[pos[t] + 1] = pushed[pos[t] + 1]

\* No ticket is given to two threads.
DistinctTickets ==
  \A t, u \in Thread :
    t # u /\ pc[t] \in Filling \cup Emptying /\ pc[u] \in Filling \cup Emptying => pos[t] # pos[u]

\* The slot of a ticket in the ring is being filled or holds the ticket's item.
TakenSlots ==
  \A i \in Nat :
    tail <= i /\ i < head =>
      \/ occupy[idx(i)] = turn(i) * 2
      \/ occupy[idx(i)] = turn(i) * 2 + 1 /\ storage[idx(i)] = pushed[i + 1]

\* The slot of a ticket that may come next is free or being emptied.
FreeSlots ==
  \A i \in Nat :
    head <= i /\ i < tail + Capacity =>
      \/ occupy[idx(i)] = turn(i) * 2
      \/ occupy[idx(i)] + 1 = turn(i) * 2

\* What a check of a slot found stays true as long as the ticket is the next one.
ChecksHold ==
  \A t \in Thread :
    /\ pc[t] \in {"check", "cas"} => pos[t] <= head
    /\ pc[t] = "cas" /\ pos[t] = head => occupy[idx(head)] = turn(head) * 2
    /\ pc[t] \in {"dcheck", "dcas"} => pos[t] <= tail
    /\ pc[t] = "dcas" /\ pos[t] = tail => occupy[idx(tail)] = turn(tail) * 2 + 1

RingInv ==
  /\ RingTypes
  /\ Window
  /\ FillingInv
  /\ EmptyingInv
  /\ DistinctTickets
  /\ TakenSlots
  /\ FreeSlots
  /\ ChecksHold
  /\ FirstInFirstOut

\* What the invariant says in the initial state.
LEMMA RingInit == Init => RingInv
<1> SUFFICES ASSUME Init PROVE RingInv
  OBVIOUS
<1>1. Capacity \in Nat /\ Capacity > 0
  BY QueueAssumption
<1>2. RingTypes
  BY <1>1 DEF Init, RingTypes, Slots, Pushing
<1>3. FreeSlots
  <2> SUFFICES ASSUME NEW i \in Nat, i < Capacity PROVE occupy[idx(i)] = turn(i) * 2
    BY <1>1 DEF Init, FreeSlots
  <2>1. idx(i) = i /\ turn(i) = 0
    BY <1>1 DEF idx, turn
  <2> QED
    BY <1>1, <2>1 DEF Init
<1>4. FillingInv /\ EmptyingInv /\ DistinctTickets /\ ChecksHold
  BY DEF Init, FillingInv, EmptyingInv, DistinctTickets, ChecksHold, Filling, Emptying
<1>5. Window /\ TakenSlots /\ FirstInFirstOut
  BY <1>1 DEF Init, Window, TakenSlots, FirstInFirstOut
<1> QED
  BY <1>2, <1>3, <1>4, <1>5 DEF RingInv

\* The locals of a thread that returns.
LEMMA ReturnTypes ==
  ASSUME RingTypes, NEW t \in Thread, Return(t)
  PROVE  /\ pc' \in [Thread -> {"idle"} \cup Pushing \cup Popping]
         /\ pos' \in [Thread -> Nat]
         /\ item' \in [Thread -> Value \cup {NoValue}]
         /\ \A u \in Thread : pc'[u] \in Pushing => item'[u] \in Value
         /\ pc'[t] = "idle"
         /\ \A u \in Thread \ {t} : pc'[u] = pc[u] /\ pos'[u] = pos[u] /\ item'[u] = item[u]
<1>1. pc' = [pc EXCEPT ![t] = "idle"] /\ pos' = [pos EXCEPT ![t] = 0] /\ item' = [item EXCEPT ![t] = NoValue]
  BY DEF Return, Go
<1> QED
  BY <1>1 DEF RingTypes, Pushing

\* A step of a thread that holds no ticket before and after: what it last read of
\* the counters and the slot is true, the queue and other threads stay as they are.
LooksOnly(t) ==
  /\ UNCHANGED queue
  /\ \A u \in Thread \ {t} : pc'[u] = pc[u] /\ pos'[u] = pos[u] /\ item'[u] = item[u]
  /\ pc[t] \notin Filling \cup Emptying
  /\ pc'[t] \notin Filling \cup Emptying
  /\ pc'[t] \in {"check", "cas"} => pos'[t] <= head
  /\ pc'[t] = "cas" /\ pos'[t] = head => occupy[idx(head)] = turn(head) * 2
  /\ pc'[t] \in {"dcheck", "dcas"} => pos'[t] <= tail
  /\ pc'[t] = "dcas" /\ pos'[t] = tail => occupy[idx(tail)] = turn(tail) * 2 + 1

\* Such a step keeps the invariant.
LEMMA LocalStep ==
  ASSUME RingInv, RingTypes', NEW t \in Thread, LooksOnly(t)
  PROVE  RingInv'
<1> USE DEF queue, LooksOnly
<1>1. Window' /\ TakenSlots' /\ FreeSlots'
  BY DEF RingInv, Window, TakenSlots, FreeSlots
<1>2. FillingInv'
  BY DEF RingInv, FillingInv
<1>3. EmptyingInv'
  BY DEF RingInv, EmptyingInv
<1>4. DistinctTickets'
  BY DEF RingInv, DistinctTickets
<1>5. ChecksHold'
  BY DEF RingInv, ChecksHold
<1>6. FirstInFirstOut'
  BY DEF RingInv, FirstInFirstOut, Emptying
<1> QED
  BY <1>1, <1>2, <1>3, <1>4, <1>5, <1>6 DEF RingInv

-----------------------------------------------------------------------------
(***************************************************************************)
(* The steps that look but do not take.                                    *)
(***************************************************************************)

\* Push begins: a thread with an item, no ticket yet.
LEMMA StartPushRing ==
  ASSUME RingInv, NEW t \in Thread, NEW v \in Value, NEW again \in BOOLEAN, StartPush(t, v, again)
  PROVE  RingInv'
<1>1. RingTypes'
  BY DEF RingInv, RingTypes, StartPush, Go, queue, Pushing
<1>2. LooksOnly(t)
  BY DEF LooksOnly, RingInv, RingTypes, StartPush, Go, queue, Filling, Emptying
<1> QED
  BY <1>1, <1>2, LocalStep

\* head_ is read; it can only grow later.
LEMMA LoadHeadRing ==
  ASSUME RingInv, NEW t \in Thread, LoadHead(t)
  PROVE  RingInv'
<1>1. RingTypes'
  BY DEF RingInv, RingTypes, LoadHead, Go, queue, Pushing
<1>2. LooksOnly(t)
  BY DEF LooksOnly, RingInv, RingTypes, LoadHead, Go, queue, Filling, Emptying
<1> QED
  BY <1>1, <1>2, LocalStep

\* The slot's turn is compared.
LEMMA CheckFreeRing ==
  ASSUME RingInv, NEW t \in Thread, CheckFree(t)
  PROVE  RingInv'
<1>1. RingTypes'
  BY DEF RingInv, RingTypes, CheckFree, Go, queue, Pushing
<1>2. LooksOnly(t)
  BY DEF LooksOnly, RingInv, RingTypes, ChecksHold, CheckFree, Go, queue, Filling, Emptying
<1> QED
  BY <1>1, <1>2, LocalStep

\* The push returns "full" or starts over.
LEMMA ReloadHeadRing ==
  ASSUME RingInv, NEW t \in Thread, ReloadHead(t)
  PROVE  RingInv'
<1>1. RingTypes'
  <2>1. CASE head # pos[t] \/ retry[t]
    BY <2>1 DEF RingInv, RingTypes, ReloadHead, Go, queue, Pushing
  <2>2. CASE ~(head # pos[t] \/ retry[t])
    BY <2>2, ReturnTypes DEF RingInv, RingTypes, ReloadHead, queue
  <2> QED
    BY <2>1, <2>2
<1>2. LooksOnly(t)
  BY DEF LooksOnly, RingInv, RingTypes, ReloadHead, Return, Go, queue, Filling, Emptying
<1> QED
  BY <1>1, <1>2, LocalStep

\* Pop begins: tail_ is read.
LEMMA StartPopRing ==
  ASSUME RingInv, NEW t \in Thread, StartPop(t)
  PROVE  RingInv'
<1>1. RingTypes'
  BY DEF RingInv, RingTypes, StartPop, Go, queue, Pushing, Popping
<1>2. LooksOnly(t)
  BY DEF LooksOnly, RingInv, RingTypes, StartPop, Go, queue, Filling, Emptying
<1> QED
  BY <1>1, <1>2, LocalStep

\* The slot's turn is compared.
LEMMA CheckReadyRing ==
  ASSUME RingInv, NEW t \in Thread, CheckReady(t)
  PROVE  RingInv'
<1>1. RingTypes'
  BY DEF RingInv, RingTypes, CheckReady, Go, queue, Pushing, Popping
<1>2. LooksOnly(t)
  BY DEF LooksOnly, RingInv, RingTypes, ChecksHold, CheckReady, Go, queue, Filling, Emptying
<1> QED
  BY <1>1, <1>2, LocalStep

\* The pop returns "empty" or starts over.
LEMMA ReloadTailRing ==
  ASSUME RingInv, NEW t \in Thread, ReloadTail(t)
  PROVE  RingInv'
<1>1. RingTypes'
  <2>1. CASE tail # pos[t]
    BY <2>1 DEF RingInv, RingTypes, ReloadTail, Go, queue, Pushing, Popping
  <2>2. CASE ~(tail # pos[t])
    BY <2>2, ReturnTypes DEF RingInv, RingTypes, ReloadTail, queue
  <2> QED
    BY <2>1, <2>2
<1>2. LooksOnly(t)
  BY DEF LooksOnly, RingInv, RingTypes, ReloadTail, Return, Go, queue, Filling, Emptying
<1> QED
  BY <1>1, <1>2, LocalStep

-----------------------------------------------------------------------------
(***************************************************************************)
(* The steps of threads that take or hold a ticket.                        *)
(***************************************************************************)

\* Threads at work on storage are on different slots: their tickets differ, and one
\* turn counter cannot have the turns of two tickets.
LEMMA RingExclusive == RingInv => SlotExclusive
<1> SUFFICES ASSUME RingInv, NEW t \in Thread, NEW u \in Thread, t # u,
                    pc[t] \in Filling \cup Emptying, pc[u] \in Filling \cup Emptying,
                    idx(pos[t]) = idx(pos[u])
             PROVE  FALSE
  BY DEF SlotExclusive, Filling, Emptying
<1>1. pos[t] \in Nat /\ pos[u] \in Nat /\ turn(pos[t]) \in Nat /\ turn(pos[u]) \in Nat
  BY TicketParts DEF RingInv, RingTypes
<1>2. pos[t] # pos[u]
  BY DEF RingInv, DistinctTickets
<1>3. turn(pos[t]) # turn(pos[u])
  BY <1>1, <1>2, SameTicket
<1>4. /\ pc[t] \in Filling => occupy[idx(pos[t])] = turn(pos[t]) * 2
      /\ pc[t] \in Emptying => occupy[idx(pos[t])] = turn(pos[t]) * 2 + 1
      /\ pc[u] \in Filling => occupy[idx(pos[u])] = turn(pos[u]) * 2
      /\ pc[u] \in Emptying => occupy[idx(pos[u])] = turn(pos[u]) * 2 + 1
  BY DEF RingInv, FillingInv, EmptyingInv
<1> QED
  BY <1>1, <1>3, <1>4

\* When the compare-and-swap on head_ succeeds, the ring has a free slot: the turn seen
\* by the check rules out the ticket a capacity before.
LEMMA RoomForHead ==
  ASSUME RingInv, NEW t \in Thread, pc[t] = "cas", head = pos[t]
  PROVE  /\ occupy[idx(head)] = turn(head) * 2
         /\ head < tail + Capacity
         /\ \A u \in Thread : pc[u] \in Emptying => head < pos[u] + Capacity
<1>1. head \in Nat /\ tail \in Nat /\ Capacity \in Nat /\ Capacity > 0 /\ pos \in [Thread -> Nat]
  BY QueueAssumption DEF RingInv, RingTypes
<1>2. occupy[idx(head)] = turn(head) * 2
  BY DEF RingInv, ChecksHold
<1>3. head # tail + Capacity
  <2> SUFFICES ASSUME head = tail + Capacity PROVE FALSE
    OBVIOUS
  <2>1. idx(head) = idx(tail) /\ turn(head) = turn(tail) + 1 /\ turn(tail) \in Nat
    BY <1>1, NextTurn, TicketParts
  <2>2. occupy[idx(tail)] = turn(tail) * 2 \/ occupy[idx(tail)] = turn(tail) * 2 + 1
    BY <1>1 DEF RingInv, TakenSlots
  <2> QED
    BY <1>2, <2>1, <2>2
<1>4. ASSUME NEW u \in Thread, pc[u] \in Emptying, head = pos[u] + Capacity
      PROVE  FALSE
  <2>1. idx(head) = idx(pos[u]) /\ turn(head) = turn(pos[u]) + 1 /\ turn(pos[u]) \in Nat
    BY <1>1, <1>4, NextTurn, TicketParts
  <2>2. occupy[idx(pos[u])] = turn(pos[u]) * 2 + 1
    BY <1>4 DEF RingInv, EmptyingInv
  <2> QED
    BY <1>2, <2>1, <2>2
<1>5. head <= tail + Capacity /\ \A u \in Thread : pc[u] \in Emptying => head <= pos[u] + Capacity
  BY DEF RingInv, Window, EmptyingInv
<1> QED
  BY <1>1, <1>2, <1>3, <1>4, <1>5

\* head_ is taken: the thread holds the ticket, the slot is its own.
LEMMA CasHeadRing ==
  ASSUME RingInv, NEW t \in Thread, CasHead(t)
  PROVE  RingInv'
<1>0. /\ head \in Nat /\ tail \in Nat /\ Capacity \in Nat /\ Capacity > 0
      /\ pos \in [Thread -> Nat] /\ pc \in [Thread -> {"idle"} \cup Pushing \cup Popping]
      /\ pushed \in Seq(Value) /\ Len(pushed) = head /\ Len(popped) = tail
      /\ item[t] \in Value /\ tail <= head
  BY QueueAssumption DEF RingInv, RingTypes, Window, CasHead, Pushing
<1>1. CASE head # pos[t]
  <2>1. RingTypes'
    BY <1>1 DEF RingInv, RingTypes, CasHead, Go, Pushing
  <2>2. LooksOnly(t)
    BY <1>0, <1>1 DEF LooksOnly, CasHead, Go, queue, Filling, Emptying
  <2> QED
    BY <2>1, <2>2, LocalStep
<1>2. CASE head = pos[t]
  <2>1. /\ head' = head + 1 /\ tail' = tail
        /\ pushed' = Append(pushed, item[t]) /\ popped' = popped
        /\ pc' = [pc EXCEPT ![t] = "construct"]
        /\ UNCHANGED <<pos, item, occupy, storage>>
        /\ pc[t] = "cas"
    BY <1>2 DEF CasHead, Go
  <2>2. /\ occupy[idx(head)] = turn(head) * 2
        /\ head < tail + Capacity
        /\ \A u \in Thread : pc[u] \in Emptying => head < pos[u] + Capacity
    BY <1>2, <2>1, RoomForHead
  <2>3. /\ \A i \in 1..head : pushed'[i] = pushed[i]
        /\ pushed'[head + 1] = item[t]
        /\ pushed' \in Seq(Value) /\ Len(pushed') = head + 1
    BY <1>0, <2>1
  <2>4. \A u \in Thread : pc'[u] = IF u = t THEN "construct" ELSE pc[u]
    BY <1>0, <2>1
  <2>5. RingTypes'
    BY <1>0, <2>1, <2>3 DEF RingInv, RingTypes, Pushing
  <2>6. Window'
    BY <1>0, <2>1, <2>2 DEF Window
  <2>7. FillingInv'
    <3> SUFFICES ASSUME NEW u \in Thread, pc'[u] \in Filling
                 PROVE  /\ tail <= pos[u] /\ pos[u] < head + 1
                        /\ occupy[idx(pos[u])] = turn(pos[u]) * 2
                        /\ pushed'[pos[u] + 1] = item[u]
                        /\ pc'[u] = "publish" => storage[idx(pos[u])] = item[u]
      BY <2>1 DEF FillingInv
    <3>1. CASE u = t
      BY <1>0, <1>2, <2>2, <2>3, <2>4, <3>1
    <3>2. CASE u # t
      <4>1. /\ tail <= pos[u] /\ pos[u] < head
            /\ occupy[idx(pos[u])] = turn(pos[u]) * 2
            /\ pushed[pos[u] + 1] = item[u]
            /\ pc[u] = "publish" => storage[idx(pos[u])] = item[u]
        BY <2>4, <3>2 DEF RingInv, FillingInv
      <4>2. pos[u] + 1 \in 1..head
        BY <1>0, <4>1
      <4> QED
        BY <1>0, <2>3, <2>4, <3>2, <4>1, <4>2
    <3> QED
      BY <3>1, <3>2
  <2>8. EmptyingInv'
    <3> SUFFICES ASSUME NEW u \in Thread, pc'[u] \in Emptying
                 PROVE  /\ pos[u] < tail /\ head + 1 <= pos[u] + Capacity
                        /\ occupy[idx(pos[u])] = turn(pos[u]) * 2 + 1
                        /\ pc'[u] = "move" => storage[idx(pos[u])] = pushed'[pos[u] + 1]
                        /\ pc'[u] = "release" => popped[pos[u] + 1] = pushed'[pos[u] + 1]
      BY <2>1 DEF EmptyingInv
    <3>1. pc[u] = pc'[u] /\ pc[u] \in Emptying
      BY <2>4 DEF Emptying
    <3>2. /\ pos[u] < tail
          /\ occupy[idx(pos[u])] = turn(pos[u]) * 2 + 1
          /\ pc[u] = "move" => storage[idx(pos[u])] = pushed[pos[u] + 1]
          /\ pc[u] = "release" => popped[pos[u] + 1] = pushed[pos[u] + 1]
      BY <3>1 DEF RingInv, EmptyingInv
    <3>3. pos[u] + 1 \in 1..head
      BY <1>0, <3>2
    <3> QED
      BY <1>0, <2>2, <2>3, <3>1, <3>2, <3>3
  <2>9. DistinctTickets'
    <3>1. \A u \in Thread : pc[u] \in Filling \cup Emptying => pos[u] # head
      BY <1>0 DEF RingInv, FillingInv, EmptyingInv
    <3> QED
      BY <1>2, <2>1, <2>4, <3>1 DEF RingInv, DistinctTickets
  <2>10. TakenSlots'
    <3> SUFFICES ASSUME NEW i \in Nat, tail <= i, i < head + 1
                 PROVE  \/ occupy[idx(i)] = turn(i) * 2
                        \/ occupy[idx(i)] = turn(i) * 2 + 1 /\ storage[idx(i)] = pushed'[i + 1]
      BY <2>1 DEF TakenSlots
    <3>1. CASE i = head
      BY <2>2, <3>1
    <3>2. CASE i < head
      <4>1. pushed'[i + 1] = pushed[i + 1]
        BY <1>0, <2>3, <3>2
      <4> QED
        BY <3>2, <4>1 DEF RingInv, TakenSlots
    <3> QED
      BY <1>0, <3>1, <3>2
  <2>11. FreeSlots'
    BY <1>0, <2>1 DEF RingInv, FreeSlots
  <2>12. ChecksHold'
    BY <1>0, <2>1, <2>4 DEF RingInv, ChecksHold
  <2>13. FirstInFirstOut'
    <3> SUFFICES ASSUME NEW i \in DOMAIN popped
                 PROVE  popped[i] = pushed'[i] \/ \E u \in Thread : pc'[u] = "move" /\ pos[u] = i - 1
      BY <2>1 DEF FirstInFirstOut
    <3>1. i \in 1..head
      BY <1>0 DEF RingInv, RingTypes
    <3> QED
      BY <2>1, <2>3, <2>4, <3>1 DEF RingInv, FirstInFirstOut
  <2> QED
    BY <2>5, <2>6, <2>7, <2>8, <2>9, <2>10, <2>11, <2>12, <2>13 DEF RingInv
<1> QED
  BY <1>1, <1>2

\* The item is put into the slot, which no other thread uses.
LEMMA ConstructRing ==
  ASSUME RingInv, NEW t \in Thread, Construct(t)
  PROVE  RingInv'
<1>0. /\ head \in Nat /\ tail \in Nat /\ Capacity \in Nat /\ Capacity > 0
      /\ pos \in [Thread -> Nat] /\ pc \in [Thread -> {"idle"} \cup Pushing \cup Popping]
      /\ item[t] \in Value
      /\ storage \in [Slots -> Value \cup {NoValue}]
      /\ tail <= head /\ head <= tail + Capacity
  BY QueueAssumption DEF RingInv, RingTypes, Window, Construct, Pushing
<1>a. pos[t] \in Nat /\ idx(pos[t]) \in Slots
  BY <1>0, TicketParts DEF Slots
<1>1. /\ storage' = [storage EXCEPT ![idx(pos[t])] = item[t]]
      /\ pc' = [pc EXCEPT ![t] = "publish"]
      /\ UNCHANGED <<head, tail, occupy, pushed, popped, pos, item>>
      /\ pc[t] = "construct"
  BY DEF Construct, Go
<1>2. \A u \in Thread : pc'[u] = IF u = t THEN "publish" ELSE pc[u]
  BY <1>0, <1>1
<1>3. /\ storage'[idx(pos[t])] = item[t]
      /\ \A i \in Nat : idx(i) # idx(pos[t]) => storage'[idx(i)] = storage[idx(i)]
  BY <1>0, <1>a, <1>1, TicketParts DEF Slots
<1>4. \A u \in Thread \ {t} : pc[u] \in Filling \cup Emptying => idx(pos[u]) # idx(pos[t])
  BY <1>1, RingExclusive DEF SlotExclusive, Filling, Emptying
<1>5. /\ tail <= pos[t] /\ pos[t] < head
      /\ occupy[idx(pos[t])] = turn(pos[t]) * 2 /\ pushed[pos[t] + 1] = item[t]
  BY <1>1 DEF RingInv, FillingInv, Filling
<1>6. RingTypes'
  BY <1>0, <1>a, <1>1 DEF RingInv, RingTypes, Pushing
<1>7. Window' /\ FreeSlots'
  BY <1>1 DEF RingInv, Window, FreeSlots
<1>8. FillingInv'
  BY <1>0, <1>1, <1>2, <1>3, <1>4, <1>5 DEF RingInv, FillingInv, Filling
<1>9. EmptyingInv'
  BY <1>0, <1>1, <1>2, <1>3, <1>4 DEF RingInv, EmptyingInv, Emptying
<1>10. DistinctTickets'
  BY <1>1, <1>2 DEF RingInv, DistinctTickets, Filling
<1>11. TakenSlots'
  <2> SUFFICES ASSUME NEW i \in Nat, tail <= i, i < head
               PROVE  \/ occupy[idx(i)] = turn(i) * 2
                      \/ occupy[idx(i)] = turn(i) * 2 + 1 /\ storage'[idx(i)] = pushed[i + 1]
    BY <1>1 DEF TakenSlots
  <2>1. CASE i = pos[t]
    BY <1>5, <2>1
  <2>2. CASE i # pos[t]
    <3>1. idx(i) # idx(pos[t])
      BY <1>0, <1>a, <1>5, <2>2, FarApart
    <3> QED
      BY <1>3, <3>1 DEF RingInv, TakenSlots
  <2> QED
    BY <2>1, <2>2
<1>12. ChecksHold'
  BY <1>1, <1>2 DEF RingInv, ChecksHold
<1>13. FirstInFirstOut'
  BY <1>1, <1>2 DEF RingInv, FirstInFirstOut
<1> QED
  BY <1>6, <1>7, <1>8, <1>9, <1>10, <1>11, <1>12, <1>13 DEF RingInv

\* The slot is published: its turn counter says that the item is there.
LEMMA PublishSlotRing ==
  ASSUME RingInv, NEW t \in Thread, PublishSlot(t)
  PROVE  RingInv'
<1>0. /\ head \in Nat /\ tail \in Nat /\ Capacity \in Nat /\ Capacity > 0
      /\ pos \in [Thread -> Nat] /\ pc \in [Thread -> {"idle"} \cup Pushing \cup Popping]
      /\ occupy \in [Slots -> Nat]
      /\ tail <= head /\ head <= tail + Capacity
  BY QueueAssumption DEF RingInv, RingTypes, Window
<1>a. pos[t] \in Nat /\ idx(pos[t]) \in Slots /\ turn(pos[t]) \in Nat
  BY <1>0, TicketParts DEF Slots
<1>1. /\ occupy' = [occupy EXCEPT ![idx(pos[t])] = turn(pos[t]) * 2 + 1]
      /\ UNCHANGED <<head, tail, storage, pushed, popped>>
      /\ pc[t] = "publish" /\ Return(t)
  BY DEF PublishSlot
<1>2. /\ pc' \in [Thread -> {"idle"} \cup Pushing \cup Popping]
      /\ pos' \in [Thread -> Nat]
      /\ item' \in [Thread -> Value \cup {NoValue}]
      /\ \A u \in Thread : pc'[u] \in Pushing => item'[u] \in Value
      /\ pc'[t] = "idle"
      /\ \A u \in Thread \ {t} : pc'[u] = pc[u] /\ pos'[u] = pos[u] /\ item'[u] = item[u]
  BY <1>1, ReturnTypes DEF RingInv
<1>3. /\ occupy'[idx(pos[t])] = turn(pos[t]) * 2 + 1
      /\ \A i \in Nat : idx(i) # idx(pos[t]) => occupy'[idx(i)] = occupy[idx(i)]
  BY <1>0, <1>a, <1>1, TicketParts DEF Slots
<1>4. \A u \in Thread \ {t} : pc[u] \in Filling \cup Emptying => idx(pos[u]) # idx(pos[t])
  BY <1>1, RingExclusive DEF SlotExclusive, Filling, Emptying
<1>5. /\ tail <= pos[t] /\ pos[t] < head
      /\ occupy[idx(pos[t])] = turn(pos[t]) * 2 /\ pushed[pos[t] + 1] = item[t]
      /\ storage[idx(pos[t])] = item[t]
  BY <1>1 DEF RingInv, FillingInv, Filling
<1>6. RingTypes'
  BY <1>a, <1>1, <1>2 DEF RingInv, RingTypes
<1>7. Window'
  BY <1>1 DEF RingInv, Window
<1>8. FillingInv'
  BY <1>0, <1>1, <1>2, <1>3, <1>4 DEF RingInv, FillingInv, Filling
<1>9. EmptyingInv'
  BY <1>0, <1>1, <1>2, <1>3, <1>4 DEF RingInv, EmptyingInv, Emptying
<1>10. DistinctTickets'
  BY <1>2 DEF RingInv, DistinctTickets, Filling, Emptying
<1>11. TakenSlots'
  <2> SUFFICES ASSUME NEW i \in Nat, tail <= i, i < head
               PROVE  \/ occupy'[idx(i)] = turn(i) * 2
                      \/ occupy'[idx(i)] = turn(i) * 2 + 1 /\ storage[idx(i)] = pushed[i + 1]
    BY <1>1 DEF TakenSlots
  <2>1. CASE i = pos[t]
    BY <1>3, <1>5, <2>1
  <2>2. CASE i # pos[t]
    <3>1. idx(i) # idx(pos[t])
      BY <1>0, <1>a, <1>5, <2>2, FarApart
    <3> QED
      BY <1>3, <3>1 DEF RingInv, TakenSlots
  <2> QED
    BY <2>1, <2>2
<1>12. FreeSlots'
  <2> SUFFICES ASSUME NEW i \in Nat, head <= i, i < tail + Capacity
               PROVE  occupy'[idx(i)] = turn(i) * 2 \/ occupy'[idx(i)] + 1 = turn(i) * 2
    BY <1>1 DEF FreeSlots
  <2>1. idx(i) # idx(pos[t])
    BY <1>0, <1>a, <1>5, FarApart
  <2> QED
    BY <1>3, <2>1 DEF RingInv, FreeSlots
<1>13. ChecksHold'
  <2>1. occupy[idx(head)] = turn(head) * 2 => idx(head) # idx(pos[t])
    BY <1>0, <1>a, <1>5, SameTicket, TicketParts
  <2>2. occupy[idx(tail)] = turn(tail) * 2 + 1 => idx(tail) # idx(pos[t])
    BY <1>0, <1>a, <1>5, TicketParts
  <2> QED
    BY <1>0, <1>1, <1>2, <1>3, <2>1, <2>2 DEF RingInv, ChecksHold
<1>14. FirstInFirstOut'
  BY <1>1, <1>2 DEF RingInv, FirstInFirstOut
<1> QED
  BY <1>6, <1>7, <1>8, <1>9, <1>10, <1>11, <1>12, <1>13, <1>14 DEF RingInv

\* When the compare-and-swap on tail_ succeeds, the slot holds the item of that ticket.
LEMMA ItemAtTail ==
  ASSUME RingInv, NEW t \in Thread, pc[t] = "dcas", tail = pos[t]
  PROVE  /\ occupy[idx(tail)] = turn(tail) * 2 + 1
         /\ tail < head
         /\ storage[idx(tail)] = pushed[tail + 1]
<1>1. head \in Nat /\ tail \in Nat /\ turn(tail) \in Nat /\ Capacity \in Nat /\ Capacity > 0 /\ tail <= head
  BY QueueAssumption, TicketParts DEF RingInv, RingTypes, Window
<1>2. occupy[idx(tail)] = turn(tail) * 2 + 1
  BY DEF RingInv, ChecksHold
<1>3. tail # head
  <2> SUFFICES ASSUME tail = head PROVE FALSE
    OBVIOUS
  <2>1. occupy[idx(tail)] = turn(tail) * 2 \/ occupy[idx(tail)] + 1 = turn(tail) * 2
    BY <1>1 DEF RingInv, FreeSlots
  <2> QED
    BY <1>1, <1>2, <2>1
<1>4. \/ occupy[idx(tail)] = turn(tail) * 2
      \/ storage[idx(tail)] = pushed[tail + 1]
  BY <1>1, <1>3 DEF RingInv, TakenSlots
<1> QED
  BY <1>1, <1>2, <1>3, <1>4

\* tail_ is taken: the thread holds the ticket and with it the slot.
LEMMA CasTailRing ==
  ASSUME RingInv, NEW t \in Thread, CasTail(t)
  PROVE  RingInv'
<1>0. /\ head \in Nat /\ tail \in Nat /\ Capacity \in Nat /\ Capacity > 0
      /\ pos \in [Thread -> Nat] /\ pc \in [Thread -> {"idle"} \cup Pushing \cup Popping]
      /\ popped \in Seq(Value \cup {NoValue}) /\ Len(popped) = tail
      /\ tail <= head /\ head <= tail + Capacity
  BY QueueAssumption DEF RingInv, RingTypes, Window
<1>1. CASE tail # pos[t]
  <2>1. RingTypes'
    BY <1>1 DEF RingInv, RingTypes, CasTail, Go, Pushing, Popping
  <2>2. LooksOnly(t)
    BY <1>0, <1>1 DEF LooksOnly, CasTail, Go, queue, Filling, Emptying
  <2> QED
    BY <2>1, <2>2, LocalStep
<1>2. CASE tail = pos[t]
  <2>1. /\ tail' = tail + 1 /\ head' = head
        /\ popped' = Append(popped, NoValue) /\ pushed' = pushed
        /\ pc' = [pc EXCEPT ![t] = "move"]
        /\ UNCHANGED <<pos, item, occupy, storage>>
        /\ pc[t] = "dcas"
    BY <1>2 DEF CasTail, Go
  <2>2. /\ occupy[idx(tail)] = turn(tail) * 2 + 1
        /\ tail < head
        /\ storage[idx(tail)] = pushed[tail + 1]
    BY <1>2, <2>1, ItemAtTail
  <2>3. /\ \A i \in 1..tail : popped'[i] = popped[i]
        /\ popped' \in Seq(Value \cup {NoValue}) /\ Len(popped') = tail + 1
    BY <1>0, <2>1
  <2>4. \A u \in Thread : pc'[u] = IF u = t THEN "move" ELSE pc[u]
    BY <1>0, <2>1
  <2>5. RingTypes'
    BY <1>0, <2>1, <2>3 DEF RingInv, RingTypes, Pushing, Popping
  <2>6. Window'
    BY <1>0, <2>1, <2>2 DEF Window
  <2>7. \A u \in Thread : pc[u] \in Filling => tail < pos[u]
    <3>1. turn(tail) \in Nat
      BY <1>0, TicketParts
    <3>2. \A u \in Thread : pc[u] \in Filling => pos[u] # tail /\ tail <= pos[u]
      BY <2>2, <3>1 DEF RingInv, FillingInv
    <3> QED
      BY <1>0, <3>2
  <2>8. FillingInv'
    BY <1>0, <2>1, <2>4, <2>7 DEF RingInv, FillingInv, Filling
  <2>9. EmptyingInv'
    <3> SUFFICES ASSUME NEW u \in Thread, pc'[u] \in Emptying
                 PROVE  /\ pos[u] < tail + 1 /\ head <= pos[u] + Capacity
                        /\ occupy[idx(pos[u])] = turn(pos[u]) * 2 + 1
                        /\ pc'[u] = "move" => storage[idx(pos[u])] = pushed[pos[u] + 1]
                        /\ pc'[u] = "release" => popped'[pos[u] + 1] = pushed[pos[u] + 1]
      BY <2>1 DEF EmptyingInv
    <3>1. CASE u = t
      BY <1>0, <1>2, <2>2, <2>4, <3>1
    <3>2. CASE u # t
      <4>1. pc[u] = pc'[u] /\ pc[u] \in Emptying
        BY <2>4, <3>2
      <4>2. /\ pos[u] < tail /\ head <= pos[u] + Capacity
            /\ occupy[idx(pos[u])] = turn(pos[u]) * 2 + 1
            /\ pc[u] = "move" => storage[idx(pos[u])] = pushed[pos[u] + 1]
            /\ pc[u] = "release" => popped[pos[u] + 1] = pushed[pos[u] + 1]
        BY <4>1 DEF RingInv, EmptyingInv
      <4>3. popped'[pos[u] + 1] = popped[pos[u] + 1]
        BY <1>0, <2>3, <4>2
      <4> QED
        BY <1>0, <4>1, <4>2, <4>3
    <3> QED
      BY <3>1, <3>2
  <2>10. DistinctTickets'
    <3>1. \A u \in Thread : pc[u] \in Filling \cup Emptying => pos[u] # tail
      BY <1>0, <2>7 DEF RingInv, EmptyingInv
    <3> QED
      BY <1>2, <2>1, <2>4, <3>1 DEF RingInv, DistinctTickets
  <2>11. TakenSlots'
    BY <1>0, <2>1 DEF RingInv, TakenSlots
  <2>12. FreeSlots'
    <3> SUFFICES ASSUME NEW i \in Nat, head <= i, i < tail + 1 + Capacity
                 PROVE  occupy[idx(i)] = turn(i) * 2 \/ occupy[idx(i)] + 1 = turn(i) * 2
      BY <2>1 DEF FreeSlots
    <3>1. CASE i = tail + Capacity
      <4>1. idx(i) = idx(tail) /\ turn(i) = turn(tail) + 1 /\ turn(tail) \in Nat
        BY <1>0, <3>1, NextTurn, TicketParts
      <4> QED
        BY <2>2, <4>1
    <3>2. CASE i # tail + Capacity
      BY <1>0, <3>2 DEF RingInv, FreeSlots
    <3> QED
      BY <3>1, <3>2
  <2>13. ChecksHold'
    BY <1>0, <2>1, <2>4 DEF RingInv, ChecksHold
  <2>14. FirstInFirstOut'
    <3> SUFFICES ASSUME NEW i \in DOMAIN popped'
                 PROVE  popped'[i] = pushed[i] \/ \E u \in Thread : pc'[u] = "move" /\ pos[u] = i - 1
      BY <2>1 DEF FirstInFirstOut
    <3>1. CASE i = tail + 1
      BY <1>0, <1>2, <2>4, <3>1
    <3>2. CASE i # tail + 1
      <4>1. i \in 1..tail /\ i \in DOMAIN popped
        BY <1>0, <2>3, <3>2
      <4> QED
        BY <2>1, <2>3, <2>4, <4>1 DEF RingInv, FirstInFirstOut
    <3> QED
      BY <3>1, <3>2
  <2> QED
    BY <2>5, <2>6, <2>8, <2>9, <2>10, <2>11, <2>12, <2>13, <2>14 DEF RingInv
<1> QED
  BY <1>1, <1>2

\* The item is moved out; the next ticket of the slot is not in the ring yet.
LEMMA MoveRing ==
  ASSUME RingInv, NEW t \in Thread, Move(t)
  PROVE  RingInv'
<1>0. /\ head \in Nat /\ tail \in Nat /\ Capacity \in Nat /\ Capacity > 0
      /\ pos \in [Thread -> Nat] /\ pc \in [Thread -> {"idle"} \cup Pushing \cup Popping]
      /\ storage \in [Slots -> Value \cup {NoValue}]
      /\ popped \in Seq(Value \cup {NoValue}) /\ Len(popped) = tail
  BY QueueAssumption DEF RingInv, RingTypes
<1>a. pos[t] \in Nat /\ idx(pos[t]) \in Slots
  BY <1>0, TicketParts DEF Slots
<1>1. /\ storage' = [storage EXCEPT ![idx(pos[t])] = NoValue]
      /\ popped' = [popped EXCEPT ![pos[t] + 1] = storage[idx(pos[t])]]
      /\ pc' = [pc EXCEPT ![t] = "release"]
      /\ UNCHANGED <<head, tail, occupy, pushed, pos, item>>
      /\ pc[t] = "move"
  BY DEF Move, Go
<1>2. \A u \in Thread : pc'[u] = IF u = t THEN "release" ELSE pc[u]
  BY <1>0, <1>1
<1>3. \A i \in Nat : idx(i) # idx(pos[t]) => storage'[idx(i)] = storage[idx(i)]
  BY <1>0, <1>a, <1>1, TicketParts DEF Slots
<1>4. \A u \in Thread \ {t} :
        pc[u] \in Filling \cup Emptying => idx(pos[u]) # idx(pos[t]) /\ pos[u] # pos[t]
  BY <1>1, RingExclusive DEF SlotExclusive, Filling, Emptying
<1>5. /\ pos[t] < tail /\ head <= pos[t] + Capacity
      /\ occupy[idx(pos[t])] = turn(pos[t]) * 2 + 1
      /\ storage[idx(pos[t])] = pushed[pos[t] + 1]
  BY <1>1 DEF RingInv, EmptyingInv, Emptying
<1>6. /\ popped' \in Seq(Value \cup {NoValue}) /\ Len(popped') = tail /\ DOMAIN popped' = DOMAIN popped
      /\ popped'[pos[t] + 1] = pushed[pos[t] + 1]
      /\ \A i \in DOMAIN popped : i # pos[t] + 1 => popped'[i] = popped[i]
  <2>1. pos[t] + 1 \in 1..tail /\ storage[idx(pos[t])] \in Value \cup {NoValue}
    BY <1>0, <1>a, <1>5
  <2> QED
    BY <1>0, <1>1, <1>5, <2>1
<1>7. RingTypes'
  BY <1>0, <1>a, <1>1, <1>6 DEF RingInv, RingTypes, Pushing, Popping
<1>8. Window' /\ FreeSlots'
  BY <1>1 DEF RingInv, Window, FreeSlots
<1>9. FillingInv'
  BY <1>0, <1>1, <1>2, <1>3, <1>4 DEF RingInv, FillingInv, Filling
<1>10. EmptyingInv'
  <2> SUFFICES ASSUME NEW u \in Thread, pc'[u] \in Emptying
               PROVE  /\ pos[u] < tail /\ head <= pos[u] + Capacity
                      /\ occupy[idx(pos[u])] = turn(pos[u]) * 2 + 1
                      /\ pc'[u] = "move" => storage'[idx(pos[u])] = pushed[pos[u] + 1]
                      /\ pc'[u] = "release" => popped'[pos[u] + 1] = pushed[pos[u] + 1]
    BY <1>1 DEF EmptyingInv
  <2>1. CASE u = t
    BY <1>2, <1>5, <1>6, <2>1
  <2>2. CASE u # t
    <3>1. pc[u] = pc'[u] /\ pc[u] \in Emptying
      BY <1>2, <2>2
    <3>2. /\ pos[u] < tail /\ head <= pos[u] + Capacity
          /\ occupy[idx(pos[u])] = turn(pos[u]) * 2 + 1
          /\ pc[u] = "move" => storage[idx(pos[u])] = pushed[pos[u] + 1]
          /\ pc[u] = "release" => popped[pos[u] + 1] = pushed[pos[u] + 1]
      BY <3>1 DEF RingInv, EmptyingInv
    <3>3. idx(pos[u]) # idx(pos[t]) /\ pos[u] # pos[t] /\ pos[u] \in Nat
      BY <1>0, <1>4, <2>2, <3>1
    <3>4. popped'[pos[u] + 1] = popped[pos[u] + 1]
      BY <1>0, <1>a, <1>6, <3>2, <3>3
    <3>5. storage'[idx(pos[u])] = storage[idx(pos[u])]
      BY <1>3, <3>3
    <3> QED
      BY <3>1, <3>2, <3>4, <3>5
  <2> QED
    BY <2>1, <2>2
<1>11. DistinctTickets'
  BY <1>1, <1>2 DEF RingInv, DistinctTickets, Emptying
<1>12. TakenSlots'
  <2> SUFFICES ASSUME NEW i \in Nat, tail <= i, i < head
               PROVE  \/ occupy[idx(i)] = turn(i) * 2
                      \/ occupy[idx(i)] = turn(i) * 2 + 1 /\ storage'[idx(i)] = pushed[i + 1]
    BY <1>1 DEF TakenSlots
  <2>1. idx(i) # idx(pos[t])
    BY <1>0, <1>a, <1>5, FarApart
  <2> QED
    BY <1>3, <2>1 DEF RingInv, TakenSlots
<1>13. ChecksHold'
  BY <1>1, <1>2 DEF RingInv, ChecksHold
<1>14. FirstInFirstOut'
  <2> SUFFICES ASSUME NEW i \in DOMAIN popped
               PROVE  popped'[i] = pushed[i] \/ \E u \in Thread : pc'[u] = "move" /\ pos[u] = i - 1
    BY <1>1, <1>6 DEF FirstInFirstOut
  <2>1. CASE i = pos[t] + 1
    BY <1>6, <2>1
  <2>2. CASE i # pos[t] + 1
    <3>1. popped[i] = pushed[i] \/ \E u \in Thread : pc[u] = "move" /\ pos[u] = i - 1
      BY DEF RingInv, FirstInFirstOut
    <3>2. i \in Nat
      BY <1>0
    <3>3. \A u \in Thread : pos[u] = i - 1 => u # t
      BY <1>a, <2>2, <3>2
    <3> QED
      BY <1>2, <1>6, <2>2, <3>1, <3>3
  <2> QED
    BY <2>1, <2>2
<1> QED
  BY <1>7, <1>8, <1>9, <1>10, <1>11, <1>12, <1>13, <1>14 DEF RingInv

\* The slot is released for the ticket of its next turn.
LEMMA ReleaseSlotRing ==
  ASSUME RingInv, NEW t \in Thread, ReleaseSlot(t)
  PROVE  RingInv'
<1>0. /\ head \in Nat /\ tail \in Nat /\ Capacity \in Nat /\ Capacity > 0
      /\ pos \in [Thread -> Nat] /\ pc \in [Thread -> {"idle"} \cup Pushing \cup Popping]
      /\ occupy \in [Slots -> Nat]
      /\ tail <= head /\ head <= tail + Capacity
  BY QueueAssumption DEF RingInv, RingTypes, Window
<1>a. pos[t] \in Nat /\ idx(pos[t]) \in Slots /\ turn(pos[t]) \in Nat
  BY <1>0, TicketParts DEF Slots
<1>1. /\ occupy' = [occupy EXCEPT ![idx(pos[t])] = turn(pos[t]) * 2 + 2]
      /\ UNCHANGED <<head, tail, storage, pushed, popped>>
      /\ pc[t] = "release" /\ Return(t)
  BY DEF ReleaseSlot
<1>2. /\ pc' \in [Thread -> {"idle"} \cup Pushing \cup Popping]
      /\ pos' \in [Thread -> Nat]
      /\ item' \in [Thread -> Value \cup {NoValue}]
      /\ \A u \in Thread : pc'[u] \in Pushing => item'[u] \in Value
      /\ pc'[t] = "idle"
      /\ \A u \in Thread \ {t} : pc'[u] = pc[u] /\ pos'[u] = pos[u] /\ item'[u] = item[u]
  BY <1>1, ReturnTypes DEF RingInv
<1>3. /\ occupy'[idx(pos[t])] = turn(pos[t]) * 2 + 2
      /\ \A i \in Nat : idx(i) # idx(pos[t]) => occupy'[idx(i)] = occupy[idx(i)]
  BY <1>0, <1>a, <1>1, TicketParts DEF Slots
<1>4. \A u \in Thread \ {t} : pc[u] \in Filling \cup Emptying => idx(pos[u]) # idx(pos[t])
  BY <1>1, RingExclusive DEF SlotExclusive, Filling, Emptying
<1>5. /\ pos[t] < tail /\ head <= pos[t] + Capacity
      /\ occupy[idx(pos[t])] = turn(pos[t]) * 2 + 1
  BY <1>1 DEF RingInv, EmptyingInv, Emptying
<1>6. RingTypes'
  BY <1>a, <1>1, <1>2 DEF RingInv, RingTypes
<1>7. Window'
  BY <1>1 DEF RingInv, Window
<1>8. FillingInv'
  BY <1>0, <1>1, <1>2, <1>3, <1>4 DEF RingInv, FillingInv, Filling
<1>9. EmptyingInv'
  BY <1>0, <1>1, <1>2, <1>3, <1>4 DEF RingInv, EmptyingInv, Emptying
<1>10. DistinctTickets'
  BY <1>2 DEF RingInv, DistinctTickets, Filling, Emptying
<1>11. TakenSlots'
  <2> SUFFICES ASSUME NEW i \in Nat, tail <= i, i < head
               PROVE  \/ occupy'[idx(i)] = turn(i) * 2
                      \/ occupy'[idx(i)] = turn(i) * 2 + 1 /\ storage[idx(i)] = pushed[i + 1]
    BY <1>1 DEF TakenSlots
  <2>1. idx(i) # idx(pos[t])
    BY <1>0, <1>a, <1>5, FarApart
  <2> QED
    BY <1>3, <2>1 DEF RingInv, TakenSlots
<1>12. FreeSlots'
  <2> SUFFICES ASSUME NEW i \in Nat, head <= i, i < tail + Capacity
               PROVE  occupy'[idx(i)] = turn(i) * 2 \/ occupy'[idx(i)] + 1 = turn(i) * 2
    BY <1>1 DEF FreeSlots
  <2>0. idx(pos[t] + Capacity) = idx(pos[t]) /\ turn(pos[t] + Capacity) = turn(pos[t]) + 1
    BY <1>a, NextTurn
  <2>1. CASE i = pos[t] + Capacity
    BY <1>a, <1>3, <2>0, <2>1
  <2>2. CASE i > pos[t] + Capacity
    <3>1. i - (pos[t] + Capacity) < Capacity
      BY <1>0, <1>a, <1>5, <2>2
    <3>2. idx(i) # idx(pos[t] + Capacity)
      BY <1>0, <1>a, <2>2, <3>1, FarApart
    <3> QED
      BY <1>3, <2>0, <3>2 DEF RingInv, FreeSlots
  <2>3. CASE i < pos[t] + Capacity
    <3>1. idx(i) # idx(pos[t])
      BY <1>0, <1>a, <1>5, <2>3, FarApart
    <3> QED
      BY <1>3, <3>1 DEF RingInv, FreeSlots
  <2> QED
    BY <1>0, <1>a, <2>1, <2>2, <2>3
<1>13. ChecksHold'
  <2>1. occupy[idx(head)] = turn(head) * 2 => idx(head) # idx(pos[t])
    BY <1>0, <1>a, <1>5, TicketParts
  <2>2. occupy[idx(tail)] = turn(tail) * 2 + 1 => idx(tail) # idx(pos[t])
    BY <1>0, <1>a, <1>5, SameTicket, TicketParts
  <2> QED
    BY <1>0, <1>1, <1>2, <1>3, <2>1, <2>2 DEF RingInv, ChecksHold
<1>14. FirstInFirstOut'
  BY <1>1, <1>2 DEF RingInv, FirstInFirstOut
<1> QED
  BY <1>6, <1>7, <1>8, <1>9, <1>10, <1>11, <1>12, <1>13, <1>14 DEF RingInv

-----------------------------------------------------------------------------
(***************************************************************************)
(* The theorems.                                                           *)
(***************************************************************************)

\* The invariant of the ring holds in every state: the tickets between tail_ and head_
\* are at most Capacity, each is held by one thread or its slot has its item, and what
\* a thread saw before its compare-and-swap is still true if that succeeds.
THEOREM RingInvariant == Spec => []RingInv
<1>1. Init => RingInv
  BY RingInit
<1>2. RingInv /\ [Next]_vars => RingInv'
  <2> SUFFICES ASSUME RingInv, [Next]_vars PROVE RingInv'
    OBVIOUS
  <2>1. CASE UNCHANGED vars
    BY <2>1 DEF vars, RingInv, RingTypes, Window, FillingInv, EmptyingInv, DistinctTickets,
                TakenSlots, FreeSlots, ChecksHold, FirstInFirstOut
  <2>2. CASE Next
    <3>1. PICK t \in Thread : \/ \E v \in Value, again \in BOOLEAN : StartPush(t, v, again)
                              \/ StartPop(t)
                              \/ Continue(t)
      BY <2>2 DEF Next
    <3> QED
      BY <3>1, StartPushRing, LoadHeadRing, CheckFreeRing, CasHeadRing, ConstructRing, PublishSlotRing,
         ReloadHeadRing, StartPopRing, CheckReadyRing, CasTailRing, MoveRing, ReleaseSlotRing, ReloadTailRing
         DEF Continue
  <2> QED
    BY <2>1, <2>2
<1> QED
  BY <1>1, <1>2, PTL DEF Spec

\* No two threads are at work on the storage of one slot: TryEmplace's construct and
\* Pop's move never overlap, although no lock is taken.
THEOREM RingSlotExclusive == Spec => []SlotExclusive
BY RingInvariant, RingExclusive, PTL

\* Every pop gets the item pushed with the same ticket.
THEOREM RingFirstInFirstOut == Spec => []FirstInFirstOut
<1>1. RingInv => FirstInFirstOut
  BY DEF RingInv
<1> QED
  BY <1>1, RingInvariant, PTL

-----------------------------------------------------------------------------
(***************************************************************************)
(* The refinement of BoundedFifo.                                          *)
(***************************************************************************)

\* The refinement mapping of Fifo.
Items ==
  [i \in 1..(head - tail) |->
     [value |-> pushed[tail + i],
      ready |-> occupy[idx(tail + i - 1)] = turn(tail + i - 1) * 2 + 1]]

\* Whether the item of a ticket has been published.
Ready(i) == occupy[idx(i)] = turn(i) * 2 + 1

\* Appending to a sequence of length n, as a function.
LEMMA AppendAsFunction ==
  ASSUME NEW n \in Nat, NEW s, s = [i \in 1..n |-> s[i]], NEW x
  PROVE  Append(s, x) = [i \in 1..(n + 1) |-> IF i <= n THEN s[i] ELSE x]
<1> DEFINE S == {s[i] : i \in 1..n} \cup {x}
<1>1. s \in Seq(S) /\ Len(s) = n /\ x \in S
  <2>1. s \in [1..n -> S]
    OBVIOUS
  <2> QED
    BY <2>1
<1> HIDE DEF S
<1> QED
  BY <1>1

\* And the tail of one.
LEMMA TailAsFunction ==
  ASSUME NEW n \in Nat, n > 0, NEW s, s = [i \in 1..n |-> s[i]]
  PROVE  Tail(s) = [i \in 1..(n - 1) |-> s[i + 1]] /\ s # <<>>
<1> DEFINE S == {s[i] : i \in 1..n}
<1>1. s \in Seq(S) /\ Len(s) = n
  <2>1. s \in [1..n -> S]
    OBVIOUS
  <2> QED
    BY <2>1
<1> HIDE DEF S
<1> QED
  BY <1>1

\* The ring is empty in the beginning.
LEMMA InitItems == Init => Fifo!Init
<1> SUFFICES ASSUME Init PROVE Items = <<>>
  BY DEF Fifo!Init, Items
<1>1. head - tail = 0
  BY DEF Init
<1> QED
  BY <1>1 DEF Items

\* The mapping depends on the tickets in the ring, on their items and on whether they
\* are published.
LEMMA SameItems ==
  ASSUME RingInv, UNCHANGED <<head, tail, pushed>>,
         \A i \in Nat : tail <= i /\ i < head => occupy'[idx(i)] = occupy[idx(i)]
  PROVE  Items' = Items
<1>1. head \in Nat /\ tail \in Nat /\ tail <= head
  BY DEF RingInv, RingTypes, Window
<1>2. \A i \in 1..(head - tail) : occupy'[idx(tail + i - 1)] = occupy[idx(tail + i - 1)]
  <2> TAKE i \in 1..(head - tail)
  <2>1. tail + i - 1 \in Nat /\ tail <= tail + i - 1 /\ tail + i - 1 < head
    BY <1>1
  <2> QED
    BY <2>1
<1> QED
  BY <1>2 DEF Items

\* Taking a ticket from head_ reserves a place at the end.
LEMMA CasHeadItems ==
  ASSUME RingInv, NEW t \in Thread, CasHead(t), head = pos[t]
  PROVE  Fifo!Reserve(item[t]) /\ item[t] \in Value
<1> DEFINE n == head - tail
           r == [value |-> item[t], ready |-> FALSE]
<1>0. /\ head \in Nat /\ tail \in Nat /\ Capacity \in Nat
      /\ pushed \in Seq(Value) /\ Len(pushed) = head
      /\ item[t] \in Value /\ tail <= head
  BY QueueAssumption DEF RingInv, RingTypes, Window, CasHead, Pushing
<1>1. /\ head' = head + 1 /\ tail' = tail /\ occupy' = occupy
      /\ pushed' = Append(pushed, item[t]) /\ pc[t] = "cas"
  BY DEF CasHead
<1>2. occupy[idx(head)] = turn(head) * 2 /\ head < tail + Capacity
  BY <1>1, RoomForHead
<1>3. /\ \A i \in 1..n : pushed'[tail + i] = pushed[tail + i]
      /\ pushed'[tail + n + 1] = item[t]
  BY <1>0, <1>1
<1>4. Ready(head) = FALSE
  <2>1. turn(head) \in Nat
    BY <1>0, TicketParts
  <2>2. ~(occupy[idx(head)] = turn(head) * 2 + 1)
    BY <1>2, <2>1
  <2> QED
    BY <2>2 DEF Ready
<1>5. n \in Nat /\ Items = [i \in 1..n |-> Items[i]] /\ Len(Items) = n
  BY <1>0 DEF Items
<1>6. Append(Items, r) = [i \in 1..(n + 1) |-> IF i <= n THEN Items[i] ELSE r]
  BY <1>5, AppendAsFunction
<1>7. Items' = [i \in 1..(n + 1) |->
                  [value |-> pushed'[tail + i], ready |-> Ready(tail + i - 1)]]
  <2>1. head' - tail' = n + 1
    BY <1>0, <1>1
  <2> QED
    BY <1>1, <2>1 DEF Items, Ready
<1>8. ASSUME NEW i \in 1..(n + 1)
      PROVE  [value |-> pushed'[tail + i], ready |-> Ready(tail + i - 1)]
               = IF i <= n THEN Items[i] ELSE r
  <2>1. CASE i <= n
    BY <1>3, <1>5, <2>1 DEF Items, Ready
  <2>2. CASE i = n + 1
    <3>1. tail + i - 1 = head /\ tail + i = tail + n + 1
      BY <1>0, <2>2
    <3>2. ~(i <= n)
      BY <1>5, <2>2
    <3>3. Ready(tail + i - 1) = FALSE
      BY <1>4, <3>1
    <3>4. pushed'[tail + i] = item[t]
      BY <1>3, <3>1
    <3> QED
      BY <3>2, <3>3, <3>4
  <2> QED
    BY <1>5, <2>1, <2>2
<1>9. Items' = Append(Items, r)
  BY <1>6, <1>7, <1>8
<1>10. Len(Items) < Capacity
  BY <1>0, <1>2, <1>5
<1> QED
  BY <1>0, <1>9, <1>10 DEF Fifo!Reserve, Items

\* Publishing a slot makes the item in its place ready.
LEMMA PublishSlotItems ==
  ASSUME RingInv, NEW t \in Thread, PublishSlot(t)
  PROVE  \E i \in DOMAIN Items : Fifo!Publish(i)
<1> DEFINE n == head - tail
           p == pos[t] - tail + 1
<1>0. /\ head \in Nat /\ tail \in Nat /\ Capacity \in Nat
      /\ pos[t] \in Nat /\ occupy \in [Slots -> Nat]
      /\ tail <= head /\ head <= tail + Capacity
  BY QueueAssumption DEF RingInv, RingTypes, Window
<1>1. /\ occupy' = [occupy EXCEPT ![idx(pos[t])] = turn(pos[t]) * 2 + 1]
      /\ UNCHANGED <<head, tail, pushed>>
      /\ pc[t] = "publish"
  BY DEF PublishSlot
<1>2. tail <= pos[t] /\ pos[t] < head /\ occupy[idx(pos[t])] = turn(pos[t]) * 2
  BY <1>1 DEF RingInv, FillingInv, Filling
<1>3. p \in 1..n /\ tail + p - 1 = pos[t] /\ n \in Nat
  BY <1>0, <1>2
<1> DEFINE Published(i) == occupy'[idx(i)] = turn(i) * 2 + 1
<1>4. Ready(pos[t]) = FALSE /\ Published(pos[t]) = TRUE
  <2>1. turn(pos[t]) \in Nat /\ idx(pos[t]) \in Slots
    BY <1>0, TicketParts DEF Slots
  <2>2. ~(occupy[idx(pos[t])] = turn(pos[t]) * 2 + 1)
    BY <1>2, <2>1
  <2>3. occupy'[idx(pos[t])] = turn(pos[t]) * 2 + 1
    BY <1>0, <1>1, <2>1
  <2>4. Ready(pos[t]) = FALSE
    BY <2>2 DEF Ready
  <2>5. Published(pos[t]) = TRUE
    BY <2>3
  <2> QED
    BY <2>4, <2>5
<1>5. ASSUME NEW i \in 1..n, i # p
      PROVE  Published(tail + i - 1) = Ready(tail + i - 1)
  <2>1. tail + i - 1 \in Nat /\ tail <= tail + i - 1 /\ tail + i - 1 < head /\ tail + i - 1 # pos[t]
    BY <1>0, <1>3, <1>5
  <2>2. idx(tail + i - 1) # idx(pos[t])
    BY <1>0, <1>2, <2>1, FarApart
  <2>3. occupy'[idx(tail + i - 1)] = occupy[idx(tail + i - 1)]
    BY <1>0, <1>1, <2>1, <2>2, TicketParts DEF Slots
  <2> QED
    BY <2>3 DEF Ready
<1>6. Items = [i \in 1..n |-> [value |-> pushed[tail + i], ready |-> Ready(tail + i - 1)]]
  BY DEF Items, Ready
<1>7. Items' = [i \in 1..n |-> [value |-> pushed[tail + i], ready |-> Published(tail + i - 1)]]
  BY <1>1 DEF Items
<1> HIDE DEF Published, n, p
<1>8. ~Items[p].ready
  BY <1>3, <1>4, <1>6
<1>9. Items' = [Items EXCEPT ![p].ready = TRUE]
  <2>1. ASSUME NEW i \in 1..n
        PROVE  [value |-> pushed[tail + i], ready |-> Published(tail + i - 1)]
                 = IF i = p THEN [Items[p] EXCEPT !.ready = TRUE] ELSE Items[i]
    <3>1. CASE i = p
      BY <1>3, <1>4, <1>6, <3>1
    <3>2. CASE i # p
      BY <1>5, <1>6, <3>2
    <3> QED
      BY <3>1, <3>2
  <2>2. [Items EXCEPT ![p].ready = TRUE]
          = [i \in 1..n |-> IF i = p THEN [Items[p] EXCEPT !.ready = TRUE] ELSE Items[i]]
    BY <1>3, <1>6
  <2> QED
    BY <1>7, <2>1, <2>2
<1>10. p \in DOMAIN Items
  BY <1>3, <1>6
<1> QED
  BY <1>8, <1>9, <1>10 DEF Fifo!Publish, Items

\* Taking a ticket from tail_ takes the item at the front, which is ready.
LEMMA CasTailItems ==
  ASSUME RingInv, NEW t \in Thread, CasTail(t), tail = pos[t]
  PROVE  Fifo!Take
<1> DEFINE n == head - tail
<1>0. head \in Nat /\ tail \in Nat /\ tail <= head
  BY DEF RingInv, RingTypes, Window
<1>1. /\ tail' = tail + 1 /\ head' = head /\ occupy' = occupy
      /\ pushed' = pushed /\ pc[t] = "dcas"
  BY DEF CasTail
<1>2. occupy[idx(tail)] = turn(tail) * 2 + 1 /\ tail < head
  BY <1>1, ItemAtTail
<1>3. n \in Nat /\ n > 0 /\ head' - tail' = n - 1
  BY <1>0, <1>1, <1>2
<1>4. Items = [i \in 1..n |-> [value |-> pushed[tail + i], ready |-> Ready(tail + i - 1)]]
  BY DEF Items, Ready
<1>5. Items' = [i \in 1..(n - 1) |-> [value |-> pushed[tail + 1 + i], ready |-> Ready(tail + 1 + i - 1)]]
  BY <1>1, <1>3 DEF Items, Ready
<1> HIDE DEF n
<1>6. Items[1].ready
  <2>1. tail + 1 - 1 = tail
    BY <1>0
  <2>2. Ready(tail + 1 - 1)
    BY <1>2, <2>1 DEF Ready
  <2> QED
    BY <1>3, <1>4, <2>2
<1>7. Items = [i \in 1..n |-> Items[i]]
  BY <1>4
<1>8. Tail(Items) = [i \in 1..(n - 1) |-> Items[i + 1]] /\ Items # <<>>
  BY <1>3, <1>7, TailAsFunction
<1>9. ASSUME NEW i \in 1..(n - 1)
      PROVE  Items[i + 1] = [value |-> pushed[tail + 1 + i], ready |-> Ready(tail + 1 + i - 1)]
  <2>1. i + 1 \in 1..n /\ tail + (i + 1) = tail + 1 + i /\ tail + (i + 1) - 1 = tail + 1 + i - 1
    BY <1>0, <1>3
  <2> QED
    BY <1>4, <2>1
<1>10. Items' = Tail(Items)
  BY <1>5, <1>8, <1>9
<1> QED
  BY <1>6, <1>8, <1>10 DEF Fifo!Take, Items

\* Every step of the ring is a step of the queue or leaves it as it is.
LEMMA ItemsStep == RingInv /\ [Next]_vars => [Fifo!Next]_Items
<1> SUFFICES ASSUME RingInv, [Next]_vars PROVE Fifo!Next \/ Items' = Items
  OBVIOUS
<1>0. UNCHANGED <<head, tail, pushed, occupy>> => Items' = Items
  BY SameItems
<1>1. CASE UNCHANGED vars
  BY <1>0, <1>1 DEF vars
<1>2. CASE Next
  <2>1. PICK t \in Thread : \/ \E v \in Value, again \in BOOLEAN : StartPush(t, v, again)
                            \/ StartPop(t)
                            \/ Continue(t)
    BY <1>2 DEF Next
  <2>2. CASE CasHead(t)
    <3>1. CASE head = pos[t]
      <4>1. item[t] \in Value /\ Fifo!Reserve(item[t])
        BY <2>2, <3>1, CasHeadItems
      <4>2. \E v \in Value : Fifo!Reserve(v)
        BY <4>1 DEF Fifo!Reserve
      <4> QED
        BY <4>2 DEF Fifo!Next
    <3>2. CASE head # pos[t]
      BY <1>0, <2>2, <3>2 DEF CasHead
    <3> QED
      BY <3>1, <3>2
  <2>3. CASE CasTail(t)
    <3>1. CASE tail = pos[t]
      BY <2>3, <3>1, CasTailItems DEF Fifo!Next
    <3>2. CASE tail # pos[t]
      BY <1>0, <2>3, <3>2 DEF CasTail
    <3> QED
      BY <3>1, <3>2
  <2>4. CASE PublishSlot(t)
    BY <2>4, PublishSlotItems DEF Fifo!Next, Items
  <2>5. CASE ReleaseSlot(t)
    <3>0. /\ head \in Nat /\ tail \in Nat /\ pos[t] \in Nat /\ Capacity \in Nat
          /\ occupy \in [Slots -> Nat]
      BY QueueAssumption DEF RingInv, RingTypes
    <3>1. /\ occupy' = [occupy EXCEPT ![idx(pos[t])] = turn(pos[t]) * 2 + 2]
          /\ UNCHANGED <<head, tail, pushed>> /\ pc[t] = "release"
      BY <2>5 DEF ReleaseSlot
    <3>2. pos[t] < tail /\ head <= pos[t] + Capacity
      BY <3>1 DEF RingInv, EmptyingInv, Emptying
    <3>3. ASSUME NEW i \in Nat, tail <= i, i < head
          PROVE  occupy'[idx(i)] = occupy[idx(i)]
      <4>1. idx(i) # idx(pos[t])
        BY <3>0, <3>2, <3>3, FarApart
      <4> QED
        BY <3>0, <3>1, <4>1, TicketParts DEF Slots
    <3> QED
      BY <3>1, <3>3, SameItems
  <2>6. CASE UNCHANGED <<head, tail, pushed, occupy>>
    BY <1>0, <2>6
  <2> QED
    BY <2>1, <2>2, <2>3, <2>4, <2>5, <2>6
       DEF Continue, StartPush, StartPop, LoadHead, CheckFree, Construct, ReloadHead, CheckReady, Move, ReloadTail, queue
<1> QED
  BY <1>1, <1>2

\* The ring implements the bounded queue: a push takes the place behind the last one
\* when it takes its ticket, never beyond Capacity, and a pop takes the front, and only
\* when its item is there.
THEOREM RingImplementsFifo == Spec => ImplementsFifo
<1>1. Init => Fifo!Init
  BY InitItems
<1>2. RingInv /\ [Next]_vars => [Fifo!Next]_Items
  BY ItemsStep
<1> QED
  BY <1>1, <1>2, RingInvariant, PTL DEF Spec, ImplementsFifo, Fifo!Spec, Items

-----------------------------------------------------------------------------
(***************************************************************************)
(* The linked list for any number of threads and nodes.  Its nodes are a   *)
(* list at every moment: a node's next pointer changes only while the      *)
(* thread that pushes it has it to itself, so what Pop read of a node is   *)
(* still true when its compare-and-swap finds that node on top, however    *)
(* often the list changed in between.                                      *)
(***************************************************************************)

(***************************************************************************)
(* The inductive invariant.                                                *)
(***************************************************************************)
\* Where a thread has a node to itself: not pushed yet, or popped and not given out.
Owners == {"load", "cas", "take"}
Places == Owners \cup {"idle", "counting", "pop", "follow", "popcas"}

Crew(place) == {t \in Worker : at[t] = place}
InHand(x) == \E t \in Worker : at[t] \in Owners /\ node[t] = x
InTaken(x) == \E i \in DOMAIN taken : taken[i] = x

StackTypes ==
  /\ next \in Seq(Nat) /\ \A x \in DOMAIN next : next[x] <= Len(next)
  /\ top \in Nat /\ top <= Len(next)
  /\ count \in Int
  /\ at \in [Worker -> Places]
  /\ node \in [Worker -> Nat] /\ \A t \in Worker : node[t] <= Len(next)
  /\ link \in [Worker -> Nat] /\ \A t \in Worker : link[t] <= Len(next)
  /\ taken \in Seq(Nat) /\ \A i \in DOMAIN taken : taken[i] \in DOMAIN next

\* No two threads have one node to themselves, and none has one that was given out.
HandsApart ==
  /\ \A t \in Worker : at[t] \in Owners => node[t] \in DOMAIN next /\ ~InTaken(node[t])
  /\ \A t, u \in Worker : at[t] \in Owners /\ at[u] \in Owners /\ node[t] = node[u] => t = u

\* What Pop tries to take was pushed, and its next pointer is what Pop read.
Followers ==
  \A t \in Worker : at[t] \in {"follow", "popcas"} =>
    /\ node[t] \in DOMAIN next
    /\ \A u \in Worker : at[u] \in {"load", "cas"} => node[u] # node[t]
    /\ at[t] = "popcas" => link[t] = next[node[t]]

TakenOnce == \A i, j \in DOMAIN taken : taken[i] = taken[j] => i = j

\* The list is s[1], ..., s[n].
IsList(s, n) ==
  /\ \A i, j \in 1..n : s[i] = s[j] => i = j
  /\ top = IF n = 0 THEN 0 ELSE s[1]
  /\ \A i \in 1..n : next[s[i]] = IF i = n THEN 0 ELSE s[i + 1]

\* Every node is in the list, given out or in one thread's hand; count_ is behind by
\* the pushes and the pops that have not counted yet.
Accounts(s, n) ==
  /\ \A x \in DOMAIN next : (\E i \in 1..n : s[i] = x) \/ InTaken(x) \/ InHand(x)
  /\ \A i \in 1..n : ~InTaken(s[i]) /\ ~InHand(s[i])
  /\ count + Cardinality(Crew("counting")) = n + Cardinality(Crew("take"))

Listing(s, n) == s \in [1..n -> DOMAIN next] /\ IsList(s, n) /\ Accounts(s, n)

StackInv ==
  /\ StackTypes
  /\ HandsApart
  /\ Followers
  /\ TakenOnce
  /\ \E n \in Nat : \E s : Listing(s, n)

-----------------------------------------------------------------------------
\* A thread that moves joins one crew and leaves another.
LEMMA CrewMoves ==
  ASSUME IsFiniteSet(Worker), at \in [Worker -> Places], NEW t \in Worker, NEW place,
         at' = [at EXCEPT ![t] = place], NEW p
  PROVE  /\ Cardinality(Crew(p)) \in Nat /\ Cardinality(Crew(p))' \in Nat
         /\ Cardinality(Crew(p))' = IF place = at[t] THEN Cardinality(Crew(p))
                                    ELSE IF place = p THEN Cardinality(Crew(p)) + 1
                                    ELSE IF at[t] = p THEN Cardinality(Crew(p)) - 1
                                    ELSE Cardinality(Crew(p))
<1>1. IsFiniteSet(Crew(p)) /\ Cardinality(Crew(p)) \in Nat
  BY FS_Subset, FS_CardinalityType DEF Crew
<1>2. CASE place = at[t]
  <2>1. Crew(p)' = Crew(p)
    BY <1>2 DEF Crew
  <2> QED
    BY <1>1, <1>2, <2>1
<1>3. CASE place # at[t] /\ place = p
  <2>1. Crew(p)' = Crew(p) \cup {t} /\ t \notin Crew(p)
    BY <1>3 DEF Crew
  <2>2. Cardinality(Crew(p) \cup {t}) = Cardinality(Crew(p)) + 1
    BY <1>1, <2>1, FS_AddElement
  <2> QED
    BY <1>1, <1>3, <2>1, <2>2
<1>4. CASE place # at[t] /\ place # p /\ at[t] = p
  <2>1. Crew(p)' = Crew(p) \ {t} /\ t \in Crew(p)
    BY <1>4 DEF Crew
  <2>2. Cardinality(Crew(p) \ {t}) = Cardinality(Crew(p)) - 1 /\ IsFiniteSet(Crew(p) \ {t})
    BY <1>1, <2>1, FS_RemoveElement
  <2>3. Cardinality(Crew(p) \ {t}) \in Nat
    BY <2>2, FS_CardinalityType
  <2> QED
    BY <1>1, <1>4, <2>1, <2>2, <2>3
<1>5. CASE place # at[t] /\ place # p /\ at[t] # p
  <2>1. Crew(p)' = Crew(p)
    BY <1>5 DEF Crew
  <2> QED
    BY <1>1, <1>5, <2>1
<1> QED
  BY <1>2, <1>3, <1>4, <1>5

\* Push: a node of its own.
LEMMA NewNodeInv ==
  ASSUME IsFiniteSet(Worker), StackInv, NEW t \in Worker, NewNode(t)
  PROVE  StackInv'
<1> DEFINE m == Len(next) + 1
<1>1. /\ next \in Seq(Nat) /\ Len(next) \in Nat /\ DOMAIN next = 1..Len(next)
      /\ next' = Append(next, 0) /\ at' = [at EXCEPT ![t] = "load"] /\ at[t] = "idle"
      /\ node' = [node EXCEPT ![t] = m] /\ UNCHANGED <<top, count, link, taken>>
  BY DEF StackInv, StackTypes, NewNode, StackGo
<1>2. /\ next' \in Seq(Nat) /\ Len(next') = m /\ DOMAIN next' = 1..m
      /\ next'[m] = 0 /\ \A x \in DOMAIN next : next'[x] = next[x]
  BY <1>1
<1>3. /\ at' \in [Worker -> Places] /\ node' \in [Worker -> Nat]
      /\ \A u \in Worker : /\ at'[u] = IF u = t THEN "load" ELSE at[u]
                           /\ node'[u] = IF u = t THEN m ELSE node[u]
  BY <1>1 DEF StackInv, StackTypes, Places, Owners
<1>4. ASSUME NEW x \in DOMAIN next PROVE InHand(x)' <=> InHand(x)
  BY <1>1, <1>3 DEF InHand, Owners
<1>5. \A x : InTaken(x)' <=> InTaken(x)
  BY <1>1 DEF InTaken
<1>6. ~InTaken(m)
  BY <1>1 DEF InTaken, StackInv, StackTypes
<1>7. StackTypes'
  BY <1>1, <1>2, <1>3 DEF StackInv, StackTypes
<1>8. HandsApart'
  BY <1>1, <1>2, <1>3, <1>5, <1>6 DEF StackInv, StackTypes, HandsApart, Owners
<1>9. Followers'
  BY <1>1, <1>2, <1>3 DEF StackInv, StackTypes, Followers
<1>10. TakenOnce'
  BY <1>1 DEF StackInv, TakenOnce
<1>11. PICK n \in Nat : \E s : Listing(s, n)
  BY DEF StackInv
<1>12. PICK s : Listing(s, n)
  BY <1>11
<1>13. s \in [1..n -> DOMAIN next'] /\ IsList(s, n)'
  BY <1>1, <1>2, <1>12 DEF Listing, IsList
<1>14. Accounts(s, n)'
  <2>1. ASSUME NEW x \in DOMAIN next'
        PROVE  (\E i \in 1..n : s[i] = x) \/ InTaken(x)' \/ InHand(x)'
    <3>1. CASE x = m
      BY <1>3, <3>1 DEF InHand, Owners
    <3>2. CASE x # m
      <4>1. x \in DOMAIN next
        BY <1>1, <1>2, <3>2
      <4> QED
        BY <1>4, <1>5, <1>12, <4>1 DEF Listing, Accounts
    <3> QED
      BY <3>1, <3>2
  <2>2. \A i \in 1..n : ~InTaken(s[i])' /\ ~InHand(s[i])'
    BY <1>4, <1>5, <1>12 DEF Listing, Accounts
  <2>3. count' + Cardinality(Crew("counting"))' = n + Cardinality(Crew("take"))'
    <3>1. /\ Cardinality(Crew("counting"))' = Cardinality(Crew("counting"))
          /\ Cardinality(Crew("take"))' = Cardinality(Crew("take"))
      BY <1>1, CrewMoves DEF StackInv, StackTypes
    <3> QED
      BY <1>1, <1>12, <3>1 DEF Listing, Accounts
  <2> QED
    BY <2>1, <2>2, <2>3 DEF Accounts
<1> QED
  BY <1>7, <1>8, <1>9, <1>10, <1>13, <1>14 DEF StackInv, Listing

\* Push: the node's next pointer, which no other thread reads yet.
LEMMA LoadNextInv ==
  ASSUME IsFiniteSet(Worker), StackInv, NEW t \in Worker, LoadNext(t)
  PROVE  StackInv'
<1>1. /\ next \in Seq(Nat) /\ Len(next) \in Nat /\ DOMAIN next = 1..Len(next)
      /\ next' = [next EXCEPT ![node[t]] = top] /\ at' = [at EXCEPT ![t] = "cas"] /\ at[t] = "load"
      /\ UNCHANGED <<top, count, node, link, taken>>
  BY DEF StackInv, StackTypes, LoadNext, StackGo
<1>2. node[t] \in DOMAIN next /\ top \in Nat /\ top <= Len(next) /\ InHand(node[t])
  BY <1>1 DEF StackInv, StackTypes, HandsApart, Owners, InHand
<1>3. /\ next' \in Seq(Nat) /\ Len(next') = Len(next) /\ DOMAIN next' = DOMAIN next
      /\ \A x \in DOMAIN next : next'[x] = IF x = node[t] THEN top ELSE next[x]
  BY <1>1, <1>2
<1>4. /\ at' \in [Worker -> Places]
      /\ \A u \in Worker : at'[u] = IF u = t THEN "cas" ELSE at[u]
  BY <1>1 DEF StackInv, StackTypes, Places, Owners
<1>5. \A x : (InHand(x)' <=> InHand(x)) /\ (InTaken(x)' <=> InTaken(x))
  BY <1>1, <1>4 DEF InHand, InTaken, Owners
<1>6. StackTypes'
  BY <1>1, <1>2, <1>3, <1>4 DEF StackInv, StackTypes
<1>7. HandsApart'
  BY <1>1, <1>3, <1>4, <1>5 DEF StackInv, HandsApart, Owners
<1>8. Followers'
  BY <1>1, <1>3, <1>4 DEF StackInv, Followers
<1>9. TakenOnce'
  BY <1>1 DEF StackInv, TakenOnce
<1>10. PICK n \in Nat : \E s : Listing(s, n)
  BY DEF StackInv
<1>11. PICK s : Listing(s, n)
  BY <1>10
<1>12. \A i \in 1..n : s[i] \in DOMAIN next /\ s[i] # node[t]
  BY <1>2, <1>11 DEF Listing, Accounts
<1>13. s \in [1..n -> DOMAIN next'] /\ IsList(s, n)'
  BY <1>1, <1>3, <1>11, <1>12 DEF Listing, IsList
<1>14. Accounts(s, n)'
  <2>1. /\ Cardinality(Crew("counting"))' = Cardinality(Crew("counting"))
        /\ Cardinality(Crew("take"))' = Cardinality(Crew("take"))
    BY <1>1, CrewMoves DEF StackInv, StackTypes
  <2> QED
    BY <1>1, <1>3, <1>5, <1>11, <2>1 DEF Listing, Accounts
<1> QED
  BY <1>6, <1>7, <1>8, <1>9, <1>13, <1>14 DEF StackInv, Listing

\* Push: the node becomes the first of the list, or the pointer is set again.
LEMMA CasPushInv ==
  ASSUME IsFiniteSet(Worker), StackInv, NEW t \in Worker, CasPush(t)
  PROVE  StackInv'
<1>1. /\ next \in Seq(Nat) /\ Len(next) \in Nat /\ DOMAIN next = 1..Len(next)
      /\ at[t] = "cas" /\ UNCHANGED <<next, count, node, link, taken>>
      /\ node[t] \in DOMAIN next /\ ~InTaken(node[t]) /\ InHand(node[t])
  BY DEF StackInv, StackTypes, CasPush, HandsApart, Owners, InHand
<1>2. \A x : InTaken(x)' <=> InTaken(x)
  BY <1>1 DEF InTaken
<1>3. TakenOnce'
  BY <1>1 DEF StackInv, TakenOnce
<1>4. PICK n \in Nat : \E s : Listing(s, n)
  BY DEF StackInv
<1>5. PICK s : Listing(s, n)
  BY <1>4
<1>6. CASE top = next[node[t]] /\ top' = node[t] /\ StackGo(t, "counting")
  <2>1. at' = [at EXCEPT ![t] = "counting"]
    BY <1>6 DEF StackGo
  <2>2. /\ at' \in [Worker -> Places]
        /\ \A u \in Worker : at'[u] = IF u = t THEN "counting" ELSE at[u]
    BY <2>1 DEF StackInv, StackTypes, Places, Owners
  <2>3. \A x : InHand(x)' <=> InHand(x) /\ x # node[t]
    BY <1>1, <2>2 DEF InHand, Owners, StackInv, HandsApart
  <2>4. StackTypes'
    BY <1>1, <1>6, <2>2 DEF StackInv, StackTypes
  <2>5. HandsApart'
    BY <1>1, <1>2, <2>2 DEF StackInv, HandsApart, Owners
  <2>6. Followers'
    BY <1>1, <2>2 DEF StackInv, Followers
  <2>7. s \in [1..n -> DOMAIN next] /\ \A i \in 1..n : s[i] # node[t]
    BY <1>1, <1>5 DEF Listing, Accounts
  <2>8. PICK r \in [1..(n + 1) -> DOMAIN next] :
          /\ r[1] = node[t] /\ \A i \in 1..n : i + 1 \in 1..(n + 1) /\ r[i + 1] = s[i]
          /\ \A i \in 1..(n + 1) : i # 1 => i - 1 \in 1..n /\ r[i] = s[i - 1]
    <3> DEFINE f == [i \in 1..(n + 1) |-> IF i = 1 THEN node[t] ELSE s[i - 1]]
    <3>1. /\ f \in [1..(n + 1) -> DOMAIN next]
          /\ f[1] = node[t] /\ \A i \in 1..n : i + 1 \in 1..(n + 1) /\ f[i + 1] = s[i]
          /\ \A i \in 1..(n + 1) : i # 1 => i - 1 \in 1..n /\ f[i] = s[i - 1]
      <4>1. \A i \in 1..(n + 1) : i # 1 => i - 1 \in 1..n
        OBVIOUS
      <4>2. \A i \in 1..n : i + 1 \in 1..(n + 1) /\ i + 1 # 1 /\ (i + 1) - 1 = i
        OBVIOUS
      <4>3. node[t] \in DOMAIN next /\ 1 \in 1..(n + 1)
        BY <1>1
      <4>4. \A i \in 1..(n + 1) : (IF i = 1 THEN node[t] ELSE s[i - 1]) \in DOMAIN next
        BY <2>7, <4>1, <4>3
      <4>5. f \in [1..(n + 1) -> DOMAIN next]
        BY <4>4
      <4>6. \A i \in 1..n : f[i + 1] = s[i]
        BY <4>2
      <4> QED
        BY <4>1, <4>2, <4>3, <4>5, <4>6
    <3> HIDE DEF f
    <3> QED
      BY <3>1
  <2>9. IsList(r, n + 1)'
    <3>1. ASSUME NEW i \in 1..(n + 1), NEW j \in 1..(n + 1), r[i] = r[j] PROVE i = j
      BY <1>5, <2>7, <2>8, <3>1 DEF Listing, IsList
    <3>2. ASSUME NEW i \in 1..(n + 1) PROVE next[r[i]] = IF i = n + 1 THEN 0 ELSE r[i + 1]
      <4>1. CASE i = 1
        BY <1>5, <1>6, <2>8, <4>1 DEF Listing, IsList
      <4>2. CASE i # 1
        <5>1. i - 1 \in 1..n /\ r[i] = s[i - 1] /\ (i # n + 1 => r[i + 1] = s[i])
          BY <2>8, <4>2
        <5>2. next[s[i - 1]] = IF i - 1 = n THEN 0 ELSE s[i - 1 + 1]
          BY <1>5, <5>1 DEF Listing, IsList
        <5> QED
          BY <5>1, <5>2
      <4> QED
        BY <4>1, <4>2
    <3> QED
      BY <1>1, <1>6, <2>8, <3>1, <3>2 DEF IsList
  <2>10. Accounts(r, n + 1)'
    <3>1. ASSUME NEW x \in DOMAIN next
          PROVE  (\E i \in 1..(n + 1) : r[i] = x) \/ InTaken(x)' \/ InHand(x)'
      <4>1. (\E i \in 1..n : s[i] = x) \/ InTaken(x) \/ InHand(x)
        BY <1>5 DEF Listing, Accounts
      <4>2. 1 \in 1..(n + 1)
        OBVIOUS
      <4> QED
        BY <1>2, <2>3, <2>8, <4>1, <4>2
    <3>2. \A i \in 1..(n + 1) : ~InTaken(r[i])' /\ ~InHand(r[i])'
      BY <1>1, <1>2, <1>5, <2>3, <2>8 DEF Listing, Accounts
    <3>3. /\ Cardinality(Crew("counting"))' = Cardinality(Crew("counting")) + 1
          /\ Cardinality(Crew("take"))' = Cardinality(Crew("take"))
          /\ Cardinality(Crew("counting")) \in Nat /\ Cardinality(Crew("take")) \in Nat
      <4>1. at \in [Worker -> Places] /\ at[t] = "cas"
        BY <1>1 DEF StackInv, StackTypes
      <4>2. /\ Cardinality(Crew("counting"))' = Cardinality(Crew("counting")) + 1
            /\ Cardinality(Crew("counting")) \in Nat
        BY <2>1, <4>1, CrewMoves
      <4>3. Cardinality(Crew("take"))' = Cardinality(Crew("take")) /\ Cardinality(Crew("take")) \in Nat
        BY <2>1, <4>1, CrewMoves
      <4> QED
        BY <4>2, <4>3
    <3>4. count \in Int /\ count' = count
             /\ count + Cardinality(Crew("counting")) = n + Cardinality(Crew("take"))
      BY <1>1, <1>5 DEF Listing, Accounts, StackInv, StackTypes
    <3>5. count' + Cardinality(Crew("counting"))' = n + 1 + Cardinality(Crew("take"))'
      BY <3>3, <3>4
    <3> QED
      BY <1>1, <3>1, <3>2, <3>5 DEF Accounts
  <2>11. n + 1 \in Nat /\ Listing(r, n + 1)'
    BY <1>1, <2>8, <2>9, <2>10 DEF Listing
  <2> QED
    BY <1>3, <2>4, <2>5, <2>6, <2>11 DEF StackInv
<1>7. CASE StackGo(t, "load") /\ UNCHANGED top
  <2>1. at' = [at EXCEPT ![t] = "load"]
    BY <1>7 DEF StackGo
  <2>2. /\ at' \in [Worker -> Places]
        /\ \A u \in Worker : at'[u] = IF u = t THEN "load" ELSE at[u]
    BY <2>1 DEF StackInv, StackTypes, Places, Owners
  <2>3. \A x : InHand(x)' <=> InHand(x)
    BY <1>1, <2>2 DEF InHand, Owners
  <2>4. StackTypes'
    BY <1>1, <1>7, <2>2 DEF StackInv, StackTypes
  <2>5. HandsApart'
    BY <1>1, <1>2, <2>2 DEF StackInv, HandsApart, Owners
  <2>6. Followers'
    BY <1>1, <2>2 DEF StackInv, Followers
  <2>7. /\ Cardinality(Crew("counting"))' = Cardinality(Crew("counting"))
        /\ Cardinality(Crew("take"))' = Cardinality(Crew("take"))
    BY <1>1, <2>1, CrewMoves DEF StackInv, StackTypes
  <2>8. Listing(s, n)'
    BY <1>1, <1>2, <1>5, <1>7, <2>3, <2>7 DEF Listing, IsList, Accounts
  <2> QED
    BY <1>3, <2>4, <2>5, <2>6, <2>8 DEF StackInv
<1> QED
  BY <1>6, <1>7 DEF CasPush

\* Push has counted, and forgets its node.
LEMMA CountPushInv ==
  ASSUME IsFiniteSet(Worker), StackInv, NEW t \in Worker, CountPush(t)
  PROVE  StackInv'
<1>1. /\ next \in Seq(Nat) /\ Len(next) \in Nat /\ DOMAIN next = 1..Len(next)
      /\ at[t] = "counting" /\ at' = [at EXCEPT ![t] = "idle"] /\ node' = [node EXCEPT ![t] = 0]
      /\ count' = count + 1 /\ UNCHANGED <<top, next, link, taken>>
      /\ at \in [Worker -> Places] /\ count \in Int
  BY DEF StackInv, StackTypes, CountPush, StackGo
<1>2. /\ at' \in [Worker -> Places] /\ node' \in [Worker -> Nat]
      /\ \A u \in Worker : /\ at'[u] = IF u = t THEN "idle" ELSE at[u]
                           /\ node'[u] = IF u = t THEN 0 ELSE node[u]
  BY <1>1 DEF StackInv, StackTypes, Places, Owners
<1>3. \A x : (InHand(x)' <=> InHand(x)) /\ (InTaken(x)' <=> InTaken(x))
  BY <1>1, <1>2 DEF InHand, InTaken, Owners
<1>4. StackTypes'
  BY <1>1, <1>2 DEF StackInv, StackTypes
<1>5. HandsApart'
  BY <1>1, <1>2, <1>3 DEF StackInv, HandsApart, Owners
<1>6. Followers' /\ TakenOnce'
  BY <1>1, <1>2 DEF StackInv, Followers, TakenOnce
<1>7. PICK n \in Nat : \E s : Listing(s, n)
  BY DEF StackInv
<1>8. PICK s : Listing(s, n)
  BY <1>7
<1>9. /\ Cardinality(Crew("counting"))' = Cardinality(Crew("counting")) - 1
      /\ Cardinality(Crew("counting")) \in Nat
  BY <1>1, CrewMoves
<1>10. Cardinality(Crew("take"))' = Cardinality(Crew("take")) /\ Cardinality(Crew("take")) \in Nat
  BY <1>1, CrewMoves
<1>11. count' + Cardinality(Crew("counting"))' = n + Cardinality(Crew("take"))'
  BY <1>1, <1>8, <1>9, <1>10 DEF Listing, Accounts
<1>12. Listing(s, n)'
  BY <1>1, <1>3, <1>8, <1>11 DEF Listing, IsList, Accounts
<1> QED
  BY <1>4, <1>5, <1>6, <1>12 DEF StackInv

\* The steps of a Pop that change neither the list nor the counts.
LEMMA PopQuiet ==
  ASSUME IsFiniteSet(Worker), StackInv, NEW t \in Worker, NEW place \in Places \ (Owners \cup {"counting"}),
         at[t] \notin Owners \cup {"counting"}, at' = [at EXCEPT ![t] = place],
         node' \in [Worker -> Nat], link' \in [Worker -> Nat],
         \A u \in Worker : node'[u] <= Len(next) /\ link'[u] <= Len(next),
         \A u \in Worker : u # t => node'[u] = node[u] /\ link'[u] = link[u],
         UNCHANGED <<top, next, count, taken>>,
         place \in {"follow", "popcas"} =>
           /\ node'[t] \in DOMAIN next
           /\ \A u \in Worker : at[u] \in {"load", "cas"} => node[u] # node'[t]
           /\ place = "popcas" => link'[t] = next[node'[t]]
  PROVE  StackInv'
<1>1. /\ next \in Seq(Nat) /\ Len(next) \in Nat /\ DOMAIN next = 1..Len(next)
      /\ at \in [Worker -> Places]
  BY DEF StackInv, StackTypes
<1>2. /\ at' \in [Worker -> Places]
      /\ \A u \in Worker : at'[u] = IF u = t THEN place ELSE at[u]
  BY <1>1
<1>3. \A x : (InHand(x)' <=> InHand(x)) /\ (InTaken(x)' <=> InTaken(x))
  BY <1>1, <1>2 DEF InHand, InTaken
<1>4. StackTypes'
  BY <1>1, <1>2 DEF StackInv, StackTypes
<1>5. HandsApart'
  BY <1>1, <1>2, <1>3 DEF StackInv, HandsApart
<1>6. TakenOnce'
  BY DEF StackInv, TakenOnce
<1>7. Followers'
  <2>1. \A u \in Worker : at'[u] \in {"load", "cas"} => at[u] = at'[u] /\ node'[u] = node[u]
    BY <1>1, <1>2 DEF Owners
  <2>2. ASSUME NEW u \in Worker, at'[u] \in {"follow", "popcas"}
        PROVE  /\ node'[u] \in DOMAIN next
               /\ \A v \in Worker : at'[v] \in {"load", "cas"} => node'[v] # node'[u]
               /\ at'[u] = "popcas" => link'[u] = next[node'[u]]
    <3>1. CASE u = t
      BY <1>2, <2>1, <2>2, <3>1
    <3>2. CASE u # t
      <4>1. at[u] = at'[u] /\ node'[u] = node[u] /\ link'[u] = link[u]
        BY <1>2, <3>2
      <4>2. /\ node[u] \in DOMAIN next
            /\ \A v \in Worker : at[v] \in {"load", "cas"} => node[v] # node[u]
            /\ at[u] = "popcas" => link[u] = next[node[u]]
        BY <2>2, <4>1 DEF StackInv, Followers
      <4> QED
        BY <2>1, <4>1, <4>2
    <3> QED
      BY <3>1, <3>2
  <2>3. next' = next
    OBVIOUS
  <2> QED
    BY <2>2, <2>3 DEF Followers
<1>8. PICK n \in Nat : \E s : Listing(s, n)
  BY DEF StackInv
<1>9. PICK s : Listing(s, n)
  BY <1>8
<1>10. Crew("counting")' = Crew("counting") /\ Crew("take")' = Crew("take")
  BY <1>1, <1>2 DEF Crew, Owners
<1>11. Listing(s, n)'
  BY <1>1, <1>3, <1>9, <1>10 DEF Listing, IsList, Accounts
<1> QED
  BY <1>4, <1>5, <1>6, <1>7, <1>11 DEF StackInv

\* Pop reads head_: nothing, or a node that was pushed.
LEMMA LoadTopInv ==
  ASSUME IsFiniteSet(Worker), StackInv, NEW t \in Worker, LoadTop(t)
  PROVE  StackInv'
<1> DEFINE place == IF top = 0 THEN "idle" ELSE "follow"
<1>1. /\ top \in Nat /\ top <= Len(next) /\ at[t] \in {"idle", "pop"}
      /\ at' = [at EXCEPT ![t] = place] /\ node' = [node EXCEPT ![t] = top]
      /\ UNCHANGED <<top, next, count, link, taken>>
  BY DEF StackInv, StackTypes, LoadTop, StackGo
<1>2. /\ node' \in [Worker -> Nat] /\ link' \in [Worker -> Nat] /\ node'[t] = top
      /\ \A u \in Worker : node'[u] <= Len(next) /\ link'[u] <= Len(next)
      /\ \A u \in Worker : u # t => node'[u] = node[u] /\ link'[u] = link[u]
  BY <1>1 DEF StackInv, StackTypes
<1>3. place \in Places \ (Owners \cup {"counting"}) /\ at[t] \notin Owners \cup {"counting"}
  BY <1>1 DEF Places, Owners
<1>4. ASSUME place \in {"follow", "popcas"}
      PROVE  /\ top \in DOMAIN next
             /\ \A u \in Worker : at[u] \in {"load", "cas"} => node[u] # top
             /\ place # "popcas"
  <2>1. top # 0
    BY <1>4
  <2>2. PICK n \in Nat : \E s : Listing(s, n)
    BY DEF StackInv
  <2>3. PICK s : Listing(s, n)
    BY <2>2
  <2>4. n # 0 /\ top = s[1] /\ 1 \in 1..n
    BY <2>1, <2>3 DEF Listing, IsList
  <2>5. s[1] \in DOMAIN next /\ ~InHand(s[1])
    BY <2>3, <2>4 DEF Listing, Accounts
  <2> QED
    BY <2>1, <2>4, <2>5 DEF InHand, Owners
<1> HIDE DEF place
<1> QED
  BY <1>1, <1>2, <1>3, <1>4, PopQuiet

\* Pop reads the next pointer of the node it found on top.
LEMMA FollowNextInv ==
  ASSUME IsFiniteSet(Worker), StackInv, NEW t \in Worker, FollowNext(t)
  PROVE  StackInv'
<1>1. /\ next \in Seq(Nat) /\ Len(next) \in Nat /\ DOMAIN next = 1..Len(next)
      /\ at[t] = "follow" /\ at' = [at EXCEPT ![t] = "popcas"]
      /\ link' = [link EXCEPT ![t] = next[node[t]]]
      /\ UNCHANGED <<top, next, count, node, taken>>
  BY DEF StackInv, StackTypes, FollowNext, StackGo
<1>2. node[t] \in DOMAIN next /\ \A u \in Worker : at[u] \in {"load", "cas"} => node[u] # node[t]
  BY <1>1 DEF StackInv, Followers
<1>3. next[node[t]] \in Nat /\ next[node[t]] <= Len(next)
  BY <1>1, <1>2 DEF StackInv, StackTypes
<1>4. /\ node' \in [Worker -> Nat] /\ link' \in [Worker -> Nat] /\ link'[t] = next[node[t]]
      /\ \A u \in Worker : node'[u] <= Len(next) /\ link'[u] <= Len(next)
      /\ \A u \in Worker : u # t => node'[u] = node[u] /\ link'[u] = link[u]
  BY <1>1, <1>3 DEF StackInv, StackTypes
<1>5. "popcas" \in Places \ (Owners \cup {"counting"}) /\ at[t] \notin Owners \cup {"counting"}
  BY <1>1 DEF Places, Owners
<1> QED
  BY <1>1, <1>2, <1>4, <1>5, PopQuiet

\* Pop takes the first node off the list, or starts again.
LEMMA CasPopInv ==
  ASSUME IsFiniteSet(Worker), StackInv, NEW t \in Worker, CasPop(t)
  PROVE  StackInv'
<1>1. /\ next \in Seq(Nat) /\ Len(next) \in Nat /\ DOMAIN next = 1..Len(next)
      /\ at[t] = "popcas" /\ link' = [link EXCEPT ![t] = 0]
      /\ UNCHANGED <<next, count, node, taken>>
      /\ at \in [Worker -> Places] /\ count \in Int
  BY DEF StackInv, StackTypes, CasPop
<1>2. /\ node[t] \in DOMAIN next /\ link[t] = next[node[t]]
      /\ \A u \in Worker : at[u] \in {"load", "cas"} => node[u] # node[t]
  BY <1>1 DEF StackInv, Followers
<1>3. /\ link' \in [Worker -> Nat]
      /\ \A u \in Worker : link'[u] = IF u = t THEN 0 ELSE link[u]
  BY <1>1 DEF StackInv, StackTypes
<1>4. CASE top = node[t] /\ top' = link[t] /\ StackGo(t, "take")
  <2>1. at' = [at EXCEPT ![t] = "take"]
    BY <1>4 DEF StackGo
  <2>2. /\ at' \in [Worker -> Places]
        /\ \A u \in Worker : at'[u] = IF u = t THEN "take" ELSE at[u]
    BY <1>1, <2>1 DEF Places, Owners
  <2>3. PICK n \in Nat : \E s : Listing(s, n)
    BY DEF StackInv
  <2>4. PICK s : Listing(s, n)
    BY <2>3
  <2>5. n # 0 /\ n - 1 \in Nat /\ top = s[1] /\ 1 \in 1..n /\ s \in [1..n -> DOMAIN next]
    BY <1>1, <1>2, <1>4, <2>4 DEF Listing, IsList
  <2>6. ~InTaken(node[t]) /\ ~InHand(node[t])
    BY <1>4, <2>4, <2>5 DEF Listing, Accounts
  <2>7. \A x : /\ InTaken(x)' <=> InTaken(x)
               /\ InHand(x)' <=> InHand(x) \/ x = node[t]
    BY <1>1, <2>2 DEF InTaken, InHand, Owners
  <2>8. StackTypes'
    BY <1>1, <1>3, <1>4, <2>2 DEF StackInv, StackTypes
  <2>9. HandsApart'
    <3>1. \A u \in Worker : u # t /\ at[u] \in Owners => node[u] # node[t]
      BY <2>6 DEF InHand
    <3> QED
      BY <1>1, <1>2, <2>2, <2>6, <2>7, <3>1 DEF StackInv, HandsApart
  <2>10. Followers' /\ TakenOnce'
    BY <1>1, <1>3, <2>2 DEF StackInv, Followers, TakenOnce
  <2>11. PICK r \in [1..(n - 1) -> DOMAIN next] : \A i \in 1..(n - 1) : i + 1 \in 1..n /\ r[i] = s[i + 1]
    <3> DEFINE f == [i \in 1..(n - 1) |-> s[i + 1]]
    <3>1. f \in [1..(n - 1) -> DOMAIN next] /\ \A i \in 1..(n - 1) : i + 1 \in 1..n /\ f[i] = s[i + 1]
      BY <2>5
    <3> HIDE DEF f
    <3> QED
      BY <3>1
  <2>12. IsList(r, n - 1)'
    <3>1. ASSUME NEW i \in 1..(n - 1), NEW j \in 1..(n - 1), r[i] = r[j] PROVE i = j
      BY <2>4, <2>11, <3>1 DEF Listing, IsList
    <3>2. ASSUME NEW i \in 1..(n - 1) PROVE next[r[i]] = IF i = n - 1 THEN 0 ELSE r[i + 1]
      <4>1. i + 1 \in 1..n /\ r[i] = s[i + 1] /\ (i # n - 1 => r[i + 1] = s[i + 1 + 1])
        BY <2>5, <2>11
      <4>2. next[s[i + 1]] = IF i + 1 = n THEN 0 ELSE s[i + 1 + 1]
        BY <2>4, <4>1 DEF Listing, IsList
      <4> QED
        BY <2>5, <4>1, <4>2
    <3>3. top' = IF n - 1 = 0 THEN 0 ELSE r[1]
      <4>1. top' = next[s[1]]
        BY <1>2, <1>4, <2>5
      <4>2. next[s[1]] = IF 1 = n THEN 0 ELSE s[1 + 1]
        BY <2>4, <2>5 DEF Listing, IsList
      <4>3. n - 1 # 0 => r[1] = s[1 + 1]
        BY <2>5, <2>11
      <4> QED
        BY <2>5, <4>1, <4>2, <4>3
    <3> QED
      BY <1>1, <3>1, <3>2, <3>3 DEF IsList
  <2>13. Accounts(r, n - 1)'
    <3>1. ASSUME NEW x \in DOMAIN next
          PROVE  (\E i \in 1..(n - 1) : r[i] = x) \/ InTaken(x)' \/ InHand(x)'
      <4>1. (\E i \in 1..n : s[i] = x) \/ InTaken(x) \/ InHand(x)
        BY <2>4 DEF Listing, Accounts
      <4>2. ASSUME NEW i \in 1..n, s[i] = x, i # 1 PROVE i - 1 \in 1..(n - 1) /\ r[i - 1] = x
        BY <2>5, <2>11, <4>2
      <4> QED
        BY <1>4, <2>5, <2>7, <4>1, <4>2
    <3>2. \A i \in 1..(n - 1) : ~InTaken(r[i])' /\ ~InHand(r[i])'
      <4>1. \A i \in 1..(n - 1) : r[i] # s[1] /\ ~InTaken(r[i]) /\ ~InHand(r[i])
        BY <2>4, <2>5, <2>11 DEF Listing, Accounts, IsList
      <4> QED
        BY <1>4, <2>5, <2>7, <4>1
    <3>3. Cardinality(Crew("take"))' = Cardinality(Crew("take")) + 1 /\ Cardinality(Crew("take")) \in Nat
      BY <1>1, <2>1, CrewMoves
    <3>4. /\ Cardinality(Crew("counting"))' = Cardinality(Crew("counting"))
          /\ Cardinality(Crew("counting")) \in Nat
      BY <1>1, <2>1, CrewMoves
    <3>5. count' + Cardinality(Crew("counting"))' = n - 1 + Cardinality(Crew("take"))'
      BY <1>1, <2>4, <3>3, <3>4 DEF Listing, Accounts
    <3> QED
      BY <1>1, <3>1, <3>2, <3>5 DEF Accounts
  <2>14. Listing(r, n - 1)'
    BY <1>1, <2>12, <2>13 DEF Listing
  <2> QED
    BY <2>5, <2>8, <2>9, <2>10, <2>14 DEF StackInv
<1>5. CASE StackGo(t, "pop") /\ UNCHANGED top
  <2>1. /\ at' = [at EXCEPT ![t] = "pop"] /\ UNCHANGED <<top, next, count, taken>>
        /\ "pop" \in Places \ (Owners \cup {"counting"}) /\ at[t] \notin Owners \cup {"counting"}
    BY <1>1, <1>5 DEF StackGo, Places, Owners
  <2>2. /\ node' \in [Worker -> Nat] /\ link' \in [Worker -> Nat]
        /\ \A u \in Worker : node'[u] <= Len(next) /\ link'[u] <= Len(next)
        /\ \A u \in Worker : u # t => node'[u] = node[u] /\ link'[u] = link[u]
    BY <1>1, <1>3 DEF StackInv, StackTypes
  <2> QED
    BY <2>1, <2>2, PopQuiet
<1> QED
  BY <1>4, <1>5 DEF CasPop

\* Pop gives its node out.
LEMMA TakeDataInv ==
  ASSUME IsFiniteSet(Worker), StackInv, NEW t \in Worker, TakeData(t)
  PROVE  StackInv'
<1>1. /\ next \in Seq(Nat) /\ Len(next) \in Nat /\ DOMAIN next = 1..Len(next)
      /\ taken \in Seq(Nat) /\ Len(taken) \in Nat /\ DOMAIN taken = 1..Len(taken)
      /\ at[t] = "take" /\ at' = [at EXCEPT ![t] = "idle"] /\ node' = [node EXCEPT ![t] = 0]
      /\ taken' = Append(taken, node[t]) /\ count' = count - 1 /\ UNCHANGED <<top, next, link>>
      /\ at \in [Worker -> Places] /\ count \in Int
  BY DEF StackInv, StackTypes, TakeData, StackGo
<1>2. node[t] \in DOMAIN next /\ ~InTaken(node[t]) /\ InHand(node[t]) /\ node[t] \in Nat
  BY <1>1 DEF StackInv, StackTypes, HandsApart, Owners, InHand
<1>3. /\ taken' \in Seq(Nat) /\ DOMAIN taken' = 1..(Len(taken) + 1)
      /\ taken'[Len(taken) + 1] = node[t] /\ \A i \in DOMAIN taken : taken'[i] = taken[i]
  BY <1>1, <1>2
<1>4. /\ at' \in [Worker -> Places] /\ node' \in [Worker -> Nat]
      /\ \A u \in Worker : /\ at'[u] = IF u = t THEN "idle" ELSE at[u]
                           /\ node'[u] = IF u = t THEN 0 ELSE node[u]
  BY <1>1 DEF StackInv, StackTypes, Places, Owners
<1>5. \A x : InTaken(x)' <=> InTaken(x) \/ x = node[t]
  BY <1>1, <1>3 DEF InTaken
<1>6. \A x : InHand(x)' <=> InHand(x) /\ x # node[t]
  BY <1>1, <1>4 DEF InHand, Owners, StackInv, HandsApart
<1>7. StackTypes'
  BY <1>1, <1>2, <1>3, <1>4 DEF StackInv, StackTypes
<1>8. HandsApart'
  BY <1>1, <1>4, <1>5 DEF StackInv, HandsApart, Owners
<1>9. Followers'
  BY <1>1, <1>4 DEF StackInv, Followers
<1>10. TakenOnce'
  BY <1>1, <1>2, <1>3 DEF StackInv, TakenOnce, InTaken
<1>11. PICK n \in Nat : \E s : Listing(s, n)
  BY DEF StackInv
<1>12. PICK s : Listing(s, n)
  BY <1>11
<1>13. Cardinality(Crew("take"))' = Cardinality(Crew("take")) - 1 /\ Cardinality(Crew("take")) \in Nat
  BY <1>1, CrewMoves
<1>14. /\ Cardinality(Crew("counting"))' = Cardinality(Crew("counting"))
       /\ Cardinality(Crew("counting")) \in Nat
  BY <1>1, CrewMoves
<1>15. count' + Cardinality(Crew("counting"))' = n + Cardinality(Crew("take"))'
  <2>1. count + Cardinality(Crew("counting")) = n + Cardinality(Crew("take"))
    BY <1>12 DEF Listing, Accounts
  <2>2. count \in Int /\ count' = count - 1
    BY <1>1
  <2> QED
    BY <1>13, <1>14, <2>1, <2>2
<1>16. \A i \in 1..n : s[i] # node[t]
  BY <1>2, <1>12 DEF Listing, Accounts
<1>17. Listing(s, n)'
  BY <1>1, <1>5, <1>6, <1>12, <1>15, <1>16 DEF Listing, IsList, Accounts
<1> QED
  BY <1>7, <1>8, <1>9, <1>10, <1>17 DEF StackInv

-----------------------------------------------------------------------------
\* At first there is no node.
LEMMA StackInitInv ==
  ASSUME IsFiniteSet(Worker), StackInit
  PROVE  StackInv
<1>1. /\ top = 0 /\ next = <<>> /\ count = 0 /\ taken = <<>> /\ DOMAIN next = {} /\ DOMAIN taken = {}
      /\ \A t \in Worker : at[t] = "idle" /\ node[t] = 0 /\ link[t] = 0
  BY DEF StackInit
<1>2. StackTypes
  <2>1. /\ at \in [Worker -> Places] /\ node \in [Worker -> Nat] /\ link \in [Worker -> Nat]
        /\ Len(next) = 0 /\ next \in Seq(Nat) /\ taken \in Seq(Nat)
    BY DEF StackInit, Places, Owners
  <2> QED
    BY <1>1, <2>1 DEF StackTypes
<1>3. HandsApart /\ Followers /\ TakenOnce
  BY <1>1 DEF HandsApart, Followers, TakenOnce, Owners
<1>4. Crew("counting") = {} /\ Crew("take") = {}
  BY <1>1 DEF Crew
<1>5. Cardinality({}) = 0
  BY FS_EmptySet
<1> DEFINE f == [i \in 1..0 |-> 0]
<1>6. f \in [1..0 -> DOMAIN next] /\ \A i \in 1..0 : FALSE
  OBVIOUS
<1> HIDE DEF f
<1>7. Listing(f, 0)
  BY <1>1, <1>4, <1>5, <1>6 DEF Listing, IsList, Accounts
<1> QED
  BY <1>2, <1>3, <1>7 DEF StackInv

\* Every step keeps the invariant.
LEMMA StackNextInv ==
  ASSUME IsFiniteSet(Worker), StackInv, [StackNext]_stackVars
  PROVE  StackInv'
<1>1. CASE UNCHANGED stackVars
  <2>1. UNCHANGED <<top, next, count, at, node, link, taken>>
    BY <1>1 DEF stackVars
  <2>2. /\ StackTypes' /\ HandsApart' /\ Followers' /\ TakenOnce'
    BY <2>1 DEF StackInv, StackTypes, HandsApart, Followers, TakenOnce, InTaken
  <2>3. \A s, n : Listing(s, n) => Listing(s, n)'
    BY <2>1 DEF Listing, IsList, Accounts, InTaken, InHand, Crew
  <2> QED
    BY <2>2, <2>3 DEF StackInv
<1>2. CASE StackNext
  BY <1>2, NewNodeInv, LoadNextInv, CasPushInv, CountPushInv, LoadTopInv, FollowNextInv,
     CasPopInv, TakeDataInv DEF StackNext
<1> QED
  BY <1>1, <1>2

\* The nodes form a list at every moment, and each is in it, in one thread's hand or given out.
THEOREM StackInvariant ==
  ASSUME IsFiniteSet(Worker)
  PROVE  StackSpec => []StackInv
<1>1. StackInit => StackInv
  BY StackInitInv
<1>2. StackInv /\ [StackNext]_stackVars => StackInv'
  BY StackNextInv
<1> QED
  BY <1>1, <1>2, PTL DEF StackSpec

-----------------------------------------------------------------------------
(***************************************************************************)
(* From the list to what StackConserved says of the chain of pointers.     *)
(***************************************************************************)
\* The list has no more nodes than there are.
LEMMA ListFits ==
  ASSUME StackTypes, NEW n \in Nat, NEW s, Listing(s, n)
  PROVE  n <= Len(next) /\ Cardinality(1..n) = n /\ IsFiniteSet(1..n)
<1>1. Len(next) \in Nat /\ DOMAIN next = 1..Len(next)
  BY DEF StackTypes
<1>2. s \in Injection(1..n, DOMAIN next)
  BY DEF Listing, IsList, Injection, IsInjective
<1>3. /\ IsFiniteSet(1..n) /\ Cardinality(1..n) = n
      /\ IsFiniteSet(DOMAIN next) /\ Cardinality(DOMAIN next) = Len(next)
  BY <1>1, CardinalityUpTo
<1>4. Cardinality(1..n) <= Cardinality(DOMAIN next)
  BY <1>2, <1>3, FS_Injection
<1> QED
  BY <1>3, <1>4

\* Following the pointers from head_ gives the list, and then nullptr.
LEMMA ChainIsList ==
  ASSUME StackTypes, NEW n \in Nat, NEW s, Listing(s, n)
  PROVE  /\ Chain(Len(next)) \in [0..Len(next) -> Nat]
         /\ \A i \in 0..Len(next) : Chain(Len(next))[i] = IF i < n THEN s[i + 1] ELSE 0
<1> DEFINE N == Len(next)
           g == [i \in 0..N |-> IF i < n THEN s[i + 1] ELSE 0]
           Follows(f) == f = [i \in 0..N |-> IF i = 0 THEN top
                                             ELSE IF f[i - 1] = 0 THEN 0 ELSE next[f[i - 1]]]
<1>1. /\ N \in Nat /\ DOMAIN next = 1..N /\ n <= N
      /\ \A i \in 1..n : s[i] \in DOMAIN next /\ s[i] \in Nat /\ s[i] # 0
      /\ \A i \in 1..n : next[s[i]] = IF i = n THEN 0 ELSE s[i + 1]
      /\ top = IF n = 0 THEN 0 ELSE s[1]
  <2>1. N \in Nat /\ DOMAIN next = 1..N
    BY DEF StackTypes
  <2>2. n <= N
    BY ListFits
  <2>3. s \in [1..n -> DOMAIN next] /\ IsList(s, n)
    BY DEF Listing
  <2>4. \A i \in 1..n : s[i] \in DOMAIN next /\ s[i] \in Nat /\ s[i] # 0
    BY <2>1, <2>3
  <2> QED
    BY <2>1, <2>2, <2>3, <2>4 DEF IsList
<1> HIDE DEF N
<1>2. ASSUME NEW i \in 0..N
      PROVE  g[i] = IF i = 0 THEN top ELSE IF g[i - 1] = 0 THEN 0 ELSE next[g[i - 1]]
  <2>1. g[i] = IF i < n THEN s[i + 1] ELSE 0
    OBVIOUS
  <2>2. CASE i = 0
    BY <1>1, <2>1, <2>2
  <2>3. CASE i # 0
    <3>1. i - 1 \in 0..N /\ i - 1 + 1 = i
      BY <1>1, <2>3
    <3>2. g[i - 1] = IF i - 1 < n THEN s[i] ELSE 0
      BY <3>1
    <3>3. CASE i - 1 < n
      BY <1>1, <2>1, <2>3, <3>1, <3>2, <3>3
    <3>4. CASE ~(i - 1 < n)
      BY <1>1, <2>1, <2>3, <3>1, <3>2, <3>4
    <3> QED
      BY <3>3, <3>4
  <2> QED
    BY <2>2, <2>3
<1>3. Follows(g)
  BY <1>2
<1>4. g \in [0..N -> Nat]
  BY <1>1
<1>5. PICK h : Follows(h) /\ Chain(N) = [i \in 0..N |-> h[i]]
  <2>1. Chain(N) = [i \in 0..N |-> (CHOOSE f : Follows(f))[i]]
    BY DEF Chain
  <2>2. Follows(CHOOSE f : Follows(f))
    <3> HIDE DEF g, Follows
    <3> QED
      BY <1>3
  <2> HIDE DEF Follows
  <2> QED
    BY <2>1, <2>2
<1>6. ASSUME NEW i \in 0..N
      PROVE  h[i] = IF i = 0 THEN top ELSE IF h[i - 1] = 0 THEN 0 ELSE next[h[i - 1]]
  BY <1>5
<1> DEFINE Differ == {i \in 0..N : h[i] # g[i]}
<1>7. Differ = {}
  <2> SUFFICES ASSUME Differ # {} PROVE FALSE
    OBVIOUS
  <2>1. Differ \in SUBSET Nat
    BY <1>1
  <2>2. PICK m \in Differ : \A k \in Differ : m <= k
    <3> HIDE DEF Differ
    <3> QED
      BY <2>1, LeastExists
  <2>3. m \in 0..N /\ h[m] # g[m]
    OBVIOUS
  <2>4. CASE m = 0
    BY <1>2, <1>6, <2>3, <2>4
  <2>5. CASE m # 0
    <3>1. m - 1 \in 0..N /\ ~(m <= m - 1)
      BY <1>1, <2>3, <2>5
    <3>2. h[m - 1] = g[m - 1]
      BY <2>2, <3>1
    <3>3. g[m] = IF g[m - 1] = 0 THEN 0 ELSE next[g[m - 1]]
      BY <1>2, <2>3, <2>5
    <3>4. h[m] = IF h[m - 1] = 0 THEN 0 ELSE next[h[m - 1]]
      BY <1>6, <2>3, <2>5
    <3> QED
      <4> HIDE DEF g
      <4> QED
        BY <2>3, <3>2, <3>3, <3>4
  <2> QED
    BY <2>4, <2>5
<1>8. Chain(N) = g
  BY <1>5, <1>7
<1> QED
  BY <1>4, <1>8 DEF N

\* StackConserved is what the invariant says, in terms of the chain.
LEMMA StackInvConserves ==
  ASSUME IsFiniteSet(Worker), StackInv
  PROVE  StackConserved
<1> DEFINE chain == Chain(Len(next))
           listed == {chain[i] : i \in DOMAIN chain} \ {0}
           held(where) == {node[t] : t \in {u \in Worker : at[u] \in where}}
           given == {taken[i] : i \in DOMAIN taken}
           gone == given \cup held({"take"})
<1>1. /\ StackTypes /\ Len(next) \in Nat /\ DOMAIN next = 1..Len(next)
      /\ Len(taken) \in Nat /\ DOMAIN taken = 1..Len(taken)
  BY DEF StackInv, StackTypes
<1>2. PICK n \in Nat : \E s : Listing(s, n)
  BY DEF StackInv
<1>3. PICK s : Listing(s, n)
  BY <1>2
<1>4. n <= Len(next) /\ Cardinality(1..n) = n /\ IsFiniteSet(1..n)
  BY <1>1, <1>3, ListFits
<1>5. /\ DOMAIN chain = 0..Len(next)
      /\ \A i \in 0..Len(next) : chain[i] = IF i < n THEN s[i + 1] ELSE 0
  BY <1>1, <1>3, ChainIsList
<1>6. \A i \in 1..n : s[i] \in DOMAIN next /\ s[i] # 0
  BY <1>1, <1>3 DEF Listing
<1> HIDE DEF chain
<1>7. listed = {s[i] : i \in 1..n}
  <2>1. ASSUME NEW i \in 1..n PROVE s[i] \in listed
    <3>1. i - 1 \in 0..Len(next) /\ i - 1 < n /\ i - 1 + 1 = i
      BY <1>1, <1>4
    <3> QED
      BY <1>5, <1>6, <3>1
  <2>2. ASSUME NEW x \in listed PROVE \E i \in 1..n : x = s[i]
    <3>1. PICK i \in 0..Len(next) : x = chain[i] /\ x # 0
      BY <1>5
    <3>2. i < n /\ i + 1 \in 1..n /\ x = s[i + 1]
      BY <1>1, <1>5, <3>1
    <3> QED
      BY <3>2
  <2> QED
    BY <2>1, <2>2
<1>8. chain[Len(next)] = 0
  BY <1>1, <1>4, <1>5
<1> HIDE DEF listed
<1>9. \A x : x \in given <=> InTaken(x)
  BY DEF InTaken
<1>10. \A x : InHand(x) <=> x \in held({"take"}) \/ x \in held({"load", "cas"})
  BY DEF InHand, Owners
<1>11. listed \cap gone = {}
  BY <1>3, <1>7, <1>9, <1>10 DEF Listing, Accounts
<1>12. given \cap held({"take"}) = {}
  BY <1>9 DEF StackInv, HandsApart, Owners
<1>13. gone \subseteq DOMAIN next \ held({"load", "cas"})
  <2>1. given \subseteq DOMAIN next
    BY DEF StackInv, StackTypes
  <2>2. \A x \in held({"load", "cas"}) : ~InTaken(x)
    BY DEF StackInv, HandsApart, Owners
  <2>3. held({"take"}) \subseteq DOMAIN next /\ held({"take"}) \cap held({"load", "cas"}) = {}
    BY DEF StackInv, HandsApart, Owners
  <2> QED
    BY <1>9, <2>1, <2>2, <2>3
<1>14. listed \cup gone = DOMAIN next \ held({"load", "cas"})
  <2>1. \A i \in 1..n : s[i] \in DOMAIN next /\ s[i] \notin held({"load", "cas"})
    BY <1>3, <1>6, <1>10 DEF Listing, Accounts
  <2>2. \A x \in DOMAIN next : (\E i \in 1..n : s[i] = x) \/ InTaken(x) \/ InHand(x)
    BY <1>3 DEF Listing, Accounts
  <2> HIDE DEF held, given
  <2> QED
    BY <1>7, <1>9, <1>10, <1>13, <2>1, <2>2
<1>15. Cardinality(gone) = Len(taken) + Cardinality(Crew("take"))
  <2>1. IsFiniteSet(DOMAIN taken) /\ Cardinality(DOMAIN taken) = Len(taken)
    BY <1>1, CardinalityUpTo
  <2>2. IsFiniteSet(given) /\ Cardinality(given) = Len(taken)
    BY <2>1, CardinalityImage DEF StackInv, TakenOnce
  <2>3. IsFiniteSet(Crew("take"))
    BY FS_Subset DEF Crew
  <2>4. held({"take"}) = {node[t] : t \in Crew("take")}
    BY DEF Crew
  <2>5. \A t, u \in Crew("take") : node[t] = node[u] => t = u
    BY DEF Crew, StackInv, HandsApart, Owners
  <2>6. IsFiniteSet(held({"take"})) /\ Cardinality(held({"take"})) = Cardinality(Crew("take"))
    <3> HIDE DEF held
    <3>1. /\ IsFiniteSet({node[t] : t \in Crew("take")})
          /\ Cardinality({node[t] : t \in Crew("take")}) = Cardinality(Crew("take"))
      BY ONLY <2>3, <2>5, CardinalityImage
    <3> QED
      BY <2>4, <3>1
  <2>7. Cardinality(given \cap held({"take"})) = 0
    BY <1>12, FS_EmptySet
  <2>8. Cardinality(Crew("take")) \in Nat
    BY <2>3, FS_CardinalityType
  <2> HIDE DEF given, held
  <2> QED
    <3> DEFINE H == held({"take"})
    <3> HIDE DEF H
    <3>1. IsFiniteSet(given) /\ IsFiniteSet(H) /\ gone = given \cup H
      BY <2>2, <2>6 DEF H
    <3>2. Cardinality(given \cup H) = Cardinality(given) + Cardinality(H) - Cardinality(given \cap H)
      BY ONLY <3>1, FS_Union
    <3> QED
      BY <1>1, <2>2, <2>6, <2>7, <2>8, <3>1, <3>2 DEF H
<1>16. ASSUME \A t \in Worker : at[t] = "idle"
       PROVE  count = Cardinality(listed)
  <2>1. Crew("counting") = {} /\ Crew("take") = {}
    BY <1>16 DEF Crew
  <2>2. count + Cardinality(Crew("counting")) = n + Cardinality(Crew("take")) /\ count \in Int
    BY <1>3 DEF Listing, Accounts, StackInv, StackTypes
  <2>3. \A i, j \in 1..n : s[i] = s[j] => i = j
    BY <1>3 DEF Listing, IsList
  <2>4. Cardinality(listed) = n
    <3> DEFINE D == 1..n
    <3>1. IsFiniteSet(D) /\ Cardinality(D) = n /\ \A i, j \in D : s[i] = s[j] => i = j
      BY <1>4, <2>3
    <3>2. listed = {s[i] : i \in D}
      BY <1>7
    <3> HIDE DEF D
    <3>3. Cardinality({s[i] : i \in D}) = Cardinality(D)
      BY ONLY <3>1, CardinalityImage
    <3> QED
      BY <3>1, <3>2, <3>3
  <2> QED
    BY <2>1, <2>2, <2>4, FS_EmptySet
<1>17. Crew("take") = {t \in Worker : at[t] = "take"}
  BY DEF Crew
<1> QED
  <2> HIDE DEF gone, held
  <2> QED
    BY <1>8, <1>11, <1>14, <1>15, <1>16, <1>17 DEF StackConserved, chain, listed, held, gone, given

\* Every node that was pushed is in the list or was given to one Pop, for any number of
\* threads and nodes and whatever compare-and-swap fails: LockFreeQueue never frees a node.
THEOREM StackCorrect ==
  ASSUME IsFiniteSet(Worker)
  PROVE  StackSpec => []StackConserved
<1>1. StackInv => StackConserved
  BY StackInvConserves
<1> QED
  BY <1>1, StackInvariant, PTL
=============================================================================
