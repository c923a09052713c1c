--------------------------- MODULE LockFreeQueue ----------------------------
(***************************************************************************)
(* LockFreeQueue: a linked list with a compare-and-swap on its head, last  *)
(* in first out in spite of its name.  Node n is the n-th one allocated;   *)
(* Pop never frees a node.  compare_exchange_weak may fail for no reason.  *)
(***************************************************************************)
EXTENDS Integers, Sequences, FiniteSets, SequencesExt

CONSTANTS
  Worker,    \* threads
  MaxNodes   \* bound: nodes allocated in a behaviour

ASSUME StackAssumption == MaxNodes \in Nat

VARIABLES
  top,      \* head_, 0 for nullptr
  next,     \* the next pointer of every node
  count,    \* count_, negative where the code's has wrapped around
  at,       \* where each thread is
  node,     \* the node a thread pushes or tries to pop
  link,     \* the next pointer Pop hands to its compare-and-swap
  taken     \* history: the nodes whose data Pop returned, in order

stackVars == <<top, next, count, at, node, link, taken>>

StackGo(t, where) == at' = [at EXCEPT ![t] = where]

-----------------------------------------------------------------------------
\* Mutant: memory of a popped node is used again.
NewNodeReuses(t) ==
  /\ at[t] = "idle" /\ Len(next) < MaxNodes
  /\ \/ \E i \in DOMAIN taken :
          node' = [node EXCEPT ![t] = taken[i]] /\ taken' = RemoveAt(taken, i) /\ UNCHANGED next
     \/ next' = Append(next, 0) /\ node' = [node EXCEPT ![t] = Len(next) + 1] /\ UNCHANGED taken
  /\ StackGo(t, "load")
  /\ UNCHANGED <<top, count, link>>

NewNode(t) ==
  /\ at[t] = "idle" /\ Len(next) < MaxNodes
  /\ next' = Append(next, 0)
  /\ node' = [node EXCEPT ![t] = Len(next) + 1]
  /\ StackGo(t, "load")
  /\ UNCHANGED <<top, count, link, taken>>

LoadNext(t) ==
  /\ at[t] = "load"
  /\ next' = [next EXCEPT ![node[t]] = top]
  /\ StackGo(t, "cas")
  /\ UNCHANGED <<top, count, node, link, taken>>

CasPush(t) ==
  /\ at[t] = "cas"
  /\ \/ top = next[node[t]] /\ top' = node[t] /\ StackGo(t, "counting")
     \/ StackGo(t, "load") /\ UNCHANGED top
  /\ UNCHANGED <<next, count, node, link, taken>>

CountPush(t) ==
  /\ at[t] = "counting"
  /\ count' = count + 1
  /\ StackGo(t, "idle")
  /\ node' = [node EXCEPT ![t] = 0]
  /\ UNCHANGED <<top, next, link, taken>>

-----------------------------------------------------------------------------
\* An empty list ends Pop at once.
LoadTop(t) ==
  /\ at[t] \in {"idle", "pop"}
  /\ node' = [node EXCEPT ![t] = top]
  /\ StackGo(t, IF top = 0 THEN "idle" ELSE "follow")
  /\ UNCHANGED <<top, next, count, link, taken>>

\* result->next, read before the compare-and-swap that uses it.
FollowNext(t) ==
  /\ at[t] = "follow"
  /\ link' = [link EXCEPT ![t] = next[node[t]]]
  /\ StackGo(t, "popcas")
  /\ UNCHANGED <<top, next, count, node, taken>>

CasPop(t) ==
  /\ at[t] = "popcas"
  /\ \/ top = node[t] /\ top' = link[t] /\ StackGo(t, "take")
     \/ StackGo(t, "pop") /\ UNCHANGED top
  /\ link' = [link EXCEPT ![t] = 0]
  /\ UNCHANGED <<next, count, node, taken>>

TakeData(t) ==
  /\ at[t] = "take"
  /\ taken' = Append(taken, node[t])
  /\ count' = count - 1
  /\ node' = [node EXCEPT ![t] = 0]
  /\ StackGo(t, "idle")
  /\ UNCHANGED <<top, next, link>>

StackInit ==
  /\ top = 0 /\ next = <<>> /\ count = 0 /\ taken = <<>>
  /\ at = [t \in Worker |-> "idle"]
  /\ node = [t \in Worker |-> 0] /\ link = [t \in Worker |-> 0]

StackNext ==
  \E t \in Worker :
    \/ NewNode(t) \/ LoadNext(t) \/ CasPush(t) \/ CountPush(t)
    \/ LoadTop(t) \/ FollowNext(t) \/ CasPop(t) \/ TakeData(t)

StackSpec == StackInit /\ [][StackNext]_stackVars

-----------------------------------------------------------------------------
\* The nodes from head_ on, down to depth n.
Chain(n) ==
  LET from[i \in 0..n] == IF i = 0 THEN top ELSE IF from[i - 1] = 0 THEN 0 ELSE next[from[i - 1]]
  IN [i \in 0..n |-> from[i]]

\* Every node that was pushed is in the list or was given to one Pop, never both and
\* never twice, whatever Pop read of a node that others popped meanwhile; when nobody
\* is at work count_ is the length of the list.
StackConserved ==
  LET chain == Chain(Len(next))
      listed == {chain[i] : i \in DOMAIN chain} \ {0}
      held(where) == {node[t] : t \in {u \in Worker : at[u] \in where}}
      gone == {taken[i] : i \in DOMAIN taken} \cup held({"take"})
  IN /\ chain[Len(next)] = 0
     /\ listed \cap gone = {}
     /\ Cardinality(gone) = Len(taken) + Cardinality({t \in Worker : at[t] = "take"})
     /\ listed \cup gone = DOMAIN next \ held({"load", "cas"})
     /\ (\A t \in Worker : at[t] = "idle") => count = Cardinality(listed)
=============================================================================
