--------------------------- MODULE MergingIterator ---------------------------
(***************************************************************************)
(* MergingIterator: several iterators over key ranges walked as one, in    *)
(* both directions.  Keys are numbers; a child is the set of its keys and  *)
(* where it stands, 0 when it is not Valid.                                *)
(***************************************************************************)
EXTENDS Integers, FiniteSets, FiniteSetsExt

CONSTANTS
  Children,    \* 1..n_
  ChildKeys    \* keys a child may have, all positive

ASSUME ChildAssumption == ChildKeys \subseteq Nat \ {0} /\ Children \subseteq Nat \ {0}

VARIABLES
  keysOf,     \* the keys of each child
  at,         \* where each child stands
  cursor,    \* current_, 0 for nullptr
  direction   \* direction_

mergingVars == <<keysOf, at, cursor, direction>>

LeastOf(S) == IF S = {} THEN 0 ELSE Min(S)
GreatestOf(S) == IF S = {} THEN 0 ELSE Max(S)

\* The operations of a child; stepping off either end makes it invalid.
SeekChild(i, k) == LeastOf({x \in keysOf[i] : x >= k})
SeekChildForPrev(i, k) == GreatestOf({x \in keysOf[i] : x <= k})
NextOfChild(i, k) == LeastOf({x \in keysOf[i] : x > k})
PrevOfChild(i, k) == GreatestOf({x \in keysOf[i] : x < k})

\* Of equal keys the first child's is the smallest and the last child's the largest.
FindSmallest(pos) ==
  LET key == LeastOf({pos[i] : i \in Children} \ {0})
  IN IF key = 0 THEN 0 ELSE Min({i \in Children : pos[i] = key})

FindLargest(pos) ==
  LET key == GreatestOf({pos[i] : i \in Children})
  IN IF key = 0 THEN 0 ELSE Max({i \in Children : pos[i] = key})

Valid == cursor # 0
MergedKey == IF Valid THEN at[cursor] ELSE 0

-----------------------------------------------------------------------------
Forwards(pos) == at' = pos /\ cursor' = FindSmallest(pos) /\ direction' = "forward" /\ UNCHANGED keysOf
Backwards(pos) == at' = pos /\ cursor' = FindLargest(pos) /\ direction' = "reverse" /\ UNCHANGED keysOf

SeekToFirst == Forwards([i \in Children |-> LeastOf(keysOf[i])])
SeekToLast == Backwards([i \in Children |-> GreatestOf(keysOf[i])])
SeekTo == \E target \in ChildKeys : Forwards([i \in Children |-> SeekChild(i, target)])
SeekForPrev == \E target \in ChildKeys : Backwards([i \in Children |-> SeekChildForPrev(i, target)])

\* Mutant: a change of direction leaves the other children where they are.
AfterKeyUnturned(i) == at[i]

\* Where Next puts a child other than current_: behind the key, after a change of
\* direction.
AfterKey(i) ==
  LET k == SeekChild(i, MergedKey)
  IN IF direction = "forward" THEN at[i]
     ELSE IF k = MergedKey THEN NextOfChild(i, k) ELSE k

\* And Prev, before the key: one back from a Seek, or the last.
BeforeKey(i) ==
  LET k == SeekChild(i, MergedKey)
  IN IF direction = "reverse" THEN at[i]
     ELSE IF k # 0 THEN PrevOfChild(i, k) ELSE GreatestOf(keysOf[i])

MergedNext ==
  /\ Valid
  /\ Forwards([i \in Children |-> IF i = cursor THEN NextOfChild(i, at[i]) ELSE AfterKey(i)])

MergedPrev ==
  /\ Valid
  /\ Backwards([i \in Children |-> IF i = cursor THEN PrevOfChild(i, at[i]) ELSE BeforeKey(i)])

MergingInit ==
  /\ keysOf \in [Children -> SUBSET ChildKeys]
  /\ at = [i \in Children |-> 0]
  /\ cursor = 0
  /\ direction = "forward"

MergingNext == SeekToFirst \/ SeekToLast \/ SeekTo \/ SeekForPrev \/ MergedNext \/ MergedPrev

MergingSpec == MergingInit /\ [][MergingNext]_mergingVars

-----------------------------------------------------------------------------
AllKeys == UNION {keysOf[i] : i \in Children}

\* A key that several children have is given once for each of them, or once only
\* where the direction changed on it.
MayRepeat(key) == IF \E i, j \in Children : i # j /\ key \in keysOf[i] \cap keysOf[j] THEN {key} ELSE {}

\* However the iterator got to a key, a step in either direction jumps over no key
\* of any child and gives none twice that only one child has.
NoKeySkipped ==
  [][/\ MergedNext => MergedKey' \in {LeastOf({k \in AllKeys : k > MergedKey})} \cup MayRepeat(MergedKey)
     /\ MergedPrev => MergedKey' \in {GreatestOf({k \in AllKeys : k < MergedKey})} \cup MayRepeat(MergedKey)]_mergingVars
=============================================================================
