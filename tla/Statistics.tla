----------------------------- MODULE Statistics -----------------------------
(***************************************************************************)
(* Staticstic: threads add samples to a shared list under a mutex; Report  *)
(* swaps the list for an empty one and writes the old one to a log that is *)
(* rotated by size.  HistogramStat keeps the samples of one (name, result) *)
(* pair.  One thread reports, as the benchmarks do.                        *)
(***************************************************************************)
EXTENDS Integers, Sequences, FiniteSets, FiniteSetsExt, SequencesExt, Functions

CONSTANTS
  Caller,        \* threads that call AddStat
  StatKey,       \* (stat_name, result) pairs
  Costs,         \* consume_us of a call
  NumBuckets,    \* BucketCount(), 109 in the code
  CostBits,      \* width of the uint32_t consume_us of StatEntity's constructor
  LogMaxNum,     \* log_max_num_
  LogMaxSize,    \* log_max_size_, in reports
  MaxSamples,    \* bound: calls of AddStat
  MaxReports     \* bound: calls of Report

ASSUME StatAssumption ==
  /\ Costs \subseteq Nat /\ NumBuckets \in Nat \ {0, 1}
  /\ LogMaxNum \in Nat \ {0, 1} /\ LogMaxSize \in Nat \ {0}
  /\ CostBits \in Nat /\ MaxSamples \in Nat /\ MaxReports \in Nat

VARIABLES
  lists,      \* every StatNameEntityList made so far: pairs to entities
  inUse,      \* stat_name_entity_list_, an index of lists
  mutex,      \* mutex_: its holder, or Free
  holds,      \* the list a thread took in AddStat
  reporting,  \* the list Report swapped out, 0 when no report is under way
  isOpen,     \* fd_ # NULL
  files,      \* the log files, .log first; a file is the reports in it
  added,      \* history: the samples given to AddStat, a sequence for each pair
  written,    \* history: every report written, in order
  dropped     \* history: the reports whose file could not be switched

statVars == <<lists, inUse, mutex, holds, reporting, isOpen, files, added, written, dropped>>

Free == "free"
NoFile == <<0>>   \* reports count from 1

-----------------------------------------------------------------------------
(***************************************************************************)
(* HistogramStat.                                                          *)
(***************************************************************************)
\* 1, 2, 3, 4, 6, 10, 15, ... 76, 110: powers of 1.5, cut to two digits.
BucketValue(b) ==
  LET v == IF b = 1 THEN 1 ELSE (3^(b - 2) * 2) \div 2^(b - 2)
  IN IF v \div 10 > 10 THEN (v \div 10) * 10 ELSE v

Buckets == 1..NumBuckets
IndexForValue(v) == Min({b \in Buckets : BucketValue(b) >= v} \cup {NumBuckets})

EmptyHistogram ==
  [min |-> BucketValue(NumBuckets), max |-> 0, num |-> 0, sum |-> 0, bucket |-> [b \in Buckets |-> 0]]

Lesser(a, b) == IF a < b THEN a ELSE b
Greater(a, b) == IF a > b THEN a ELSE b

HistogramAdd(h, v) ==
  [min |-> Lesser(h.min, v), max |-> Greater(h.max, v), num |-> h.num + 1, sum |-> h.sum + v,
   bucket |-> [h.bucket EXCEPT ![IndexForValue(v)] = @ + 1]]

HistogramMerge(h, other) ==
  [min |-> Lesser(h.min, other.min), max |-> Greater(h.max, other.max),
   num |-> h.num + other.num, sum |-> h.sum + other.sum,
   bucket |-> [b \in Buckets |-> h.bucket[b] + other.bucket[b]]]

\* p in thousandths of the samples: the code's p / 100.0.  The caller cuts the result
\* to an integer.
Percentile(h, p) ==
  LET below(b) == FoldSet(LAMBDA i, s : s + h.bucket[i], 0, 1..b)
      threshold == h.num * p
      b == Min({i \in Buckets : below(i) * 1000 >= threshold})
      left == IF b = 1 THEN 0 ELSE BucketValue(b - 1)
      position == IF h.bucket[b] = 0 THEN 0
                  ELSE ((BucketValue(b) - left) * (threshold - below(b - 1) * 1000)) \div (h.bucket[b] * 1000)
  IN Lesser(Greater(left + position, h.min), h.max)

\* Percentile(0.5), Percentile(0.8) and Percentile(0.9).
ConsumeUs(h) == <<Percentile(h, 5), Percentile(h, 8), Percentile(h, 9)>>

-----------------------------------------------------------------------------
(***************************************************************************)
(* AddStat.                                                                *)
(***************************************************************************)
NoEntity == [count |-> 0, cost |-> EmptyHistogram]

\* The first sample of a pair goes through StatEntity's constructor, with its narrower
\* argument, and is merged into the map's entity.
Recorded(entity, count, cost) ==
  IF entity = NoEntity
  THEN [count |-> count, cost |-> HistogramMerge(EmptyHistogram, HistogramAdd(EmptyHistogram, cost % 2^CostBits))]
  ELSE [count |-> entity.count + count, cost |-> HistogramAdd(entity.cost, cost)]

Samples == FoldFunction(LAMBDA s, n : n + Len(s), 0, added)

\* Mutant: the list is looked up before the mutex is taken.
TakeListUnlocked(t) ==
  /\ holds[t] = 0 /\ Samples < MaxSamples
  /\ holds' = [holds EXCEPT ![t] = inUse]
  /\ UNCHANGED <<mutex, lists, inUse, reporting, isOpen, files, added, written, dropped>>

TakeList(t) ==
  /\ mutex = Free /\ Samples < MaxSamples
  /\ mutex' = t
  /\ holds' = [holds EXCEPT ![t] = inUse]
  /\ UNCHANGED <<lists, inUse, reporting, isOpen, files, added, written, dropped>>

AddStat(t) ==
  \E k \in StatKey, cost \in Costs :
    /\ holds[t] # 0
    /\ lists' = [lists EXCEPT ![holds[t]][k] = Recorded(@, 1, cost)]
    /\ added' = [added EXCEPT ![k] = Append(@, cost)]
    /\ holds' = [holds EXCEPT ![t] = 0]
    /\ mutex' = Free
    /\ UNCHANGED <<inUse, reporting, isOpen, files, written, dropped>>

-----------------------------------------------------------------------------
(***************************************************************************)
(* Report.                                                                 *)
(***************************************************************************)
EmptyList == [k \in StatKey |-> NoEntity]

SwapList ==
  /\ reporting = 0 /\ mutex = Free /\ Len(lists) <= MaxReports
  /\ lists' = Append(lists, EmptyList)
  /\ inUse' = Len(lists) + 1
  /\ reporting' = inUse
  /\ UNCHANGED <<mutex, holds, isOpen, files, added, written, dropped>>

\* fopen "a+" makes the file.
Reopened(fs) == IF isOpen \/ fs[1] # NoFile THEN fs ELSE [fs EXCEPT ![1] = <<>>]

\* Mutant: files are renamed from the newest on.
RotatedUpwards(fs, n) ==
  [i \in 1..LogMaxNum |-> IF i = n + 1 THEN fs[1] ELSE IF i <= n THEN NoFile ELSE fs[i]]

\* The last file is removed and the n oldest of the others are renamed.
Rotated(fs, n) ==
  [i \in 1..LogMaxNum |->
     IF i > LogMaxNum - n THEN fs[i - 1] ELSE IF i = LogMaxNum - n THEN NoFile ELSE fs[i]]

Drop(fs, open) ==
  /\ files' = fs /\ isOpen' = open
  /\ dropped' = Append(dropped, lists[reporting])
  /\ reporting' = 0
  /\ UNCHANGED <<lists, inUse, mutex, holds, added, written>>

\* BuildBody and Write, to the file that is open.
WriteReport(fs) ==
  /\ files' = [fs EXCEPT ![1] = Append(@, Len(written) + 1)]
  /\ isOpen' = TRUE
  /\ written' = Append(written, lists[reporting])
  /\ reporting' = 0
  /\ UNCHANGED <<lists, inUse, mutex, holds, added, dropped>>

\* SwitchFile: the file cannot be opened, is short enough, or is rotated; remove and
\* each rename may fail, and so may the open after them.
SwitchFile ==
  /\ reporting # 0
  /\ LET fs == Reopened(files)
         full == Len(fs[1]) >= LogMaxSize
         fresh == [Rotated(fs, LogMaxNum - 1) EXCEPT ![1] = <<>>]
     IN \/ \E left \in {files, fs} : Drop(left, FALSE)
        \/ ~full /\ WriteReport(fs)
        \/ full /\ \/ fs[LogMaxNum] # NoFile /\ Drop(fs, TRUE)
                   \/ \E n \in 0..(LogMaxNum - 2) :
                        fs[LogMaxNum - 1 - n] # NoFile /\ Drop(Rotated(fs, n), TRUE)
                   \/ Drop(Rotated(fs, LogMaxNum - 1), FALSE)
                   \/ WriteReport(fresh)

StatInit ==
  /\ lists = <<EmptyList>> /\ inUse = 1
  /\ mutex = Free /\ holds = [t \in Caller |-> 0]
  /\ reporting = 0 /\ isOpen = FALSE
  /\ files = [i \in 1..LogMaxNum |-> NoFile]
  /\ added = [k \in StatKey |-> <<>>]
  /\ written = <<>> /\ dropped = <<>>

StatNext ==
  \/ \E t \in Caller : TakeList(t) \/ AddStat(t)
  \/ SwapList
  \/ SwitchFile

StatSpec == StatInit /\ [][StatNext]_statVars

-----------------------------------------------------------------------------
Total(k, f(_), reports) == FoldLeft(LAMBDA s, r : s + f(r[k]), 0, reports)

\* Every sample is in the list in use, in the one being reported, or in exactly one
\* report; the histograms in which it travels through copies and merges still count
\* it once.  Costs add up too, but for what the constructor's uint32_t cuts off
\* (staticstic.h:35): whole multiples of its range, and nothing while costs fit into
\* it.  (Reports that found no file take theirs with them.)
StatsConserved ==
  LET held == written \o dropped \o <<lists[inUse]>> \o (IF reporting = 0 THEN <<>> ELSE <<lists[reporting]>>)
      counted(e) == e.cost.num
      buckets(e) == FoldFunction(LAMBDA n, s : n + s, 0, e.cost.bucket)
      summed(e) == e.cost.sum
      called(e) == e.count
  IN \A k \in StatKey :
       /\ Total(k, counted, held) = Len(added[k])
       /\ Total(k, called, held) = Len(added[k])
       /\ Total(k, buckets, held) = Len(added[k])
       /\ LET cut == FoldLeft(LAMBDA s, c : s + c, 0, added[k]) - Total(k, summed, held)
          IN /\ cut >= 0 /\ cut % 2^CostBits = 0
             /\ (\A i \in DOMAIN added[k] : added[k][i] < 2^CostBits) => cut = 0

\* Whatever step of a rotation failed, the files hold the newest reports, none missing
\* between two that are there, in the order in which they were written; a rotation, or
\* one that failed, costs no more than the oldest file.
LogOrdered ==
  LET logged == FoldLeft(LAMBDA s, f : (IF f = NoFile THEN <<>> ELSE f) \o s, <<>>, files)
  IN /\ \E n \in 0..Len(written) : logged = [i \in 1..(Len(written) - n) |-> n + i]
     /\ Len(logged) + Len(dropped) * LogMaxSize
          >= Lesser(Len(written), (LogMaxNum - 1) * LogMaxSize + 1)

\* "50%, 80%, 90%": at least that share of the samples of a report are no higher than
\* the bucket of the number it prints for the share.
PercentilesAsLabelled ==
  \A i \in DOMAIN written : \A k \in StatKey :
    LET h == written[i][k].cost
        reached(v) == FoldSet(LAMBDA b, s : s + h.bucket[b], 0, 1..IndexForValue(v))
    IN h.num > 0 =>
         \A n \in 1..3 : reached(ConsumeUs(h)[n]) * 100 >= h.num * <<50, 80, 90>>[n]
=============================================================================
