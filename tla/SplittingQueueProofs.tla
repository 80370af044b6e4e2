------------------------ MODULE SplittingQueueProofs ------------------------
(***************************************************************************)
(* The splitting queue keeps the counters of its TaskSplitters exact, never*)
(* gives an agent to two workers, and keeps the promise of TaskQueue, for  *)
(* every set of tasks, populations, limits and workers.                    *)
(*                                                                         *)
(* The argument follows one task through the places it can be in: queue_,  *)
(* the workers that hold its id, a worker that reports it, doneq_.  A split*)
(* task may be in queue_ and with several workers at once; what its agents *)
(* still lack is then divided between the subtasks that run and those that *)
(* have not been fetched.                                                  *)
(*                                                                         *)
(* The last part proves SplitTask() itself, of module TaskSplitLoop.       *)
(***************************************************************************)
EXTENDS SplittingQueue, TaskSplitLoop, Integers, FiniteSetTheorems, SequenceTheorems, TLAPS

(***************************************************************************)
(* The arithmetic of SplitTask() for every population and every number of  *)
(* subtasks: the segments lie end to end, none is empty or leaves the      *)
(* population, and every agent is in one of them.  With b agents for each  *)
(* subtask and a remainder of r, the first r segments have b + 1 agents.   *)
(***************************************************************************)

\* Division with remainder.
LEMMA DivMod ==
  ASSUME NEW p \in Nat, NEW n \in Nat \ {0}
  PROVE  /\ p \div n \in Nat
         /\ p % n \in 0..n - 1
         /\ p = n * (p \div n) + (p % n)
  OBVIOUS

\* Products are monotonic.
LEMMA ProductMonotonic ==
  ASSUME NEW a \in Nat, NEW b \in Nat, NEW c \in Nat, a <= b
  PROVE  a * c <= b * c /\ a * c \in Nat /\ b * c \in Nat
  OBVIOUS

\* A segment ends where the next one begins; the last ends with the population.
LEMMA SegmentsAdjacent ==
  ASSUME NEW s0 \in Nat, NEW p \in Nat, NEW n \in Nat \ {0}
  PROVE  /\ SegmentOffset(s0, p, n, 0) = s0
         /\ SegmentOffset(s0, p, n, n) = s0 + p
         /\ \A h \in Nat : SegmentOffset(s0, p, n, h) \in Nat /\ SegmentSize(p, n, h) \in Nat
         /\ \A h \in Nat : SegmentOffset(s0, p, n, h + 1)
                             = SegmentOffset(s0, p, n, h) + SegmentSize(p, n, h)
         /\ \A h, j \in Nat :
              h <= j => SegmentOffset(s0, p, n, h) <= SegmentOffset(s0, p, n, j)
  <1> DEFINE b == p \div n
             r == p % n
             Off(h) == s0 + h * b + (IF h < r THEN h ELSE r)
             Size(h) == b + (IF h < r THEN 1 ELSE 0)
  <1>1. b \in Nat /\ r \in Nat /\ r < n /\ p = n * b + r
    BY DivMod
  <1>2. /\ \A h : SegmentOffset(s0, p, n, h) = Off(h)
        /\ \A h : SegmentSize(p, n, h) = Size(h)
    BY DEF SegmentOffset, SegmentSize
  <1> HIDE DEF b, r
  <1>3. \A h \in Nat : h * b \in Nat /\ (h + 1) * b = h * b + b
    BY <1>1
  <1>4. Off(0) = s0 /\ Off(n) = s0 + p
    BY <1>1
  <1>5. \A h \in Nat : Off(h) \in Nat /\ Size(h) \in Nat /\ Off(h + 1) = Off(h) + Size(h)
    BY <1>1, <1>3
  <1>6. \A h, j \in Nat : h <= j => Off(h) <= Off(j)
    <2> SUFFICES ASSUME NEW h \in Nat, NEW j \in Nat, h <= j PROVE Off(h) <= Off(j)
      OBVIOUS
    <2>1. h * b <= j * b /\ h * b \in Nat /\ j * b \in Nat
      BY <1>1, ProductMonotonic
    <2>. QED
      BY <1>1, <2>1
  <1>. QED
    BY <1>2, <1>4, <1>5, <1>6

\* Every agent is in some segment: with the first r segments of b + 1 agents, or
\* behind them in one of b agents.
LEMMA SegmentOfAgent ==
  ASSUME NEW s0 \in Nat, NEW p \in Nat, NEW n \in Nat \ {0},
         NEW a \in s0 .. (s0 + p - 1)
  PROVE  \E h \in 0..n - 1 : /\ SegmentOffset(s0, p, n, h) <= a
                             /\ a < SegmentOffset(s0, p, n, h) + SegmentSize(p, n, h)
  <1> DEFINE b == p \div n
             r == p % n
             x == a - s0
  <1>1. b \in Nat /\ r \in Nat /\ r < n /\ p = n * b + r
    BY DivMod
  <1>2. x \in Nat /\ x < p /\ a = s0 + x
    OBVIOUS
  <1> HIDE DEF b, r, x
  <1>3. r * (b + 1) \in Nat
    BY <1>1
  <1>4. CASE x < r * (b + 1)
    <2> DEFINE h == x \div (b + 1)
               m == x % (b + 1)
    <2>1. h \in Nat /\ m \in Nat /\ m < b + 1 /\ x = (b + 1) * h + m
      <3> DEFINE c == b + 1
      <3>1. c \in Nat \ {0}
        BY <1>1
      <3> HIDE DEF c
      <3>2. x \div c \in Nat /\ x % c \in 0..c - 1 /\ x = c * (x \div c) + (x % c)
        BY <1>2, <3>1, DivMod
      <3>. QED
        BY <3>1, <3>2 DEF c
    <2> HIDE DEF h, m
    <2>2. h < r
      <3>1. ASSUME r <= h PROVE FALSE
        <4>1. r * (b + 1) <= h * (b + 1) /\ h * (b + 1) \in Nat
          BY <1>1, <2>1, <3>1, ProductMonotonic
        <4>2. (b + 1) * h = h * (b + 1)
          BY <1>1, <2>1
        <4>. QED
          BY <1>2, <1>3, <1>4, <2>1, <4>1, <4>2
      <3>. QED
        BY <1>1, <2>1, <3>1
    <2>3. (b + 1) * h = h * b + h /\ h * b \in Nat
      BY <1>1, <2>1
    <2>4. /\ SegmentOffset(s0, p, n, h) = s0 + h * b + h
          /\ SegmentSize(p, n, h) = b + 1
      BY <2>2 DEF SegmentOffset, SegmentSize, b, r
    <2>5. h \in 0..n - 1
      BY <1>1, <2>1, <2>2
    <2>6. /\ SegmentOffset(s0, p, n, h) <= a
          /\ a < SegmentOffset(s0, p, n, h) + SegmentSize(p, n, h)
      BY <1>1, <1>2, <2>1, <2>3, <2>4
    <2>. QED
      BY <2>5, <2>6
  <1>5. CASE x >= r * (b + 1)
    <2> DEFINE y == x - r * (b + 1)
               j == y \div b
               m == y % b
    <2>1. r * (b + 1) = r * b + r /\ r * b \in Nat /\ n * b \in Nat
      BY <1>1
    <2>2. y \in Nat /\ x = r * b + r + y /\ r * b + y < n * b
      BY <1>1, <1>2, <1>3, <1>5, <2>1
    <2> HIDE DEF y
    <2>3. b # 0
      BY <1>1, <2>1, <2>2
    <2>4. j \in Nat /\ m \in Nat /\ m < b /\ y = b * j + m
      BY <1>1, <2>2, <2>3, DivMod
    <2> HIDE DEF j, m
    <2>5. (r + j) * b = r * b + b * j /\ (r + j) * b \in Nat
      BY <1>1, <2>4
    <2>6. r + j < n
      <3>1. ASSUME n <= r + j PROVE FALSE
        <4>1. n * b <= (r + j) * b
          BY <1>1, <2>4, <3>1, ProductMonotonic
        <4>. QED
          BY <1>1, <2>1, <2>2, <2>4, <2>5, <4>1
      <3>. QED
        BY <1>1, <2>4, <3>1
    <2>7. /\ SegmentOffset(s0, p, n, r + j) = s0 + (r + j) * b + r
          /\ SegmentSize(p, n, r + j) = b
      <3>1. ~(r + j < r)
        BY <1>1, <2>4
      <3>. QED
        BY <1>1, <2>4, <3>1 DEF SegmentOffset, SegmentSize, b, r
    <2>8. r + j \in 0..n - 1
      BY <1>1, <2>4, <2>6
    <2>9. /\ SegmentOffset(s0, p, n, r + j) <= a
          /\ a < SegmentOffset(s0, p, n, r + j) + SegmentSize(p, n, r + j)
      BY <1>1, <1>2, <2>1, <2>2, <2>4, <2>5, <2>7
    <2>. QED
      BY <2>8, <2>9
  <1>. QED
    BY <1>2, <1>3, <1>4, <1>5

\* A vector of subtasks.
Segment == [offset : Nat, count : Nat]

\* Without overflow SplitTask() chooses at least two subtasks, at most max_tasks, and
\* has min_task_size agents for each.
LEMMA SplitCount ==
  ASSUME NEW p \in Nat, NEW max \in Nat \ {0}, NEW min \in Nat \ {0},
         max * min < SizeMod, ~TooSmall(p, max, min)
  PROVE  /\ NumSplits(p, max, min) \in 2..max
         /\ NumSplits(p, max, min) * min <= p
         /\ NumSplits(p, max, min) <= p
  <1> DEFINE n == NumSplits(p, max, min)
  <1>1. SizeMod \in Nat \ {0}
    BY SizeModAssumption
  <1>2. max >= 2
    BY DEF TooSmall
  <1>3. min * max = max * min /\ max * min \in Nat /\ 2 * min <= max * min /\ min * 2 = 2 * min
    BY <1>2, ProductMonotonic
  <1>4. (min * max) % SizeMod = max * min /\ (min * 2) % SizeMod = 2 * min
    BY <1>1, <1>3
  <1>5. p >= 2 * min
    BY <1>1, <1>3, <1>4 DEF TooSmall
  <1>6. CASE p >= max * min
    <2>1. n = max
      BY <1>4, <1>6 DEF NumSplits
    <2>2. max <= max * min
      OBVIOUS
    <2>. QED
      BY <1>2, <1>3, <1>6, <2>1, <2>2
  <1>7. CASE p < max * min
    <2>1. n = p \div min
      BY <1>3, <1>4, <1>7 DEF NumSplits
    <2>2. p \div min \in Nat /\ p % min \in 0..min - 1 /\ p = min * (p \div min) + (p % min)
      BY DivMod
    <2> HIDE DEF n
    <2>3. n \in Nat /\ n * min <= p /\ p < (n + 1) * min /\ n * min \in Nat
      BY <2>1, <2>2
    <2>4. ASSUME n < 2 PROVE FALSE
      <3>1. (n + 1) * min <= 2 * min
        BY <2>3, <2>4, ProductMonotonic
      <3>. QED
        BY <1>5, <2>3, <3>1
    <2>5. ASSUME max <= n PROVE FALSE
      <3>1. max * min <= n * min
        BY <2>3, <2>5, ProductMonotonic
      <3>. QED
        BY <1>3, <1>7, <2>3, <3>1
    <2>6. n <= n * min
      BY <2>3
    <2>. QED
      BY <2>3, <2>4, <2>5, <2>6 DEF n
  <1>. QED
    BY <1>3, <1>6, <1>7

(***************************************************************************)
(* segs divides the p agents from s0 on into n segments: these are         *)
(* disjoint and cover the agents, and when there are no more segments than *)
(* agents none is empty.                                                   *)
(***************************************************************************)
Partitions(segs, s0, p, n) ==
  /\ segs \in Seq(Segment) /\ Len(segs) = n
  /\ UNION {AgentsOf(segs[k]) : k \in 1..n} = s0 .. (s0 + p - 1)
  /\ \A k, l \in 1..n : k # l => AgentsOf(segs[k]) \intersect AgentsOf(segs[l]) = {}
  /\ \A k \in 1..n : /\ s0 <= segs[k].offset
                     /\ segs[k].offset + segs[k].count <= s0 + p
                     /\ n <= p => segs[k].count # 0

\* The segments of SplitTask() divide every population.
LEMMA SegmentsPartition ==
  ASSUME NEW s0 \in Nat, NEW p \in Nat, NEW n \in Nat \ {0}
  PROVE  Partitions(Segments(s0, p, n), s0, p, n)
  <1>0. PICK segs : segs = Segments(s0, p, n)
    OBVIOUS
  <1> DEFINE Off(h) == SegmentOffset(s0, p, n, h)
             Size(h) == SegmentSize(p, n, h)
  <1>1. /\ Off(0) = s0 /\ Off(n) = s0 + p
        /\ \A h \in Nat : Off(h) \in Nat /\ Size(h) \in Nat
        /\ \A h \in Nat : Off(h + 1) = Off(h) + Size(h)
        /\ \A h, j \in Nat : h <= j => Off(h) <= Off(j)
    <2> HIDE DEF Off, Size
    <2>1. Off(0) = s0
      BY SegmentsAdjacent DEF Off
    <2>2. Off(n) = s0 + p
      BY SegmentsAdjacent DEF Off
    <2>3. ASSUME NEW h \in Nat
          PROVE  Off(h) \in Nat /\ Size(h) \in Nat /\ Off(h + 1) = Off(h) + Size(h)
      <3>1. Off(h) \in Nat
        BY SegmentsAdjacent DEF Off
      <3>2. Size(h) \in Nat
        BY SegmentsAdjacent DEF Size
      <3>3. Off(h + 1) = Off(h) + Size(h)
        BY SegmentsAdjacent DEF Off, Size
      <3>. QED
        BY <3>1, <3>2, <3>3
    <2>4. ASSUME NEW h \in Nat, NEW j \in Nat, h <= j PROVE Off(h) <= Off(j)
      BY <2>4, SegmentsAdjacent DEF Off
    <2>. QED
      BY <2>1, <2>2, <2>3, <2>4
  <1>2. \A a \in s0 .. (s0 + p - 1) :
          \E h \in 0..n - 1 : Off(h) <= a /\ a < Off(h) + Size(h)
    BY SegmentOfAgent
  <1>3. n <= p => \A h \in Nat : Size(h) # 0
    <2>1. ASSUME n <= p PROVE p \div n # 0
      <3>1. p \div n \in Nat /\ p % n \in 0..n - 1 /\ p = n * (p \div n) + (p % n)
        BY DivMod
      <3>. QED
        BY <2>1, <3>1
    <2>2. p \div n \in Nat
      BY DivMod
    <2>. QED
      BY <2>1, <2>2 DEF SegmentSize
  <1>4. segs = [k \in 1..n |-> [offset |-> Off(k - 1), count |-> Size(k - 1)]]
    BY <1>0 DEF Segments
  <1> HIDE DEF Off, Size
  <1>5. \A k \in 1..n : k - 1 \in Nat /\ k - 1 + 1 = k
    OBVIOUS
  <1>6. \A k \in 1..n : /\ segs[k].offset = Off(k - 1) /\ segs[k].count = Size(k - 1)
                        /\ Off(k - 1) \in Nat /\ Size(k - 1) \in Nat
                        /\ Off(k) = Off(k - 1) + Size(k - 1)
    BY <1>1, <1>4, <1>5
  <1>7. segs \in Seq(Segment) /\ Len(segs) = n
    <2>1. \A k \in 1..n : [offset |-> Off(k - 1), count |-> Size(k - 1)] \in Segment
      BY <1>6 DEF Segment
    <2>2. segs \in [1..n -> Segment]
      BY <1>4, <2>1
    <2>. QED
      BY <2>2
  <1>8. \A k \in 1..n : AgentsOf(segs[k]) = Off(k - 1) .. (Off(k) - 1)
    BY <1>6 DEF AgentsOf
  <1>9. \A k \in 1..n : s0 <= Off(k - 1) /\ Off(k) <= s0 + p
    <2> SUFFICES ASSUME NEW k \in 1..n
                 PROVE  s0 <= Off(k - 1) /\ Off(k) <= s0 + p
      OBVIOUS
    <2>1. 0 \in Nat /\ k - 1 \in Nat /\ k \in Nat /\ n \in Nat /\ 0 <= k - 1 /\ k <= n
      OBVIOUS
    <2>2. Off(0) <= Off(k - 1) /\ Off(k) <= Off(n)
      BY <1>1, <2>1
    <2>. QED
      BY <1>1, <2>2
  <1>10. UNION {AgentsOf(segs[k]) : k \in 1..n} = s0 .. (s0 + p - 1)
    <2>1. ASSUME NEW k \in 1..n, NEW a \in AgentsOf(segs[k])
          PROVE  a \in s0 .. (s0 + p - 1)
      <3>1. a \in Off(k - 1) .. (Off(k) - 1)
        BY <1>8, <2>1
      <3>2. Off(k - 1) \in Nat /\ Off(k) \in Nat
        BY <1>5, <1>6
      <3>3. s0 <= Off(k - 1) /\ Off(k) <= s0 + p
        BY <1>9
      <3>. QED
        BY <3>1, <3>2, <3>3
    <2>2. ASSUME NEW a \in s0 .. (s0 + p - 1)
          PROVE  \E k \in 1..n : a \in AgentsOf(segs[k])
      <3>1. PICK h \in 0..n - 1 : Off(h) <= a /\ a < Off(h) + Size(h)
        BY <1>2
      <3>2. h + 1 \in 1..n /\ h + 1 - 1 = h /\ h \in Nat
        OBVIOUS
      <3>3. Off(h) \in Nat /\ Size(h) \in Nat /\ Off(h + 1) = Off(h) + Size(h)
        BY <1>1, <3>2
      <3>4. AgentsOf(segs[h + 1]) = Off(h) .. (Off(h + 1) - 1)
        BY <1>8, <3>2
      <3>. QED
        BY <3>1, <3>2, <3>3, <3>4
    <2>. QED
      BY <2>1, <2>2
  <1>11. ASSUME NEW k \in 1..n, NEW l \in 1..n, k < l
         PROVE  AgentsOf(segs[k]) \intersect AgentsOf(segs[l]) = {}
    <2>1. k <= l - 1 /\ k \in Nat /\ l - 1 \in Nat
      BY <1>11
    <2>2. Off(k) <= Off(l - 1) /\ Off(k) \in Nat /\ Off(l - 1) \in Nat
      BY <1>1, <2>1
    <2>3. Off(k - 1) \in Nat /\ Off(l) \in Nat
      <3>1. k - 1 \in Nat /\ l \in Nat
        OBVIOUS
      <3>. QED
        BY <1>1, <3>1
    <2>4. AgentsOf(segs[k]) = Off(k - 1) .. (Off(k) - 1)
      BY <1>8
    <2>5. AgentsOf(segs[l]) = Off(l - 1) .. (Off(l) - 1)
      BY <1>8
    <2>. QED
      BY <2>2, <2>3, <2>4, <2>5
  <1>12. \A k, l \in 1..n : k # l => AgentsOf(segs[k]) \intersect AgentsOf(segs[l]) = {}
    <2> SUFFICES ASSUME NEW k \in 1..n, NEW l \in 1..n, k # l
                 PROVE  AgentsOf(segs[k]) \intersect AgentsOf(segs[l]) = {}
      OBVIOUS
    <2>1. k < l \/ l < k
      OBVIOUS
    <2>. QED
      BY <1>11, <2>1
  <1>13. \A k \in 1..n : /\ s0 <= segs[k].offset
                         /\ segs[k].offset + segs[k].count <= s0 + p
                         /\ n <= p => segs[k].count # 0
    BY <1>3, <1>5, <1>6, <1>9
  <1>. QED
    BY <1>0, <1>7, <1>10, <1>12, <1>13 DEF Partitions

-----------------------------------------------------------------------------

Elements(s) == {s[h] : h \in 1..Len(s)}

\* No task occurs twice in a queue; termination ids may.
Distinct(s) == \A h, j \in 1..Len(s) : (s[h] = s[j] /\ s[h] # Term) => h = j

InQueue(t) == t \in Elements(queue_)
InDoneq(t) == t \in Elements(doneq_)

\* Workers between GetNextTask() and TaskDone(), by program point.
Fetching(t)  == At(t, {"fetch"})
Running(t)   == At(t, {"run"})
Finishing(t) == At(t, {"done"})
Reporting(t) == At(t, {"report"})
Holders(t)   == At(t, {"fetch", "run", "done"})

\* Agents of the subtasks that have not been fetched.
Unfetched(ts) == UNION {AgentsOf(ts.tasks_[k]) : k \in (ts.next_ + 1)..Len(ts.tasks_)}

\* The subtasks of a splitter are disjoint and their number fits its counters.
SegmentsInv(ts) ==
  /\ Len(ts.tasks_) \in 1..(SizeMod - 1)
  /\ \A k, l \in 1..Len(ts.tasks_) :
       k # l => AgentsOf(ts.tasks_[k]) \intersect AgentsOf(ts.tasks_[l]) = {}

\* The counters are exact, and the id is in queue_ while subtasks are pending.
CounterInv(t, ts) ==
  /\ ts.running_ = Cardinality(Holders(t))
  /\ ts.pending_ + Cardinality(Fetching(t)) + ts.next_ = Len(ts.tasks_)
  /\ InQueue(t) <=> ts.pending_ # 0
  /\ ~IsComplete(ts)

\* What is unvisited is being run or not yet fetched, by one subtask only.
VisitInv(t, ts) ==
  /\ unvisited[t] = (UNION {AgentsOf(subtask[w]) : w \in Running(t)}) \union Unfetched(ts)
  /\ \A v, w \in Running(t) :
       v # w => AgentsOf(subtask[v]) \intersect AgentsOf(subtask[w]) = {}
  /\ \A w \in Running(t), k \in (ts.next_ + 1)..Len(ts.tasks_) :
       AgentsOf(subtask[w]) \intersect AgentsOf(ts.tasks_[k]) = {}

\* A task that is not split is in queue_ or with one worker.
WholeInv(t) ==
  /\ \A v, w \in Holders(t) : v = w
  /\ Holders(t) # {} => ~InQueue(t)
  /\ InQueue(t) \/ Fetching(t) # {} => unvisited[t] = AgentsOf(Whole(t))
  /\ \A w \in Running(t) : AgentsOf(subtask[w]) = unvisited[t]
  /\ Finishing(t) # {} => unvisited[t] = {}

\* A task that is somewhere is outstanding; one in doneq_, or being reported, is
\* nowhere else; one being reported has been visited completely.
PlaceInv(t) ==
  /\ InQueue(t) \/ IsSplit(t) \/ Holders(t) # {} \/ Reporting(t) # {} \/ InDoneq(t)
       => t \in outstanding
  /\ InDoneq(t) => ~InQueue(t) /\ ~IsSplit(t) /\ Holders(t) = {} /\ Reporting(t) = {}
  /\ Reporting(t) # {} =>
       ~InQueue(t) /\ ~IsSplit(t) /\ Holders(t) = {} /\ unvisited[t] = {}
  /\ \A v, w \in Reporting(t) : v = w

SplitInv(t, ts) == SegmentsInv(ts) /\ CounterInv(t, ts) /\ VisitInv(t, ts)

TaskInv(t) ==
  /\ PlaceInv(t)
  /\ IsSplit(t) => SplitInv(t, split_map_[t])
  /\ ~IsSplit(t) => WholeInv(t)

TypeInv ==
  /\ TypeOK
  /\ DOMAIN subtask = Workers
  /\ max_splits_ \in 1..(SizeMod - 1)
  /\ min_vector_size_ \in MinSizes

IInv ==
  /\ TypeInv
  /\ Distinct(queue_) /\ Distinct(doneq_)
  /\ \A t \in Tasks : TaskInv(t)

-----------------------------------------------------------------------------
(***************************************************************************)
(* Facts about vectors, counters and the positions of the workers.         *)
(***************************************************************************)

\* push() adds one element and keeps tasks distinct if it is new.
LEMMA PushElements ==
  ASSUME NEW T, NEW s \in Seq(T), NEW x \in T
  PROVE  /\ Append(s, x) \in Seq(T)
         /\ Elements(Append(s, x)) = Elements(s) \union {x}
         /\ (Distinct(s) /\ (x = Term \/ x \notin Elements(s))) => Distinct(Append(s, x))
  <1> DEFINE u == Append(s, x)
  <1>1. /\ u \in Seq(T)
        /\ Len(u) = Len(s) + 1
        /\ \A h \in 1..Len(s) : u[h] = s[h]
        /\ u[Len(s) + 1] = x
    BY AppendProperties
  <1>2. Len(s) \in Nat /\ 1..Len(u) = (1..Len(s)) \union {Len(s) + 1}
    BY <1>1
  <1>3. Elements(u) = Elements(s) \union {x}
    BY <1>1, <1>2 DEF Elements
  <1>4. (Distinct(s) /\ (x = Term \/ x \notin Elements(s))) => Distinct(u)
    BY <1>1, <1>2 DEF Distinct, Elements
  <1>. QED
    BY <1>1, <1>3, <1>4

\* front() and pop() remove the first element; a task that was there once is gone.
LEMMA TakeElements ==
  ASSUME NEW T, NEW s \in Seq(T), s # <<>>, Distinct(s)
  PROVE  /\ Tail(s) \in Seq(T)
         /\ Head(s) \in T /\ Head(s) \in Elements(s)
         /\ Distinct(Tail(s))
         /\ \A x : x # Term =>
              (x \in Elements(Tail(s)) <=> x \in Elements(s) /\ x # Head(s))
  <1> DEFINE u == Tail(s)
  <1>1. /\ u \in Seq(T)
        /\ Len(s) \in Nat \ {0}
        /\ Len(u) = Len(s) - 1
        /\ \A h \in 1..Len(u) : u[h] = s[h + 1]
        /\ Head(s) = s[1] /\ Head(s) \in T
    BY HeadTailProperties, EmptySeq
  <1>2. Head(s) \in Elements(s)
    BY <1>1 DEF Elements
  <1>3. Distinct(u)
    <2> SUFFICES ASSUME NEW h \in 1..Len(u), NEW j \in 1..Len(u), u[h] = u[j], u[h] # Term
                 PROVE  h = j
      BY DEF Distinct
    <2>1. h + 1 \in 1..Len(s) /\ j + 1 \in 1..Len(s) /\ s[h + 1] = s[j + 1] /\ s[h + 1] # Term
      BY <1>1
    <2>2. h + 1 = j + 1
      BY <2>1 DEF Distinct
    <2>. QED
      BY <1>1, <2>2
  <1>4. ASSUME NEW x, x # Term
        PROVE  x \in Elements(u) <=> x \in Elements(s) /\ x # Head(s)
    <2>1. ASSUME NEW h \in 1..Len(u), x = u[h]
          PROVE  x \in Elements(s) /\ x # Head(s)
      <3>1. h + 1 \in 1..Len(s) /\ x = s[h + 1] /\ h + 1 # 1 /\ 1 \in 1..Len(s)
        BY <1>1, <2>1
      <3>2. x \in Elements(s)
        BY <3>1 DEF Elements
      <3>3. x # s[1]
        BY <1>4, <3>1 DEF Distinct
      <3>. QED
        BY <1>1, <3>2, <3>3
    <2>2. ASSUME NEW h \in 1..Len(s), x = s[h], x # Head(s)
          PROVE  x \in Elements(u)
      <3>1. h - 1 \in 1..Len(u) /\ u[h - 1] = s[h]
        BY <1>1, <2>2
      <3>. QED
        BY <2>2, <3>1 DEF Elements
    <2>. QED
      BY <2>1, <2>2 DEF Elements
  <1>. QED
    BY <1>1, <1>2, <1>3, <1>4

\* back() and pop_back() take the last completion of doneq_.
LEMMA DropElements ==
  ASSUME NEW s \in Seq(Tasks), s # <<>>, Distinct(s)
  PROVE  /\ SubSeq(s, 1, Len(s) - 1) \in Seq(Tasks)
         /\ s[Len(s)] \in Tasks /\ s[Len(s)] \in Elements(s)
         /\ Distinct(SubSeq(s, 1, Len(s) - 1))
         /\ Elements(SubSeq(s, 1, Len(s) - 1)) = Elements(s) \ {s[Len(s)]}
  <1> DEFINE n == Len(s)
             u == SubSeq(s, 1, n - 1)
  <1>1. n \in Nat \ {0} /\ \A h \in 1..n : s[h] \in Tasks
    BY EmptySeq
  <1>2. \A h \in 1..n : s[h] # Term
    BY <1>1, QueueAssumption
  <1>3. u \in Seq(Tasks) /\ Len(u) = n - 1 /\ \A h \in 1..(n - 1) : u[h] = s[h]
    <2>1. 1 \in Int /\ n - 1 \in Int /\ \A h \in 1..(n - 1) : s[h] \in Tasks
      BY <1>1
    <2>2. /\ SubSeq(s, 1, n - 1) \in Seq(Tasks)
          /\ Len(SubSeq(s, 1, n - 1)) = IF 1 <= n - 1 THEN (n - 1) - 1 + 1 ELSE 0
      BY <2>1, SubSeqProperties
    <2> HIDE DEF n
    <2>3. (IF 1 <= n - 1 THEN (n - 1) - 1 + 1 ELSE 0) = n - 1
      BY <1>1
    <2>4. Len(u) = n - 1
      BY <2>2, <2>3
    <2>5. \A h \in 1..(n - 1) : u[h] = s[h]
      BY <1>1
    <2>. QED
      BY <2>2, <2>4, <2>5
  <1>4. s[n] \in Tasks /\ s[n] \in Elements(s)
    BY <1>1 DEF Elements
  <1>5. \A h, j \in 1..n : s[h] = s[j] => h = j
    BY <1>2 DEF Distinct
  <1>6. Distinct(u)
    BY <1>1, <1>3, <1>5 DEF Distinct
  <1>7. 1..n = (1..(n - 1)) \union {n} /\ n \notin 1..(n - 1)
    BY <1>1
  <1>8. Elements(u) = Elements(s) \ {s[n]}
    <2>1. PICK v, m : v = u /\ m = n
      OBVIOUS
    <2>2. Len(v) = m - 1 /\ Len(s) = m /\ \A h \in 1..(m - 1) : v[h] = s[h]
      BY <1>3, <2>1
    <2>3. Elements(v) = {s[h] : h \in 1..(m - 1)}
      BY <2>2 DEF Elements
    <2>4. Elements(s) = {s[h] : h \in 1..(m - 1)} \union {s[m]}
      BY <1>7, <2>1, <2>2 DEF Elements
    <2>5. s[m] \notin {s[h] : h \in 1..(m - 1)}
      BY <1>5, <1>7, <2>1
    <2>. QED
      BY <2>1, <2>3, <2>4, <2>5
  <1>. QED
    BY <1>3, <1>4, <1>6, <1>8

\* The size_t counters neither wrap around nor overflow in their range.
LEMMA DecrementExact ==
  ASSUME NEW x \in 1..(SizeMod - 1)
  PROVE  Decrement(x) = x - 1
  <1>1. SizeMod \in Nat \ {0}
    BY SizeModAssumption
  <1>2. (x + SizeMod - 1) = SizeMod * 1 + (x - 1) /\ x - 1 \in 0..(SizeMod - 1)
    BY <1>1
  <1>. QED
    BY <1>1, <1>2 DEF Decrement

\* A size_t below its limit is incremented without wrapping around.
LEMMA IncrementExact ==
  ASSUME NEW x \in Nat, x + 1 < SizeMod
  PROVE  (x + 1) % SizeMod = x + 1
  BY SizeModAssumption

\* A population is divided into two subtasks at least, and the counters can hold
\* their number even if min_vector_size_ * max_splits_ wraps around.
LEMMA SplitCountFits ==
  ASSUME NEW p \in Nat, NEW max \in 1..(SizeMod - 1), NEW min \in MinSizes,
         ~TooSmall(p, max, min)
  PROVE  NumSplits(p, max, min) \in 2..(SizeMod - 1)
  <1> DEFINE m == (min * max) % SizeMod
  <1>1. SizeMod \in Nat \ {0} /\ min \in Nat \ {0} /\ 2 * min < SizeMod
    BY SizeModAssumption, QueueAssumption, WidthAssumption
  <1>2. m \in Nat /\ m < SizeMod
    <2>1. min * max \in Nat
      BY <1>1
    <2>. QED
      BY <1>1, <2>1, DivMod
  <1>3. max >= 2
    BY DEF TooSmall
  <1>4. p >= 2 * min
    <2>1. min * 2 = 2 * min /\ 2 * min \in Nat
      BY <1>1
    <2>2. (min * 2) % SizeMod = 2 * min
      BY <1>1, <2>1
    <2>. QED
      BY <1>1, <2>1, <2>2 DEF TooSmall
  <1> HIDE DEF m
  <1>5. CASE p >= m
    BY <1>3, <1>5 DEF NumSplits, m
  <1>6. CASE p < m
    <2> DEFINE n == p \div min
    <2>1. n \in Nat /\ p % min \in 0..(min - 1) /\ p = min * n + (p % min)
      BY <1>1, DivMod
    <2>2. NumSplits(p, max, min) = n
      BY <1>2, <1>6 DEF NumSplits, m
    <2> HIDE DEF n
    <2>3. n <= min * n /\ min * n \in Nat
      BY <1>1, <2>1
    <2>4. n < SizeMod
      BY <1>1, <1>2, <1>6, <2>1, <2>3
    <2>5. n >= 2
      <3>1. ASSUME n < 2 PROVE FALSE
        <4>1. n * min <= 1 * min
          BY <1>1, <2>1, <3>1, ProductMonotonic
        <4>2. n * min = min * n
          BY <1>1, <2>1
        <4>. QED
          BY <1>1, <1>4, <2>1, <2>3, <4>1, <4>2
      <3>. QED
        BY <2>1, <3>1
    <2>. QED
      BY <1>1, <2>1, <2>2, <2>4, <2>5
  <1>. QED
    BY <1>2, <1>5, <1>6

\* Sets of workers are finite.
LEMMA WorkersFinite ==
  /\ Slots \in Nat \ {0}
  /\ \A t, places : /\ IsFiniteSet(At(t, places))
                    /\ Cardinality(At(t, places)) \in Nat
                    /\ Cardinality(At(t, places)) <= Slots
                    /\ Cardinality(At(t, places)) = 0 <=> At(t, places) = {}
  <1>1. IsFiniteSet(Workers) /\ Workers # {}
    BY QueueAssumption
  <1>2. Slots \in Nat \ {0}
    BY <1>1, FS_CardinalityType, FS_EmptySet DEF Slots
  <1>3. ASSUME NEW t, NEW places
        PROVE  /\ IsFiniteSet(At(t, places))
               /\ Cardinality(At(t, places)) \in Nat
               /\ Cardinality(At(t, places)) <= Slots
               /\ Cardinality(At(t, places)) = 0 <=> At(t, places) = {}
    <2>1. At(t, places) \in SUBSET Workers
      BY DEF At
    <2>2. IsFiniteSet(At(t, places)) /\ Cardinality(At(t, places)) <= Slots
      BY <1>1, <2>1, FS_Subset DEF Slots
    <2>. QED
      BY <2>2, FS_CardinalityType, FS_EmptySet
  <1>. QED
    BY <1>2, <1>3

\* Worker w goes to program point p with task id t.
Moves(w, t, p) ==
  /\ worker' = [worker EXCEPT ![w] = p]
  /\ task_id' = [task_id EXCEPT ![w] = t] \/ (task_id' = task_id /\ task_id[w] = t)

\* Moving worker w to program point p with id t moves it between the sets At.
LEMMA WorkerMoves ==
  ASSUME TypeOK, NEW w \in Workers, NEW t, NEW p, Moves(w, t, p), NEW u, NEW S
  PROVE  At(u, S)' = IF u = t /\ p \in S THEN At(u, S) \union {w} ELSE At(u, S) \ {w}
  <1>1. /\ worker \in [Workers -> {"get", "blocked", "fetch", "run", "done", "report", "exited"}]
        /\ task_id \in [Workers -> Tasks \union {Term}]
    BY DEF TypeOK
  <1>2. \A v \in Workers : /\ worker'[v] = IF v = w THEN p ELSE worker[v]
                           /\ task_id'[v] = IF v = w THEN t ELSE task_id[v]
    BY <1>1 DEF Moves
  <1>3. At(u, S)' = {v \in Workers : worker'[v] \in S /\ task_id'[v] = u}
    BY DEF At
  <1>4. At(u, S) = {v \in Workers : worker[v] \in S /\ task_id[v] = u}
    BY DEF At
  <1>. QED
    BY <1>2, <1>3, <1>4

\* Waking workers up does not move those that hold a task.
LEMMA NotifyMoves ==
  ASSUME TypeOK, NEW n, Notify(n), UNCHANGED task_id
  PROVE  /\ \A u, S : S \subseteq {"fetch", "run", "done", "report"} => At(u, S)' = At(u, S)
         /\ worker' \in [Workers -> {"get", "blocked", "fetch", "run", "done", "report", "exited"}]
         /\ \A w \in Workers : worker'[w] = worker[w] \/ worker'[w] = "get"
  <1>1. worker \in [Workers -> {"get", "blocked", "fetch", "run", "done", "report", "exited"}]
    BY DEF TypeOK
  <1>2. PICK W \in SUBSET {w \in Workers : worker[w] = "blocked"} :
          worker' = [w \in Workers |-> IF w \in W THEN "get" ELSE worker[w]]
    BY DEF Notify
  <1>3. \A w \in Workers : \/ worker'[w] = worker[w]
                           \/ worker[w] = "blocked" /\ worker'[w] = "get"
    BY <1>2
  <1>4. worker' \in [Workers -> {"get", "blocked", "fetch", "run", "done", "report", "exited"}]
    BY <1>1, <1>2
  <1>5. ASSUME NEW u, NEW S, S \subseteq {"fetch", "run", "done", "report"}
        PROVE  At(u, S)' = At(u, S)
    <2>1. \A w \in Workers : worker'[w] \in S <=> worker[w] \in S
      BY <1>3, <1>5
    <2>. QED
      BY <2>1 DEF At
  <1>. QED
    BY <1>3, <1>4, <1>5

\* The holders of a task by program point.
LEMMA HoldersSplit ==
  ASSUME NEW t
  PROVE  Holders(t) = Fetching(t) \union Running(t) \union Finishing(t)
  BY DEF Holders, Fetching, Running, Finishing, At

\* A task keeps its invariant as long as nothing that concerns it changes.
LEMMA TaskFrame ==
  ASSUME NEW t \in Tasks, TaskInv(t),
         InQueue(t)' <=> InQueue(t), InDoneq(t)' <=> InDoneq(t),
         IsSplit(t)' <=> IsSplit(t), IsSplit(t) => split_map_'[t] = split_map_[t],
         unvisited'[t] = unvisited[t],
         \A S : S \subseteq {"fetch", "run", "done", "report"} => At(t, S)' = At(t, S),
         \A w \in Running(t) : subtask'[w] = subtask[w],
         t \in outstanding => t \in outstanding'
  PROVE  TaskInv(t)'
  <1>1. /\ Holders(t)' = Holders(t) /\ Fetching(t)' = Fetching(t) /\ Running(t)' = Running(t)
        /\ Finishing(t)' = Finishing(t) /\ Reporting(t)' = Reporting(t)
    BY DEF Holders, Fetching, Running, Finishing, Reporting
  <1>2. PlaceInv(t)'
    BY <1>1 DEF TaskInv, PlaceInv
  <1>3. CASE IsSplit(t)
    <2>1. PICK ts : ts = split_map_[t] /\ ts = split_map_'[t]
      BY <1>3
    <2>2. SegmentsInv(ts) /\ CounterInv(t, ts) /\ VisitInv(t, ts)
      BY <1>3, <2>1 DEF TaskInv, SplitInv
    <2>3. CounterInv(t, ts)'
      BY <1>1, <2>2 DEF CounterInv
    <2>4. VisitInv(t, ts)'
      <3>1. UNION {AgentsOf(subtask'[w]) : w \in Running(t)}
              = UNION {AgentsOf(subtask[w]) : w \in Running(t)}
        OBVIOUS
      <3>. QED
        BY <1>1, <2>2, <3>1 DEF VisitInv
    <2>5. SplitInv(t, split_map_[t])'
      BY <2>1, <2>2, <2>3, <2>4 DEF SplitInv
    <2>. QED
      BY <1>2, <1>3, <2>5 DEF TaskInv
  <1>4. CASE ~IsSplit(t)
    <2>1. WholeInv(t)'
      BY <1>1, <1>4 DEF TaskInv, WholeInv
    <2>. QED
      BY <1>2, <1>4, <2>1 DEF TaskInv
  <1>. QED
    BY <1>3, <1>4

-----------------------------------------------------------------------------
(***************************************************************************)
(* Steps of the main thread.                                               *)
(***************************************************************************)
placeVars == <<queue_, split_map_, worker, task_id, subtask, doneq_, outstanding, unvisited>>

\* Steps that leave all tasks where they are.
LEMMA PlacesUnchanged ==
  ASSUME IInv, UNCHANGED placeVars,
         max_splits_' \in 1..(SizeMod - 1), min_vector_size_' \in MinSizes,
         main' \in {"schedule", "waiting", "woken", "drain", "terminate", "destroyed"}
  PROVE  IInv'
  <1>1. TypeInv'
    BY DEF IInv, TypeInv, TypeOK, placeVars
  <1>2. ASSUME NEW t \in Tasks PROVE TaskInv(t)'
    <2>1. \A S : At(t, S)' = At(t, S)
      BY DEF At, placeVars
    <2>. QED
      BY <2>1, TaskFrame DEF IInv, placeVars, InQueue, InDoneq, IsSplit
  <1>. QED
    BY <1>1, <1>2 DEF IInv, placeVars

\* The TaskSplitter Enqueue() creates divides the population of the task.
LEMMA NewSplitter ==
  ASSUME TypeInv, NEW t \in Tasks, CanSplit(t)
  PROVE  /\ SplitTask(t) \in Splitter
         /\ SegmentsInv(SplitTask(t))
         /\ Unfetched(SplitTask(t)) = AgentsOf(Whole(t))
         /\ SplitTask(t).pending_ = Len(SplitTask(t).tasks_)
         /\ SplitTask(t).running_ = 0 /\ SplitTask(t).next_ = 0
  <1> DEFINE p == Population[t]
             n == NumSplits(p, max_splits_, min_vector_size_)
             segs == Segments(0, p, n)
  <1>1. p \in Nat /\ SizeMod \in Nat \ {0}
    BY QueueAssumption, SizeModAssumption
  <1>2. n \in 2..(SizeMod - 1)
    BY <1>1, SplitCountFits DEF TypeInv, CanSplit
  <1>3. n \in Nat \ {0}
    BY <1>1, <1>2
  <1> HIDE DEF p, n
  <1>4. Partitions(segs, 0, p, n)
    BY <1>1, <1>3, SegmentsPartition
  <1> HIDE DEF segs
  <1>5. SplitTask(t) = [pending_ |-> Len(segs), running_ |-> 0, next_ |-> 0, tasks_ |-> segs]
    BY DEF SplitTask, TaskSplitter, segs, n, p
  <1>6. segs \in Seq([offset : Nat, count : Nat]) /\ Len(segs) = n
    BY <1>4 DEF Partitions, Segment
  <1>7. SplitTask(t) \in Splitter
    BY <1>3, <1>5, <1>6 DEF Splitter
  <1>8. SegmentsInv(SplitTask(t))
    BY <1>1, <1>2, <1>4, <1>5, <1>6 DEF SegmentsInv, Partitions
  <1>9. Unfetched(SplitTask(t)) = AgentsOf(Whole(t))
    <2>1. Unfetched(SplitTask(t)) = UNION {AgentsOf(segs[k]) : k \in (0 + 1)..Len(segs)}
      BY <1>5 DEF Unfetched
    <2>2. (0 + 1)..Len(segs) = 1..n
      BY <1>6
    <2>3. AgentsOf(Whole(t)) = 0 .. (0 + p - 1)
      BY DEF AgentsOf, Whole, p
    <2>. QED
      BY <1>4, <2>1, <2>2, <2>3 DEF Partitions
  <1>. QED
    BY <1>5, <1>7, <1>8, <1>9

\* Enqueue() preserves the invariant, for a task that is split and for one that is not.
LEMMA EnqueueStep ==
  ASSUME IInv, NEW t \in Tasks, Enqueue(t)
  PROVE  IInv'
  <1>1. /\ TypeOK /\ TypeInv /\ Distinct(queue_) /\ Distinct(doneq_) /\ TaskInv(t)
        /\ queue_ \in Seq(Tasks \union {Term}) /\ unvisited \in [Tasks -> SUBSET Nat]
    BY DEF IInv, TypeInv, TypeOK
  <1>2. /\ ~InQueue(t) /\ ~IsSplit(t) /\ ~InDoneq(t)
        /\ Holders(t) = {} /\ Reporting(t) = {}
    BY <1>1 DEF TaskInv, PlaceInv, Enqueue
  <1>3. /\ \A u, S : S \subseteq {"fetch", "run", "done", "report"} => At(u, S)' = At(u, S)
        /\ worker' \in [Workers -> {"get", "blocked", "fetch", "run", "done", "report", "exited"}]
        /\ \A w \in Workers : worker'[w] = worker[w] \/ worker'[w] = "get"
    BY <1>1, NotifyMoves DEF Enqueue
  <1>4. /\ queue_' = Append(queue_, t)
        /\ outstanding' = outstanding \union {t}
        /\ unvisited' = [unvisited EXCEPT ![t] = AgentsOf(Whole(t))]
        /\ UNCHANGED <<splittable_, max_splits_, min_vector_size_, task_id, subtask, main, doneq_>>
    BY DEF Enqueue, confVars
  <1>5. /\ queue_' \in Seq(Tasks \union {Term})
        /\ Elements(queue_') = Elements(queue_) \union {t}
        /\ Distinct(queue_')
    BY <1>1, <1>2, <1>4, PushElements DEF InQueue
  <1>6. /\ DOMAIN split_map_' = IF CanSplit(t) THEN DOMAIN split_map_ \union {t}
                                               ELSE DOMAIN split_map_
        /\ \A u \in DOMAIN split_map_ : u # t => split_map_'[u] = split_map_[u]
        /\ CanSplit(t) => split_map_'[t] = SplitTask(t)
    BY <1>2 DEF Enqueue, SetSplitter, IsSplit
  <1>7. TypeInv'
    <2>1. unvisited' \in [Tasks -> SUBSET Nat]
      <3>1. AgentsOf(Whole(t)) \subseteq Nat
        BY QueueAssumption DEF AgentsOf, Whole
      <3>. QED
        BY <1>1, <1>4, <3>1
    <2>2. /\ DOMAIN split_map_' \subseteq Tasks
          /\ \A u \in DOMAIN split_map_' : split_map_'[u] \in Splitter
      <3>1. DOMAIN split_map_ \subseteq Tasks /\ \A u \in DOMAIN split_map_ : split_map_[u] \in Splitter
        BY <1>1 DEF TypeOK
      <3>2. CanSplit(t) => SplitTask(t) \in Splitter
        BY <1>1, NewSplitter
      <3>. QED
        BY <1>2, <1>6, <3>1, <3>2 DEF IsSplit
    <2>3. \A w \in Workers :
            worker'[w] \in {"fetch", "run", "done", "report"} => task_id'[w] \in Tasks
      BY <1>1, <1>3, <1>4 DEF TypeOK
    <2>4. outstanding' \subseteq Tasks
      BY <1>1, <1>4 DEF TypeOK
    <2>. QED
      BY <1>1, <1>3, <1>4, <1>5, <2>1, <2>2, <2>3, <2>4 DEF TypeInv, TypeOK
  <1>8. ASSUME NEW u \in Tasks, u # t PROVE TaskInv(u)'
    <2>1. InQueue(u)' <=> InQueue(u)
      BY <1>5, <1>8 DEF InQueue
    <2>2. InDoneq(u)' <=> InDoneq(u)
      BY <1>4 DEF InDoneq
    <2>3. (IsSplit(u)' <=> IsSplit(u)) /\ (IsSplit(u) => split_map_'[u] = split_map_[u])
      BY <1>6, <1>8 DEF IsSplit
    <2>4. unvisited'[u] = unvisited[u] /\ (u \in outstanding => u \in outstanding')
      BY <1>1, <1>4, <1>8
    <2>5. TaskInv(u) /\ \A w \in Running(u) : subtask'[w] = subtask[w]
      BY <1>4 DEF IInv
    <2>. QED
      BY <1>3, <2>1, <2>2, <2>3, <2>4, <2>5, TaskFrame
  <1>9. TaskInv(t)'
    <2>1. /\ Holders(t)' = {} /\ Reporting(t)' = {}
          /\ Fetching(t)' = {} /\ Running(t)' = {} /\ Finishing(t)' = {}
      <3>1. Holders(t)' = Holders(t) /\ Reporting(t)' = Reporting(t)
        BY <1>3 DEF Holders, Reporting
      <3>2. /\ Fetching(t)' = Fetching(t) /\ Running(t)' = Running(t)
            /\ Finishing(t)' = Finishing(t)
        BY <1>3 DEF Fetching, Running, Finishing
      <3>. QED
        BY <1>2, <3>1, <3>2, HoldersSplit
    <2>2. InQueue(t)' /\ ~InDoneq(t)' /\ t \in outstanding'
      BY <1>2, <1>4, <1>5 DEF InQueue, InDoneq
    <2>3. unvisited'[t] = AgentsOf(Whole(t))
      BY <1>1, <1>4
    <2>4. PlaceInv(t)'
      BY <2>1, <2>2 DEF PlaceInv
    <2>5. CASE CanSplit(t)
      <3>1. PICK ts : ts = SplitTask(t)
        OBVIOUS
      <3>2. IsSplit(t)' /\ split_map_'[t] = ts
        BY <1>6, <2>5, <3>1 DEF IsSplit
      <3>3. /\ SegmentsInv(ts) /\ Unfetched(ts) = AgentsOf(Whole(t))
            /\ ts.pending_ = Len(ts.tasks_) /\ ts.running_ = 0 /\ ts.next_ = 0
        BY <1>1, <2>5, <3>1, NewSplitter
      <3>4. Cardinality({}) = 0
        BY FS_EmptySet
      <3>5. Len(ts.tasks_) \in Nat \ {0}
        BY <3>3, SizeModAssumption DEF SegmentsInv
      <3>6. CounterInv(t, ts)'
        BY <2>1, <2>2, <3>3, <3>4, <3>5 DEF CounterInv, IsComplete
      <3>7. VisitInv(t, ts)'
        <4>1. UNION {AgentsOf(subtask'[w]) : w \in {}} = {}
          OBVIOUS
        <4>2. unvisited'[t] = (UNION {AgentsOf(subtask'[w]) : w \in {}}) \union Unfetched(ts)
          BY <2>3, <3>3, <4>1
        <4>. QED
          BY <2>1, <4>2 DEF VisitInv
      <3>8. SplitInv(t, split_map_[t])'
        BY <3>2, <3>3, <3>6, <3>7 DEF SplitInv
      <3>. QED
        BY <2>4, <3>2, <3>8 DEF TaskInv
    <2>6. CASE ~CanSplit(t)
      <3>1. ~IsSplit(t)'
        BY <1>2, <1>6, <2>6 DEF IsSplit
      <3>2. WholeInv(t)'
        BY <2>1, <2>3 DEF WholeInv, Whole
      <3>. QED
        BY <2>4, <3>1, <3>2 DEF TaskInv
    <2>. QED
      BY <2>5, <2>6
  <1>. QED
    BY <1>1, <1>4, <1>5, <1>7, <1>8, <1>9 DEF IInv

\* A termination task of the destructor preserves the invariant.
LEMMA EnqueueTermStep ==
  ASSUME IInv, EnqueueTerm
  PROVE  IInv'
  <1>1. /\ TypeOK /\ Distinct(queue_) /\ queue_ \in Seq(Tasks \union {Term})
    BY DEF IInv, TypeInv, TypeOK
  <1>2. /\ \A u, S : S \subseteq {"fetch", "run", "done", "report"} => At(u, S)' = At(u, S)
        /\ worker' \in [Workers -> {"get", "blocked", "fetch", "run", "done", "report", "exited"}]
        /\ \A w \in Workers : worker'[w] = worker[w] \/ worker'[w] = "get"
    BY <1>1, NotifyMoves DEF EnqueueTerm
  <1>3. /\ queue_' = Append(queue_, Term)
        /\ UNCHANGED <<split_map_, splittable_, max_splits_, min_vector_size_, task_id, subtask,
                       main, doneq_, outstanding, unvisited>>
    BY DEF EnqueueTerm, confVars
  <1>4. /\ queue_' \in Seq(Tasks \union {Term})
        /\ Elements(queue_') = Elements(queue_) \union {Term}
        /\ Distinct(queue_')
    BY <1>1, <1>3, PushElements
  <1>5. TypeInv'
    <2>1. \A w \in Workers :
            worker'[w] \in {"fetch", "run", "done", "report"} => task_id'[w] \in Tasks
      BY <1>1, <1>2, <1>3 DEF TypeOK
    <2>. QED
      BY <1>2, <1>3, <1>4, <2>1 DEF IInv, TypeInv, TypeOK
  <1>6. ASSUME NEW u \in Tasks PROVE TaskInv(u)'
    <2>1. InQueue(u)' <=> InQueue(u)
      BY <1>4, QueueAssumption DEF InQueue
    <2>. QED
      BY <1>2, <1>3, <2>1, TaskFrame DEF IInv, InDoneq, IsSplit
  <1>. QED
    BY <1>3, <1>4, <1>5, <1>6 DEF IInv

\* Taking a completion from doneq_ preserves the invariant.
LEMMA DrainOneStep ==
  ASSUME IInv, DrainOne
  PROVE  IInv'
  <1>1. doneq_ \in Seq(Tasks) /\ doneq_ # <<>> /\ Distinct(doneq_)
    BY DEF IInv, TypeInv, TypeOK, DrainOne
  <1>2. PICK t : t = doneq_[Len(doneq_)]
    OBVIOUS
  <1>3. /\ outstanding' = outstanding \ {t}
        /\ doneq_' = SubSeq(doneq_, 1, Len(doneq_) - 1)
        /\ UNCHANGED <<queue_, split_map_, worker, splittable_, max_splits_, min_vector_size_,
                       task_id, subtask, main, unvisited>>
    BY <1>2 DEF DrainOne, confVars
  <1>4. /\ doneq_' \in Seq(Tasks) /\ Distinct(doneq_')
        /\ t \in Tasks /\ t \in Elements(doneq_)
        /\ Elements(doneq_') = Elements(doneq_) \ {t}
    BY <1>1, <1>2, <1>3, DropElements
  <1>5. TypeInv'
    BY <1>3, <1>4 DEF IInv, TypeInv, TypeOK
  <1>6. \A u, S : At(u, S)' = At(u, S)
    BY <1>3 DEF At
  <1>7. ASSUME NEW u \in Tasks, u # t PROVE TaskInv(u)'
    <2>1. InDoneq(u)' <=> InDoneq(u)
      BY <1>4, <1>7 DEF InDoneq
    <2>2. u \in outstanding => u \in outstanding'
      BY <1>3, <1>7
    <2>. QED
      BY <1>3, <1>6, <2>1, <2>2, TaskFrame DEF IInv, InQueue, IsSplit
  <1>8. TaskInv(t)'
    <2>1. /\ ~InQueue(t) /\ ~IsSplit(t) /\ Holders(t) = {} /\ Reporting(t) = {}
      BY <1>4 DEF IInv, TaskInv, PlaceInv, InDoneq
    <2>2. ~InQueue(t)' /\ ~IsSplit(t)' /\ ~InDoneq(t)'
      BY <1>3, <1>4, <2>1 DEF InQueue, IsSplit, InDoneq
    <2>3. Holders(t)' = {} /\ Reporting(t)' = {}
      BY <1>6, <2>1 DEF Holders, Reporting
    <2>4. Fetching(t)' = {} /\ Running(t)' = {} /\ Finishing(t)' = {}
      <3>1. /\ Fetching(t)' = Fetching(t) /\ Running(t)' = Running(t)
            /\ Finishing(t)' = Finishing(t)
        BY <1>6 DEF Fetching, Running, Finishing
      <3>. QED
        BY <2>1, <3>1, HoldersSplit
    <2>. QED
      BY <2>2, <2>3, <2>4 DEF TaskInv, PlaceInv, WholeInv
  <1>. QED
    BY <1>3, <1>4, <1>5, <1>7, <1>8 DEF IInv

-----------------------------------------------------------------------------
(***************************************************************************)
(* Steps of a worker.                                                      *)
(***************************************************************************)

\* A worker that holds no task goes to sleep or wakes up.
LEMMA IdleStep ==
  ASSUME IInv, NEW w \in Workers, worker[w] \in {"get", "blocked"},
         NEW p \in {"get", "blocked"}, worker' = [worker EXCEPT ![w] = p],
         UNCHANGED <<queue_, split_map_, confVars, task_id, subtask, schedVars, unvisited>>
  PROVE  IInv'
  <1>1. /\ TypeOK
        /\ worker \in [Workers -> {"get", "blocked", "fetch", "run", "done", "report", "exited"}]
    BY DEF IInv, TypeInv, TypeOK
  <1>2. UNCHANGED <<queue_, split_map_, max_splits_, min_vector_size_, task_id, subtask, main,
                    doneq_, outstanding, unvisited>>
    BY DEF confVars, schedVars
  <1>3. TypeInv'
    <2>1. worker' \in [Workers -> {"get", "blocked", "fetch", "run", "done", "report", "exited"}]
      BY <1>1
    <2>2. \A v \in Workers :
            worker'[v] \in {"fetch", "run", "done", "report"} => task_id'[v] \in Tasks
      BY <1>1, <1>2 DEF TypeOK
    <2>. QED
      BY <1>2, <2>1, <2>2 DEF IInv, TypeInv, TypeOK
  <1>4. ASSUME NEW u, NEW S, S \subseteq {"fetch", "run", "done", "report"}
        PROVE  At(u, S)' = At(u, S)
    <2>1. \A v \in Workers : worker'[v] \in S <=> worker[v] \in S
      BY <1>1, <1>4
    <2>. QED
      BY <1>2, <2>1 DEF At
  <1>5. ASSUME NEW u \in Tasks PROVE TaskInv(u)'
    BY <1>2, <1>4, TaskFrame DEF IInv, InQueue, InDoneq, IsSplit
  <1>. QED
    BY <1>2, <1>3, <1>5 DEF IInv

\* A worker moves while it holds one task, before and after: other tasks do not notice.
LEMMA OthersUndisturbed ==
  ASSUME IInv, NEW w \in Workers, NEW t, NEW p, Moves(w, t, p),
         worker[w] = "get" \/ task_id[w] = t,
         NEW u \in Tasks, u # t,
         InQueue(u)' <=> InQueue(u), InDoneq(u)' <=> InDoneq(u),
         IsSplit(u)' <=> IsSplit(u), IsSplit(u) => split_map_'[u] = split_map_[u],
         unvisited'[u] = unvisited[u],
         \A v \in Workers : v # w => subtask'[v] = subtask[v],
         outstanding' = outstanding
  PROVE  TaskInv(u)'
  <1>1. TypeOK /\ TaskInv(u)
    BY DEF IInv, TypeInv
  <1>2. ASSUME NEW S, S \subseteq {"fetch", "run", "done", "report"}
        PROVE  At(u, S)' = At(u, S) /\ w \notin At(u, S)
    <2>1. At(u, S)' = At(u, S) \ {w}
      BY <1>1, WorkerMoves
    <2>2. w \notin At(u, S)
      BY <1>2 DEF At
    <2>. QED
      BY <2>1, <2>2
  <1>3. \A v \in Running(u) : subtask'[v] = subtask[v]
    <2>1. w \notin Running(u) /\ Running(u) \subseteq Workers
      BY <1>2 DEF Running, At
    <2>. QED
      BY <2>1
  <1>. QED
    BY <1>1, <1>2, <1>3, TaskFrame

\* The sets of holders of t after worker w has moved to program point p with it.
LEMMA HolderMoves ==
  ASSUME IInv, NEW w \in Workers, NEW t, NEW p, Moves(w, t, p)
  PROVE  /\ Fetching(t)' = IF p = "fetch" THEN Fetching(t) \union {w} ELSE Fetching(t) \ {w}
         /\ Running(t)' = IF p = "run" THEN Running(t) \union {w} ELSE Running(t) \ {w}
         /\ Finishing(t)' = IF p = "done" THEN Finishing(t) \union {w} ELSE Finishing(t) \ {w}
         /\ Reporting(t)' = IF p = "report" THEN Reporting(t) \union {w} ELSE Reporting(t) \ {w}
         /\ Holders(t)' = IF p \in {"fetch", "run", "done"} THEN Holders(t) \union {w}
                                                            ELSE Holders(t) \ {w}
  <1>1. TypeOK
    BY DEF IInv, TypeInv
  <1>2. \A S : At(t, S)' = IF p \in S THEN At(t, S) \union {w} ELSE At(t, S) \ {w}
    BY <1>1, WorkerMoves
  <1>3. Fetching(t)' = IF p = "fetch" THEN Fetching(t) \union {w} ELSE Fetching(t) \ {w}
    BY <1>2 DEF Fetching
  <1>4. Running(t)' = IF p = "run" THEN Running(t) \union {w} ELSE Running(t) \ {w}
    BY <1>2 DEF Running
  <1>5. Finishing(t)' = IF p = "done" THEN Finishing(t) \union {w} ELSE Finishing(t) \ {w}
    BY <1>2 DEF Finishing
  <1>6. Reporting(t)' = IF p = "report" THEN Reporting(t) \union {w} ELSE Reporting(t) \ {w}
    BY <1>2 DEF Reporting
  <1>7. Holders(t)' = IF p \in {"fetch", "run", "done"} THEN Holders(t) \union {w}
                                                        ELSE Holders(t) \ {w}
    BY <1>2 DEF Holders
  <1>. QED
    BY <1>3, <1>4, <1>5, <1>6, <1>7

\* In which of its sets a worker is.
LEMMA WhereHeld ==
  ASSUME NEW w \in Workers, NEW t
  PROVE  /\ w \in Fetching(t)  <=> worker[w] = "fetch" /\ task_id[w] = t
         /\ w \in Running(t)   <=> worker[w] = "run" /\ task_id[w] = t
         /\ w \in Finishing(t) <=> worker[w] = "done" /\ task_id[w] = t
         /\ w \in Reporting(t) <=> worker[w] = "report" /\ task_id[w] = t
         /\ w \in Holders(t)   <=> worker[w] \in {"fetch", "run", "done"} /\ task_id[w] = t
  BY DEF Fetching, Running, Finishing, Reporting, Holders, At

\* The size of a set of workers with one more or one less.
LEMMA CountHolders ==
  ASSUME NEW t, NEW w
  PROVE  /\ Cardinality(Holders(t)) \in Nat /\ Cardinality(Fetching(t)) \in Nat
         /\ Cardinality(Holders(t)) <= Slots
         /\ w \notin Holders(t) =>
              Cardinality(Holders(t) \union {w}) = Cardinality(Holders(t)) + 1
         /\ w \in Holders(t) =>
              Cardinality(Holders(t) \ {w}) = Cardinality(Holders(t)) - 1
         /\ w \notin Fetching(t) =>
              Cardinality(Fetching(t) \union {w}) = Cardinality(Fetching(t)) + 1
         /\ w \in Fetching(t) =>
              Cardinality(Fetching(t) \ {w}) = Cardinality(Fetching(t)) - 1
         /\ Cardinality(Holders(t)) = 0 <=> Holders(t) = {}
         /\ Cardinality(Fetching(t)) = 0 <=> Fetching(t) = {}
  <1>1. /\ IsFiniteSet(Holders(t)) /\ Cardinality(Holders(t)) \in Nat
        /\ Cardinality(Holders(t)) <= Slots /\ (Cardinality(Holders(t)) = 0 <=> Holders(t) = {})
    BY WorkersFinite DEF Holders
  <1>2. /\ IsFiniteSet(Fetching(t)) /\ Cardinality(Fetching(t)) \in Nat
        /\ Cardinality(Fetching(t)) <= Slots /\ (Cardinality(Fetching(t)) = 0 <=> Fetching(t) = {})
    BY WorkersFinite DEF Fetching
  <1>3. /\ w \notin Holders(t) =>
             Cardinality(Holders(t) \union {w}) = Cardinality(Holders(t)) + 1
        /\ w \in Holders(t) =>
             Cardinality(Holders(t) \ {w}) = Cardinality(Holders(t)) - 1
    BY <1>1, FS_AddElement, FS_RemoveElement
  <1>4. /\ w \notin Fetching(t) =>
             Cardinality(Fetching(t) \union {w}) = Cardinality(Fetching(t)) + 1
        /\ w \in Fetching(t) =>
             Cardinality(Fetching(t) \ {w}) = Cardinality(Fetching(t)) - 1
    BY <1>2, FS_AddElement, FS_RemoveElement
  <1>. QED
    BY <1>1, <1>2, <1>3, <1>4

\* Program points and ids keep their types.
LEMMA MoveTypes ==
  ASSUME IInv, NEW w \in Workers, NEW t \in Tasks \union {Term},
         NEW p \in {"get", "blocked", "fetch", "run", "done", "report", "exited"},
         Moves(w, t, p), p \in {"fetch", "run", "done", "report"} => t \in Tasks
  PROVE  /\ worker' \in [Workers -> {"get", "blocked", "fetch", "run", "done", "report", "exited"}]
         /\ task_id' \in [Workers -> Tasks \union {Term}]
         /\ \A v \in Workers :
              worker'[v] \in {"fetch", "run", "done", "report"} => task_id'[v] \in Tasks
  <1>1. /\ worker \in [Workers -> {"get", "blocked", "fetch", "run", "done", "report", "exited"}]
        /\ task_id \in [Workers -> Tasks \union {Term}]
        /\ \A v \in Workers :
             worker[v] \in {"fetch", "run", "done", "report"} => task_id[v] \in Tasks
    BY DEF IInv, TypeInv, TypeOK
  <1>2. \A v \in Workers : /\ worker'[v] = IF v = w THEN p ELSE worker[v]
                           /\ task_id'[v] = IF v = w THEN t ELSE task_id[v]
    BY <1>1 DEF Moves
  <1>3. /\ worker' \in [Workers -> {"get", "blocked", "fetch", "run", "done", "report", "exited"}]
        /\ task_id' \in [Workers -> Tasks \union {Term}]
    BY <1>1 DEF Moves
  <1>. QED
    BY <1>1, <1>2, <1>3

\* A splitter's fields have their types.
LEMMA SplitterTypes ==
  ASSUME IInv, NEW t \in Tasks, IsSplit(t)
  PROVE  /\ split_map_[t] \in Splitter
         /\ split_map_[t].pending_ \in Nat /\ split_map_[t].running_ \in Nat
         /\ split_map_[t].next_ \in Nat /\ split_map_[t].tasks_ \in Seq([offset : Nat, count : Nat])
         /\ Len(split_map_[t].tasks_) \in Nat
         /\ SizeMod \in Nat \ {0} /\ Slots \in Nat \ {0} /\ Slots < SizeMod
  <1>1. split_map_[t] \in Splitter
    BY DEF IInv, TypeInv, TypeOK, IsSplit
  <1>2. SizeMod \in Nat \ {0} /\ Slots < SizeMod /\ Slots \in Nat \ {0}
    BY SizeModAssumption, WidthAssumption, WorkersFinite
  <1>. QED
    BY <1>1, <1>2 DEF Splitter

\* The invariant of a split task when its id is assigned to a further worker.
LEMMA AssignSplit ==
  ASSUME IInv, NEW w \in Workers, worker[w] = "get", NEW t \in Tasks, IsSplit(t), InQueue(t),
         Moves(w, t, "fetch"), UNCHANGED <<subtask, doneq_, outstanding, unvisited>>,
         NEW ts, ts = OneTaskAssigned(split_map_[t]),
         IsSplit(t)', split_map_'[t] = ts,
         InQueue(t)' <=> ts.pending_ # 0
  PROVE  TaskInv(t)' /\ ts \in Splitter
  <1>1. PICK s : s = split_map_[t]
    OBVIOUS
  <1>2. /\ s \in Splitter
        /\ s.pending_ \in Nat /\ s.running_ \in Nat /\ s.next_ \in Nat
        /\ s.tasks_ \in Seq([offset : Nat, count : Nat]) /\ Len(s.tasks_) \in Nat
        /\ SizeMod \in Nat \ {0} /\ Slots \in Nat \ {0} /\ Slots < SizeMod
    BY <1>1, SplitterTypes
  <1>3. PlaceInv(t) /\ SegmentsInv(s) /\ CounterInv(t, s) /\ VisitInv(t, s)
    BY <1>1 DEF IInv, TaskInv, SplitInv
  <1>4. /\ Fetching(t)' = Fetching(t) \union {w} /\ Running(t)' = Running(t) \ {w}
        /\ Reporting(t)' = Reporting(t) \ {w} /\ Holders(t)' = Holders(t) \union {w}
    BY HolderMoves
  <1>5. w \notin Fetching(t) /\ w \notin Running(t) /\ w \notin Holders(t)
    BY WhereHeld
  <1>6. /\ Cardinality(Holders(t)) \in Nat /\ Cardinality(Fetching(t)) \in Nat
        /\ Cardinality(Holders(t) \union {w}) = Cardinality(Holders(t)) + 1
        /\ Cardinality(Fetching(t) \union {w}) = Cardinality(Fetching(t)) + 1
    BY <1>5, CountHolders
  <1>7. Cardinality(Holders(t)) + 1 < SizeMod
    <2>1. Holders(t) \union {w} \in SUBSET Workers
      BY DEF Holders, At
    <2>2. Cardinality(Holders(t) \union {w}) <= Slots
      BY <2>1, FS_Subset, QueueAssumption DEF Slots
    <2>. QED
      BY <1>2, <1>6, <2>2
  <1>8. s.pending_ \in 1..(SizeMod - 1)
    <2>1. s.pending_ # 0
      BY <1>3 DEF CounterInv
    <2>2. s.pending_ + Cardinality(Fetching(t)) + s.next_ = Len(s.tasks_)
      BY <1>3 DEF CounterInv
    <2>3. Len(s.tasks_) < SizeMod
      BY <1>2, <1>3 DEF SegmentsInv
    <2>. QED
      BY <1>2, <1>6, <2>1, <2>2, <2>3
  <1>9. Decrement(s.pending_) = s.pending_ - 1 /\ (s.running_ + 1) % SizeMod = s.running_ + 1
    BY <1>2, <1>3, <1>7, <1>8, DecrementExact, IncrementExact DEF CounterInv
  <1>10. ts = [s EXCEPT !.pending_ = s.pending_ - 1, !.running_ = s.running_ + 1]
    BY <1>1, <1>9 DEF OneTaskAssigned
  <1>11. /\ ts.pending_ = s.pending_ - 1 /\ ts.running_ = s.running_ + 1
         /\ ts.next_ = s.next_ /\ ts.tasks_ = s.tasks_ /\ ts \in Splitter
    <2>1. s.pending_ - 1 \in Nat /\ s.running_ + 1 \in Nat
      BY <1>2, <1>8
    <2>. QED
      BY <1>2, <1>10, <2>1 DEF Splitter
  <1>12. PlaceInv(t)'
    <2>1. ~InDoneq(t) /\ Reporting(t) = {} /\ t \in outstanding
      BY <1>3 DEF PlaceInv
    <2>. QED
      BY <1>4, <2>1 DEF PlaceInv, InDoneq
  <1>13. SegmentsInv(ts)
    BY <1>3, <1>11 DEF SegmentsInv
  <1>14. CounterInv(t, ts)'
    <2>1. ts.running_ = Cardinality(Holders(t)')
      BY <1>3, <1>4, <1>6, <1>11 DEF CounterInv
    <2>2. ts.pending_ + Cardinality(Fetching(t)') + ts.next_ = Len(ts.tasks_)
      BY <1>2, <1>3, <1>4, <1>6, <1>11 DEF CounterInv
    <2>3. ~IsComplete(ts)
      BY <1>2, <1>11 DEF IsComplete
    <2>. QED
      BY <2>1, <2>2, <2>3 DEF CounterInv
  <1>15. VisitInv(t, ts)'
    <2>1. Running(t)' = Running(t)
      BY <1>4, <1>5
    <2>2. Unfetched(ts) = Unfetched(s)
      BY <1>11 DEF Unfetched
    <2>3. unvisited'[t] = (UNION {AgentsOf(subtask'[v]) : v \in Running(t)'}) \union Unfetched(ts)
      BY <1>3, <2>1, <2>2 DEF VisitInv
    <2>. QED
      BY <1>3, <1>11, <2>1, <2>3 DEF VisitInv
  <1>16. SplitInv(t, split_map_[t])'
    BY <1>13, <1>14, <1>15 DEF SplitInv
  <1>. QED
    BY <1>11, <1>12, <1>16 DEF TaskInv

\* GetNextTask() preserves the invariant: it takes an id, or one subtask of the id at the
\* front.
LEMMA GetNextTaskStep ==
  ASSUME IInv, NEW w \in Workers, GetNextTask(w)
  PROVE  IInv'
  <1>1. PICK t : t = Head(queue_)
    OBVIOUS
  <1>2. /\ queue_ \in Seq(Tasks \union {Term}) /\ queue_ # <<>> /\ Distinct(queue_)
        /\ worker[w] = "get"
        /\ TypeOK
    BY DEF IInv, TypeInv, TypeOK, GetNextTask
  <1>3. /\ Tail(queue_) \in Seq(Tasks \union {Term}) /\ Distinct(Tail(queue_))
        /\ t \in Tasks \union {Term} /\ t \in Elements(queue_)
        /\ \A x : x # Term => (x \in Elements(Tail(queue_)) <=> x \in Elements(queue_) /\ x # t)
    BY <1>1, <1>2, TakeElements
  <1>4. /\ IF IsSplit(t)
           THEN /\ SetSplitter(t, OneTaskAssigned(split_map_[t]))
                /\ queue_' = IF NonePending(split_map_'[t]) THEN Tail(queue_) ELSE queue_
           ELSE queue_' = Tail(queue_) /\ UNCHANGED split_map_
        /\ UNCHANGED <<splittable_, max_splits_, min_vector_size_, subtask, main, doneq_,
                       outstanding, unvisited>>
    BY <1>1 DEF GetNextTask, confVars, schedVars
  <1>5. Moves(w, t, IF t = Term THEN "exited" ELSE "fetch")
    BY <1>1 DEF GetNextTask, Moves
  <1>6. queue_' \in Seq(Tasks \union {Term}) /\ Distinct(queue_')
    BY <1>2, <1>3, <1>4
  <1>7. /\ worker' \in [Workers -> {"get", "blocked", "fetch", "run", "done", "report", "exited"}]
        /\ task_id' \in [Workers -> Tasks \union {Term}]
        /\ \A v \in Workers :
             worker'[v] \in {"fetch", "run", "done", "report"} => task_id'[v] \in Tasks
    BY <1>3, <1>5, MoveTypes
  <1>8. /\ DOMAIN split_map_' = DOMAIN split_map_
        /\ \A u \in DOMAIN split_map_ : u # t => split_map_'[u] = split_map_[u]
        /\ IsSplit(t) => split_map_'[t] = OneTaskAssigned(split_map_[t])
    BY <1>4 DEF SetSplitter, IsSplit
  <1>9. IsSplit(t) => t \in Tasks
    BY <1>2 DEF IsSplit, TypeOK
  <1>10. ASSUME NEW u \in Tasks, u # t PROVE TaskInv(u)'
    <2>1. InQueue(u)' <=> InQueue(u)
      BY <1>3, <1>4, <1>10, QueueAssumption DEF InQueue
    <2>2. (IsSplit(u)' <=> IsSplit(u)) /\ (IsSplit(u) => split_map_'[u] = split_map_[u])
      BY <1>8, <1>10 DEF IsSplit
    <2>3. InDoneq(u)' <=> InDoneq(u)
      BY <1>4 DEF InDoneq
    <2>. QED
      BY <1>2, <1>4, <1>5, <1>10, <2>1, <2>2, <2>3, OthersUndisturbed
  <1>11. t \in Tasks => TaskInv(t)' /\ (IsSplit(t) => split_map_'[t] \in Splitter)
    <2> SUFFICES ASSUME t \in Tasks
                 PROVE  TaskInv(t)' /\ (IsSplit(t) => split_map_'[t] \in Splitter)
      OBVIOUS
    <2>1. t # Term /\ InQueue(t) /\ Moves(w, t, "fetch")
      BY <1>3, <1>5, QueueAssumption DEF InQueue
    <2>2. CASE IsSplit(t)
      <3>1. PICK ts : ts = OneTaskAssigned(split_map_[t])
        OBVIOUS
      <3>2. IsSplit(t)' /\ split_map_'[t] = ts
        BY <1>8, <2>2, <3>1 DEF IsSplit
      <3>3. InQueue(t)' <=> ts.pending_ # 0
        <4>1. queue_' = IF ts.pending_ = 0 THEN Tail(queue_) ELSE queue_
          BY <1>4, <2>2, <3>2 DEF NonePending
        <4>. QED
          BY <1>3, <2>1, <4>1 DEF InQueue
      <3>. QED
        BY <1>2, <1>4, <2>1, <2>2, <3>1, <3>2, <3>3, AssignSplit
    <2>3. CASE ~IsSplit(t)
      <3>1. ~IsSplit(t)' /\ ~InQueue(t)'
        BY <1>3, <1>4, <2>1, <2>3 DEF IsSplit, InQueue
      <3>2. PlaceInv(t) /\ WholeInv(t)
        BY <2>3 DEF IInv, TaskInv
      <3>3. /\ Holders(t) = {} /\ Reporting(t) = {} /\ ~InDoneq(t) /\ t \in outstanding
            /\ unvisited[t] = AgentsOf(Whole(t))
        BY <2>1, <3>2 DEF PlaceInv, WholeInv
      <3>4. /\ Fetching(t)' = Fetching(t) \union {w} /\ Running(t)' = Running(t) \ {w}
            /\ Finishing(t)' = Finishing(t) \ {w} /\ Reporting(t)' = Reporting(t) \ {w}
            /\ Holders(t)' = Holders(t) \union {w}
        BY <2>1, HolderMoves
      <3>5. /\ Fetching(t)' = {w} /\ Running(t)' = {} /\ Finishing(t)' = {}
            /\ Holders(t)' = {w} /\ Reporting(t)' = {}
        BY <3>3, <3>4, HoldersSplit
      <3>6. PlaceInv(t)'
        BY <1>4, <3>1, <3>3, <3>5 DEF PlaceInv, InDoneq
      <3>7. WholeInv(t)'
        BY <1>4, <3>1, <3>3, <3>5 DEF WholeInv, Whole
      <3>. QED
        BY <2>3, <3>1, <3>6, <3>7 DEF TaskInv
    <2>. QED
      BY <2>2, <2>3
  <1>12. /\ DOMAIN split_map_' \subseteq Tasks
         /\ \A u \in DOMAIN split_map_' : split_map_'[u] \in Splitter
    <2>1. DOMAIN split_map_ \subseteq Tasks /\ \A u \in DOMAIN split_map_ : split_map_[u] \in Splitter
      BY <1>2 DEF TypeOK
    <2>. QED
      BY <1>8, <1>9, <1>11, <2>1 DEF IsSplit
  <1>13. TypeInv'
    BY <1>4, <1>6, <1>7, <1>12 DEF IInv, TypeInv, TypeOK
  <1>. QED
    BY <1>4, <1>6, <1>10, <1>11, <1>13 DEF IInv

\* The invariant of a split task when a worker fetches its next subtask.
LEMMA FetchSplit ==
  ASSUME IInv, NEW w \in Workers, worker[w] = "fetch", NEW t \in Tasks, task_id[w] = t,
         IsSplit(t), Moves(w, t, "run"), UNCHANGED <<queue_, doneq_, outstanding, unvisited>>,
         NEW s, s = split_map_[t], s.next_ < Len(s.tasks_),
         subtask' = [subtask EXCEPT ![w] = s.tasks_[s.next_ + 1]],
         IsSplit(t)', split_map_'[t] = TakeTask(s)
  PROVE  TaskInv(t)' /\ TakeTask(s) \in Splitter
  <1>1. PICK ts : ts = TakeTask(s)
    OBVIOUS
  <1>2. /\ s \in Splitter
        /\ s.pending_ \in Nat /\ s.running_ \in Nat /\ s.next_ \in Nat
        /\ s.tasks_ \in Seq([offset : Nat, count : Nat]) /\ Len(s.tasks_) \in Nat
    BY SplitterTypes
  <1>3. PlaceInv(t) /\ SegmentsInv(s) /\ CounterInv(t, s) /\ VisitInv(t, s)
    BY DEF IInv, TaskInv, SplitInv
  <1>4. /\ Fetching(t)' = Fetching(t) \ {w} /\ Running(t)' = Running(t) \union {w}
        /\ Reporting(t)' = Reporting(t) \ {w} /\ Holders(t)' = Holders(t) \union {w}
    BY HolderMoves
  <1>5. w \in Fetching(t) /\ w \notin Running(t) /\ w \in Holders(t)
    BY WhereHeld
  <1>6. /\ Cardinality(Fetching(t)) \in Nat
        /\ Cardinality(Fetching(t)') = Cardinality(Fetching(t)) - 1
        /\ Holders(t)' = Holders(t)
    <2>1. Cardinality(Fetching(t)) \in Nat
      BY CountHolders
    <2>2. Cardinality(Fetching(t) \ {w}) = Cardinality(Fetching(t)) - 1
      BY <1>5, CountHolders
    <2>. QED
      BY <1>4, <1>5, <2>1, <2>2
  <1>7. /\ ts.pending_ = s.pending_ /\ ts.running_ = s.running_
        /\ ts.next_ = s.next_ + 1 /\ ts.tasks_ = s.tasks_ /\ ts \in Splitter
    <2>1. s.next_ + 1 \in Nat
      BY <1>2
    <2>. QED
      BY <1>1, <1>2, <2>1 DEF Splitter, TakeTask
  <1>8. (InQueue(t)' <=> InQueue(t)) /\ (InDoneq(t)' <=> InDoneq(t))
    BY DEF InQueue, InDoneq
  <1>9. PlaceInv(t)'
    <2>1. ~InDoneq(t) /\ Reporting(t) = {} /\ t \in outstanding
      BY <1>3 DEF PlaceInv
    <2>. QED
      BY <1>4, <1>8, <2>1 DEF PlaceInv
  <1>10. SegmentsInv(ts)
    BY <1>3, <1>7 DEF SegmentsInv
  <1>11. CounterInv(t, ts)'
    <2>1. ts.running_ = Cardinality(Holders(t)')
      BY <1>3, <1>6, <1>7 DEF CounterInv
    <2>2. ts.pending_ + Cardinality(Fetching(t)') + ts.next_ = Len(ts.tasks_)
      <3>1. s.pending_ + Cardinality(Fetching(t)) + s.next_ = Len(s.tasks_)
        BY <1>3 DEF CounterInv
      <3>2. PICK c \in Nat : c = Cardinality(Fetching(t)) /\ Cardinality(Fetching(t)') = c - 1
        BY <1>6
      <3>3. PICK a \in Nat, b \in Nat : a = s.pending_ /\ b = s.next_
        BY <1>2
      <3>4. a + (c - 1) + (b + 1) = a + c + b
        OBVIOUS
      <3>. QED
        BY <1>7, <3>1, <3>2, <3>3, <3>4
    <2>3. ~IsComplete(ts)
      BY <1>3, <1>7 DEF CounterInv, IsComplete
    <2>4. InQueue(t)' <=> ts.pending_ # 0
      BY <1>3, <1>7, <1>8 DEF CounterInv
    <2>. QED
      BY <2>1, <2>2, <2>3, <2>4 DEF CounterInv
  <1>12. VisitInv(t, ts)'
    <2> DEFINE k0 == s.next_ + 1
               n == Len(s.tasks_)
               A == AgentsOf(s.tasks_[k0])
    <2>1. /\ DOMAIN subtask = Workers /\ Running(t) \subseteq Workers
      BY DEF IInv, TypeInv, Running, At
    <2>2. subtask'[w] = s.tasks_[k0] /\ \A v \in Running(t) : subtask'[v] = subtask[v]
      BY <1>5, <2>1
    <2>3. /\ (s.next_ + 1)..n = {k0} \union ((k0 + 1)..n) /\ k0 \in 1..n
          /\ k0 \notin (k0 + 1)..n /\ (k0 + 1)..n \subseteq 1..n
      <3>1. n \in Nat /\ k0 \in Nat /\ 1 <= k0 /\ k0 <= n /\ s.next_ + 1 = k0
        BY <1>2
      <3> HIDE DEF n, k0
      <3>2. k0..n = {k0} \union ((k0 + 1)..n)
        BY <3>1
      <3>3. k0 \in 1..n /\ k0 \notin (k0 + 1)..n /\ (k0 + 1)..n \subseteq 1..n
        BY <3>1
      <3>. QED
        BY <3>1, <3>2, <3>3
    <2>4. Unfetched(s) = A \union Unfetched(ts)
      <3>1. Unfetched(s) = UNION {AgentsOf(s.tasks_[k]) : k \in {k0} \union ((k0 + 1)..n)}
        BY <2>3 DEF Unfetched
      <3>2. Unfetched(ts) = UNION {AgentsOf(s.tasks_[k]) : k \in (k0 + 1)..n}
        BY <1>7 DEF Unfetched
      <3>. QED
        BY <3>1, <3>2
    <2>5. UNION {AgentsOf(subtask'[v]) : v \in Running(t) \union {w}}
            = (UNION {AgentsOf(subtask[v]) : v \in Running(t)}) \union A
      BY <2>2
    <2>6. unvisited'[t] = (UNION {AgentsOf(subtask'[v]) : v \in Running(t)'}) \union Unfetched(ts)
      <3>1. unvisited[t] = (UNION {AgentsOf(subtask[v]) : v \in Running(t)}) \union Unfetched(s)
        BY <1>3 DEF VisitInv
      <3> HIDE DEF A
      <3>. QED
        BY <1>4, <2>4, <2>5, <3>1
    <2>7. \A v \in Running(t) : AgentsOf(subtask[v]) \intersect A = {}
      BY <1>3, <2>3 DEF VisitInv
    <2>8. \A k \in (k0 + 1)..n : A \intersect AgentsOf(s.tasks_[k]) = {}
      BY <1>3, <2>3 DEF SegmentsInv
    <2>9. \A v \in Running(t), k \in (k0 + 1)..n :
            AgentsOf(subtask[v]) \intersect AgentsOf(s.tasks_[k]) = {}
      BY <1>3, <2>3 DEF VisitInv
    <2>10. \A v, x \in Running(t) :
             v # x => AgentsOf(subtask[v]) \intersect AgentsOf(subtask[x]) = {}
      BY <1>3 DEF VisitInv
    <2>11. \A v, x \in Running(t)' :
             v # x => AgentsOf(subtask'[v]) \intersect AgentsOf(subtask'[x]) = {}
      <3> HIDE DEF A, k0
      <3>1. AgentsOf(subtask'[w]) = A
        BY <2>2 DEF A
      <3>. QED
        BY <1>4, <2>2, <2>7, <2>10, <3>1
    <2>12. \A v \in Running(t)', k \in (k0 + 1)..n :
             AgentsOf(subtask'[v]) \intersect AgentsOf(s.tasks_[k]) = {}
      <3> HIDE DEF n, k0
      <3>. QED
        BY <1>4, <2>2, <2>8, <2>9
    <2>. QED
      BY <1>7, <2>6, <2>11, <2>12 DEF VisitInv
  <1>13. SplitInv(t, split_map_[t])'
    BY <1>1, <1>10, <1>11, <1>12 DEF SplitInv
  <1>. QED
    BY <1>1, <1>7, <1>9, <1>13 DEF TaskInv

\* GetTaskById() preserves the invariant: it fetches the task or the next subtask of its
\* splitter.
LEMMA GetTaskByIdStep ==
  ASSUME IInv, NEW w \in Workers, GetTaskById(w)
  PROVE  IInv'
  <1>1. PICK t : t = task_id[w]
    OBVIOUS
  <1>2. /\ TypeOK /\ worker[w] = "fetch" /\ t \in Tasks /\ DOMAIN subtask = Workers
    BY <1>1 DEF IInv, TypeInv, TypeOK, GetTaskById
  <1>3. Moves(w, t, "run")
    BY <1>1 DEF GetTaskById, Moves
  <1>4. UNCHANGED <<queue_, max_splits_, min_vector_size_, task_id, main, doneq_, outstanding,
                    unvisited>>
    BY DEF GetTaskById, confVars, schedVars
  <1>5. /\ DOMAIN split_map_' = DOMAIN split_map_
        /\ \A u \in DOMAIN split_map_ : u # t => split_map_'[u] = split_map_[u]
        /\ IsSplit(t) => /\ split_map_'[t] = TakeTask(split_map_[t])
                         /\ split_map_[t].next_ < Len(split_map_[t].tasks_)
                         /\ subtask' = [subtask EXCEPT
                              ![w] = split_map_[t].tasks_[split_map_[t].next_ + 1]]
        /\ ~IsSplit(t) => subtask' = [subtask EXCEPT ![w] = Whole(t)]
    BY <1>1 DEF GetTaskById, SetSplitter, IsSplit
  <1>6. /\ worker' \in [Workers -> {"get", "blocked", "fetch", "run", "done", "report", "exited"}]
        /\ \A v \in Workers :
             worker'[v] \in {"fetch", "run", "done", "report"} => task_id'[v] \in Tasks
    BY <1>2, <1>3, MoveTypes
  <1>7. DOMAIN subtask' = Workers /\ \A v \in Workers : v # w => subtask'[v] = subtask[v]
    BY <1>2, <1>5
  <1>8. ASSUME NEW u \in Tasks, u # t PROVE TaskInv(u)'
    <2>1. (InQueue(u)' <=> InQueue(u)) /\ (InDoneq(u)' <=> InDoneq(u))
      BY <1>4 DEF InQueue, InDoneq
    <2>2. (IsSplit(u)' <=> IsSplit(u)) /\ (IsSplit(u) => split_map_'[u] = split_map_[u])
      BY <1>5, <1>8 DEF IsSplit
    <2>. QED
      BY <1>1, <1>3, <1>4, <1>7, <1>8, <2>1, <2>2, OthersUndisturbed
  <1>9. TaskInv(t)' /\ (IsSplit(t) => split_map_'[t] \in Splitter)
    <2>1. CASE IsSplit(t)
      <3>1. PICK s : s = split_map_[t]
        OBVIOUS
      <3>2. IsSplit(t)'
        BY <1>5, <2>1 DEF IsSplit
      <3>. QED
        BY <1>1, <1>2, <1>3, <1>4, <1>5, <2>1, <3>1, <3>2, FetchSplit
    <2>2. CASE ~IsSplit(t)
      <3>1. ~IsSplit(t)' /\ (InQueue(t)' <=> InQueue(t)) /\ (InDoneq(t)' <=> InDoneq(t))
        BY <1>4, <1>5, <2>2 DEF IsSplit, InQueue, InDoneq
      <3>2. PlaceInv(t) /\ WholeInv(t)
        BY <1>2, <2>2 DEF IInv, TaskInv
      <3>3. w \in Fetching(t) /\ w \in Holders(t)
        BY <1>1, <1>2, WhereHeld
      <3>4. /\ Holders(t) = {w} /\ Reporting(t) = {} /\ ~InDoneq(t) /\ ~InQueue(t)
            /\ t \in outstanding /\ unvisited[t] = AgentsOf(Whole(t))
        BY <3>2, <3>3 DEF PlaceInv, WholeInv
      <3>5. /\ Fetching(t)' = Fetching(t) \ {w} /\ Running(t)' = Running(t) \union {w}
            /\ Finishing(t)' = Finishing(t) \ {w} /\ Reporting(t)' = Reporting(t) \ {w}
            /\ Holders(t)' = Holders(t) \union {w}
        BY <1>3, HolderMoves
      <3>6. /\ Fetching(t)' = {} /\ Running(t)' = {w} /\ Finishing(t)' = {}
            /\ Holders(t)' = {w} /\ Reporting(t)' = {}
        BY <3>4, <3>5, HoldersSplit
      <3>7. subtask'[w] = Whole(t)
        BY <1>2, <1>5, <2>2
      <3>8. PlaceInv(t)'
        BY <1>4, <3>1, <3>4, <3>6 DEF PlaceInv
      <3>9. WholeInv(t)'
        BY <1>4, <3>1, <3>4, <3>6, <3>7 DEF WholeInv, Whole
      <3>. QED
        BY <2>2, <3>1, <3>8, <3>9 DEF TaskInv
    <2>. QED
      BY <2>1, <2>2
  <1>10. /\ DOMAIN split_map_' \subseteq Tasks
         /\ \A u \in DOMAIN split_map_' : split_map_'[u] \in Splitter
    <2>1. DOMAIN split_map_ \subseteq Tasks /\ \A u \in DOMAIN split_map_ : split_map_[u] \in Splitter
      BY <1>2 DEF TypeOK
    <2>. QED
      BY <1>5, <1>9, <2>1 DEF IsSplit
  <1>11. TypeInv'
    BY <1>4, <1>6, <1>7, <1>10 DEF IInv, TypeInv, TypeOK
  <1>. QED
    BY <1>4, <1>8, <1>9, <1>11 DEF IInv

\* Running a task or a subtask visits its agents, which nobody else runs or has visited.
LEMMA RunStep ==
  ASSUME IInv, NEW w \in Workers, Run(w)
  PROVE  IInv'
  <1>1. PICK t : t = task_id[w]
    OBVIOUS
  <1>2. /\ TypeOK /\ worker[w] = "run" /\ t \in Tasks /\ unvisited \in [Tasks -> SUBSET Nat]
    BY <1>1 DEF IInv, TypeInv, TypeOK, Run
  <1>3. Moves(w, t, "done")
    BY <1>1 DEF Run, Moves
  <1>4. /\ unvisited' = [unvisited EXCEPT ![t] = unvisited[t] \ AgentsOf(subtask[w])]
        /\ UNCHANGED <<queue_, split_map_, max_splits_, min_vector_size_, task_id, subtask, main,
                       doneq_, outstanding>>
    BY <1>1 DEF Run, confVars, schedVars
  <1>5. /\ worker' \in [Workers -> {"get", "blocked", "fetch", "run", "done", "report", "exited"}]
        /\ \A v \in Workers :
             worker'[v] \in {"fetch", "run", "done", "report"} => task_id'[v] \in Tasks
    BY <1>2, <1>3, MoveTypes
  <1>6. TypeInv'
    <2>1. unvisited' \in [Tasks -> SUBSET Nat]
      BY <1>2, <1>4
    <2>. QED
      BY <1>4, <1>5, <2>1 DEF IInv, TypeInv, TypeOK
  <1>7. ASSUME NEW u \in Tasks, u # t PROVE TaskInv(u)'
    <2>1. /\ InQueue(u)' <=> InQueue(u)
          /\ InDoneq(u)' <=> InDoneq(u)
          /\ IsSplit(u)' <=> IsSplit(u)
      BY <1>4 DEF InQueue, InDoneq, IsSplit
    <2>2. unvisited'[u] = unvisited[u]
      BY <1>2, <1>4, <1>7
    <2>. QED
      BY <1>1, <1>3, <1>4, <1>7, <2>1, <2>2, OthersUndisturbed
  <1>8. TaskInv(t)'
    <2>1. /\ InQueue(t)' <=> InQueue(t)
          /\ InDoneq(t)' <=> InDoneq(t)
          /\ IsSplit(t)' <=> IsSplit(t)
      BY <1>4 DEF InQueue, InDoneq, IsSplit
    <2>2. w \in Running(t) /\ w \in Holders(t) /\ w \notin Fetching(t) /\ w \notin Reporting(t)
      BY <1>1, <1>2, WhereHeld
    <2>3. PlaceInv(t)
      BY <1>2 DEF IInv, TaskInv
    <2>4. t \in outstanding /\ ~InDoneq(t) /\ Reporting(t) = {}
      BY <2>2, <2>3 DEF PlaceInv
    <2>5. /\ Fetching(t)' = Fetching(t) \ {w} /\ Running(t)' = Running(t) \ {w}
          /\ Finishing(t)' = Finishing(t) \union {w} /\ Reporting(t)' = Reporting(t) \ {w}
          /\ Holders(t)' = Holders(t) \union {w}
      BY <1>3, HolderMoves
    <2>6. Fetching(t)' = Fetching(t) /\ Holders(t)' = Holders(t) /\ Reporting(t)' = {}
      BY <2>2, <2>4, <2>5
    <2>7. PlaceInv(t)'
      BY <1>4, <2>1, <2>3, <2>4, <2>6 DEF PlaceInv
    <2>8. unvisited'[t] = unvisited[t] \ AgentsOf(subtask[w])
      BY <1>2, <1>4
    <2>9. CASE IsSplit(t)
      <3>1. PICK s : s = split_map_[t]
        OBVIOUS
      <3>2. SegmentsInv(s) /\ CounterInv(t, s) /\ VisitInv(t, s)
        BY <1>2, <2>9, <3>1 DEF IInv, TaskInv, SplitInv
      <3>3. CounterInv(t, s)'
        BY <2>1, <2>6, <3>2 DEF CounterInv
      <3>4. VisitInv(t, s)'
        <4>1. /\ unvisited[t] = (UNION {AgentsOf(subtask[v]) : v \in Running(t)})
                                  \union Unfetched(s)
              /\ \A v \in Running(t) :
                   v # w => AgentsOf(subtask[v]) \intersect AgentsOf(subtask[w]) = {}
              /\ \A k \in (s.next_ + 1)..Len(s.tasks_) :
                   AgentsOf(subtask[w]) \intersect AgentsOf(s.tasks_[k]) = {}
          BY <2>2, <3>2 DEF VisitInv
        <4>2. Unfetched(s) \intersect AgentsOf(subtask[w]) = {}
          BY <4>1 DEF Unfetched
        <4>3. (UNION {AgentsOf(subtask[v]) : v \in Running(t)}) \ AgentsOf(subtask[w])
                = UNION {AgentsOf(subtask[v]) : v \in Running(t) \ {w}}
          BY <2>2, <4>1
        <4>4. unvisited'[t] = (UNION {AgentsOf(subtask'[v]) : v \in Running(t)'})
                                \union Unfetched(s)
          BY <1>4, <2>5, <2>8, <4>1, <4>2, <4>3
        <4>5. /\ \A v, x \in Running(t)' :
                   v # x => AgentsOf(subtask'[v]) \intersect AgentsOf(subtask'[x]) = {}
              /\ \A v \in Running(t)', k \in (s.next_ + 1)..Len(s.tasks_) :
                   AgentsOf(subtask'[v]) \intersect AgentsOf(s.tasks_[k]) = {}
          BY <1>4, <2>5, <3>2 DEF VisitInv
        <4>. QED
          BY <4>4, <4>5 DEF VisitInv
      <3>5. SplitInv(t, split_map_[t])'
        BY <1>4, <3>1, <3>2, <3>3, <3>4 DEF SplitInv
      <3>. QED
        BY <2>1, <2>7, <2>9, <3>5 DEF TaskInv
    <2>10. CASE ~IsSplit(t)
      <3>1. WholeInv(t)
        BY <1>2, <2>10 DEF IInv, TaskInv
      <3>2. /\ Holders(t) = {w} /\ ~InQueue(t)
            /\ AgentsOf(subtask[w]) = unvisited[t]
        BY <2>2, <3>1 DEF WholeInv
      <3>3. Fetching(t)' = {} /\ Running(t)' = {} /\ Holders(t)' = {w}
        BY <2>2, <2>5, <2>6, <3>2, HoldersSplit
      <3>4. unvisited'[t] = {}
        BY <2>8, <3>2
      <3>5. WholeInv(t)'
        BY <2>1, <3>2, <3>3, <3>4 DEF WholeInv
      <3>. QED
        BY <2>1, <2>7, <2>10, <3>5 DEF TaskInv
    <2>. QED
      BY <2>9, <2>10
  <1>. QED
    BY <1>4, <1>6, <1>7, <1>8 DEF IInv

\* One of several subtasks is done: running_ was exact and is so again.
LEMMA DoneExact ==
  ASSUME IInv, NEW w \in Workers, worker[w] = "done", NEW t \in Tasks, task_id[w] = t,
         IsSplit(t), NEW s, s = split_map_[t]
  PROVE  /\ OneTaskDone(s) = [s EXCEPT !.running_ = s.running_ - 1]
         /\ s.running_ - 1 \in Nat
         /\ Cardinality(Holders(t) \ {w}) = s.running_ - 1
  <1>1. /\ s.running_ \in Nat /\ SizeMod \in Nat \ {0} /\ Slots \in Nat \ {0} /\ Slots < SizeMod
    BY SplitterTypes
  <1>2. s.running_ = Cardinality(Holders(t))
    BY DEF IInv, TaskInv, SplitInv, CounterInv
  <1>3. w \in Holders(t)
    BY WhereHeld
  <1>4. /\ Cardinality(Holders(t)) <= Slots /\ Cardinality(Holders(t)) # 0
        /\ Cardinality(Holders(t) \ {w}) = Cardinality(Holders(t)) - 1
    BY <1>3, CountHolders
  <1>5. s.running_ \in 1..(SizeMod - 1)
    BY <1>1, <1>2, <1>4
  <1>6. Decrement(s.running_) = s.running_ - 1
    BY <1>5, DecrementExact
  <1>. QED
    BY <1>1, <1>2, <1>4, <1>5, <1>6 DEF OneTaskDone

\* The end of a subtask that is not the last preserves the invariant.
LEMMA SubtaskDoneStep ==
  ASSUME IInv, NEW w \in Workers, SubtaskDone(w)
  PROVE  IInv'
  <1>1. PICK t : t = task_id[w]
    OBVIOUS
  <1>2. PICK s : s = split_map_[t]
    OBVIOUS
  <1>3. PICK ts : ts = OneTaskDone(s)
    OBVIOUS
  <1>4. /\ TypeOK /\ worker[w] = "done" /\ t \in Tasks /\ IsSplit(t)
        /\ ~IsComplete(ts)
    BY <1>1, <1>2, <1>3 DEF IInv, TypeInv, TypeOK, SubtaskDone
  <1>5. Moves(w, t, "get")
    BY <1>1 DEF SubtaskDone, Moves
  <1>6. UNCHANGED <<queue_, max_splits_, min_vector_size_, task_id, subtask, main, doneq_,
                    outstanding, unvisited>>
    BY DEF SubtaskDone, confVars, schedVars
  <1>7. /\ DOMAIN split_map_' = DOMAIN split_map_
        /\ \A u \in DOMAIN split_map_ : u # t => split_map_'[u] = split_map_[u]
        /\ split_map_'[t] = ts
    BY <1>1, <1>2, <1>3, <1>4 DEF SubtaskDone, SetSplitter, IsSplit
  <1>8. /\ worker' \in [Workers -> {"get", "blocked", "fetch", "run", "done", "report", "exited"}]
        /\ \A v \in Workers :
             worker'[v] \in {"fetch", "run", "done", "report"} => task_id'[v] \in Tasks
    BY <1>4, <1>5, MoveTypes
  <1>9. /\ s \in Splitter /\ SegmentsInv(s) /\ CounterInv(t, s) /\ VisitInv(t, s) /\ PlaceInv(t)
    BY <1>2, <1>4, SplitterTypes DEF IInv, TaskInv, SplitInv
  <1>10. /\ ts = [s EXCEPT !.running_ = s.running_ - 1]
         /\ s.running_ - 1 \in Nat
         /\ Cardinality(Holders(t) \ {w}) = s.running_ - 1
    BY <1>1, <1>2, <1>3, <1>4, DoneExact
  <1>11. /\ ts.pending_ = s.pending_ /\ ts.running_ = s.running_ - 1
         /\ ts.next_ = s.next_ /\ ts.tasks_ = s.tasks_ /\ ts \in Splitter
    BY <1>9, <1>10 DEF Splitter
  <1>12. ASSUME NEW u \in Tasks, u # t PROVE TaskInv(u)'
    <2>1. (InQueue(u)' <=> InQueue(u)) /\ (InDoneq(u)' <=> InDoneq(u))
      BY <1>6 DEF InQueue, InDoneq
    <2>2. (IsSplit(u)' <=> IsSplit(u)) /\ (IsSplit(u) => split_map_'[u] = split_map_[u])
      BY <1>7, <1>12 DEF IsSplit
    <2>. QED
      BY <1>1, <1>5, <1>6, <1>12, <2>1, <2>2, OthersUndisturbed
  <1>13. TaskInv(t)'
    <2>1. IsSplit(t)' /\ (InQueue(t)' <=> InQueue(t)) /\ (InDoneq(t)' <=> InDoneq(t))
      BY <1>4, <1>6, <1>7 DEF IsSplit, InQueue, InDoneq
    <2>2. w \notin Fetching(t) /\ w \notin Running(t)
      BY <1>4, WhereHeld
    <2>3. /\ Fetching(t)' = Fetching(t) \ {w} /\ Running(t)' = Running(t) \ {w}
          /\ Reporting(t)' = Reporting(t) \ {w} /\ Holders(t)' = Holders(t) \ {w}
      BY <1>5, HolderMoves
    <2>4. Fetching(t)' = Fetching(t) /\ Running(t)' = Running(t)
      BY <2>2, <2>3
    <2>5. PlaceInv(t)'
      <3>1. ~InDoneq(t) /\ Reporting(t) = {} /\ t \in outstanding
        BY <1>4, <1>9 DEF PlaceInv
      <3>. QED
        BY <1>6, <2>1, <2>3, <3>1 DEF PlaceInv
    <2>6. SegmentsInv(ts)
      BY <1>9, <1>11 DEF SegmentsInv
    <2>7. CounterInv(t, ts)'
      BY <1>4, <1>9, <1>10, <1>11, <2>1, <2>3, <2>4 DEF CounterInv
    <2>8. VisitInv(t, ts)'
      <3>1. Unfetched(ts) = Unfetched(s)
        BY <1>11 DEF Unfetched
      <3>2. unvisited'[t] = (UNION {AgentsOf(subtask'[v]) : v \in Running(t)'}) \union Unfetched(ts)
        BY <1>6, <1>9, <2>4, <3>1 DEF VisitInv
      <3>. QED
        BY <1>6, <1>9, <1>11, <2>4, <3>2 DEF VisitInv
    <2>9. SplitInv(t, split_map_[t])'
      BY <1>7, <2>6, <2>7, <2>8 DEF SplitInv
    <2>. QED
      BY <2>1, <2>5, <2>9 DEF TaskInv
  <1>14. /\ DOMAIN split_map_' \subseteq Tasks
         /\ \A u \in DOMAIN split_map_' : split_map_'[u] \in Splitter
    BY <1>4, <1>7, <1>11 DEF TypeOK
  <1>15. TypeInv'
    BY <1>6, <1>8, <1>14 DEF IInv, TypeInv, TypeOK
  <1>. QED
    BY <1>6, <1>12, <1>13, <1>15 DEF IInv

\* When TaskDone() finds a task complete, the worker is its last holder and has found
\* every agent visited.
LEMMA CompleteMeansVisited ==
  ASSUME IInv, NEW w \in Workers, worker[w] = "done", NEW t \in Tasks, task_id[w] = t,
         IsSplit(t) => IsComplete(OneTaskDone(split_map_[t]))
  PROVE  /\ Holders(t) = {w} /\ Reporting(t) = {} /\ ~InQueue(t) /\ ~InDoneq(t)
         /\ unvisited[t] = {} /\ t \in outstanding
  <1>1. w \in Finishing(t) /\ w \in Holders(t) /\ w \notin Fetching(t) /\ w \notin Running(t)
    BY WhereHeld
  <1>2. PlaceInv(t)
    BY DEF IInv, TaskInv
  <1>3. Reporting(t) = {} /\ ~InDoneq(t) /\ t \in outstanding
    BY <1>1, <1>2 DEF PlaceInv
  <1>4. CASE IsSplit(t)
    <2>1. PICK s : s = split_map_[t]
      OBVIOUS
    <2>2. /\ s \in Splitter /\ s.pending_ \in Nat /\ s.running_ \in Nat /\ s.next_ \in Nat
          /\ Len(s.tasks_) \in Nat
      BY <1>4, <2>1, SplitterTypes
    <2>3. CounterInv(t, s) /\ VisitInv(t, s)
      BY <1>4, <2>1 DEF IInv, TaskInv, SplitInv
    <2>4. /\ OneTaskDone(s) = [s EXCEPT !.running_ = s.running_ - 1]
          /\ s.running_ - 1 \in Nat
          /\ Cardinality(Holders(t) \ {w}) = s.running_ - 1
      BY <1>4, <2>1, DoneExact
    <2>5. s.running_ - 1 = 0 /\ s.pending_ = 0
      <3>1. IsComplete(OneTaskDone(s))
        BY <1>4, <2>1
      <3>. QED
        BY <2>2, <2>4, <3>1 DEF IsComplete, Splitter
    <2>6. Holders(t) = {w}
      <3>1. IsFiniteSet(Holders(t)) /\ Cardinality(Holders(t) \ {w}) = 0
        BY <2>4, <2>5, WorkersFinite DEF Holders
      <3>2. IsFiniteSet(Holders(t) \ {w})
        BY <3>1, FS_RemoveElement
      <3>3. Holders(t) \ {w} = {}
        BY <3>1, <3>2, FS_EmptySet
      <3>. QED
        BY <1>1, <3>3
    <2>7. ~InQueue(t)
      BY <2>3, <2>5 DEF CounterInv
    <2>8. Fetching(t) = {} /\ Running(t) = {}
      BY <1>1, <2>6, HoldersSplit
    <2>9. s.next_ = Len(s.tasks_)
      <3>1. Cardinality(Fetching(t)) = 0
        BY <2>8, FS_EmptySet
      <3>. QED
        BY <2>2, <2>3, <2>5, <3>1 DEF CounterInv
    <2>10. Unfetched(s) = {}
      <3>1. (s.next_ + 1)..Len(s.tasks_) = {}
        BY <2>2, <2>9
      <3>. QED
        BY <3>1 DEF Unfetched
    <2>11. unvisited[t] = {}
      BY <2>3, <2>8, <2>10 DEF VisitInv
    <2>. QED
      BY <1>3, <2>6, <2>7, <2>11
  <1>5. CASE ~IsSplit(t)
    <2>1. WholeInv(t)
      BY <1>5 DEF IInv, TaskInv
    <2>. QED
      BY <1>1, <1>3, <2>1 DEF WholeInv
  <1>. QED
    BY <1>4, <1>5

\* The end of a task, or of the last subtask of one, preserves the invariant.
LEMMA TaskDoneStep ==
  ASSUME IInv, NEW w \in Workers, TaskDone(w)
  PROVE  IInv'
  <1>1. PICK t : t = task_id[w]
    OBVIOUS
  <1>2. TypeOK /\ worker[w] = "done" /\ t \in Tasks
    BY <1>1 DEF IInv, TypeInv, TypeOK, TaskDone
  <1>3. Moves(w, t, "report")
    BY <1>1 DEF TaskDone, Moves
  <1>4. UNCHANGED <<queue_, max_splits_, min_vector_size_, task_id, subtask, main, doneq_,
                    outstanding, unvisited>>
    BY DEF TaskDone, confVars, schedVars
  <1>5. /\ DOMAIN split_map_' = DOMAIN split_map_ \ {t}
        /\ \A u \in DOMAIN split_map_ : u # t => split_map_'[u] = split_map_[u]
    BY <1>1 DEF TaskDone, Erase
  <1>6. /\ worker' \in [Workers -> {"get", "blocked", "fetch", "run", "done", "report", "exited"}]
        /\ \A v \in Workers :
             worker'[v] \in {"fetch", "run", "done", "report"} => task_id'[v] \in Tasks
    BY <1>2, <1>3, MoveTypes
  <1>7. /\ Holders(t) = {w} /\ Reporting(t) = {} /\ ~InQueue(t) /\ ~InDoneq(t)
        /\ unvisited[t] = {} /\ t \in outstanding
    <2>1. IsSplit(t) => IsComplete(OneTaskDone(split_map_[t]))
      BY <1>1 DEF TaskDone
    <2>. QED
      BY <1>1, <1>2, <2>1, CompleteMeansVisited
  <1>8. ASSUME NEW u \in Tasks, u # t PROVE TaskInv(u)'
    <2>1. (InQueue(u)' <=> InQueue(u)) /\ (InDoneq(u)' <=> InDoneq(u))
      BY <1>4 DEF InQueue, InDoneq
    <2>2. (IsSplit(u)' <=> IsSplit(u)) /\ (IsSplit(u) => split_map_'[u] = split_map_[u])
      BY <1>5, <1>8 DEF IsSplit
    <2>. QED
      BY <1>1, <1>3, <1>4, <1>8, <2>1, <2>2, OthersUndisturbed
  <1>9. TaskInv(t)'
    <2>1. ~IsSplit(t)' /\ ~InQueue(t)' /\ ~InDoneq(t)'
      BY <1>4, <1>5, <1>7 DEF IsSplit, InQueue, InDoneq
    <2>2. /\ Fetching(t)' = Fetching(t) \ {w} /\ Running(t)' = Running(t) \ {w}
          /\ Finishing(t)' = Finishing(t) \ {w} /\ Reporting(t)' = Reporting(t) \union {w}
          /\ Holders(t)' = Holders(t) \ {w}
      BY <1>3, HolderMoves
    <2>3. /\ Holders(t)' = {} /\ Reporting(t)' = {w}
          /\ Fetching(t)' = {} /\ Running(t)' = {} /\ Finishing(t)' = {}
      BY <1>7, <2>2, HoldersSplit
    <2>4. PlaceInv(t)'
      BY <1>4, <1>7, <2>1, <2>3 DEF PlaceInv
    <2>5. WholeInv(t)'
      BY <2>1, <2>3 DEF WholeInv
    <2>. QED
      BY <2>1, <2>4, <2>5 DEF TaskInv
  <1>10. /\ DOMAIN split_map_' \subseteq Tasks
         /\ \A u \in DOMAIN split_map_' : split_map_'[u] \in Splitter
    BY <1>2, <1>5 DEF TypeOK
  <1>11. TypeInv'
    BY <1>4, <1>6, <1>10 DEF IInv, TypeInv, TypeOK
  <1>. QED
    BY <1>4, <1>8, <1>9, <1>11 DEF IInv

\* The callback puts a task into doneq_ that is nowhere else.
LEMMA CallbackStep ==
  ASSUME IInv, NEW w \in Workers, Callback(w)
  PROVE  IInv'
  <1>1. PICK t : t = task_id[w]
    OBVIOUS
  <1>2. /\ TypeOK /\ worker[w] = "report" /\ t \in Tasks /\ doneq_ \in Seq(Tasks)
        /\ Distinct(doneq_)
    BY <1>1 DEF IInv, TypeInv, TypeOK, Callback
  <1>3. Moves(w, t, "get")
    BY <1>1 DEF Callback, Moves
  <1>4. /\ doneq_' = Append(doneq_, t)
        /\ main' = IF main = "waiting" THEN "woken" ELSE main
        /\ UNCHANGED <<queue_, split_map_, max_splits_, min_vector_size_, task_id, subtask,
                       outstanding, unvisited>>
    BY <1>1 DEF Callback, confVars
  <1>5. w \in Reporting(t)
    BY <1>1, <1>2, WhereHeld
  <1>6. PlaceInv(t)
    BY <1>2 DEF IInv, TaskInv
  <1>7. /\ Reporting(t) = {w} /\ Holders(t) = {} /\ ~InQueue(t) /\ ~InDoneq(t) /\ ~IsSplit(t)
        /\ t \in outstanding
    BY <1>5, <1>6 DEF PlaceInv
  <1>8. /\ doneq_' \in Seq(Tasks) /\ Elements(doneq_') = Elements(doneq_) \union {t}
        /\ Distinct(doneq_')
    BY <1>2, <1>4, <1>7, PushElements DEF InDoneq
  <1>9. /\ worker' \in [Workers -> {"get", "blocked", "fetch", "run", "done", "report", "exited"}]
        /\ \A v \in Workers :
             worker'[v] \in {"fetch", "run", "done", "report"} => task_id'[v] \in Tasks
    BY <1>2, <1>3, MoveTypes
  <1>10. ASSUME NEW u \in Tasks, u # t PROVE TaskInv(u)'
    <2>1. /\ InQueue(u)' <=> InQueue(u)
          /\ IsSplit(u)' <=> IsSplit(u)
      BY <1>4 DEF InQueue, IsSplit
    <2>2. InDoneq(u)' <=> InDoneq(u)
      BY <1>8, <1>10 DEF InDoneq
    <2>. QED
      BY <1>1, <1>3, <1>4, <1>10, <2>1, <2>2, OthersUndisturbed
  <1>11. TaskInv(t)'
    <2>1. ~IsSplit(t)' /\ ~InQueue(t)'
      BY <1>4, <1>7 DEF IsSplit, InQueue
    <2>2. /\ Fetching(t)' = Fetching(t) \ {w} /\ Running(t)' = Running(t) \ {w}
          /\ Finishing(t)' = Finishing(t) \ {w} /\ Reporting(t)' = Reporting(t) \ {w}
          /\ Holders(t)' = Holders(t) \ {w}
      BY <1>3, HolderMoves
    <2>3. /\ Holders(t)' = {} /\ Reporting(t)' = {}
          /\ Fetching(t)' = {} /\ Running(t)' = {} /\ Finishing(t)' = {}
      BY <1>7, <2>2, HoldersSplit
    <2>4. PlaceInv(t)'
      BY <1>4, <1>7, <2>1, <2>3 DEF PlaceInv
    <2>5. WholeInv(t)'
      BY <2>1, <2>3 DEF WholeInv
    <2>. QED
      BY <2>1, <2>4, <2>5 DEF TaskInv
  <1>12. TypeInv'
    <2>1. main' \in {"schedule", "waiting", "woken", "drain", "terminate", "destroyed"}
      BY <1>2, <1>4 DEF TypeOK
    <2>. QED
      BY <1>4, <1>8, <1>9, <2>1 DEF IInv, TypeInv, TypeOK
  <1>. QED
    BY <1>4, <1>8, <1>10, <1>11, <1>12 DEF IInv

-----------------------------------------------------------------------------
(***************************************************************************)
(* Theorems.                                                               *)
(***************************************************************************)

LEMMA InitIInv == Init => IInv
  <1> SUFFICES ASSUME Init PROVE IInv
    OBVIOUS
  <1>1. TypeInv
    <2>1. max_splits_ \in 1..(SizeMod - 1)
      <3>1. Slots \in Nat \ {0} /\ Slots < SizeMod /\ SizeMod \in Nat
        BY WorkersFinite, WidthAssumption, SizeModAssumption
      <3>. QED
        BY <3>1 DEF Init
    <2>2. unvisited \in [Tasks -> SUBSET Nat]
      BY DEF Init
    <2>3. /\ worker \in [Workers -> {"get", "blocked", "fetch", "run", "done", "report", "exited"}]
          /\ task_id \in [Workers -> Tasks \union {Term}]
          /\ \A w \in Workers : worker[w] = "get"
      BY DEF Init
    <2>4. queue_ \in Seq(Tasks \union {Term}) /\ doneq_ \in Seq(Tasks) /\ DOMAIN split_map_ = {}
      BY DEF Init
    <2>. QED
      BY <2>1, <2>2, <2>3, <2>4 DEF Init, TypeInv, TypeOK
  <1>2. Distinct(queue_) /\ Distinct(doneq_)
    BY DEF Init, Distinct
  <1>3. ASSUME NEW t \in Tasks PROVE TaskInv(t)
    <2>1. ~InQueue(t) /\ ~InDoneq(t) /\ ~IsSplit(t)
      BY DEF Init, InQueue, InDoneq, IsSplit, Elements
    <2>2. \A S : "get" \notin S => At(t, S) = {}
      BY DEF Init, At
    <2>3. /\ Holders(t) = {} /\ Reporting(t) = {}
          /\ Fetching(t) = {} /\ Running(t) = {} /\ Finishing(t) = {}
      BY <2>2 DEF Holders, Reporting, Fetching, Running, Finishing
    <2>. QED
      BY <2>1, <2>3 DEF TaskInv, PlaceInv, WholeInv
  <1>. QED
    BY <1>1, <1>2, <1>3 DEF IInv

\* Every step of queue, workers and scheduler preserves the invariant.
LEMMA NextIInv ==
  ASSUME IInv, [Next]_vars
  PROVE  IInv'
  <1>1. /\ max_splits_ \in 1..(SizeMod - 1) /\ min_vector_size_ \in MinSizes
        /\ main \in {"schedule", "waiting", "woken", "drain", "terminate", "destroyed"}
    BY DEF IInv, TypeInv, TypeOK
  <1>2. CASE Configure
    <2>1. CASE \E y \in {TypeOf[t] : t \in Tasks} : SetSplittable(y)
      BY <1>1, <2>1, PlacesUnchanged DEF SetSplittable, placeVars, schedVars
    <2>2. CASE \E n \in SplitLimits : SetMaxTasksPerSplit(n)
      <3>1. max_splits_' \in 1..(SizeMod - 1)
        BY <2>2, QueueAssumption, WidthAssumption, SizeModAssumption DEF SetMaxTasksPerSplit
      <3>2. UNCHANGED placeVars /\ UNCHANGED <<min_vector_size_, main>>
        BY <2>2 DEF SetMaxTasksPerSplit, placeVars, schedVars
      <3>. QED
        BY <1>1, <3>1, <3>2, PlacesUnchanged
    <2>3. CASE \E n \in MinSizes : SetMinVectorSize(n)
      <3>1. /\ min_vector_size_' \in MinSizes
            /\ UNCHANGED placeVars /\ UNCHANGED <<max_splits_, main>>
        BY <2>3 DEF SetMinVectorSize, placeVars, schedVars
      <3>. QED
        BY <1>1, <3>1, PlacesUnchanged
    <2>. QED
      BY <1>2, <2>1, <2>2, <2>3 DEF Configure
  <1>3. CASE \E t \in Tasks : Enqueue(t)
    BY <1>3, EnqueueStep
  <1>4. CASE Destroy \/ AwaitDone \/ MainSpuriousWakeup \/ Woken \/ Drained \/ Join \/ UNCHANGED vars
    <2>1. /\ UNCHANGED placeVars /\ UNCHANGED <<max_splits_, min_vector_size_>>
          /\ main' \in {"schedule", "waiting", "woken", "drain", "terminate", "destroyed"}
      BY <1>1, <1>4 DEF Destroy, AwaitDone, MainSpuriousWakeup, Woken, Drained, Join, vars,
         placeVars, confVars, schedVars
    <2>. QED
      BY <1>1, <2>1, PlacesUnchanged
  <1>5. CASE EnqueueTerm
    BY <1>5, EnqueueTermStep
  <1>6. CASE DrainOne
    BY <1>6, DrainOneStep
  <1>7. CASE \E w \in Workers : WorkerStep(w) \/ SpuriousWakeup(w)
    <2> SUFFICES ASSUME NEW w \in Workers, WorkerStep(w) \/ SpuriousWakeup(w) PROVE IInv'
      BY <1>7
    <2>1. CASE GetNextTaskWaits(w)
      BY <2>1, IdleStep DEF GetNextTaskWaits
    <2>2. CASE SpuriousWakeup(w)
      BY <2>2, IdleStep DEF SpuriousWakeup
    <2>3. CASE GetNextTask(w)
      BY <2>3, GetNextTaskStep
    <2>4. CASE GetTaskById(w)
      BY <2>4, GetTaskByIdStep
    <2>5. CASE Run(w)
      BY <2>5, RunStep
    <2>6. CASE SubtaskDone(w)
      BY <2>6, SubtaskDoneStep
    <2>7. CASE TaskDone(w)
      BY <2>7, TaskDoneStep
    <2>8. CASE Callback(w)
      BY <2>8, CallbackStep
    <2>. QED
      BY <2>1, <2>2, <2>3, <2>4, <2>5, <2>6, <2>7, <2>8 DEF WorkerStep
  <1>. QED
    BY <1>2, <1>3, <1>4, <1>5, <1>6, <1>7 DEF Next, MainStep, Destroyed

\* The places, counters and unvisited agents of every task are consistent in every
\* reachable state of the queue.
THEOREM SplittingQueueInductive == Spec => []IInv
  <1>1. IInv /\ [Next]_vars => IInv'
    BY NextIInv
  <1>. QED
    BY <1>1, InitIInv, PTL DEF Spec

\* The counters of every TaskSplitter are exact, although workers take mutex_
\* separately to be assigned an id, to fetch a subtask and to report.
THEOREM SplittersExact == Spec => []SplitterExact
  <1>1. IInv => SplitterExact
    <2> SUFFICES ASSUME IInv PROVE SplitterExact
      OBVIOUS
    <2>1. ASSUME NEW t \in DOMAIN split_map_
          PROVE  /\ t \in outstanding
                 /\ split_map_[t].running_ = Cardinality(At(t, {"fetch", "run", "done"}))
                 /\ split_map_[t].pending_ + Cardinality(At(t, {"fetch"})) + split_map_[t].next_
                      = Len(split_map_[t].tasks_)
                 /\ ~IsComplete(split_map_[t])
      <3>1. t \in Tasks /\ IsSplit(t)
        BY DEF IInv, TypeInv, TypeOK, IsSplit
      <3>2. PlaceInv(t) /\ CounterInv(t, split_map_[t])
        BY <3>1 DEF IInv, TaskInv, SplitInv
      <3>. QED
        BY <3>1, <3>2 DEF PlaceInv, CounterInv, Holders, Fetching
    <2>. QED
      BY <2>1 DEF SplitterExact
  <1>. QED
    BY <1>1, SplittingQueueInductive, PTL

\* No agent is run by two workers at once, and none a second time.
THEOREM AgentsVisitedOnce == Spec => []NoAgentTwice
  <1>1. IInv => NoAgentTwice
    <2> SUFFICES ASSUME IInv PROVE NoAgentTwice
      OBVIOUS
    <2>1. ASSUME NEW w \in Workers, worker[w] = "run"
          PROVE  task_id[w] \in Tasks /\ w \in Running(task_id[w]) /\ w \in Holders(task_id[w])
      BY <2>1, WhereHeld DEF IInv, TypeInv, TypeOK
    <2>2. ASSUME NEW v \in Workers, NEW w \in Workers, v # w, worker[v] = "run",
                 worker[w] = "run", task_id[v] = task_id[w]
          PROVE  AgentsOf(subtask[v]) \intersect AgentsOf(subtask[w]) = {}
      <3>1. PICK t \in Tasks : t = task_id[w] /\ t = task_id[v]
        BY <2>1, <2>2
      <3>2. v \in Running(t) /\ w \in Running(t) /\ v \in Holders(t) /\ w \in Holders(t)
        BY <2>1, <2>2, <3>1
      <3>3. IsSplit(t)
        BY <2>2, <3>2 DEF IInv, TaskInv, WholeInv
      <3>4. VisitInv(t, split_map_[t])
        BY <3>3 DEF IInv, TaskInv, SplitInv
      <3>. QED
        BY <2>2, <3>2, <3>4 DEF VisitInv
    <2>3. ASSUME NEW w \in Workers, worker[w] = "run"
          PROVE  AgentsOf(subtask[w]) \subseteq unvisited[task_id[w]]
      <3>1. PICK t \in Tasks : t = task_id[w]
        BY <2>1, <2>3
      <3>2. w \in Running(t)
        BY <2>1, <2>3, <3>1
      <3>3. CASE IsSplit(t)
        <4>1. VisitInv(t, split_map_[t])
          BY <3>3 DEF IInv, TaskInv, SplitInv
        <4>. QED
          BY <3>1, <3>2, <4>1 DEF VisitInv
      <3>4. CASE ~IsSplit(t)
        BY <3>1, <3>2, <3>4 DEF IInv, TaskInv, WholeInv
      <3>. QED
        BY <3>3, <3>4
    <2>. QED
      BY <2>2, <2>3 DEF NoAgentTwice
  <1>. QED
    BY <1>1, SplittingQueueInductive, PTL

Reported == {doneq_[h] : h \in 1..Len(doneq_)}
Accepted == outstanding \ Reported

\* A step that leaves what the scheduler sees alone is a stutter of TaskQueue.
LEMMA PromiseStutters ==
  ASSUME UNCHANGED <<outstanding, doneq_, unvisited>>
  PROVE  UNCHANGED Promise!vars
  BY DEF Promise!vars

\* Every step of the queue is one of TaskQueue or a stutter.
LEMMA PromiseStep ==
  ASSUME IInv, [Next]_vars
  PROVE  [Promise!Next]_(Promise!vars)
  <1> USE DEF Accepted
  <1>1. TypeOK /\ doneq_ \in Seq(Tasks) /\ Reported = Elements(doneq_)
    BY DEF IInv, TypeInv, TypeOK, Reported, Elements
  <1>2. Reported' = Elements(doneq_')
    BY DEF Reported, Elements
  <1>3. CASE Configure
    <2>1. UNCHANGED <<outstanding, doneq_, unvisited>>
      BY <1>3 DEF Configure, SetSplittable, SetMaxTasksPerSplit, SetMinVectorSize, schedVars
    <2>. QED
      BY <2>1, PromiseStutters
  <1>4. ASSUME NEW t \in Tasks, Enqueue(t) PROVE Promise!Accept(t)
    <2>1. /\ t \notin outstanding /\ outstanding' = outstanding \union {t} /\ UNCHANGED doneq_
          /\ unvisited' = [unvisited EXCEPT ![t] = AgentsOf(Whole(t))]
      BY <1>4 DEF Enqueue
    <2>2. t \notin Reported
      BY <1>1, <2>1 DEF IInv, TaskInv, PlaceInv, InDoneq
    <2>3. UNCHANGED Reported
      BY <2>1 DEF Reported
    <2>4. t \notin Accepted /\ Accepted' = Accepted \union {t}
      BY <2>1, <2>2, <2>3
    <2>5. unvisited' = [unvisited EXCEPT ![t] = [u \in Tasks |-> AgentsOf(Whole(u))][t]]
      BY <2>1
    <2>. QED
      BY <2>4, <2>5 DEF Promise!Accept, Reported
  <1>5. CASE Destroy \/ AwaitDone \/ MainSpuriousWakeup \/ Woken \/ Drained \/ Join
             \/ EnqueueTerm \/ UNCHANGED vars
    <2>1. UNCHANGED <<outstanding, doneq_, unvisited>>
      BY <1>5 DEF Destroy, AwaitDone, MainSpuriousWakeup, Woken, Drained, Join, EnqueueTerm, vars,
         schedVars
    <2>. QED
      BY <2>1, PromiseStutters
  <1>6. CASE DrainOne
    <2>1. doneq_ # <<>> /\ Distinct(doneq_)
      BY <1>6 DEF IInv, DrainOne
    <2>2. PICK t : t = doneq_[Len(doneq_)]
      OBVIOUS
    <2>3. /\ outstanding' = outstanding \ {t} /\ UNCHANGED unvisited
          /\ doneq_' = SubSeq(doneq_, 1, Len(doneq_) - 1)
      BY <1>6, <2>2 DEF DrainOne
    <2>4. t \in Elements(doneq_) /\ Elements(doneq_') = Elements(doneq_) \ {t}
      BY <1>1, <2>1, <2>2, <2>3, DropElements
    <2>5. Accepted' = Accepted
      BY <1>1, <1>2, <2>3, <2>4
    <2>. QED
      BY <2>3, <2>5 DEF Promise!vars, Reported
  <1>7. ASSUME NEW w \in Workers, Run(w) PROVE \E t \in Tasks : Promise!Visit(t)
    <2>1. PICK t : t = task_id[w]
      OBVIOUS
    <2>2. /\ t \in Tasks /\ worker[w] = "run" /\ unvisited \in [Tasks -> SUBSET Nat]
          /\ UNCHANGED <<outstanding, doneq_>>
          /\ unvisited' = [unvisited EXCEPT ![t] = unvisited[t] \ AgentsOf(subtask[w])]
      BY <1>1, <1>7, <2>1 DEF TypeOK, Run, schedVars
    <2>3. w \in Holders(t)
      BY <2>1, <2>2, WhereHeld
    <2>4. t \in Accepted
      BY <1>1, <2>2, <2>3 DEF IInv, TaskInv, PlaceInv, InDoneq
    <2>5. PICK A \in SUBSET unvisited[t] : A = AgentsOf(subtask[w]) \intersect unvisited[t]
      OBVIOUS
    <2>6. unvisited' = [unvisited EXCEPT ![t] = @ \ A]
      <3>1. unvisited[t] \ AgentsOf(subtask[w]) = unvisited[t] \ A
        BY <2>5
      <3>. QED
        BY <2>2, <3>1
    <2>7. UNCHANGED Accepted
      BY <2>2 DEF Reported
    <2>. QED
      BY <2>2, <2>4, <2>5, <2>6, <2>7 DEF Promise!Visit, Reported
  <1>8. ASSUME NEW w \in Workers, Callback(w)
        PROVE  \E t \in Tasks : Promise!Report(t)
    <2>1. PICK t : t = task_id[w]
      OBVIOUS
    <2>2. /\ t \in Tasks /\ worker[w] = "report"
          /\ doneq_' = Append(doneq_, t) /\ UNCHANGED <<outstanding, unvisited>>
      BY <1>1, <1>8, <2>1 DEF TypeOK, Callback
    <2>3. w \in Reporting(t)
      BY <2>1, <2>2, WhereHeld
    <2>4. t \in Accepted /\ unvisited[t] = {}
      BY <1>1, <2>2, <2>3 DEF IInv, TaskInv, PlaceInv, InDoneq
    <2>5. Elements(doneq_') = Elements(doneq_) \union {t}
      BY <1>1, <2>2, PushElements
    <2>6. Accepted' = Accepted \ {t}
      BY <1>1, <1>2, <2>2, <2>5
    <2>. QED
      BY <2>2, <2>4, <2>6 DEF Promise!Report, Reported
  <1>9. ASSUME NEW w \in Workers,
               \/ GetNextTaskWaits(w) \/ GetNextTask(w) \/ GetTaskById(w)
               \/ SubtaskDone(w) \/ TaskDone(w) \/ SpuriousWakeup(w)
        PROVE  UNCHANGED Promise!vars
    <2>1. UNCHANGED <<outstanding, doneq_, unvisited>>
      BY <1>9 DEF GetNextTaskWaits, GetNextTask, GetTaskById, SubtaskDone, TaskDone, SpuriousWakeup,
         schedVars
    <2>. QED
      BY <2>1, PromiseStutters
  <1>10. CASE \E t \in Tasks : Enqueue(t)
    BY <1>4, <1>10 DEF Promise!Next
  <1>11. CASE \E w \in Workers : WorkerStep(w) \/ SpuriousWakeup(w)
    <2> SUFFICES ASSUME NEW w \in Workers, WorkerStep(w) \/ SpuriousWakeup(w)
                 PROVE  [Promise!Next]_(Promise!vars)
      BY <1>11
    <2>1. CASE Run(w)
      BY <1>7, <2>1 DEF Promise!Next
    <2>2. CASE Callback(w)
      BY <1>8, <2>2 DEF Promise!Next
    <2>3. CASE \/ GetNextTaskWaits(w) \/ GetNextTask(w) \/ GetTaskById(w)
               \/ SubtaskDone(w) \/ TaskDone(w) \/ SpuriousWakeup(w)
      BY <1>9, <2>3
    <2>. QED
      BY <2>1, <2>2, <2>3 DEF WorkerStep
  <1>. QED
    BY <1>3, <1>5, <1>6, <1>10, <1>11 DEF Next, MainStep, Destroyed

\* The splitting queue implements module TaskQueue: a task is reported once, and only
\* after every agent of it has been visited.
THEOREM QueueKeepsPromise == Spec => KeepsPromise
  <1>1. Init => Promise!Init
    <2> SUFFICES ASSUME Init PROVE Promise!Init
      OBVIOUS
    <2>1. outstanding \ {doneq_[h] : h \in 1..Len(doneq_)} = {}
      BY DEF Init
    <2>. QED
      BY <2>1 DEF Init, Promise!Init
  <1>2. IInv /\ [Next]_vars => [Promise!Next]_(Promise!vars)
    BY PromiseStep
  <1>. QED
    BY <1>1, <1>2, SplittingQueueInductive, PTL DEF Spec, KeepsPromise, Promise!Spec

-----------------------------------------------------------------------------
(***************************************************************************)
(* Wakeups.  The units of work in the queue are a set of pairs of a        *)
(* position and a number up to the units at that position.                 *)
(***************************************************************************)
Work(f) == UNION {{h} \X (1..f[h]) : h \in DOMAIN f}

UnitsOf == [h \in 1..Len(queue_) |-> Units(h)]

Awake == {w \in Workers : worker[w] = "get"}
Blocked == {w \in Workers : worker[w] = "blocked"}

\* The units of work at one position.
LEMMA RowSize ==
  ASSUME NEW h, NEW m \in Nat
  PROVE  IsFiniteSet({h} \X (1..m)) /\ Cardinality({h} \X (1..m)) = m
  <1>1. IsFiniteSet({h}) /\ Cardinality({h}) = 1
    BY FS_Singleton
  <1>2. IsFiniteSet(1..m) /\ Cardinality(1..m) = m
    BY FS_Interval
  <1>3. /\ IsFiniteSet({h} \X (1..m))
        /\ Cardinality({h} \X (1..m)) = Cardinality({h}) * Cardinality(1..m)
    BY <1>1, <1>2, FS_Product
  <1>. QED
    BY <1>1, <1>2, <1>3

\* A queue holds finitely many units of work.
LEMMA WorkFinite ==
  ASSUME NEW n \in Nat, NEW f \in [1..n -> Nat]
  PROVE  IsFiniteSet(Work(f)) /\ Cardinality(Work(f)) \in Nat
  <1> DEFINE Row(h) == {h} \X (1..f[h])
             Rows == {Row(h) : h \in 1..n}
             g == [h \in 1..n |-> Row(h)]
  <1>1. \A h \in 1..n : IsFiniteSet(Row(h))
    <2> SUFFICES ASSUME NEW h \in 1..n PROVE IsFiniteSet({h} \X (1..f[h]))
      OBVIOUS
    <2>1. f[h] \in Nat
      OBVIOUS
    <2>. QED
      BY <2>1, RowSize
  <1>2. g \in Surjection(1..n, Rows)
    BY DEF Surjection
  <1>3. IsFiniteSet(1..n)
    BY FS_Interval
  <1>4. \A S \in Rows : IsFiniteSet(S)
    BY <1>1
  <1> HIDE DEF g, Rows, Row
  <1>5. IsFiniteSet(Rows)
    BY <1>2, <1>3, FS_Surjection
  <1>6. IsFiniteSet(UNION Rows)
    BY <1>4, <1>5, FS_UNION
  <1>7. Work(f) = UNION Rows
    BY DEF Work, Rows, Row
  <1>. QED
    BY <1>6, <1>7, FS_CardinalityType

\* An id pushed to the queue adds its units.
LEMMA WorkPushed ==
  ASSUME NEW n \in Nat, NEW f \in [1..n -> Nat], NEW m \in Nat,
         NEW g \in [1..(n + 1) -> Nat], g[n + 1] = m, \A h \in 1..n : g[h] = f[h]
  PROVE  Cardinality(Work(g)) = Cardinality(Work(f)) + m
  <1>1. 1..(n + 1) = (1..n) \union {n + 1} /\ n + 1 \notin 1..n
    OBVIOUS
  <1>2. Work(g) = Work(f) \union ({n + 1} \X (1..m))
    <2>1. Work(f) = UNION {{h} \X (1..f[h]) : h \in 1..n}
      BY DEF Work
    <2>2. Work(g) = UNION {{h} \X (1..g[h]) : h \in (1..n) \union {n + 1}}
      BY <1>1 DEF Work
    <2>. QED
      BY <2>1, <2>2
  <1>3. Work(f) \intersect ({n + 1} \X (1..m)) = {}
    BY <1>1 DEF Work
  <1>4. IsFiniteSet(Work(f)) /\ Cardinality(Work(f)) \in Nat
    BY WorkFinite
  <1>5. IsFiniteSet({n + 1} \X (1..m)) /\ Cardinality({n + 1} \X (1..m)) = m
    BY RowSize
  <1>6. Cardinality(Work(g)) = Cardinality(Work(f)) + m - Cardinality({})
    BY <1>2, <1>3, <1>4, <1>5, FS_Union
  <1>. QED
    BY <1>4, <1>6, FS_EmptySet

\* An id popped from the queue takes its units away; the others move up.
LEMMA WorkPopped ==
  ASSUME NEW n \in Nat \ {0}, NEW f \in [1..n -> Nat], NEW g \in [1..(n - 1) -> Nat],
         \A h \in 1..(n - 1) : g[h] = f[h + 1]
  PROVE  Cardinality(Work(f)) = Cardinality(Work(g)) + f[1]
  <1> DEFINE Rest == UNION {{h} \X (1..f[h]) : h \in 2..n}
             First == {1} \X (1..f[1])
             up == [x \in Work(g) |-> <<x[1] + 1, x[2]>>]
  <1>1. 1..n = {1} \union (2..n) /\ 1 \notin 2..n /\ 1 \in 1..n
    OBVIOUS
  <1>2. Work(f) = First \union Rest
    <2>1. Work(f) = UNION {{h} \X (1..f[h]) : h \in {1} \union (2..n)}
      BY <1>1 DEF Work
    <2>. QED
      BY <2>1
  <1>3. First \intersect Rest = {}
    BY <1>1
  <1>4. n - 1 \in Nat
    OBVIOUS
  <1>5. IsFiniteSet(Work(g)) /\ Cardinality(Work(g)) \in Nat
    BY <1>4, WorkFinite
  <1>6. \A x : x \in Work(g) <=> \E h \in 1..(n - 1) : x \in {h} \X (1..f[h + 1])
    BY DEF Work
  <1>7. \A x \in Work(g) : /\ x = <<x[1], x[2]>> /\ x[1] \in 1..(n - 1)
                           /\ x[2] \in 1..f[x[1] + 1]
    BY <1>6
  <1>8. up \in [Work(g) -> Rest]
    <2> SUFFICES ASSUME NEW x \in Work(g) PROVE <<x[1] + 1, x[2]>> \in Rest
      OBVIOUS
    <2>1. x[1] + 1 \in 2..n /\ x[2] \in 1..f[x[1] + 1]
      BY <1>7
    <2>2. <<x[1] + 1, x[2]>> \in {x[1] + 1} \X (1..f[x[1] + 1])
      BY <2>1
    <2>. QED
      BY <2>1, <2>2
  <1>9. \A x, y \in Work(g) : up[x] = up[y] => x = y
    <2> SUFFICES ASSUME NEW x \in Work(g), NEW y \in Work(g),
                        <<x[1] + 1, x[2]>> = <<y[1] + 1, y[2]>>
                 PROVE  x = y
      OBVIOUS
    <2>1. x[1] + 1 = y[1] + 1 /\ x[2] = y[2]
      OBVIOUS
    <2>2. x[1] = y[1]
      BY <1>7, <2>1
    <2>. QED
      BY <1>7, <2>1, <2>2
  <1>10. \A y \in Rest : \E x \in Work(g) : up[x] = y
    <2> SUFFICES ASSUME NEW h \in 2..n, NEW y \in {h} \X (1..f[h])
                 PROVE  \E x \in Work(g) : up[x] = y
      OBVIOUS
    <2>1. h - 1 \in 1..(n - 1) /\ h - 1 + 1 = h
      OBVIOUS
    <2>2. y = <<h, y[2]>> /\ y[2] \in 1..f[h]
      OBVIOUS
    <2>3. <<h - 1, y[2]>> \in Work(g)
      BY <1>6, <2>1, <2>2
    <2>4. up[<<h - 1, y[2]>>] = <<h, y[2]>>
      BY <2>1, <2>3
    <2>. QED
      BY <2>2, <2>3, <2>4
  <1>11. up \in Bijection(Work(g), Rest)
    <2> HIDE DEF up, Rest
    <2>. QED
      BY <1>8, <1>9, <1>10 DEF Bijection, Injection, Surjection, IsInjective
  <1>12. IsFiniteSet(Rest) /\ Cardinality(Rest) = Cardinality(Work(g))
    <2>1. ExistsBijection(Work(g), Rest)
      BY <1>11 DEF ExistsBijection
    <2>. QED
      BY <1>5, <2>1, FS_Bijection
  <1>13. f[1] \in Nat /\ IsFiniteSet(First) /\ Cardinality(First) = f[1]
    BY <1>1, RowSize
  <1> HIDE DEF Rest, First
  <1>14. Cardinality(Work(f)) = Cardinality(First) + Cardinality(Rest) - Cardinality({})
    <2>1. Cardinality(First \union Rest)
            = Cardinality(First) + Cardinality(Rest) - Cardinality(First \intersect Rest)
      BY <1>12, <1>13, FS_Union
    <2>. QED
      BY <1>2, <1>3, <2>1
  <1>. QED
    BY <1>5, <1>12, <1>13, <1>14, FS_EmptySet

\* Assigning one of several units at the front takes one unit away.
LEMMA WorkAssigned ==
  ASSUME NEW n \in Nat \ {0}, NEW f \in [1..n -> Nat], NEW g \in [1..n -> Nat],
         f[1] # 0, g[1] = f[1] - 1, \A h \in 2..n : g[h] = f[h]
  PROVE  Cardinality(Work(g)) = Cardinality(Work(f)) - 1
  <1> DEFINE x == <<1, f[1]>>
  <1>1. 1..n = {1} \union (2..n) /\ 1 \notin 2..n /\ 1 \in 1..n
    OBVIOUS
  <1>2. /\ Work(f) = ({1} \X (1..f[1])) \union UNION {{h} \X (1..f[h]) : h \in 2..n}
        /\ Work(g) = ({1} \X (1..(f[1] - 1))) \union UNION {{h} \X (1..f[h]) : h \in 2..n}
    <2>1. Work(f) = UNION {{h} \X (1..f[h]) : h \in {1} \union (2..n)}
      BY <1>1 DEF Work
    <2>2. Work(g) = UNION {{h} \X (1..g[h]) : h \in {1} \union (2..n)}
      BY <1>1 DEF Work
    <2>. QED
      BY <2>1, <2>2
  <1>3. {1} \X (1..(f[1] - 1)) = ({1} \X (1..f[1])) \ {x}
    <2>1. f[1] \in Nat
      BY <1>1
    <2>2. 1..(f[1] - 1) = (1..f[1]) \ {f[1]}
      BY <2>1
    <2>. QED
      BY <2>2
  <1>4. x \notin UNION {{h} \X (1..f[h]) : h \in 2..n}
    BY <1>1
  <1>5. x \in Work(f)
    <2>1. f[1] \in 1..f[1]
      BY <1>1
    <2>. QED
      BY <1>2, <2>1
  <1>6. Work(g) = Work(f) \ {x}
    BY <1>2, <1>3, <1>4
  <1>7. IsFiniteSet(Work(f))
    BY WorkFinite
  <1> HIDE DEF x
  <1>. QED
    BY <1>5, <1>6, <1>7, FS_RemoveElement

\* The units of work of the queue are naturals, and their set is finite.
LEMMA UnitsTypes ==
  ASSUME IInv
  PROVE  /\ Len(queue_) \in Nat /\ UnitsOf \in [1..Len(queue_) -> Nat]
         /\ Available = Work(UnitsOf)
         /\ Cardinality(Available) \in Nat
  <1>1. Len(queue_) \in Nat
    BY DEF IInv, TypeInv, TypeOK
  <1>2. \A h \in 1..Len(queue_) : Units(h) \in Nat
    BY DEF IInv, TypeInv, TypeOK, Units, IsSplit, Splitter
  <1>3. UnitsOf \in [1..Len(queue_) -> Nat]
    BY <1>2 DEF UnitsOf
  <1>4. Available = Work(UnitsOf)
    BY DEF Available, Work, UnitsOf
  <1>. QED
    BY <1>1, <1>3, <1>4, WorkFinite

\* A set of workers is finite.
LEMMA AwakeFinite ==
  ASSUME NEW S \in SUBSET Workers
  PROVE  IsFiniteSet(S) /\ Cardinality(S) \in Nat
  BY QueueAssumption, FS_Subset, FS_CardinalityType

\* No work comes and no awake worker goes.
LEMMA AwakeFrame ==
  ASSUME IInv, EnoughAwake, Blocked' \subseteq Blocked, Awake \subseteq Awake',
         Available' = Available
  PROVE  EnoughAwake'
  <1>1. Awake' \in SUBSET Workers /\ Awake \in SUBSET Workers
    BY DEF Awake
  <1>2. IsFiniteSet(Awake') /\ Cardinality(Awake') \in Nat /\ Cardinality(Awake) \in Nat
    BY <1>1, AwakeFinite
  <1>3. Cardinality(Awake) <= Cardinality(Awake')
    BY <1>2, FS_Subset
  <1>4. Cardinality(Available) \in Nat
    BY UnitsTypes
  <1>5. Blocked # {} => Cardinality(Awake) >= Cardinality(Available)
    BY DEF EnoughAwake, Blocked, Awake
  <1>6. Blocked' # {} => Cardinality(Awake') >= Cardinality(Available')
    BY <1>2, <1>3, <1>4, <1>5
  <1>. QED
    BY <1>6 DEF EnoughAwake, Blocked, Awake

\* n units of work come with n wakeups.
LEMMA NotifyEnough ==
  ASSUME IInv, EnoughAwake, NEW n \in Nat, Notify(n),
         Cardinality(Available') = Cardinality(Available) + n
  PROVE  EnoughAwake'
  <1>1. PICK W \in SUBSET Blocked :
          /\ Cardinality(W) = IF n < Cardinality(Blocked) THEN n ELSE Cardinality(Blocked)
          /\ worker' = [w \in Workers |-> IF w \in W THEN "get" ELSE worker[w]]
    BY DEF Notify, Blocked
  <1>2. Blocked \in SUBSET Workers /\ W \in SUBSET Workers /\ Awake \in SUBSET Workers
    BY <1>1 DEF Blocked, Awake
  <1>3. /\ IsFiniteSet(Blocked) /\ Cardinality(Blocked) \in Nat
        /\ IsFiniteSet(W) /\ IsFiniteSet(Awake) /\ Cardinality(Awake) \in Nat
    BY <1>2, AwakeFinite
  <1>4. Blocked' = Blocked \ W /\ Awake' = Awake \union W
    BY <1>1, <1>2 DEF Blocked, Awake
  <1>5. ASSUME Blocked' # {}
        PROVE  Cardinality(Awake') >= Cardinality(Available')
    <2>1. W # Blocked
      BY <1>4, <1>5
    <2>2. Cardinality(W) # Cardinality(Blocked)
      BY <1>1, <1>3, <2>1, FS_Subset
    <2>3. Cardinality(W) = n
      BY <1>1, <2>2
    <2>4. Awake \intersect W = {}
      BY <1>1 DEF Awake, Blocked
    <2>5. Cardinality(Awake \union W)
            = Cardinality(Awake) + Cardinality(W) - Cardinality(Awake \intersect W)
      BY <1>3, FS_Union
    <2>6. Cardinality(Awake') = Cardinality(Awake) + n
      BY <1>3, <1>4, <2>3, <2>4, <2>5, FS_EmptySet
    <2>7. Cardinality(Awake) >= Cardinality(Available)
      BY <1>4, <1>5 DEF EnoughAwake, Blocked, Awake
    <2>8. Cardinality(Available) \in Nat
      BY UnitsTypes
    <2>. QED
      BY <1>3, <2>6, <2>7, <2>8
  <1>. QED
    BY <1>5 DEF EnoughAwake, Blocked, Awake

\* The units of work behind one id in the queue.
UnitsFor(x) == IF IsSplit(x) THEN split_map_[x].pending_ ELSE 1

\* The same after a step, with the units of an id named by UnitsFor.
LEMMA UnitsTypesNext ==
  ASSUME IInv'
  PROVE  /\ Len(queue_') \in Nat /\ UnitsOf' \in [1..Len(queue_') -> Nat]
         /\ Available' = Work(UnitsOf')
         /\ \A h \in 1..Len(queue_') : \A x : x = queue_'[h] => UnitsOf'[h] = UnitsFor(x)'
  <1>1. Len(queue_') \in Nat
    BY DEF IInv, TypeInv, TypeOK
  <1>2. \A h \in 1..Len(queue_') : Units(h)' \in Nat
    BY DEF IInv, TypeInv, TypeOK, Units, IsSplit, Splitter
  <1>3. UnitsOf' \in [1..Len(queue_') -> Nat]
    BY <1>2 DEF UnitsOf
  <1>4. Available' = Work(UnitsOf')
    BY DEF Available, Work, UnitsOf
  <1>5. \A h \in 1..Len(queue_') : \A x : x = queue_'[h] => UnitsOf'[h] = UnitsFor(x)'
    BY DEF UnitsOf, Units, UnitsFor, IsSplit
  <1>. QED
    BY <1>1, <1>3, <1>4, <1>5

\* An id pushed to the queue adds its units, if the others keep theirs.
LEMMA PushedUnits ==
  ASSUME IInv, IInv', NEW x \in Tasks \union {Term}, queue_' = Append(queue_, x),
         NEW n \in Nat, UnitsFor(x)' = n,
         \A y \in Elements(queue_) : UnitsFor(y)' = UnitsFor(y)
  PROVE  Cardinality(Available') = Cardinality(Available) + n
  <1>1. queue_ \in Seq(Tasks \union {Term})
    BY DEF IInv, TypeInv, TypeOK
  <1>2. /\ Len(queue_') = Len(queue_) + 1 /\ \A h \in 1..Len(queue_) : queue_'[h] = queue_[h]
        /\ queue_'[Len(queue_) + 1] = x
    BY <1>1, AppendProperties
  <1>3. /\ Len(queue_) \in Nat /\ UnitsOf \in [1..Len(queue_) -> Nat] /\ Available = Work(UnitsOf)
    BY UnitsTypes
  <1>4. /\ UnitsOf' \in [1..(Len(queue_) + 1) -> Nat] /\ Available' = Work(UnitsOf')
    BY <1>2, UnitsTypesNext
  <1>5. ASSUME NEW h \in 1..Len(queue_) PROVE UnitsOf'[h] = UnitsOf[h]
    <2>1. PICK y : y = queue_[h]
      OBVIOUS
    <2>2. h \in 1..Len(queue_') /\ y = queue_'[h] /\ y \in Elements(queue_)
      BY <1>2, <1>3, <2>1 DEF Elements
    <2>3. UnitsOf'[h] = UnitsFor(y)'
      BY <2>2, UnitsTypesNext
    <2>4. UnitsOf[h] = UnitsFor(y)
      BY <2>1 DEF UnitsOf, Units, UnitsFor
    <2>. QED
      BY <2>2, <2>3, <2>4
  <1>6. UnitsOf'[Len(queue_) + 1] = n
    <2>1. Len(queue_) + 1 \in 1..Len(queue_')
      BY <1>2, <1>3
    <2>. QED
      BY <1>2, <2>1, UnitsTypesNext
  <1>7. PICK m, f, g : m \in Nat /\ m = Len(queue_) /\ f = UnitsOf /\ g = UnitsOf'
    BY <1>3
  <1>8. Cardinality(Work(g)) = Cardinality(Work(f)) + n
    BY <1>3, <1>4, <1>5, <1>6, <1>7, WorkPushed
  <1>. QED
    BY <1>3, <1>4, <1>7, <1>8

\* The queue and the units behind its ids are unchanged.
LEMMA SameUnits ==
  ASSUME IInv, queue_' = queue_, \A y \in Elements(queue_) : UnitsFor(y)' = UnitsFor(y)
  PROVE  Available' = Available
  <1>1. ASSUME NEW h \in 1..Len(queue_) PROVE Units(h)' = Units(h)
    <2>1. PICK y : y = queue_[h] /\ y \in Elements(queue_)
      BY DEF Elements
    <2>2. Units(h) = UnitsFor(y) /\ Units(h)' = UnitsFor(y)'
      BY <2>1 DEF Units, UnitsFor, IsSplit
    <2>. QED
      BY <2>1, <2>2
  <1>. QED
    BY <1>1 DEF Available

\* The id at the front is popped with its last unit.
LEMMA PoppedUnits ==
  ASSUME IInv, IInv', queue_ # <<>>, queue_' = Tail(queue_), UnitsFor(Head(queue_)) = 1,
         \A y \in Elements(queue_) :
           (y = Term \/ y # Head(queue_)) => UnitsFor(y)' = UnitsFor(y)
  PROVE  Cardinality(Available') = Cardinality(Available) - 1
  <1>1. queue_ \in Seq(Tasks \union {Term}) /\ Distinct(queue_)
    BY DEF IInv, TypeInv, TypeOK
  <1>2. /\ Len(queue_) \in Nat \ {0} /\ Len(queue_') = Len(queue_) - 1
        /\ \A h \in 1..Len(queue_') : queue_'[h] = queue_[h + 1]
        /\ Head(queue_) = queue_[1]
    BY <1>1, HeadTailProperties, EmptySeq
  <1>3. UnitsOf \in [1..Len(queue_) -> Nat] /\ Available = Work(UnitsOf)
    BY UnitsTypes
  <1>4. /\ UnitsOf' \in [1..(Len(queue_) - 1) -> Nat] /\ Available' = Work(UnitsOf')
    BY <1>2, UnitsTypesNext
  <1>5. UnitsOf[1] = 1
    BY <1>2 DEF UnitsOf, Units, UnitsFor
  <1>6. ASSUME NEW h \in 1..(Len(queue_) - 1) PROVE UnitsOf'[h] = UnitsOf[h + 1]
    <2>1. PICK y : y = queue_[h + 1]
      OBVIOUS
    <2>2. h \in 1..Len(queue_') /\ h + 1 \in 1..Len(queue_) /\ 1 \in 1..Len(queue_) /\ h + 1 # 1
      BY <1>2
    <2>3. y = queue_'[h] /\ y \in Elements(queue_)
      BY <1>2, <2>1, <2>2 DEF Elements
    <2>4. y = Term \/ y # Head(queue_)
      BY <1>1, <1>2, <2>1, <2>2 DEF Distinct
    <2>5. UnitsOf'[h] = UnitsFor(y)'
      BY <2>2, <2>3, UnitsTypesNext
    <2>6. UnitsOf[h + 1] = UnitsFor(y)
      BY <2>1, <2>2 DEF UnitsOf, Units, UnitsFor
    <2>. QED
      BY <2>3, <2>4, <2>5, <2>6
  <1>7. PICK m, f, g : m \in Nat \ {0} /\ m = Len(queue_) /\ f = UnitsOf /\ g = UnitsOf'
    BY <1>2
  <1>8. Cardinality(Work(f)) = Cardinality(Work(g)) + f[1]
    BY <1>3, <1>4, <1>6, <1>7, WorkPopped
  <1>9. Cardinality(Work(g)) \in Nat
    <2>1. m - 1 \in Nat /\ g \in [1..(m - 1) -> Nat]
      BY <1>2, <1>4, <1>7
    <2>. QED
      BY <2>1, WorkFinite
  <1>10. f[1] = 1 /\ Available = Work(f) /\ Available' = Work(g)
    BY <1>3, <1>4, <1>5, <1>7
  <1>. QED
    BY <1>8, <1>9, <1>10

\* One of several units of the id at the front is taken, and the id stays there.
LEMMA AssignedUnits ==
  ASSUME IInv, IInv', queue_ # <<>>, queue_' = queue_, NEW t, t = Head(queue_), t # Term,
         UnitsFor(t) # 0, UnitsFor(t)' = UnitsFor(t) - 1,
         \A y \in Elements(queue_) : y # t => UnitsFor(y)' = UnitsFor(y)
  PROVE  Cardinality(Available') = Cardinality(Available) - 1
  <1>1. queue_ \in Seq(Tasks \union {Term}) /\ Distinct(queue_)
    BY DEF IInv, TypeInv, TypeOK
  <1>2. Len(queue_) \in Nat \ {0} /\ t = queue_[1]
    BY <1>1, HeadTailProperties, EmptySeq
  <1>3. UnitsOf \in [1..Len(queue_) -> Nat] /\ Available = Work(UnitsOf)
    BY UnitsTypes
  <1>4. UnitsOf' \in [1..Len(queue_) -> Nat] /\ Available' = Work(UnitsOf')
    BY UnitsTypesNext
  <1>5. UnitsOf[1] = UnitsFor(t) /\ UnitsOf'[1] = UnitsFor(t)'
    BY <1>2, UnitsTypesNext DEF UnitsOf, Units, UnitsFor
  <1>6. ASSUME NEW h \in 2..Len(queue_) PROVE UnitsOf'[h] = UnitsOf[h]
    <2>1. PICK y : y = queue_[h]
      OBVIOUS
    <2>2. h \in 1..Len(queue_) /\ 1 \in 1..Len(queue_) /\ h # 1
      BY <1>2
    <2>3. y \in Elements(queue_) /\ y # t
      BY <1>1, <1>2, <2>1, <2>2 DEF Elements, Distinct
    <2>4. UnitsOf'[h] = UnitsFor(y)'
      BY <2>1, <2>2, UnitsTypesNext
    <2>5. UnitsOf[h] = UnitsFor(y)
      BY <2>1, <2>2 DEF UnitsOf, Units, UnitsFor
    <2>. QED
      BY <2>3, <2>4, <2>5
  <1>7. PICK m, f, g : m \in Nat \ {0} /\ m = Len(queue_) /\ f = UnitsOf /\ g = UnitsOf'
    BY <1>2
  <1>8. f[1] # 0 /\ g[1] = f[1] - 1 /\ \A h \in 2..m : g[h] = f[h]
    BY <1>5, <1>6, <1>7
  <1>9. Cardinality(Work(g)) = Cardinality(Work(f)) - 1
    BY <1>3, <1>4, <1>7, <1>8, WorkAssigned
  <1>. QED
    BY <1>3, <1>4, <1>7, <1>9

\* A worker that takes a unit of work is no longer awake; nobody falls asleep.
LEMMA TakeEnough ==
  ASSUME IInv, EnoughAwake, NEW w \in Workers, worker[w] = "get",
         NEW p, p \notin {"get", "blocked"}, worker' = [worker EXCEPT ![w] = p],
         Cardinality(Available') = Cardinality(Available) - 1
  PROVE  EnoughAwake'
  <1>1. worker \in [Workers -> {"get", "blocked", "fetch", "run", "done", "report", "exited"}]
    BY DEF IInv, TypeInv, TypeOK
  <1>2. Blocked' = Blocked /\ Awake' = Awake \ {w} /\ w \in Awake
    BY <1>1 DEF Blocked, Awake
  <1>3. Awake \in SUBSET Workers
    BY DEF Awake
  <1>4. IsFiniteSet(Awake) /\ Cardinality(Awake) \in Nat
    BY <1>3, AwakeFinite
  <1>5. Cardinality(Awake') = Cardinality(Awake) - 1
    BY <1>2, <1>4, FS_RemoveElement
  <1>6. Cardinality(Available) \in Nat
    BY UnitsTypes
  <1>7. Blocked # {} => Cardinality(Awake) >= Cardinality(Available)
    BY DEF EnoughAwake, Blocked, Awake
  <1>8. Blocked' # {} => Cardinality(Awake') >= Cardinality(Available')
    BY <1>2, <1>4, <1>5, <1>6, <1>7
  <1>. QED
    BY <1>8 DEF EnoughAwake, Blocked, Awake

\* Enqueue() notifies as many workers as it adds units of work.
LEMMA EnqueueEnough ==
  ASSUME IInv, IInv', EnoughAwake, NEW t \in Tasks, Enqueue(t)
  PROVE  EnoughAwake'
  <1>1. TypeInv /\ PlaceInv(t) /\ queue_' = Append(queue_, t) /\ Notify(WakeupsFor(t))
    BY DEF IInv, TaskInv, Enqueue
  <1>2. ~InQueue(t) /\ ~IsSplit(t)
    BY <1>1 DEF PlaceInv, Enqueue
  <1>3. PICK n : n = WakeupsFor(t)
    OBVIOUS
  <1>4. /\ \A y : y # t => UnitsFor(y)' = UnitsFor(y)
        /\ UnitsFor(t)' = IF CanSplit(t) THEN SplitTask(t).pending_ ELSE 1
    BY <1>2 DEF Enqueue, SetSplitter, UnitsFor, IsSplit
  <1>5. n \in Nat /\ UnitsFor(t)' = n
    <2>1. CASE CanSplit(t)
      <3>1. SplitTask(t) \in Splitter /\ SplitTask(t).pending_ = Len(SplitTask(t).tasks_)
        BY <1>1, <2>1, NewSplitter
      <3>. QED
        BY <1>3, <1>4, <2>1, <3>1 DEF WakeupsFor, Splitter
    <2>2. CASE ~CanSplit(t)
      BY <1>3, <1>4, <2>2 DEF WakeupsFor
    <2>. QED
      BY <2>1, <2>2
  <1>6. Cardinality(Available') = Cardinality(Available) + n
    BY <1>1, <1>2, <1>4, <1>5, PushedUnits DEF InQueue
  <1>. QED
    BY <1>1, <1>3, <1>5, <1>6, NotifyEnough

\* A termination task is one unit of work and one notification.
LEMMA EnqueueTermEnough ==
  ASSUME IInv, IInv', EnoughAwake, EnqueueTerm
  PROVE  EnoughAwake'
  <1>1. queue_' = Append(queue_, Term) /\ Notify(1) /\ split_map_' = split_map_
    BY DEF EnqueueTerm
  <1>2. \A y : UnitsFor(y)' = UnitsFor(y)
    BY <1>1 DEF UnitsFor, IsSplit
  <1>3. UnitsFor(Term)' = 1
    <2>1. Term \notin DOMAIN split_map_
      BY QueueAssumption DEF IInv, TypeInv, TypeOK
    <2>. QED
      BY <1>1, <2>1 DEF UnitsFor, IsSplit, Term
  <1>4. Cardinality(Available') = Cardinality(Available) + 1
    BY <1>1, <1>2, <1>3, PushedUnits
  <1>. QED
    BY <1>1, <1>4, NotifyEnough

\* A worker blocks only on an empty queue, beside which no work is left.
LEMMA GetNextTaskWaitsEnough ==
  ASSUME IInv, EnoughAwake, NEW w \in Workers, GetNextTaskWaits(w)
  PROVE  EnoughAwake'
  <1>1. Available' = {}
    <2>1. 1..Len(queue_') = {}
      BY DEF GetNextTaskWaits
    <2>. QED
      BY <2>1 DEF Available
  <1>2. Cardinality(Available') = 0
    BY <1>1, FS_EmptySet
  <1>3. Awake' \in SUBSET Workers
    BY DEF Awake
  <1>4. Cardinality(Awake') \in Nat
    BY <1>3, AwakeFinite
  <1>. QED
    BY <1>2, <1>4 DEF EnoughAwake, Awake

\* GetNextTask() takes one unit of work, and one worker from those awake.
LEMMA GetNextTaskEnough ==
  ASSUME IInv, IInv', EnoughAwake, NEW w \in Workers, GetNextTask(w)
  PROVE  EnoughAwake'
  <1>1. PICK t : t = Head(queue_)
    OBVIOUS
  <1>2. PICK p : p = IF t = Term THEN "exited" ELSE "fetch"
    OBVIOUS
  <1>3. /\ worker[w] = "get" /\ p \notin {"get", "blocked"}
        /\ worker' = [worker EXCEPT ![w] = p]
        /\ queue_ # <<>> /\ queue_ \in Seq(Tasks \union {Term}) /\ Distinct(queue_)
    BY <1>1, <1>2 DEF GetNextTask, IInv, TypeInv, TypeOK
  <1>4. t \in Elements(queue_)
    BY <1>1, <1>3, TakeElements
  <1>5. Cardinality(Available') = Cardinality(Available) - 1
    <2>1. CASE IsSplit(t)
      <3>1. PICK s : s = split_map_[t]
        OBVIOUS
      <3>2. PICK ts : ts = OneTaskAssigned(s)
        OBVIOUS
      <3>3. /\ DOMAIN split_map_' = DOMAIN split_map_ /\ split_map_'[t] = ts
            /\ \A u \in DOMAIN split_map_ : u # t => split_map_'[u] = split_map_[u]
            /\ queue_' = IF ts.pending_ = 0 THEN Tail(queue_) ELSE queue_
        BY <1>1, <2>1, <3>1, <3>2 DEF GetNextTask, SetSplitter, IsSplit, NonePending
      <3>4. t \in Tasks /\ t # Term
        BY <2>1, QueueAssumption DEF IInv, TypeInv, TypeOK, IsSplit
      <3>5. s \in Splitter /\ s.pending_ \in Nat /\ s.next_ \in Nat /\ Len(s.tasks_) \in Nat
        BY <2>1, <3>1, <3>4, SplitterTypes
      <3>6. s.pending_ \in 1..(SizeMod - 1)
        <4>1. SegmentsInv(s) /\ CounterInv(t, s)
          BY <2>1, <3>1, <3>4 DEF IInv, TaskInv, SplitInv
        <4>2. s.pending_ # 0 /\ s.pending_ + Cardinality(Fetching(t)) + s.next_ = Len(s.tasks_)
          BY <1>4, <4>1 DEF CounterInv, InQueue
        <4>3. Cardinality(Fetching(t)) \in Nat
          BY WorkersFinite DEF Fetching
        <4>4. SizeMod \in Nat \ {0} /\ Len(s.tasks_) <= SizeMod - 1
          BY <4>1, SizeModAssumption DEF SegmentsInv
        <4>. QED
          BY <3>5, <4>2, <4>3, <4>4
      <3>7. ts.pending_ = s.pending_ - 1
        <4>1. Decrement(s.pending_) = s.pending_ - 1
          BY <3>6, DecrementExact
        <4>. QED
          BY <3>2, <3>5, <4>1 DEF OneTaskAssigned, Splitter
      <3>8. /\ UnitsFor(t) = s.pending_ /\ UnitsFor(t)' = ts.pending_
            /\ \A y : y # t => UnitsFor(y)' = UnitsFor(y)
        BY <2>1, <3>1, <3>3 DEF UnitsFor, IsSplit
      <3>9. CASE ts.pending_ = 0
        <4>1. UnitsFor(Head(queue_)) = 1 /\ queue_' = Tail(queue_)
          BY <1>1, <3>3, <3>5, <3>7, <3>8, <3>9
        <4>2. \A y \in Elements(queue_) :
                (y = Term \/ y # Head(queue_)) => UnitsFor(y)' = UnitsFor(y)
          BY <1>1, <3>4, <3>8
        <4>. QED
          BY <1>3, <4>1, <4>2, PoppedUnits
      <3>10. CASE ts.pending_ # 0
        <4>1. queue_' = queue_ /\ UnitsFor(t) # 0 /\ UnitsFor(t)' = UnitsFor(t) - 1
          BY <3>3, <3>6, <3>7, <3>8, <3>10
        <4>. QED
          BY <1>1, <1>3, <3>4, <3>8, <4>1, AssignedUnits
      <3>. QED
        BY <3>9, <3>10
    <2>2. CASE ~IsSplit(t)
      <3>1. queue_' = Tail(queue_) /\ split_map_' = split_map_
        BY <1>1, <2>2 DEF GetNextTask
      <3>2. UnitsFor(Head(queue_)) = 1 /\ \A y : UnitsFor(y)' = UnitsFor(y)
        BY <1>1, <2>2, <3>1 DEF UnitsFor, IsSplit
      <3>. QED
        BY <1>3, <3>1, <3>2, PoppedUnits
    <2>. QED
      BY <2>1, <2>2
  <1>. QED
    BY <1>3, <1>5, TakeEnough

\* A worker that returns to GetNextTask(), or goes on with its task, takes no work.
LEMMA HolderEnough ==
  ASSUME IInv, IInv', EnoughAwake, NEW w \in Workers,
         GetTaskById(w) \/ Run(w) \/ SubtaskDone(w) \/ TaskDone(w) \/ Callback(w)
           \/ SpuriousWakeup(w)
  PROVE  EnoughAwake'
  <1>1. worker \in [Workers -> {"get", "blocked", "fetch", "run", "done", "report", "exited"}]
    BY DEF IInv, TypeInv, TypeOK
  <1>2. Blocked' \subseteq Blocked /\ Awake \subseteq Awake'
    BY <1>1 DEF Blocked, Awake, GetTaskById, Run, SubtaskDone, TaskDone, Callback, SpuriousWakeup
  <1>3. queue_' = queue_
    BY DEF GetTaskById, Run, SubtaskDone, TaskDone, Callback, SpuriousWakeup
  <1>4. \A y \in Elements(queue_) : UnitsFor(y)' = UnitsFor(y)
    <2>1. PICK t : t = task_id[w]
      OBVIOUS
    <2>2. PICK s : s = split_map_[t]
      OBVIOUS
    <2>3. CASE Run(w) \/ Callback(w) \/ SpuriousWakeup(w)
      BY <2>3 DEF Run, Callback, SpuriousWakeup, UnitsFor, IsSplit
    <2>4. CASE GetTaskById(w)
      <3>1. t \in Tasks
        BY <2>1, <2>4 DEF GetTaskById, IInv, TypeInv, TypeOK
      <3>2. CASE IsSplit(t)
        <4>1. TakeTask(s).pending_ = s.pending_
          BY <2>2, <3>1, <3>2, SplitterTypes DEF TakeTask, Splitter
        <4>2. split_map_' = [u \in DOMAIN split_map_ \union {t} |->
                               IF u = t THEN TakeTask(s) ELSE split_map_[u]]
          BY <2>1, <2>2, <2>4, <3>2 DEF GetTaskById, SetSplitter
        <4>. QED
          BY <2>2, <3>2, <4>1, <4>2 DEF UnitsFor, IsSplit
      <3>3. CASE ~IsSplit(t)
        BY <2>1, <2>4, <3>3 DEF GetTaskById, UnitsFor, IsSplit
      <3>. QED
        BY <3>2, <3>3
    <2>5. CASE SubtaskDone(w)
      <3>1. t \in Tasks /\ IsSplit(t) /\ worker[w] = "done"
        BY <2>1, <2>5 DEF SubtaskDone, IInv, TypeInv, TypeOK
      <3>2. OneTaskDone(s).pending_ = s.pending_
        BY <2>2, <3>1, SplitterTypes DEF OneTaskDone, Splitter
      <3>3. split_map_' = [u \in DOMAIN split_map_ \union {t} |->
                             IF u = t THEN OneTaskDone(s) ELSE split_map_[u]]
        BY <2>1, <2>2, <2>5 DEF SubtaskDone, SetSplitter
      <3>. QED
        BY <2>2, <3>1, <3>2, <3>3 DEF UnitsFor, IsSplit
    <2>6. CASE TaskDone(w)
      <3>1. /\ t \in Tasks /\ worker[w] = "done"
            /\ IsSplit(t) => IsComplete(OneTaskDone(split_map_[t]))
        BY <2>1, <2>6 DEF TaskDone, IInv, TypeInv, TypeOK
      <3>2. t \notin Elements(queue_)
        BY <2>1, <3>1, CompleteMeansVisited DEF InQueue
      <3>3. split_map_' = [u \in DOMAIN split_map_ \ {t} |-> split_map_[u]]
        BY <2>1, <2>6 DEF TaskDone, Erase
      <3>. QED
        BY <3>2, <3>3 DEF UnitsFor, IsSplit
    <2>. QED
      BY <2>3, <2>4, <2>5, <2>6
  <1>5. Available' = Available
    BY <1>3, <1>4, SameUnits
  <1>. QED
    BY <1>2, <1>5, AwakeFrame

\* The main thread neither takes work nor puts workers to sleep.
LEMMA MainEnough ==
  ASSUME IInv, EnoughAwake, UNCHANGED <<queue_, split_map_, worker>>
  PROVE  EnoughAwake'
  BY DEF EnoughAwake, Available, Units, IsSplit

\* EnoughAwake: Enqueue() calls notify_one() once per subtask, and a worker takes one
\* subtask each time it passes GetNextTask(), so that no unit of work in queue_ waits
\* for a worker that sleeps, whatever the number of workers and subtasks.
THEOREM WorkersSuffice == Spec => []EnoughAwake
  <1>1. Init => EnoughAwake
    <2> SUFFICES ASSUME Init PROVE EnoughAwake
      OBVIOUS
    <2>. QED
      BY DEF Init, EnoughAwake
  <1>2. IInv /\ IInv' /\ EnoughAwake /\ [Next]_vars => EnoughAwake'
    <2> SUFFICES ASSUME IInv, IInv', EnoughAwake, [Next]_vars PROVE EnoughAwake'
      OBVIOUS
    <2>1. CASE Configure \/ Destroy \/ MainSpuriousWakeup \/ Destroyed \/ UNCHANGED vars
      BY <2>1, MainEnough DEF Configure, SetSplittable, SetMaxTasksPerSplit, SetMinVectorSize,
         Destroy, MainSpuriousWakeup, Destroyed, vars
    <2>2. CASE AwaitDone \/ Woken \/ DrainOne \/ Drained \/ Join
      BY <2>2, MainEnough DEF AwaitDone, Woken, DrainOne, Drained, Join
    <2>3. CASE EnqueueTerm
      BY <2>3, EnqueueTermEnough
    <2>4. ASSUME NEW t \in Tasks, Enqueue(t) PROVE EnoughAwake'
      BY <2>4, EnqueueEnough
    <2>5. ASSUME NEW w \in Workers, WorkerStep(w) \/ SpuriousWakeup(w) PROVE EnoughAwake'
      BY <2>5, GetNextTaskWaitsEnough, GetNextTaskEnough, HolderEnough DEF WorkerStep
    <2>. QED
      BY <2>1, <2>2, <2>3, <2>4, <2>5 DEF Next, MainStep
  <1>. QED
    BY <1>1, <1>2, SplittingQueueInductive, PTL DEF Spec

-----------------------------------------------------------------------------
(***************************************************************************)
(* SplitTask() itself, of module TaskSplitLoop.  That its loop computes    *)
(* the closed form of module TaskSplit holds without further assumptions.  *)
(* That the subtasks are a partition that respects the limits needs that   *)
(* max_tasks * min_task_size does not wrap around.                         *)
(***************************************************************************)

\* The subtasks of the first n turns of the loop.
Prefix(n) == [k \in 1..n |-> [offset |-> SegmentOffset(first, population, num_splits, k - 1),
                              count  |-> SegmentSize(population, num_splits, k - 1)]]

ArgumentsInv ==
  /\ size \in Nat /\ first \in Nat /\ population \in Nat
  /\ first + population <= size
  /\ max_tasks \in Nat \ {0} /\ min_task_size \in Nat \ {0}

\* The loop invariant of SplitTask().
LoopInv ==
  /\ ~TooSmall(population, max_tasks, min_task_size)
  /\ num_splits = NumSplits(population, max_tasks, min_task_size)
  /\ num_splits \in Nat /\ i \in Nat /\ i <= num_splits
  /\ i < num_splits => offset = SegmentOffset(first, population, num_splits, i)
  /\ vec = Prefix(i)

LoopIInv ==
  /\ ArgumentsInv
  /\ pc \in {"start", "null", "loop", "split"}
  /\ pc = "start" => i = 0 /\ vec = <<>>
  /\ pc \in {"loop", "split"} => LoopInv
  /\ pc = "split" => i = num_splits

\* min_task_size * max_tasks does not wrap around; neither does then min_task_size * 2.
Fits == max_tasks * min_task_size < SizeMod

\* The number of subtasks is a natural number.
LEMMA NumSplitsNat ==
  ASSUME NEW p \in Nat, NEW max \in Nat \ {0}, NEW min \in Nat \ {0}
  PROVE  NumSplits(p, max, min) \in Nat
  BY DivMod DEF NumSplits

\* One turn of the loop appends the next segment of the closed form.
LEMMA CreateSubtaskStep ==
  ASSUME ArgumentsInv, LoopInv, pc = "loop", CreateSubtask
  PROVE  LoopInv'
  <1> DEFINE Off(k) == SegmentOffset(first, population, num_splits, k)
             Size(k) == SegmentSize(population, num_splits, k)
             Item(k) == [offset |-> Off(k - 1), count |-> Size(k - 1)]
  <1>1. /\ i \in Nat /\ num_splits \in Nat \ {0} /\ i < num_splits
        /\ first \in Nat /\ population \in Nat
        /\ offset = Off(i) /\ vec = [k \in 1..i |-> Item(k)]
    BY DEF CreateSubtask, LoopInv, ArgumentsInv, Prefix
  <1>2. Off(i + 1) = Off(i) + Size(i)
    BY <1>1, SegmentsAdjacent
  <1>3. /\ i' = i + 1 /\ offset' = offset + Size(i)
        /\ vec' = Append(vec, [offset |-> offset, count |-> Size(i)])
        /\ UNCHANGED <<first, population, max_tasks, min_task_size, num_splits>>
    BY DEF CreateSubtask, args
  <1>4. [offset |-> offset, count |-> Size(i)] = Item(i + 1)
    BY <1>1
  <1> HIDE DEF Off, Size, Item
  <1>5. vec' = Append([k \in 1..i |-> Item(k)], Item(i + 1))
    BY <1>1, <1>3, <1>4
  <1>6. vec' = [k \in 1..(i + 1) |-> Item(k)]
    BY <1>1, <1>5
  <1>7. vec' = Prefix(i)'
    BY <1>3, <1>6 DEF Prefix, Item, Off, Size
  <1>8. offset' = SegmentOffset(first, population, num_splits, i + 1)
    BY <1>1, <1>2, <1>3 DEF Off, Size
  <1>. QED
    BY <1>1, <1>3, <1>7, <1>8 DEF LoopInv

\* The invariant holds in every reachable state of SplitTask().
THEOREM SplitTaskInductive == LoopSpec => []LoopIInv
  <1>1. LoopInit => LoopIInv
    BY BoundsAssumption DEF LoopInit, LoopIInv, ArgumentsInv
  <1>2. LoopIInv /\ [LoopNext]_loopVars => LoopIInv'
    <2> SUFFICES ASSUME LoopIInv, [LoopNext]_loopVars PROVE LoopIInv'
      OBVIOUS
    <2>1. CASE ReturnNull
      BY <2>1 DEF ReturnNull, LoopIInv, ArgumentsInv, args
    <2>2. CASE ChooseSplits
      <3>1. ArgumentsInv'
        BY <2>2 DEF ChooseSplits, LoopIInv, ArgumentsInv, args
      <3>2. num_splits' \in Nat
        BY <2>2, NumSplitsNat DEF ChooseSplits, LoopIInv, ArgumentsInv
      <3>3. i' = 0 /\ vec' = <<>> /\ pc' = "loop"
        BY <2>2 DEF ChooseSplits, LoopIInv
      <3>4. num_splits' # 0 => offset' = SegmentOffset(first', population', num_splits', 0)
        <4>1. first' \in Nat /\ population' \in Nat /\ offset' = first'
          BY <2>2 DEF ChooseSplits, LoopIInv, ArgumentsInv, args
        <4>. QED
          BY <3>2, <4>1, SegmentsAdjacent
      <3>5. vec' = Prefix(i)'
        BY <3>3 DEF Prefix
      <3>6. /\ ~TooSmall(population, max_tasks, min_task_size)'
            /\ (num_splits = NumSplits(population, max_tasks, min_task_size))'
        BY <2>2 DEF ChooseSplits, args
      <3>7. LoopInv'
        BY <3>2, <3>3, <3>4, <3>5, <3>6 DEF LoopInv
      <3>. QED
        BY <3>1, <3>3, <3>7 DEF LoopIInv
    <2>3. CASE CreateSubtask
      <3>1. LoopInv'
        BY <2>3, CreateSubtaskStep DEF LoopIInv, CreateSubtask
      <3>2. ArgumentsInv' /\ pc' = "loop"
        BY <2>3 DEF CreateSubtask, LoopIInv, ArgumentsInv, args
      <3>. QED
        BY <3>1, <3>2 DEF LoopIInv
    <2>4. CASE ReturnSplitter
      <3>1. ArgumentsInv' /\ LoopInv' /\ pc' = "split"
        BY <2>4 DEF ReturnSplitter, LoopIInv, ArgumentsInv, LoopInv, Prefix, args
      <3>2. i' = num_splits'
        BY <2>4 DEF ReturnSplitter, LoopIInv, LoopInv, args
      <3>. QED
        BY <3>1, <3>2 DEF LoopIInv
    <2>5. CASE UNCHANGED loopVars
      BY <2>5 DEF loopVars, LoopIInv, ArgumentsInv, LoopInv, Prefix
    <2>. QED
      BY <2>1, <2>2, <2>3, <2>4, <2>5 DEF LoopNext, Done
  <1>. QED
    BY <1>1, <1>2, PTL DEF LoopSpec

\* When SplitTask() returns a splitter, its subtasks are the segments of module
\* TaskSplit, on which the model of the splitting queue relies.
THEOREM LoopAlwaysComputesSegments == LoopSpec => []LoopComputesSegments
  <1>1. LoopIInv => LoopComputesSegments
    BY DEF LoopIInv, LoopInv, LoopComputesSegments, Prefix, Segments
  <1>. QED
    BY <1>1, SplitTaskInductive, PTL

\* What LoopIInv says of a returned splitter whose limits do not overflow.
LEMMA SplitterReturned ==
  ASSUME LoopIInv, Fits, pc = "split"
  PROVE  /\ vec = Segments(first, population, num_splits)
         /\ first \in Nat /\ population \in Nat /\ num_splits \in Nat \ {0}
         /\ num_splits \in 2..max_tasks /\ num_splits <= population
         /\ num_splits * min_task_size <= population
         /\ Len(vec) = num_splits
  <1>1. vec = Segments(first, population, num_splits)
    BY DEF LoopIInv, LoopInv, Prefix, Segments
  <1>2. /\ num_splits \in 2..max_tasks
        /\ num_splits * min_task_size <= population
        /\ num_splits <= population
    BY SplitCount DEF LoopIInv, ArgumentsInv, LoopInv, Fits
  <1>3. first \in Nat /\ population \in Nat /\ max_tasks \in Nat
    BY DEF LoopIInv, ArgumentsInv
  <1>4. num_splits \in Nat \ {0}
    BY <1>2, <1>3
  <1>5. Len(vec) = num_splits
    BY <1>1, <1>3, <1>4, SegmentsPartition DEF Partitions
  <1>. QED
    BY <1>1, <1>2, <1>3, <1>4, <1>5

\* Every agent of the task is visited by exactly one subtask, and the constructor of
\* MemoryIterator throws for none of them.
THEOREM SplitIsPartition == LoopSpec => [](Fits => SubtasksPartition)
  <1>1. LoopIInv => (Fits => SubtasksPartition)
    <2> SUFFICES ASSUME LoopIInv, Fits, pc = "split"
                 PROVE  /\ UNION {AgentsOf(vec[k]) : k \in 1..Len(vec)}
                             = first .. (first + population - 1)
                        /\ \A k, l \in 1..Len(vec) :
                             k # l => AgentsOf(vec[k]) \intersect AgentsOf(vec[l]) = {}
                        /\ \A k \in 1..Len(vec) : IteratorAccepts(vec[k], size)
      BY DEF SubtasksPartition
    <2>1. /\ vec = Segments(first, population, num_splits)
          /\ first \in Nat /\ population \in Nat /\ num_splits \in Nat \ {0}
          /\ num_splits <= population /\ Len(vec) = num_splits
      BY SplitterReturned
    <2>2. size \in Nat /\ first + population <= size
      BY DEF LoopIInv, ArgumentsInv
    <2>3. Partitions(vec, first, population, num_splits)
      BY <2>1, SegmentsPartition
    <2>4. ASSUME NEW k \in 1..num_splits PROVE IteratorAccepts(vec[k], size)
      <3>1. vec[k] \in Segment
        BY <2>3 DEF Partitions
      <3>2. vec[k].offset \in Nat /\ vec[k].count \in Nat
        BY <3>1 DEF Segment
      <3>3. vec[k].offset + vec[k].count <= first + population /\ vec[k].count # 0
        BY <2>1, <2>3 DEF Partitions
      <3>. QED
        BY <2>1, <2>2, <3>2, <3>3 DEF IteratorAccepts
    <2>. QED
      BY <2>1, <2>3, <2>4 DEF Partitions
  <1>. QED
    BY <1>1, SplitTaskInductive, PTL

\* There are at least two and at most max_tasks subtasks, none smaller than
\* min_task_size, and their sizes differ by one agent at most.
THEOREM SplitRespectsLimits == LoopSpec => [](Fits => SizesRespected)
  <1>1. LoopIInv => (Fits => SizesRespected)
    <2> SUFFICES ASSUME LoopIInv, Fits, pc = "split"
                 PROVE  /\ Len(vec) \in 2..max_tasks
                        /\ \A k \in 1..Len(vec) : vec[k].count >= min_task_size
                        /\ \A k, l \in 1..Len(vec) : vec[k].count <= vec[l].count + 1
      BY DEF SizesRespected
    <2> DEFINE b == population \div num_splits
               r == population % num_splits
    <2>1. /\ vec = Segments(first, population, num_splits)
          /\ population \in Nat /\ num_splits \in Nat \ {0}
          /\ num_splits \in 2..max_tasks
          /\ num_splits * min_task_size <= population
          /\ Len(vec) = num_splits
      BY SplitterReturned
    <2>2. b \in Nat /\ r \in 0..num_splits - 1 /\ population = num_splits * b + r
      BY <2>1, DivMod
    <2>3. min_task_size \in Nat
      BY DEF LoopIInv, ArgumentsInv
    <2>4. \A k \in 1..num_splits : vec[k].count = b + (IF k - 1 < r THEN 1 ELSE 0)
      BY <2>1 DEF Segments, SegmentSize
    <2> HIDE DEF b, r
    <2>5. min_task_size <= b
      <3>1. ASSUME b + 1 <= min_task_size PROVE FALSE
        <4>1. (b + 1) * num_splits <= min_task_size * num_splits
          BY <2>1, <2>2, <2>3, <3>1, ProductMonotonic
        <4>2. (b + 1) * num_splits = num_splits * b + num_splits
          BY <2>1, <2>2
        <4>3. min_task_size * num_splits = num_splits * min_task_size
          BY <2>1, <2>3
        <4>4. num_splits * b \in Nat /\ num_splits * min_task_size \in Nat
          BY <2>1, <2>2, <2>3
        <4>. QED
          BY <2>1, <2>2, <4>1, <4>2, <4>3, <4>4
      <3>. QED
        BY <2>2, <2>3, <3>1
    <2>6. \A k \in 1..num_splits : vec[k].count = b \/ vec[k].count = b + 1
      BY <2>2, <2>4
    <2>. QED
      BY <2>1, <2>2, <2>3, <2>5, <2>6
  <1>. QED
    BY <1>1, SplitTaskInductive, PTL

=============================================================================
