------------------------------- MODULE JobQueue -------------------------------
(***************************************************************************)
(* The scheduler's priority queue (scheduler/job-queue.ts): a binary heap  *)
(* of jobs.  Interactive jobs come before batch jobs, then the larger      *)
(* priority value, then the earlier insertion.                             *)
(***************************************************************************)
EXTENDS Integers, Sequences, FiniteSets

CONSTANTS
    Job,
    Interactive,    \* the jobs of class INTERACTIVE, the others are BATCH
    PriorityValue   \* priority.value of each job

ASSUME PriorityAssumption ==
    /\ Interactive \subseteq Job
    /\ PriorityValue \in [Job -> Int]

HeapEntry == [job: Job, seq: Nat]

\* Entries with the same job compare by seq only, so this order is total.
HigherPriority(a, b) ==
    LET aFirst == a.job \in Interactive
        bFirst == b.job \in Interactive
    IN IF aFirst # bFirst THEN aFirst
       ELSE IF PriorityValue[a.job] # PriorityValue[b.job]
            THEN PriorityValue[a.job] > PriorityValue[b.job]
       ELSE a.seq < b.seq

Entries(heap) == {heap[i] : i \in DOMAIN heap}

Queued(heap) == {e.job : e \in Entries(heap)}

\* The counter of insertions matters only through the order of the entries, so it
\* is counted from the entries that are there.
NextSeq(heap) == Len(heap)

Renumbered(heap) ==
    [i \in DOMAIN heap |->
        [heap[i] EXCEPT !.seq = Cardinality({e \in Entries(heap) : e.seq < heap[i].seq})]]

\* What a loop that goes from a place to the next, as f says, reaches from i.
Reached(f, i) ==
    {k \in DOMAIN f : \A S \in SUBSET DOMAIN f :
        i \in S /\ (\A m \in S : f[m] \in S) => k \in S}

\* The places from n up to the root.
PathUp(n) == Reached([i \in 1..n |-> IF i = 1 THEN 1 ELSE i \div 2], n)

\* The places that the last entry leaves on its way up: it has priority over the
\* parent of each place down from there.
Passed(heap) ==
    LET n == Len(heap) IN
    {p \in PathUp(n) : \A k \in PathUp(n) :
        k >= p => k > 1 /\ HigherPriority(heap[n], heap[k \div 2])}

\* siftUp: each of these places gets its parent's entry, the last of them gives its
\* parent's place to the entry that rises.
SiftUp(heap) ==
    LET n == Len(heap)
        passed == Passed(heap)
    IN [i \in 1..n |->
           IF i \in passed THEN heap[i \div 2]
           ELSE IF i = n \/ \E p \in passed : p \div 2 = i THEN heap[n]
           ELSE heap[i]]

Enqueue(heap, job) == SiftUp(Append(heap, [job |-> job, seq |-> NextSeq(heap)]))

\* Faulty: only the left child is looked at.
LeftOf(heap, i) ==
    IF 2 * i <= Len(heap) /\ HigherPriority(heap[2 * i], heap[1]) THEN 2 * i ELSE i

\* The child of i that siftDown would swap the entry from the top with, or i.
BestOf(heap, i) ==
    LET n == Len(heap)
        left == IF 2 * i <= n /\ HigherPriority(heap[2 * i], heap[1]) THEN 2 * i ELSE i
        best == IF left = i THEN heap[1] ELSE heap[left]
    IN IF 2 * i + 1 <= n /\ HigherPriority(heap[2 * i + 1], best)
       THEN 2 * i + 1 ELSE left

\* siftDown of the entry on the top: each place it leaves gets the child's entry.
SiftDown(heap) ==
    LET best == [i \in DOMAIN heap |-> BestOf(heap, i)]
        way == Reached(best, 1)
    IN [i \in DOMAIN heap |->
           IF i \notin way THEN heap[i]
           ELSE IF best[i] = i THEN heap[1]
           ELSE heap[best[i]]]

\* The rest after dequeue(); what it returns is heap[1].job.
Dequeued(heap) ==
    LET n == Len(heap)
        rest == [i \in 1..n - 1 |-> IF i = 1 THEN heap[n] ELSE heap[i]]
    IN IF n <= 1 THEN << >> ELSE Renumbered(SiftDown(rest))

\* What the heap is for: the first entry is the one to take.
FirstIsHighest(heap) ==
    \A i \in DOMAIN heap : i # 1 => HigherPriority(heap[1], heap[i])
=============================================================================
