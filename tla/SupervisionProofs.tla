------------------------- MODULE SupervisionProofs -------------------------
(***************************************************************************)
(* Theorems about what supervises a step: the management agent, whose      *)
(* decisions are attributed to their hooks; the worker side of the Core,   *)
(* whose locks, processes and results are accounted for; and the sentinel, *)
(* whose verdicts rest on grounds of their own.                            *)
(***************************************************************************)
EXTENDS Sentinel, Management, Workers, FiniteSetTheorems, SequenceTheorems, TLAPS

-----------------------------------------------------------------------------
(* Workers.  Queues in which nobody waits twice.                           *)

Waits(x, q) == \E i \in DOMAIN q : q[i] = x
Distinct(q) == \A i, k \in DOMAIN q : q[i] = q[k] => i = k

LEMMA QueueTail ==
    ASSUME NEW q \in Seq(Task), q # <<>>, Distinct(q)
    PROVE  /\ Head(q) \in Task /\ Waits(Head(q), q)
           /\ Tail(q) \in Seq(Task) /\ Distinct(Tail(q))
           /\ \A x : Waits(x, Tail(q)) <=> Waits(x, q) /\ x # Head(q)
<1>1. /\ Len(q) \in Nat \ {0} /\ DOMAIN q = 1..Len(q) /\ Head(q) = q[1]
      /\ Tail(q) \in Seq(Task) /\ DOMAIN Tail(q) = 1..(Len(q) - 1)
      /\ \A i \in 1..(Len(q) - 1) : Tail(q)[i] = q[i + 1] /\ i + 1 \in 1..Len(q)
  OBVIOUS
<1>2. Distinct(Tail(q))
  <2> SUFFICES ASSUME NEW i \in 1..(Len(q) - 1), NEW k \in 1..(Len(q) - 1), q[i + 1] = q[k + 1] PROVE i = k
    BY <1>1 DEF Distinct
  <2>1. i + 1 = k + 1
    BY <1>1 DEF Distinct
  <2> QED
    BY <2>1
<1>3. ASSUME NEW x, Waits(x, Tail(q)) PROVE Waits(x, q) /\ x # Head(q)
  <2>1. PICK i \in 1..(Len(q) - 1) : q[i + 1] = x
    BY <1>1, <1>3 DEF Waits
  <2>2. i + 1 \in DOMAIN q /\ i + 1 # 1 /\ 1 \in DOMAIN q
    BY <1>1
  <2> QED
    BY <1>1, <2>1, <2>2 DEF Waits, Distinct
<1>4. ASSUME NEW x, Waits(x, q), x # Head(q) PROVE Waits(x, Tail(q))
  <2>1. PICK i \in 1..Len(q) : q[i] = x
    BY <1>1, <1>4 DEF Waits
  <2>2. i - 1 \in 1..(Len(q) - 1) /\ (i - 1) + 1 = i
    BY <1>1, <1>4, <2>1
  <2> QED
    BY <1>1, <2>1, <2>2 DEF Waits
<1>5. Head(q) \in Task /\ Waits(Head(q), q)
  BY <1>1 DEF Waits
<1> QED
  BY <1>1, <1>2, <1>3, <1>4, <1>5

LEMMA QueueAppend ==
    ASSUME NEW q \in Seq(Task), NEW t \in Task, Distinct(q), ~Waits(t, q)
    PROVE  /\ Append(q, t) \in Seq(Task) /\ Distinct(Append(q, t))
           /\ \A x : Waits(x, Append(q, t)) <=> Waits(x, q) \/ x = t
<1>1. /\ Len(q) \in Nat /\ DOMAIN q = 1..Len(q) /\ Append(q, t) \in Seq(Task)
      /\ DOMAIN Append(q, t) = 1..(Len(q) + 1) /\ Append(q, t)[Len(q) + 1] = t
      /\ \A i \in 1..Len(q) : Append(q, t)[i] = q[i]
  OBVIOUS
<1>2. \A i : i \in 1..(Len(q) + 1) <=> i \in 1..Len(q) \/ i = Len(q) + 1
  BY <1>1
<1>3. \A x : Waits(x, Append(q, t)) <=> Waits(x, q) \/ x = t
  BY <1>1, <1>2 DEF Waits
<1>4. Distinct(Append(q, t))
  BY <1>1, <1>2 DEF Distinct, Waits
<1> QED
  BY <1>1, <1>3, <1>4

LEMMA QueueSplice ==
    ASSUME NEW q \in Seq(Task), Distinct(q), NEW n \in DOMAIN q
    PROVE  LET s == SubSeq(q, 1, n - 1) \o SubSeq(q, n + 1, Len(q)) IN
           /\ s \in Seq(Task) /\ Distinct(s)
           /\ \A x : Waits(x, s) <=> Waits(x, q) /\ x # q[n]
<1> DEFINE a == SubSeq(q, 1, n - 1)
           b == SubSeq(q, n + 1, Len(q))
           s == a \o b
<1>1. Len(q) \in Nat /\ DOMAIN q = 1..Len(q) /\ n \in 1..Len(q)
  OBVIOUS
<1>2. a \in Seq(Task) /\ Len(a) = n - 1 /\ \A i \in 1..(n - 1) : a[i] = q[i]
  BY <1>1
<1>3. b \in Seq(Task) /\ Len(b) = Len(q) - n /\ \A i \in 1..(Len(q) - n) : b[i] = q[n + i]
  BY <1>1
<1> HIDE DEF a, b
<1>4. /\ s \in Seq(Task) /\ Len(s) = Len(a) + Len(b) /\ DOMAIN s = 1..Len(s)
      /\ \A i \in 1..(Len(a) + Len(b)) : s[i] = IF i <= Len(a) THEN a[i] ELSE b[i - Len(a)]
  <2>1. s \in Seq(Task)
    BY <1>2, <1>3, ConcatProperties
  <2>2. DOMAIN s = 1..Len(s)
    BY <2>1
  <2> QED
    BY <1>2, <1>3, <2>1, <2>2, ConcatProperties
<1> HIDE DEF s
<1>5. /\ s \in Seq(Task) /\ DOMAIN s = 1..(Len(q) - 1)
      /\ \A i \in 1..(n - 1) : s[i] = a[i]
      /\ \A i \in n..(Len(q) - 1) : s[i] = b[i - (n - 1)]
  <2>1. \A i \in 1..(n - 1) : i \in 1..(Len(a) + Len(b)) /\ i <= Len(a)
    BY <1>1, <1>2, <1>3
  <2>2. \A i \in n..(Len(q) - 1) : i \in 1..(Len(a) + Len(b)) /\ ~(i <= Len(a)) /\ i - Len(a) = i - (n - 1)
    BY <1>1, <1>2, <1>3
  <2>3. n - 1 + (Len(q) - n) = Len(q) - 1
    BY <1>1
  <2>4. s \in Seq(Task) /\ DOMAIN s = 1..(Len(q) - 1)
    BY <1>2, <1>3, <1>4, <2>3
  <2> QED
    BY <1>4, <2>1, <2>2, <2>4
<1>6. \A i \in 1..(Len(q) - 1) : s[i] = IF i < n THEN q[i] ELSE q[i + 1]
  <2> SUFFICES ASSUME NEW i \in 1..(Len(q) - 1) PROVE s[i] = IF i < n THEN q[i] ELSE q[i + 1]
    OBVIOUS
  <2>1. CASE i < n
    <3>1. i \in 1..(n - 1)
      BY <1>1, <2>1
    <3> QED
      BY <1>2, <1>5, <2>1, <3>1
  <2>2. CASE ~(i < n)
    <3>1. i \in n..(Len(q) - 1) /\ i - (n - 1) \in 1..(Len(q) - n) /\ n + (i - (n - 1)) = i + 1
      BY <1>1, <2>2
    <3> QED
      BY <1>3, <1>5, <2>2, <3>1
  <2> QED
    BY <2>1, <2>2
<1>7. Distinct(s)
  <2> SUFFICES ASSUME NEW i \in 1..(Len(q) - 1), NEW k \in 1..(Len(q) - 1), s[i] = s[k] PROVE i = k
    BY <1>5 DEF Distinct
  <2>1. (IF i < n THEN i ELSE i + 1) = (IF k < n THEN k ELSE k + 1)
    <3>1. \A j \in 1..(Len(q) - 1) : j \in 1..Len(q) /\ j + 1 \in 1..Len(q)
      BY <1>1
    <3> QED
      BY <1>1, <1>6, <3>1 DEF Distinct
  <2> QED
    BY <1>1, <2>1
<1>8. ASSUME NEW x, Waits(x, s) PROVE Waits(x, q) /\ x # q[n]
  <2>1. PICK i \in 1..(Len(q) - 1) : s[i] = x
    BY <1>5, <1>8 DEF Waits
  <2>2. PICK k \in 1..Len(q) : k # n /\ q[k] = x
    BY <1>1, <1>6, <2>1
  <2> QED
    BY <1>1, <2>2 DEF Waits, Distinct
<1>9. ASSUME NEW x, Waits(x, q), x # q[n] PROVE Waits(x, s)
  <2>1. PICK k \in 1..Len(q) : q[k] = x /\ k # n
    BY <1>1, <1>9 DEF Waits
  <2>2. CASE k < n
    <3>1. k \in 1..(Len(q) - 1)
      BY <1>1, <2>2
    <3> QED
      BY <1>5, <1>6, <2>1, <2>2, <3>1 DEF Waits
  <2>3. CASE ~(k < n)
    <3>1. k - 1 \in 1..(Len(q) - 1) /\ ~(k - 1 < n) /\ (k - 1) + 1 = k
      BY <1>1, <2>1, <2>3
    <3> QED
      BY <1>5, <1>6, <2>1, <3>1 DEF Waits
  <2> QED
    BY <2>2, <2>3
<1> QED
  BY <1>5, <1>7, <1>8, <1>9 DEF s, a, b

-----------------------------------------------------------------------------
(* The inductive invariant of the workers: whoever holds a lock is at work *)
(* in its workspace, whoever queues for one waits for it, and what a task  *)
(* has of a process, a handle and a result goes with the await it is in.   *)

Holding == {"granted", "cancelling", "running", "draining"}

LockSound(w) ==
    /\ lock[w] # None => /\ lock[w].holder \in DOMAIN plan
                         /\ plan[lock[w].holder].workspace = w
                         /\ at[lock[w].holder] \in Holding
    /\ lock[w] = None => waiters[w] = <<>>
    /\ Distinct(waiters[w])
    /\ \A x \in Task : Waits(x, waiters[w]) =>
          at[x] = "locking" /\ x \in DOMAIN plan /\ plan[x].workspace = w

\* A process that a delegation leaves is over, or survived SIGKILL.
Gone(t) == proc[t] = "alive" => shut[t] = "stuck"

\* A shutdown that has begun is not taken back, nor is a process tracked again.
ShutKept(t) == (shut[t] # "none" => shut'[t] # "none") /\ (shut[t] = "stuck" => shut'[t] = "stuck")

TaskSound(t) ==
    /\ at[t] # "idle" => t \in DOMAIN plan
    /\ at[t] = "locking" => plan[t].workspace \in Workspace
    /\ at[t] \in {"idle", "locking", "granted"} => proc[t] = "none"
    /\ at[t] = "cancelling" => shut[t] # "none"
    /\ at[t] = "draining" => proc[t] # "alive"
    /\ at[t] = "done" => Gone(t)
    /\ t \in active => at[t] \in {"cancelling", "running", "draining"}
    /\ result[t] = "succeeded" =>
         at[t] \in {"draining", "done"} /\ proc[t] = "zero" /\ (~Streams(t) => got[t] = out[t])
    /\ throttle[t].pending => throttle[t].timer

WorkersIInv ==
    WorkersTypeOK /\ (\A w \in Workspace : LockSound(w)) /\ \A t \in Task : TaskSound(t)

LEMMA PlanFacts ==
    ASSUME WorkersTypeOK, NEW t \in DOMAIN plan
    PROVE  /\ t \in Task /\ plan[t].mode \in {"batch", "stream", "direct"}
           /\ plan[t].workspace \in Workspace \cup {None} /\ plan[t].chunks \in 0..MaxChunks
BY WorkersAssumption DEF WorkersTypeOK, Plan

LEMMA LockFacts ==
    ASSUME WorkersTypeOK, NEW w \in Workspace
    PROVE  /\ lock[w] # None => lock[w].holder \in Task /\ lock[w].expired \in BOOLEAN
           /\ waiters[w] \in Seq(Task)
           /\ waiters[w] = <<>> \/ NextWaiter(w) \in Task
           /\ NextWaiter(w) = None <=> waiters[w] = <<>>
<1>1. waiters[w] \in Seq(Task) /\ lock[w] \in Lock \cup {None}
  BY DEF WorkersTypeOK
<1>2. waiters[w] # <<>> => Head(waiters[w]) \in Task
  BY <1>1
<1> QED
  BY <1>1, <1>2, WorkersAssumption DEF NextWaiter, Lock

LEMMA HeldFacts ==
    ASSUME NEW t \in Task
    PROVE  Held(t) \in Lock /\ Held(t).holder = t /\ Held(t) # None
<1>1. Held(t) \in Lock /\ Held(t).holder = t
  BY DEF Held, Lock
<1> QED
  BY <1>1, NoLock

\* A step that leaves the locks and the queues alone, and starts or ends no
\* task's wait or hold, leaves them sound.
LEMMA LocksKept ==
    ASSUME NEW w \in Workspace, WorkersTypeOK, LockSound(w), plan' = plan,
           waiters' = waiters, lock' = lock,
           \A x \in Task : at[x] = "locking" => at'[x] = "locking",
           \A x \in Task : at[x] \in Holding => at'[x] \in Holding
    PROVE  LockSound(w)'
<1>1. lock[w] # None => lock[w].holder \in Task
  BY LockFacts
<1> QED
  BY <1>1 DEF LockSound

LEMMA NotifiedSound ==
    ASSUME NEW w \in Workspace, WorkersTypeOK, LockSound(w)
    PROVE  /\ Notified(w) \in [Workspace -> Seq(Task)]
           /\ \A v \in Workspace : v # w => Notified(w)[v] = waiters[v]
           /\ Distinct(Notified(w)[w])
           /\ NextWaiter(w) = None => Notified(w)[w] = <<>>
           /\ \A x : Waits(x, Notified(w)[w]) <=> Waits(x, waiters[w]) /\ x # NextWaiter(w)
           /\ NextWaiter(w) # None => Waits(NextWaiter(w), waiters[w])
<1>1. waiters \in [Workspace -> Seq(Task)] /\ waiters[w] \in Seq(Task) /\ Distinct(waiters[w])
  BY DEF WorkersTypeOK, LockSound
<1>2. CASE waiters[w] = <<>>
  <2>1. NextWaiter(w) = None /\ Notified(w) = waiters
    BY <1>2 DEF NextWaiter, Notified
  <2>2. \A x : ~Waits(x, waiters[w])
    BY <1>2 DEF Waits
  <2> QED
    BY <1>1, <1>2, <2>1, <2>2
<1>3. CASE waiters[w] # <<>>
  <2>1. NextWaiter(w) = Head(waiters[w]) /\ NextWaiter(w) # None
    BY <1>3, LockFacts DEF NextWaiter
  <2>2. Notified(w) = [waiters EXCEPT ![w] = Tail(waiters[w])]
    BY <2>1 DEF Notified
  <2>3. Tail(waiters[w]) \in Seq(Task) /\ Distinct(Tail(waiters[w])) /\ Waits(Head(waiters[w]), waiters[w])
        /\ \A x : Waits(x, Tail(waiters[w])) <=> Waits(x, waiters[w]) /\ x # Head(waiters[w])
    BY <1>1, <1>3, QueueTail
  <2>4. Notified(w)[w] = Tail(waiters[w]) /\ \A v \in Workspace : v # w => Notified(w)[v] = waiters[v]
    BY <1>1, <2>2
  <2>5. Notified(w) \in [Workspace -> Seq(Task)]
    BY <1>1, <2>2, <2>3
  <2> QED
    BY <2>1, <2>3, <2>4, <2>5
<1> QED
  BY <1>2, <1>3

\* The delegation of t settles: its lock, if it has it, goes to the first waiter.
LEMMA SettleSound ==
    ASSUME NEW t \in Task, WorkersIInv, at[t] \in Holding, Settle(t), plan' = plan
    PROVE  /\ at' \in [Task -> {"idle", "locking", "granted", "cancelling", "running", "draining", "done"}]
           /\ lock' \in [Workspace -> Lock \cup {None}] /\ waiters' \in [Workspace -> Seq(Task)]
           /\ \A w \in Workspace : LockSound(w)'
           /\ at'[t] = "done"
           /\ \A x \in Task : x # t => at'[x] = at[x] \/ (at[x] = "locking" /\ at'[x] = "granted")
<1> DEFINE w == plan[t].workspace
           releases == w # None /\ Holds(t, w)
           next == IF releases THEN NextWaiter(w) ELSE None
<1>1. WorkersTypeOK /\ (\A v \in Workspace : LockSound(v)) /\ TaskSound(t)
  BY DEF WorkersIInv
<1>2. t \in DOMAIN plan /\ w \in Workspace \cup {None}
  <2>1. t \in DOMAIN plan
    BY <1>1 DEF TaskSound, Gone, Holding
  <2> QED
    BY <1>1, <2>1, PlanFacts
<1>3. at' = [x \in Task |-> IF x = t THEN "done" ELSE IF x = next THEN "granted" ELSE at[x]]
  BY DEF Settle
<1>4. at[t] # "locking" /\ at \in [Task -> {"idle", "locking", "granted", "cancelling", "running", "draining", "done"}]
  BY <1>1 DEF WorkersTypeOK, Holding
<1>5. CASE ~releases
  <2>1. next = None /\ lock' = lock /\ waiters' = waiters
    BY <1>5 DEF Settle
  <2>2. \A x \in Task : x # t => at'[x] = at[x]
    BY <1>3, <2>1, WorkersAssumption
  <2>3. at'[t] = "done" /\ at' \in [Task -> {"idle", "locking", "granted", "cancelling", "running", "draining", "done"}]
    <3> HIDE DEF next
    <3> QED
      BY <1>3, <1>4
  <2>4. ASSUME NEW v \in Workspace PROVE LockSound(v)'
    <3>1. LockSound(v) /\ (lock[v] # None => lock[v].holder \in Task)
      BY <1>1, LockFacts
    <3>2. lock[v] # None => lock[v].holder # t
      BY <1>5, <3>1, WorkersAssumption DEF LockSound, Holds
    <3> QED
      BY <1>4, <2>1, <2>2, <3>1, <3>2 DEF LockSound
  <2> QED
    BY <1>1, <2>1, <2>2, <2>3, <2>4 DEF WorkersTypeOK
<1>6. CASE releases
  <2>1. w \in Workspace /\ lock[w] # None /\ lock[w].holder = t /\ next = NextWaiter(w)
    BY <1>2, <1>6 DEF Holds
  <2>2. /\ lock' = [lock EXCEPT ![w] = IF next = None THEN None ELSE Held(next)]
        /\ waiters' = Notified(w)
    BY <1>6 DEF Settle
  <2> HIDE DEF w, next
  <2>3. /\ Notified(w) \in [Workspace -> Seq(Task)]
        /\ \A v \in Workspace : v # w => Notified(w)[v] = waiters[v]
        /\ Distinct(Notified(w)[w])
        /\ next = None => Notified(w)[w] = <<>>
        /\ \A x : Waits(x, Notified(w)[w]) <=> Waits(x, waiters[w]) /\ x # next
        /\ next # None => Waits(next, waiters[w])
    BY <1>1, <2>1, NotifiedSound
  <2>4. next # None => next \in Task
    BY <1>1, <2>1, LockFacts
  <2>5. next # None => at[next] = "locking" /\ next \in DOMAIN plan /\ plan[next].workspace = w /\ next # t
    BY <1>1, <1>4, <2>1, <2>3, <2>4 DEF LockSound
  <2>6. lock' \in [Workspace -> Lock \cup {None}] /\ lock'[w] = IF next = None THEN None ELSE Held(next)
    BY <1>1, <2>1, <2>2, <2>4, HeldFacts DEF WorkersTypeOK
  <2>7. \A v \in Workspace : v # w => lock'[v] = lock[v]
    BY <1>1, <2>2 DEF WorkersTypeOK
  <2>8. /\ at'[t] = "done" /\ at' \in [Task -> {"idle", "locking", "granted", "cancelling", "running", "draining", "done"}]
        /\ \A x \in Task : x # t => at'[x] = IF x = next THEN "granted" ELSE at[x]
    BY <1>3, <1>4
  <2>9. LockSound(w)'
    <3>1. lock'[w] # None => /\ lock'[w].holder \in DOMAIN plan /\ plan[lock'[w].holder].workspace = w
                            /\ at'[lock'[w].holder] \in Holding
      BY <2>4, <2>5, <2>6, <2>8, HeldFacts DEF Holding
    <3>2. lock'[w] = None => waiters'[w] = <<>>
      BY <2>2, <2>3, <2>4, <2>6, HeldFacts
    <3>3. ASSUME NEW x \in Task, Waits(x, waiters'[w])
          PROVE  at'[x] = "locking" /\ x \in DOMAIN plan /\ plan[x].workspace = w
      <4>1. Waits(x, waiters[w]) /\ x # next
        BY <2>2, <2>3, <3>3
      <4>2. at[x] = "locking" /\ x \in DOMAIN plan /\ plan[x].workspace = w
        BY <1>1, <2>1, <4>1 DEF LockSound
      <4> QED
        BY <1>4, <2>8, <4>1, <4>2
    <3>4. w' = w
      BY DEF w
    <3> QED
      BY <2>2, <2>3, <3>1, <3>2, <3>3, <3>4 DEF LockSound
  <2>10. ASSUME NEW v \in Workspace, v # w PROVE LockSound(v)'
    <3>1. LockSound(v) /\ (lock[v] # None => lock[v].holder \in Task)
      BY <1>1, LockFacts
    <3>2. lock'[v] = lock[v] /\ waiters'[v] = waiters[v]
      BY <2>2, <2>3, <2>7, <2>10
    <3>3. plan[t].workspace = w
      BY DEF w
    <3>4. lock[v] # None => at'[lock[v].holder] \in Holding
      BY <2>8, <2>10, <3>1, <3>3 DEF LockSound, Holding
    <3>5. ASSUME NEW x \in Task, Waits(x, waiters[v])
          PROVE  at'[x] = "locking" /\ x \in DOMAIN plan /\ plan[x].workspace = v
      <4>1. at[x] = "locking" /\ x \in DOMAIN plan /\ plan[x].workspace = v
        BY <3>1, <3>5 DEF LockSound
      <4>2. x # t /\ x # next
        BY <1>4, <2>5, <2>10, <4>1, WorkersAssumption
      <4> QED
        BY <2>8, <4>1, <4>2
    <3> QED
      BY <3>1, <3>2, <3>4, <3>5 DEF LockSound
  <2>11. \A x \in Task : x # t => at'[x] = at[x] \/ (at[x] = "locking" /\ at'[x] = "granted")
    BY <2>4, <2>5, <2>8, WorkersAssumption
  <2>12. \A v \in Workspace : LockSound(v)'
    <3>1. w' = w
      BY DEF w
    <3> QED
      BY <2>9, <2>10, <3>1
  <2> QED
    BY <2>2, <2>3, <2>6, <2>8, <2>11, <2>12
<1> QED
  BY <1>5, <1>6

LEMMA DisposedFacts ==
    ASSUME NEW th \in Throttle
    PROVE  Disposed(th) \in Throttle /\ Disposed(th).pending = FALSE
BY DEF Throttle, Disposed

LEMMA TaskKept ==
    ASSUME NEW x \in Task, TaskSound(x), plan' = plan, at'[x] = at[x], proc'[x] = proc[x], ShutKept(x),
           x \in active' => x \in active, result'[x] = result[x], got'[x] = got[x],
           out'[x] = out[x], throttle'[x] = throttle[x]
    PROVE  TaskSound(x)'
BY DEF TaskSound, Streams, Gone, ShutKept

LEMMA TasksKept ==
    ASSUME WorkersIInv, UNCHANGED <<plan, at, proc, shut, active, result, got, out, throttle>>
    PROVE  \A x \in Task : TaskSound(x)'
BY TaskKept DEF WorkersIInv, ShutKept

LEMMA AllLocksKept ==
    ASSUME WorkersIInv, UNCHANGED <<plan, at, lock, waiters>>
    PROVE  \A w \in Workspace : LockSound(w)'
BY LocksKept DEF WorkersIInv

LEMMA WorkersInitial == WorkersInit => WorkersIInv
<1> SUFFICES ASSUME WorkersInit PROVE WorkersIInv
  OBVIOUS
<1>1. \A t \in Task : throttle[t] = [count |-> 0, notice |-> FALSE, pending |-> FALSE,
                                   timer |-> FALSE, recent |-> FALSE]
  BY DEF WorkersInit
<1>2. throttle \in [Task -> Throttle]
  BY WorkersAssumption DEF WorkersInit, Throttle
<1>3. /\ plan \in Plans /\ at = [t \in Task |-> "idle"] /\ aborted = {} /\ late = {}
      /\ lock = [w \in Workspace |-> None] /\ waiters = [w \in Workspace |-> <<>>]
      /\ proc = [t \in Task |-> "none"] /\ shut = [t \in Task |-> "none"] /\ orphans = {}
      /\ active = {} /\ clearing = {} /\ out = [t \in Task |-> 0] /\ taken = [t \in Task |-> 0]
      /\ stream = [t \in Task |-> "none"] /\ result = [t \in Task |-> "none"]
      /\ got = [t \in Task |-> 0]
  BY DEF WorkersInit
<1>4. WorkersTypeOK
  BY <1>2, <1>3, WorkersAssumption DEF WorkersTypeOK
<1>5. \A w \in Workspace : LockSound(w)
  BY <1>3 DEF LockSound, Distinct, Waits
<1>6. \A t \in Task : TaskSound(t)
  BY <1>1, <1>3 DEF TaskSound, Gone
<1> QED
  BY <1>4, <1>5, <1>6 DEF WorkersIInv

LEMMA ShutDownFacts ==
    ASSUME WorkersTypeOK, NEW ts, ShutDown(ts)
    PROVE  shut' \in [Task -> {"none", "term", "kill", "stuck"}] /\ \A x \in Task : ShutKept(x)
BY DEF WorkersTypeOK, ShutDown, ShutKept

LEMMA ThrottleFacts ==
    ASSUME NEW th \in Throttle
    PROVE  /\ Progress(th) \in Throttle /\ Limited(th) \in Throttle
           /\ Progress(th).pending => Progress(th).timer
           /\ Limited(th).pending = th.pending /\ Limited(th).timer = th.timer
<1>1. Progress(th) \in Throttle /\ (Progress(th).pending => Progress(th).timer)
  <2>1. CASE th.recent
    BY <2>1 DEF Throttle, Progress
  <2>2. CASE ~th.recent
    BY <2>2 DEF Throttle, Progress
  <2> QED
    BY <2>1, <2>2
<1>2. Limited(th) \in Throttle /\ Limited(th).pending = th.pending /\ Limited(th).timer = th.timer
  <2>1. th.count \in 0..MaxEvents
    BY DEF Throttle
  <2>2. CASE th.count < MaxEvents
    <3>1. th.count + 1 \in 0..MaxEvents
      BY <2>1, <2>2, WorkersAssumption
    <3> QED
      BY <2>2, <3>1 DEF Throttle, Limited
  <2>3. CASE ~(th.count < MaxEvents)
    BY <2>3 DEF Throttle, Limited
  <2> QED
    BY <2>2, <2>3
<1> QED
  BY <1>1, <1>2

\* The steps that touch neither a lock nor the await of a delegation.
LEMMA QuietSteps ==
    ASSUME WorkersIInv, NEW t \in Task,
           \/ AbortPermit(t) \/ DeadlinePasses(t) \/ CancelAll \/ AllCancelled \/ Escalate(t) \/ GiveUp(t)
           \/ Write(t) \/ Exit(t) \/ StreamEvent(t) \/ StreamEnds(t) \/ ThrottlePasses(t)
    PROVE  WorkersIInv'
<1>0. WorkersTypeOK /\ \A x \in Task : TaskSound(x)
  BY DEF WorkersIInv
<1>1. UNCHANGED <<plan, at, lock, waiters>>
  BY DEF AbortPermit, DeadlinePasses, CancelAll, AllCancelled, Escalate, GiveUp, Write, Exit, StreamEvent,
         StreamEnds, ThrottlePasses, processVars, outputVars
<1>2. \A w \in Workspace : LockSound(w)'
  BY <1>1, AllLocksKept
<1>3. CASE AbortPermit(t) \/ DeadlinePasses(t) \/ CancelAll \/ AllCancelled \/ Escalate(t) \/ GiveUp(t)
  <2>1. /\ UNCHANGED <<plan, at, proc, orphans, result, out, taken, stream, got, throttle>>
        /\ active' \subseteq active /\ aborted' \subseteq Task /\ late' \subseteq Task
        /\ clearing' \subseteq Task /\ \A x \in Task : ShutKept(x)
        /\ shut' \in [Task -> {"none", "term", "kill", "stuck"}]
    <3>1. CASE AbortPermit(t) \/ DeadlinePasses(t) \/ CancelAll
      BY <1>0, <3>1, ShutDownFacts DEF AbortPermit, DeadlinePasses, CancelAll, outputVars, WorkersTypeOK
    <3>2. CASE Escalate(t) \/ GiveUp(t)
      BY <1>0, <3>2 DEF Escalate, GiveUp, MustKill, outputVars, WorkersTypeOK, ShutKept
    <3>3. CASE AllCancelled
      BY <1>0, <3>3 DEF AllCancelled, processVars, outputVars, WorkersTypeOK, ShutKept
    <3> QED
      BY <1>3, <3>1, <3>2, <3>3
  <2>2. WorkersTypeOK'
    BY <1>0, <1>1, <2>1 DEF WorkersTypeOK
  <2>3. \A x \in Task : TaskSound(x)'
    BY <1>0, <2>1, TaskKept
  <2> QED
    BY <1>2, <2>2, <2>3 DEF WorkersIInv
<1>4. CASE Write(t)
  <2>1. t \in DOMAIN plan /\ out[t] < plan[t].chunks /\ proc[t] = "alive"
    BY <1>0, <1>4 DEF Write, TaskSound, Gone
  <2>2. out' \in [Task -> 0..MaxChunks] /\ \A x \in Task : x # t => out'[x] = out[x]
    BY <1>0, <1>4, <2>1, PlanFacts, WorkersAssumption DEF Write, WorkersTypeOK
  <2>3. UNCHANGED <<plan, at, aborted, late, lock, waiters, proc, shut, orphans, active, clearing,
                    result, taken, stream, got, throttle>>
    BY <1>4 DEF Write, processVars
  <2>4. WorkersTypeOK'
    BY <1>0, <2>2, <2>3 DEF WorkersTypeOK
  <2>5. TaskSound(t)'
    BY <1>0, <2>1, <2>3 DEF TaskSound, Gone
  <2>6. \A x \in Task : x # t => TaskSound(x)'
    BY <1>0, <2>2, <2>3, TaskKept DEF ShutKept
  <2> QED
    BY <1>2, <2>4, <2>5, <2>6 DEF WorkersIInv
<1>5. CASE Exit(t)
  <2>1. proc[t] = "alive" /\ t \in DOMAIN plan
    BY <1>0, <1>5 DEF Exit, TaskSound, Gone
  <2>2. /\ proc' \in [Task -> {"none", "alive", "zero", "nonzero"}] /\ proc'[t] \in {"zero", "nonzero"}
        /\ \A x \in Task : x # t => proc'[x] = proc[x]
    BY <1>0, <1>5 DEF Exit, WorkersTypeOK
  <2>3. orphans' \subseteq Task
    BY <1>0, <1>5 DEF Exit, WorkersTypeOK
  <2>4. UNCHANGED <<plan, at, aborted, late, lock, waiters, shut, active, clearing, result, out, taken, stream,
                    got, throttle>>
    BY <1>5 DEF Exit, outputVars
  <2>5. WorkersTypeOK'
    BY <1>0, <2>2, <2>3, <2>4 DEF WorkersTypeOK
  <2>6. TaskSound(t)'
    BY <1>0, <2>1, <2>2, <2>4 DEF TaskSound, Gone
  <2>7. \A x \in Task : x # t => TaskSound(x)'
    BY <1>0, <2>2, <2>4, TaskKept DEF ShutKept
  <2> QED
    BY <1>2, <2>5, <2>6, <2>7 DEF WorkersIInv
<1>6. CASE StreamEvent(t)
  <2>1. taken' \in [Task -> 0..MaxChunks]
    BY <1>0, <1>6, WorkersAssumption DEF StreamEvent, WorkersTypeOK
  <2>2. /\ UNCHANGED <<plan, at, aborted, late, lock, waiters, proc, shut, orphans, active, clearing, result, out,
                       stream, got>>
        /\ throttle' \in {throttle, [throttle EXCEPT ![t] = Progress(@)], [throttle EXCEPT ![t] = Limited(@)]}
    BY <1>6 DEF StreamEvent, processVars
  <2>3. throttle[t] \in Throttle
    BY <1>0 DEF WorkersTypeOK
  <2>4. /\ Progress(throttle[t]) \in Throttle /\ Limited(throttle[t]) \in Throttle
        /\ Progress(throttle[t]).pending => Progress(throttle[t]).timer
        /\ Limited(throttle[t]).pending = throttle[t].pending /\ Limited(throttle[t]).timer = throttle[t].timer
    BY <2>3, ThrottleFacts
  <2>5. /\ throttle' \in [Task -> Throttle] /\ \A x \in Task : x # t => throttle'[x] = throttle[x]
        /\ throttle'[t] \in {throttle[t], Progress(throttle[t]), Limited(throttle[t])}
    <3>1. throttle \in [Task -> Throttle]
      BY <1>0 DEF WorkersTypeOK
    <3> HIDE DEF Throttle
    <3> QED
      BY <2>2, <2>4, <3>1
  <2>6. WorkersTypeOK'
    BY <1>0, <2>1, <2>2, <2>5 DEF WorkersTypeOK
  <2>7. TaskSound(t)'
    <3>1. throttle'[t].pending => throttle'[t].timer
      BY <1>0, <2>4, <2>5 DEF TaskSound, Gone
    <3> QED
      BY <1>0, <2>2, <3>1 DEF TaskSound, Streams, Gone
  <2>8. \A x \in Task : x # t => TaskSound(x)'
    BY <1>0, <2>2, <2>5, TaskKept DEF ShutKept
  <2> QED
    BY <1>2, <2>6, <2>7, <2>8 DEF WorkersIInv
<1>7. CASE StreamEnds(t)
  <2>1. /\ UNCHANGED <<plan, at, aborted, late, lock, waiters, proc, shut, orphans, active, clearing, result, out,
                       taken, got, throttle>>
        /\ stream' = [stream EXCEPT ![t] = "ended"]
    BY <1>7 DEF StreamEnds, processVars
  <2>2. WorkersTypeOK'
    BY <1>0, <2>1 DEF WorkersTypeOK
  <2> QED
    BY <1>2, <2>1, <2>2, TasksKept DEF WorkersIInv
<1>8. CASE ThrottlePasses(t)
  <2>1. UNCHANGED <<plan, at, aborted, late, lock, waiters, proc, shut, orphans, active, clearing, result, out,
                    taken, stream, got>>
    BY <1>8 DEF ThrottlePasses, processVars
  <2>2. throttle[t] \in Throttle
    BY <1>0 DEF WorkersTypeOK
  <2> DEFINE th == [throttle[t] EXCEPT !.pending = FALSE, !.timer = FALSE,
                                       !.recent = throttle[t].timer /\ throttle[t].pending]
  <2>3. throttle' = [throttle EXCEPT ![t] = th]
    BY <1>8 DEF ThrottlePasses
  <2>4. th \in Throttle /\ th.pending = FALSE
    BY <2>2 DEF Throttle
  <2> HIDE DEF th
  <2>5. throttle' \in [Task -> Throttle] /\ throttle'[t] = th /\ \A x \in Task : x # t => throttle'[x] = throttle[x]
    BY <1>0, <2>3, <2>4 DEF WorkersTypeOK
  <2>6. WorkersTypeOK'
    BY <1>0, <2>1, <2>5 DEF WorkersTypeOK
  <2>7. TaskSound(t)'
    BY <1>0, <2>1, <2>4, <2>5 DEF TaskSound, Streams, Gone
  <2>8. \A x \in Task : x # t => TaskSound(x)'
    BY <1>0, <2>1, <2>5, TaskKept DEF ShutKept
  <2> QED
    BY <1>2, <2>6, <2>7, <2>8 DEF WorkersIInv
<1> QED
  BY <1>3, <1>4, <1>5, <1>6, <1>7, <1>8

LEMMA ExpirySound ==
    ASSUME WorkersIInv, NEW w \in Workspace, LockExpires(w)
    PROVE  WorkersIInv'
<1>0. WorkersTypeOK /\ \A v \in Workspace : LockSound(v)
  BY DEF WorkersIInv
<1>1. /\ UNCHANGED <<plan, at, aborted, late, waiters, proc, shut, orphans, active, clearing, result, out, taken,
                     stream, got, throttle>>
      /\ lock[w] # None /\ lock' = [lock EXCEPT ![w].expired = TRUE]
  BY DEF LockExpires, processVars, outputVars
<1>2. /\ lock' \in [Workspace -> Lock \cup {None}] /\ lock'[w] \in Lock
      /\ lock'[w].holder = lock[w].holder /\ \A v \in Workspace : v # w => lock'[v] = lock[v]
  <2>1. lock[w] \in Lock
    BY <1>0, <1>1 DEF WorkersTypeOK
  <2> DEFINE l == [lock[w] EXCEPT !.expired = TRUE]
  <2>2. l \in Lock /\ l.holder = lock[w].holder
    BY <2>1 DEF Lock
  <2>3. lock' = [lock EXCEPT ![w] = l]
    BY <1>1
  <2> HIDE DEF l
  <2> QED
    BY <1>0, <2>2, <2>3 DEF WorkersTypeOK
<1>3. WorkersTypeOK'
  BY <1>0, <1>1, <1>2 DEF WorkersTypeOK
<1>4. LockSound(w)'
  BY <1>0, <1>1, <1>2, NoLock DEF LockSound
<1>5. \A v \in Workspace : v # w => LockSound(v)'
  BY <1>0, <1>1, <1>2 DEF LockSound
<1> QED
  BY <1>1, <1>3, <1>4, <1>5, TasksKept DEF WorkersIInv

LEMMA AwaitFacts ==
    ASSUME WorkersTypeOK, NEW t \in Task, Await(t)
    PROVE  stream' \in [Task -> {"none", "open", "ended"}]
BY DEF WorkersTypeOK, Await

LEMMA CancelledSound ==
    ASSUME WorkersIInv, NEW t \in Task, Cancelled(t)
    PROVE  WorkersIInv'
<1>0. WorkersTypeOK /\ (\A v \in Workspace : LockSound(v)) /\ \A x \in Task : TaskSound(x)
  BY DEF WorkersIInv
<1>1. /\ UNCHANGED <<plan, aborted, late, proc, shut, orphans, clearing, out, taken, got, throttle>>
      /\ at[t] = "cancelling" /\ ShutDownEnds(t)
  BY DEF Cancelled, processVars
<1>2. CASE plan[t].adapter # "opencode"
  <2>1. UNCHANGED <<lock, waiters, active, result>> /\ at' = [at EXCEPT ![t] = "running"] /\ Await(t)
    BY <1>2 DEF Cancelled
  <2>2. stream' \in [Task -> {"none", "open", "ended"}]
    BY <1>0, <2>1, AwaitFacts
  <2>3. at'[t] = "running" /\ \A x \in Task : x # t => at'[x] = at[x]
    BY <1>0, <2>1 DEF WorkersTypeOK
  <2>4. WorkersTypeOK'
    BY <1>0, <1>1, <2>1, <2>2 DEF WorkersTypeOK
  <2>5. \A w \in Workspace : LockSound(w)'
    BY <1>0, <1>1, <2>1, <2>3, LocksKept DEF Holding
  <2>6. TaskSound(t)'
    BY <1>0, <1>1, <2>1, <2>3 DEF TaskSound
  <2>7. \A x \in Task : x # t => TaskSound(x)'
    BY <1>0, <1>1, <2>1, <2>3, TaskKept DEF ShutKept
  <2> QED
    BY <2>4, <2>5, <2>6, <2>7 DEF WorkersIInv
<1>3. CASE plan[t].adapter = "opencode"
  <2>1. Settle(t) /\ result' = [result EXCEPT ![t] = "failed"] /\ active' = active \ {t} /\ stream' = stream
    BY <1>3 DEF Cancelled, FailsForgotten
  <2>2. /\ at' \in [Task -> {"idle", "locking", "granted", "cancelling", "running", "draining", "done"}]
        /\ lock' \in [Workspace -> Lock \cup {None}] /\ waiters' \in [Workspace -> Seq(Task)]
        /\ \A w \in Workspace : LockSound(w)'
        /\ at'[t] = "done"
        /\ \A x \in Task : x # t => at'[x] = at[x] \/ (at[x] = "locking" /\ at'[x] = "granted")
    BY <1>1, <2>1, SettleSound DEF Holding
  <2>3. /\ result' \in [Task -> {"none", "succeeded", "failed", "cancelled", "error"}]
        /\ result'[t] = "failed" /\ \A x \in Task : x # t => result'[x] = result[x]
        /\ active' \subseteq Task
    BY <1>0, <2>1 DEF WorkersTypeOK
  <2>4. WorkersTypeOK'
    BY <1>0, <1>1, <2>1, <2>2, <2>3 DEF WorkersTypeOK
  <2>5. Gone(t)'
    BY <1>0, <1>1 DEF ShutDownEnds, Exited, TaskSound, Gone
  <2>6. TaskSound(t)'
    BY <1>0, <1>1, <2>1, <2>2, <2>3, <2>5 DEF TaskSound
  <2>7. ASSUME NEW x \in Task, x # t PROVE TaskSound(x)'
    <3>1. x \in active' <=> x \in active
      BY <2>1, <2>7
    <3>2. at'[x] = at[x] \/ (at[x] = "locking" /\ at'[x] = "granted")
      BY <2>2, <2>7
    <3>3. TaskSound(x) /\ result'[x] = result[x]
      BY <1>0, <2>3, <2>7
    <3> QED
      BY <1>1, <3>1, <3>2, <3>3 DEF TaskSound, Streams, Gone
  <2> QED
    BY <2>2, <2>4, <2>6, <2>7 DEF WorkersIInv
<1> QED
  BY <1>2, <1>3

LEMMA StartSound ==
    ASSUME WorkersIInv, NEW t \in Task, Start(t)
    PROVE  WorkersIInv'
<1>0. WorkersTypeOK /\ (\A v \in Workspace : LockSound(v)) /\ \A x \in Task : TaskSound(x)
  BY DEF WorkersIInv
<1>1. at[t] = "granted" /\ UNCHANGED <<plan, aborted, late, clearing, out, taken, got, throttle>>
  BY DEF Start
<1>2. CASE Settle(t) /\ result' = [result EXCEPT ![t] = "error"] /\ UNCHANGED <<processVars, active, stream>>
  <2>1. /\ at' \in [Task -> {"idle", "locking", "granted", "cancelling", "running", "draining", "done"}]
        /\ lock' \in [Workspace -> Lock \cup {None}] /\ waiters' \in [Workspace -> Seq(Task)]
        /\ \A w \in Workspace : LockSound(w)'
        /\ at'[t] = "done"
        /\ \A x \in Task : x # t => at'[x] = at[x] \/ (at[x] = "locking" /\ at'[x] = "granted")
    BY <1>1, <1>2, SettleSound DEF Holding
  <2>2. /\ UNCHANGED <<proc, shut, orphans, active, stream>>
        /\ result' \in [Task -> {"none", "succeeded", "failed", "cancelled", "error"}]
        /\ result'[t] = "error" /\ \A x \in Task : x # t => result'[x] = result[x]
    BY <1>0, <1>2 DEF processVars, WorkersTypeOK
  <2>3. WorkersTypeOK'
    BY <1>0, <1>1, <2>1, <2>2 DEF WorkersTypeOK
  <2>4. TaskSound(t)'
    BY <1>0, <1>1, <2>1, <2>2 DEF TaskSound, Gone
  <2>5. \A x \in Task : x # t => TaskSound(x)'
    BY <1>0, <1>1, <2>1, <2>2 DEF TaskSound, Streams, Gone
  <2> QED
    BY <2>1, <2>3, <2>4, <2>5 DEF WorkersIInv
<1>3. CASE ~(Settle(t) /\ result' = [result EXCEPT ![t] = "error"] /\ UNCHANGED <<processVars, active, stream>>)
  <2>1. /\ proc' = [proc EXCEPT ![t] = "alive"] /\ active' = active \cup {t}
        /\ UNCHANGED <<orphans, lock, waiters, result>>
        /\ shut' \in [Task -> {"none", "term", "kill", "stuck"}]
        /\ stream' \in [Task -> {"none", "open", "ended"}]
        /\ \/ at' = [at EXCEPT ![t] = "cancelling"] /\ shut'[t] = "term"
           \/ at' = [at EXCEPT ![t] = "running"]
        /\ \A x \in Task : x # t => ShutKept(x)
    <3>0. /\ shut \in [Task -> {"none", "term", "kill", "stuck"}]
          /\ stream \in [Task -> {"none", "open", "ended"}]
      BY <1>0 DEF WorkersTypeOK
    <3>1. CASE t \in aborted \cup late
      BY <1>3, <3>0, <3>1 DEF Start, ShutKept
    <3>2. CASE t \notin aborted \cup late
      BY <1>0, <1>3, <3>0, <3>2, AwaitFacts DEF Start, ShutKept
    <3> QED
      BY <3>1, <3>2
  <2>2. /\ at' \in [Task -> {"idle", "locking", "granted", "cancelling", "running", "draining", "done"}]
        /\ at'[t] \in {"cancelling", "running"} /\ (at'[t] = "cancelling" => shut'[t] = "term")
        /\ \A x \in Task : x # t => at'[x] = at[x]
    <3>0. at \in [Task -> {"idle", "locking", "granted", "cancelling", "running", "draining", "done"}]
      BY <1>0 DEF WorkersTypeOK
    <3>1. CASE at' = [at EXCEPT ![t] = "cancelling"] /\ shut'[t] = "term"
      BY <3>0, <3>1
    <3>2. CASE at' = [at EXCEPT ![t] = "running"]
      BY <3>0, <3>2
    <3> QED
      BY <2>1, <3>1, <3>2
  <2>3. /\ proc' \in [Task -> {"none", "alive", "zero", "nonzero"}]
        /\ \A x \in Task : x # t => proc'[x] = proc[x]
    BY <1>0, <2>1 DEF WorkersTypeOK
  <2>4. WorkersTypeOK'
    BY <1>0, <1>1, <2>1, <2>2, <2>3 DEF WorkersTypeOK
  <2>5. \A w \in Workspace : LockSound(w)'
    BY <1>0, <1>1, <2>1, <2>2, LocksKept DEF Holding
  <2>6. TaskSound(t)'
    BY <1>0, <1>1, <2>1, <2>2 DEF TaskSound, Gone
  <2>7. \A x \in Task : x # t => TaskSound(x)'
    BY <1>0, <1>1, <2>1, <2>2, <2>3, TaskKept DEF ShutKept
  <2> QED
    BY <2>4, <2>5, <2>6, <2>7 DEF WorkersIInv
<1> QED
  BY <1>2, <1>3

\* A delegation that returns: its worker is gone, and its result, if a success
\* that was not streamed, made from all that was written.
LEMMA ReturnedSound ==
    ASSUME WorkersIInv, NEW t \in Task, Return(t) \/ Drained(t)
    PROVE  WorkersIInv'
<1>0. WorkersTypeOK /\ (\A v \in Workspace : LockSound(v)) /\ \A x \in Task : TaskSound(x)
  BY DEF WorkersIInv
<1>1. UNCHANGED <<plan, aborted, late, proc, shut, orphans, clearing, out, taken, stream>>
  BY DEF Return, Drained, processVars
<1>2. Disposed(throttle[t]) \in Throttle /\ Disposed(throttle[t]).pending = FALSE
  BY <1>0, DisposedFacts DEF WorkersTypeOK
<1>3. proc[t] # "alive" /\ at[t] \in {"running", "draining"} /\ t \in DOMAIN plan
  BY <1>0 DEF Return, Drained, ResultReady, Exited, TaskSound, Gone
<1>4. /\ result' \in [Task -> {"none", "succeeded", "failed", "cancelled", "error"}]
      /\ got' \in [Task -> 0..MaxChunks]
      /\ \A x \in Task : x # t => result'[x] = result[x] /\ got'[x] = got[x]
      /\ result'[t] = "succeeded" => proc[t] = "zero" /\ (~Streams(t) => got'[t] = out[t])
  <2>1. CASE Return(t)
    <3>1. Output(t) \in 0..MaxChunks
      <4>1. out[t] \in 0..MaxChunks /\ taken[t] \in 0..MaxChunks /\ 0 \in 0..MaxChunks
        BY <1>0, WorkersAssumption DEF WorkersTypeOK
      <4> QED
        BY <4>1 DEF Output
    <3>2. Status(t) \in {"succeeded", "failed", "cancelled"} /\ (Status(t) = "succeeded" => proc[t] = "zero")
      BY DEF Status
    <3>3. ~Streams(t) => Output(t) = out[t]
      BY <2>1 DEF Return, ResultReady, Output
    <3>4. result' = [result EXCEPT ![t] = Status(t)] /\ got' = [got EXCEPT ![t] = Output(t)]
      BY <2>1 DEF Return
    <3> QED
      BY <1>0, <3>1, <3>2, <3>3, <3>4 DEF WorkersTypeOK
  <2>2. CASE Drained(t)
    BY <1>0, <2>2 DEF Drained, WorkersTypeOK, TaskSound, Gone
  <2> QED
    BY <2>1, <2>2
<1>5. CASE Return(t) /\ stream[t] = "open"
  <2>1. UNCHANGED <<lock, waiters, active, throttle>> /\ at' = [at EXCEPT ![t] = "draining"]
        /\ at[t] = "running"
    BY <1>5 DEF Return
  <2>2. at'[t] = "draining" /\ \A x \in Task : x # t => at'[x] = at[x]
    BY <1>0, <2>1 DEF WorkersTypeOK
  <2>3. WorkersTypeOK'
    BY <1>0, <1>1, <1>4, <2>1 DEF WorkersTypeOK
  <2>4. \A w \in Workspace : LockSound(w)'
    BY <1>0, <1>1, <2>1, <2>2, LocksKept DEF Holding
  <2>5. TaskSound(t)'
    BY <1>0, <1>1, <1>3, <1>4, <2>1, <2>2 DEF TaskSound, Streams, Gone
  <2>6. \A x \in Task : x # t => TaskSound(x)'
    BY <1>0, <1>1, <1>4, <2>1, <2>2, TaskKept DEF ShutKept
  <2> QED
    BY <2>3, <2>4, <2>5, <2>6 DEF WorkersIInv
<1>6. CASE ~(Return(t) /\ stream[t] = "open")
  <2>1. Settle(t) /\ active' = active \ {t} /\ throttle' = [throttle EXCEPT ![t] = Disposed(@)]
    BY <1>6 DEF Return, Drained
  <2>2. /\ at' \in [Task -> {"idle", "locking", "granted", "cancelling", "running", "draining", "done"}]
        /\ lock' \in [Workspace -> Lock \cup {None}] /\ waiters' \in [Workspace -> Seq(Task)]
        /\ \A w \in Workspace : LockSound(w)'
        /\ at'[t] = "done"
        /\ \A x \in Task : x # t => at'[x] = at[x] \/ (at[x] = "locking" /\ at'[x] = "granted")
    BY <1>1, <1>3, <2>1, SettleSound DEF Holding
  <2>3. /\ throttle' \in [Task -> Throttle] /\ throttle'[t] = Disposed(throttle[t])
        /\ \A x \in Task : x # t => throttle'[x] = throttle[x]
    BY <1>0, <1>2, <2>1 DEF WorkersTypeOK
  <2>4. active' \subseteq Task
    BY <1>0, <2>1 DEF WorkersTypeOK
  <2>5. WorkersTypeOK'
    BY <1>0, <1>1, <1>4, <2>2, <2>3, <2>4 DEF WorkersTypeOK
  <2>6. TaskSound(t)'
    BY <1>1, <1>2, <1>3, <1>4, <2>1, <2>2, <2>3 DEF TaskSound, Streams, Gone
  <2>7. ASSUME NEW x \in Task, x # t PROVE TaskSound(x)'
    <3>1. x \in active' <=> x \in active
      BY <2>1, <2>7
    <3>2. result'[x] = result[x] /\ got'[x] = got[x] /\ throttle'[x] = throttle[x]
      BY <1>4, <2>3, <2>7
    <3>3. at'[x] = at[x] \/ (at[x] = "locking" /\ at'[x] = "granted")
      BY <2>2, <2>7
    <3>4. TaskSound(x)
      BY <1>0
    <3> QED
      BY <1>1, <3>1, <3>2, <3>3, <3>4 DEF TaskSound, Streams, Gone
  <2> QED
    BY <2>2, <2>5, <2>6, <2>7 DEF WorkersIInv
<1> QED
  BY <1>5, <1>6

LEMMA TimeoutSound ==
    ASSUME WorkersIInv, NEW t \in Task, WaitTimesOut(t)
    PROVE  WorkersIInv'
<1> DEFINE w == plan[t].workspace
<1>0. WorkersTypeOK /\ (\A v \in Workspace : LockSound(v)) /\ \A x \in Task : TaskSound(x)
  BY DEF WorkersIInv
<1>1. /\ UNCHANGED <<plan, aborted, late, lock, proc, shut, orphans, active, clearing, out, taken, stream, got, throttle>>
      /\ at[t] = "locking" /\ at' = [at EXCEPT ![t] = "done"] /\ result' = [result EXCEPT ![t] = "error"]
  BY DEF WaitTimesOut, processVars, outputVars
<1>2. t \in DOMAIN plan /\ w \in Workspace
  BY <1>0, <1>1 DEF TaskSound, Gone
<1>3. PICK n \in DOMAIN waiters[w] :
        /\ waiters[w][n] = t
        /\ waiters' = [waiters EXCEPT ![w] = SubSeq(waiters[w], 1, n - 1)
                                              \o SubSeq(waiters[w], n + 1, Len(waiters[w]))]
  BY DEF WaitTimesOut
<1> HIDE DEF w
<1>4. waiters \in [Workspace -> Seq(Task)] /\ waiters[w] \in Seq(Task) /\ Distinct(waiters[w])
  BY <1>0, <1>2 DEF WorkersTypeOK, LockSound
<1> DEFINE s == SubSeq(waiters[w], 1, n - 1) \o SubSeq(waiters[w], n + 1, Len(waiters[w]))
<1>5. s \in Seq(Task) /\ Distinct(s) /\ \A x : Waits(x, s) <=> Waits(x, waiters[w]) /\ x # t
  BY <1>3, <1>4, QueueSplice
<1>6. waiters' = [waiters EXCEPT ![w] = s]
  BY <1>3
<1> HIDE DEF s
<1>7. /\ waiters' \in [Workspace -> Seq(Task)] /\ waiters'[w] = s
      /\ \A v \in Workspace : v # w => waiters'[v] = waiters[v]
  BY <1>2, <1>4, <1>5, <1>6
<1>8. /\ at'[t] = "done" /\ \A x \in Task : x # t => at'[x] = at[x]
      /\ result'[t] = "error" /\ \A x \in Task : x # t => result'[x] = result[x]
  BY <1>0, <1>1 DEF WorkersTypeOK
<1>9. WorkersTypeOK'
  BY <1>0, <1>1, <1>7 DEF WorkersTypeOK
<1>10. Waits(t, waiters[w])
  BY <1>3 DEF Waits
<1>11. ASSUME NEW v \in Workspace PROVE LockSound(v)'
  <2>1. LockSound(v) /\ (lock[v] # None => lock[v].holder \in Task)
    BY <1>0, LockFacts
  <2>2. lock[v] # None => lock[v].holder # t /\ at'[lock[v].holder] \in Holding
    BY <1>1, <1>8, <2>1 DEF LockSound, Holding
  <2>3. CASE v = w
    <3>1. lock[v] # None
      BY <1>10, <2>1, <2>3 DEF LockSound, Waits
    <3>2. ASSUME NEW x \in Task, Waits(x, s)
          PROVE  at'[x] = "locking" /\ x \in DOMAIN plan /\ plan[x].workspace = v
      BY <1>5, <1>8, <2>1, <2>3, <3>2 DEF LockSound
    <3> QED
      BY <1>1, <1>5, <1>7, <2>1, <2>2, <2>3, <3>1, <3>2 DEF LockSound
  <2>4. CASE v # w
    <3>1. ASSUME NEW x \in Task, Waits(x, waiters[v])
          PROVE  at'[x] = "locking" /\ x \in DOMAIN plan /\ plan[x].workspace = v
      <4>1. plan[t].workspace = w
        BY DEF w
      <4> QED
        BY <1>8, <2>1, <2>4, <3>1, <4>1 DEF LockSound
    <3> QED
      BY <1>1, <1>7, <2>1, <2>2, <2>4, <3>1 DEF LockSound
  <2> QED
    BY <2>3, <2>4
<1>12. TaskSound(t)'
  BY <1>0, <1>1, <1>2, <1>8 DEF TaskSound, Gone
<1>13. \A x \in Task : x # t => TaskSound(x)'
  BY <1>0, <1>1, <1>8, TaskKept DEF ShutKept
<1> QED
  BY <1>9, <1>11, <1>12, <1>13 DEF WorkersIInv

\* A delegation that gets its lock at once, takes it over, or queues for it.
LEMMA DelegateSound ==
    ASSUME WorkersIInv, NEW t \in Task, Delegate(t)
    PROVE  WorkersIInv'
<1> DEFINE w == plan[t].workspace
           free == w = None \/ lock[w] = None \/ lock[w].expired
           woken(x) == w # None /\ lock[w] # None /\ x = NextWaiter(w)
<1>0. WorkersTypeOK /\ (\A v \in Workspace : LockSound(v)) /\ \A x \in Task : TaskSound(x)
  BY DEF WorkersIInv
<1>1. /\ UNCHANGED <<plan, aborted, late, proc, shut, orphans, active, clearing, result, out, taken, stream, got, throttle>>
      /\ t \in DOMAIN plan /\ at[t] = "idle"
  BY DEF Delegate, processVars, outputVars
<1>2. w \in Workspace \cup {None} /\ (w # None => w \in Workspace)
  BY <1>0, <1>1, PlanFacts
<1>3. at \in [Task -> {"idle", "locking", "granted", "cancelling", "running", "draining", "done"}] /\ proc[t] = "none"
  BY <1>0, <1>1 DEF WorkersTypeOK, TaskSound, Gone
<1>4. free => at' = [x \in Task |-> IF x = t \/ woken(x) THEN "granted" ELSE at[x]]
  BY DEF Delegate
<1>5. ~free => at' = [at EXCEPT ![t] = "locking"]
  BY DEF Delegate
<1>6. ASSUME NEW x \in Task, x # t, woken(x)
      PROVE  at[x] = "locking" /\ x \in DOMAIN plan /\ plan[x].workspace = w
  <2>1. w \in Workspace /\ NextWaiter(w) = x /\ x # None
    BY <1>2, <1>6, WorkersAssumption
  <2>2. Waits(x, waiters[w])
    BY <1>0, <2>1, NotifiedSound
  <2> QED
    BY <1>0, <2>1, <2>2 DEF LockSound
<1>7. /\ at' \in [Task -> {"idle", "locking", "granted", "cancelling", "running", "draining", "done"}]
      /\ at'[t] \in {"granted", "locking"} /\ (at'[t] = "locking" <=> ~free)
      /\ \A x \in Task : x # t => at'[x] = at[x] \/ (at[x] = "locking" /\ at'[x] = "granted")
  <2> HIDE DEF w
  <2>1. CASE free
    <3> HIDE DEF free, woken
    <3> QED
      BY <1>3, <1>4, <1>6, <2>1
  <2>2. CASE ~free
    BY <1>3, <1>5, <2>2
  <2> QED
    BY <2>1, <2>2
<1>8. TaskSound(t)'
  BY <1>0, <1>1, <1>2, <1>3, <1>7 DEF TaskSound, Streams, Gone
<1>9. ASSUME NEW x \in Task, x # t PROVE TaskSound(x)'
  <2>1. TaskSound(x) /\ (at'[x] = at[x] \/ (at[x] = "locking" /\ at'[x] = "granted"))
    BY <1>0, <1>7, <1>9
  <2> QED
    BY <1>1, <2>1 DEF TaskSound, Streams, Gone
<1>10. CASE w = None
  <2>1. UNCHANGED <<lock, waiters>>
    BY <1>10 DEF Delegate
  <2>2. at' = [x \in Task |-> IF x = t THEN "granted" ELSE at[x]]
    BY <1>4, <1>10
  <2>3. \A v \in Workspace : LockSound(v)'
    BY <1>0, <1>1, <1>3, <2>1, <2>2, LocksKept DEF Holding
  <2>4. WorkersTypeOK'
    BY <1>0, <1>1, <1>7, <2>1 DEF WorkersTypeOK
  <2> QED
    BY <1>8, <1>9, <2>3, <2>4 DEF WorkersIInv
<1>11. CASE w # None /\ free
  <2>0. w \in Workspace
    BY <1>2, <1>11
  <2>1. /\ lock' = [lock EXCEPT ![w] = Held(t)]
        /\ waiters' = IF lock[w] = None THEN waiters ELSE Notified(w)
    BY <1>11 DEF Delegate
  <2>2. /\ Notified(w) \in [Workspace -> Seq(Task)]
        /\ \A v \in Workspace : v # w => Notified(w)[v] = waiters[v]
        /\ Distinct(Notified(w)[w])
        /\ \A x : Waits(x, Notified(w)[w]) <=> Waits(x, waiters[w]) /\ x # NextWaiter(w)
    BY <1>0, <2>0, NotifiedSound
  <2>3. \A x \in Task : at'[x] = IF x = t \/ woken(x) THEN "granted" ELSE at[x]
    BY <1>4, <1>11
  <2> HIDE DEF w
  <2>4. /\ lock' \in [Workspace -> Lock \cup {None}] /\ lock'[w] = Held(t)
        /\ \A v \in Workspace : v # w => lock'[v] = lock[v]
    BY <1>0, <2>0, <2>1, HeldFacts DEF WorkersTypeOK
  <2>5. /\ waiters' \in [Workspace -> Seq(Task)] /\ Distinct(waiters'[w])
        /\ \A v \in Workspace : v # w => waiters'[v] = waiters[v]
        /\ \A x : Waits(x, waiters'[w]) => Waits(x, waiters[w]) /\ ~woken(x)
    <3>1. CASE lock[w] = None
      BY <1>0, <2>0, <2>1, <3>1 DEF WorkersTypeOK, LockSound
    <3>2. CASE lock[w] # None
      BY <2>1, <2>2, <3>2
    <3> QED
      BY <3>1, <3>2
  <2>6. WorkersTypeOK'
    BY <1>0, <1>1, <1>7, <2>4, <2>5 DEF WorkersTypeOK
  <2>7. plan[t].workspace = w
    BY DEF w
  <2> HIDE DEF woken
  <2>8. ASSUME NEW v \in Workspace, v = w PROVE LockSound(v)'
    <3>1. lock'[v] # None /\ lock'[v].holder = t /\ at'[t] = "granted"
      BY <2>3, <2>4, <2>8, HeldFacts
    <3>2. ASSUME NEW x \in Task, Waits(x, waiters'[v])
          PROVE  at'[x] = "locking" /\ x \in DOMAIN plan /\ plan[x].workspace = v
      <4>1. Waits(x, waiters[v]) /\ ~woken(x)
        BY <2>5, <2>8, <3>2
      <4>2. at[x] = "locking" /\ x \in DOMAIN plan /\ plan[x].workspace = v
        BY <1>0, <4>1 DEF LockSound
      <4> QED
        BY <1>1, <2>3, <4>1, <4>2
    <3> QED
      BY <1>1, <2>5, <2>7, <2>8, <3>1, <3>2 DEF LockSound, Holding
  <2>9. ASSUME NEW v \in Workspace, v # w PROVE LockSound(v)'
    <3>1. LockSound(v) /\ (lock[v] # None => lock[v].holder \in Task)
      BY <1>0, LockFacts
    <3>2. lock'[v] = lock[v] /\ waiters'[v] = waiters[v]
      BY <2>4, <2>5, <2>9
    <3>3. lock[v] # None => at'[lock[v].holder] \in Holding
      BY <1>1, <1>7, <3>1 DEF LockSound, Holding
    <3>4. ASSUME NEW x \in Task, Waits(x, waiters[v])
          PROVE  at'[x] = "locking" /\ x \in DOMAIN plan /\ plan[x].workspace = v
      <4>1. at[x] = "locking" /\ x \in DOMAIN plan /\ plan[x].workspace = v /\ x # t
        BY <1>1, <3>1, <3>4 DEF LockSound
      <4>2. ~woken(x)
        BY <1>6, <2>9, <4>1
      <4> QED
        BY <2>3, <4>1, <4>2
    <3> QED
      BY <1>1, <3>1, <3>2, <3>3, <3>4 DEF LockSound
  <2> QED
    BY <1>8, <1>9, <2>6, <2>8, <2>9 DEF WorkersIInv
<1>12. CASE w # None /\ ~free
  <2>0. w \in Workspace /\ lock[w] # None
    BY <1>2, <1>12
  <2>1. lock' = lock /\ waiters' = [waiters EXCEPT ![w] = Append(waiters[w], t)]
    BY <1>12 DEF Delegate
  <2>2. waiters[w] \in Seq(Task) /\ Distinct(waiters[w]) /\ ~Waits(t, waiters[w])
    BY <1>0, <1>1, <2>0 DEF WorkersTypeOK, LockSound
  <2>3. /\ Append(waiters[w], t) \in Seq(Task) /\ Distinct(Append(waiters[w], t))
        /\ \A x : Waits(x, Append(waiters[w], t)) <=> Waits(x, waiters[w]) \/ x = t
    BY <2>2, QueueAppend
  <2>4. at'[t] = "locking" /\ \A x \in Task : x # t => at'[x] = at[x]
    BY <1>3, <1>5, <1>12
  <2>5. plan[t].workspace = w
    OBVIOUS
  <2> HIDE DEF w
  <2>6. /\ waiters' \in [Workspace -> Seq(Task)] /\ waiters'[w] = Append(waiters[w], t)
        /\ \A v \in Workspace : v # w => waiters'[v] = waiters[v]
    BY <1>0, <2>0, <2>1, <2>3 DEF WorkersTypeOK
  <2>7. WorkersTypeOK'
    BY <1>0, <1>1, <1>7, <2>1, <2>6 DEF WorkersTypeOK
  <2>8. ASSUME NEW v \in Workspace PROVE LockSound(v)'
    <3>1. LockSound(v) /\ (lock[v] # None => lock[v].holder \in Task)
      BY <1>0, LockFacts
    <3>2. lock[v] # None => at'[lock[v].holder] \in Holding
      BY <1>1, <2>4, <3>1 DEF LockSound, Holding
    <3>3. ASSUME NEW x \in Task, Waits(x, waiters'[v])
          PROVE  at'[x] = "locking" /\ x \in DOMAIN plan /\ plan[x].workspace = v
      <4>1. CASE x = t
        <5>1. v = w
          BY <1>1, <2>6, <3>1, <3>3, <4>1 DEF LockSound
        <5> QED
          BY <1>1, <2>4, <2>5, <4>1, <5>1
      <4>2. CASE x # t
        <5>1. Waits(x, waiters[v])
          BY <2>3, <2>6, <3>3, <4>2
        <5> QED
          BY <2>4, <3>1, <4>2, <5>1 DEF LockSound
      <4> QED
        BY <4>1, <4>2
    <3>4. Distinct(waiters'[v]) /\ (lock[v] = None => waiters'[v] = <<>>)
      BY <2>0, <2>3, <2>6, <3>1 DEF LockSound
    <3> QED
      BY <1>1, <2>1, <3>1, <3>2, <3>3, <3>4 DEF LockSound
  <2> QED
    BY <1>8, <1>9, <2>7, <2>8 DEF WorkersIInv
<1> QED
  BY <1>10, <1>11, <1>12

LEMMA WorkersStep == WorkersIInv /\ [WorkersNext]_workerVars => WorkersIInv'
<1> SUFFICES ASSUME WorkersIInv, [WorkersNext]_workerVars PROVE WorkersIInv'
  OBVIOUS
<1>1. CASE CancelAll \/ AllCancelled
  <2>1. CASE Task = {}
    <3>1. active = {} /\ clearing = {}
      BY <2>1 DEF WorkersIInv, WorkersTypeOK
    <3> QED
      BY <1>1, <3>1 DEF CancelAll, AllCancelled
  <2>2. CASE Task # {}
    BY <1>1, <2>2, QuietSteps
  <2> QED
    BY <2>1, <2>2
<1>2. ASSUME NEW w \in Workspace, LockExpires(w) PROVE WorkersIInv'
  BY <1>2, ExpirySound
<1>3. ASSUME NEW t \in Task, Delegate(t) PROVE WorkersIInv'
  BY <1>3, DelegateSound
<1>4. ASSUME NEW t \in Task, WaitTimesOut(t) PROVE WorkersIInv'
  BY <1>4, TimeoutSound
<1>5. ASSUME NEW t \in Task, Start(t) PROVE WorkersIInv'
  BY <1>5, StartSound
<1>6. ASSUME NEW t \in Task, Cancelled(t) PROVE WorkersIInv'
  BY <1>6, CancelledSound
<1>7. ASSUME NEW t \in Task, Return(t) \/ Drained(t) PROVE WorkersIInv'
  BY <1>7, ReturnedSound
<1>8. ASSUME NEW t \in Task,
             \/ AbortPermit(t) \/ DeadlinePasses(t) \/ Escalate(t) \/ GiveUp(t)
             \/ Write(t) \/ Exit(t) \/ StreamEvent(t) \/ StreamEnds(t) \/ ThrottlePasses(t)
      PROVE WorkersIInv'
  BY <1>8, QuietSteps
<1>9. CASE UNCHANGED workerVars
  <2>1. UNCHANGED <<plan, at, aborted, late, lock, waiters, proc, shut, orphans, active, clearing,
                    out, taken, stream, result, got, throttle>>
    BY <1>9 DEF workerVars
  <2>2. WorkersTypeOK'
    BY <2>1 DEF WorkersIInv, WorkersTypeOK
  <2> QED
    BY <2>1, <2>2, TasksKept, AllLocksKept DEF WorkersIInv
<1> QED
  BY <1>1, <1>2, <1>3, <1>4, <1>5, <1>6, <1>7, <1>8, <1>9 DEF WorkersNext

LEMMA WorkersIInvImplies == WorkersIInv => WorkersInv /\ OutputKept
<1> SUFFICES ASSUME WorkersIInv PROVE WorkersInv /\ OutputKept
  OBVIOUS
<1>0. WorkersTypeOK /\ (\A v \in Workspace : LockSound(v)) /\ \A x \in Task : TaskSound(x)
  BY DEF WorkersIInv
<1>1. NoLostWakeup
  BY <1>0 DEF NoLostWakeup, LockSound
<1>2. NothingLeftBehind
  <2> SUFFICES ASSUME NEW t \in Task, at[t] = "done"
               PROVE  /\ t \notin active /\ (proc[t] = "alive" => shut[t] = "stuck")
                      /\ \A w \in Workspace : ~Holds(t, w) /\ \A i \in DOMAIN waiters[w] : waiters[w][i] # t
    BY DEF NothingLeftBehind
  <2>1. t \notin active /\ (proc[t] = "alive" => shut[t] = "stuck")
    BY <1>0 DEF TaskSound, Gone
  <2>2. \A w \in Workspace : ~Holds(t, w) /\ ~Waits(t, waiters[w])
    BY <1>0 DEF LockSound, Holds, Holding
  <2> QED
    BY <2>1, <2>2 DEF Waits
<1>3. OutputKept
  BY <1>0 DEF OutputKept, BatchComplete, ProgressShown, TaskSound
<1> QED
  BY <1>0, <1>1, <1>2, <1>3 DEF WorkersInv

LEMMA WorkersAlwaysInductive == WorkersSpec => []WorkersIInv
BY WorkersInitial, WorkersStep, PTL DEF WorkersSpec

\* A workspace lock that nobody has nobody waits for, and a delegation that is over
\* has left no lock, no place in a queue, no active handle and no process behind,
\* other than one that survived SIGKILL: in every interleaving of aborts, deadlines,
\* expiries of locks, timeouts of waits and exits of processes (workspace-lock.ts,
\* worker-gateway.ts).
THEOREM WorkersAlwaysSound == WorkersSpec => []WorkersInv
BY WorkersAlwaysInductive, WorkersIInvImplies, PTL

\* A result awaited without streaming is made from all the worker wrote, and a
\* progress event that is kept back has a timer that will show it.
THEOREM OutputAlwaysKept == WorkersSpec => []OutputKept
BY WorkersAlwaysInductive, WorkersIInvImplies, PTL

-----------------------------------------------------------------------------
(* The management agent.  What is to become of a hook's answer was decided *)
(* under its own hook_id, and the interventions still to come count.       *)

DecidingAwaits == {"context", "session", "asking", "audit"}

Deciding == {h \in Hook : await[h] \in DecidingAwaits}

HookSound(h) ==
    /\ await[h] \in {"idle", "bypass", "context", "session", "asking"} => answer[h] = "proceed"
    /\ await[h] = "audit" => answer[h] \in given[h]
    /\ await[h] \in {"logging", "done"} /\ answer[h] # "proceed" =>
         answer[h] \in given[h] /\ KindOf[h] \in PermittedAt(answer[h])
    /\ file[h] # Unset /\ file[h].hook \in {h, Unset} =>
         await[h] = "done" \/ file[h].directive \in given[h]

CapturedSound ==
    captured # Unset => /\ captured.hook \in Hook /\ captured.directive \in Directives
                        /\ \/ await[captured.hook] = "done"
                           \/ captured.directive \in given[captured.hook]

\* A hook that is deciding may still add one to the count of interventions.
CountsBounded ==
    /\ Cardinality(InFlight) <= Concurrency
    /\ streak + Cardinality(Deciding) < MaxInterventions + Concurrency

HooksIInv == HooksTypeOK /\ (\A h \in Hook : HookSound(h)) /\ CapturedSound /\ CountsBounded

LEMMA HookFacts ==
    /\ IsFiniteSet(Hook) /\ IsFiniteSet(InFlight) /\ IsFiniteSet(Deciding)
    /\ Deciding \subseteq InFlight
    /\ Cardinality(InFlight) \in Nat /\ Cardinality(Deciding) \in Nat
    /\ Cardinality(Deciding) <= Cardinality(InFlight)
<1>1. IsFiniteSet(Hook)
  BY ManagementAssumption, FS_Interval DEF Hook
<1>2. Deciding \subseteq InFlight /\ InFlight \subseteq Hook
  BY DEF Deciding, InFlight, DecidingAwaits
<1>3. IsFiniteSet(InFlight)
  BY <1>1, <1>2, FS_Subset
<1>4. IsFiniteSet(Deciding) /\ Cardinality(Deciding) <= Cardinality(InFlight)
  BY <1>2, <1>3, FS_Subset
<1> QED
  BY <1>1, <1>2, <1>3, <1>4, FS_CardinalityType

LEMMA HooksInitial == HooksInit => HooksIInv
<1> SUFFICES ASSUME HooksInit PROVE HooksIInv
  OBVIOUS
<1>1. HooksTypeOK /\ CapturedSound /\ \A h \in Hook : HookSound(h)
  BY DEF HooksInit, HooksTypeOK, HookSound, CapturedSound, Awaits, Actions
<1>2. InFlight = {} /\ Deciding = {}
  BY DEF HooksInit, InFlight, Deciding, DecidingAwaits
<1>3. CountsBounded
  BY <1>2, FS_EmptySet, ManagementAssumption DEF CountsBounded, HooksInit
<1> QED
  BY <1>1, <1>3 DEF HooksIInv

LEMMA HookKept ==
    ASSUME NEW h \in Hook, HookSound(h), await'[h] = await[h], answer'[h] = answer[h],
           given[h] \subseteq given'[h], file'[h] = file[h]
    PROVE  HookSound(h)'
BY DEF HookSound

LEMMA CapturedKept ==
    ASSUME CapturedSound, captured' = captured \/ captured' = Unset,
           \A h \in Hook : await[h] = "done" => await'[h] = "done",
           \A h \in Hook : given[h] \subseteq given'[h]
    PROVE  CapturedSound'
BY DEF CapturedSound

\* A hook in flight goes on: it is deciding, or it is no more.
LEMMA GoesCount ==
    ASSUME HooksTypeOK, NEW h \in Hook, NEW next \in Awaits \ {"idle"}, await[h] # "idle",
           Goes(h, next)
    PROVE  /\ await' \in [Hook -> Awaits] /\ await'[h] = next
           /\ \A i \in Hook : i # h => await'[i] = await[i]
           /\ Cardinality(InFlight') \in Nat /\ Cardinality(Deciding') \in Nat
           /\ await[h] # "done" => Cardinality(InFlight') <= Cardinality(InFlight)
           /\ await[h] \in DecidingAwaits => Cardinality(Deciding') <= Cardinality(Deciding)
           /\ next \notin DecidingAwaits => Cardinality(Deciding') <= Cardinality(Deciding)
           /\ await[h] \in DecidingAwaits /\ next \notin DecidingAwaits =>
                Cardinality(Deciding') = Cardinality(Deciding) - 1
<1>1. /\ await' \in [Hook -> Awaits] /\ await'[h] = next
      /\ \A i \in Hook : i # h => await'[i] = await[i]
  BY DEF HooksTypeOK, Goes
<1>2. /\ await[h] # "done" => InFlight' \subseteq InFlight
      /\ await[h] \in DecidingAwaits \/ next \notin DecidingAwaits => Deciding' \subseteq Deciding
      /\ await[h] \in DecidingAwaits /\ next \notin DecidingAwaits => Deciding' = Deciding \ {h} /\ h \in Deciding
  BY <1>1 DEF InFlight, Deciding
<1>3. Deciding' \subseteq Hook /\ InFlight' \subseteq Hook
  BY DEF Deciding, InFlight
<1>4. Cardinality(InFlight') \in Nat /\ Cardinality(Deciding') \in Nat
  BY <1>3, HookFacts, FS_Subset, FS_CardinalityType
<1>5. InFlight' \subseteq InFlight => Cardinality(InFlight') <= Cardinality(InFlight)
  BY HookFacts, FS_Subset
<1>6. Deciding' \subseteq Deciding => Cardinality(Deciding') <= Cardinality(Deciding)
  BY HookFacts, FS_Subset
<1>7. Deciding' = Deciding \ {h} /\ h \in Deciding => Cardinality(Deciding') = Cardinality(Deciding) - 1
  BY HookFacts, FS_RemoveElement
<1> QED
  BY <1>1, <1>2, <1>4, <1>5, <1>6, <1>7

LEMMA ConcludeFacts ==
    ASSUME HooksTypeOK, NEW h \in Hook, NEW directive \in Actions, NEW genuine \in BOOLEAN,
           Conclude(h, directive, genuine)
    PROVE  /\ Goes(h, "logging") /\ answer' \in [Hook -> Actions]
           /\ \A i \in Hook : i # h => answer'[i] = answer[i]
           /\ answer'[h] # "proceed" => answer'[h] = directive /\ KindOf[h] \in PermittedAt(directive)
           /\ streak' \in {0, streak, streak + 1}
<1>1. "proceed" \in Actions
  BY DEF Actions
<1>2. PICK valid \in BOOLEAN : valid <=> Permitted(directive, KindOf[h])
  OBVIOUS
<1>3. valid => KindOf[h] \in PermittedAt(directive)
  BY <1>2 DEF Permitted
<1> DEFINE final == IF valid THEN directive ELSE "proceed"
<1>4. /\ Goes(h, "logging") /\ answer' = [answer EXCEPT ![h] = final]
      /\ streak' = IF final = "proceed" THEN 0 ELSE IF genuine THEN streak + 1 ELSE streak
  BY <1>2 DEF Conclude
<1>5. final \in Actions /\ (final # "proceed" => final = directive /\ valid)
  BY <1>1
<1> HIDE DEF final
<1> QED
  BY <1>3, <1>4, <1>5 DEF HooksTypeOK

LEMMA HookTypes ==
    ASSUME HooksTypeOK
    PROVE  /\ await \in [Hook -> Awaits] /\ answer \in [Hook -> Actions] /\ streak \in Nat
           /\ given \in [Hook -> SUBSET Directives] /\ file \in [Hook -> Decision \cup {Unset}]
           /\ turn \in [Hook -> {"none", "open", "over"}]
BY DEF HooksTypeOK

\* The engine's directive for a hook is concluded with.
LEMMA ConcludeSound ==
    ASSUME HooksIInv, NEW h \in Hook, await[h] \in DecidingAwaits, NEW directive \in Actions,
           directive = "proceed" \/ directive \in given[h], NEW genuine \in BOOLEAN,
           Conclude(h, directive, genuine), accepting' \in BOOLEAN,
           turn' \in [Hook -> {"none", "open", "over"}],
           UNCHANGED <<engine, closing, wfAborted, session, captured, file, given>>
    PROVE  HooksIInv'
<1>0. HooksTypeOK /\ CapturedSound /\ CountsBounded /\ \A i \in Hook : HookSound(i)
  BY DEF HooksIInv
<1>1. /\ Goes(h, "logging") /\ answer' \in [Hook -> Actions]
      /\ \A i \in Hook : i # h => answer'[i] = answer[i]
      /\ answer'[h] # "proceed" => answer'[h] = directive /\ KindOf[h] \in PermittedAt(directive)
      /\ streak' \in {0, streak, streak + 1}
  BY <1>0, ConcludeFacts
<1>2. "logging" \in Awaits \ {"idle"} /\ "logging" \notin DecidingAwaits /\ await[h] \notin {"idle", "done"}
  BY DEF Awaits, DecidingAwaits
<1>3. /\ await' \in [Hook -> Awaits] /\ await'[h] = "logging"
      /\ \A i \in Hook : i # h => await'[i] = await[i]
      /\ Cardinality(InFlight') \in Nat /\ Cardinality(Deciding') \in Nat
      /\ Cardinality(InFlight') <= Cardinality(InFlight)
      /\ Cardinality(Deciding') = Cardinality(Deciding) - 1
  BY <1>0, <1>1, <1>2, GoesCount
<1>4. streak' \in Nat
  BY <1>0, <1>1, HookTypes
<1>5. HooksTypeOK'
  BY <1>0, <1>1, <1>3, <1>4 DEF HooksTypeOK
<1>6. HookSound(h)'
  BY <1>0, <1>1, <1>2, <1>3 DEF HookSound
<1>7. \A i \in Hook : i # h => HookSound(i)'
  BY <1>0, <1>1, <1>3, HookKept
<1>8. CapturedSound'
  BY <1>0, <1>2, <1>3, CapturedKept
<1>9. CountsBounded'
  BY <1>0, <1>1, <1>3, HookFacts, HookTypes, ManagementAssumption DEF CountsBounded
<1> QED
  BY <1>5, <1>6, <1>7, <1>8, <1>9 DEF HooksIInv

LEMMA FallbackSound ==
    ASSUME HooksIInv, NEW h \in Hook, await[h] \in DecidingAwaits, Fallback(h),
           turn' \in [Hook -> {"none", "open", "over"}]
    PROVE  HooksIInv'
<1>1. "proceed" \in Actions /\ FALSE \in BOOLEAN /\ Conclude(h, "proceed", FALSE) /\ accepting' \in BOOLEAN
      /\ UNCHANGED <<engine, closing, wfAborted, session, captured, file, given>>
  BY DEF Fallback, Actions
<1> QED
  BY <1>1, ConcludeSound

\* A hook that is in flight moves on without a directive.
LEMMA OnwardSound ==
    ASSUME HooksIInv, NEW h \in Hook, NEW next \in Awaits, Goes(h, next),
           \/ await[h] = "bypass" /\ next = "logging"
           \/ await[h] = "context" /\ next \in {"done", "asking", "session"}
           \/ await[h] = "session" /\ next = "asking"
           \/ await[h] = "logging" /\ next = "done",
           \/ answer' = answer
           \/ await[h] = "logging" /\ answer' = [answer EXCEPT ![h] = "proceed"],
           streak' \in {0, streak}, wfAborted' \in BOOLEAN, accepting' \in BOOLEAN,
           session' \in {"none", "creating", "ready", "failed"},
           turn' \in [Hook -> {"none", "open", "over"}],
           captured' = captured \/ captured' = Unset,
           UNCHANGED <<engine, closing, file, given>>
    PROVE  HooksIInv'
<1>0. HooksTypeOK /\ CapturedSound /\ CountsBounded /\ \A i \in Hook : HookSound(i)
  BY DEF HooksIInv
<1>1. next \in Awaits \ {"idle"} /\ await[h] # "idle" /\ await[h] # "done"
  OBVIOUS
<1>2. await[h] \in DecidingAwaits \/ next \notin DecidingAwaits
  BY DEF DecidingAwaits
<1>3. /\ await' \in [Hook -> Awaits] /\ await'[h] = next
      /\ \A i \in Hook : i # h => await'[i] = await[i]
      /\ Cardinality(InFlight') \in Nat /\ Cardinality(Deciding') \in Nat
      /\ Cardinality(InFlight') <= Cardinality(InFlight)
      /\ Cardinality(Deciding') <= Cardinality(Deciding)
  BY <1>0, <1>1, <1>2, GoesCount
<1>4. /\ answer' \in [Hook -> Actions] /\ \A i \in Hook : i # h => answer'[i] = answer[i]
      /\ answer'[h] = answer[h] \/ answer'[h] = "proceed"
  BY <1>0, HookTypes DEF Actions
<1>5. streak' \in Nat
  BY <1>0, HookTypes
<1>6. HooksTypeOK'
  BY <1>0, <1>3, <1>4, <1>5 DEF HooksTypeOK
<1>7. HookSound(h)'
  BY <1>0, <1>3, <1>4 DEF HookSound
<1>8. \A i \in Hook : i # h => HookSound(i)'
  BY <1>0, <1>3, <1>4, HookKept
<1>9. CapturedSound'
  BY <1>0, <1>1, <1>3, CapturedKept
<1>10. CountsBounded'
  BY <1>0, <1>3, HookFacts, HookTypes, ManagementAssumption DEF CountsBounded
<1> QED
  BY <1>6, <1>7, <1>8, <1>9, <1>10 DEF HooksIInv

\* A step that changes neither an await nor an answer.
LEMMA StillSound ==
    ASSUME HooksIInv, HooksTypeOK', CapturedSound', UNCHANGED <<await, answer, streak>>,
           \A h \in Hook : given[h] \subseteq given'[h],
           \A h \in Hook : file'[h] = file[h] \/ HookSound(h)'
    PROVE  HooksIInv'
<1>0. HooksTypeOK /\ CountsBounded /\ \A i \in Hook : HookSound(i)
  BY DEF HooksIInv
<1>1. \A i \in Hook : HookSound(i)'
  BY <1>0, HookKept
<1>2. CountsBounded'
  <2>1. InFlight' = InFlight /\ Deciding' = Deciding
    BY DEF InFlight, Deciding
  <2> QED
    BY <1>0, <2>1 DEF CountsBounded
<1> QED
  BY <1>1, <1>2 DEF HooksIInv

\* A hook is called: one of those in flight that decide, if it is not bypassed.
LEMMA CallSound ==
    ASSUME HooksIInv, NEW h \in Hook, Call(h)
    PROVE  HooksIInv'
<1> DEFINE next == IF Bypassed THEN "bypass" ELSE "context"
<1>0. HooksTypeOK /\ CapturedSound /\ CountsBounded /\ \A i \in Hook : HookSound(i)
  BY DEF HooksIInv
<1>1. /\ await[h] = "idle" /\ Cardinality(InFlight) < Concurrency /\ Goes(h, next)
      /\ UNCHANGED <<engine, answer, streak, closing, wfAborted, session, accepting, captured, turn,
                     file, given>>
  BY DEF Call, engineVars
<1>2. next \in {"bypass", "context"} /\ next \in Awaits \ {"idle"} /\ (next = "context" => streak < MaxInterventions)
  BY <1>0, HookTypes, ManagementAssumption DEF Awaits, Bypassed
<1> HIDE DEF next
<1>3. /\ await' \in [Hook -> Awaits] /\ await'[h] = next
      /\ \A i \in Hook : i # h => await'[i] = await[i]
  BY <1>0, <1>1, <1>2 DEF HooksTypeOK, Goes
<1>4. InFlight' = InFlight \cup {h} /\ h \notin InFlight
  BY <1>1, <1>2, <1>3 DEF InFlight
<1>5. Cardinality(InFlight') = Cardinality(InFlight) + 1
  BY <1>4, HookFacts, FS_AddElement
<1>6. Deciding' = (IF next = "context" THEN Deciding \cup {h} ELSE Deciding) /\ h \notin Deciding
  BY <1>1, <1>2, <1>3 DEF Deciding, DecidingAwaits
<1>7. Cardinality(Deciding') = Cardinality(Deciding) + (IF next = "context" THEN 1 ELSE 0)
  <2>1. Cardinality(Deciding \cup {h}) = Cardinality(Deciding) + 1
    BY <1>6, HookFacts, FS_AddElement
  <2> QED
    BY <1>6, <2>1, HookFacts
<1>8. CountsBounded'
  BY <1>0, <1>1, <1>2, <1>5, <1>7, HookFacts, HookTypes, ManagementAssumption DEF CountsBounded
<1>9. HooksTypeOK'
  BY <1>0, <1>1, <1>3 DEF HooksTypeOK
<1>10. HookSound(h)'
  BY <1>0, <1>1, <1>2, <1>3 DEF HookSound
<1>11. \A i \in Hook : i # h => HookSound(i)'
  BY <1>0, <1>1, <1>3, HookKept
<1>12. CapturedSound'
  BY <1>0, <1>1, <1>3, CapturedKept
<1> QED
  BY <1>8, <1>9, <1>10, <1>11, <1>12 DEF HooksIInv

LEMMA TurnOver ==
    ASSUME HooksTypeOK, NEW h \in Hook, NEW s \in {"open", "over"}, turn' = [turn EXCEPT ![h] = s]
    PROVE  turn' \in [Hook -> {"none", "open", "over"}]
BY DEF HooksTypeOK

LEMMA DecisionFacts ==
    ASSUME NEW d \in Decision
    PROVE  d.hook \in Hook \cup {Unset} /\ d.directive \in Directives /\ d.directive \in Actions
BY ManagementAssumption DEF Decision

\* The agent calls the decision tool.
LEMMA ToolCallSound ==
    ASSUME HooksIInv, NEW h \in Hook, NEW id \in Hook, NEW d \in Directives, ToolCall(h, id, d)
    PROVE  HooksIInv'
<1>0. HooksTypeOK /\ CapturedSound /\ \A i \in Hook : HookSound(i)
  BY DEF HooksIInv
<1>1. /\ captured' = [hook |-> id, directive |-> d] /\ turn' = [turn EXCEPT ![h] = "over"]
      /\ given' = IF await[id] = "done" THEN given ELSE [given EXCEPT ![id] = @ \cup {d}]
      /\ UNCHANGED <<engine, await, answer, streak, closing, wfAborted, session, accepting, file>>
  BY DEF ToolCall
<1>2. /\ captured' \in Decision /\ captured'.hook = id /\ captured'.directive = d
  BY <1>1 DEF Decision
<1>3. /\ given' \in [Hook -> SUBSET Directives] /\ \A i \in Hook : given[i] \subseteq given'[i]
      /\ await[id] = "done" \/ d \in given'[id]
  BY <1>0, <1>1 DEF HooksTypeOK
<1>4. turn' \in [Hook -> {"none", "open", "over"}]
  BY <1>0, <1>1, TurnOver
<1>5. HooksTypeOK'
  BY <1>0, <1>1, <1>2, <1>3, <1>4 DEF HooksTypeOK
<1>6. CapturedSound'
  BY <1>1, <1>2, <1>3 DEF CapturedSound
<1> QED
  BY <1>1, <1>3, <1>5, <1>6, StillSound

\* The worker writes its decision.
LEMMA WorkerWritesSound ==
    ASSUME HooksIInv, NEW h \in Hook, NEW id \in Hook \cup {Unset}, NEW d \in Directives,
           WorkerWrites(h, id, d)
    PROVE  HooksIInv'
<1>0. HooksTypeOK /\ CapturedSound /\ \A i \in Hook : HookSound(i)
  BY DEF HooksIInv
<1> DEFINE f == [hook |-> id, directive |-> d]
<1>1. /\ file' = [file EXCEPT ![h] = f] /\ turn' = [turn EXCEPT ![h] = "over"]
      /\ given' = IF id \in {h, Unset} /\ await[h] # "done" THEN [given EXCEPT ![h] = @ \cup {d}] ELSE given
      /\ UNCHANGED <<engine, await, answer, streak, closing, wfAborted, session, accepting, captured>>
  BY DEF WorkerWrites
<1>2. f \in Decision /\ f.hook = id /\ f.directive = d
  BY DEF Decision
<1> HIDE DEF f
<1>3. /\ file' \in [Hook -> Decision \cup {Unset}] /\ file'[h] = f
      /\ \A i \in Hook : i # h => file'[i] = file[i]
  BY <1>0, <1>1, <1>2 DEF HooksTypeOK
<1>4. /\ given' \in [Hook -> SUBSET Directives] /\ \A i \in Hook : given[i] \subseteq given'[i]
      /\ id \in {h, Unset} => await[h] = "done" \/ d \in given'[h]
  BY <1>0, <1>1 DEF HooksTypeOK
<1>5. turn' \in [Hook -> {"none", "open", "over"}]
  BY <1>0, <1>1, TurnOver
<1>6. HooksTypeOK'
  BY <1>0, <1>1, <1>3, <1>4, <1>5 DEF HooksTypeOK
<1>7. CapturedSound'
  BY <1>0, <1>1, <1>4, CapturedKept
<1>8. HookSound(h)'
  BY <1>0, <1>1, <1>2, <1>3, <1>4 DEF HookSound
<1> QED
  BY <1>1, <1>3, <1>4, <1>6, <1>7, <1>8, StillSound

\* session.prompt returns, with a decision that was captured for this hook.
LEMMA PromptEndsSound ==
    ASSUME HooksIInv, NEW h \in Hook, PromptEnds(h)
    PROVE  HooksIInv'
<1>0. HooksTypeOK /\ CapturedSound /\ CountsBounded /\ \A i \in Hook : HookSound(i)
  BY DEF HooksIInv
<1>1. await[h] = "asking" /\ turn' = [turn EXCEPT ![h] = "over"]
  BY DEF PromptEnds
<1>2. turn' \in [Hook -> {"none", "open", "over"}]
  BY <1>0, <1>1, TurnOver
<1>3. CASE ~Answered(h)
  BY <1>1, <1>2, <1>3, FallbackSound DEF PromptEnds, DecidingAwaits
<1>4. CASE Answered(h)
  <2>1. /\ Goes(h, "audit") /\ answer' = [answer EXCEPT ![h] = captured.directive]
        /\ UNCHANGED <<engine, streak, closing, wfAborted, session, captured, file, given>>
        /\ accepting' = FALSE
    BY <1>4 DEF PromptEnds
  <2>2. captured # Unset /\ captured.hook = h /\ captured.directive \in given[h] /\ captured.directive \in Actions
    BY <1>0, <1>1, <1>4, ManagementAssumption DEF Answered, CapturedSound
  <2>3. "audit" \in Awaits \ {"idle"} /\ "audit" \in DecidingAwaits /\ await[h] \in DecidingAwaits
        /\ await[h] # "idle" /\ await[h] # "done"
    BY <1>1 DEF Awaits, DecidingAwaits
  <2>4. /\ await' \in [Hook -> Awaits] /\ await'[h] = "audit"
        /\ \A i \in Hook : i # h => await'[i] = await[i]
        /\ Cardinality(InFlight') \in Nat /\ Cardinality(Deciding') \in Nat
        /\ Cardinality(InFlight') <= Cardinality(InFlight)
        /\ Cardinality(Deciding') <= Cardinality(Deciding)
    BY <1>0, <2>1, <2>3, GoesCount
  <2>5. /\ answer' \in [Hook -> Actions] /\ answer'[h] = captured.directive
        /\ \A i \in Hook : i # h => answer'[i] = answer[i]
    BY <1>0, <2>1, <2>2 DEF HooksTypeOK
  <2>6. HooksTypeOK'
    BY <1>0, <1>2, <2>1, <2>4, <2>5 DEF HooksTypeOK
  <2>7. HookSound(h)'
    BY <1>0, <1>1, <2>1, <2>2, <2>4, <2>5 DEF HookSound
  <2>8. \A i \in Hook : i # h => HookSound(i)'
    BY <1>0, <2>1, <2>4, <2>5, HookKept
  <2>9. CapturedSound'
    BY <1>0, <2>1, <2>3, <2>4, CapturedKept
  <2>10. CountsBounded'
    BY <1>0, <2>1, <2>4, HookFacts, HookTypes, ManagementAssumption DEF CountsBounded
  <2> QED
    BY <2>6, <2>7, <2>8, <2>9, <2>10 DEF HooksIInv
<1> QED
  BY <1>3, <1>4

\* The worker returns: its file, if there is one, is of this hook.
LEMMA WorkerEndsSound ==
    ASSUME HooksIInv, NEW h \in Hook, WorkerEnds(h)
    PROVE  HooksIInv'
<1>0. HooksTypeOK /\ HookSound(h)
  BY DEF HooksIInv
<1>1. await[h] = "asking" /\ turn' = [turn EXCEPT ![h] = "over"]
      /\ UNCHANGED <<engine, closing, wfAborted, session, accepting, captured, file, given>>
  BY DEF WorkerEnds
<1>2. turn' \in [Hook -> {"none", "open", "over"}] /\ accepting' \in BOOLEAN /\ await[h] \in DecidingAwaits
  BY <1>0, <1>1, TurnOver DEF HooksTypeOK, DecidingAwaits
<1>3. CASE file[h] # Unset /\ file[h].hook \in {h, Unset}
  <2>1. Conclude(h, file[h].directive, TRUE)
    BY <1>3 DEF WorkerEnds
  <2>2. file[h].directive \in Actions
    BY <1>0, <1>3, DecisionFacts DEF HooksTypeOK
  <2>3. file[h].directive \in given[h]
    BY <1>0, <1>1, <1>3 DEF HookSound
  <2> QED
    BY <1>1, <1>2, <2>1, <2>2, <2>3, ConcludeSound
<1>4. CASE ~(file[h] # Unset /\ file[h].hook \in {h, Unset})
  <2>1. Conclude(h, "proceed", FALSE) /\ "proceed" \in Actions
    BY <1>4 DEF WorkerEnds, Actions
  <2> QED
    BY <1>1, <1>2, <2>1, ConcludeSound
<1> QED
  BY <1>3, <1>4

\* The steps of a hook other than the answers of its engine.
LEMMA HookMoves ==
    ASSUME HooksIInv, NEW h \in Hook,
           \/ Bypass(h) \/ ContextWritten(h) \/ PromptStart(h) \/ Logged(h) \/ LogFails(h)
    PROVE  HooksIInv'
<1>0. HooksTypeOK
  BY DEF HooksIInv
<1>1. /\ "logging" \in Awaits /\ "done" \in Awaits /\ "asking" \in Awaits /\ "session" \in Awaits
  BY DEF Awaits
<1>2. /\ wfAborted \in BOOLEAN /\ accepting \in BOOLEAN /\ session \in {"none", "creating", "ready", "failed"}
      /\ turn \in [Hook -> {"none", "open", "over"}]
  BY <1>0 DEF HooksTypeOK
<1>3. CASE Bypass(h)
  BY <1>1, <1>2, <1>3, OnwardSound DEF Bypass, engineVars
<1>4. CASE ContextWritten(h)
  <2>1. CASE wfAborted /\ Goes(h, "done") /\ UNCHANGED engineVars
    BY <1>1, <1>2, <1>4, <2>1, OnwardSound DEF ContextWritten, engineVars
  <2>2. CASE engine = "worker" /\ Goes(h, "asking") /\ turn' = [turn EXCEPT ![h] = "open"]
             /\ UNCHANGED <<session, accepting, captured, file, given>>
    <3>1. turn' \in [Hook -> {"none", "open", "over"}]
      BY <1>0, <2>2, TurnOver
    <3> QED
      BY <1>1, <1>2, <1>4, <2>2, <3>1, OnwardSound DEF ContextWritten
  <2>3. CASE engine = "pi" /\ Goes(h, "session") /\ captured' = Unset /\ accepting' = TRUE
             /\ session' = (IF session = "none" THEN "creating" ELSE session)
             /\ UNCHANGED <<turn, file, given>>
    <3>1. session' \in {"none", "creating", "ready", "failed"}
      BY <1>2, <2>3
    <3> QED
      BY <1>1, <1>2, <1>4, <2>3, <3>1, OnwardSound DEF ContextWritten
  <2> QED
    BY <1>4, <2>1, <2>2, <2>3 DEF ContextWritten
<1>5. CASE PromptStart(h)
  <2>1. turn' \in [Hook -> {"none", "open", "over"}]
    BY <1>0, <1>5, TurnOver DEF PromptStart
  <2> QED
    BY <1>1, <1>2, <1>5, <2>1, OnwardSound DEF PromptStart
<1>6. CASE Logged(h)
  BY <1>1, <1>2, <1>6, OnwardSound DEF Logged, engineVars
<1>7. CASE LogFails(h)
  BY <1>1, <1>2, <1>7, OnwardSound DEF LogFails, engineVars
<1> QED
  BY <1>3, <1>4, <1>5, <1>6, <1>7

\* The steps of the session and of the workflow.
LEMMA HookSurroundings ==
    ASSUME HooksIInv,
           \/ \E how \in {"ready", "failed"} : SessionEnds(how)
           \/ Dispose \/ WorkflowNearsEnd \/ WorkflowAborted \/ (\E h \in Hook : ToolRejects(h))
           \/ UNCHANGED hookVars
    PROVE  HooksIInv'
<1>0. HooksTypeOK /\ CapturedSound
  BY DEF HooksIInv
<1>1. /\ UNCHANGED <<engine, await, answer, streak, captured, file, given>>
      /\ closing' \in BOOLEAN /\ wfAborted' \in BOOLEAN /\ accepting' = accepting
      /\ session' \in {"none", "creating", "ready", "failed"}
      /\ turn' = turn \/ \E h \in Hook : turn' = [turn EXCEPT ![h] = "over"]
  BY <1>0 DEF SessionEnds, Dispose, WorkflowNearsEnd, WorkflowAborted, ToolRejects, hookVars,
              engineVars, HooksTypeOK
<1>2. turn' \in [Hook -> {"none", "open", "over"}]
  BY <1>0, <1>1, TurnOver, HookTypes
<1>3. HooksTypeOK'
  BY <1>0, <1>1, <1>2 DEF HooksTypeOK
<1>4. CapturedSound'
  BY <1>0, <1>1, CapturedKept
<1> QED
  BY <1>1, <1>3, <1>4, StillSound

LEMMA HooksStep == HooksIInv /\ [HooksNext]_hookVars => HooksIInv'
<1> SUFFICES ASSUME HooksIInv, [HooksNext]_hookVars PROVE HooksIInv'
  OBVIOUS
<1>0. HooksTypeOK /\ \A i \in Hook : HookSound(i)
  BY DEF HooksIInv
<1>1. ASSUME NEW h \in Hook, Call(h) PROVE HooksIInv'
  BY <1>1, CallSound
<1>2. ASSUME NEW h \in Hook, Bypass(h) \/ ContextWritten(h) \/ PromptStart(h) \/ Logged(h) \/ LogFails(h)
      PROVE  HooksIInv'
  BY <1>2, HookMoves
<1>3. ASSUME NEW h \in Hook, NoSession(h) \/ Expire(h) PROVE HooksIInv'
  <2>1. Fallback(h) /\ UNCHANGED turn /\ await[h] \in DecidingAwaits
    BY <1>3 DEF NoSession, Expire, DecidingAwaits
  <2> QED
    BY <1>0, <2>1, FallbackSound, HookTypes
<1>4. ASSUME NEW h \in Hook, PromptFails(h) PROVE HooksIInv'
  <2>1. Fallback(h) /\ turn' = [turn EXCEPT ![h] = "over"] /\ await[h] \in DecidingAwaits
    BY <1>4 DEF PromptFails, DecidingAwaits
  <2> QED
    BY <1>0, <2>1, FallbackSound, TurnOver
<1>5. ASSUME NEW h \in Hook, Audited(h) PROVE HooksIInv'
  <2>1. /\ await[h] = "audit" /\ Conclude(h, answer[h], TRUE) /\ accepting' = FALSE
        /\ UNCHANGED <<engine, closing, wfAborted, session, captured, turn, file, given>>
    BY <1>5 DEF Audited
  <2>2. answer[h] \in Actions /\ answer[h] \in given[h] /\ await[h] \in DecidingAwaits
        /\ turn' \in [Hook -> {"none", "open", "over"}]
    BY <1>0, <2>1, HookTypes DEF HookSound, DecidingAwaits
  <2> QED
    BY <2>1, <2>2, ConcludeSound
<1>6. ASSUME NEW h \in Hook, NEW id \in Hook, NEW d \in Directives, ToolCall(h, id, d) PROVE HooksIInv'
  BY <1>6, ToolCallSound
<1>7. ASSUME NEW h \in Hook, NEW id \in Hook \cup {Unset}, NEW d \in Directives, WorkerWrites(h, id, d)
      PROVE  HooksIInv'
  BY <1>7, WorkerWritesSound
<1>8. ASSUME NEW h \in Hook, PromptEnds(h) PROVE HooksIInv'
  BY <1>8, PromptEndsSound
<1>9. ASSUME NEW h \in Hook, WorkerEnds(h) PROVE HooksIInv'
  BY <1>9, WorkerEndsSound
<1> QED
  BY <1>1, <1>2, <1>3, <1>4, <1>5, <1>6, <1>7, <1>8, <1>9, HookSurroundings DEF HooksNext, HookStep

LEMMA HooksIInvImplies == HooksIInv => HooksInv
<1> SUFFICES ASSUME HooksIInv PROVE HooksInv
  OBVIOUS
<1>1. Attributed
  BY DEF HooksIInv, Attributed, HookSound
<1>2. InterventionsBounded
  BY HookFacts, HookTypes, ManagementAssumption DEF HooksIInv, CountsBounded, InterventionsBounded
<1> QED
  BY <1>1, <1>2 DEF HooksInv, HooksIInv

\* Whatever hooks run at the same time, time out or answer late, a directive other
\* than proceed was decided under the hook's own hook_id and is permitted at the
\* hook; and hooks in flight together exceed the limit of consecutive interventions
\* by no more than their number (management-controller.ts, pi-sdk-engine.ts).
THEOREM HooksAlwaysAttributed == HooksSpec => []HooksInv
<1>1. HooksSpec => []HooksIInv
  BY HooksInitial, HooksStep, PTL DEF HooksSpec
<1> QED
  BY <1>1, HooksIInvImplies, PTL

-----------------------------------------------------------------------------
(* The sentinel: one guard runs at a time, the clock of its run is as old  *)
(* as the silence it measures, the probe's counts are those of the reports *)
(* it has judged, and a decision, once made, stands.                       *)

ProbeStates == {"off", "due", "probing", "logging", "writing", "noting"}

Prober == [at: ProbeStates, decided: Kind \cup {Nil}, report: Report,
           last: Digest \cup {Nil}, same: Nat, errors: Nat]

CountsSound(p, reports) ==
    /\ LastFailed(reports, p.errors)
    /\ LastSame(reports, p.same, p.last)
    /\ p.same > 0 => p.last \in Digest

RunSound(g) ==
    /\ run[g] # "waiting" => \A i \in 1..(g - 1) : run[i] = "ended"
    /\ ran[g] <= policy[g].timeout
    /\ run[g] = "running" => silent <= ran[g] \/ ran[g] = policy[g].timeout

OutputSound(g) ==
    /\ output[g].at = "watching" => run[g] = "running"
    /\ output[g].at = "writing" => output[g].decided # Nil
    /\ output[g].decided \in {Nil, "no_output"}
    /\ output[g].decided # Nil => ran[g] = policy[g].timeout

ProbeSound(g) ==
    /\ probe[g].at # "off" => run[g] # "waiting"
    /\ run[g] = "waiting" => probe[g].decided = Nil
    /\ probe[g].at \in {"due", "probing", "logging", "noting"} => probe[g].decided = Nil
    /\ probe[g].at = "writing" => probe[g].decided # Nil
    /\ CountsSound(probe[g], heard[g])
    /\ probe[g].decided # Nil => Stands(g, probe[g].decided, heard[g])

SignalSound(g) ==
    /\ signal[g] = "sentinel" => trigger[g] \in {output[g].decided, probe[g].decided} \ {Nil}
    /\ outcome[g] = "on_terminal" => probe[g].decided = "terminal"

SentinelIInv ==
    /\ SentinelTypeOK /\ probe \in [Guard -> Prober]
    /\ \A g \in Guard : RunSound(g) /\ OutputSound(g) /\ ProbeSound(g) /\ SignalSound(g)

LEMMA SinceFacts ==
    ASSUME NEW reports \in Seq(Report), NEW k \in 1..(Len(reports) + 1)
    PROVE  /\ Since(reports, k) \subseteq 1..Len(reports)
           /\ IsFiniteSet(Since(reports, k)) /\ Cardinality(Since(reports, k)) \in Nat
<1>1. Len(reports) \in Nat
  OBVIOUS
<1>2. Since(reports, k) \subseteq 1..Len(reports)
  BY <1>1 DEF Since
<1>3. IsFiniteSet(1..Len(reports))
  BY <1>1, FS_Interval
<1> QED
  BY <1>2, <1>3, FS_Subset, FS_CardinalityType

LEMMA NoneCounted ==
    ASSUME NEW reports \in Seq(Report), NEW d
    PROVE  LastFailed(reports, 0) /\ LastSame(reports, 0, d)
<1>1. Len(reports) \in Nat
  OBVIOUS
<1>2. LastFailed(reports, 0)
  BY <1>1 DEF LastFailed
<1>3. Len(reports) + 1 \in 1..(Len(reports) + 1) /\ Since(reports, Len(reports) + 1) = {}
  BY <1>1 DEF Since
<1>4. Cardinality(Since(reports, Len(reports) + 1)) >= 0
  <2>1. Cardinality(Since(reports, Len(reports) + 1)) = 0
    BY <1>3, FS_EmptySet
  <2> QED
    BY <2>1
<1> QED
  BY <1>2, <1>3, <1>4 DEF LastSame

LEMMA FewerCounted ==
    ASSUME NEW reports \in Seq(Report), NEW n \in Nat, NEW m \in Nat, m <= n, NEW d
    PROVE  /\ LastFailed(reports, n) => LastFailed(reports, m)
           /\ LastSame(reports, n, d) => LastSame(reports, m, d)
<1>1. Len(reports) \in Nat
  OBVIOUS
<1>2. LastFailed(reports, n) => LastFailed(reports, m)
  BY <1>1 DEF LastFailed
<1>3. ASSUME LastSame(reports, n, d) PROVE LastSame(reports, m, d)
  <2>1. PICK k \in 1..(Len(reports) + 1) :
          /\ Cardinality(Since(reports, k)) >= n
          /\ \A i \in Since(reports, k) : reports[i] = [class |-> "unchanged", digest |-> d]
    BY <1>3 DEF LastSame
  <2>2. Cardinality(Since(reports, k)) >= m
    BY <2>1, SinceFacts
  <2> QED
    BY <2>1, <2>2 DEF LastSame
<1> QED
  BY <1>2, <1>3

LEMMA ReportFacts ==
    ASSUME NEW r \in Report
    PROVE  /\ r.class \in {"failed", "terminal", "progressing", "unchanged"}
           /\ r.class \in {"progressing", "unchanged"} => r.digest \in Digest
           /\ r.class = "unchanged" => r = [class |-> "unchanged", digest |-> r.digest]
BY DEF Report

LEMMA AppendFacts ==
    ASSUME NEW reports \in Seq(Report), NEW r \in Report
    PROVE  /\ Len(reports) \in Nat /\ Append(reports, r) \in Seq(Report)
           /\ Len(Append(reports, r)) = Len(reports) + 1
           /\ Append(reports, r)[Len(reports) + 1] = r
           /\ \A i \in 1..Len(reports) : Append(reports, r)[i] = reports[i]
OBVIOUS

LEMMA OneMoreFailed ==
    ASSUME NEW reports \in Seq(Report), NEW r \in Report, r.class = "failed", NEW n \in Nat,
           LastFailed(reports, n)
    PROVE  LastFailed(Append(reports, r), n + 1)
<1> DEFINE new == Append(reports, r)
<1>1. /\ Len(reports) \in Nat /\ Len(new) = Len(reports) + 1 /\ new[Len(reports) + 1] = r
      /\ \A i \in 1..Len(reports) : new[i] = reports[i]
  BY AppendFacts
<1> HIDE DEF new
<1>2. \A i \in (Len(new) - (n + 1) + 1)..Len(new) :
        i = Len(reports) + 1 \/ (i \in 1..Len(reports) /\ i \in (Len(reports) - n + 1)..Len(reports))
  BY <1>1 DEF LastFailed
<1>3. n + 1 <= Len(new)
  BY <1>1 DEF LastFailed
<1>4. LastFailed(new, n + 1)
  BY <1>1, <1>2, <1>3 DEF LastFailed
<1> QED
  BY <1>4 DEF new

\* A report that tells nothing of progress leaves the reports that do as they were.
LEMMA NothingTold ==
    ASSUME NEW reports \in Seq(Report), NEW r \in Report, r.class \notin {"progressing", "unchanged"},
           NEW n \in Nat, NEW d, LastSame(reports, n, d)
    PROVE  LastSame(Append(reports, r), n, d)
<1> DEFINE new == Append(reports, r)
<1>1. /\ Len(reports) \in Nat /\ Len(new) = Len(reports) + 1 /\ new[Len(reports) + 1] = r
      /\ \A i \in 1..Len(reports) : new[i] = reports[i]
  BY AppendFacts
<1>2. PICK k \in 1..(Len(reports) + 1) :
        /\ Cardinality(Since(reports, k)) >= n
        /\ \A i \in Since(reports, k) : reports[i] = [class |-> "unchanged", digest |-> d]
  BY DEF LastSame
<1> HIDE DEF new
<1>3. Since(new, k) = Since(reports, k)
  <2>1. \A i \in k..Len(new) : i = Len(reports) + 1 \/ (i \in 1..Len(reports) /\ i \in k..Len(reports))
    BY <1>1
  <2>2. \A i \in k..Len(reports) : i \in 1..Len(reports) /\ i \in k..Len(new)
    BY <1>1
  <2> QED
    BY <1>1, <2>1, <2>2 DEF Since
<1>4. k \in 1..(Len(new) + 1) /\ \A i \in Since(reports, k) : new[i] = reports[i]
  BY <1>1, SinceFacts
<1>5. LastSame(new, n, d)
  BY <1>2, <1>3, <1>4 DEF LastSame
<1> QED
  BY <1>5 DEF new

LEMMA OneMoreSame ==
    ASSUME NEW reports \in Seq(Report), NEW r \in Report, r.class = "unchanged", NEW n \in Nat,
           LastSame(reports, n, r.digest)
    PROVE  LastSame(Append(reports, r), n + 1, r.digest)
<1> DEFINE new == Append(reports, r)
<1>1. /\ Len(reports) \in Nat /\ Len(new) = Len(reports) + 1 /\ new[Len(reports) + 1] = r
      /\ \A i \in 1..Len(reports) : new[i] = reports[i]
  BY AppendFacts
<1>2. PICK k \in 1..(Len(reports) + 1) :
        /\ Cardinality(Since(reports, k)) >= n
        /\ \A i \in Since(reports, k) : reports[i] = [class |-> "unchanged", digest |-> r.digest]
  BY DEF LastSame
<1> HIDE DEF new
<1>3. Since(new, k) = Since(reports, k) \cup {Len(reports) + 1} /\ Len(reports) + 1 \notin Since(reports, k)
  <2>1. \A i \in k..Len(new) : i = Len(reports) + 1 \/ (i \in 1..Len(reports) /\ i \in k..Len(reports))
    BY <1>1
  <2>2. \A i \in k..Len(reports) : i \in 1..Len(reports) /\ i \in k..Len(new) /\ i # Len(reports) + 1
    BY <1>1
  <2>3. Len(reports) + 1 \in k..Len(new)
    BY <1>1
  <2> QED
    BY <1>1, <2>1, <2>2, <2>3 DEF Since
<1>4. Cardinality(Since(new, k)) >= n + 1
  <2>1. Cardinality(Since(new, k)) = Cardinality(Since(reports, k)) + 1
    BY <1>3, SinceFacts, FS_AddElement
  <2> QED
    BY <1>2, <2>1, SinceFacts
<1>5. k \in 1..(Len(new) + 1) /\ \A i \in Since(reports, k) : new[i] = reports[i]
  BY <1>1, SinceFacts
<1>6. \A i \in Since(new, k) : new[i] = [class |-> "unchanged", digest |-> r.digest]
  BY <1>1, <1>2, <1>3, <1>5, ReportFacts
<1>7. LastSame(new, n + 1, r.digest)
  BY <1>4, <1>5, <1>6 DEF LastSame
<1> QED
  BY <1>7 DEF new

LEMMA CountsDropped ==
    ASSUME NEW reports \in Seq(Report), NEW p, p.same = 0, p.errors = 0
    PROVE  CountsSound(p, reports)
BY NoneCounted DEF CountsSound

LEMMA PolicyFacts ==
    ASSUME SentinelTypeOK, NEW g \in Guard
    PROVE  /\ policy[g].timeout \in Nat
           /\ policy[g].stalls \in Nat \ {0} /\ policy[g].errors \in Nat \ {0}
           /\ policy[g].onError \in {"ignore", "stall", "terminal"}
BY SentinelAssumption DEF SentinelTypeOK, Policy

LEMMA KindFacts ==
    /\ "no_output" \in Kind /\ "no_progress" \in Kind /\ "terminal" \in Kind
    /\ Nil \notin Kind /\ Nil \notin Digest
    /\ Nil # "no_output" /\ Nil # "terminal"
BY SentinelAssumption DEF Kind

LEMMA DroppedFacts ==
    ASSUME NEW k \in Kind \cup {Nil}
    PROVE  /\ Dropped(k) \in Prober /\ Dropped(k).at = "off" /\ Dropped(k).decided = k
           /\ Dropped(k).same = 0 /\ Dropped(k).errors = 0
<1>1. NoReport \in Report
  BY DEF NoReport, Report
<1> QED
  BY <1>1 DEF Dropped, Prober, ProbeStates

\* Judging a report keeps the counts those of the reports judged.
LEMMA CountedFacts ==
    ASSUME NEW p \in Prober, NEW reports \in Seq(Report), CountsSound(p, reports)
    PROVE  /\ Counted(p) \in Prober /\ Counted(p).at = p.at /\ Counted(p).decided = p.decided
           /\ Counted(p).report = p.report
           /\ CountsSound(Counted(p), Append(reports, p.report))
           /\ p.report.class = "unchanged" => Counted(p).last = p.report.digest
<1> DEFINE r == p.report
           new == Append(reports, r)
           c == Counted(p)
<1>1. r \in Report /\ p.same \in Nat /\ p.errors \in Nat /\ p.last \in Digest \cup {Nil}
  BY DEF Prober
<1>2. r.class \in {"failed", "terminal", "progressing", "unchanged"}
      /\ (r.class \in {"progressing", "unchanged"} => r.digest \in Digest) /\ new \in Seq(Report)
  BY <1>1, ReportFacts, AppendFacts
<1>3. CASE r.class = "failed"
  <2>1. c = [p EXCEPT !.errors = @ + 1]
    BY <1>3 DEF Counted
  <2>2. c \in Prober /\ c.errors = p.errors + 1 /\ c.same = p.same /\ c.last = p.last
        /\ c.at = p.at /\ c.decided = p.decided /\ c.report = r
    <3>1. p.errors + 1 \in Nat
      BY <1>1
    <3> QED
      BY <2>1, <3>1 DEF Prober
  <2>3. LastFailed(new, p.errors + 1) /\ LastSame(new, p.same, p.last) /\ (p.same > 0 => p.last \in Digest)
    BY <1>1, <1>3, OneMoreFailed, NothingTold DEF CountsSound
  <2> HIDE DEF c, new, r
  <2>4. CountsSound(c, new)
    BY <2>2, <2>3 DEF CountsSound
  <2> QED
    BY <1>3, <2>2, <2>4 DEF c, new, r
<1>4. CASE r.class = "terminal"
  <2>1. c = [p EXCEPT !.errors = 0]
    BY <1>4 DEF Counted
  <2>2. c \in Prober /\ c.errors = 0 /\ c.same = p.same /\ c.last = p.last
        /\ c.at = p.at /\ c.decided = p.decided /\ c.report = r
    BY <2>1 DEF Prober
  <2>3. LastFailed(new, 0) /\ LastSame(new, p.same, p.last) /\ (p.same > 0 => p.last \in Digest)
    BY <1>1, <1>2, <1>4, NoneCounted, NothingTold DEF CountsSound
  <2> HIDE DEF c, new, r
  <2>4. CountsSound(c, new)
    BY <2>2, <2>3 DEF CountsSound
  <2> QED
    BY <1>4, <2>2, <2>4 DEF c, new, r
<1>5. CASE r.class = "progressing"
  <2>1. c = [p EXCEPT !.errors = 0, !.last = r.digest, !.same = 0]
    BY <1>5 DEF Counted
  <2>2. c \in Prober /\ c.errors = 0 /\ c.same = 0
        /\ c.at = p.at /\ c.decided = p.decided /\ c.report = r
    <3>1. PICK d \in Digest : d = r.digest
      BY <1>2, <1>5
    <3> HIDE DEF c
    <3>2. c = [p EXCEPT !.errors = 0, !.last = d, !.same = 0]
      BY <2>1, <3>1
    <3>3. 0 \in Nat
      OBVIOUS
    <3>4. /\ c \in Prober /\ c.errors = 0 /\ c.same = 0
          /\ c.at = p.at /\ c.decided = p.decided /\ c.report = p.report
      BY <3>2, <3>3 DEF Prober
    <3> QED
      BY <3>4 DEF c
  <2> HIDE DEF c, new, r
  <2>3. CountsSound(c, new)
    BY <1>2, <2>2, CountsDropped
  <2> QED
    BY <1>5, <2>2, <2>3 DEF c, new, r
<1>6. CASE r.class = "unchanged"
  <2> DEFINE n == IF r.digest = p.last THEN p.same + 1 ELSE 1
  <2>1. c = [p EXCEPT !.errors = 0, !.last = r.digest, !.same = n]
    BY <1>6 DEF Counted
  <2>2. n \in Nat /\ r.digest \in Digest
    BY <1>1, <1>2, <1>6
  <2>3. LastSame(new, n, r.digest)
    <3>1. CASE r.digest = p.last
      BY <1>1, <1>6, <3>1, OneMoreSame DEF CountsSound
    <3>2. CASE r.digest # p.last
      <4>1. LastSame(reports, 0, r.digest)
        BY NoneCounted
      <4>2. LastSame(new, 0 + 1, r.digest)
        BY <1>1, <1>6, <4>1, OneMoreSame
      <4> QED
        BY <3>2, <4>2
    <3> QED
      BY <3>1, <3>2
  <2> HIDE DEF n
  <2>4. c \in Prober /\ c.errors = 0 /\ c.same = n /\ c.last = r.digest
        /\ c.at = p.at /\ c.decided = p.decided /\ c.report = r
    <3>1. PICK d \in Digest : d = r.digest
      BY <2>2
    <3> HIDE DEF c
    <3>2. c = [p EXCEPT !.errors = 0, !.last = d, !.same = n]
      BY <2>1, <3>1
    <3>3. /\ c \in Prober /\ c.errors = 0 /\ c.same = n /\ c.last = d
          /\ c.at = p.at /\ c.decided = p.decided /\ c.report = p.report
      BY <2>2, <3>2 DEF Prober
    <3> QED
      BY <3>1, <3>3 DEF c
  <2> HIDE DEF c, new, r
  <2>5. LastFailed(new, 0)
    BY <1>2, NoneCounted
  <2>6. CountsSound(c, new)
    BY <2>2, <2>3, <2>4, <2>5 DEF CountsSound
  <2> QED
    BY <1>6, <2>4, <2>6 DEF c, new, r
<1> QED
  BY <1>2, <1>3, <1>4, <1>5, <1>6

\* A verdict stands on the reports that were judged.
LEMMA VerdictStands ==
    ASSUME SentinelTypeOK, NEW g \in Guard, NEW p \in Prober, NEW reports \in Seq(Report),
           CountsSound(p, Append(reports, p.report)), Verdict(g, p) # Nil,
           p.report.class = "unchanged" => p.last = p.report.digest
    PROVE  /\ Verdict(g, p) \in {"no_progress", "terminal"}
           /\ Stands(g, Verdict(g, p), Append(reports, p.report))
<1> DEFINE r == p.report
           new == Append(reports, r)
           kind == Verdict(g, p)
<1>1. r \in Report /\ p.same \in Nat /\ p.errors \in Nat /\ p.last \in Digest \cup {Nil}
  BY DEF Prober
<1>2. r.class \in {"failed", "terminal", "progressing", "unchanged"}
  BY <1>1, ReportFacts
<1>3. new \in Seq(Report) /\ Len(new) = Len(reports) + 1 /\ Len(reports) \in Nat /\ new[Len(new)] = r
  BY <1>1, AppendFacts
<1>4. CASE r.class = "failed"
  <2>1. /\ policy[g].onError # "ignore" /\ ~(p.errors < policy[g].errors)
        /\ kind = IF policy[g].onError = "terminal" THEN "terminal" ELSE "no_progress"
    BY <1>4 DEF Verdict
  <2>2. policy[g].onError = (IF kind = "terminal" THEN "terminal" ELSE "stall") /\ policy[g].errors <= p.errors
    BY <1>1, <2>1, PolicyFacts
  <2>3. LastFailed(new, policy[g].errors)
    <3>1. LastFailed(new, p.errors)
      BY DEF CountsSound
    <3> QED
      BY <1>1, <1>3, <2>2, <3>1, FewerCounted, PolicyFacts
  <2> QED
    BY <2>1, <2>2, <2>3 DEF Stands
<1>5. CASE r.class = "terminal"
  <2>1. kind = "terminal"
    BY <1>5 DEF Verdict
  <2>2. new # <<>>
    BY <1>3
  <2> QED
    BY <1>3, <1>5, <2>1, <2>2 DEF Stands
<1>6. CASE r.class = "progressing"
  BY <1>6 DEF Verdict
<1>7. CASE r.class = "unchanged"
  <2>1. kind = "no_progress" /\ ~(p.same < policy[g].stalls)
    BY <1>7 DEF Verdict
  <2>2. policy[g].stalls <= p.same /\ p.same > 0
    BY <1>1, <2>1, PolicyFacts
  <2>3. p.last \in Digest /\ LastSame(new, p.same, p.last)
    BY <2>2 DEF CountsSound
  <2>4. LastSame(new, policy[g].stalls, p.last)
    BY <1>1, <1>3, <2>2, <2>3, FewerCounted, PolicyFacts
  <2> QED
    BY <2>1, <2>3, <2>4 DEF Stands
<1> QED
  BY <1>2, <1>4, <1>5, <1>6, <1>7

\* The types, but for the probe watcher's.
PlainTypes ==
    /\ policy \in Policies
    /\ run \in [Guard -> {"waiting", "running", "ended"}] /\ hung \subseteq Guard
    /\ signal \in [Guard -> {"none", "sentinel", "workflow"}]
    /\ outcome \in [Guard -> {"none", "own", "on_stall", "on_terminal"}]
    /\ silent \in Nat
    /\ output \in [Guard -> Watcher({"off", "watching", "writing"})]
    /\ stopped \subseteq Guard /\ lost \subseteq Guard
    /\ trigger \in [Guard -> Kind \cup {Nil}]
    /\ heard \in [Guard -> Seq(Report)]
    /\ ran \in [Guard -> Nat]

LEMMA ProberTypes ==
    ASSUME NEW p \in Prober
    PROVE  /\ [at |-> p.at, decided |-> p.decided] \in
                  Watcher({"off", "due", "probing", "logging", "writing", "noting"})
           /\ p.report \in Report /\ p.last \in Digest \cup {Nil}
           /\ p.same \in Nat /\ p.errors \in Nat
           /\ p.at \in ProbeStates /\ p.decided \in Kind \cup {Nil}
BY DEF Prober, ProbeStates, Watcher

LEMMA TypesSplit ==
    SentinelTypeOK /\ probe \in [Guard -> Prober] <=> PlainTypes /\ probe \in [Guard -> Prober]
BY ProberTypes, Zenon DEF SentinelTypeOK, PlainTypes

LEMMA TypesSplitNext ==
    PlainTypes' /\ (probe \in [Guard -> Prober])' => SentinelTypeOK' /\ (probe \in [Guard -> Prober])'
BY ProberTypes, Zenon DEF SentinelTypeOK, PlainTypes

LEMMA SentinelTypes ==
    ASSUME SentinelIInv, NEW g \in Guard
    PROVE  /\ PlainTypes /\ probe \in [Guard -> Prober] /\ probe[g] \in Prober
           /\ probe[g].decided \in Kind \cup {Nil}
           /\ heard[g] \in Seq(Report) /\ ran[g] \in Nat /\ silent \in Nat
           /\ policy[g].timeout \in Nat
           /\ output[g] \in Watcher({"off", "watching", "writing"})
           /\ output[g].decided \in Kind \cup {Nil}
           /\ RunSound(g) /\ OutputSound(g) /\ ProbeSound(g) /\ SignalSound(g)
<1>1. PlainTypes /\ probe \in [Guard -> Prober] /\ SentinelTypeOK
  BY TypesSplit DEF SentinelIInv
<1>2. probe[g] \in Prober /\ output[g] \in Watcher({"off", "watching", "writing"})
      /\ heard[g] \in Seq(Report) /\ ran[g] \in Nat /\ silent \in Nat
  BY <1>1 DEF PlainTypes
<1>3. output[g].decided \in Kind \cup {Nil}
  BY <1>2 DEF Watcher
<1> QED
  BY <1>1, <1>2, <1>3, PolicyFacts, ProberTypes DEF SentinelIInv

LEMMA GuardFacts ==
    ASSUME NEW g \in Guard
    PROVE  g \in Int /\ g >= 1 /\ g <= Guards /\ \A i \in 1..(g - 1) : i \in Guard
BY SentinelAssumption DEF Guard

\* The runs are one after the other.
LEMMA UniqueRunning ==
    ASSUME SentinelIInv, NEW g \in Guard, NEW h \in Guard, run[g] = "running", run[h] = "running"
    PROVE  g = h
<1>1. RunSound(g) /\ RunSound(h)
  BY SentinelTypes
<1>2. ~(g \in 1..(h - 1)) /\ ~(h \in 1..(g - 1))
  BY <1>1 DEF RunSound
<1> QED
  BY <1>2, GuardFacts

LEMMA SentinelInitial == SentinelInit => SentinelIInv
<1> SUFFICES ASSUME SentinelInit PROVE SentinelIInv
  OBVIOUS
<1>1. \A g \in Guard : probe[g] = Dropped(Nil) /\ Dropped(Nil) \in Prober
  BY DroppedFacts DEF SentinelInit
<1>2. probe \in [Guard -> Prober]
  BY <1>1 DEF SentinelInit
<1>3. PlainTypes
  BY DEF SentinelInit, PlainTypes, Watcher
<1>4. SentinelTypeOK
  BY <1>2, <1>3, TypesSplit
<1>5. ASSUME NEW g \in Guard PROVE RunSound(g) /\ OutputSound(g) /\ ProbeSound(g) /\ SignalSound(g)
  <2>1. RunSound(g)
    BY <1>4, PolicyFacts DEF SentinelInit, RunSound
  <2>2. OutputSound(g) /\ SignalSound(g)
    BY DEF SentinelInit, OutputSound, SignalSound
  <2>3. CountsSound(probe[g], heard[g])
    <3>1. heard[g] = <<>> /\ heard[g] \in Seq(Report)
      BY DEF SentinelInit
    <3> QED
      BY <1>1, <3>1, DroppedFacts, CountsDropped
  <2>4. probe[g].at = "off" /\ probe[g].decided = Nil
    BY <1>1, DroppedFacts
  <2> QED
    BY <2>1, <2>2, <2>3, <2>4 DEF ProbeSound
<1> QED
  BY <1>2, <1>4, <1>5 DEF SentinelIInv

LEMMA SentinelKept ==
    ASSUME PlainTypes', (probe \in [Guard -> Prober])',
           \A g \in Guard : RunSound(g)' /\ OutputSound(g)' /\ ProbeSound(g)' /\ SignalSound(g)'
    PROVE  SentinelIInv'
BY TypesSplitNext DEF SentinelIInv

LEMMA SameCounts ==
    ASSUME NEW p, NEW c, NEW reports, CountsSound(p, reports),
           c.same = p.same, c.errors = p.errors, c.last = p.last
    PROVE  CountsSound(c, reports)
BY DEF CountsSound

\* A prober that is moved on, with its counts.
LEMMA MovedFacts ==
    ASSUME NEW p \in Prober, NEW place \in ProbeStates
    PROVE  /\ [p EXCEPT !.at = place] \in Prober
           /\ [p EXCEPT !.at = place].at = place /\ [p EXCEPT !.at = place].decided = p.decided
           /\ \A reports : CountsSound(p, reports) => CountsSound([p EXCEPT !.at = place], reports)
<1> DEFINE c == [p EXCEPT !.at = place]
<1>1. /\ c \in Prober /\ c.at = place /\ c.decided = p.decided
      /\ c.same = p.same /\ c.errors = p.errors /\ c.last = p.last
  BY DEF Prober
<1> HIDE DEF c
<1>2. \A reports : CountsSound(p, reports) => CountsSound(c, reports)
  BY <1>1, SameCounts
<1> QED
  BY <1>1, <1>2 DEF c

\* What the watchers and the signal of a guard rest on, when none of it changes.
LEMMA GuardUntouched ==
    ASSUME SentinelIInv, NEW g \in Guard,
           policy' = policy, heard'[g] = heard[g], probe'[g] = probe[g], output'[g] = output[g],
           run'[g] = run[g] \/ (probe[g].at = "off" /\ output[g].at # "watching" /\ run'[g] # "waiting"),
           signal'[g] = signal[g] \/ signal'[g] # "sentinel", trigger'[g] = trigger[g],
           outcome'[g] = outcome[g], ran'[g] = ran[g] \/ ran[g] # policy[g].timeout
    PROVE  OutputSound(g)' /\ ProbeSound(g)' /\ SignalSound(g)'
<1>1. OutputSound(g) /\ ProbeSound(g) /\ SignalSound(g)
  BY SentinelTypes
<1>2. OutputSound(g)'
  BY <1>1 DEF OutputSound
<1>3. ProbeSound(g)'
  BY <1>1 DEF ProbeSound, CountsSound, Stands
<1>4. SignalSound(g)'
  BY <1>1 DEF SignalSound
<1> QED
  BY <1>2, <1>3, <1>4

\* An output watcher that is moved on, with its trigger.
LEMMA OutputMoved ==
    ASSUME PlainTypes, NEW g \in Guard, NEW place \in {"off", "watching", "writing"},
           output' = [output EXCEPT ![g].at = place]
    PROVE  /\ output' \in [Guard -> Watcher({"off", "watching", "writing"})]
           /\ output'[g].at = place /\ output'[g].decided = output[g].decided
           /\ \A h \in Guard : h # g => output'[h] = output[h]
<1>1. output \in [Guard -> [at: {"off", "watching", "writing"}, decided: Kind \cup {Nil}]]
  BY DEF PlainTypes, Watcher
<1>2. output[g] \in [at: {"off", "watching", "writing"}, decided: Kind \cup {Nil}]
  BY <1>1
<1> DEFINE o == [output[g] EXCEPT !.at = place]
<1>3. o \in [at: {"off", "watching", "writing"}, decided: Kind \cup {Nil}]
      /\ o.at = place /\ o.decided = output[g].decided
  BY <1>2
<1>4. output' = [output EXCEPT ![g] = o]
  BY <1>1
<1> HIDE DEF o
<1> QED
  BY <1>1, <1>3, <1>4 DEF Watcher

LEMMA StartRunStep ==
    ASSUME SentinelIInv, NEW g \in Guard, StartRun(g)
    PROVE  SentinelIInv'
<1> USE DEF StartRun
<1>1. PlainTypes /\ probe \in [Guard -> Prober] /\ probe[g] \in Prober
  BY SentinelTypes
<1>2. run' \in [Guard -> {"waiting", "running", "ended"}] /\ run'[g] = "running"
      /\ \A h \in Guard : h # g => run'[h] = run[h]
  BY <1>1 DEF PlainTypes
<1>3. output' \in [Guard -> Watcher({"off", "watching", "writing"})]
      /\ output'[g].at \in {"watching", "off"} /\ output'[g].decided = output[g].decided
      /\ \A h \in Guard : h # g => output'[h] = output[h]
  <2> DEFINE o == IF policy[g].timeout > 0 THEN "watching" ELSE "off"
  <2>1. o \in {"watching", "off"} /\ output' = [output EXCEPT ![g].at = o]
    OBVIOUS
  <2> HIDE DEF o
  <2> QED
    BY <1>1, <2>1, OutputMoved
<1>4. PlainTypes'
  BY <1>1, <1>2, <1>3 DEF PlainTypes, Registered
<1> DEFINE place == IF policy[g].probe THEN "due" ELSE "off"
<1>5. place \in ProbeStates /\ place \in {"due", "off"}
  BY DEF ProbeStates
<1>6. probe' = [probe EXCEPT ![g] = [probe[g] EXCEPT !.at = place]]
  BY <1>1
<1> HIDE DEF place
<1>8. /\ [probe[g] EXCEPT !.at = place] \in Prober /\ [probe[g] EXCEPT !.at = place].at = place
      /\ [probe[g] EXCEPT !.at = place].decided = probe[g].decided
      /\ CountsSound(probe[g], heard[g]) => CountsSound([probe[g] EXCEPT !.at = place], heard[g])
  BY <1>1, <1>5, MovedFacts
<1>9. (probe \in [Guard -> Prober])' /\ probe'[g] = [probe[g] EXCEPT !.at = place]
      /\ \A h \in Guard : h # g => probe'[h] = probe[h]
  BY <1>1, <1>6, <1>8
<1>10. ASSUME NEW h \in Guard PROVE RunSound(h)' /\ OutputSound(h)' /\ ProbeSound(h)' /\ SignalSound(h)'
  <2>1. RunSound(h) /\ OutputSound(h) /\ ProbeSound(h) /\ SignalSound(h)
        /\ ran[h] \in Nat /\ policy[h].timeout \in Nat
    BY SentinelTypes
  <2>2. RunSound(h)'
    <3>1. run'[h] # "waiting" => \A i \in 1..(h - 1) : run'[i] = "ended"
      <4>1. CASE h = g
        BY <1>2, <4>1, GuardFacts
      <4>2. CASE h # g
        BY <1>2, <2>1, <4>2, GuardFacts DEF RunSound
      <4> QED
        BY <4>1, <4>2
    <3>2. run'[h] = "running" => silent' <= ran'[h]
      BY <2>1 DEF Registered
    <3> QED
      BY <2>1, <3>1, <3>2 DEF RunSound
  <2>3. CASE h # g
    <3>1. OutputSound(h)' /\ ProbeSound(h)' /\ SignalSound(h)'
      BY <1>2, <1>3, <1>9, <2>3, GuardUntouched
    <3> QED
      BY <2>2, <3>1
  <2>4. CASE h = g
    <3>1. OutputSound(h)'
      BY <1>2, <1>3, <2>1, <2>4 DEF OutputSound
    <3>2. ProbeSound(h)'
      <4>1. probe'[h].decided = Nil /\ probe'[h].at \in {"due", "off"} /\ CountsSound(probe'[h], heard'[h])
        BY <1>5, <1>8, <1>9, <2>1, <2>4 DEF ProbeSound
      <4> QED
        BY <1>2, <2>4, <4>1 DEF ProbeSound
    <3>3. SignalSound(h)'
      BY <1>3, <1>8, <1>9, <2>1, <2>4 DEF SignalSound
    <3> QED
      BY <2>2, <2>4, <3>1, <3>2, <3>3
  <2> QED
    BY <2>3, <2>4
<1> QED
  BY <1>4, <1>9, <1>10, SentinelKept

LEMMA EventStep ==
    ASSUME SentinelIInv, NEW g \in Guard, NEW worker \in BOOLEAN, Event(g, worker)
    PROVE  SentinelIInv'
<1> USE DEF Event, watchers
<1>1. PlainTypes' /\ (probe \in [Guard -> Prober])'
  BY SentinelTypes DEF PlainTypes
<1>2. ASSUME NEW h \in Guard PROVE RunSound(h)' /\ OutputSound(h)' /\ ProbeSound(h)' /\ SignalSound(h)'
  <2>1. RunSound(h)'
    BY SentinelTypes DEF RunSound
  <2>2. OutputSound(h)' /\ ProbeSound(h)' /\ SignalSound(h)'
    BY GuardUntouched
  <2> QED
    BY <2>1, <2>2
<1> QED
  BY <1>1, <1>2, SentinelKept

LEMMA TickStep ==
    ASSUME SentinelIInv, Tick
    PROVE  SentinelIInv'
<1> USE DEF watchers
<1>1. PICK g \in Guard :
        /\ run[g] = "running" /\ silent < policy[g].timeout
        /\ ran' = [ran EXCEPT ![g] = IF @ < policy[g].timeout THEN @ + 1 ELSE @]
  BY DEF Tick
<1>2. PlainTypes /\ silent \in Nat /\ silent' = silent + 1 /\ ran[g] \in Nat
      /\ policy[g].timeout \in Nat /\ RunSound(g)
  BY SentinelTypes DEF Tick
<1>3. /\ ran'[g] = IF ran[g] < policy[g].timeout THEN ran[g] + 1 ELSE ran[g]
      /\ \A h \in Guard : h # g => ran'[h] = ran[h]
      /\ ran' \in [Guard -> Nat]
  BY <1>1, <1>2 DEF PlainTypes
<1>4. PlainTypes' /\ (probe \in [Guard -> Prober])'
  BY <1>2, <1>3, SentinelTypes DEF PlainTypes, Tick
<1>5. ASSUME NEW h \in Guard PROVE RunSound(h)' /\ OutputSound(h)' /\ ProbeSound(h)' /\ SignalSound(h)'
  <2>1. RunSound(h)'
    <3>1. CASE h = g
      BY <1>1, <1>2, <1>3, <3>1 DEF RunSound, Tick
    <3>2. CASE h # g
      <4>1. run[h] # "running"
        BY <1>1, <3>2, UniqueRunning
      <4> QED
        BY <1>3, <3>2, <4>1, SentinelTypes DEF RunSound, Tick
    <3> QED
      BY <3>1, <3>2
  <2>2. ran'[h] = ran[h] \/ ran[h] # policy[h].timeout
    BY <1>2, <1>3
  <2>3. OutputSound(h)' /\ ProbeSound(h)' /\ SignalSound(h)'
    BY <2>2, GuardUntouched DEF Tick
  <2> QED
    BY <2>1, <2>3
<1> QED
  BY <1>4, <1>5, SentinelKept

LEMMA WorkflowAbortStep ==
    ASSUME SentinelIInv, NEW g \in Guard, WorkflowAbort(g)
    PROVE  SentinelIInv'
<1> USE DEF WorkflowAbort, watchers
<1>1. PlainTypes' /\ (probe \in [Guard -> Prober])' /\ \A h \in Guard : signal'[h] \in {signal[h], "workflow"}
  BY SentinelTypes DEF PlainTypes
<1>2. ASSUME NEW h \in Guard PROVE RunSound(h)' /\ OutputSound(h)' /\ ProbeSound(h)' /\ SignalSound(h)'
  <2>1. RunSound(h)'
    BY SentinelTypes DEF RunSound
  <2>2. OutputSound(h)' /\ ProbeSound(h)' /\ SignalSound(h)'
    BY <1>1, GuardUntouched
  <2> QED
    BY <2>1, <2>2
<1> QED
  BY <1>1, <1>2, SentinelKept

LEMMA RunEndsStep ==
    ASSUME SentinelIInv, NEW g \in Guard, RunEnds(g)
    PROVE  SentinelIInv'
<1> USE DEF RunEnds
<1>1. /\ PlainTypes /\ probe \in [Guard -> Prober] /\ probe[g] \in Prober /\ heard[g] \in Seq(Report)
      /\ RunSound(g) /\ OutputSound(g) /\ ProbeSound(g) /\ SignalSound(g)
  BY SentinelTypes
<1>2. run' \in [Guard -> {"waiting", "running", "ended"}] /\ run'[g] = "ended"
      /\ \A h \in Guard : h # g => run'[h] = run[h]
  BY <1>1 DEF PlainTypes
<1>3. output' \in [Guard -> Watcher({"off", "watching", "writing"})]
      /\ output'[g].at # "watching" /\ (output'[g].at = "writing" => output[g].at = "writing")
      /\ output'[g].decided = output[g].decided
      /\ \A h \in Guard : h # g => output'[h] = output[h]
  <2> DEFINE o == IF output[g].at = "watching" THEN "off" ELSE output[g].at
  <2>1. o \in {"off", "watching", "writing"} /\ output' = [output EXCEPT ![g].at = o]
    BY <1>1 DEF PlainTypes, Watcher
  <2>2. o # "watching" /\ (o = "writing" => output[g].at = "writing")
    OBVIOUS
  <2> HIDE DEF o
  <2> QED
    BY <1>1, <2>1, <2>2, OutputMoved
<1>4. /\ outcome' \in [Guard -> {"none", "own", "on_stall", "on_terminal"}]
      /\ outcome'[g] = IF signal[g] = "sentinel" THEN ActionConfig(g) ELSE "own"
      /\ \A h \in Guard : h # g => outcome'[h] = outcome[h]
  BY <1>1 DEF PlainTypes, ActionConfig
<1>5. PlainTypes'
  BY <1>1, <1>2, <1>3, <1>4 DEF PlainTypes
<1>6. Dropped(Nil) \in Prober /\ Dropped(Nil).at = "off" /\ Dropped(Nil).decided = Nil
      /\ CountsSound(Dropped(Nil), heard[g])
  BY <1>1, DroppedFacts, CountsDropped
<1>7. /\ (probe \in [Guard -> Prober])'
      /\ probe'[g] = IF probe[g].at = "due" THEN Dropped(Nil) ELSE probe[g]
      /\ \A h \in Guard : h # g => probe'[h] = probe[h]
  BY <1>1, <1>6
<1>8. probe'[g].decided = probe[g].decided /\ ProbeSound(g)'
  <2>1. CASE probe[g].at = "due"
    BY <1>1, <1>2, <1>6, <1>7, <2>1 DEF ProbeSound
  <2>2. CASE probe[g].at # "due"
    BY <1>1, <1>2, <1>7, <2>2 DEF ProbeSound, CountsSound, Stands
  <2> QED
    BY <2>1, <2>2
<1>9. SignalSound(g)'
  <2>1. outcome'[g] = "on_terminal" => probe'[g].decided = "terminal"
    <3>1. ASSUME outcome'[g] = "on_terminal" PROVE probe[g].decided = "terminal"
      <4>1. signal[g] = "sentinel" /\ trigger[g] = "terminal"
        BY <1>4, <3>1 DEF ActionConfig
      <4> QED
        BY <1>1, <4>1, KindFacts DEF SignalSound, OutputSound
    <3> QED
      BY <1>8, <3>1
  <2> QED
    BY <1>1, <1>3, <1>8, <2>1 DEF SignalSound
<1>10. ASSUME NEW h \in Guard PROVE RunSound(h)' /\ OutputSound(h)' /\ ProbeSound(h)' /\ SignalSound(h)'
  <2>1. RunSound(h)'
    <3>1. RunSound(h) /\ (run'[h] = "running" => run[h] = "running") /\ (run'[h] # "waiting" => run[h] # "waiting")
      BY <1>1, <1>2, SentinelTypes DEF RunSound
    <3>2. run'[h] # "waiting" => \A i \in 1..(h - 1) : run'[i] = "ended"
      BY <1>2, <3>1, GuardFacts DEF RunSound
    <3> QED
      BY <3>1, <3>2 DEF RunSound
  <2>2. CASE h = g
    <3>1. OutputSound(h)'
      BY <1>1, <1>3, <2>2 DEF OutputSound
    <3> QED
      BY <1>8, <1>9, <2>1, <2>2, <3>1
  <2>3. CASE h # g
    <3>1. OutputSound(h)' /\ ProbeSound(h)' /\ SignalSound(h)'
      BY <1>2, <1>3, <1>4, <1>7, <2>3, GuardUntouched
    <3> QED
      BY <2>1, <3>1
  <2> QED
    BY <2>2, <2>3
<1> QED
  BY <1>5, <1>7, <1>10, SentinelKept

LEMMA OutputCheckStep ==
    ASSUME SentinelIInv, NEW g \in Guard, OutputCheck(g)
    PROVE  SentinelIInv'
<1> USE DEF OutputCheck
<1>1. /\ PlainTypes /\ ran[g] \in Nat /\ silent \in Nat /\ policy[g].timeout \in Nat
      /\ RunSound(g) /\ OutputSound(g) /\ ProbeSound(g) /\ SignalSound(g)
  BY SentinelTypes
<1> DEFINE o == [at |-> "writing", decided |-> "no_output"]
<1>2. o \in Watcher({"off", "watching", "writing"}) /\ o.at = "writing" /\ o.decided = "no_output"
  BY KindFacts DEF Watcher
<1>3. output' = [output EXCEPT ![g] = o]
  OBVIOUS
<1> HIDE DEF o
<1>4. /\ output' \in [Guard -> Watcher({"off", "watching", "writing"})] /\ output'[g] = o
      /\ \A h \in Guard : h # g => output'[h] = output[h]
  BY <1>1, <1>2, <1>3 DEF PlainTypes
<1>5. PlainTypes' /\ (probe \in [Guard -> Prober])'
  BY <1>4, SentinelTypes DEF PlainTypes
<1>6. run[g] = "running" /\ ran[g] = policy[g].timeout
  BY <1>1 DEF OutputSound, RunSound
<1>7. output[g].decided \in {Nil, "no_output"}
  BY <1>1 DEF OutputSound
<1>8. ASSUME NEW h \in Guard PROVE RunSound(h)' /\ OutputSound(h)' /\ ProbeSound(h)' /\ SignalSound(h)'
  <2>1. RunSound(h)'
    BY SentinelTypes DEF RunSound
  <2>2. CASE h = g
    <3>1. OutputSound(g)'
      BY <1>2, <1>4, <1>6, KindFacts DEF OutputSound
    <3>2. ProbeSound(g)'
      BY <1>1 DEF ProbeSound, CountsSound, Stands
    <3>3. SignalSound(g)'
      BY <1>1, <1>2, <1>4, <1>7 DEF SignalSound
    <3> QED
      BY <2>1, <2>2, <3>1, <3>2, <3>3
  <2>3. CASE h # g
    <3>1. OutputSound(h)' /\ ProbeSound(h)' /\ SignalSound(h)'
      BY <1>4, <2>3, GuardUntouched
    <3> QED
      BY <2>1, <3>1
  <2> QED
    BY <2>2, <2>3
<1> QED
  BY <1>5, <1>8, SentinelKept

\* What an abort with a trigger does to a guard that decided on it.
LEMMA ActFacts ==
    ASSUME PlainTypes, NEW g \in Guard, NEW kind \in Kind, Act(g, kind)
    PROVE  /\ trigger' \in [Guard -> Kind \cup {Nil}] /\ trigger'[g] = kind
           /\ signal' \in [Guard -> {"none", "sentinel", "workflow"}]
           /\ \A h \in Guard : h # g => trigger'[h] = trigger[h] /\ signal'[h] = signal[h]
BY DEF PlainTypes, Act, Abort

LEMMA OutputActStep ==
    ASSUME SentinelIInv, NEW g \in Guard, OutputAct(g)
    PROVE  SentinelIInv'
<1> USE DEF OutputAct
<1>1. /\ PlainTypes /\ RunSound(g) /\ OutputSound(g) /\ ProbeSound(g) /\ SignalSound(g)
      /\ output[g].decided \in Kind \cup {Nil}
  BY SentinelTypes
<1>2. output[g].decided # Nil /\ output[g].decided \in Kind
  BY <1>1 DEF OutputSound
<1>3. /\ output' \in [Guard -> Watcher({"off", "watching", "writing"})]
      /\ output'[g].at = "off" /\ output'[g].decided = output[g].decided
      /\ \A h \in Guard : h # g => output'[h] = output[h]
  BY <1>1, OutputMoved
<1>4. /\ trigger' \in [Guard -> Kind \cup {Nil}] /\ trigger'[g] = output[g].decided
      /\ signal' \in [Guard -> {"none", "sentinel", "workflow"}]
      /\ \A h \in Guard : h # g => trigger'[h] = trigger[h] /\ signal'[h] = signal[h]
  BY <1>1, <1>2, ActFacts
<1>5. PlainTypes' /\ (probe \in [Guard -> Prober])'
  BY <1>3, <1>4, SentinelTypes DEF PlainTypes
<1>6. ASSUME NEW h \in Guard PROVE RunSound(h)' /\ OutputSound(h)' /\ ProbeSound(h)' /\ SignalSound(h)'
  <2>1. RunSound(h)'
    BY SentinelTypes DEF RunSound
  <2>2. CASE h = g
    <3>1. OutputSound(g)'
      BY <1>1, <1>3 DEF OutputSound
    <3>2. ProbeSound(g)'
      BY <1>1 DEF ProbeSound, CountsSound, Stands
    <3>3. SignalSound(g)'
      BY <1>1, <1>2, <1>3, <1>4 DEF SignalSound
    <3> QED
      BY <2>1, <2>2, <3>1, <3>2, <3>3
  <2>3. CASE h # g
    <3>1. OutputSound(h)' /\ ProbeSound(h)' /\ SignalSound(h)'
      BY <1>3, <1>4, <2>3, GuardUntouched
    <3> QED
      BY <2>1, <3>1
  <2> QED
    BY <2>2, <2>3
<1> QED
  BY <1>5, <1>6, SentinelKept

LEMMA OutputWriteFailsStep ==
    ASSUME SentinelIInv, NEW g \in Guard, OutputWriteFails(g)
    PROVE  SentinelIInv'
<1> USE DEF OutputWriteFails
<1>1. PlainTypes /\ RunSound(g) /\ OutputSound(g) /\ ProbeSound(g) /\ SignalSound(g)
  BY SentinelTypes
<1>2. /\ output' \in [Guard -> Watcher({"off", "watching", "writing"})]
      /\ output'[g].at = "off" /\ output'[g].decided = output[g].decided
      /\ \A h \in Guard : h # g => output'[h] = output[h]
  BY <1>1, OutputMoved
<1>3. PlainTypes' /\ (probe \in [Guard -> Prober])'
  BY <1>2, SentinelTypes DEF PlainTypes
<1>4. ASSUME NEW h \in Guard PROVE RunSound(h)' /\ OutputSound(h)' /\ ProbeSound(h)' /\ SignalSound(h)'
  <2>1. RunSound(h)'
    BY SentinelTypes DEF RunSound
  <2>2. CASE h = g
    <3>1. OutputSound(g)' /\ SignalSound(g)'
      BY <1>1, <1>2 DEF OutputSound, SignalSound
    <3>2. ProbeSound(g)'
      BY <1>1 DEF ProbeSound, CountsSound, Stands
    <3> QED
      BY <2>1, <2>2, <3>1, <3>2
  <2>3. CASE h # g
    <3>1. OutputSound(h)' /\ ProbeSound(h)' /\ SignalSound(h)'
      BY <1>2, <2>3, GuardUntouched
    <3> QED
      BY <2>1, <3>1
  <2> QED
    BY <2>2, <2>3
<1> QED
  BY <1>3, <1>4, SentinelKept

\* A step of the probe watcher touches what it judged and what it decided.
LEMMA ProbeStepSound ==
    ASSUME SentinelIInv, NEW g \in Guard, NEW p \in Prober, probe' = [probe EXCEPT ![g] = p],
           UNCHANGED <<policy, run, hung, outcome, silent, stopped, ran, output>>,
           lost' \subseteq Guard, heard' \in [Guard -> Seq(Report)],
           trigger' \in [Guard -> Kind \cup {Nil}],
           signal' \in [Guard -> {"none", "sentinel", "workflow"}],
           \A h \in Guard : h # g => heard'[h] = heard[h] /\ trigger'[h] = trigger[h] /\ signal'[h] = signal[h],
           ProbeSound(g)', SignalSound(g)'
    PROVE  SentinelIInv'
<1>1. (probe \in [Guard -> Prober])' /\ probe'[g] = p /\ \A h \in Guard : h # g => probe'[h] = probe[h]
  BY SentinelTypes
<1>2. PlainTypes'
  BY SentinelTypes DEF PlainTypes
<1>3. ASSUME NEW h \in Guard PROVE RunSound(h)' /\ OutputSound(h)' /\ ProbeSound(h)' /\ SignalSound(h)'
  <2>1. RunSound(h)' /\ OutputSound(h)'
    BY SentinelTypes DEF RunSound, OutputSound
  <2>2. CASE h = g
    BY <2>1, <2>2
  <2>3. CASE h # g
    <3>1. OutputSound(h)' /\ ProbeSound(h)' /\ SignalSound(h)'
      BY <1>1, <2>3, GuardUntouched
    <3> QED
      BY <2>1, <3>1
  <2> QED
    BY <2>2, <2>3
<1> QED
  BY <1>1, <1>2, <1>3, SentinelKept

\* A step that judges nothing and keeps the decision.
LEMMA ProbeMovedSound ==
    ASSUME SentinelIInv, NEW g \in Guard, NEW p \in Prober, probe' = [probe EXCEPT ![g] = p],
           UNCHANGED <<policy, run, hung, signal, outcome, silent, stopped, ran, output, trigger, heard>>,
           lost' \subseteq Guard, probe[g].at # "off",
           p.decided = probe[g].decided, CountsSound(p, heard[g]),
           p.at \in {"due", "probing", "logging", "noting"} => p.decided = Nil,
           p.at = "writing" => p.decided # Nil
    PROVE  SentinelIInv'
<1>1. PlainTypes /\ probe \in [Guard -> Prober] /\ ProbeSound(g) /\ SignalSound(g)
  BY SentinelTypes
<1>2. probe'[g] = p
  BY <1>1
<1>3. run[g] # "waiting"
  BY <1>1 DEF ProbeSound
<1>4. ProbeSound(g)'
  BY <1>1, <1>2, <1>3 DEF ProbeSound, CountsSound, Stands
<1>5. SignalSound(g)'
  BY <1>1, <1>2 DEF SignalSound
<1> QED
  BY <1>1, <1>4, <1>5, ProbeStepSound DEF PlainTypes

LEMMA ProbeStartStep ==
    ASSUME SentinelIInv, NEW g \in Guard, ProbeStart(g)
    PROVE  SentinelIInv'
<1> USE DEF ProbeStart
<1>1. PlainTypes /\ probe \in [Guard -> Prober] /\ probe[g] \in Prober /\ ProbeSound(g)
  BY SentinelTypes
<1>2. "probing" \in ProbeStates
  BY DEF ProbeStates
<1> DEFINE p == [probe[g] EXCEPT !.at = "probing"]
<1>3. /\ p \in Prober /\ p.at = "probing" /\ p.decided = probe[g].decided
      /\ CountsSound(probe[g], heard[g]) => CountsSound(p, heard[g])
  BY <1>1, <1>2, MovedFacts
<1>4. probe' = [probe EXCEPT ![g] = p]
  BY <1>1
<1> HIDE DEF p
<1>5. CountsSound(p, heard[g]) /\ p.decided = Nil
  BY <1>1, <1>3 DEF ProbeSound
<1>6. lost' \subseteq Guard
  BY <1>1 DEF PlainTypes
<1> QED
  BY <1>3, <1>4, <1>5, <1>6, ProbeMovedSound

LEMMA ProbeEndStep ==
    ASSUME SentinelIInv, NEW g \in Guard, NEW report \in Report, ProbeEnd(g, report)
    PROVE  SentinelIInv'
<1> USE DEF ProbeEnd
<1>1. /\ PlainTypes /\ probe \in [Guard -> Prober] /\ probe[g] \in Prober /\ heard[g] \in Seq(Report)
      /\ ProbeSound(g)
  BY SentinelTypes
<1>2. CountsSound(probe[g], heard[g]) /\ probe[g].decided = Nil /\ lost' \subseteq Guard
  BY <1>1 DEF ProbeSound, PlainTypes
<1>3. CASE g \in stopped
  <2>1. probe' = [probe EXCEPT ![g] = Dropped(Nil)]
    BY <1>3
  <2>2. /\ Dropped(Nil) \in Prober /\ Dropped(Nil).at = "off" /\ Dropped(Nil).decided = Nil
        /\ CountsSound(Dropped(Nil), heard[g])
    BY <1>1, DroppedFacts, CountsDropped
  <2> QED
    BY <1>2, <2>1, <2>2, ProbeMovedSound
<1>4. CASE g \notin stopped
  <2> DEFINE p == [probe[g] EXCEPT !.at = "logging", !.report = report]
  <2>1. probe' = [probe EXCEPT ![g] = p]
    BY <1>1, <1>4
  <2>2. /\ p \in Prober /\ p.at = "logging" /\ p.decided = probe[g].decided
        /\ p.same = probe[g].same /\ p.errors = probe[g].errors /\ p.last = probe[g].last
    BY <1>1 DEF Prober, ProbeStates
  <2> HIDE DEF p
  <2>3. CountsSound(p, heard[g])
    BY <1>2, <2>2, SameCounts
  <2>4. p.decided = Nil /\ p.at # "writing"
    BY <1>2, <2>2
  <2> QED
    BY <1>2, <2>1, <2>2, <2>3, <2>4, ProbeMovedSound
<1> QED
  BY <1>3, <1>4

LEMMA RescheduledFacts ==
    ASSUME NEW g \in Guard, NEW p \in Prober, NEW reports \in Seq(Report), CountsSound(p, reports),
           p.decided = Nil
    PROVE  /\ Rescheduled(g, p) \in Prober /\ Rescheduled(g, p).at \in {"off", "due"}
           /\ Rescheduled(g, p).decided = Nil /\ CountsSound(Rescheduled(g, p), reports)
<1>1. CASE g \in stopped
  <2>1. Rescheduled(g, p) = Dropped(Nil)
    BY <1>1 DEF Rescheduled
  <2> QED
    BY <2>1, DroppedFacts, CountsDropped
<1>2. CASE g \notin stopped
  <2>1. Rescheduled(g, p) = [p EXCEPT !.at = "due"]
    BY <1>2 DEF Rescheduled
  <2>2. "due" \in ProbeStates
    BY DEF ProbeStates
  <2>3. /\ [p EXCEPT !.at = "due"] \in Prober /\ [p EXCEPT !.at = "due"].at = "due"
        /\ [p EXCEPT !.at = "due"].decided = p.decided /\ CountsSound([p EXCEPT !.at = "due"], reports)
    BY <2>2, MovedFacts
  <2> QED
    BY <2>1, <2>3
<1> QED
  BY <1>1, <1>2

LEMMA ProbeNotedStep ==
    ASSUME SentinelIInv, NEW g \in Guard, ProbeNoted(g)
    PROVE  SentinelIInv'
<1> USE DEF ProbeNoted
<1>1. /\ PlainTypes /\ probe \in [Guard -> Prober] /\ probe[g] \in Prober /\ heard[g] \in Seq(Report)
      /\ ProbeSound(g)
  BY SentinelTypes
<1>2. CountsSound(probe[g], heard[g]) /\ probe[g].decided = Nil /\ lost' \subseteq Guard
  BY <1>1 DEF ProbeSound, PlainTypes
<1>3. /\ Rescheduled(g, probe[g]) \in Prober /\ Rescheduled(g, probe[g]).at \in {"off", "due"}
      /\ Rescheduled(g, probe[g]).decided = Nil /\ CountsSound(Rescheduled(g, probe[g]), heard[g])
  BY <1>1, <1>2, RescheduledFacts
<1> DEFINE p == Rescheduled(g, probe[g])
<1>4. probe' = [probe EXCEPT ![g] = p]
  BY <1>1
<1> HIDE DEF p
<1> QED
  BY <1>2, <1>3, <1>4, ProbeMovedSound DEF p

LEMMA ProbeWriteFailsStep ==
    ASSUME SentinelIInv, NEW g \in Guard, ProbeWriteFails(g)
    PROVE  SentinelIInv'
<1> USE DEF ProbeWriteFails
<1>1. /\ PlainTypes /\ probe \in [Guard -> Prober] /\ probe[g] \in Prober /\ heard[g] \in Seq(Report)
      /\ probe[g].decided \in Kind \cup {Nil}
  BY SentinelTypes
<1> DEFINE p == Dropped(probe[g].decided)
<1>2. p \in Prober /\ p.at = "off" /\ p.decided = probe[g].decided /\ CountsSound(p, heard[g])
  BY <1>1, DroppedFacts, CountsDropped
<1>3. probe' = [probe EXCEPT ![g] = p] /\ lost' \subseteq Guard
  BY <1>1 DEF PlainTypes
<1> HIDE DEF p
<1> QED
  BY <1>2, <1>3, ProbeMovedSound

LEMMA ProbeActStep ==
    ASSUME SentinelIInv, NEW g \in Guard, ProbeAct(g)
    PROVE  SentinelIInv'
<1> USE DEF ProbeAct
<1>1. /\ PlainTypes /\ probe \in [Guard -> Prober] /\ probe[g] \in Prober /\ heard[g] \in Seq(Report)
      /\ probe[g].decided \in Kind \cup {Nil} /\ ProbeSound(g) /\ SignalSound(g)
  BY SentinelTypes
<1>2. probe[g].decided # Nil /\ probe[g].decided \in Kind /\ run[g] # "waiting"
  BY <1>1 DEF ProbeSound
<1> DEFINE p == Dropped(probe[g].decided)
<1>3. p \in Prober /\ p.at = "off" /\ p.decided = probe[g].decided /\ CountsSound(p, heard[g])
  BY <1>1, DroppedFacts, CountsDropped
<1>4. probe' = [probe EXCEPT ![g] = p]
  BY <1>1
<1> HIDE DEF p
<1>5. probe'[g] = p
  BY <1>1, <1>4
<1>6. /\ trigger' \in [Guard -> Kind \cup {Nil}] /\ trigger'[g] = probe[g].decided
      /\ signal' \in [Guard -> {"none", "sentinel", "workflow"}]
      /\ \A h \in Guard : h # g => trigger'[h] = trigger[h] /\ signal'[h] = signal[h]
  BY <1>1, <1>2, ActFacts
<1>7. ProbeSound(g)'
  BY <1>1, <1>2, <1>3, <1>5 DEF ProbeSound, CountsSound, Stands
<1>8. SignalSound(g)'
  BY <1>1, <1>2, <1>3, <1>5, <1>6 DEF SignalSound
<1>9. lost' \subseteq Guard /\ heard' \in [Guard -> Seq(Report)] /\ \A h \in Guard : heard'[h] = heard[h]
  BY <1>1 DEF PlainTypes
<1> QED
  BY <1>3, <1>4, <1>6, <1>7, <1>8, <1>9, ProbeStepSound

LEMMA ForgivenFacts ==
    ASSUME NEW p \in Prober, NEW reports \in Seq(Report), CountsSound(p, reports)
    PROVE  /\ Forgiven(p) \in Prober /\ Forgiven(p).decided = p.decided
           /\ CountsSound(Forgiven(p), reports)
<1>1. LastFailed(reports, 0) /\ LastSame(reports, 0, p.last)
  BY NoneCounted
<1>2. CASE p.report.class = "failed"
  <2> DEFINE c == [p EXCEPT !.errors = 0]
  <2>1. /\ c \in Prober /\ c.decided = p.decided /\ c.errors = 0 /\ c.same = p.same /\ c.last = p.last
    BY DEF Prober
  <2>2. Forgiven(p) = c
    BY <1>2 DEF Forgiven
  <2> HIDE DEF c
  <2>3. CountsSound(c, reports)
    BY <1>1, <2>1 DEF CountsSound
  <2> QED
    BY <2>1, <2>2, <2>3
<1>3. CASE p.report.class = "unchanged"
  <2> DEFINE c == [p EXCEPT !.same = 0]
  <2>1. /\ c \in Prober /\ c.decided = p.decided /\ c.same = 0 /\ c.errors = p.errors /\ c.last = p.last
    BY DEF Prober
  <2>2. Forgiven(p) = c
    BY <1>3 DEF Forgiven
  <2> HIDE DEF c
  <2>3. CountsSound(c, reports)
    BY <1>1, <2>1 DEF CountsSound
  <2> QED
    BY <2>1, <2>2, <2>3
<1>4. CASE p.report.class \notin {"failed", "unchanged"}
  <2>1. Forgiven(p) = p
    BY <1>4 DEF Forgiven
  <2> QED
    BY <2>1
<1> QED
  BY <1>2, <1>3, <1>4

\* The report of a prober counts for nothing once it is judged.
LEMMA JudgedFacts ==
    ASSUME NEW p \in Prober, NEW reports
    PROVE  /\ [p EXCEPT !.report = NoReport] \in Prober
           /\ [p EXCEPT !.report = NoReport].at = p.at
           /\ [p EXCEPT !.report = NoReport].decided = p.decided
           /\ CountsSound(p, reports) => CountsSound([p EXCEPT !.report = NoReport], reports)
<1>1. NoReport \in Report
  BY DEF NoReport, Report
<1> DEFINE c == [p EXCEPT !.report = NoReport]
<1>2. /\ c \in Prober /\ c.at = p.at /\ c.decided = p.decided /\ c.same = p.same
      /\ c.errors = p.errors /\ c.last = p.last
  BY <1>1 DEF Prober
<1> HIDE DEF c
<1>3. CountsSound(p, reports) => CountsSound(c, reports)
  BY <1>2 DEF CountsSound
<1> QED
  BY <1>2, <1>3 DEF c

\* The prober after a report is judged, with its counts p.
Judged(g, p) ==
    LET kind == Verdict(g, p) IN
    IF kind = Nil THEN Rescheduled(g, p)
    ELSE IF Ignored(g, kind) THEN [Forgiven(p) EXCEPT !.at = "noting"]
    ELSE [p EXCEPT !.at = "writing", !.decided = kind]

LEMMA JudgeFacts ==
    ASSUME SentinelTypeOK, NEW g \in Guard, NEW q \in Prober, NEW reports \in Seq(Report),
           CountsSound(q, reports), q.decided = Nil
    PROVE  LET next == Judged(g, Counted(q)) IN
           /\ next \in Prober /\ CountsSound(next, Append(reports, q.report))
           /\ next.at \in {"off", "due", "noting", "writing"}
           /\ next.at = "writing" <=> next.decided # Nil
           /\ next.decided # Nil => Stands(g, next.decided, Append(reports, q.report))
<1> DEFINE p == Counted(q)
           kind == Verdict(g, p)
           new == Append(reports, q.report)
           next == Judged(g, p)
<1>1. /\ p \in Prober /\ p.decided = Nil /\ p.report = q.report /\ CountsSound(p, new)
      /\ p.report.class = "unchanged" => p.last = p.report.digest
  BY CountedFacts, Zenon
<1>2. new \in Seq(Report)
  BY AppendFacts DEF Prober
<1>3. kind # Nil => kind \in Kind /\ Stands(g, kind, new)
  BY <1>1, VerdictStands, KindFacts
<1>4. next = IF kind = Nil THEN Rescheduled(g, p)
             ELSE IF Ignored(g, kind) THEN [Forgiven(p) EXCEPT !.at = "noting"]
             ELSE [p EXCEPT !.at = "writing", !.decided = kind]
  BY DEF Judged
<1> HIDE DEF p, kind, new, next
<1>5. CASE kind = Nil
  <2>1. next = Rescheduled(g, p)
    BY <1>4, <1>5
  <2>2. next \in Prober /\ next.at \in {"off", "due"} /\ next.decided = Nil /\ CountsSound(next, new)
    BY <1>1, <1>2, <2>1, RescheduledFacts
  <2> QED
    BY <2>2 DEF new, next, p
<1>6. CASE kind # Nil /\ Ignored(g, kind)
  <2> DEFINE f == Forgiven(p)
  <2>1. next = [f EXCEPT !.at = "noting"]
    BY <1>4, <1>6
  <2>2. f \in Prober /\ f.decided = Nil /\ CountsSound(f, new)
    BY <1>1, <1>2, ForgivenFacts
  <2> HIDE DEF f
  <2>3. /\ next \in Prober /\ next.at = "noting" /\ next.decided = Nil
        /\ next.same = f.same /\ next.errors = f.errors /\ next.last = f.last
    BY <2>1, <2>2 DEF Prober, ProbeStates
  <2>4. CountsSound(next, new)
    BY <2>2, <2>3, SameCounts
  <2> QED
    BY <2>3, <2>4 DEF new, next, p
<1>7. CASE kind # Nil /\ ~Ignored(g, kind)
  <2>1. next = [p EXCEPT !.at = "writing", !.decided = kind]
    BY <1>4, <1>7
  <2>2. /\ next \in Prober /\ next.at = "writing" /\ next.decided = kind
        /\ next.same = p.same /\ next.errors = p.errors /\ next.last = p.last
    BY <1>1, <1>3, <1>7, <2>1 DEF Prober, ProbeStates
  <2>3. CountsSound(next, new)
    BY <1>1, <2>2, SameCounts
  <2> QED
    BY <1>3, <1>7, <2>2, <2>3 DEF new, next, p, kind
<1> QED
  BY <1>5, <1>6, <1>7 DEF p, new, next

LEMMA ProbeJudgeStep ==
    ASSUME SentinelIInv, NEW g \in Guard, ProbeJudge(g)
    PROVE  SentinelIInv'
<1>1. /\ PlainTypes /\ probe \in [Guard -> Prober] /\ probe[g] \in Prober /\ heard[g] \in Seq(Report)
      /\ ProbeSound(g) /\ SignalSound(g) /\ SentinelTypeOK
  BY SentinelTypes DEF SentinelIInv
<1>2. probe[g].at = "logging"
  BY DEF ProbeJudge
<1>3. CountsSound(probe[g], heard[g]) /\ probe[g].decided = Nil /\ run[g] # "waiting"
  BY <1>1, <1>2 DEF ProbeSound
<1> DEFINE q == Counted(probe[g])
           next == Judged(g, q)
           new == Append(heard[g], probe[g].report)
           p == [next EXCEPT !.report = NoReport]
<1>4. q.report = probe[g].report
  BY <1>1, <1>3, CountedFacts, Zenon
<1>5. probe' = [probe EXCEPT ![g] = p] /\ heard' = [heard EXCEPT ![g] = new]
  BY <1>4 DEF ProbeJudge, Judged
<1>6. /\ next \in Prober /\ CountsSound(next, new)
      /\ next.at \in {"off", "due", "noting", "writing"}
      /\ next.at = "writing" <=> next.decided # Nil
      /\ next.decided # Nil => Stands(g, next.decided, new)
  BY <1>1, <1>3, JudgeFacts, Zenon
<1> HIDE DEF next
<1>7. p \in Prober /\ p.at = next.at /\ p.decided = next.decided /\ CountsSound(p, new)
  BY <1>6, JudgedFacts
<1>8. new \in Seq(Report)
  BY <1>1, AppendFacts DEF Prober
<1> HIDE DEF p, new
<1>9. /\ probe'[g] = p /\ heard'[g] = new /\ heard' \in [Guard -> Seq(Report)]
      /\ \A h \in Guard : h # g => heard'[h] = heard[h]
  BY <1>1, <1>5, <1>8 DEF PlainTypes
<1>10. /\ UNCHANGED <<policy, run, hung, outcome, silent, stopped, ran, output, signal, trigger, lost>>
       /\ lost' \subseteq Guard /\ trigger' \in [Guard -> Kind \cup {Nil}]
       /\ signal' \in [Guard -> {"none", "sentinel", "workflow"}]
  BY <1>1 DEF PlainTypes, ProbeJudge
<1>11. ProbeSound(g)'
  <2>2. p.decided # Nil => Stands(g, p.decided, new)
    BY <1>6, <1>7
  <2>3. probe'[g].decided # Nil => Stands(g, probe[g].decided, heard[g])'
    BY <1>9, <1>10, <2>2 DEF Stands
  <2>4. CountsSound(probe[g], heard[g])'
    BY <1>7, <1>9 DEF CountsSound
  <2> QED
    BY <1>3, <1>6, <1>7, <1>9, <1>10, <2>3, <2>4 DEF ProbeSound
<1>12. SignalSound(g)'
  <2>1. outcome[g] # "on_terminal"
    BY <1>1, <1>3, KindFacts DEF SignalSound
  <2>2. signal[g] = "sentinel" => trigger[g] \in {output[g].decided} \ {Nil}
    BY <1>1, <1>3 DEF SignalSound
  <2> QED
    BY <1>10, <2>1, <2>2 DEF SignalSound
<1> QED
  BY <1>5, <1>7, <1>9, <1>10, <1>11, <1>12, ProbeStepSound

LEMMA SentinelStep == SentinelIInv /\ [SentinelNext]_sentinelVars => SentinelIInv'
<1> SUFFICES ASSUME SentinelIInv, [SentinelNext]_sentinelVars PROVE SentinelIInv'
  OBVIOUS
<1>1. CASE UNCHANGED sentinelVars
  <2>1. PlainTypes' /\ (probe \in [Guard -> Prober])'
    <3>1. PlainTypes /\ probe \in [Guard -> Prober]
      BY TypesSplit DEF SentinelIInv
    <3> QED
      BY <1>1, <3>1 DEF PlainTypes, sentinelVars, watchers
  <2>2. ASSUME NEW g \in Guard PROVE RunSound(g)' /\ OutputSound(g)' /\ ProbeSound(g)' /\ SignalSound(g)'
    <3>1. RunSound(g)'
      BY <1>1, SentinelTypes DEF RunSound, sentinelVars, watchers
    <3>2. OutputSound(g)' /\ ProbeSound(g)' /\ SignalSound(g)'
      BY <1>1, GuardUntouched DEF sentinelVars, watchers
    <3> QED
      BY <3>1, <3>2
  <2> QED
    BY <2>1, <2>2, SentinelKept
<1>2. CASE Tick
  BY <1>2, TickStep
<1>3. ASSUME NEW g \in Guard, StartRun(g) \/ RunEnds(g) \/ WorkflowAbort(g) PROVE SentinelIInv'
  BY <1>3, StartRunStep, RunEndsStep, WorkflowAbortStep
<1>4. ASSUME NEW g \in Guard, NEW worker \in BOOLEAN, Event(g, worker) PROVE SentinelIInv'
  BY <1>4, EventStep
<1>5. ASSUME NEW g \in Guard, OutputCheck(g) \/ OutputAct(g) \/ OutputWriteFails(g) PROVE SentinelIInv'
  BY <1>5, OutputCheckStep, OutputActStep, OutputWriteFailsStep
<1>6. ASSUME NEW g \in Guard, WatcherStep(g) \/ ProbeAct(g) \/ ProbeWriteFails(g) PROVE SentinelIInv'
  BY <1>6, ProbeStartStep, ProbeJudgeStep, ProbeNotedStep, ProbeActStep, ProbeWriteFailsStep DEF WatcherStep
<1>7. ASSUME NEW g \in Guard, NEW report \in Report, ProbeEnd(g, report) PROVE SentinelIInv'
  BY <1>7, ProbeEndStep
<1> QED
  BY <1>1, <1>2, <1>3, <1>4, <1>5, <1>6, <1>7 DEF SentinelNext

LEMMA SentinelIInvImplies == SentinelIInv => SentinelInv
<1> SUFFICES ASSUME SentinelIInv PROVE StallJustified
  BY DEF SentinelIInv, SentinelInv
<1>1. ASSUME NEW g \in Guard
      PROVE  /\ output[g].decided # Nil => ran[g] = policy[g].timeout
             /\ probe[g].decided # Nil => Stands(g, probe[g].decided, heard[g])
             /\ signal[g] = "sentinel" => trigger[g] \in {output[g].decided, probe[g].decided} \ {Nil}
             /\ outcome[g] = "on_terminal" => "terminal" \in {probe[g].decided}
  <2>1. OutputSound(g) /\ ProbeSound(g) /\ SignalSound(g)
    BY SentinelTypes
  <2> QED
    BY <2>1 DEF OutputSound, ProbeSound, SignalSound
<1> QED
  BY <1>1 DEF StallJustified

(* The sentinel (workflow/sentinel) declares a run stalled only on its own  *)
(* grounds: for want of output after the whole of the timeout since the    *)
(* run was registered, for want of progress on the reports of its own      *)
(* probes; and leaves a trigger of one of its watchers for every run that  *)
(* it aborts, whatever the policies, the digests and the number of runs.   *)
THEOREM StallsAlwaysJustified == SentinelSpec => []SentinelInv
<1>1. SentinelSpec => []SentinelIInv
  BY SentinelInitial, SentinelStep, PTL DEF SentinelSpec
<1> QED
  BY <1>1, SentinelIInvImplies, PTL

=============================================================================
