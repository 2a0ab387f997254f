--------------------------- MODULE ServicesProofs ---------------------------
(***************************************************************************)
(* Proofs about the two services that run for long: the daemon with its    *)
(* event sources, and the Scheduler with its job queue, its Supervisor and *)
(* its dead letter queue.                                                  *)
(*                                                                         *)
(* The invariants that the run "services" checks on an instance hold for   *)
(* every set of sources, triggers, jobs, keys, processes and letters.      *)
(***************************************************************************)
EXTENDS Scheduler, Daemon, SchedulerServices, FiniteSetTheorems, SequenceTheorems, WellFoundedInduction, TLAPS

-----------------------------------------------------------------------------
(* Sequences.                                                              *)

LEMMA TailFacts ==
    ASSUME NEW S, NEW seq \in Seq(S), seq # << >>
    PROVE  /\ Tail(seq) \in Seq(S) /\ Len(Tail(seq)) = Len(seq) - 1 /\ Len(seq) >= 1
           /\ \A i \in 1..Len(Tail(seq)) : Tail(seq)[i] = seq[i + 1]
           /\ Head(seq) = seq[1] /\ Head(seq) \in S
OBVIOUS

LEMMA AppendedFacts ==
    ASSUME NEW S, NEW seq \in Seq(S), NEW x \in S
    PROVE  /\ Append(seq, x) \in Seq(S) /\ Len(Append(seq, x)) = Len(seq) + 1
           /\ Len(seq) \in Nat
           /\ Append(seq, x)[Len(seq) + 1] = x
           /\ \A i \in 1..Len(seq) : Append(seq, x)[i] = seq[i]
OBVIOUS

LEMMA SetToSeqFacts ==
    ASSUME NEW S, IsFiniteSet(S)
    PROVE  /\ SetToSeq(S) \in Seq(S) /\ Len(SetToSeq(S)) = Cardinality(S) /\ Cardinality(S) \in Nat
           /\ SetToSeq(S) = << >> => S = {}
<1>1. Cardinality(S) \in Nat /\ ExistsBijection(1..Cardinality(S), S)
  BY FS_CardinalityType
<1>2. PICK f \in [1..Cardinality(S) -> S] : \A a, b \in DOMAIN f : f[a] = f[b] => a = b
  BY <1>1 DEF ExistsBijection, Bijection, Injection, Surjection, IsInjective
<1>3. \E g \in [1..Cardinality(S) -> S] : IsInjective(g)
  BY <1>2 DEF IsInjective
<1>4. SetToSeq(S) \in [1..Cardinality(S) -> S]
  BY <1>3 DEF SetToSeq
<1>5. SetToSeq(S) \in Seq(S) /\ Len(SetToSeq(S)) = Cardinality(S)
  BY <1>1, <1>4
<1>6. Cardinality(S) = 0 => S = {}
  BY FS_EmptySet
<1> QED
  BY <1>1, <1>5, <1>6

-----------------------------------------------------------------------------
(* The buffer of the event sources.                                        *)

\* Events wait in the order of their numbers, and those dropped are older.
BufferSound ==
    /\ clock \in 0..MaxTime
    /\ buffer \in Seq(Event) /\ Len(buffer) <= BufferSize
    /\ emitted \in Nat /\ dropped \in 0..emitted
    /\ \A i \in 1..Len(buffer) : dropped < buffer[i].number /\ buffer[i].number <= emitted
    /\ \A i, k \in 1..Len(buffer) : i < k => buffer[i].number < buffer[k].number

LEMMA SourceConstants ==
    /\ BufferSize \in Nat /\ BufferSize >= 1 /\ MaxTime \in Nat /\ MaxEvents \in Nat
    /\ IsFiniteSet(Source) /\ NoOutput \notin Output
<1>1. BufferSize \in Nat \ {0} /\ MaxTime \in Nat /\ MaxEvents \in Nat /\ IsFiniteSet(Source)
      /\ NoOutput \notin Output
  BY SourcesAssumption, Zenon
<1> QED
  BY <1>1

LEMMA EventFacts ==
    ASSUME NEW s \in Source, NEW n \in Nat \ {0}, clock \in 0..MaxTime
    PROVE  [source |-> s, time |-> clock, number |-> n] \in Event
BY DEF Event

LEMMA NumberFacts ==
    ASSUME NEW e \in Event
    PROVE  e.number \in Nat /\ e.number >= 1
BY DEF Event

LEMMA YieldSound ==
    ASSUME BufferSound, NEW s \in Source, Yield(s), UNCHANGED clock
    PROVE  BufferSound'
<1> DEFINE e == [source |-> s, time |-> clock, number |-> emitted + 1]
<1>1. e \in Event /\ e.number = emitted + 1 /\ emitted' = emitted + 1 /\ emitted \in Nat
  BY EventFacts DEF Yield, BufferSound
<1>2. Push(e)
  BY DEF Yield
<1> HIDE DEF e
<1>3. CASE Len(buffer) >= BufferSize
  <2>1. buffer \in Seq(Event) /\ Len(buffer) = BufferSize /\ buffer # << >>
    BY <1>3, SourceConstants DEF BufferSound
  <2>2. buffer' = Append(Tail(buffer), e) /\ dropped' = buffer[1].number
    BY <1>2, <1>3, <2>1, TailFacts DEF Push
  <2>3. /\ Tail(buffer) \in Seq(Event) /\ Len(Tail(buffer)) = Len(buffer) - 1 /\ Len(buffer) >= 1
        /\ \A i \in 1..Len(Tail(buffer)) : Tail(buffer)[i] = buffer[i + 1]
    BY <2>1, TailFacts
  <2>4. /\ buffer' \in Seq(Event) /\ Len(buffer') = Len(buffer) /\ buffer'[Len(buffer)] = e
        /\ \A i \in 1..(Len(buffer) - 1) : buffer'[i] = buffer[i + 1]
    BY <1>1, <2>2, <2>3, AppendedFacts
  <2>5. \A i \in 1..Len(buffer) : buffer[i].number \in Nat
    BY <2>1, NumberFacts
  <2>6. dropped' \in 0..emitted'
    BY <1>1, <2>2, <2>3, <2>5 DEF BufferSound
  <2>7. ASSUME NEW i \in 1..Len(buffer)
        PROVE  dropped' < buffer'[i].number /\ buffer'[i].number <= emitted'
    <3>1. CASE i = Len(buffer)
      BY <1>1, <2>2, <2>3, <2>4, <2>5, <3>1 DEF BufferSound
    <3>2. CASE i # Len(buffer)
      <4>1. i \in 1..(Len(buffer) - 1) /\ i + 1 \in 1..Len(buffer) /\ 1 \in 1..Len(buffer) /\ 1 < i + 1
        BY <2>3, <3>2
      <4>2. buffer'[i] = buffer[i + 1] /\ buffer[1].number < buffer[i + 1].number
            /\ buffer[i + 1].number <= emitted
        BY <2>4, <4>1 DEF BufferSound
      <4> QED
        BY <1>1, <2>2, <2>5, <4>1, <4>2
    <3> QED
      BY <3>1, <3>2
  <2>8. ASSUME NEW i \in 1..Len(buffer), NEW k \in 1..Len(buffer), i < k
        PROVE  buffer'[i].number < buffer'[k].number
    <3>1. i \in 1..(Len(buffer) - 1) /\ i + 1 \in 1..Len(buffer) /\ buffer'[i] = buffer[i + 1]
      BY <2>3, <2>4, <2>8
    <3>2. CASE k = Len(buffer)
      <4>1. buffer[i + 1].number <= emitted
        BY <3>1 DEF BufferSound
      <4> QED
        BY <1>1, <2>4, <2>5, <3>1, <3>2, <4>1
    <3>3. CASE k # Len(buffer)
      <4>1. k + 1 \in 1..Len(buffer) /\ buffer'[k] = buffer[k + 1] /\ i + 1 < k + 1
        BY <2>3, <2>4, <2>8, <3>3
      <4> QED
        BY <3>1, <4>1 DEF BufferSound
    <3> QED
      BY <3>2, <3>3
  <2> QED
    BY <1>1, <2>1, <2>4, <2>6, <2>7, <2>8 DEF BufferSound
<1>4. CASE ~(Len(buffer) >= BufferSize)
  <2>1. buffer \in Seq(Event) /\ Len(buffer) \in Nat /\ Len(buffer) + 1 <= BufferSize
    BY <1>4, SourceConstants DEF BufferSound
  <2>2. buffer' = Append(buffer, e) /\ dropped' = dropped
    BY <1>2, <1>4 DEF Push
  <2>3. /\ buffer' \in Seq(Event) /\ Len(buffer') = Len(buffer) + 1 /\ buffer'[Len(buffer) + 1] = e
        /\ \A i \in 1..Len(buffer) : buffer'[i] = buffer[i]
    BY <1>1, <2>1, <2>2, AppendedFacts
  <2>4. \A i \in 1..Len(buffer) : buffer[i].number \in Nat
    BY <2>1, NumberFacts
  <2>5. \A i \in 1..(Len(buffer) + 1) : i \in 1..Len(buffer) \/ i = Len(buffer) + 1
    BY <2>1
  <2>6. ASSUME NEW i \in 1..(Len(buffer) + 1)
        PROVE  dropped' < buffer'[i].number /\ buffer'[i].number <= emitted'
    BY <1>1, <2>1, <2>2, <2>3, <2>4, <2>5 DEF BufferSound
  <2>7. ASSUME NEW i \in 1..(Len(buffer) + 1), NEW k \in 1..(Len(buffer) + 1), i < k
        PROVE  buffer'[i].number < buffer'[k].number
    <3>1. i \in 1..Len(buffer) /\ buffer'[i] = buffer[i]
      BY <2>1, <2>3, <2>7
    <3>2. CASE k = Len(buffer) + 1
      BY <1>1, <2>3, <2>4, <3>1, <3>2 DEF BufferSound
    <3>3. CASE k # Len(buffer) + 1
      <4>1. k \in 1..Len(buffer) /\ buffer'[k] = buffer[k]
        BY <2>1, <2>3, <3>3
      <4> QED
        BY <2>7, <3>1, <4>1 DEF BufferSound
    <3> QED
      BY <3>2, <3>3
  <2> QED
    BY <1>1, <2>1, <2>2, <2>3, <2>6, <2>7 DEF BufferSound
<1> QED
  BY <1>3, <1>4

LEMMA StopSourcesSound ==
    ASSUME BufferSound, StopSources, UNCHANGED clock
    PROVE  BufferSound'
<1> DEFINE open == {s \in Source : batchTimer[s] /\ pending[s] # {} /\ Live(s)}
           late == SetToSeq(open)
           events == [i \in DOMAIN late |->
                         [source |-> late[i], time |-> clock, number |-> emitted + i]]
           all == buffer \o events
           over == Len(all) - BufferSize
<1>1. /\ emitted' = emitted + Len(late)
      /\ buffer' = IF over > 0 THEN SubSeq(all, over + 1, Len(all)) ELSE all
      /\ dropped' = IF over > 0 THEN all[over].number ELSE dropped
  BY DEF StopSources
<1>2. late \in Seq(Source) /\ Len(late) \in Nat
  <2>1. IsFiniteSet(open)
    BY SourceConstants, FS_Subset
  <2>2. late \in Seq(open) /\ Len(late) \in Nat
    BY <2>1, SetToSeqFacts
  <2> QED
    BY <2>2
<1>3. buffer \in Seq(Event) /\ Len(buffer) \in Nat /\ emitted \in Nat /\ dropped \in 0..emitted
      /\ BufferSize \in Nat /\ BufferSize >= 1 /\ Len(buffer) <= BufferSize
  BY SourceConstants DEF BufferSound
<1> HIDE DEF late
<1>4. /\ events \in Seq(Event) /\ Len(events) = Len(late)
      /\ \A i \in 1..Len(late) : events[i].number = emitted + i
  <2>1. \A i \in 1..Len(late) : [source |-> late[i], time |-> clock, number |-> emitted + i] \in Event
    BY <1>2, <1>3, EventFacts DEF BufferSound
  <2>2. events \in [1..Len(late) -> Event]
    BY <1>2, <2>1
  <2>3. \A i \in 1..Len(late) : events[i].number = emitted + i
    BY <1>2
  <2> HIDE DEF events
  <2> QED
    BY <1>2, <2>2, <2>3
<1> HIDE DEF events
<1>5. /\ all \in Seq(Event) /\ Len(all) = Len(buffer) + Len(late)
      /\ \A i \in 1..Len(buffer) : all[i] = buffer[i]
      /\ \A i \in 1..Len(late) : all[Len(buffer) + i] = events[i]
  <2>1. /\ all \in Seq(Event) /\ Len(all) = Len(buffer) + Len(events)
        /\ \A i \in 1..(Len(buffer) + Len(events)) :
             all[i] = IF i <= Len(buffer) THEN buffer[i] ELSE events[i - Len(buffer)]
    BY <1>3, <1>4, ConcatProperties
  <2> HIDE DEF all
  <2>2. Len(all) = Len(buffer) + Len(late) /\ \A i \in 1..Len(buffer) : all[i] = buffer[i]
    BY <1>2, <1>3, <1>4, <2>1
  <2>3. ASSUME NEW i \in 1..Len(late) PROVE all[Len(buffer) + i] = events[i]
    <3>1. Len(buffer) + i \in 1..(Len(buffer) + Len(events)) /\ ~(Len(buffer) + i <= Len(buffer))
          /\ (Len(buffer) + i) - Len(buffer) = i
      BY <1>2, <1>3, <1>4
    <3> QED
      BY <2>1, <3>1
  <2> QED
    BY <2>1, <2>2, <2>3 DEF all
<1> HIDE DEF all
<1>6. \A i \in 1..Len(buffer) : buffer[i].number \in Nat
  BY <1>3, NumberFacts
<1>7. ASSUME NEW i \in 1..Len(all)
      PROVE  all[i].number \in Nat /\ dropped < all[i].number /\ all[i].number <= emitted'
  <2>1. CASE i <= Len(buffer)
    <3>1. i \in 1..Len(buffer)
      BY <1>3, <1>5, <2>1
    <3>2. all[i] = buffer[i] /\ buffer[i].number \in Nat
      BY <1>5, <1>6, <3>1
    <3>3. dropped < buffer[i].number /\ buffer[i].number <= emitted
      BY <3>1 DEF BufferSound
    <3>4. emitted <= emitted'
      BY <1>1, <1>2, <1>3
    <3> QED
      BY <1>1, <1>2, <1>3, <3>2, <3>3, <3>4
  <2>2. CASE i > Len(buffer)
    <3>1. PICK j \in 1..Len(late) : i = Len(buffer) + j
      <4>1. i - Len(buffer) \in 1..Len(late) /\ i = Len(buffer) + (i - Len(buffer))
        BY <1>2, <1>3, <1>5, <2>2
      <4> QED
        BY <4>1
    <3>2. all[i].number = emitted + j
      BY <1>4, <1>5, <3>1
    <3> QED
      BY <1>1, <1>2, <1>3, <3>1, <3>2
  <2> QED
    BY <1>3, <2>1, <2>2
<1>8. ASSUME NEW i \in 1..Len(all), NEW k \in 1..Len(all), i < k
      PROVE  all[i].number < all[k].number
  <2>1. CASE k <= Len(buffer)
    BY <1>3, <1>5, <1>8, <2>1 DEF BufferSound
  <2>2. CASE k > Len(buffer)
    <3>1. k - Len(buffer) \in 1..Len(late) /\ k = Len(buffer) + (k - Len(buffer))
      BY <1>2, <1>3, <1>5, <2>2
    <3>2. all[k].number = emitted + (k - Len(buffer))
      BY <1>4, <1>5, <3>1
    <3>3. CASE i <= Len(buffer)
      <4>1. all[i].number \in Nat /\ all[i].number <= emitted
        BY <1>3, <1>5, <1>6, <3>3 DEF BufferSound
      <4> QED
        BY <1>3, <3>1, <3>2, <4>1
    <3>4. CASE i > Len(buffer)
      <4>1. i - Len(buffer) \in 1..Len(late) /\ i = Len(buffer) + (i - Len(buffer))
        BY <1>2, <1>3, <1>5, <3>4
      <4>2. all[i].number = emitted + (i - Len(buffer))
        BY <1>4, <1>5, <4>1
      <4> QED
        BY <1>3, <1>8, <3>1, <3>2, <4>1, <4>2
    <3> QED
      BY <1>3, <3>3, <3>4
  <2> QED
    BY <1>3, <2>1, <2>2
<1>9. emitted' \in Nat /\ Len(all) \in Nat /\ over \in Int
  BY <1>1, <1>2, <1>3, <1>5
<1>10. CASE over > 0
  <2>1. over + 1 \in Int /\ Len(all) \in Int /\ \A i \in (over + 1)..Len(all) : all[i] \in Event
    BY <1>5, <1>9, <1>10
  <2>2. buffer' = SubSeq(all, over + 1, Len(all)) /\ dropped' = all[over].number
    BY <1>1, <1>10
  <2>3. /\ buffer' \in Seq(Event)
        /\ Len(buffer') = IF over + 1 <= Len(all) THEN Len(all) - (over + 1) + 1 ELSE 0
        /\ \A i \in 1..(Len(all) - (over + 1) + 1) : buffer'[i] = all[(over + 1) + i - 1]
    <3> DEFINE m == over + 1
    <3> HIDE DEF over
    <3>1. m \in Int /\ \A i \in m..Len(all) : all[i] \in Event
      BY <2>1
    <3> HIDE DEF m
    <3>2. /\ SubSeq(all, m, Len(all)) \in Seq(Event)
          /\ Len(SubSeq(all, m, Len(all))) = IF m <= Len(all) THEN Len(all) - m + 1 ELSE 0
          /\ \A i \in 1..(Len(all) - m + 1) : SubSeq(all, m, Len(all))[i] = all[m + i - 1]
      BY <2>1, <3>1, SubSeqProperties
    <3> QED
      BY <2>2, <3>2 DEF m
  <2>4. Len(buffer') = BufferSize /\ \A i \in 1..BufferSize : buffer'[i] = all[over + i]
    BY <1>3, <1>9, <1>10, <2>3
  <2>5. over \in 1..Len(all) /\ \A i \in 1..BufferSize : over + i \in 1..Len(all) /\ over < over + i
    BY <1>3, <1>9, <1>10
  <2>6. dropped' \in 0..emitted'
    BY <1>7, <1>9, <2>2, <2>5
  <2>7. \A i \in 1..BufferSize : dropped' < buffer'[i].number /\ buffer'[i].number <= emitted'
    BY <1>7, <1>8, <2>2, <2>4, <2>5
  <2>8. \A i, k \in 1..BufferSize : i < k => buffer'[i].number < buffer'[k].number
    <3>1. \A i, k \in 1..BufferSize : i < k => over + i < over + k
      BY <1>3, <1>9
    <3> QED
      BY <1>8, <2>4, <2>5, <3>1
  <2> HIDE DEF over
  <2> QED
    BY <1>3, <1>9, <2>3, <2>4, <2>6, <2>7, <2>8 DEF BufferSound
<1>11. CASE ~(over > 0)
  <2>1. buffer' = all /\ dropped' = dropped /\ Len(all) <= BufferSize
    BY <1>1, <1>3, <1>9, <1>11
  <2>2. dropped' \in 0..emitted'
    BY <1>1, <1>2, <1>3, <2>1
  <2> HIDE DEF over
  <2> QED
    BY <1>5, <1>7, <1>8, <1>9, <2>1, <2>2 DEF BufferSound
<1> QED
  BY <1>10, <1>11

-----------------------------------------------------------------------------
(* The sources.                                                            *)

SourcesRest ==
    /\ generator \in [Source -> {"off", "waiting", "running", "ended"}]
    /\ pending \in [Source -> SUBSET Change]
    /\ batchTimer \in [Source -> BOOLEAN]
    /\ reading \in [Source -> 0..MaxEvents]
    /\ lastOutput \in [Source -> Output \cup {NoOutput}]
    /\ \A s \in Source :
         pending[s] # {} => batchTimer[s] /\ generator[s] = "waiting" /\ Kind[s] = "fswatch"

SourcesIInv == BufferSound /\ SourcesRest

LEMMA SourcesIInvImplies == SourcesIInv => SourcesInv
<1> SUFFICES ASSUME SourcesIInv PROVE SourcesInv
  OBVIOUS
<1>1. SourcesTypeOK
  BY DEF SourcesIInv, BufferSound, SourcesRest, SourcesTypeOK
<1>2. NewestKept
  BY DEF SourcesIInv, BufferSound, NewestKept
<1>3. NoChangeStranded
  BY DEF SourcesIInv, SourcesRest, NoChangeStranded
<1> QED
  BY <1>1, <1>2, <1>3 DEF SourcesInv

LEMMA SourcesInitial == SourcesInit => SourcesIInv
<1> SUFFICES ASSUME SourcesInit PROVE SourcesIInv
  OBVIOUS
<1>1. BufferSound
  BY SourceConstants DEF SourcesInit, BufferSound
<1>2. SourcesRest
  BY SourceConstants DEF SourcesInit, SourcesRest
<1> QED
  BY <1>1, <1>2 DEF SourcesIInv

LEMMA BufferUntouched ==
    ASSUME BufferSound, YieldNothing, UNCHANGED clock
    PROVE  BufferSound'
BY DEF BufferSound, YieldNothing

LEMMA BufferStep ==
    ASSUME SourcesIInv, NEW s \in Source, SourceStep(s)
    PROVE  BufferSound'
<1>1. BufferSound
  BY DEF SourcesIInv
<1>2. UNCHANGED clock /\ (YieldNothing \/ Yield(s))
  <2>1. CASE TimerExpires(s)
    BY <2>1 DEF TimerExpires
  <2>2. CASE NoNextFire(s)
    BY <2>2 DEF NoNextFire
  <2>3. CASE FlushBatch(s)
    BY <2>3 DEF FlushBatch
  <2>4. CASE RequestArrives(s)
    BY <2>4 DEF RequestArrives
  <2>5. CASE RequestRead(s)
    BY <2>5 DEF RequestRead
  <2>6. CASE CommandStarts(s)
    BY <2>6 DEF CommandStarts
  <2>7. ASSUME NEW change \in Change, FileChanges(s, change)
        PROVE  UNCHANGED clock /\ (YieldNothing \/ Yield(s))
    BY <2>7 DEF FileChanges
  <2>8. ASSUME NEW o \in Output, CommandEnds(s, o)
        PROVE  UNCHANGED clock /\ (YieldNothing \/ Yield(s))
    BY <2>8 DEF CommandEnds
  <2> QED
    BY <2>1, <2>2, <2>3, <2>4, <2>5, <2>6, <2>7, <2>8 DEF SourceStep
<1> QED
  BY <1>1, <1>2, BufferUntouched, YieldSound

LEMMA SourceStepSound ==
    ASSUME SourcesIInv, NEW s \in Source, SourceStep(s)
    PROVE  SourcesIInv'
<1>1. SourcesRest /\ BufferSound
  BY DEF SourcesIInv
<1>2. SourcesRest'
  <2> USE <1>1 DEF SourcesRest
  <2>1. CASE TimerExpires(s)
    BY <2>1 DEF TimerExpires
  <2>2. CASE NoNextFire(s)
    BY <2>2 DEF NoNextFire
  <2>3. CASE FlushBatch(s)
    BY <2>3 DEF FlushBatch
  <2>4. CASE RequestArrives(s)
    BY <2>4, SourceConstants DEF RequestArrives, BufferSound
  <2>5. CASE RequestRead(s)
    BY <2>5, SourceConstants DEF RequestRead
  <2>6. CASE CommandStarts(s)
    BY <2>6 DEF CommandStarts
  <2>7. ASSUME NEW change \in Change, FileChanges(s, change) PROVE SourcesRest'
    BY <2>7 DEF FileChanges
  <2>8. ASSUME NEW o \in Output, CommandEnds(s, o) PROVE SourcesRest'
    BY <2>8 DEF CommandEnds
  <2> QED
    BY <2>1, <2>2, <2>3, <2>4, <2>5, <2>6, <2>7, <2>8 DEF SourceStep
<1> QED
  BY <1>2, BufferStep DEF SourcesIInv

-----------------------------------------------------------------------------
(* The daemon.                                                             *)

Busy == {"state", "gate", "prepare", "workflow", "analyze", "saveState", "saveResult", "record"}

\* The places where the workflow of a trigger is under way or its result is not saved.
Working == {"gate", "prepare", "workflow", "analyze", "saveState"}

\* The places between the writes of the three files.
Writing == {"saveResult", "record"}

\* What the chain works on: while it works, the state it read is the state in the file,
\* which allowed the trigger to run.
ChainSound ==
    /\ at \in Busy => todo # << >> /\ event \in Event
    /\ at \in Working =>
         /\ held = stateFile[t0] /\ held.enabled
         /\ held.lastFiredAt # Never => event.time >= held.lastFiredAt + Debounce[t0]
         /\ held.cooldownUntil # Never => outcome.started >= held.cooldownUntil
         /\ \A i \in 1..Len(executed[t0]) : executed[t0][i].ended <= outcome.started
         /\ outcome.started <= outcome.ended /\ outcome.ended <= clock

\* The state of a trigger tells of all its executions.
TriggerSound(t) ==
    LET ex == executed[t]
        n == Len(ex)
        state == stateFile[t]
        c == state.consecutiveFailures
    IN /\ state.executionCount = n
       /\ n = 0 => state.lastFiredAt = Never
       /\ n > 0 => state.lastFiredAt = ex[n].fired
       /\ \A i \in 1..n : ex[i].ended <= clock
       /\ \A i \in 1..n : ex[i].status = "SUCCEEDED" /\ Cooldown[t] > 0 =>
            state.cooldownUntil # Never /\ state.cooldownUntil >= ex[i].ended + Cooldown[t]
       /\ c <= n /\ \A i \in (n - c + 1)..n : ex[i].status # "SUCCEEDED"
       /\ c < n => ex[n - c].status = "SUCCEEDED"
       /\ ~state.enabled <=> t \in Pauses /\ n > 0 /\ c > 0 /\ c >= MaxRetries[t]
       /\ \A i, k \in 1..n : i < k =>
            /\ ex[k].fired >= ex[i].fired + Debounce[t]
            /\ ex[i].status = "SUCCEEDED" => ex[k].started >= ex[i].ended + Cooldown[t]

\* The other files of a trigger, while its result is being written and otherwise.
FilesWritten(t) ==
    LET ex == executed[t]
        n == Len(ex)
    IN /\ n > 0 /\ ex[n].status = outcome.status /\ ex[n].ended = outcome.ended
       /\ at = "record" => resultFile[t] = outcome.status
       /\ crashes = 0 => history[t] \cup {outcome.ended} = {ex[i].ended : i \in 1..n}

FilesDone(t) ==
    LET ex == executed[t]
        n == Len(ex)
    IN crashes = 0 => /\ resultFile[t] = IF n = 0 THEN "none" ELSE ex[n].status
                      /\ history[t] = {ex[i].ended : i \in 1..n}

FilesSound(t) == IF at \in Writing /\ t0 = t THEN FilesWritten(t) ELSE FilesDone(t)

DaemonIInv ==
    /\ SourcesIInv /\ DaemonTypeOK /\ OneWorkflow /\ ChainSound
    /\ at = "off" => \A s \in Source : generator[s] = "off"
    /\ \A t \in Trigger : TriggerSound(t) /\ FilesSound(t)

LEMMA DaemonConstants ==
    /\ IsFiniteSet(Trigger) /\ On \in [Trigger -> Source]
    /\ Debounce \in [Trigger -> Nat] /\ Cooldown \in [Trigger -> Nat]
    /\ MaxRetries \in [Trigger -> Nat] /\ MaxConcurrent \in Nat /\ MaxConcurrent >= 1
    /\ MaxCrashes \in Nat /\ Never \notin Nat /\ MaxTime \in Nat
BY DaemonAssumption, SourceConstants

LEMMA DaemonInitial == DaemonInit => DaemonIInv
<1> SUFFICES ASSUME DaemonInit PROVE DaemonIInv
  OBVIOUS
<1>1. SourcesIInv /\ \A s \in Source : generator[s] = "off"
  BY SourcesInitial DEF DaemonInit, SourcesInit
<1>2. DaemonTypeOK
  <2>1. DefaultState \in TriggerState /\ NoOutcome \in [status: Status, started: 0..MaxTime, ended: 0..MaxTime]
    BY DaemonConstants DEF DefaultState, TriggerState, NoOutcome, Status
  <2>2. << >> \in Seq(Trigger) /\ << >> \in Seq(Execution) /\ "off" \in Place
    BY DEF Place
  <2> QED
    BY <2>1, <2>2, DaemonConstants DEF DaemonInit, DaemonTypeOK
<1>3. OneWorkflow /\ ChainSound
  BY DEF DaemonInit, OneWorkflow, ChainSound, Stage, Busy, Working
<1>4. ASSUME NEW t \in Trigger PROVE TriggerSound(t) /\ FilesSound(t)
  <2>1. executed[t] = << >> /\ stateFile[t] = DefaultState /\ resultFile[t] = "none" /\ history[t] = {}
        /\ at = "off"
    BY <1>4 DEF DaemonInit
  <2>2. Len(executed[t]) = 0
    BY <2>1
  <2>3. TriggerSound(t)
    BY <2>1, <2>2, DaemonConstants DEF TriggerSound, DefaultState
  <2>4. FilesSound(t)
    BY <2>1, <2>2 DEF FilesSound, FilesDone, Writing
  <2> QED
    BY <2>3, <2>4
<1> QED
  BY <1>1, <1>2, <1>3, <1>4 DEF DaemonIInv

LEMMA ExecutionFacts ==
    ASSUME NEW seq \in Seq(Execution), NEW i \in 1..Len(seq)
    PROVE  /\ seq[i] \in Execution /\ seq[i].fired \in Nat /\ seq[i].started \in Nat
           /\ seq[i].ended \in Nat /\ seq[i].ended \in 0..MaxTime /\ seq[i].status \in Status
<1>1. seq[i] \in Execution
  OBVIOUS
<1> QED
  BY <1>1, SourceConstants DEF Execution

LEMMA FilesUntouched ==
    ASSUME DaemonIInv, UNCHANGED files, clock' \in Nat, clock' >= clock, NEW t \in Trigger,
           \/ UNCHANGED <<at, todo, outcome, crashes>>
           \/ at \notin Writing /\ at' \notin Writing /\ crashes' = crashes
           \/ crashes' > 0 /\ at' \notin Writing
    PROVE  TriggerSound(t)' /\ FilesSound(t)'
<1>1. TriggerSound(t) /\ FilesSound(t) /\ clock \in Nat /\ executed[t] \in Seq(Execution)
  BY SourceConstants DEF DaemonIInv, SourcesIInv, BufferSound, DaemonTypeOK
<1>2. \A i \in 1..Len(executed[t]) : executed[t][i].ended \in Nat
  BY <1>1, ExecutionFacts
<1>3. executed' = executed /\ stateFile' = stateFile /\ resultFile' = resultFile /\ history' = history
  BY DEF files
<1>4. TriggerSound(t)'
  <2>1. \A i \in 1..Len(executed[t]) : executed[t][i].ended <= clock'
    BY <1>1, <1>2 DEF TriggerSound
  <2> QED
    BY <1>1, <1>3, <2>1 DEF TriggerSound
<1>5. FilesSound(t)'
  BY <1>1, <1>3 DEF FilesSound, FilesWritten, FilesDone, t0
<1> QED
  BY <1>4, <1>5

LEMMA SourcesUntouched ==
    ASSUME DaemonIInv, UNCHANGED <<clock, sourceVars>>, at' = "off" => at = "off"
    PROVE  /\ SourcesIInv' /\ clock' \in Nat /\ clock \in Nat /\ clock' >= clock
           /\ at' = "off" => \A s \in Source : generator'[s] = "off"
<1>1. /\ BufferSound /\ SourcesRest /\ clock' = clock
      /\ generator' = generator /\ pending' = pending /\ batchTimer' = batchTimer
      /\ reading' = reading /\ lastOutput' = lastOutput /\ UNCHANGED <<buffer, emitted, dropped>>
      /\ at = "off" => \A s \in Source : generator[s] = "off"
  BY DEF DaemonIInv, SourcesIInv, sourceVars
<1>2. BufferSound'
  BY <1>1 DEF BufferSound
<1>3. SourcesRest'
  BY <1>1 DEF SourcesRest
<1>4. clock \in Nat
  BY <1>1, SourceConstants DEF BufferSound
<1> QED
  BY <1>1, <1>2, <1>3, <1>4 DEF SourcesIInv

\* The steps that touch neither a file nor a source.
LEMMA RestUntouched ==
    ASSUME DaemonIInv, UNCHANGED <<clock, sourceVars, files, crashes>>, at' # "off",
           \/ UNCHANGED <<at, todo, outcome>>
           \/ at \notin Writing /\ at' \notin Writing,
           DaemonTypeOK', OneWorkflow', ChainSound'
    PROVE  DaemonIInv'
<1>1. /\ SourcesIInv' /\ clock' \in Nat /\ clock' >= clock
      /\ at' = "off" => \A s \in Source : generator'[s] = "off"
  BY SourcesUntouched
<1>2. \A t \in Trigger : TriggerSound(t)' /\ FilesSound(t)'
  BY <1>1, FilesUntouched
<1> QED
  BY <1>1, <1>2 DEF DaemonIInv

LEMMA StartDaemonSound == ASSUME DaemonIInv, StartDaemon PROVE DaemonIInv'
<1>1. /\ at = "off" /\ at' = "next" /\ UNCHANGED <<clock, pending, batchTimer, reading, lastOutput>>
      /\ generator' = Subscribed /\ daemonFile' = "running" /\ YieldNothing
      /\ UNCHANGED <<event, todo, held, outcome, workflows, stopping, files, crashes>>
  BY DEF StartDaemon
<1>2. BufferSound /\ SourcesRest /\ DaemonTypeOK /\ OneWorkflow /\ \A s \in Source : generator[s] = "off"
  BY <1>1 DEF DaemonIInv, SourcesIInv
<1>3. SourcesIInv'
  <2>1. BufferSound'
    BY <1>1, <1>2, BufferUntouched
  <2>2. \A s \in Source : pending[s] = {}
    BY <1>2 DEF SourcesRest
  <2>3. SourcesRest'
    BY <1>1, <1>2, <2>2 DEF SourcesRest, Subscribed
  <2> QED
    BY <2>1, <2>3 DEF SourcesIInv
<1>4. DaemonTypeOK'
  BY <1>1, <1>2 DEF DaemonTypeOK, workflows, files, Place
<1>5. OneWorkflow' /\ ChainSound'
  BY <1>1, <1>2 DEF OneWorkflow, Stage, workflows, ChainSound, Busy, Working
<1>6. at \notin Writing /\ at' \notin Writing /\ crashes' = crashes /\ UNCHANGED files
      /\ clock' \in Nat /\ clock' >= clock
  BY <1>1, <1>2, SourceConstants DEF Writing, BufferSound
<1>7. \A t \in Trigger : TriggerSound(t)' /\ FilesSound(t)'
  BY <1>6, FilesUntouched
<1> QED
  BY <1>1, <1>3, <1>4, <1>5, <1>7 DEF DaemonIInv

LEMMA NextEventSound == ASSUME DaemonIInv, NextEvent PROVE DaemonIInv'
<1>1. /\ at = "next" /\ UNCHANGED <<clock, generator, pending, batchTimer, reading, lastOutput>>
      /\ UNCHANGED <<emitted, dropped>> /\ UNCHANGED <<held, outcome, workflows, stopping>>
      /\ UNCHANGED <<daemonFile, files, crashes>>
  BY DEF NextEvent
<1>2. BufferSound /\ SourcesRest /\ DaemonTypeOK /\ OneWorkflow
  BY DEF DaemonIInv, SourcesIInv
<1>3. /\ buffer' = buffer \/ (buffer # << >> /\ buffer' = Tail(buffer))
      /\ at' \in {"next", "state", "saveStopped"}
      /\ event' \in Event \cup {NoEvent} /\ todo' \in Seq(Trigger)
      /\ at' = "state" => todo' # << >> /\ event' \in Event
  <2>1. CASE buffer # << >> /\ ~ShutdownRequested
    <3> DEFINE here == {t \in Trigger : On[t] = Head(buffer).source}
    <3>1. IsFiniteSet(here)
      BY DaemonConstants, FS_Subset
    <3>2. SetToSeq(here) \in Seq(here)
      BY <3>1, SetToSeqFacts
    <3>3. SetToSeq(here) \in Seq(Trigger) /\ buffer \in Seq(Event) /\ Head(buffer) \in Event
      BY <1>2, <2>1, <3>2, TailFacts DEF BufferSound
    <3>4. event \in Event \cup {NoEvent} /\ todo \in Seq(Trigger)
      BY <1>2 DEF DaemonTypeOK
    <3>5. /\ buffer' = Tail(buffer)
          /\ IF SetToSeq(here) = << >> THEN UNCHANGED <<at, event, todo>>
             ELSE at' = "state" /\ event' = Head(buffer) /\ todo' = SetToSeq(here)
      BY <2>1 DEF NextEvent
    <3> HIDE DEF here
    <3> QED
      BY <1>1, <2>1, <3>3, <3>4, <3>5
  <2>2. CASE ~(buffer # << >> /\ ~ShutdownRequested)
    <3>1. event \in Event \cup {NoEvent} /\ todo \in Seq(Trigger)
      BY <1>2 DEF DaemonTypeOK
    <3> QED
      BY <2>2, <3>1 DEF NextEvent
  <2> QED
    BY <2>1, <2>2
<1>4. SourcesIInv'
  <2>1. BufferSound'
    <3>1. CASE buffer' = buffer
      BY <1>1, <1>2, <3>1 DEF BufferSound
    <3>2. CASE buffer # << >> /\ buffer' = Tail(buffer)
      <4>1. /\ Tail(buffer) \in Seq(Event) /\ Len(Tail(buffer)) = Len(buffer) - 1 /\ Len(buffer) >= 1
            /\ \A i \in 1..Len(Tail(buffer)) : Tail(buffer)[i] = buffer[i + 1]
        BY <1>2, <3>2, TailFacts DEF BufferSound
      <4>2. \A i \in 1..Len(buffer') : i + 1 \in 1..Len(buffer) /\ buffer'[i] = buffer[i + 1]
        BY <3>2, <4>1
      <4>3. \A i, k \in 1..Len(buffer') : i < k => i + 1 < k + 1
        BY <3>2, <4>1
      <4> QED
        BY <1>1, <1>2, <3>2, <4>1, <4>2, <4>3, SourceConstants DEF BufferSound
    <3> QED
      BY <1>3, <3>1, <3>2
  <2>2. SourcesRest'
    BY <1>1, <1>2 DEF SourcesRest
  <2> QED
    BY <2>1, <2>2 DEF SourcesIInv
<1>5. DaemonTypeOK'
  BY <1>1, <1>2, <1>3 DEF DaemonTypeOK, workflows, files, Place
<1>6. OneWorkflow' /\ ChainSound'
  BY <1>1, <1>2, <1>3 DEF OneWorkflow, Stage, workflows, ChainSound, Busy, Working
<1>7. at \notin Writing /\ at' \notin Writing /\ crashes' = crashes /\ UNCHANGED files
      /\ clock' \in Nat /\ clock' >= clock
  BY <1>1, <1>2, <1>3, SourceConstants DEF Writing, BufferSound
<1>8. \A t \in Trigger : TriggerSound(t)' /\ FilesSound(t)'
  BY <1>7, FilesUntouched
<1> QED
  BY <1>3, <1>4, <1>5, <1>6, <1>8 DEF DaemonIInv

LEMMA ChainTyped ==
    ASSUME DaemonTypeOK, UNCHANGED files, crashes' = crashes, at' \in Place,
           event' \in Event \cup {NoEvent}, todo' \in Seq(Trigger), held' \in TriggerState,
           outcome' \in [status: Status, started: 0..MaxTime, ended: 0..MaxTime],
           runningWorkflows' \in Nat, workflowQueue' \in Seq(Trigger),
           stopping' \in {"no", "waiting", "core", "saving", "done"},
           daemonFile' \in {"none", "running", "stopped"}
    PROVE  DaemonTypeOK'
BY DEF DaemonTypeOK, files

LEMMA BusyFacts ==
    ASSUME DaemonIInv, at \in Busy
    PROVE  /\ t0 \in Trigger /\ todo \in Seq(Trigger) /\ todo # << >> /\ event \in Event
           /\ Tail(todo) \in Seq(Trigger)
           /\ event.time \in Nat /\ event.time \in 0..MaxTime
           /\ stateFile[t0] \in TriggerState /\ executed[t0] \in Seq(Execution)
           /\ TriggerSound(t0) /\ FilesSound(t0)
<1>1. todo # << >> /\ event \in Event /\ todo \in Seq(Trigger)
  BY DEF DaemonIInv, ChainSound, DaemonTypeOK
<1>2. t0 \in Trigger /\ Tail(todo) \in Seq(Trigger)
  BY <1>1, TailFacts DEF t0
<1>3. event.time \in 0..MaxTime /\ event.time \in Nat
  BY <1>1, SourceConstants DEF Event
<1> QED
  BY <1>1, <1>2, <1>3 DEF DaemonIInv, DaemonTypeOK

LEMMA StateReadSound == ASSUME DaemonIInv, StateRead PROVE DaemonIInv'
<1>1. /\ at = "state" /\ held' = stateFile[t0] /\ UNCHANGED <<clock, sourceVars, files, crashes>>
      /\ event' = event /\ stopping' = stopping /\ daemonFile' = daemonFile
  BY DEF StateRead
<1>2. DaemonTypeOK /\ OneWorkflow /\ clock \in 0..MaxTime /\ clock \in Nat
  BY SourceConstants DEF DaemonIInv, SourcesIInv, BufferSound
<1>3. /\ t0 \in Trigger /\ todo \in Seq(Trigger) /\ todo # << >> /\ event \in Event
      /\ Tail(todo) \in Seq(Trigger) /\ stateFile[t0] \in TriggerState /\ TriggerSound(t0)
  BY <1>1, BusyFacts DEF Busy
<1>4. runningWorkflows = 0 /\ workflowQueue = << >> /\ MaxConcurrent >= 1
  BY <1>1, <1>2, DaemonConstants DEF OneWorkflow, Stage
<1>5. at' # "off" /\ at \notin Writing /\ event' \in Event \cup {NoEvent} /\ held' \in TriggerState
      /\ stopping' \in {"no", "waiting", "core", "saving", "done"}
      /\ daemonFile' \in {"none", "running", "stopped"}
  BY <1>1, <1>2, <1>3 DEF StateRead, NextTrigger, FirstStage, Writing, DaemonTypeOK
<1>6. \/ NextTrigger /\ UNCHANGED <<outcome, workflows>>
      \/ /\ Due(t0, stateFile[t0]) /\ UNCHANGED <<todo, workflowQueue>>
         /\ outcome' \in [status: Status, started: 0..MaxTime, ended: 0..MaxTime]
         /\ outcome'.started = clock /\ outcome'.ended = clock
         /\ \/ at' = "saveState" /\ runningWorkflows' = 0
            \/ at' \in {"gate", "prepare"} /\ runningWorkflows' = 1
  <2>1. ~(runningWorkflows >= MaxConcurrent) /\ runningWorkflows + 1 = 1
    BY <1>4, DaemonConstants
  <2> QED
    BY <1>2, <1>4, <2>1 DEF StateRead, workflows, FirstStage, Status
<1>7. CASE NextTrigger /\ UNCHANGED <<outcome, workflows>>
  <2>1. at' \in {"next", "state"} /\ todo' = Tail(todo) /\ (at' = "state" => todo' # << >>)
    BY <1>7 DEF NextTrigger
  <2>2. DaemonTypeOK'
    <3>1. outcome' = outcome /\ runningWorkflows' = runningWorkflows /\ workflowQueue' = workflowQueue
      BY <1>7 DEF workflows
    <3>2. at' \in Place
      BY <2>1 DEF Place
    <3>3. /\ outcome' \in [status: Status, started: 0..MaxTime, ended: 0..MaxTime]
          /\ runningWorkflows' \in Nat /\ workflowQueue' \in Seq(Trigger)
      BY <1>2, <3>1 DEF DaemonTypeOK
    <3> QED
      BY <1>1, <1>2, <1>3, <1>5, <2>1, <3>2, <3>3, ChainTyped
  <2>3. OneWorkflow' /\ ChainSound'
    BY <1>1, <1>3, <1>4, <1>7, <2>1 DEF OneWorkflow, Stage, workflows, ChainSound, Busy, Working
  <2> QED
    BY <1>1, <1>5, <2>1, <2>2, <2>3, RestUntouched DEF Writing
<1>8. CASE /\ Due(t0, stateFile[t0]) /\ UNCHANGED <<todo, workflowQueue>>
           /\ outcome' \in [status: Status, started: 0..MaxTime, ended: 0..MaxTime]
           /\ outcome'.started = clock /\ outcome'.ended = clock
           /\ \/ at' = "saveState" /\ runningWorkflows' = 0
              \/ at' \in {"gate", "prepare"} /\ runningWorkflows' = 1
  <2>1. DaemonTypeOK'
    <3>1. at' \in Place /\ runningWorkflows' \in Nat /\ workflowQueue' \in Seq(Trigger)
          /\ todo' \in Seq(Trigger)
      BY <1>3, <1>4, <1>8 DEF Place
    <3> QED
      BY <1>1, <1>2, <1>5, <1>8, <3>1, ChainTyped
  <2>2. OneWorkflow'
    BY <1>4, <1>8 DEF OneWorkflow, Stage
  <2>3. ChainSound'
    <3>1. at' \in Working /\ t0' = t0 /\ stateFile' = stateFile /\ executed' = executed
          /\ clock' = clock
      BY <1>1, <1>8 DEF Working, t0, files
    <3>2. todo' # << >> /\ event' \in Event
      BY <1>1, <1>3, <1>8
    <3>3. held' = stateFile'[t0'] /\ held'.enabled
          /\ (held'.lastFiredAt # Never => event'.time >= held'.lastFiredAt + Debounce[t0'])
          /\ (held'.cooldownUntil # Never => outcome'.started >= held'.cooldownUntil)
      BY <1>1, <1>8, <3>1 DEF Due
    <3>4. /\ \A i \in 1..Len(executed'[t0']) : executed'[t0'][i].ended <= outcome'.started
          /\ outcome'.started <= outcome'.ended /\ outcome'.ended <= clock'
      BY <1>2, <1>3, <1>8, <3>1 DEF TriggerSound
    <3> QED
      BY <3>2, <3>3, <3>4 DEF ChainSound
  <2> QED
    BY <1>1, <1>5, <1>8, <2>1, <2>2, <2>3, RestUntouched DEF Writing
<1> QED
  BY <1>6, <1>7, <1>8

\* A stage of executeWorkflow ends: the next one, or the result.
LEMMA StageSound ==
    ASSUME DaemonIInv, at \in Stage,
           UNCHANGED <<clock, sourceVars, event, todo, held, workflowQueue, daemonFile, files, crashes>>,
           stopping' \in {stopping, "core"},
           \/ outcome' = outcome
           \/ \E status \in Status : Ends(status),
           \/ at' \in Stage /\ runningWorkflows' = runningWorkflows
           \/ at' = "saveState" /\ runningWorkflows' = runningWorkflows - 1
    PROVE  DaemonIInv'
<1>1. DaemonTypeOK /\ OneWorkflow /\ ChainSound /\ clock \in 0..MaxTime /\ MaxTime \in Nat
  BY SourceConstants DEF DaemonIInv, SourcesIInv, BufferSound
<1>2. at \in Busy /\ at \in Working /\ at \notin Writing /\ at' \in Working /\ at' \in Place
      /\ at' \notin Writing /\ at' # "off" /\ runningWorkflows = 1
  BY <1>1 DEF Stage, Busy, Working, Writing, Place, OneWorkflow
<1>3. /\ t0 \in Trigger /\ todo \in Seq(Trigger) /\ todo # << >> /\ event \in Event
      /\ executed[t0] \in Seq(Execution)
  BY <1>2, BusyFacts
<1>4. /\ outcome' \in [status: Status, started: 0..MaxTime, ended: 0..MaxTime]
      /\ outcome'.started = outcome.started /\ outcome.started <= outcome'.ended
      /\ outcome'.ended <= clock
  <2>1. outcome \in [status: Status, started: 0..MaxTime, ended: 0..MaxTime]
        /\ outcome.started <= outcome.ended /\ outcome.ended <= clock
    BY <1>1, <1>2 DEF DaemonTypeOK, ChainSound
  <2>2. CASE outcome' = outcome
    BY <2>1, <2>2
  <2>3. ASSUME NEW status \in Status, Ends(status)
        PROVE  /\ outcome' \in [status: Status, started: 0..MaxTime, ended: 0..MaxTime]
               /\ outcome'.started = outcome.started /\ outcome'.ended = clock
    BY <1>1, <2>1, <2>3 DEF Ends
  <2> QED
    BY <1>1, <2>1, <2>2, <2>3
<1>5. DaemonTypeOK'
  <2>1. /\ event' \in Event \cup {NoEvent} /\ todo' \in Seq(Trigger) /\ held' \in TriggerState
        /\ workflowQueue' \in Seq(Trigger) /\ daemonFile' \in {"none", "running", "stopped"}
        /\ stopping' \in {"no", "waiting", "core", "saving", "done"}
    BY <1>1 DEF DaemonTypeOK
  <2>2. runningWorkflows' \in Nat
    BY <1>2
  <2> QED
    BY <1>1, <1>2, <1>4, <2>1, <2>2, ChainTyped
<1>6. OneWorkflow'
  BY <1>1, <1>2 DEF OneWorkflow, Stage
<1>7. ChainSound'
  <2>1. t0' = t0 /\ stateFile' = stateFile /\ executed' = executed /\ clock' = clock
        /\ held' = held /\ event' = event
    BY DEF t0, files
  <2>2. /\ held = stateFile[t0] /\ held.enabled
        /\ (held.lastFiredAt # Never => event.time >= held.lastFiredAt + Debounce[t0])
        /\ (held.cooldownUntil # Never => outcome.started >= held.cooldownUntil)
        /\ \A i \in 1..Len(executed[t0]) : executed[t0][i].ended <= outcome.started
    BY <1>1, <1>2 DEF ChainSound
  <2> QED
    BY <1>3, <1>4, <2>1, <2>2 DEF ChainSound
<1> QED
  BY <1>2, <1>5, <1>6, <1>7, RestUntouched

LEMMA ResultFacts ==
    ASSUME NEW status \in Status, Result(status)
    PROVE  /\ at' = "saveState" /\ runningWorkflows' = runningWorkflows - 1
           /\ stopping' \in {stopping, "core"} /\ \E s \in Status : Ends(s)
BY DEF Result, Finally

LEMMA StagesSound ==
    ASSUME DaemonIInv, GateAnswers \/ Prepared \/ WorkflowEnds \/ AnalyzerEnds
    PROVE  DaemonIInv'
<1>1. DaemonTypeOK
  BY DEF DaemonIInv
<1>2. {"FAILED", "CANCELLED"} \subseteq Status /\ outcome.status \in Status
  BY <1>1 DEF Status, DaemonTypeOK
<1>3. /\ at \in Stage
      /\ UNCHANGED <<clock, sourceVars, event, todo, held, workflowQueue, daemonFile, files, crashes>>
  BY DEF GateAnswers, Prepared, WorkflowEnds, AnalyzerEnds, Stage
<1>4. \/ \E status \in Status : Result(status)
      \/ /\ at' \in Stage /\ UNCHANGED <<runningWorkflows, stopping>>
         /\ outcome' = outcome \/ \E status \in Status : Ends(status)
  <2>1. CASE GateAnswers
    BY <1>2, <2>1 DEF GateAnswers, GoesOn, Stage
  <2>2. CASE Prepared
    BY <1>2, <2>2 DEF Prepared, GoesOn, Stage
  <2>3. CASE WorkflowEnds
    <3>1. PICK status \in Status :
             IF t0 \in Analyzed
             THEN at' = "analyze" /\ Ends(status) /\ UNCHANGED <<runningWorkflows, stopping>>
             ELSE Result(status)
      BY <2>3 DEF WorkflowEnds
    <3>2. at' = "analyze" => at' \in Stage
      BY DEF Stage
    <3> QED
      BY <3>1, <3>2
  <2>4. CASE AnalyzerEnds
    BY <1>2, <2>4 DEF AnalyzerEnds
  <2> QED
    BY <2>1, <2>2, <2>3, <2>4
<1>5. CASE \E status \in Status : Result(status)
  BY <1>3, <1>5, ResultFacts, StageSound
<1>6. CASE /\ at' \in Stage /\ UNCHANGED <<runningWorkflows, stopping>>
           /\ outcome' = outcome \/ \E status \in Status : Ends(status)
  BY <1>3, <1>6, StageSound
<1> QED
  BY <1>4, <1>5, <1>6

\* Only stop(), daemon.json and the place of the event loop between two events change.
LEMMA StopStepSound ==
    ASSUME DaemonIInv, LoopEnds \/ GraceOver \/ CoreShutDown \/ StopSaves
    PROVE  DaemonIInv'
<1>1. DaemonTypeOK /\ OneWorkflow /\ ChainSound /\ (at = "off" => \A s \in Source : generator[s] = "off")
  BY DEF DaemonIInv
<1>2. /\ clock' = clock /\ sourceVars' = sourceVars /\ workflows' = workflows
      /\ files' = files /\ crashes' = crashes
      /\ event' = event /\ todo' = todo /\ held' = held /\ outcome' = outcome
      /\ at' = at \/ (at = "saveStopped" /\ at' = "returned")
      /\ stopping' \in {stopping, "core", "saving", "done"}
      /\ daemonFile' \in {daemonFile, "stopped"}
  <2>1. CASE LoopEnds
    BY <2>1 DEF LoopEnds
  <2>2. CASE GraceOver
    <3>1. clock' = clock /\ sourceVars' = sourceVars /\ chain' = chain /\ workflows' = workflows
          /\ files' = files /\ crashes' = crashes
      BY <2>2 DEF GraceOver
    <3>2. at' = at /\ event' = event /\ todo' = todo /\ held' = held /\ outcome' = outcome
      BY <3>1 DEF chain
    <3> QED
      BY <2>2, <3>1, <3>2 DEF GraceOver
  <2>3. CASE CoreShutDown
    <3>1. clock' = clock /\ sourceVars' = sourceVars /\ chain' = chain /\ workflows' = workflows
          /\ files' = files /\ crashes' = crashes
      BY <2>3 DEF CoreShutDown
    <3>2. at' = at /\ event' = event /\ todo' = todo /\ held' = held /\ outcome' = outcome
      BY <3>1 DEF chain
    <3> QED
      BY <2>3, <3>1, <3>2 DEF CoreShutDown
  <2>4. CASE StopSaves
    <3>1. clock' = clock /\ sourceVars' = sourceVars /\ chain' = chain /\ workflows' = workflows
          /\ files' = files /\ crashes' = crashes
      BY <2>4 DEF StopSaves
    <3>2. at' = at /\ event' = event /\ todo' = todo /\ held' = held /\ outcome' = outcome
      BY <3>1 DEF chain
    <3> QED
      BY <2>4, <3>1, <3>2 DEF StopSaves
  <2> QED
    BY <2>1, <2>2, <2>3, <2>4
<1>3. DaemonTypeOK'
  <2>1. /\ at' \in Place /\ event' \in Event \cup {NoEvent} /\ todo' \in Seq(Trigger)
        /\ held' \in TriggerState
        /\ outcome' \in [status: Status, started: 0..MaxTime, ended: 0..MaxTime]
        /\ daemonFile' \in {"none", "running", "stopped"}
        /\ stopping' \in {"no", "waiting", "core", "saving", "done"}
        /\ runningWorkflows' \in Nat /\ workflowQueue' \in Seq(Trigger)
    BY <1>1, <1>2 DEF DaemonTypeOK, Place, workflows
  <2> QED
    BY <1>1, <1>2, <2>1, ChainTyped
<1>4. OneWorkflow'
  BY <1>1, <1>2 DEF OneWorkflow, workflows, Stage
<1>5. ChainSound'
  <2>1. t0' = t0 /\ stateFile' = stateFile /\ executed' = executed /\ clock' = clock
    BY <1>2 DEF t0, files
  <2>2. (at' \in Busy => at' = at) /\ (at' \in Working => at' = at)
    BY <1>2 DEF Busy, Working
  <2> QED
    BY <1>1, <1>2, <2>1, <2>2 DEF ChainSound
<1>6. /\ SourcesIInv' /\ clock' \in Nat /\ clock' >= clock
      /\ at' = "off" => \A s \in Source : generator'[s] = "off"
  BY <1>2, SourcesUntouched
<1>7. \A t \in Trigger : TriggerSound(t)' /\ FilesSound(t)'
  BY <1>2, <1>6, FilesUntouched DEF Writing
<1> QED
  BY <1>3, <1>4, <1>5, <1>6, <1>7 DEF DaemonIInv

\* The last entry of a sequence is appended, the others keep their place.
LEMMA ExecutedStep ==
    ASSUME NEW seq \in Seq(Execution), NEW x \in Execution
    PROVE  /\ Append(seq, x) \in Seq(Execution) /\ Len(Append(seq, x)) = Len(seq) + 1
           /\ Len(seq) \in Nat /\ Append(seq, x)[Len(seq) + 1] = x
           /\ \A i \in 1..Len(seq) : Append(seq, x)[i] = seq[i]
           /\ \A i \in 1..(Len(seq) + 1) : i \in 1..Len(seq) \/ i = Len(seq) + 1
<1>1. /\ Append(seq, x) \in Seq(Execution) /\ Len(Append(seq, x)) = Len(seq) + 1
      /\ Len(seq) \in Nat /\ Append(seq, x)[Len(seq) + 1] = x
      /\ \A i \in 1..Len(seq) : Append(seq, x)[i] = seq[i]
  BY AppendedFacts
<1> QED
  BY <1>1

LEMMA SaveStateSound == ASSUME DaemonIInv, SaveTriggerState PROVE DaemonIInv'
<1> DEFINE t1 == t0
           ex == executed[t1]
           n == Len(ex)
           c == held.consecutiveFailures
           x == [fired |-> event.time, started |-> outcome.started,
                 ended |-> outcome.ended, status |-> outcome.status]
           u == UpdatedState(t1)
<1>1. /\ at = "saveState" /\ at' = "saveResult"
      /\ stateFile' = [stateFile EXCEPT ![t1] = u]
      /\ executed' = [executed EXCEPT ![t1] = Append(ex, x)]
      /\ clock' = clock /\ sourceVars' = sourceVars /\ event' = event /\ todo' = todo
      /\ held' = held /\ outcome' = outcome /\ workflows' = workflows /\ stopping' = stopping
      /\ daemonFile' = daemonFile /\ resultFile' = resultFile /\ history' = history
      /\ crashes' = crashes
  BY DEF SaveTriggerState
<1>2. /\ DaemonTypeOK /\ OneWorkflow /\ ChainSound /\ clock \in Nat
      /\ at \in Busy /\ at \in Working /\ at \notin Writing
  BY <1>1, SourceConstants DEF DaemonIInv, SourcesIInv, BufferSound, Busy, Working, Writing
<1>3. /\ t1 \in Trigger /\ event \in Event /\ event.time \in Nat /\ event.time \in 0..MaxTime
      /\ stateFile[t1] \in TriggerState /\ ex \in Seq(Execution)
      /\ TriggerSound(t1) /\ FilesSound(t1) /\ todo # << >>
  BY <1>2, BusyFacts
<1>4. /\ outcome.status \in Status /\ outcome.started \in 0..MaxTime /\ outcome.ended \in 0..MaxTime
      /\ outcome.started \in Nat /\ outcome.ended \in Nat
  BY <1>2, SourceConstants DEF DaemonTypeOK
<1>5. /\ held = stateFile[t1] /\ held.enabled
      /\ held.lastFiredAt # Never => event.time >= held.lastFiredAt + Debounce[t1]
      /\ held.cooldownUntil # Never => outcome.started >= held.cooldownUntil
      /\ \A i \in 1..n : ex[i].ended <= outcome.started
      /\ outcome.started <= outcome.ended /\ outcome.ended <= clock
  BY <1>2 DEF ChainSound
<1>6. /\ held.enabled \in BOOLEAN /\ held.lastFiredAt \in Nat \cup {Never}
      /\ held.cooldownUntil \in Nat \cup {Never} /\ held.executionCount \in Nat /\ c \in Nat
      /\ Debounce[t1] \in Nat /\ Cooldown[t1] \in Nat /\ MaxRetries[t1] \in Nat
  BY <1>3, <1>5, DaemonConstants DEF TriggerState
<1>7. /\ x \in Execution /\ x.fired = event.time /\ x.started = outcome.started
      /\ x.ended = outcome.ended /\ x.status = outcome.status
  BY <1>3, <1>4 DEF Execution
<1>8. t0' = t1 /\ todo' # << >>
  BY <1>1, <1>3 DEF t0
<1>9. /\ Append(ex, x) \in Seq(Execution) /\ Len(Append(ex, x)) = n + 1
      /\ n \in Nat /\ Append(ex, x)[n + 1] = x
      /\ \A i \in 1..n : Append(ex, x)[i] = ex[i]
      /\ \A i \in 1..(n + 1) : i \in 1..n \/ i = n + 1
  BY <1>3, <1>7, ExecutedStep
<1>10. /\ u.enabled = ~(t1 \in Pauses /\ outcome.status # "SUCCEEDED" /\ c + 1 >= MaxRetries[t1])
       /\ u.lastFiredAt = event.time
       /\ u.cooldownUntil = IF outcome.status = "SUCCEEDED" /\ Cooldown[t1] > 0
                            THEN outcome.ended + Cooldown[t1] ELSE held.cooldownUntil
       /\ u.executionCount = held.executionCount + 1
       /\ u.consecutiveFailures = IF outcome.status = "SUCCEEDED" THEN 0 ELSE c + 1
       /\ u \in TriggerState
  BY <1>3, <1>4, <1>5, <1>6 DEF UpdatedState, Succeeded, TriggerState
<1>11. \A i \in 1..n : ex[i].ended \in Nat /\ ex[i].fired \in Nat /\ ex[i].started \in Nat
  BY <1>3, ExecutionFacts
<1> HIDE DEF x, u, t1
<1>12. executed'[t1] = Append(ex, x) /\ stateFile'[t1] = u
  BY <1>1, <1>2, <1>3 DEF DaemonTypeOK
<1>13. \A t \in Trigger : t # t1 => executed'[t] = executed[t] /\ stateFile'[t] = stateFile[t]
  BY <1>1, <1>2, <1>3 DEF DaemonTypeOK
<1>14. DaemonTypeOK'
  <2>1. stateFile' \in [Trigger -> TriggerState] /\ executed' \in [Trigger -> Seq(Execution)]
    BY <1>1, <1>2, <1>3, <1>9, <1>10 DEF DaemonTypeOK
  <2>2. at' \in Place
    BY <1>1 DEF Place
  <2> QED
    BY <1>1, <1>2, <2>1, <2>2 DEF DaemonTypeOK, workflows
<1>15. OneWorkflow' /\ ChainSound'
  BY <1>1, <1>2, <1>3, <1>8 DEF OneWorkflow, workflows, Stage, ChainSound, Working, Busy
<1>16. SourcesIInv' /\ (at' = "off" => \A s \in Source : generator'[s] = "off")
  BY <1>1, SourcesUntouched
<1>17. ASSUME NEW t \in Trigger, t = t1 PROVE TriggerSound(t)'
  <2> DEFINE ey == executed'[t1]
  <2>1. /\ Len(ey) = n + 1 /\ ey[n + 1] = x /\ n \in Nat /\ Len(ey) > 0
        /\ \A i \in 1..n : ey[i] = ex[i]
        /\ \A i \in 1..Len(ey) : i \in 1..n \/ i = n + 1
    BY <1>9, <1>12
  <2> HIDE DEF ey
  <2>2. /\ held.executionCount = n /\ c <= n
        /\ n > 0 => held.lastFiredAt = ex[n].fired
        /\ \A i \in 1..n : ex[i].ended <= clock
        /\ \A i \in 1..n : ex[i].status = "SUCCEEDED" /\ Cooldown[t1] > 0 =>
             held.cooldownUntil # Never /\ held.cooldownUntil >= ex[i].ended + Cooldown[t1]
        /\ \A i \in (n - c + 1)..n : ex[i].status # "SUCCEEDED"
        /\ c < n => ex[n - c].status = "SUCCEEDED"
        /\ \A i, k \in 1..n : i < k =>
             /\ ex[k].fired >= ex[i].fired + Debounce[t1]
             /\ ex[i].status = "SUCCEEDED" => ex[k].started >= ex[i].ended + Cooldown[t1]
    BY <1>3, <1>5 DEF TriggerSound
  <2> HIDE DEF ex, n, c
  <2>3. u.executionCount = Len(ey) /\ u.lastFiredAt = ey[Len(ey)].fired
    BY <1>7, <1>10, <2>1, <2>2
  <2>4. \A i \in 1..Len(ey) : ey[i].ended <= clock
    BY <1>5, <1>7, <2>1, <2>2
  <2>5. ASSUME NEW i \in 1..Len(ey), ey[i].status = "SUCCEEDED", Cooldown[t1] > 0
        PROVE  u.cooldownUntil # Never /\ u.cooldownUntil >= ey[i].ended + Cooldown[t1]
    <3>1. CASE i \in 1..n
      <4>1. ey[i] = ex[i] /\ ex[i].ended \in Nat /\ ex[i].ended <= outcome.started
            /\ held.cooldownUntil # Never /\ held.cooldownUntil >= ex[i].ended + Cooldown[t1]
        BY <1>5, <1>11, <2>1, <2>2, <2>5, <3>1
      <4>2. outcome.ended + Cooldown[t1] \in Nat
        BY <1>4, <1>6
      <4>3. held.cooldownUntil \in Nat
        BY <1>6, <4>1
      <4>4. outcome.ended + Cooldown[t1] >= ex[i].ended + Cooldown[t1]
        <5>1. outcome.ended \in Nat /\ outcome.started \in Nat /\ Cooldown[t1] \in Nat
              /\ outcome.started <= outcome.ended
          BY <1>4, <1>5, <1>6
        <5> HIDE DEF ex, n
        <5> QED
          BY <4>1, <5>1
      <4>5. u.cooldownUntil = outcome.ended + Cooldown[t1] \/ u.cooldownUntil = held.cooldownUntil
        BY <1>10
      <4>6. Never \notin Nat
        BY DaemonConstants
      <4>7. u.cooldownUntil # Never /\ u.cooldownUntil >= ex[i].ended + Cooldown[t1]
        BY <4>1, <4>2, <4>3, <4>4, <4>5, <4>6
      <4> QED
        BY <4>1, <4>7
    <3>2. CASE i = n + 1
      <4>1. outcome.ended + Cooldown[t1] \in Nat
        BY <1>4, <1>6
      <4>2. ey[i] = x /\ x.ended = outcome.ended /\ outcome.status = "SUCCEEDED"
        BY <1>7, <2>1, <2>5, <3>2
      <4>3. u.cooldownUntil = outcome.ended + Cooldown[t1]
        BY <1>10, <2>5, <4>2
      <4>4. Never \notin Nat
        BY DaemonConstants
      <4> QED
        BY <4>1, <4>2, <4>3, <4>4
    <3> QED
      BY <2>1, <3>1, <3>2
  <2>6. u.consecutiveFailures <= Len(ey)
    BY <1>6, <1>10, <2>1, <2>2
  <2>7. ASSUME NEW i \in (Len(ey) - u.consecutiveFailures + 1)..Len(ey)
        PROVE  ey[i].status # "SUCCEEDED"
    <3>1. CASE outcome.status = "SUCCEEDED"
      BY <1>10, <2>1, <3>1
    <3>2. CASE outcome.status # "SUCCEEDED"
      <4>1. u.consecutiveFailures = c + 1
        BY <1>10, <3>2
      <4>2. i \in (n - c + 1)..n \/ i = n + 1
        BY <1>6, <2>1, <2>7, <4>1
      <4>3. i \in (n - c + 1)..n => i \in 1..n
        BY <1>6, <2>1, <2>2
      <4> QED
        BY <1>7, <2>1, <2>2, <3>2, <4>2, <4>3
    <3> QED
      BY <3>1, <3>2
  <2>8. u.consecutiveFailures < Len(ey) => ey[Len(ey) - u.consecutiveFailures].status = "SUCCEEDED"
    <3>1. CASE outcome.status = "SUCCEEDED"
      <4>1. Len(ey) - u.consecutiveFailures = n + 1
        BY <1>10, <2>1, <3>1
      <4> QED
        BY <1>7, <2>1, <3>1, <4>1
    <3>2. CASE outcome.status # "SUCCEEDED"
      <4>1. Len(ey) - u.consecutiveFailures = n - c
        BY <1>6, <1>10, <2>1, <3>2
      <4>2. u.consecutiveFailures < Len(ey) => c < n /\ n - c \in 1..n
        BY <1>6, <1>10, <2>1, <3>2
      <4> QED
        BY <2>1, <2>2, <4>1, <4>2
    <3> QED
      BY <3>1, <3>2
  <2>9. ~u.enabled <=> t1 \in Pauses /\ Len(ey) > 0 /\ u.consecutiveFailures > 0
                       /\ u.consecutiveFailures >= MaxRetries[t1]
    <3>1. /\ u.consecutiveFailures > 0 <=> outcome.status # "SUCCEEDED"
          /\ Len(ey) > 0
          /\ outcome.status # "SUCCEEDED" => u.consecutiveFailures = c + 1
      BY <1>6, <1>10, <2>1
    <3>2. u.enabled <=> ~(t1 \in Pauses /\ outcome.status # "SUCCEEDED" /\ c + 1 >= MaxRetries[t1])
      BY <1>10
    <3> QED
      BY <3>1, <3>2, Zenon
  <2>10. ASSUME NEW i \in 1..Len(ey), NEW k \in 1..Len(ey), i < k
         PROVE  /\ ey[k].fired >= ey[i].fired + Debounce[t1]
                /\ ey[i].status = "SUCCEEDED" => ey[k].started >= ey[i].ended + Cooldown[t1]
    <3>1. i \in 1..n /\ ey[i] = ex[i] /\ ex[i].ended \in Nat /\ ex[i].fired \in Nat
      BY <1>11, <2>1, <2>10
    <3>2. CASE k \in 1..n
      BY <2>1, <2>2, <2>10, <3>1, <3>2
    <3>3. CASE k = n + 1
      <4>1. ey[k].fired = event.time /\ ey[k].started = outcome.started
        BY <1>7, <2>1, <3>3
      <4>2. n > 0 /\ n \in 1..n /\ ex[n].fired \in Nat
        BY <1>11, <2>1, <3>1
      <4>3. event.time >= ex[n].fired + Debounce[t1]
        <5>1. Never \notin Nat
          BY DaemonConstants
        <5>2. held.lastFiredAt = ex[n].fired /\ held.lastFiredAt # Never
          BY <2>2, <4>2, <5>1
        <5> QED
          BY <1>5, <5>2
      <4>4. ex[n].fired >= ex[i].fired
        <5>1. CASE i = n
          BY <3>1, <4>2, <5>1
        <5>2. CASE i # n
          <6>1. i < n
            BY <2>1, <3>1, <5>2
          <6>2. ex[n].fired >= ex[i].fired + Debounce[t1]
            BY <2>2, <3>1, <4>2, <6>1
          <6>3. Debounce[t1] \in Nat
            BY <1>6
          <6> QED
            BY <3>1, <4>2, <6>2, <6>3
        <5> QED
          BY <5>1, <5>2
      <4>5. ASSUME ex[i].status = "SUCCEEDED"
            PROVE  outcome.started >= ex[i].ended + Cooldown[t1]
        <5>1. CASE Cooldown[t1] > 0
          <6>1. held.cooldownUntil # Never /\ held.cooldownUntil >= ex[i].ended + Cooldown[t1]
            BY <2>2, <3>1, <4>5, <5>1
          <6>2. outcome.started >= held.cooldownUntil
            BY <1>5, <6>1
          <6>3. outcome.started \in Nat /\ held.cooldownUntil \in Nat
            BY <1>4, <1>6, <6>1
          <6>4. ex[i].ended \in Nat /\ Cooldown[t1] \in Nat
            BY <1>6, <3>1
          <6> HIDE DEF ex, n
          <6> QED
            BY <6>1, <6>2, <6>3, <6>4
        <5>2. CASE ~(Cooldown[t1] > 0)
          BY <1>4, <1>5, <1>6, <3>1, <5>2
        <5> QED
          BY <5>1, <5>2
      <4>6. event.time >= ex[i].fired + Debounce[t1]
        <5>1. event.time \in Nat /\ Debounce[t1] \in Nat
          BY <1>3, <1>6
        <5>2. ex[i].fired \in Nat /\ ex[n].fired \in Nat
          BY <3>1, <4>2
        <5> HIDE DEF ex, n
        <5> QED
          BY <4>3, <4>4, <5>1, <5>2
      <4> QED
        BY <3>1, <4>1, <4>5, <4>6
    <3> QED
      BY <2>1, <3>2, <3>3
  <2> QED
    <3>1. ey = executed'[t] /\ stateFile'[t] = u /\ clock' = clock /\ t = t1
      BY <1>1, <1>12, <1>17 DEF ey
    <3>2. Len(ey) = 0 => FALSE
      BY <2>1
    <3> QED
      BY <2>1, <2>3, <2>4, <2>5, <2>6, <2>7, <2>8, <2>9, <2>10, <3>1, <3>2 DEF TriggerSound
<1>18. ASSUME NEW t \in Trigger, t = t1 PROVE FilesSound(t)'
  <2>1. /\ Len(executed'[t1]) = n + 1 /\ executed'[t1][n + 1] = x
        /\ \A i \in 1..n : executed'[t1][i] = ex[i]
        /\ \A i \in 1..(n + 1) : i \in 1..n \/ i = n + 1
    BY <1>9, <1>12
  <2>2. at' \in Writing /\ at' # "record"
    BY <1>1 DEF Writing
  <2>3. crashes = 0 => history[t1] = {ex[i].ended : i \in 1..n}
    BY <1>2, <1>3 DEF FilesSound, FilesDone
  <2>4. {executed'[t1][i].ended : i \in 1..(n + 1)} = {ex[i].ended : i \in 1..n} \cup {x.ended}
    <3>1. n + 1 \in 1..(n + 1) /\ 1..n \subseteq 1..(n + 1)
      BY <1>9
    <3> HIDE DEF n, ex
    <3> QED
      BY <2>1, <3>1
  <2> QED
    BY <1>1, <1>7, <1>8, <1>9, <1>18, <2>1, <2>2, <2>3, <2>4 DEF FilesSound, FilesWritten
<1>19. ASSUME NEW t \in Trigger PROVE TriggerSound(t)' /\ FilesSound(t)'
  <2>1. CASE t = t1
    BY <1>17, <1>18, <2>1
  <2>2. CASE t # t1
    <3>1. TriggerSound(t) /\ FilesSound(t)
      BY DEF DaemonIInv
    <3>2. TriggerSound(t)'
      BY <1>1, <1>13, <2>2, <3>1 DEF TriggerSound
    <3>3. FilesSound(t)'
      BY <1>1, <1>2, <1>8, <1>13, <2>2, <3>1 DEF FilesSound, FilesDone
    <3> QED
      BY <3>2, <3>3
  <2> QED
    BY <2>1, <2>2
<1> QED
  BY <1>14, <1>15, <1>16, <1>19 DEF DaemonIInv

LEMMA SaveResultSound == ASSUME DaemonIInv, SaveLastResult PROVE DaemonIInv'
<1>1. /\ at = "saveResult" /\ at' = "record"
      /\ resultFile' = [resultFile EXCEPT ![t0] = outcome.status]
      /\ clock' = clock /\ sourceVars' = sourceVars /\ event' = event /\ todo' = todo
      /\ held' = held /\ outcome' = outcome /\ workflows' = workflows /\ stopping' = stopping
      /\ daemonFile' = daemonFile /\ stateFile' = stateFile /\ history' = history
      /\ executed' = executed /\ crashes' = crashes
  BY DEF SaveLastResult
<1>2. /\ DaemonTypeOK /\ OneWorkflow /\ at \in Busy /\ at \in Writing /\ at' \in Writing
  BY <1>1 DEF DaemonIInv, Busy, Writing
<1>3. t0 \in Trigger /\ event \in Event /\ todo # << >>
  BY <1>2, BusyFacts
<1>4. outcome.status \in Status /\ t0' = t0
  BY <1>1, <1>2 DEF DaemonTypeOK, t0
<1>5. DaemonTypeOK'
  BY <1>1, <1>2, <1>3, <1>4 DEF DaemonTypeOK, workflows, Place
<1>6. OneWorkflow' /\ ChainSound'
  BY <1>1, <1>2, <1>3 DEF OneWorkflow, workflows, Stage, ChainSound, Working, Busy
<1>7. SourcesIInv' /\ (at' = "off" => \A s \in Source : generator'[s] = "off")
  BY <1>1, SourcesUntouched
<1>8. ASSUME NEW t \in Trigger PROVE TriggerSound(t)' /\ FilesSound(t)'
  <2>1. TriggerSound(t) /\ FilesSound(t)
    BY DEF DaemonIInv
  <2>2. TriggerSound(t)'
    BY <1>1, <2>1 DEF TriggerSound
  <2>3. resultFile'[t] = IF t = t0 THEN outcome.status ELSE resultFile[t]
    BY <1>1, <1>2, <1>3 DEF DaemonTypeOK
  <2>4. CASE t0 = t
    <3>1. FilesWritten(t)
      BY <1>2, <2>1, <2>4 DEF FilesSound
    <3>2. FilesWritten(t)'
      BY <1>1, <2>3, <2>4, <3>1 DEF FilesWritten
    <3> QED
      BY <1>2, <1>4, <2>2, <2>4, <3>2 DEF FilesSound
  <2>5. CASE t0 # t
    <3>1. FilesDone(t)
      BY <2>1, <2>5 DEF FilesSound
    <3>2. FilesDone(t)'
      BY <1>1, <2>3, <2>5, <3>1 DEF FilesDone
    <3> QED
      BY <1>4, <2>2, <2>5, <3>2 DEF FilesSound
  <2> QED
    BY <2>2, <2>4, <2>5
<1> QED
  BY <1>5, <1>6, <1>7, <1>8 DEF DaemonIInv

LEMMA RecordSound == ASSUME DaemonIInv, RecordExecution PROVE DaemonIInv'
<1>1. /\ at = "record" /\ at' \in {"next", "state"} /\ todo' = Tail(todo)
      /\ at' = "state" => todo' # << >>
      /\ history' = [history EXCEPT ![t0] = @ \cup {outcome.ended}]
      /\ clock' = clock /\ sourceVars' = sourceVars /\ event' = event
      /\ held' = held /\ outcome' = outcome /\ workflows' = workflows /\ stopping' = stopping
      /\ daemonFile' = daemonFile /\ stateFile' = stateFile /\ resultFile' = resultFile
      /\ executed' = executed /\ crashes' = crashes
  BY DEF RecordExecution, NextTrigger
<1>2. DaemonTypeOK /\ OneWorkflow /\ at \in Busy /\ at \in Writing /\ at' \notin Writing
  BY <1>1 DEF DaemonIInv, Busy, Writing
<1>3. t0 \in Trigger /\ event \in Event /\ Tail(todo) \in Seq(Trigger)
  BY <1>2, BusyFacts
<1>4. outcome.ended \in 0..MaxTime
  BY <1>2 DEF DaemonTypeOK
<1>5. DaemonTypeOK'
  <2>1. history' \in [Trigger -> SUBSET (0..MaxTime)]
    BY <1>1, <1>2, <1>3, <1>4 DEF DaemonTypeOK
  <2>2. at' \in Place
    BY <1>1 DEF Place
  <2> QED
    BY <1>1, <1>2, <1>3, <2>1, <2>2 DEF DaemonTypeOK, workflows
<1>6. OneWorkflow' /\ ChainSound'
  BY <1>1, <1>2, <1>3 DEF OneWorkflow, workflows, Stage, ChainSound, Working, Busy
<1>7. SourcesIInv' /\ (at' = "off" => \A s \in Source : generator'[s] = "off")
  BY <1>1, SourcesUntouched
<1>8. ASSUME NEW t \in Trigger PROVE TriggerSound(t)' /\ FilesSound(t)'
  <2>1. TriggerSound(t) /\ FilesSound(t) /\ executed[t] \in Seq(Execution)
    BY <1>2 DEF DaemonIInv, DaemonTypeOK
  <2>2. TriggerSound(t)'
    BY <1>1, <2>1 DEF TriggerSound
  <2>3. history'[t] = IF t = t0 THEN history[t] \cup {outcome.ended} ELSE history[t]
    BY <1>1, <1>2, <1>3 DEF DaemonTypeOK
  <2>4. CASE t0 = t
    <3>1. FilesWritten(t)
      BY <1>2, <2>1, <2>4 DEF FilesSound
    <3>2. FilesDone(t)'
      BY <1>1, <2>1, <2>3, <2>4, <3>1 DEF FilesWritten, FilesDone
    <3> QED
      BY <1>2, <2>2, <3>2 DEF FilesSound
  <2>5. CASE t0 # t
    <3>1. FilesDone(t)
      BY <2>1, <2>5 DEF FilesSound
    <3>2. FilesDone(t)'
      BY <1>1, <2>3, <2>5, <3>1 DEF FilesDone
    <3> QED
      BY <1>2, <2>2, <3>2 DEF FilesSound
  <2> QED
    BY <2>2, <2>4, <2>5
<1> QED
  BY <1>5, <1>6, <1>7, <1>8 DEF DaemonIInv

LEMMA StopSound == ASSUME DaemonIInv, Stop PROVE DaemonIInv'
<1>1. /\ at \notin {"off", "returned"} /\ workflowQueue' = << >> /\ StopSources
      /\ stopping' \in {"waiting", "core"} /\ clock' = clock /\ chain' = chain
      /\ runningWorkflows' = runningWorkflows /\ daemonFile' = daemonFile /\ files' = files
      /\ crashes' = crashes
  BY DEF Stop
<1>2. DaemonTypeOK /\ OneWorkflow /\ ChainSound /\ BufferSound /\ SourcesRest
  BY DEF DaemonIInv, SourcesIInv
<1>3. at' = at /\ event' = event /\ todo' = todo /\ held' = held /\ outcome' = outcome
  BY <1>1 DEF chain
<1>4. SourcesIInv'
  <2>1. BufferSound'
    BY <1>1, <1>2, StopSourcesSound
  <2>2. /\ generator' = [s \in Source |-> "ended"] /\ pending' = [s \in Source |-> {}]
        /\ batchTimer' = [s \in Source |-> FALSE] /\ reading' = reading /\ lastOutput' = lastOutput
    BY <1>1 DEF StopSources
  <2>3. SourcesRest'
    BY <1>2, <2>2 DEF SourcesRest
  <2> QED
    BY <2>1, <2>3 DEF SourcesIInv
<1>5. DaemonTypeOK'
  <2>1. /\ at' \in Place /\ event' \in Event \cup {NoEvent} /\ todo' \in Seq(Trigger)
        /\ held' \in TriggerState
        /\ outcome' \in [status: Status, started: 0..MaxTime, ended: 0..MaxTime]
        /\ daemonFile' \in {"none", "running", "stopped"}
        /\ stopping' \in {"no", "waiting", "core", "saving", "done"}
        /\ runningWorkflows' \in Nat /\ workflowQueue' \in Seq(Trigger)
    BY <1>1, <1>2, <1>3 DEF DaemonTypeOK
  <2> QED
    BY <1>1, <1>2, <2>1, ChainTyped
<1>6. OneWorkflow' /\ at' # "off"
  BY <1>1, <1>2, <1>3 DEF OneWorkflow
<1>7. ChainSound'
  <2>1. t0' = t0 /\ stateFile' = stateFile /\ executed' = executed
    BY <1>1, <1>3 DEF t0, files
  <2> QED
    BY <1>1, <1>2, <1>3, <2>1 DEF ChainSound
<1>8. clock' \in Nat /\ clock' >= clock
  BY <1>1, <1>2, SourceConstants DEF BufferSound
<1>9. \A t \in Trigger : TriggerSound(t)' /\ FilesSound(t)'
  BY <1>1, <1>3, <1>8, FilesUntouched
<1> QED
  BY <1>4, <1>5, <1>6, <1>7, <1>9 DEF DaemonIInv

LEMMA TickSound == ASSUME DaemonIInv, Tick PROVE DaemonIInv'
<1>1. clock < MaxTime /\ clock' = clock + 1 /\ sourceVars' = sourceVars /\ daemonVars' = daemonVars
  BY DEF Tick
<1>2. /\ chain' = chain /\ workflows' = workflows /\ stopping' = stopping
      /\ daemonFile' = daemonFile /\ files' = files /\ crashes' = crashes
  BY <1>1 DEF daemonVars
<1>3. DaemonTypeOK /\ OneWorkflow /\ ChainSound /\ BufferSound /\ SourcesRest
      /\ (at = "off" => \A s \in Source : generator[s] = "off")
  BY DEF DaemonIInv, SourcesIInv
<1>4. at' = at /\ event' = event /\ todo' = todo /\ held' = held /\ outcome' = outcome
  BY <1>2 DEF chain
<1>5. /\ generator' = generator /\ pending' = pending /\ batchTimer' = batchTimer
      /\ reading' = reading /\ lastOutput' = lastOutput
      /\ buffer' = buffer /\ emitted' = emitted /\ dropped' = dropped
  BY <1>1 DEF sourceVars
<1>6. clock' \in 0..MaxTime /\ clock \in Nat /\ clock' \in Nat /\ clock' >= clock
  BY <1>1, <1>3, SourceConstants DEF BufferSound
<1>7. SourcesIInv'
  BY <1>3, <1>5, <1>6 DEF SourcesIInv, BufferSound, SourcesRest
<1>8. DaemonTypeOK'
  BY <1>2, <1>3, <1>4 DEF DaemonTypeOK, workflows, files
<1>9. OneWorkflow'
  BY <1>2, <1>3, <1>4 DEF OneWorkflow, workflows
<1>10. ChainSound'
  <2>1. t0' = t0 /\ stateFile' = stateFile /\ executed' = executed
    BY <1>2, <1>4 DEF t0, files
  <2>2. outcome.ended \in Nat
    BY <1>3, SourceConstants DEF DaemonTypeOK
  <2> QED
    BY <1>3, <1>4, <1>6, <2>1, <2>2 DEF ChainSound
<1>11. \A t \in Trigger : TriggerSound(t)' /\ FilesSound(t)'
  BY <1>2, <1>4, <1>6, FilesUntouched
<1> QED
  BY <1>3, <1>4, <1>5, <1>7, <1>8, <1>9, <1>10, <1>11 DEF DaemonIInv

LEMMA CrashSound == ASSUME DaemonIInv, Crash PROVE DaemonIInv'
<1>1. /\ crashes < MaxCrashes /\ crashes' = crashes + 1 /\ generator' = [s \in Source |-> "off"]
      /\ pending' = [s \in Source |-> {}] /\ batchTimer' = [s \in Source |-> FALSE]
      /\ reading' = [s \in Source |-> 0] /\ lastOutput' = [s \in Source |-> NoOutput]
      /\ buffer' = << >> /\ clock' = clock /\ emitted' = emitted /\ dropped' = dropped
      /\ at' = "off" /\ event' = NoEvent /\ todo' = << >> /\ held' = DefaultState
      /\ outcome' = NoOutcome /\ runningWorkflows' = 0 /\ workflowQueue' = << >>
      /\ stopping' = "no" /\ daemonFile' = daemonFile /\ files' = files
  BY DEF Crash
<1>2. DaemonTypeOK /\ BufferSound /\ SourcesRest
  BY DEF DaemonIInv, SourcesIInv
<1>3. SourcesIInv'
  <2>1. buffer' \in Seq(Event) /\ Len(buffer') = 0
    BY <1>1
  <2>2. BufferSound'
    BY <1>1, <1>2, <2>1, SourceConstants DEF BufferSound
  <2>3. SourcesRest'
    BY <1>1, SourceConstants DEF SourcesRest
  <2> QED
    BY <2>2, <2>3 DEF SourcesIInv
<1>4. DaemonTypeOK'
  <2>1. DefaultState \in TriggerState /\ NoOutcome \in [status: Status, started: 0..MaxTime, ended: 0..MaxTime]
    BY DaemonConstants DEF DefaultState, TriggerState, NoOutcome, Status
  <2>2. << >> \in Seq(Trigger) /\ "off" \in Place /\ crashes' \in 0..MaxCrashes
    BY <1>1, <1>2, DaemonConstants DEF Place, DaemonTypeOK
  <2>3. stateFile' = stateFile /\ resultFile' = resultFile /\ history' = history /\ executed' = executed
    BY <1>1 DEF files
  <2> QED
    BY <1>1, <1>2, <2>1, <2>2, <2>3 DEF DaemonTypeOK
<1>5. OneWorkflow' /\ ChainSound' /\ \A s \in Source : generator'[s] = "off"
  BY <1>1 DEF OneWorkflow, Stage, ChainSound, Working, Busy
<1>6. clock' \in Nat /\ clock' >= clock /\ at' \notin Writing /\ crashes' > 0
  BY <1>1, <1>2, SourceConstants, DaemonConstants DEF BufferSound, Writing, DaemonTypeOK
<1>7. \A t \in Trigger : TriggerSound(t)' /\ FilesSound(t)'
  BY <1>1, <1>6, FilesUntouched
<1> QED
  BY <1>3, <1>4, <1>5, <1>7 DEF DaemonIInv

LEMMA SourceTurnSound ==
    ASSUME DaemonIInv, NEW s \in Source, SourceStep(s), UNCHANGED daemonVars
    PROVE  DaemonIInv'
<1>1. SourcesIInv /\ SourcesIInv' /\ clock' = clock
  <2>1. clock' = clock
    BY DEF SourceStep, TimerExpires, NoNextFire, FlushBatch, RequestArrives, RequestRead,
           CommandStarts, FileChanges, CommandEnds
  <2> QED
    BY <2>1, SourceStepSound DEF DaemonIInv
<1>2. /\ chain' = chain /\ workflows' = workflows /\ stopping' = stopping
      /\ daemonFile' = daemonFile /\ files' = files /\ crashes' = crashes
  BY DEF daemonVars
<1>3. DaemonTypeOK /\ OneWorkflow /\ ChainSound
  BY DEF DaemonIInv
<1>4. at' = at /\ event' = event /\ todo' = todo /\ held' = held /\ outcome' = outcome
  BY <1>2 DEF chain
<1>5. DaemonTypeOK' /\ OneWorkflow'
  BY <1>2, <1>3, <1>4 DEF DaemonTypeOK, workflows, files, OneWorkflow
<1>6. ChainSound'
  <2>1. t0' = t0 /\ stateFile' = stateFile /\ executed' = executed
    BY <1>2, <1>4 DEF t0, files
  <2> QED
    BY <1>1, <1>3, <1>4, <2>1 DEF ChainSound
<1>7. at' = "off" => \A x \in Source : generator'[x] = "off"
  <2> SUFFICES ASSUME at' = "off", NEW x \in Source PROVE generator'[x] = "off"
    OBVIOUS
  <2>1. generator[s] = "off" /\ generator[x] = "off"
    BY <1>4 DEF DaemonIInv
  <2>2. generator' = generator
    BY <2>1 DEF SourceStep, TimerExpires, NoNextFire, FlushBatch, RequestArrives, RequestRead,
                CommandStarts, FileChanges, CommandEnds
  <2> QED
    BY <2>1, <2>2
<1>8. clock' \in Nat /\ clock' >= clock
  BY <1>1, SourceConstants DEF SourcesIInv, BufferSound
<1>9. \A t \in Trigger : TriggerSound(t)' /\ FilesSound(t)'
  BY <1>2, <1>4, <1>8, FilesUntouched
<1> QED
  BY <1>1, <1>5, <1>6, <1>7, <1>9 DEF DaemonIInv

LEMMA DaemonStill == ASSUME DaemonIInv, UNCHANGED wholeVars PROVE DaemonIInv'
<1>1. clock' = clock /\ sourceVars' = sourceVars /\ daemonVars' = daemonVars
  BY DEF wholeVars
<1>2. /\ chain' = chain /\ workflows' = workflows /\ stopping' = stopping
      /\ daemonFile' = daemonFile /\ files' = files /\ crashes' = crashes
  BY <1>1 DEF daemonVars
<1>3. DaemonTypeOK /\ OneWorkflow /\ ChainSound
  BY DEF DaemonIInv
<1>4. at' = at /\ event' = event /\ todo' = todo /\ held' = held /\ outcome' = outcome
  BY <1>2 DEF chain
<1>5. DaemonTypeOK' /\ OneWorkflow'
  BY <1>2, <1>3, <1>4 DEF DaemonTypeOK, workflows, files, OneWorkflow
<1>6. ChainSound'
  <2>1. t0' = t0 /\ stateFile' = stateFile /\ executed' = executed
    BY <1>2, <1>4 DEF t0, files
  <2> QED
    BY <1>1, <1>3, <1>4, <2>1 DEF ChainSound
<1>7. /\ SourcesIInv' /\ clock' \in Nat /\ clock' >= clock
      /\ at' = "off" => \A s \in Source : generator'[s] = "off"
  BY <1>1, <1>4, SourcesUntouched
<1>8. \A t \in Trigger : TriggerSound(t)' /\ FilesSound(t)'
  BY <1>2, <1>4, <1>7, FilesUntouched
<1> QED
  BY <1>5, <1>6, <1>7, <1>8 DEF DaemonIInv

LEMMA DaemonStep == DaemonIInv /\ [DaemonNext]_wholeVars => DaemonIInv'
<1> SUFFICES ASSUME DaemonIInv, [DaemonNext]_wholeVars PROVE DaemonIInv'
  OBVIOUS
<1>1. CASE StartDaemon
  BY <1>1, StartDaemonSound
<1>2. CASE Loop
  BY <1>2, NextEventSound, StopStepSound DEF Loop
<1>3. CASE Chain
  BY <1>3, StateReadSound, StagesSound, SaveStateSound, SaveResultSound, RecordSound DEF Chain
<1>4. CASE Stop
  BY <1>4, StopSound
<1>5. CASE GraceOver \/ Stopping
  BY <1>5, StopStepSound DEF Stopping
<1>6. CASE Tick
  BY <1>6, TickSound
<1>7. CASE Crash
  BY <1>7, CrashSound
<1>8. CASE \E s \in Source : SourceStep(s) /\ UNCHANGED daemonVars
  BY <1>8, SourceTurnSound
<1>9. CASE UNCHANGED wholeVars
  BY <1>9, DaemonStill
<1> QED
  BY <1>1, <1>2, <1>3, <1>4, <1>5, <1>6, <1>7, <1>8, <1>9 DEF DaemonNext

LEMMA DaemonIInvImplies == DaemonIInv => DaemonInv
<1> SUFFICES ASSUME DaemonIInv PROVE DaemonInv
  OBVIOUS
<1>1. DaemonTypeOK /\ OneWorkflow /\ ChainSound
  BY DEF DaemonIInv
<1>2. FilesAgree
  <2> SUFFICES ASSUME NEW t \in Trigger
               PROVE  /\ stateFile[t].executionCount = Len(executed[t])
                      /\ crashes = 0 /\ ~(at \in {"saveResult", "record"} /\ t0 = t) =>
                           /\ resultFile[t] = IF executed[t] = << >> THEN "none"
                                              ELSE Last(executed[t]).status
                           /\ history[t] = {executed[t][i].ended : i \in DOMAIN executed[t]}
    BY DEF FilesAgree
  <2>1. TriggerSound(t) /\ FilesSound(t) /\ executed[t] \in Seq(Execution)
    BY <1>1 DEF DaemonIInv, DaemonTypeOK
  <2>2. /\ Last(executed[t]) = executed[t][Len(executed[t])]
        /\ executed[t] = << >> <=> Len(executed[t]) = 0
        /\ DOMAIN executed[t] = 1..Len(executed[t])
    BY <2>1 DEF Last
  <2>3. stateFile[t].executionCount = Len(executed[t])
    BY <2>1 DEF TriggerSound
  <2> QED
    BY <2>1, <2>2, <2>3 DEF FilesSound, FilesDone, Writing
<1>3. PausedAtLimit
  <2> SUFFICES ASSUME NEW t \in Trigger
               PROVE  LET n == Len(executed[t])
                      IN /\ ~stateFile[t].enabled <=>
                              /\ t \in Pauses /\ n > 0 /\ n >= MaxRetries[t]
                              /\ \A i \in (n - MaxRetries[t] + 1..n) \cup {n} :
                                    executed[t][i].status # "SUCCEEDED"
                         /\ ~stateFile[t].enabled => ~(at \in Stage /\ t0 = t)
    BY DEF PausedAtLimit
  <2> DEFINE ex == executed[t]
             n == Len(ex)
             m == MaxRetries[t]
             c == stateFile[t].consecutiveFailures
  <2>1. ex \in Seq(Execution) /\ n \in Nat /\ m \in Nat /\ c \in Nat
    BY <1>1, DaemonConstants DEF DaemonTypeOK, TriggerState
  <2>2. /\ c <= n /\ \A i \in (n - c + 1)..n : ex[i].status # "SUCCEEDED"
        /\ c < n => ex[n - c].status = "SUCCEEDED"
        /\ ~stateFile[t].enabled <=> t \in Pauses /\ n > 0 /\ c > 0 /\ c >= m
    BY DEF DaemonIInv, TriggerSound
  <2> HIDE DEF ex, n, m, c
  <2>3. c > 0 /\ c >= m =>
          n >= m /\ \A i \in (n - m + 1..n) \cup {n} : ex[i].status # "SUCCEEDED"
    BY <2>1, <2>2
  <2>4. ASSUME n > 0, n >= m, \A i \in (n - m + 1..n) \cup {n} : ex[i].status # "SUCCEEDED"
        PROVE  c > 0 /\ c >= m
    <3>1. c > 0
      <4>1. c = 0 => c < n /\ n - c = n
        BY <2>1, <2>4
      <4> QED
        BY <2>1, <2>2, <2>4, <4>1
    <3>2. c >= m
      <4>1. c < m => c < n /\ n - c \in n - m + 1..n
        BY <2>1, <2>4
      <4> QED
        BY <2>1, <2>2, <2>4, <4>1
    <3> QED
      BY <3>1, <3>2
  <2>5. ~stateFile[t].enabled <=> t \in Pauses /\ n > 0 /\ n >= m
            /\ \A i \in (n - m + 1..n) \cup {n} : ex[i].status # "SUCCEEDED"
    BY <2>2, <2>3, <2>4
  <2>6. ~stateFile[t].enabled => ~(at \in Stage /\ t0 = t)
    <3>1. at \in Stage => at \in Working
      BY DEF Stage, Working
    <3> QED
      BY <1>1, <3>1 DEF ChainSound
  <2> QED
    BY <2>5, <2>6 DEF ex, n, m
<1>4. RatesKept
  <2> SUFFICES ASSUME NEW t \in Trigger, NEW i \in DOMAIN executed[t], NEW k \in DOMAIN executed[t],
                      i < k
               PROVE  /\ executed[t][k].fired >= executed[t][i].fired + Debounce[t]
                      /\ executed[t][i].status = "SUCCEEDED" =>
                            executed[t][k].started >= executed[t][i].ended + Cooldown[t]
    BY DEF RatesKept
  <2>1. TriggerSound(t) /\ executed[t] \in Seq(Execution)
    BY <1>1 DEF DaemonIInv, DaemonTypeOK
  <2>2. i \in 1..Len(executed[t]) /\ k \in 1..Len(executed[t])
    BY <2>1
  <2> QED
    BY <2>1, <2>2 DEF TriggerSound
<1> QED
  BY <1>1, <1>2, <1>3, <1>4 DEF DaemonInv

\* Every event that waits is newer than all that a full buffer dropped, in the order in
\* which the sources yielded them, and no reported change waits without the timer that
\* will emit it, also across stop() and crashes: mergeEventSources and FSWatchSource.
THEOREM SourcesAlwaysSound == DaemonSpec => []SourcesInv
<1>1. DaemonIInv => SourcesInv
  BY SourcesIInvImplies DEF DaemonIInv
<1> QED
  BY <1>1, DaemonInitial, DaemonStep, PTL DEF DaemonSpec

\* One workflow at a time, the files of a trigger agree with its executions, a trigger
\* is paused exactly at its limit of failures, and debounce and cooldown hold between any
\* two executions, whatever crashes and restarts come between: TriggerEngine and Daemon.
THEOREM TriggersAlwaysSound == DaemonSpec => []DaemonInv
<1> QED
  BY DaemonInitial, DaemonStep, DaemonIInvImplies, PTL DEF DaemonSpec

-----------------------------------------------------------------------------
(* Numbers, and the places that a loop reaches.                            *)

LEMMA LeastNumber ==
    ASSUME NEW T \in SUBSET Nat, T # {}
    PROVE  \E s \in T : \A t \in T : s <= t
<1> DEFINE R == {pair \in Nat \X Nat : pair[1] < pair[2]}
<1>1. IsWellFoundedOn(R, Nat)
  BY NatLessThanWellFounded DEF OpToRel
<1>2. \E s \in T : \A t \in T : <<t, s>> \notin R
  <2> HIDE DEF R
  <2> QED
    BY <1>1, WFMin
<1>3. T \subseteq Nat
  OBVIOUS
<1>4. \E s \in T : \A t \in T : ~(t < s)
  BY <1>2, <1>3
<1> QED
  BY <1>3, <1>4

LEMMA GreatestNumber ==
    ASSUME NEW n \in Nat, NEW T \in SUBSET (1..n), T # {}
    PROVE  \E s \in T : \A t \in T : t <= s
<1> DEFINE U == {n - t : t \in T}
<1>1. U \in SUBSET Nat /\ U # {}
  <2>1. \A t \in T : t \in 1..n /\ n - t \in Nat
    OBVIOUS
  <2> QED
    BY <2>1
<1>2. PICK u \in U : \A v \in U : u <= v
  BY <1>1, LeastNumber
<1>3. PICK s \in T : u = n - s
  OBVIOUS
<1>4. \A t \in T : n - s <= n - t
  BY <1>2, <1>3
<1>5. \A t \in T : t \in 1..n
  OBVIOUS
<1> QED
  BY <1>4, <1>5

LEMMA HalfFacts ==
    ASSUME NEW i \in Nat, i >= 2
    PROVE  /\ i \div 2 \in Nat /\ 1 <= i \div 2 /\ i \div 2 < i
           /\ i = 2 * (i \div 2) \/ i = 2 * (i \div 2) + 1
OBVIOUS

LEMMA HalfOrder ==
    ASSUME NEW i \in Nat, NEW k \in Nat, i <= k
    PROVE  i \div 2 <= k \div 2
OBVIOUS

LEMMA HalfOfChild ==
    ASSUME NEW i \in Nat, NEW k \in {2 * i, 2 * i + 1}
    PROVE  k \in Nat /\ k \div 2 = i /\ (i >= 1 => k > i)
OBVIOUS

LEMMA ReachedWithin ==
    ASSUME NEW f, NEW i, NEW S \in SUBSET DOMAIN f, i \in S, \A m \in S : f[m] \in S
    PROVE  Reached(f, i) \subseteq S
BY DEF Reached

LEMMA ReachedClosed ==
    ASSUME NEW f, NEW i \in DOMAIN f, \A m \in DOMAIN f : f[m] \in DOMAIN f
    PROVE  /\ i \in Reached(f, i) /\ Reached(f, i) \subseteq DOMAIN f
           /\ \A m \in Reached(f, i) : f[m] \in Reached(f, i)
BY DEF Reached

\* A place that is reached is the first one, or is reached from another.
LEMMA ReachedFrom ==
    ASSUME NEW f, NEW i \in DOMAIN f, \A m \in DOMAIN f : f[m] \in DOMAIN f,
           NEW k \in Reached(f, i), k # i
    PROVE  \E m \in Reached(f, i) : m # k /\ f[m] = k
<1> SUFFICES ASSUME \A m \in Reached(f, i) : m # k => f[m] # k PROVE FALSE
  OBVIOUS
<1> DEFINE S == Reached(f, i) \ {k}
<1>1. S \in SUBSET DOMAIN f /\ i \in S /\ \A m \in S : f[m] \in S
  BY ReachedClosed
<1>2. Reached(f, i) \subseteq S
  <2> HIDE DEF S
  <2> QED
    BY <1>1, ReachedWithin
<1> QED
  BY <1>2

-----------------------------------------------------------------------------
(* The order of the queue.                                                 *)

LEMMA PriorityOrder ==
    ASSUME NEW a \in HeapEntry, NEW b \in HeapEntry
    PROVE  /\ a.seq # b.seq => HigherPriority(a, b) \/ HigherPriority(b, a)
           /\ ~(HigherPriority(a, b) /\ HigherPriority(b, a))
           /\ a.seq \in Nat /\ a.job \in Job
<1>1. PriorityValue[a.job] \in Int /\ PriorityValue[b.job] \in Int /\ a.seq \in Nat /\ b.seq \in Nat
      /\ a.job \in Job
  BY PriorityAssumption DEF HeapEntry
<1> QED
  BY <1>1 DEF HigherPriority

LEMMA PriorityTransitive ==
    ASSUME NEW a \in HeapEntry, NEW b \in HeapEntry, NEW c \in HeapEntry,
           HigherPriority(a, b), HigherPriority(b, c)
    PROVE  HigherPriority(a, c)
<1>1. /\ PriorityValue[a.job] \in Int /\ PriorityValue[b.job] \in Int /\ PriorityValue[c.job] \in Int
      /\ a.seq \in Nat /\ b.seq \in Nat /\ c.seq \in Nat
  BY PriorityAssumption DEF HeapEntry
<1> QED
  BY <1>1 DEF HigherPriority

\* The entries from place "from" on are behind those of their parents.
OrderedFrom(heap, from) ==
    \A i \in 2..Len(heap) : i >= from => HigherPriority(heap[i \div 2], heap[i])

Distinct(heap) == \A i, k \in 1..Len(heap) : heap[i].seq = heap[k].seq => i = k

HeapInv(heap) ==
    /\ heap \in Seq(HeapEntry) /\ Distinct(heap) /\ OrderedFrom(heap, 2)
    /\ \A i \in 1..Len(heap) : heap[i].seq < Len(heap)

LEMMA HeapFirst == ASSUME NEW heap, HeapInv(heap) PROVE FirstIsHighest(heap)
<1>1. heap \in Seq(HeapEntry) /\ OrderedFrom(heap, 2) /\ Len(heap) \in Nat
  BY DEF HeapInv
<1> DEFINE T == {i \in 2..Len(heap) : ~HigherPriority(heap[1], heap[i])}
<1>2. SUFFICES T = {}
  <2>1. DOMAIN heap = 1..Len(heap)
    BY <1>1
  <2>2. \A i \in 1..Len(heap) : i # 1 => i \in 2..Len(heap)
    BY <1>1
  <2> QED
    BY <1>2, <2>1, <2>2 DEF FirstIsHighest
<1>3. SUFFICES ASSUME T # {} PROVE FALSE
  OBVIOUS
<1>4. PICK j \in T : \A t \in T : j <= t
  <2>1. T \in SUBSET Nat
    BY <1>1
  <2> HIDE DEF T
  <2> QED
    BY <1>3, <2>1, LeastNumber
<1>5. j \in Nat /\ j >= 2 /\ j \in 2..Len(heap) /\ ~HigherPriority(heap[1], heap[j])
  BY <1>1
<1>6. j \div 2 \in Nat /\ 1 <= j \div 2 /\ j \div 2 < j
  BY <1>5, HalfFacts
<1>7. HigherPriority(heap[j \div 2], heap[j])
  BY <1>1, <1>5 DEF OrderedFrom
<1> DEFINE p == j \div 2
<1> HIDE DEF p
<1>8. p \in 1..Len(heap) /\ p < j /\ HigherPriority(heap[p], heap[j])
  BY <1>1, <1>5, <1>6, <1>7 DEF p
<1>9. p # 1
  BY <1>5, <1>8
<1>10. HigherPriority(heap[1], heap[p])
  <2>1. p \in 2..Len(heap) /\ p \notin T
    BY <1>1, <1>4, <1>5, <1>8, <1>9
  <2> QED
    BY <2>1
<1>11. heap[1] \in HeapEntry /\ heap[p] \in HeapEntry /\ heap[j] \in HeapEntry
  BY <1>1, <1>5, <1>8
<1> QED
  BY <1>5, <1>8, <1>10, <1>11, PriorityTransitive

\* The path from a place to the root: each place on it but the first lies between the
\* halves of those below it.
LEMMA PathFacts ==
    ASSUME NEW n \in Nat, n >= 1
    PROVE  /\ n \in PathUp(n) /\ PathUp(n) \subseteq 1..n
           /\ \A k \in PathUp(n) : k # 1 => k \div 2 \in PathUp(n)
           /\ \A k \in PathUp(n) : k # n => \E p \in PathUp(n) : p \div 2 = k /\ p > k
           /\ \A k, p \in PathUp(n) : k < p => k <= p \div 2
<1> DEFINE f == [i \in 1..n |-> IF i = 1 THEN 1 ELSE i \div 2]
           P == PathUp(n)
<1>1. /\ DOMAIN f = 1..n /\ f[1] = 1 /\ n \in DOMAIN f
      /\ \A i \in 1..n : f[i] = IF i = 1 THEN 1 ELSE i \div 2
      /\ P = Reached(f, n)
  BY DEF PathUp
<1>2. ASSUME NEW i \in 1..n, i # 1
      PROVE  i \in Nat /\ i >= 2 /\ i \div 2 \in 1..n /\ i \div 2 < i
  <2>1. i \in Nat /\ i >= 2
    BY <1>2
  <2>2. i \div 2 \in Nat /\ 1 <= i \div 2 /\ i \div 2 < i
    BY <2>1, HalfFacts
  <2> QED
    BY <2>1, <2>2
<1>3. \A i \in 1..n : f[i] \in 1..n
  BY <1>1, <1>2
<1> HIDE DEF f, P
<1>4. /\ n \in P /\ P \subseteq 1..n /\ \A m \in P : f[m] \in P
      /\ \A k \in P : k # n => \E m \in P : m # k /\ f[m] = k
  BY <1>1, <1>3, ReachedClosed, ReachedFrom
<1>5. \A k \in P : k # 1 => k \div 2 \in P
  BY <1>1, <1>4
<1>6. ASSUME NEW k \in P, k # n PROVE \E p \in P : p \div 2 = k /\ p > k
  <2>1. PICK m \in P : m # k /\ f[m] = k
    BY <1>4, <1>6
  <2>2. m # 1 /\ m \in 1..n
    BY <1>1, <1>4, <2>1
  <2>3. m \div 2 = k /\ k < m
    BY <1>1, <1>2, <2>1, <2>2
  <2> QED
    BY <2>1, <2>3
\* Induction along the path.
<1>7. ASSUME NEW S \in SUBSET P, n \in S, \A m \in S : m # 1 => m \div 2 \in S
      PROVE  P \subseteq S
  <2>1. S \in SUBSET DOMAIN f /\ \A m \in S : f[m] \in S
    BY <1>1, <1>4, <1>7
  <2> QED
    BY <1>1, <1>7, <2>1, ReachedWithin
<1> DEFINE Between(k) == \A p \in P : /\ k < p => k <= p \div 2
                                      /\ p < k => p <= k \div 2
           S == {k \in P : Between(k)}
<1>8. \A p \in P : p \in Nat /\ p <= n /\ p >= 1
  BY <1>4
<1>9. n \in S
  <2> DEFINE S1 == {p \in P : p = n \/ p <= n \div 2}
  <2>1. S1 \in SUBSET P /\ n \in S1
    BY <1>4
  <2>2. ASSUME NEW m \in S1, m # 1 PROVE m \div 2 \in S1
    <3>1. m \in P /\ m \in 1..n /\ m \div 2 \in P /\ m <= n
      BY <1>4, <1>5, <1>8, <2>2
    <3>2. m \div 2 <= n \div 2
      BY <1>8, <3>1, HalfOrder
    <3> QED
      BY <3>1, <3>2
  <2>3. P \subseteq S1
    <3> HIDE DEF S1
    <3> QED
      BY <1>7, <2>1, <2>2
  <2>4. \A p \in P : ~(n < p) /\ (p < n => p <= n \div 2)
    BY <1>8, <2>3
  <2> QED
    BY <1>4, <2>4
<1>10. ASSUME NEW k \in S, k # 1 PROVE k \div 2 \in S
  <2> DEFINE h == k \div 2
  <2>1. k \in P /\ Between(k) /\ h \in P
    BY <1>5, <1>10
  <2>2. k \in Nat /\ h \in Nat /\ 1 <= h /\ h < k /\ h <= n
    BY <1>4, <1>2, <1>8, <1>10, <2>1
  <2> HIDE DEF h
  <2> DEFINE S2 == {p \in P : p >= h \/ p <= h \div 2}
  <2>3. P \subseteq S2
    <3>1. S2 \in SUBSET P /\ n \in S2
      BY <1>4, <2>2
    <3>2. ASSUME NEW q \in S2, q # 1 PROVE q \div 2 \in S2
      <4>1. q \in P /\ q \in Nat /\ q \div 2 \in P /\ q \div 2 \in Nat /\ q \div 2 <= q
        BY <1>2, <1>4, <1>5, <1>8, <3>2
      <4>2. CASE q <= h
        BY <2>2, <4>1, <4>2, HalfOrder
      <4>3. CASE q > h
        <5>1. q = k \/ k < q
          <6>1. q < k => q <= h
            BY <2>1, <4>1 DEF h
          <6> QED
            BY <2>2, <4>1, <4>3, <6>1
        <5>2. CASE q = k
          BY <2>2, <4>1, <5>2 DEF h
        <5>3. CASE k < q
          <6>1. k <= q \div 2
            BY <2>1, <4>1, <5>3
          <6> QED
            BY <2>2, <4>1, <6>1
        <5> QED
          BY <5>1, <5>2, <5>3
      <4> QED
        BY <2>2, <4>1, <4>2, <4>3
    <3> HIDE DEF S2
    <3> QED
      BY <1>7, <3>1, <3>2
  <2>4. ASSUME NEW p \in P PROVE (h < p => h <= p \div 2) /\ (p < h => p <= h \div 2)
    <3>1. p \in Nat /\ p \in S2
      BY <1>8, <2>3
    <3>2. h < p => h <= p \div 2
      <4>1. p < k => p <= h
        BY <2>1 DEF h
      <4>2. p = k => p \div 2 = h
        BY DEF h
      <4>3. k < p => k <= p \div 2
        BY <2>1
      <4>4. p \div 2 \in Nat
        BY <3>1
      <4> QED
        BY <2>2, <3>1, <4>1, <4>2, <4>3, <4>4
    <3> QED
      BY <2>2, <3>1, <3>2
  <2>5. h \in S
    BY <2>1, <2>4
  <2> QED
    BY <2>5 DEF h
<1>11. P \subseteq S
  <2>1. S \in SUBSET P
    OBVIOUS
  <2> HIDE DEF S
  <2> QED
    BY <1>7, <1>9, <1>10, <2>1
<1>12. \A k, p \in P : k < p => k <= p \div 2
  BY <1>11
<1> QED
  BY <1>4, <1>5, <1>6, <1>12 DEF P

\* siftUp moves the last entry of a heap to its place.
LEMMA SiftUpSound ==
    ASSUME NEW heap \in Seq(HeapEntry), heap # << >>, Distinct(heap),
           \A i \in 2..Len(heap) : i # Len(heap) => HigherPriority(heap[i \div 2], heap[i])
    PROVE  /\ SiftUp(heap) \in Seq(HeapEntry) /\ Len(SiftUp(heap)) = Len(heap)
           /\ Entries(SiftUp(heap)) = Entries(heap)
           /\ Distinct(SiftUp(heap)) /\ OrderedFrom(SiftUp(heap), 2)
<1> DEFINE n == Len(heap)
           P == PathUp(n)
           T == Passed(heap)
           new == SiftUp(heap)
<1>1. n \in Nat /\ n >= 1 /\ \A i \in 1..n : heap[i] \in HeapEntry
  OBVIOUS
<1>2. /\ n \in P /\ P \subseteq 1..n /\ \A k \in P : k # 1 => k \div 2 \in P
      /\ \A k \in P : k # n => \E p \in P : p \div 2 = k /\ p > k
      /\ \A k, p \in P : k < p => k <= p \div 2
  BY <1>1, PathFacts
<1>3. /\ T = {p \in P : \A k \in P : k >= p => k > 1 /\ HigherPriority(heap[n], heap[k \div 2])}
      /\ new = [i \in 1..n |->
                  IF i \in T THEN heap[i \div 2]
                  ELSE IF i = n \/ \E p \in T : p \div 2 = i THEN heap[n]
                  ELSE heap[i]]
      /\ \A i \in 2..n : i # n => HigherPriority(heap[i \div 2], heap[i])
      /\ \A i, k \in 1..n : heap[i].seq = heap[k].seq => i = k
  BY DEF Passed, SiftUp, Distinct
<1> HIDE DEF n, P, T, new
<1>4. \A k \in P : k \in Nat /\ 1 <= k /\ k <= n
  BY <1>1, <1>2
\* The places passed are those of the path from the last one down.
<1>5. /\ T \subseteq P /\ \A p \in T, k \in P : k >= p => k \in T
      /\ \A p \in T : p > 1 /\ HigherPriority(heap[n], heap[p \div 2])
  <2>1. T \subseteq P
    BY <1>3
  <2>2. ASSUME NEW p \in T, NEW k \in P, k >= p PROVE k \in T
    <3>1. \A m \in P : m >= k => m >= p
      BY <1>4, <2>1, <2>2
    <3> QED
      BY <1>3, <2>2, <3>1
  <2>3. ASSUME NEW p \in T PROVE p > 1 /\ HigherPriority(heap[n], heap[p \div 2])
    <3>1. p \in P /\ p >= p
      BY <1>4, <2>1
    <3> QED
      BY <1>3, <3>1
  <2> QED
    BY <2>1, <2>2, <2>3
<1>6. ASSUME NEW i \in 2..n
      PROVE  i \in Nat /\ i \div 2 \in 1..n /\ i \div 2 < i /\ i \div 2 # n
  <2>1. i \div 2 \in Nat /\ 1 <= i \div 2 /\ i \div 2 < i
    BY <1>1, HalfFacts
  <2> QED
    BY <1>1, <2>1
<1>7. \A p \in T : p \in 2..n
  BY <1>1, <1>4, <1>5
\* The place where the last entry comes to rest.
<1>8. PICK r \in P \ T : \/ T = {} /\ r = n
                         \/ \E q \in T : r = q \div 2 /\ \A p \in T : q <= p
  <2>1. CASE T = {}
    BY <1>2, <2>1
  <2>2. CASE T # {}
    <3>1. T \in SUBSET Nat
      BY <1>4, <1>5
    <3>2. PICK q \in T : \A p \in T : q <= p
      BY <2>2, <3>1, LeastNumber
    <3>3. q \div 2 \in P /\ q \div 2 < q /\ q \div 2 \in Nat /\ q \in Nat
      BY <1>2, <1>4, <1>5, <1>6, <1>7
    <3>4. q \div 2 \notin T
      BY <3>2, <3>3
    <3> QED
      BY <3>2, <3>3, <3>4
  <2> QED
    BY <2>1, <2>2
<1>9. r \in 1..n /\ r \in P /\ r \notin T /\ (n \notin T => r = n)
  <2>1. n \notin T => T = {}
    BY <1>2, <1>4, <1>5
  <2> QED
    BY <1>2, <1>8, <2>1
<1>10. ASSUME NEW p \in T, p \div 2 \notin T PROVE p \div 2 = r
  <2>1. PICK q \in T : r = q \div 2 /\ \A m \in T : q <= m
    BY <1>8
  <2>2. q < p => q <= p \div 2
    BY <1>2, <1>5
  <2>3. q \in Nat /\ p \in Nat /\ p \div 2 \in P
    BY <1>2, <1>4, <1>5
  <2>4. ~(q < p)
    BY <1>5, <1>10, <1>4, <2>2, <2>3
  <2>5. q = p
    BY <2>1, <2>3, <2>4
  <2> QED
    BY <2>1, <2>5
<1>11. ASSUME NEW i \in 1..n, i \notin T
       PROVE  (i = n \/ \E p \in T : p \div 2 = i) <=> i = r
  <2>1. i = n => i = r
    BY <1>9, <1>11
  <2>2. (\E p \in T : p \div 2 = i) => i = r
    BY <1>10, <1>11
  <2>3. i = r => i = n \/ \E p \in T : p \div 2 = i
    BY <1>8
  <2> QED
    BY <2>1, <2>2, <2>3
<1> DEFINE up(i) == IF i \in T THEN i \div 2 ELSE IF i = r THEN n ELSE i
<1>12. \A i \in 1..n : up(i) \in 1..n
  BY <1>1, <1>6, <1>7
<1>13. /\ DOMAIN new = 1..n /\ \A i \in 1..n : new[i] = heap[up(i)]
  BY <1>3, <1>11
<1>14. new \in Seq(HeapEntry) /\ Len(new) = n
  <2>1. new \in [1..n -> HeapEntry]
    BY <1>1, <1>3, <1>12, <1>13
  <2> QED
    BY <1>1, <2>1
\* Each entry has one new place.
<1>15. ASSUME NEW i \in 1..n, NEW k \in 1..n, up(i) = up(k), i < k PROVE FALSE
  <2>1. CASE i \in T /\ k \in T
    <3>1. i <= k \div 2 /\ i \div 2 < i /\ i \div 2 = k \div 2
      BY <1>2, <1>5, <1>6, <1>7, <1>15, <2>1
    <3> QED
      BY <3>1
  <2>2. CASE i \in T /\ k \notin T
    <3>1. i \div 2 < i /\ i \div 2 # n /\ i \div 2 = up(k)
      BY <1>6, <1>7, <1>15, <2>2
    <3>2. k # r /\ i \div 2 = k
      BY <2>2, <3>1
    <3> QED
      BY <1>10, <2>2, <3>2
  <2>3. CASE i \notin T /\ k \in T
    <3>1. k \div 2 < k /\ k \div 2 # n /\ k \div 2 = up(i)
      BY <1>6, <1>7, <1>15, <2>3
    <3>2. i # r /\ k \div 2 = i
      BY <2>3, <3>1
    <3> QED
      BY <1>10, <2>3, <3>2
  <2>4. CASE i \notin T /\ k \notin T
    BY <1>9, <1>15, <2>4
  <2> QED
    BY <2>1, <2>2, <2>3, <2>4
<1>16. ASSUME NEW m \in 1..n PROVE \E i \in 1..n : up(i) = m
  <2>1. CASE m = n
    BY <1>9, <2>1
  <2>2. CASE m # n /\ m \in T
    <3>1. PICK p \in P : p \div 2 = m /\ p > m
      BY <1>2, <1>5, <2>2
    <3>2. p \in T /\ p \in 1..n
      BY <1>2, <1>4, <1>5, <2>2, <3>1
    <3> QED
      BY <3>1, <3>2
  <2>3. CASE m # n /\ m = r
    <3>1. PICK q \in T : r = q \div 2
      BY <1>8, <2>3
    <3>2. q \in 1..n
      BY <1>2, <1>5
    <3> QED
      BY <2>3, <3>1, <3>2
  <2>4. CASE m # n /\ m \notin T /\ m # r
    BY <2>4
  <2> QED
    BY <2>1, <2>2, <2>3, <2>4
<1> HIDE DEF up
<1>17. Entries(new) = Entries(heap)
  <2>1. DOMAIN heap = 1..n
    BY DEF n
  <2> QED
    BY <1>12, <1>13, <1>16, <2>1 DEF Entries
<1>18. Distinct(new)
  <2> SUFFICES ASSUME NEW i \in 1..n, NEW k \in 1..n, new[i].seq = new[k].seq PROVE i = k
    BY <1>14 DEF Distinct
  <2>1. up(i) = up(k)
    <3>1. new[i] = heap[up(i)] /\ new[k] = heap[up(k)] /\ up(i) \in 1..n /\ up(k) \in 1..n
      BY <1>12, <1>13
    <3>2. heap[up(i)].seq = heap[up(k)].seq
      BY <3>1
    <3> QED
      BY <1>3, <3>1, <3>2
  <2>2. ~(i < k) /\ ~(k < i)
    BY <1>15, <2>1
  <2> QED
    BY <1>1, <2>2
<1>19. OrderedFrom(new, 2)
  <2> SUFFICES ASSUME NEW i \in 2..n PROVE HigherPriority(new[i \div 2], new[i])
    BY <1>14 DEF OrderedFrom
  <2> DEFINE j == i \div 2
  <2>1. i \in Nat /\ i \in 1..n /\ j \in 1..n /\ j < i /\ j # n /\ i >= 2 /\ j \in Nat
    BY <1>1, <1>6
  <2>2. /\ i # n => HigherPriority(heap[j], heap[i])
        /\ j # 1 => j \in 2..n /\ HigherPriority(heap[j \div 2], heap[j])
        /\ i \in T => HigherPriority(heap[n], heap[j])
    BY <1>1, <1>3, <1>5, <2>1
  <2>3. /\ i \in T => up(i) = j
        /\ j \in T => up(j) = j \div 2 /\ j # 1
        /\ i \notin T /\ i # r => up(i) = i /\ i # n
        /\ j \notin T /\ j # r => up(j) = j
        /\ up(r) = n
        /\ i \in T /\ j \notin T => j = r
    <3>1. (i \in T => up(i) = j) /\ (i \notin T /\ i # r => up(i) = i /\ i # n)
      BY <1>9 DEF up
    <3>2. (j \in T => up(j) = j \div 2) /\ (j \notin T /\ j # r => up(j) = j)
      BY DEF up
    <3>3. (j \in T => j # 1) /\ (i \in T /\ j \notin T => j = r)
      BY <1>5, <1>10
    <3>4. up(r) = n
      BY <1>9 DEF up
    <3> HIDE DEF j
    <3> QED
      BY <3>1, <3>2, <3>3, <3>4
  <2>4. new[i] = heap[up(i)] /\ new[j] = heap[up(j)]
    BY <1>13, <2>1
  <2>5. heap[i] \in HeapEntry /\ heap[j] \in HeapEntry /\ heap[n] \in HeapEntry
        /\ (j # 1 => heap[j \div 2] \in HeapEntry)
    BY <1>1, <1>6, <2>1, <2>2
  <2>6. CASE i \in T /\ j \in T
    BY <2>2, <2>3, <2>4, <2>6
  <2>7. CASE i \in T /\ j \notin T
    BY <2>2, <2>3, <2>4, <2>7
  <2>8. CASE i = r
    <3>1. j \notin T /\ j # r
      <4>1. ASSUME j \in T PROVE FALSE
        BY <1>4, <1>5, <1>9, <2>1, <2>8, <4>1
      <4> QED
        BY <2>1, <2>8, <4>1
    <3>2. ~HigherPriority(heap[n], heap[j])
      <4>1. PICK k \in P : k >= r /\ ~(k > 1 /\ HigherPriority(heap[n], heap[k \div 2]))
        BY <1>3, <1>9
      <4>2. k = r
        <5>1. CASE T = {}
          BY <1>4, <1>8, <4>1, <5>1
        <5>2. CASE T # {}
          <6>1. PICK q \in T : r = q \div 2
            BY <1>8, <5>2
          <6>2. ~(k >= q)
            <7>1. k >= q => k \in T
              BY <1>5
            <7> QED
              BY <1>5, <4>1, <7>1
          <6>3. k < q => k <= q \div 2
            BY <1>2, <1>5
          <6>4. k \in Nat /\ q \in Nat /\ r \in Nat
            BY <1>4, <1>5, <1>9
          <6> QED
            BY <4>1, <6>1, <6>2, <6>3, <6>4
        <5> QED
          BY <5>1, <5>2
      <4> QED
        BY <2>1, <2>8, <4>1, <4>2
    <3>3. heap[n].seq # heap[j].seq
      BY <1>1, <1>3, <2>1
    <3>4. HigherPriority(heap[j], heap[n])
      BY <2>5, <3>2, <3>3, PriorityOrder
    <3> QED
      BY <2>3, <2>4, <2>8, <3>1, <3>4
  <2>9. CASE i \notin T /\ i # r /\ j \in T
    <3>1. HigherPriority(heap[j \div 2], heap[j]) /\ HigherPriority(heap[j], heap[i])
      BY <2>2, <2>3, <2>9
    <3>2. HigherPriority(heap[j \div 2], heap[i])
      BY <2>3, <2>5, <2>9, <3>1, PriorityTransitive
    <3> QED
      BY <2>3, <2>4, <2>9, <3>2
  <2>10. CASE i \notin T /\ i # r /\ j \notin T /\ j = r
    <3>1. PICK q \in T : r = q \div 2
      BY <1>8, <2>1, <2>10
    <3>2. HigherPriority(heap[n], heap[j]) /\ HigherPriority(heap[j], heap[i])
      BY <1>5, <2>2, <2>3, <2>10, <3>1
    <3>3. HigherPriority(heap[n], heap[i])
      BY <2>5, <3>2, PriorityTransitive
    <3> QED
      BY <2>3, <2>4, <2>10, <3>3
  <2>11. CASE i \notin T /\ i # r /\ j \notin T /\ j # r
    BY <2>2, <2>3, <2>4, <2>11
  <2> QED
    BY <2>6, <2>7, <2>8, <2>9, <2>10, <2>11
<1> QED
  BY <1>14, <1>17, <1>18, <1>19 DEF n, new

\* The child that siftDown swaps with has priority over its sibling and over the entry
\* from the top, and there is none when that entry has priority over both.
LEMMA BestFacts ==
    ASSUME NEW heap \in Seq(HeapEntry), Distinct(heap), NEW i \in 1..Len(heap)
    PROVE  /\ BestOf(heap, i) \in {i, 2 * i, 2 * i + 1} /\ BestOf(heap, i) \in 1..Len(heap)
           /\ BestOf(heap, i) # i => HigherPriority(heap[BestOf(heap, i)], heap[1])
           /\ \A c \in {2 * i, 2 * i + 1} : c <= Len(heap) /\ c # BestOf(heap, i) =>
                HigherPriority(IF BestOf(heap, i) = i THEN heap[1] ELSE heap[BestOf(heap, i)], heap[c])
<1> DEFINE n == Len(heap)
           a == 2 * i
           b == 2 * i + 1
           best == BestOf(heap, i)
<1>1. /\ n \in Nat /\ i \in Nat /\ i >= 1 /\ a \in Nat /\ b \in Nat /\ a > i /\ b > a /\ b = a + 1
      /\ i <= n /\ a # 1 /\ b # 1
  OBVIOUS
<1>2. /\ \A k \in 1..n : heap[k] \in HeapEntry
      /\ \A k, m \in 1..n : heap[k].seq = heap[m].seq => k = m
  BY DEF Distinct
<1>3. /\ 1 \in 1..n /\ a <= n => a \in 1..n
      /\ b <= n => b \in 1..n /\ a \in 1..n
  BY <1>1
<1>4. best = IF b <= n /\ HigherPriority(heap[b], IF a <= n /\ HigherPriority(heap[a], heap[1])
                                                 THEN heap[a] ELSE heap[1])
             THEN b
             ELSE IF a <= n /\ HigherPriority(heap[a], heap[1]) THEN a ELSE i
  BY <1>1 DEF BestOf
<1> HIDE DEF n, a, b, best
<1>5. /\ b <= n => heap[b].seq # heap[1].seq /\ heap[b].seq # heap[a].seq /\ a <= n
      /\ a <= n => heap[a].seq # heap[1].seq
  BY <1>1, <1>2, <1>3
<1>6. /\ a <= n => HigherPriority(heap[a], heap[1]) \/ HigherPriority(heap[1], heap[a])
      /\ b <= n => /\ HigherPriority(heap[b], heap[1]) \/ HigherPriority(heap[1], heap[b])
                   /\ HigherPriority(heap[b], heap[a]) \/ HigherPriority(heap[a], heap[b])
  BY <1>1, <1>2, <1>3, <1>5, PriorityOrder
<1>7. b <= n /\ HigherPriority(heap[b], heap[a]) /\ HigherPriority(heap[a], heap[1])
        => HigherPriority(heap[b], heap[1])
  BY <1>1, <1>2, <1>3, PriorityTransitive
<1>8. b <= n /\ HigherPriority(heap[b], heap[1]) /\ HigherPriority(heap[1], heap[a])
        => HigherPriority(heap[b], heap[a])
  BY <1>1, <1>2, <1>3, PriorityTransitive
<1>9. CASE best = b /\ b <= n
  <2>1. HigherPriority(heap[b], heap[1]) /\ (a <= n => HigherPriority(heap[b], heap[a]))
    BY <1>1, <1>4, <1>6, <1>7, <1>8, <1>9
  <2> QED
    BY <1>1, <1>3, <1>9, <2>1 DEF a, b, n, best
<1>10. CASE best = a /\ a <= n /\ HigherPriority(heap[a], heap[1])
  <2>1. b <= n => HigherPriority(heap[a], heap[b])
    BY <1>1, <1>4, <1>6, <1>10
  <2> QED
    BY <1>1, <1>3, <1>10, <2>1 DEF a, b, n, best
<1>11. CASE best = i
  <2>1. /\ a <= n => HigherPriority(heap[1], heap[a])
        /\ b <= n => HigherPriority(heap[1], heap[b])
    BY <1>1, <1>4, <1>5, <1>6, <1>11
  <2> QED
    BY <1>1, <1>11, <2>1 DEF a, b, n, best
<1> QED
  BY <1>4, <1>9, <1>10, <1>11

\* siftDown moves the entry on the top of a heap to its place.
LEMMA SiftDownSound ==
    ASSUME NEW heap \in Seq(HeapEntry), heap # << >>, Distinct(heap), OrderedFrom(heap, 4)
    PROVE  /\ SiftDown(heap) \in Seq(HeapEntry) /\ Len(SiftDown(heap)) = Len(heap)
           /\ Entries(SiftDown(heap)) = Entries(heap)
           /\ Distinct(SiftDown(heap)) /\ OrderedFrom(SiftDown(heap), 2)
<1> DEFINE n == Len(heap)
           best == [i \in DOMAIN heap |-> BestOf(heap, i)]
           W == Reached(best, 1)
           new == SiftDown(heap)
           down(i) == IF i \notin W THEN i ELSE IF best[i] = i THEN 1 ELSE best[i]
<1>1. /\ n \in Nat /\ n >= 1 /\ DOMAIN heap = 1..n /\ \A i \in 1..n : heap[i] \in HeapEntry
      /\ \A i, k \in 1..n : heap[i].seq = heap[k].seq => i = k
  BY DEF Distinct
<1>2. \A i \in 1..n : best[i] = BestOf(heap, i)
  BY <1>1
<1>3. DOMAIN best = 1..n
  BY <1>1
<1>4. new = [i \in 1..n |-> IF i \notin W THEN heap[i]
                            ELSE IF best[i] = i THEN heap[1]
                            ELSE heap[best[i]]]
  BY <1>1 DEF SiftDown
<1> HIDE DEF best
<1>5. ASSUME NEW i \in 1..n
      PROVE  /\ best[i] \in {i, 2 * i, 2 * i + 1} /\ best[i] \in 1..n
             /\ best[i] # i => HigherPriority(heap[best[i]], heap[1]) /\ best[i] \div 2 = i
             /\ \A c \in {2 * i, 2 * i + 1} : c <= n /\ c # best[i] =>
                  HigherPriority(IF best[i] = i THEN heap[1] ELSE heap[best[i]], heap[c])
  <2>1. /\ BestOf(heap, i) \in {i, 2 * i, 2 * i + 1} /\ BestOf(heap, i) \in 1..Len(heap)
        /\ BestOf(heap, i) # i => HigherPriority(heap[BestOf(heap, i)], heap[1])
        /\ \A c \in {2 * i, 2 * i + 1} : c <= Len(heap) /\ c # BestOf(heap, i) =>
             HigherPriority(IF BestOf(heap, i) = i THEN heap[1] ELSE heap[BestOf(heap, i)], heap[c])
    BY BestFacts
  <2>2. i \in Nat
    BY <1>1
  <2>3. BestOf(heap, i) # i => BestOf(heap, i) \div 2 = i
    BY <2>1, <2>2, HalfOfChild
  <2> QED
    BY <1>2, <2>1, <2>3
<1> HIDE DEF n, W, new
<1>6. /\ 1 \in W /\ W \subseteq 1..n /\ \A m \in W : best[m] \in W
      /\ \A k \in W : k # 1 => \E m \in W : m # k /\ best[m] = k
  <2>1. 1 \in DOMAIN best /\ \A m \in DOMAIN best : best[m] \in DOMAIN best
    BY <1>1, <1>3, <1>5
  <2> QED
    BY <1>3, <2>1, ReachedClosed, ReachedFrom DEF W
\* A place on the way is the best child of its parent, which is on the way.
<1>7. ASSUME NEW i \in W, i # 1 PROVE i \div 2 \in W /\ best[i \div 2] = i
  <2>1. PICK m \in W : m # i /\ best[m] = i
    BY <1>6, <1>7
  <2>2. best[m] \div 2 = m
    BY <1>5, <1>6, <2>1
  <2> QED
    BY <2>1, <2>2
\* The way ends.
<1>8. \E e \in W : best[e] = e
  <2>1. PICK e \in W : \A t \in W : t <= e
    BY <1>1, <1>6, GreatestNumber
  <2>2. e \in 1..n /\ best[e] \in {e, 2 * e, 2 * e + 1} /\ best[e] <= e
    BY <1>5, <1>6, <2>1
  <2>3. best[e] = e
    BY <1>1, <2>2
  <2> QED
    BY <2>3
<1>9. \A i \in 1..n : down(i) \in 1..n
  BY <1>1, <1>5
<1>10. DOMAIN new = 1..n /\ \A i \in 1..n : new[i] = heap[down(i)]
  BY <1>4
<1>11. new \in Seq(HeapEntry) /\ Len(new) = n
  <2>1. new \in [1..n -> HeapEntry]
    BY <1>1, <1>4, <1>9, <1>10
  <2> QED
    BY <1>1, <2>1
<1>12. ASSUME NEW m \in 1..n PROVE \E i \in 1..n : down(i) = m
  <2>1. CASE m = 1
    BY <1>6, <1>8, <2>1
  <2>2. CASE m # 1 /\ m \in W
    <3>1. m \div 2 \in W /\ best[m \div 2] = m /\ m \div 2 # m
      <4>1. m \div 2 < m
        BY <1>1, <2>2, HalfFacts
      <4> QED
        BY <1>1, <1>7, <2>2, <4>1
    <3> QED
      BY <1>6, <3>1
  <2>3. CASE m \notin W
    BY <2>3
  <2> QED
    BY <2>1, <2>2, <2>3
\* Each entry has one new place, as many as there are.
<1>13. \A i, k \in 1..n : down(i) = down(k) => i = k
  <2> DEFINE f == [i \in 1..n |-> down(i)]
  <2>1. f \in Surjection(1..n, 1..n)
    <3>1. f \in [1..n -> 1..n]
      BY <1>9
    <3>2. \A m \in 1..n : \E i \in 1..n : f[i] = m
      BY <1>12
    <3> QED
      BY <3>1, <3>2 DEF Surjection
  <2>2. IsFiniteSet(1..n)
    BY <1>1, FS_Interval
  <2>3. f \in Injection(1..n, 1..n)
    <3> HIDE DEF f
    <3> QED
      BY <2>1, <2>2, FS_SurjSameCardinalityImpliesInj
  <2>4. \A i, k \in 1..n : f[i] = f[k] => i = k
    <3> HIDE DEF f
    <3> QED
      BY <2>3 DEF Injection, IsInjective
  <2> QED
    BY <2>4
<1>14. \A i \in W : best[i] # i => down(i) = best[i]
  OBVIOUS
<1>15. \A i \in 1..n : i \notin W => down(i) = i
  OBVIOUS
<1>16. \A i \in W : best[i] = i => down(i) = 1
  OBVIOUS
<1> HIDE DEF down
<1>17. Entries(new) = Entries(heap)
  <2>1. Entries(new) = {new[i] : i \in 1..n} /\ Entries(heap) = {heap[i] : i \in 1..n}
    BY <1>1, <1>10 DEF Entries
  <2>2. \A i \in 1..n : \E m \in 1..n : new[i] = heap[m]
    BY <1>9, <1>10
  <2>3. \A m \in 1..n : \E i \in 1..n : new[i] = heap[m]
    BY <1>10, <1>12
  <2> QED
    BY <2>1, <2>2, <2>3
<1>18. Distinct(new)
  <2> SUFFICES ASSUME NEW i \in 1..n, NEW k \in 1..n, new[i].seq = new[k].seq PROVE i = k
    BY <1>11 DEF Distinct
  <2>1. new[i] = heap[down(i)] /\ new[k] = heap[down(k)] /\ down(i) \in 1..n /\ down(k) \in 1..n
    BY <1>9, <1>10
  <2>2. heap[down(i)].seq = heap[down(k)].seq
    BY <2>1
  <2> QED
    BY <1>1, <1>13, <2>1, <2>2
<1>19. OrderedFrom(new, 2)
  <2> SUFFICES ASSUME NEW i \in 2..n PROVE HigherPriority(new[i \div 2], new[i])
    BY <1>11 DEF OrderedFrom
  <2> DEFINE j == i \div 2
  <2>1. /\ i \in Nat /\ i \in 1..n /\ i >= 2 /\ i <= n /\ j \in Nat /\ 1 <= j /\ j < i /\ j \in 1..n
        /\ i \in {2 * j, 2 * j + 1}
    <3>1. i \in Nat /\ i >= 2 /\ i <= n
      BY <1>1
    <3>2. j \in Nat /\ 1 <= j /\ j < i /\ (i = 2 * j \/ i = 2 * j + 1)
      BY <3>1, HalfFacts
    <3> QED
      BY <1>1, <3>1, <3>2
  <2>2. j # 1 => HigherPriority(heap[j], heap[i])
    <3>1. j # 1 => i >= 4
      BY <2>1
    <3> QED
      BY <3>1 DEF OrderedFrom, n
  <2>3. new[i] = heap[down(i)] /\ new[j] = heap[down(j)]
    BY <1>10, <2>1
  <2>4. i \in W => j \in W /\ best[j] = i /\ down(j) = i /\ HigherPriority(heap[i], heap[1])
    BY <1>5, <1>7, <1>14, <2>1
  <2>5. CASE i \in W /\ best[i] = i
    BY <1>16, <2>3, <2>4, <2>5
  <2>6. CASE i \in W /\ best[i] # i
    <3> DEFINE c == best[i]
    <3>1. c \in 1..n /\ c \in {2 * i, 2 * i + 1} /\ c \div 2 = i /\ down(i) = c
      BY <1>5, <1>14, <2>1, <2>6
    <3> HIDE DEF c
    <3>2. c \in 2..n /\ c >= 4
      BY <1>1, <2>1, <3>1
    <3>3. HigherPriority(heap[i], heap[c])
      BY <3>1, <3>2 DEF OrderedFrom, n
    <3> QED
      BY <2>3, <2>4, <2>6, <3>1, <3>3
  <2>7. CASE i \notin W /\ j \notin W
    <3>1. down(i) = i /\ down(j) = j /\ j # 1
      BY <1>6, <1>15, <2>1, <2>7
    <3> QED
      BY <2>2, <2>3, <3>1
  <2>8. CASE i \notin W /\ j \in W
    <3>1. i # best[j] /\ down(i) = i
      BY <1>6, <1>15, <2>1, <2>8
    <3>2. HigherPriority(IF best[j] = j THEN heap[1] ELSE heap[best[j]], heap[i])
      BY <1>5, <2>1, <3>1
    <3> QED
      BY <1>14, <1>16, <2>3, <2>8, <3>1, <3>2
  <2> QED
    BY <2>5, <2>6, <2>7, <2>8
<1> QED
  BY <1>11, <1>17, <1>18, <1>19 DEF n, new

LEMMA EntriesFinite ==
    ASSUME NEW heap \in Seq(HeapEntry)
    PROVE  /\ IsFiniteSet(Entries(heap)) /\ Cardinality(Entries(heap)) <= Len(heap)
           /\ Entries(heap) \subseteq HeapEntry
           /\ DOMAIN heap = 1..Len(heap) /\ Len(heap) \in Nat
<1>1. /\ Len(heap) \in Nat /\ DOMAIN heap = 1..Len(heap) /\ heap \in [1..Len(heap) -> HeapEntry]
  OBVIOUS
<1>2. heap \in Surjection(1..Len(heap), Entries(heap))
  BY <1>1 DEF Surjection, Entries
<1>3. IsFiniteSet(1..Len(heap)) /\ Cardinality(1..Len(heap)) = Len(heap)
  BY <1>1, FS_Interval
<1>4. IsFiniteSet(Entries(heap)) /\ Cardinality(Entries(heap)) <= Cardinality(1..Len(heap))
  BY <1>2, <1>3, FS_Surjection
<1> QED
  BY <1>1, <1>3, <1>4 DEF Entries

\* Counting the insertions anew changes neither the jobs nor their order.
LEMMA RenumberedSound ==
    ASSUME NEW heap \in Seq(HeapEntry), Distinct(heap), OrderedFrom(heap, 2)
    PROVE  HeapInv(Renumbered(heap)) /\ Queued(Renumbered(heap)) = Queued(heap)
           /\ Len(Renumbered(heap)) = Len(heap)
<1> DEFINE n == Len(heap)
           E == Entries(heap)
           Before(s) == {e \in E : e.seq < s}
           rank(s) == Cardinality(Before(s))
           new == Renumbered(heap)
<1>1. /\ n \in Nat /\ DOMAIN heap = 1..n /\ IsFiniteSet(E) /\ Cardinality(E) <= n
      /\ E \subseteq HeapEntry /\ Cardinality(E) \in Nat
      /\ \A i \in 1..n : heap[i] \in HeapEntry /\ heap[i] \in E
                         /\ heap[i].seq \in Nat /\ heap[i].job \in Job
  <2>1. \A i \in 1..n : heap[i] \in HeapEntry
    OBVIOUS
  <2>2. \A i \in 1..n : heap[i].seq \in Nat /\ heap[i].job \in Job
    BY <2>1 DEF HeapEntry
  <2>3. IsFiniteSet(E) /\ Cardinality(E) <= n /\ E \subseteq HeapEntry /\ DOMAIN heap = 1..n /\ n \in Nat
    BY EntriesFinite
  <2>4. Cardinality(E) \in Nat /\ \A i \in 1..n : heap[i] \in E
    BY <2>3, FS_CardinalityType DEF Entries
  <2> QED
    BY <2>1, <2>2, <2>3, <2>4
<1>2. new = [i \in 1..n |-> [heap[i] EXCEPT !.seq = rank(heap[i].seq)]]
  BY <1>1 DEF Renumbered
<1>3. \A s \in Nat : IsFiniteSet(Before(s)) /\ rank(s) \in Nat /\ rank(s) <= Cardinality(E)
  <2> SUFFICES ASSUME NEW s \in Nat
               PROVE  IsFiniteSet(Before(s)) /\ rank(s) \in Nat /\ rank(s) <= Cardinality(E)
    OBVIOUS
  <2>1. Before(s) \in SUBSET E
    OBVIOUS
  <2>2. IsFiniteSet(Before(s)) /\ Cardinality(Before(s)) <= Cardinality(E)
    BY <1>1, <2>1, FS_Subset
  <2> QED
    BY <2>2, FS_CardinalityType
\* The number of the earlier entries grows with the number of the entry.
<1>4. ASSUME NEW i \in 1..n, NEW s \in Nat, heap[i].seq < s
      PROVE  rank(heap[i].seq) < rank(s)
  <2> DEFINE A == Before(heap[i].seq)
             B == Before(s)
  <2>1. A \in SUBSET B /\ A # B
    <3>1. \A e \in E : e.seq \in Nat
      BY <1>1 DEF HeapEntry
    <3>2. \A e \in A : e \in B
      BY <1>1, <1>4, <3>1
    <3>3. heap[i] \in B /\ heap[i] \notin A
      BY <1>1, <1>4
    <3> QED
      BY <3>2, <3>3
  <2>2. IsFiniteSet(B) /\ Cardinality(A) \in Nat /\ Cardinality(B) \in Nat
    BY <1>1, <1>3
  <2>3. Cardinality(A) <= Cardinality(B) /\ (Cardinality(B) = Cardinality(A) => B = A)
    <3> HIDE DEF A, B
    <3> QED
      BY <2>1, <2>2, FS_Subset
  <2>4. Cardinality(A) < Cardinality(B)
    <3> HIDE DEF A, B
    <3> QED
      BY <2>1, <2>2, <2>3
  <2> QED
    BY <2>4
<1>5. \A i \in 1..n : rank(heap[i].seq) \in Nat /\ rank(heap[i].seq) < n
  <2> SUFFICES ASSUME NEW i \in 1..n PROVE rank(heap[i].seq) \in Nat /\ rank(heap[i].seq) < n
    OBVIOUS
  <2> DEFINE A == Before(heap[i].seq)
  <2>1. A \in SUBSET E /\ A # E
    BY <1>1
  <2>2. Cardinality(A) \in Nat /\ Cardinality(A) <= Cardinality(E)
    BY <1>1, <1>3
  <2>3. Cardinality(E) = Cardinality(A) => E = A
    <3> HIDE DEF A, E
    <3> QED
      BY <1>1, <2>1, FS_Subset
  <2>4. Cardinality(A) < n
    <3> HIDE DEF A, E
    <3> QED
      BY <1>1, <2>1, <2>2, <2>3
  <2> QED
    BY <2>2, <2>4
<1> HIDE DEF rank, Before, E
<1>6. ASSUME NEW i \in 1..n
      PROVE  /\ new[i] \in HeapEntry /\ new[i].job = heap[i].job /\ new[i].seq = rank(heap[i].seq)
             /\ new[i].seq \in Nat /\ new[i].seq < n
  <2>1. heap[i] \in [job: Job, seq: Nat] /\ new[i] = [heap[i] EXCEPT !.seq = rank(heap[i].seq)]
    BY <1>1, <1>2 DEF HeapEntry
  <2>2. rank(heap[i].seq) \in Nat /\ rank(heap[i].seq) < n
    BY <1>5
  <2> QED
    BY <2>1, <2>2 DEF HeapEntry
<1>7. new \in Seq(HeapEntry) /\ Len(new) = n
  <2>1. new \in [1..n -> HeapEntry]
    BY <1>2, <1>6
  <2> QED
    BY <1>1, <2>1
<1> HIDE DEF new
<1>8. \A i, k \in 1..n : heap[i].seq < heap[k].seq <=> new[i].seq < new[k].seq
  <2> SUFFICES ASSUME NEW i \in 1..n, NEW k \in 1..n
               PROVE  heap[i].seq < heap[k].seq <=> new[i].seq < new[k].seq
    OBVIOUS
  <2>1. heap[i].seq \in Nat /\ heap[k].seq \in Nat
    BY <1>1
  <2>2. heap[i].seq < heap[k].seq => rank(heap[i].seq) < rank(heap[k].seq)
    BY <1>4, <2>1
  <2>3. heap[k].seq < heap[i].seq => rank(heap[k].seq) < rank(heap[i].seq)
    BY <1>4, <2>1
  <2>4. heap[i].seq = heap[k].seq => rank(heap[i].seq) = rank(heap[k].seq)
    OBVIOUS
  <2>5. rank(heap[i].seq) \in Nat /\ rank(heap[k].seq) \in Nat
    BY <1>5
  <2>6. new[i].seq = rank(heap[i].seq) /\ new[k].seq = rank(heap[k].seq)
    BY <1>6
  <2> QED
    BY <2>1, <2>2, <2>3, <2>4, <2>5, <2>6
<1>9. Distinct(new)
  <2> SUFFICES ASSUME NEW i \in 1..n, NEW k \in 1..n, new[i].seq = new[k].seq PROVE i = k
    BY <1>7 DEF Distinct
  <2>1. heap[i].seq \in Nat /\ heap[k].seq \in Nat /\ new[i].seq \in Nat
    BY <1>1, <1>6
  <2>2. ~(heap[i].seq < heap[k].seq) /\ ~(heap[k].seq < heap[i].seq)
    BY <1>8, <2>1
  <2>3. heap[i].seq = heap[k].seq
    BY <2>1, <2>2
  <2> QED
    BY <2>3 DEF Distinct
<1>10. OrderedFrom(new, 2)
  <2> SUFFICES ASSUME NEW i \in 2..n PROVE HigherPriority(new[i \div 2], new[i])
    BY <1>7 DEF OrderedFrom
  <2> DEFINE j == i \div 2
  <2>1. i \in 1..n /\ j \in 1..n
    <3>1. i \in Nat /\ i >= 2
      BY <1>1
    <3>2. j \in Nat /\ 1 <= j /\ j < i
      BY <3>1, HalfFacts
    <3> QED
      BY <1>1, <3>1, <3>2
  <2>2. HigherPriority(heap[j], heap[i])
    <3>1. i >= 2 /\ i \in 2..Len(heap)
      BY <1>1
    <3> QED
      BY <3>1 DEF OrderedFrom
  <2>3. new[i].job = heap[i].job /\ new[j].job = heap[j].job
        /\ (heap[j].seq < heap[i].seq <=> new[j].seq < new[i].seq)
    BY <1>6, <1>8, <2>1
  <2> HIDE DEF j
  <2>4. HigherPriority(new[j], new[i])
    BY <2>2, <2>3 DEF HigherPriority
  <2> QED
    BY <2>4 DEF j
<1>11. Queued(new) = Queued(heap)
  <2>1. Entries(new) = {new[i] : i \in 1..n} /\ Entries(heap) = {heap[i] : i \in 1..n}
    BY <1>1, <1>7 DEF Entries
  <2>2. \A i \in 1..n : new[i].job = heap[i].job
    BY <1>6
  <2> QED
    BY <2>1, <2>2 DEF Queued
<1>12. HeapInv(new)
  BY <1>6, <1>7, <1>9, <1>10 DEF HeapInv
<1> QED
  BY <1>7, <1>11, <1>12 DEF new, n

LEMMA EnqueueSound ==
    ASSUME NEW heap, HeapInv(heap), NEW j \in Job
    PROVE  /\ HeapInv(Enqueue(heap, j)) /\ Enqueue(heap, j) # << >>
           /\ Queued(Enqueue(heap, j)) = Queued(heap) \cup {j}
<1> DEFINE n == Len(heap)
           x == [job |-> j, seq |-> n]
           longer == Append(heap, x)
           new == Enqueue(heap, j)
<1>1. /\ heap \in Seq(HeapEntry) /\ n \in Nat /\ x \in HeapEntry /\ x.job = j /\ x.seq = n
      /\ DOMAIN heap = 1..n
      /\ \A i \in 1..n : heap[i] \in HeapEntry /\ heap[i].seq \in Nat /\ heap[i].seq < n
      /\ \A i, k \in 1..n : heap[i].seq = heap[k].seq => i = k
      /\ \A i \in 2..n : HigherPriority(heap[i \div 2], heap[i])
  <2>1. heap \in Seq(HeapEntry) /\ n \in Nat
    BY DEF HeapInv
  <2>2. x \in HeapEntry /\ x.job = j /\ x.seq = n
    BY <2>1 DEF HeapEntry
  <2>3. \A i \in 1..n : heap[i] \in HeapEntry
    BY <2>1
  <2>4. \A i \in 1..n : heap[i].seq \in Nat
    BY <2>3 DEF HeapEntry
  <2>5. /\ DOMAIN heap = 1..n /\ \A i \in 1..n : heap[i].seq < n
        /\ \A i, k \in 1..n : heap[i].seq = heap[k].seq => i = k
        /\ \A i \in 2..n : HigherPriority(heap[i \div 2], heap[i])
    <3>1. \A i \in 2..n : i >= 2
      BY <2>1
    <3> QED
      BY <2>1, <3>1 DEF HeapInv, Distinct, OrderedFrom
  <2> QED
    BY <2>1, <2>2, <2>3, <2>4, <2>5
<1>2. new = SiftUp(longer)
  BY DEF Enqueue, NextSeq
<1> HIDE DEF x, n
<1>3. /\ longer \in Seq(HeapEntry) /\ Len(longer) = n + 1 /\ longer[n + 1] = x
      /\ \A i \in 1..n : longer[i] = heap[i]
      /\ \A i \in 1..(n + 1) : i \in 1..n \/ i = n + 1
  BY <1>1, AppendedFacts DEF n
<1> HIDE DEF longer
<1>4. longer # << >> /\ DOMAIN longer = 1..(n + 1)
  BY <1>1, <1>3
<1>5. Distinct(longer)
  <2> SUFFICES ASSUME NEW i \in 1..(n + 1), NEW k \in 1..(n + 1), longer[i].seq = longer[k].seq
               PROVE  i = k
    BY <1>3 DEF Distinct
  <2>1. CASE i \in 1..n /\ k \in 1..n
    BY <1>1, <1>3, <2>1
  <2>2. CASE i = n + 1 /\ k \in 1..n
    BY <1>1, <1>3, <2>2
  <2>3. CASE i \in 1..n /\ k = n + 1
    BY <1>1, <1>3, <2>3
  <2> QED
    BY <1>3, <2>1, <2>2, <2>3
<1>6. ASSUME NEW i \in 2..Len(longer), i # Len(longer)
      PROVE  HigherPriority(longer[i \div 2], longer[i])
  <2>1. i \in 2..n /\ i \in 1..n /\ i \in Nat /\ i >= 2
    BY <1>1, <1>3, <1>6
  <2>2. i \div 2 \in Nat /\ 1 <= i \div 2 /\ i \div 2 < i
    BY <2>1, HalfFacts
  <2>3. i \div 2 \in 1..n
    BY <1>1, <2>1, <2>2
  <2> QED
    BY <1>1, <1>3, <2>1, <2>3
<1>7. /\ new \in Seq(HeapEntry) /\ Len(new) = n + 1 /\ Entries(new) = Entries(longer)
      /\ Distinct(new) /\ OrderedFrom(new, 2)
  BY <1>2, <1>3, <1>4, <1>5, <1>6, SiftUpSound
<1> HIDE DEF new
<1>8. Entries(longer) = Entries(heap) \cup {x}
  <2>1. Entries(longer) = {longer[i] : i \in 1..(n + 1)} /\ Entries(heap) = {heap[i] : i \in 1..n}
    BY <1>1, <1>4 DEF Entries
  <2>2. n + 1 \in 1..(n + 1) /\ 1..n \subseteq 1..(n + 1)
    BY <1>1
  <2>3. \A e : e \in Entries(longer) => e \in Entries(heap) \cup {x}
    BY <1>3, <2>1
  <2>4. \A e : e \in Entries(heap) \cup {x} => e \in Entries(longer)
    BY <1>3, <2>1, <2>2
  <2> QED
    BY <2>3, <2>4
<1>9. \A i \in 1..Len(new) : new[i].seq < Len(new)
  <2> SUFFICES ASSUME NEW i \in 1..Len(new) PROVE new[i].seq < Len(new)
    OBVIOUS
  <2>1. new[i] \in Entries(new)
    BY <1>7 DEF Entries
  <2>2. new[i] \in Entries(heap) \/ new[i] = x
    BY <1>7, <1>8, <2>1
  <2>3. new[i] \in Entries(heap) => new[i].seq \in Nat /\ new[i].seq < n
    BY <1>1 DEF Entries
  <2> QED
    BY <1>1, <1>7, <2>2, <2>3
<1>10. HeapInv(new)
  BY <1>7, <1>9 DEF HeapInv
<1>11. Queued(new) = Queued(heap) \cup {j}
  BY <1>1, <1>7, <1>8 DEF Queued
<1>12. new # << >>
  BY <1>1, <1>7
<1> QED
  BY <1>10, <1>11, <1>12 DEF new

LEMMA DequeuedSound ==
    ASSUME NEW heap, HeapInv(heap), heap # << >>
    PROVE  /\ HeapInv(Dequeued(heap)) /\ heap[1] \in HeapEntry
           /\ heap[1].job \in Job /\ heap[1].job \in Queued(heap)
           /\ Queued(heap) = Queued(Dequeued(heap)) \cup {heap[1].job}
<1> DEFINE n == Len(heap)
           rest == [i \in 1..n - 1 |-> IF i = 1 THEN heap[n] ELSE heap[i]]
<1>1. /\ heap \in Seq(HeapEntry) /\ n \in Nat /\ n >= 1 /\ DOMAIN heap = 1..n
      /\ \A i \in 1..n : heap[i] \in HeapEntry
      /\ \A i, k \in 1..n : heap[i].seq = heap[k].seq => i = k
      /\ \A i \in 2..n : HigherPriority(heap[i \div 2], heap[i])
  <2>1. heap \in Seq(HeapEntry) /\ n \in Nat /\ n >= 1 /\ DOMAIN heap = 1..n
    BY DEF HeapInv
  <2>2. \A i \in 1..n : heap[i] \in HeapEntry
    BY <2>1
  <2>3. /\ \A i, k \in 1..n : heap[i].seq = heap[k].seq => i = k
        /\ \A i \in 2..n : HigherPriority(heap[i \div 2], heap[i])
    <3>1. \A i \in 2..n : i >= 2
      BY <2>1
    <3> QED
      BY <2>1, <3>1 DEF HeapInv, Distinct, OrderedFrom
  <2> QED
    BY <2>1, <2>2, <2>3
<1>2. heap[1] \in HeapEntry /\ heap[1].job \in Job /\ 1 \in 1..n
  BY <1>1 DEF HeapEntry
<1>3. Entries(heap) = {heap[i] : i \in 1..n}
  BY <1>1 DEF Entries
<1>4. Dequeued(heap) = IF n <= 1 THEN << >> ELSE Renumbered(SiftDown(rest))
  BY DEF Dequeued
<1> HIDE DEF n
<1>5. CASE n <= 1
  <2>1. n = 1 /\ Entries(heap) = {heap[1]}
    <3>1. n = 1
      BY <1>1, <1>5
    <3>2. \A i \in 1..n : i = 1
      BY <3>1
    <3> QED
      BY <1>2, <1>3, <3>1, <3>2
  <2>2. Dequeued(heap) = << >> /\ Entries(<< >>) = {}
    BY <1>4, <1>5 DEF Entries
  <2>3. HeapInv(<< >>)
    BY DEF HeapInv, Distinct, OrderedFrom
  <2> QED
    BY <1>2, <2>1, <2>2, <2>3 DEF Queued
<1>6. CASE n > 1
  <2>1. /\ rest \in Seq(HeapEntry) /\ Len(rest) = n - 1 /\ DOMAIN rest = 1..(n - 1)
        /\ rest[1] = heap[n] /\ \A i \in 2..(n - 1) : rest[i] = heap[i]
        /\ \A i \in 1..(n - 1) : i = 1 \/ i \in 2..(n - 1)
    <3>1. rest \in [1..(n - 1) -> HeapEntry] /\ n - 1 \in Nat /\ n \in 1..n
      BY <1>1, <1>6
    <3>2. 1 \in 1..(n - 1) /\ \A i \in 2..(n - 1) : i \in 1..(n - 1) /\ i # 1
      BY <1>1, <1>6
    <3> QED
      BY <1>1, <1>6, <3>1, <3>2
  <2> HIDE DEF rest
  <2>2. rest # << >>
    BY <1>1, <1>6, <2>1
  <2>3. Distinct(rest)
    <3> SUFFICES ASSUME NEW i \in 1..(n - 1), NEW k \in 1..(n - 1), rest[i].seq = rest[k].seq
                 PROVE  i = k
      BY <2>1 DEF Distinct
    <3>1. n \in 1..n /\ i \in 1..n /\ k \in 1..n /\ i # n /\ k # n
      BY <1>1
    <3>2. CASE i = 1 /\ k # 1
      BY <1>1, <2>1, <3>1, <3>2
    <3>3. CASE i # 1 /\ k = 1
      BY <1>1, <2>1, <3>1, <3>3
    <3>4. CASE i # 1 /\ k # 1
      BY <1>1, <2>1, <3>1, <3>4
    <3> QED
      BY <3>2, <3>3, <3>4
  <2>4. OrderedFrom(rest, 4)
    <3> SUFFICES ASSUME NEW i \in 2..(n - 1), i >= 4
                 PROVE  HigherPriority(rest[i \div 2], rest[i])
      BY <2>1 DEF OrderedFrom
    <3>1. i \in Nat /\ i >= 2 /\ i \in 2..n
      BY <1>1
    <3>2. i \div 2 \in Nat /\ i \div 2 < i /\ (i = 2 * (i \div 2) \/ i = 2 * (i \div 2) + 1)
      BY <3>1, HalfFacts
    <3>3. i \div 2 \in 2..(n - 1)
      BY <1>1, <3>1, <3>2
    <3> QED
      BY <1>1, <2>1, <3>1, <3>3
  <2> DEFINE down == SiftDown(rest)
  <2>5. /\ down \in Seq(HeapEntry) /\ Len(down) = n - 1 /\ Entries(down) = Entries(rest)
        /\ Distinct(down) /\ OrderedFrom(down, 2)
    BY <2>1, <2>2, <2>3, <2>4, SiftDownSound
  <2> HIDE DEF down
  <2>6. HeapInv(Renumbered(down)) /\ Queued(Renumbered(down)) = Queued(down)
    BY <2>5, RenumberedSound
  <2>7. Dequeued(heap) = Renumbered(down)
    BY <1>1, <1>4, <1>6 DEF down
  <2>8. Entries(heap) = Entries(rest) \cup {heap[1]}
    <3>1. Entries(rest) = {rest[i] : i \in 1..(n - 1)}
      BY <2>1 DEF Entries
    <3>2. \A i \in 1..(n - 1) : rest[i] \in Entries(heap)
      <4>1. n \in 1..n /\ \A i \in 2..(n - 1) : i \in 1..n
        BY <1>1
      <4> QED
        BY <1>3, <2>1, <4>1
    <3>3. \A i \in 1..n : heap[i] \in Entries(rest) \cup {heap[1]}
      <4>1. 1 \in 1..(n - 1) /\ \A i \in 1..n : i = 1 \/ i = n \/ (i \in 2..(n - 1) /\ i \in 1..(n - 1))
        BY <1>1, <1>6
      <4> QED
        BY <2>1, <3>1, <4>1
    <3> QED
      BY <1>2, <1>3, <3>1, <3>2, <3>3
  <2>9. Queued(heap) = Queued(down) \cup {heap[1].job} /\ heap[1].job \in Queued(heap)
    BY <2>5, <2>8 DEF Queued
  <2> QED
    BY <1>2, <2>6, <2>7, <2>9
<1> QED
  BY <1>1, <1>5, <1>6

-----------------------------------------------------------------------------
(* The Scheduler.                                                          *)

\* Before start() every job that was accepted is in the queue, and no other token exists.
BeforeStart ==
    loop = "off" =>
        /\ ~running /\ core = "down" /\ ending = "no"
        /\ \A j \in Job :
             /\ timers[j] = 0 /\ submitting[j] = << >> /\ pipe[j] = << >>
             /\ Known(j) => j \in Queued(queue)

\* A job was replaced or retried under the key.
Contested(k) == \E x \in replaced \cup retried : KeyOf[x] = k

\* Until its key is contested, a job that is known holds its key.
KeyHeld == \A j \in KnownJobs : KeyOf[j] # NoKey => Contested(KeyOf[j]) \/ inflight[KeyOf[j]] = j

\* What is known was submitted, by finitely many calls, and only what is known is processed.
KnownSound ==
    /\ IsFiniteSet(submitted) /\ KnownJobs \subseteq submitted
    /\ \A j \in Job : info[j].processing => Known(j)

SchedulerIInv ==
    /\ TypeOK /\ HeapInv(queue) /\ NoJobLost /\ NoLostWakeup /\ BeforeStart
    /\ KeysOwned /\ KeyHeld /\ KnownSound

LEMMA SchedulerConstants ==
    /\ NoJob \notin Job /\ NoKey \notin Key /\ KeyOf \in [Job -> Key \cup {NoKey}]
    /\ JobMaxAttempts \in [Job -> Nat] /\ MaxAttempts \in Nat /\ MaxAttempts >= 1
    /\ MaxDlq \in Nat /\ MaxDlq >= 1 /\ MaxTimeouts \in Nat /\ MaxCancels \in Nat
BY SchedulerAssumption

LEMMA ForgottenFacts ==
    /\ Forgotten.known = FALSE /\ Forgotten.processing = FALSE
    /\ Forgotten \in [known: BOOLEAN, attempt: 0..MaxAttempts - 1, processing: BOOLEAN]
BY SchedulerConstants DEF Forgotten

\* The messages that somebody waits for or that end a job.
Heard(m) ==
    \/ m.type \in {"job_completed", "job_cancelled"}
    \/ m.type = "permit_rejected" /\ ~m.late

HeardIn(seq) == \E i \in DOMAIN seq : Heard(seq[i])

LEMMA ListenedIsHeard == \A j : Listened(j) <=> HeardIn(pipe[j])
BY DEF Listened, HeardIn, Heard

LEMMA MessageFacts ==
    /\ Answer("permit_granted") \in Message /\ Answer("permit_rejected") \in Message
    /\ Heard(Answer("permit_rejected"))
    /\ JobCancelled \in Message /\ Heard(JobCancelled)
    /\ \A o \in Outcome : Completed(o) \in Message /\ Heard(Completed(o))
    /\ \A m \in Message : m.type = "job_completed" => m.outcome \in Outcome
BY DEF Answer, Message, Heard, JobCancelled, Completed

LEMMA LateFacts ==
    ASSUME NEW m \in Message, "late" \in DOMAIN m
    PROVE  [m EXCEPT !.late = TRUE] \in Message
<1>1. CASE m \in [type: {"permit_granted", "permit_rejected"}, late: BOOLEAN]
  BY <1>1 DEF Message
<1>2. CASE m \in [type: {"job_completed"}, outcome: Outcome]
  <2>1. DOMAIN m = {"type", "outcome"}
    BY <1>2
  <2> QED
    BY <2>1
<1>3. CASE m = JobCancelled
  <2>1. DOMAIN m = {"type"}
    BY <1>3 DEF JobCancelled
  <2> QED
    BY <2>1
<1> QED
  BY <1>1, <1>2, <1>3 DEF Message

LEMMA HeardAppended ==
    ASSUME NEW seq \in Seq(Message), NEW m \in Message
    PROVE  /\ Append(seq, m) \in Seq(Message)
           /\ HeardIn(seq) \/ Heard(m) => HeardIn(Append(seq, m))
<1>1. /\ Append(seq, m) \in Seq(Message) /\ Len(Append(seq, m)) = Len(seq) + 1
      /\ Len(seq) \in Nat
      /\ Append(seq, m)[Len(seq) + 1] = m
      /\ \A i \in 1..Len(seq) : Append(seq, m)[i] = seq[i]
  BY AppendedFacts
<1>2. /\ DOMAIN seq = 1..Len(seq) /\ DOMAIN Append(seq, m) = 1..(Len(seq) + 1)
      /\ Len(seq) + 1 \in 1..(Len(seq) + 1) /\ 1..Len(seq) \subseteq 1..(Len(seq) + 1)
  BY <1>1
<1> QED
  BY <1>1, <1>2 DEF HeardIn

LEMMA HeardTail ==
    ASSUME NEW seq \in Seq(Message), seq # << >>
    PROVE  /\ Tail(seq) \in Seq(Message) /\ Head(seq) = seq[1] /\ Head(seq) \in Message
           /\ HeardIn(seq) /\ ~Heard(Head(seq)) => HeardIn(Tail(seq))
<1>1. /\ Tail(seq) \in Seq(Message) /\ Len(Tail(seq)) = Len(seq) - 1 /\ Len(seq) >= 1
      /\ \A i \in 1..Len(Tail(seq)) : Tail(seq)[i] = seq[i + 1]
      /\ Head(seq) = seq[1] /\ Head(seq) \in Message /\ Len(seq) \in Nat
  BY TailFacts
<1>2. DOMAIN seq = 1..Len(seq) /\ DOMAIN Tail(seq) = 1..(Len(seq) - 1)
  BY <1>1
<1>3. ASSUME HeardIn(seq), ~Heard(Head(seq)) PROVE HeardIn(Tail(seq))
  <2>1. PICK i \in 1..Len(seq) : Heard(seq[i])
    BY <1>2, <1>3 DEF HeardIn
  <2>2. i # 1
    BY <1>1, <1>3, <2>1
  <2>3. i - 1 \in 1..(Len(seq) - 1) /\ (i - 1) + 1 = i
    BY <1>1, <2>2
  <2>4. Tail(seq)[i - 1] = seq[i]
    BY <1>1, <2>3
  <2> QED
    BY <1>2, <2>1, <2>3, <2>4 DEF HeardIn
<1> QED
  BY <1>1, <1>3

\* Where a job that the Scheduler knows is.
OnWay(j) ==
    \/ j \in Queued(queue) \/ timers[j] > 0 \/ submitting[j] # << >>
    \/ atCore[j] = "running" \/ HeardIn(pipe[j])

LEMMA NoJobLostIsOnWay ==
    NoJobLost <=> (running /\ core = "up" => \A j \in Job : Known(j) => OnWay(j))
BY ListenedIsHeard DEF NoJobLost, OnWay

LEMMA NoJobLostKept ==
    ASSUME NoJobLost, running' /\ core' = "up" => running /\ core = "up",
           \A j \in Job : info'[j].known =>
             \/ OnWay(j)'
             \/ info[j].known /\ (OnWay(j) => OnWay(j)')
             \/ /\ info[j].known /\ (j \in Queued(queue) => j \in Queued(queue'))
                /\ timers'[j] = timers[j] /\ submitting'[j] = submitting[j]
                /\ pipe'[j] = pipe[j] /\ atCore'[j] = atCore[j]
    PROVE  NoJobLost'
<1> SUFFICES ASSUME running', core' = "up", NEW j \in Job, info'[j].known PROVE OnWay(j)'
  <2>1. \A j \in Job : OnWay(j)' =>
            \/ j \in Queued(queue') \/ timers'[j] > 0 \/ submitting'[j] # << >>
            \/ atCore'[j] = "running" \/ Listened(j)'
    BY DEF OnWay, HeardIn, Heard, Listened
  <2> QED
    BY <2>1 DEF NoJobLost, Known
<1>1. info[j].known => OnWay(j)
  BY NoJobLostIsOnWay DEF Known
<1>2. CASE OnWay(j)'
  BY <1>2
<1>3. CASE /\ info[j].known /\ (j \in Queued(queue) => j \in Queued(queue'))
           /\ timers'[j] = timers[j] /\ submitting'[j] = submitting[j]
           /\ pipe'[j] = pipe[j] /\ atCore'[j] = atCore[j]
  BY <1>1, <1>3 DEF OnWay
<1> QED
  BY <1>1, <1>2, <1>3

LEMMA RecordsKept ==
    ASSUME TypeOK, KeysOwned, KeyHeld, KnownSound,
           inflight' = inflight, replaced' = replaced, retried' = retried, submitted' = submitted,
           \A j \in Job : info'[j].known = info[j].known
                          /\ (info'[j].processing => info[j].processing \/ info[j].known)
    PROVE  KeysOwned' /\ KeyHeld' /\ KnownSound'
<1>1. \A j \in Job : Known(j)' <=> Known(j)
  BY DEF Known
<1>2. KnownJobs' = KnownJobs
  BY <1>1 DEF KnownJobs
<1>3. KeysOwned'
  <2>1. \A k \in Key : inflight[k] # NoJob => inflight[k] \in Job
    BY DEF TypeOK
  <2> QED
    BY <2>1 DEF KeysOwned, Known
<1>4. KeyHeld'
  BY <1>2 DEF KeyHeld, Contested
<1>5. KnownSound'
  BY <1>2 DEF KnownSound, Known
<1> QED
  BY <1>3, <1>4, <1>5

\* Some known jobs end or fail, and give up their keys.
LEMMA RecordsForgotten ==
    ASSUME TypeOK, KeysOwned, KeyHeld, KnownSound, NEW D, D \subseteq KnownJobs,
           inflight' = [k \in Key |-> IF \E j \in D : KeyOf[j] = k THEN NoJob ELSE inflight[k]],
           replaced' = replaced, submitted' = submitted, retried \subseteq retried',
           \A j \in Job : /\ info'[j].known => info[j].known /\ (j \in D => j \in retried')
                          /\ j \notin D => info'[j].known = info[j].known
                          /\ info'[j].processing => info'[j].known
    PROVE  KeysOwned' /\ KeyHeld' /\ KnownSound'
<1>1. KeysOwned'
  <2> SUFFICES ASSUME NEW k \in Key, inflight'[k] # NoJob
               PROVE  info'[inflight'[k]].known /\ KeyOf[inflight'[k]] = k
    BY DEF KeysOwned, Known
  <2>1. inflight'[k] = inflight[k] /\ ~ \E j \in D : KeyOf[j] = k
    OBVIOUS
  <2>2. inflight[k] \in Job /\ info[inflight[k]].known /\ KeyOf[inflight[k]] = k
    BY <2>1 DEF TypeOK, KeysOwned, Known
  <2>3. inflight[k] \notin D
    BY <2>1, <2>2
  <2> QED
    BY <2>1, <2>2, <2>3
<1>2. KnownJobs' \subseteq KnownJobs
  BY DEF KnownJobs, Known
<1>3. KeyHeld'
  <2> SUFFICES ASSUME NEW j \in Job, info'[j].known, KeyOf[j] # NoKey
               PROVE  Contested(KeyOf[j])' \/ inflight'[KeyOf[j]] = j
    BY DEF KeyHeld, KnownJobs, Known
  <2>1. Contested(KeyOf[j]) => Contested(KeyOf[j])'
    BY DEF Contested
  <2>2. KeyOf[j] \in Key /\ info[j].known
    BY SchedulerConstants
  <2>3. Contested(KeyOf[j]) \/ inflight[KeyOf[j]] = j
    BY <2>2 DEF KeyHeld, KnownJobs, Known
  <2>4. CASE \E d \in D : KeyOf[d] = KeyOf[j]
    <3>1. PICK d \in D : KeyOf[d] = KeyOf[j]
      BY <2>4
    <3>2. d \in Job /\ (Contested(KeyOf[j]) \/ inflight[KeyOf[j]] = d)
      BY <3>1 DEF KeyHeld, KnownJobs
    <3>3. Contested(KeyOf[j]) \/ d = j
      BY <2>3, <3>2
    <3>4. d = j => j \in retried'
      OBVIOUS
    <3> QED
      BY <2>1, <3>3, <3>4 DEF Contested
  <2>5. CASE ~ \E d \in D : KeyOf[d] = KeyOf[j]
    BY <2>1, <2>2, <2>3, <2>5
  <2> QED
    BY <2>4, <2>5
<1>4. KnownSound'
  BY <1>2 DEF KnownSound, Known
<1> QED
  BY <1>1, <1>3, <1>4

LEMMA StartSound == ASSUME SchedulerIInv, Start PROVE SchedulerIInv'
<1>1. /\ loop = "off" /\ running' = TRUE /\ loop' = "top" /\ core' = "up" /\ ending' = ending
      /\ queue' = queue /\ timers' = timers /\ inflight' = inflight /\ info' = info
      /\ dlq' = dlq /\ retried' = retried /\ submitting' = submitting /\ pipe' = pipe
      /\ timeouts' = timeouts /\ atCore' = atCore /\ submitted' = submitted
      /\ replaced' = replaced /\ cancels' = cancels
  BY DEF Start, records, calls, client
<1>2. TypeOK'
  BY <1>1 DEF SchedulerIInv, TypeOK
<1>3. NoJobLost'
  BY <1>1 DEF SchedulerIInv, BeforeStart, NoJobLost, Known
<1>4. KeysOwned' /\ KeyHeld' /\ KnownSound'
  BY <1>1, RecordsKept DEF SchedulerIInv
<1> QED
  BY <1>1, <1>2, <1>3, <1>4 DEF SchedulerIInv, NoLostWakeup, BeforeStart

LEMMA ProcessNextSound ==
    ASSUME TypeOK, HeapInv(queue), queue # << >>, ProcessNext
    PROVE  /\ HeapInv(queue') /\ submitting' \in [Job -> Seq(Nat)]
           /\ \A j \in Job : \/ submitting'[j] # << >>
                             \/ /\ submitting'[j] = submitting[j]
                                /\ j \in Queued(queue) => j \in Queued(queue')
<1> DEFINE first == queue[1].job
<1>1. /\ queue' = Dequeued(queue)
      /\ submitting' = [submitting EXCEPT ![first] = Append(@, info[first].attempt)]
  BY DEF ProcessNext
<1>2. /\ HeapInv(queue') /\ first \in Job
      /\ Queued(queue) = Queued(queue') \cup {first}
  BY <1>1, DequeuedSound
<1> HIDE DEF first
<1>3. submitting \in [Job -> Seq(Nat)] /\ info[first].attempt \in Nat
  BY <1>2, SchedulerConstants DEF TypeOK
<1>4. /\ Append(submitting[first], info[first].attempt) \in Seq(Nat)
      /\ Append(submitting[first], info[first].attempt) # << >>
  BY <1>2, <1>3
<1> QED
  BY <1>1, <1>2, <1>3, <1>4

LEMMA LoopSound ==
    ASSUME SchedulerIInv, LoopTurn \/ LoopWakes PROVE SchedulerIInv'
<1>1. /\ running' = running /\ ending' = ending /\ timers' = timers /\ inflight' = inflight
      /\ info' = info /\ dlq' = dlq /\ retried' = retried /\ pipe' = pipe
      /\ timeouts' = timeouts /\ core' = core /\ atCore' = atCore /\ submitted' = submitted
      /\ replaced' = replaced /\ cancels' = cancels
  BY DEF LoopTurn, LoopWakes, shutdown, records, coreState, client
<1>2. /\ loop # "off" /\ loop' \in {"top", "waiting", "exited"}
      /\ running /\ loop' = "waiting" => queue' = << >>
      /\ \/ queue' = queue /\ submitting' = submitting
         \/ queue # << >> /\ ProcessNext
  <2>1. CASE LoopTurn
    BY <2>1 DEF LoopTurn
  <2>2. CASE LoopWakes
    BY <2>2 DEF LoopWakes
  <2> QED
    BY <2>1, <2>2
<1>3. TypeOK /\ HeapInv(queue)
  BY DEF SchedulerIInv
<1>4. /\ HeapInv(queue') /\ submitting' \in [Job -> Seq(Nat)]
      /\ \A j \in Job : \/ submitting'[j] # << >>
                        \/ /\ submitting'[j] = submitting[j]
                           /\ j \in Queued(queue) => j \in Queued(queue')
  <2>1. CASE queue' = queue /\ submitting' = submitting
    BY <1>3, <2>1 DEF TypeOK
  <2>2. CASE queue # << >> /\ ProcessNext
    BY <1>3, <2>2, ProcessNextSound
  <2> QED
    BY <1>2, <2>1, <2>2
<1>5. TypeOK'
  <2>1. queue' \in Seq(HeapEntry)
    BY <1>4 DEF HeapInv
  <2> QED
    BY <1>1, <1>2, <1>3, <1>4, <2>1 DEF TypeOK
<1>6. NoJobLost'
  <2>1. ASSUME NEW j \in Job, info'[j].known
        PROVE  \/ OnWay(j)'
               \/ /\ info[j].known /\ (j \in Queued(queue) => j \in Queued(queue'))
                  /\ timers'[j] = timers[j] /\ submitting'[j] = submitting[j]
                  /\ pipe'[j] = pipe[j] /\ atCore'[j] = atCore[j]
    BY <1>1, <1>4, <2>1 DEF OnWay
  <2> QED
    BY <1>1, <2>1, NoJobLostKept DEF SchedulerIInv
<1>7. KeysOwned' /\ KeyHeld' /\ KnownSound'
  BY <1>1, RecordsKept DEF SchedulerIInv
<1> QED
  BY <1>1, <1>2, <1>4, <1>5, <1>6, <1>7 DEF SchedulerIInv, NoLostWakeup, BeforeStart

LEMMA ShutdownBeginsSound == ASSUME SchedulerIInv, ShutdownBegins PROVE SchedulerIInv'
<1>1. /\ running /\ running' = FALSE /\ loop' = Notified(loop)
      /\ ending' \in {"draining", "killing"}
      /\ queue' = queue /\ timers' = timers /\ inflight' = inflight /\ info' = info
      /\ dlq' = dlq /\ retried' = retried /\ submitting' = submitting /\ pipe' = pipe
      /\ timeouts' = timeouts /\ core' = core /\ atCore' = atCore /\ submitted' = submitted
      /\ replaced' = replaced /\ cancels' = cancels
  BY DEF ShutdownBegins, records, calls, coreState, client
<1>2. loop # "off" /\ loop' # "off"
  BY <1>1 DEF SchedulerIInv, BeforeStart, Notified
<1>3. TypeOK'
  BY <1>1 DEF SchedulerIInv, TypeOK, Notified
<1>4. KeysOwned' /\ KeyHeld' /\ KnownSound'
  BY <1>1, RecordsKept DEF SchedulerIInv
<1> QED
  BY <1>1, <1>2, <1>3, <1>4 DEF SchedulerIInv, NoLostWakeup, BeforeStart, NoJobLost

LEMMA DrainEndsSound == ASSUME SchedulerIInv, DrainEnds PROVE SchedulerIInv'
<1>1. /\ ending = "draining" /\ ending' = "killing" /\ running' = running /\ loop' = loop
      /\ queue' = queue /\ timers' = timers /\ inflight' = inflight /\ info' = info
      /\ dlq' = dlq /\ retried' = retried /\ submitting' = submitting /\ pipe' = pipe
      /\ timeouts' = timeouts /\ core' = core /\ atCore' = atCore /\ submitted' = submitted
      /\ replaced' = replaced /\ cancels' = cancels
  BY DEF DrainEnds, records, calls, coreState, client
<1>2. loop' # "off"
  BY <1>1 DEF SchedulerIInv, BeforeStart
<1>3. TypeOK'
  BY <1>1 DEF SchedulerIInv, TypeOK
<1>4. NoJobLost'
  BY <1>1, NoJobLostKept DEF SchedulerIInv
<1>5. KeysOwned' /\ KeyHeld' /\ KnownSound'
  BY <1>1, RecordsKept DEF SchedulerIInv
<1> QED
  BY <1>1, <1>2, <1>3, <1>4, <1>5 DEF SchedulerIInv, NoLostWakeup, BeforeStart

LEMMA CoreEndsSound ==
    ASSUME SchedulerIInv, CoreKilled \/ CoreCrashes PROVE SchedulerIInv'
<1>1. /\ running' = running /\ loop' = loop /\ core' = "down"
      /\ queue' = queue /\ timers' = timers /\ inflight' = inflight /\ info' = info
      /\ dlq' = dlq /\ retried' = retried /\ submitting' = submitting
      /\ timeouts' = timeouts /\ submitted' = submitted
      /\ replaced' = replaced /\ cancels' = cancels
      /\ atCore' = [j \in Job |-> "unknown"]
  BY DEF CoreKilled, CoreCrashes, shutdown, records, calls, client
<1>2. ending' \in {ending, "done"} /\ pipe' \in {pipe, [j \in Job |-> << >>]}
  BY DEF CoreKilled, CoreCrashes, shutdown, calls
<1>3. loop # "off"
  BY DEF SchedulerIInv, BeforeStart, CoreKilled, CoreCrashes
<1>4. TypeOK'
  <2>1. pipe' \in [Job -> Seq(Message)]
    <3>1. << >> \in Seq(Message)
      OBVIOUS
    <3>2. [j \in Job |-> << >>] \in [Job -> Seq(Message)]
      BY <3>1
    <3>3. pipe \in [Job -> Seq(Message)]
      BY DEF SchedulerIInv, TypeOK
    <3> QED
      BY <1>2, <3>2, <3>3
  <2> QED
    BY <1>1, <1>2, <2>1 DEF SchedulerIInv, TypeOK
<1>5. KeysOwned' /\ KeyHeld' /\ KnownSound'
  BY <1>1, RecordsKept DEF SchedulerIInv
<1> QED
  BY <1>1, <1>3, <1>4, <1>5 DEF SchedulerIInv, NoLostWakeup, BeforeStart, NoJobLost

LEMMA SubmitSound ==
    ASSUME SchedulerIInv, NEW j \in Job, NEW policy \in Policy, Submit(j, policy)
    PROVE  SchedulerIInv'
<1>1. /\ running' = running /\ ending' = ending /\ timers' = timers /\ dlq' = dlq
      /\ retried' = retried /\ submitting' = submitting /\ pipe' = pipe
      /\ timeouts' = timeouts /\ core' = core /\ atCore' = atCore /\ cancels' = cancels
      /\ j \notin submitted /\ submitted' = submitted \cup {j}
  BY DEF Submit, shutdown, calls, coreState
<1>2. IsFiniteSet(submitted') /\ submitted' \subseteq Job
  BY <1>1, FS_AddElement DEF SchedulerIInv, KnownSound, TypeOK
<1>3. CASE ~Proceeds(j, policy)
  <2>1. /\ inflight' = inflight /\ replaced' = replaced /\ queue' = queue /\ info' = info
        /\ loop' = loop
    BY <1>3 DEF Submit
  <2>2. TypeOK'
    BY <1>1, <1>2, <2>1 DEF SchedulerIInv, TypeOK
  <2>3. NoJobLost'
    BY <1>1, <2>1, NoJobLostKept DEF SchedulerIInv
  <2>4. KeysOwned' /\ KeyHeld' /\ KnownSound'
    BY <1>1, <1>2, <2>1 DEF SchedulerIInv, KeysOwned, KeyHeld, KnownSound, KnownJobs, Known, Contested
  <2> QED
    BY <1>1, <2>1, <2>2, <2>3, <2>4 DEF SchedulerIInv, NoLostWakeup, BeforeStart, Known
<1>4. CASE Proceeds(j, policy)
  <2>1. /\ inflight' = IF KeyOf[j] = NoKey THEN inflight ELSE [inflight EXCEPT ![KeyOf[j]] = j]
        /\ replaced' = IF KeyOf[j] = NoKey THEN replaced
                       ELSE replaced \cup ({inflight[KeyOf[j]]} \ {NoJob})
        /\ queue' = Enqueue(queue, j)
        /\ info' = [info EXCEPT ![j] = [Forgotten EXCEPT !.known = TRUE]]
        /\ loop' = Notified(loop)
    BY <1>4 DEF Submit
  <2>2. HeapInv(queue') /\ Queued(queue') = Queued(queue) \cup {j} /\ queue' \in Seq(HeapEntry)
    BY <2>1, EnqueueSound DEF SchedulerIInv, HeapInv
  <2>3. /\ info' \in [Job -> [known: BOOLEAN, attempt: 0..MaxAttempts - 1, processing: BOOLEAN]]
        /\ info'[j].known /\ ~info'[j].processing
        /\ \A i \in Job : i # j => info'[i] = info[i]
    <3> DEFINE fresh == [Forgotten EXCEPT !.known = TRUE]
               Info == [known: BOOLEAN, attempt: 0..MaxAttempts - 1, processing: BOOLEAN]
    <3>1. Forgotten \in Info /\ Forgotten.processing = FALSE
      BY ForgottenFacts
    <3>2. ASSUME NEW f \in Info
          PROVE  /\ [f EXCEPT !.known = TRUE] \in Info
                 /\ [f EXCEPT !.known = TRUE].known = TRUE
                 /\ [f EXCEPT !.known = TRUE].processing = f.processing
      OBVIOUS
    <3>3. fresh \in Info /\ fresh.known = TRUE /\ fresh.processing = FALSE
      BY <3>1, <3>2
    <3>4. info \in [Job -> Info] /\ info' = [info EXCEPT ![j] = fresh]
      BY <2>1 DEF SchedulerIInv, TypeOK
    <3> HIDE DEF fresh, Info
    <3>5. info' \in [Job -> Info] /\ info'[j] = fresh /\ \A i \in Job : i # j => info'[i] = info[i]
      BY <3>3, <3>4
    <3> QED
      BY <3>3, <3>5 DEF Info
  <2>4. /\ inflight' \in [Key -> Job \cup {NoJob}] /\ replaced' \subseteq Job
        /\ replaced \subseteq replaced'
        /\ KeyOf[j] # NoKey => KeyOf[j] \in Key /\ inflight'[KeyOf[j]] = j
        /\ KeyOf[j] # NoKey /\ inflight[KeyOf[j]] # NoJob => inflight[KeyOf[j]] \in replaced'
        /\ \A k \in Key : k # KeyOf[j] => inflight'[k] = inflight[k]
    BY <2>1, SchedulerConstants DEF SchedulerIInv, TypeOK
  <2>5. TypeOK'
    BY <1>1, <1>2, <2>1, <2>2, <2>3, <2>4 DEF SchedulerIInv, TypeOK, Notified
  <2>6. NoJobLost'
    <3>1. ASSUME NEW i \in Job, info'[i].known
          PROVE  \/ OnWay(i)'
                 \/ /\ info[i].known /\ (i \in Queued(queue) => i \in Queued(queue'))
                    /\ timers'[i] = timers[i] /\ submitting'[i] = submitting[i]
                    /\ pipe'[i] = pipe[i] /\ atCore'[i] = atCore[i]
      BY <1>1, <2>2, <2>3, <3>1 DEF OnWay
    <3> QED
      BY <1>1, <3>1, NoJobLostKept DEF SchedulerIInv
  <2>7. KeysOwned'
    <3> SUFFICES ASSUME NEW k \in Key, inflight'[k] # NoJob
                 PROVE  info'[inflight'[k]].known /\ KeyOf[inflight'[k]] = k
      BY DEF KeysOwned, Known
    <3>1. CASE k = KeyOf[j]
      BY <2>3, <2>4, <3>1, SchedulerConstants
    <3>2. CASE k # KeyOf[j]
      <4>1. inflight'[k] = inflight[k] /\ inflight[k] \in Job
        BY <2>4, <3>2 DEF SchedulerIInv, TypeOK
      <4>2. info[inflight[k]].known /\ KeyOf[inflight[k]] = k
        BY <4>1 DEF SchedulerIInv, KeysOwned, Known
      <4> QED
        BY <2>3, <3>2, <4>1, <4>2
    <3> QED
      BY <3>1, <3>2
  <2>8. KeyHeld'
    <3> SUFFICES ASSUME NEW i \in Job, info'[i].known, KeyOf[i] # NoKey
                 PROVE  Contested(KeyOf[i])' \/ inflight'[KeyOf[i]] = i
      BY DEF KeyHeld, KnownJobs, Known
    <3>1. CASE i = j
      BY <2>4, <3>1
    <3>2. CASE i # j
      <4>1. KeyOf[i] \in Key /\ (Contested(KeyOf[i]) \/ inflight[KeyOf[i]] = i)
        BY <2>3, <3>2, SchedulerConstants DEF SchedulerIInv, KeyHeld, KnownJobs, Known
      <4>2. Contested(KeyOf[i]) => Contested(KeyOf[i])'
        BY <1>1, <2>4 DEF Contested
      <4>3. CASE KeyOf[i] = KeyOf[j] /\ inflight[KeyOf[i]] = i
        <5>1. i \in replaced'
          BY <2>4, <4>3, SchedulerConstants
        <5> QED
          BY <5>1 DEF Contested
      <4>4. CASE KeyOf[i] # KeyOf[j] /\ inflight[KeyOf[i]] = i
        BY <2>4, <4>1, <4>4
      <4> QED
        BY <4>1, <4>2, <4>3, <4>4
    <3> QED
      BY <3>1, <3>2
  <2>9. KnownSound'
    <3>1. \A i \in Job : info'[i].known => i \in submitted'
      BY <1>1, <2>3 DEF SchedulerIInv, KnownSound, KnownJobs, Known
    <3>2. \A i \in Job : info'[i].processing => info'[i].known
      BY <2>3 DEF SchedulerIInv, KnownSound, Known
    <3> QED
      BY <1>2, <3>1, <3>2 DEF KnownSound, KnownJobs, Known
  <2>10. NoLostWakeup'
    BY <2>1 DEF NoLostWakeup, Notified
  <2>11. BeforeStart'
    <3>1. loop' = "off" => loop = "off"
      BY <2>1 DEF Notified
    <3>2. \A i \in Job : i \in Queued(queue) \/ i = j => i \in Queued(queue')
      BY <2>2
    <3> QED
      BY <1>1, <2>3, <3>1, <3>2 DEF SchedulerIInv, BeforeStart, Known
  <2> QED
    BY <2>2, <2>5, <2>6, <2>7, <2>8, <2>9, <2>10, <2>11 DEF SchedulerIInv
<1> QED
  BY <1>3, <1>4

LEMMA CancelAtCoreSound ==
    ASSUME SchedulerIInv, NEW j \in Job, CancelAtCore(j) PROVE SchedulerIInv'
<1>1. /\ running' = running /\ loop' = loop /\ ending' = ending /\ queue' = queue
      /\ timers' = timers /\ inflight' = inflight /\ info' = info /\ dlq' = dlq
      /\ retried' = retried /\ submitting' = submitting /\ timeouts' = timeouts
      /\ core' = core /\ submitted' = submitted /\ replaced' = replaced
  BY DEF CancelAtCore, shutdown, records
<1>2. /\ core = "up" /\ cancels < MaxCancels /\ cancels' = cancels + 1
      /\ atCore' = [atCore EXCEPT ![j] = IF @ = "registered" THEN "unknown" ELSE @]
      /\ pipe' = [pipe EXCEPT ![j] = Append(@, JobCancelled)]
  BY DEF CancelAtCore
<1>3. pipe \in [Job -> Seq(Message)]
  BY DEF SchedulerIInv, TypeOK
<1>4. Append(pipe[j], JobCancelled) \in Seq(Message) /\ HeardIn(Append(pipe[j], JobCancelled))
  BY <1>3, MessageFacts, HeardAppended
<1>5. /\ pipe' \in [Job -> Seq(Message)] /\ HeardIn(pipe'[j])
      /\ \A i \in Job : i # j => pipe'[i] = pipe[i] /\ atCore'[i] = atCore[i]
  BY <1>2, <1>3, <1>4 DEF SchedulerIInv, TypeOK
<1>6. TypeOK'
  BY <1>1, <1>2, <1>5, SchedulerConstants DEF SchedulerIInv, TypeOK
<1>7. NoJobLost'
  <2>1. OnWay(j)'
    BY <1>5 DEF OnWay, HeardIn, Heard
  <2> QED
    BY <1>1, <1>5, <2>1, NoJobLostKept DEF SchedulerIInv
<1>8. KeysOwned' /\ KeyHeld' /\ KnownSound'
  BY <1>1, RecordsKept DEF SchedulerIInv
<1> QED
  BY <1>1, <1>2, <1>6, <1>7, <1>8 DEF SchedulerIInv, NoLostWakeup, BeforeStart

LEMMA AckArrivesSound ==
    ASSUME SchedulerIInv, NEW j \in Job, AckArrives(j) PROVE SchedulerIInv'
<1>1. /\ running' = running /\ loop' = loop /\ ending' = ending /\ queue' = queue
      /\ timers' = timers /\ inflight' = inflight /\ info' = info /\ dlq' = dlq
      /\ retried' = retried /\ timeouts' = timeouts
      /\ core' = core /\ submitted' = submitted /\ replaced' = replaced /\ cancels' = cancels
  BY DEF AckArrives, shutdown, records, client
<1>2. /\ core = "up" /\ submitting[j] # << >>
      /\ submitting' = [submitting EXCEPT ![j] = Tail(@)]
  BY DEF AckArrives
<1>3. /\ pipe \in [Job -> Seq(Message)] /\ submitting \in [Job -> Seq(Nat)]
      /\ atCore \in [Job -> {"unknown", "registered", "running"}]
  BY DEF SchedulerIInv, TypeOK
<1>4. submitting' \in [Job -> Seq(Nat)] /\ \A i \in Job : i # j => submitting'[i] = submitting[i]
  <2>1. Tail(submitting[j]) \in Seq(Nat)
    BY <1>2, <1>3
  <2> QED
    BY <1>2, <1>3, <2>1
<1>5. /\ pipe' \in [Job -> Seq(Message)] /\ atCore' \in [Job -> {"unknown", "registered", "running"}]
      /\ HeardIn(pipe'[j]) \/ atCore'[j] = "running"
      /\ \A i \in Job : i # j => pipe'[i] = pipe[i] /\ atCore'[i] = atCore[i]
  <2>1. CASE /\ atCore' = [atCore EXCEPT ![j] = "running"]
             /\ pipe' = [pipe EXCEPT ![j] = Append(@, Answer("permit_granted"))]
    <3>1. Append(pipe[j], Answer("permit_granted")) \in Seq(Message)
      BY <1>3, MessageFacts, HeardAppended
    <3> QED
      BY <1>3, <2>1, <3>1
  <2>2. CASE /\ atCore' = [atCore EXCEPT ![j] = IF @ = "running" THEN @ ELSE "registered"]
             /\ pipe' = [pipe EXCEPT ![j] = Append(@, Answer("permit_rejected"))]
    <3>1. /\ Append(pipe[j], Answer("permit_rejected")) \in Seq(Message)
          /\ HeardIn(Append(pipe[j], Answer("permit_rejected")))
      BY <1>3, MessageFacts, HeardAppended
    <3> QED
      BY <1>3, <2>2, <3>1
  <2> QED
    BY <2>1, <2>2 DEF AckArrives
<1>6. TypeOK'
  BY <1>1, <1>4, <1>5 DEF SchedulerIInv, TypeOK
<1>7. NoJobLost'
  <2>1. OnWay(j)'
    BY <1>5 DEF OnWay, HeardIn, Heard
  <2> QED
    BY <1>1, <1>4, <1>5, <2>1, NoJobLostKept DEF SchedulerIInv
<1>8. KeysOwned' /\ KeyHeld' /\ KnownSound'
  BY <1>1, RecordsKept DEF SchedulerIInv
<1> QED
  BY <1>1, <1>2, <1>6, <1>7, <1>8 DEF SchedulerIInv, NoLostWakeup, BeforeStart

LEMMA TimerFiresSound ==
    ASSUME SchedulerIInv, NEW j \in Job, TimerFires(j) PROVE SchedulerIInv'
<1>1. /\ running' = running /\ ending' = ending
      /\ inflight' = inflight /\ info' = info /\ dlq' = dlq
      /\ retried' = retried /\ submitting' = submitting /\ timeouts' = timeouts
      /\ core' = core /\ submitted' = submitted /\ replaced' = replaced
      /\ pipe' = pipe /\ atCore' = atCore /\ cancels' = cancels
      /\ timers[j] > 0 /\ timers' = [timers EXCEPT ![j] = @ - 1]
  BY DEF TimerFires, shutdown, records, calls, coreState, client
<1>2. timers' \in [Job -> Nat] /\ \A i \in Job : i # j => timers'[i] = timers[i]
  <2>1. timers \in [Job -> Nat]
    BY DEF SchedulerIInv, TypeOK
  <2> QED
    BY <1>1, <2>1
<1>3. loop # "off" /\ loop' # "off" /\ (loop' = loop \/ loop' = Notified(loop))
  BY <1>1 DEF SchedulerIInv, BeforeStart, TimerFires, Notified
<1>4. CASE running
  <2>1. queue' = Enqueue(queue, j) /\ loop' = Notified(loop)
    BY <1>4 DEF TimerFires
  <2>2. HeapInv(queue') /\ Queued(queue') = Queued(queue) \cup {j} /\ queue' \in Seq(HeapEntry)
    BY <2>1, EnqueueSound DEF SchedulerIInv, HeapInv
  <2>3. TypeOK'
    BY <1>1, <1>2, <2>1, <2>2 DEF SchedulerIInv, TypeOK, Notified
  <2>4. NoJobLost'
    <3>1. OnWay(j)'
      BY <2>2 DEF OnWay
    <3>2. \A i \in Job : i \in Queued(queue) => i \in Queued(queue')
      BY <2>2
    <3> QED
      BY <1>1, <1>2, <3>1, <3>2, NoJobLostKept DEF SchedulerIInv
  <2>5. KeysOwned' /\ KeyHeld' /\ KnownSound'
    BY <1>1, RecordsKept DEF SchedulerIInv
  <2> QED
    BY <1>3, <2>1, <2>2, <2>3, <2>4, <2>5 DEF SchedulerIInv, NoLostWakeup, BeforeStart, Notified
<1>5. CASE ~running
  <2>1. queue' = queue /\ loop' = loop
    BY <1>5 DEF TimerFires
  <2>2. TypeOK'
    BY <1>1, <1>2, <2>1 DEF SchedulerIInv, TypeOK
  <2>3. KeysOwned' /\ KeyHeld' /\ KnownSound'
    BY <1>1, RecordsKept DEF SchedulerIInv
  <2> QED
    BY <1>1, <1>3, <1>5, <2>1, <2>2, <2>3
       DEF SchedulerIInv, NoLostWakeup, BeforeStart, NoJobLost
<1> QED
  BY <1>4, <1>5

\* A call is given up, and a timer will enqueue its job again.
LEMMA GivenUpSound ==
    ASSUME SchedulerIInv, NEW j \in Job,
           running' = running /\ loop' = loop /\ ending' = ending /\ queue' = queue,
           inflight' = inflight /\ info' = info /\ dlq' = dlq /\ retried' = retried,
           core' = core /\ atCore' = atCore /\ submitted' = submitted /\ replaced' = replaced,
           cancels' = cancels, timeouts' \in 0..MaxTimeouts,
           loop # "off", timers' = [timers EXCEPT ![j] = @ + 1],
           submitting' \in [Job -> Seq(Nat)], pipe' \in [Job -> Seq(Message)],
           \A i \in Job : i # j => submitting'[i] = submitting[i] /\ pipe'[i] = pipe[i]
    PROVE  SchedulerIInv'
<1>1. /\ timers' \in [Job -> Nat] /\ timers'[j] > 0
      /\ \A i \in Job : i # j => timers'[i] = timers[i]
  <2>1. timers \in [Job -> Nat]
    BY DEF SchedulerIInv, TypeOK
  <2> QED
    BY <2>1
<1>2. TypeOK'
  BY <1>1 DEF SchedulerIInv, TypeOK
<1>3. NoJobLost'
  <2>1. OnWay(j)'
    BY <1>1 DEF OnWay
  <2> QED
    BY <1>1, <2>1, NoJobLostKept DEF SchedulerIInv
<1>4. KeysOwned' /\ KeyHeld' /\ KnownSound'
  BY RecordsKept DEF SchedulerIInv
<1> QED
  BY <1>2, <1>3, <1>4 DEF SchedulerIInv, NoLostWakeup, BeforeStart

LEMMA CallGivenUpSound ==
    ASSUME SchedulerIInv, NEW j \in Job, SubmitTimesOut(j) \/ CallFails(j)
    PROVE  SchedulerIInv'
<1>1. /\ running' = running /\ loop' = loop /\ ending' = ending /\ queue' = queue
      /\ inflight' = inflight /\ info' = info /\ dlq' = dlq /\ retried' = retried
      /\ core' = core /\ atCore' = atCore /\ submitted' = submitted /\ replaced' = replaced
      /\ cancels' = cancels /\ pipe' = pipe
      /\ submitting[j] # << >> /\ submitting' = [submitting EXCEPT ![j] = Tail(@)]
      /\ timers' = [timers EXCEPT ![j] = @ + 1]
      /\ \/ timeouts < MaxTimeouts /\ timeouts' = timeouts + 1
         \/ timeouts' = timeouts
  BY DEF SubmitTimesOut, CallFails, SetTimer, shutdown, records, coreState, client
<1>2. timeouts' \in 0..MaxTimeouts /\ pipe' \in [Job -> Seq(Message)]
      /\ submitting \in [Job -> Seq(Nat)]
  <2>1. timeouts \in 0..MaxTimeouts /\ pipe \in [Job -> Seq(Message)]
        /\ submitting \in [Job -> Seq(Nat)]
    BY DEF SchedulerIInv, TypeOK
  <2> QED
    BY <1>1, <2>1, SchedulerConstants
<1>3. submitting' \in [Job -> Seq(Nat)] /\ \A i \in Job : i # j => submitting'[i] = submitting[i]
  <2>1. Tail(submitting[j]) \in Seq(Nat)
    BY <1>1, <1>2
  <2> QED
    BY <1>1, <1>2, <2>1
<1>4. loop # "off"
  BY <1>1 DEF SchedulerIInv, BeforeStart
<1> QED
  BY <1>1, <1>2, <1>3, <1>4, GivenUpSound

LEMMA RequestTimesOutSound ==
    ASSUME SchedulerIInv, NEW j \in Job, NEW i \in DOMAIN pipe[j], RequestTimesOut(j, i)
    PROVE  SchedulerIInv'
<1>1. /\ running' = running /\ loop' = loop /\ ending' = ending /\ queue' = queue
      /\ inflight' = inflight /\ info' = info /\ dlq' = dlq /\ retried' = retried
      /\ core' = core /\ atCore' = atCore /\ submitted' = submitted /\ replaced' = replaced
      /\ cancels' = cancels /\ submitting' = submitting
      /\ "late" \in DOMAIN pipe[j][i] /\ timeouts < MaxTimeouts /\ timeouts' = timeouts + 1
      /\ timers' = [timers EXCEPT ![j] = @ + 1]
      /\ pipe' = [pipe EXCEPT ![j][i].late = TRUE]
  BY DEF RequestTimesOut, SetTimer, shutdown, records, coreState, client
<1>2. /\ timeouts' \in 0..MaxTimeouts /\ submitting' \in [Job -> Seq(Nat)]
      /\ pipe \in [Job -> Seq(Message)] /\ pipe[j] \in Seq(Message) /\ pipe[j][i] \in Message
  BY <1>1, SchedulerConstants DEF SchedulerIInv, TypeOK
<1>3. [pipe[j][i] EXCEPT !.late = TRUE] \in Message
  BY <1>1, <1>2, LateFacts
<1>4. pipe' \in [Job -> Seq(Message)] /\ \A k \in Job : k # j => pipe'[k] = pipe[k]
  <2> DEFINE late == [pipe[j][i] EXCEPT !.late = TRUE]
             new == [pipe[j] EXCEPT ![i] = late]
  <2>1. late \in Message
    BY <1>3
  <2>2. pipe' = [pipe EXCEPT ![j] = new]
    BY <1>1, <1>2
  <2> HIDE DEF late
  <2>3. new \in Seq(Message)
    BY <1>2, <2>1
  <2> HIDE DEF new
  <2> QED
    BY <1>2, <2>2, <2>3
<1>5. loop # "off"
  <2>1. pipe[j] # << >>
    OBVIOUS
  <2> QED
    BY <2>1 DEF SchedulerIInv, BeforeStart
<1> QED
  BY <1>1, <1>2, <1>4, <1>5, GivenUpSound

LEMMA CoreFinishesSound ==
    ASSUME SchedulerIInv, NEW j \in Job, NEW how \in Outcome, CoreFinishes(j, how)
    PROVE  SchedulerIInv'
<1>1. /\ running' = running /\ loop' = loop /\ ending' = ending /\ queue' = queue
      /\ timers' = timers /\ inflight' = inflight /\ info' = info /\ dlq' = dlq
      /\ retried' = retried /\ submitting' = submitting /\ timeouts' = timeouts
      /\ core' = core /\ submitted' = submitted /\ replaced' = replaced /\ cancels' = cancels
      /\ core = "up" /\ atCore' = [atCore EXCEPT ![j] = "unknown"]
      /\ pipe' = [pipe EXCEPT ![j] = Append(@, Completed(how))]
  BY DEF CoreFinishes, shutdown, records, client
<1>2. pipe \in [Job -> Seq(Message)]
  BY DEF SchedulerIInv, TypeOK
<1>3. /\ Append(pipe[j], Completed(how)) \in Seq(Message)
      /\ HeardIn(Append(pipe[j], Completed(how)))
  BY <1>2, MessageFacts, HeardAppended
<1>4. /\ pipe' \in [Job -> Seq(Message)] /\ HeardIn(pipe'[j])
      /\ \A i \in Job : i # j => pipe'[i] = pipe[i] /\ atCore'[i] = atCore[i]
  BY <1>1, <1>2, <1>3 DEF SchedulerIInv, TypeOK
<1>5. TypeOK'
  BY <1>1, <1>4 DEF SchedulerIInv, TypeOK
<1>6. NoJobLost'
  <2>1. OnWay(j)'
    BY <1>4 DEF OnWay, HeardIn, Heard
  <2> QED
    BY <1>1, <1>4, <2>1, NoJobLostKept DEF SchedulerIInv
<1>7. KeysOwned' /\ KeyHeld' /\ KnownSound'
  BY <1>1, RecordsKept DEF SchedulerIInv
<1> QED
  BY <1>1, <1>5, <1>6, <1>7 DEF SchedulerIInv, NoLostWakeup, BeforeStart

LEMMA HandlesFacts ==
    ASSUME SchedulerIInv, NEW j \in Job, NEW type, Handles(j, type)
    PROVE  /\ running' = running /\ loop' = loop /\ ending' = ending /\ queue' = queue
           /\ submitting' = submitting /\ timeouts' = timeouts /\ core' = core
           /\ atCore' = atCore /\ submitted' = submitted /\ replaced' = replaced
           /\ cancels' = cancels /\ loop # "off"
           /\ pipe' \in [Job -> Seq(Message)] /\ \A i \in Job : i # j => pipe'[i] = pipe[i]
           /\ Head(pipe[j]) \in Message /\ Head(pipe[j]).type = type
           /\ HeardIn(pipe[j]) /\ ~Heard(Head(pipe[j])) => HeardIn(pipe'[j])
<1>1. /\ running' = running /\ loop' = loop /\ ending' = ending /\ queue' = queue
      /\ submitting' = submitting /\ timeouts' = timeouts /\ core' = core
      /\ atCore' = atCore /\ submitted' = submitted /\ replaced' = replaced
      /\ cancels' = cancels /\ pipe[j] # << >> /\ Head(pipe[j]).type = type
      /\ pipe' = [pipe EXCEPT ![j] = Tail(@)]
  BY DEF Handles, shutdown, coreState, client
<1>2. loop # "off"
  BY <1>1 DEF SchedulerIInv, BeforeStart
<1>3. pipe \in [Job -> Seq(Message)]
  BY DEF SchedulerIInv, TypeOK
<1>4. /\ Tail(pipe[j]) \in Seq(Message) /\ Head(pipe[j]) \in Message
      /\ HeardIn(pipe[j]) /\ ~Heard(Head(pipe[j])) => HeardIn(Tail(pipe[j]))
  BY <1>1, <1>3, HeardTail
<1>5. /\ pipe' \in [Job -> Seq(Message)] /\ pipe'[j] = Tail(pipe[j])
      /\ \A i \in Job : i # j => pipe'[i] = pipe[i]
  BY <1>1, <1>3, <1>4
<1> QED
  BY <1>1, <1>2, <1>4, <1>5

\* A message that nobody waits for is handled and the records stay.
LEMMA UnheardSound ==
    ASSUME SchedulerIInv, NEW j \in Job, NEW type, Handles(j, type), ~Heard(Head(pipe[j])),
           inflight' = inflight /\ dlq' = dlq /\ retried' = retried /\ timers' = timers,
           info' \in [Job -> [known: BOOLEAN, attempt: 0..MaxAttempts - 1, processing: BOOLEAN]],
           \A i \in Job : info'[i].known = info[i].known
                          /\ (info'[i].processing => info[i].processing \/ info[i].known)
    PROVE  SchedulerIInv'
<1>1. TypeOK'
  BY HandlesFacts DEF SchedulerIInv, TypeOK
<1>2. NoJobLost'
  <2>1. OnWay(j) => OnWay(j)'
    BY HandlesFacts DEF OnWay, HeardIn, Heard
  <2> QED
    BY <2>1, HandlesFacts, NoJobLostKept DEF SchedulerIInv
<1>3. KeysOwned' /\ KeyHeld' /\ KnownSound'
  BY HandlesFacts, RecordsKept DEF SchedulerIInv
<1> QED
  BY <1>1, <1>2, <1>3, HandlesFacts DEF SchedulerIInv, NoLostWakeup, BeforeStart

LEMMA InfoFacts ==
    ASSUME TypeOK, NEW j \in Job, NEW b \in BOOLEAN,
           info' = [info EXCEPT ![j].processing = b]
    PROVE  /\ info' \in [Job -> [known: BOOLEAN, attempt: 0..MaxAttempts - 1, processing: BOOLEAN]]
           /\ info'[j].processing = b /\ \A i \in Job : info'[i].known = info[i].known
           /\ \A i \in Job : i # j => info'[i] = info[i]
<1> DEFINE Info == [known: BOOLEAN, attempt: 0..MaxAttempts - 1, processing: BOOLEAN]
           new == [info[j] EXCEPT !.processing = b]
<1>1. info \in [Job -> Info] /\ info' = [info EXCEPT ![j] = new]
  BY DEF TypeOK
<1>2. ASSUME NEW f \in Info
      PROVE  /\ [f EXCEPT !.processing = b] \in Info
             /\ [f EXCEPT !.processing = b].processing = b
             /\ [f EXCEPT !.processing = b].known = f.known
  OBVIOUS
<1>3. new \in Info /\ new.processing = b /\ new.known = info[j].known
  BY <1>1, <1>2
<1> HIDE DEF new, Info
<1>4. /\ info' \in [Job -> Info] /\ info'[j] = new
      /\ \A i \in Job : i # j => info'[i] = info[i]
  BY <1>1, <1>3
<1> QED
  BY <1>3, <1>4 DEF Info

LEMMA GrantArrivesSound ==
    ASSUME SchedulerIInv, NEW j \in Job, GrantArrives(j) PROVE SchedulerIInv'
<1>1. /\ Handles(j, "permit_granted")
      /\ inflight' = inflight /\ dlq' = dlq /\ retried' = retried /\ timers' = timers
  BY DEF GrantArrives
<1>2. ~Heard(Head(pipe[j]))
  BY <1>1, HandlesFacts DEF Heard
<1>3. /\ info' \in [Job -> [known: BOOLEAN, attempt: 0..MaxAttempts - 1, processing: BOOLEAN]]
      /\ \A i \in Job : info'[i].known = info[i].known
                        /\ (info'[i].processing => info[i].processing \/ info[i].known)
  <2>1. TypeOK
    BY DEF SchedulerIInv
  <2>2. CASE info' = info
    BY <2>1, <2>2 DEF TypeOK
  <2>3. CASE info[j].known /\ info' = [info EXCEPT ![j].processing = TRUE]
    BY <2>1, <2>3, InfoFacts
  <2> QED
    BY <2>2, <2>3 DEF GrantArrives, Known
<1> QED
  BY <1>1, <1>2, <1>3, UnheardSound

LEMMA RejectionArrivesSound ==
    ASSUME SchedulerIInv, NEW j \in Job, RejectionArrives(j) PROVE SchedulerIInv'
<1>1. /\ Handles(j, "permit_rejected")
      /\ inflight' = inflight /\ dlq' = dlq /\ retried' = retried
  BY DEF RejectionArrives
<1>2. TypeOK
  BY DEF SchedulerIInv
<1>3. CASE Head(pipe[j]).late
  <2>1. info' = info /\ timers' = timers /\ ~Heard(Head(pipe[j]))
    BY <1>1, <1>3, HandlesFacts DEF RejectionArrives, Heard
  <2> QED
    BY <1>1, <1>2, <2>1, UnheardSound DEF TypeOK
<1>4. CASE ~Head(pipe[j]).late
  <2>1. /\ info' = [info EXCEPT ![j].processing = FALSE]
        /\ timers' = [timers EXCEPT ![j] = @ + 1]
    BY <1>4 DEF RejectionArrives, SetTimer
  <2>2. /\ info' \in [Job -> [known: BOOLEAN, attempt: 0..MaxAttempts - 1, processing: BOOLEAN]]
        /\ ~info'[j].processing /\ \A i \in Job : info'[i].known = info[i].known
        /\ \A i \in Job : i # j => info'[i] = info[i]
    BY <1>2, <2>1, InfoFacts
  <2>3. /\ timers' \in [Job -> Nat] /\ timers'[j] > 0
        /\ \A i \in Job : i # j => timers'[i] = timers[i]
    <3>1. timers \in [Job -> Nat]
      BY <1>2 DEF TypeOK
    <3> QED
      BY <2>1, <3>1
  <2>4. TypeOK'
    BY <1>1, <1>2, <2>2, <2>3, HandlesFacts DEF TypeOK
  <2>5. NoJobLost'
    <3>1. OnWay(j)'
      BY <2>3 DEF OnWay
    <3> QED
      BY <1>1, <2>2, <2>3, <3>1, HandlesFacts, NoJobLostKept DEF SchedulerIInv
  <2>6. KeysOwned' /\ KeyHeld' /\ KnownSound'
    <3>1. \A i \in Job : info'[i].known = info[i].known
                         /\ (info'[i].processing => info[i].processing \/ info[i].known)
      BY <2>2
    <3> QED
      BY <1>1, <3>1, HandlesFacts, RecordsKept DEF SchedulerIInv
  <2> QED
    BY <1>1, <2>4, <2>5, <2>6, HandlesFacts DEF SchedulerIInv, NoLostWakeup, BeforeStart
<1> QED
  BY <1>3, <1>4

LEMMA PushedFacts ==
    ASSUME NEW letters \in Seq(Job), Len(letters) <= MaxDlq, NEW j \in Job
    PROVE  Pushed(letters, j) \in Seq(Job) /\ Len(Pushed(letters, j)) <= MaxDlq
<1>1. MaxDlq \in Nat /\ MaxDlq >= 1 /\ Len(letters) \in Nat
  BY SchedulerConstants
<1>2. CASE Len(letters) >= MaxDlq
  <2>1. letters # << >>
    BY <1>1, <1>2
  <2>2. Tail(letters) \in Seq(Job) /\ Len(Tail(letters)) = Len(letters) - 1
    BY <2>1, TailFacts
  <2>3. Pushed(letters, j) = Append(Tail(letters), j)
    BY <1>2 DEF Pushed
  <2> QED
    BY <1>1, <2>2, <2>3, AppendedFacts
<1>3. CASE ~(Len(letters) >= MaxDlq)
  <2>1. Pushed(letters, j) = Append(letters, j)
    BY <1>3 DEF Pushed
  <2> QED
    BY <1>1, <1>3, <2>1, AppendedFacts
<1> QED
  BY <1>2, <1>3

LEMMA LastOfFacts ==
    ASSUME NEW seq \in Seq(Job), NEW n \in Nat
    PROVE  LastOf(seq, n) \in Seq(Job) /\ Len(LastOf(seq, n)) <= n
<1>1. Len(seq) \in Nat /\ \A i \in 1..Len(seq) : seq[i] \in Job
  OBVIOUS
<1>2. CASE Len(seq) <= n
  BY <1>2 DEF LastOf
<1>3. CASE ~(Len(seq) <= n)
  <2> DEFINE m == Len(seq) - n + 1
             l == Len(seq)
  <2>1. m \in Int /\ l \in Int /\ m >= 1 /\ l - m + 1 = n
    BY <1>1, <1>3
  <2>2. \A i \in m..l : seq[i] \in Job
    BY <1>1, <2>1
  <2>3. LastOf(seq, n) = SubSeq(seq, m, l)
    BY <1>3 DEF LastOf
  <2> HIDE DEF m, l
  <2>4. /\ SubSeq(seq, m, l) \in Seq(Job)
        /\ Len(SubSeq(seq, m, l)) = IF m <= l THEN l - m + 1 ELSE 0
    BY <2>1, <2>2, SubSeqProperties
  <2> QED
    BY <2>1, <2>3, <2>4
<1> QED
  BY <1>2, <1>3

LEMMA DeregisteredFacts ==
    ASSUME TypeOK, NEW j \in Job
    PROVE  Deregistered(j) = [k \in Key |-> IF \E d \in {j} : KeyOf[d] = k
                                            THEN NoJob ELSE inflight[k]]
<1>1. inflight \in [Key -> Job \cup {NoJob}]
  BY DEF TypeOK
<1>2. CASE KeyOf[j] = NoKey
  <2>1. \A k \in Key : ~ \E d \in {j} : KeyOf[d] = k
    BY <1>2, SchedulerConstants
  <2>2. Deregistered(j) = inflight
    BY <1>2 DEF Deregistered
  <2> QED
    BY <1>1, <2>1, <2>2
<1>3. CASE KeyOf[j] # NoKey
  <2>1. KeyOf[j] \in Key
    BY <1>3, SchedulerConstants
  <2>2. Deregistered(j) = [inflight EXCEPT ![KeyOf[j]] = NoJob]
    BY <1>3 DEF Deregistered
  <2> QED
    BY <1>1, <2>1, <2>2
<1> QED
  BY <1>2, <1>3

\* A job that is known ends, or is given another attempt and a timer.
LEMMA EndedSound ==
    ASSUME SchedulerIInv, NEW j \in Job, NEW type, Handles(j, type), info[j].known,
           inflight' = Deregistered(j), dlq' \in Seq(Job), Len(dlq') <= MaxDlq,
           info' \in [Job -> [known: BOOLEAN, attempt: 0..MaxAttempts - 1, processing: BOOLEAN]],
           \A i \in Job : i # j => info'[i] = info[i],
           ~info'[j].processing,
           \/ ~info'[j].known /\ timers' = timers /\ retried' = retried
           \/ timers' = [timers EXCEPT ![j] = @ + 1] /\ retried' = retried \cup {j}
    PROVE  SchedulerIInv'
<1>1. /\ timers' \in [Job -> Nat] /\ retried' \subseteq Job /\ retried \subseteq retried'
      /\ info'[j].known => timers'[j] > 0 /\ j \in retried'
      /\ \A i \in Job : i # j => timers'[i] = timers[i]
  <2>1. timers \in [Job -> Nat] /\ retried \subseteq Job
    BY DEF SchedulerIInv, TypeOK
  <2> QED
    BY <2>1
<1>2. TypeOK /\ {j} \subseteq KnownJobs
  BY DEF SchedulerIInv, KnownJobs, Known
<1>3. inflight' = [k \in Key |-> IF \E d \in {j} : KeyOf[d] = k THEN NoJob ELSE inflight[k]]
  BY <1>2, DeregisteredFacts
<1>4. TypeOK'
  <2>1. inflight' \in [Key -> Job \cup {NoJob}]
    BY <1>2, <1>3 DEF TypeOK
  <2> QED
    BY <1>1, <1>2, <2>1, HandlesFacts DEF TypeOK
<1>5. NoJobLost'
  <2>1. info'[j].known => OnWay(j)'
    BY <1>1 DEF OnWay
  <2> QED
    BY <1>1, <2>1, HandlesFacts, NoJobLostKept DEF SchedulerIInv
<1>6. KeysOwned' /\ KeyHeld' /\ KnownSound'
  <2>1. \A i \in Job : /\ info'[i].known => info[i].known /\ (i \in {j} => i \in retried')
                       /\ i \notin {j} => info'[i].known = info[i].known
                       /\ info'[i].processing => info'[i].known
    BY <1>1 DEF SchedulerIInv, KnownSound, Known
  <2> QED
    BY <1>1, <1>2, <1>3, <2>1, HandlesFacts, RecordsForgotten DEF SchedulerIInv
<1> QED
  BY <1>4, <1>5, <1>6, HandlesFacts DEF SchedulerIInv, NoLostWakeup, BeforeStart

LEMMA ForgetFacts ==
    ASSUME TypeOK, NEW j \in Job, Forget(j)
    PROVE  /\ info' \in [Job -> [known: BOOLEAN, attempt: 0..MaxAttempts - 1, processing: BOOLEAN]]
           /\ ~info'[j].known /\ ~info'[j].processing
           /\ \A i \in Job : i # j => info'[i] = info[i]
<1>1. info' = [info EXCEPT ![j] = Forgotten]
  BY DEF Forget
<1>2. /\ Forgotten \in [known: BOOLEAN, attempt: 0..MaxAttempts - 1, processing: BOOLEAN]
      /\ Forgotten.known = FALSE /\ Forgotten.processing = FALSE
  BY ForgottenFacts
<1> QED
  BY <1>1, <1>2 DEF TypeOK

LEMMA CancellationArrivesSound ==
    ASSUME SchedulerIInv, NEW j \in Job, CancellationArrives(j) PROVE SchedulerIInv'
<1>1. /\ Handles(j, "job_cancelled")
      /\ dlq' = dlq /\ retried' = retried /\ timers' = timers
  BY DEF CancellationArrives
<1>2. TypeOK
  BY DEF SchedulerIInv
<1>3. CASE info[j].known
  <2>1. inflight' = Deregistered(j) /\ Forget(j)
    BY <1>3 DEF CancellationArrives, Known
  <2>2. /\ info' \in [Job -> [known: BOOLEAN, attempt: 0..MaxAttempts - 1, processing: BOOLEAN]]
        /\ ~info'[j].known /\ ~info'[j].processing
        /\ \A i \in Job : i # j => info'[i] = info[i]
    BY <1>2, <2>1, ForgetFacts
  <2>3. dlq' \in Seq(Job) /\ Len(dlq') <= MaxDlq
    BY <1>1, <1>2 DEF TypeOK
  <2> QED
    BY <1>1, <1>3, <2>1, <2>2, <2>3, EndedSound
<1>4. CASE ~info[j].known
  <2>1. inflight' = inflight /\ info' = info
    BY <1>4 DEF CancellationArrives, Known
  <2>2. TypeOK'
    BY <1>1, <1>2, <2>1, HandlesFacts DEF TypeOK
  <2>3. NoJobLost'
    BY <1>1, <1>4, <2>1, HandlesFacts, NoJobLostKept DEF SchedulerIInv
  <2>4. KeysOwned' /\ KeyHeld' /\ KnownSound'
    BY <1>1, <2>1, HandlesFacts, RecordsKept DEF SchedulerIInv
  <2> QED
    BY <1>1, <1>4, <2>1, <2>2, <2>3, <2>4, HandlesFacts
       DEF SchedulerIInv, NoLostWakeup, BeforeStart, Known
<1> QED
  BY <1>3, <1>4

LEMMA RetryFacts ==
    ASSUME TypeOK, NEW j \in Job, info[j].attempt < MaxAttempts - 1,
           info' = [info EXCEPT ![j].processing = FALSE, ![j].attempt = @ + 1]
    PROVE  /\ info' \in [Job -> [known: BOOLEAN, attempt: 0..MaxAttempts - 1, processing: BOOLEAN]]
           /\ ~info'[j].processing /\ \A i \in Job : i # j => info'[i] = info[i]
<1> DEFINE Info == [known: BOOLEAN, attempt: 0..MaxAttempts - 1, processing: BOOLEAN]
           idle == [info[j] EXCEPT !.processing = FALSE]
           new == [idle EXCEPT !.attempt = info[j].attempt + 1]
<1>1. info \in [Job -> Info]
  BY DEF TypeOK
<1>2. info[j].attempt + 1 \in 0..MaxAttempts - 1
  BY <1>1, SchedulerConstants
<1>3. ASSUME NEW f \in Info
      PROVE  [f EXCEPT !.processing = FALSE] \in Info /\ [f EXCEPT !.processing = FALSE].processing = FALSE
  OBVIOUS
<1>4. ASSUME NEW f \in Info, NEW a \in 0..MaxAttempts - 1
      PROVE  [f EXCEPT !.attempt = a] \in Info /\ [f EXCEPT !.attempt = a].processing = f.processing
  OBVIOUS
<1>5. idle \in Info /\ idle.processing = FALSE
  BY <1>1, <1>3
<1>6. new \in Info /\ new.processing = FALSE
  BY <1>2, <1>4, <1>5
<1>7. info' = [info EXCEPT ![j] = new]
  BY <1>1
<1> HIDE DEF new, Info, idle
<1>8. info' \in [Job -> Info] /\ info'[j] = new /\ \A i \in Job : i # j => info'[i] = info[i]
  BY <1>1, <1>6, <1>7
<1> QED
  BY <1>6, <1>8 DEF Info

LEMMA CompletionArrivesSound ==
    ASSUME SchedulerIInv, NEW j \in Job, CompletionArrives(j) PROVE SchedulerIInv'
<1> DEFINE how == Head(pipe[j]).outcome
<1>1. Handles(j, "job_completed")
  BY DEF CompletionArrives
<1>2. TypeOK
  BY DEF SchedulerIInv
<1>3. CASE ~info[j].known
  <2>1. inflight' = inflight /\ info' = info /\ dlq' = dlq /\ retried' = retried /\ timers' = timers
    BY <1>3 DEF CompletionArrives, Known, records
  <2>2. TypeOK'
    BY <1>1, <1>2, <2>1, HandlesFacts DEF TypeOK
  <2>3. NoJobLost'
    BY <1>1, <1>3, <2>1, HandlesFacts, NoJobLostKept DEF SchedulerIInv
  <2>4. KeysOwned' /\ KeyHeld' /\ KnownSound'
    BY <1>1, <2>1, HandlesFacts, RecordsKept DEF SchedulerIInv
  <2> QED
    BY <1>1, <1>3, <2>1, <2>2, <2>3, <2>4, HandlesFacts
       DEF SchedulerIInv, NoLostWakeup, BeforeStart, Known
<1>4. CASE info[j].known
  <2>1. /\ inflight' = Deregistered(j)
        /\ IF how = "over"
           THEN Forget(j) /\ dlq' = dlq /\ timers' = timers /\ retried' = retried
           ELSE IF ShouldRetry(how, info[j].attempt)
           THEN /\ info' = [info EXCEPT ![j].processing = FALSE, ![j].attempt = @ + 1]
                /\ timers' = [timers EXCEPT ![j] = @ + 1]
                /\ retried' = retried \cup {j} /\ dlq' = dlq
           ELSE dlq' = Pushed(dlq, j) /\ Forget(j) /\ timers' = timers /\ retried' = retried
    BY <1>4 DEF CompletionArrives, Known, SetTimer
  <2> HIDE DEF how
  <2>2. dlq' \in Seq(Job) /\ Len(dlq') <= MaxDlq
    <3>1. dlq \in Seq(Job) /\ Len(dlq) <= MaxDlq
      BY <1>2 DEF TypeOK
    <3>2. Pushed(dlq, j) \in Seq(Job) /\ Len(Pushed(dlq, j)) <= MaxDlq
      BY <3>1, PushedFacts
    <3>3. dlq' \in {dlq, Pushed(dlq, j)}
      BY <2>1
    <3> QED
      BY <3>1, <3>2, <3>3
  <2>3. CASE Forget(j) /\ timers' = timers /\ retried' = retried
    <3>1. /\ info' \in [Job -> [known: BOOLEAN, attempt: 0..MaxAttempts - 1, processing: BOOLEAN]]
          /\ ~info'[j].known /\ ~info'[j].processing
          /\ \A i \in Job : i # j => info'[i] = info[i]
      BY <1>2, <2>3, ForgetFacts
    <3> QED
      BY <1>1, <1>4, <2>1, <2>2, <2>3, <3>1, EndedSound
  <2>4. CASE /\ ShouldRetry(how, info[j].attempt)
             /\ info' = [info EXCEPT ![j].processing = FALSE, ![j].attempt = @ + 1]
             /\ timers' = [timers EXCEPT ![j] = @ + 1] /\ retried' = retried \cup {j}
    <3>1. info[j].attempt < MaxAttempts - 1
      BY <2>4 DEF ShouldRetry
    <3>2. /\ info' \in [Job -> [known: BOOLEAN, attempt: 0..MaxAttempts - 1, processing: BOOLEAN]]
          /\ ~info'[j].processing /\ \A i \in Job : i # j => info'[i] = info[i]
      BY <1>2, <2>4, <3>1, RetryFacts
    <3> QED
      BY <1>1, <1>4, <2>1, <2>2, <2>4, <3>2, EndedSound
  <2> QED
    BY <2>1, <2>3, <2>4
<1> QED
  BY <1>3, <1>4

LEMMA DrainTimesOutSound == ASSUME SchedulerIInv, DrainTimesOut PROVE SchedulerIInv'
<1>1. /\ ending = "draining" /\ ending' = "killing" /\ running' = running /\ loop' = loop
      /\ queue' = queue /\ timers' = timers /\ retried' = retried
      /\ submitting' = submitting /\ pipe' = pipe /\ timeouts' = timeouts
      /\ core' = core /\ atCore' = atCore /\ submitted' = submitted
      /\ replaced' = replaced /\ cancels' = cancels
      /\ dlq' = LastOf(dlq \o SetToSeq(InFlightJobs), MaxDlq)
      /\ inflight' = [k \in Key |-> IF \E d \in InFlightJobs : KeyOf[d] = k
                                    THEN NoJob ELSE inflight[k]]
      /\ info' = [j \in Job |-> IF j \in InFlightJobs THEN Forgotten ELSE info[j]]
  BY DEF DrainTimesOut, calls, coreState, client
<1>2. TypeOK /\ loop # "off"
  BY <1>1 DEF SchedulerIInv, BeforeStart
<1>3. InFlightJobs \subseteq KnownJobs /\ InFlightJobs \subseteq Job
  BY DEF SchedulerIInv, KnownSound, KnownJobs, InFlightJobs
<1>4. IsFiniteSet(InFlightJobs)
  BY <1>3, FS_Subset DEF SchedulerIInv, KnownSound
<1>5. dlq' \in Seq(Job) /\ Len(dlq') <= MaxDlq
  <2>1. SetToSeq(InFlightJobs) \in Seq(InFlightJobs)
    BY <1>4, SetToSeqFacts
  <2>2. SetToSeq(InFlightJobs) \in Seq(Job)
    BY <1>3, <2>1
  <2>3. dlq \o SetToSeq(InFlightJobs) \in Seq(Job)
    BY <1>2, <2>2 DEF TypeOK
  <2> QED
    BY <1>1, <2>3, LastOfFacts, SchedulerConstants
<1>6. /\ info' \in [Job -> [known: BOOLEAN, attempt: 0..MaxAttempts - 1, processing: BOOLEAN]]
      /\ \A j \in Job : j \in InFlightJobs => ~info'[j].known /\ ~info'[j].processing
      /\ \A j \in Job : j \notin InFlightJobs => info'[j] = info[j]
  BY <1>1, <1>2, ForgottenFacts DEF TypeOK
<1>7. TypeOK'
  <2>1. inflight' \in [Key -> Job \cup {NoJob}]
    BY <1>1, <1>2 DEF TypeOK
  <2> QED
    BY <1>1, <1>2, <1>5, <1>6, <2>1 DEF TypeOK
<1>8. NoJobLost'
  <2>1. \A j \in Job : info'[j].known => info[j].known
    BY <1>6
  <2> QED
    BY <1>1, <2>1, NoJobLostKept DEF SchedulerIInv
<1>9. KeysOwned' /\ KeyHeld' /\ KnownSound'
  <2>1. \A j \in Job : /\ info'[j].known => info[j].known /\ (j \in InFlightJobs => j \in retried')
                       /\ j \notin InFlightJobs => info'[j].known = info[j].known
                       /\ info'[j].processing => info'[j].known
    BY <1>6 DEF SchedulerIInv, KnownSound, Known
  <2> QED
    BY <1>1, <1>2, <1>3, <2>1, RecordsForgotten DEF SchedulerIInv
<1> QED
  BY <1>1, <1>2, <1>7, <1>8, <1>9 DEF SchedulerIInv, NoLostWakeup, BeforeStart

LEMMA SchedulerStill == ASSUME SchedulerIInv, UNCHANGED vars PROVE SchedulerIInv'
<1>1. /\ running' = running /\ loop' = loop /\ ending' = ending /\ queue' = queue
      /\ timers' = timers /\ inflight' = inflight /\ info' = info /\ dlq' = dlq
      /\ retried' = retried /\ submitting' = submitting /\ pipe' = pipe
      /\ timeouts' = timeouts /\ core' = core /\ atCore' = atCore /\ submitted' = submitted
      /\ replaced' = replaced /\ cancels' = cancels
  <2>1. /\ shutdown' = shutdown /\ records' = records /\ calls' = calls
        /\ coreState' = coreState /\ client' = client
        /\ loop' = loop /\ queue' = queue /\ timers' = timers
    BY DEF vars
  <2> QED
    BY <2>1 DEF shutdown, records, calls, coreState, client
<1>2. TypeOK'
  BY <1>1 DEF SchedulerIInv, TypeOK
<1>3. NoJobLost'
  BY <1>1, NoJobLostKept DEF SchedulerIInv
<1>4. KeysOwned' /\ KeyHeld' /\ KnownSound'
  BY <1>1, RecordsKept DEF SchedulerIInv
<1> QED
  BY <1>1, <1>2, <1>3, <1>4 DEF SchedulerIInv, NoLostWakeup, BeforeStart, Known

LEMMA SchedulerInitial == Init => SchedulerIInv
<1> SUFFICES ASSUME Init PROVE SchedulerIInv
  OBVIOUS
<1>1. \A j \in Job : info[j] = Forgotten /\ ~info[j].known /\ ~info[j].processing
  BY ForgottenFacts DEF Init
<1>2. TypeOK
  <2>1. << >> \in Seq(HeapEntry) /\ << >> \in Seq(Nat) /\ << >> \in Seq(Message) /\ << >> \in Seq(Job)
        /\ Len(<< >>) = 0
    OBVIOUS
  <2>2. info \in [Job -> [known: BOOLEAN, attempt: 0..MaxAttempts - 1, processing: BOOLEAN]]
    BY ForgottenFacts DEF Init
  <2>3. submitting \in [Job -> Seq(Nat)] /\ pipe \in [Job -> Seq(Message)]
    BY <2>1 DEF Init
  <2>4. dlq \in Seq(Job) /\ Len(dlq) <= MaxDlq /\ queue \in Seq(HeapEntry)
    BY <2>1, SchedulerConstants DEF Init
  <2>5. inflight \in [Key -> Job \cup {NoJob}] /\ timers \in [Job -> Nat]
        /\ atCore \in [Job -> {"unknown", "registered", "running"}]
        /\ timeouts \in 0..MaxTimeouts /\ cancels \in 0..MaxCancels
    BY SchedulerConstants DEF Init
  <2>6. /\ running \in BOOLEAN /\ core \in {"up", "down"}
        /\ loop \in {"off", "top", "waiting", "woken", "exited"}
        /\ ending \in {"no", "draining", "killing", "done"}
        /\ submitted \subseteq Job /\ replaced \subseteq Job /\ retried \subseteq Job
    BY DEF Init
  <2> QED
    BY <2>2, <2>3, <2>4, <2>5, <2>6 DEF TypeOK
<1>3. HeapInv(queue)
  BY DEF Init, HeapInv, Distinct, OrderedFrom
<1>4. NoJobLost /\ NoLostWakeup
  BY DEF Init, NoJobLost, NoLostWakeup
<1>5. BeforeStart
  BY <1>1 DEF Init, BeforeStart, Known
<1>6. KeysOwned /\ KeyHeld
  BY <1>1 DEF Init, KeysOwned, KeyHeld, KnownJobs, Known
<1>7. KnownSound
  BY <1>1, FS_EmptySet DEF Init, KnownSound, KnownJobs, Known
<1> QED
  BY <1>2, <1>3, <1>4, <1>5, <1>6, <1>7 DEF SchedulerIInv

LEMMA SchedulerStep == SchedulerIInv /\ [Next]_vars => SchedulerIInv'
<1> SUFFICES ASSUME SchedulerIInv, [Next]_vars PROVE SchedulerIInv'
  OBVIOUS
<1>1. CASE Start
  BY <1>1, StartSound
<1>2. CASE LoopTurn \/ LoopWakes
  BY <1>2, LoopSound
<1>3. CASE Shutdown
  BY <1>3, ShutdownBeginsSound, DrainEndsSound, DrainTimesOutSound, CoreEndsSound DEF Shutdown
<1>4. CASE CoreCrashes
  BY <1>4, CoreEndsSound
<1>5. ASSUME NEW j \in Job, \E policy \in Policy : Submit(j, policy)
      PROVE  SchedulerIInv'
  BY <1>5, SubmitSound
<1>6. ASSUME NEW j \in Job, CancelAtCore(j) \/ AckArrives(j) \/ TimerFires(j)
      PROVE  SchedulerIInv'
  BY <1>6, CancelAtCoreSound, AckArrivesSound, TimerFiresSound
<1>7. ASSUME NEW j \in Job, Receives(j)
      PROVE  SchedulerIInv'
  BY <1>7, GrantArrivesSound, RejectionArrivesSound, CompletionArrivesSound,
     CancellationArrivesSound DEF Receives
<1>8. ASSUME NEW j \in Job, SubmitTimesOut(j) \/ CallFails(j)
      PROVE  SchedulerIInv'
  BY <1>8, CallGivenUpSound
<1>9. ASSUME NEW j \in Job, \E i \in DOMAIN pipe[j] : RequestTimesOut(j, i)
      PROVE  SchedulerIInv'
  BY <1>9, RequestTimesOutSound
<1>10. ASSUME NEW j \in Job, \E how \in Outcome : CoreFinishes(j, how)
       PROVE  SchedulerIInv'
  BY <1>10, CoreFinishesSound
<1>11. CASE UNCHANGED vars
  BY <1>11, SchedulerStill
<1> QED
  BY <1>1, <1>2, <1>3, <1>4, <1>5, <1>6, <1>7, <1>8, <1>9, <1>10, <1>11 DEF Next

LEMMA SchedulerIInvImplies == SchedulerIInv => SchedulerInv /\ NoJobLost
<1> SUFFICES ASSUME SchedulerIInv PROVE SchedulerInv
  BY DEF SchedulerIInv
<1>1. QueueOrdered
  BY HeapFirst DEF SchedulerIInv, QueueOrdered
<1>2. KeyGuarded
  <2> SUFFICES ASSUME NEW i \in KnownJobs, NEW j \in KnownJobs, i # j, KeyOf[i] = KeyOf[j],
                      KeyOf[i] # NoKey
               PROVE  Contested(KeyOf[i])
    BY DEF KeyGuarded, Contested
  <2> QED
    BY DEF SchedulerIInv, KeyHeld
<1> QED
  BY <1>1, <1>2 DEF SchedulerIInv, SchedulerInv

\* Whatever clients submit and cancel, however late the Core's answers come, and
\* whenever it crashes or the drain's timer fires: keys are registered for known jobs
\* that have them, two jobs share one only after a replacement or a retry, dequeue()
\* takes the job of the highest priority that came first, and no notification of the
\* process loop is lost (scheduler/index.ts, job-queue.ts, in-flight-registry.ts).
THEOREM QueueAlwaysSound == Spec => []SchedulerInv
<1>1. Init => SchedulerIInv
  BY SchedulerInitial
<1>2. SchedulerIInv /\ [Next]_vars => SchedulerIInv'
  BY SchedulerStep
<1>3. SchedulerIInv => SchedulerInv
  BY SchedulerIInvImplies
<1> QED
  BY <1>1, <1>2, <1>3, PTL DEF Spec

\* While the Scheduler and its Core run, every job that was accepted and has not
\* ended is queued, in a call, at the Core, in a message or waiting for a timer:
\* rejections, timeouts and late answers lose none (processNext, handleJobCompleted).
THEOREM JobsNeverLost == Spec => []NoJobLost
<1>1. Init => SchedulerIInv
  BY SchedulerInitial
<1>2. SchedulerIInv /\ [Next]_vars => SchedulerIInv'
  BY SchedulerStep
<1>3. SchedulerIInv => NoJobLost
  BY SchedulerIInvImplies
<1> QED
  BY <1>1, <1>2, <1>3, PTL DEF Spec

-----------------------------------------------------------------------------
(* The Supervisor.                                                         *)

\* A call that will spawn a Core finds none, or the one it has spawned itself.
SpawnerSound ==
    /\ place[Sup!Start] = "idle" => Sup!Living = {}
    /\ \A x \in Sup!Caller \ {Sup!Stop} :
         /\ place[x] \in {"listen", "respawn"} => Sup!Living = {}
         /\ place[x] = "connect" => Sup!Living \subseteq {target[x]}

\* What a call is about to kill or waits for has not ended.
TargetSound ==
    \A x \in Sup!Caller :
        /\ place[x] = "connect" => target[x] \in Core /\ process[target[x]] # "unused"
        /\ place[x] \in {"reap", "term", "sigkill"} => target[x] \in Sup!Living

\* One restart at a time, after the start, and within the limit.
PlacesSound ==
    /\ place[Sup!Start] \in {"idle", "listen", "connect", "reap", "done"}
    /\ place[Sup!Stop] \in {"idle", "stopping", "term", "sigkill", "done"}
    /\ \A x \in Restarter : place[x] # "done"
    /\ \A x \in Restarter : place[x] # "idle" =>
           restarting /\ restarts < MaxRestarts /\ place[Sup!Start] = "done"
    /\ \A x, y \in Restarter : place[x] # "idle" /\ place[y] # "idle" => x = y
    /\ watched \cup checking # {} => place[Sup!Start] = "done"

\* The Supervisor's process was spawned.
ProcUsed == proc \in Core => process[proc] # "unused"

CoreIInv ==
    /\ Sup!SupervisorConstants /\ Sup!TypeOK
    /\ Sup!Living \subseteq {proc} /\ SpawnerSound /\ TargetSound /\ PlacesSound /\ ProcUsed

LEMMA SupervisorFacts ==
    ASSUME Sup!SupervisorConstants
    PROVE  /\ NoCore \notin Core /\ MaxRestarts \in Nat
           /\ Sup!Start \notin Restarter /\ Sup!Stop \notin Restarter /\ Sup!Start # Sup!Stop
           /\ Sup!Caller = Restarter \cup {Sup!Start, Sup!Stop}
BY DEF Sup!SupervisorConstants, Sup!Start, Sup!Stop, Sup!Caller

\* Two calls that are not over, and will spawn a Core or have, are one.
LEMMA OneSpawner ==
    ASSUME CoreIInv, NEW x \in Sup!Caller \ {Sup!Stop}, NEW y \in Sup!Caller \ {Sup!Stop},
           place[x] \notin {"idle", "done"} \/ (x = Sup!Start /\ place[x] = "idle"),
           place[y] \notin {"idle", "done"} \/ (y = Sup!Start /\ place[y] = "idle")
    PROVE  x = y
BY SupervisorFacts DEF CoreIInv, PlacesSound

\* The steps at which no process begins or ends and no call changes its place but x.
LEMMA SpawnedSound ==
    ASSUME CoreIInv, NEW x \in Sup!Caller, x # Sup!Stop, NEW c \in Core,
           place[x] \in {"listen", "respawn"} \/ (x = Sup!Start /\ place[x] = "idle"),
           process' = [process EXCEPT ![c] = "up"], proc' = c
    PROVE  /\ Sup!Living' = {c}
           /\ \A y \in Sup!Caller : y # x /\ y # Sup!Stop =>
                place[y] \in {"idle", "done"} /\ (y = Sup!Start => place[y] = "done")
           /\ place[Sup!Stop] \in {"idle", "stopping", "done"}
<1>1. process \in [Core -> Sup!ProcessState]
  BY DEF CoreIInv, Sup!TypeOK
<1>2. Sup!Living = {}
  BY DEF CoreIInv, SpawnerSound
<1>3. Sup!Living' = {c}
  BY <1>1, <1>2 DEF Sup!Living
<1>4. \A y \in Sup!Caller : y # x /\ y # Sup!Stop =>
                place[y] \in {"idle", "done"} /\ (y = Sup!Start => place[y] = "done")
  BY OneSpawner
<1>5. place[Sup!Stop] \in {"idle", "stopping", "done"}
  BY <1>2, SupervisorFacts DEF CoreIInv, TargetSound, PlacesSound
<1> QED
  BY <1>3, <1>4, <1>5

LEMMA FinishSpawnSound ==
    ASSUME CoreIInv, NEW x \in Sup!Caller, x # Sup!Stop, NEW c \in Core,
           place[x] \in {"listen", "respawn"} \/ (x = Sup!Start /\ place[x] = "idle"),
           Sup!Spawned(c), Sup!FinishSpawn(x, c), transport' = transport,
           listening' \in BOOLEAN
    PROVE  CoreIInv'
<1>1. /\ process' = [process EXCEPT ![c] = "up"] /\ proc' = c /\ ipc' = c /\ healthChecker' = c
      /\ checking' = checking \cup {c} /\ watched' = watched \cup {c}
      /\ restarts' = IF x \in Restarter THEN restarts + 1 ELSE restarts
      /\ place' = [place EXCEPT ![x] = IF x \in Restarter THEN "idle" ELSE "done"]
      /\ target' = [target EXCEPT ![x] = NoCore]
      /\ restarting' = (restarting /\ x \notin Restarter)
  BY DEF Sup!Spawned, Sup!FinishSpawn, Sup!Returned, Sup!Goes
<1>2. /\ Sup!Living' = {c}
      /\ \A y \in Sup!Caller : y # x /\ y # Sup!Stop =>
           place[y] \in {"idle", "done"} /\ (y = Sup!Start => place[y] = "done")
      /\ place[Sup!Stop] \in {"idle", "stopping", "done"}
  BY <1>1, SpawnedSound
<1>3. place \in [Sup!Caller -> Sup!Place] /\ Sup!SupervisorConstants
  BY DEF CoreIInv, Sup!TypeOK
<1>4. /\ \A y \in Sup!Caller : y # Sup!Stop => place'[y] \in {"idle", "done"}
      /\ place'[Sup!Start] = "done" /\ place'[Sup!Stop] \in {"idle", "stopping", "done"}
      /\ \A y \in Restarter : place'[y] = "idle"
  <2>1. \A y \in Sup!Caller : place'[y] = IF y = x THEN IF x \in Restarter THEN "idle" ELSE "done"
                                          ELSE place[y]
    BY <1>1, <1>3
  <2>2. \A y \in Restarter : place[y] # "done"
    BY DEF CoreIInv, PlacesSound
  <2> QED
    BY <1>2, <1>3, <2>1, <2>2, SupervisorFacts
<1>5. Sup!TypeOK'
  <2>1. restarts' \in 0..MaxRestarts
    <3>1. x \in Restarter => restarts < MaxRestarts
      BY <1>3, SupervisorFacts DEF CoreIInv, PlacesSound
    <3> QED
      BY <1>1, <3>1 DEF CoreIInv, Sup!TypeOK, Sup!SupervisorConstants
  <2>2. place' \in [Sup!Caller -> Sup!Place]
    BY <1>1, <1>3 DEF Sup!Place
  <2>3. restarting' \in BOOLEAN
    BY <1>1 DEF CoreIInv, Sup!TypeOK
  <2>4. process' \in [Core -> Sup!ProcessState]
    BY <1>1 DEF CoreIInv, Sup!TypeOK, Sup!ProcessState
  <2> QED
    BY <1>1, <2>1, <2>2, <2>3, <2>4 DEF CoreIInv, Sup!TypeOK
<1>6. SpawnerSound' /\ TargetSound' /\ PlacesSound'
  BY <1>3, <1>4, SupervisorFacts DEF SpawnerSound, TargetSound, PlacesSound
<1>7. ProcUsed'
  BY <1>1, <1>2 DEF ProcUsed, CoreIInv, Sup!TypeOK
<1> QED
  BY <1>7, <1>1, <1>2, <1>3, <1>5, <1>6 DEF CoreIInv, Sup!SupervisorConstants

LEMMA SpawnCoreSound ==
    ASSUME CoreIInv, NEW x \in Sup!Caller, Sup!SpawnCore(x) PROVE CoreIInv'
<1>1. /\ x # Sup!Stop
      /\ place[x] = "respawn" \/ (x = Sup!Start /\ place[x] = "idle")
  BY DEF Sup!SpawnCore
<1>2. CASE Sup!SpawnStdio(x)
  <2>1. PICK c \in Sup!Unused : Sup!Spawned(c) /\ Sup!FinishSpawn(x, c)
    BY <1>2 DEF Sup!SpawnStdio
  <2>2. c \in Core /\ transport' = transport /\ listening' \in BOOLEAN
    BY <1>2 DEF Sup!SpawnStdio, Sup!Unused, CoreIInv, Sup!TypeOK
  <2> QED
    BY <1>1, <2>1, <2>2, FinishSpawnSound
<1>3. CASE Sup!SpawnSocket(x)
  <2>1. /\ listening' = FALSE /\ place' = [place EXCEPT ![x] = "listen"]
        /\ transport' = transport /\ process' = process /\ proc' = proc /\ ipc' = ipc
        /\ healthChecker' = healthChecker /\ checking' = checking /\ watched' = watched
        /\ target' = target /\ restarting' = restarting /\ restarts' = restarts
    BY <1>3 DEF Sup!SpawnSocket, Sup!Goes, Sup!health, Sup!counts
  <2>2. place \in [Sup!Caller -> Sup!Place] /\ Sup!SupervisorConstants
    BY DEF CoreIInv, Sup!TypeOK
  <2>3. Sup!Living' = Sup!Living /\ Sup!Living = {}
    BY <1>1, <2>1 DEF Sup!Living, CoreIInv, SpawnerSound
  <2>4. Sup!TypeOK'
    BY <2>1, <2>2 DEF CoreIInv, Sup!TypeOK, Sup!Place
  <2>5. SpawnerSound' /\ TargetSound'
    BY <1>1, <2>1, <2>2, <2>3 DEF CoreIInv, SpawnerSound, TargetSound
  <2>6. PlacesSound'
    BY <1>1, <2>1, <2>2, SupervisorFacts, OneSpawner DEF CoreIInv, PlacesSound
  <2> QED
    BY <2>1, <2>2, <2>3, <2>4, <2>5, <2>6 DEF CoreIInv, ProcUsed, Sup!SupervisorConstants
<1> QED
  BY <1>2, <1>3 DEF Sup!SpawnCore

LEMMA ServerListensSound ==
    ASSUME CoreIInv, NEW x \in Sup!Caller, Sup!ServerListens(x) PROVE CoreIInv'
<1>1. /\ place[x] = "listen" /\ listening' = TRUE /\ place' = [place EXCEPT ![x] = "connect"]
      /\ transport' = transport /\ ipc' = ipc /\ healthChecker' = healthChecker
      /\ checking' = checking /\ watched' = watched
      /\ restarting' = restarting /\ restarts' = restarts
  BY DEF Sup!ServerListens, Sup!Goes, Sup!health, Sup!counts
<1>2. PICK c \in Core : /\ process' = [process EXCEPT ![c] = "up"] /\ proc' = c
                        /\ target' = [target EXCEPT ![x] = c]
  BY DEF Sup!ServerListens, Sup!Spawned, Sup!Unused
<1>3. x # Sup!Stop
  BY <1>1 DEF CoreIInv, PlacesSound
<1>4. /\ Sup!Living' = {c}
      /\ \A y \in Sup!Caller : y # x /\ y # Sup!Stop =>
           place[y] \in {"idle", "done"} /\ (y = Sup!Start => place[y] = "done")
      /\ place[Sup!Stop] \in {"idle", "stopping", "done"}
  BY <1>1, <1>2, <1>3, SpawnedSound
<1>5. /\ place \in [Sup!Caller -> Sup!Place] /\ Sup!SupervisorConstants
      /\ process \in [Core -> Sup!ProcessState] /\ target \in [Sup!Caller -> Core \cup {NoCore}]
  BY DEF CoreIInv, Sup!TypeOK
<1>6. Sup!TypeOK'
  <2>1. place' \in [Sup!Caller -> Sup!Place]
    BY <1>1, <1>5 DEF Sup!Place
  <2>2. process' \in [Core -> Sup!ProcessState]
    BY <1>2, <1>5 DEF Sup!ProcessState
  <2> QED
    BY <1>1, <1>2, <2>1, <2>2 DEF CoreIInv, Sup!TypeOK
<1>7. SpawnerSound'
  BY <1>1, <1>2, <1>3, <1>4, <1>5, SupervisorFacts DEF SpawnerSound
<1>8. TargetSound'
  BY <1>1, <1>2, <1>3, <1>4, <1>5, SupervisorFacts DEF TargetSound
<1>9. PlacesSound'
  BY <1>1, <1>3, <1>4, <1>5, SupervisorFacts DEF CoreIInv, PlacesSound
<1> QED
  BY <1>2, <1>4, <1>5, <1>6, <1>7, <1>8, <1>9 DEF CoreIInv, ProcUsed, Sup!SupervisorConstants

\* A call returns that neither lost nor left a process.
LEMMA ReturnedSound ==
    ASSUME CoreIInv, NEW x \in Sup!Caller, x # Sup!Stop,
           Sup!Returned(x), place[x] \notin {"idle", "done"},
           transport' = transport, process' = process, restarts' \in 0..MaxRestarts,
           {proc, ipc, healthChecker}' \subseteq Core \cup {NoCore},
           checking' \subseteq Core, watched' \subseteq Core, listening' \in BOOLEAN,
           Sup!Living \subseteq {proc'}, proc' \in {proc, NoCore}
    PROVE  CoreIInv'
<1>1. /\ place' = [place EXCEPT ![x] = IF x \in Restarter THEN "idle" ELSE "done"]
      /\ target' = [target EXCEPT ![x] = NoCore]
      /\ restarting' = (restarting /\ x \notin Restarter)
  BY DEF Sup!Returned, Sup!Goes
<1>2. /\ place \in [Sup!Caller -> Sup!Place] /\ Sup!SupervisorConstants
      /\ process \in [Core -> Sup!ProcessState] /\ target \in [Sup!Caller -> Core \cup {NoCore}]
  BY DEF CoreIInv, Sup!TypeOK
<1>3. \A y \in Sup!Caller : y # x /\ y # Sup!Stop =>
           place[y] \in {"idle", "done"} /\ (y = Sup!Start => place[y] = "done")
  BY OneSpawner
<1>4. \A y \in Sup!Caller : place'[y] = IF y = x THEN IF x \in Restarter THEN "idle" ELSE "done"
                                        ELSE place[y]
  BY <1>1, <1>2
<1>5. /\ \A y \in Sup!Caller : y # Sup!Stop => place'[y] \in {"idle", "done"}
      /\ place'[Sup!Start] = "done" /\ place'[Sup!Stop] = place[Sup!Stop]
      /\ \A y \in Restarter : place'[y] = "idle"
  <2>1. \A y \in Restarter : place[y] # "done"
    BY DEF CoreIInv, PlacesSound
  <2> QED
    BY <1>2, <1>3, <1>4, <2>1, SupervisorFacts
<1>6. Sup!TypeOK'
  <2>1. place' \in [Sup!Caller -> Sup!Place]
    BY <1>1, <1>2 DEF Sup!Place
  <2>2. restarting' \in BOOLEAN
    BY <1>1 DEF CoreIInv, Sup!TypeOK
  <2> QED
    BY <1>1, <1>2, <2>1, <2>2 DEF CoreIInv, Sup!TypeOK
<1>7. Sup!Living' = Sup!Living
  BY DEF Sup!Living
<1>8. SpawnerSound'
  BY <1>2, <1>5, SupervisorFacts DEF SpawnerSound
<1>9. TargetSound'
  <2>1. target'[Sup!Stop] = target[Sup!Stop]
    BY <1>1, <1>2, SupervisorFacts
  <2> QED
    BY <1>2, <1>5, <1>7, <2>1, SupervisorFacts DEF CoreIInv, TargetSound, PlacesSound
<1>10. PlacesSound'
  BY <1>2, <1>5, SupervisorFacts DEF CoreIInv, PlacesSound
<1>11. ProcUsed'
  BY <1>2 DEF CoreIInv, ProcUsed, Sup!SupervisorConstants
<1> QED
  BY <1>11, <1>2, <1>6, <1>7, <1>8, <1>9, <1>10 DEF CoreIInv, Sup!SupervisorConstants

LEMMA ListenFailsSound ==
    ASSUME CoreIInv, NEW x \in Sup!Caller, Sup!ListenFails(x) PROVE CoreIInv'
<1>1. place[x] = "listen" /\ listening' = FALSE /\ transport' = transport
  BY DEF Sup!ListenFails
<1>2. x # Sup!Stop
  BY <1>1 DEF CoreIInv, PlacesSound
<1>3. CASE /\ Sup!Returned(x) /\ process' = process /\ proc' = proc /\ ipc' = ipc
           /\ healthChecker' = healthChecker /\ checking' = checking /\ watched' = watched
           /\ restarts' = restarts
  <2>1. /\ Sup!Living \subseteq {proc'} /\ restarts' \in 0..MaxRestarts
        /\ {proc, ipc, healthChecker}' \subseteq Core \cup {NoCore}
        /\ checking' \subseteq Core /\ watched' \subseteq Core
    BY <1>3 DEF CoreIInv, Sup!TypeOK
  <2> QED
    BY <1>1, <1>2, <1>3, <2>1, ReturnedSound
<1>4. CASE \E c \in Sup!Unused : Sup!Spawned(c) /\ Sup!FinishSpawn(x, c)
  BY <1>1, <1>2, <1>4, FinishSpawnSound DEF Sup!Unused
<1> QED
  BY <1>3, <1>4 DEF Sup!ListenFails, Sup!health

LEMMA CoreConnectsSound ==
    ASSUME CoreIInv, NEW x \in Sup!Caller, Sup!CoreConnects(x) PROVE CoreIInv'
<1> DEFINE c == target[x]
<1>1. /\ place[x] = "connect" /\ process[c] = "up" /\ listening' = FALSE
      /\ transport' = transport /\ process' = process /\ proc' = proc
      /\ Sup!Returned(x) /\ ipc' = c /\ healthChecker' = c
      /\ checking' \in {checking, checking \cup {c}} /\ watched' \in {watched, watched \cup {c}}
      /\ restarts' \in {restarts, IF x \in Restarter THEN restarts + 1 ELSE restarts}
  BY DEF Sup!CoreConnects, Sup!FinishSpawn, Sup!health
<1>2. x # Sup!Stop
  BY <1>1 DEF CoreIInv, PlacesSound
<1>3. c \in Core
  BY <1>1 DEF CoreIInv, TargetSound
<1> HIDE DEF c
<1>4. restarts' \in 0..MaxRestarts
  <2>1. x \in Restarter => restarts < MaxRestarts
    BY <1>1, SupervisorFacts DEF CoreIInv, PlacesSound
  <2>2. restarts \in 0..MaxRestarts /\ MaxRestarts \in Nat
    BY DEF CoreIInv, Sup!TypeOK, Sup!SupervisorConstants
  <2> QED
    BY <1>1, <2>1, <2>2
<1>5. /\ Sup!Living \subseteq {proc'} /\ listening' \in BOOLEAN
      /\ {proc, ipc, healthChecker}' \subseteq Core \cup {NoCore}
      /\ checking' \subseteq Core /\ watched' \subseteq Core
  BY <1>1, <1>3 DEF CoreIInv, Sup!TypeOK
<1> QED
  BY <1>1, <1>2, <1>4, <1>5, ReturnedSound

\* A living process is one of the states of Living.
LEMMA LivingFacts ==
    /\ \A c \in Core : c \in Sup!Living <=> process[c] \in {"up", "mute", "ending", "killed"}
    /\ \A c \in Core : process \in [Core -> Sup!ProcessState] =>
           (c \in Sup!Living <=> ~Sup!Gone(c) /\ process[c] # "unused")
BY DEF Sup!Living, Sup!Gone, Sup!ProcessState

LEMMA ConnectTimesOutSound ==
    ASSUME CoreIInv, NEW x \in Sup!Caller, Sup!ConnectTimesOut(x) PROVE CoreIInv'
<1> DEFINE c == target[x]
<1>1. /\ place[x] = "connect" /\ c \in Core /\ process[c] # "unused" /\ Sup!Living \subseteq {c}
      /\ x # Sup!Stop
  <2>1. place[x] = "connect"
    BY DEF Sup!ConnectTimesOut
  <2>2. x # Sup!Stop
    BY <2>1 DEF CoreIInv, PlacesSound
  <2> QED
    BY <2>1, <2>2 DEF CoreIInv, TargetSound, SpawnerSound
<1>2. /\ transport' = transport /\ ipc' = ipc /\ healthChecker' = healthChecker
      /\ checking' = checking /\ watched' = watched /\ restarts' = restarts
  BY DEF Sup!ConnectTimesOut, Sup!health
<1>3. /\ place \in [Sup!Caller -> Sup!Place] /\ Sup!SupervisorConstants
      /\ process \in [Core -> Sup!ProcessState] /\ target \in [Sup!Caller -> Core \cup {NoCore}]
  BY DEF CoreIInv, Sup!TypeOK
<1>4. CASE Sup!Gone(c)
  <2>1. proc' = NoCore /\ listening' = FALSE /\ Sup!Returned(x) /\ process' = process
    BY <1>4 DEF Sup!ConnectTimesOut
  <2>2. Sup!Living = {}
    BY <1>1, <1>3, <1>4, LivingFacts
  <2>3. /\ {proc, ipc, healthChecker}' \subseteq Core \cup {NoCore} /\ listening' \in BOOLEAN
        /\ checking' \subseteq Core /\ watched' \subseteq Core /\ restarts' \in 0..MaxRestarts
    BY <1>2, <2>1 DEF CoreIInv, Sup!TypeOK
  <2> QED
    BY <1>1, <1>2, <2>1, <2>2, <2>3, ReturnedSound
<1>5. CASE ~Sup!Gone(c)
  <2>1. /\ process' = [process EXCEPT ![c] = "killed"] /\ place' = [place EXCEPT ![x] = "reap"]
        /\ proc' = proc /\ listening' = listening /\ target' = target /\ restarting' = restarting
    BY <1>5 DEF Sup!ConnectTimesOut, Sup!Goes
  <2>2. c \in Sup!Living
    BY <1>1, <1>3, <1>5, LivingFacts
  <2> HIDE DEF c
  <2>3. Sup!Living' = Sup!Living
    BY <1>1, <1>3, <2>1, <2>2 DEF Sup!Living
  <2>4. Sup!TypeOK'
    <3>1. place' \in [Sup!Caller -> Sup!Place]
      BY <1>3, <2>1 DEF Sup!Place
    <3>2. process' \in [Core -> Sup!ProcessState]
      BY <1>3, <2>1 DEF Sup!ProcessState
    <3> QED
      BY <1>2, <2>1, <3>1, <3>2 DEF CoreIInv, Sup!TypeOK
  <2>5. \A y \in Sup!Caller : place'[y] = IF y = x THEN "reap" ELSE place[y]
    BY <1>3, <2>1
  <2>6. SpawnerSound'
    BY <1>2, <1>3, <2>1, <2>3, <2>5, SupervisorFacts DEF CoreIInv, SpawnerSound
  <2>7. TargetSound'
    <3> SUFFICES ASSUME NEW y \in Sup!Caller
                 PROVE  /\ place'[y] = "connect" => target'[y] \in Core /\ process'[target'[y]] # "unused"
                        /\ place'[y] \in {"reap", "term", "sigkill"} => target'[y] \in Sup!Living'
      BY DEF TargetSound
    <3>1. CASE y = x
      BY <2>1, <2>2, <2>3, <2>5, <3>1 DEF c
    <3>2. CASE y # x
      BY <1>3, <2>1, <2>3, <2>5, <3>2 DEF CoreIInv, TargetSound
    <3> QED
      BY <3>1, <3>2
  <2>8. PlacesSound'
    <3>1. x \in Restarter => restarting /\ restarts < MaxRestarts /\ place[Sup!Start] = "done"
      BY <1>1, SupervisorFacts DEF CoreIInv, PlacesSound
    <3> QED
      BY <1>1, <1>2, <1>3, <2>1, <2>5, <3>1, SupervisorFacts DEF CoreIInv, PlacesSound
  <2> QED
    BY <1>3, <2>1, <2>3, <2>4, <2>6, <2>7, <2>8 DEF CoreIInv, ProcUsed, Sup!SupervisorConstants
<1> QED
  BY <1>4, <1>5

\* Shutdown, or a restart, begins to kill.
LEMMA KillBeginsSound ==
    ASSUME CoreIInv, NEW x \in Sup!Caller, Sup!KillBegins(x), place[x] = "idle",
           watched' \subseteq watched,
           \/ x = Sup!Stop /\ restarting' = restarting
           \/ /\ x \in Restarter /\ Sup!MayRestart /\ restarting' = TRUE
              /\ watched \cup checking # {}
    PROVE  CoreIInv'
<1>1. /\ checking' = checking \ {healthChecker} /\ healthChecker' = NoCore
      /\ place' = [place EXCEPT ![x] = "stopping"] /\ transport' = transport
      /\ process' = process /\ proc' = proc /\ ipc' = ipc /\ listening' = listening
      /\ target' = target /\ restarts' = restarts
  BY DEF Sup!KillBegins, Sup!Goes
<1>2. /\ place \in [Sup!Caller -> Sup!Place] /\ Sup!SupervisorConstants
  BY DEF CoreIInv, Sup!TypeOK
<1>3. \A y \in Sup!Caller : place'[y] = IF y = x THEN "stopping" ELSE place[y]
  BY <1>1, <1>2
<1>4. Sup!Living' = Sup!Living
  BY <1>1 DEF Sup!Living
<1>5. Sup!TypeOK'
  <2>1. place' \in [Sup!Caller -> Sup!Place]
    BY <1>1, <1>2 DEF Sup!Place
  <2> QED
    BY <1>1, <2>1 DEF CoreIInv, Sup!TypeOK
<1>6. SpawnerSound' /\ TargetSound'
  BY <1>1, <1>2, <1>3, <1>4, SupervisorFacts DEF CoreIInv, SpawnerSound, TargetSound
<1>7. PlacesSound'
  <2>1. CASE x = Sup!Stop /\ restarting' = restarting
    BY <1>1, <1>2, <1>3, <2>1, SupervisorFacts DEF CoreIInv, PlacesSound
  <2>2. CASE /\ x \in Restarter /\ Sup!MayRestart /\ restarting' = TRUE
             /\ watched \cup checking # {}
    <3>1. \A y \in Restarter : place[y] = "idle"
      BY <2>2 DEF CoreIInv, PlacesSound, Sup!MayRestart
    <3>2. place[Sup!Start] = "done" /\ restarts < MaxRestarts
      BY <2>2 DEF CoreIInv, PlacesSound, Sup!MayRestart
    <3> QED
      BY <1>1, <1>2, <1>3, <2>2, <3>1, <3>2, SupervisorFacts DEF CoreIInv, PlacesSound
  <2> QED
    BY <2>1, <2>2
<1> QED
  BY <1>1, <1>2, <1>4, <1>5, <1>6, <1>7 DEF CoreIInv, ProcUsed, Sup!SupervisorConstants

LEMMA ShutdownSound == ASSUME CoreIInv, Sup!Shutdown PROVE CoreIInv'
<1>1. /\ Sup!KillBegins(Sup!Stop) /\ place[Sup!Stop] = "idle" /\ watched' = watched
      /\ restarting' = restarting
  BY DEF Sup!Shutdown
<1>2. Sup!Stop \in Sup!Caller
  BY DEF Sup!Caller
<1> QED
  BY <1>1, <1>2, KillBeginsSound

\* A call goes on without a process, or has told its process to end.
LEMMA KillsSound ==
    ASSUME CoreIInv, NEW x \in Sup!Caller, Sup!Kills(x) PROVE CoreIInv'
<1>1. /\ place \in [Sup!Caller -> Sup!Place] /\ Sup!SupervisorConstants
      /\ process \in [Core -> Sup!ProcessState] /\ target \in [Sup!Caller -> Core \cup {NoCore}]
      /\ proc \in Core \cup {NoCore} /\ NoCore \notin Core
  BY DEF CoreIInv, Sup!TypeOK, Sup!SupervisorConstants
<1>2. x # Sup!Start
  BY DEF CoreIInv, PlacesSound, Sup!Kills, Sup!SendsTerm, Sup!GraceEnds
<1>3. /\ transport' = transport /\ healthChecker' = healthChecker /\ checking' = checking
      /\ watched' = watched /\ restarting' = restarting /\ restarts' = restarts
      /\ place[x] \in {"stopping", "term"}
  BY DEF Sup!Kills, Sup!SendsTerm, Sup!GraceEnds, Sup!fields, Sup!health, Sup!counts
<1>4. /\ x \in Restarter => restarting /\ restarts < MaxRestarts /\ place[Sup!Start] = "done"
      /\ x \in Restarter => \A y \in Restarter : place[y] # "idle" => x = y
  BY <1>3 DEF CoreIInv, PlacesSound
<1>5. ASSUME NEW p \in {"respawn", "done", "term", "sigkill"}, place' = [place EXCEPT ![x] = p],
             p = "done" => x = Sup!Stop, p = "respawn" => x # Sup!Stop
      PROVE  PlacesSound'
  <2>1. \A y \in Sup!Caller : place'[y] = IF y = x THEN p ELSE place[y]
    BY <1>1, <1>5
  <2> QED
    BY <1>1, <1>2, <1>3, <1>4, <1>5, <2>1, SupervisorFacts DEF CoreIInv, PlacesSound
<1>6. CASE Sup!SendsTerm(x) /\ (proc = NoCore \/ Sup!Gone(proc))
  <2>1. /\ place' = [place EXCEPT ![x] = Sup!AfterKill(x)] /\ proc' = NoCore /\ listening' = FALSE
        /\ ipc' = NoCore /\ process' = process /\ target' = target
    BY <1>6 DEF Sup!SendsTerm, Sup!Goes
  <2>2. Sup!Living = {} /\ Sup!Living' = {}
    <3>1. Sup!Living \subseteq {proc} /\ Sup!Living \subseteq Core
      BY DEF CoreIInv, Sup!Living
    <3>2. Sup!Living = {}
      BY <1>1, <1>6, <3>1, LivingFacts
    <3> QED
      BY <2>1, <3>2 DEF Sup!Living
  <2>3. Sup!AfterKill(x) = (IF x = Sup!Stop THEN "done" ELSE "respawn")
    BY DEF Sup!AfterKill
  <2> DEFINE p == Sup!AfterKill(x)
  <2>4. p \in {"respawn", "done"}
    BY <2>3
  <2>5. PlacesSound'
    BY <1>5, <2>1, <2>3
  <2>6. Sup!TypeOK'
    <3>1. place' \in [Sup!Caller -> Sup!Place]
      BY <1>1, <2>1, <2>4 DEF Sup!Place
    <3> QED
      BY <1>3, <2>1, <3>1 DEF CoreIInv, Sup!TypeOK
  <2>7. SpawnerSound' /\ TargetSound'
    <3>1. \A y \in Sup!Caller : place'[y] = IF y = x THEN p ELSE place[y]
      BY <1>1, <2>1
    <3> QED
      BY <1>2, <2>1, <2>2, <2>4, <3>1 DEF CoreIInv, SpawnerSound, TargetSound
  <2>8. ProcUsed'
    BY <1>1, <2>1 DEF CoreIInv, ProcUsed
  <2> QED
    BY <2>8, <1>1, <2>2, <2>5, <2>6, <2>7 DEF CoreIInv, Sup!SupervisorConstants
<1>7. CASE Sup!SendsTerm(x) /\ ~(proc = NoCore \/ Sup!Gone(proc))
  <2>1. /\ place' = [place EXCEPT ![x] = "term"] /\ proc' = proc /\ listening' = listening
        /\ ipc' = NoCore /\ target' = [target EXCEPT ![x] = proc]
        /\ process' = [process EXCEPT ![proc] = IF @ = "up" THEN "ending" ELSE @]
        /\ proc \in Core
    BY <1>1, <1>7 DEF Sup!SendsTerm, Sup!Goes
  <2>2. Sup!Living' = Sup!Living /\ \A c \in Core : process'[c] = "unused" <=> process[c] = "unused"
    BY <1>1, <2>1 DEF Sup!Living
  <2>3. Sup!TypeOK'
    <3>1. place' \in [Sup!Caller -> Sup!Place]
      BY <1>1, <2>1 DEF Sup!Place
    <3>2. process' \in [Core -> Sup!ProcessState]
      BY <1>1, <2>1 DEF Sup!ProcessState
    <3> QED
      BY <1>1, <1>3, <2>1, <3>1, <3>2 DEF CoreIInv, Sup!TypeOK
  <2>4. \A y \in Sup!Caller : /\ place'[y] = IF y = x THEN "term" ELSE place[y]
                              /\ target'[y] = IF y = x THEN proc ELSE target[y]
    BY <1>1, <2>1
  <2>5. proc \in Sup!Living
    <3>1. process[proc] # "unused"
      BY <1>1, <2>1 DEF CoreIInv, ProcUsed
    <3> QED
      BY <1>1, <1>7, <2>1, <3>1, LivingFacts
  <2>6. SpawnerSound' /\ TargetSound'
    BY <1>2, <2>1, <2>2, <2>4, <2>5, SupervisorFacts DEF CoreIInv, SpawnerSound, TargetSound
  <2>7. PlacesSound'
    BY <1>5, <2>1
  <2> QED
    BY <1>1, <2>1, <2>2, <2>3, <2>6, <2>7 DEF CoreIInv, ProcUsed, Sup!SupervisorConstants
<1>8. CASE Sup!GraceEnds(x)
  <2>1. /\ place[x] = "term" /\ process' = [process EXCEPT ![target[x]] = "killed"]
        /\ place' = [place EXCEPT ![x] = "sigkill"] /\ proc' = proc /\ ipc' = ipc
        /\ listening' = listening /\ target' = target
    BY <1>8 DEF Sup!GraceEnds, Sup!Goes, Sup!fields
  <2>2. target[x] \in Sup!Living /\ target[x] \in Core
    BY <2>1 DEF CoreIInv, TargetSound, Sup!Living
  <2>3. Sup!Living' = Sup!Living /\ \A c \in Core : process'[c] = "unused" <=> process[c] = "unused"
    BY <1>1, <2>1, <2>2 DEF Sup!Living
  <2>4. Sup!TypeOK'
    <3>1. place' \in [Sup!Caller -> Sup!Place]
      BY <1>1, <2>1 DEF Sup!Place
    <3>2. process' \in [Core -> Sup!ProcessState]
      BY <1>1, <2>1 DEF Sup!ProcessState
    <3> QED
      BY <1>1, <1>3, <2>1, <3>1, <3>2 DEF CoreIInv, Sup!TypeOK
  <2>5. \A y \in Sup!Caller : place'[y] = IF y = x THEN "sigkill" ELSE place[y]
    BY <1>1, <2>1
  <2>6. SpawnerSound' /\ TargetSound'
    BY <1>2, <2>1, <2>2, <2>3, <2>5, SupervisorFacts DEF CoreIInv, SpawnerSound, TargetSound
  <2>7. PlacesSound'
    BY <1>5, <2>1
  <2> QED
    BY <1>1, <2>1, <2>3, <2>4, <2>6, <2>7 DEF CoreIInv, ProcUsed, Sup!SupervisorConstants
<1> QED
  BY <1>6, <1>7, <1>8 DEF Sup!Kills

LEMMA ExitsSound ==
    ASSUME CoreIInv, NEW c \in Sup!Living, Sup!Exits(c) PROVE CoreIInv'
<1> DEFINE waiters == Sup!AwaitingExit(c)
           next(x) == IF place[x] # "reap" THEN Sup!AfterKill(x)
                      ELSE IF x \in Restarter THEN "idle" ELSE "done"
<1>1. /\ process' = [process EXCEPT ![c] = IF @ = "ending" THEN "exited" ELSE "crashed"]
      /\ proc' = IF waiters # {} THEN NoCore ELSE proc
      /\ listening' = (listening /\ waiters = {})
      /\ place' = [x \in Sup!Caller |-> IF x \notin waiters THEN place[x] ELSE next(x)]
      /\ target' = [x \in Sup!Caller |-> IF x \in waiters THEN NoCore ELSE target[x]]
      /\ restarting' = (restarting /\ ~\E x \in waiters \cap Restarter : place[x] = "reap")
      /\ transport' = transport /\ ipc' = ipc /\ healthChecker' = healthChecker
      /\ checking' = checking /\ watched' = watched /\ restarts' = restarts
  BY DEF Sup!Exits, Sup!health
<1>2. /\ place \in [Sup!Caller -> Sup!Place] /\ Sup!SupervisorConstants
      /\ process \in [Core -> Sup!ProcessState] /\ target \in [Sup!Caller -> Core \cup {NoCore}]
      /\ c \in Core /\ Sup!Living \subseteq {proc}
  BY DEF CoreIInv, Sup!TypeOK, Sup!Living
<1>3. Sup!Living' = {} /\ process'[c] # "unused" /\ \A d \in Core : d # c => process'[d] = process[d]
  BY <1>1, <1>2 DEF Sup!Living
<1>4. \A x \in Sup!Caller : /\ x \in waiters <=> place[x] \in {"reap", "term", "sigkill"}
                            /\ x \in waiters => target[x] = c
  BY <1>2 DEF CoreIInv, TargetSound, Sup!AwaitingExit
<1>5. \A x \in waiters : /\ next(x) \in {"respawn", "done", "idle"}
                         /\ next(x) = "respawn" => x # Sup!Stop /\ x # Sup!Start
                         /\ next(x) = "idle" => x \in Restarter /\ place[x] = "reap"
                         /\ next(x) = "done" => x \notin Restarter
  <2> SUFFICES ASSUME NEW x \in waiters
               PROVE  /\ next(x) \in {"respawn", "done", "idle"}
                      /\ next(x) = "respawn" => x # Sup!Stop /\ x # Sup!Start
                      /\ next(x) = "idle" => x \in Restarter /\ place[x] = "reap"
                      /\ next(x) = "done" => x \notin Restarter
    OBVIOUS
  <2>1. x \in Sup!Caller /\ place[x] \in {"reap", "term", "sigkill"}
    BY DEF Sup!AwaitingExit
  <2>2. x = Sup!Start => place[x] = "reap"
    BY <2>1 DEF CoreIInv, PlacesSound
  <2> QED
    BY <1>2, <2>1, <2>2, SupervisorFacts DEF Sup!AfterKill
<1> HIDE DEF waiters, next
<1>6. \A x \in Sup!Caller : /\ place'[x] = IF x \notin waiters THEN place[x] ELSE next(x)
                            /\ target'[x] = IF x \in waiters THEN NoCore ELSE target[x]
  BY <1>1
<1>7. Sup!TypeOK'
  <2>1. place' \in [Sup!Caller -> Sup!Place]
    BY <1>1, <1>2, <1>5 DEF Sup!Place
  <2>2. process' \in [Core -> Sup!ProcessState]
    BY <1>1, <1>2 DEF Sup!ProcessState
  <2>3. target' \in [Sup!Caller -> Core \cup {NoCore}]
    BY <1>1, <1>2
  <2>4. /\ restarting' \in BOOLEAN /\ listening' \in BOOLEAN
        /\ {proc, ipc, healthChecker}' \subseteq Core \cup {NoCore}
    BY <1>1 DEF CoreIInv, Sup!TypeOK
  <2> QED
    BY <1>1, <2>1, <2>2, <2>3, <2>4 DEF CoreIInv, Sup!TypeOK
<1>8. SpawnerSound'
  BY <1>3 DEF SpawnerSound
<1>9. TargetSound'
  <2> SUFFICES ASSUME NEW x \in Sup!Caller
               PROVE  /\ place'[x] = "connect" => target'[x] \in Core /\ process'[target'[x]] # "unused"
                      /\ place'[x] \notin {"reap", "term", "sigkill"}
    BY DEF TargetSound
  <2>1. CASE x \in waiters
    BY <1>5, <1>6, <2>1
  <2>2. CASE x \notin waiters
    BY <1>3, <1>4, <1>6, <2>2 DEF CoreIInv, TargetSound
  <2> QED
    BY <2>1, <2>2
<1>10. PlacesSound'
  <2>1. /\ place'[Sup!Start] \in {"idle", "listen", "connect", "reap", "done"}
        /\ place'[Sup!Stop] \in {"idle", "stopping", "term", "sigkill", "done"}
        /\ place[Sup!Start] = "done" => place'[Sup!Start] = "done"
    BY <1>2, <1>4, <1>5, <1>6, SupervisorFacts DEF CoreIInv, PlacesSound
  <2>2. \A x \in Restarter : /\ place'[x] # "done" /\ (place'[x] # "idle" => place[x] # "idle")
                             /\ x \in waiters /\ place'[x] # "idle" => place[x] # "reap"
    <3>1. \A x \in waiters \cap Restarter : place[x] = "reap" => next(x) = "idle"
      BY DEF next
    <3> QED
      BY <1>2, <1>4, <1>5, <1>6, <3>1, SupervisorFacts DEF CoreIInv, PlacesSound
  <2>3. \A x \in Restarter : place'[x] # "idle" => restarting'
    <3> SUFFICES ASSUME NEW x \in Restarter, place'[x] # "idle" PROVE restarting'
      OBVIOUS
    <3>1. restarting /\ place[x] # "idle"
      BY <2>2 DEF CoreIInv, PlacesSound
    <3>2. \A y \in waiters \cap Restarter : place[y] # "reap"
      <4> SUFFICES ASSUME NEW y \in waiters \cap Restarter, place[y] = "reap" PROVE FALSE
        OBVIOUS
      <4>1. x = y
        BY <3>1 DEF CoreIInv, PlacesSound
      <4> QED
        BY <2>2, <4>1
    <3> QED
      BY <1>1, <3>1, <3>2
  <2> QED
    BY <1>1, <2>1, <2>2, <2>3 DEF CoreIInv, PlacesSound
<1>11. ProcUsed'
  <2>1. \A d \in Core : process[d] # "unused" => process'[d] # "unused"
    BY <1>3
  <2> QED
    BY <1>1, <2>1, SupervisorFacts DEF CoreIInv, ProcUsed
<1> QED
  BY <1>11, <1>2, <1>3, <1>7, <1>8, <1>9, <1>10 DEF CoreIInv, Sup!SupervisorConstants

LEMMA GoesMuteSound ==
    ASSUME CoreIInv, NEW c \in Core, Sup!GoesMute(c) PROVE CoreIInv'
<1>1. /\ process[c] = "up" /\ process' = [process EXCEPT ![c] = "mute"]
      /\ transport' = transport /\ proc' = proc /\ ipc' = ipc /\ healthChecker' = healthChecker
      /\ listening' = listening /\ checking' = checking /\ watched' = watched
      /\ place' = place /\ target' = target /\ restarting' = restarting /\ restarts' = restarts
  BY DEF Sup!GoesMute, Sup!fields, Sup!health, Sup!counts
<1>2. process \in [Core -> Sup!ProcessState]
  BY DEF CoreIInv, Sup!TypeOK
<1>3. Sup!Living' = Sup!Living /\ \A d \in Core : process'[d] = "unused" <=> process[d] = "unused"
  BY <1>1, <1>2 DEF Sup!Living
<1>4. process' \in [Core -> Sup!ProcessState]
  BY <1>1, <1>2 DEF Sup!ProcessState
<1>5. Sup!TypeOK'
  BY <1>1, <1>4 DEF CoreIInv, Sup!TypeOK
<1>6. SpawnerSound' /\ PlacesSound'
  BY <1>1, <1>3 DEF CoreIInv, SpawnerSound, PlacesSound
<1>7. TargetSound' /\ ProcUsed'
  BY <1>1, <1>3 DEF CoreIInv, TargetSound, ProcUsed
<1> QED
  BY <1>1, <1>3, <1>5, <1>6, <1>7 DEF CoreIInv, Sup!SupervisorConstants

LEMMA CallbackSound ==
    ASSUME CoreIInv, NEW x \in Restarter, NEW c \in Core,
           Sup!CrashCallback(x, c) \/ Sup!HangCallback(x, c)
    PROVE  CoreIInv'
<1>1. Sup!RestartCore(x) /\ watched' \subseteq watched /\ watched \cup checking # {}
  BY DEF Sup!CrashCallback, Sup!HangCallback
<1>2. x \in Sup!Caller /\ place[x] = "idle"
  BY <1>1 DEF Sup!RestartCore, Sup!Caller
<1>3. CASE Sup!MayRestart
  <2>1. Sup!KillBegins(x) /\ restarting' = TRUE
    BY <1>1, <1>3 DEF Sup!RestartCore
  <2> QED
    BY <1>1, <1>2, <1>3, <2>1, KillBeginsSound
<1>4. CASE ~Sup!MayRestart
  <2>1. /\ transport' = transport /\ process' = process /\ proc' = proc /\ ipc' = ipc
        /\ healthChecker' = healthChecker /\ listening' = listening /\ checking' = checking
        /\ place' = place /\ target' = target /\ restarting' = restarting /\ restarts' = restarts
    BY <1>1, <1>4 DEF Sup!RestartCore, Sup!fields, Sup!counts
  <2>2. Sup!Living' = Sup!Living
    BY <2>1 DEF Sup!Living
  <2>3. watched' \subseteq Core
    BY <1>1 DEF CoreIInv, Sup!TypeOK
  <2> QED
    BY <1>1, <2>1, <2>2, <2>3 DEF CoreIInv, ProcUsed, Sup!TypeOK, Sup!SupervisorConstants, SpawnerSound,
                                  TargetSound, PlacesSound
<1> QED
  BY <1>3, <1>4

LEMMA SupervisorStutters == ASSUME CoreIInv, UNCHANGED Sup!vars PROVE CoreIInv'
<1>1. /\ transport' = transport /\ process' = process /\ proc' = proc /\ ipc' = ipc
      /\ healthChecker' = healthChecker /\ checking' = checking /\ watched' = watched
      /\ listening' = listening /\ place' = place /\ target' = target
      /\ restarting' = restarting /\ restarts' = restarts
  BY DEF Sup!vars, Sup!fields, Sup!health, Sup!counts
<1>2. Sup!Living' = Sup!Living
  BY <1>1 DEF Sup!Living
<1>3. Sup!TypeOK' /\ Sup!SupervisorConstants
  BY <1>1 DEF CoreIInv, Sup!TypeOK
<1>4. SpawnerSound' /\ TargetSound'
  BY <1>1, <1>2 DEF CoreIInv, SpawnerSound, TargetSound
<1>5. PlacesSound' /\ ProcUsed'
  BY <1>1 DEF CoreIInv, PlacesSound, ProcUsed
<1> QED
  BY <1>1, <1>2, <1>3, <1>4, <1>5 DEF CoreIInv, Sup!SupervisorConstants

LEMMA SupervisorStarts == ASSUME Sup!SupervisorConstants, Sup!Init PROVE CoreIInv
<1>1. Sup!Living = {}
  BY DEF Sup!Init, Sup!Living
<1>2. Sup!TypeOK
  <2>1. /\ process \in [Core -> Sup!ProcessState] /\ place \in [Sup!Caller -> Sup!Place]
        /\ target \in [Sup!Caller -> Core \cup {NoCore}]
    BY DEF Sup!Init, Sup!ProcessState, Sup!Place
  <2>2. restarts \in 0..MaxRestarts
    BY DEF Sup!Init, Sup!SupervisorConstants
  <2> QED
    BY <2>1, <2>2 DEF Sup!Init, Sup!TypeOK
<1>3. \A x \in Sup!Caller : place[x] = "idle"
  BY DEF Sup!Init
<1> QED
  BY <1>1, <1>2, <1>3, SupervisorFacts
     DEF CoreIInv, SpawnerSound, TargetSound, PlacesSound, ProcUsed, Sup!Init

\* Every step of the Supervisor and of its Core preserves the invariant.
LEMMA SupervisorStep == ASSUME CoreIInv, [Sup!Next]_(Sup!vars) PROVE CoreIInv'
<1>1. CASE Sup!Shutdown
  BY <1>1, ShutdownSound
<1>2. ASSUME NEW x \in Sup!Caller, Sup!Spawns(x) PROVE CoreIInv'
  BY <1>2, SpawnCoreSound, ServerListensSound, ListenFailsSound, CoreConnectsSound,
     ConnectTimesOutSound DEF Sup!Spawns
<1>3. ASSUME NEW x \in Sup!Caller, Sup!Kills(x) PROVE CoreIInv'
  BY <1>3, KillsSound
<1>4. ASSUME NEW c \in Core, Sup!Terminates(c) \/ Sup!Crashes(c) PROVE CoreIInv'
  <2>1. c \in Sup!Living /\ Sup!Exits(c)
    BY <1>4 DEF Sup!Terminates, Sup!Crashes, Sup!Living
  <2> QED
    BY <2>1, ExitsSound
<1>5. ASSUME NEW c \in Core, Sup!GoesMute(c) PROVE CoreIInv'
  BY <1>5, GoesMuteSound
<1>6. ASSUME NEW x \in Restarter, NEW c \in Core,
             Sup!CrashCallback(x, c) \/ Sup!HangCallback(x, c)
      PROVE  CoreIInv'
  BY <1>6, CallbackSound
<1>7. CASE UNCHANGED Sup!vars
  BY <1>7, SupervisorStutters
<1> QED
  BY <1>1, <1>2, <1>3, <1>4, <1>5, <1>6, <1>7 DEF Sup!Next

LEMMA OneCoreFollows == ASSUME CoreIInv PROVE SupervisorInv
<1>1. Sup!Living \subseteq {proc} /\ Sup!TypeOK
  BY DEF CoreIInv
<1> QED
  BY <1>1 DEF SupervisorInv, Sup!OneCore

\* The Supervisor: at most one Core process lives, and the Supervisor knows it,
\* however spawns, restarts, kills and the ends of processes interleave.
THEOREM OneCoreAlways == Sup!Spec => []SupervisorInv
<1>1. Sup!Init => CoreIInv
  BY InstancesFit, SupervisorStarts
<1>2. CoreIInv /\ [Sup!Next]_(Sup!vars) => CoreIInv'
  BY SupervisorStep
<1>3. CoreIInv => SupervisorInv
  BY OneCoreFollows
<1> QED
  BY <1>1, <1>2, <1>3, PTL DEF Sup!Spec

-----------------------------------------------------------------------------
(* The dead letter queue.                                                  *)

NoneTwice(seq) == \A i, j \in 1..Len(seq) : seq[i] = seq[j] => i = j

\* No letter is twice in memory or in the file, none in memory is taken, and all of
\* them were pushed.
LettersIInv ==
    /\ LettersInv
    /\ NoneTwice(entries) /\ NoneTwice(file)
    /\ Dlq!Range(entries) \cup Dlq!Range(file) \subseteq pushed
    /\ Dlq!Range(entries) \cap taken = {}

\* A suffix, place by place.
EndsWith(seq, whole) ==
    /\ Len(seq) <= Len(whole)
    /\ \A i \in 1..Len(seq) : seq[i] = whole[Len(whole) - Len(seq) + i]

LEMMA SuffixFacts ==
    ASSUME NEW S, NEW seq \in Seq(S), NEW whole \in Seq(S)
    PROVE  Dlq!IsSuffix(seq, whole) <=> EndsWith(seq, whole)
<1> DEFINE back(s) == [i \in 1..Len(s) |-> s[Len(s) - i + 1]]
<1>1. Dlq!IsSuffix(seq, whole) <=> Dlq!IsPrefix(back(seq), back(whole))
  BY DEF Dlq!IsSuffix, Dlq!Reverse
<1>2. /\ Len(seq) \in Nat /\ Len(whole) \in Nat
      /\ back(seq) \in Seq(S) /\ back(whole) \in Seq(S)
      /\ Len(back(seq)) = Len(seq) /\ Len(back(whole)) = Len(whole)
  OBVIOUS
<1>3. /\ \A i \in 1..Len(seq) : back(seq)[i] = seq[Len(seq) - i + 1]
      /\ \A i \in 1..Len(whole) : back(whole)[i] = whole[Len(whole) - i + 1]
  OBVIOUS
<1> HIDE DEF back
<1>4. ASSUME Len(seq) <= Len(whole)
      PROVE  SubSeq(back(seq), 1, Len(seq)) = SubSeq(back(whole), 1, Len(seq))
               <=> \A i \in 1..Len(seq) : back(seq)[i] = back(whole)[i]
  <2> DEFINE a == SubSeq(back(seq), 1, Len(seq))
             b == SubSeq(back(whole), 1, Len(seq))
  <2>1. /\ a \in Seq(S) /\ Len(a) = Len(seq)
        /\ \A i \in 1..Len(seq) : a[i] = back(seq)[i]
    BY <1>2, SubSeqProperties
  <2>2. /\ b \in Seq(S) /\ Len(b) = Len(seq)
        /\ \A i \in 1..Len(seq) : b[i] = back(whole)[i]
    BY <1>2, <1>4, SubSeqProperties
  <2> HIDE DEF a, b
  <2>3. a = b <=> \A i \in 1..Len(seq) : a[i] = b[i]
    BY <2>1, <2>2, SeqEqual
  <2> QED
    BY <2>1, <2>2, <2>3 DEF a, b
<1>5. Dlq!IsPrefix(back(seq), back(whole))
        <=> Len(seq) <= Len(whole) /\ \A i \in 1..Len(seq) : back(seq)[i] = back(whole)[i]
  BY <1>2, <1>4 DEF Dlq!IsPrefix
<1>6. ASSUME Len(seq) <= Len(whole)
      PROVE  (\A i \in 1..Len(seq) : back(seq)[i] = back(whole)[i]) <=>
             (\A i \in 1..Len(seq) : seq[i] = whole[Len(whole) - Len(seq) + i])
  <2>1. ASSUME \A i \in 1..Len(seq) : back(seq)[i] = back(whole)[i], NEW i \in 1..Len(seq)
        PROVE  seq[i] = whole[Len(whole) - Len(seq) + i]
    <3> DEFINE k == Len(seq) - i + 1
    <3>1. /\ k \in 1..Len(seq) /\ k \in 1..Len(whole) /\ Len(seq) - k + 1 = i
          /\ Len(whole) - k + 1 = Len(whole) - Len(seq) + i
      BY <1>2, <1>6
    <3> HIDE DEF k
    <3> QED
      BY <1>3, <2>1, <3>1
  <2>2. ASSUME \A i \in 1..Len(seq) : seq[i] = whole[Len(whole) - Len(seq) + i],
               NEW i \in 1..Len(seq)
        PROVE  back(seq)[i] = back(whole)[i]
    <3> DEFINE k == Len(seq) - i + 1
    <3>1. /\ k \in 1..Len(seq) /\ i \in 1..Len(whole)
          /\ Len(whole) - i + 1 = Len(whole) - Len(seq) + k
      BY <1>2, <1>6
    <3>2. seq[k] = whole[Len(whole) - Len(seq) + k]
      BY <2>2, <3>1
    <3> QED
      BY <1>3, <3>1, <3>2
  <2> QED
    BY <2>1, <2>2
<1> QED
  BY <1>1, <1>5, <1>6 DEF EndsWith

LEMMA RangeFacts ==
    ASSUME NEW S, NEW seq \in Seq(S)
    PROVE  /\ \A i \in 1..Len(seq) : seq[i] \in Dlq!Range(seq)
           /\ \A x \in Dlq!Range(seq) : \E i \in 1..Len(seq) : x = seq[i]
BY DEF Dlq!Range

\* The first entry leaves the memory, the others keep their places.
LEMMA TailSound ==
    ASSUME NEW S, NEW seq \in Seq(S), NoneTwice(seq), seq # << >>
    PROVE  /\ NoneTwice(Tail(seq)) /\ Head(seq) \notin Dlq!Range(Tail(seq))
           /\ Dlq!Range(Tail(seq)) \subseteq Dlq!Range(seq) /\ Head(seq) \in Dlq!Range(seq)
           /\ \A whole \in Seq(S) : EndsWith(seq, whole) => EndsWith(Tail(seq), whole)
<1>1. /\ Tail(seq) \in Seq(S) /\ Len(Tail(seq)) = Len(seq) - 1 /\ Len(seq) \in Nat \ {0}
      /\ \A i \in 1..Len(Tail(seq)) : Tail(seq)[i] = seq[i + 1] /\ i + 1 \in 2..Len(seq)
      /\ Head(seq) = seq[1]
  BY TailFacts
<1>2. NoneTwice(Tail(seq))
  BY <1>1 DEF NoneTwice
<1>3. \A x \in Dlq!Range(Tail(seq)) : \E i \in 1..Len(Tail(seq)) : x = Tail(seq)[i]
  BY <1>1, RangeFacts
<1>4. \A i \in 1..Len(seq) : seq[i] \in Dlq!Range(seq)
  BY RangeFacts
<1>5. Head(seq) \notin Dlq!Range(Tail(seq))
  BY <1>1, <1>3 DEF NoneTwice
<1>6. Dlq!Range(Tail(seq)) \subseteq Dlq!Range(seq) /\ Head(seq) \in Dlq!Range(seq)
  BY <1>1, <1>3, <1>4
<1>7. ASSUME NEW whole \in Seq(S), EndsWith(seq, whole) PROVE EndsWith(Tail(seq), whole)
  <2>1. Len(whole) \in Nat
    OBVIOUS
  <2> QED
    BY <1>1, <1>7, <2>1 DEF EndsWith
<1> QED
  BY <1>2, <1>5, <1>6, <1>7

\* A new entry comes last.
LEMMA AppendSound ==
    ASSUME NEW S, NEW seq \in Seq(S), NEW x \in S, NoneTwice(seq), x \notin Dlq!Range(seq)
    PROVE  /\ NoneTwice(Append(seq, x)) /\ Dlq!Range(Append(seq, x)) = Dlq!Range(seq) \cup {x}
<1>1. /\ Append(seq, x) \in Seq(S) /\ Len(Append(seq, x)) = Len(seq) + 1 /\ Len(seq) \in Nat
      /\ Append(seq, x)[Len(seq) + 1] = x
      /\ \A i \in 1..Len(seq) : Append(seq, x)[i] = seq[i]
  BY AppendedFacts
<1>2. \A i \in 1..Len(seq) : seq[i] # x
  BY RangeFacts
<1>3. NoneTwice(Append(seq, x))
  BY <1>1, <1>2 DEF NoneTwice
<1>4. Dlq!Range(Append(seq, x)) = Dlq!Range(seq) \cup {x}
  <2>1. /\ \A i \in 1..Len(seq) + 1 : Append(seq, x)[i] \in Dlq!Range(Append(seq, x))
        /\ \A y \in Dlq!Range(Append(seq, x)) : \E i \in 1..Len(seq) + 1 : y = Append(seq, x)[i]
    BY <1>1, RangeFacts
  <2>2. /\ \A i \in 1..Len(seq) : seq[i] \in Dlq!Range(seq)
        /\ \A y \in Dlq!Range(seq) : \E i \in 1..Len(seq) : y = seq[i]
    BY RangeFacts
  <2>3. \A i \in 1..Len(seq) + 1 : i \in 1..Len(seq) \/ i = Len(seq) + 1
    BY <1>1
  <2>4. Dlq!Range(Append(seq, x)) \subseteq Dlq!Range(seq) \cup {x}
    BY <1>1, <2>1, <2>2, <2>3
  <2>5. Dlq!Range(seq) \cup {x} \subseteq Dlq!Range(Append(seq, x))
    <3>1. Len(seq) + 1 \in 1..Len(seq) + 1 /\ \A i \in 1..Len(seq) : i \in 1..Len(seq) + 1
      BY <1>1
    <3> QED
      BY <1>1, <2>1, <2>2, <3>1
  <2> QED
    BY <2>4, <2>5
<1> QED
  BY <1>3, <1>4

LEMMA AppendEnds ==
    ASSUME NEW S, NEW seq \in Seq(S), NEW whole \in Seq(S), NEW x \in S, EndsWith(seq, whole)
    PROVE  EndsWith(Append(seq, x), Append(whole, x))
<1> DEFINE more == Append(seq, x)
           all == Append(whole, x)
           m == Len(seq)
           n == Len(whole)
<1>1. /\ Len(more) = m + 1 /\ m \in Nat /\ more[m + 1] = x
      /\ \A i \in 1..m : more[i] = seq[i]
      /\ Len(all) = n + 1 /\ n \in Nat /\ all[n + 1] = x
      /\ \A i \in 1..n : all[i] = whole[i]
  BY AppendedFacts
<1>2. m <= n /\ \A i \in 1..m : seq[i] = whole[n - m + i]
  BY DEF EndsWith
<1> HIDE DEF more, all, m, n
<1>3. \A i \in 1..m + 1 : more[i] = all[n + 1 - (m + 1) + i]
  <2> SUFFICES ASSUME NEW i \in 1..m + 1 PROVE more[i] = all[n + 1 - (m + 1) + i]
    OBVIOUS
  <2>1. CASE i \in 1..m
    <3>1. n + 1 - (m + 1) + i = n - m + i /\ n - m + i \in 1..n
      BY <1>1, <1>2, <2>1
    <3> QED
      BY <1>1, <1>2, <2>1, <3>1
  <2>2. CASE i = m + 1
    <3>1. n + 1 - (m + 1) + i = n + 1
      BY <1>1, <2>2
    <3> QED
      BY <1>1, <2>2, <3>1
  <2>3. i \in 1..m \/ i = m + 1
    BY <1>1
  <2> QED
    BY <2>1, <2>2, <2>3
<1>4. m + 1 <= n + 1
  BY <1>1, <1>2
<1> QED
  BY <1>1, <1>3, <1>4 DEF EndsWith, more, all

LEMMA PushSound ==
    ASSUME LettersIInv, NEW x \in Letter, Dlq!Push(x) PROVE LettersIInv'
<1> DEFINE kept == IF Len(entries) >= MaxSize THEN Tail(entries) ELSE entries
<1>1. /\ x \notin pushed /\ pushed' = pushed \cup {x} /\ taken' = taken
      /\ entries' = Append(kept, x)
      /\ (file' = Append(file, x) /\ intact' = intact) \/ (file' = file /\ intact' = FALSE)
  BY DEF Dlq!Push, Dlq!Appended
<1>2. /\ entries \in Seq(Letter) /\ file \in Seq(Letter) /\ intact \in BOOLEAN
      /\ taken \subseteq pushed /\ pushed \subseteq Letter
  BY DEF LettersIInv, LettersInv, Dlq!TypeOK
<1>3. /\ kept \in Seq(Letter) /\ NoneTwice(kept) /\ Dlq!Range(kept) \subseteq Dlq!Range(entries)
      /\ EndsWith(entries, file) => EndsWith(kept, file)
  <2>1. CASE kept = entries
    BY <1>2, <2>1 DEF LettersIInv
  <2>2. CASE kept = Tail(entries) /\ entries # << >>
    BY <1>2, <2>2, TailFacts, TailSound DEF LettersIInv
  <2>3. CASE kept = Tail(entries) /\ entries = << >>
    BY <2>1, <2>3
  <2> QED
    BY <2>1, <2>2, <2>3
<1> HIDE DEF kept
<1>4. x \notin Dlq!Range(kept) /\ x \notin Dlq!Range(file)
  BY <1>1, <1>3 DEF LettersIInv
<1>5. /\ entries' \in Seq(Letter) /\ NoneTwice(entries')
      /\ Dlq!Range(entries') = Dlq!Range(kept) \cup {x}
  BY <1>1, <1>3, <1>4, AppendedFacts, AppendSound
<1>6. /\ file' \in Seq(Letter) /\ NoneTwice(file')
      /\ Dlq!Range(file') \subseteq Dlq!Range(file) \cup {x}
  <2>1. NoneTwice(file)
    BY DEF LettersIInv
  <2>2. /\ Append(file, x) \in Seq(Letter) /\ NoneTwice(Append(file, x))
        /\ Dlq!Range(Append(file, x)) = Dlq!Range(file) \cup {x}
    BY <1>2, <1>4, <2>1, AppendedFacts, AppendSound
  <2> QED
    BY <1>1, <1>2, <2>1, <2>2
<1>7. Dlq!LettersKept'
  <2> SUFFICES ASSUME intact'
               PROVE  Dlq!IsSuffix(entries', file') /\ Dlq!Range(file') \cap taken' = {}
    BY DEF Dlq!LettersKept
  <2>1. intact /\ file' = Append(file, x)
    BY <1>1
  <2>2. EndsWith(kept, file) /\ Dlq!Range(file) \cap taken = {}
    BY <1>2, <1>3, <2>1, SuffixFacts DEF LettersIInv, LettersInv, Dlq!LettersKept
  <2>3. EndsWith(entries', file')
    BY <1>1, <1>2, <1>3, <2>1, <2>2, AppendEnds
  <2> QED
    BY <1>1, <1>2, <1>5, <1>6, <2>2, <2>3, SuffixFacts
<1>8. Dlq!TypeOK'
  BY <1>1, <1>2, <1>5, <1>6 DEF Dlq!TypeOK
<1> QED
  BY <1>1, <1>2, <1>3, <1>5, <1>6, <1>7, <1>8 DEF LettersIInv, LettersInv

\* The file is written with what stays in memory, or as it was.
LEMMA RewrittenSound ==
    ASSUME LettersIInv, NEW lines \in Seq(Letter), NoneTwice(lines),
           Dlq!Range(lines) \subseteq Dlq!Range(entries), Dlq!Range(lines) \cap taken' = {},
           entries' = lines, Dlq!Rewritten(lines), pushed' = pushed,
           taken' \subseteq pushed
    PROVE  LettersIInv'
<1>1. (file' = lines /\ intact' = TRUE) \/ (file' = file /\ intact' = FALSE)
  BY DEF Dlq!Rewritten
<1>2. Dlq!LettersKept'
  <2> SUFFICES ASSUME intact'
               PROVE  Dlq!IsSuffix(entries', file') /\ Dlq!Range(file') \cap taken' = {}
    BY DEF Dlq!LettersKept
  <2>1. EndsWith(lines, lines)
    BY DEF EndsWith
  <2> QED
    BY <1>1, <2>1, SuffixFacts
<1>3. Dlq!TypeOK'
  BY <1>1 DEF LettersIInv, LettersInv, Dlq!TypeOK
<1> QED
  BY <1>1, <1>2, <1>3 DEF LettersIInv, LettersInv

LEMMA EmptyFacts ==
    << >> \in Seq(Letter) /\ NoneTwice(<< >>) /\ Dlq!Range(<< >>) = {}
BY DEF NoneTwice, Dlq!Range

LEMMA PopSound == ASSUME LettersIInv, Dlq!Pop PROVE LettersIInv'
<1>1. /\ entries # << >> /\ entries' = Tail(entries) /\ Dlq!Rewritten(Tail(entries))
      /\ taken' = taken \cup {Head(entries)} /\ pushed' = pushed
  BY DEF Dlq!Pop
<1>2. entries \in Seq(Letter) /\ NoneTwice(entries) /\ taken \subseteq pushed
  BY DEF LettersIInv, LettersInv, Dlq!TypeOK
<1>3. /\ Tail(entries) \in Seq(Letter) /\ NoneTwice(Tail(entries))
      /\ Head(entries) \notin Dlq!Range(Tail(entries))
      /\ Dlq!Range(Tail(entries)) \subseteq Dlq!Range(entries) /\ Head(entries) \in Dlq!Range(entries)
  BY <1>1, <1>2, TailFacts, TailSound
<1>4. Dlq!Range(Tail(entries)) \cap taken' = {} /\ taken' \subseteq pushed
  BY <1>1, <1>2, <1>3 DEF LettersIInv
<1> QED
  BY <1>1, <1>3, <1>4, RewrittenSound

LEMMA ClearSound == ASSUME LettersIInv, Dlq!Clear PROVE LettersIInv'
<1>1. /\ entries' = << >> /\ Dlq!Rewritten(<< >>) /\ taken' = taken \cup Dlq!Range(entries)
      /\ pushed' = pushed
  BY DEF Dlq!Clear
<1>2. taken' \subseteq pushed
  BY <1>1 DEF LettersIInv, LettersInv, Dlq!TypeOK
<1> QED
  BY <1>1, <1>2, EmptyFacts, RewrittenSound

LEMMA RestartSound == ASSUME LettersIInv, Dlq!Restart PROVE LettersIInv'
<1>1. /\ entries' = file /\ taken' = taken \ Dlq!Range(file) /\ file' = file
      /\ intact' = intact /\ pushed' = pushed
  BY DEF Dlq!Restart
<1>2. file \in Seq(Letter)
  BY DEF LettersIInv, LettersInv, Dlq!TypeOK
<1>3. Dlq!IsSuffix(file, file)
  BY <1>2, SuffixFacts DEF EndsWith
<1>4. Dlq!LettersKept'
  BY <1>1, <1>3 DEF Dlq!LettersKept
<1>5. Dlq!TypeOK'
  BY <1>1 DEF LettersIInv, LettersInv, Dlq!TypeOK
<1> QED
  BY <1>1, <1>4, <1>5 DEF LettersIInv, LettersInv, NoneTwice

LEMMA LettersStep == ASSUME LettersIInv, [Dlq!Next]_(Dlq!dlqVars) PROVE LettersIInv'
<1>1. CASE UNCHANGED Dlq!dlqVars
  <2>1. /\ entries' = entries /\ file' = file /\ intact' = intact /\ pushed' = pushed
        /\ taken' = taken
    BY <1>1 DEF Dlq!dlqVars
  <2> QED
    BY <2>1 DEF LettersIInv, LettersInv, Dlq!TypeOK, Dlq!LettersKept, NoneTwice
<1> QED
  BY <1>1, PushSound, PopSound, ClearSound, RestartSound DEF Dlq!Next

LEMMA LettersStart == Dlq!Init => LettersIInv
<1> SUFFICES ASSUME Dlq!Init PROVE LettersIInv
  OBVIOUS
<1>1. Dlq!IsSuffix(<< >>, << >>)
  <2>1. EndsWith(<< >>, << >>)
    BY DEF EndsWith
  <2> QED
    BY <2>1, EmptyFacts, SuffixFacts
<1> QED
  BY <1>1, EmptyFacts
     DEF Dlq!Init, LettersIInv, LettersInv, Dlq!TypeOK, Dlq!LettersKept

\* The dead letter queue: while its file could be written, a restart gives back what
\* is in memory, in its order, and no letter that was taken.
THEOREM LettersAlwaysKept == Dlq!Spec => []LettersInv
<1>1. LettersIInv => LettersInv
  BY DEF LettersIInv
<1> QED
  BY <1>1, LettersStart, LettersStep, PTL DEF Dlq!Spec

=============================================================================
