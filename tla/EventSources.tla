---------------------------- MODULE EventSources ----------------------------
(***************************************************************************)
(* The event sources of the daemon (daemon/events) and the buffer that     *)
(* mergeEventSources puts between them and the event loop.                 *)
(*                                                                         *)
(* A source is an async generator that its own loop in mergeEventSources   *)
(* pulls without a pause, so the step from an event that a source yields   *)
(* to its place in the buffer is one turn.  What takes time is what a      *)
(* source waits for: a timer, a batch of file changes, the body of a       *)
(* request, the end of a command.                                          *)
(***************************************************************************)
EXTENDS Integers, FiniteSets, SequencesExt

CONSTANTS
    Source,
    Kind,          \* "cron", "interval", "fswatch", "webhook" or "command"
    Always,        \* the command sources with trigger_on "always"
    Change,        \* the changes of files that can be reported
    Output,        \* what a command can print
    NoOutput,      \* lastOutput of a command that has not run
    BufferSize,    \* maxBufferSize
    MaxTime,       \* bound of the clock
    MaxEvents      \* bound: how many events are emitted before stop()

ASSUME SourcesAssumption ==
    /\ IsFiniteSet(Source)
    /\ Kind \in [Source -> {"cron", "interval", "fswatch", "webhook", "command"}]
    /\ Always \subseteq Source
    /\ NoOutput \notin Output /\ "" \in Output
    /\ BufferSize \in Nat \ {0} /\ MaxTime \in Nat /\ MaxEvents \in Nat

VARIABLES
    clock,       \* Date.now()
    generator,   \* per source: "off", "waiting", "running" a command, "ended"
    pending,     \* FSWatchSource.pendingChanges
    batchTimer,  \* FSWatchSource.batchTimer is set
    reading,     \* per webhook source, the requests whose body is being read
    lastOutput,  \* CommandSource.lastOutput
    buffer,      \* the buffer of mergeEventSources
    emitted,     \* history: how many events the sources have yielded
    dropped      \* history: the number of the last event dropped by a full buffer

sourceVars == <<generator, pending, batchTimer, reading, lastOutput, buffer, emitted, dropped>>

\* An event, with a number that tells the order in which they were yielded.
Event == [source: Source, time: 0..MaxTime, number: Nat \ {0}]

SourcesTypeOK ==
    /\ clock \in 0..MaxTime
    /\ generator \in [Source -> {"off", "waiting", "running", "ended"}]
    /\ pending \in [Source -> SUBSET Change]
    /\ batchTimer \in [Source -> BOOLEAN]
    /\ reading \in [Source -> 0..MaxEvents]
    /\ lastOutput \in [Source -> Output \cup {NoOutput}]
    /\ buffer \in Seq(Event) /\ Len(buffer) <= BufferSize
    /\ emitted \in Nat /\ dropped \in 0..emitted

SourcesInit ==
    /\ clock = 0
    /\ generator = [s \in Source |-> "off"]
    /\ pending = [s \in Source |-> {}]
    /\ batchTimer = [s \in Source |-> FALSE]
    /\ reading = [s \in Source |-> 0]
    /\ lastOutput = [s \in Source |-> NoOutput]
    /\ buffer = << >>
    /\ emitted = 0 /\ dropped = 0

Live(s) == generator[s] \in {"waiting", "running"}

----------------------------------------------------------------------------
(* The buffer.                                                             *)

\* A full buffer drops its oldest event.
Push(event) ==
    IF Len(buffer) >= BufferSize
    THEN /\ buffer' = Append(Tail(buffer), event)
         /\ dropped' = Head(buffer).number
    ELSE buffer' = Append(buffer, event) /\ UNCHANGED dropped

\* The source yields an event.
Yield(s) ==
    /\ emitted < MaxEvents
    /\ emitted' = emitted + 1
    /\ Push([source |-> s, time |-> clock, number |-> emitted + 1])

YieldNothing == UNCHANGED <<emitted, buffer, dropped>>

----------------------------------------------------------------------------
(* The sources.                                                            *)

\* mergeEventSources calls the generators: commands run at once.
Subscribed ==
    [s \in Source |-> IF Kind[s] = "command" THEN "running" ELSE "waiting"]

\* The timer of an interval, or of the next time of a cron schedule, expires.
TimerExpires(s) ==
    /\ Kind[s] \in {"interval", "cron"} /\ generator[s] = "waiting"
    /\ Yield(s)
    /\ UNCHANGED <<clock, generator, pending, batchTimer, reading, lastOutput>>

\* computeNextFire finds no date and throws: the source has ended.
NoNextFire(s) ==
    /\ Kind[s] = "cron" /\ generator[s] = "waiting"
    /\ generator' = [generator EXCEPT ![s] = "ended"]
    /\ YieldNothing
    /\ UNCHANGED <<clock, pending, batchTimer, reading, lastOutput>>

\* handleFSEvent of a change that passes the filters.
FileChanges(s, change) ==
    /\ Kind[s] = "fswatch" /\ generator[s] = "waiting"
    /\ change \notin pending[s]
    /\ pending' = [pending EXCEPT ![s] = @ \cup {change}]
    /\ batchTimer' = [batchTimer EXCEPT ![s] = TRUE]
    /\ YieldNothing
    /\ UNCHANGED <<clock, generator, reading, lastOutput>>

\* The batch timer: flushBatch.
FlushBatch(s) ==
    /\ batchTimer[s]
    /\ batchTimer' = [batchTimer EXCEPT ![s] = FALSE]
    /\ pending' = [pending EXCEPT ![s] = {}]
    /\ IF pending[s] # {} THEN Yield(s) ELSE YieldNothing
    /\ UNCHANGED <<clock, generator, reading, lastOutput>>

\* A request reaches a route that is registered; its body is read.
RequestArrives(s) ==
    /\ Kind[s] = "webhook" /\ generator[s] = "waiting"
    /\ emitted + reading[s] < MaxEvents
    /\ reading' = [reading EXCEPT ![s] = @ + 1]
    /\ YieldNothing
    /\ UNCHANGED <<clock, generator, pending, batchTimer, lastOutput>>

\* The rest of handleRequest.  A request that is refused yields nothing; the event
\* of one that is accepted after stop() stays in a buffer nobody reads.
RequestRead(s) ==
    /\ reading[s] > 0
    /\ reading' = [reading EXCEPT ![s] = @ - 1]
    /\ \/ YieldNothing
       \/ generator[s] = "waiting" /\ Yield(s)
    /\ UNCHANGED <<clock, generator, pending, batchTimer, lastOutput>>

\* The command ends, or runs into its timeout, which counts as "" being printed.
\* The first output is emitted as the baseline.
CommandEnds(s, output) ==
    /\ generator[s] = "running"
    /\ lastOutput' = [lastOutput EXCEPT ![s] = output]
    /\ generator' = [generator EXCEPT ![s] = "waiting"]
    /\ IF s \in Always \/ output # lastOutput[s] THEN Yield(s) ELSE YieldNothing
    /\ UNCHANGED <<clock, pending, batchTimer, reading>>

CommandStarts(s) ==
    /\ Kind[s] = "command" /\ generator[s] = "waiting"
    /\ generator' = [generator EXCEPT ![s] = "running"]
    /\ YieldNothing
    /\ UNCHANGED <<clock, pending, batchTimer, reading, lastOutput>>

\* Faulty: stop() clears the batch timer and leaves the changes.
UnflushedStop ==
    /\ generator' = [s \in Source |-> "ended"]
    /\ batchTimer' = [s \in Source |-> FALSE]
    /\ YieldNothing
    /\ UNCHANGED <<pending, reading, lastOutput>>

\* stop() of every source.  The changes of a batch that is open are emitted, every
\* generator returns, and a running command is killed.
StopSources ==
    LET open == {s \in Source : batchTimer[s] /\ pending[s] # {} /\ Live(s)}
        late == SetToSeq(open)
        events == [i \in DOMAIN late |->
                      [source |-> late[i], time |-> clock, number |-> emitted + i]]
        all == buffer \o events
        over == Len(all) - BufferSize
    IN /\ emitted' = emitted + Len(late)
       /\ buffer' = IF over > 0 THEN SubSeq(all, over + 1, Len(all)) ELSE all
       /\ dropped' = IF over > 0 THEN all[over].number ELSE dropped
       /\ generator' = [s \in Source |-> "ended"]
       /\ pending' = [s \in Source |-> {}]
       /\ batchTimer' = [s \in Source |-> FALSE]
       /\ UNCHANGED <<reading, lastOutput>>

SourceStep(s) ==
    \/ TimerExpires(s) \/ NoNextFire(s) \/ FlushBatch(s)
    \/ RequestArrives(s) \/ RequestRead(s) \/ CommandStarts(s)
    \/ \E change \in Change : FileChanges(s, change)
    \/ \E output \in Output : CommandEnds(s, output)

----------------------------------------------------------------------------
(* Properties.                                                             *)

\* Events wait in the order in which they were yielded, and what a full buffer gave
\* up is older than all it holds.
NewestKept ==
    /\ \A i, k \in DOMAIN buffer : i < k => buffer[i].number < buffer[k].number
    /\ \A i \in DOMAIN buffer : dropped < buffer[i].number

\* Changes that were reported never wait without a timer that will emit them, and
\* stop() leaves none behind.
NoChangeStranded ==
    \A s \in Source : pending[s] # {} => batchTimer[s] /\ generator[s] = "waiting"

SourcesInv == SourcesTypeOK /\ NewestKept /\ NoChangeStranded
=============================================================================
