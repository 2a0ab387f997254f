------------------------------ MODULE EventLog ------------------------------
(***************************************************************************)
(* The event logs of an agents team (_events.jsonl): every process appends *)
(* lines, the coordinator tails the file at an interval.  The timer does   *)
(* not wait for the tail before, so that reads overlap, and the offset is  *)
(* one field of the coordinator.                                           *)
(*                                                                         *)
(* Files: agents/events.ts, atomicJsonlAppend of agents/fs-atomic.ts, the  *)
(* tail half of agents/coordinator.ts.                                     *)
(***************************************************************************)
EXTENDS Naturals, FiniteSets

CONSTANTS
    Tailer,     \* bound: tails in progress at a time
    MaxLines    \* bound: lines appended

ASSUME LogAssumption == MaxLines \in Nat

VARIABLES
    lines,      \* number of lines of the file
    offset,     \* mailboxTailOffset
    tail,       \* tailer -> where it is
    emitted     \* history: line -> times it was given to the sink, 2 at most

logVars == <<lines, offset, tail, emitted>>

Line == 1..MaxLines
NoTail == [pc |-> "idle", read |-> 0, next |-> 0]
TailState == [pc : {"idle", "read", "emit"}, read : 0..MaxLines,
              next : 0..MaxLines + 1]

LogInit ==
    /\ lines = 0
    /\ offset = 0
    /\ tail = [t \in Tailer |-> NoTail]
    /\ emitted = [n \in Line |-> 0]

-----------------------------------------------------------------------------

AppendLine ==
    /\ lines < MaxLines
    /\ lines' = lines + 1
    /\ UNCHANGED <<offset, tail, emitted>>

(* readFile: the content is that of some moment before the tail goes on.   *)
TailRead(t) ==
    /\ tail[t].pc = "idle"
    /\ tail' = [tail EXCEPT ![t] = [NoTail EXCEPT !.pc = "read", !.read = lines]]
    /\ UNCHANGED <<lines, offset, emitted>>

\* Faulty: the lines that came since the read are skipped.
TailSkips(t) ==
    /\ tail[t].pc = "read"
    /\ tail' = [tail EXCEPT ![t].pc = "emit", ![t].next = offset + 1]
    /\ offset' = lines
    /\ UNCHANGED <<lines, emitted>>

(* The lines from the offset on are taken, and the offset set to what was  *)
(* read, even if another tail has set it further meanwhile.                *)
TailTake(t) ==
    /\ tail[t].pc = "read"
    /\ tail' = [tail EXCEPT ![t].pc = "emit", ![t].next = offset + 1]
    /\ offset' = tail[t].read
    /\ UNCHANGED <<lines, emitted>>

(* Each line's message is looked up, then its event goes to the sink.      *)
TailEmit(t) ==
    /\ tail[t].pc = "emit"
    /\ IF tail[t].next <= tail[t].read
       THEN /\ emitted' = [emitted EXCEPT ![tail[t].next] = IF @ = 0 THEN 1 ELSE 2]
            /\ tail' = [tail EXCEPT ![t].next = @ + 1]
       ELSE /\ tail' = [tail EXCEPT ![t] = NoTail]
            /\ UNCHANGED emitted
    /\ UNCHANGED <<lines, offset>>

TailNext(t) == TailRead(t) \/ TailTake(t) \/ TailEmit(t)
LogNext == AppendLine \/ \E t \in Tailer : TailNext(t)

-----------------------------------------------------------------------------
(* Properties *)

(* No event is lost: a line before the offset was given to the sink, or a  *)
(* tail has taken it and will, whatever the order in which overlapping     *)
(* reads come back (coordinator.ts:716-727).                               *)
NoEventSkipped ==
    \A n \in 1..offset :
        \/ emitted[n] > 0
        \/ \E t \in Tailer : /\ tail[t].pc = "emit"
                             /\ tail[t].next <= n /\ n <= tail[t].read

=============================================================================
