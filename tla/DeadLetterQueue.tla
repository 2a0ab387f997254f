--------------------------- MODULE DeadLetterQueue ---------------------------
(***************************************************************************)
(* The dead letter queue with a persistDir (scheduler/dlq.ts): a bounded   *)
(* list in memory and a file of lines, written synchronously after each    *)
(* change, read when the process starts.                                   *)
(***************************************************************************)
EXTENDS Naturals, SequencesExt

CONSTANTS
    Letter,   \* the entries that are ever pushed
    MaxSize

\* What an instance has to assume of its constants.
DlqConstants == MaxSize \in Nat \ {0}

VARIABLES
    entries,  \* DeadLetterQueue.entries
    file,     \* the lines of dlq.jsonl
    intact,   \* history: every write of the file succeeded since it was last whole
    pushed,   \* history: the letters pushed so far
    taken     \* history: the letters popped or cleared and not given back by a restart

dlqVars == <<entries, file, intact, pushed, taken>>

TypeOK ==
    /\ entries \in Seq(Letter) /\ file \in Seq(Letter)
    /\ intact \in BOOLEAN
    /\ taken \subseteq pushed /\ pushed \subseteq Letter

Init == entries = << >> /\ file = << >> /\ intact = TRUE /\ pushed = {} /\ taken = {}

\* appendEntry and rewriteFile log a failure and go on with the file as it is.
Appended(x) == \/ file' = Append(file, x) /\ intact' = intact
               \/ file' = file /\ intact' = FALSE

Rewritten(lines) == \/ file' = lines /\ intact' = TRUE
                    \/ file' = file /\ intact' = FALSE

\* push: a full queue drops its oldest entry, from memory alone.
Push(x) ==
    /\ x \notin pushed
    /\ pushed' = pushed \cup {x}
    /\ entries' = Append(IF Len(entries) >= MaxSize THEN Tail(entries) ELSE entries, x)
    /\ Appended(x)
    /\ UNCHANGED taken

\* Faulty: only the memory changes.
PopInMemory ==
    /\ entries # << >>
    /\ entries' = Tail(entries)
    /\ taken' = taken \cup {Head(entries)}
    /\ UNCHANGED <<pushed, file, intact>>

Pop ==
    /\ entries # << >>
    /\ entries' = Tail(entries)
    /\ Rewritten(Tail(entries))
    /\ taken' = taken \cup {Head(entries)}
    /\ UNCHANGED pushed

Clear ==
    /\ entries' = << >>
    /\ Rewritten(<< >>)
    /\ taken' = taken \cup Range(entries)
    /\ UNCHANGED pushed

\* The process ends and another one loads the file, with the entries that had been
\* dropped from memory and without regard to maxSize.
Restart ==
    /\ entries' = file
    /\ taken' = taken \ Range(file)
    /\ UNCHANGED <<file, intact, pushed>>

Next == Pop \/ Clear \/ Restart \/ \E x \in Letter : Push(x)

Spec == Init /\ [][Next]_dlqVars

\* As long as the file could be written, a restart gives back every letter that is in
\* memory, in its order, and none that has been taken: what it gives back besides
\* are letters that were dropped from a full queue.
LettersKept ==
    intact => IsSuffix(entries, file) /\ Range(file) \cap taken = {}
=============================================================================
