----------------------------- MODULE MessageLink -----------------------------
(***************************************************************************)
(* What a link promises to those who write and read messages, whatever the *)
(* bytes look like: messages leave the way in the order in which they were *)
(* sent, each is received at most once and in that order, and one that     *)
(* leaves the way without being received is excused.  Channel implements   *)
(* it.                                                                     *)
(***************************************************************************)
EXTENDS Naturals, SequencesExt

CONSTANT Msg

VARIABLES
    sent,       \* the messages sent so far, in order
    way,        \* those that are neither received nor lost
    received,   \* the messages received so far, in order
    excused,    \* the messages that may be lost
    state       \* "open", "ended" by the sender, or "closed" by the receiver

vars == <<sent, way, received, excused, state>>

Init ==
    /\ sent = <<>> /\ way = {} /\ received = <<>>
    /\ excused \in SUBSET Msg
    /\ state = "open"

Precedes(m, n) == \E i, k \in DOMAIN sent : i < k /\ sent[i] = m /\ sent[k] = n

\* Whether a message is excused is settled when it is sent.
Send(m) ==
    /\ state = "open" /\ m \notin ToSet(sent)
    /\ sent' = Append(sent, m)
    /\ way' = way \cup {m}
    /\ excused' \in {excused, excused \cup {m}}
    /\ UNCHANGED <<received, state>>

\* What a step adds to the received messages.
New == SubSeq(received', Len(received) + 1, Len(received'))

\* The first messages of the way leave it: all of them are received that are
\* not excused.
Receive(gone) ==
    /\ state # "closed" /\ gone # {}
    /\ \A m \in gone, n \in way \ gone : Precedes(m, n)
    /\ way' = way \ gone
    /\ received' = received \o New
    /\ \A i, k \in DOMAIN New : i < k => Precedes(New[i], New[k])
    /\ ToSet(New) \subseteq gone /\ gone \ excused \subseteq ToSet(New)
    /\ UNCHANGED <<sent, excused, state>>

\* The sender ends; later the receiver does, or at once.
End ==
    /\ state = "open" /\ state' = "ended"
    /\ UNCHANGED <<sent, way, received, excused>>

Close ==
    /\ state # "closed" /\ state' = "closed"
    /\ UNCHANGED <<sent, way, received, excused>>

Next ==
    \/ \E m \in Msg : Send(m)
    \/ \E gone \in SUBSET way : Receive(gone)
    \/ End \/ Close

Spec == Init /\ [][Next]_vars
=============================================================================
