------------------------------- MODULE Mailbox -------------------------------
(***************************************************************************)
(* The inboxes of an agents team: one JSON file per message in one of the  *)
(* directories new, processing, cur and dead of its addressee, moved with  *)
(* rename() and rewritten with tmp+rename.  Readers (the command line, the *)
(* MCP tools, the chat loop and the lead's inbox broker) claim a message   *)
(* by moving it and then write a claim token into it; housekeeping moves   *)
(* what was not acknowledged in time back.  Nothing is locked: one action  *)
(* is one file operation with the code up to the next await.               *)
(*                                                                         *)
(* Files: agents/store.ts (messages), agents/fs-atomic.ts, the mailbox     *)
(* half of agents/housekeeping.ts and agents/lead-inbox-broker.ts.         *)
(***************************************************************************)
EXTENDS Naturals, Sequences, FiniteSets

CONSTANTS
    Member,         \* members of the team: one inbox each
    Msg,            \* message ids
    To,             \* the inboxes a message is written to, one after another
    Reader,         \* processes that receive messages
    Inbox,          \* the member each reader reads for
    Broker,         \* the readers that are the lead's inbox broker
    Housekeeper,    \* callers of housekeepMailbox
    NoToken, Absent, NoCopy,
    Sends,          \* bound: the sets of copies that are sent
    Batch,          \* max of a recv, batchSize of the broker
    MaxAttempts,    \* MAX_DELIVERY_ATTEMPTS
    MaxSummary,     \* DEFAULT_BROKER_MAX_SUMMARY_ENTRIES
    MaxLate,        \* bound: messages left unread, and calls stuck half way,
                    \* for longer than the TTL
    MaxCrashes      \* bound: calls that are killed half way

(* A message is a file of its own in every inbox it is written to. *)
Copy == {c \in Member \X Msg : c[1] \in To[c[2]]}

ASSUME MailAssumption ==
    /\ To \in [Msg -> SUBSET Member]
    /\ NoCopy \notin Copy
    /\ Sends \subseteq SUBSET Copy
    /\ MaxAttempts \in Nat \ {0}
    /\ Batch \in Nat \ {0}
    /\ MaxSummary \in Nat \ {0}
    /\ {MaxLate, MaxCrashes} \subseteq Nat
ASSUME MailActorAssumption ==
    /\ NoToken \notin Reader
    /\ Inbox \in [Reader -> Member]
    /\ Broker \subseteq Reader

VARIABLES
    box,        \* directory -> copy -> content of the file, or Absent
    unsent,     \* copies their sender has not written yet
    reader,     \* reader -> the call it is in
    keeper,     \* housekeeper -> the file it is at
    stopped,    \* brokers that were told to stop
    entries,    \* broker -> summary entries in memory
    summary,    \* broker -> inbox-summary.json
    late, crashes,
    delivered,  \* history: copies that were written to new/
    acked       \* history: copies an acknowledgement answered true for

fileVars == <<box, unsent, delivered>>
brokerVars == <<stopped, entries, summary>>
boundVars == <<late, crashes>>
vars == <<box, unsent, reader, keeper, stopped, entries, summary, late,
          crashes, delivered, acked>>

-----------------------------------------------------------------------------
(* Types *)

Dir == {"new", "processing", "cur", "dead"}

(* delivery_attempt and claim_token as written; old says that the mtime of *)
(* the file, and with it the expiry of its token, is further back than the *)
(* TTL.  A token stands for the claim of a reader: it never uses the one   *)
(* of a call before.                                                       *)
Content == [attempt : 1..MaxAttempts, token : Reader \cup {NoToken},
            old : BOOLEAN]

(* A file that is not there has no content.                               *)
ASSUME AbsentAssumption == Absent \notin Content

ReaderPc == {"idle", "listed", "read", "found", "taken", "moved", "holding",
             "scanning", "acking"}
ReaderState == [pc : ReaderPc, todo : SUBSET Copy, at : Copy \cup {NoCopy},
                mem : Content \cup {Absent}, got : SUBSET Copy]
KeeperState == [pc : {"idle", "listed", "stale", "requeue", "back", "kill"},
                todo : SUBSET Copy, at : Copy \cup {NoCopy},
                mem : Content \cup {Absent}]

IdleReader == [pc |-> "idle", todo |-> {}, at |-> NoCopy, mem |-> Absent,
               got |-> {}]
IdleKeeper == [pc |-> "idle", todo |-> {}, at |-> NoCopy, mem |-> Absent]

In(d, c) == box[d][c] # Absent
Files(d, i) == {c \in Copy : c[1] = i /\ In(d, c)}

(* atomicJsonWrite: the file exists afterwards, whatever happened to it. *)
Write(d, c, content) == [box EXCEPT ![d][c] = content]

(* rename() keeps the mtime and replaces a file of that name. *)
Rename(from, to, c) ==
    [box EXCEPT ![from][c] = Absent, ![to][c] = box[from][c]]

Min2(a, b) == IF a < b THEN a ELSE b
LastOf(s, n) == SubSeq(s, Len(s) - Min2(n, Len(s)) + 1, Len(s))

Init ==
    /\ box = [d \in Dir |-> [c \in Copy |-> Absent]]
    /\ unsent \in Sends
    /\ reader = [r \in Reader |-> IdleReader]
    /\ keeper = [h \in Housekeeper |-> IdleKeeper]
    /\ stopped = {}
    /\ entries = [b \in Broker |-> <<>>]
    /\ summary = [b \in Broker |-> <<>>]
    /\ late = 0
    /\ crashes = 0
    /\ delivered = {}
    /\ acked = {}

-----------------------------------------------------------------------------
(* Senders: deliverMessage writes one copy; broadcastMessage writes one    *)
(* after another, and may be killed before the last.                       *)

Deliver(c) ==
    /\ c \in unsent
    /\ box' = Write("new", c, [attempt |-> 1, token |-> NoToken, old |-> FALSE])
    /\ unsent' = unsent \ {c}
    /\ delivered' = delivered \cup {c}
    /\ UNCHANGED <<reader, keeper, acked, brokerVars, boundVars>>

SenderKilled(m) ==
    /\ crashes < MaxCrashes
    /\ \E c \in unsent : c[2] = m
    /\ unsent' = {c \in unsent : c[2] # m}
    /\ crashes' = crashes + 1
    /\ UNCHANGED <<box, delivered, reader, keeper, acked, late, brokerVars>>

-----------------------------------------------------------------------------
(* Readers: recvMessages with claim *)

Step(r, state) == reader' = [reader EXCEPT ![r] = state]

(* What follows a file of the list: the next one, or the result. *)
NextFile(s) == [s EXCEPT !.pc = IF s.todo # {} THEN "listed" ELSE
                                IF s.got # {} THEN "holding" ELSE "idle",
                         !.at = NoCopy, !.mem = Absent]

RecvList(r) ==
    /\ reader[r].pc = "idle"
    /\ r \notin stopped
    /\ \E list \in SUBSET Files("new", Inbox[r]) :
        /\ list # {}
        /\ Cardinality(list) = Min2(Batch, Cardinality(Files("new", Inbox[r])))
        /\ Step(r, [IdleReader EXCEPT !.pc = "listed", !.todo = list])
    /\ UNCHANGED <<keeper, acked, fileVars, brokerVars, boundVars>>

RecvRead(r, c) ==
    /\ reader[r].pc = "listed"
    /\ c \in reader[r].todo
    /\ LET s == [reader[r] EXCEPT !.todo = @ \ {c}]
       IN  IF In("new", c)
           THEN Step(r, [s EXCEPT !.pc = "read", !.at = c,
                                  !.mem = box["new"][c]])
           ELSE Step(r, NextFile(s))
    /\ UNCHANGED <<keeper, acked, fileVars, brokerVars, boundVars>>

RecvRename(r) ==
    /\ reader[r].pc = "read"
    /\ LET c == reader[r].at
       IN  \/ /\ In("new", c)
              /\ box' = Rename("new", "processing", c)
              /\ Step(r, [reader[r] EXCEPT !.pc = "moved"])
           \/ /\ ~In("new", c)
              /\ Step(r, NextFile(reader[r]))
              /\ UNCHANGED box
    /\ UNCHANGED <<unsent, delivered, keeper, acked, brokerVars, boundVars>>

(* The token goes into the content read before the rename. *)
TokenWrite(r) ==
    /\ reader[r].pc = "moved"
    /\ LET s == reader[r]
       IN  /\ box' = Write("processing", s.at,
                           [s.mem EXCEPT !.token = r, !.old = FALSE])
           /\ Step(r, NextFile([s EXCEPT !.got = @ \cup {s.at}]))
    /\ UNCHANGED <<unsent, delivered, keeper, acked, brokerVars, boundVars>>

(* claimMessage: the rename comes first, then the content is read; when it *)
(* is gone the caller gets a token that no file holds.                     *)
ClaimFind(r, c) ==
    /\ reader[r].pc = "idle"
    /\ r \notin Broker
    /\ c \in Files("new", Inbox[r])
    /\ Step(r, [IdleReader EXCEPT !.pc = "found", !.at = c])
    /\ UNCHANGED <<keeper, acked, fileVars, brokerVars, boundVars>>

ClaimRename(r) ==
    /\ reader[r].pc = "found"
    /\ LET c == reader[r].at
       IN  \/ /\ In("new", c)
              /\ box' = Rename("new", "processing", c)
              /\ Step(r, [reader[r] EXCEPT !.pc = "taken"])
           \/ /\ ~In("new", c)
              /\ Step(r, IdleReader)
              /\ UNCHANGED box
    /\ UNCHANGED <<unsent, delivered, keeper, acked, brokerVars, boundVars>>

ClaimRead(r) ==
    /\ reader[r].pc = "taken"
    /\ LET s == reader[r]
       IN  IF In("processing", s.at)
           THEN Step(r, [s EXCEPT !.pc = "moved",
                                  !.mem = box["processing"][s.at]])
           ELSE Step(r, NextFile([s EXCEPT !.got = {s.at}]))
    /\ UNCHANGED <<keeper, acked, fileVars, brokerVars, boundVars>>

-----------------------------------------------------------------------------
(* Acknowledgements: ackMessageByClaimToken reads processing/ for a file   *)
(* with the token, ackMessage looks for the message id; then the file      *)
(* found is moved to cur/, whatever it contains by then.                   *)

AckByToken(r, c) ==
    /\ reader[r].pc = "scanning"
    /\ c = reader[r].at
    /\ LET s == reader[r]
           file == box["processing"][c]
       IN  IF In("processing", c) /\ file.token = r /\ ~file.old
           THEN Step(r, [s EXCEPT !.pc = "acking"])
           ELSE Step(r, [s EXCEPT !.pc = "holding", !.at = NoCopy])
    /\ UNCHANGED <<keeper, acked, fileVars, brokerVars, boundVars>>

AckById(r, c) ==
    /\ reader[r].pc = "scanning"
    /\ r \notin Broker
    /\ c = reader[r].at
    /\ In("processing", c)
    /\ Step(r, [reader[r] EXCEPT !.pc = "acking"])
    /\ UNCHANGED <<keeper, acked, fileVars, brokerVars, boundVars>>

\* Faulty: the failed rename is answered with true.
UncheckedAck(r) ==
    /\ reader[r].pc = "acking"
    /\ LET c == reader[r].at
       IN  /\ box' = IF In("processing", c) THEN Rename("processing", "cur", c) ELSE box
           /\ acked' = acked \cup {c}
           /\ Step(r, [reader[r] EXCEPT !.pc = "holding", !.at = NoCopy])
    /\ UNCHANGED <<unsent, delivered, keeper, brokerVars, boundVars>>

AckRename(r) ==
    /\ reader[r].pc = "acking"
    /\ LET c == reader[r].at
       IN  /\ \/ /\ In("processing", c)
                 /\ box' = Rename("processing", "cur", c)
                 /\ acked' = acked \cup {c}
              \/ /\ ~In("processing", c)
                 /\ UNCHANGED <<box, acked>>
           /\ Step(r, [reader[r] EXCEPT !.pc = "holding", !.at = NoCopy])
    /\ UNCHANGED <<unsent, delivered, keeper, brokerVars, boundVars>>

(* A member's agent acknowledges what it received, or forgets about it. *)
AckStart(r, c) ==
    /\ reader[r].pc = "holding"
    /\ r \notin Broker
    /\ c \in reader[r].got
    /\ Step(r, [reader[r] EXCEPT !.pc = "scanning", !.at = c,
                                 !.got = @ \ {c}])
    /\ UNCHANGED <<keeper, acked, fileVars, brokerVars, boundVars>>

Forget(r) ==
    /\ reader[r].pc = "holding"
    /\ r \notin Broker
    /\ Step(r, IdleReader)
    /\ UNCHANGED <<keeper, acked, fileVars, brokerVars, boundVars>>

ReaderKilled(r) ==
    /\ crashes < MaxCrashes
    /\ reader[r].pc # "idle"
    /\ r \notin Broker
    /\ Step(r, IdleReader)
    /\ crashes' = crashes + 1
    /\ UNCHANGED <<keeper, acked, late, fileVars, brokerVars>>

-----------------------------------------------------------------------------
(* LeadInboxBroker.poll: an entry is pushed, then the message acknowledged *)
(* by its token, one after another; the summary is written at the end of   *)
(* the batch.  A stop is noticed before the next message.                  *)

BrokerNext(b, c) ==
    /\ b \in Broker \ stopped
    /\ reader[b].pc = "holding"
    /\ c \in reader[b].got
    /\ entries' = [entries EXCEPT ![b] = Append(@, c)]
    /\ Step(b, [reader[b] EXCEPT !.pc = "scanning", !.at = c,
                                 !.got = @ \ {c}])
    /\ UNCHANGED <<keeper, acked, stopped, summary, fileVars, boundVars>>

BrokerLeaves(b) ==
    /\ b \in Broker \cap stopped
    /\ reader[b].pc = "holding"
    /\ reader[b].got # {}
    /\ Step(b, IdleReader)
    /\ UNCHANGED <<keeper, acked, fileVars, brokerVars, boundVars>>

WriteSummary(b) ==
    /\ b \in Broker
    /\ reader[b].pc = "holding"
    /\ reader[b].got = {}
    /\ entries' = [entries EXCEPT ![b] = LastOf(@, MaxSummary)]
    /\ summary' = [summary EXCEPT ![b] = entries'[b]]
    /\ Step(b, IdleReader)
    /\ UNCHANGED <<keeper, acked, stopped, fileVars, boundVars>>

BrokerStop(b) ==
    /\ b \in Broker \ stopped
    /\ stopped' = stopped \cup {b}
    /\ UNCHANGED <<reader, keeper, acked, entries, summary, fileVars,
                   boundVars>>

-----------------------------------------------------------------------------
(* housekeepMailbox: the files of one inbox after another *)

KeeperStep(h, state) == keeper' = [keeper EXCEPT ![h] = state]

KeeperNext(k) ==
    [IdleKeeper EXCEPT !.todo = k.todo,
                       !.pc = IF k.todo # {} THEN "listed" ELSE "idle"]

KeepList(h, i) ==
    /\ keeper[h].pc = "idle"
    /\ Files("processing", i) # {}
    /\ KeeperStep(h, [IdleKeeper EXCEPT !.pc = "listed",
                                        !.todo = Files("processing", i)])
    /\ UNCHANGED <<reader, acked, fileVars, brokerVars, boundVars>>

(* stat: only a file whose mtime is past the TTL is looked at. *)
KeepStat(h, c) ==
    /\ keeper[h].pc = "listed"
    /\ c \in keeper[h].todo
    /\ LET k == [keeper[h] EXCEPT !.todo = @ \ {c}]
       IN  IF In("processing", c) /\ box["processing"][c].old
           THEN KeeperStep(h, [k EXCEPT !.pc = "stale", !.at = c])
           ELSE KeeperStep(h, KeeperNext(k))
    /\ UNCHANGED <<reader, acked, fileVars, brokerVars, boundVars>>

KeepRead(h) ==
    /\ keeper[h].pc = "stale"
    /\ LET k == keeper[h]
           file == box["processing"][k.at]
       IN  IF In("processing", k.at)
           THEN KeeperStep(h, [k EXCEPT !.mem = file,
                    !.pc = IF file.attempt + 1 > MaxAttempts THEN "kill"
                                                            ELSE "requeue"])
           ELSE KeeperStep(h, KeeperNext(k))
    /\ UNCHANGED <<reader, acked, fileVars, brokerVars, boundVars>>

(* The file is written, even when it was moved away since it was read. *)
KeepWrite(h) ==
    /\ keeper[h].pc = "requeue"
    /\ LET k == keeper[h]
       IN  /\ box' = Write("processing", k.at,
                           [k.mem EXCEPT !.attempt = @ + 1, !.token = NoToken,
                                         !.old = FALSE])
           /\ KeeperStep(h, [k EXCEPT !.pc = "back"])
    /\ UNCHANGED <<unsent, delivered, reader, acked, brokerVars, boundVars>>

KeepMove(h) ==
    /\ keeper[h].pc \in {"back", "kill"}
    /\ LET k == keeper[h]
           to == IF k.pc = "back" THEN "new" ELSE "dead"
       IN  /\ box' = IF In("processing", k.at)
                     THEN Rename("processing", to, k.at) ELSE box
           /\ KeeperStep(h, KeeperNext(k))
    /\ UNCHANGED <<unsent, delivered, reader, acked, brokerVars, boundVars>>

KeeperKilled(h) ==
    /\ crashes < MaxCrashes
    /\ keeper[h].pc # "idle"
    /\ KeeperStep(h, IdleKeeper)
    /\ crashes' = crashes + 1
    /\ UNCHANGED <<reader, acked, late, fileVars, brokerVars>>

-----------------------------------------------------------------------------
(* The TTL of a file runs out.  Ten minutes are long for a message that    *)
(* somebody is to read and for a call, except MaxLate times.               *)

MidCall(c) ==
    \/ \E r \in Reader :
          /\ reader[r].at = c
          /\ reader[r].pc \notin {"idle", "listed", "holding"}
    \/ \E h \in Housekeeper : keeper[h].at = c

Age(d, c) ==
    /\ In(d, c)
    /\ ~box[d][c].old
    /\ IF d = "new" \/ MidCall(c) THEN late < MaxLate /\ late' = late + 1
                                 ELSE UNCHANGED late
    /\ box' = [box EXCEPT ![d][c].old = TRUE]
    /\ UNCHANGED <<unsent, delivered, reader, keeper, acked, crashes,
                   brokerVars>>

ReaderNext(r) ==
    \/ RecvRename(r) \/ TokenWrite(r)
    \/ ClaimRename(r) \/ ClaimRead(r)
    \/ AckRename(r)
    \/ \E c \in Copy : RecvRead(r, c) \/ AckByToken(r, c)

KeeperRun(h) ==
    \/ \E c \in Copy : KeepStat(h, c)
    \/ KeepRead(h) \/ KeepWrite(h) \/ KeepMove(h)

BrokerRun(b) ==
    \/ \E c \in Copy : BrokerNext(b, c)
    \/ BrokerLeaves(b) \/ WriteSummary(b)

Next ==
    \/ \E c \in Copy : Deliver(c)
    \/ \E m \in Msg : SenderKilled(m)
    \/ \E r \in Reader : ReaderNext(r) \/ RecvList(r) \/ Forget(r)
                         \/ ReaderKilled(r)
    \/ \E r \in Reader, c \in Copy : ClaimFind(r, c) \/ AckStart(r, c)
                                    \/ AckById(r, c)
    \/ \E b \in Broker : BrokerRun(b) \/ BrokerStop(b)
    \/ \E h \in Housekeeper : KeeperRun(h) \/ KeeperKilled(h)
    \/ \E h \in Housekeeper, i \in Member : KeepList(h, i)
    \/ \E d \in {"new", "processing"}, c \in Copy : Age(d, c)

Spec == Init /\ [][Next]_vars

-----------------------------------------------------------------------------
(* Properties *)

TypeOK ==
    /\ box \in [Dir -> [Copy -> Content \cup {Absent}]]
    /\ unsent \subseteq Copy
    /\ reader \in [Reader -> ReaderState]
    /\ keeper \in [Housekeeper -> KeeperState]
    /\ stopped \subseteq Broker
    /\ entries \in [Broker -> Seq(Copy)]
    /\ summary \in [Broker -> Seq(Copy)]
    /\ late \in 0..MaxLate
    /\ crashes \in 0..MaxCrashes
    /\ {delivered, acked} \subseteq SUBSET Copy

(* A message that was delivered is in one of the directories of the inbox  *)
(* whatever readers, housekeepers and crashes come together                *)
(* (housekeeping.ts:119-137, store.ts:399-423), and one whose              *)
(* acknowledgement was answered is in cur/.                                *)
NothingLost ==
    /\ \A c \in delivered : \E d \in Dir : In(d, c)
    /\ \A c \in acked : In("cur", c)

(* Where somebody still reads the inbox, every message that was delivered  *)
(* ends in cur/ or dead/ and no copy of it goes round any more, although   *)
(* no member has to acknowledge anything: delivery_attempt counts up to    *)
(* the limit (housekeeping.ts:88-117).                                     *)
Settled ==
    \A c \in delivered :
        (\E r \in Reader \ stopped : Inbox[r] = c[1])
        => /\ ~In("new", c) /\ ~In("processing", c)
           /\ In("cur", c) \/ In("dead", c)

=============================================================================
