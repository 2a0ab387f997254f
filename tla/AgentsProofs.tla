---------------------------- MODULE AgentsProofs ----------------------------
(***************************************************************************)
(* Proofs about the agents' team: the mailbox keeps every message, the log *)
(* of the events is read without a gap, and the coordinator runs no member *)
(* twice.  Each part has an inductive invariant of its own (MailInv,       *)
(* LogInv, TeamIInv), and one lemma per group of actions shows that they   *)
(* keep it.                                                                *)
(***************************************************************************)
EXTENDS Mailbox, EventLog, Team, FiniteSetTheorems, SequenceTheorems, TLAPS

-----------------------------------------------------------------------------
(* Mailbox                                                                   *)

\* A call that is at a file has its name, and content that it will write back
\* is content that a message may have.
CallsSound ==
    /\ \A r \in Reader :
          /\ reader[r].pc \notin {"idle", "listed", "holding"} => reader[r].at \in Copy
          /\ reader[r].pc \in {"read", "moved"} => reader[r].mem \in Content
    /\ \A h \in Housekeeper :
          /\ keeper[h].pc \notin {"idle", "listed"} => keeper[h].at \in Copy
          /\ keeper[h].pc = "requeue" =>
                keeper[h].mem \in Content /\ keeper[h].mem.attempt < MaxAttempts

MailInv == TypeOK /\ CallsSound /\ NothingLost

\* No file operation removes the last file of a message, and none takes one out
\* of cur/.
FilesKept ==
    /\ box' \in [Dir -> [Copy -> Content \cup {Absent}]]
    /\ \A c \in Copy :
          /\ (\E d \in Dir : In(d, c)) => \E d \in Dir : In(d, c)'
          /\ In("cur", c) => In("cur", c)'

\* A file that is written stays, as do all the others.
LEMMA WriteKeeps ==
    ASSUME TypeOK, NEW d \in Dir, NEW c \in Copy, NEW content \in Content,
           box' = Write(d, c, content)
    PROVE  FilesKept /\ In(d, c)'
<1>1. box \in [Dir -> [Copy -> Content \cup {Absent}]]
  BY DEF TypeOK
<1>2. \A e \in Dir, x \in Copy :
         box'[e][x] = IF e = d /\ x = c THEN content ELSE box[e][x]
  BY <1>1 DEF Write
<1>3. content # Absent
  BY AbsentAssumption
<1>4. \A e \in Dir, x \in Copy : In(e, x) => In(e, x)'
  BY <1>2, <1>3 DEF In
<1>5. box' \in [Dir -> [Copy -> Content \cup {Absent}]]
  BY <1>1 DEF Write
<1>6. In(d, c)'
  BY <1>2, <1>3 DEF In
<1> QED
  BY <1>4, <1>5, <1>6 DEF FilesKept, Dir

\* A rename leaves the message in the directory it went to.
LEMMA RenameKeeps ==
    ASSUME TypeOK, NEW from \in Dir \ {"cur"}, NEW to \in Dir \ {from}, NEW c \in Copy,
           In(from, c), box' = Rename(from, to, c)
    PROVE  FilesKept /\ In(to, c)'
<1>1. box \in [Dir -> [Copy -> Content \cup {Absent}]]
  BY DEF TypeOK
<1>2. \A e \in Dir, x \in Copy :
         box'[e][x] = IF x # c THEN box[e][x]
                      ELSE IF e = to THEN box[from][c]
                      ELSE IF e = from THEN Absent ELSE box[e][x]
  BY <1>1 DEF Rename
<1>3. In(to, c)'
  BY <1>2 DEF In
<1>4. \A e \in Dir, x \in Copy : x # c /\ In(e, x) => In(e, x)'
  BY <1>2 DEF In
<1>5. In("cur", c) => In("cur", c)'
  BY <1>2, <1>3 DEF In, Dir
<1>6. box' \in [Dir -> [Copy -> Content \cup {Absent}]]
  BY <1>1 DEF Rename
<1> QED
  BY <1>3, <1>4, <1>5, <1>6 DEF FilesKept, Dir

LEMMA NothingChanged == ASSUME TypeOK, box' = box PROVE FilesKept
BY DEF TypeOK, FilesKept, In

\* Then nothing is lost, if what was acknowledged meanwhile is in cur/.
LEMMA KeptNothingLost ==
    ASSUME MailInv, FilesKept,
           \A c \in delivered' : c \in delivered \/ \E d \in Dir : In(d, c)',
           \A c \in acked' : c \in acked \/ In("cur", c)'
    PROVE  NothingLost'
BY DEF MailInv, TypeOK, FilesKept, NothingLost, In

LEMMA LastOfType ==
    ASSUME NEW S, NEW s \in Seq(S), NEW n \in Nat
    PROVE  LastOf(s, n) \in Seq(S)
<1>1. Len(s) \in Nat /\ Min2(n, Len(s)) \in 0..Len(s)
  BY DEF Min2
<1>2. Len(s) - Min2(n, Len(s)) + 1 \in 1..Len(s) + 1
  BY <1>1
<1> QED
  BY <1>1, <1>2, SubSeqProperties DEF LastOf

\* Sends: a file is written to tmp/, then renamed to new/.
LEMMA SenderSteps ==
    ASSUME MailInv, (\E c \in Copy : Deliver(c)) \/ \E m \in Msg : SenderKilled(m)
    PROVE  MailInv'
<1> USE DEF fileVars, brokerVars, boundVars
<1>0. TypeOK /\ CallsSound
  BY DEF MailInv
<1>1. ASSUME NEW c \in Copy, Deliver(c) PROVE MailInv'
  <2>1. [attempt |-> 1, token |-> NoToken, old |-> FALSE] \in Content
    BY MailAssumption DEF Content
  <2>2. FilesKept /\ In("new", c)'
    BY <1>0, <1>1, <2>1, WriteKeeps DEF Deliver, Dir
  <2>3. NothingLost'
    BY <1>1, <2>2, KeptNothingLost DEF Deliver, Dir
  <2>4. TypeOK'
    BY <1>0, <1>1, <2>2 DEF Deliver, TypeOK, FilesKept
  <2>5. CallsSound'
    BY <1>0, <1>1 DEF Deliver, CallsSound
  <2> QED
    BY <2>3, <2>4, <2>5 DEF MailInv
<1>2. ASSUME NEW m \in Msg, SenderKilled(m) PROVE MailInv'
  <2>1. NothingLost'
    BY <1>0, <1>2, NothingChanged, KeptNothingLost DEF SenderKilled
  <2>2. TypeOK'
    BY <1>0, <1>2, MailAssumption DEF SenderKilled, TypeOK
  <2>3. CallsSound'
    BY <1>0, <1>2 DEF SenderKilled, CallsSound
  <2> QED
    BY <2>1, <2>2, <2>3 DEF MailInv
<1> QED
  BY <1>1, <1>2

\* A reader's turn leaves the other calls alone; what is left is its own record
\* and the files.
ReaderSound(s) ==
    /\ s \in ReaderState
    /\ s.pc \notin {"idle", "listed", "holding"} => s.at \in Copy
    /\ s.pc \in {"read", "moved"} => s.mem \in Content

ReaderTurn(r) ==
    /\ \E s : ReaderSound(s) /\ Step(r, s)
    /\ FilesKept
    /\ \A c \in acked' : c \in acked \/ In("cur", c)'
    /\ acked' \subseteq Copy
    /\ entries' \in [Broker -> Seq(Copy)] /\ summary' \in [Broker -> Seq(Copy)]
    /\ crashes' \in 0..MaxCrashes
    /\ UNCHANGED <<unsent, delivered, keeper, stopped, late>>

\* A turn of a reader keeps the invariant.
LEMMA ReaderTurnKeeps ==
    ASSUME MailInv, NEW r \in Reader, ReaderTurn(r)
    PROVE  MailInv'
<1>0. TypeOK /\ CallsSound
  BY DEF MailInv
<1>1. PICK s : ReaderSound(s) /\ Step(r, s)
  BY DEF ReaderTurn
<1>2. TypeOK'
  BY <1>0, <1>1 DEF ReaderTurn, TypeOK, FilesKept, ReaderSound, Step
<1>3. CallsSound'
  BY <1>0, <1>1 DEF ReaderTurn, TypeOK, CallsSound, ReaderSound, Step
<1>4. NothingLost'
  BY KeptNothingLost DEF ReaderTurn
<1> QED
  BY <1>2, <1>3, <1>4 DEF MailInv

LEMMA IdleSound == ReaderSound(IdleReader)
BY DEF ReaderSound, IdleReader, ReaderState, ReaderPc

LEMMA NextFileSound ==
    ASSUME NEW s \in ReaderState
    PROVE  ReaderSound(NextFile(s))
BY DEF ReaderSound, NextFile, ReaderState, ReaderPc

\* Receiving: each operation of a reader on a file is such a turn.
LEMMA RecvSteps ==
    ASSUME MailInv, NEW r \in Reader,
           \/ RecvList(r) \/ RecvRename(r) \/ TokenWrite(r) \/ ClaimRename(r)
           \/ ClaimRead(r) \/ Forget(r) \/ ReaderKilled(r)
           \/ \E c \in Copy : RecvRead(r, c) \/ ClaimFind(r, c)
    PROVE  ReaderTurn(r)
<1> USE DEF fileVars, brokerVars, boundVars
<1>0. TypeOK /\ CallsSound /\ reader[r] \in ReaderState
  BY DEF MailInv, TypeOK
<1>1. UNCHANGED box => FilesKept
  BY <1>0, NothingChanged
<1>2. UNCHANGED <<acked, entries, summary>> =>
         /\ \A c \in acked' : c \in acked
         /\ acked' \subseteq Copy
         /\ entries' \in [Broker -> Seq(Copy)] /\ summary' \in [Broker -> Seq(Copy)]
  BY <1>0 DEF TypeOK
<1>3. crashes \in 0..MaxCrashes
  BY <1>0 DEF TypeOK
<1>4. CASE RecvList(r)
  <2>1. PICK list \in SUBSET Files("new", Inbox[r]) :
           Step(r, [IdleReader EXCEPT !.pc = "listed", !.todo = list])
    BY <1>4 DEF RecvList
  <2>2. ReaderSound([IdleReader EXCEPT !.pc = "listed", !.todo = list])
    BY <2>1 DEF ReaderSound, IdleReader, ReaderState, ReaderPc, Files
  <2> QED
    BY <1>1, <1>2, <1>3, <1>4, <2>1, <2>2 DEF RecvList, ReaderTurn
<1>5. ASSUME NEW c \in Copy, RecvRead(r, c) PROVE ReaderTurn(r)
  <2> DEFINE s == [reader[r] EXCEPT !.todo = @ \ {c}]
  <2>1. s \in ReaderState
    BY <1>0 DEF ReaderState
  <2>2. CASE In("new", c)
    <3>1. box["new"][c] \in Content
      BY <1>0, <2>2 DEF TypeOK, In, Dir
    <3>2. ReaderSound([s EXCEPT !.pc = "read", !.at = c, !.mem = box["new"][c]])
      BY <2>1, <3>1 DEF ReaderSound, ReaderState, ReaderPc
    <3> QED
      BY <1>1, <1>2, <1>3, <1>5, <2>2, <3>2 DEF RecvRead, ReaderTurn
  <2>3. CASE ~In("new", c)
    BY <1>1, <1>2, <1>3, <1>5, <2>1, <2>3, NextFileSound DEF RecvRead, ReaderTurn
  <2> QED
    BY <2>2, <2>3
<1>6. CASE RecvRename(r)
  <2> DEFINE c == reader[r].at
  <2>1. c \in Copy /\ reader[r].mem \in Content
    BY <1>0, <1>6 DEF RecvRename, CallsSound
  <2>2. CASE In("new", c) /\ box' = Rename("new", "processing", c)
             /\ Step(r, [reader[r] EXCEPT !.pc = "moved"])
    <3>1. FilesKept
      BY <1>0, <2>1, <2>2, RenameKeeps DEF Dir
    <3>2. ReaderSound([reader[r] EXCEPT !.pc = "moved"])
      BY <1>0, <2>1 DEF ReaderSound, ReaderState, ReaderPc
    <3> QED
      BY <1>2, <1>3, <1>6, <2>2, <3>1, <3>2 DEF RecvRename, ReaderTurn
  <2>3. CASE ~In("new", c) /\ Step(r, NextFile(reader[r])) /\ UNCHANGED box
    BY <1>0, <1>1, <1>2, <1>3, <1>6, <2>3, NextFileSound DEF RecvRename, ReaderTurn
  <2> QED
    BY <1>6, <2>2, <2>3 DEF RecvRename
<1>7. CASE TokenWrite(r)
  <2> DEFINE s == reader[r]
             content == [s.mem EXCEPT !.token = r, !.old = FALSE]
             next == [s EXCEPT !.got = @ \cup {s.at}]
  <2>1. s.at \in Copy /\ s.mem \in Content
    BY <1>0, <1>7 DEF TokenWrite, CallsSound
  <2>2. content \in Content
    BY <2>1 DEF Content
  <2>3. FilesKept
    BY <1>0, <1>7, <2>1, <2>2, WriteKeeps DEF TokenWrite, Dir
  <2>4. next \in ReaderState
    BY <1>0, <2>1 DEF ReaderState
  <2> QED
    BY <1>2, <1>3, <1>7, <2>3, <2>4, NextFileSound DEF TokenWrite, ReaderTurn
<1>8. ASSUME NEW c \in Copy, ClaimFind(r, c) PROVE ReaderTurn(r)
  <2>1. ReaderSound([IdleReader EXCEPT !.pc = "found", !.at = c])
    BY DEF ReaderSound, IdleReader, ReaderState, ReaderPc
  <2> QED
    BY <1>1, <1>2, <1>3, <1>8, <2>1 DEF ClaimFind, ReaderTurn
<1>9. CASE ClaimRename(r)
  <2> DEFINE c == reader[r].at
  <2>1. c \in Copy
    BY <1>0, <1>9 DEF ClaimRename, CallsSound
  <2>2. CASE In("new", c) /\ box' = Rename("new", "processing", c)
             /\ Step(r, [reader[r] EXCEPT !.pc = "taken"])
    <3>1. FilesKept
      BY <1>0, <2>1, <2>2, RenameKeeps DEF Dir
    <3>2. ReaderSound([reader[r] EXCEPT !.pc = "taken"])
      BY <1>0, <2>1 DEF ReaderSound, ReaderState, ReaderPc
    <3> QED
      BY <1>2, <1>3, <1>9, <2>2, <3>1, <3>2 DEF ClaimRename, ReaderTurn
  <2>3. CASE ~In("new", c) /\ Step(r, IdleReader) /\ UNCHANGED box
    BY <1>1, <1>2, <1>3, <1>9, <2>3, IdleSound DEF ClaimRename, ReaderTurn
  <2> QED
    BY <1>9, <2>2, <2>3 DEF ClaimRename
<1>10. CASE ClaimRead(r)
  <2> DEFINE s == reader[r]
  <2>1. s.at \in Copy
    BY <1>0, <1>10 DEF ClaimRead, CallsSound
  <2>2. CASE In("processing", s.at)
    <3>1. box["processing"][s.at] \in Content
      BY <1>0, <2>1, <2>2 DEF TypeOK, In, Dir
    <3>2. ReaderSound([s EXCEPT !.pc = "moved", !.mem = box["processing"][s.at]])
      BY <1>0, <2>1, <3>1 DEF ReaderSound, ReaderState, ReaderPc
    <3> QED
      BY <1>1, <1>2, <1>3, <1>10, <2>2, <3>2 DEF ClaimRead, ReaderTurn
  <2>3. CASE ~In("processing", s.at)
    <3>1. [s EXCEPT !.got = {s.at}] \in ReaderState
      BY <1>0, <2>1 DEF ReaderState
    <3> QED
      BY <1>1, <1>2, <1>3, <1>10, <2>3, <3>1, NextFileSound DEF ClaimRead, ReaderTurn
  <2> QED
    BY <2>2, <2>3
<1>11. CASE Forget(r) \/ ReaderKilled(r)
  <2>1. crashes' \in 0..MaxCrashes
    BY <1>3, <1>11, MailAssumption DEF Forget, ReaderKilled
  <2> QED
    BY <1>1, <1>2, <1>11, <2>1, IdleSound DEF Forget, ReaderKilled, ReaderTurn
<1> QED
  BY <1>4, <1>5, <1>6, <1>7, <1>8, <1>9, <1>10, <1>11

\* So are those of an acknowledgement, which moves the file to cur/,
LEMMA AckSteps ==
    ASSUME MailInv, NEW r \in Reader,
           AckRename(r) \/ \E c \in Copy : AckByToken(r, c) \/ AckById(r, c) \/ AckStart(r, c)
    PROVE  ReaderTurn(r)
<1> USE DEF fileVars, brokerVars, boundVars
<1>0. TypeOK /\ CallsSound /\ reader[r] \in ReaderState
  BY DEF MailInv, TypeOK
<1>1. UNCHANGED box => FilesKept
  BY <1>0, NothingChanged
<1>2. /\ entries \in [Broker -> Seq(Copy)] /\ summary \in [Broker -> Seq(Copy)]
      /\ crashes \in 0..MaxCrashes /\ acked \subseteq Copy
      /\ acked' = acked => acked' \subseteq Copy /\ \A c \in acked' : c \in acked
  BY <1>0 DEF TypeOK
<1>3. ReaderSound([reader[r] EXCEPT !.pc = "holding", !.at = NoCopy])
  BY <1>0 DEF ReaderSound, ReaderState, ReaderPc
<1>4. CASE AckRename(r)
  <2>1. PICK c \in Copy : c = reader[r].at
    BY <1>0, <1>4 DEF AckRename, CallsSound
  <2>2. CASE In("processing", c) /\ box' = Rename("processing", "cur", c)
             /\ acked' = acked \cup {c}
    <3>1. FilesKept /\ In("cur", c)'
      BY <1>0, <2>1, <2>2, RenameKeeps DEF Dir
    <3> QED
      BY <1>2, <1>3, <1>4, <2>1, <2>2, <3>1 DEF AckRename, ReaderTurn
  <2>3. CASE UNCHANGED <<box, acked>>
    BY <1>1, <1>2, <1>3, <1>4, <2>3 DEF AckRename, ReaderTurn
  <2> QED
    BY <1>4, <2>1, <2>2, <2>3 DEF AckRename
<1>5. ASSUME NEW c \in Copy, c = reader[r].at
      PROVE  ReaderSound([reader[r] EXCEPT !.pc = "acking"])
  BY <1>0, <1>5 DEF ReaderSound, ReaderState, ReaderPc
<1>6. ASSUME NEW c \in Copy, AckByToken(r, c) PROVE ReaderTurn(r)
  BY <1>1, <1>2, <1>3, <1>5, <1>6 DEF AckByToken, ReaderTurn
<1>7. ASSUME NEW c \in Copy, AckById(r, c) PROVE ReaderTurn(r)
  BY <1>1, <1>2, <1>5, <1>7 DEF AckById, ReaderTurn
<1>8. ASSUME NEW c \in Copy, AckStart(r, c) PROVE ReaderTurn(r)
  <2>1. ReaderSound([reader[r] EXCEPT !.pc = "scanning", !.at = c, !.got = @ \ {c}])
    BY <1>0 DEF ReaderSound, ReaderState, ReaderPc
  <2> QED
    BY <1>1, <1>2, <1>8, <2>1 DEF AckStart, ReaderTurn
<1> QED
  BY <1>4, <1>6, <1>7, <1>8

\* and those of the lead's broker.
LEMMA BrokerSteps ==
    ASSUME MailInv, NEW b \in Broker, BrokerRun(b)
    PROVE  b \in Reader /\ ReaderTurn(b)
<1> USE DEF fileVars, brokerVars, boundVars
<1>0. TypeOK /\ b \in Reader /\ reader[b] \in ReaderState
  BY MailActorAssumption DEF MailInv, TypeOK
<1>1. UNCHANGED box => FilesKept
  BY <1>0, NothingChanged
<1>2. /\ entries \in [Broker -> Seq(Copy)] /\ summary \in [Broker -> Seq(Copy)]
      /\ crashes \in 0..MaxCrashes /\ acked \subseteq Copy
      /\ acked' = acked => acked' \subseteq Copy /\ \A c \in acked' : c \in acked
  BY <1>0 DEF TypeOK
<1>3. ASSUME NEW c \in Copy, BrokerNext(b, c) PROVE ReaderTurn(b)
  <2>1. ReaderSound([reader[b] EXCEPT !.pc = "scanning", !.at = c, !.got = @ \ {c}])
    BY <1>0 DEF ReaderSound, ReaderState, ReaderPc
  <2>2. entries' \in [Broker -> Seq(Copy)]
    BY <1>2, <1>3 DEF BrokerNext
  <2> QED
    BY <1>1, <1>2, <1>3, <2>1, <2>2 DEF BrokerNext, ReaderTurn
<1>4. ASSUME BrokerLeaves(b) PROVE ReaderTurn(b)
  BY <1>0, <1>1, <1>2, <1>4, IdleSound DEF BrokerLeaves, ReaderTurn
<1>5. ASSUME WriteSummary(b) PROVE ReaderTurn(b)
  <2>1. LastOf(entries[b], MaxSummary) \in Seq(Copy)
    BY <1>2, LastOfType, MailAssumption
  <2>2. entries' \in [Broker -> Seq(Copy)] /\ summary' \in [Broker -> Seq(Copy)]
    BY <1>2, <1>5, <2>1 DEF WriteSummary
  <2> QED
    BY <1>0, <1>1, <1>2, <1>5, <2>2, IdleSound DEF WriteSummary, ReaderTurn
<1> QED
  BY <1>0, <1>3, <1>4, <1>5 DEF BrokerRun

\* The same for housekeeping.
KeeperSound(k) ==
    /\ k \in KeeperState
    /\ k.pc \notin {"idle", "listed"} => k.at \in Copy
    /\ k.pc = "requeue" => k.mem \in Content /\ k.mem.attempt < MaxAttempts

KeeperTurn(h) ==
    /\ \E k : KeeperSound(k) /\ KeeperStep(h, k)
    /\ FilesKept
    /\ crashes' \in 0..MaxCrashes
    /\ UNCHANGED <<unsent, delivered, reader, acked, late, brokerVars>>

\* A turn of the housekeeping keeps the invariant.
LEMMA KeeperTurnKeeps ==
    ASSUME MailInv, NEW h \in Housekeeper, KeeperTurn(h)
    PROVE  MailInv'
<1> USE DEF brokerVars
<1>0. TypeOK /\ CallsSound
  BY DEF MailInv
<1>1. PICK k : KeeperSound(k) /\ KeeperStep(h, k)
  BY DEF KeeperTurn
<1>2. TypeOK'
  BY <1>0, <1>1 DEF KeeperTurn, TypeOK, FilesKept, KeeperSound, KeeperStep
<1>3. CallsSound'
  BY <1>0, <1>1 DEF KeeperTurn, TypeOK, CallsSound, KeeperSound, KeeperStep
<1>4. NothingLost'
  BY KeptNothingLost DEF KeeperTurn
<1> QED
  BY <1>2, <1>3, <1>4 DEF MailInv

LEMMA KeeperNextSound ==
    ASSUME NEW k \in KeeperState
    PROVE  KeeperSound(KeeperNext(k))
BY DEF KeeperSound, KeeperNext, IdleKeeper, KeeperState

\* Each of its operations, and its end by a kill, is such a turn.
LEMMA KeeperSteps ==
    ASSUME MailInv, NEW h \in Housekeeper,
           KeeperRun(h) \/ KeeperKilled(h) \/ \E i \in Member : KeepList(h, i)
    PROVE  KeeperTurn(h)
<1> USE DEF fileVars, boundVars
<1>0. TypeOK /\ CallsSound /\ keeper[h] \in KeeperState /\ crashes \in 0..MaxCrashes
  BY DEF MailInv, TypeOK
<1>1. UNCHANGED box => FilesKept
  BY <1>0, NothingChanged
<1>2. ASSUME NEW i \in Member, KeepList(h, i) PROVE KeeperTurn(h)
  <2>1. KeeperSound([IdleKeeper EXCEPT !.pc = "listed", !.todo = Files("processing", i)])
    BY DEF KeeperSound, IdleKeeper, KeeperState, Files
  <2> QED
    BY <1>0, <1>1, <1>2, <2>1 DEF KeepList, KeeperTurn
<1>3. ASSUME NEW c \in Copy, KeepStat(h, c) PROVE KeeperTurn(h)
  <2> DEFINE k == [keeper[h] EXCEPT !.todo = @ \ {c}]
  <2>1. k \in KeeperState
    BY <1>0 DEF KeeperState
  <2>2. KeeperSound([k EXCEPT !.pc = "stale", !.at = c])
    BY <2>1 DEF KeeperSound, KeeperState
  <2>3. KeeperSound(KeeperNext(k))
    BY <2>1, KeeperNextSound
  <2> QED
    BY <1>0, <1>1, <1>3, <2>2, <2>3 DEF KeepStat, KeeperTurn
<1>4. ASSUME KeepRead(h) PROVE KeeperTurn(h)
  <2> DEFINE k == keeper[h]
             file == box["processing"][k.at]
             pc == IF file.attempt + 1 > MaxAttempts THEN "kill" ELSE "requeue"
  <2>1. k.at \in Copy
    BY <1>0, <1>4 DEF KeepRead, CallsSound
  <2>2. CASE In("processing", k.at)
    <3>1. file \in Content
      BY <1>0, <2>1, <2>2 DEF TypeOK, In, Dir
    <3>2. pc = "requeue" => file.attempt < MaxAttempts
      BY <3>1, MailAssumption DEF Content
    <3>3. KeeperSound([k EXCEPT !.mem = file, !.pc = pc])
      BY <1>0, <2>1, <3>1, <3>2 DEF KeeperSound, KeeperState
    <3> QED
      BY <1>0, <1>1, <1>4, <2>2, <3>3 DEF KeepRead, KeeperTurn
  <2>3. CASE ~In("processing", k.at)
    BY <1>0, <1>1, <1>4, <2>3, KeeperNextSound DEF KeepRead, KeeperTurn
  <2> QED
    BY <2>2, <2>3
<1>5. ASSUME KeepWrite(h) PROVE KeeperTurn(h)
  <2> DEFINE k == keeper[h]
             content == [k.mem EXCEPT !.attempt = @ + 1, !.token = NoToken, !.old = FALSE]
  <2>1. k.at \in Copy /\ k.mem \in Content /\ k.mem.attempt < MaxAttempts
    BY <1>0, <1>5 DEF KeepWrite, CallsSound
  <2>2. content \in Content
    <3>1. k.mem.attempt + 1 \in 1..MaxAttempts
      BY <2>1, MailAssumption DEF Content
    <3> QED
      BY <2>1, <3>1 DEF Content
  <2>3. FilesKept
    <3>1. box' = Write("processing", k.at, content)
      BY <1>5 DEF KeepWrite
    <3> HIDE DEF content
    <3> QED
      BY <1>0, <2>1, <2>2, <3>1, WriteKeeps DEF Dir
  <2>4. KeeperSound([k EXCEPT !.pc = "back"])
    BY <1>0, <2>1 DEF KeeperSound, KeeperState
  <2> QED
    BY <1>0, <1>5, <2>3, <2>4 DEF KeepWrite, KeeperTurn
<1>6. ASSUME KeepMove(h) PROVE KeeperTurn(h)
  <2> DEFINE k == keeper[h]
             to == IF k.pc = "back" THEN "new" ELSE "dead"
  <2>1. k.at \in Copy
    BY <1>0, <1>6 DEF KeepMove, CallsSound
  <2>2. FilesKept
    BY <1>0, <1>1, <1>6, <2>1, RenameKeeps DEF KeepMove, Dir
  <2> QED
    BY <1>0, <1>6, <2>2, KeeperNextSound DEF KeepMove, KeeperTurn
<1>7. ASSUME KeeperKilled(h) PROVE KeeperTurn(h)
  <2>1. KeeperSound(IdleKeeper)
    BY DEF KeeperSound, IdleKeeper, KeeperState
  <2>2. crashes' \in 0..MaxCrashes
    BY <1>0, <1>7, MailAssumption DEF KeeperKilled
  <2> QED
    BY <1>1, <1>7, <2>1, <2>2 DEF KeeperKilled, KeeperTurn
<1> QED
  BY <1>2, <1>3, <1>4, <1>5, <1>6, <1>7 DEF KeeperRun

\* Time passes and the workflow stops.
LEMMA OtherMailSteps ==
    ASSUME MailInv,
           \/ \E b \in Broker : BrokerStop(b)
           \/ \E d \in {"new", "processing"}, c \in Copy : Age(d, c)
           \/ UNCHANGED vars
    PROVE  MailInv'
<1> USE DEF fileVars, boundVars, brokerVars
<1>0. TypeOK /\ CallsSound
  BY DEF MailInv
<1>1. ASSUME NEW d \in {"new", "processing"}, NEW c \in Copy, Age(d, c) PROVE MailInv'
  <2> DEFINE content == [box[d][c] EXCEPT !.old = TRUE]
  <2>1. box[d][c] \in Content
    BY <1>0, <1>1 DEF Age, TypeOK, In, Dir
  <2>2. content \in Content
    BY <2>1 DEF Content
  <2>3. box' = Write(d, c, content)
    BY <1>0, <1>1 DEF Age, Write, TypeOK, Dir
  <2>4. FilesKept
    BY <1>0, <2>2, <2>3, WriteKeeps DEF Dir
  <2>5. late' \in 0..MaxLate
    BY <1>0, <1>1, MailAssumption DEF Age, TypeOK
  <2>6. TypeOK' /\ CallsSound'
    BY <1>0, <1>1, <2>4, <2>5 DEF Age, TypeOK, CallsSound, FilesKept
  <2>7. NothingLost'
    BY <1>1, <2>4, KeptNothingLost DEF Age
  <2> QED
    BY <2>6, <2>7 DEF MailInv
<1>2. ASSUME NEW b \in Broker, BrokerStop(b) PROVE MailInv'
  BY <1>0, <1>2, NothingChanged, KeptNothingLost DEF BrokerStop, MailInv, TypeOK, CallsSound
<1>3. ASSUME UNCHANGED vars PROVE MailInv'
  BY <1>3 DEF vars, MailInv, TypeOK, CallsSound, NothingLost, In
<1> QED
  BY <1>1, <1>2, <1>3

LEMMA MailInit == Init => MailInv
<1> SUFFICES ASSUME Init PROVE MailInv
  OBVIOUS
<1>1. TypeOK
  BY MailAssumption
  DEF Init, TypeOK, Content, IdleReader, IdleKeeper, ReaderState, ReaderPc, KeeperState
<1>2. CallsSound /\ NothingLost
  BY DEF Init, CallsSound, NothingLost, IdleReader, IdleKeeper
<1> QED
  BY <1>1, <1>2 DEF MailInv

LEMMA MailNext == MailInv /\ [Next]_vars => MailInv'
<1> SUFFICES ASSUME MailInv, [Next]_vars PROVE MailInv'
  OBVIOUS
<1>1. ASSUME NEW r \in Reader,
             \/ ReaderNext(r) \/ RecvList(r) \/ Forget(r) \/ ReaderKilled(r)
             \/ \E c \in Copy : ClaimFind(r, c) \/ AckStart(r, c) \/ AckById(r, c)
      PROVE  MailInv'
  BY <1>1, RecvSteps, AckSteps, ReaderTurnKeeps DEF ReaderNext
<1>2. ASSUME NEW b \in Broker, BrokerRun(b) PROVE MailInv'
  BY <1>2, BrokerSteps, ReaderTurnKeeps
<1>3. ASSUME NEW h \in Housekeeper,
             KeeperRun(h) \/ KeeperKilled(h) \/ \E i \in Member : KeepList(h, i)
      PROVE  MailInv'
  BY <1>3, KeeperSteps, KeeperTurnKeeps
<1> QED
  BY <1>1, <1>2, <1>3, SenderSteps, OtherMailSteps DEF Next

LEMMA MailInvHolds == Spec => []MailInv
BY MailInit, MailNext, PTL DEF Spec

\* Whatever readers, brokers and housekeepers do to the same file between two
\* of their own operations, and wherever they are killed, a message that was
\* delivered is in one of the directories, and an acknowledged one in cur/.
THEOREM MessagesNeverLost == Spec => []NothingLost
<1>1. MailInv => NothingLost
  BY DEF MailInv
<1> QED
  BY <1>1, MailInvHolds, PTL

-----------------------------------------------------------------------------
(* EventLog                                                                  *)

LogType ==
    /\ lines \in 0..MaxLines
    /\ offset \in 0..MaxLines
    /\ tail \in [Tailer -> TailState]
    /\ emitted \in [Line -> 0..2]

\* A tail goes through its lines in order, from the offset it found.
LogInv ==
    /\ LogType /\ NoEventSkipped
    /\ offset <= lines
    /\ \A t \in Tailer : tail[t].read <= lines

\* A turn of t leaves the other tails alone and keeps what t has read.
TailTurn(t) ==
    /\ tail' \in [Tailer -> TailState]
    /\ \A u \in Tailer \ {t} : tail'[u] = tail[u]
    /\ lines' = lines /\ tail'[t].read <= lines
    /\ offset' \in 0..MaxLines /\ offset' <= lines
    /\ emitted' \in [Line -> 0..2]
    /\ \A n \in Line : emitted[n] > 0 => emitted'[n] > 0

\* Tail t is to give line n to the sink.
WillEmit(t, n) == tail[t].pc = "emit" /\ tail[t].next <= n /\ n <= tail[t].read

\* A turn of a tail keeps the invariant.
LEMMA TailTurnKeeps ==
    ASSUME LogInv, NEW t \in Tailer, TailTurn(t),
           \A n \in 1..offset' :
              emitted'[n] > 0 \/ WillEmit(t, n)' \/ (n <= offset /\ ~WillEmit(t, n))
    PROVE  LogInv'
<1> USE LogAssumption
<1>1. LogType' /\ offset' <= lines' /\ \A u \in Tailer : tail'[u].read <= lines'
  BY DEF LogInv, LogType, TailTurn
<1>2. NoEventSkipped'
  <2> SUFFICES ASSUME NEW n \in 1..offset', ~(emitted'[n] > 0)
               PROVE  \E u \in Tailer : WillEmit(u, n)'
    BY DEF NoEventSkipped, WillEmit
  <2>1. CASE n <= offset /\ ~WillEmit(t, n)
    <3>1. n \in 1..offset /\ n \in Line
      BY <2>1 DEF LogInv, LogType, TailTurn, Line
    <3>2. ~(emitted[n] > 0)
      BY <3>1 DEF TailTurn
    <3>3. PICK u \in Tailer : WillEmit(u, n)
      BY <3>1, <3>2 DEF LogInv, NoEventSkipped, WillEmit
    <3>4. tail'[u] = tail[u]
      BY <2>1, <3>3 DEF TailTurn
    <3> QED
      BY <3>3, <3>4 DEF WillEmit
  <2> QED
    BY <2>1
<1> QED
  BY <1>1, <1>2 DEF LogInv

\* Every step of the log is a line that is appended or such a turn.
LEMMA LogNextKeeps == LogInv /\ [LogNext]_logVars => LogInv'
<1> SUFFICES ASSUME LogInv, [LogNext]_logVars PROVE LogInv'
  OBVIOUS
<1> USE LogAssumption
<1>0. LogType
  BY DEF LogInv
<1>1. CASE AppendLine
  BY <1>1 DEF AppendLine, LogInv, LogType, NoEventSkipped, TailState
<1>2. ASSUME NEW t \in Tailer, TailNext(t) PROVE LogInv'
  <2>0. /\ tail \in [Tailer -> TailState] /\ lines \in 0..MaxLines /\ offset \in 0..MaxLines
        /\ emitted \in [Line -> 0..2] /\ offset <= lines
        /\ tail[t].next \in 0..MaxLines + 1 /\ tail[t].read \in 0..MaxLines
        /\ tail[t].read <= lines
        /\ 0 \in 0..MaxLines /\ 0 \in 0..MaxLines + 1 /\ offset + 1 \in 0..MaxLines + 1
        /\ \A n \in 1..offset : n \in Line
    BY <1>0 DEF LogInv, LogType, TailState, Line
  <2>1. CASE TailRead(t)
    <3>1. /\ tail'[t].read = lines /\ ~(tail[t].pc = "emit")
          /\ \A u \in Tailer \ {t} : tail'[u] = tail[u]
          /\ UNCHANGED <<lines, offset, emitted>>
      BY <2>0, <2>1 DEF TailRead, NoTail
    <3>2. tail' \in [Tailer -> TailState]
      BY <2>0, <2>1 DEF TailRead, NoTail, TailState
    <3>3. TailTurn(t)
      BY <2>0, <3>1, <3>2 DEF TailTurn
    <3> QED
      BY <2>0, <3>1, <3>3, TailTurnKeeps DEF WillEmit
  <2>2. CASE TailTake(t)
    <3>1. /\ tail'[t].pc = "emit" /\ tail'[t].next = offset + 1
          /\ tail'[t].read = tail[t].read /\ ~(tail[t].pc = "emit")
          /\ \A u \in Tailer \ {t} : tail'[u] = tail[u]
          /\ offset' = tail[t].read /\ UNCHANGED <<lines, emitted>>
      BY <2>0, <2>2 DEF TailTake, TailState
    <3>2. tail' \in [Tailer -> TailState]
      BY <2>0, <2>2 DEF TailTake, TailState
    <3>3. TailTurn(t)
      BY <2>0, <3>1, <3>2 DEF TailTurn
    <3> QED
      BY <2>0, <3>1, <3>3, TailTurnKeeps DEF WillEmit
  <2>3. CASE TailEmit(t) /\ tail[t].next <= tail[t].read
    <3> DEFINE n == tail[t].next
    <3>1. /\ tail'[t].pc = "emit" /\ tail'[t].next = n + 1 /\ tail'[t].read = tail[t].read
          /\ tail[t].pc = "emit"
          /\ \A u \in Tailer \ {t} : tail'[u] = tail[u]
          /\ emitted' = [emitted EXCEPT ![n] = IF emitted[n] = 0 THEN 1 ELSE 2]
          /\ UNCHANGED <<lines, offset>>
      BY <2>0, <2>3 DEF TailEmit, TailState
    <3>2. tail' \in [Tailer -> TailState]
      <4>1. n + 1 \in 0..MaxLines + 1
        BY <2>0, <2>3
      <4> QED
        BY <2>0, <2>3, <4>1 DEF TailEmit, TailState
    <3> HIDE DEF n
    <3>3. \A k \in Line : emitted'[k] = IF k = n THEN (IF emitted[n] = 0 THEN 1 ELSE 2)
                                               ELSE emitted[k]
      BY <2>0, <3>1
    <3>4. /\ emitted' \in [Line -> 0..2]
          /\ \A k \in Line : emitted[k] > 0 \/ k = n => emitted'[k] > 0
      <4>1. (IF emitted[n] = 0 THEN 1 ELSE 2) \in 0..2
        OBVIOUS
      <4>2. emitted' \in [Line -> 0..2]
        BY <2>0, <3>1, <4>1
      <4>3. \A k \in Line : emitted[k] > 0 \/ k = n => emitted'[k] > 0
        BY <2>0, <3>3
      <4> QED
        BY <4>2, <4>3
    <3>5. TailTurn(t)
      BY <2>0, <3>1, <3>2, <3>4 DEF TailTurn
    <3>6. \A k \in 1..offset : k \in Line /\ (k = n => emitted'[k] > 0)
      BY <2>0, <3>4
    <3>7. n \in Nat /\ n = tail[t].next
      BY <2>0 DEF n
    <3> QED
      BY <2>0, <3>1, <3>5, <3>6, <3>7, TailTurnKeeps DEF WillEmit
  <2>4. CASE TailEmit(t) /\ ~(tail[t].next <= tail[t].read)
    <3>1. /\ tail'[t].read = 0 /\ UNCHANGED <<lines, offset, emitted>>
          /\ \A u \in Tailer \ {t} : tail'[u] = tail[u]
      BY <2>0, <2>4 DEF TailEmit, NoTail
    <3>2. tail' \in [Tailer -> TailState]
      BY <2>0, <2>4 DEF TailEmit, NoTail, TailState
    <3>3. TailTurn(t)
      BY <2>0, <3>1, <3>2 DEF TailTurn
    <3>4. \A n \in 1..offset' : n <= offset /\ ~WillEmit(t, n)
      BY <2>0, <2>4, <3>1 DEF WillEmit
    <3> QED
      BY <3>3, <3>4, TailTurnKeeps
  <2> QED
    BY <1>2, <2>1, <2>2, <2>3, <2>4 DEF TailNext
<1>3. CASE UNCHANGED logVars
  BY <1>3 DEF logVars, LogInv, LogType, NoEventSkipped
<1> QED
  BY <1>1, <1>2, <1>3 DEF LogNext

\* However many tails of the log overlap, and in whatever order their reads come
\* back, a line before the offset was given to the sink or is on its way.
THEOREM EventsNeverSkipped == LogInit /\ [][LogNext]_logVars => []NoEventSkipped
<1>1. LogInit => LogInv
  BY LogAssumption DEF LogInit, LogInv, LogType, TailState, NoTail, NoEventSkipped, Line
<1>2. LogInv => NoEventSkipped
  BY DEF LogInv
<1> QED
  BY <1>1, <1>2, LogNextKeeps, PTL

-----------------------------------------------------------------------------
(* Team                                                                      *)

\* A script is never on and has no loop, an agent number that belongs to nobody
\* is unused, and the coordinator lists none of those.
AgentsSound ==
    /\ \A a \in Agent :
          /\ Script(a) => ~agent[a].on /\ agent[a].poll = "none"
          /\ agent[a].of = NoTeammate => agent[a] = Unborn
    /\ \A a \in listed : agent[a].of \in Teammate
    /\ IsFiniteSet(listed)

\* start() lists what it has started, and no reconciliation runs before its end.
StartSound ==
    coord = "starting" =>
        /\ starting \subseteq Initial
        /\ \A a \in listed : agent[a].of \notin starting
        /\ Cardinality(listed) + Cardinality(starting) <= Cardinality(Initial)
        /\ \A t \in Tick : tick[t].pc = "idle"

\* A reconciliation waits for an agent, and a change adds a member.
PendingSound ==
    /\ \A t \in Tick : tick[t].pc = "wait" => tick[t].at \in Agent
    /\ \A e \in Editor : editor[e].op = "upsert" => editor[e].who \in Teammate

TeamIInv == TeamTypeOK /\ AgentsSound /\ StartSound /\ PendingSound /\ TeamInv

\* What happens to an agent's record s but for a start: it becomes n.
Calm(s, n) ==
    \/ n = Unborn
    \/ /\ s # Unborn /\ n.of = s.of /\ (n.on => s.on)
       /\ s.of \in Custom => n.poll = s.poll /\ (n.cli # "none" => s.cli # "none")

\* A step that starts no agent.
StartsNone ==
    /\ agent' \in [Agent -> AgentState]
    /\ \A a \in Agent : Calm(agent[a], agent'[a])
    /\ listed' \subseteq listed
    /\ \A a \in listed' : agent'[a] # Unborn
    /\ \A a \in listed \ listed' : ~Running(a)'
    /\ stopping' => stopping \/ \A a \in Agent : ~agent'[a].on

UnbornOf == Unborn.of = NoTeammate /\ ~Unborn.on /\ Unborn.poll = "none" /\ Unborn.cli = "none"

\* Nobody is started: what ran twice, unlisted or too often would have before.
LEMMA StartsNoneKeeps ==
    ASSUME TeamIInv, StartsNone
    PROVE  AgentsSound' /\ TeamInv' /\ Cardinality(listed') <= Cardinality(listed)
<1>0. /\ agent \in [Agent -> AgentState] /\ listed \subseteq Agent /\ UnbornOf
      /\ Custom \subseteq Teammate /\ NoTeammate \notin Teammate
      /\ AgentsSound /\ TeamInv
  BY TeamAssumption DEF TeamIInv, TeamTypeOK, UnbornOf, Unborn
<1>1. \A a \in Agent : /\ agent'[a] = Unborn \/ agent'[a].of = agent[a].of
                       /\ agent[a].of = NoTeammate => agent'[a] = Unborn
                       /\ agent'[a].of = NoTeammate => agent'[a] = Unborn
                       /\ agent'[a].on => agent[a].on
                       /\ Script(a)' => /\ Script(a) /\ agent'[a].poll = agent[a].poll
                                        /\ agent'[a].cli # "none" => agent[a].cli # "none"
                       /\ Resident(a)' => Resident(a)
                       /\ Running(a)' => Running(a)
  BY <1>0 DEF StartsNone, Calm, UnbornOf, AgentsSound, Script, Resident, Running
<1>2. AgentsSound'
  <2>1. IsFiniteSet(listed')
    BY <1>0, FS_Subset DEF StartsNone, AgentsSound
  <2>2. \A a \in listed' : agent'[a].of \in Teammate
    BY <1>0, <1>1 DEF StartsNone, AgentsSound
  <2> QED
    BY <1>0, <1>1, <2>1, <2>2 DEF AgentsSound
<1>3. RunningAgents' \subseteq RunningAgents /\ listed' \subseteq listed
  BY <1>0, <1>1 DEF StartsNone, RunningAgents
<1>4. /\ Cardinality(RunningAgents') <= Cardinality(RunningAgents)
      /\ Cardinality(RunningAgents') \in Nat /\ Cardinality(RunningAgents) \in Nat
      /\ Cardinality(listed') <= Cardinality(listed)
  <2>1. IsFiniteSet(RunningAgents)
    BY <1>0, FS_Subset DEF AgentsSound, RunningAgents
  <2> QED
    BY <1>0, <1>3, <2>1, FS_Subset, FS_CardinalityType DEF AgentsSound
<1>5. TeamInv'
  <2>1. \A a, b \in RunningAgents' : agent'[a].of = agent'[b].of => a = b
    <3> SUFFICES ASSUME NEW a \in RunningAgents', NEW b \in RunningAgents',
                        agent'[a].of = agent'[b].of
                 PROVE  a = b
      OBVIOUS
    <3>1. a \in RunningAgents /\ b \in RunningAgents /\ a \in listed' /\ b \in listed'
      BY <1>3 DEF RunningAgents
    <3>2. agent'[a].of = agent[a].of /\ agent'[b].of = agent[b].of
      BY <1>0, <1>1, <1>3, <3>1 DEF StartsNone
    <3> QED
      BY <1>0, <3>1, <3>2 DEF TeamInv
  <2>2. \A a \in Agent : agent'[a].on /\ Resident(a)' => a \in listed'
    BY <1>0, <1>1 DEF TeamInv, StartsNone, Running, Resident, Script
  <2>3. \A a \in Agent : Script(a)' /\ agent'[a].cli # "none" => a \in listed'
    BY <1>0, <1>1 DEF TeamInv, StartsNone, Running, Script
  <2>4. \/ Cardinality(RunningAgents') <= MaxTeammates \/ RunningAgents' = {}
        \/ Cardinality(RunningAgents') <= Cardinality(Initial)
    <3>1. MaxTeammates \in Nat /\ Cardinality(Initial) \in Nat
      BY TeamAssumption, FS_CardinalityType
    <3> QED
      BY <1>0, <1>3, <1>4, <3>1 DEF TeamInv
  <2>5. stopping' => \A a \in Agent : ~agent'[a].on
    BY <1>0, <1>1 DEF TeamInv, StartsNone
  <2> QED
    BY <2>1, <2>2, <2>3, <2>4, <2>5 DEF TeamInv
<1> QED
  BY <1>2, <1>4, <1>5

\* A step that starts an agent for m, whom no listed agent is for.
StartsOne(m) ==
    /\ Unused # {} /\ ~Has(m) /\ ~stopping'
    /\ agent' = [agent EXCEPT ![Fresh] = Started(m)]
    /\ listed' = listed \cup {Fresh}

\* A member is started for whom no listed agent is, below one of the two caps.
LEMMA StartsOneKeeps ==
    ASSUME TeamIInv, NEW m \in Teammate, StartsOne(m),
           \/ Cardinality(RunningAgents) < MaxTeammates
           \/ Cardinality(listed) < Cardinality(Initial)
    PROVE  /\ agent' \in [Agent -> AgentState] /\ listed' \subseteq Agent
           /\ AgentsSound' /\ TeamInv'
           /\ Cardinality(listed') = Cardinality(listed) + 1
           /\ \A a \in listed' : agent'[a].of \in {m} \cup {agent[b].of : b \in listed}
<1>0. /\ agent \in [Agent -> AgentState] /\ listed \subseteq Agent /\ UnbornOf
      /\ Custom \subseteq Teammate /\ NoTeammate \notin Teammate
      /\ AgentsSound /\ TeamInv
  BY TeamAssumption DEF TeamIInv, TeamTypeOK, UnbornOf, Unborn
<1>1. PICK f \in Agent : f = Fresh /\ agent[f] = Unborn
  <2>1. Fresh \in Unused
    BY DEF StartsOne, Fresh
  <2> QED
    BY <2>1 DEF Unused
<1>2. f \notin listed
  BY <1>0, <1>1 DEF AgentsSound, UnbornOf
<1>3. /\ Started(m) \in AgentState /\ Started(m).of = m
      /\ Started(m).on <=> m \notin Custom
      /\ m \in Custom => Started(m).poll = "none"
  BY DEF Started, AgentState
<1>4. agent' = [agent EXCEPT ![f] = Started(m)] /\ listed' = listed \cup {f}
  BY <1>1 DEF StartsOne
<1>5. /\ agent' \in [Agent -> AgentState] /\ agent'[f] = Started(m)
      /\ \A a \in Agent \ {f} : agent'[a] = agent[a]
      /\ listed' \subseteq Agent
  BY <1>0, <1>1, <1>3, <1>4
<1>6. /\ \A a \in Agent \ {f} : /\ Running(a)' <=> Running(a)
                                /\ Script(a)' <=> Script(a)
                                /\ Resident(a)' <=> Resident(a)
      /\ agent'[f].of = m
      /\ Script(f)' => ~agent'[f].on /\ agent'[f].poll = "none"
  BY <1>1, <1>3, <1>5 DEF Running, Script, Resident
<1>7. /\ IsFiniteSet(listed') /\ Cardinality(listed') = Cardinality(listed) + 1
      /\ Cardinality(listed) \in Nat
  BY <1>0, <1>2, <1>4, FS_AddElement, FS_CardinalityType DEF AgentsSound
<1>8. AgentsSound'
  BY <1>0, <1>1, <1>4, <1>5, <1>6, <1>7 DEF AgentsSound
<1>9. RunningAgents' \subseteq RunningAgents \cup {f}
  BY <1>0, <1>4, <1>6 DEF RunningAgents
<1>10. TeamInv'
  <2>1. \A a, b \in RunningAgents' : agent'[a].of = agent'[b].of => a = b
    <3>1. \A a \in RunningAgents : a # f /\ a \in Agent /\ agent'[a] = agent[a] /\ agent[a].of # m
      BY <1>0, <1>2, <1>5 DEF RunningAgents, StartsOne, Has
    <3> QED
      BY <1>0, <1>6, <1>9, <3>1 DEF TeamInv
  <2>2. \A a \in Agent : agent'[a].on /\ Resident(a)' => a \in listed'
    BY <1>0, <1>4, <1>5, <1>6 DEF TeamInv
  <2>3. \A a \in Agent : Script(a)' /\ agent'[a].cli # "none" => a \in listed'
    BY <1>0, <1>4, <1>5, <1>6 DEF TeamInv
  <2>4. \/ Cardinality(RunningAgents') <= MaxTeammates
        \/ Cardinality(RunningAgents') <= Cardinality(Initial)
    <3>1. RunningAgents \subseteq listed /\ RunningAgents' \subseteq listed'
      BY DEF RunningAgents
    <3>2. IsFiniteSet(RunningAgents) /\ Cardinality(RunningAgents) \in Nat /\ f \notin RunningAgents
      BY <1>0, <1>2, <3>1, FS_Subset, FS_CardinalityType DEF AgentsSound
    <3>3. Cardinality(RunningAgents') \in Nat /\ Cardinality(RunningAgents') <= Cardinality(listed')
      BY <1>7, <3>1, FS_Subset, FS_CardinalityType
    <3>4. Cardinality(RunningAgents') <= Cardinality(RunningAgents) + 1
      <4>1. /\ IsFiniteSet(RunningAgents \cup {f})
            /\ Cardinality(RunningAgents \cup {f}) = Cardinality(RunningAgents) + 1
        BY <3>2, FS_AddElement
      <4> QED
        BY <1>9, <4>1, FS_Subset
    <3>5. MaxTeammates \in Nat /\ Cardinality(Initial) \in Nat
      BY TeamAssumption, FS_CardinalityType
    <3> QED
      BY <1>7, <3>2, <3>3, <3>4, <3>5
  <2>5. ~stopping'
    BY DEF StartsOne
  <2> QED
    BY <2>1, <2>2, <2>3, <2>4, <2>5 DEF TeamInv
<1> QED
  BY <1>0, <1>4, <1>5, <1>6, <1>7, <1>8, <1>10

\* What the code does to an agent's record s, short of forgetting it: s becomes n.
Gentle(s, n) ==
    /\ n \in AgentState /\ n.of = s.of /\ (n.on => s.on)
    /\ s = Unborn => n = Unborn
    /\ s.of \in Custom => n.poll = s.poll /\ (n.cli # "none" => s.cli # "none")

\* What the code does to agents, and forgetting those that are over, starts nobody.
LEMMA GentleIsCalm ==
    ASSUME TeamIInv, NEW g \in [Agent -> AgentState],
           \A a \in Agent : Gentle(agent[a], g[a]),
           agent' = g \/ agent' = Kept(g, listed'),
           listed' \subseteq listed,
           \A a \in listed \ listed' : IF agent[a].of \in Custom THEN agent[a].cli = "none" ELSE ~g[a].on,
           stopping' => stopping \/ \A a \in Agent : ~g[a].on
    PROVE  StartsNone
<1>0. agent \in [Agent -> AgentState] /\ listed \subseteq Agent /\ UnbornOf /\ AgentsSound
      /\ Custom \subseteq Teammate /\ NoTeammate \notin Teammate
  BY TeamAssumption DEF TeamIInv, TeamTypeOK, UnbornOf, Unborn
<1>1. /\ agent' \in [Agent -> AgentState]
      /\ \A a \in Agent : agent'[a] = g[a] \/ agent'[a] = Unborn
      /\ \A a \in listed' : agent'[a] = g[a]
  <2>1. Unborn \in AgentState
    BY DEF Unborn, AgentState
  <2> QED
    BY <1>0, <2>1 DEF Kept
<1>2. \A a \in Agent : Calm(agent[a], agent'[a])
  BY <1>1 DEF Calm, Gentle
<1>3. \A a \in listed' : agent'[a] # Unborn
  <2>1. \A a \in listed' : a \in Agent /\ g[a].of \in Teammate
    BY <1>0 DEF AgentsSound, Gentle
  <2> QED
    BY <1>0, <1>1, <2>1 DEF UnbornOf
<1>4. \A a \in listed \ listed' : ~Running(a)'
  <2> SUFFICES ASSUME NEW a \in listed \ listed' PROVE ~Running(a)'
    OBVIOUS
  <2>1. a \in Agent /\ g[a].of = agent[a].of /\ Gentle(agent[a], g[a])
    BY <1>0 DEF Gentle
  <2>2. CASE agent'[a] = Unborn
    BY <1>0, <2>2 DEF Running, Script, UnbornOf
  <2>3. CASE agent'[a] = g[a]
    BY <1>0, <2>1, <2>3 DEF Running, Script, Gentle
  <2> QED
    BY <1>1, <2>1, <2>2, <2>3
<1>5. stopping' => stopping \/ \A a \in Agent : ~agent'[a].on
  BY <1>0, <1>1 DEF UnbornOf
<1> QED
  BY <1>1, <1>2, <1>3, <1>4, <1>5 DEF StartsNone

\* Such a step keeps the invariant, if start() is over or does not go on in it.
LEMMA StepKeeps ==
    ASSUME TeamIInv, StartsNone, TeamTypeOK', PendingSound',
           coord' = "starting" =>
               coord = "starting" /\ starting' = starting
               /\ (\A t \in Tick : tick'[t].pc = "idle" \/ tick'[t] = tick[t])
    PROVE  TeamIInv'
<1>1. AgentsSound' /\ TeamInv' /\ Cardinality(listed') <= Cardinality(listed)
  BY StartsNoneKeeps
<1>2. StartSound'
  <2> SUFFICES ASSUME coord' = "starting" PROVE StartSound'
    BY DEF StartSound
  <2>1. /\ coord = "starting" /\ starting' = starting
        /\ starting \subseteq Initial
        /\ \A a \in listed : agent[a].of \notin starting
        /\ Cardinality(listed) + Cardinality(starting) <= Cardinality(Initial)
        /\ \A t \in Tick : tick[t].pc = "idle"
    BY DEF TeamIInv, StartSound
  <2>2. \A a \in listed' : agent'[a].of \notin starting
    BY <2>1 DEF StartsNone, Calm, TeamIInv, TeamTypeOK
  <2>3. Cardinality(listed') + Cardinality(starting) <= Cardinality(Initial)
    <3>1. /\ IsFiniteSet(starting) /\ IsFiniteSet(listed') /\ IsFiniteSet(listed)
          /\ IsFiniteSet(Initial)
      BY <1>1, <2>1, TeamAssumption, FS_Subset DEF TeamIInv, AgentsSound
    <3>2. /\ Cardinality(starting) \in Nat /\ Cardinality(listed') \in Nat
          /\ Cardinality(listed) \in Nat /\ Cardinality(Initial) \in Nat
      BY <3>1, FS_CardinalityType
    <3> QED
      BY <1>1, <2>1, <3>2
  <2>4. \A t \in Tick : tick'[t].pc = "idle"
    BY <2>1
  <2> QED
    BY <2>1, <2>2, <2>3, <2>4 DEF StartSound
<1> QED
  BY <1>1, <1>2 DEF TeamIInv

LEMMA TeamInitial == TeamInit => TeamIInv
<1> SUFFICES ASSUME TeamInit PROVE TeamIInv
  OBVIOUS
<1>0. /\ Custom \subseteq Teammate /\ Initial \subseteq Teammate
      /\ NoTeammate \notin Teammate /\ IsFiniteSet(Initial)
      /\ MaxEdits \in Nat /\ MaxSpawnsPerMinute \in Nat /\ UnbornOf
  BY TeamAssumption DEF UnbornOf, Unborn
<1>1. Unborn \in AgentState /\ NoTick \in TickState /\ NoEdit \in EditState
  BY DEF Unborn, AgentState, NoTick, TickState, NoEdit, EditState
<1>2. TeamTypeOK
  BY <1>0, <1>1 DEF TeamTypeOK, TeamInit
<1>3. /\ \A a \in Agent : agent[a] = Unborn /\ ~Script(a)
      /\ listed = {} /\ RunningAgents = {}
  BY <1>0 DEF TeamInit, Script, UnbornOf, RunningAgents
<1>4. Cardinality({}) = 0 /\ IsFiniteSet({}) /\ Cardinality(Initial) \in Nat
  BY <1>0, FS_EmptySet, FS_CardinalityType
<1>5. AgentsSound
  BY <1>3, <1>4 DEF AgentsSound
<1>6. StartSound
  BY <1>3, <1>4 DEF StartSound, TeamInit, NoTick
<1>7. PendingSound
  BY DEF PendingSound, TeamInit, NoTick, NoEdit
<1>8. TeamInv
  BY <1>0, <1>3 DEF TeamInv, Resident, UnbornOf
<1> QED
  BY <1>2, <1>5, <1>6, <1>7, <1>8 DEF TeamIInv

\* Changes of members.json do not touch what the coordinator knows.
LEMMA EditsKeep ==
    ASSUME TeamIInv,
           \/ \E e \in Editor : EditWrite(e)
           \/ \E e \in Editor, op \in {"upsert", "remove"}, m \in Teammate : EditRead(e, op, m)
    PROVE  TeamIInv'
<1>1. UNCHANGED <<agent, listed, tick, coord, starting, spawns>>
  BY DEF EditWrite, EditRead
<1>2. desired' \subseteq Teammate /\ editor' \in [Editor -> EditState] /\ edits' \in 0..MaxEdits
  <2>0. /\ desired \subseteq Teammate /\ editor \in [Editor -> EditState]
        /\ edits \in 0..MaxEdits /\ MaxEdits \in Nat
    BY TeamAssumption DEF TeamIInv, TeamTypeOK
  <2>1. CASE \E e \in Editor : EditWrite(e)
    <3> PICK e \in Editor : EditWrite(e)
      BY <2>1
    <3>1. NoEdit \in EditState
      BY DEF NoEdit, EditState
    <3>2. editor[e] \in EditState /\ editor[e] # NoEdit /\ edits' = edits
      BY <2>0 DEF EditWrite
    <3>3. editor[e].file \subseteq Teammate /\ (editor[e].op = "upsert" => editor[e].who \in Teammate)
      BY <3>2 DEF EditState, TeamIInv, PendingSound
    <3>4. editor' \in [Editor -> EditState]
      BY <2>0, <3>1 DEF EditWrite
    <3>5. desired' \subseteq Teammate
      BY <2>0, <3>3 DEF EditWrite
    <3> QED
      BY <2>0, <3>2, <3>4, <3>5
  <2>2. CASE \E e \in Editor, op \in {"upsert", "remove"}, m \in Teammate : EditRead(e, op, m)
    BY <2>0, <2>2 DEF EditRead, EditState
  <2> QED
    BY <2>1, <2>2
<1>3. PendingSound'
  <2>0. editor \in [Editor -> EditState] /\ PendingSound
    BY DEF TeamIInv, TeamTypeOK
  <2>1. \A e \in Editor : editor'[e].op = "upsert" => editor'[e].who \in Teammate
    <3>1. CASE \E e \in Editor : EditWrite(e)
      BY <2>0, <3>1 DEF EditWrite, PendingSound, NoEdit
    <3>2. CASE \E e \in Editor, op \in {"upsert", "remove"}, m \in Teammate : EditRead(e, op, m)
      BY <2>0, <3>2 DEF EditRead, PendingSound
    <3> QED
      BY <3>1, <3>2
  <2> QED
    BY <1>1, <2>0, <2>1 DEF PendingSound
<1> QED
  BY <1>1, <1>2, <1>3 DEF TeamIInv, TeamTypeOK, TeamInv, AgentsSound, StartSound,
     Running, Script, Resident, RunningAgents, stopping

\* The steps of an agent's own loop and the end of its process.
LEMMA AgentActionsKeep ==
    ASSUME TeamIInv, NEW a \in Agent, PollNext(a) \/ CliEnds(a)
    PROVE  TeamIInv'
<1>0. /\ agent \in [Agent -> AgentState] /\ listed \subseteq Agent /\ UnbornOf /\ AgentsSound
      /\ Custom \subseteq Teammate /\ NoTeammate \notin Teammate
      /\ TeamTypeOK /\ PendingSound
  BY TeamAssumption DEF TeamIInv, TeamTypeOK, UnbornOf, Unborn
<1>1. ASSUME NEW n \in AgentState, AgentStep(a, n), Gentle(agent[a], n)
      PROVE  TeamIInv'
  <2> DEFINE g == [agent EXCEPT ![a] = n]
  <2>1. /\ g \in [Agent -> AgentState] /\ \A c \in Agent : Gentle(agent[c], g[c])
        /\ agent' = Kept(g, listed')
        /\ UNCHANGED <<desired, editor, edits, listed, tick, coord, starting, spawns>>
    BY <1>0, <1>1 DEF AgentStep, Gentle
  <2> HIDE DEF g
  <2>2. (\A c \in listed \ listed' : IF agent[c].of \in Custom THEN agent[c].cli = "none" ELSE ~g[c].on)
        /\ (stopping' => stopping \/ \A c \in Agent : ~g[c].on)
    BY <2>1 DEF stopping
  <2>3. StartsNone
    BY <2>1, <2>2, GentleIsCalm
  <2>4. TeamTypeOK'
    BY <1>0, <2>1, <2>3 DEF TeamTypeOK, StartsNone
  <2>5. PendingSound'
    BY <1>0, <2>1 DEF PendingSound
  <2> QED
    BY <2>1, <2>3, <2>4, <2>5, StepKeeps
<1>2. agent[a] \in AgentState /\ (agent[a].of \in Custom => agent[a].poll = "none")
  BY <1>0 DEF AgentsSound, Script
<1>3. CASE Poll(a)
  <2>1. agent[a].poll = "timer" /\ agent[a] # Unborn /\ agent[a].of \notin Custom
    BY <1>2, <1>3 DEF Poll, Unborn
  <2> QED
    BY <1>1, <1>2, <1>3, <2>1 DEF Poll, Gentle, AgentState
<1>4. CASE NoWork(a)
  <2>1. agent[a].poll = "peek" /\ agent[a] # Unborn /\ agent[a].of \notin Custom
    BY <1>2, <1>4 DEF NoWork, Unborn
  <2>2. Polled(agent[a]) \in AgentState /\ Gentle(agent[a], Polled(agent[a]))
    BY <1>2, <2>1 DEF Gentle, AgentState, Polled
  <2> QED
    BY <1>1, <1>4, <2>2 DEF NoWork
<1>5. CASE Dispatch(a)
  <2>1. agent[a].poll = "peek" /\ agent[a] # Unborn /\ agent[a].of \notin Custom
    BY <1>2, <1>5 DEF Dispatch, Unborn
  <2> QED
    BY <1>1, <1>2, <1>5, <2>1 DEF Dispatch, Gentle, AgentState
<1>6. CASE CliEnds(a)
  <2>1. agent[a].cli # "none" /\ agent[a] # Unborn
    BY <1>6 DEF CliEnds, Unborn
  <2>2. CASE Script(a)
    BY <1>1, <1>2, <1>6, <2>1, <2>2 DEF CliEnds, Gentle, AgentState
  <2>3. CASE ~Script(a)
    <3> DEFINE n == [Polled(agent[a]) EXCEPT !.cli = "none"]
    <3>1. n \in AgentState /\ Gentle(agent[a], n)
      BY <1>2, <2>1, <2>3 DEF Gentle, AgentState, Polled, Script
    <3> QED
      BY <1>1, <1>6, <2>3, <3>1 DEF CliEnds
  <2> QED
    BY <2>2, <2>3
<1> QED
  BY <1>3, <1>4, <1>5, <1>6 DEF PollNext

\* A step of start(), of reconcile() or of stop() that starts nobody.
LEMMA CoordStepKeeps ==
    ASSUME TeamIInv, NEW g \in [Agent -> AgentState],
           \A a \in Agent : Gentle(agent[a], g[a]),
           agent' = g \/ agent' = Kept(g, listed'),
           listed' \subseteq listed,
           \A a \in listed \ listed' : IF agent[a].of \in Custom THEN agent[a].cli = "none" ELSE ~g[a].on,
           stopping' => stopping \/ \A a \in Agent : ~g[a].on,
           UNCHANGED <<desired, editor, edits, starting>>,
           spawns' \in {0, spawns},
           coord' \in {"running", "asking", "aborted", "stopped"} \/ UNCHANGED <<coord, tick>>,
           tick' \in [Tick -> TickState],
           \A t \in Tick : tick'[t].pc = "wait" => tick'[t].at \in Agent
    PROVE  TeamIInv'
<1>1. StartsNone
  BY GentleIsCalm
<1>2. TeamTypeOK /\ PendingSound /\ MaxSpawnsPerMinute \in Nat
  BY TeamAssumption DEF TeamIInv
<1>3. TeamTypeOK'
  <2>1. spawns' \in 0..MaxSpawnsPerMinute
    BY <1>2 DEF TeamTypeOK
  <2>2. coord' \in {"starting", "running", "asking", "aborted", "stopped"}
    BY <1>2 DEF TeamTypeOK
  <2> QED
    BY <1>1, <1>2, <2>1, <2>2 DEF TeamTypeOK, StartsNone
<1>4. PendingSound'
  BY <1>2 DEF PendingSound
<1>5. coord' = "starting" => /\ coord = "starting" /\ starting' = starting /\ tick' = tick
  OBVIOUS
<1> QED
  BY <1>1, <1>3, <1>4, <1>5, StepKeeps

LEMMA GentleSame == TeamIInv => \A a \in Agent : Gentle(agent[a], agent[a])
BY DEF Gentle, TeamIInv, TeamTypeOK

LEMMA NoTickTyped == NoTick \in TickState /\ NoTick.pc = "idle"
BY DEF NoTick, TickState

\* ResidentAgent.stop() and the abort of a script stop what they are given.
LEMMA StoppedGentle ==
    ASSUME NEW s \in AgentState, s.of \in Teammate \ Custom, NoTeammate \notin Teammate
    PROVE  Gentle(s, StoppedAgent(s)) /\ StoppedAgent(s) \in AgentState /\ ~StoppedAgent(s).on
<1>1. s # Unborn
  BY DEF Unborn
<1>2. StoppedAgent(s) \in AgentState
  BY DEF StoppedAgent, AgentState
<1>3. StoppedAgent(s).of = s.of /\ StoppedAgent(s).on = FALSE
  BY DEF StoppedAgent, AgentState
<1> QED
  BY <1>1, <1>2, <1>3 DEF Gentle

LEMMA AbortedGentle ==
    ASSUME NEW s \in AgentState
    PROVE  Gentle(s, AbortedScript(s)) /\ AbortedScript(s) \in AgentState
           /\ AbortedScript(s).on = s.on
<1>1. AbortedScript(s) \in AgentState
  BY DEF AbortedScript, AgentState
<1>2. s = Unborn => AbortedScript(s) = Unborn
  <2> SUFFICES ASSUME s = Unborn PROVE [s EXCEPT !.cli = s.cli] = s
    BY DEF AbortedScript, Unborn
  <2> QED
    BY DEF AgentState
<1>3. AbortedScript(s).on = s.on /\ AbortedScript(s).of = s.of /\ AbortedScript(s).poll = s.poll
      /\ (AbortedScript(s).cli # "none" => s.cli # "none")
  BY DEF AbortedScript, AgentState
<1> QED
  BY <1>1, <1>2, <1>3 DEF Gentle

LEMMA ReconcileStartKeeps ==
    ASSUME TeamIInv, NEW t \in Tick, ReconcileStart(t)
    PROVE  TeamIInv'
<1>0. TeamTypeOK /\ agent \in [Agent -> AgentState] /\ PendingSound
  BY DEF TeamIInv, TeamTypeOK
<1>1. tick' \in [Tick -> TickState]
  BY <1>0 DEF ReconcileStart, TeamTypeOK, TickState
<1>2. \A u \in Tick : tick'[u].pc = "wait" => tick'[u].at \in Agent
  BY <1>0 DEF ReconcileStart, TeamTypeOK, PendingSound
<1> QED
  BY <1>0, <1>1, <1>2, GentleSame, CoordStepKeeps DEF ReconcileStart, stopping

\* A reconciliation that finds the team stopping leaves.
LEMMA LeaveKeeps ==
    ASSUME TeamIInv, NEW t \in Tick, Leave(t), coord # "starting",
           UNCHANGED <<desired, editor, edits, coord, starting>>
    PROVE  TeamIInv'
<1>0. TeamTypeOK /\ agent \in [Agent -> AgentState] /\ PendingSound
  BY DEF TeamIInv, TeamTypeOK
<1>1. tick' \in [Tick -> TickState]
  BY <1>0, NoTickTyped DEF Leave, TeamTypeOK
<1>2. \A u \in Tick : tick'[u].pc = "wait" => tick'[u].at \in Agent
  BY <1>0, NoTickTyped DEF Leave, TeamTypeOK, PendingSound
<1>3. coord' \in {"running", "asking", "aborted", "stopped"}
  BY <1>0 DEF TeamTypeOK
<1> QED
  BY <1>0, <1>1, <1>2, <1>3, GentleSame, CoordStepKeeps DEF Leave, stopping

\* No reconciliation runs before start() is over.
LEMMA BusyTick ==
    ASSUME TeamIInv, NEW t \in Tick, tick[t].pc # "idle"
    PROVE  coord \in {"running", "asking", "aborted", "stopped"} /\ tick[t] \in TickState
BY DEF TeamIInv, TeamTypeOK, StartSound

\* The snapshot drops stopped residents only.
LEMMA ReconcileReadKeeps ==
    ASSUME TeamIInv, NEW t \in Tick, ReconcileRead(t)
    PROVE  TeamIInv'
<1>0. TeamTypeOK /\ agent \in [Agent -> AgentState] /\ PendingSound /\ listed \subseteq Agent
      /\ desired \subseteq Teammate /\ AgentsSound /\ Custom \subseteq Teammate
  BY TeamAssumption DEF TeamIInv, TeamTypeOK
<1>1. coord # "starting" /\ coord' \in {"running", "asking", "aborted", "stopped"}
  BY BusyTick DEF ReconcileRead
<1>2. CASE stopping
  BY <1>1, <1>2, LeaveKeeps DEF ReconcileRead
<1>3. CASE ~stopping
  <2> DEFINE kept == {a \in listed : Resident(a) => agent[a].on}
             ran == {agent[a].of : a \in {b \in kept : Running(b)}}
             n == [NoTick EXCEPT !.pc = "spawn", !.todo = desired, !.want = desired, !.ran = ran]
  <2>1. /\ listed' = kept /\ tick' = [tick EXCEPT ![t] = n] /\ agent' = Kept(agent, listed')
        /\ UNCHANGED <<desired, editor, edits, coord, starting, spawns>>
    BY <1>3 DEF ReconcileRead
  <2>2. ran \subseteq Teammate
    BY <1>0 DEF AgentsSound
  <2>3. n \in TickState /\ n.pc = "spawn"
    <3> HIDE DEF ran
    <3> QED
      BY <1>0, <2>2 DEF NoTick, TickState
  <2>4. \A a \in listed \ kept : agent[a].of \notin Custom /\ ~agent[a].on
    BY <1>0 DEF Resident
  <2>5. kept \subseteq listed
    OBVIOUS
  <2> HIDE DEF n, kept
  <2>6. tick' \in [Tick -> TickState] /\ \A u \in Tick : tick'[u].pc = "wait" => tick'[u].at \in Agent
    BY <1>0, <2>1, <2>3 DEF TeamTypeOK, PendingSound
  <2>7. stopping' => stopping
    BY <2>1 DEF stopping
  <2> QED
    BY <1>0, <1>1, <2>1, <2>4, <2>5, <2>6, <2>7, GentleSame, CoordStepKeeps
<1> QED
  BY <1>2, <1>3

\* Removed residents are off the list once they are stopped,
LEMMA ReconcileStopKeeps ==
    ASSUME TeamIInv, NEW t \in Tick, ReconcileStop(t)
    PROVE  TeamIInv'
<1>0. TeamTypeOK /\ agent \in [Agent -> AgentState] /\ PendingSound /\ listed \subseteq Agent
      /\ AgentsSound /\ Custom \subseteq Teammate /\ NoTeammate \notin Teammate
  BY TeamAssumption DEF TeamIInv, TeamTypeOK
<1>1. coord # "starting" /\ coord' \in {"running", "asking", "aborted", "stopped"} /\ tick[t] \in TickState
  BY BusyTick DEF ReconcileStop
<1>2. CASE stopping
  BY <1>1, <1>2, LeaveKeeps DEF ReconcileStop
<1>3. CASE ~stopping
  <2> DEFINE gone == {a \in listed : Resident(a) /\ agent[a].of \notin tick[t].want}
             g == [a \in Agent |-> IF a \in gone THEN StoppedAgent(agent[a]) ELSE agent[a]]
  <2>1. /\ listed' = listed \ gone /\ tick' = [tick EXCEPT ![t].pc = "remove"]
        /\ agent' = Kept(g, listed')
        /\ UNCHANGED <<desired, editor, edits, coord, starting, spawns>>
    BY <1>3 DEF ReconcileStop
  <2>2. \A a \in gone : a \in Agent /\ agent[a].of \in Teammate \ Custom
    BY <1>0 DEF Resident
  <2>3. g \in [Agent -> AgentState] /\ \A a \in Agent : Gentle(agent[a], g[a])
    <3> HIDE DEF gone
    <3> QED
      BY <1>0, <2>2, StoppedGentle, GentleSame
  <2>4. \A a \in gone : ~g[a].on
    <3> HIDE DEF gone
    <3> QED
      BY <1>0, <2>2, StoppedGentle
  <2> HIDE DEF g, gone
  <2>5. \A a \in listed \ listed' : IF agent[a].of \in Custom THEN agent[a].cli = "none" ELSE ~g[a].on
    BY <2>1, <2>2, <2>4
  <2>6. tick' \in [Tick -> TickState] /\ \A u \in Tick : tick'[u].pc = "wait" => tick'[u].at \in Agent
    BY <1>0, <2>1 DEF TeamTypeOK, PendingSound, TickState
  <2>7. stopping' => stopping
    BY <2>1 DEF stopping
  <2> QED
    BY <1>0, <1>1, <2>1, <2>3, <2>5, <2>6, <2>7, CoordStepKeeps
<1> QED
  BY <1>2, <1>3

LEMMA ReconcileAskKeeps ==
    ASSUME TeamIInv, NEW t \in Tick, NEW a \in Agent, ReconcileAsk(t, a)
    PROVE  TeamIInv'
<1>0. TeamTypeOK /\ agent \in [Agent -> AgentState] /\ PendingSound /\ listed \subseteq Agent
  BY DEF TeamIInv, TeamTypeOK
<1>1. coord' \in {"running", "asking", "aborted", "stopped"} /\ tick[t] \in TickState
  BY BusyTick DEF ReconcileAsk
<1>2. tick' \in [Tick -> TickState] /\ \A u \in Tick : tick'[u].pc = "wait" => tick'[u].at \in Agent
  <2> DEFINE n == [tick[t] EXCEPT !.pc = "wait", !.at = a, !.seen = @ \cup {a}]
  <2>1. n \in TickState /\ n.pc = "wait" /\ n.at = a
    BY <1>1 DEF TickState
  <2>2. tick' = [tick EXCEPT ![t] = n]
    BY DEF ReconcileAsk
  <2> HIDE DEF n
  <2> QED
    BY <1>0, <2>1, <2>2 DEF TeamTypeOK, PendingSound
<1> QED
  BY <1>0, <1>1, <1>2, GentleSame, CoordStepKeeps DEF ReconcileAsk, stopping

LEMMA ReconcileWaitedKeeps ==
    ASSUME TeamIInv, NEW t \in Tick, ReconcileWaited(t)
    PROVE  TeamIInv'
<1>0. TeamTypeOK /\ agent \in [Agent -> AgentState] /\ PendingSound /\ listed \subseteq Agent
  BY DEF TeamIInv, TeamTypeOK
<1>1. coord' \in {"running", "asking", "aborted", "stopped"} /\ tick[t].at \in Agent
  BY <1>0, BusyTick DEF ReconcileWaited, PendingSound
<1>2. tick' \in [Tick -> TickState] /\ \A u \in Tick : tick'[u].pc = "wait" => tick'[u].at \in Agent
  <2> DEFINE n == [tick[t] EXCEPT !.pc = "remove", !.at = NoAgent]
  <2>1. tick \in [Tick -> TickState]
    BY <1>0 DEF TeamTypeOK
  <2>2. n \in TickState /\ n.pc = "remove"
    BY <2>1 DEF TickState
  <2>3. tick' = [tick EXCEPT ![t] = n]
    BY <2>1 DEF ReconcileWaited
  <2> HIDE DEF n
  <2> QED
    BY <1>0, <2>1, <2>2, <2>3 DEF PendingSound
<1>3. /\ agent' \in [Agent -> AgentState]
      /\ \A a \in Agent : Gentle(agent[a], agent'[a]) /\ agent'[a].on = agent[a].on
  BY <1>0, <1>1, AbortedGentle, GentleSame DEF ReconcileWaited
<1>4. PICK g \in [Agent -> AgentState] : g = agent'
  BY <1>3
<1> QED
  BY <1>0, <1>1, <1>2, <1>3, <1>4, CoordStepKeeps DEF ReconcileWaited, stopping

\* and removed scripts once they have settled.
LEMMA ReconcileEndKeeps ==
    ASSUME TeamIInv, NEW t \in Tick, ReconcileEnd(t)
    PROVE  TeamIInv'
<1>0. TeamTypeOK /\ agent \in [Agent -> AgentState] /\ PendingSound /\ listed \subseteq Agent
  BY DEF TeamIInv, TeamTypeOK
<1>1. coord' \in {"running", "asking", "aborted", "stopped"}
  BY BusyTick DEF ReconcileEnd
<1>2. tick' \in [Tick -> TickState] /\ \A u \in Tick : tick'[u].pc = "wait" => tick'[u].at \in Agent
  BY <1>0, NoTickTyped DEF ReconcileEnd, TeamTypeOK, PendingSound
<1>3. \A a \in listed \ listed' : agent[a].of \in Custom /\ agent[a].cli = "none"
  BY DEF ReconcileEnd, Script, Running
<1>4. listed' \subseteq listed
  BY DEF ReconcileEnd
<1> QED
  BY <1>0, <1>1, <1>2, <1>3, <1>4, GentleSame, CoordStepKeeps DEF ReconcileEnd, stopping

\* start() ends, a minute passes, stop() goes on; it stops all residents in one go.
LEMMA CoordinatorKeeps ==
    ASSUME TeamIInv, StartDone \/ MinutePasses \/ StopResidents \/ StopNext
    PROVE  TeamIInv'
<1>0. TeamTypeOK /\ agent \in [Agent -> AgentState] /\ PendingSound /\ listed \subseteq Agent
      /\ tick \in [Tick -> TickState] /\ AgentsSound /\ TeamInv /\ Custom \subseteq Teammate
      /\ NoTeammate \notin Teammate /\ UnbornOf
  BY TeamAssumption DEF TeamIInv, TeamTypeOK, UnbornOf, Unborn
<1>1. CASE StartDone
  BY <1>0, <1>1, GentleSame, CoordStepKeeps DEF StartDone, stopping, PendingSound
<1>2. CASE MinutePasses
  BY <1>0, <1>2, GentleSame, CoordStepKeeps DEF MinutePasses, stopping, PendingSound
<1>3. CASE StopResidents
  <2> DEFINE g == [a \in Agent |-> IF a \in listed /\ Resident(a) /\ agent[a].on
                                   THEN StoppedAgent(agent[a]) ELSE agent[a]]
  <2>1. /\ agent' = g /\ coord' = "asking"
        /\ UNCHANGED <<desired, editor, edits, listed, tick, starting, spawns>>
    BY <1>3 DEF StopResidents, CoordStep
  <2>2. g \in [Agent -> AgentState] /\ \A a \in Agent : Gentle(agent[a], g[a])
    BY <1>0, StoppedGentle, GentleSame DEF Resident
  <2>3. \A a \in Agent : ~g[a].on
    <3> SUFFICES ASSUME NEW a \in Agent PROVE ~g[a].on
      OBVIOUS
    <3>1. CASE a \in listed /\ Resident(a) /\ agent[a].on
      BY <1>0, <3>1, StoppedGentle DEF Resident
    <3>2. CASE ~(a \in listed /\ Resident(a) /\ agent[a].on)
      <4>1. ~agent[a].on
        <5>1. Resident(a) => ~agent[a].on
          BY <1>0, <3>2 DEF TeamInv
        <5>2. Script(a) => ~agent[a].on
          BY <1>0 DEF AgentsSound
        <5>3. agent[a].of = NoTeammate => ~agent[a].on
          BY <1>0 DEF AgentsSound, UnbornOf
        <5>4. agent[a].of \in Teammate \cup {NoTeammate}
          BY <1>0 DEF AgentState
        <5> QED
          BY <5>1, <5>2, <5>3, <5>4 DEF Resident, Script
      <4> QED
        BY <3>2, <4>1
    <3> QED
      BY <3>1, <3>2
  <2> HIDE DEF g
  <2> QED
    BY <1>0, <2>1, <2>2, <2>3, CoordStepKeeps DEF PendingSound
<1>4. CASE AbortScripts
  <2> DEFINE g == [a \in Agent |-> IF a \in Scripts THEN AbortedScript(agent[a]) ELSE agent[a]]
  <2>1. /\ agent' = g /\ coord' = "aborted" /\ coord = "asking"
        /\ UNCHANGED <<desired, editor, edits, listed, tick, starting, spawns>>
    BY <1>4 DEF AbortScripts, CoordStep
  <2>2. g \in [Agent -> AgentState] /\ \A a \in Agent : Gentle(agent[a], g[a])
    BY <1>0, AbortedGentle, GentleSame
  <2> HIDE DEF g
  <2> QED
    BY <1>0, <2>1, <2>2, CoordStepKeeps DEF PendingSound, stopping
<1>5. CASE TeamStopped
  BY <1>0, <1>5, GentleSame, CoordStepKeeps DEF TeamStopped, CoordStep, stopping, PendingSound
<1> QED
  BY <1>1, <1>2, <1>3, <1>4, <1>5 DEF StopNext

\* start() starts each member of the definition once.
LEMMA SpawnInitialKeeps ==
    ASSUME TeamIInv, NEW m \in Teammate, SpawnInitial(m)
    PROVE  TeamIInv'
<1>0. TeamTypeOK /\ AgentsSound /\ PendingSound /\ m \in starting /\ coord = "starting"
  BY DEF TeamIInv, SpawnInitial
<1>1. /\ starting \subseteq Initial /\ \A a \in listed : agent[a].of \notin starting
      /\ Cardinality(listed) + Cardinality(starting) <= Cardinality(Initial)
      /\ \A t \in Tick : tick[t].pc = "idle"
  BY <1>0 DEF TeamIInv, StartSound
<1>2. IsFiniteSet(starting) /\ IsFiniteSet(listed) /\ IsFiniteSet(Initial)
  BY <1>0, <1>1, TeamAssumption, FS_Subset DEF AgentsSound
<1>3. /\ Cardinality(starting) \in Nat /\ Cardinality(listed) \in Nat /\ Cardinality(Initial) \in Nat
      /\ Cardinality(starting \ {m}) = Cardinality(starting) - 1
      /\ Cardinality(starting \ {m}) \in Nat
  BY <1>0, <1>2, FS_CardinalityType, FS_RemoveElement
<1>4. StartsOne(m) /\ UNCHANGED <<desired, editor, edits, tick, coord, spawns>>
      /\ starting' = starting \ {m}
  BY <1>0, <1>1 DEF SpawnInitial, StartsOne, Has, stopping
<1>5. Cardinality(listed) < Cardinality(Initial)
  BY <1>1, <1>3
<1>6. /\ agent' \in [Agent -> AgentState] /\ listed' \subseteq Agent
      /\ AgentsSound' /\ TeamInv'
      /\ Cardinality(listed') = Cardinality(listed) + 1
      /\ \A a \in listed' : agent'[a].of \in {m} \cup {agent[b].of : b \in listed}
  BY <1>4, <1>5, StartsOneKeeps
<1>7. StartSound'
  <2>1. \A a \in listed' : agent'[a].of \notin starting'
    BY <1>1, <1>4, <1>6
  <2>2. Cardinality(listed') + Cardinality(starting') <= Cardinality(Initial)
    BY <1>1, <1>3, <1>4, <1>6
  <2> QED
    BY <1>1, <1>4, <2>1, <2>2 DEF StartSound
<1> QED
  BY <1>0, <1>4, <1>6, <1>7 DEF TeamIInv, TeamTypeOK, PendingSound

\* reconcile() looks at the list and at the cap again before each start.
LEMMA ReconcileSpawnKeeps ==
    ASSUME TeamIInv, NEW t \in Tick, NEW m \in Teammate, ReconcileSpawn(t, m)
    PROVE  TeamIInv'
<1>0. TeamTypeOK /\ AgentsSound /\ PendingSound /\ coord # "starting" /\ tick[t] \in TickState
  BY BusyTick DEF TeamIInv, ReconcileSpawn
<1>1. /\ StartsOne(m) /\ UNCHANGED <<desired, editor, edits, coord, starting>>
      /\ spawns' = spawns + 1 /\ spawns < MaxSpawnsPerMinute
      /\ Cardinality(RunningAgents) < MaxTeammates
  BY DEF ReconcileSpawn, StartsOne, Missing, MaySpawn, stopping
<1>2. /\ agent' \in [Agent -> AgentState] /\ listed' \subseteq Agent
      /\ AgentsSound' /\ TeamInv'
  BY <1>1, StartsOneKeeps
<1>3. tick' \in [Tick -> TickState] /\ \A u \in Tick : tick'[u].pc = "wait" => tick'[u].at \in Agent
  BY <1>0 DEF ReconcileSpawn, TeamTypeOK, PendingSound, TickState
<1>4. spawns' \in 0..MaxSpawnsPerMinute
  <2>1. spawns \in Nat /\ MaxSpawnsPerMinute \in Nat
    BY <1>0, TeamAssumption DEF TeamTypeOK
  <2> QED
    BY <1>1, <2>1
<1> QED
  BY <1>0, <1>1, <1>2, <1>3, <1>4 DEF TeamIInv, TeamTypeOK, StartSound, PendingSound

\* Every step of the team keeps the invariant.
LEMMA TeamStepKeeps == TeamIInv /\ [TeamNext]_teamVars => TeamIInv'
<1> SUFFICES ASSUME TeamIInv, [TeamNext]_teamVars PROVE TeamIInv'
  OBVIOUS
<1>1. CASE (\E e \in Editor : EditWrite(e))
           \/ (\E e \in Editor, op \in {"upsert", "remove"}, m \in Teammate : EditRead(e, op, m))
  BY <1>1, EditsKeep
<1>2. CASE \E a \in Agent : PollNext(a) \/ CliEnds(a)
  BY <1>2, AgentActionsKeep
<1>3. ASSUME NEW t \in Tick, ReconcileStart(t) \/ ReconcileNext(t)
      PROVE  TeamIInv'
  BY <1>3, ReconcileStartKeeps, ReconcileReadKeeps, ReconcileStopKeeps, ReconcileWaitedKeeps,
     ReconcileEndKeeps, ReconcileSpawnKeeps, ReconcileAskKeeps DEF ReconcileNext
<1>4. CASE StartDone \/ MinutePasses \/ StopResidents \/ StopNext
  BY <1>4, CoordinatorKeeps
<1>5. CASE \E m \in Teammate : SpawnInitial(m)
  BY <1>5, SpawnInitialKeeps
<1>6. CASE UNCHANGED teamVars
  BY <1>6 DEF teamVars, TeamIInv, TeamTypeOK, TeamInv, AgentsSound, StartSound, PendingSound,
     Running, Script, Resident, RunningAgents, stopping
<1> QED
  BY <1>1, <1>2, <1>3, <1>4, <1>5, <1>6 DEF TeamNext, StartNext

\* Reconciliations that overlap with each other, with changes of members.json
\* and with stop() never run a member twice, never lose sight of an agent that
\* runs, keep to the cap and start nothing once stop() has begun.
THEOREM TeamNeverDoubled == TeamSpec => []TeamSafe
<1>1. TeamIInv => TeamSafe
  BY DEF TeamIInv, TeamSafe
<1> QED
  BY <1>1, TeamInitial, TeamStepKeeps, PTL DEF TeamSpec

=============================================================================
