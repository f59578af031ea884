------------------------ MODULE LongTextSync_proofs ------------------------
(***************************************************************************)
(* Proofs about LongTextSync for every number of clients and edits and for *)
(* every combination of faults: types, exact replicas, edits in one place  *)
(* only, that LongTextSync implements SharedText, and that attached        *)
(* clients converge. All of them hold for one server process or several;   *)
(* that attached clients stay attached, the last theorem, for one.         *)
(***************************************************************************)
EXTENDS LongTextSync, SequenceTheorems, FiniteSetTheorems, TLAPS

-----------------------------------------------------------------------------
(* Types of the operators *)

LEMMA LatestType == ASSUME TypeOK PROVE Latest \in Nat \ {0}
BY DEF TypeOK, Latest

LEMMA LogType ==
  ASSUME TypeOK, NEW i \in 1 .. Len(log)
  PROVE  /\ log[i] \in Delta
         /\ log[i].ops \subseteq Edit
         /\ log[i].author \in Client
<1>1. log[i] \in Delta
  BY ElementOfSeq DEF TypeOK
<1> QED BY <1>1 DEF Delta

\* The texts of the record contain typed edits only.
LEMMA DocType ==
  ASSUME TypeOK, NEW v \in Int, v <= Latest
  PROVE  Doc(v) \subseteq Edit
<1>1. \A i \in 1 .. (v - 1) : log[i].ops \subseteq Edit
  <2>1. Len(log) \in Nat /\ v - 1 <= Len(log)
    BY LatestType DEF TypeOK, Latest
  <2> QED BY <2>1, LogType
<1> QED BY <1>1 DEF Doc

LEMMA CommittedType ==
  ASSUME TypeOK, NEW id \in 2 .. Latest
  PROVE  /\ log[id - 1] \in Delta
         /\ Committed(id) \in Changeset
         /\ AuthorOf(id) \in Client
<1>1. log[id - 1] \in Delta
  <2>1. id - 1 \in 1 .. Len(log)
    BY DEF TypeOK, Latest
  <2> QED BY <2>1, LogType
<1>2. Doc(id - 1) \subseteq Edit
  BY DocType, LatestType
<1> QED BY <1>1, <1>2 DEF Committed, AuthorOf, Changeset, Delta, Text

LEMMA TransformType ==
  ASSUME NEW x \in Changeset, NEW y \in Changeset
  PROVE  Transform(x, y) \in Changeset
BY DEF Transform, Changeset, Text

LEMMA MergeType ==
  ASSUME NEW x \in Changeset, NEW y \in Changeset
  PROVE  AddToBuffer(x, y) \in Changeset
BY DEF AddToBuffer, Merge, Changeset, Text

LEMMA ForeignType ==
  ASSUME TypeOK, NEW c \in Client, NEW m \in Changeset
  PROVE  /\ AfterInFlight(c, m) \in Changeset
         /\ AfterBuffer(c, m) \in Changeset
         /\ InFlightAfter(c, m) \in Changeset
         /\ BufferAfter(c, m) \in Changeset
<1>1. inFlightOp[c] \in Changeset /\ buffer[c] \in Changeset
  BY DEF TypeOK
<1>2. NoChange \in Changeset
  BY DEF NoChange, Changeset, Text
<1>3. AfterInFlight(c, m) \in Changeset
  BY <1>1, TransformType DEF AfterInFlight
<1>4. AfterBuffer(c, m) \in Changeset
  BY <1>1, <1>3, TransformType DEF AfterBuffer
<1>5. InFlightAfter(c, m) \in Changeset
  BY <1>1, <1>2, TransformType DEF InFlightAfter
<1>6. BufferAfter(c, m) \in Changeset
  BY <1>1, <1>3, TransformType DEF BufferAfter
<1> QED BY <1>3, <1>4, <1>5, <1>6

LEMMA MessageType ==
  ASSUME NEW c \in Client, NEW n \in Nat, NEW cs \in Changeset
  PROVE  Message(c, n, cs) \in Change
BY DEF Message, Change, Changeset

LEMMA RebasedType ==
  ASSUME TypeOK, NEW t \in running, t.head <= Latest, t.change.parent >= 1
  PROVE  Rebased(t) \in Changeset
<1>1. t.change \in Change /\ t.head \in Nat
  BY DEF TypeOK
<1>2. /\ t.change.parent \in Nat
      /\ [ops |-> t.change.ops, ctx |-> t.change.ctx] \in Changeset
      /\ t.change.ops \in SUBSET Edit /\ t.change.ctx \in Text
  BY <1>1 DEF Change, Changeset
<1>3. CASE t.change.parent < t.head
  <2>1. Since(t.change.parent, t.head) \in Changeset
    <3>1. Doc(t.change.parent) \subseteq Edit
      BY <1>1, <1>2, <1>3, DocType, LatestType
    <3>2. \A i \in t.change.parent .. (t.head - 1) : log[i].ops \subseteq Edit
      <4>1. Len(log) \in Nat /\ t.head - 1 <= Len(log)
        BY LatestType, <1>1 DEF TypeOK, Latest
      <4> QED BY <4>1, <1>1, <1>2, LogType
    <3> QED BY <3>1, <3>2 DEF Since, Changeset, Text
  <2> DEFINE S == Since(t.change.parent, t.head)
  <2>2. Transform(t.change, S) \in Changeset
    <3> HIDE DEF S
    <3>1. S.ops \in SUBSET Edit /\ S.ctx \in Text
      BY <2>1 DEF S, Changeset
    <3> QED BY <3>1, <1>2 DEF Transform, Changeset, Text
  <2> QED BY <2>2, <1>3 DEF Rebased
<1>4. CASE ~(t.change.parent < t.head)
  BY <1>2, <1>4 DEF Rebased
<1> QED BY <1>3, <1>4

-----------------------------------------------------------------------------
(* Type correctness, together with the bookkeeping it rests on *)

\* A record is joined only after it has been loaded, and what refers to a version
\* refers to one the log has reached. The running task has seen the whole log, since
\* no other task can commit before it ends.
Bookkeeping ==
  /\ \A c \in Client : initialized[c] => version[c] >= 1
  /\ \A c \in Client : sub[c] # "none" => initialized[c]
  /\ \A c \in Client : chan[c] # << >> => sub[c] = "joined"
  /\ \A p \in sent : p.parent \in 1 .. Latest
  /\ \A t \in running : t.change.parent \in 1 .. Latest /\ t.head = Latest

TypeInv == TypeOK /\ Bookkeeping

LEMMA TypeInit == Init => TypeInv
<1> SUFFICES ASSUME Init PROVE TypeInv
  OBVIOUS
<1>1. Latest = 1 /\ log \in Seq(Delta)
  BY DEF Init, Latest
<1>2. NoChange \in Changeset
  BY DEF NoChange, Changeset, Text
<1>3. outbox \in Seq(2 .. Latest) /\ chan \in [Client -> Seq({QuotaNotice} \cup 2 .. Latest)]
  BY DEF Init
<1>4. TypeOK
  BY <1>1, <1>2, <1>3, SyncAssumption DEF Init, TypeOK, Text
<1>5. Bookkeeping
  BY DEF Init, Bookkeeping
<1> QED BY <1>4, <1>5 DEF TypeInv

\* Emit appends a message to the channels that are joined.
LEMMA EmitType ==
  ASSUME TypeOK, NEW m \in {QuotaNotice} \cup 2 .. Latest, Emit(m)
  PROVE  /\ chan' \in [Client -> Seq({QuotaNotice} \cup 2 .. Latest)]
         /\ \A c \in Client : sub[c] # "joined" => chan'[c] = chan[c]
<1> DEFINE M == {QuotaNotice} \cup 2 .. Latest
<1>1. \A c \in Client : chan[c] \in Seq(M) /\ Append(chan[c], m) \in Seq(M)
  BY AppendProperties DEF TypeOK
<1> QED BY <1>1 DEF Emit

\* Consuming the head of a channel leaves a sequence of the same kind.
LEMMA ConsumeType ==
  ASSUME TypeOK, NEW c \in Client, chan[c] # << >>, Consume(c)
  PROVE  /\ Head(chan[c]) \in {QuotaNotice} \cup 2 .. Latest
         /\ chan' \in [Client -> Seq({QuotaNotice} \cup 2 .. Latest)]
         /\ \A d \in Client : chan'[d] # << >> => chan[d] # << >>
<1> DEFINE M == {QuotaNotice} \cup 2 .. Latest
<1>1. chan[c] \in Seq(M)
  BY DEF TypeOK
<1>2. Head(chan[c]) \in M /\ Tail(chan[c]) \in Seq(M)
  BY <1>1, HeadTailProperties
<1> QED BY <1>1, <1>2 DEF Consume, TypeOK

LEMMA LoadType ==
  ASSUME TypeInv, NEW c \in Client, Load(c)
  PROVE  TypeInv'
<1>1. requests' \subseteq Client \X Slot
  BY SyncAssumption DEF TypeInv, TypeOK, Load, Slot
<1> QED BY <1>1 DEF TypeInv, TypeOK, Bookkeeping, Load, server, replica, Latest

LEMMA GetRecordType ==
  ASSUME TypeInv, NEW q \in requests, GetRecord(q[1], q[2])
  PROVE  TypeInv'
<1>1. q[1] \in Client /\ q[2] \in Slot
  BY DEF TypeInv, TypeOK
<1>2. Latest \in 1 .. Latest
  BY LatestType DEF TypeInv
<1>3. replies' \subseteq [client : Client, load : Slot, version : 1 .. Latest]
  BY <1>1, <1>2 DEF TypeInv, TypeOK, GetRecord
<1> QED BY <1>3 DEF TypeInv, TypeOK, Bookkeeping, GetRecord, server, replica, Latest

LEMMA LoadedType ==
  ASSUME TypeInv, NEW c \in Client, NEW r \in replies, Loaded(c, r)
  PROVE  TypeInv'
<1>1. r.version \in 1 .. Latest
  BY DEF TypeInv, TypeOK
<1>2. Doc(r.version) \in Text
  BY <1>1, DocType, LatestType DEF TypeInv, Text
<1>3. NoChange \in Changeset
  BY DEF NoChange, Changeset, Text
<1>4. /\ value' \in [Client -> Text]
      /\ version' \in [Client -> 0 .. Latest]
      /\ inFlightOp' \in [Client -> Changeset]
      /\ buffer' \in [Client -> Changeset]
      /\ inTransmission' \in [Client -> BOOLEAN]
      /\ initialized' \in [Client -> BOOLEAN]
      /\ sub' \in [Client -> {"none", "joining", "joined", "cut"}]
  BY <1>1, <1>2, <1>3 DEF TypeInv, TypeOK, Loaded
<1>5. UNCHANGED << log, running, outbox, sent, chan, requests, made, faults >>
  BY DEF Loaded, server
<1>6. TypeOK'
  BY <1>4, <1>5 DEF TypeInv, TypeOK, Loaded, Latest
<1>7. Bookkeeping'
  BY <1>1, <1>5 DEF TypeInv, TypeOK, Bookkeeping, Loaded, Latest
<1> QED BY <1>6, <1>7 DEF TypeInv

LEMMA JoinType ==
  ASSUME TypeInv, NEW c \in Client, Join(c)
  PROVE  TypeInv'
BY DEF TypeInv, TypeOK, Bookkeeping, Join, server, loads, replica, Latest

LEMMA LocalEditType ==
  ASSUME TypeInv, NEW c \in Client, NEW e \in Edit, LocalEdit(c, e)
  PROVE  TypeInv'
<1> DEFINE cs == [ops |-> {e}, ctx |-> value[c]]
<1>1. cs \in Changeset
  BY DEF TypeInv, TypeOK, Changeset
<1>2. version[c] \in 1 .. Latest /\ version[c] \in Nat
  BY LatestType DEF TypeInv, TypeOK, Bookkeeping, LocalEdit
<1>3. Message(c, version[c], cs) \in Change /\ Message(c, version[c], cs).parent = version[c]
  BY <1>1, <1>2, MessageType DEF Message
<1>4. AddToBuffer(buffer[c], cs) \in Changeset
  BY <1>1, MergeType DEF TypeInv, TypeOK
<1> HIDE DEF cs
<1>5. /\ sent' \subseteq Change
      /\ \A p \in sent' : p.parent \in 1 .. Latest
      /\ inTransmission' \in [Client -> BOOLEAN]
      /\ inFlightOp' \in [Client -> Changeset]
      /\ buffer' \in [Client -> Changeset]
  <2>1. CASE TransmitEdit(c, e)
    BY <2>1, <1>1, <1>2, <1>3 DEF TypeInv, TypeOK, Bookkeeping, TransmitEdit, cs
  <2>2. CASE BufferEdit(c, e)
    BY <2>2, <1>4 DEF TypeInv, TypeOK, Bookkeeping, BufferEdit, cs
  <2> QED BY <2>1, <2>2 DEF LocalEdit
<1>6. value' \in [Client -> Text] /\ made' \subseteq Edit
  BY DEF TypeInv, TypeOK, LocalEdit, Text
<1>7. UNCHANGED << log, running, outbox, chan, requests, replies, sub, initialized, version,
                  outOfStep, faults >>
  BY DEF LocalEdit, server, loads
<1>8. TypeOK'
  BY <1>5, <1>6, <1>7 DEF TypeInv, TypeOK, Latest
<1>9. Bookkeeping'
  BY <1>5, <1>7 DEF TypeInv, Bookkeeping, Latest
<1> QED BY <1>8, <1>9 DEF TypeInv

LEMMA StartTaskType ==
  ASSUME TypeInv, NEW p \in sent, StartTask(p)
  PROVE  TypeInv'
<1>1. p \in Change /\ Latest \in Nat /\ p.parent \in 1 .. Latest
  BY LatestType DEF TypeInv, TypeOK, Bookkeeping
<1>2. /\ running' = {[change |-> p, head |-> Latest]}
      /\ sent' \subseteq sent
  BY DEF StartTask, QueueFree
<1>3. running' \subseteq [change : Change, head : Nat] /\ \A s, t \in running' : s = t
  BY <1>1, <1>2
<1>4. UNCHANGED << log, outbox, chan, requests, replies, sub, initialized, value, version,
                  inTransmission, inFlightOp, buffer, made, outOfStep, faults >>
  BY DEF StartTask, loads, replica
<1>5. TypeOK'
  BY <1>2, <1>3, <1>4 DEF TypeInv, TypeOK, Latest
<1>6. Bookkeeping'
  BY <1>1, <1>2, <1>4 DEF TypeInv, Bookkeeping, Latest
<1> QED BY <1>5, <1>6 DEF TypeInv

LEMMA CommitTaskType ==
  ASSUME TypeInv, NEW t \in running, CommitTask(t)
  PROVE  TypeInv'
<1>1. Rebased(t) \in Changeset /\ t.change \in Change
  <2>1. t.head <= Latest /\ t.change.parent >= 1
    BY LatestType DEF TypeInv, Bookkeeping
  <2> QED BY <2>1, RebasedType DEF TypeInv, TypeOK
<1> DEFINE d == [author |-> t.change.author, ops |-> Rebased(t).ops,
                 inStep |-> t.change.inStep, exact |-> Fits(t)]
<1>2. d \in Delta
  BY <1>1 DEF Change, Changeset, Delta, Fits
<1>3. /\ log' = Append(log, d)
      /\ outbox' = Append(outbox, Latest + 1)
      /\ running' = running \ {t}
      /\ UNCHANGED << sent, chan, requests, replies, sub, initialized, value, version,
                      inTransmission, inFlightOp, buffer, made, outOfStep, faults >>
  BY DEF CommitTask, loads, replica
<1> HIDE DEF d
<1>4. log' \in Seq(Delta) /\ Latest' = Latest + 1 /\ Latest \in Nat \ {0}
  <2>1. log \in Seq(Delta)
    BY DEF TypeInv, TypeOK
  <2>2. log' \in Seq(Delta) /\ Len(log') = Len(log) + 1
    BY <1>2, <1>3, <2>1, AppendProperties
  <2>3. Latest' = Latest + 1
    BY <2>1, <2>2 DEF Latest
  <2> QED BY <2>2, <2>3, LatestType DEF TypeInv
<1>5. 2 .. Latest \subseteq 2 .. Latest' /\ Latest + 1 \in 2 .. Latest'
  BY <1>4
<1>6. outbox' \in Seq(2 .. Latest')
  <2>1. outbox \in Seq(2 .. Latest')
    BY <1>5, SeqMonotonic DEF TypeInv, TypeOK
  <2> QED BY <2>1, <1>3, <1>5, AppendProperties
<1>7. chan' \in [Client -> Seq({QuotaNotice} \cup 2 .. Latest')]
  <2>1. Seq({QuotaNotice} \cup 2 .. Latest) \subseteq Seq({QuotaNotice} \cup 2 .. Latest')
    BY <1>5, SeqMonotonic
  <2> QED BY <2>1, <1>3 DEF TypeInv, TypeOK
<1>8. TypeOK'
  <2>1. 0 .. Latest \subseteq 0 .. Latest' /\ 1 .. Latest \subseteq 1 .. Latest'
    BY <1>4
  <2>2. replies' \subseteq [client : Client, load : Slot, version : 1 .. Latest']
    BY <2>1, <1>3 DEF TypeInv, TypeOK
  <2>3. version' \in [Client -> 0 .. Latest']
    BY <2>1, <1>3 DEF TypeInv, TypeOK
  <2> QED BY <1>3, <1>4, <1>6, <1>7, <2>2, <2>3 DEF TypeInv, TypeOK
<1>9. Bookkeeping'
  <2>1. running' = {}
    BY <1>3 DEF TypeInv, TypeOK
  <2> QED BY <2>1, <1>3, <1>4 DEF TypeInv, Bookkeeping
<1> QED BY <1>8, <1>9 DEF TypeInv

LEMMA MergeFailsType ==
  ASSUME TypeInv, NEW t \in running, MergeFails(t)
  PROVE  TypeInv'
BY DEF TypeInv, TypeOK, Bookkeeping, MergeFails, loads, replica, Latest

LEMMA BroadcastType ==
  ASSUME TypeInv, NEW i \in 1 .. Len(outbox), Broadcast(i)
  PROVE  TypeInv'
<1> DEFINE L == SubSeq(outbox, 1, i - 1)
           R == SubSeq(outbox, i + 1, Len(outbox))
<1>1. outbox \in Seq(2 .. Latest) /\ i \in Int /\ Len(outbox) \in Int
  BY DEF TypeInv, TypeOK
<1>2. \A j \in 1 .. Len(outbox) : outbox[j] \in 2 .. Latest
  BY <1>1, ElementOfSeq
<1>3. L \in Seq(2 .. Latest) /\ R \in Seq(2 .. Latest)
  <2>1. \A j \in 1 .. (i - 1) : outbox[j] \in 2 .. Latest
    BY <1>1, <1>2
  <2>2. \A j \in (i + 1) .. Len(outbox) : outbox[j] \in 2 .. Latest
    BY <1>1, <1>2
  <2>3. 1 \in Int /\ i - 1 \in Int /\ i + 1 \in Int
    BY <1>1
  <2>4. L \in Seq(2 .. Latest)
    BY <2>1, <2>3, SubSeqProperties
  <2>5. R \in Seq(2 .. Latest)
    BY <1>1, <2>2, <2>3, SubSeqProperties
  <2> QED BY <2>4, <2>5
<1>4. outbox' = L \o R
  BY DEF Broadcast
<1> HIDE DEF L, R
<1>5. outbox' \in Seq(2 .. Latest)
  BY <1>3, <1>4, ConcatProperties
<1>6. Emit(outbox[i]) /\ outbox[i] \in {QuotaNotice} \cup 2 .. Latest
  BY <1>2 DEF Broadcast
<1>7. /\ chan' \in [Client -> Seq({QuotaNotice} \cup 2 .. Latest)]
      /\ \A c \in Client : sub[c] # "joined" => chan'[c] = chan[c]
  BY <1>6, EmitType DEF TypeInv
<1>8. UNCHANGED << log, running, sent, requests, replies, sub, initialized, value, version,
                  inTransmission, inFlightOp, buffer, made, outOfStep, faults >>
  BY DEF Broadcast, loads, replica
<1>9. TypeOK'
  BY <1>5, <1>7, <1>8 DEF TypeInv, TypeOK, Latest
<1>10. Bookkeeping'
  BY <1>7, <1>8 DEF TypeInv, Bookkeeping, Latest
<1> QED BY <1>9, <1>10 DEF TypeInv

LEMMA FaultType ==
  ASSUME TypeInv, FaultStep
  PROVE  TypeInv'
<1>0. \A x \in FaultKind : Happens(x) => faults' \in 0 .. MaxFaults
  BY SyncAssumption DEF Happens, TypeInv, TypeOK
<1>1. ASSUME NEW p \in sent, QuotaViolation(p)
      PROVE  TypeInv'
  <2>1. /\ chan' \in [Client -> Seq({QuotaNotice} \cup 2 .. Latest)]
        /\ \A c \in Client : sub[c] # "joined" => chan'[c] = chan[c]
    BY <1>1, EmitType DEF TypeInv, QuotaViolation
  <2>2. UNCHANGED << log, running, outbox, requests, replies, sub, initialized, value, version,
                    inTransmission, inFlightOp, buffer, made, outOfStep >>
    BY <1>1 DEF QuotaViolation, server, loads, replica
  <2>3. sent' \subseteq sent /\ faults' \in 0 .. MaxFaults
    BY <1>0, <1>1 DEF QuotaViolation, FaultKind
  <2>4. TypeOK'
    BY <2>1, <2>2, <2>3 DEF TypeInv, TypeOK, Latest
  <2>5. Bookkeeping'
    BY <2>1, <2>2, <2>3 DEF TypeInv, Bookkeeping, Latest
  <2> QED BY <2>4, <2>5 DEF TypeInv
<1>2. ASSUME NEW p \in sent, Unauthorized(p)
      PROVE  TypeInv'
  <2>1. sent' \subseteq sent /\ faults' \in 0 .. MaxFaults
    BY <1>0, <1>2 DEF Unauthorized, FaultKind
  <2>2. UNCHANGED << log, running, outbox, chan, requests, replies, sub, initialized, value,
                    version, inTransmission, inFlightOp, buffer, made, outOfStep >>
    BY <1>2 DEF Unauthorized, server, loads, replica
  <2> QED BY <2>1, <2>2 DEF TypeInv, TypeOK, Bookkeeping, Latest
<1>3. ASSUME NEW c \in Client, Disconnect(c)
      PROVE  TypeInv'
  <2>1. sent' \subseteq sent /\ faults' \in 0 .. MaxFaults
    BY <1>0, <1>3 DEF Disconnect, FaultKind
  <2>2. /\ sub' = [sub EXCEPT ![c] = "cut"] /\ sub[c] = "joined"
        /\ chan' = [chan EXCEPT ![c] = << >>]
        /\ UNCHANGED << log, running, outbox, requests, replies, initialized, value,
                        version, inTransmission, inFlightOp, buffer, made, outOfStep >>
    BY <1>3 DEF Disconnect, server, loads, replica
  <2>3. /\ chan' \in [Client -> Seq({QuotaNotice} \cup 2 .. Latest)]
        /\ sub' \in [Client -> {"none", "joining", "joined", "cut"}]
    BY <2>2 DEF TypeInv, TypeOK
  <2>4. TypeOK'
    BY <2>1, <2>2, <2>3 DEF TypeInv, TypeOK, Latest
  <2>5. Bookkeeping'
    BY <2>1, <2>2 DEF TypeInv, TypeOK, Bookkeeping, Latest
  <2> QED BY <2>4, <2>5 DEF TypeInv
<1>4. ASSUME Crash
      PROVE  TypeInv'
  <2>1. faults' \in 0 .. MaxFaults
    BY <1>0, <1>4 DEF Crash, FaultKind
  <2>2. /\ running' = {} /\ outbox' = << >> /\ sent' = {} /\ requests' = {} /\ replies' = {}
        /\ chan' = [c \in Client |-> << >>]
        /\ sub' = [c \in Client |-> IF sub[c] = "joined" THEN "cut" ELSE sub[c]]
        /\ UNCHANGED << log, initialized, value, version, inTransmission, inFlightOp, buffer,
                        made, outOfStep >>
    BY <1>4 DEF Crash, replica
  <2>3. /\ chan' \in [Client -> Seq({QuotaNotice} \cup 2 .. Latest)]
        /\ sub' \in [Client -> {"none", "joining", "joined", "cut"}]
        /\ outbox' \in Seq(2 .. Latest)
    BY <2>2 DEF TypeInv, TypeOK
  <2>4. TypeOK'
    BY <2>1, <2>2, <2>3 DEF TypeInv, TypeOK, Latest
  <2>5. Bookkeeping'
    BY <2>2 DEF TypeInv, TypeOK, Bookkeeping, Latest
  <2> QED BY <2>4, <2>5 DEF TypeInv
<1> QED BY <1>1, <1>2, <1>3, <1>4 DEF FaultStep

\* What a channel holds besides notices are ids of committed changes.
LEMMA ArrivesType ==
  ASSUME TypeInv, NEW c \in Client, NEW id, Arrives(c, id), Consume(c)
  PROVE  /\ id \in 2 .. Latest
         /\ chan' \in [Client -> Seq({QuotaNotice} \cup 2 .. Latest)]
         /\ \A d \in Client : chan'[d] # << >> => chan[d] # << >>
         /\ sub[c] = "joined" /\ initialized[c]
<1>1. chan[c] # << >> /\ id = Head(chan[c]) /\ id # QuotaNotice
  BY DEF Arrives
<1>2. /\ Head(chan[c]) \in {QuotaNotice} \cup 2 .. Latest
      /\ chan' \in [Client -> Seq({QuotaNotice} \cup 2 .. Latest)]
      /\ \A d \in Client : chan'[d] # << >> => chan[d] # << >>
  BY <1>1, ConsumeType DEF TypeInv
<1> QED BY <1>1, <1>2 DEF TypeInv, Bookkeeping

LEMMA DeliverNoticeType ==
  ASSUME TypeInv, NEW c \in Client, DeliverNotice(c)
  PROVE  TypeInv'
<1>1. /\ chan' \in [Client -> Seq({QuotaNotice} \cup 2 .. Latest)]
      /\ \A d \in Client : chan'[d] # << >> => chan[d] # << >>
  BY ConsumeType DEF DeliverNotice, TypeInv
<1>2. UNCHANGED << log, running, outbox, sent, requests, replies, sub, initialized, value,
                  version, inTransmission, inFlightOp, buffer, made, outOfStep, faults >>
  BY DEF DeliverNotice, server, loads, replica
<1>3. TypeOK'
  BY <1>1, <1>2 DEF TypeInv, TypeOK, Latest
<1>4. Bookkeeping'
  BY <1>1, <1>2 DEF TypeInv, Bookkeeping, Latest
<1> QED BY <1>3, <1>4 DEF TypeInv

LEMMA DeliverApprovalType ==
  ASSUME TypeInv, NEW c \in Client, NEW id \in Ids, DeliverApproval(c, id)
  PROVE  TypeInv'
<1>1. /\ id \in 2 .. Latest
      /\ chan' \in [Client -> Seq({QuotaNotice} \cup 2 .. Latest)]
      /\ \A d \in Client : chan'[d] # << >> => chan[d] # << >>
  BY ArrivesType DEF DeliverApproval
<1>2. UNCHANGED << log, running, outbox, requests, replies, sub, initialized, value, made, faults >>
  BY DEF DeliverApproval, server, loads
<1>3. buffer[c] \in Changeset /\ NoChange \in Changeset /\ id \in Nat /\ id \in 0 .. Latest
      /\ id \in 1 .. Latest
  BY <1>1, LatestType DEF TypeInv, TypeOK, NoChange, Changeset, Text
<1>4. \A p \in Resend(c, id) : p \in Change /\ p.parent \in 1 .. Latest
  BY <1>3, MessageType DEF Resend, Message
<1>5. outOfStep' \subseteq Client
  BY DEF DeliverApproval, FellOut, TypeInv, TypeOK
<1>6. /\ sent' \subseteq Change
      /\ \A p \in sent' : p.parent \in 1 .. Latest
  <2>1. \A p \in Resend(c, id), b \in BOOLEAN :
          [p EXCEPT !.inStep = b] \in Change /\ [p EXCEPT !.inStep = b].parent = p.parent
    BY <1>4 DEF Change
  <2>2. sent' = sent \cup {[p EXCEPT !.inStep = c \notin outOfStep'] : p \in Resend(c, id)}
    BY DEF DeliverApproval
  <2>3. (c \notin outOfStep') \in BOOLEAN
    OBVIOUS
  <2>4. \A p \in sent' \ sent : p \in Change /\ p.parent \in 1 .. Latest
    BY <1>4, <2>1, <2>2, <2>3
  <2> QED BY <2>4 DEF TypeInv, TypeOK, Bookkeeping
<1>7. /\ version' = [version EXCEPT ![c] = id]
      /\ version' \in [Client -> 0 .. Latest]
      /\ inTransmission' \in [Client -> BOOLEAN]
      /\ inFlightOp' \in [Client -> Changeset]
      /\ buffer' \in [Client -> Changeset]
  BY <1>3 DEF DeliverApproval, IsChange, TypeInv, TypeOK
<1>8. TypeOK'
  BY <1>1, <1>2, <1>5, <1>6, <1>7 DEF TypeInv, TypeOK, Latest
<1>9. Bookkeeping'
  BY <1>1, <1>2, <1>3, <1>6, <1>7 DEF TypeInv, TypeOK, Bookkeeping, Latest
<1> QED BY <1>8, <1>9 DEF TypeInv

LEMMA DeliverForeignType ==
  ASSUME TypeInv, NEW c \in Client, NEW id \in Ids, DeliverForeign(c, id)
  PROVE  TypeInv'
<1> DEFINE m == Committed(id)
<1>1. /\ id \in 2 .. Latest
      /\ chan' \in [Client -> Seq({QuotaNotice} \cup 2 .. Latest)]
      /\ \A d \in Client : chan'[d] # << >> => chan[d] # << >>
  BY ArrivesType DEF DeliverForeign
<1>2. m \in Changeset
  BY <1>1, CommittedType DEF TypeInv
<1> HIDE DEF m
<1>3. /\ AfterBuffer(c, m) \in Changeset
      /\ InFlightAfter(c, m) \in Changeset
      /\ BufferAfter(c, m) \in Changeset
  BY <1>2, ForeignType DEF TypeInv
<1>4. Apply(value[c], AfterBuffer(c, m)) \in Text
  BY <1>3 DEF TypeInv, TypeOK, Apply, Changeset, Text
<1>5. id \in 0 .. Latest /\ id \in 1 .. Latest
  BY <1>1, LatestType DEF TypeInv
<1>6. /\ value' = [value EXCEPT ![c] = Apply(@, AfterBuffer(c, m))]
      /\ version' = [version EXCEPT ![c] = id]
      /\ inFlightOp' = [inFlightOp EXCEPT ![c] = InFlightAfter(c, m)]
      /\ buffer' = [buffer EXCEPT ![c] = BufferAfter(c, m)]
      /\ outOfStep' \subseteq Client
      /\ UNCHANGED << log, running, outbox, sent, requests, replies, sub, initialized,
                      inTransmission, made, faults >>
  BY DEF DeliverForeign, FellOut, server, loads, TypeInv, TypeOK, m
<1>7. /\ value' \in [Client -> Text]
      /\ version' \in [Client -> 0 .. Latest]
      /\ inFlightOp' \in [Client -> Changeset]
      /\ buffer' \in [Client -> Changeset]
  BY <1>3, <1>4, <1>5, <1>6 DEF TypeInv, TypeOK
<1>8. TypeOK'
  BY <1>1, <1>6, <1>7 DEF TypeInv, TypeOK, Latest
<1>9. Bookkeeping'
  BY <1>1, <1>5, <1>6 DEF TypeInv, TypeOK, Bookkeeping, Latest
<1> QED BY <1>8, <1>9 DEF TypeInv

LEMMA DeliverMisfitType ==
  ASSUME TypeInv, NEW c \in Client, NEW id \in Ids, NEW k \in Slot, DeliverMisfit(c, id, k)
  PROVE  TypeInv'
<1>1. /\ chan' \in [Client -> Seq({QuotaNotice} \cup 2 .. Latest)]
      /\ \A d \in Client : chan'[d] # << >> => chan[d] # << >>
  BY ArrivesType DEF DeliverMisfit
<1>2. NoChange \in Changeset
  BY DEF NoChange, Changeset, Text
<1>3. /\ inFlightOp' = [inFlightOp EXCEPT ![c] = NoChange]
      /\ buffer' = [buffer EXCEPT ![c] = NoChange]
      /\ requests' = requests \cup {<< c, k >>}
      /\ outOfStep' \subseteq Client
      /\ UNCHANGED << log, running, outbox, sent, replies, sub, initialized, value, version,
                      inTransmission, made, faults >>
  BY DEF DeliverMisfit, FellOut, server, TypeInv, TypeOK
<1>4. TypeOK'
  BY SMTT(30), <1>1, <1>2, <1>3 DEF TypeInv, TypeOK, Latest
<1>5. Bookkeeping'
  BY <1>1, <1>3 DEF TypeInv, Bookkeeping, Latest
<1> QED BY <1>4, <1>5 DEF TypeInv

LEMMA TypeStep == TypeInv /\ [Next]_vars => TypeInv'
<1> SUFFICES ASSUME TypeInv, [Next]_vars PROVE TypeInv'
  OBVIOUS
<1>1. ASSUME ServerStep PROVE TypeInv'
  BY <1>1, StartTaskType, CommitTaskType, MergeFailsType, BroadcastType, GetRecordType
     DEF ServerStep
<1>2. ASSUME FaultStep PROVE TypeInv'
  BY <1>2, FaultType
<1>3. ASSUME NEW c \in Client, ClientStep(c) PROVE TypeInv'
  BY <1>3, LoadedType, JoinType, DeliverNoticeType, DeliverApprovalType, DeliverForeignType,
     DeliverMisfitType DEF ClientStep, Receive
<1>4. ASSUME NEW c \in Client, UserStep(c) PROVE TypeInv'
  BY <1>4, LoadType, LocalEditType DEF UserStep
<1>5. ASSUME UNCHANGED vars PROVE TypeInv'
  BY <1>5 DEF vars, TypeInv, TypeOK, Bookkeeping, Latest
<1> QED BY <1>1, <1>2, <1>3, <1>4, <1>5 DEF Next

\* In every reachable state all variables have their types, ids name committed changes,
\* and the record's queue runs at most one task (Queue with concurrency 1, redis Mutex).
THEOREM TypeCorrect == Spec => []TypeOK
<1>1. TypeInv => TypeOK
  BY DEF TypeInv
<1> QED BY <1>1, TypeInit, TypeStep, PTL DEF Spec

-----------------------------------------------------------------------------
(* The texts of the log *)

\* The text after change v is the text before it with the change's edits.
LEMMA DocNext ==
  ASSUME NEW v \in Nat \ {0}
  PROVE  Doc(v + 1) = Doc(v) \cup log[v].ops
<1>1. 1 .. (v + 1) - 1 = (1 .. (v - 1)) \cup {v}
  OBVIOUS
<1> QED BY <1>1 DEF Doc

\* A text and the deltas up to a later version make the later text.
LEMMA DocSpan ==
  ASSUME NEW v \in Nat \ {0}, NEW h \in Nat, v <= h
  PROVE  Doc(v) \cup Since(v, h).ops = Doc(h)
<1>1. 1 .. (h - 1) = (1 .. (v - 1)) \cup (v .. (h - 1))
  OBVIOUS
<1> QED BY <1>1 DEF Doc, Since

\* Committing leaves the texts of earlier versions as they are.
LEMMA DocStable ==
  ASSUME TypeOK, NEW d \in Delta, log' = Append(log, d)
  PROVE  \A v \in 1 .. Latest : Doc(v)' = Doc(v)
<1>1. \A i \in 1 .. Len(log) : log'[i] = log[i]
  BY AppendProperties DEF TypeOK
<1>2. \A v \in 1 .. Latest : 1 .. (v - 1) \subseteq 1 .. Len(log)
  BY DEF TypeOK, Latest
<1> SUFFICES ASSUME NEW v \in 1 .. Latest PROVE Doc(v)' = Doc(v)
  OBVIOUS
<1>3. \A i \in 1 .. (v - 1) : log'[i].ops = log[i].ops
  BY <1>1, <1>2
<1> QED BY <1>3 DEF Doc

-----------------------------------------------------------------------------
(* Replicas in step show what they should, and what they send lands where meant *)

\* The changesets a replica holds chain from the committed text of its version to the
\* text it shows; it buffers only behind a change in flight.
Chains(c) ==
  /\ value[c] = Doc(version[c]) \cup inFlightOp[c].ops \cup buffer[c].ops
  /\ IsChange(inFlightOp[c]) => inFlightOp[c].ctx = Doc(version[c])
  /\ IsChange(buffer[c]) => buffer[c].ctx = Doc(version[c]) \cup inFlightOp[c].ops
  /\ inTransmission[c] = IsChange(inFlightOp[c])
  /\ IsChange(buffer[c]) => IsChange(inFlightOp[c])

\* A change sent in step was made for the text of its parent version.
WellMade(p) == p.inStep => p.ctx = Doc(p.parent)

ReplicaInv ==
  /\ TypeInv
  /\ \A c \in Client : InStep(c) => Chains(c)
  /\ \A p \in sent : WellMade(p)
  /\ \A t \in running : WellMade(t.change)
  /\ ChangesLandWhereMeant

\* Steps that do not touch the replicas and the log
LEMMA ReplicaFrame ==
  ASSUME ReplicaInv, TypeInv',
         UNCHANGED << log, initialized, value, version, inTransmission, inFlightOp, buffer,
                      outOfStep >>,
         \A p \in sent' : WellMade(p),
         \A t \in running' : WellMade(t.change)
  PROVE  ReplicaInv'
<1>1. \A v : Doc(v)' = Doc(v)
  BY DEF Doc
<1>2. \A p : WellMade(p)' = WellMade(p)
  BY DEF WellMade, Doc
<1>3. \A c \in Client : (InStep(c) => Chains(c))'
  BY <1>1 DEF ReplicaInv, InStep, Chains
<1>4. ChangesLandWhereMeant'
  BY DEF ReplicaInv, ChangesLandWhereMeant
<1>5. \A p \in sent' : WellMade(p)'
  BY <1>2
<1>6. \A t \in running' : WellMade(t.change)'
  BY <1>2
<1> QED BY <1>3, <1>4, <1>5, <1>6 DEF ReplicaInv

\* Steps that leave replicas and log alone: loading's network steps, joining, starting
\* or failing a task, broadcasting, notices and faults
LEMMA QuietSteps ==
  ASSUME ReplicaInv, TypeInv',
         \/ \E c \in Client : Load(c) \/ Join(c) \/ DeliverNotice(c)
         \/ \E p \in sent : StartTask(p)
         \/ \E t \in running : MergeFails(t)
         \/ \E i \in 1 .. Len(outbox) : Broadcast(i)
         \/ \E q \in requests : GetRecord(q[1], q[2])
         \/ FaultStep
  PROVE  ReplicaInv'
<1>1. UNCHANGED << log, initialized, value, version, inTransmission, inFlightOp, buffer,
                  outOfStep >>
  BY DEF Load, Join, DeliverNotice, StartTask, MergeFails, Broadcast, GetRecord, FaultStep,
         QuotaViolation, Unauthorized, Disconnect, Crash, server, replica
<1>2. \A p \in sent' : WellMade(p)
  <2>1. sent' \subseteq sent
    BY DEF Load, Join, DeliverNotice, StartTask, MergeFails, Broadcast, GetRecord, FaultStep,
           QuotaViolation, Unauthorized, Disconnect, Crash
  <2> QED BY <2>1 DEF ReplicaInv
<1>3. \A t \in running' : WellMade(t.change)
  <2>1. ASSUME NEW p \in sent, StartTask(p)
        PROVE  \A t \in running' : t.change \in sent
    BY <2>1 DEF StartTask, QueueFree
  <2>2. running' \subseteq running \/ \E p \in sent : StartTask(p)
    BY DEF Load, Join, DeliverNotice, MergeFails, Broadcast, GetRecord, FaultStep,
           QuotaViolation, Unauthorized, Disconnect, Crash, server
  <2> QED BY <2>1, <2>2 DEF ReplicaInv
<1> QED BY <1>1, <1>2, <1>3, ReplicaFrame

\* An answer to a GET puts the replica into the state of that version.
LEMMA LoadedReplica ==
  ASSUME ReplicaInv, TypeInv', NEW c \in Client, NEW r \in replies, Loaded(c, r)
  PROVE  ReplicaInv'
<1>1. UNCHANGED << log, running, sent >>
  BY DEF Loaded, server
<1>2. \A v : Doc(v)' = Doc(v)
  BY <1>1 DEF Doc
<1>3. (InStep(c) => Chains(c))'
  <2>1. /\ value'[c] = Doc(r.version) /\ version'[c] = r.version /\ inTransmission'[c] = FALSE
        /\ inFlightOp'[c] = NoChange /\ buffer'[c] = NoChange
    BY DEF Loaded, ReplicaInv, TypeInv, TypeOK
  <2>2. Doc(version[c])' = Doc(r.version)
    BY <2>1, <1>1 DEF Doc
  <2>3. inFlightOp'[c].ops = {} /\ buffer'[c].ops = {}
    BY <2>1 DEF NoChange
  <2>4. IsChange(inFlightOp[c])' = FALSE /\ IsChange(buffer[c])' = FALSE
    BY <2>3 DEF IsChange
  <2> QED BY <2>1, <2>2, <2>3, <2>4 DEF Chains
<1>4. \A d \in Client \ {c} : (InStep(d) => Chains(d))'
  BY <1>2 DEF Loaded, Chains, InStep, ReplicaInv, TypeInv, TypeOK
<1>5. ChangesLandWhereMeant' /\ \A p : WellMade(p)' = WellMade(p)
  BY <1>1, <1>2 DEF ReplicaInv, ChangesLandWhereMeant, WellMade
<1> QED BY <1>1, <1>3, <1>4, <1>5 DEF ReplicaInv

\* What is typed is made for the text shown, which the chain describes.
LEMMA LocalEditReplica ==
  ASSUME ReplicaInv, TypeInv', NEW c \in Client, NEW e \in Edit, LocalEdit(c, e)
  PROVE  ReplicaInv'
<1> DEFINE cs == [ops |-> {e}, ctx |-> value[c]]
<1>1. UNCHANGED << log, running, initialized, version, outOfStep >>
  BY DEF LocalEdit, server
<1>2. \A v : Doc(v)' = Doc(v)
  BY <1>1 DEF Doc
<1>3. value' = [value EXCEPT ![c] = @ \cup {e}] /\ initialized[c]
  BY DEF LocalEdit
<1>4. CASE TransmitEdit(c, e)
  <2>1. /\ ~inTransmission[c]
        /\ inTransmission' = [inTransmission EXCEPT ![c] = TRUE]
        /\ inFlightOp' = [inFlightOp EXCEPT ![c] = cs]
        /\ sent' = sent \cup {Message(c, version[c], cs)}
        /\ buffer' = buffer
    BY <1>4 DEF TransmitEdit
  <2>2. InStep(c) => value[c] = Doc(version[c]) /\ ~IsChange(buffer[c])
    BY <2>1 DEF ReplicaInv, Chains, IsChange
  <2>3. (InStep(c) => Chains(c))'
    <3>1. /\ value'[c] = value[c] \cup {e} /\ version'[c] = version[c] /\ buffer'[c] = buffer[c]
          /\ inFlightOp'[c] = cs /\ inTransmission'[c] = TRUE
      BY <1>1, <1>3, <2>1 DEF ReplicaInv, TypeInv, TypeOK
    <3>2. InStep(c)' = InStep(c) /\ Doc(version[c])' = Doc(version[c])
      BY <1>1, <1>2 DEF InStep
    <3>3. InStep(c) => buffer[c].ops = {} /\ value[c] = Doc(version[c])
      BY <2>2 DEF IsChange
    <3>4. cs.ops = {e} /\ cs.ctx = value[c] /\ IsChange(cs)
      BY DEF IsChange
    <3> HIDE DEF cs
    <3>5. IsChange(buffer[c])' = IsChange(buffer[c]) /\ IsChange(inFlightOp[c])' = IsChange(cs)
      BY <3>1 DEF IsChange
    <3> QED BY <2>2, <3>1, <3>2, <3>3, <3>4, <3>5 DEF Chains
  <2>4. \A d \in Client \ {c} : (InStep(d) => Chains(d))'
    BY <1>1, <1>2, <1>3, <2>1 DEF Chains, InStep, ReplicaInv, TypeInv, TypeOK
  <2>5. WellMade(Message(c, version[c], cs))
    BY <1>3, <2>2 DEF WellMade, Message, InStep
  <2>6. \A p \in sent' : WellMade(p)'
    BY <1>2, <2>1, <2>5 DEF ReplicaInv, WellMade
  <2>7. ChangesLandWhereMeant' /\ \A t \in running' : WellMade(t.change)'
    BY <1>1, <1>2 DEF ReplicaInv, ChangesLandWhereMeant, WellMade
  <2> QED BY <2>3, <2>4, <2>6, <2>7 DEF ReplicaInv
<1>5. CASE BufferEdit(c, e)
  <2>1. /\ inTransmission[c]
        /\ buffer' = [buffer EXCEPT ![c] = AddToBuffer(@, cs)]
        /\ UNCHANGED << sent, inTransmission, inFlightOp >>
    BY <1>5 DEF BufferEdit
  <2>2. InStep(c) =>
          /\ IsChange(inFlightOp[c])
          /\ AddToBuffer(buffer[c], cs) =
               [ops |-> buffer[c].ops \cup {e}, ctx |-> Doc(version[c]) \cup inFlightOp[c].ops]
    <3>1. buffer[c] \in Changeset
      BY DEF ReplicaInv, TypeInv, TypeOK
    <3>2. SUFFICES ASSUME InStep(c)
                   PROVE  /\ IsChange(inFlightOp[c])
                          /\ AddToBuffer(buffer[c], cs) =
                               [ops |-> buffer[c].ops \cup {e},
                                ctx |-> Doc(version[c]) \cup inFlightOp[c].ops]
      OBVIOUS
    <3>3. Chains(c)
      BY <3>2 DEF ReplicaInv
    <3>4. CASE IsChange(buffer[c])
      BY <2>1, <3>3, <3>4 DEF Chains, AddToBuffer, Merge
    <3>5. CASE ~IsChange(buffer[c])
      BY <2>1, <3>1, <3>3, <3>5 DEF Chains, AddToBuffer, IsChange, Changeset
    <3> QED BY <3>4, <3>5
  <2>3. (InStep(c) => Chains(c))'
    <3>1. InStep(c)' = InStep(c)
      BY <1>1 DEF InStep
    <3>2. buffer'[c] = AddToBuffer(buffer[c], cs) /\ value'[c] = value[c] \cup {e}
      BY <1>3, <2>1 DEF ReplicaInv, TypeInv, TypeOK
    <3> HIDE DEF cs
    <3>3. SUFFICES ASSUME InStep(c) PROVE Chains(c)'
      BY <3>1
    <3>4. Chains(c)
      BY <3>3 DEF ReplicaInv
    <3>5. /\ buffer'[c].ops = buffer[c].ops \cup {e}
          /\ buffer'[c].ctx = Doc(version[c]) \cup inFlightOp[c].ops
      BY <2>2, <3>2, <3>3
    <3>6. Doc(version[c])' = Doc(version[c])
      BY <1>1 DEF Doc
    <3> QED BY <1>1, <2>1, <2>2, <3>2, <3>3, <3>4, <3>5, <3>6 DEF Chains, IsChange
  <2>4. \A d \in Client \ {c} : (InStep(d) => Chains(d))'
    BY <1>1, <1>2, <1>3, <2>1 DEF Chains, InStep, ReplicaInv, TypeInv, TypeOK
  <2>5. /\ ChangesLandWhereMeant'
        /\ \A t \in running' : WellMade(t.change)'
        /\ \A p \in sent' : WellMade(p)'
    BY <1>1, <1>2, <2>1 DEF ReplicaInv, ChangesLandWhereMeant, WellMade
  <2> QED BY <2>3, <2>4, <2>5 DEF ReplicaInv
<1> QED BY <1>4, <1>5 DEF LocalEdit

\* A well made change is rebased onto exactly the text it is committed to.
LEMMA RebasedFits ==
  ASSUME ReplicaInv, NEW t \in running, t.change.inStep
  PROVE  Fits(t)
<1>1. /\ t.change.ctx = Doc(t.change.parent)
      /\ t.change.parent \in 1 .. Latest /\ t.head = Latest
  BY DEF ReplicaInv, WellMade, TypeInv, Bookkeeping
<1>2. t.change.parent \in Nat \ {0} /\ Latest \in Nat
  BY <1>1, LatestType DEF ReplicaInv, TypeInv
<1>3. CASE t.change.parent < t.head
  <2>1. Rebased(t).ctx = Doc(t.change.parent) \cup Since(t.change.parent, Latest).ops
    BY <1>1, <1>3 DEF Rebased, Transform, Since
  <2>2. t.change.parent <= Latest
    BY <1>1, <1>2
  <2> QED BY <1>2, <2>1, <2>2, DocSpan DEF Fits
<1>4. CASE ~(t.change.parent < t.head)
  <2>1. t.change.parent = Latest
    BY <1>1, <1>2, <1>4
  <2> QED BY <1>1, <1>4, <2>1 DEF Rebased, Fits
<1> QED BY <1>3, <1>4

LEMMA CommitTaskReplica ==
  ASSUME ReplicaInv, TypeInv', NEW t \in running, CommitTask(t)
  PROVE  ReplicaInv'
<1> DEFINE d == [author |-> t.change.author, ops |-> Rebased(t).ops,
                 inStep |-> t.change.inStep, exact |-> Fits(t)]
<1>1. /\ log' = Append(log, d)
      /\ running' = running \ {t}
      /\ UNCHANGED << sent, initialized, value, version, inTransmission, inFlightOp, buffer,
                      outOfStep >>
  BY DEF CommitTask, replica
<1>2. d \in Delta
  <2>1. t.head <= Latest /\ t.change.parent >= 1
    BY LatestType DEF ReplicaInv, TypeInv, Bookkeeping
  <2>2. Rebased(t) \in Changeset /\ t.change \in Change
    BY <2>1, RebasedType DEF ReplicaInv, TypeInv, TypeOK
  <2> QED BY <2>2 DEF Change, Changeset, Delta, Fits
<1>3. d.inStep => d.exact
  BY RebasedFits
<1> HIDE DEF d
<1>4. \A v \in 1 .. Latest : Doc(v)' = Doc(v)
  BY <1>1, <1>2, DocStable DEF ReplicaInv, TypeInv
<1>5. \A c \in Client : (InStep(c) => Chains(c))'
  <2>1. \A c \in Client : InStep(c) => version[c] \in 1 .. Latest
    BY LatestType DEF ReplicaInv, TypeInv, TypeOK, Bookkeeping, InStep
  <2> QED BY <1>1, <1>4, <2>1 DEF ReplicaInv, InStep, Chains
<1>6. ChangesLandWhereMeant'
  <2>1. /\ Len(log') = Len(log) + 1
        /\ log'[Len(log) + 1] = d
        /\ \A i \in 1 .. Len(log) : log'[i] = log[i]
        /\ Len(log) \in Nat
    BY <1>1, <1>2, AppendProperties DEF ReplicaInv, TypeInv, TypeOK
  <2>2. \A i \in 1 .. Len(log') : i \in 1 .. Len(log) \/ i = Len(log) + 1
    BY <2>1
  <2> QED BY <1>3, <2>1, <2>2 DEF ReplicaInv, ChangesLandWhereMeant
<1>7. \A p \in sent' : WellMade(p)'
  BY <1>1, <1>4 DEF ReplicaInv, TypeInv, Bookkeeping, WellMade
<1>8. \A u \in running' : WellMade(u.change)'
  BY <1>1, <1>4 DEF ReplicaInv, TypeInv, Bookkeeping, WellMade
<1> QED BY <1>5, <1>6, <1>7, <1>8 DEF ReplicaInv

\* Receiving leaves the other replicas, the log and the texts alone.
LEMMA OthersKeepChains ==
  ASSUME ReplicaInv, NEW c \in Client,
         UNCHANGED << log, initialized >>,
         outOfStep' \in {outOfStep, outOfStep \cup {c}},
         \A d \in Client \ {c} :
           /\ value'[d] = value[d] /\ version'[d] = version[d]
           /\ inTransmission'[d] = inTransmission[d]
           /\ inFlightOp'[d] = inFlightOp[d] /\ buffer'[d] = buffer[d],
         (InStep(c) => Chains(c))'
  PROVE  /\ \A d \in Client : (InStep(d) => Chains(d))'
         /\ ChangesLandWhereMeant'
<1>1. \A v : Doc(v)' = Doc(v)
  BY DEF Doc
<1>2. \A d \in Client \ {c} : (InStep(d) => Chains(d))'
  BY <1>1 DEF ReplicaInv, InStep, Chains
<1>3. ChangesLandWhereMeant'
  BY DEF ReplicaInv, ChangesLandWhereMeant
<1> QED BY <1>2, <1>3

\* An approval a replica in step expects turns its inFlightOp into the next delta: the
\* buffer then starts at the text of the new version, and is sent for exactly that text.
LEMMA DeliverApprovalReplica ==
  ASSUME ReplicaInv, TypeInv', NEW c \in Client, NEW id \in Ids, DeliverApproval(c, id)
  PROVE  ReplicaInv'
<1>1. id \in 2 .. Latest /\ initialized[c]
  BY ArrivesType DEF DeliverApproval, ReplicaInv
<1>2. /\ version' = [version EXCEPT ![c] = id]
      /\ inTransmission' = [inTransmission EXCEPT ![c] = IsChange(buffer[c])]
      /\ inFlightOp' = [inFlightOp EXCEPT ![c] = buffer[c]]
      /\ buffer' = [buffer EXCEPT ![c] = NoChange]
      /\ UNCHANGED << log, running, initialized, value >>
      /\ outOfStep' \in {outOfStep, outOfStep \cup {c}}
  BY DEF DeliverApproval, FellOut, server
<1>3. /\ version'[c] = id /\ value'[c] = value[c]
      /\ inTransmission'[c] = IsChange(buffer[c])
      /\ inFlightOp'[c] = buffer[c]
      /\ buffer'[c] = NoChange
  BY <1>2 DEF ReplicaInv, TypeInv, TypeOK
<1>4. c \notin outOfStep' =>
        /\ InStep(c) /\ Chains(c)
        /\ id = version[c] + 1 /\ version[c] \in Nat \ {0}
        /\ inFlightOp[c].ops = log[version[c]].ops
  <2>1. c \notin outOfStep' => Expected(c, id) /\ inFlightOp[c].ops = log[id - 1].ops
    BY DEF DeliverApproval, FellOut
  <2>2. version[c] \in Nat \ {0}
    BY <1>1, LatestType DEF ReplicaInv, TypeInv, TypeOK, Bookkeeping
  <2>3. Expected(c, id) => InStep(c) /\ id = version[c] + 1 /\ id - 1 = version[c]
    BY <1>1, <2>2 DEF Expected, InStep
  <2> QED BY <2>1, <2>2, <2>3 DEF ReplicaInv
<1>5. c \notin outOfStep' =>
        /\ Doc(id) = Doc(version[c]) \cup inFlightOp[c].ops
        /\ IsChange(buffer[c]) => buffer[c].ctx = Doc(id)
  BY <1>4, DocNext DEF Chains
<1>6. (InStep(c) => Chains(c))'
  <2>1. Doc(id)' = Doc(id)
    BY <1>2 DEF Doc
  <2>2. SUFFICES ASSUME c \notin outOfStep' PROVE Chains(c)'
    BY DEF InStep
  <2>3. value[c] = Doc(id) \cup buffer[c].ops
    BY <1>4, <1>5, <2>2 DEF Chains
  <2> QED BY <1>3, <1>5, <2>1, <2>2, <2>3 DEF Chains, NoChange, IsChange
<1>7. /\ \A d \in Client : (InStep(d) => Chains(d))'
      /\ ChangesLandWhereMeant'
  <2>1. \A d \in Client \ {c} :
          /\ value'[d] = value[d] /\ version'[d] = version[d]
          /\ inTransmission'[d] = inTransmission[d]
          /\ inFlightOp'[d] = inFlightOp[d] /\ buffer'[d] = buffer[d]
    BY <1>2 DEF ReplicaInv, TypeInv, TypeOK
  <2> QED BY <1>2, <1>6, <2>1, OthersKeepChains
<1>8. \A p \in sent' : WellMade(p)'
  <2>1. sent' = sent \cup {[p EXCEPT !.inStep = c \notin outOfStep'] : p \in Resend(c, id)}
    BY DEF DeliverApproval
  <2>2. \A p \in sent : WellMade(p)'
    BY <1>2 DEF ReplicaInv, WellMade, Doc
  <2>3. ASSUME NEW p \in Resend(c, id)
        PROVE  WellMade([p EXCEPT !.inStep = c \notin outOfStep'])
    <3>1. p = Message(c, id, buffer[c]) /\ IsChange(buffer[c])
      BY <2>3 DEF Resend
    <3> QED BY <1>5, <3>1 DEF Message, WellMade
  <2>4. \A p : WellMade(p)' = WellMade(p)
    BY <1>2 DEF WellMade, Doc
  <2> QED BY <2>1, <2>2, <2>3, <2>4
<1>9. \A t \in running' : WellMade(t.change)'
  BY <1>2 DEF ReplicaInv, WellMade, Doc
<1> QED BY <1>7, <1>8, <1>9 DEF ReplicaInv

\* The diamond: on a replica in step no transformation works on changesets made for
\* different texts, and the chain is rebuilt on the text of the next version.
LEMMA Diamond ==
  ASSUME NEW c \in Client, NEW m, Chains(c), m.ctx = Doc(version[c]),
         m = [ops |-> m.ops, ctx |-> m.ctx],
         inFlightOp[c] \in Changeset, buffer[c] \in Changeset
  PROVE  /\ Apply(value[c], AfterBuffer(c, m)) = value[c] \cup m.ops
         /\ InFlightAfter(c, m).ops = inFlightOp[c].ops
         /\ IsChange(inFlightOp[c]) => InFlightAfter(c, m).ctx = Doc(version[c]) \cup m.ops
         /\ BufferAfter(c, m).ops = buffer[c].ops
         /\ IsChange(buffer[c]) =>
              BufferAfter(c, m).ctx = Doc(version[c]) \cup inFlightOp[c].ops \cup m.ops
<1>1. CASE ~IsChange(inFlightOp[c])
  <2>1. ~IsChange(buffer[c]) /\ value[c] = Doc(version[c])
    BY <1>1 DEF Chains, IsChange
  <2>2. AfterBuffer(c, m) = m /\ InFlightAfter(c, m) = NoChange /\ BufferAfter(c, m) = buffer[c]
    BY <1>1 DEF AfterBuffer, AfterInFlight, InFlightAfter, BufferAfter
  <2> QED BY <1>1, <2>1, <2>2 DEF Apply, NoChange, IsChange
<1>2. CASE IsChange(inFlightOp[c])
  <2>1. inFlightOp[c].ctx = m.ctx
    BY <1>2 DEF Chains
  <2>2. /\ AfterInFlight(c, m) = [ops |-> m.ops, ctx |-> Doc(version[c]) \cup inFlightOp[c].ops]
        /\ InFlightAfter(c, m) = [ops |-> inFlightOp[c].ops, ctx |-> Doc(version[c]) \cup m.ops]
    BY <1>2, <2>1 DEF AfterInFlight, InFlightAfter, Transform
  <2>3. CASE ~IsChange(buffer[c])
    <3>1. AfterBuffer(c, m) = AfterInFlight(c, m) /\ BufferAfter(c, m) = buffer[c]
      BY <2>3 DEF AfterBuffer, BufferAfter
    <3>2. value[c] = Doc(version[c]) \cup inFlightOp[c].ops
      BY <2>3 DEF Chains, IsChange
    <3> QED BY <2>2, <2>3, <3>1, <3>2 DEF Apply
  <2>4. CASE IsChange(buffer[c])
    <3>1. buffer[c].ctx = AfterInFlight(c, m).ctx
      BY <2>2, <2>4 DEF Chains
    <3>2. AfterBuffer(c, m) = [ops |-> m.ops, ctx |-> value[c]]
      BY <1>2, <2>2, <2>4, <3>1 DEF AfterBuffer, Transform, Chains
    <3>3. BufferAfter(c, m) =
            [ops |-> buffer[c].ops, ctx |-> Doc(version[c]) \cup inFlightOp[c].ops \cup m.ops]
      BY <1>2, <2>2, <2>4, <3>1 DEF BufferAfter, Transform
    <3> QED BY <2>2, <3>2, <3>3 DEF Apply
  <2> QED BY <2>3, <2>4
<1> QED BY <1>1, <1>2

LEMMA DeliverForeignReplica ==
  ASSUME ReplicaInv, TypeInv', NEW c \in Client, NEW id \in Ids, DeliverForeign(c, id)
  PROVE  ReplicaInv'
<1> DEFINE m == Committed(id)
<1>1. id \in 2 .. Latest /\ initialized[c]
  BY ArrivesType DEF DeliverForeign, ReplicaInv
<1>2. /\ value' = [value EXCEPT ![c] = Apply(@, AfterBuffer(c, m))]
      /\ version' = [version EXCEPT ![c] = id]
      /\ inFlightOp' = [inFlightOp EXCEPT ![c] = InFlightAfter(c, m)]
      /\ buffer' = [buffer EXCEPT ![c] = BufferAfter(c, m)]
      /\ UNCHANGED << log, running, sent, initialized, inTransmission >>
      /\ outOfStep' \in {outOfStep, outOfStep \cup {c}}
  BY DEF DeliverForeign, FellOut, server
<1>3. m = [ops |-> m.ops, ctx |-> m.ctx] /\ m.ops = log[id - 1].ops /\ m.ctx = Doc(id - 1)
  BY DEF Committed
<1> HIDE DEF m
<1>4. /\ version'[c] = id
      /\ value'[c] = Apply(value[c], AfterBuffer(c, m))
      /\ inTransmission'[c] = inTransmission[c]
      /\ inFlightOp'[c] = InFlightAfter(c, m)
      /\ buffer'[c] = BufferAfter(c, m)
  BY <1>2 DEF ReplicaInv, TypeInv, TypeOK
<1>5. (InStep(c) => Chains(c))'
  <2>1. SUFFICES ASSUME c \notin outOfStep' PROVE Chains(c)'
    BY DEF InStep
  <2>2. Expected(c, id)
    BY <2>1 DEF DeliverForeign, FellOut
  <2>3. version[c] \in Nat \ {0} /\ id = version[c] + 1 /\ id - 1 = version[c]
    <3>1. version[c] \in Nat \ {0}
      BY <1>1, LatestType DEF ReplicaInv, TypeInv, TypeOK, Bookkeeping
    <3> QED BY <2>2, <3>1 DEF Expected
  <2>4. Chains(c) /\ m.ctx = Doc(version[c]) /\ m.ops = log[version[c]].ops
    BY <1>1, <1>3, <2>2, <2>3 DEF Expected, InStep, ReplicaInv
  <2>5. inFlightOp[c] \in Changeset /\ buffer[c] \in Changeset
    BY DEF ReplicaInv, TypeInv, TypeOK
  <2>6. Doc(id) = Doc(version[c]) \cup m.ops
    BY <2>3, <2>4, DocNext
  <2>7. Doc(id)' = Doc(id)
    BY <1>2 DEF Doc
  <2>8. /\ value'[c] = value[c] \cup m.ops
        /\ inFlightOp'[c].ops = inFlightOp[c].ops
        /\ IsChange(inFlightOp[c]) => inFlightOp'[c].ctx = Doc(version[c]) \cup m.ops
        /\ buffer'[c].ops = buffer[c].ops
        /\ IsChange(buffer[c]) =>
             buffer'[c].ctx = Doc(version[c]) \cup inFlightOp[c].ops \cup m.ops
    BY <1>3, <1>4, <2>4, <2>5, Diamond
  <2>9. /\ IsChange(inFlightOp'[c]) = IsChange(inFlightOp[c])
        /\ IsChange(buffer'[c]) = IsChange(buffer[c])
    BY <2>8 DEF IsChange
  <2>10. value'[c] = Doc(id) \cup inFlightOp'[c].ops \cup buffer'[c].ops
    BY <2>4, <2>6, <2>8 DEF Chains
  <2>11. IsChange(inFlightOp'[c]) => inFlightOp'[c].ctx = Doc(id)
    BY <2>6, <2>8, <2>9
  <2>12. IsChange(buffer'[c]) => buffer'[c].ctx = Doc(id) \cup inFlightOp'[c].ops
    BY <2>6, <2>8, <2>9
  <2>13. /\ inTransmission'[c] = IsChange(inFlightOp'[c])
         /\ IsChange(buffer'[c]) => IsChange(inFlightOp'[c])
    BY <1>4, <2>4, <2>9 DEF Chains
  <2> QED BY <1>4, <2>7, <2>10, <2>11, <2>12, <2>13 DEF Chains, IsChange
<1>6. /\ \A d \in Client : (InStep(d) => Chains(d))'
      /\ ChangesLandWhereMeant'
  <2>1. \A d \in Client \ {c} :
          /\ value'[d] = value[d] /\ version'[d] = version[d]
          /\ inTransmission'[d] = inTransmission[d]
          /\ inFlightOp'[d] = inFlightOp[d] /\ buffer'[d] = buffer[d]
    BY <1>2 DEF ReplicaInv, TypeInv, TypeOK
  <2> QED BY <1>2, <1>5, <2>1, OthersKeepChains
<1>7. /\ \A p \in sent' : WellMade(p)'
      /\ \A t \in running' : WellMade(t.change)'
  BY <1>2 DEF ReplicaInv, WellMade, Doc
<1> QED BY <1>6, <1>7 DEF ReplicaInv

\* A replica that has to reload is not in step.
LEMMA DeliverMisfitReplica ==
  ASSUME ReplicaInv, TypeInv', NEW c \in Client, NEW id \in Ids, NEW k \in Slot,
         DeliverMisfit(c, id, k)
  PROVE  ReplicaInv'
<1>1. /\ inFlightOp' = [inFlightOp EXCEPT ![c] = NoChange]
      /\ buffer' = [buffer EXCEPT ![c] = NoChange]
      /\ outOfStep' = outOfStep \cup {c}
      /\ UNCHANGED << log, running, sent, initialized, value, version, inTransmission >>
  BY DEF DeliverMisfit, FellOut, server
<1>2. (InStep(c) => Chains(c))'
  BY <1>1 DEF InStep
<1>3. /\ \A d \in Client : (InStep(d) => Chains(d))'
      /\ ChangesLandWhereMeant'
  <2>1. \A d \in Client \ {c} :
          /\ value'[d] = value[d] /\ version'[d] = version[d]
          /\ inTransmission'[d] = inTransmission[d]
          /\ inFlightOp'[d] = inFlightOp[d] /\ buffer'[d] = buffer[d]
    BY <1>1 DEF ReplicaInv, TypeInv, TypeOK
  <2> QED BY <1>1, <1>2, <2>1, OthersKeepChains
<1>4. /\ \A p \in sent' : WellMade(p)'
      /\ \A t \in running' : WellMade(t.change)'
  BY <1>1 DEF ReplicaInv, WellMade, Doc
<1> QED BY <1>3, <1>4 DEF ReplicaInv

LEMMA ReplicaInit == Init => ReplicaInv
BY TypeInit DEF Init, ReplicaInv, InStep, ChangesLandWhereMeant

LEMMA ReplicaStep == ReplicaInv /\ [Next]_vars => ReplicaInv'
<1> SUFFICES ASSUME ReplicaInv, [Next]_vars PROVE ReplicaInv'
  OBVIOUS
<1>1. TypeInv'
  BY TypeStep DEF ReplicaInv
<1>2. ASSUME ServerStep PROVE ReplicaInv'
  BY <1>1, <1>2, QuietSteps, CommitTaskReplica DEF ServerStep
<1>3. ASSUME FaultStep PROVE ReplicaInv'
  BY <1>1, <1>3, QuietSteps
<1>4. ASSUME NEW c \in Client, ClientStep(c) PROVE ReplicaInv'
  BY <1>1, <1>4, QuietSteps, LoadedReplica, DeliverApprovalReplica, DeliverForeignReplica,
     DeliverMisfitReplica DEF ClientStep, Receive
<1>5. ASSUME NEW c \in Client, UserStep(c) PROVE ReplicaInv'
  BY <1>1, <1>5, QuietSteps, LocalEditReplica DEF UserStep
<1>6. ASSUME UNCHANGED vars PROVE ReplicaInv'
  BY <1>1, <1>6, ReplicaFrame DEF vars, ReplicaInv
<1> QED BY <1>2, <1>3, <1>4, <1>5, <1>6 DEF Next

\* Whatever the interleaving of typing, tasks, broadcasts, reloads and faults, a replica
\* in step shows the committed text of its version with its own pending edits, and its
\* changesets chain: transformAgainst never combines changesets of different texts.
THEOREM ReplicasExact == Spec => []ExactReplica
<1>1. ReplicaInv => ExactReplica
  BY DEF ReplicaInv, ExactReplica, Chains
<1> QED BY <1>1, ReplicaInit, ReplicaStep, PTL DEF Spec

\* changeByChangeset commits every change sent by a replica in step onto the text it was
\* rebased for.
THEOREM CommitsLandWhereMeant == Spec => []ChangesLandWhereMeant
<1>1. ReplicaInv => ChangesLandWhereMeant
  BY DEF ReplicaInv
<1> QED BY <1>1, ReplicaInit, ReplicaStep, PTL DEF Spec

-----------------------------------------------------------------------------
(* No edit is in two places *)

Apart(S, T) == S \cap T = {}

\* The edits of all messages, tasks, deltas and buffers are typed edits, and apart.
OnePlace ==
  /\ \A p \in sent : p.ops \subseteq made
  /\ \A t \in running : t.change.ops \subseteq made
  /\ \A i \in 1 .. Len(log) : log[i].ops \subseteq made
  /\ \A c \in Client : buffer[c].ops \subseteq made
  /\ \A p, q \in sent : p # q => Apart(p.ops, q.ops)
  /\ \A p \in sent, t \in running : Apart(p.ops, t.change.ops)
  /\ \A p \in sent, i \in 1 .. Len(log) : Apart(p.ops, log[i].ops)
  /\ \A p \in sent, c \in Client : Apart(p.ops, buffer[c].ops)
  /\ \A t \in running, i \in 1 .. Len(log) : Apart(t.change.ops, log[i].ops)
  /\ \A t \in running, c \in Client : Apart(t.change.ops, buffer[c].ops)
  /\ \A i, j \in 1 .. Len(log) : i # j => Apart(log[i].ops, log[j].ops)
  /\ \A i \in 1 .. Len(log), c \in Client : Apart(log[i].ops, buffer[c].ops)
  /\ \A c, d \in Client : c # d => Apart(buffer[c].ops, buffer[d].ops)

PlaceInv == TypeInv /\ OnePlace

LEMMA PlaceInit == Init => PlaceInv
<1> SUFFICES ASSUME Init PROVE PlaceInv
  OBVIOUS
<1>1. Len(log) = 0 /\ \A c \in Client : buffer[c].ops = {}
  BY DEF Init, NoChange
<1>2. OnePlace
  BY <1>1 DEF Init, OnePlace, Apart
<1> QED BY <1>2, TypeInit DEF PlaceInv

\* Whatever is dropped, nothing gets into a second place by it.
LEMMA FewerPlaces ==
  ASSUME OnePlace, sent' \subseteq sent, running' \subseteq running, log' = log, made \subseteq made',
         \A c \in Client : buffer'[c].ops \subseteq buffer[c].ops
  PROVE  OnePlace'
BY DEF OnePlace, Apart

\* A new edit was nowhere: it goes into a message or into the buffer of its author.
LEMMA LocalEditPlace ==
  ASSUME PlaceInv, NEW c \in Client, NEW e \in Edit, LocalEdit(c, e)
  PROVE  OnePlace'
<1>1. e \notin made /\ made' = made \cup {e} /\ UNCHANGED << log, running >>
  BY DEF LocalEdit, server
<1>2. CASE TransmitEdit(c, e)
  <2> DEFINE new == Message(c, version[c], [ops |-> {e}, ctx |-> value[c]])
  <2>1. sent' = sent \cup {new} /\ new.ops = {e} /\ UNCHANGED buffer
    BY <1>2 DEF TransmitEdit, Message
  <2> HIDE DEF new
  <2> QED BY <1>1, <2>1 DEF PlaceInv, OnePlace, Apart
<1>3. CASE BufferEdit(c, e)
  <2> DEFINE cs == [ops |-> {e}, ctx |-> value[c]]
  <2>1. AddToBuffer(buffer[c], cs).ops = buffer[c].ops \cup {e}
    BY DEF AddToBuffer, Merge, IsChange
  <2>2. buffer' = [buffer EXCEPT ![c] = AddToBuffer(buffer[c], cs)] /\ UNCHANGED sent
    BY <1>3 DEF BufferEdit
  <2>3. \A d \in Client : buffer'[d].ops = IF d = c THEN buffer[c].ops \cup {e} ELSE buffer[d].ops
    BY <2>1, <2>2 DEF PlaceInv, TypeInv, TypeOK
  <2> HIDE DEF cs
  <2> QED BY <1>1, <2>2, <2>3 DEF PlaceInv, OnePlace, Apart
<1> QED BY <1>2, <1>3 DEF LocalEdit

\* A message becomes a task.
LEMMA StartTaskPlace ==
  ASSUME PlaceInv, NEW p \in sent, StartTask(p)
  PROVE  OnePlace'
<1> DEFINE t == [change |-> p, head |-> Latest]
<1>1. /\ sent' = sent \ {p} /\ running' = {t} /\ t.change = p
      /\ UNCHANGED << log, made, buffer >>
  BY DEF StartTask, QueueFree, replica
<1> HIDE DEF t
<1> QED BY <1>1 DEF PlaceInv, OnePlace, Apart

\* A task becomes a delta: rebasing leaves its edits as they are.
LEMMA CommitTaskPlace ==
  ASSUME PlaceInv, NEW t \in running, CommitTask(t)
  PROVE  OnePlace'
<1> DEFINE n == Len(log) + 1
<1>1. Rebased(t).ops = t.change.ops
  BY DEF Rebased, Transform
<1>2. running' = {} /\ UNCHANGED << sent, made, buffer >>
  BY DEF CommitTask, replica, PlaceInv, TypeInv, TypeOK
<1>3. /\ Len(log) \in Nat /\ Len(log') = n
      /\ log'[n].ops = t.change.ops
      /\ \A i \in 1 .. Len(log) : log'[i] = log[i]
  <2> DEFINE d == [author |-> t.change.author, ops |-> Rebased(t).ops,
                   inStep |-> t.change.inStep, exact |-> Fits(t)]
  <2>1. log' = Append(log, d) /\ d.ops = t.change.ops /\ log \in Seq(Delta)
    BY <1>1 DEF CommitTask, PlaceInv, TypeInv, TypeOK
  <2> HIDE DEF d
  <2> QED BY <2>1
<1>4. \A i \in 1 .. Len(log') : i = n \/ i \in 1 .. Len(log)
  BY <1>3
<1> HIDE DEF n
<1> QED BY <1>2, <1>3, <1>4 DEF PlaceInv, OnePlace, Apart

\* What was buffered becomes a message.
LEMMA DeliverApprovalPlace ==
  ASSUME PlaceInv, NEW c \in Client, NEW id \in Ids, DeliverApproval(c, id)
  PROVE  OnePlace'
<1>1. /\ buffer' = [buffer EXCEPT ![c] = NoChange]
      /\ sent' = sent \cup {[p EXCEPT !.inStep = c \notin outOfStep'] : p \in Resend(c, id)}
      /\ UNCHANGED << log, running, made >>
  BY DEF DeliverApproval, server
<1>2. \A d \in Client : buffer'[d].ops = IF d = c THEN {} ELSE buffer[d].ops
  BY <1>1 DEF NoChange, PlaceInv, TypeInv, TypeOK
<1> DEFINE new == [Message(c, id, buffer[c]) EXCEPT !.inStep = c \notin outOfStep']
<1>3. new.ops = buffer[c].ops
  BY DEF Message
<1>4. sent' \subseteq sent \cup {new}
  BY <1>1 DEF Resend
<1> HIDE DEF new
<1> QED BY <1>1, <1>2, <1>3, <1>4 DEF PlaceInv, OnePlace, Apart

\* Transforming what is buffered leaves its edits as they are.
LEMMA DeliverForeignPlace ==
  ASSUME PlaceInv, NEW c \in Client, NEW id \in Ids, DeliverForeign(c, id)
  PROVE  OnePlace'
<1>1. BufferAfter(c, Committed(id)).ops = buffer[c].ops
  BY DEF BufferAfter, Transform
<1>2. \A d \in Client : buffer'[d].ops = buffer[d].ops
  BY <1>1 DEF DeliverForeign, PlaceInv, TypeInv, TypeOK
<1> QED BY <1>2, FewerPlaces DEF DeliverForeign, server, PlaceInv

LEMMA PlaceStep == PlaceInv /\ [Next]_vars => PlaceInv'
<1> SUFFICES ASSUME PlaceInv, [Next]_vars PROVE OnePlace'
  BY TypeStep DEF PlaceInv
<1>1. \A c \in Client : NoChange.ops \subseteq buffer[c].ops
  BY DEF NoChange
<1>2. ASSUME ServerStep PROVE OnePlace'
  <2>1. ASSUME NEW t \in running, MergeFails(t) PROVE OnePlace'
    BY <2>1, FewerPlaces DEF MergeFails, replica, PlaceInv
  <2>2. ASSUME NEW i \in 1 .. Len(outbox), Broadcast(i) PROVE OnePlace'
    BY <2>2, FewerPlaces DEF Broadcast, replica, PlaceInv
  <2>3. ASSUME NEW q \in requests, GetRecord(q[1], q[2]) PROVE OnePlace'
    BY <2>3, FewerPlaces DEF GetRecord, server, replica, PlaceInv
  <2> QED BY <1>2, <2>1, <2>2, <2>3, StartTaskPlace, CommitTaskPlace DEF ServerStep
<1>3. ASSUME FaultStep PROVE OnePlace'
  <2>1. /\ sent' \subseteq sent /\ running' \subseteq running
        /\ UNCHANGED << log, made, buffer >>
    BY <1>3 DEF FaultStep, QuotaViolation, Unauthorized, Disconnect, Crash, server, replica
  <2> QED BY <2>1, FewerPlaces DEF PlaceInv
<1>4. ASSUME NEW c \in Client, ClientStep(c) PROVE OnePlace'
  <2>1. ASSUME NEW r \in replies, Loaded(c, r) PROVE OnePlace'
    <3>1. \A d \in Client : buffer'[d].ops \subseteq buffer[d].ops
      BY <1>1, <2>1 DEF Loaded, PlaceInv, TypeInv, TypeOK
    <3> QED BY <2>1, <3>1, FewerPlaces DEF Loaded, server, PlaceInv
  <2>2. ASSUME Join(c) PROVE OnePlace'
    BY <2>2, FewerPlaces DEF Join, server, replica, PlaceInv
  <2>3. ASSUME DeliverNotice(c) PROVE OnePlace'
    BY <2>3, FewerPlaces DEF DeliverNotice, server, replica, PlaceInv
  <2>4. ASSUME NEW id \in Ids, NEW k \in Slot, DeliverMisfit(c, id, k) PROVE OnePlace'
    <3>1. \A d \in Client : buffer'[d].ops \subseteq buffer[d].ops
      BY <1>1, <2>4 DEF DeliverMisfit, PlaceInv, TypeInv, TypeOK
    <3> QED BY <2>4, <3>1, FewerPlaces DEF DeliverMisfit, server, PlaceInv
  <2> QED BY <1>4, <2>1, <2>2, <2>3, <2>4, DeliverApprovalPlace, DeliverForeignPlace
          DEF ClientStep, Receive
<1>5. ASSUME NEW c \in Client, UserStep(c) PROVE OnePlace'
  <2>1. ASSUME Load(c) PROVE OnePlace'
    BY <2>1, FewerPlaces DEF Load, server, replica, PlaceInv
  <2> QED BY <1>5, <2>1, LocalEditPlace DEF UserStep
<1>6. ASSUME UNCHANGED vars PROVE OnePlace'
  BY <1>6, FewerPlaces DEF vars, PlaceInv
<1> QED BY <1>2, <1>3, <1>4, <1>5, <1>6 DEF Next

\* A set with no two members has at most one.
LEMMA AtMostOne ==
  ASSUME NEW S, \A x, y \in S : x = y
  PROVE  Cardinality(S) \in {0, 1} /\ (S = {} => Cardinality(S) = 0)
<1>1. CASE S = {}
  BY <1>1, FS_EmptySet
<1>2. CASE S # {}
  <2>1. PICK x : S = {x}
    BY <1>2
  <2> QED BY <1>2, <2>1, FS_Singleton
<1> QED BY <1>1, <1>2

\* However changes are buffered, sent, merged, committed, turned down and sent again by clients
\* that reload, no edit is applied to the record twice (transmitChange, changeByChangeset).
THEOREM NothingTwice == Spec => []EditInOnePlace
<1>1. PlaceInv => EditInOnePlace
  <2> SUFFICES ASSUME PlaceInv, NEW e \in made
               PROVE  Cardinality({p \in sent : e \in p.ops})
                        + Cardinality({t \in running : e \in t.change.ops})
                        + Cardinality({i \in 1 .. Len(log) : e \in log[i].ops})
                        + Cardinality({c \in Client : e \in buffer[c].ops}) <= 1
    BY DEF EditInOnePlace
  <2> DEFINE S == {p \in sent : e \in p.ops}
             R == {t \in running : e \in t.change.ops}
             L == {i \in 1 .. Len(log) : e \in log[i].ops}
             B == {c \in Client : e \in buffer[c].ops}
  <2>1. \A x, y \in S : x = y
    BY DEF PlaceInv, OnePlace, Apart
  <2>2. \A x, y \in R : x = y
    BY DEF PlaceInv, TypeInv, TypeOK
  <2>3. \A x, y \in L : x = y
    BY DEF PlaceInv, OnePlace, Apart
  <2>4. \A x, y \in B : x = y
    BY DEF PlaceInv, OnePlace, Apart
  <2>5. /\ S = {} \/ R = {}
        /\ S = {} \/ L = {}
        /\ S = {} \/ B = {}
    BY DEF PlaceInv, OnePlace, Apart
  <2>6. /\ R = {} \/ L = {}
        /\ R = {} \/ B = {}
        /\ L = {} \/ B = {}
    BY DEF PlaceInv, OnePlace, Apart
  <2> HIDE DEF S, R, L, B
  <2>7. /\ Cardinality(S) \in {0, 1} /\ (S = {} => Cardinality(S) = 0)
        /\ Cardinality(R) \in {0, 1} /\ (R = {} => Cardinality(R) = 0)
        /\ Cardinality(L) \in {0, 1} /\ (L = {} => Cardinality(L) = 0)
        /\ Cardinality(B) \in {0, 1} /\ (B = {} => Cardinality(B) = 0)
    BY <2>1, <2>2, <2>3, <2>4, AtMostOne
  <2>8. Cardinality(S) + Cardinality(R) + Cardinality(L) + Cardinality(B) <= 1
    BY <2>5, <2>6, <2>7
  <2> QED BY <2>8 DEF S, R, L, B
<1> QED BY <1>1, PlaceInit, PlaceStep, PTL DEF Spec

-----------------------------------------------------------------------------
(* LongTextSync implements SharedText *)

\* What a client has in flight is found elsewhere only as its own: in a message, a task or a
\* delta of its authorship, and in no buffer.
OwnApart ==
  /\ \A c \in Client : inFlightOp[c].ops \subseteq made
  /\ \A c \in Client, p \in sent : p.author # c => Apart(inFlightOp[c].ops, p.ops)
  /\ \A c \in Client, t \in running : t.change.author # c => Apart(inFlightOp[c].ops, t.change.ops)
  /\ \A c \in Client, i \in 1 .. Len(log) : log[i].author # c => Apart(inFlightOp[c].ops, log[i].ops)
  /\ \A c, d \in Client : Apart(inFlightOp[c].ops, buffer[d].ops)

OwnInv == ReplicaInv /\ OnePlace /\ OwnApart

LEMMA OwnInit == Init => OwnInv
<1> SUFFICES ASSUME Init PROVE OwnApart
  BY ReplicaInit, PlaceInit DEF OwnInv, PlaceInv
<1>1. Len(log) = 0 /\ \A c \in Client : inFlightOp[c].ops = {}
  BY DEF Init, NoChange
<1> QED BY <1>1 DEF Init, OwnApart, Apart

LEMMA FewerOwn ==
  ASSUME OwnApart, sent' \subseteq sent, running' \subseteq running, log' = log, made \subseteq made',
         \A c \in Client : buffer'[c].ops \subseteq buffer[c].ops,
         \A c \in Client : inFlightOp'[c].ops \subseteq inFlightOp[c].ops
  PROVE  OwnApart'
BY DEF OwnApart, Apart

LEMMA LocalEditOwn ==
  ASSUME OwnInv, NEW c \in Client, NEW e \in Edit, LocalEdit(c, e)
  PROVE  OwnApart'
<1>1. e \notin made /\ made' = made \cup {e} /\ UNCHANGED << log, running >>
  BY DEF LocalEdit, server
<1>2. CASE TransmitEdit(c, e)
  <2> DEFINE new == Message(c, version[c], [ops |-> {e}, ctx |-> value[c]])
  <2>1. sent' = sent \cup {new} /\ new.ops = {e} /\ new.author = c /\ UNCHANGED buffer
    BY <1>2 DEF TransmitEdit, Message
  <2>2. \A d \in Client : inFlightOp'[d].ops = IF d = c THEN {e} ELSE inFlightOp[d].ops
    BY <1>2 DEF TransmitEdit, OwnInv, ReplicaInv, TypeInv, TypeOK
  <2> HIDE DEF new
  <2> QED BY <1>1, <2>1, <2>2 DEF OwnInv, OwnApart, OnePlace, Apart
<1>3. CASE BufferEdit(c, e)
  <2> DEFINE cs == [ops |-> {e}, ctx |-> value[c]]
  <2>1. AddToBuffer(buffer[c], cs).ops = buffer[c].ops \cup {e}
    BY DEF AddToBuffer, Merge, IsChange
  <2>2. /\ buffer' = [buffer EXCEPT ![c] = AddToBuffer(buffer[c], cs)]
        /\ UNCHANGED << sent, inFlightOp >>
    BY <1>3 DEF BufferEdit
  <2>3. \A d \in Client : buffer'[d].ops = IF d = c THEN buffer[c].ops \cup {e} ELSE buffer[d].ops
    BY <2>1, <2>2 DEF OwnInv, ReplicaInv, TypeInv, TypeOK
  <2> HIDE DEF cs
  <2> QED BY <1>1, <2>2, <2>3 DEF OwnInv, OwnApart, Apart
<1> QED BY <1>2, <1>3 DEF LocalEdit

LEMMA StartTaskOwn ==
  ASSUME OwnInv, NEW p \in sent, StartTask(p)
  PROVE  OwnApart'
<1> DEFINE t == [change |-> p, head |-> Latest]
<1>1. /\ sent' = sent \ {p} /\ running' = {t} /\ t.change = p
      /\ UNCHANGED << log, made, buffer, inFlightOp >>
  BY DEF StartTask, QueueFree, replica
<1> HIDE DEF t
<1> QED BY <1>1 DEF OwnInv, OwnApart, Apart

\* What a task makes of the log: a delta of the author, with the author's edits.
LEMMA CommitTaskLog ==
  ASSUME TypeInv, NEW t \in running, CommitTask(t), NEW n, n = Len(log) + 1
  PROVE  /\ log \in Seq(Delta) /\ Len(log) \in Nat /\ Len(log') = n
         /\ log'[n].ops = t.change.ops /\ log'[n].author = t.change.author
         /\ \A i \in 1 .. Len(log) : log'[i] = log[i]
         /\ \A i \in 1 .. Len(log') : i = n \/ i \in 1 .. Len(log)
         /\ running' = {}
<1> DEFINE d == [author |-> t.change.author, ops |-> Rebased(t).ops,
                 inStep |-> t.change.inStep, exact |-> Fits(t)]
<1>1. Rebased(t).ops = t.change.ops
  BY DEF Rebased, Transform
<1>2. /\ log' = Append(log, d) /\ d.ops = t.change.ops /\ d.author = t.change.author
      /\ log \in Seq(Delta)
  BY <1>1 DEF CommitTask, TypeInv, TypeOK
<1>3. running' = {}
  BY DEF CommitTask, TypeInv, TypeOK
<1> HIDE DEF d
<1> QED BY <1>2, <1>3

LEMMA CommitTaskOwn ==
  ASSUME OwnInv, NEW t \in running, CommitTask(t)
  PROVE  OwnApart'
<1> DEFINE n == Len(log) + 1
<1>1. UNCHANGED << sent, made, buffer, inFlightOp >>
  BY DEF CommitTask, replica
<1>2. /\ log'[n].ops = t.change.ops /\ log'[n].author = t.change.author
      /\ \A i \in 1 .. Len(log) : log'[i] = log[i]
      /\ \A i \in 1 .. Len(log') : i = n \/ i \in 1 .. Len(log)
      /\ running' = {}
  BY CommitTaskLog DEF OwnInv, ReplicaInv
<1> HIDE DEF n
<1> QED BY <1>1, <1>2 DEF OwnInv, OwnApart, Apart

LEMMA DeliverApprovalOwn ==
  ASSUME OwnInv, NEW c \in Client, NEW id \in Ids, DeliverApproval(c, id)
  PROVE  OwnApart'
<1>1. /\ buffer' = [buffer EXCEPT ![c] = NoChange]
      /\ inFlightOp' = [inFlightOp EXCEPT ![c] = buffer[c]]
      /\ sent' = sent \cup {[p EXCEPT !.inStep = c \notin outOfStep'] : p \in Resend(c, id)}
      /\ UNCHANGED << log, running, made >>
  BY DEF DeliverApproval, server
<1>2. \A d \in Client :
        /\ buffer'[d].ops = IF d = c THEN {} ELSE buffer[d].ops
        /\ inFlightOp'[d].ops = IF d = c THEN buffer[c].ops ELSE inFlightOp[d].ops
  BY <1>1 DEF NoChange, OwnInv, ReplicaInv, TypeInv, TypeOK
<1> DEFINE new == [Message(c, id, buffer[c]) EXCEPT !.inStep = c \notin outOfStep']
<1>3. new.ops = buffer[c].ops /\ new.author = c
  BY DEF Message
<1>4. sent' \subseteq sent \cup {new}
  BY <1>1 DEF Resend
<1> HIDE DEF new
<1> QED BY <1>1, <1>2, <1>3, <1>4 DEF OwnInv, OwnApart, OnePlace, Apart

LEMMA DeliverForeignOwn ==
  ASSUME OwnInv, NEW c \in Client, NEW id \in Ids, DeliverForeign(c, id)
  PROVE  /\ OwnApart'
         /\ \A d \in Client : buffer'[d].ops = buffer[d].ops /\ inFlightOp'[d].ops = inFlightOp[d].ops
<1>1. /\ BufferAfter(c, Committed(id)).ops = buffer[c].ops
      /\ InFlightAfter(c, Committed(id)).ops = inFlightOp[c].ops
  BY DEF BufferAfter, InFlightAfter, Transform, IsChange, NoChange
<1>2. \A d \in Client : buffer'[d].ops = buffer[d].ops /\ inFlightOp'[d].ops = inFlightOp[d].ops
  BY <1>1 DEF DeliverForeign, OwnInv, ReplicaInv, TypeInv, TypeOK
<1> QED BY <1>2, FewerOwn DEF DeliverForeign, server, OwnInv

LEMMA OwnStep == OwnInv /\ [Next]_vars => OwnInv'
<1> SUFFICES ASSUME OwnInv, [Next]_vars PROVE OwnApart'
  BY ReplicaStep, PlaceStep DEF OwnInv, PlaceInv, ReplicaInv
<1>1. ASSUME ServerStep PROVE OwnApart'
  <2>1. ASSUME NEW t \in running, MergeFails(t) PROVE OwnApart'
    BY <2>1, FewerOwn DEF MergeFails, replica, OwnInv
  <2>2. ASSUME NEW i \in 1 .. Len(outbox), Broadcast(i) PROVE OwnApart'
    BY <2>2, FewerOwn DEF Broadcast, replica, OwnInv
  <2>3. ASSUME NEW q \in requests, GetRecord(q[1], q[2]) PROVE OwnApart'
    BY <2>3, FewerOwn DEF GetRecord, server, replica, OwnInv
  <2> QED BY <1>1, <2>1, <2>2, <2>3, StartTaskOwn, CommitTaskOwn DEF ServerStep
<1>2. ASSUME FaultStep PROVE OwnApart'
  <2>1. /\ sent' \subseteq sent /\ running' \subseteq running
        /\ UNCHANGED << log, made, buffer, inFlightOp >>
    BY <1>2 DEF FaultStep, QuotaViolation, Unauthorized, Disconnect, Crash, server, replica
  <2> QED BY <2>1, FewerOwn DEF OwnInv
<1>3. ASSUME NEW c \in Client, ClientStep(c) PROVE OwnApart'
  <2>1. ASSUME NEW r \in replies, Loaded(c, r) PROVE OwnApart'
    <3>1. \A d \in Client : /\ buffer'[d].ops \subseteq buffer[d].ops
                            /\ inFlightOp'[d].ops \subseteq inFlightOp[d].ops
      BY <2>1 DEF Loaded, NoChange, OwnInv, ReplicaInv, TypeInv, TypeOK
    <3> QED BY <2>1, <3>1, FewerOwn DEF Loaded, server, OwnInv
  <2>2. ASSUME Join(c) PROVE OwnApart'
    BY <2>2, FewerOwn DEF Join, server, replica, OwnInv
  <2>3. ASSUME DeliverNotice(c) PROVE OwnApart'
    BY <2>3, FewerOwn DEF DeliverNotice, server, replica, OwnInv
  <2>4. ASSUME NEW id \in Ids, NEW k \in Slot, DeliverMisfit(c, id, k) PROVE OwnApart'
    <3>1. \A d \in Client : /\ buffer'[d].ops \subseteq buffer[d].ops
                            /\ inFlightOp'[d].ops \subseteq inFlightOp[d].ops
      BY <2>4 DEF DeliverMisfit, NoChange, OwnInv, ReplicaInv, TypeInv, TypeOK
    <3> QED BY <2>4, <3>1, FewerOwn DEF DeliverMisfit, server, OwnInv
  <2> QED BY <1>3, <2>1, <2>2, <2>3, <2>4, DeliverApprovalOwn, DeliverForeignOwn
          DEF ClientStep, Receive
<1>4. ASSUME NEW c \in Client, UserStep(c) PROVE OwnApart'
  <2>1. ASSUME Load(c) PROVE OwnApart'
    BY <2>1, FewerOwn DEF Load, server, replica, OwnInv
  <2> QED BY <1>4, <2>1, LocalEditOwn DEF UserStep
<1>5. ASSUME UNCHANGED vars PROVE OwnApart'
  BY <1>5, FewerOwn DEF vars, OwnInv
<1> QED BY <1>1, <1>2, <1>3, <1>4, <1>5 DEF Next

\* The variables of SharedText
Commits == [i \in 1 .. Len(log) |-> log[i].ops]
ViewOf(c) ==
  IF InStep(c)
  THEN [known |-> TRUE, seen |-> version[c] - 1, own |-> Own(c), text |-> value[c]]
  ELSE [known |-> FALSE]
Views == [c \in Client |-> ViewOf(c)]

\* The first changes of the sequence make the text of the version after them.
LEMMA TextIsDoc ==
  ASSUME TypeInv, NEW v \in 1 .. Latest
  PROVE  Promise!TextAt(v - 1) = Doc(v)
<1>1. \A i \in 1 .. (v - 1) : Commits[i] = log[i].ops
  BY DEF TypeInv, TypeOK, Latest, Commits
<1>2. Promise!TextAt(v - 1) = UNION {Commits[i] : i \in 1 .. (v - 1)}
  BY DEF Promise!TextAt, Commits
<1> QED BY <1>1, <1>2 DEF Doc

\* A replica that did not move shows the same view; a commit changes none.
LEMMA SameView ==
  ASSUME NEW c \in Client, UNCHANGED << initialized[c], version[c], value[c] >>,
         (c \in outOfStep') = (c \in outOfStep),
         inFlightOp'[c].ops = inFlightOp[c].ops, buffer'[c].ops = buffer[c].ops
  PROVE  ViewOf(c)' = ViewOf(c)
BY DEF ViewOf, InStep, Own

\* A step of one replica
OnlyReplica(c) ==
  /\ log' = log
  /\ \A d \in Client \ {c} :
       /\ initialized'[d] = initialized[d] /\ version'[d] = version[d] /\ value'[d] = value[d]
       /\ inFlightOp'[d] = inFlightOp[d] /\ buffer'[d] = buffer[d]
       /\ (d \in outOfStep') = (d \in outOfStep)

LEMMA OneViewMoves ==
  ASSUME OwnInv, OwnInv', NEW c \in Client, OnlyReplica(c)
  PROVE  /\ Commits' = Commits
         /\ Views' = [Views EXCEPT ![c] = ViewOf(c)']
         /\ InStep(c)' => ViewOf(c)' = Promise!View(version'[c] - 1, Own(c)')
         /\ ~InStep(c)' => Promise!LoseTrack(c)
<1>1. Commits' = Commits
  BY DEF Commits, OnlyReplica
<1>2. \A d \in Client \ {c} : ViewOf(d)' = ViewOf(d)
  BY SameView DEF OnlyReplica
<1>3. Views' = [Views EXCEPT ![c] = ViewOf(c)']
  BY <1>2 DEF Views
<1>4. ASSUME InStep(c)' PROVE ViewOf(c)' = Promise!View(version'[c] - 1, Own(c)')
  <2>1. version'[c] \in 1 .. Latest
    BY <1>4, LatestType
       DEF OwnInv, ReplicaInv, TypeInv, TypeOK, Bookkeeping, InStep, OnlyReplica, Latest
  <2>2. Promise!TextAt(version'[c] - 1) = Doc(version'[c])
    BY <2>1, TextIsDoc DEF OwnInv, ReplicaInv
  <2>3. Doc(version[c])' = Doc(version'[c])
    BY DEF Doc, OnlyReplica
  <2>4. value'[c] = Promise!TextAt(version'[c] - 1) \cup Own(c)'
    BY <1>4, <2>2, <2>3 DEF OwnInv, ReplicaInv, Chains, Own
  <2> QED BY <1>4, <2>4 DEF ViewOf, Promise!View
<1>5. ASSUME ~InStep(c)' PROVE Promise!LoseTrack(c)
  <2>1. ViewOf(c)' = Promise!Unknown
    BY <1>5 DEF ViewOf, Promise!Unknown
  <2>2. Views' = [Views EXCEPT ![c] = Promise!Unknown]
    BY <1>3, <2>1
  <2> QED BY <1>1, <2>2 DEF Promise!LoseTrack, Views, ViewOf, Commits
<1> QED BY <1>1, <1>3, <1>4, <1>5

\* Steps that no view shows
LEMMA Unseen ==
  ASSUME UNCHANGED << log, initialized, value, version, inFlightOp, buffer, outOfStep >>
  PROVE  UNCHANGED << Commits, Views >>
BY DEF Commits, Views, ViewOf, InStep, Own

LEMMA CommitPromised ==
  ASSUME OwnInv, NEW t \in running, CommitTask(t)
  PROVE  \E ops \in SUBSET Edit : Promise!Commit(ops)
<1> DEFINE n == Len(log) + 1
           ops == t.change.ops
<1>1. /\ log \in Seq(Delta) /\ Len(log) \in Nat /\ Len(log') = n
      /\ log'[n].ops = ops
      /\ \A i \in 1 .. Len(log) : log'[i] = log[i]
  BY CommitTaskLog DEF OwnInv, ReplicaInv
<1>2. ops \in SUBSET Edit
  BY DEF OwnInv, ReplicaInv, TypeInv, TypeOK, Change
<1>3. Commits' = Append(Commits, ops)
  <2>1. Len(Commits) = Len(log) /\ Commits = [i \in 1 .. Len(log) |-> log[i].ops]
    BY <1>1 DEF Commits
  <2>2. Append(Commits, ops) = [i \in 1 .. n |-> IF i = n THEN ops ELSE Commits[i]]
    BY <1>1, <2>1
  <2>3. Commits' = [i \in 1 .. n |-> log'[i].ops]
    BY <1>1 DEF Commits
  <2>4. \A i \in 1 .. n : log'[i].ops = IF i = n THEN ops ELSE Commits[i]
    BY <1>1, <2>1
  <2> QED BY <2>2, <2>3, <2>4
<1>4. Views' = Views
  BY DEF CommitTask, replica, Views, ViewOf, InStep, Own
<1>5. ops \cap Promise!TextAt(Len(log)) = {}
  <2>1. Latest \in 1 .. Latest /\ Latest - 1 = Len(log)
    BY <1>1 DEF Latest
  <2>2. Promise!TextAt(Len(log)) = Doc(Latest)
    BY <2>1, TextIsDoc DEF OwnInv, ReplicaInv
  <2>3. \A i \in 1 .. Len(log) : ops \cap log[i].ops = {}
    BY DEF OwnInv, OnePlace, Apart
  <2> QED BY <2>1, <2>2, <2>3 DEF Doc
<1>6. Len(Commits) = Len(log)
  BY <1>1 DEF Commits
<1> HIDE DEF ops
<1>7. Promise!Commit(ops)
  BY <1>3, <1>4, <1>5, <1>6 DEF Promise!Commit, Commits, Views, ViewOf
<1> QED BY <1>2, <1>7

LEMMA LoadedPromised ==
  ASSUME OwnInv, OwnInv', NEW c \in Client, NEW r \in replies, Loaded(c, r)
  PROVE  \E k \in 0 .. Len(log) : Promise!Open(c, k)
<1>1. OnlyReplica(c)
  BY DEF Loaded, server, OnlyReplica, OwnInv, ReplicaInv, TypeInv, TypeOK
<1>2. /\ InStep(c)' /\ version'[c] = r.version /\ Own(c)' = {}
  BY DEF Loaded, InStep, Own, NoChange, OwnInv, ReplicaInv, TypeInv, TypeOK
<1>3. r.version - 1 \in 0 .. Len(log)
  <2>1. /\ r.version \in 1 .. Latest /\ Len(log) \in Nat
    BY SMTT(30) DEF OwnInv, ReplicaInv, TypeInv, TypeOK
  <2> QED BY <2>1 DEF Latest
<1>4. Commits' = Commits /\ Views' = [Views EXCEPT ![c] = Promise!View(r.version - 1, {})]
  BY <1>1, <1>2, OneViewMoves
<1>5. Promise!Open(c, r.version - 1)
  BY <1>4 DEF Promise!Open, Commits, Views, ViewOf
<1> QED BY <1>3, <1>5

LEMMA LocalEditPromised ==
  ASSUME OwnInv, OwnInv', NEW c \in Client, NEW e \in Edit, LocalEdit(c, e)
  PROVE  Promise!TypeEdit(c, e) \/ Promise!LoseTrack(c)
<1>1. OnlyReplica(c)
  BY DEF LocalEdit, TransmitEdit, BufferEdit, server, OnlyReplica, OwnInv, ReplicaInv, TypeInv,
         TypeOK
<1>2. CASE ~InStep(c)'
  BY <1>1, <1>2, OneViewMoves
<1>3. CASE InStep(c)'
  <2>1. InStep(c) /\ version'[c] = version[c] /\ e \notin made
    BY <1>3 DEF LocalEdit, InStep
  <2>2. Chains(c)
    BY <2>1 DEF OwnInv, ReplicaInv
  <2>3. Own(c)' = Own(c) \cup {e}
    <3>1. CASE TransmitEdit(c, e)
      <4>1. inFlightOp[c].ops = {}
        BY <2>2, <3>1 DEF TransmitEdit, Chains, IsChange
      <4>2. inFlightOp'[c].ops = {e} /\ buffer'[c].ops = buffer[c].ops
        BY <3>1 DEF TransmitEdit, OwnInv, ReplicaInv, TypeInv, TypeOK
      <4> QED BY <4>1, <4>2 DEF Own
    <3>2. CASE BufferEdit(c, e)
      <4> DEFINE cs == [ops |-> {e}, ctx |-> value[c]]
      <4>1. AddToBuffer(buffer[c], cs).ops = buffer[c].ops \cup {e}
        BY DEF AddToBuffer, Merge, IsChange
      <4>2. inFlightOp'[c].ops = inFlightOp[c].ops /\ buffer'[c].ops = buffer[c].ops \cup {e}
        BY <3>2, <4>1 DEF BufferEdit, OwnInv, ReplicaInv, TypeInv, TypeOK
      <4> QED BY <4>2 DEF Own
    <3> QED BY <3>1, <3>2 DEF LocalEdit
  <2>4. e \notin value[c]
    <3>1. \A i \in 1 .. (version[c] - 1) : e \notin log[i].ops
      <4>1. version[c] \in 0 .. Latest /\ Len(log) \in Nat /\ Latest = Len(log) + 1
        BY DEF OwnInv, ReplicaInv, TypeInv, TypeOK, Latest
      <4> QED BY <2>1, <4>1 DEF OwnInv, OnePlace
    <3> QED BY <2>1, <2>2, <3>1 DEF Chains, Doc, OwnInv, OnePlace, OwnApart
  <2>5. /\ Commits' = Commits
        /\ Views' = [Views EXCEPT ![c] = Promise!View(version[c] - 1, Own(c) \cup {e})]
    BY <1>1, <1>3, <2>1, <2>3, OneViewMoves
  <2>6. /\ Views[c].known /\ Views[c].seen = version[c] - 1 /\ Views[c].own = Own(c)
        /\ Views[c].text = value[c]
    BY <2>1 DEF Views, ViewOf
  <2>7. Promise!TypeEdit(c, e)
    BY <2>4, <2>5, <2>6 DEF Promise!TypeEdit, Commits, Views, ViewOf
  <2> QED BY <2>7
<1> QED BY <1>2, <1>3

\* The next change arrives, approved or foreign: what is left of the own edits is apart from it.
LEMMA AdvancePromised ==
  ASSUME OwnInv, OwnInv', NEW c \in Client, NEW id \in Ids, OnlyReplica(c),
         InStep(c), InStep(c)', id = version[c] + 1, version'[c] = id,
         Own(c)' = Own(c) \ log[id - 1].ops
  PROVE  Promise!Advance(c)
<1>1. /\ version[c] \in 1 .. Latest /\ Len(log) \in Nat /\ Latest = Len(log) + 1
  BY DEF OwnInv, ReplicaInv, TypeInv, TypeOK, Bookkeeping, InStep, Latest
<1>2. Len(Commits) = Len(log) /\ version[c] \in 1 .. Len(log) /\ Commits[version[c]] = log[version[c]].ops
  BY <1>1 DEF Commits, Ids
<1>3. /\ Views[c].known /\ Views[c].seen = version[c] - 1 /\ Views[c].own = Own(c)
  BY DEF Views, ViewOf
<1>4. /\ Commits' = Commits
      /\ Views' = [Views EXCEPT ![c] = Promise!View(version'[c] - 1, Own(c)')]
  BY OneViewMoves
<1>5. /\ Views[c].seen + 1 = version[c] /\ version'[c] - 1 = version[c] /\ id - 1 = version[c]
      /\ Views[c].seen < Len(Commits)
  BY <1>1, <1>2, <1>3
<1>6. Views' = [Views EXCEPT ![c] =
                  Promise!View(Views[c].seen + 1, Views[c].own \ Commits[Views[c].seen + 1])]
  BY <1>2, <1>3, <1>4, <1>5
<1> QED BY <1>3, <1>4, <1>5, <1>6 DEF Promise!Advance, Commits, Views, ViewOf

LEMMA DeliverApprovalPromised ==
  ASSUME OwnInv, OwnInv', NEW c \in Client, NEW id \in Ids, DeliverApproval(c, id)
  PROVE  Promise!Advance(c) \/ Promise!LoseTrack(c)
<1>1. OnlyReplica(c)
  BY DEF DeliverApproval, FellOut, server, OnlyReplica, OwnInv, ReplicaInv, TypeInv, TypeOK
<1>2. CASE ~InStep(c)'
  BY <1>1, <1>2, OneViewMoves
<1>3. CASE InStep(c)'
  <2>1. Expected(c, id) /\ inFlightOp[c].ops = log[id - 1].ops
    BY <1>3 DEF DeliverApproval, FellOut, InStep
  <2>2. InStep(c) /\ id = version[c] + 1
    BY <1>3, <2>1 DEF DeliverApproval, Expected, InStep
  <2>3. version'[c] = id /\ Own(c)' = buffer[c].ops
    BY DEF DeliverApproval, Own, NoChange, OwnInv, ReplicaInv, TypeInv, TypeOK
  <2>4. Own(c)' = Own(c) \ log[id - 1].ops
    BY <2>1, <2>3 DEF Own, OwnInv, OwnApart, Apart
  <2> QED BY <1>1, <1>3, <2>2, <2>3, <2>4, AdvancePromised
<1> QED BY <1>2, <1>3

LEMMA DeliverForeignPromised ==
  ASSUME OwnInv, OwnInv', NEW c \in Client, NEW id \in Ids, DeliverForeign(c, id)
  PROVE  Promise!Advance(c) \/ Promise!LoseTrack(c)
<1>1. OnlyReplica(c)
  BY DEF DeliverForeign, FellOut, server, OnlyReplica, OwnInv, ReplicaInv, TypeInv, TypeOK
<1>2. CASE ~InStep(c)'
  BY <1>1, <1>2, OneViewMoves
<1>3. CASE InStep(c)'
  <2>1. Expected(c, id)
    BY <1>3 DEF DeliverForeign, FellOut, InStep
  <2>2. InStep(c) /\ id = version[c] + 1
    BY <1>3, <2>1 DEF DeliverForeign, Expected, InStep
  <2>3. version'[c] = id
    BY DEF DeliverForeign, OwnInv, ReplicaInv, TypeInv, TypeOK
  <2>4. Own(c)' = Own(c)
    BY DeliverForeignOwn DEF Own
  <2>5. id - 1 \in 1 .. Len(log) /\ log[id - 1].author # c
    <3>1. version[c] >= 1 /\ version[c] \in Nat /\ Len(log) \in Nat
      <4>1. version[c] \in 0 .. Latest /\ initialized[c] /\ log \in Seq(Delta)
        BY <2>2 DEF InStep, OwnInv, ReplicaInv, TypeInv, TypeOK
      <4>2. version[c] >= 1
        BY <4>1 DEF OwnInv, ReplicaInv, TypeInv, Bookkeeping
      <4> QED BY <4>1, <4>2, LatestType DEF Latest
    <3>2. id <= Len(log) + 1
      BY DEF Ids, Latest
    <3>3. log[id - 1].author # c
      BY DEF DeliverForeign, AuthorOf
    <3> QED BY <2>2, <3>1, <3>2, <3>3
  <2>6. Own(c) \cap log[id - 1].ops = {}
    BY <2>5 DEF Own, OwnInv, OwnApart, OnePlace, Apart
  <2>7. Own(c)' = Own(c) \ log[id - 1].ops
    BY <2>4, <2>6
  <2> QED BY <1>1, <1>3, <2>2, <2>3, <2>7, AdvancePromised
<1> QED BY <1>2, <1>3

LEMMA DeliverMisfitPromised ==
  ASSUME OwnInv, OwnInv', NEW c \in Client, NEW id \in Ids, NEW k \in Slot, DeliverMisfit(c, id, k)
  PROVE  Promise!LoseTrack(c)
<1>1. OnlyReplica(c)
  BY DEF DeliverMisfit, FellOut, server, OnlyReplica, OwnInv, ReplicaInv, TypeInv, TypeOK
<1>2. ~InStep(c)'
  BY DEF DeliverMisfit, FellOut, InStep
<1> QED BY <1>1, <1>2, OneViewMoves

LEMMA StepPromised == OwnInv /\ OwnInv' /\ [Next]_vars => [Promise!Next]_(Promise!vars)
<1> SUFFICES ASSUME OwnInv, OwnInv', [Next]_vars PROVE [Promise!Next]_(Promise!vars)
  OBVIOUS
<1>1. Len(log) \in Nat /\ Len(Commits) = Len(log)
  BY DEF OwnInv, ReplicaInv, TypeInv, TypeOK, Commits
<1>2. (UNCHANGED << Commits, Views >>) => UNCHANGED Promise!vars
  BY DEF Promise!vars, Commits, Views, ViewOf
<1>3. ASSUME NEW c \in Client, NEW e \in Edit, LocalEdit(c, e) PROVE Promise!Next
  BY <1>3, LocalEditPromised DEF Promise!Next
<1>4. ASSUME NEW c \in Client, NEW r \in replies, Loaded(c, r) PROVE Promise!Next
  BY <1>1, <1>4, LoadedPromised DEF Promise!Next, Commits
<1>5. ASSUME NEW c \in Client, NEW id \in Ids, DeliverApproval(c, id) PROVE Promise!Next
  BY <1>5, DeliverApprovalPromised DEF Promise!Next
<1>6. ASSUME NEW c \in Client, NEW id \in Ids, DeliverForeign(c, id) PROVE Promise!Next
  BY <1>6, DeliverForeignPromised DEF Promise!Next
<1>7. ASSUME NEW c \in Client, NEW id \in Ids, NEW k \in Slot, DeliverMisfit(c, id, k)
      PROVE  Promise!Next
  BY <1>7, DeliverMisfitPromised DEF Promise!Next
<1>8. ASSUME NEW t \in running, CommitTask(t) PROVE Promise!Next
  BY <1>8, CommitPromised DEF Promise!Next
<1>9. ASSUME \/ \E c \in Client : Load(c) \/ Join(c) \/ DeliverNotice(c)
             \/ \E p \in sent : StartTask(p)
             \/ \E t \in running : MergeFails(t)
             \/ \E i \in 1 .. Len(outbox) : Broadcast(i)
             \/ \E q \in requests : GetRecord(q[1], q[2])
             \/ FaultStep
             \/ UNCHANGED vars
      PROVE  UNCHANGED Promise!vars
  <2>1. UNCHANGED << log, initialized, value, version, inFlightOp, buffer, outOfStep >>
    BY <1>9 DEF Load, Join, DeliverNotice, StartTask, MergeFails, Broadcast, GetRecord, FaultStep,
                QuotaViolation, Unauthorized, Disconnect, Crash, server, replica, vars
  <2> QED BY <1>2, <2>1, Unseen
<1> QED BY <1>3, <1>4, <1>5, <1>6, <1>7, <1>8, <1>9
        DEF Next, ServerStep, ClientStep, Receive, UserStep

LEMMA InitPromised == Init => Promise!Init
<1> SUFFICES ASSUME Init PROVE Promise!Init
  OBVIOUS
<1>1. Commits = << >> /\ Views = [c \in Client |-> Promise!Unknown]
  BY DEF Init, Commits, Views, ViewOf, InStep, Promise!Unknown
<1> QED BY <1>1 DEF Promise!Init, Commits, Views, ViewOf

\* LongTextSync implements SharedText: whatever the order of typing, transmission, rebasing,
\* broadcasts, reloads and faults, a replica in step shows the committed changes one by one with
\* its own edits on top, and no edit is committed twice (abstract_record_client.ts, buffer.ts,
\* long_text/server).
THEOREM PromiseKept == Spec => KeepsThePromise
BY OwnInit, OwnStep, InitPromised, StepPromised, PTL DEF Spec, KeepsThePromise, Promise!Spec


-----------------------------------------------------------------------------
(* Attached clients stay attached, and converge *)

\* No message, task or delta is empty.
NoneEmpty ==
  /\ \A p \in sent : p.ops # {}
  /\ \A t \in running : t.change.ops # {}
  /\ \A i \in 1 .. Len(log) : log[i].ops # {}

\* What a replica in step has in flight, it sent in step.
SentInStep(c) ==
  InStep(c) =>
    /\ \A p \in sent : p.author = c /\ p.ops = inFlightOp[c].ops => p.inStep
    /\ \A t \in running : t.change.author = c /\ t.change.ops = inFlightOp[c].ops => t.change.inStep
    /\ \A i \in 1 .. Len(log) : log[i].author = c /\ log[i].ops = inFlightOp[c].ops => log[i].inStep

\* What c has in flight is on its way to the log, or among the deltas after its version.
UnderWay(c) ==
  \/ \E p \in sent : p.author = c /\ p.ops = inFlightOp[c].ops
  \/ \E t \in running : t.change.author = c /\ t.change.ops = inFlightOp[c].ops
  \/ \E i \in version[c] .. Len(log) : log[i].author = c /\ log[i].ops = inFlightOp[c].ops

NothingForgotten ==
  faults = 0 => \A c \in Client : InStep(c) /\ inTransmission[c] => UnderWay(c)

WayInv == OwnInv /\ NoneEmpty /\ (\A c \in Client : SentInStep(c)) /\ NothingForgotten

LEMMA WayInit == Init => WayInv
<1> SUFFICES ASSUME Init PROVE NoneEmpty /\ (\A c \in Client : SentInStep(c)) /\ NothingForgotten
  BY OwnInit DEF WayInv
<1>1. Len(log) = 0
  BY DEF Init
<1> QED BY <1>1 DEF Init, NoneEmpty, SentInStep, NothingForgotten, InStep

\* Nothing new is on the way, and who stays in step has the same in flight, or nothing.
LEMMA FewerSent ==
  ASSUME WayInv, sent' \subseteq sent, running' \subseteq running, log' = log,
         \A c \in Client : InStep(c)' =>
           inFlightOp'[c].ops = {} \/ (InStep(c) /\ inFlightOp'[c].ops = inFlightOp[c].ops)
  PROVE  NoneEmpty' /\ \A c \in Client : SentInStep(c)'
<1>1. NoneEmpty'
  BY DEF WayInv, NoneEmpty
<1> QED BY <1>1 DEF WayInv, NoneEmpty, SentInStep

\* ... and nothing is lost.
LEMMA SameWay ==
  ASSUME WayInv, UNCHANGED << sent, running, log >>, faults' = 0 => faults = 0,
         \A c \in Client : InStep(c)' /\ inTransmission'[c] =>
           /\ InStep(c) /\ inTransmission[c] /\ version'[c] = version[c]
           /\ inFlightOp'[c].ops = inFlightOp[c].ops
  PROVE  NothingForgotten'
BY DEF WayInv, NothingForgotten, UnderWay

LEMMA LocalEditWay ==
  ASSUME WayInv, NEW c \in Client, NEW e \in Edit, LocalEdit(c, e)
  PROVE  NoneEmpty' /\ (\A d \in Client : SentInStep(d)') /\ NothingForgotten'
<1>1. /\ e \notin made
      /\ UNCHANGED << log, running, initialized, outOfStep, version, faults >>
      /\ \A d : InStep(d)' = InStep(d)
  BY DEF LocalEdit, server, InStep
<1>2. CASE TransmitEdit(c, e)
  <2> DEFINE new == Message(c, version[c], [ops |-> {e}, ctx |-> value[c]])
  <2>1. /\ sent' = sent \cup {new} /\ new.ops = {e} /\ new.author = c
        /\ new.inStep = (c \notin outOfStep)
    BY <1>2 DEF TransmitEdit, Message
  <2>2. \A d \in Client :
          /\ inFlightOp'[d].ops = IF d = c THEN {e} ELSE inFlightOp[d].ops
          /\ inTransmission'[d] = IF d = c THEN TRUE ELSE inTransmission[d]
    BY <1>2 DEF TransmitEdit, WayInv, OwnInv, ReplicaInv, TypeInv, TypeOK
  <2> HIDE DEF new
  <2>3. NoneEmpty'
    BY <1>1, <2>1 DEF WayInv, NoneEmpty
  <2>4. \A d \in Client : SentInStep(d)'
    <3>1. /\ \A p \in sent : p.ops # {e}
          /\ \A t \in running : t.change.ops # {e}
          /\ \A i \in 1 .. Len(log) : log[i].ops # {e}
      BY <1>1 DEF WayInv, OwnInv, OnePlace
    <3>2. SentInStep(c)'
      <4>1. inFlightOp'[c].ops = {e}
        BY <2>2
      <4>2. ASSUME InStep(c) PROVE \A p \in sent' : p.author = c /\ p.ops = {e} => p.inStep
        <5>1. new.inStep
          BY <4>2, <2>1 DEF InStep
        <5> QED BY <2>1, <3>1, <5>1
      <4>3. /\ \A t \in running' : t.change.ops # {e}
            /\ \A i \in 1 .. Len(log') : log'[i].ops # {e}
        BY <1>1, <3>1
      <4>4. InStep(c)' = InStep(c)
        BY <1>1
      <4> HIDE DEF InStep
      <4> QED BY <4>1, <4>2, <4>3, <4>4 DEF SentInStep
    <3>3. ASSUME NEW d \in Client, d # c PROVE SentInStep(d)'
      <4>1. SentInStep(d) /\ inFlightOp'[d].ops = inFlightOp[d].ops
        BY <3>3, <2>2 DEF WayInv
      <4> QED BY <3>3, <4>1, <1>1, <2>1 DEF SentInStep
    <3> QED BY <3>2, <3>3
  <2>5. NothingForgotten'
    <3> SUFFICES ASSUME faults = 0, NEW d \in Client, InStep(d), inTransmission'[d]
                 PROVE  UnderWay(d)'
      BY <1>1 DEF NothingForgotten
    <3>1. CASE d = c
      BY <3>1, <2>1, <2>2 DEF UnderWay
    <3>2. CASE d # c
      <4>1. UnderWay(d) /\ inFlightOp'[d].ops = inFlightOp[d].ops
        BY <3>2, <2>2 DEF WayInv, NothingForgotten
      <4> QED BY <4>1, <1>1, <2>1 DEF UnderWay
    <3> QED BY <3>1, <3>2
  <2> QED BY <2>3, <2>4, <2>5
<1>3. CASE BufferEdit(c, e)
  <2>1. UNCHANGED << sent, inTransmission, inFlightOp >>
    BY <1>3 DEF BufferEdit
  <2>2. NoneEmpty' /\ \A d \in Client : SentInStep(d)'
    BY <1>1, <2>1, FewerSent
  <2> QED BY <1>1, <2>1, <2>2, SameWay
<1> QED BY <1>2, <1>3 DEF LocalEdit

LEMMA StartTaskWay ==
  ASSUME WayInv, NEW p \in sent, StartTask(p)
  PROVE  NoneEmpty' /\ (\A d \in Client : SentInStep(d)') /\ NothingForgotten'
<1> DEFINE t == [change |-> p, head |-> Latest]
<1>1. /\ sent' = sent \ {p} /\ running = {} /\ running' = {t} /\ t.change = p
      /\ UNCHANGED << log, initialized, outOfStep, inFlightOp, inTransmission, version, faults >>
      /\ \A d : InStep(d)' = InStep(d)
  BY DEF StartTask, QueueFree, replica, InStep
<1> HIDE DEF t
<1>2. NoneEmpty'
  BY <1>1 DEF WayInv, NoneEmpty
<1>3. \A d \in Client : SentInStep(d)'
  BY <1>1 DEF WayInv, SentInStep
<1>4. NothingForgotten'
  BY <1>1 DEF WayInv, NothingForgotten, UnderWay
<1> QED BY <1>2, <1>3, <1>4

LEMMA CommitTaskWay ==
  ASSUME WayInv, NEW t \in running, CommitTask(t)
  PROVE  NoneEmpty' /\ (\A d \in Client : SentInStep(d)') /\ NothingForgotten'
<1> DEFINE n == Len(log) + 1
<1>1. /\ UNCHANGED << sent, initialized, outOfStep, inFlightOp, inTransmission, version, faults >>
      /\ \A d : InStep(d)' = InStep(d)
  BY DEF CommitTask, replica, InStep
<1>2. /\ log'[n].ops = t.change.ops /\ log'[n].author = t.change.author
      /\ \A i \in 1 .. Len(log) : log'[i] = log[i]
      /\ \A i \in 1 .. Len(log') : i = n \/ i \in 1 .. Len(log)
      /\ running' = {} /\ Len(log) \in Nat /\ Len(log') = n
  BY CommitTaskLog DEF WayInv, OwnInv, ReplicaInv
<1>3. log'[n].inStep = t.change.inStep
  <2> DEFINE d == [author |-> t.change.author, ops |-> Rebased(t).ops,
                   inStep |-> t.change.inStep, exact |-> Fits(t)]
  <2>1. log' = Append(log, d) /\ d.inStep = t.change.inStep /\ log \in Seq(Delta)
    BY DEF CommitTask, WayInv, OwnInv, ReplicaInv, TypeInv, TypeOK
  <2> HIDE DEF d
  <2> QED BY <2>1, <1>2
<1>4. running = {t}
  BY DEF WayInv, OwnInv, ReplicaInv, TypeInv, TypeOK
<1>5. \A d \in Client : InStep(d) => version[d] \in 1 .. n
  BY <1>2 DEF WayInv, OwnInv, ReplicaInv, TypeInv, TypeOK, Bookkeeping, InStep, Latest
<1>6. n \in Nat /\ \A v \in 1 .. n : /\ n \in v .. Len(log')
                                     /\ \A i \in v .. Len(log) : i \in v .. Len(log') /\ i \in 1 .. Len(log)
  BY <1>2
<1> HIDE DEF n
<1>7. NoneEmpty'
  BY <1>1, <1>2, <1>4 DEF WayInv, NoneEmpty
<1>8. \A d \in Client : SentInStep(d)'
  BY <1>1, <1>2, <1>3, <1>4 DEF WayInv, SentInStep
<1>9. NothingForgotten'
  <2> SUFFICES ASSUME faults = 0, NEW d \in Client, InStep(d), inTransmission[d]
               PROVE  UnderWay(d)'
    BY <1>1 DEF NothingForgotten
  <2>1. UnderWay(d) /\ version[d] \in 1 .. n
    BY <1>5 DEF WayInv, NothingForgotten
  <2> QED BY <2>1, <1>1, <1>2, <1>4, <1>6 DEF UnderWay
<1> QED BY <1>7, <1>8, <1>9

\* Merging only fails for changes that were not sent in step.
LEMMA MergeFailsWay ==
  ASSUME WayInv, NEW t \in running, MergeFails(t)
  PROVE  NoneEmpty' /\ (\A d \in Client : SentInStep(d)') /\ NothingForgotten'
<1>1. /\ UNCHANGED << log, sent, initialized, outOfStep, inFlightOp, inTransmission, version, faults >>
      /\ running' = running \ {t}
      /\ \A d : InStep(d)' = InStep(d)
  BY DEF MergeFails, replica, InStep
<1>2. ~t.change.inStep
  BY RebasedFits DEF MergeFails, WayInv, OwnInv
<1>3. NoneEmpty' /\ \A d \in Client : SentInStep(d)'
  BY <1>1, FewerSent
<1>4. NothingForgotten'
  BY <1>1, <1>2 DEF WayInv, NothingForgotten, UnderWay, SentInStep
<1> QED BY <1>3, <1>4

\* What is buffered becomes what is in flight, and a message sent in step.
LEMMA DeliverApprovalWay ==
  ASSUME WayInv, NEW c \in Client, NEW id \in Ids, DeliverApproval(c, id)
  PROVE  NoneEmpty' /\ (\A d \in Client : SentInStep(d)') /\ NothingForgotten'
<1> DEFINE new == [Message(c, id, buffer[c]) EXCEPT !.inStep = c \notin outOfStep']
<1>1. /\ sent' = sent \cup (IF IsChange(buffer[c]) THEN {new} ELSE {})
      /\ outOfStep' \in {outOfStep, outOfStep \cup {c}}
      /\ UNCHANGED << log, running, initialized, faults >>
  BY DEF DeliverApproval, FellOut, Resend, server
<1>2. new.ops = buffer[c].ops /\ new.author = c /\ new.inStep = (c \notin outOfStep')
  BY DEF Message
<1> HIDE DEF new
<1>3. /\ inFlightOp'[c].ops = buffer[c].ops /\ inTransmission'[c] = IsChange(buffer[c])
      /\ \A d \in Client \ {c} :
           /\ inFlightOp'[d] = inFlightOp[d] /\ inTransmission'[d] = inTransmission[d]
           /\ version'[d] = version[d]
  BY DEF DeliverApproval, WayInv, OwnInv, ReplicaInv, TypeInv, TypeOK
<1>4. NoneEmpty'
  BY <1>1, <1>2 DEF WayInv, NoneEmpty, IsChange
<1>5. \A d \in Client : d # c => InStep(d)' = InStep(d)
  BY <1>1 DEF InStep
<1>6. ASSUME NEW d \in Client, d # c PROVE SentInStep(d)'
  <2>1. SentInStep(d) /\ inFlightOp'[d].ops = inFlightOp[d].ops /\ InStep(d)' = InStep(d)
    BY <1>3, <1>5, <1>6 DEF WayInv
  <2> QED BY <2>1, <1>1, <1>2, <1>6 DEF SentInStep
<1>7. SentInStep(c)'
  <2>1. /\ \A p \in sent : p.ops # buffer[c].ops
        /\ \A t \in running : t.change.ops # buffer[c].ops
        /\ \A i \in 1 .. Len(log) : log[i].ops # buffer[c].ops
    BY DEF WayInv, NoneEmpty, OwnInv, OnePlace, Apart
  <2>2. ASSUME c \notin outOfStep', NEW p \in sent', p.ops = buffer[c].ops PROVE p.inStep
    <3>1. p = new
      BY <2>1, <2>2, <1>1
    <3> QED BY <3>1, <2>2, <1>2
  <2> QED BY <2>1, <2>2, <1>1, <1>3 DEF SentInStep, InStep
<1>8. NothingForgotten'
  <2> SUFFICES ASSUME faults = 0, NEW d \in Client, InStep(d)', inTransmission'[d]
               PROVE  UnderWay(d)'
    BY <1>1 DEF NothingForgotten
  <2>1. CASE d = c
    BY <2>1, <1>1, <1>2, <1>3 DEF UnderWay
  <2>2. CASE d # c
    <3>1. /\ UnderWay(d) /\ inFlightOp'[d].ops = inFlightOp[d].ops
          /\ version'[d] = version[d]
      BY <2>2, <1>3, <1>5 DEF WayInv, NothingForgotten
    <3> QED BY <3>1, <1>1 DEF UnderWay
  <2> QED BY <2>1, <2>2
<1> QED BY <1>4, <1>6, <1>7, <1>8

\* A foreign change that the replica expected is not the one it waits for.
LEMMA DeliverForeignWay ==
  ASSUME WayInv, NEW c \in Client, NEW id \in Ids, DeliverForeign(c, id)
  PROVE  NoneEmpty' /\ (\A d \in Client : SentInStep(d)') /\ NothingForgotten'
<1>1. /\ outOfStep' = IF Expected(c, id) THEN outOfStep ELSE outOfStep \cup {c}
      /\ UNCHANGED << log, sent, running, initialized, inTransmission, faults >>
      /\ AuthorOf(id) # c
  BY DEF DeliverForeign, FellOut, server
<1>2. \A d \in Client : inFlightOp'[d].ops = inFlightOp[d].ops
  BY DeliverForeignOwn DEF WayInv
<1>3. \A d \in Client : version'[d] = IF d = c THEN id ELSE version[d]
  BY DEF DeliverForeign, WayInv, OwnInv, ReplicaInv, TypeInv, TypeOK
<1>4. \A d \in Client : InStep(d)' => InStep(d)
  BY <1>1 DEF InStep
<1>5. NoneEmpty' /\ \A d \in Client : SentInStep(d)'
  BY <1>1, <1>2, <1>4, FewerSent
<1>6. NothingForgotten'
  <2> SUFFICES ASSUME faults = 0, NEW d \in Client, InStep(d)', inTransmission[d]
               PROVE  UnderWay(d)'
    BY <1>1 DEF NothingForgotten
  <2>1. UnderWay(d)
    BY <1>4 DEF WayInv, NothingForgotten
  <2>2. CASE d = c
    <3>1. id = version[c] + 1 /\ version[c] \in Nat /\ Len(log) \in Nat
      BY <2>2, <1>1 DEF InStep, Expected, WayInv, OwnInv, ReplicaInv, TypeInv, TypeOK
    <3>2. \A i \in version[c] .. Len(log) : log[i].author = c => i \in id .. Len(log)
      BY <1>1, <3>1 DEF AuthorOf
    <3> QED BY <2>1, <2>2, <3>2, <1>1, <1>2, <1>3 DEF UnderWay
  <2>3. CASE d # c
    BY <2>1, <2>3, <1>1, <1>2, <1>3 DEF UnderWay
  <2> QED BY <2>2, <2>3
<1> QED BY <1>5, <1>6

LEMMA WayStep == WayInv /\ [Next]_vars => WayInv'
<1> DEFINE Goal == NoneEmpty' /\ (\A d \in Client : SentInStep(d)') /\ NothingForgotten'
<1> SUFFICES ASSUME WayInv, [Next]_vars PROVE Goal
  BY OwnStep DEF WayInv
\* Steps that leave what replicas have in flight alone
<1>0. ASSUME UNCHANGED << log, sent, running, initialized, outOfStep, inFlightOp, inTransmission,
                          version, faults >>
      PROVE  Goal
  <2>1. \A d : InStep(d)' = InStep(d)
    BY <1>0 DEF InStep
  <2>2. NoneEmpty' /\ \A d \in Client : SentInStep(d)'
    BY <1>0, <2>1, FewerSent
  <2> QED BY <1>0, <2>1, <2>2, SameWay
<1> HIDE DEF Goal
<1>1. ASSUME ServerStep PROVE Goal
  <2>1. ASSUME NEW i \in 1 .. Len(outbox), Broadcast(i) PROVE Goal
    BY <2>1, <1>0 DEF Broadcast, replica
  <2>2. ASSUME NEW q \in requests, GetRecord(q[1], q[2]) PROVE Goal
    BY <2>2, <1>0 DEF GetRecord, server, replica
  <2> QED BY <1>1, <2>1, <2>2, StartTaskWay, CommitTaskWay, MergeFailsWay DEF ServerStep, Goal
<1>2. ASSUME FaultStep PROVE Goal
  <2>1. /\ sent' \subseteq sent /\ running' \subseteq running /\ faults' = faults + 1
        /\ UNCHANGED << log, initialized, outOfStep, inFlightOp >>
    BY <1>2 DEF FaultStep, QuotaViolation, Unauthorized, Disconnect, Crash, Happens, server, replica
  <2>2. \A d : InStep(d)' = InStep(d)
    BY <2>1 DEF InStep
  <2>3. NoneEmpty' /\ \A d \in Client : SentInStep(d)'
    BY <2>1, <2>2, FewerSent
  <2>4. faults' # 0
    BY <2>1 DEF WayInv, OwnInv, ReplicaInv, TypeInv, TypeOK
  <2> QED BY <2>3, <2>4 DEF NothingForgotten, Goal
<1>3. ASSUME NEW c \in Client, ClientStep(c) PROVE Goal
  <2>1. ASSUME NEW r \in replies, Loaded(c, r) PROVE Goal
    <3>1. /\ UNCHANGED << log, sent, running, faults >>
          /\ \A d \in Client : IF d = c THEN inFlightOp'[d].ops = {} /\ ~inTransmission'[d]
                               ELSE /\ inFlightOp'[d] = inFlightOp[d] /\ version'[d] = version[d]
                                    /\ inTransmission'[d] = inTransmission[d]
                                    /\ InStep(d)' = InStep(d)
      BY <2>1 DEF Loaded, server, NoChange, InStep, WayInv, OwnInv, ReplicaInv, TypeInv, TypeOK
    <3>2. NoneEmpty' /\ \A d \in Client : SentInStep(d)'
      BY <3>1, FewerSent
    <3> QED BY <3>1, <3>2, SameWay DEF Goal
  <2>2. ASSUME Join(c) PROVE Goal
    BY <2>2, <1>0 DEF Join, server, replica
  <2>3. ASSUME DeliverNotice(c) PROVE Goal
    BY <2>3, <1>0 DEF DeliverNotice, server, replica
  <2>4. ASSUME NEW id \in Ids, NEW k \in Slot, DeliverMisfit(c, id, k) PROVE Goal
    <3>1. /\ UNCHANGED << log, sent, running, faults, version, inTransmission >>
          /\ \A d \in Client : InStep(d)' => InStep(d) /\ inFlightOp'[d] = inFlightOp[d]
      BY <2>4 DEF DeliverMisfit, FellOut, server, InStep, WayInv, OwnInv, ReplicaInv, TypeInv, TypeOK
    <3>2. NoneEmpty' /\ \A d \in Client : SentInStep(d)'
      BY <3>1, FewerSent
    <3> QED BY <3>1, <3>2, SameWay DEF Goal
  <2> QED BY <1>3, <2>1, <2>2, <2>3, <2>4, DeliverApprovalWay, DeliverForeignWay
          DEF ClientStep, Receive, Goal
<1>4. ASSUME NEW c \in Client, UserStep(c) PROVE Goal
  <2>1. ASSUME Load(c) PROVE Goal
    BY <2>1, <1>0 DEF Load, server, replica
  <2> QED BY <1>4, <2>1, LocalEditWay DEF UserStep, Goal
<1>5. ASSUME UNCHANGED vars PROVE Goal
  BY <1>5, <1>0 DEF vars
<1> QED BY <1>1, <1>2, <1>3, <1>4, <1>5 DEF Next

\* Without faults, once all is quiet, an attached client shows the committed text and holds
\* nothing back: what it had in flight cannot have vanished, since whatever it sent is in the
\* log and was seen.
THEOREM AttachedConverge == Spec => []AttachedClientsConverge
<1>1. WayInv => AttachedClientsConverge
  <2> SUFFICES ASSUME WayInv, Quiet, faults = 0, NEW c \in Client, Attached(c)
               PROVE  value[c] = Doc(Latest) /\ ~inTransmission[c] /\ ~IsChange(buffer[c])
    BY DEF AttachedClientsConverge
  <2>1. InStep(c) /\ version[c] \in 1 .. Latest /\ Latest = Len(log) + 1 /\ Len(log) \in Nat
    BY LatestType DEF Attached, InStep, WayInv, OwnInv, ReplicaInv, TypeInv, TypeOK, Bookkeeping, Latest
  <2>2. version[c] = Latest
    <3>1. Awaited(c) = << >>
      BY DEF Quiet, Awaited
    <3>2. (version[c] + 1) .. Latest = {}
      BY <3>1 DEF Attached, LeadsOn
    <3> QED BY <2>1, <3>2
  <2>3. ~inTransmission[c]
    <3>1. ~UnderWay(c)
      BY <2>1, <2>2 DEF UnderWay, Quiet
    <3> QED BY <2>1, <3>1 DEF WayInv, NothingForgotten
  <2>4. Chains(c)
    BY <2>1 DEF WayInv, OwnInv, ReplicaInv
  <2> QED BY <2>2, <2>3, <2>4 DEF Chains, IsChange
<1> QED BY <1>1, WayInit, WayStep, PTL DEF Spec

-----------------------------------------------------------------------------
(* What leads from a version to another: a change more at the end, one less at the *)
(* front, a notice in between                                                       *)

Changes(messages) == {i \in DOMAIN messages : messages[i] # QuotaNotice}

LEMMA LeadsFurther ==
  ASSUME NEW s \in Seq(Nat), NEW v \in Nat, NEW l \in Nat, v <= l, LeadsOn(s, v, l)
  PROVE  LeadsOn(Append(s, l + 1), v, l + 1)
<1> DEFINE t == Append(s, l + 1)
<1>1. /\ t \in Seq(Nat) /\ Len(t) = Len(s) + 1 /\ Len(s) \in Nat
      /\ \A i \in 1 .. Len(s) : t[i] = s[i]
      /\ t[Len(s) + 1] = l + 1
  BY AppendProperties
<1>2. DOMAIN t = DOMAIN s \cup {Len(s) + 1} /\ DOMAIN s = 1 .. Len(s)
  BY <1>1
<1> HIDE DEF t
<1>3. Changes(t) = Changes(s) \cup {Len(s) + 1}
  BY <1>1, <1>2 DEF Changes, QuotaNotice
<1>4. /\ {s[i] : i \in Changes(s)} = (v + 1) .. l
      /\ \A i, j \in Changes(s) : i < j => s[i] < s[j]
  BY DEF LeadsOn, Changes
<1>5. ASSUME NEW i \in Changes(s)
      PROVE  t[i] = s[i] /\ i < Len(s) + 1 /\ i # Len(s) + 1 /\ s[i] < l + 1
  <2>1. i \in 1 .. Len(s)
    BY <1>2 DEF Changes
  <2>2. s[i] \in (v + 1) .. l
    BY <1>4
  <2> QED BY SMTT(30), <1>1, <2>1, <2>2
<1>6. {t[i] : i \in Changes(t)} = {s[i] : i \in Changes(s)} \cup {l + 1}
  <2>1. \A i \in Changes(t) : t[i] \in {s[j] : j \in Changes(s)} \cup {l + 1}
    BY <1>1, <1>3, <1>5
  <2>2. \A i \in Changes(s) : i \in Changes(t) /\ s[i] = t[i]
    BY <1>3, <1>5
  <2>3. Len(s) + 1 \in Changes(t) /\ t[Len(s) + 1] = l + 1
    BY <1>1, <1>3
  <2> HIDE DEF Changes
  <2> QED BY <2>1, <2>2, <2>3
<1>7. {t[i] : i \in Changes(t)} = (v + 1) .. (l + 1)
  <2>1. (v + 1) .. (l + 1) = ((v + 1) .. l) \cup {l + 1}
    OBVIOUS
  <2> QED BY <1>4, <1>6, <2>1
<1>8. ASSUME NEW i \in Changes(t), NEW j \in Changes(t), i < j PROVE t[i] < t[j]
  <2>0. \A k \in Changes(t) : k \in 1 .. Len(s) + 1
    BY <1>1, <1>2 DEF Changes
  <2>1. i # Len(s) + 1
    <3>1. i \in 1 .. Len(s) + 1 /\ j \in 1 .. Len(s) + 1
      BY <2>0
    <3> QED BY <1>1, <1>8, <3>1
  <2>2. i \in Changes(s) /\ (j \in Changes(s) \/ j = Len(s) + 1)
    BY <1>3, <2>1
  <2> QED BY <1>1, <1>4, <1>5, <1>8, <2>2
<1> QED BY <1>7, <1>8 DEF LeadsOn, Changes, t

\* The first message is a notice, or the change after the version.
LEMMA LeadsTail ==
  ASSUME NEW s \in Seq(Nat), s # << >>, NEW v \in Nat, NEW l \in Nat, LeadsOn(s, v, l)
  PROVE  /\ Head(s) = QuotaNotice => LeadsOn(Tail(s), v, l)
         /\ Head(s) # QuotaNotice => Head(s) = v + 1 /\ LeadsOn(Tail(s), v + 1, l)
<1> DEFINE t == Tail(s)
<1>1. /\ t \in Seq(Nat) /\ Len(t) = Len(s) - 1 /\ Len(s) \in Nat \ {0}
      /\ \A i \in 1 .. Len(t) : t[i] = s[i + 1]
      /\ Head(s) = s[1] /\ s[1] \in Nat
  BY HeadTailProperties
<1>2. DOMAIN t = 1 .. Len(t) /\ DOMAIN s = 1 .. Len(s)
  BY <1>1
<1> HIDE DEF t
<1>3. /\ \A i \in Changes(t) : i + 1 \in Changes(s) /\ t[i] = s[i + 1] /\ i \in Nat \ {0}
      /\ \A i \in Changes(s) : i = 1 \/ (i - 1 \in Changes(t) /\ t[i - 1] = s[i])
  <2>1. ASSUME NEW i \in Changes(t)
        PROVE  i + 1 \in Changes(s) /\ t[i] = s[i + 1] /\ i \in Nat \ {0}
    <3>1. i \in 1 .. Len(t) /\ t[i] # QuotaNotice
      BY <1>2 DEF Changes
    <3>2. i + 1 \in 1 .. Len(s) /\ t[i] = s[i + 1] /\ i \in Nat \ {0}
      BY <1>1, <3>1
    <3> QED BY <1>2, <3>1, <3>2 DEF Changes
  <2>2. ASSUME NEW i \in Changes(s), i # 1
        PROVE  i - 1 \in Changes(t) /\ t[i - 1] = s[i]
    <3>1. i \in 1 .. Len(s) /\ s[i] # QuotaNotice
      BY <1>2 DEF Changes
    <3>2. i - 1 \in 1 .. Len(t) /\ (i - 1) + 1 = i
      BY <1>1, <2>2, <3>1
    <3>3. t[i - 1] = s[i]
      BY <1>1, <3>2
    <3> QED BY <1>2, <3>1, <3>2, <3>3 DEF Changes
  <2> QED BY <2>1, <2>2
<1>4. /\ {s[i] : i \in Changes(s)} = (v + 1) .. l
      /\ \A i, j \in Changes(s) : i < j => s[i] < s[j]
      /\ Changes(s) \subseteq Nat \ {0}
  BY <1>2 DEF LeadsOn, Changes
<1>5. \A i, j \in Changes(t) : i < j => t[i] < t[j]
  BY <1>3, <1>4
<1>6. {t[i] : i \in Changes(t)} = {s[i] : i \in Changes(s) \ {1}}
  <2>1. \A i \in Changes(t) : i + 1 \in Changes(s) \ {1} /\ t[i] = s[i + 1]
    BY <1>3
  <2>2. \A i \in Changes(s) \ {1} : i - 1 \in Changes(t) /\ s[i] = t[i - 1]
    BY <1>3
  <2> HIDE DEF Changes
  <2> QED BY <2>1, <2>2
<1>7. CASE Head(s) = QuotaNotice
  <2>1. Changes(s) \ {1} = Changes(s)
    BY <1>1, <1>7 DEF Changes
  <2> QED BY <1>4, <1>5, <1>6, <1>7, <2>1 DEF LeadsOn, Changes, t
<1>8. CASE Head(s) # QuotaNotice
  <2>1. 1 \in Changes(s)
    BY <1>1, <1>2, <1>8 DEF Changes
  <2>2. /\ s[1] \in (v + 1) .. l
        /\ \A i \in Changes(s) \ {1} : s[1] < s[i]
    BY <1>4, <2>1
  <2>3. s[1] = v + 1
    <3>1. v + 1 \in (v + 1) .. l
      BY <2>2
    <3>2. v + 1 \in {s[i] : i \in Changes(s)}
      BY <1>4, <3>1
    <3>3. PICK k \in Changes(s) : s[k] = v + 1
      BY <3>2
    <3>4. k = 1 \/ s[1] < v + 1
      BY <2>2, <3>3
    <3> QED BY <2>2, <3>3, <3>4
  <2>4. {s[i] : i \in Changes(s) \ {1}} = (v + 2) .. l
    <3>1. ASSUME NEW i \in Changes(s) \ {1} PROVE s[i] \in (v + 2) .. l
      <4>1. s[i] \in (v + 1) .. l
        BY <1>4
      <4>2. v + 1 < s[i]
        BY <2>2, <2>3
      <4> QED BY <4>1, <4>2
    <3>2. ASSUME NEW x \in (v + 2) .. l PROVE \E i \in Changes(s) \ {1} : s[i] = x
      <4>1. x \in (v + 1) .. l /\ x # v + 1
        OBVIOUS
      <4>2. x \in {s[i] : i \in Changes(s)}
        BY <1>4, <4>1
      <4> QED BY <2>3, <4>1, <4>2
    <3> QED BY <3>1, <3>2
  <2>5. v + 2 = (v + 1) + 1
    OBVIOUS
  <2>6. LeadsOn(t, v + 1, l)
    BY <1>5, <1>6, <2>4, <2>5 DEF LeadsOn, Changes
  <2> QED BY <1>1, <1>8, <2>3, <2>6 DEF t
<1> QED BY <1>7, <1>8

\* A notice in between changes nothing.
LEMMA LeadsPastNotice ==
  ASSUME NEW a \in Seq(Nat), NEW b \in Seq(Nat), NEW v \in Nat, NEW l \in Nat, LeadsOn(a \o b, v, l)
  PROVE  LeadsOn(Append(a, QuotaNotice) \o b, v, l)
<1> DEFINE s == a \o b
           t == Append(a, QuotaNotice) \o b
           n == Len(a) + 1
           there(i) == IF i < n THEN i ELSE i + 1
<1>1. /\ n \in Nat \ {0} /\ Len(b) \in Nat
      /\ s \in Seq(Nat) /\ DOMAIN s = 1 .. Len(a) + Len(b)
      /\ \A i \in 1 .. Len(a) + Len(b) : s[i] = IF i <= Len(a) THEN a[i] ELSE b[i - Len(a)]
  BY ConcatProperties
<1>2. /\ Append(a, QuotaNotice) \in Seq(Nat) /\ Len(Append(a, QuotaNotice)) = n
      /\ \A i \in 1 .. Len(a) : Append(a, QuotaNotice)[i] = a[i]
      /\ Append(a, QuotaNotice)[n] = QuotaNotice
  BY AppendProperties DEF QuotaNotice
<1>3. /\ t \in Seq(Nat) /\ DOMAIN t = 1 .. n + Len(b)
      /\ \A i \in 1 .. n + Len(b) : t[i] = IF i <= n THEN Append(a, QuotaNotice)[i] ELSE b[i - n]
  BY <1>2, ConcatProperties
<1> HIDE DEF s, t
<1>0. Len(a) \in Nat /\ Len(b) \in Nat /\ n = Len(a) + 1
  OBVIOUS
<1> HIDE DEF n
<1>4. t[n] = QuotaNotice /\ \A i \in DOMAIN s : there(i) \in DOMAIN t /\ t[there(i)] = s[i]
  <2>1. t[n] = QuotaNotice
    BY <1>1, <1>2, <1>3
  <2>2. ASSUME NEW i \in DOMAIN s, i < n PROVE i \in DOMAIN t /\ t[i] = s[i]
    <3>1. i \in 1 .. Len(a) + Len(b)
      BY <1>1
    <3>2. i \in 1 .. Len(a) /\ i \in 1 .. n + Len(b) /\ i <= Len(a) /\ i <= n
      BY <1>0, <2>2, <3>1
    <3>3. s[i] = a[i] /\ t[i] = Append(a, QuotaNotice)[i]
      BY <1>1, <1>3, <3>1, <3>2
    <3> QED BY <1>2, <1>3, <3>2, <3>3
  <2>3. ASSUME NEW i \in DOMAIN s, ~(i < n) PROVE i + 1 \in DOMAIN t /\ t[i + 1] = s[i]
    <3>0. i \in 1 .. Len(a) + Len(b)
      BY <1>1
    <3>1. /\ i \in 1 .. Len(a) + Len(b) /\ ~(i <= Len(a))
          /\ i + 1 \in 1 .. n + Len(b) /\ ~(i + 1 <= n) /\ (i + 1) - n = i - Len(a)
      BY SMTT(30), <1>0, <2>3, <3>0
    <3>2. s[i] = b[i - Len(a)] /\ t[i + 1] = b[(i + 1) - n]
      BY <1>1, <1>3, <3>1
    <3> QED BY <1>3, <3>1, <3>2
  <2> QED BY <2>1, <2>2, <2>3
<1>5. \A j \in DOMAIN t : j = n \/ \E i \in DOMAIN s : j = there(i)
  <2> SUFFICES ASSUME NEW j \in DOMAIN t, j # n PROVE \E i \in DOMAIN s : j = there(i)
    OBVIOUS
  <2>0. j \in 1 .. n + Len(b)
    BY <1>3
  <2>1. CASE j < n
    <3>1. j \in DOMAIN s /\ j = there(j)
      BY <1>0, <1>1, <2>0, <2>1
    <3> QED BY <3>1
  <2>2. CASE j > n
    <3>1. j - 1 \in 1 .. Len(a) + Len(b) /\ ~(j - 1 < n) /\ j = (j - 1) + 1
      BY <1>0, <2>0, <2>2
    <3>2. j - 1 \in DOMAIN s
      BY <1>1, <3>1
    <3> QED BY <3>1, <3>2
  <2> QED BY <1>1, <2>0, <2>1, <2>2
<1>6. \A i, j \in DOMAIN s : there(i) < there(j) => i < j
  <2> SUFFICES ASSUME NEW i \in DOMAIN s, NEW j \in DOMAIN s, there(i) < there(j) PROVE i < j
    OBVIOUS
  <2>1. i \in 1 .. Len(a) + Len(b) /\ j \in 1 .. Len(a) + Len(b)
    BY <1>1
  <2> QED BY <1>0, <2>1
<1> HIDE DEF there
<1>7. /\ \A j \in Changes(t) : \E i \in Changes(s) : j = there(i) /\ t[j] = s[i]
      /\ \A i \in Changes(s) : there(i) \in Changes(t) /\ t[there(i)] = s[i]
  BY <1>4, <1>5 DEF Changes
<1>8. {t[j] : j \in Changes(t)} = {s[i] : i \in Changes(s)}
  BY <1>7
<1>9. \A i, j \in Changes(t) : i < j => t[i] < t[j]
  <2>1. \A i, j \in Changes(s) : i < j => s[i] < s[j]
    BY DEF LeadsOn, Changes, s
  <2>2. Changes(s) \subseteq DOMAIN s
    BY DEF Changes
  <2> QED BY <1>6, <1>7, <2>1, <2>2
<1>10. {s[i] : i \in Changes(s)} = (v + 1) .. l
  BY DEF LeadsOn, Changes, s
<1> QED BY <1>8, <1>9, <1>10 DEF LeadsOn, Changes, t

-----------------------------------------------------------------------------
(* Attached clients stay attached while one process broadcasts *)

\* What is awaited: first what stands in the channel, then what is still to be broadcast
LEMMA AwaitedType ==
  ASSUME TypeOK, NEW c \in Client
  PROVE  /\ chan[c] \in Seq(Nat) /\ outbox \in Seq(Nat) /\ Awaited(c) \in Seq(Nat)
         /\ log \in Seq(Delta) /\ Len(log) \in Nat /\ Latest = Len(log) + 1
<1>1. 2 .. Latest \subseteq Nat /\ {QuotaNotice} \cup 2 .. Latest \subseteq Nat
  BY LatestType DEF QuotaNotice
<1>2. outbox \in Seq(Nat)
  <2>1. Seq(2 .. Latest) \subseteq Seq(Nat)
    BY <1>1, SeqMonotonic
  <2> QED BY <2>1 DEF TypeOK
<1>3. chan[c] \in Seq(Nat)
  <2>1. Seq({QuotaNotice} \cup 2 .. Latest) \subseteq Seq(Nat)
    BY <1>1, SeqMonotonic
  <2> QED BY <2>1 DEF TypeOK
<1>4. Awaited(c) \in Seq(Nat)
  BY <1>2, <1>3, ConcatProperties DEF Awaited
<1> QED BY <1>2, <1>3, <1>4 DEF TypeOK, Latest

LEMMA TailOfConcat ==
  ASSUME NEW a \in Seq(Nat), NEW b \in Seq(Nat), a # << >>
  PROVE  a \o b # << >> /\ Head(a \o b) = Head(a) /\ Tail(a) \o b = Tail(a \o b)
<1>1. Len(a) \in Nat \ {0} /\ Len(b) \in Nat
  BY EmptySeq
<1>2. /\ Tail(a) \in Seq(Nat) /\ Len(Tail(a)) = Len(a) - 1
      /\ \A i \in 1 .. Len(Tail(a)) : Tail(a)[i] = a[i + 1]
      /\ Head(a) = a[1]
  BY HeadTailProperties
<1>3. /\ a \o b \in Seq(Nat) /\ Len(a \o b) = Len(a) + Len(b)
      /\ \A i \in 1 .. Len(a) + Len(b) : (a \o b)[i] = IF i <= Len(a) THEN a[i] ELSE b[i - Len(a)]
  BY ConcatProperties
<1>4. a \o b # << >>
  BY <1>1, <1>3, EmptySeq
<1>5. /\ Tail(a \o b) \in Seq(Nat) /\ Len(Tail(a \o b)) = Len(a \o b) - 1
      /\ \A i \in 1 .. Len(Tail(a \o b)) : Tail(a \o b)[i] = (a \o b)[i + 1]
      /\ Head(a \o b) = (a \o b)[1]
  BY <1>3, <1>4, HeadTailProperties
<1>6. /\ Tail(a) \o b \in Seq(Nat) /\ Len(Tail(a) \o b) = Len(Tail(a)) + Len(b)
      /\ \A i \in 1 .. Len(Tail(a)) + Len(b) :
           (Tail(a) \o b)[i] = IF i <= Len(Tail(a)) THEN Tail(a)[i] ELSE b[i - Len(Tail(a))]
  BY <1>2, ConcatProperties
<1> DEFINE n == Len(a) + Len(b) - 1
<1>7. n \in Nat /\ Len(Tail(a) \o b) = n /\ Len(Tail(a \o b)) = n
  BY <1>1, <1>2, <1>3, <1>5, <1>6
<1>8. ASSUME NEW i \in 1 .. n PROVE (Tail(a) \o b)[i] = Tail(a \o b)[i]
  <2>1. i + 1 \in 1 .. Len(a) + Len(b) /\ i \in 1 .. Len(Tail(a)) + Len(b) /\ i \in Nat \ {0}
    BY <1>1, <1>2
  <2>2. Tail(a \o b)[i] = (a \o b)[i + 1]
    BY <1>5, <1>7
  <2>3. CASE i <= Len(Tail(a))
    <3>1. i \in 1 .. Len(Tail(a)) /\ i + 1 <= Len(a)
      BY <1>1, <1>2, <2>1, <2>3
    <3> QED BY <1>2, <1>3, <1>6, <2>1, <2>2, <3>1
  <2>4. CASE ~(i <= Len(Tail(a)))
    <3>1. ~(i + 1 <= Len(a)) /\ (i + 1) - Len(a) = i - Len(Tail(a))
      BY <1>1, <1>2, <2>1, <2>4
    <3> QED BY <1>3, <1>6, <2>1, <2>2, <2>4, <3>1
  <2> QED BY <2>3, <2>4
<1> HIDE DEF n
<1>9. Tail(a) \o b = Tail(a \o b)
  BY <1>5, <1>6, <1>7, <1>8, SeqEqual
<1> QED BY SMTT(30), <1>1, <1>2, <1>3, <1>4, <1>5, <1>9

LEMMA AppendToConcat ==
  ASSUME NEW a \in Seq(Nat), NEW b \in Seq(Nat), NEW x \in Nat
  PROVE  a \o Append(b, x) = Append(a \o b, x)
<1>1. << x >> \in Seq(Nat) /\ a \o b \in Seq(Nat)
  BY ConcatProperties
<1>2. Append(b, x) = b \o << x >> /\ Append(a \o b, x) = (a \o b) \o << x >>
  BY <1>1, AppendIsConcat
<1> QED BY <1>1, <1>2, ConcatAssociative

\* The first broadcast moves from the outbox to the channel and leaves what is awaited as it is.
LEMMA FirstMovesOn ==
  ASSUME NEW a \in Seq(Nat), NEW b \in Seq(Nat), 1 \in 1 .. Len(b)
  PROVE  Append(a, b[1]) \o (SubSeq(b, 1, 0) \o SubSeq(b, 2, Len(b))) = a \o b
<1>1. b # << >> /\ Len(b) \in Nat \ {0}
  BY EmptySeq
<1>2. Tail(b) = SubSeq(b, 2, Len(b)) /\ Tail(b) \in Seq(Nat) /\ Head(b) = b[1] /\ b[1] \in Nat
  BY <1>1, HeadTailProperties, TailIsSubSeq
<1>3. SubSeq(b, 1, 0) = << >>
  BY SubSeqEmpty
<1>4. SubSeq(b, 1, 0) \o SubSeq(b, 2, Len(b)) = Tail(b)
  BY <1>2, <1>3, ConcatEmptySeq
<1>5. << b[1] >> \in Seq(Nat) /\ Append(a, b[1]) = a \o << b[1] >>
  BY <1>2, AppendIsConcat
<1>6. b = << b[1] >> \o Tail(b)
  BY <1>1, <1>2, <1>5, HeadTailProperties, SeqEqual
<1>7. (a \o << b[1] >>) \o Tail(b) = a \o (<< b[1] >> \o Tail(b))
  BY SMTT(30), <1>2, <1>5, ConcatAssociative
<1> QED BY <1>4, <1>5, <1>6, <1>7

\* What is on the way from c, or in the log and not seen by it, is what it has in flight.
OnlyInFlight(c) ==
  /\ \A p \in sent : p.author = c => inTransmission[c] /\ p.ops = inFlightOp[c].ops
  /\ \A t \in running :
       t.change.author = c => inTransmission[c] /\ t.change.ops = inFlightOp[c].ops
  /\ \A i \in version[c] .. Len(log) :
       log[i].author = c => inTransmission[c] /\ log[i].ops = inFlightOp[c].ops

Joined(c) == sub[c] = "joined" /\ InStep(c) /\ ~Loading(c)

LEMMA AttachedMeans ==
  ASSUME NEW c
  PROVE  /\ Attached(c) <=> Joined(c) /\ LeadsOn(Awaited(c), version[c], Latest) /\ OnlyInFlight(c)
         /\ Attached(c)' <=> /\ Joined(c)' /\ LeadsOn(Awaited(c)', version'[c], Latest')
                             /\ OnlyInFlight(c)'
<1>1. (\A ops \in Unapproved(c) : inTransmission[c] /\ ops = inFlightOp[c].ops) <=> OnlyInFlight(c)
  BY DEF Unapproved, OnlyInFlight
<1>2. (\A ops \in Unapproved(c) : inTransmission[c] /\ ops = inFlightOp[c].ops)' <=> OnlyInFlight(c)'
  BY DEF Unapproved, OnlyInFlight
<1>3. LeadsOn(Awaited(c), version[c], Latest)' <=> LeadsOn(Awaited(c)', version'[c], Latest')
  BY DEF LeadsOn
<1> QED BY <1>1, <1>2, <1>3 DEF Attached, Joined

\* A step that leaves the replica and the log alone: what c sent may move on or get lost, what
\* it awaits may only change by notices.
LEMMA AttachedFrame ==
  ASSUME NEW c, Attached(c),
         log' = log, sub'[c] = sub[c], InStep(c)', ~Loading(c)',
         version'[c] = version[c], inTransmission'[c] = inTransmission[c],
         inFlightOp'[c].ops = inFlightOp[c].ops,
         \A p \in sent' : p.author = c => p \in sent,
         \A t \in running' : t.change.author = c => t \in running \/ t.change \in sent,
         LeadsOn(Awaited(c)', version[c], Latest)
  PROVE  Attached(c)'
<1>1. Joined(c) /\ OnlyInFlight(c)
  BY AttachedMeans
<1>2. Joined(c)'
  BY <1>1 DEF Joined
<1>3. OnlyInFlight(c)'
  BY <1>1 DEF OnlyInFlight
<1>4. Latest' = Latest
  BY DEF Latest
<1> QED BY <1>2, <1>3, <1>4, AttachedMeans

\* Loading concerns clients that are not attached.
LEMMA LoadAttached ==
  ASSUME WayInv, NEW c \in Client, Attached(c), NEW d \in Client,
         \/ Load(d) \/ Join(d)
         \/ \E r \in replies : Loaded(d, r)
         \/ \E q \in requests : GetRecord(q[1], q[2])
  PROVE  Attached(c)'
<1>1. /\ sub[c] = "joined" /\ initialized[c] /\ c \notin outOfStep
      /\ LeadsOn(Awaited(c), version[c], Latest)
      /\ \A k \in Slot : << c, k >> \notin requests
      /\ \A r \in replies : r.client = c => r.load \notin Slot
  BY DEF Attached, InStep, Loading, SlotTaken
<1>2. /\ requests \subseteq Client \X Slot
      /\ replies \subseteq [client : Client, load : Slot, version : 1 .. Latest]
      /\ \A r \in replies : r.client # c
  BY <1>1 DEF WayInv, OwnInv, ReplicaInv, TypeInv, TypeOK
<1>3. UNCHANGED << log, outbox, chan, sent, running >>
  BY DEF Load, Join, Loaded, GetRecord, server
<1>4. Awaited(c)' = Awaited(c)
  BY <1>3 DEF Awaited
<1>5. /\ sub'[c] = sub[c] /\ initialized'[c] /\ c \notin outOfStep'
      /\ version'[c] = version[c] /\ inTransmission'[c] = inTransmission[c]
      /\ inFlightOp'[c] = inFlightOp[c]
  <2>1. CASE Load(d)
    BY <2>1, <1>1 DEF Load, replica
  <2>2. CASE Join(d)
    <3>1. d # c
      BY <2>2, <1>1 DEF Join
    <3> QED BY <2>2, <3>1, <1>1 DEF Join, replica
  <2>3. ASSUME NEW r \in replies, Loaded(d, r)
        PROVE  /\ sub'[c] = sub[c] /\ initialized'[c] /\ c \notin outOfStep'
               /\ version'[c] = version[c] /\ inTransmission'[c] = inTransmission[c]
               /\ inFlightOp'[c] = inFlightOp[c]
    <3>1. d # c
      BY <2>3, <1>2 DEF Loaded
    <3> QED BY <2>3, <3>1, <1>1
            DEF Loaded, WayInv, OwnInv, ReplicaInv, TypeInv, TypeOK
  <2>4. ASSUME NEW q \in requests, GetRecord(q[1], q[2])
        PROVE  /\ sub'[c] = sub[c] /\ initialized'[c] /\ c \notin outOfStep'
               /\ version'[c] = version[c] /\ inTransmission'[c] = inTransmission[c]
               /\ inFlightOp'[c] = inFlightOp[c]
    BY <2>4, <1>1 DEF GetRecord, replica
  <2> QED BY <2>1, <2>2, <2>3, <2>4
<1>6. ~Loading(c)'
  <2>1. CASE Load(d)
    <3>1. d # c
      BY <2>1, <1>1 DEF Load
    <3>2. requests' = requests \cup {<< d, 1 >>} /\ replies' = replies
      BY <2>1 DEF Load
    <3> QED BY <3>1, <3>2, <1>1, <1>2 DEF Loading, SlotTaken
  <2>2. CASE Join(d)
    BY <2>2, <1>1 DEF Join, loads, Loading, SlotTaken
  <2>3. ASSUME NEW r \in replies, Loaded(d, r) PROVE ~Loading(c)'
    BY <2>3, <1>1, <1>2 DEF Loaded, Loading, SlotTaken
  <2>4. ASSUME NEW q \in requests, GetRecord(q[1], q[2]) PROVE ~Loading(c)'
    <3> DEFINE answer == [client |-> q[1], load |-> q[2], version |-> Latest]
    <3>1. q[1] # c /\ answer.client = q[1]
      BY <1>1, <1>2
    <3>2. requests' = requests \ {<< q[1], q[2] >>} /\ replies' = replies \cup {answer}
      BY <2>4 DEF GetRecord
    <3> HIDE DEF answer
    <3>3. \A r \in replies' : r.client # c
      BY <3>1, <3>2, <1>2
    <3> QED BY <3>2, <3>3, <1>1 DEF Loading, SlotTaken
  <2> QED BY <2>1, <2>2, <2>3, <2>4
<1> QED BY <1>1, <1>3, <1>4, <1>5, <1>6, AttachedFrame DEF InStep

\* An edit is sent only when nothing else is on the way.
LEMMA LocalEditAttached ==
  ASSUME WayInv, NEW c \in Client, Attached(c), NEW d \in Client, NEW e \in Edit, LocalEdit(d, e)
  PROVE  Attached(c)'
<1>1. Joined(c) /\ LeadsOn(Awaited(c), version[c], Latest) /\ OnlyInFlight(c)
  BY AttachedMeans
<1>2. /\ UNCHANGED << log, running, outbox, chan, requests, replies, sub, initialized, version,
                      outOfStep >>
      /\ Joined(c)' /\ Awaited(c)' = Awaited(c) /\ Latest' = Latest
  BY <1>1 DEF LocalEdit, server, loads, Joined, InStep, Loading, SlotTaken, Awaited, Latest
<1>3. CASE BufferEdit(d, e)
  <2>1. UNCHANGED << sent, inTransmission, inFlightOp >>
    BY <1>3 DEF BufferEdit
  <2> QED BY <1>1, <1>2, <2>1, AttachedFrame DEF Joined
<1>4. CASE TransmitEdit(d, e)
  <2> DEFINE new == Message(d, version[d], [ops |-> {e}, ctx |-> value[d]])
  <2>1. sent' = sent \cup {new} /\ new.ops = {e} /\ new.author = d /\ ~inTransmission[d]
    BY <1>4 DEF TransmitEdit, Message
  <2>2. \A b \in Client :
          /\ inFlightOp'[b].ops = IF b = d THEN {e} ELSE inFlightOp[b].ops
          /\ inTransmission'[b] = IF b = d THEN TRUE ELSE inTransmission[b]
    BY <1>4 DEF TransmitEdit, WayInv, OwnInv, ReplicaInv, TypeInv, TypeOK
  <2> HIDE DEF new
  <2>3. OnlyInFlight(c)'
    BY <1>1, <1>2, <2>1, <2>2 DEF OnlyInFlight
  <2> QED BY <1>1, <1>2, <2>3, AttachedMeans
<1> QED BY <1>3, <1>4 DEF LocalEdit

\* What a task commits is the change after the last one that is awaited.
LEMMA CommitTaskAttached ==
  ASSUME WayInv, NEW c \in Client, Attached(c), NEW t \in running, CommitTask(t)
  PROVE  Attached(c)'
<1> DEFINE n == Len(log) + 1
<1>1. Joined(c) /\ LeadsOn(Awaited(c), version[c], Latest) /\ OnlyInFlight(c)
  BY AttachedMeans
<1>2. /\ UNCHANGED << sent, chan, requests, replies, sub, initialized, version, inTransmission,
                      inFlightOp, outOfStep >>
      /\ Joined(c)'
  BY <1>1 DEF CommitTask, loads, replica, Joined, InStep, Loading, SlotTaken
<1>3. /\ log'[n].ops = t.change.ops /\ log'[n].author = t.change.author
      /\ \A i \in 1 .. Len(log) : log'[i] = log[i]
      /\ running' = {} /\ Len(log) \in Nat /\ Len(log') = n
  BY CommitTaskLog DEF WayInv, OwnInv, ReplicaInv
<1>4. /\ version[c] \in 1 .. n /\ Latest = n /\ Latest' = n + 1
      /\ chan[c] \in Seq(Nat) /\ outbox \in Seq(Nat) /\ Awaited(c) \in Seq(Nat)
  <2>1. TypeOK /\ Bookkeeping
    BY DEF WayInv, OwnInv, ReplicaInv, TypeInv
  <2>2. Latest = n /\ Latest' = n + 1
    BY <1>3 DEF Latest
  <2>3. version[c] \in 1 .. n
    BY <1>1, <2>1, <2>2 DEF TypeOK, Bookkeeping, Joined, InStep
  <2>4. chan[c] \in Seq(Nat) /\ outbox \in Seq(Nat) /\ Awaited(c) \in Seq(Nat)
    BY <2>1, AwaitedType
  <2> QED BY <2>2, <2>3, <2>4
<1>5. \A i \in version[c] .. Len(log') : i = n \/ (i \in version[c] .. Len(log) /\ i \in 1 .. Len(log))
  BY <1>3, <1>4
<1>6. n + 1 \in Nat /\ n \in Nat /\ version[c] \in Nat /\ version[c] <= n
  BY <1>3, <1>4
<1> HIDE DEF n
<1>7. OnlyInFlight(c)'
  BY <1>1, <1>2, <1>3, <1>5 DEF OnlyInFlight
<1>8. Awaited(c)' = Append(Awaited(c), n + 1)
  <2>1. outbox' = Append(outbox, n + 1)
    BY <1>4 DEF CommitTask
  <2> QED BY <1>2, <1>4, <1>6, <2>1, AppendToConcat DEF Awaited
<1>9. LeadsOn(Awaited(c)', version'[c], Latest')
  BY <1>1, <1>2, <1>4, <1>6, <1>8, LeadsFurther
<1> QED BY <1>2, <1>7, <1>9, AttachedMeans

LEMMA StartTaskAttached ==
  ASSUME WayInv, NEW c \in Client, Attached(c),
         \/ \E p \in sent : StartTask(p)
         \/ \E t \in running : MergeFails(t)
  PROVE  Attached(c)'
<1>1. Joined(c) /\ LeadsOn(Awaited(c), version[c], Latest)
  BY AttachedMeans
<1>2. /\ UNCHANGED << log, outbox, chan, requests, replies, sub, initialized, version,
                      inTransmission, inFlightOp, outOfStep >>
      /\ sent' \subseteq sent
  BY DEF StartTask, MergeFails, loads, replica
<1>3. \A t \in running' : t \in running \/ t.change \in sent
  BY DEF StartTask, MergeFails
<1>4. Joined(c)' /\ Awaited(c)' = Awaited(c)
  BY <1>1, <1>2 DEF Joined, InStep, Loading, SlotTaken, Awaited
<1> QED BY <1>1, <1>2, <1>3, <1>4, AttachedFrame DEF Joined

\* One process broadcasts in commit order.
LEMMA BroadcastAttached ==
  ASSUME Shared = FALSE, WayInv, NEW c \in Client, Attached(c),
         NEW i \in 1 .. Len(outbox), Broadcast(i)
  PROVE  Attached(c)'
<1>1. Joined(c) /\ LeadsOn(Awaited(c), version[c], Latest)
  BY AttachedMeans
<1>2. /\ UNCHANGED << log, running, sent, requests, replies, sub, initialized, version,
                      inTransmission, inFlightOp, outOfStep >>
      /\ Joined(c)'
  BY <1>1 DEF Broadcast, loads, replica, Joined, InStep, Loading, SlotTaken
<1>3. i = 1
  BY DEF Broadcast, MayOvertake
<1>4. /\ chan'[c] = Append(chan[c], outbox[1])
      /\ outbox' = SubSeq(outbox, 1, 0) \o SubSeq(outbox, 2, Len(outbox))
      /\ 1 \in 1 .. Len(outbox)
  BY <1>1, <1>3 DEF Broadcast, Emit, Joined
<1>5. chan[c] \in Seq(Nat) /\ outbox \in Seq(Nat)
  BY AwaitedType DEF WayInv, OwnInv, ReplicaInv, TypeInv
<1>6. Awaited(c)' = Awaited(c)
  BY <1>4, <1>5, FirstMovesOn DEF Awaited
<1> QED BY <1>1, <1>2, <1>6, AttachedFrame DEF Joined

LEMMA FaultAttached ==
  ASSUME WayInv, NEW c \in Client, Attached(c), sub'[c] # "cut", FaultStep
  PROVE  Attached(c)'
<1>1. Joined(c) /\ LeadsOn(Awaited(c), version[c], Latest)
  BY AttachedMeans
<1>2. /\ chan[c] \in Seq(Nat) /\ outbox \in Seq(Nat) /\ version[c] \in Nat /\ Latest \in Nat
  <2>1. TypeOK
    BY DEF WayInv, OwnInv, ReplicaInv, TypeInv
  <2>2. version[c] \in 0 .. Latest
    BY <2>1 DEF TypeOK
  <2> QED BY <2>1, <2>2, AwaitedType, LatestType
<1>3. ~Crash
  BY <1>1 DEF Crash, Joined
<1>4. /\ UNCHANGED << log, running, outbox, requests, replies, initialized, version,
                      inTransmission, inFlightOp, outOfStep >>
      /\ sent' \subseteq sent
  BY <1>3 DEF FaultStep, QuotaViolation, Unauthorized, Disconnect, server, loads, replica
<1>5. sub'[c] = sub[c]
  BY <1>1, <1>3 DEF FaultStep, QuotaViolation, Unauthorized, Disconnect, Joined, WayInv, OwnInv,
                    ReplicaInv, TypeInv, TypeOK
<1>6. chan'[c] = chan[c] \/ chan'[c] = Append(chan[c], QuotaNotice)
  <2>1. ASSUME NEW p \in sent, QuotaViolation(p) PROVE chan'[c] = Append(chan[c], QuotaNotice)
    BY <2>1, <1>1 DEF QuotaViolation, Emit, Joined
  <2>2. ASSUME NEW p \in sent, Unauthorized(p) PROVE chan'[c] = chan[c]
    BY <2>2 DEF Unauthorized
  <2>3. ASSUME NEW d \in Client, Disconnect(d) PROVE chan'[c] = chan[c]
    <3>1. d # c
      BY <2>3 DEF Disconnect, WayInv, OwnInv, ReplicaInv, TypeInv, TypeOK
    <3> QED BY <2>3, <3>1 DEF Disconnect, WayInv, OwnInv, ReplicaInv, TypeInv, TypeOK
  <2> QED BY <1>3, <2>1, <2>2, <2>3 DEF FaultStep
<1>7. LeadsOn(Awaited(c)', version[c], Latest)
  BY <1>1, <1>2, <1>4, <1>6, LeadsPastNotice DEF Awaited
<1>8. Joined(c)'
  BY <1>1, <1>4, <1>5 DEF Joined, InStep, Loading, SlotTaken
<1> QED BY <1>4, <1>5, <1>7, <1>8, AttachedFrame DEF Joined

\* What is delivered to another client does not concern c.
LEMMA OthersAttached ==
  ASSUME WayInv, NEW c \in Client, Attached(c), NEW d \in Client, d # c, Receive(d)
  PROVE  Attached(c)'
<1>1. Joined(c) /\ LeadsOn(Awaited(c), version[c], Latest)
  BY AttachedMeans
<1>2. /\ UNCHANGED << log, running, outbox, replies, sub, initialized >>
      /\ version'[c] = version[c] /\ inTransmission'[c] = inTransmission[c]
      /\ inFlightOp'[c] = inFlightOp[c] /\ chan'[c] = chan[c]
      /\ (c \in outOfStep') = (c \in outOfStep)
  BY DEF Receive, DeliverNotice, DeliverApproval, DeliverForeign, DeliverMisfit, Consume, FellOut,
         server, loads, replica, WayInv, OwnInv, ReplicaInv, TypeInv, TypeOK
<1>3. \A p \in sent' : p.author = c => p \in sent
  <2>1. ASSUME NEW id \in Ids, DeliverApproval(d, id)
        PROVE  \A p \in sent' : p.author = c => p \in sent
    <3>1. sent' = sent \cup {[p EXCEPT !.inStep = d \notin outOfStep'] : p \in Resend(d, id)}
      BY <2>1 DEF DeliverApproval
    <3>2. \A p \in Resend(d, id) : [p EXCEPT !.inStep = d \notin outOfStep'].author = d
      BY DEF Resend, Message
    <3> QED BY <3>1, <3>2
  <2>2. sent' = sent \/ \E id \in Ids : DeliverApproval(d, id)
    BY DEF Receive, DeliverNotice, DeliverForeign, DeliverMisfit
  <2> QED BY <2>1, <2>2
<1>4. ~Loading(c)'
  <2>1. requests' = requests \/ \E k \in Slot : requests' = requests \cup {<< d, k >>}
    <3>1. ASSUME NEW id \in Ids, NEW k \in Slot, DeliverMisfit(d, id, k)
          PROVE  requests' = requests \cup {<< d, k >>}
      BY <3>1 DEF DeliverMisfit
    <3>2. requests' = requests \/ \E id \in Ids, k \in Slot : DeliverMisfit(d, id, k)
      BY DEF Receive, DeliverNotice, DeliverApproval, DeliverForeign, loads
    <3> QED BY <3>1, <3>2
  <2> QED BY <1>1, <1>2, <2>1 DEF Joined, Loading, SlotTaken
<1> QED BY <1>1, <1>2, <1>3, <1>4, AttachedFrame DEF Joined, InStep, Awaited

\* What arrives at an attached client is the change after its version.
LEMMA NextArrives ==
  ASSUME WayInv, NEW c \in Client, Attached(c), NEW id, Arrives(c, id), Consume(c), outbox' = outbox
  PROVE  /\ Expected(c, id) /\ id - 1 = version[c]
         /\ version[c] \in Nat \ {0} /\ id \in Nat /\ version[c] \in 1 .. Len(log)
         /\ LeadsOn(Awaited(c)', id, Latest)
<1>1. Joined(c) /\ LeadsOn(Awaited(c), version[c], Latest)
  BY AttachedMeans
<1>2. TypeInv /\ TypeOK
  BY DEF WayInv, OwnInv, ReplicaInv, TypeInv
<1>3. /\ chan[c] \in Seq(Nat) /\ outbox \in Seq(Nat) /\ Awaited(c) \in Seq(Nat)
      /\ Len(log) \in Nat /\ Latest = Len(log) + 1
  BY <1>2, AwaitedType
<1>4. version[c] \in 1 .. Latest
  BY <1>1, <1>2 DEF TypeInv, TypeOK, Bookkeeping, Joined, InStep
<1>5. /\ Awaited(c) # << >> /\ Head(Awaited(c)) = id /\ id # QuotaNotice
      /\ Awaited(c)' = Tail(Awaited(c))
  <2>1. chan[c] # << >> /\ Head(chan[c]) = id /\ id # QuotaNotice /\ chan'[c] = Tail(chan[c])
    BY <1>2 DEF Arrives, Consume, TypeOK
  <2> QED BY <1>3, <2>1, TailOfConcat DEF Awaited
<1>6. version[c] \in Nat /\ Latest \in Nat
  BY <1>3, <1>4
<1>7. id = version[c] + 1 /\ LeadsOn(Tail(Awaited(c)), version[c] + 1, Latest)
  BY <1>1, <1>3, <1>5, <1>6, LeadsTail
<1>8. id \in 2 .. Latest
  BY <1>2, ArrivesType
<1>9. c \notin outOfStep
  BY <1>1 DEF Joined, InStep
<1>10. Expected(c, id)
  BY <1>7, <1>9 DEF Expected
<1>11. LeadsOn(Awaited(c)', id, Latest)
  BY <1>5, <1>7
<1>12. /\ id - 1 = version[c] /\ version[c] \in Nat \ {0} /\ id \in Nat
       /\ version[c] \in 1 .. Len(log)
  <2>1. id = version[c] + 1 /\ id <= Len(log) + 1 /\ version[c] >= 1
    BY <1>3, <1>4, <1>7, <1>8
  <2> QED BY <1>3, <1>6, <2>1
<1> QED BY <1>10, <1>11, <1>12

LEMMA NoticeAttached ==
  ASSUME WayInv, NEW c \in Client, Attached(c), DeliverNotice(c)
  PROVE  Attached(c)'
<1>1. Joined(c) /\ LeadsOn(Awaited(c), version[c], Latest)
  BY AttachedMeans
<1>2. TypeOK
  BY DEF WayInv, OwnInv, ReplicaInv, TypeInv
<1>3. /\ chan[c] \in Seq(Nat) /\ outbox \in Seq(Nat) /\ Awaited(c) \in Seq(Nat)
      /\ Latest \in Nat
  BY <1>2, AwaitedType, LatestType
<1>4. version[c] \in Nat
  <2>1. version[c] \in 0 .. Latest
    BY <1>2 DEF TypeOK
  <2> QED BY <1>3, <2>1
<1>5. /\ UNCHANGED << log, running, outbox, sent, requests, replies, sub, initialized, version,
                      inTransmission, inFlightOp, outOfStep >>
      /\ Joined(c)'
  BY <1>1 DEF DeliverNotice, server, loads, replica, Joined, InStep, Loading, SlotTaken
<1>6. chan[c] # << >> /\ Head(chan[c]) = QuotaNotice /\ chan'[c] = Tail(chan[c])
  BY <1>2 DEF DeliverNotice, Consume, TypeOK
<1>7. Awaited(c) # << >> /\ Head(Awaited(c)) = QuotaNotice /\ Awaited(c)' = Tail(Awaited(c))
  BY <1>3, <1>5, <1>6, TailOfConcat DEF Awaited
<1>8. LeadsOn(Awaited(c)', version[c], Latest)
  BY <1>1, <1>3, <1>4, <1>7, LeadsTail
<1> QED BY <1>5, <1>8, AttachedFrame DEF Joined

\* A foreign change moves the version past a delta of another author.
LEMMA ForeignAttached ==
  ASSUME WayInv, NEW c \in Client, Attached(c), NEW id \in Ids, DeliverForeign(c, id)
  PROVE  Attached(c)'
<1>1. Joined(c) /\ OnlyInFlight(c)
  BY AttachedMeans
<1>2. /\ UNCHANGED << log, running, outbox, sent, requests, replies, sub, initialized,
                      inTransmission >>
      /\ Arrives(c, id) /\ Consume(c)
      /\ outOfStep' = IF Expected(c, id) THEN outOfStep ELSE outOfStep \cup {c}
  BY DEF DeliverForeign, FellOut, server, loads
<1>3. /\ Expected(c, id) /\ id - 1 = version[c]
      /\ version[c] \in Nat \ {0} /\ id \in Nat /\ version[c] \in 1 .. Len(log)
      /\ LeadsOn(Awaited(c)', id, Latest)
  BY <1>2, NextArrives
<1>4. Joined(c)' /\ Latest' = Latest
  BY <1>1, <1>2, <1>3 DEF Joined, InStep, Loading, SlotTaken, Latest
<1>5. version'[c] = id /\ inFlightOp'[c].ops = inFlightOp[c].ops
  BY DeliverForeignOwn DEF DeliverForeign, WayInv, OwnInv, ReplicaInv, TypeInv, TypeOK
<1>6. id .. Len(log) \subseteq version[c] .. Len(log)
  BY <1>3
<1>7. OnlyInFlight(c)'
  BY <1>1, <1>2, <1>5, <1>6 DEF OnlyInFlight
<1> QED BY <1>3, <1>4, <1>5, <1>7, AttachedMeans

\* A replica in step never meets a change that does not fit.
LEMMA MisfitAttached ==
  ASSUME WayInv, NEW c \in Client, Attached(c), NEW id \in Ids, NEW k \in Slot,
         DeliverMisfit(c, id, k)
  PROVE  FALSE
<1>1. Joined(c)
  BY AttachedMeans
<1>2. /\ Arrives(c, id) /\ Consume(c) /\ outbox' = outbox
      /\ AfterBuffer(c, Committed(id)).ctx # value[c] \/ Scrambled \in value[c]
  BY DEF DeliverMisfit, server
<1>3. id - 1 = version[c] /\ version[c] \in 1 .. Len(log)
  BY <1>2, NextArrives
<1>4. TypeOK /\ Chains(c) /\ TypeInv
  BY <1>1 DEF WayInv, OwnInv, ReplicaInv, TypeInv, Joined
<1>5. /\ Committed(id).ctx = Doc(version[c])
      /\ Committed(id) = [ops |-> Committed(id).ops, ctx |-> Committed(id).ctx]
      /\ inFlightOp[c] \in Changeset /\ buffer[c] \in Changeset
  BY <1>3, <1>4 DEF Committed, TypeOK
<1>6. Apply(value[c], AfterBuffer(c, Committed(id))) = value[c] \cup Committed(id).ops
  BY <1>4, <1>5, Diamond
<1>7. value[c] \subseteq Edit /\ Committed(id).ops \subseteq Edit
  <2>1. id \in 2 .. Latest /\ version[c] \in Int /\ version[c] <= Latest
    BY <1>2, <1>3, <1>4, ArrivesType, LatestType
  <2>2. Doc(version[c]) \subseteq Edit /\ Committed(id) \in Changeset
    BY <1>4, <2>1, DocType, CommittedType
  <2> QED BY <1>4, <1>5, <2>2 DEF Chains, Changeset
<1>8. Scrambled \notin value[c] \cup Committed(id).ops
  BY <1>7, SyncAssumption
<1>9. AfterBuffer(c, Committed(id)).ctx = value[c]
  BY <1>6, <1>8 DEF Apply
<1> QED BY <1>2, <1>7, <1>9, SyncAssumption

\* The approval is that of the change in flight, which therefore is nowhere else, and was
\* rebased to where its author meant it; what was buffered is the new change in flight.
LEMMA ApprovalAttached ==
  ASSUME WayInv, NEW c \in Client, Attached(c), NEW id \in Ids, DeliverApproval(c, id)
  PROVE  Attached(c)'
<1> DEFINE v == version[c]
           new == [Message(c, id, buffer[c]) EXCEPT !.inStep = c \notin outOfStep']
<1>1. Joined(c) /\ OnlyInFlight(c)
  BY AttachedMeans
<1>2. /\ UNCHANGED << log, running, outbox, requests, replies, sub, initialized >>
      /\ Arrives(c, id) /\ Consume(c) /\ AuthorOf(id) = c
      /\ sent' = sent \cup (IF IsChange(buffer[c]) THEN {new} ELSE {})
  BY DEF DeliverApproval, Resend, server, loads
<1>3. new.ops = buffer[c].ops /\ new.author = c
  BY DEF Message
<1> HIDE DEF new
<1>4. /\ version'[c] = id /\ inFlightOp'[c] = buffer[c] /\ inTransmission'[c] = IsChange(buffer[c])
  BY DEF DeliverApproval, WayInv, OwnInv, ReplicaInv, TypeInv, TypeOK
<1>5. /\ Expected(c, id) /\ id - 1 = v
      /\ v \in Nat \ {0} /\ id \in Nat /\ v \in 1 .. Len(log)
      /\ LeadsOn(Awaited(c)', id, Latest)
  BY <1>2, NextArrives
<1>6. /\ v \in v .. Len(log) /\ log[v].author = c
      /\ \A i \in id .. Len(log) : i \in v .. Len(log) /\ i \in 1 .. Len(log) /\ i # v
  BY <1>2, <1>5 DEF AuthorOf
<1> HIDE DEF v
<1>7. log[v].ops = inFlightOp[c].ops
  BY <1>1, <1>6 DEF OnlyInFlight, v
<1>8. log[id - 1].exact
  <2>1. log[v].inStep
    BY <1>1, <1>5, <1>6, <1>7 DEF WayInv, SentInStep, Joined
  <2> QED BY <1>5, <2>1 DEF WayInv, OwnInv, ReplicaInv, ChangesLandWhereMeant
<1>9. outOfStep' = outOfStep
  BY <1>5, <1>7, <1>8 DEF DeliverApproval, FellOut
<1>10. Joined(c)' /\ Latest' = Latest
  BY <1>1, <1>2, <1>9 DEF Joined, InStep, Loading, SlotTaken, Latest
<1>11. /\ \A p \in sent : p.author # c
       /\ \A t \in running : t.change.author # c
       /\ \A i \in id .. Len(log) : log[i].author # c
  <2>1. /\ \A p \in sent : p.ops # log[v].ops
        /\ \A t \in running : t.change.ops # log[v].ops
        /\ \A i \in id .. Len(log) : log[i].ops # log[v].ops
    BY <1>5, <1>6 DEF WayInv, NoneEmpty, OwnInv, OnePlace, Apart
  <2> QED BY <1>1, <1>6, <1>7, <2>1 DEF OnlyInFlight, v
<1>12. OnlyInFlight(c)'
  BY <1>2, <1>3, <1>4, <1>11 DEF OnlyInFlight
<1> QED BY <1>4, <1>5, <1>10, <1>12, AttachedMeans

\* As long as one process broadcasts in commit order, an attached client stays attached until
\* its socket breaks: each step of AttachedStaysAttached, from the invariant that what a replica
\* in step has in flight was sent in step.
LEMMA AttachedStep ==
  ASSUME Shared = FALSE, WayInv, [Next]_vars, NEW c \in Client, Attached(c), sub'[c] # "cut"
  PROVE  Attached(c)'
<1>1. CASE ServerStep
  BY <1>1, LoadAttached, StartTaskAttached, CommitTaskAttached, BroadcastAttached DEF ServerStep
<1>2. CASE FaultStep
  BY <1>2, FaultAttached
<1>3. ASSUME NEW d \in Client, ClientStep(d) PROVE Attached(c)'
  <2>1. CASE Receive(d)
    <3>1. CASE d # c
      BY <2>1, <3>1, OthersAttached
    <3>2. CASE d = c
      BY <2>1, <3>2, NoticeAttached, ApprovalAttached, ForeignAttached, MisfitAttached DEF Receive
    <3> QED BY <3>1, <3>2
  <2> QED BY <1>3, <2>1, LoadAttached DEF ClientStep
<1>4. ASSUME NEW d \in Client, UserStep(d) PROVE Attached(c)'
  BY <1>4, LoadAttached, LocalEditAttached DEF UserStep
<1>5. CASE UNCHANGED vars
  <2>1. Joined(c) /\ LeadsOn(Awaited(c), version[c], Latest) /\ OnlyInFlight(c)
    BY AttachedMeans
  <2>2. Joined(c)' /\ LeadsOn(Awaited(c)', version'[c], Latest') /\ OnlyInFlight(c)'
    BY <1>5, <2>1 DEF vars, Joined, InStep, Loading, SlotTaken, Awaited, Latest, OnlyInFlight
  <2> QED BY <2>2, AttachedMeans
<1> QED BY <1>1, <1>2, <1>3, <1>4, <1>5 DEF Next

\* Several processes behind Redis may broadcast out of commit order (the case Shared leaves
\* open, in which TLC finds a counterexample); one process does not.
THEOREM AttachedStay ==
  ASSUME Shared = FALSE
  PROVE  Spec => AttachedStaysAttached
<1>1. WayInv /\ [Next]_vars => [\A c \in Client : Attached(c) /\ sub'[c] # "cut" => Attached(c)']_vars
  BY AttachedStep
<1> QED BY <1>1, WayInit, WayStep, PTL DEF Spec, AttachedStaysAttached
=============================================================================
