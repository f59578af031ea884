-------------------------- MODULE KeyValueSync_proofs --------------------------
(***************************************************************************)
(* No patch of a key-value record is lost, for any number of clients,      *)
(* fields, values and patches, in one server process or several.           *)
(*                                                                         *)
(* That the last write of every field is in the row (NoLostUpdate) is not  *)
(* inductive by itself: a task writes back what it has read. The invariant *)
(* adds that what a running task has read is the row, and that there is    *)
(* one such task at most, which is what the record's queue is for.         *)
(*                                                                         *)
(* The types of the clients' side (ClientType) rest on that invariant: the *)
(* log only grows, so that what a broadcast names stays there.             *)
(*                                                                         *)
(* What a client shows is what the patches it has seen make of the field,  *)
(* or, from the acknowledgement of its own patch to that patch's broadcast,*)
(* its own value (AgreeInv).                                               *)
(***************************************************************************)
EXTENDS KeyValueSync, TLAPS

\* The parts of TypeOK that the argument needs.
ServerType ==
  /\ doc \in Document
  /\ log \in Seq(Message)
  /\ running \subseteq [message : Message, current : Document]
  /\ sent \subseteq Message
  /\ accepted \subseteq Message
  /\ patches \in Nat

\* What a running task has read is what the row holds.
TaskReadsTheRow == \A t \in running : t.current = doc

OneTask == \A s, t \in running : s = t

Inv == ServerType /\ OneTask /\ TaskReadsTheRow /\ NoLostUpdate

\* A patch without some of its fields is a patch.
LEMMA PartOfPatch ==
  ASSUME NEW p \in Patch, NEW S, S \subseteq DOMAIN p
  PROVE  Restrict(p, S) \in Patch
<1>1. PICK fields \in SUBSET Field : p \in [fields -> Val \cup {Absent}]
  BY DEF Patch
<1>2. Restrict(p, S) \in [S -> Val \cup {Absent}]
  BY <1>1 DEF Restrict
<1>3. S \in SUBSET Field
  BY <1>1
<1> QED BY <1>2, <1>3 DEF Patch

\* A document after a patch is a document.
LEMMA PatchedDocument ==
  ASSUME NEW d \in Document, NEW p \in Patch
  PROVE  Apply(d, p) \in Document
<1>1. PICK fields \in SUBSET Field : p \in [fields -> Val \cup {Absent}]
  BY DEF Patch
<1> QED BY <1>1 DEF Apply, Document

\* The fields in which a new value differs from the old one make a patch.
LEMMA DifferenceIsPatch ==
  ASSUME NEW d, NEW new \in Document
  PROVE  Difference(d, new) \in Patch
<1>1. Difference(d, new) \in [{f \in Field : new[f] # d[f]} -> Val \cup {Absent}]
  BY DEF Difference, Restrict, Document
<1> QED BY <1>1 DEF Patch

LEMMA InitInv == Init => Inv
<1> SUFFICES ASSUME Init PROVE Inv
  OBVIOUS
<1>1. ServerType
  BY DEF Init, ServerType, Document
<1>2. OneTask /\ TaskReadsTheRow
  BY DEF Init, OneTask, TaskReadsTheRow
<1>3. NoLostUpdate
  BY DEF Init, NoLostUpdate, LastWrite
<1> QED BY <1>1, <1>2, <1>3 DEF Inv

\* A client's patch is a message of its own; the server's side stays as it is.
LEMMA ChangeKeepsInv ==
  ASSUME Inv, NEW c \in Client, NEW p \in Patch, Change(c, p)
  PROVE  Inv'
<1> DEFINE m == [author |-> c, nr |-> patches + 1, whole |-> p, patch |-> Changed(value[c], p)]
<1>1. Changed(value[c], p) \in Patch
  BY PartOfPatch DEF Changed
<1>2. patches + 1 \in Nat
  BY DEF Inv, ServerType
<1>3. m \in Message
  BY <1>1, <1>2 DEF Message
<1>4. sent' = sent \cup {m} /\ patches' = patches + 1 /\ UNCHANGED << server, accepted >>
  BY DEF Change
<1>5. ServerType'
  BY <1>2, <1>3, <1>4 DEF Inv, ServerType, server
<1>6. (OneTask /\ TaskReadsTheRow)'
  BY <1>4 DEF Inv, OneTask, TaskReadsTheRow, server
<1>7. NoLostUpdate'
  BY <1>4 DEF Inv, NoLostUpdate, LastWrite, server
<1> QED BY <1>5, <1>6, <1>7 DEF Inv

\* A step that leaves row and history alone and adds no message and no task keeps Inv.
LEMMA ElsewhereKeepsInv ==
  ASSUME Inv, UNCHANGED << doc, log, patches >>,
         running' \subseteq running, sent' \subseteq sent,
         accepted' \subseteq accepted \cup sent
  PROVE  Inv'
<1>1. ServerType'
  BY DEF Inv, ServerType
<1>2. (OneTask /\ TaskReadsTheRow)'
  BY DEF Inv, OneTask, TaskReadsTheRow
<1>3. NoLostUpdate'
  BY DEF Inv, NoLostUpdate, LastWrite
<1> QED BY <1>1, <1>2, <1>3 DEF Inv

\* The queue lets a task start when no other one runs: it reads the row.
LEMMA StartTaskKeepsInv ==
  ASSUME Inv, NEW m \in accepted, StartTask(m)
  PROVE  Inv'
<1>1. running' = {[message |-> m, current |-> doc]}
  BY DEF StartTask, QueueFree
<1>2. /\ UNCHANGED << doc, log, sent, patches >>
      /\ accepted' \subseteq accepted
  BY DEF StartTask, history
<1>3. ServerType'
  BY <1>1, <1>2 DEF Inv, ServerType
<1>4. (OneTask /\ TaskReadsTheRow)'
  BY <1>1, <1>2 DEF OneTask, TaskReadsTheRow
<1>5. NoLostUpdate'
  BY <1>2 DEF Inv, NoLostUpdate, LastWrite
<1> QED BY <1>3, <1>4, <1>5 DEF Inv

\* What the task writes back is the row with the task's patch on top.
LEMMA CommitTaskKeepsInv ==
  ASSUME Inv, NEW t \in running, CommitTask(t)
  PROVE  Inv'
<1> DEFINE p == t.message.patch
           n == Len(log) + 1
<1>1. /\ t.message \in Message /\ p \in Patch
      /\ t.current = doc /\ doc \in Document /\ log \in Seq(Message)
  BY DEF Inv, ServerType, TaskReadsTheRow, Message
<1>2. /\ running' = {}
      /\ doc' = Apply(doc, p)
      /\ log' = Append(log, t.message)
      /\ UNCHANGED << sent, accepted, patches >>
  BY <1>1 DEF CommitTask, Inv, OneTask, history
<1>3. ServerType'
  <2>1. doc' \in Document
    BY <1>1, <1>2, PatchedDocument
  <2>2. log' \in Seq(Message)
    BY <1>1, <1>2
  <2> QED BY <1>2, <2>1, <2>2 DEF Inv, ServerType
<1>4. (OneTask /\ TaskReadsTheRow)'
  BY <1>2 DEF OneTask, TaskReadsTheRow
<1>5. /\ DOMAIN log = 1 .. Len(log) /\ DOMAIN log' = 1 .. n /\ Len(log) \in Nat
      /\ log'[n] = t.message
      /\ \A i \in DOMAIN log : log'[i] = log[i]
  BY <1>1, <1>2
<1>6. ASSUME NEW f \in Field PROVE LastWrite(f, doc[f])'
  <2>1. CASE f \in DOMAIN p
    <3>1. doc'[f] = p[f]
      BY <1>2, <2>1 DEF Apply
    <3>2. n \in DOMAIN log' /\ f \in DOMAIN log'[n].patch /\ doc'[f] = log'[n].patch[f]
      BY <1>5, <2>1, <3>1
    <3>3. \A j \in DOMAIN log' : ~(j > n)
      BY <1>5
    <3> QED BY <3>2, <3>3 DEF LastWrite
  <2>2. CASE f \notin DOMAIN p
    <3>1. doc'[f] = doc[f]
      BY <1>2, <2>2 DEF Apply
    <3>2. LastWrite(f, doc[f])
      BY DEF Inv, NoLostUpdate
    <3>3. CASE doc[f] = Absent /\ \A i \in DOMAIN log : f \notin DOMAIN log[i].patch
      <4>1. \A i \in DOMAIN log' : i \in DOMAIN log \/ i = n
        BY <1>5
      <4>2. \A i \in DOMAIN log' : f \notin DOMAIN log'[i].patch
        BY <1>5, <2>2, <3>3, <4>1
      <4> QED BY <3>1, <3>3, <4>2 DEF LastWrite
    <3>4. CASE \E i \in DOMAIN log :
                 /\ f \in DOMAIN log[i].patch /\ doc[f] = log[i].patch[f]
                 /\ \A j \in DOMAIN log : j > i => f \notin DOMAIN log[j].patch
      <4>1. PICK i \in DOMAIN log :
                 /\ f \in DOMAIN log[i].patch /\ doc[f] = log[i].patch[f]
                 /\ \A j \in DOMAIN log : j > i => f \notin DOMAIN log[j].patch
        BY <3>4
      <4>2. i \in DOMAIN log' /\ f \in DOMAIN log'[i].patch /\ doc'[f] = log'[i].patch[f]
        BY <1>5, <3>1, <4>1
      <4>3. \A j \in DOMAIN log' : j \in DOMAIN log \/ j = n
        BY <1>5
      <4>4. \A j \in DOMAIN log' : j > i => f \notin DOMAIN log'[j].patch
        BY <1>5, <2>2, <4>1, <4>3
      <4> QED BY <4>2, <4>4 DEF LastWrite
    <3> QED BY <3>2, <3>3, <3>4 DEF LastWrite
  <2> QED BY <2>1, <2>2
<1>7. NoLostUpdate'
  BY <1>6 DEF NoLostUpdate
<1> QED BY <1>3, <1>4, <1>7 DEF Inv

LEMMA NextInv == Inv /\ [Next]_vars => Inv'
<1> SUFFICES ASSUME Inv, [Next]_vars PROVE Inv'
  OBVIOUS
<1>1. CASE ServerStep
  <2>1. ASSUME NEW m \in sent, Accept(m) PROVE Inv'
    BY <2>1, ElsewhereKeepsInv DEF Accept, server, history
  <2>2. ASSUME NEW m \in sent, Unauthorized(m) PROVE Inv'
    BY <2>2, ElsewhereKeepsInv DEF Unauthorized, server
  <2>3. ASSUME NEW m \in accepted, QuotaViolation(m) PROVE Inv'
    BY <2>3, ElsewhereKeepsInv DEF QuotaViolation, server
  <2>4. ASSUME NEW m \in accepted, StartTask(m) PROVE Inv'
    BY <2>4, StartTaskKeepsInv
  <2>5. ASSUME NEW t \in running, CommitTask(t) PROVE Inv'
    BY <2>5, CommitTaskKeepsInv
  <2>6. ASSUME NEW t \in running, TaskFails(t) PROVE Inv'
    BY <2>6, ElsewhereKeepsInv DEF TaskFails
  <2>7. ASSUME NEW i \in DOMAIN outbox, Broadcast(i) PROVE Inv'
    BY <2>7, ElsewhereKeepsInv DEF Broadcast, history
  <2> QED BY <1>1, <2>1, <2>2, <2>3, <2>4, <2>5, <2>6, <2>7 DEF ServerStep
<1>2. ASSUME NEW c \in Client, ClientStep(c) PROVE Inv'
  <2>1. UNCHANGED << doc, log, running, patches, sent, accepted >>
    BY <1>2 DEF ClientStep, Load, Loaded, Join, DeliverAck, DeliverForeign, DeliverOwn,
                server, history
  <2> QED BY <2>1, ElsewhereKeepsInv
<1>3. ASSUME NEW c \in Client, UserStep(c) PROVE Inv'
  <2>1. ASSUME NEW p \in Patch, Change(c, p) PROVE Inv'
    BY <2>1, ChangeKeepsInv
  <2>2. ASSUME NEW new \in Document, SetValue(c, new) PROVE Inv'
    <3>1. Difference(value[c], new) \in Patch
      BY DifferenceIsPatch
    <3> QED BY <2>2, <3>1, ChangeKeepsInv DEF SetValue
  <2> QED BY <1>3, <2>1, <2>2 DEF UserStep
<1>4. CASE UNCHANGED vars
  BY <1>4, ElsewhereKeepsInv DEF vars
<1> QED BY <1>1, <1>2, <1>3, <1>4 DEF Next

\* Concurrent patches never lose each other: every field of a record's row holds what the
\* last patch of that field made of it, although each task writes back a whole document.
THEOREM NoUpdateLost == Spec => []NoLostUpdate
<1>1. Inv => NoLostUpdate
  BY DEF Inv
<1> QED BY InitInv, NextInv, <1>1, PTL DEF Spec

-----------------------------------------------------------------------------
\* The parts of TypeOK that the argument for NoLostUpdate does without
HistoryType ==
  /\ outOfStep \subseteq Client /\ unsure \subseteq Client \X Field
  /\ patches \in 0 .. MaxPatches /\ faults \in 0 .. MaxFaults
QueuesType ==
  /\ outbox \in Seq(Nat) /\ \A i \in DOMAIN outbox : outbox[i] \in DOMAIN log
  /\ chan \in [Client -> Seq(Item)]
  /\ \A c \in Client : \A i \in DOMAIN chan[c] :
       ~chan[c][i].ack => chan[c][i].nr \in DOMAIN log
ViewsType ==
  /\ answer \in [Client -> Document] /\ value \in [Client -> Document]
  /\ sub \in [Client -> {"none", "answered", "joining", "joined"}]
  /\ seen \in [Client -> 0 .. Len(log)]
ClientType == HistoryType /\ QueuesType /\ ViewsType

LEMMA ClientTypeInit == Init => ClientType
<1> SUFFICES ASSUME Init PROVE ClientType
  OBVIOUS
<1>1. HistoryType
  BY KeyValueAssumption DEF Init, HistoryType
<1>2. QueuesType
  BY DEF Init, QueuesType
<1>3. ViewsType
  BY DEF Init, ViewsType, Document
<1> QED BY <1>1, <1>2, <1>3 DEF ClientType

\* Whoever may race is a client, and the fields that may are fields.
LEMMA RacesType ==
  ASSUME Inv, NEW c \in Client, NEW p \in Patch, NEW m, m.author = c, m.whole = p
  PROVE  Races(m) \subseteq Client \X Field
<1>1. \A x \in Patch : DOMAIN x \subseteq Field
  BY DEF Patch
<1>2. \A o \in Pending : o.author \in Client /\ DOMAIN o.whole \subseteq Field
  BY <1>1 DEF Inv, ServerType, Pending, Message
<1>3. DOMAIN m.whole \subseteq Field
  BY <1>1
<1> QED BY <1>2, <1>3 DEF Races

\* The channel of one client gets another item; what it names has been applied.
LEMMA ItemArrives ==
  ASSUME QueuesType, NEW c \in Client, NEW item \in Item, ~item.ack => item.nr \in DOMAIN log
  PROVE  /\ Append(chan[c], item) \in Seq(Item)
         /\ \A i \in DOMAIN Append(chan[c], item) :
              ~Append(chan[c], item)[i].ack => Append(chan[c], item)[i].nr \in DOMAIN log
<1>1. chan[c] \in Seq(Item)
  BY DEF QueuesType
<1>2. /\ Append(chan[c], item) \in Seq(Item)
      /\ \A i \in DOMAIN Append(chan[c], item) :
           \/ i \in DOMAIN chan[c] /\ Append(chan[c], item)[i] = chan[c][i]
           \/ Append(chan[c], item)[i] = item
  BY <1>1
<1> QED BY <1>2 DEF QueuesType

\* The first item of a channel, and what is left
LEMMA ItemLeaves ==
  ASSUME QueuesType, NEW c \in Client, Consume(c), UNCHANGED << log, outbox >>
  PROVE  /\ Arrived(c) \in Item
         /\ ~Arrived(c).ack => Arrived(c).nr \in DOMAIN log
         /\ QueuesType'
<1>1. chan[c] \in Seq(Item) /\ chan[c] # << >>
  BY DEF QueuesType, Consume
<1>2. /\ Head(chan[c]) = chan[c][1] /\ 1 \in DOMAIN chan[c] /\ Head(chan[c]) \in Item
      /\ Tail(chan[c]) \in Seq(Item)
      /\ \A i \in DOMAIN Tail(chan[c]) : i + 1 \in DOMAIN chan[c] /\ Tail(chan[c])[i] = chan[c][i + 1]
  BY <1>1
<1>3. Arrived(c) \in Item /\ (~Arrived(c).ack => Arrived(c).nr \in DOMAIN log)
  BY <1>2 DEF Arrived, QueuesType
<1>4. chan' = [chan EXCEPT ![c] = Tail(chan[c])]
  BY DEF Consume
<1>5. QueuesType'
  BY <1>2, <1>4 DEF QueuesType
<1> QED BY <1>3, <1>5

\* A patch is made: nothing but what is sent and the history changes.
LEMMA ChangeKeepsClientType ==
  ASSUME Inv, ClientType, NEW c \in Client, NEW p \in Patch, Change(c, p)
  PROVE  ClientType'
<1> DEFINE m == [author |-> c, nr |-> patches + 1, whole |-> p, patch |-> Changed(value[c], p)]
<1>1. Races(m) \subseteq Client \X Field
  BY RacesType
<1>2. /\ unsure' = unsure \cup Races(m) /\ patches' = patches + 1 /\ patches < MaxPatches
      /\ UNCHANGED << log, outbox, chan, answer, sub, value, seen, outOfStep, faults >>
  BY DEF Change, server
<1>3. HistoryType'
  BY <1>1, <1>2, KeyValueAssumption DEF ClientType, HistoryType
<1>4. QueuesType' /\ ViewsType'
  BY <1>2 DEF ClientType, QueuesType, ViewsType
<1> QED BY <1>3, <1>4 DEF ClientType

\* A patch is turned down: its author is unsure of the fields.
LEMMA RefusalKeepsClientType ==
  ASSUME ClientType, NEW c \in Client, NEW fields \in SUBSET Field,
         faults < MaxFaults, faults' = faults + 1,
         unsure' \subseteq unsure \cup {<< c, f >> : f \in fields},
         UNCHANGED << log, outbox, chan, answer, sub, value, seen, outOfStep, patches >>
  PROVE  ClientType'
<1>1. HistoryType'
  BY KeyValueAssumption DEF ClientType, HistoryType
<1>2. QueuesType' /\ ViewsType'
  BY DEF ClientType, QueuesType, ViewsType
<1> QED BY <1>1, <1>2 DEF ClientType

\* The log grows: all that names a patch names it still.
LEMMA CommitKeepsClientType ==
  ASSUME Inv, ClientType, NEW t \in running, CommitTask(t)
  PROVE  ClientType'
<1>1. /\ log \in Seq(Message) /\ t.message \in Message
      /\ log' = Append(log, t.message) /\ outbox' = Append(outbox, Len(log) + 1)
      /\ UNCHANGED << chan, answer, sub, value, seen, outOfStep, unsure, patches, faults >>
  BY DEF CommitTask, history, Inv, ServerType
<1>2. /\ Len(log) \in Nat /\ Len(log') = Len(log) + 1
      /\ DOMAIN log \subseteq DOMAIN log' /\ Len(log) + 1 \in DOMAIN log'
  BY <1>1
<1>3. outbox \in Seq(Nat) /\ outbox' \in Seq(Nat)
  BY <1>1, <1>2 DEF ClientType, QueuesType
<1>4. \A i \in DOMAIN outbox' : outbox'[i] = Len(log) + 1 \/ (i \in DOMAIN outbox /\ outbox'[i] = outbox[i])
  BY <1>1, <1>3
<1>5. QueuesType'
  BY <1>1, <1>2, <1>3, <1>4 DEF ClientType, QueuesType
<1>6. ViewsType'
  BY <1>1, <1>2 DEF ClientType, ViewsType
<1> QED BY <1>1, <1>5, <1>6 DEF ClientType, HistoryType

\* What is left of a sequence are items of it.
LEMMA OneTaken ==
  ASSUME NEW S, NEW s \in Seq(S), NEW i \in DOMAIN s
  PROVE  /\ RemoveAt(s, i) \in Seq(S)
         /\ \A j \in DOMAIN RemoveAt(s, i) : \E k \in DOMAIN s : RemoveAt(s, i)[j] = s[k]
<1> DEFINE a == SubSeq(s, 1, i - 1)
           b == SubSeq(s, i + 1, Len(s))
<1>1. i \in 1 .. Len(s) /\ DOMAIN s = 1 .. Len(s) /\ Len(s) \in Nat
  OBVIOUS
<1>2. \A k \in 1 .. Len(s) : s[k] \in S
  OBVIOUS
<1>3. a \in Seq(S) /\ Len(a) = i - 1 /\ \A k \in 1 .. i - 1 : a[k] = s[k]
  <2>1. a = [k \in 1 .. i - 1 |-> s[k]]
    BY <1>1
  <2>2. i - 1 \in Nat /\ \A k \in 1 .. i - 1 : s[k] \in S
    BY <1>1, <1>2
  <2> HIDE DEF a
  <2>3. a \in [1 .. i - 1 -> S]
    BY <2>1, <2>2
  <2> QED BY <2>1, <2>2, <2>3
<1>4. b \in Seq(S) /\ Len(b) = Len(s) - i /\ \A k \in 1 .. Len(s) - i : b[k] = s[i + k]
  <2> DEFINE m == Len(s) - i
  <2>1. b = [k \in 1 .. m |-> s[i + k]]
    BY <1>1
  <2>2. m \in Nat /\ \A k \in 1 .. m : s[i + k] \in S
    BY <1>1, <1>2
  <2> HIDE DEF b, m
  <2>3. b \in [1 .. m -> S]
    BY <2>1, <2>2
  <2>4. b \in Seq(S) /\ Len(b) = m /\ \A k \in 1 .. m : b[k] = s[i + k]
    BY <2>1, <2>2, <2>3
  <2> QED BY <2>4 DEF m
<1> HIDE DEF a, b
<1>5. RemoveAt(s, i) = a \o b
  BY DEF RemoveAt, a, b
<1>6. /\ a \o b \in Seq(S) /\ DOMAIN (a \o b) = 1 .. Len(a) + Len(b)
      /\ Len(a) \in Nat /\ Len(b) \in Nat
  <2>1. a \in Seq(S) /\ b \in Seq(S)
    BY <1>3, <1>4
  <2> QED BY ONLY <2>1
<1>7. ASSUME NEW j \in 1 .. Len(a) + Len(b) PROVE \E k \in DOMAIN s : (a \o b)[j] = s[k]
  <2>1. CASE j <= Len(a)
    <3>1. (a \o b)[j] = a[j] /\ a[j] = s[j] /\ j \in DOMAIN s
      BY <1>1, <1>3, <1>4, <2>1
    <3> QED BY <3>1
  <2>2. CASE j > Len(a)
    <3>1. (a \o b)[j] = b[j - Len(a)]
      BY SMTT(30), <1>1, <1>3, <1>4, <2>2
    <3>2. j - Len(a) \in 1 .. Len(s) - i /\ i + (j - Len(a)) = j + 1 /\ j + 1 \in DOMAIN s
      BY <1>1, <1>3, <1>4, <2>2
    <3>3. b[j - Len(a)] = s[j + 1]
      BY <1>4, <3>2
    <3> QED BY <3>1, <3>2, <3>3
  <2> QED BY <1>1, <1>3, <1>4, <2>1, <2>2
<1> QED BY <1>5, <1>6, <1>7

\* A broadcast leaves the outbox for the channels of those who have joined.
LEMMA BroadcastKeepsClientType ==
  ASSUME ClientType, NEW i \in DOMAIN outbox, Broadcast(i)
  PROVE  ClientType'
<1> DEFINE item == [ack |-> FALSE, nr |-> outbox[i]]
<1>1. /\ UNCHANGED << log, answer, sub, value, seen, outOfStep, unsure, patches, faults >>
      /\ outbox' = RemoveAt(outbox, i)
      /\ \A c \in Client : chan'[c] = IF sub[c] = "joined" THEN Append(chan[c], item) ELSE chan[c]
      /\ chan' = [c \in Client |-> chan'[c]]
  BY DEF Broadcast, history
<1>2. outbox \in Seq(Nat) /\ outbox[i] \in Nat /\ outbox[i] \in DOMAIN log
  BY DEF ClientType, QueuesType
<1>3. item \in Item /\ item.nr \in DOMAIN log
  BY <1>2 DEF Item
<1>4. /\ outbox' \in Seq(Nat)
      /\ \A j \in DOMAIN outbox' : \E k \in DOMAIN outbox : outbox'[j] = outbox[k]
  BY <1>1, <1>2, OneTaken
<1>5. ASSUME NEW c \in Client
      PROVE  /\ chan'[c] \in Seq(Item)
             /\ \A j \in DOMAIN chan'[c] : ~chan'[c][j].ack => chan'[c][j].nr \in DOMAIN log
  <2>1. CASE sub[c] = "joined"
    BY <1>1, <1>3, <2>1, ItemArrives DEF ClientType
  <2>2. CASE sub[c] # "joined"
    BY <1>1, <2>2 DEF ClientType, QueuesType
  <2> QED BY <2>1, <2>2
<1>6. chan' \in [Client -> Seq(Item)]
  BY <1>1, <1>5
<1>7. QueuesType'
  BY <1>1, <1>2, <1>4, <1>5, <1>6 DEF ClientType, QueuesType
<1> QED BY <1>1, <1>7 DEF ClientType, HistoryType, ViewsType

\* The acknowledgement is put into its author's channel.
LEMMA AcceptKeepsClientType ==
  ASSUME Inv, ClientType, NEW m \in sent, Accept(m)
  PROVE  ClientType'
<1> DEFINE item == [ack |-> TRUE, whole |-> m.whole]
<1>1. m \in Message /\ m.author \in Client /\ item \in Item
  BY DEF Inv, ServerType, Message, Item
<1>2. /\ chan' = [chan EXCEPT ![m.author] = Append(chan[m.author], item)]
      /\ UNCHANGED << log, outbox, answer, sub, value, seen, outOfStep, unsure, patches, faults >>
  BY DEF Accept, server, history
<1>3. /\ Append(chan[m.author], item) \in Seq(Item)
      /\ \A i \in DOMAIN Append(chan[m.author], item) :
           ~Append(chan[m.author], item)[i].ack => Append(chan[m.author], item)[i].nr \in DOMAIN log
  BY <1>1, ItemArrives DEF ClientType
<1>4. QueuesType'
  BY <1>1, <1>2, <1>3 DEF ClientType, QueuesType
<1> QED BY <1>2, <1>4 DEF ClientType, HistoryType, ViewsType

\* What arrives makes a document of a document, and is in the log if it is a broadcast.
LEMMA DeliveryKeepsClientType ==
  ASSUME Inv, ClientType, NEW c \in Client,
         DeliverAck(c) \/ DeliverForeign(c) \/ DeliverOwn(c)
  PROVE  ClientType'
<1>1. /\ Consume(c)
      /\ UNCHANGED << log, outbox, answer, sub, unsure, patches, faults >>
  BY DEF DeliverAck, DeliverForeign, DeliverOwn, server, history
<1>2. /\ Arrived(c) \in Item
      /\ ~Arrived(c).ack => Arrived(c).nr \in DOMAIN log
      /\ QueuesType'
  BY <1>1, ItemLeaves DEF ClientType
<1>3. value[c] \in Document /\ log \in Seq(Message)
  BY DEF Inv, ServerType, ClientType, ViewsType
<1>4. CASE DeliverAck(c)
  <2>1. /\ value' = [value EXCEPT ![c] = Apply(value[c], Arrived(c).whole)]
        /\ Arrived(c).ack /\ UNCHANGED << seen, outOfStep >>
    BY <1>4 DEF DeliverAck, history
  <2>2. Arrived(c).whole \in Patch
    BY <1>2, <2>1 DEF Item
  <2>3. Apply(value[c], Arrived(c).whole) \in Document
    BY <1>3, <2>2, PatchedDocument
  <2>4. ViewsType'
    BY <1>1, <2>1, <2>3 DEF ClientType, ViewsType
  <2> QED BY <1>1, <1>2, <2>1, <2>4 DEF ClientType, HistoryType
<1>5. CASE DeliverForeign(c) \/ DeliverOwn(c)
  <2>1. ~Arrived(c).ack /\ Sees(c)
    BY <1>5 DEF DeliverForeign, DeliverOwn
  <2>2. Arrived(c).nr \in DOMAIN log /\ Arrived(c).nr \in 0 .. Len(log)
    BY <1>2, <1>3, <2>1
  <2>3. log[Arrived(c).nr] \in Message
    BY <1>3, <2>2
  <2>4. log[Arrived(c).nr].patch \in Patch
    BY <2>3 DEF Message
  <2>5. Apply(value[c], log[Arrived(c).nr].patch) \in Document
    BY <1>3, <2>4, PatchedDocument
  <2>6. value' \in [Client -> Document]
    BY <1>5, <2>5 DEF DeliverForeign, DeliverOwn, ClientType, ViewsType
  <2>7. seen' \in [Client -> 0 .. Len(log)] /\ outOfStep' \subseteq Client
    BY <2>1, <2>2 DEF Sees, ClientType, ViewsType, HistoryType
  <2> QED BY <1>1, <1>2, <2>6, <2>7 DEF ClientType, HistoryType, ViewsType
<1> QED BY <1>4, <1>5

LEMMA NextClientType == Inv /\ ClientType /\ [Next]_vars => ClientType'
<1> SUFFICES ASSUME Inv, ClientType, [Next]_vars PROVE ClientType'
  OBVIOUS
<1>1. \A m \in Message : m.author \in Client /\ DOMAIN m.whole \in SUBSET Field
  BY DEF Message, Patch
<1>2. /\ \A m \in sent \cup accepted : m \in Message
      /\ \A t \in running : t.message \in Message
  BY DEF Inv, ServerType
<1>3. CASE ServerStep
  <2>1. ASSUME NEW m \in sent, Accept(m) PROVE ClientType'
    BY <2>1, AcceptKeepsClientType
  <2>2. ASSUME NEW m \in sent, Unauthorized(m) PROVE ClientType'
    BY <1>1, <1>2, <2>2, RefusalKeepsClientType DEF Unauthorized, server
  <2>3. ASSUME NEW m \in accepted, QuotaViolation(m) PROVE ClientType'
    BY <1>1, <1>2, <2>3, RefusalKeepsClientType DEF QuotaViolation, server
  <2>4. ASSUME NEW m \in accepted, StartTask(m) PROVE ClientType'
    BY <2>4 DEF StartTask, history, ClientType, HistoryType, QueuesType, ViewsType
  <2>5. ASSUME NEW t \in running, CommitTask(t) PROVE ClientType'
    BY <2>5, CommitKeepsClientType
  <2>6. ASSUME NEW t \in running, TaskFails(t) PROVE ClientType'
    BY <1>1, <1>2, <2>6, RefusalKeepsClientType DEF TaskFails
  <2>7. ASSUME NEW i \in DOMAIN outbox, Broadcast(i) PROVE ClientType'
    BY <2>7, BroadcastKeepsClientType
  <2> QED BY <1>3, <2>1, <2>2, <2>3, <2>4, <2>5, <2>6, <2>7 DEF ServerStep
<1>4. ASSUME NEW c \in Client, ClientStep(c) PROVE ClientType'
  <2>1. CASE Load(c)
    <3>1. Len(log) \in 0 .. Len(log) /\ doc \in Document
      BY DEF Inv, ServerType
    <3>2. /\ UNCHANGED << log, outbox, chan, value, outOfStep, unsure, patches, faults >>
          /\ answer' = [answer EXCEPT ![c] = doc] /\ seen' = [seen EXCEPT ![c] = Len(log)]
          /\ sub' = [sub EXCEPT ![c] = "answered"]
      BY <2>1 DEF Load, server, history
    <3> QED BY <3>1, <3>2 DEF ClientType, HistoryType, QueuesType, ViewsType
  <2>2. CASE Loaded(c)
    BY <2>2 DEF Loaded, server, history, ClientType, HistoryType, QueuesType, ViewsType
  <2>3. CASE Join(c)
    BY <2>3 DEF Join, server, history, ClientType, HistoryType, QueuesType, ViewsType
  <2>4. CASE DeliverAck(c) \/ DeliverForeign(c) \/ DeliverOwn(c)
    BY <2>4, DeliveryKeepsClientType
  <2> QED BY <1>4, <2>1, <2>2, <2>3, <2>4 DEF ClientStep
<1>5. ASSUME NEW c \in Client, UserStep(c) PROVE ClientType'
  <2>1. ASSUME NEW p \in Patch, Change(c, p) PROVE ClientType'
    BY <2>1, ChangeKeepsClientType
  <2>2. ASSUME NEW new \in Document, SetValue(c, new) PROVE ClientType'
    <3>1. Difference(value[c], new) \in Patch
      BY DifferenceIsPatch
    <3> QED BY <2>2, <3>1, ChangeKeepsClientType DEF SetValue
  <2> QED BY <1>5, <2>1, <2>2 DEF UserStep
<1>6. CASE UNCHANGED vars
  BY <1>6 DEF vars, ClientType, HistoryType, QueuesType, ViewsType
<1> QED BY <1>3, <1>4, <1>5, <1>6 DEF Next

\* Every variable keeps its type: in particular every broadcast under way names a patch that
\* was applied, and the queue of the record runs one task at a time.
THEOREM TypeCorrect == Spec => []TypeOK
<1>1. Inv /\ ClientType => TypeOK
  <2> SUFFICES ASSUME Inv, ClientType PROVE TypeOK
    OBVIOUS
  <2>1. outbox \in Seq(DOMAIN log)
    BY DEF ClientType, QueuesType
  <2> QED
    BY <2>1 DEF Inv, ServerType, OneTask, ClientType, HistoryType, QueuesType, ViewsType, TypeOK
<1> QED BY InitInv, NextInv, ClientTypeInit, NextClientType, <1>1, PTL DEF Spec

-----------------------------------------------------------------------------
(* Clients agree with the row on fields without a race.                    *)
(*                                                                         *)
(* What a client shows of a field is what the patches it has seen make of  *)
(* it or, between the acknowledgement of its own patch and its broadcast,  *)
(* that patch (Shows). This holds of a client and a field that have not    *)
(* raced, because the client's own patch of the field is alone as long as  *)
(* it is pending, and the first one of the field that the client will see  *)
(* after it (Alone, AckFirst, OwnFirst). Once nothing of the field is on   *)
(* the way, what the client has seen is all there is.                      *)

\* What the first n patches of log l make of field f
Wrote(l, n, f, v) ==
  \/ v = Absent /\ \A i \in 1 .. n : f \notin DOMAIN l[i].patch
  \/ \E i \in 1 .. n :
       /\ f \in DOMAIN l[i].patch /\ v = l[i].patch[f]
       /\ \A j \in 1 .. n : j > i => f \notin DOMAIN l[j].patch

\* Unless m is sent with f, it finds in f what the user asks for.
Redundant(l, n, f, m) == f \notin DOMAIN m.patch => Wrote(l, n, f, m.whole[f])

\* The patches of f on their way to the log: what they mean to c, and those that c made
Touching(c, f) == {m \in Pending : f \in DOMAIN (IF m.author = c THEN m.whole ELSE m.patch)}
OwnPending(c, f) == {m \in Pending : m.author = c /\ f \in DOMAIN m.whole}

\* The applied patches of f that c has not seen
Unseen(c, f) == {i \in seen[c] + 1 .. Len(log) : f \in DOMAIN log[i].patch}

\* The acknowledgements of patches of f that c has not got yet, by their positions
Acks(c, f) == {k \in DOMAIN chan[c] : chan[c][k].ack /\ f \in DOMAIN chan[c][k].whole}

\* While a patch of c is pending, nothing else of the field is under way.
Alone(c, f) ==
  \A m \in OwnPending(c, f) :
    /\ Unseen(c, f) = {}
    /\ Touching(c, f) \subseteq {m}
    /\ \A k \in Acks(c, f) : m \notin sent /\ chan[c][k].whole = m.whole
    /\ Redundant(log, seen[c], f, m)

\* The acknowledgement at position k is that of patch i, whose broadcast comes later; no other
\* patch that c has not seen comes before.
AckOf(c, f, k, i) ==
  /\ log[i].author = c /\ chan[c][k].whole = log[i].whole
  /\ \A l \in DOMAIN chan[c] : l < k /\ ~chan[c][l].ack => chan[c][l].nr # i
  /\ \A j \in Unseen(c, f) : i <= j /\ (log[j].author = c => i = j)
  /\ Redundant(log, seen[c], f, log[i])
AckFirst(c, f) ==
  OwnPending(c, f) = {} =>
    \A k \in Acks(c, f) : \E i \in seen[c] + 1 .. Len(log) : AckOf(c, f, k, i)

OwnFirst(c, f) == \A i, j \in Unseen(c, f) : log[i].author = c => i <= j

\* c got the acknowledgement of a patch of f whose broadcast it has not seen.
Ahead(c, f) ==
  /\ Acks(c, f) = {}
  /\ \/ \E m \in OwnPending(c, f) : m \notin sent /\ f \in DOMAIN m.patch
     \/ \E i \in Unseen(c, f) : log[i].author = c

Shows(c, f) ==
  IF Ahead(c, f)
  THEN /\ \A m \in OwnPending(c, f) : f \in DOMAIN m.patch => value[c][f] = m.patch[f]
       /\ \A i \in Unseen(c, f) : log[i].author = c => value[c][f] = log[i].patch[f]
  ELSE Wrote(log, seen[c], f, value[c][f])

Sure(c, f) ==
  /\ Alone(c, f) /\ AckFirst(c, f) /\ OwnFirst(c, f) /\ Shows(c, f)
  /\ \A k, l \in Acks(c, f) : k = l

\* A message is in one place, and sends part of what its author asked for.
PartSent(m) ==
  DOMAIN m.patch \subseteq DOMAIN m.whole /\ \A f \in DOMAIN m.patch : m.patch[f] = m.whole[f]
OnePlace ==
  /\ \A m \in Pending : m.nr <= patches
  /\ sent \cap accepted = {}
  /\ \A t \in running : t.message \notin sent /\ t.message \notin accepted
  /\ \A m \in Pending : PartSent(m)
  /\ \A i \in DOMAIN log : PartSent(log[i])

\* A client that has not loaded the record has no part in it.
Apart(c) ==
  /\ \A m \in Pending : m.author # c
  /\ \A i \in DOMAIN log : log[i].author # c
  /\ chan[c] = << >>

Agrees(c) ==
  /\ sub[c] \in {"none", "answered"} => Apart(c)
  /\ sub[c] = "answered" => \A f \in Field : Wrote(log, seen[c], f, answer[c][f])
  /\ sub[c] \in {"joining", "joined"} /\ c \notin outOfStep =>
       \A f \in Field : << c, f >> \notin unsure => Sure(c, f)
Agreement == \A c \in Client : Agrees(c)

AgreeInv == Inv /\ ClientType /\ OnePlace /\ Agreement

-----------------------------------------------------------------------------
(* What the log makes of a field *)

LEMMA WroteOnce ==
  ASSUME NEW l, NEW n \in Nat, NEW f, NEW v, NEW w, Wrote(l, n, f, v), Wrote(l, n, f, w)
  PROVE  v = w
<1>1. \A i, j \in 1 .. n : i = j \/ i > j \/ j > i
  OBVIOUS
<1> QED BY <1>1 DEF Wrote

LEMMA WroteNext ==
  ASSUME NEW l, NEW n \in Nat, NEW f
  PROVE  /\ f \in DOMAIN l[n + 1].patch => Wrote(l, n + 1, f, l[n + 1].patch[f])
         /\ f \notin DOMAIN l[n + 1].patch => \A v : Wrote(l, n, f, v) => Wrote(l, n + 1, f, v)
<1>1. /\ n + 1 \in 1 .. n + 1 /\ 1 .. n \subseteq 1 .. n + 1
      /\ \A i \in 1 .. n + 1 : ~(i > n + 1) /\ (i = n + 1 \/ i \in 1 .. n)
  OBVIOUS
<1>2. f \in DOMAIN l[n + 1].patch => Wrote(l, n + 1, f, l[n + 1].patch[f])
  BY <1>1 DEF Wrote
<1>3. ASSUME f \notin DOMAIN l[n + 1].patch, NEW v, Wrote(l, n, f, v) PROVE Wrote(l, n + 1, f, v)
  BY <1>1, <1>3 DEF Wrote
<1> QED BY <1>2, <1>3

LEMMA WroteInBoth ==
  ASSUME NEW l, NEW k, NEW n \in Nat, \A i \in 1 .. n : l[i] = k[i]
  PROVE  \A f, v : Wrote(l, n, f, v) => Wrote(k, n, f, v)
BY DEF Wrote

\* The last ones do not touch f.
LEMMA WroteToTheEnd ==
  ASSUME NEW l, NEW m \in Nat, NEW n \in 0 .. m, NEW f, NEW v, Wrote(l, n, f, v),
         \A i \in n + 1 .. m : f \notin DOMAIN l[i].patch
  PROVE  Wrote(l, m, f, v)
<1>1. 1 .. n \subseteq 1 .. m /\ \A i \in 1 .. m : i \in 1 .. n \/ i \in n + 1 .. m
  OBVIOUS
<1> QED BY <1>1 DEF Wrote

-----------------------------------------------------------------------------
(* Steps that change little for a client and a field *)

\* Nothing of the field comes to c's messages, or goes from them.
LEMMA SureStays ==
  ASSUME NEW c \in Client, NEW f \in Field, Sure(c, f),
         UNCHANGED log, seen'[c] = seen[c], value'[c][f] = value[c][f],
         OwnPending(c, f)' = OwnPending(c, f),
         OwnPending(c, f) # {} => Touching(c, f)' \subseteq Touching(c, f),
         \A m \in OwnPending(c, f) : m \in sent' <=> m \in sent,
         Acks(c, f)' = Acks(c, f),
         \A k \in Acks(c, f) : chan'[c][k] = chan[c][k],
         \A k \in Acks(c, f), l \in DOMAIN chan'[c] : l < k => l \in DOMAIN chan[c] /\ chan'[c][l] = chan[c][l]
  PROVE  Sure(c, f)'
<1>1. Unseen(c, f)' = Unseen(c, f)
  BY DEF Unseen
<1>2. Alone(c, f)'
  BY <1>1 DEF Sure, Alone
<1>3. AckFirst(c, f)'
  BY <1>1 DEF Sure, AckFirst, AckOf
<1>4. OwnFirst(c, f)'
  BY <1>1 DEF Sure, OwnFirst
<1>5. Ahead(c, f)' <=> Ahead(c, f)
  BY <1>1 DEF Ahead
<1>6. Shows(c, f)'
  BY <1>1, <1>5 DEF Sure, Shows
<1> QED BY <1>2, <1>3, <1>4, <1>6 DEF Sure

\* A message that is no acknowledgement of f comes to c's channel.
LEMMA ItemComes ==
  ASSUME ClientType, NEW c \in Client, NEW f, NEW item \in Item,
         chan'[c] = Append(chan[c], item), ~(item.ack /\ f \in DOMAIN item.whole)
  PROVE  /\ Acks(c, f)' = Acks(c, f)
         /\ \A k \in Acks(c, f) : chan'[c][k] = chan[c][k]
         /\ \A k \in Acks(c, f), l \in DOMAIN chan'[c] :
              l < k => l \in DOMAIN chan[c] /\ chan'[c][l] = chan[c][l]
<1>1. chan[c] \in Seq(Item)
  BY DEF ClientType, QueuesType
<1>2. /\ Len(chan[c]) \in Nat /\ DOMAIN chan[c] = 1 .. Len(chan[c])
      /\ DOMAIN chan'[c] = 1 .. Len(chan[c]) + 1
      /\ \A k \in 1 .. Len(chan[c]) : chan'[c][k] = chan[c][k]
      /\ chan'[c][Len(chan[c]) + 1] = item
  BY <1>1
<1>3. \A k \in 1 .. Len(chan[c]) + 1 : k = Len(chan[c]) + 1 \/ k \in 1 .. Len(chan[c])
  BY <1>2
<1>4. \A k \in 1 .. Len(chan[c]) : k \in 1 .. Len(chan[c]) + 1 /\ ~(Len(chan[c]) + 1 < k)
  BY <1>2
<1>5. \A k : k \in Acks(c, f)' <=> k \in Acks(c, f)
  BY <1>2, <1>3, <1>4 DEF Acks
<1>6. \A k \in Acks(c, f) : k \in 1 .. Len(chan[c])
  BY <1>2 DEF Acks
<1> QED BY <1>2, <1>3, <1>4, <1>5, <1>6

\* Messages have their types.
LEMMA PendingTypes ==
  ASSUME Inv
  PROVE  /\ \A m \in Pending : /\ m \in Message /\ m.author \in Client /\ m.nr \in Nat
                               /\ DOMAIN m.whole \subseteq Field
         /\ log \in Seq(Message) /\ DOMAIN log = 1 .. Len(log) /\ Len(log) \in Nat
         /\ \A i \in DOMAIN log : log[i] \in Message
<1>1. \A m \in Pending : m \in Message
  BY DEF Inv, ServerType, Pending
<1>2. \A m \in Message : m.author \in Client /\ m.nr \in Nat /\ DOMAIN m.whole \subseteq Field
  BY DEF Message, Patch
<1>3. log \in Seq(Message)
  BY DEF Inv, ServerType
<1> QED BY <1>1, <1>2, <1>3

\* Which messages are left by each step of the server
LEMMA MessageMoves ==
  ASSUME Inv, OnePlace
  PROVE  /\ \A m \in sent : Accept(m) => Pending' = Pending /\ sent' = sent \ {m}
         /\ \A m \in sent : Unauthorized(m) => Pending' = Pending \ {m} /\ sent' = sent \ {m}
         /\ \A m \in accepted : QuotaViolation(m) => Pending' = Pending \ {m} /\ sent' = sent
         /\ \A m \in accepted : StartTask(m) => Pending' = Pending /\ sent' = sent
         /\ \A t \in running : CommitTask(t) \/ TaskFails(t) =>
              /\ t.message \in Pending /\ t.message \notin sent
              /\ Pending' = Pending \ {t.message} /\ sent' = sent
<1>1. ASSUME NEW m \in sent, Accept(m) PROVE Pending' = Pending /\ sent' = sent \ {m}
  BY <1>1 DEF Accept, server, Pending
<1>2. ASSUME NEW m \in sent, Unauthorized(m) PROVE Pending' = Pending \ {m} /\ sent' = sent \ {m}
  BY <1>2 DEF Unauthorized, server, Pending, OnePlace
<1>3. ASSUME NEW m \in accepted, QuotaViolation(m) PROVE Pending' = Pending \ {m} /\ sent' = sent
  BY <1>3 DEF QuotaViolation, server, Pending, OnePlace
<1>4. ASSUME NEW m \in accepted, StartTask(m) PROVE Pending' = Pending /\ sent' = sent
  <2>1. running = {} /\ running' = {[message |-> m, current |-> doc]}
    BY <1>4 DEF StartTask, QueueFree
  <2>2. accepted' = accepted \ {m} /\ sent' = sent
    BY <1>4 DEF StartTask
  <2>3. {t.message : t \in running'} = {m}
    BY <2>1
  <2> QED BY <2>1, <2>2, <2>3 DEF Pending
<1>5. ASSUME NEW t \in running, CommitTask(t) \/ TaskFails(t)
      PROVE  /\ t.message \in Pending /\ t.message \notin sent
             /\ Pending' = Pending \ {t.message} /\ sent' = sent
  <2>1. running = {t} /\ running' = {} /\ sent' = sent /\ accepted' = accepted
    BY <1>5 DEF CommitTask, TaskFails, Inv, OneTask
  <2>2. t.message \notin sent /\ t.message \notin accepted
    BY DEF OnePlace
  <2> QED BY <2>1, <2>2 DEF Pending
<1> QED BY <1>1, <1>2, <1>3, <1>4, <1>5

\* Messages move from place to place.
LEMMA OnePlaceStays ==
  ASSUME Inv, ClientType, OnePlace, [Next]_vars
  PROVE  OnePlace'
<1>1. ASSUME UNCHANGED << log, patches >>, sent' \subseteq sent, accepted' \subseteq accepted,
             running' \subseteq running
      PROVE  OnePlace'
  <2>1. Pending' \subseteq Pending
    BY <1>1 DEF Pending
  <2> QED BY <1>1, <2>1 DEF OnePlace
<1>2. CASE ServerStep
  <2>1. ASSUME NEW m \in sent, Accept(m) PROVE OnePlace'
    <3>1. /\ sent' = sent \ {m} /\ accepted' = accepted \cup {m}
          /\ UNCHANGED << log, patches, running >> /\ Pending' = Pending
      BY <2>1, MessageMoves DEF Accept, server, history
    <3> QED BY <3>1 DEF OnePlace
  <2>2. ASSUME NEW m \in sent, Unauthorized(m) PROVE OnePlace'
    BY <1>1, <2>2 DEF Unauthorized, server
  <2>3. ASSUME NEW m \in accepted, QuotaViolation(m) PROVE OnePlace'
    BY <1>1, <2>3 DEF QuotaViolation, server
  <2>4. ASSUME NEW m \in accepted, StartTask(m) PROVE OnePlace'
    <3>1. /\ running' = {[message |-> m, current |-> doc]} /\ accepted' = accepted \ {m}
          /\ UNCHANGED << log, patches, sent >> /\ Pending' = Pending
      BY <2>4, MessageMoves DEF StartTask, QueueFree, history
    <3>2. m \notin sent
      BY DEF OnePlace
    <3> QED BY <3>1, <3>2 DEF OnePlace
  <2>5. ASSUME NEW t \in running, CommitTask(t) PROVE OnePlace'
    <3>1. /\ running' = {} /\ log' = Append(log, t.message)
          /\ UNCHANGED << sent, accepted, patches >>
          /\ t.message \in Pending /\ Pending' = Pending \ {t.message}
      <4>1. running' = {}
        BY <2>5 DEF CommitTask, Inv, OneTask
      <4> QED BY <2>5, <4>1, MessageMoves DEF CommitTask, history
    <3>2. \A i \in DOMAIN log' : log'[i] = t.message \/ (i \in DOMAIN log /\ log'[i] = log[i])
      BY <3>1, PendingTypes
    <3> QED BY <3>1, <3>2 DEF OnePlace
  <2>6. ASSUME NEW t \in running, TaskFails(t) PROVE OnePlace'
    BY <1>1, <2>6 DEF TaskFails
  <2>7. ASSUME NEW i \in DOMAIN outbox, Broadcast(i) PROVE OnePlace'
    BY <1>1, <2>7 DEF Broadcast, history
  <2> QED BY <1>2, <2>1, <2>2, <2>3, <2>4, <2>5, <2>6, <2>7 DEF ServerStep
<1>3. ASSUME NEW c \in Client, ClientStep(c) PROVE OnePlace'
  BY <1>1, <1>3 DEF ClientStep, Load, Loaded, Join, DeliverAck, DeliverForeign, DeliverOwn,
                    server, history
<1>4. ASSUME NEW c \in Client, NEW p \in Patch, Change(c, p) PROVE OnePlace'
  <2> DEFINE m == [author |-> c, nr |-> patches + 1, whole |-> p, patch |-> Changed(value[c], p)]
  <2>1. /\ sent' = sent \cup {m} /\ patches' = patches + 1 /\ patches \in Nat
        /\ UNCHANGED << log, running, accepted >>
    BY <1>4 DEF Change, server, Inv, ServerType
  <2>2. Pending' = Pending \cup {m}
    BY <2>1 DEF Pending
  <2>3. PartSent(m)
    BY DEF PartSent, Changed, Restrict
  <2>4. m \notin Pending /\ m.nr = patches + 1
    BY <2>1 DEF OnePlace
  <2> HIDE DEF m
  <2>5. \A o \in Pending' : o.nr <= patches'
    BY <2>1, <2>2, <2>4, PendingTypes DEF OnePlace
  <2>6. m \notin accepted /\ \A t \in running : t.message # m
    BY <2>4 DEF Pending
  <2> QED BY <2>1, <2>2, <2>3, <2>5, <2>6 DEF OnePlace
<1>5. ASSUME NEW c \in Client, UserStep(c) PROVE OnePlace'
  BY <1>4, <1>5, DifferenceIsPatch DEF UserStep, SetValue
<1>6. CASE UNCHANGED vars
  BY <1>1, <1>6 DEF vars
<1> QED BY <1>2, <1>3, <1>5, <1>6 DEF Next

-----------------------------------------------------------------------------
(* The steps that matter to a client and a field *)

LEMMA PendingOfBoth ==
  \A c, f : OwnPending(c, f) \subseteq Touching(c, f) /\ OwnPending(c, f) \subseteq Pending
BY DEF OwnPending, Touching

\* A patch is made: if c made it, nothing else of the field was on the way; if somebody else did,
\* c has none pending.
LEMMA ChangeKeepsSure ==
  ASSUME AgreeInv, NEW a \in Client, NEW p \in Patch, Change(a, p),
         NEW c \in Client, NEW f \in Field, Sure(c, f), << c, f >> \notin unsure'
  PROVE  Sure(c, f)'
<1> DEFINE m == [author |-> a, nr |-> patches + 1, whole |-> p, patch |-> Changed(value[a], p)]
<1>1. /\ sent' = sent \cup {m} /\ << c, f >> \notin Races(m) /\ patches \in Nat
      /\ UNCHANGED << log, running, accepted, chan, seen, value >>
  BY DEF Change, server, AgreeInv, Inv, ServerType
<1>2. Pending' = Pending \cup {m}
  BY <1>1 DEF Pending
<1>3. m \notin Pending
  BY <1>1 DEF AgreeInv, OnePlace
<1>4. m.author = a /\ m.whole = p /\ m.patch = Changed(value[a], p)
  OBVIOUS
<1> HIDE DEF m
<1>5. CASE a = c /\ f \in DOMAIN p
  <2>1. ~OnTheWay(c, f)
    BY <1>1, <1>4, <1>5 DEF Races
  <2>2. Touching(c, f) = {} /\ Unseen(c, f) = {} /\ Acks(c, f) = {}
    BY <2>1 DEF OnTheWay, Touching, Unseen, Acks
  <2>3. OwnPending(c, f) = {}
    BY <2>2, PendingOfBoth
  <2>4. Wrote(log, seen[c], f, value[c][f])
    BY <2>2, <2>3 DEF Sure, Shows, Ahead
  <2>5. f \notin DOMAIN m.patch => m.whole[f] = value[c][f]
    BY <1>4, <1>5 DEF Changed, Restrict
  <2>6. OwnPending(c, f)' = {m} /\ Touching(c, f)' \subseteq {m}
    BY <1>2, <1>4, <1>5, <2>2, <2>3 DEF OwnPending, Touching
  <2>7. Unseen(c, f)' = {} /\ Acks(c, f)' = {}
    BY <1>1, <2>2 DEF Unseen, Acks
  <2>8. m \in sent'
    BY <1>1
  <2>9. Alone(c, f)'
    BY <1>1, <2>4, <2>5, <2>6, <2>7 DEF Alone, Redundant
  <2>10. Shows(c, f)'
    BY <1>1, <2>4, <2>6, <2>7, <2>8 DEF Shows, Ahead
  <2> QED BY <2>6, <2>7, <2>9, <2>10 DEF Sure, AckFirst, OwnFirst
<1>6. CASE ~(a = c /\ f \in DOMAIN p)
  <2>1. OwnPending(c, f)' = OwnPending(c, f)
    BY <1>2, <1>4, <1>6 DEF OwnPending
  <2>2. ASSUME NEW o \in OwnPending(c, f) PROVE m \notin Touching(c, f)'
    <3>1. o \in Pending /\ o.author = c /\ f \in DOMAIN o.whole
      BY DEF OwnPending
    <3>2. f \notin DOMAIN m.patch
      BY <1>1, <3>1 DEF Races
    <3> QED BY <1>4, <1>6, <3>2 DEF Touching
  <2>3. OwnPending(c, f) # {} => Touching(c, f)' \subseteq Touching(c, f)
    BY <1>2, <2>2 DEF Touching
  <2>4. \A o \in OwnPending(c, f) : o \in sent' <=> o \in sent
    BY <1>1, <1>3, PendingOfBoth
  <2>5. Acks(c, f)' = Acks(c, f)
    BY <1>1 DEF Acks
  <2>6. \A k \in Acks(c, f) : k \in DOMAIN chan[c]
    BY DEF Acks
  <2> QED BY <1>1, <2>1, <2>3, <2>4, <2>5, <2>6, SureStays
<1> QED BY <1>5, <1>6

\* A message is accepted: c's own was alone, and its acknowledgement is the only one.
LEMMA AcceptKeepsSure ==
  ASSUME AgreeInv, NEW m \in sent, Accept(m), NEW c \in Client, NEW f \in Field, Sure(c, f)
  PROVE  Sure(c, f)'
<1> DEFINE item == [ack |-> TRUE, whole |-> m.whole]
<1>1. /\ sent' = sent \ {m} /\ Pending' = Pending /\ m \in Pending
      /\ chan' = [chan EXCEPT ![m.author] = Append(@, item)]
      /\ UNCHANGED << log, seen, value >>
  BY MessageMoves DEF Accept, server, history, AgreeInv, Pending
<1>2. m.author \in Client /\ item \in Item /\ item.ack /\ item.whole = m.whole
  BY DEF AgreeInv, Inv, ServerType, Message, Item
<1>3. chan \in [Client -> Seq(Item)]
  BY DEF AgreeInv, ClientType, QueuesType
<1>4. chan'[c] = IF m.author = c THEN Append(chan[c], item) ELSE chan[c]
  BY <1>1, <1>2, <1>3
<1> HIDE DEF item
<1>5. OwnPending(c, f)' = OwnPending(c, f) /\ Touching(c, f)' = Touching(c, f)
  BY <1>1 DEF OwnPending, Touching
<1>6. Unseen(c, f)' = Unseen(c, f)
  BY <1>1 DEF Unseen
<1>7. CASE m.author = c /\ f \in DOMAIN m.whole
  <2>1. m \in OwnPending(c, f)
    BY <1>1, <1>7 DEF OwnPending
  <2>2. /\ OwnPending(c, f) = {m} /\ Unseen(c, f) = {} /\ Touching(c, f) \subseteq {m} /\ Acks(c, f) = {}
        /\ Redundant(log, seen[c], f, m)
    BY <2>1, PendingOfBoth DEF Sure, Alone
  <2>3. Wrote(log, seen[c], f, value[c][f])
    BY <2>2 DEF Sure, Shows, Ahead
  <2>4. \A k : k \in Acks(c, f)' <=> k = Len(chan[c]) + 1
    <3>1. /\ DOMAIN chan[c] = 1 .. Len(chan[c]) /\ Len(chan[c]) \in Nat
          /\ DOMAIN chan'[c] = 1 .. Len(chan[c]) + 1
          /\ \A k \in 1 .. Len(chan[c]) : chan'[c][k] = chan[c][k]
          /\ chan'[c][Len(chan[c]) + 1] = item
      BY <1>2, <1>3, <1>4, <1>7
    <3>2. \A k : k \in 1 .. Len(chan[c]) + 1 <=> k \in 1 .. Len(chan[c]) \/ k = Len(chan[c]) + 1
      BY <3>1
    <3>3. \A k \in 1 .. Len(chan[c]) : ~(chan[c][k].ack /\ f \in DOMAIN chan[c][k].whole)
      BY <2>2, <3>1 DEF Acks
    <3>4. \A k \in 1 .. Len(chan[c]) : k # Len(chan[c]) + 1
      BY <3>1
    <3> QED BY <1>2, <1>7, <3>1, <3>2, <3>3, <3>4 DEF Acks
  <2>5. \A k \in Acks(c, f)' : chan'[c][k] = item
    BY <1>2, <1>3, <1>4, <1>7, <2>4
  <2>6. Alone(c, f)'
    BY <1>1, <1>2, <1>5, <1>6, <2>2, <2>5 DEF Alone
  <2>7. Shows(c, f)'
    BY <1>1, <2>3, <2>4 DEF Shows, Ahead
  <2> QED BY <1>5, <1>6, <2>2, <2>4, <2>6, <2>7 DEF Sure, AckFirst, OwnFirst
<1>8. CASE ~(m.author = c /\ f \in DOMAIN m.whole)
  <2>1. \A o \in OwnPending(c, f) : o # m
    BY <1>8 DEF OwnPending
  <2>2. /\ Acks(c, f)' = Acks(c, f)
        /\ \A k \in Acks(c, f) : chan'[c][k] = chan[c][k]
        /\ \A k \in Acks(c, f), l \in DOMAIN chan'[c] :
             l < k => l \in DOMAIN chan[c] /\ chan'[c][l] = chan[c][l]
    <3>1. CASE m.author = c
      <4>1. ~(item.ack /\ f \in DOMAIN item.whole)
        BY <1>2, <1>8, <3>1
      <4> QED BY <1>2, <1>4, <3>1, <4>1, ItemComes DEF AgreeInv
    <3>2. CASE m.author # c
      BY <1>4, <3>2 DEF Acks
    <3> QED BY <3>1, <3>2
  <2> QED BY <1>1, <1>5, <2>1, <2>2, SureStays
<1> QED BY <1>7, <1>8

\* A message is turned down: c is unsure of the fields of its own, unless it was never accepted.
LEMMA LossKeepsSure ==
  ASSUME NEW m \in Pending, Pending' = Pending \ {m}, sent' = sent \ {m},
         UNCHANGED << log, chan, seen, value >>,
         NEW c \in Client, NEW f \in Field, Sure(c, f),
         m.author = c /\ f \in DOMAIN m.whole => m \in sent
  PROVE  Sure(c, f)'
<1>1. Touching(c, f)' = Touching(c, f) \ {m} /\ OwnPending(c, f)' = OwnPending(c, f) \ {m}
  BY DEF Touching, OwnPending
<1>2. Unseen(c, f)' = Unseen(c, f) /\ Acks(c, f)' = Acks(c, f)
  BY DEF Unseen, Acks
<1>3. CASE m \in OwnPending(c, f)
  <2>1. m \in sent
    BY <1>3 DEF OwnPending
  <2>2. OwnPending(c, f) = {m} /\ Unseen(c, f) = {} /\ Acks(c, f) = {}
    BY <1>3, <2>1, PendingOfBoth DEF Sure, Alone
  <2>3. Wrote(log, seen[c], f, value[c][f])
    BY <2>1, <2>2 DEF Sure, Shows, Ahead
  <2>4. OwnPending(c, f)' = {}
    BY <1>1, <2>2
  <2> QED BY <1>2, <2>2, <2>3, <2>4 DEF Sure, Alone, AckFirst, OwnFirst, Shows, Ahead
<1>4. CASE m \notin OwnPending(c, f)
  <2>1. \A k \in Acks(c, f) : k \in DOMAIN chan[c]
    BY DEF Acks
  <2> QED BY <1>1, <1>2, <1>4, <2>1, SureStays
<1> QED BY <1>3, <1>4

\* A patch is applied: c's own as the first one of the field that c has not seen; another one
\* comes after those.
LEMMA CommitKeepsSure ==
  ASSUME AgreeInv, NEW t \in running, CommitTask(t), NEW c \in Client, NEW f \in Field, Sure(c, f)
  PROVE  Sure(c, f)'
<1> DEFINE m == t.message
           n == Len(log) + 1
<1>1. /\ m \in Pending /\ m \notin sent /\ Pending' = Pending \ {m} /\ sent' = sent
      /\ log' = Append(log, m)
      /\ UNCHANGED << chan, seen, value >>
  BY MessageMoves DEF CommitTask, history, AgreeInv
<1>2. /\ Len(log') = n /\ n \in Nat /\ DOMAIN log' = 1 .. n /\ log'[n] = m
      /\ DOMAIN log = 1 .. Len(log) /\ Len(log) \in Nat
      /\ \A i \in 1 .. Len(log) : log'[i] = log[i] /\ i <= n /\ i # n
      /\ m \in Message /\ PartSent(m)
  BY <1>1, PendingTypes DEF AgreeInv, OnePlace
<1>3. seen[c] \in 0 .. Len(log)
  BY DEF AgreeInv, ClientType, ViewsType
<1>4. /\ \A i : i \in seen[c] + 1 .. n <=> i \in seen[c] + 1 .. Len(log) \/ i = n
      /\ seen[c] + 1 .. Len(log) \subseteq 1 .. Len(log)
      /\ \A i \in 1 .. seen[c] : i \in 1 .. Len(log)
      /\ \A i \in seen[c] + 1 .. Len(log) : i <= n /\ i # n
  BY <1>2, <1>3
<1>5. \A v : Wrote(log, seen[c], f, v) => Wrote(log', seen[c], f, v)
  <2>1. seen[c] \in Nat /\ \A i \in 1 .. seen[c] : log[i] = log'[i]
    BY <1>2, <1>3, <1>4
  <2> QED BY <2>1, WroteInBoth
<1> HIDE DEF m, n
<1>6. /\ Unseen(c, f) \subseteq seen[c] + 1 .. Len(log)
      /\ \A i \in Unseen(c, f) : log'[i] = log[i] /\ i <= n /\ i # n
      /\ \A i : i \in Unseen(c, f)' <=> i \in Unseen(c, f) \/ (i = n /\ f \in DOMAIN m.patch)
  BY <1>1, <1>2, <1>4 DEF Unseen
<1>7. OwnPending(c, f)' = OwnPending(c, f) \ {m} /\ Touching(c, f)' = Touching(c, f) \ {m}
  BY <1>1 DEF OwnPending, Touching
<1>8. Acks(c, f)' = Acks(c, f)
  BY <1>1 DEF Acks
<1>9. f \in DOMAIN m.patch => f \in DOMAIN m.whole /\ m.patch[f] = m.whole[f]
  BY <1>2 DEF PartSent
<1>10. CASE m \in OwnPending(c, f)
  <2>1. /\ m.author = c /\ f \in DOMAIN m.whole
        /\ OwnPending(c, f) = {m} /\ Unseen(c, f) = {}
        /\ \A k \in Acks(c, f) : chan[c][k].whole = m.whole
        /\ Redundant(log, seen[c], f, m)
    BY <1>10, PendingOfBoth DEF OwnPending, Sure, Alone
  <2>2. OwnPending(c, f)' = {} /\ \A i \in Unseen(c, f)' : i = n
    BY <1>6, <1>7, <2>1
  <2>3. Alone(c, f)' /\ OwnFirst(c, f)'
    <3>1. n <= n
      BY <1>2
    <3> QED BY <2>2, <3>1 DEF Alone, OwnFirst
  <2>4. ASSUME NEW k \in Acks(c, f), NEW i, i = n
        PROVE  i \in seen[c] + 1 .. Len(log') /\ AckOf(c, f, k, i)'
    <3>1. i \in seen[c] + 1 .. Len(log')
      BY <1>2, <1>4, <2>4
    <3>2. \A l \in DOMAIN chan[c] : ~chan[c][l].ack => chan[c][l].nr # i
      <4>1. \A l \in DOMAIN chan[c] : ~chan[c][l].ack => chan[c][l].nr \in 1 .. Len(log)
        BY <1>2 DEF AgreeInv, ClientType, QueuesType
      <4> QED BY <1>2, <2>4, <4>1
    <3>3. Redundant(log', seen[c], f, m)
      BY <1>5, <2>1 DEF Redundant
    <3>4. \A j \in Unseen(c, f)' : i <= j /\ j = i
      BY <1>2, <2>2, <2>4
    <3>5. log'[i].author = c /\ chan[c][k].whole = log'[i].whole /\ Redundant(log', seen[c], f, log'[i])
      BY <1>2, <2>1, <2>4, <3>3
    <3> QED BY <1>1, <3>1, <3>2, <3>4, <3>5 DEF AckOf
  <2>5. AckFirst(c, f)'
    <3>1. \E i : i = n
      OBVIOUS
    <3> QED BY <1>1, <1>8, <2>4, <3>1 DEF AckFirst
  <2>6. Shows(c, f)'
    <3>1. CASE Acks(c, f) = {} /\ f \in DOMAIN m.patch
      <4>1. Ahead(c, f)
        BY <1>1, <1>10, <3>1 DEF Ahead
      <4>2. value[c][f] = m.patch[f]
        BY <1>10, <3>1, <4>1 DEF Sure, Shows
      <4>3. n \in Unseen(c, f)' /\ log'[n].author = c
        BY <1>2, <1>6, <2>1, <3>1
      <4>4. Ahead(c, f)'
        BY <1>8, <3>1, <4>3 DEF Ahead
      <4> QED BY <1>1, <1>2, <2>2, <4>2, <4>4 DEF Shows
    <3>2. CASE Acks(c, f) # {} \/ f \notin DOMAIN m.patch
      <4>1. ~Ahead(c, f)
        BY <2>1, <3>2 DEF Ahead
      <4>2. ~Ahead(c, f)'
        <5>1. f \notin DOMAIN m.patch => Unseen(c, f)' = {}
          BY <1>6, <2>1
        <5> QED BY <1>8, <2>2, <3>2, <5>1 DEF Ahead
      <4> QED BY <1>1, <1>5, <4>1, <4>2 DEF Sure, Shows
    <3> QED BY <3>1, <3>2
  <2> QED BY <1>8, <2>3, <2>5, <2>6 DEF Sure
<1>11. CASE m \notin OwnPending(c, f)
  <2>1. OwnPending(c, f)' = OwnPending(c, f)
    BY <1>7, <1>11
  <2>2. m.author = c => f \notin DOMAIN m.patch
    BY <1>1, <1>9, <1>11 DEF OwnPending
  <2>3. OwnPending(c, f) # {} => f \notin DOMAIN m.patch
    <3> SUFFICES ASSUME NEW o \in OwnPending(c, f), f \in DOMAIN m.patch PROVE FALSE
      OBVIOUS
    <3>1. m \in Touching(c, f)
      BY <1>1, <1>9 DEF Touching
    <3> QED BY <1>11, <3>1 DEF Sure, Alone
  <2>4. OwnPending(c, f) # {} => Unseen(c, f)' = Unseen(c, f)
    BY <1>6, <2>3
  <2>5. \A i \in Unseen(c, f)' : log'[i].author = c => i \in Unseen(c, f) /\ log[i].author = c
    BY <1>2, <1>6, <2>2
  <2>6. Alone(c, f)'
    BY <1>1, <1>5, <1>7, <1>8, <2>1, <2>4 DEF Sure, Alone, Redundant
  <2>7. OwnFirst(c, f)'
    BY <1>6, <2>5 DEF Sure, OwnFirst
  <2>8. ASSUME NEW k \in Acks(c, f), NEW i \in seen[c] + 1 .. Len(log), AckOf(c, f, k, i)
        PROVE  i \in seen[c] + 1 .. Len(log') /\ AckOf(c, f, k, i)'
    <3>1. i \in seen[c] + 1 .. Len(log') /\ log'[i] = log[i] /\ i <= n
      BY <1>2, <1>4
    <3>2. \A j \in Unseen(c, f)' : i <= j /\ (log'[j].author = c => i = j)
      BY <1>6, <2>5, <2>8, <3>1 DEF AckOf
    <3>3. Redundant(log', seen[c], f, log[i])
      BY <1>5, <2>8 DEF AckOf, Redundant
    <3> QED BY <1>1, <2>8, <3>1, <3>2, <3>3 DEF AckOf
  <2>9. AckFirst(c, f)'
    BY <1>1, <1>8, <2>1, <2>8 DEF Sure, AckFirst
  <2>10. Ahead(c, f)' <=> Ahead(c, f)
    BY <1>1, <1>6, <1>8, <2>1, <2>5 DEF Ahead
  <2>11. Shows(c, f)'
    BY <1>1, <1>5, <1>6, <2>1, <2>5, <2>10 DEF Sure, Shows
  <2> QED BY <1>8, <2>6, <2>7, <2>9, <2>11 DEF Sure
<1> QED BY <1>10, <1>11

\* A client that has just loaded the record shows what its answer holds, and has made no patch.
LEMMA LoadedIsSure ==
  ASSUME AgreeInv, NEW c \in Client, Loaded(c), NEW f \in Field
  PROVE  Sure(c, f)'
<1>1. /\ sub[c] = "answered" /\ value'[c] = answer[c]
      /\ UNCHANGED << log, running, sent, accepted, chan, seen >>
  BY DEF Loaded, server, history, AgreeInv, ClientType, ViewsType
<1>2. Apart(c) /\ Wrote(log, seen[c], f, answer[c][f])
  BY <1>1 DEF AgreeInv, Agreement, Agrees
<1>3. Pending' = Pending
  BY <1>1 DEF Pending
<1>4. OwnPending(c, f)' = {}
  BY <1>2, <1>3 DEF OwnPending, Apart
<1>5. Acks(c, f)' = {}
  BY <1>1, <1>2 DEF Acks, Apart
<1>6. \A i \in Unseen(c, f)' : log'[i].author # c
  <2>1. seen[c] \in 0 .. Len(log) /\ DOMAIN log = 1 .. Len(log) /\ Len(log) \in Nat
    BY PendingTypes DEF AgreeInv, ClientType, ViewsType
  <2>2. seen[c] + 1 .. Len(log) \subseteq DOMAIN log
    BY <2>1
  <2> QED BY <1>1, <1>2, <2>2 DEF Unseen, Apart
<1>7. Wrote(log', seen'[c], f, value'[c][f])
  BY <1>1, <1>2
<1> QED BY <1>4, <1>5, <1>6, <1>7 DEF Sure, Alone, AckFirst, OwnFirst, Shows, Ahead

\* The first item of c's channel is taken: the others move up.
LEMMA ItemsMoveUp ==
  ASSUME ClientType, NEW c \in Client, Consume(c), NEW f,
         Arrived(c).ack => f \notin DOMAIN Arrived(c).whole
  PROVE  /\ 1 \in DOMAIN chan[c] /\ chan[c][1] = Arrived(c) /\ 1 \notin Acks(c, f)
         /\ \A k \in DOMAIN chan[c] : k \in Nat \ {0}
         /\ \A k \in DOMAIN chan'[c] :
              k \in Nat \ {0} /\ k + 1 \in DOMAIN chan[c] /\ chan'[c][k] = chan[c][k + 1]
         /\ \A k \in Acks(c, f)' : k + 1 \in Acks(c, f)
         /\ Acks(c, f)' = {} => Acks(c, f) = {}
<1>1. chan[c] \in Seq(Item) /\ chan[c] # << >> /\ chan'[c] = Tail(chan[c])
  BY DEF Consume, ClientType, QueuesType
<1>2. /\ DOMAIN chan[c] = 1 .. Len(chan[c]) /\ Len(chan[c]) \in Nat \ {0}
      /\ DOMAIN chan'[c] = 1 .. Len(chan[c]) - 1
      /\ \A k \in 1 .. Len(chan[c]) - 1 : chan'[c][k] = chan[c][k + 1]
      /\ Head(chan[c]) = chan[c][1]
  BY <1>1
<1>3. /\ 1 \in 1 .. Len(chan[c])
      /\ \A k \in 1 .. Len(chan[c]) - 1 : k \in Nat \ {0} /\ k + 1 \in 1 .. Len(chan[c])
      /\ \A k \in 1 .. Len(chan[c]) :
           k \in Nat \ {0} /\ (k # 1 => k - 1 \in 1 .. Len(chan[c]) - 1 /\ (k - 1) + 1 = k)
  BY <1>2
<1>4. chan[c][1] = Arrived(c) /\ 1 \notin Acks(c, f)
  BY <1>2 DEF Arrived, Acks
<1>5. \A k \in Acks(c, f)' : k + 1 \in Acks(c, f)
  BY <1>2, <1>3 DEF Acks
<1>6. \A k \in Acks(c, f) : k - 1 \in Acks(c, f)'
  BY <1>2, <1>3, <1>4 DEF Acks
<1> QED BY <1>2, <1>3, <1>4, <1>5, <1>6

\* c gets an acknowledgement of f: it shows its patch before it sees it, if it was sent with f.
LEMMA AckShown ==
  ASSUME AgreeInv, NEW c \in Client, DeliverAck(c), NEW f \in Field, Sure(c, f),
         f \in DOMAIN Arrived(c).whole
  PROVE  Sure(c, f)'
<1> DEFINE w == Arrived(c).whole
<1>1. /\ Consume(c) /\ Arrived(c).ack
      /\ value' = [value EXCEPT ![c] = Apply(@, w)]
      /\ UNCHANGED << log, running, sent, accepted, seen >>
  BY DEF DeliverAck, server, history
<1>2. value'[c][f] = w[f]
  BY <1>1 DEF Apply, AgreeInv, ClientType, ViewsType
<1>3. chan[c] \in Seq(Item) /\ chan[c] # << >> /\ chan'[c] = Tail(chan[c])
  BY <1>1 DEF Consume, AgreeInv, ClientType, QueuesType
<1>4. /\ 1 \in DOMAIN chan[c] /\ chan[c][1] = Arrived(c)
      /\ \A k \in DOMAIN chan'[c] :
           k \in Nat \ {0} /\ k + 1 \in DOMAIN chan[c] /\ chan'[c][k] = chan[c][k + 1]
  BY <1>3 DEF Arrived
<1>5. 1 \in Acks(c, f)
  BY <1>1, <1>4 DEF Acks
<1>6. Acks(c, f)' = {}
  <2> SUFFICES ASSUME NEW k \in Acks(c, f)' PROVE FALSE
    OBVIOUS
  <2>1. k + 1 \in Acks(c, f) /\ k + 1 # 1
    BY <1>4 DEF Acks
  <2> QED BY <1>5, <2>1 DEF Sure
<1>7. Pending' = Pending
  BY <1>1 DEF Pending
<1>8. OwnPending(c, f)' = OwnPending(c, f) /\ Touching(c, f)' = Touching(c, f)
  BY <1>7 DEF OwnPending, Touching
<1>9. Unseen(c, f)' = Unseen(c, f)
  BY <1>1 DEF Unseen
<1>10. Alone(c, f)' /\ AckFirst(c, f)' /\ OwnFirst(c, f)'
  BY <1>1, <1>6, <1>8, <1>9 DEF Sure, Alone, AckFirst, OwnFirst
<1>11. Shows(c, f)'
  <2>1. ASSUME NEW m \in OwnPending(c, f) PROVE Shows(c, f)'
    <3>1. /\ OwnPending(c, f) = {m} /\ Unseen(c, f) = {}
          /\ m \notin sent /\ w = m.whole /\ Redundant(log, seen[c], f, m)
      BY <1>4, <1>5, PendingOfBoth DEF Sure, Alone
    <3>2. PartSent(m)
      BY PendingOfBoth DEF AgreeInv, OnePlace
    <3>3. CASE f \in DOMAIN m.patch
      <4>1. value'[c][f] = m.patch[f]
        BY <1>2, <3>1, <3>2, <3>3 DEF PartSent
      <4>2. Ahead(c, f)'
        BY <1>1, <1>6, <1>8, <3>1, <3>3 DEF Ahead
      <4> QED BY <1>8, <1>9, <3>1, <4>1, <4>2 DEF Shows
    <3>4. CASE f \notin DOMAIN m.patch
      <4>1. ~Ahead(c, f)'
        BY <1>8, <1>9, <3>1, <3>4 DEF Ahead
      <4> QED BY <1>1, <1>2, <3>1, <3>4, <4>1 DEF Shows, Redundant
    <3> QED BY <3>3, <3>4
  <2>2. CASE OwnPending(c, f) = {}
    <3>1. PICK i \in seen[c] + 1 .. Len(log) : AckOf(c, f, 1, i)
      BY <1>5, <2>2 DEF Sure, AckFirst
    <3>2. /\ log[i].author = c /\ w = log[i].whole /\ Redundant(log, seen[c], f, log[i])
          /\ \A j \in Unseen(c, f) : log[j].author = c => i = j
      BY <1>4, <3>1 DEF AckOf
    <3>3. PartSent(log[i])
      <4>1. i \in DOMAIN log
        BY PendingTypes DEF AgreeInv, ClientType, ViewsType
      <4> QED BY <4>1 DEF AgreeInv, OnePlace
    <3>4. CASE f \in DOMAIN log[i].patch
      <4>1. value'[c][f] = log[i].patch[f]
        BY <1>2, <3>2, <3>3, <3>4 DEF PartSent
      <4>2. i \in Unseen(c, f)
        BY <3>4 DEF Unseen
      <4>3. Ahead(c, f)'
        BY <1>1, <1>6, <1>9, <3>2, <4>2 DEF Ahead
      <4> QED BY <1>1, <1>8, <1>9, <2>2, <3>2, <4>1, <4>3 DEF Shows
    <3>5. CASE f \notin DOMAIN log[i].patch
      <4>1. i \notin Unseen(c, f)
        BY <3>5 DEF Unseen
      <4>2. ~Ahead(c, f)'
        BY <1>1, <1>8, <1>9, <2>2, <3>2, <4>1 DEF Ahead
      <4> QED BY <1>1, <1>2, <3>2, <3>5, <4>2 DEF Shows, Redundant
    <3> QED BY <3>4, <3>5
  <2> QED BY <2>1, <2>2
<1> QED BY <1>6, <1>10, <1>11 DEF Sure

\* c gets an acknowledgement of other fields.
LEMMA OtherAckKeepsSure ==
  ASSUME AgreeInv, NEW c \in Client, DeliverAck(c), NEW f \in Field, Sure(c, f),
         f \notin DOMAIN Arrived(c).whole
  PROVE  Sure(c, f)'
<1>1. /\ Consume(c) /\ Arrived(c).ack
      /\ value' = [value EXCEPT ![c] = Apply(@, Arrived(c).whole)]
      /\ UNCHANGED << log, running, sent, accepted, seen >>
  BY DEF DeliverAck, server, history
<1>2. value'[c][f] = value[c][f]
  BY <1>1 DEF Apply, AgreeInv, ClientType, ViewsType
<1>3. /\ \A k \in DOMAIN chan'[c] :
           k \in Nat \ {0} /\ k + 1 \in DOMAIN chan[c] /\ chan'[c][k] = chan[c][k + 1]
      /\ \A k \in Acks(c, f)' : k + 1 \in Acks(c, f)
      /\ Acks(c, f)' = {} => Acks(c, f) = {}
  BY <1>1, ItemsMoveUp DEF AgreeInv
<1>4. Pending' = Pending
  BY <1>1 DEF Pending
<1>5. /\ OwnPending(c, f)' = OwnPending(c, f) /\ Touching(c, f)' = Touching(c, f)
      /\ Unseen(c, f)' = Unseen(c, f)
  BY <1>1, <1>4 DEF OwnPending, Touching, Unseen
<1>6. \A k \in Acks(c, f)' : k \in DOMAIN chan'[c]
  BY DEF Acks
<1>7. Alone(c, f)'
  BY <1>1, <1>3, <1>5, <1>6 DEF Sure, Alone
<1>8. ASSUME NEW k \in Acks(c, f)', NEW i, AckOf(c, f, k + 1, i)
      PROVE  AckOf(c, f, k, i)'
  <2>1. chan'[c][k] = chan[c][k + 1] /\ k \in Nat
    BY <1>3, <1>6
  <2>2. \A l \in DOMAIN chan'[c] : l < k /\ ~chan'[c][l].ack => chan'[c][l].nr # i
    <3>1. \A l \in DOMAIN chan'[c] : l < k => l + 1 < k + 1
      BY <1>3, <2>1
    <3> QED BY <1>3, <1>8, <3>1 DEF AckOf
  <2> QED BY <1>1, <1>5, <1>8, <2>1, <2>2 DEF AckOf
<1>9. AckFirst(c, f)'
  BY <1>1, <1>3, <1>5, <1>8 DEF Sure, AckFirst
<1>10. OwnFirst(c, f)'
  BY <1>1, <1>5 DEF Sure, OwnFirst
<1>11. Ahead(c, f)' <=> Ahead(c, f)
  <2>1. Acks(c, f) = {} => Acks(c, f)' = {}
    BY <1>3
  <2> QED BY <1>1, <1>3, <1>5, <2>1 DEF Ahead
<1>12. Shows(c, f)'
  BY <1>1, <1>2, <1>5, <1>11 DEF Sure, Shows
<1>13. \A k, l \in Acks(c, f)' : k = l
  <2>1. \A k, l \in Acks(c, f)' : k + 1 = l + 1 /\ k \in Nat /\ l \in Nat
    BY <1>3, <1>6 DEF Sure
  <2> QED BY <2>1
<1> QED BY <1>7, <1>9, <1>10, <1>12, <1>13 DEF Sure

\* c sees the next patch: it shows what it is told or, if the patch is its own, showed it before.
LEMMA SeesKeepsSure ==
  ASSUME AgreeInv, NEW c \in Client, DeliverForeign(c) \/ DeliverOwn(c), c \notin outOfStep',
         NEW f \in Field, Sure(c, f)
  PROVE  Sure(c, f)'
<1> DEFINE s == Arrived(c).nr
<1>1. /\ Consume(c) /\ ~Arrived(c).ack /\ Sees(c)
      /\ UNCHANGED << log, running, sent, accepted >>
  BY DEF DeliverForeign, DeliverOwn, server
<1>2. /\ seen[c] \in Nat /\ seen'[c] = s /\ s = seen[c] + 1
      /\ s \in 1 .. Len(log) /\ Len(log) \in Nat /\ DOMAIN log = 1 .. Len(log)
  <2>1. seen \in [Client -> 0 .. Len(log)] /\ Len(log) \in Nat /\ DOMAIN log = 1 .. Len(log)
    BY PendingTypes DEF AgreeInv, ClientType, ViewsType
  <2>2. seen'[c] = s /\ s = seen[c] + 1
    BY <1>1, <2>1 DEF Sees
  <2>3. s \in DOMAIN log
    BY <1>1, ItemLeaves DEF AgreeInv, ClientType, DeliverForeign, DeliverOwn, server
  <2> QED BY <2>1, <2>2, <2>3
<1>3. /\ chan[c][1] = Arrived(c) /\ 1 \in DOMAIN chan[c] /\ 1 \notin Acks(c, f)
      /\ \A k \in DOMAIN chan[c] : k \in Nat \ {0}
      /\ \A k \in DOMAIN chan'[c] :
           k \in Nat \ {0} /\ k + 1 \in DOMAIN chan[c] /\ chan'[c][k] = chan[c][k + 1]
      /\ \A k \in Acks(c, f)' : k + 1 \in Acks(c, f)
      /\ Acks(c, f)' = {} => Acks(c, f) = {}
  BY <1>1, ItemsMoveUp DEF AgreeInv
<1>4. \A k \in Acks(c, f)' : k \in DOMAIN chan'[c]
  BY DEF Acks
<1>5. Pending' = Pending
  BY <1>1 DEF Pending
<1>6. OwnPending(c, f)' = OwnPending(c, f) /\ Touching(c, f)' = Touching(c, f)
  BY <1>5 DEF OwnPending, Touching
<1>7. \A i : i \in seen'[c] + 1 .. Len(log) <=> i \in seen[c] + 1 .. Len(log) /\ i # s
  BY <1>2
<1>8. \A i : i \in Unseen(c, f)' <=> i \in Unseen(c, f) /\ i # s
  BY <1>1, <1>7 DEF Unseen
<1>9. \A k, i : k \in Acks(c, f) /\ AckOf(c, f, k, i) => i # s
  <2>1. \A k \in Acks(c, f) : k \in DOMAIN chan[c] /\ k # 1
    BY <1>3 DEF Acks
  <2>2. \A k \in Acks(c, f) : 1 < k
    BY <1>3, <2>1
  <2> QED BY <1>1, <1>3, <2>2 DEF AckOf
<1>10. \A k, l \in Acks(c, f)' : k = l
  <2>1. \A k, l \in Acks(c, f)' : k + 1 = l + 1 /\ k \in Nat /\ l \in Nat
    BY <1>3, <1>4 DEF Sure
  <2> QED BY <2>1
<1>11. value'[c] = value[c] \/ value'[c] = Apply(value[c], log[s].patch)
  BY DEF DeliverForeign, DeliverOwn, AgreeInv, ClientType, ViewsType
<1>12. s \in seen[c] + 1 .. Len(log) /\ (f \in DOMAIN log[s].patch => s \in Unseen(c, f))
  BY <1>2 DEF Unseen
<1> HIDE DEF s
<1>13. CASE f \notin DOMAIN log[s].patch
  <2>1. Unseen(c, f)' = Unseen(c, f)
    BY <1>8, <1>13 DEF Unseen
  <2>2. \A v : Wrote(log, seen[c], f, v) => Wrote(log', seen'[c], f, v)
    BY <1>1, <1>2, <1>13, WroteNext
  <2>3. value'[c][f] = value[c][f]
    BY <1>11, <1>13 DEF Apply
  <2>4. Alone(c, f)'
    BY <1>1, <1>3, <1>4, <1>6, <2>1, <2>2 DEF Sure, Alone, Redundant
  <2>5. ASSUME NEW k \in Acks(c, f)', NEW i \in seen[c] + 1 .. Len(log), AckOf(c, f, k + 1, i)
        PROVE  i \in seen'[c] + 1 .. Len(log) /\ AckOf(c, f, k, i)'
    <3>1. i \in seen'[c] + 1 .. Len(log)
      BY <1>3, <1>7, <1>9, <2>5
    <3>2. chan'[c][k] = chan[c][k + 1] /\ k \in Nat
      BY <1>3, <1>4
    <3>3. \A l \in DOMAIN chan'[c] : l < k /\ ~chan'[c][l].ack => chan'[c][l].nr # i
      <4>1. \A l \in DOMAIN chan'[c] : l < k => l + 1 < k + 1
        BY <1>3, <3>2
      <4> QED BY <1>3, <2>5, <4>1 DEF AckOf
    <3>4. Redundant(log', seen'[c], f, log[i])
      BY <2>2, <2>5 DEF AckOf, Redundant
    <3> QED BY <1>1, <2>1, <2>5, <3>1, <3>2, <3>3, <3>4 DEF AckOf
  <2>6. AckFirst(c, f)'
    BY <1>1, <1>3, <1>6, <2>5 DEF Sure, AckFirst
  <2>7. OwnFirst(c, f)'
    BY <1>1, <2>1 DEF Sure, OwnFirst
  <2>8. Ahead(c, f)' <=> Ahead(c, f)
    <3>1. Acks(c, f) = {} => Acks(c, f)' = {}
      BY <1>3
    <3> QED BY <1>1, <1>3, <1>6, <2>1, <3>1 DEF Ahead
  <2>9. Shows(c, f)'
    BY <1>1, <1>6, <2>1, <2>2, <2>3, <2>8 DEF Sure, Shows
  <2> QED BY <1>10, <2>4, <2>6, <2>7, <2>9 DEF Sure
<1>14. CASE f \in DOMAIN log[s].patch
  <2>1. s \in Unseen(c, f)
    BY <1>12, <1>14
  <2>2. OwnPending(c, f) = {}
    BY <2>1 DEF Sure, Alone
  <2>3. Acks(c, f) = {}
    <3> SUFFICES ASSUME NEW k \in Acks(c, f) PROVE FALSE
      OBVIOUS
    <3>1. PICK i \in seen[c] + 1 .. Len(log) : AckOf(c, f, k, i)
      BY <2>2 DEF Sure, AckFirst
    <3>2. i <= s /\ i # s
      BY <1>9, <2>1, <3>1 DEF AckOf
    <3> QED BY <1>2, <3>2
  <2>4. Acks(c, f)' = {}
    BY <1>3, <2>3
  <2>5. \A i \in Unseen(c, f)' : log'[i].author # c
    <3> SUFFICES ASSUME NEW i \in Unseen(c, f), i # s, log[i].author = c PROVE FALSE
      BY <1>1, <1>8
    <3>1. i <= s
      BY <2>1 DEF Sure, OwnFirst
    <3>2. i \in seen[c] + 1 .. Len(log)
      BY DEF Unseen
    <3> QED BY <1>2, <3>1, <3>2
  <2>6. value'[c][f] = log[s].patch[f]
    <3>1. CASE DeliverForeign(c)
      <4>1. value'[c] = Apply(value[c], log[s].patch)
        BY <3>1 DEF DeliverForeign, AgreeInv, ClientType, ViewsType, s
      <4> QED BY <1>14, <4>1 DEF Apply
    <3>2. CASE DeliverOwn(c)
      <4>1. value'[c] = value[c] /\ log[s].author = c
        BY <3>2 DEF DeliverOwn, s
      <4>2. Ahead(c, f)
        BY <2>1, <2>3, <4>1 DEF Ahead
      <4> QED BY <2>1, <4>1, <4>2 DEF Sure, Shows
    <3> QED BY <3>1, <3>2
  <2>7. Wrote(log', seen'[c], f, value'[c][f])
    BY <1>1, <1>2, <1>14, <2>6, WroteNext
  <2>8. ~Ahead(c, f)'
    BY <1>6, <2>2, <2>5 DEF Ahead
  <2> QED BY <1>6, <2>2, <2>4, <2>5, <2>7, <2>8 DEF Sure, Alone, AckFirst, OwnFirst, Shows
<1> QED BY <1>13, <1>14

-----------------------------------------------------------------------------
(* Every step keeps the agreement of every client. *)

\* The row is what the log makes of it.
LEMMA RowIsWritten ==
  ASSUME Inv, NEW f \in Field
  PROVE  Wrote(log, Len(log), f, doc[f])
<1>1. LastWrite(f, doc[f]) /\ DOMAIN log = 1 .. Len(log)
  BY PendingTypes DEF Inv, NoLostUpdate
<1> QED BY <1>1 DEF LastWrite, Wrote

\* What a step has to keep for a client that neither loads nor subscribes in it
LEMMA AgreesStill ==
  ASSUME AgreeInv, NEW c \in Client,
         sub'[c] = sub[c], answer'[c] = answer[c], sub[c] = "answered" => seen'[c] = seen[c],
         \A i \in DOMAIN log : log'[i] = log[i],
         outOfStep \subseteq outOfStep', unsure \subseteq unsure',
         Apart(c) => Apart(c)',
         \A f \in Field :
           sub[c] \in {"joining", "joined"} /\ c \notin outOfStep' /\ << c, f >> \notin unsure' /\ Sure(c, f)
             => Sure(c, f)'
  PROVE  Agrees(c)'
<1>1. Agrees(c)
  BY DEF AgreeInv, Agreement
<1>2. sub'[c] \in {"none", "answered"} => Apart(c)'
  BY <1>1 DEF Agrees
<1>3. sub'[c] = "answered" => \A f \in Field : Wrote(log', seen'[c], f, answer'[c][f])
  <2>1. seen[c] \in Nat /\ \A i \in 1 .. seen[c] : i \in DOMAIN log
    <3>1. seen[c] \in 0 .. Len(log) /\ Len(log) \in Nat /\ DOMAIN log = 1 .. Len(log)
      BY PendingTypes DEF AgreeInv, ClientType, ViewsType
    <3> QED BY <3>1
  <2> QED BY <1>1, <2>1, WroteInBoth DEF Agrees
<1>4. ASSUME sub'[c] \in {"joining", "joined"}, c \notin outOfStep', NEW f \in Field, << c, f >> \notin unsure'
      PROVE  Sure(c, f)'
  <2>1. c \notin outOfStep /\ << c, f >> \notin unsure
    BY <1>4
  <2> QED BY <1>1, <1>4, <2>1 DEF Agrees
<1> QED BY <1>2, <1>3, <1>4 DEF Agrees

\* Messages and the log stay, and c's side with them, but that its channel may get a broadcast.
LEMMA ElsewhereAgrees ==
  ASSUME AgreeInv, NEW c \in Client, UNCHANGED << log, sent, unsure >>, Pending' = Pending,
         seen'[c] = seen[c], value'[c] = value[c], answer'[c] = answer[c], sub'[c] = sub[c],
         outOfStep \subseteq outOfStep',
         \/ chan'[c] = chan[c]
         \/ /\ sub[c] = "joined"
            /\ \E item \in Item : ~item.ack /\ chan'[c] = Append(chan[c], item)
  PROVE  Agrees(c)'
<1>1. Apart(c) /\ chan'[c] = chan[c] => Apart(c)'
  BY DEF Apart
<1>2. ASSUME NEW f \in Field, Sure(c, f) PROVE Sure(c, f)'
  <2>1. OwnPending(c, f)' = OwnPending(c, f) /\ Touching(c, f)' = Touching(c, f)
    BY DEF OwnPending, Touching
  <2>2. /\ Acks(c, f)' = Acks(c, f)
        /\ \A k \in Acks(c, f) : chan'[c][k] = chan[c][k]
        /\ \A k \in Acks(c, f), l \in DOMAIN chan'[c] :
             l < k => l \in DOMAIN chan[c] /\ chan'[c][l] = chan[c][l]
    <3>1. CASE chan'[c] = chan[c]
      BY <3>1 DEF Acks
    <3>2. CASE \E item \in Item : ~item.ack /\ chan'[c] = Append(chan[c], item)
      <4>1. PICK item \in Item : ~item.ack /\ chan'[c] = Append(chan[c], item)
        BY <3>2
      <4> QED BY <4>1, ItemComes DEF AgreeInv
    <3> QED BY <3>1, <3>2
  <2> QED BY <1>2, <2>1, <2>2, SureStays
<1>3. Agrees(c)
  BY DEF AgreeInv, Agreement
<1>4. CASE chan'[c] = chan[c]
  BY <1>1, <1>2, <1>4, AgreesStill
<1>5. CASE sub[c] = "joined"
  BY <1>2, <1>3, <1>5 DEF Agrees
<1> QED BY <1>4, <1>5

\* What the server makes of a message
LEMMA ServerAgrees ==
  ASSUME AgreeInv, ServerStep, NEW c \in Client
  PROVE  Agrees(c)'
<1>1. ASSUME NEW m \in sent, Accept(m) PROVE Agrees(c)'
  <2>1. /\ Pending' = Pending /\ m \in Pending
        /\ chan' = [chan EXCEPT ![m.author] = Append(@, [ack |-> TRUE, whole |-> m.whole])]
        /\ UNCHANGED << log, answer, sub, seen, outOfStep, unsure >>
    BY <1>1, MessageMoves DEF Accept, server, history, AgreeInv, Pending
  <2>2. m.author # c => chan'[c] = chan[c]
    BY <2>1 DEF AgreeInv, ClientType, QueuesType
  <2>3. Apart(c) => Apart(c)'
    BY <2>1, <2>2 DEF Apart
  <2>4. ASSUME NEW f \in Field, Sure(c, f) PROVE Sure(c, f)'
    BY <1>1, <2>4, AcceptKeepsSure
  <2> QED BY <2>1, <2>3, <2>4, AgreesStill
<1>2. ASSUME NEW m \in Pending, Pending' = Pending \ {m}, sent' = sent \ {m},
             UNCHANGED << log, chan, answer, sub, value, seen, outOfStep >>, unsure \subseteq unsure',
             \A f \in DOMAIN m.whole : m \in sent \/ << m.author, f >> \in unsure'
      PROVE  Agrees(c)'
  <2>1. Apart(c) => Apart(c)'
    BY <1>2 DEF Apart
  <2>2. ASSUME NEW f \in Field, << c, f >> \notin unsure', Sure(c, f) PROVE Sure(c, f)'
    <3>1. m.author = c /\ f \in DOMAIN m.whole => m \in sent
      BY <1>2, <2>2
    <3> QED BY <1>2, <2>2, <3>1, LossKeepsSure
  <2> QED BY <1>2, <2>1, <2>2, AgreesStill
<1>3. ASSUME NEW m \in sent, Unauthorized(m) PROVE Agrees(c)'
  <2>1. /\ m \in Pending /\ Pending' = Pending \ {m} /\ sent' = sent \ {m}
        /\ UNCHANGED << log, chan, answer, sub, value, seen, outOfStep, unsure >>
    BY <1>3, MessageMoves DEF Unauthorized, server, AgreeInv, Pending
  <2> QED BY <1>2, <2>1
<1>4. ASSUME NEW m \in accepted, QuotaViolation(m) PROVE Agrees(c)'
  <2>1. /\ m \in Pending /\ Pending' = Pending \ {m} /\ sent' = sent /\ m \notin sent
        /\ UNCHANGED << log, chan, answer, sub, value, seen, outOfStep >>
        /\ unsure' = unsure \cup {<< m.author, f >> : f \in DOMAIN m.whole}
    BY <1>4, MessageMoves DEF QuotaViolation, server, AgreeInv, Pending, OnePlace
  <2> QED BY <1>2, <2>1
<1>5. ASSUME NEW m \in accepted, StartTask(m) PROVE Agrees(c)'
  <2>1. /\ Pending' = Pending
        /\ UNCHANGED << log, sent, chan, answer, sub, value, seen, outOfStep, unsure >>
    BY <1>5, MessageMoves DEF StartTask, history, AgreeInv
  <2> QED BY <2>1, ElsewhereAgrees
<1>6. ASSUME NEW t \in running, CommitTask(t) PROVE Agrees(c)'
  <2>1. /\ t.message \in Pending /\ Pending' = Pending \ {t.message} /\ log' = Append(log, t.message)
        /\ UNCHANGED << chan, answer, sub, value, seen, outOfStep, unsure >>
    BY <1>6, MessageMoves DEF CommitTask, history, AgreeInv
  <2>2. /\ \A i \in DOMAIN log : log'[i] = log[i]
        /\ \A i \in DOMAIN log' : log'[i] = t.message \/ (i \in DOMAIN log /\ log'[i] = log[i])
    BY <2>1, PendingTypes DEF AgreeInv
  <2>3. Apart(c) => Apart(c)'
    BY <2>1, <2>2 DEF Apart
  <2>4. ASSUME NEW f \in Field, Sure(c, f) PROVE Sure(c, f)'
    BY <1>6, <2>4, CommitKeepsSure
  <2> QED BY <2>1, <2>2, <2>3, <2>4, AgreesStill
<1>7. ASSUME NEW t \in running, TaskFails(t) PROVE Agrees(c)'
  <2>1. /\ t.message \in Pending /\ Pending' = Pending \ {t.message} /\ t.message \notin sent
        /\ UNCHANGED << log, sent, chan, answer, sub, value, seen, outOfStep >>
        /\ unsure' = unsure \cup {<< t.message.author, f >> : f \in DOMAIN t.message.whole}
    BY <1>7, MessageMoves DEF TaskFails, AgreeInv
  <2> QED BY <1>2, <2>1
<1>8. ASSUME NEW i \in DOMAIN outbox, Broadcast(i) PROVE Agrees(c)'
  <2> DEFINE item == [ack |-> FALSE, nr |-> outbox[i]]
  <2>1. /\ UNCHANGED << log, running, sent, accepted, answer, sub, value, seen, outOfStep, unsure >>
        /\ chan'[c] = IF sub[c] = "joined" THEN Append(chan[c], item) ELSE chan[c]
    BY <1>8 DEF Broadcast, history
  <2>2. item \in Item /\ ~item.ack
    BY DEF Item, AgreeInv, ClientType, QueuesType
  <2>3. Pending' = Pending
    BY <2>1 DEF Pending
  <2> HIDE DEF item
  <2> QED BY <2>1, <2>2, <2>3, ElsewhereAgrees
<1> QED BY <1>1, <1>3, <1>4, <1>5, <1>6, <1>7, <1>8 DEF ServerStep

\* What a client a does, for any client c
LEMMA ClientAgrees ==
  ASSUME AgreeInv, NEW a \in Client, ClientStep(a), NEW c \in Client
  PROVE  Agrees(c)'
<1>1. /\ UNCHANGED << log, running, sent, accepted, unsure >> /\ Pending' = Pending
      /\ outOfStep \subseteq outOfStep'
  <2>1. UNCHANGED << log, running, sent, accepted, unsure >> /\ outOfStep \subseteq outOfStep'
    BY DEF ClientStep, Load, Loaded, Join, DeliverAck, DeliverForeign, DeliverOwn, Sees, server, history
  <2> QED BY <2>1 DEF Pending
<1>2. Agrees(c) /\ Agrees(a)
  BY DEF AgreeInv, Agreement
<1>3. CASE a # c
  <2>1. /\ chan'[c] = chan[c] /\ seen'[c] = seen[c] /\ value'[c] = value[c]
        /\ answer'[c] = answer[c] /\ sub'[c] = sub[c]
    BY <1>3 DEF ClientStep, Load, Loaded, Join, DeliverAck, DeliverForeign, DeliverOwn, Sees, Consume,
                server, history, AgreeInv, ClientType, QueuesType, ViewsType
  <2> QED BY <1>1, <2>1, ElsewhereAgrees
<1>4. CASE Load(c)
  <2>1. /\ sub[c] = "none" /\ sub'[c] = "answered" /\ answer'[c] = doc /\ seen'[c] = Len(log)
        /\ chan' = chan
    BY <1>4 DEF Load, AgreeInv, ClientType, ViewsType
  <2>2. Apart(c)'
    BY <1>1, <1>2, <2>1 DEF Agrees, Apart
  <2>3. \A f \in Field : Wrote(log', seen'[c], f, answer'[c][f])
    BY <1>1, <2>1, RowIsWritten DEF AgreeInv
  <2> QED BY <2>1, <2>2, <2>3 DEF Agrees
<1>5. CASE Loaded(c)
  <2>1. sub'[c] = "joining"
    BY <1>5 DEF Loaded, AgreeInv, ClientType, ViewsType
  <2>2. \A f \in Field : Sure(c, f)'
    BY <1>5, LoadedIsSure
  <2> QED BY <2>1, <2>2 DEF Agrees
<1>6. CASE Join(c)
  <2>1. /\ sub[c] = "joining" /\ sub'[c] = "joined"
        /\ UNCHANGED << chan, answer, value, seen, outOfStep >>
    BY <1>6 DEF Join, history, AgreeInv, ClientType, ViewsType
  <2>2. ASSUME NEW f \in Field, Sure(c, f) PROVE Sure(c, f)'
    <3>1. OwnPending(c, f)' = OwnPending(c, f) /\ Touching(c, f)' = Touching(c, f) /\ Acks(c, f)' = Acks(c, f)
      BY <1>1, <2>1 DEF OwnPending, Touching, Acks
    <3> QED BY <1>1, <2>1, <2>2, <3>1, SureStays
  <2> QED BY <1>1, <1>2, <2>1, <2>2 DEF Agrees
<1>7. CASE DeliverAck(c) \/ DeliverForeign(c) \/ DeliverOwn(c)
  <2>1. Consume(c) /\ UNCHANGED << answer, sub >>
    BY <1>7 DEF DeliverAck, DeliverForeign, DeliverOwn
  <2>2. sub[c] \in {"joining", "joined"}
    BY <1>2, <2>1 DEF Agrees, Apart, Consume, AgreeInv, ClientType, ViewsType
  <2>3. ASSUME c \notin outOfStep', NEW f \in Field, Sure(c, f) PROVE Sure(c, f)'
    BY <1>7, <2>3, AckShown, OtherAckKeepsSure, SeesKeepsSure
  <2> QED BY <1>1, <1>2, <2>1, <2>2, <2>3 DEF Agrees
<1> QED BY <1>3, <1>4, <1>5, <1>6, <1>7 DEF ClientStep

\* What a user of a does, for any client c
LEMMA UserAgrees ==
  ASSUME AgreeInv, NEW a \in Client, UserStep(a), NEW c \in Client
  PROVE  Agrees(c)'
<1>1. ASSUME NEW p \in Patch, Change(a, p) PROVE Agrees(c)'
  <2> DEFINE m == [author |-> a, nr |-> patches + 1, whole |-> p, patch |-> Changed(value[a], p)]
  <2>1. /\ sub[a] \in {"joining", "joined"} /\ sent' = sent \cup {m} /\ unsure \subseteq unsure'
        /\ UNCHANGED << log, running, accepted, chan, answer, sub, value, seen, outOfStep >>
    BY <1>1 DEF Change, server
  <2>2. Pending' = Pending \cup {m} /\ m.author = a
    BY <2>1 DEF Pending
  <2> HIDE DEF m
  <2>3. Agrees(c)
    BY DEF AgreeInv, Agreement
  <2>4. ASSUME NEW f \in Field, Sure(c, f), << c, f >> \notin unsure' PROVE Sure(c, f)'
    BY <1>1, <2>4, ChangeKeepsSure
  <2>5. sub[c] \in {"none", "answered"} => Apart(c)'
    <3>1. sub[c] \in {"none", "answered"} => c # a
      BY <2>1
    <3> QED BY <2>1, <2>2, <2>3, <3>1 DEF Agrees, Apart
  <2> QED BY <2>1, <2>3, <2>4, <2>5 DEF Agrees
<1> QED BY <1>1, DifferenceIsPatch DEF UserStep, SetValue

LEMMA AgreeInit == Init => AgreeInv
<1> SUFFICES ASSUME Init PROVE AgreeInv
  OBVIOUS
<1>1. OnePlace /\ \A c \in Client : Apart(c) /\ sub[c] = "none"
  BY KeyValueAssumption DEF Init, OnePlace, Apart, Pending
<1>2. Agreement
  BY <1>1 DEF Agreement, Agrees
<1> QED BY <1>1, <1>2, InitInv, ClientTypeInit DEF AgreeInv

LEMMA AgreeNext == AgreeInv /\ [Next]_vars => AgreeInv'
<1> SUFFICES ASSUME AgreeInv, [Next]_vars PROVE AgreeInv'
  OBVIOUS
<1>1. ASSUME NEW c \in Client PROVE Agrees(c)'
  <2>1. CASE UNCHANGED vars
    <3>1. Pending' = Pending
      BY <2>1 DEF vars, Pending
    <3> QED BY <2>1, <3>1, ElsewhereAgrees DEF vars
  <2> QED BY <2>1, ServerAgrees, ClientAgrees, UserAgrees DEF Next
<1>2. Agreement'
  BY <1>1 DEF Agreement
<1> QED BY <1>2, NextInv, NextClientType, OnePlaceStays DEF AgreeInv

\* Patches of different fields, or of one field one at a time, leave every joined client with the
\* row's value: a field that c shows otherwise has a patch on the way, or one of c's own patches of
\* it has met another one or was turned down. It takes the queue of the record, an acknowledgement
\* before the broadcast, and applying one's own patch at the acknowledgement only.
THEOREM UnracedAgree == Spec => []UnracedFieldsAgree
<1>1. AgreeInv => UnracedFieldsAgree
  <2> SUFFICES ASSUME AgreeInv, NEW c \in Client, NEW f \in Field,
                      Attached(c), << c, f >> \notin unsure, ~OnTheWay(c, f)
               PROVE  value[c][f] = doc[f]
    BY DEF UnracedFieldsAgree
  <2>1. Sure(c, f)
    BY DEF AgreeInv, Agreement, Agrees, Attached
  <2>2. Touching(c, f) = {} /\ Unseen(c, f) = {}
    BY DEF OnTheWay, Touching, Unseen
  <2>3. Wrote(log, seen[c], f, value[c][f])
    BY <2>1, <2>2, PendingOfBoth DEF Sure, Shows, Ahead
  <2>4. seen[c] \in 0 .. Len(log) /\ Len(log) \in Nat
    BY PendingTypes DEF AgreeInv, ClientType, ViewsType
  <2>5. Wrote(log, Len(log), f, value[c][f])
    <3>1. \A i \in seen[c] + 1 .. Len(log) : f \notin DOMAIN log[i].patch
      BY <2>2 DEF Unseen
    <3> QED BY <2>3, <2>4, <3>1, WroteToTheEnd
  <2>6. Wrote(log, Len(log), f, doc[f])
    BY RowIsWritten DEF AgreeInv
  <2> QED BY <2>4, <2>5, <2>6, WroteOnce
<1> QED BY AgreeInit, AgreeNext, <1>1, PTL DEF Spec
=============================================================================
