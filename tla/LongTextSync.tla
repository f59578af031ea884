---------------------------- MODULE LongTextSync ----------------------------
(***************************************************************************)
(* Collaborative editing of one long text record.                          *)
(*                                                                         *)
(* The server keeps a log of committed deltas. A client fetches the record *)
(* over HTTP, then joins the record's channel and from there on receives   *)
(* one broadcast per committed change, its own included. At most one       *)
(* change of a client is in transmission; what is typed meanwhile is       *)
(* merged into a buffer, sent when the broadcast of the client's own       *)
(* change (its approval) arrives.                                          *)
(*                                                                         *)
(* Texts and changesets are abstracted to what operational transformation  *)
(* is about: which edits a text contains, and for which text a changeset   *)
(* was made. A text is the set of its edits. A changeset carries edits     *)
(* (ops) and the text it was made for (ctx). Working on a changeset made   *)
(* for another text either throws (the lengths differ) or yields a text    *)
(* nobody typed, which contains the marker Scrambled. That transforming    *)
(* two changesets of the same text leads to the same text on both sides    *)
(* (TP1) is taken from the changesets library.                             *)
(***************************************************************************)
EXTENDS Integers, Sequences, FiniteSets

CONSTANTS
  Client,       \* record objects, one per browser tab that opened the record
  Edit,         \* the edits users may type, each of them once
  Scrambled,    \* marks a text that a changeset for another text was applied to
  Shared,       \* TRUE: several server processes behind Redis (REDIS_HOST)
  Fault,        \* the kinds of fault that may happen
  MaxFaults,    \* bound on the number of faults
  MaxLoads      \* bound on the outstanding GETs of one client

FaultKind == {"quota", "unauthorized", "disconnect", "crash"}

ASSUME SyncAssumption ==
  /\ Scrambled \notin Edit
  /\ Shared \in BOOLEAN
  /\ Fault \subseteq FaultKind
  /\ MaxFaults \in Nat
  /\ MaxLoads \in Nat \ {0}

VARIABLES
  \* the server
  log,            \* committed deltas; the i-th has change id i + 1
  running,        \* tasks of the record's queue between their two database steps
  outbox,         \* ids of committed changes whose broadcast is still to come
  \* what is on the way
  sent,           \* changes a client sent that no task has taken up
  chan,           \* per client, what the socket is still to deliver
  requests,       \* GETs the server has not read the record for
  replies,        \* answers to GETs on their way to the client
  \* the clients
  sub,            \* how far the client's subscription to the channel is
  initialized,    \* isInitialized
  value,          \* the text the client shows
  version,        \* the change id the client believes to have reached
  inTransmission, \* whether changeInTransmission is set
  inFlightOp,     \* ChangeBuffer.inFlightOp
  buffer,         \* ChangeBuffer.value
  \* history and bounds, read by no step of the program
  made,           \* edits typed so far
  outOfStep,      \* clients that processed a message their state did not expect
  faults          \* faults so far

server == << log, running, outbox >>
loads == << requests, replies >>
replica == << value, version, inTransmission, inFlightOp, buffer >>
vars == << log, running, outbox, sent, chan, requests, replies, sub, initialized,
           value, version, inTransmission, inFlightOp, buffer, made, outOfStep, faults >>

-----------------------------------------------------------------------------
(* Texts and changesets *)

Text == SUBSET (Edit \cup {Scrambled})
Changeset == [ops : SUBSET Edit, ctx : Text]
NoChange == [ops |-> {}, ctx |-> {}]
IsChange(cs) == cs.ops # {}

\* Changeset.apply
Apply(text, cs) ==
  text \cup cs.ops \cup (IF cs.ctx = text THEN {} ELSE {Scrambled})

\* Changeset.transformAgainst: cs as it must look once other is applied
Transform(cs, other) ==
  [ops |-> cs.ops,
   ctx |-> cs.ctx \cup other.ops \cup (IF cs.ctx = other.ctx THEN {} ELSE {Scrambled})]

\* Changeset.merge: first, then second, as one changeset
Merge(first, second) ==
  [ops |-> first.ops \cup second.ops,
   ctx |-> first.ctx \cup (IF second.ctx = first.ctx \cup first.ops
                           THEN {} ELSE {Scrambled})]

\* ChangeBuffer.add
AddToBuffer(buf, cs) == IF IsChange(buf) THEN Merge(buf, cs) ELSE cs

-----------------------------------------------------------------------------
(* The server's record *)

\* The change id of the last row; the initial snapshot has id 1.
Latest == Len(log) + 1

\* getByChangeId: the snapshot and the deltas up to change id v
Doc(v) == UNION {log[i].ops : i \in 1 .. (v - 1)}

\* Mutant: the delta after v is skipped.
Since_SkipsFirst(v, h) == [ops |-> UNION {log[i].ops : i \in (v + 1) .. (h - 1)}, ctx |-> Doc(v)]

\* getChangeSince, merged: the deltas after v that the task saw, up to id h
Since(v, h) == [ops |-> UNION {log[i].ops : i \in v .. (h - 1)}, ctx |-> Doc(v)]

\* A committed change as it is broadcast
Committed(id) == [ops |-> log[id - 1].ops, ctx |-> Doc(id - 1)]
AuthorOf(id) == log[id - 1].author

\* What stands in a channel for the broadcast of an error
QuotaNotice == 0

-----------------------------------------------------------------------------
Init ==
  /\ log = << >>
  /\ running = {}
  /\ outbox = << >>
  /\ sent = {}
  /\ chan = [c \in Client |-> << >>]
  /\ requests = {}
  /\ replies = {}
  /\ sub = [c \in Client |-> "none"]
  /\ initialized = [c \in Client |-> FALSE]
  /\ value = [c \in Client |-> {}]
  /\ version = [c \in Client |-> 0]
  /\ inTransmission = [c \in Client |-> FALSE]
  /\ inFlightOp = [c \in Client |-> NoChange]
  /\ buffer = [c \in Client |-> NoChange]
  /\ made = {}
  /\ outOfStep = {}
  /\ faults = 0

-----------------------------------------------------------------------------
(* Loading and joining *)

Slot == 1 .. MaxLoads
SlotTaken(c, k) == << c, k >> \in requests \/ \E r \in replies : r.client = c /\ r.load = k
Loading(c) == \E k \in Slot : SlotTaken(c, k)

\* load() of a record that is not initialized: the GET leaves
Load(c) ==
  /\ ~initialized[c]
  /\ ~Loading(c)
  /\ requests' = requests \cup {<< c, 1 >>}
  /\ UNCHANGED << server, sent, chan, replies, sub, initialized, replica, made, outOfStep, faults >>

\* LongTextRecord.get on the server: the record as it is now
GetRecord(c, k) ==
  /\ << c, k >> \in requests
  /\ requests' = requests \ {<< c, k >>}
  /\ replies' = replies \cup {[client |-> c, load |-> k, version |-> Latest]}
  /\ UNCHANGED << server, sent, chan, sub, initialized, replica, made, outOfStep, faults >>

\* load() goes on with the answer, calls onLoad and, the first time, subscribes
Loaded(c, r) ==
  /\ r \in replies /\ r.client = c
  /\ replies' = replies \ {r}
  /\ version' = [version EXCEPT ![c] = r.version]
  /\ value' = [value EXCEPT ![c] = Doc(r.version)]
  /\ initialized' = [initialized EXCEPT ![c] = TRUE]
  /\ inTransmission' = [inTransmission EXCEPT ![c] = FALSE]
  /\ inFlightOp' = [inFlightOp EXCEPT ![c] = NoChange]
  /\ buffer' = [buffer EXCEPT ![c] = NoChange]
  /\ sub' = [sub EXCEPT ![c] = IF @ = "none" THEN "joining" ELSE @]
  /\ outOfStep' = outOfStep \ {c}
  /\ UNCHANGED << server, sent, chan, requests, made, faults >>

\* The server puts the socket into the channel and acknowledges
Join(c) ==
  /\ sub[c] = "joining"
  /\ sub' = [sub EXCEPT ![c] = "joined"]
  /\ UNCHANGED << server, sent, chan, loads, initialized, replica, made, outOfStep, faults >>

-----------------------------------------------------------------------------
(* Editing *)

\* The message transmitChange sends
Message(c, parent, cs) ==
  [author |-> c, parent |-> parent, ops |-> cs.ops, ctx |-> cs.ctx,
   inStep |-> c \notin outOfStep]

\* rawChange while nothing is in transmission
TransmitEdit(c, e) ==
  LET cs == [ops |-> {e}, ctx |-> value[c]] IN
  /\ ~inTransmission[c]
  /\ inTransmission' = [inTransmission EXCEPT ![c] = TRUE]
  /\ inFlightOp' = [inFlightOp EXCEPT ![c] = cs]
  /\ sent' = sent \cup {Message(c, version[c], cs)}
  /\ UNCHANGED buffer

\* Mutant: a change is sent although one is in transmission.
BufferEdit_SendsToo(c, e) ==
  LET cs == [ops |-> {e}, ctx |-> value[c]] IN
  /\ inTransmission[c]
  /\ buffer' = [buffer EXCEPT ![c] = AddToBuffer(@, cs)]
  /\ sent' = sent \cup {Message(c, version[c], cs)}
  /\ UNCHANGED << inTransmission, inFlightOp >>

\* rawChange while a change is in transmission
BufferEdit(c, e) ==
  LET cs == [ops |-> {e}, ctx |-> value[c]] IN
  /\ inTransmission[c]
  /\ buffer' = [buffer EXCEPT ![c] = AddToBuffer(@, cs)]
  /\ UNCHANGED << sent, inTransmission, inFlightOp >>

\* rawChange: the edit shows at once
LocalEdit(c, e) ==
  /\ initialized[c]
  /\ e \in Edit \ made
  /\ made' = made \cup {e}
  /\ value' = [value EXCEPT ![c] = @ \cup {e}]
  /\ TransmitEdit(c, e) \/ BufferEdit(c, e)
  /\ UNCHANGED << server, chan, loads, sub, initialized, version, outOfStep, faults >>

-----------------------------------------------------------------------------
(* The server *)

\* Mutant: tasks of a record run side by side.
QueueFree_Always == TRUE

\* The queue of a record runs one task at a time.
QueueFree == running = {}

\* A change passes authorization and quota; its task reads the deltas it missed.
StartTask(p) ==
  /\ p \in sent
  /\ QueueFree
  /\ sent' = sent \ {p}
  /\ running' = running \cup {[change |-> p, head |-> Latest]}
  /\ UNCHANGED << log, outbox, chan, loads, sub, initialized, replica, made, outOfStep, faults >>

\* transformedClientChange: getChangeSince is null when there are no newer deltas
Rebased(t) ==
  IF t.change.parent < t.head
  THEN Transform(t.change, Since(t.change.parent, t.head))
  ELSE [ops |-> t.change.ops, ctx |-> t.change.ctx]

\* The changeset was made for the text it is going to be applied to.
Fits(t) == Rebased(t).ctx = Doc(Latest)

\* insertRecordChange
CommitTask(t) ==
  /\ t \in running
  /\ running' = running \ {t}
  /\ log' = Append(log, [author |-> t.change.author, ops |-> Rebased(t).ops,
                         inStep |-> t.change.inStep, exact |-> Fits(t)])
  /\ outbox' = Append(outbox, Latest + 1)
  /\ UNCHANGED << sent, chan, loads, sub, initialized, replica, made, outOfStep, faults >>

\* ensureChangeCanBeApplied throws, or transformAgainst does: nobody is told
MergeFails(t) ==
  /\ t \in running
  /\ ~Fits(t)
  /\ running' = running \ {t}
  /\ UNCHANGED << log, outbox, sent, chan, loads, sub, initialized, replica, made,
                  outOfStep, faults >>

\* Mutant: the author of a change is left out, as with socket.broadcast.
Emit_ToOthers(message) ==
  chan' = [c \in Client |->
             IF sub[c] = "joined" /\ ~(message \in 2 .. Latest /\ AuthorOf(message) = c)
             THEN Append(chan[c], message) ELSE chan[c]]

\* io.to(channel).emit
Emit(message) ==
  chan' = [c \in Client |-> IF sub[c] = "joined" THEN Append(chan[c], message) ELSE chan[c]]

\* Mutant: broadcasts overtake each other in one process, too.
MayOvertake_Always == TRUE

\* One process broadcasts in commit order. With Redis the lock is released before
\* the broadcast, so one process may overtake another.
MayOvertake == Shared

\* sendMessage, after the task's end
Broadcast(i) ==
  /\ i \in 1 .. Len(outbox)
  /\ MayOvertake \/ i = 1
  /\ Emit(outbox[i])
  /\ outbox' = SubSeq(outbox, 1, i - 1) \o SubSeq(outbox, i + 1, Len(outbox))
  /\ UNCHANGED << log, running, sent, loads, sub, initialized, replica, made, outOfStep, faults >>

-----------------------------------------------------------------------------
(* Faults *)

Happens(fault) == fault \in Fault /\ faults < MaxFaults /\ faults' = faults + 1

\* ensureStorageSpaceToSave throws: an error for everybody in the channel
QuotaViolation(p) ==
  /\ Happens("quota")
  /\ p \in sent
  /\ sent' = sent \ {p}
  /\ Emit(QuotaNotice)
  /\ UNCHANGED << server, loads, sub, initialized, replica, made, outOfStep >>

\* verifyAuthorizedSend is false: sendToServer returns false, the edit stays
Unauthorized(p) ==
  /\ Happens("unauthorized")
  /\ p \in sent
  /\ sent' = sent \ {p}
  /\ UNCHANGED << server, chan, loads, sub, initialized, replica, made, outOfStep >>

\* The socket breaks. The client reconnects but does not join the channel again.
\* What it had sent may have got through or not.
Disconnect(c) ==
  /\ Happens("disconnect")
  /\ sub[c] = "joined"
  /\ sub' = [sub EXCEPT ![c] = "cut"]
  /\ chan' = [chan EXCEPT ![c] = << >>]
  /\ sent' \in {sent, {p \in sent : p.author # c}}
  /\ UNCHANGED << server, loads, initialized, replica, made, outOfStep >>

\* The server process dies; the database keeps the committed deltas.
Crash ==
  /\ Happens("crash")
  /\ running' = {} /\ outbox' = << >> /\ sent' = {}
  /\ chan' = [c \in Client |-> << >>]
  /\ requests' = {} /\ replies' = {}
  /\ sub' = [c \in Client |-> IF sub[c] = "joined" THEN "cut" ELSE sub[c]]
  /\ UNCHANGED << log, initialized, replica, made, outOfStep >>

-----------------------------------------------------------------------------
(* What the socket delivers to a client *)

\* The message at the head of the client's channel is the broadcast of change id.
Arrives(c, id) == chan[c] # << >> /\ Head(chan[c]) = id /\ id # QuotaNotice
Consume(c) == chan' = [chan EXCEPT ![c] = Tail(@)]

\* What a replica that has followed every broadcast expects next
Expected(c, id) == id = version[c] + 1 /\ c \notin outOfStep
FellOut(c, expected) == outOfStep' = IF expected THEN outOfStep ELSE outOfStep \cup {c}

\* handleQuotaViolationError: a notice; changeInTransmission stays as it is
DeliverNotice(c) ==
  /\ chan[c] # << >> /\ Head(chan[c]) = QuotaNotice
  /\ Consume(c)
  /\ UNCHANGED << server, sent, loads, sub, initialized, replica, made, outOfStep, faults >>

\* Mutant: what is buffered is put in flight and never sent.
Resend_Nothing(c, id) == {}

\* transmitChange of what is buffered when the approval of change id arrives
Resend(c, id) == IF IsChange(buffer[c]) THEN {Message(c, id, buffer[c])} ELSE {}

\* processApproval
DeliverApproval(c, id) ==
  /\ Arrives(c, id) /\ AuthorOf(id) = c
  /\ Consume(c)
  /\ version' = [version EXCEPT ![c] = id]
  /\ inTransmission' = [inTransmission EXCEPT ![c] = IsChange(buffer[c])]
  /\ inFlightOp' = [inFlightOp EXCEPT ![c] = buffer[c]]
  /\ buffer' = [buffer EXCEPT ![c] = NoChange]
  /\ FellOut(c, Expected(c, id) /\ log[id - 1].exact /\ inFlightOp[c].ops = log[id - 1].ops)
  /\ sent' = sent \cup {[p EXCEPT !.inStep = c \notin outOfStep'] : p \in Resend(c, id)}
  /\ UNCHANGED << server, loads, sub, initialized, value, made, faults >>

\* Mutant: the foreign change is not transformed against inFlightOp.
AfterInFlight_AsReceived(c, m) == m

\* ChangeBuffer.transformAgainst: c2 fits the text after inFlightOp, c1 the text shown
AfterInFlight(c, m) == IF IsChange(inFlightOp[c]) THEN Transform(m, inFlightOp[c]) ELSE m

\* Mutant: the buffer is forgotten.
AfterBuffer_NoBuffer(c, m) == AfterInFlight(c, m)

AfterBuffer(c, m) ==
  IF IsChange(inFlightOp[c]) /\ IsChange(buffer[c])
  THEN Transform(AfterInFlight(c, m), buffer[c])
  ELSE AfterInFlight(c, m)

\* Mutants: inFlightOp, or the buffer, stays as it was.
InFlightAfter_Same(c, m) == inFlightOp[c]
BufferAfter_Same(c, m) == buffer[c]

InFlightAfter(c, m) == IF IsChange(inFlightOp[c]) THEN Transform(inFlightOp[c], m) ELSE NoChange
BufferAfter(c, m) ==
  IF IsChange(inFlightOp[c]) /\ IsChange(buffer[c])
  THEN Transform(buffer[c], AfterInFlight(c, m))
  ELSE buffer[c]

\* processForeignChange
DeliverForeign(c, id) ==
  LET m == Committed(id) IN
  /\ Arrives(c, id) /\ AuthorOf(id) # c
  /\ Consume(c)
  /\ value' = [value EXCEPT ![c] = Apply(@, AfterBuffer(c, m))]
  /\ version' = [version EXCEPT ![c] = id]
  /\ inFlightOp' = [inFlightOp EXCEPT ![c] = InFlightAfter(c, m)]
  /\ buffer' = [buffer EXCEPT ![c] = BufferAfter(c, m)]
  /\ FellOut(c, Expected(c, id))
  /\ UNCHANGED << server, sent, loads, sub, initialized, inTransmission, made, faults >>

\* Its catch block: the change does not fit, the client reloads. The clear() drops
\* what is buffered, changeInTransmission stays until the answer arrives.
DeliverMisfit(c, id, k) ==
  /\ Arrives(c, id) /\ AuthorOf(id) # c
  /\ AfterBuffer(c, Committed(id)).ctx # value[c] \/ Scrambled \in value[c]
  /\ k \in Slot /\ ~SlotTaken(c, k)
  /\ Consume(c)
  /\ inFlightOp' = [inFlightOp EXCEPT ![c] = NoChange]
  /\ buffer' = [buffer EXCEPT ![c] = NoChange]
  /\ requests' = requests \cup {<< c, k >>}
  /\ FellOut(c, FALSE)
  /\ UNCHANGED << server, sent, replies, sub, initialized, value, version, inTransmission,
                  made, faults >>

-----------------------------------------------------------------------------
Ids == 1 .. Latest

ServerStep ==
  \/ \E p \in sent : StartTask(p)
  \/ \E t \in running : CommitTask(t)
  \/ \E t \in running : MergeFails(t)
  \/ \E i \in 1 .. Len(outbox) : Broadcast(i)
  \/ \E q \in requests : GetRecord(q[1], q[2])

FaultStep ==
  \/ \E p \in sent : QuotaViolation(p)
  \/ \E p \in sent : Unauthorized(p)
  \/ \E c \in Client : Disconnect(c)
  \/ Crash

Receive(c) ==
  \/ DeliverNotice(c)
  \/ \E id \in Ids : DeliverApproval(c, id)
  \/ \E id \in Ids : DeliverForeign(c, id)
  \/ \E id \in Ids, k \in Slot : DeliverMisfit(c, id, k)

ClientStep(c) ==
  \/ \E r \in replies : Loaded(c, r)
  \/ Join(c)
  \/ Receive(c)

UserStep(c) == Load(c) \/ \E e \in Edit : LocalEdit(c, e)

Next ==
  \/ ServerStep
  \/ FaultStep
  \/ \E c \in Client : ClientStep(c) \/ UserStep(c)

Spec == Init /\ [][Next]_vars

\* The event loops of server and clients run what is ready. Users and faults owe nothing.
Fairness ==
  /\ WF_vars(ServerStep)
  /\ \A c \in Client : WF_vars(ClientStep(c))

FairSpec == Spec /\ Fairness

-----------------------------------------------------------------------------
(* Properties *)

Delta == [author : Client, ops : SUBSET Edit, inStep : BOOLEAN, exact : BOOLEAN]
Change == [author : Client, parent : Nat, ops : SUBSET Edit, ctx : Text, inStep : BOOLEAN]

\* Every variable has its type, ids name changes that exist, and the queue of the
\* record (concurrency 1, or the Redis mutex) runs one task at a time.
TypeOK ==
  /\ log \in Seq(Delta)
  /\ running \subseteq [change : Change, head : Nat]
  /\ \A s, t \in running : s = t
  /\ outbox \in Seq(2 .. Latest)
  /\ sent \subseteq Change
  /\ chan \in [Client -> Seq({QuotaNotice} \cup 2 .. Latest)]
  /\ requests \subseteq Client \X Slot
  /\ replies \subseteq [client : Client, load : Slot, version : 1 .. Latest]
  /\ sub \in [Client -> {"none", "joining", "joined", "cut"}]
  /\ initialized \in [Client -> BOOLEAN]
  /\ value \in [Client -> Text]
  /\ version \in [Client -> 0 .. Latest]
  /\ inTransmission \in [Client -> BOOLEAN]
  /\ inFlightOp \in [Client -> Changeset]
  /\ buffer \in [Client -> Changeset]
  /\ made \subseteq Edit
  /\ outOfStep \subseteq Client
  /\ faults \in 0 .. MaxFaults

InStep(c) == initialized[c] /\ c \notin outOfStep

\* A client that has processed every broadcast it expected shows the committed text of
\* its version with its own unapproved edits on top, and the changesets it holds chain:
\* inFlightOp is made for that text, the buffer for the text after inFlightOp. This is
\* what ChangeBuffer.transformAgainst has to keep up with every foreign change.
ExactReplica ==
  \A c \in Client : InStep(c) =>
    LET f == inFlightOp[c]
        b == buffer[c]
    IN /\ value[c] = Doc(version[c]) \cup f.ops \cup b.ops
       /\ IsChange(f) => f.ctx = Doc(version[c])
       /\ IsChange(b) => b.ctx = Doc(version[c]) \cup f.ops

\* changeByChangeset never puts a change sent by a replica in step at a place its author
\* did not mean: what it rebased was made for the text the log had when it was inserted.
ChangesLandWhereMeant == \A i \in 1 .. Len(log) : log[i].inStep => log[i].exact

\* Whatever clients lose by reloading, no edit is applied to the record twice: it is in
\* at most one of the messages, the running task, the deltas and the buffers.
EditInOnePlace ==
  \A e \in made :
    Cardinality({p \in sent : e \in p.ops})
      + Cardinality({t \in running : e \in t.change.ops})
      + Cardinality({i \in 1 .. Len(log) : e \in log[i].ops})
      + Cardinality({c \in Client : e \in buffer[c].ops}) <= 1

\* Processing these messages leads from version v to version l, without a gap or a repetition.
LeadsOn(messages, v, l) ==
  LET changes == {i \in DOMAIN messages : messages[i] # QuotaNotice} IN
  /\ {messages[i] : i \in changes} = (v + 1) .. l
  /\ \A i, j \in changes : i < j => messages[i] < messages[j]

\* The messages still to reach c, in the order it will process them
Awaited(c) == chan[c] \o outbox

\* What c sent and has seen no broadcast of
Unapproved(c) ==
  {p.ops : p \in {q \in sent : q.author = c}}
    \cup {t.change.ops : t \in {u \in running : u.change.author = c}}
    \cup {log[i].ops : i \in {j \in version[c] .. Len(log) : log[j].author = c}}

\* c is joined and going to see every change after its version, once and in order.
Attached(c) ==
  /\ sub[c] = "joined" /\ InStep(c) /\ ~Loading(c)
  /\ LeadsOn(Awaited(c), version[c], Latest)
  /\ \A ops \in Unapproved(c) : inTransmission[c] /\ ops = inFlightOp[c].ops

\* As long as one process broadcasts in commit order, an attached client stays attached
\* until its socket breaks: no interleaving of its typing, the broadcasts and the
\* server's tasks makes it miss or repeat a change, or take an approval for another one.
AttachedStaysAttached ==
  [][\A c \in Client : Attached(c) /\ sub'[c] # "cut" => Attached(c)']_vars

\* Nothing is on the way.
Quiet ==
  /\ sent = {} /\ running = {} /\ outbox = << >>
  /\ \A c \in Client : chan[c] = << >> /\ ~Loading(c)

\* Without faults, once all messages are processed, every attached client shows the
\* committed text and has nothing left in transmission or buffered.
AttachedClientsConverge ==
  Quiet /\ faults = 0 =>
    \A c \in Client : Attached(c) =>
      value[c] = Doc(Latest) /\ ~inTransmission[c] /\ ~IsChange(buffer[c])

\* What the tests say of all clients that have loaded the record and joined
JoinedClientsConverge ==
  Quiet /\ faults = 0 => \A c \in Client : sub[c] = "joined" => value[c] = Doc(Latest)

\* An edit of an attached client is committed, however long it sits in the buffer.
AttachedEditsCommit ==
  \A c \in Client, e \in Edit :
    Attached(c) /\ e \in inFlightOp[c].ops \cup buffer[c].ops ~> e \in Doc(Latest)

\* A committed edit reaches every attached client.
CommittedEditsArrive ==
  \A c \in Client, e \in Edit :
    Attached(c) /\ e \in Doc(Latest) ~> version[c] = Latest /\ e \in value[c]

-----------------------------------------------------------------------------
(* The promise this implements *)

Own(c) == inFlightOp[c].ops \cup buffer[c].ops

Promise == INSTANCE SharedText WITH
  committed <- [i \in 1 .. Len(log) |-> log[i].ops],
  view <- [c \in Client |->
             IF InStep(c)
             THEN [known |-> TRUE, seen |-> version[c] - 1, own |-> Own(c), text |-> value[c]]
             ELSE [known |-> FALSE]]

\* Every step is a step of SharedText or invisible there: what a replica in step shows
\* moves through the committed changes one by one, and no own edit vanishes on the way.
KeepsThePromise == Promise!Spec

=============================================================================
