----------------------------- MODULE KeyValueSync -----------------------------
(***************************************************************************)
(* Concurrent patches of one key-value record.                             *)
(*                                                                         *)
(* The server reads the document, applies the patch and writes the whole   *)
(* document back, one patch at a time. A client shows its own patch when   *)
(* the server has acknowledged the message, which is before the patch is   *)
(* applied there, and everybody else's when its broadcast arrives.         *)
(*                                                                         *)
(* A document maps fields (the leaves' dotted paths) to values; that one   *)
(* path may be a prefix of another is left out.                            *)
(***************************************************************************)
EXTENDS Integers, Sequences, Functions, SequencesExt

CONSTANTS
  Client,      \* record objects, one per browser tab that opened the record
  Field,       \* paths of the document's leaves
  Nested,      \* those of more than one key, as author.name
  Val,         \* what a leaf may hold
  Absent,      \* no such leaf; in a patch: null, which removes it
  Shared,      \* TRUE: several server processes behind Redis (REDIS_HOST)
  MaxPatches,  \* bound on the patches users make
  MaxFaults    \* bound on the patches the server turns down

ASSUME KeyValueAssumption ==
  /\ Absent \notin Val
  /\ Nested \subseteq Field
  /\ Shared \in BOOLEAN
  /\ MaxPatches \in Nat
  /\ MaxFaults \in Nat

VARIABLES
  \* the server
  doc,       \* the row of kv_attributes
  log,       \* history: the patches applied, in order
  running,   \* tasks of the record's queue that have read the document
  outbox,    \* numbers of applied patches whose broadcast is still to come
  \* what is on the way
  sent,      \* messages the server has not looked at
  accepted,  \* messages acknowledged as delivered and waiting for quota and queue
  chan,      \* per client, what the socket is still to deliver
  answer,    \* per client, the answer to its GET
  \* the clients
  sub,       \* how far loading and subscribing are
  value,     \* the document the client shows
  \* history and bounds, read by no step of the program
  seen,      \* the last applied patch that was taken into client c's value
  outOfStep, \* clients that received another broadcast than the next one
  unsure,    \* << client, field >> that raced or were turned down
  patches,   \* patches made so far
  faults     \* patches turned down so far

server == << doc, log, running, outbox >>
history == << outOfStep, unsure, patches, faults >>
vars == << doc, log, running, outbox, sent, accepted, chan, answer, sub, value, seen,
           outOfStep, unsure, patches, faults >>

-----------------------------------------------------------------------------
Document == [Field -> Val \cup {Absent}]
Patch == UNION {[fields -> Val \cup {Absent}] : fields \in SUBSET Field}
IsPatch(p) == DOMAIN p # {}

\* KeyValueChange.apply: set-value, or unset for null
Apply(d, p) == [f \in Field |-> IF f \in DOMAIN p THEN p[f] ELSE d[f]]

\* Mutant: a removal counts as no change.
Changed_NoRemovals(d, p) ==
  Restrict(p, {f \in DOMAIN p : p[f] # Absent /\ (f \in Nested \/ d[f] # p[f])})

\* The part of a patch rawChange transmits. It looks a path up as one key, so it finds
\* no nested leaf, and it takes null for another value than undefined.
Changed(d, p) ==
  Restrict(p, {f \in DOMAIN p : p[f] = Absent \/ f \in Nested \/ d[f] # p[f]})

\* What rawSet makes of a new value: removals first, then what differs
Difference(d, new) == Restrict(new, {f \in Field : new[f] # d[f]})

-----------------------------------------------------------------------------
Init ==
  /\ doc = [f \in Field |-> Absent]
  /\ log = << >> /\ running = {} /\ outbox = << >>
  /\ sent = {} /\ accepted = {}
  /\ chan = [c \in Client |-> << >>]
  /\ sub = [c \in Client |-> "none"]
  /\ value = [c \in Client |-> doc]
  /\ answer = value
  /\ seen = [c \in Client |-> 0]
  /\ outOfStep = {} /\ unsure = {} /\ patches = 0 /\ faults = 0

\* load(): the GET reads the row
Load(c) ==
  /\ sub[c] = "none"
  /\ sub' = [sub EXCEPT ![c] = "answered"]
  /\ answer' = [answer EXCEPT ![c] = doc]
  /\ seen' = [seen EXCEPT ![c] = Len(log)]
  /\ UNCHANGED << server, sent, accepted, chan, value, history >>

\* load() goes on with the answer and subscribes
Loaded(c) ==
  /\ sub[c] = "answered"
  /\ sub' = [sub EXCEPT ![c] = "joining"]
  /\ value' = [value EXCEPT ![c] = answer[c]]
  /\ UNCHANGED << server, sent, accepted, chan, answer, seen, history >>

\* The server puts the socket into the channel
Join(c) ==
  /\ sub[c] = "joining"
  /\ sub' = [sub EXCEPT ![c] = "joined"]
  /\ UNCHANGED << server, sent, accepted, chan, answer, value, seen, history >>

-----------------------------------------------------------------------------
(* Which patches are on the way, for the properties only *)

Pending == sent \cup accepted \cup {t.message : t \in running}

\* A patch of f that c has made, or is yet to receive, is under way.
OnTheWay(c, f) ==
  \/ \E m \in Pending : f \in DOMAIN (IF m.author = c THEN m.whole ELSE m.patch)
  \/ \E i \in (seen[c] + 1) .. Len(log) : f \in DOMAIN log[i].patch
  \/ \E i \in DOMAIN chan[c] : chan[c][i].ack /\ f \in DOMAIN chan[c][i].whole

\* Message m races with what is under way, for its author and for others whose own
\* patch the server has not applied.
Races(m) ==
  {<< m.author, f >> : f \in {g \in DOMAIN m.whole : OnTheWay(m.author, g)}}
    \cup UNION {{<< o.author, f >> : f \in DOMAIN o.whole \cap DOMAIN m.patch} : o \in Pending}

-----------------------------------------------------------------------------
\* rawChange: what differs is sent; the client shows nothing yet
Change(c, p) ==
  LET m == [author |-> c, nr |-> patches + 1, whole |-> p, patch |-> Changed(value[c], p)] IN
  /\ sub[c] \in {"joining", "joined"}
  /\ patches < MaxPatches
  /\ IsPatch(m.patch)
  /\ sent' = sent \cup {m}
  /\ patches' = patches + 1
  /\ unsure' = unsure \cup Races(m)
  /\ UNCHANGED << server, accepted, chan, answer, sub, value, seen, outOfStep, faults >>

\* rawSet
SetValue(c, new) == Change(c, Difference(value[c], new))

\* verifyAuthorizedSend is true: onMessage is called, not awaited, and the sender
\* told 'delivered'
Accept(m) ==
  /\ m \in sent
  /\ sent' = sent \ {m}
  /\ accepted' = accepted \cup {m}
  /\ chan' = [chan EXCEPT ![m.author] = Append(@, [ack |-> TRUE, whole |-> m.whole])]
  /\ UNCHANGED << server, answer, sub, value, seen, history >>

\* verifyAuthorizedSend is false: sendToServer returns false and nothing is shown
Unauthorized(m) ==
  /\ faults < MaxFaults /\ faults' = faults + 1
  /\ m \in sent
  /\ sent' = sent \ {m}
  /\ UNCHANGED << server, accepted, chan, answer, sub, value, seen, outOfStep, unsure, patches >>

\* ensureStorageSpaceToSave throws. The notice changes nothing at the clients.
QuotaViolation(m) ==
  /\ faults < MaxFaults /\ faults' = faults + 1
  /\ m \in accepted
  /\ accepted' = accepted \ {m}
  /\ unsure' = unsure \cup {<< m.author, f >> : f \in DOMAIN m.whole}
  /\ UNCHANGED << server, sent, chan, answer, sub, value, seen, outOfStep, patches >>

\* Mutant: tasks of a record run side by side.
QueueFree_Always == TRUE

\* The queue of a record runs one task at a time.
QueueFree == running = {}

\* KeyValueRecord.change, up to the answer of get()
StartTask(m) ==
  /\ m \in accepted
  /\ QueueFree
  /\ accepted' = accepted \ {m}
  /\ running' = running \cup {[message |-> m, current |-> doc]}
  /\ UNCHANGED << doc, log, outbox, sent, chan, answer, sub, value, seen, history >>

\* ... and from there: the new document is written whole
CommitTask(t) ==
  /\ t \in running
  /\ running' = running \ {t}
  /\ doc' = Apply(t.current, t.message.patch)
  /\ log' = Append(log, t.message)
  /\ outbox' = Append(outbox, Len(log) + 1)
  /\ UNCHANGED << sent, accepted, chan, answer, sub, value, seen, history >>

\* get() or set() throws, as when the author lost access meanwhile: nobody is told
TaskFails(t) ==
  /\ faults < MaxFaults /\ faults' = faults + 1
  /\ t \in running
  /\ running' = running \ {t}
  /\ unsure' = unsure \cup {<< t.message.author, f >> : f \in DOMAIN t.message.whole}
  /\ UNCHANGED << doc, log, outbox, sent, accepted, chan, answer, sub, value, seen,
                  outOfStep, patches >>

\* sendMessage; with Redis one process may overtake another
Broadcast(i) ==
  /\ i \in DOMAIN outbox
  /\ Shared \/ i = 1
  /\ chan' = [c \in Client |-> IF sub[c] = "joined"
                               THEN Append(chan[c], [ack |-> FALSE, nr |-> outbox[i]])
                               ELSE chan[c]]
  /\ outbox' = RemoveAt(outbox, i)
  /\ UNCHANGED << doc, log, running, sent, accepted, answer, sub, value, seen, history >>

-----------------------------------------------------------------------------
Arrived(c) == Head(chan[c])
\* A client that missed a broadcast, or gets one its GET had answered, does not notice.
Sees(c) ==
  /\ seen' = [seen EXCEPT ![c] = Arrived(c).nr]
  /\ outOfStep' = IF Arrived(c).nr = seen[c] + 1 THEN outOfStep ELSE outOfStep \cup {c}
Consume(c) == chan[c] # << >> /\ chan' = [chan EXCEPT ![c] = Tail(@)]

\* rawChange goes on after the acknowledgement: the whole patch is applied
DeliverAck(c) ==
  /\ Consume(c)
  /\ Arrived(c).ack
  /\ value' = [value EXCEPT ![c] = Apply(@, Arrived(c).whole)]
  /\ UNCHANGED << server, sent, accepted, answer, sub, seen, history >>

\* onServerMessage of somebody else's patch
DeliverForeign(c) ==
  /\ Consume(c)
  /\ ~Arrived(c).ack /\ log[Arrived(c).nr].author # c
  /\ value' = [value EXCEPT ![c] = Apply(@, log[Arrived(c).nr].patch)]
  /\ Sees(c)
  /\ UNCHANGED << server, sent, accepted, answer, sub, unsure, patches, faults >>

\* onServerMessage of the client's own patch returns at once
DeliverOwn(c) ==
  /\ Consume(c)
  /\ ~Arrived(c).ack /\ log[Arrived(c).nr].author = c
  /\ Sees(c)
  /\ UNCHANGED << server, sent, accepted, answer, sub, value, unsure, patches, faults >>

-----------------------------------------------------------------------------
ServerStep ==
  \/ \E m \in sent : Accept(m)
  \/ \E m \in sent : Unauthorized(m)
  \/ \E m \in accepted : QuotaViolation(m)
  \/ \E m \in accepted : StartTask(m)
  \/ \E t \in running : CommitTask(t)
  \/ \E t \in running : TaskFails(t)
  \/ \E i \in DOMAIN outbox : Broadcast(i)

ClientStep(c) ==
  \/ Load(c)
  \/ Loaded(c)
  \/ Join(c)
  \/ DeliverAck(c)
  \/ DeliverForeign(c)
  \/ DeliverOwn(c)

UserStep(c) ==
  \/ \E p \in Patch : Change(c, p)
  \/ \E new \in Document : SetValue(c, new)

Next == ServerStep \/ \E c \in Client : ClientStep(c) \/ UserStep(c)

Spec == Init /\ [][Next]_vars

-----------------------------------------------------------------------------
(* Properties *)

Message == [author : Client, nr : Nat, whole : Patch, patch : Patch]
Item == [ack : {TRUE}, whole : Patch] \cup [ack : {FALSE}, nr : Nat]

\* Every variable has its type, broadcasts name patches that were applied, and the
\* record's queue runs one task at a time.
TypeOK ==
  /\ doc \in Document
  /\ log \in Seq(Message)
  /\ running \subseteq [message : Message, current : Document]
  /\ \A s, t \in running : s = t
  /\ outbox \in Seq(DOMAIN log)
  /\ sent \subseteq Message /\ accepted \subseteq Message
  /\ chan \in [Client -> Seq(Item)]
  /\ \A c \in Client : \A i \in DOMAIN chan[c] :
       ~chan[c][i].ack => chan[c][i].nr \in DOMAIN log
  /\ answer \in [Client -> Document] /\ value \in [Client -> Document]
  /\ sub \in [Client -> {"none", "answered", "joining", "joined"}]
  /\ seen \in [Client -> 0 .. Len(log)]
  /\ outOfStep \subseteq Client /\ unsure \subseteq Client \X Field
  /\ patches \in 0 .. MaxPatches /\ faults \in 0 .. MaxFaults

\* v is what the patches applied so far make of field f: the last one that touches it.
LastWrite(f, v) ==
  \/ v = Absent /\ \A i \in DOMAIN log : f \notin DOMAIN log[i].patch
  \/ \E i \in DOMAIN log :
       /\ f \in DOMAIN log[i].patch /\ v = log[i].patch[f]
       /\ \A j \in DOMAIN log : j > i => f \notin DOMAIN log[j].patch

\* Writing back the whole document loses no other patch: every field of the row holds
\* what the last patch of that field made of it.
NoLostUpdate == \A f \in Field : LastWrite(f, doc[f])

\* The applied patches whose broadcasts are still to reach c
Awaited(c) ==
  LET broadcasts == SelectSeq(chan[c], LAMBDA item : ~item.ack)
  IN [i \in DOMAIN broadcasts |-> broadcasts[i].nr] \o outbox

\* c is joined and going to see every patch after those it has taken in, in order.
Attached(c) ==
  /\ sub[c] = "joined" /\ c \notin outOfStep
  /\ Awaited(c) = [i \in 1 .. (Len(log) - seen[c]) |-> seen[c] + i]

\* A client shows the server's value of every field that no patch is under way for,
\* unless its own patch of that field met another one on the way or was turned down:
\* patches of different fields never disturb each other, nor do patches one by one.
UnracedFieldsAgree ==
  \A c \in Client, f \in Field :
    Attached(c) /\ << c, f >> \notin unsure /\ ~OnTheWay(c, f) => value[c][f] = doc[f]

\* What the tests and the documentation say (the value converges, last write wins): once
\* everything is delivered, all clients show the record, whoever wrote what meanwhile.
ReplicasConverge ==
  \A c \in Client, f \in Field :
    Attached(c) /\ faults = 0 /\ (\A g \in Field : ~OnTheWay(c, g)) => value[c][f] = doc[f]

=============================================================================
