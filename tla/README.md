# TLA+ specifications of LinkedRecords

LinkedRecords is a server, a browser SDK and a client-server bus for collaborative
applications. Users create *records* (long texts, key-value documents, blobs), describe
them with *facts* (subject, predicate, object), and edit them concurrently. Facts also
decide who may read, change and own what. The specifications here cover the parts where
several actors meet: the synchronisation of long texts and of key-value documents, the bus
they use, the saving and deleting of the facts that authorize everything else, the boxes these
facts are kept in, the queries over them and the subscriptions to queries, the creation of
records in one request, the caches of the server processes, quotas and payments.

Paths are relative to the repository root. `PROJECT.json` maps every definition to the
lines it models.

## The system

| Component | Where | State | Operations | Correct when |
|---|---|---|---|---|
| Long text records, client | `src/records/long_text/client`, `abstract_record_client.ts` | value, version, `changeInTransmission`, the `ChangeBuffer` (`inFlightOp`, `value`) | load, set/change, approval, foreign change, reload | the text shown is the committed text plus what the user typed; nothing typed is lost or doubled |
| Long text records, server | `src/records/long_text/server`, `record_storage/psql_with_history` | the delta log and snapshots in PostgreSQL | get, change (rebase and insert) | a change lands where its author meant it |
| Key-value records | `src/records/key_value`, `record_storage/psql` | one JSON document per record; a copy per client | patch, set, change (read, apply, write) | no patch is lost; clients show the record |
| Queued tasks | `lib/queued-tasks` | one queue or Redis mutex per record id | do | at most one task of a record runs |
| Client-server bus | `lib/client-server-bus`, `src/server/service_bus_mount.ts` | sockets, rooms, subscriptions, messages held back while paused | subscribe, send, broadcast, pause/unpause | every member of a channel gets each broadcast once, in order |
| Facts | `src/facts/server/index.ts`, `authorization_sql_builder.ts`, `facts_controller.ts` | table `facts`, `deleted_facts` | save, delete, query, authorization checks | roles cannot be gained outside the rules; one accountable node per record |
| Fact boxes | `src/facts/server/fact_box.ts` | box and graph of every fact, users of every box | placement, move of a private graph, merges | facts about connected nodes are in one box, and whoever has a role in it is assigned |
| Caches | `src/server/cache.ts`, `auth_cache.ts` | per process: roles, scopes, terms, user ids | get, set, invalidate (over Redis) | a revoked permission is not answered from a cache for ever |
| Quota | `src/server/quota`, `payment_provider`, `quota_upgrade.ts` | `quota_events`, unchecked consumption per process | ensureStorageSpaceToSave, set, webhook | storage stays within what the accountable node has paid for, up to a bounded slack |
| Query subscriptions | `query_subscription_service.ts` | channels `query-sub:...` | onFactsAdded, onFactsDeleted | who sees another query result is told |
| Queries | `src/facts/server/index.ts`, `record_query.ts` | column `latest` of `facts` | find records, find facts, refresh of `latest` | a query finds what its clauses say, of what the user may see |
| Record creation and compositions | `records_controller.ts`, `records/*/server` | records and facts of one request | create one, create several with their facts | what is stored has exactly one accountable node; an answer means that all is done |
| Endpoints, OIDC, blobs, SDK wrappers | `controllers`, `browser_sdk`, ... | none of their own, or whole values | see `PROJECT.json` | |

**How they interact.** A client loads a record with a GET and then subscribes to its channel
on the bus (two calls, in this order). It sends changes as bus messages; the bus checks
authorization, acknowledges the message and hands it, without waiting, to `onMessage`, which
checks the quota, queues the change of the record, and broadcasts the committed change to the
channel, author included. Authorization is a query over the facts in the user's boxes, with
process-local caches in front. Saving a fact places it in a box, may merge boxes, and
notifies query subscriptions. Quotas follow `$isAccountableFor` facts.

**What is hard.** Everything is asynchronous: each `await` is a point where other requests of
the process run, each SQL statement is a transaction of its own, and behind Redis several
processes share one database. The client and the server transform concurrent changes
independently and must agree. Messages and acknowledgements overtake what they are about;
broadcasts of different processes are unordered; sockets break; records are reloaded while
changes are in transmission. `PROJECT.json` lists each of these hazards at its line.

## The modules

| Module | What it is |
|---|---|
| `SharedText` | what collaboration on one long text promises: views that follow one sequence of changes |
| `LongTextSync` | clients, server, queue and bus for one long text record |
| `KeyValueSync` | clients, server, queue and bus for one key-value record |
| `Authorization` | who may save and delete which fact: operators over the facts a query looks at |
| `Facts` | requests that save and delete facts, every query looking at all facts |
| `FactsHistory` | `Facts` with the records whose accountability two requests changed at once; what holds of all others |
| `FactBoxes` | the same requests with the boxes facts are placed in and scopes of queries; implements `Facts` |
| `FactBoxesHistory` | `FactBoxes` with the records that two requests got hold of at once; what holds of all others |
| `Compositions` | one request that creates records together with their facts; uses `Authorization` |
| `Queries` | the rows of the facts table with their column `latest`, and what a query over them finds |
| `LiveQueries` | pages that subscribe to a query, and whoever changes its result |
| `ClientServerBus` | the socket between the server and one page: calls, answers, handlers, pauses |
| `Caches` | the process-local caches of all server processes and how entries are dropped |
| `Quota` | uploads, who is charged for them, and the estimate of what is left |
| `Payments` | from subscriptions over webhooks to quota events and totals |
| `MC...` | the instances for TLC: symmetry sets, and the parts that are checked in one run |
| `Induction` | lemmas: induction over numbers and finite sets, functions by iteration, sums |
| `..._proofs` | theorems, with their proofs; `Facts_proofs` is also about `Compositions` and `Queries`, `Server_proofs` about `Caches`, `Payments` and `Quota` |

`MCFacts` and `MCKeyValueSync` put components side by side that share no state (`Facts`,
`Compositions`, `Payments`, `Caches`; `KeyValueSync`, `ClientServerBus`, `LiveQueries`, `Queries`,
`Quota`). A variable `part` says whose behaviour it is, the others stay as they
begin. Nothing is claimed of how these components work together; such a run has the states of
the sum of its parts and not of their product. Where components do share state the modules say so:
`FactBoxes` implements `Facts`, `LongTextSync` implements `SharedText` and has its own queue
and subscription, `Compositions`, `Facts` and `FactBoxes` use the same `Authorization`.

### LongTextSync

Variables are named after the code: `value`, `version`, `inTransmission` (whether
`changeInTransmission` is set), `inFlightOp`, `buffer` (`ChangeBuffer.value`), `sub` and
`initialized` on the client; `log` for the delta rows, `running` for a task between the read
and the INSERT of `changeByChangeset`, `outbox` for commits whose broadcast is still to come;
`sent`, `chan`, `requests` and `replies` for what is under way. `made`, `outOfStep` and
`faults` are history: no step of the program reads them.

| Action | Code |
|---|---|
| `Load`, `GetRecord`, `Loaded`, `Join` | `load()`: the GET leaves, the server reads the record, the client takes the answer and resets its buffer, the server joins the socket |
| `LocalEdit` (`TransmitEdit`, `BufferEdit`) | `rawChange()`: sent at once, or merged into the buffer while a change is in transmission |
| `StartTask`, `CommitTask`, `MergeFails` | `changeByChangeset()`: first the reads, then rebase, check and INSERT; an unfit change throws and nobody is told |
| `Broadcast`, `QuotaViolation`, `Unauthorized` | `onMessage` of the bus mount and the refusals |
| `DeliverApproval`, `DeliverForeign`, `DeliverMisfit`, `DeliverNotice` | `onServerMessage()`, approval with the transmission of the buffer, transformation of foreign changes, the reload after a change that does not fit, the error broadcast |
| `Disconnect`, `Crash` | a broken socket (socket.io reconnects, rooms are not joined again); the death of the process, which loses what is in memory and keeps the log |

*Abstraction of texts.* A text is the set of its edits, a changeset its edits plus the text
it was made for. That is exactly what decides whether operational transformation is applied
to the right operands: working on a changeset made for another text either throws or yields
a text with the mark `Scrambled`. That transforming two changesets of one text against each
other gives the same text on both sides (TP1) is the library's promise and is assumed. So is
that the tie-break for inserts at one position agrees; a concrete model on short strings is
planned.

### KeyValueSync

A document maps leaf paths to values. `Change` is `rawChange` (what differs is sent, nothing
is shown), `Accept` the acknowledgement, after which `DeliverAck` shows the whole patch,
`StartTask`/`CommitTask` the server's read and write of the whole document, `DeliverForeign`
and `DeliverOwn` the broadcasts. `Changed` keeps the quirk that a nested path is looked up as
one key and so always differs. Refusals (`Unauthorized`, `QuotaViolation`, `TaskFails`) are
bounded faults. The history variables `seen`, `outOfStep` and `unsure` say which fields have
raced; the properties read them, the steps do not.

### Facts

A request is one fact to be saved or deleted, with the place its handler has reached:
`RequestSave`/`RequestDelete` are the checks of the controller, `CheckAgain`, `SelectOld`,
`DeleteOld`, `InsertNew` the statements of a transfer of accountability in `Fact.save`,
`InsertFact` the save of any other fact, `CheckDelete`, `DeleteFact` the deletion.
`MaxAtOnce` bounds the requests served at the same time; nothing in the code does. The rules are in `Authorization`:
`Accessible` and `Groups` are the authorization query, which takes the facts it looks at; here
these are all.

No lock and no transaction holds two requests apart, and a transfer takes several statements.
`FactsHistory` therefore adds a history variable, `contested`: the records of which two requests
past their last check have changed the accountability at once. It is a function of the requests,
restricts nothing, and the properties speak about all other records: whatever is served at the
same time, invitations, deletions, requests about other records, does not get into the way of a
transfer. `LenientSpec` is `Facts` with requests that may also be turned away before they have
changed anything; it is what `FactBoxes` implements when requests overlap.

### FactBoxes

A row of the table `facts` is a fact, its box and its graph; a place without graph
(`NoGraph`) is a shared box, one with a graph belongs to the user whose box it is. `assigned`
is the table `users_fact_boxes`, `Scope(u)` and `Seen(u)` what a query of user `u` looks at.
`Facts` stays the abstract specification, with the facts of all rows for `facts` and the requests
without their placement for `requests`: `BoxesAllowNothingMore` is
`Unboxed!LenientSpec`, where a request may be turned away, and `BoxesGoUnnoticed` says when each
step is one of `Unboxed!Next`, where it may not. The difference is what requests that
overlap do to each other: a role that is looked up in the user's boxes may be missed while its row
is on the way, never gained.

| Action | Code |
|---|---|
| `CreateRecord` | `createAccountableFact` in a new graph of the creator's own box |
| `RequestSave`, `RequestDelete`, `CheckAgain`, `CheckDelete` | the checks, with roles looked up in the boxes of the user who asks |
| `Find` | `getFactPlacementOf`: one lookup per side of the fact, each a query of its own |
| `Decide` (`PlaceRole`, `PlaceAboutUser`, `PlaceConnection`) | the branches of `getFactBoxPlacement`: where the fact goes and which statements come before |
| `Execute` (`MoveRows`, `ReassignUsers`) | one UPDATE or INSERT of the `Promise.all` in `moveUserGraphToNewFactBox`, `mergeUserGraphs`, `mergeFactBoxes`, `mergeUserGraphToFactBox`, `ensureUserIsAssignedToFactBox`, in any order |
| `SelectOld`, `DeleteOld`, `InsertFact`, `DeleteFact` | the statements after the placement |

A statement is a record: the table, whether it is about a graph, a box or a user, and the
place its rows get. Ids of users and boxes come from one sequence in the database, so that no
shared box has the id of a user. `Notified` is who is told of a changed fact: after the INSERT
or the DELETE, `query_subscription_service.ts` looks for subscribed users of the box that the
row was put into or that the deleted row had (its own user, or the users assigned to it).

A user may serve as a group (`UserGroups`): a fact that gives somebody a role *in* a user goes into
that user's own box, without a graph, and lets the other one into it.

`FactBoxesHistory` adds two history variables to this module. `grouped` is the users in whom anybody
or anything had a role so far. `contested` is records: one is contested once two requests past their
last check have got hold of it at once, one that is about it and another one that is about it, too,
or has looked up the place its facts are in in order to move it. Nothing is restricted;
`UncontestedInOnePlace` speaks about all records but the contested ones, whatever becomes of those,
and `ScopeLosesNothing`, `ChangesAreNotified` and `BoxesGoUnnoticed` about behaviours until either
variable gets its first element.

### Compositions

One request by one user, for one record or for several with facts between them. `asked` is the sequence of facts
it came with, `todo` the positions of those still to be saved (transfers first, in their order),
`stage` says how far each record is, `saved` is the table.

| Action | Code |
|---|---|
| `CreateOneRecord`, `CreateComposition` | the two endpoints of `records_controller.ts` |
| `CheckComposition`, `ReserveStorage` | the checks before anything is stored, with records in creation taken for accessible; then the quota |
| `SaveAccountability`, `StoreContent`, `CreationFails` | `createAll` of each kind, kinds at the same time; key-value records of a request are stored together |
| `StartFacts`, `StartTransfer`, `EndTransfer`, `SaveFacts` | transfers one by one through `Fact.save`, which checks again; the other facts at once or one by one |
| `MoveAccountability` | `moveAllAccountabilityFactsToFactBox`, when the composition is a graph of its own |
| `RequestBreaksOff`, `LoseGroup` | a failing statement or the death of the process; another request that takes a group from the user |

### Queries

`InsertRow` and `DeleteRow` are the statements, each with a refresh of `latest` to follow
(`RefreshLatestState`), which a crash may swallow (`RefreshLost`). The rest are operators: one
per clause of the SQL statement (`SelectSubjects`, `Below` for transitive predicates,
`PassesModifier`, `SubjectSelects`, `ObjectSelects`, `Blacklist`) and their intersection
(`FindNodes`, `ResolveToRecords`, `FindFacts`). `AnswersMeanWhatTheySay` compares them with a
reference definition that has no SQL in it: chains of facts, and the fact inserted last.

### LiveQueries

| Action | Code |
|---|---|
| `SubscribeToQuery`, `JoinChannel`, `ReceiveAnswer` | `subscribeToQuery` in the browser: join, then the first query |
| `ReceivePing`, `AnswerQuery`, `ShowResult` | a message of the channel runs the query again; answers come in any order |
| `UnsubscribeFromQuery` | the handler goes, the room stays |
| `ChangeFacts`, `ListChannels`, `SendPings` | `notifyFactChanged`: after the save the channels of this process are looked through, then the database is asked whom it concerns |
| `SocketBreaks`, `Reload`, `FetchFails`, `InstanceRestarts` | what takes a room, a page, an answer or a list of channels away |

`untold` is history: for each page the changes it was not told of, and whether because its
channel was not on the list of the process that changed the facts, or because of a mishap.

### ClientServerBus

| Action | Code |
|---|---|
| `Call`, `Opened`, `OpenFails` | `subscribe` and `send`, which wait for the one attempt of `ensureConnection` |
| `Answer`, `ReceiveCallAnswer` | the server joins the room, then acknowledges; the page registers its handler after that |
| `SendToChannel`, `ReceiveData` | a broadcast to a room; the listener calls the handlers of the channel, or holds the message back for each of them |
| `PauseNotification`, `UnpauseNotification`, `Unsubscribe` | as in the client driver; `isPaused` is never reset there |
| `SocketGoes`, `Reconnect` | the transport breaks; socket.io connects again, and nobody joins again |

### Caches

A key in `Whole` stands for an entry that is read and replaced as a whole (the boxes in a
user's scope, the terms), one in `Positive` for an entry that collects answers that were yes
(roles, single terms, the records a query found).

| Action | Code |
|---|---|
| `ReadSet`, `AskQuestion`, `RunQuery` | a miss: the query starts, and its answer is what the database says now |
| `Store` | `cache.set` after the await |
| `AnnounceChange`, `MakeChange` | `cache.invalidate` before the DELETE or INSERT it is for |
| `MoveGraph`, `AnnounceMove` | `moveUserGraphToNewFactBox`, where the database is changed first |
| `NewYes` | a save that nothing has to be dropped for |
| `ReceiveDrop` | the message over Redis |
| `RestartProcess` | a process dies between any two of these |

### Quota and Payments

In `Quota`, `Upload` looks up the accountee and enters `estimateRemainingStorageSize`
(`EstimateRemaining`: below the slack it answers from the two counters of the process, else it
reads); `ReadTotal`, `ReadUsed`, `EndRead` are the two queries and what follows them,
`SaveUpload` the INSERT, `Assign` a new latest quota event, `Restart` the loss of the counters.
In `Payments`, `Subscribe`, `ChangeSubscription`, `ScheduleEnd`, `EndSubscription` are the
provider (external), `HandleCallback` the webhook, which becomes the row `QuotaEventOf`;
`LatestQuotaEvent`, `TotalStorageAvailable` and `IsUpgraded` are what the server reads from the
rows. `Quota` takes the latest event as given and `Payments` says which it is. Uploads under way
are told apart by a number from `FreeNumbers`, as calls of an async function are by themselves.

How far the quota can be exceeded (`Overshoot`) grows with the *square* of the number of uploads
served at once: an upload that has to read sets the counter of its server back, so that the slack
goes through once more for each upload that waits, and each read that ends late and found less
than the quota tells its server of something available again, after which all that repeats.
A bound that was linear in `MaxParallel` held in the run and failed with three uploads at once.

## What the runs check

| Run | Instance | Shows |
|---|---|---|
| `lt_sync` | 2 clients, 4 edits, one process, no faults | `ExactReplica`, `AttachedClientsConverge`, `AttachedStaysAttached`; refinement of `SharedText` (`KeepsThePromise`) |
| `lt_faults` | 2 clients, 3 edits, several processes, 2 faults of any kind, 2 GETs at once | the same safety where it survives faults, `ChangesLandWhereMeant` and `EditInOnePlace` |
| `lt_live` | 2 clients, 3 edits, fair | edits of attached clients are committed and arrive |
| `lt_gap` | 2 clients, 1 edit | violated: clients that loaded and joined converge |
| `kv_sync` | 2 clients, 2 fields, 2 patches, 1 fault; a page with 2 calls on 2 channels, 3 broadcasts and a broken socket; 2 pages on 2 instances, a change and a mishap; 3 writes about 2 records and a term; a user, an organization, a server, 7 uploads, or 4 and a quota event, 2 at once | `NoLostUpdate`, `UnracedFieldsAgree`; `InOrderOnce`; `ResultsArrive`; `LatestIsNewest`, `AnswersMeanWhatTheySay`; `OvershootBounded` |
| `kv_race` | 2 clients, 1 field, 2 patches | violated: replicas converge |
| `facts` | 2 users, 2 records, 2 predicates, 5 requests, 2 at once; a request for 2 records with 2 facts; 2 subscriptions; 2 processes with caches, 2 changes | `UncontestedHaveOne`, `UncontestedStayWithGroups`; `StoredIsAccountable`, `AnswerTellsTheTruth`; `QuotaFollowsSubscription`; `StaleOnlyIfExcused` |
| `facts_transfer` | 1 user, 3 records, 2 requests at once | violated: exactly one accountable node |
| `facts_users` | 2 users, 2 records, one request at a time | violated: only creators and groups are accountable |
| `composition_partial` | 1 user, 2 new records, 2 facts | violated: a composition that is turned down leaves nothing |
| `boxes` | 2 records, 3 predicates; 3 users with 5 requests one at a time, or 2 users with 4 requests, 2 at once; users may be groups | `UncontestedInOnePlace`, `ScopeLosesNothing`, `ChangesAreNotified`, `OnlyOwnersLetIn`; refinement of `Facts`, exact where nothing disturbs it (`BoxesGoUnnoticed`), with requests turned away always (`BoxesAllowNothingMore`) |
| `boxes_race` | 2 users, 2 records, 3 predicates, 4 requests, 2 at once | violated: members have the access of their group |

The violated ones state what the documentation or a test says; `PROJECT.json` quotes it under
`findings` and tells the counterexample.

What some of the properties say, and what they leave open:

* `UncontestedHaveOne`: a record has exactly one accountable node, except between the statements of
  its own transfer, and except where two requests about its own accountability ran into each other.
  Which they may: `facts_transfer` shows it. `UncontestedStayWithGroups`: such a record is never
  taken from its group; a contested one can be, by a user's transfer to himself that passed its
  check together with the transfer to the group.
* `UncontestedInOnePlace`: the facts of a record are never in two places, not even between two
  statements, unless two requests had got hold of that record at once. Being connected to a record
  that is torn apart does no harm. `ScopeLosesNothing`, `ChangesAreNotified` and
  `BoxesGoUnnoticed` are about behaviours in which no record is contested and no user used as a
  group yet (`Undisturbed`): what a merge by another request does to the notifications of a request
  it overlaps is excluded, not covered.
* `OnlyOwnersLetIn`: with users as groups others do get into a user's own box, and see all that is
  there. It says that nothing but that user's own request does this: no merge or hand-over of boxes
  sweeps an assignment into a box of somebody else.
* `StoredIsAccountable`: however a request with records breaks off, each stored record has
  exactly one accountable node, except between the DELETE and the INSERT of a transfer, where a
  crash leaves a record nobody is accountable for. `AnswerTellsTheTruth`: a request that was
  answered has stored every record and every fact.
* `LatestIsNewest`: the column that queries read as "latest" is right whenever every write's
  refresh has run, whatever order writes and refreshes come in.
* `ChangesAreNotified`: whoever gains or loses a role by a saved or deleted fact, by whatever
  chain of groups, is among those a query subscription tells, found by the box of that one fact.
* `ResultsArrive`: a page at rest has received every change of its query's result except those
  `untold` names. `InOrderOnce`: a handler gets each message once and in order, all of them
  while the socket holds.
* `StaleOnlyIfExcused`: a cache answers what the database does not say only if a message to
  drop the entry is under way, a query that overlapped the change stored it, a graph was moved
  and the entry not dropped yet, or a crash came between these two.
* `OvershootBounded`: apart from what somebody else was charged for, usage exceeds the highest
  total by less than `MaxParallel * (MaxBytes + Slack * (MaxParallel + servers - 1))`, where
  `MaxParallel` uploads are served at the same time. `QuotaFollowsSubscription`: once the webhooks have arrived and the clock has
  passed their dates, the total is the one that is paid for.

**Bounds.** Two clients are enough for every pair of concurrent changes; four edits let one
client have a change in flight and two merged in its buffer while a foreign change arrives,
which is the longest chain `ChangeBuffer.transformAgainst` distinguishes. Two faults allow a
fault during the recovery from another. In `Facts`, five requests are enough to create a
group and a record, to invite a member, to transfer the record, and to attack the result, and two
at once for every pair of statements to meet; the
proofs lift the bounds for the properties they cover. In `FactBoxes`, two records are enough
for every pair of places that can be connected, and three users for a shared box whose other
users have to be handed over when it is merged; five requests create two records, share both
and connect them. With two at a time four requests are checked: two records are created, and any
two requests about them overlap, which is what `boxes_race` needs to lose an access. In `Compositions`, two
records are needed for a transfer between new records and for one that is stored together with
others, two facts for one that is saved before another is refused. In `Queries`, two records and
a term are the ends of a chain and a cycle, three writes an older, a newer and a deleted fact
about the same subject. In `LiveQueries`, two pages on two instances let one list lack the
other's channel, two queries of one page overtake each other, one mishap is enough to break any
step. In `ClientServerBus`, two calls are two handlers, on one channel or on two. In `Caches`,
two changes and a query suffice for a drop that overtakes the answer it is about; in `Quota`, seven
uploads exceed the first total of one by more than the bound, if all are let through (with a quota
event, which makes ten times as many states, four are checked); in `Payments`, two subscriptions follow
each other with the end of the first announced early. The proofs lift all of these bounds for
the properties they are about, the number of requests that are served at once among them; what
stays model-checked is listed below. Clients, edits, values, users, records and processes are
interchangeable in all formulas of the runs with symmetry. Some of these have action properties
and refinements; they are safety properties, for which symmetry is sound. The one run of liveness
properties, `lt_live`, has none.

**Deadlock** is not checked: every edit, patch, request, call, change and webhook is bounded,
so each instance stops when its users have done what they may.

**Fairness.** `FairSpec` assumes weak fairness of the server's steps together and of each
client's steps together: Node's event loop takes every ready callback, TCP delivers what it
keeps. Typing is never fair: users may stop at any time. Loading is not assumed to be
repeated. `lt_live` has no faults, since a lost approval really does stop a client.

## What is proved

`tlapm` checks these for all values of the constants that satisfy the modules' assumptions.

* `LongTextSync_proofs`: `TypeCorrect`, `ReplicasExact`, `CommitsLandWhereMeant`,
  `NothingTwice`, the refinement of `SharedText`, `PromiseKept`, and `AttachedConverge`,
  `AttachedStay`. The inductive invariant `ReplicaInv` joins the types, `Chains(c)` for every
  client in step (the text is the committed text of its version plus own edits; `inFlightOp` is
  made for that text and the buffer for the text after it) and that every message, task and delta
  of a client in step was made for the text of its parent. `Doc` is defined by a union over the
  log, so that the log's growth leaves earlier texts alone (`DocStable`, `DocSpan`). The heart is
  `Diamond`: a foreign change that fits the client's version is transformed through `inFlightOp`
  and the buffer, and these through it, and all ends on the next committed text. The theorems
  need no assumption on faults, processes or the order of broadcasts: a client out of order is
  out of step and the invariant promises nothing for it. `NothingTwice` adds `OnePlace`: the
  edits of messages, the task, the log and what is unsent are each in one place, and rebasing and
  transforming leave a change's edits alone. `PromiseKept` is the refinement of `SharedText`:
  with `OwnApart` (what a client has in flight is elsewhere only as its own message, task or
  delta) each step moves at most the view of one client or the committed sequence, and maps to
  one step of `SharedText` or to a stutter. `AttachedConverge` adds `WayInv`: what a client in
  step has in flight is on its way to the log or among the deltas it has still to be told of, so
  that a client for which nothing is under way has merged all. `AttachedStay` holds for one
  process (`Shared = FALSE`), where broadcasts come in the order of the commits; with several it
  is false, and TLC shows a client that misses a change.
* `KeyValueSync_proofs`: `TypeCorrect` (`ClientType` rests on the log only growing),
  `NoUpdateLost` and `UnracedAgree`. The inductive part of `NoUpdateLost` is that the task at
  work has read the row as it is (`TaskReadsTheRow`), which the record's queue guarantees and
  which makes writing back the whole document harmless. For `UnracedAgree`, `AgreeInv` says of
  each client in step and each field that is not unsure what is shown: what the patches seen so
  far make of the field or, between the acknowledgement of an own patch and its broadcast, the
  own value (`Shows`); that such a patch is alone on its field (`Alone`), and that its
  acknowledgement comes before its broadcast and both before anybody else's (`AckFirst`,
  `OwnFirst`).
* `ClientServerBus_proofs`: `BusTypeCorrect`, `HandlersMissNothing`. `BusInv` puts what a
  handler was given, what is held back for it and what is on the wire in one line: numbers rise
  along it, and nothing sent since the handler's call was answered is missing unless the socket
  broke (`Gets`). Before the handler exists, the place of its answer on the wire divides what it
  will miss from what it will get.
* `Facts_proofs`, about `Facts` and `FactsHistory`, for any number of requests at once:
  `TypeCorrect`, `ExactlyOneAccountable`, `NoWayBack`. The invariant `InOrder` says of each record that is not
  contested what the facts look like at each place of the one request that is changing its
  accountability, if there is one: before the replacement exactly the user who asked is accountable,
  during it what is left to delete is all there is, and a deletion that was allowed concerns a fact
  that does not exist. Requests that have not passed their last check yet may be as many as there
  are: the check that lets one of them through looks at the facts again.
* `Facts_proofs`, about `Compositions`: `CompTypeCorrect`, `StoredHaveOwners`, `AnswersAreTrue`.
  `CompInv` says at each phase which records and facts are stored, and of each stored record
  that the last of its transfers that is done decides who is accountable (`Accounted`), except
  in the middle of the next one (`handing`).
* `Facts_proofs`, about `Queries`: `QueryTypeCorrect`, `MarkedIsNewest`,
  `QueriesAnswerWhatTheyAsk`, and `AnyQueryAnswered` for queries of any number of clauses. A
  write takes its subject and predicate out of those that are settled, a refresh puts all their
  rows right at once and leaves the others alone. What a starred predicate finds is defined by
  recursion over rounds; by induction, a round finds what is one fact further away, and nothing
  new is found after as many rounds as there are facts, since a shortest chain uses no fact
  twice.
* `FactBoxes_proofs`, for any number of requests at once, with users as groups or not:
  `TypeCorrect`, `NobodyElseLetsIn`, `BoxesImplementFacts` and, about `FactBoxesHistory`,
  `RecordsStayInOnePlace`. `IInv` says of every request that what it has found, decided and is about
  to execute concerns places that were made, or, where it gives somebody a role in a user, that
  user's own box, and that this user is the one who asks: `getFactBoxPlacement` refuses any other.
  For the refinement, `OInv` adds that requests have numbers of their own, so that forgetting
  their placement does not make two of them one, and how far each one is; a
  role found in some facts is found in more of them, so that a check that passes in the boxes of a
  user passes when all facts are looked at, and each step is one of `Facts`, a request turned away,
  or a stutter. `Tidy(record)` is for one record that is not contested: its facts are together;
  a request that is about it and has looked it up has found where it still is, or, once it has
  decided, has at most one statement left that moves rows, which brings all of the record's rows to
  where the fact goes. A statement maps places to places, so that it moves all rows of a record or
  none, and if it moved those of a record that another request is about, both would have got hold
  of it. That graphs are in one box (`OneBox`) holds whatever overlaps.
* `LiveQueries_proofs`: `TypeCorrect`, `PagesFollow`. The invariant `Followed` follows each
  change on its way to each page that watches: it was shown, it was not told and the history
  says why, or it is with the one who tells, in a ping, or in a query that will see it.
* `Server_proofs`, about `Caches`: `CacheTypeCorrect`, `CachesAreRight`. `StaleOnlyIfExcused`
  becomes inductive with two facts added: a query under way that no change overlapped has read
  what the database still says (`ReadsAreFresh`), and while a change is announced but not made,
  every process that holds the entry has read it since or is about to drop it
  (`ReadyForChange`).
* `Server_proofs`, about `Payments`: `PaymentTypeCorrect`, `QuotaIsPaidFor`. Events and webhooks
  still under way are read as one history of items; handling a webhook, answered or not,
  renumbers the history and keeps its order (`Renumbering`), so that what it says last about a
  node (`Told`) is always what the provider's subscription is.
* `Server_proofs`, about `Quota`: `QuotaTypeCorrect`, `QuotaOvershootBounded`. What has to be
  bounded is what is stored *and* what may still come (`ToCome`): uploads that are granted, for
  each server that knows of something available what it may let through without another read
  (`Room`: the slack for each upload that does not wait for a read, less what went through
  already), and for each read that found less than the limit what it can put back when it ends.
  While usage is below the limit, all that together is at most the bound (`ToComeBounded`); from
  the limit on no step makes usage and `ToCome` larger. As totals may rise between the two
  queries of a read, this has to hold for every limit from the highest total on (`FewToCome`).
  `StoredCounted` (each upload is stored once, served, or gone) gives the types.
* `Induction`: what these proofs need of numbers and finite sets. The library's induction
  theorems take an operator as a parameter; here induction is stated of sets, from the numbers
  being well-founded: `NumbersByInduction`, `SubsetsByInduction`, functions defined by iteration,
  and sums over finite sets (`SumUnfolds`, `SumChanges`, `SumsCompare`, `SumOfParts`).

But for `Shared` in `AttachedStay`, nothing is assumed but what the modules assume of their
constants.

**Only model-checked**: the liveness properties of `lt_live` with their fairness, out of the
proof system's reach like `ENABLED`; and three properties of `FactBoxesHistory`, on the instance of
`boxes`: `ScopeLosesNothing`, `ChangesAreNotified` and `BoxesGoUnnoticed`. They are about behaviours
that are `Undisturbed`. Without that they are false: with users as groups a member of a user who
invites somebody to a record of that user moves its graph to a new box, to which the two are
assigned and the user is not (`fact_box.ts:47-53`), and when requests overlap a role may be missed
while its row is on the way, so that only `BoxesAllowNothingMore` is true, and proved. Every other safety
invariant, action property and refinement of a passing run is also a theorem. What a violated run
shows needs no proof.

## Where the code and its documentation part

Six runs are expected to fail, with their quotations in `PROJECT.json`. Reading the code for
the models showed more, which the models contain but no run is spent on:

* `docs/.../quotas.mdx:10-12` says that modification is blocked until storage is freed or the
  quota upgraded; after a quota violation `changeInTransmission` stays set (`abstract_record_client.ts:270`) and a
  long text is never sent again until it is reloaded.
* `docs/.../quotas.mdx:127` lists `subscription.canceled` among the events that are handled
  ("Reverts quota to default"); `paddle.ts:64-74` handles `subscription.created` and a
  `subscription.updated` that says that the subscription is or will be canceled, and logs and
  ignores all others. `Payments` never sends it.
* `docs/.../self-hosting.mdx:95-97` lets several instances share Redis; the list of channels
  that query subscriptions look through is that of the own process (`ws/server/index.ts:79-91`).
* `docs/.../accountability.mdx:11` charges the accountable node; a change of a record is
  charged to the user who makes it (`service_bus_mount.ts:158`, `quota/index.ts:384`).
* A query with clauses that only modify others ignores them (`facts/server/index.ts:366-407`,
  `588-590`).
* A webhook that announces the end of an old subscription and comes late takes back a newer one.
  `Payments` therefore lets the provider send in order, and repeat a webhook only directly after
  itself: one that is repeated after a later one, which is the same loss of order, is not covered.
* Transfers inside a composition can make two records accountable for each other.

## What is not modelled

* The positions and lengths in texts (see above), and with them the tie-break of inserts; the
  snapshot written every 100 deltas.
* Redis delivers a broadcast to local sockets and to other processes at different times; the
  models order the whole broadcast at once, in any order of the commits.
* In `LongTextSync`, `Disconnect` only hits joined clients; two overlapping initial loads of one
  record object and `unload()`. Pausing and connection attempts are in `ClientServerBus` only.
* Paths that are prefixes of other paths in key-value documents, and what a quota notice does
  to a key-value client (nothing but a callback).
* Terms and the box they have, batches of facts in one request of the facts endpoint; where a
  composition's new graph is merged later.
* Compounds of several named queries (independent of each other), and which predicates a query
  names, so that in `LiveQueries` every change concerns it.
* Sizes of values, signatures of webhooks and what the server loads from the provider.
* Blobs, which are replaced as whole values; routes and authentication, the development
  identity provider, database access and logging, which are wiring and pure I/O.

## What could come next

1. What remains of `ScopeLosesNothing` and `ChangesAreNotified` user by user when records are
   contested or users serve as groups, and proofs of it.
2. The delta log with snapshots as an implementation of `LongTextSync`'s log; texts as short
   strings with the concrete tie-break, checked against the abstraction.
3. `FactBoxes` with terms and compositions.
4. The bus composed with the synchronisation modules: `unload`, overlapping loads and pauses.
