------------------------------- MODULE Caches -------------------------------
(***************************************************************************)
(* The caches of the server processes.                                     *)
(*                                                                         *)
(* Every process keeps answers of the database: sets that are read as a    *)
(* whole (the fact boxes in a user's scope, the terms) and answers to      *)
(* single questions, of which only yes is kept (may this user read this    *)
(* record, is this a term). An entry is dropped when what it holds is      *)
(* about to change, at once in the process that changes it and by a        *)
(* message in the others; the change itself is a statement that follows.   *)
(* An answer is stored after the await of its query, whatever happened     *)
(* meanwhile. Only a move of a user's graph to a new fact box changes the  *)
(* database first and drops the entry then.                                *)
(*                                                                         *)
(* Entries have no time to live: one that is wrong stays, until the next   *)
(* change of what it holds.                                                *)
(***************************************************************************)
EXTENDS Integers, FiniteSets

CONSTANTS
  Process,      \* the server processes
  Whole,        \* the keys whose entry is a set read as a whole
  Positive,     \* the keys whose entry collects answers that were yes
  Answer,       \* the members of the sets, and the questions
  MaxChanges,   \* bound on the changes that drop entries
  MaxReads      \* bound on the queries under way at the same time

ASSUME CachesAssumption ==
  /\ Whole \cap Positive = {}
  /\ MaxChanges \in Nat /\ MaxReads \in Nat

VARIABLES
  truth,      \* what the database answers
  entries,    \* the entries of every process
  reads,      \* the queries under way whose answers will be stored
  changes,    \* the changes under way: dropped and not made, or made and not dropped
  dropping,   \* the messages under way to a process that tell it to drop an entry
  raced,      \* history: entries stored by a query that a change overlapped
  forgotten,  \* history: keys whose entries a crash kept from being dropped
  changeCount \* the changes so far

cacheVars == << truth, entries, reads, changes, dropping, raced, forgotten, changeCount >>

Key == Whole \cup Positive
Entry == [present : BOOLEAN, set : SUBSET Answer]
Missing == [present |-> FALSE, set |-> {}]

-----------------------------------------------------------------------------
CacheInit ==
  /\ truth \in [Key -> SUBSET Answer]
  /\ entries = [p \in Process |-> [k \in Key |-> Missing]]
  /\ reads = {}
  /\ changes = {}
  /\ dropping = [p \in Process |-> [k \in Key |-> 0]]
  /\ raced = {}
  /\ forgotten = {}
  /\ changeCount = 0

\* A query whose answer will be stored: the database answers as it is now.
StartsRead(p, k, answer) ==
  /\ Cardinality(reads) < MaxReads
  /\ \E nr \in 1..MaxReads :
       /\ \A r \in reads : r.nr # nr
       /\ reads' = reads \cup
            {[nr |-> nr, process |-> p, key |-> k, answer |-> answer,
              overlapped |-> \E c \in changes : c.key = k]}
  /\ UNCHANGED << truth, entries, changes, dropping, raced, forgotten, changeCount >>

\* The terms, or the fact boxes of a user, are not in the cache: all of them are read.
ReadSet(p, k) ==
  /\ k \in Whole /\ ~entries[p][k].present
  /\ StartsRead(p, k, truth[k])

\* A role of a user, or a term, is asked for when the cache does not say yes. A no will not
\* be stored.
HasCachedAccess(p, k, a) == a \in entries[p][k].set
AskQuestion(p, k, a) ==
  /\ k \in Positive /\ ~HasCachedAccess(p, k, a) /\ a \in truth[k]
  /\ StartsRead(p, k, {a})

\* A query for records, which does not look into the cache: whatever it finds may be read.
RunQuery(p, k, found) ==
  /\ k \in Positive /\ found # {} /\ found \subseteq truth[k]
  /\ StartsRead(p, k, found)

\* Mutant: the entry a yes is added to is taken to be there.
Store_IntoEntry(r) ==
  /\ reads' = reads \ {r}
  /\ entries' = [entries EXCEPT ![r.process][r.key].set =
                   IF r.key \in Whole THEN r.answer ELSE @ \cup r.answer]
  /\ raced' = IF r.overlapped THEN raced \cup {<< r.process, r.key >>} ELSE raced
  /\ UNCHANGED << truth, changes, dropping, forgotten, changeCount >>

\* cache.set, after the await: a whole set replaces, a yes is added to the entry there is now.
Store(r) ==
  /\ reads' = reads \ {r}
  /\ entries' = [entries EXCEPT ![r.process][r.key] =
                   [present |-> TRUE,
                    set |-> IF r.key \in Whole THEN r.answer ELSE @.set \cup r.answer]]
  /\ raced' = IF r.overlapped THEN raced \cup {<< r.process, r.key >>} ELSE raced
  /\ UNCHANGED << truth, changes, dropping, forgotten, changeCount >>

\* What the queries under way read is not certain any more.
Overlaps(k) == {IF r.key = k THEN [r EXCEPT !.overlapped = TRUE] ELSE r : r \in reads}

\* Mutant: the other processes are not told.
Drop_LocalOnly(p, k) ==
  /\ entries' = [entries EXCEPT ![p][k] = Missing]
  /\ raced' = raced \ {<< p, k >>}
  /\ UNCHANGED dropping

\* cache.invalidate: dropped here at once, in every process when its message comes.
Drop(p, k) ==
  /\ entries' = [entries EXCEPT ![p][k] = Missing]
  /\ raced' = raced \ {<< p, k >>}
  /\ dropping' = [q \in Process |-> [dropping[q] EXCEPT ![k] = @ + 1]]

StartsChange(p, k, set, made) ==
  /\ changeCount < MaxChanges /\ changeCount' = changeCount + 1
  /\ changes' = changes \cup {[nr |-> changeCount', process |-> p, key |-> k, to |-> set, made |-> made]}
  /\ reads' = Overlaps(k)

\* A role or a term is deleted, a term is added, a user is assigned to a fact box or its boxes
\* are merged: the entry is dropped first. Answers change both ways in a set, in the others
\* a yes becomes a no.
AnnounceChange(p, k, set) ==
  /\ k \in Positive => set \subseteq truth[k]
  /\ StartsChange(p, k, set, FALSE)
  /\ Drop(p, k)
  /\ forgotten' = forgotten \ {k}
  /\ UNCHANGED truth

\* ... and the statement follows.
MakeChange(c) ==
  /\ ~c.made
  /\ truth' = [truth EXCEPT ![c.key] = IF c.key \in Whole THEN c.to ELSE @ \cap c.to]
  /\ changes' = changes \ {c}
  /\ UNCHANGED << entries, reads, dropping, raced, forgotten, changeCount >>

\* A graph moves to a new fact box: the users' scopes change first,
MoveGraph(p, k, set) ==
  /\ k \in Whole
  /\ StartsChange(p, k, set, TRUE)
  /\ truth' = [truth EXCEPT ![k] = set]
  /\ UNCHANGED << entries, dropping, raced, forgotten >>

\* ... then the entries are dropped.
AnnounceMove(c) ==
  /\ c.made
  /\ changes' = changes \ {c}
  /\ Drop(c.process, c.key)
  /\ forgotten' = forgotten \ {c.key}
  /\ UNCHANGED << truth, reads, changeCount >>

\* A role or a user fact is added: nothing has to be dropped for a new yes.
NewYes(k, a) ==
  /\ k \in Positive /\ a \notin truth[k]
  /\ truth' = [truth EXCEPT ![k] = @ \cup {a}]
  /\ UNCHANGED << entries, reads, changes, dropping, raced, forgotten, changeCount >>

\* The message arrives.
ReceiveDrop(p, k) ==
  /\ dropping[p][k] > 0
  /\ dropping' = [dropping EXCEPT ![p][k] = @ - 1]
  /\ entries' = [entries EXCEPT ![p][k] = Missing]
  /\ raced' = raced \ {<< p, k >>}
  /\ UNCHANGED << truth, reads, changes, forgotten, changeCount >>

\* A process dies, with its entries and queries, and starts anew: what it had announced is
\* not made, what it had made is not announced. Messages to it find nothing to drop.
RestartProcess(p) ==
  /\ entries' = [entries EXCEPT ![p] = [k \in Key |-> Missing]]
  /\ dropping' = [dropping EXCEPT ![p] = [k \in Key |-> 0]]
  /\ raced' = {x \in raced : x[1] # p}
  /\ reads' = {r \in reads : r.process # p}
  /\ changes' = {c \in changes : c.process # p}
  /\ forgotten' = forgotten \cup {c.key : c \in {x \in changes : x.process = p /\ x.made}}
  /\ UNCHANGED << truth, changeCount >>

CacheNext ==
  \/ \E p \in Process, k \in Key :
       \/ ReadSet(p, k)
       \/ \E a \in Answer : AskQuestion(p, k, a)
       \/ \E set \in SUBSET Answer :
            RunQuery(p, k, set) \/ AnnounceChange(p, k, set) \/ MoveGraph(p, k, set)
       \/ ReceiveDrop(p, k)
  \/ \E r \in reads : Store(r)
  \/ \E c \in changes : MakeChange(c) \/ AnnounceMove(c)
  \/ \E k \in Key, a \in Answer : NewYes(k, a)
  \/ \E p \in Process : RestartProcess(p)

CacheSpec == CacheInit /\ [][CacheNext]_cacheVars

-----------------------------------------------------------------------------
\* Entries are sets of answers; a missing one holds none.
CacheTypeOK ==
  /\ truth \in [Key -> SUBSET Answer]
  /\ entries \in [Process -> [Key -> Entry]]
  /\ \A p \in Process, k \in Key : entries[p][k].present \/ entries[p][k] = Missing
  /\ reads \subseteq [nr : 1..MaxReads, process : Process, key : Key, overlapped : BOOLEAN,
                      answer : SUBSET Answer]
  /\ changes \subseteq [nr : 1..MaxChanges, process : Process, key : Key, to : SUBSET Answer,
                        made : BOOLEAN]
  /\ dropping \in [Process -> [Key -> Nat]]
  /\ raced \subseteq Process \X Key
  /\ forgotten \subseteq Key
  /\ changeCount \in 0..MaxChanges

\* What a process answers from its cache
Holds(p, k) ==
  entries[p][k].present =>
    IF k \in Whole THEN entries[p][k].set = truth[k] ELSE entries[p][k].set \subseteq truth[k]

\* A revoked role, a deleted term or a changed scope is not answered from a cache any more once
\* the message that drops it has come, in whatever order changes, queries and messages come.
\* The exceptions are all there are: a query that a change of its key overlapped, the time
\* between a move of a graph and the drop that follows, and a crash in between.
Excused(p, k) ==
  \/ dropping[p][k] > 0
  \/ << p, k >> \in raced
  \/ \E c \in changes : c.made /\ c.key = k
  \/ k \in forgotten
StaleOnlyIfExcused == \A p \in Process, k \in Key : ~Excused(p, k) => Holds(p, k)

=============================================================================
