---------------------------- MODULE Server_proofs ----------------------------
(***************************************************************************)
(* What the server processes remember: caches, subscriptions, and what is  *)
(* left of the quotas. Each part has an invariant of its own.              *)
(***************************************************************************)
EXTENDS Caches, Payments, Quota, Induction

-----------------------------------------------------------------------------
(* What the caches promise, for any processes, keys and answers.           *)
(*                                                                         *)
(* StaleOnlyIfExcused says when an entry may be wrong. Two facts have to   *)
(* go with it to make it inductive, both about the await between a         *)
(* database and a cache: an answer on its way that no change overlapped is *)
(* still what the database says, and it is the only one of its key, a      *)
(* change under way has overlapped all of them (ReadsAreFresh); while a    *)
(* change is announced and not made, whatever a cache holds of its key     *)
(* will be dropped or was stored by an overlapped query (ReadyForChange).  *)

\* What an answer or an entry says of the key is so.
Matches(k, set) == IF k \in Whole THEN set = truth[k] ELSE set \subseteq truth[k]

ReadsAreFresh ==
  \A r \in reads : ~r.overlapped =>
    Matches(r.key, r.answer) /\ \A c \in changes : c.key # r.key

ReadyForChange ==
  \A c \in changes, p \in Process : ~c.made =>
    \/ entries[p][c.key] = Missing
    \/ dropping[p][c.key] > 0
    \/ << p, c.key >> \in raced

CacheInv == CacheTypeOK /\ ReadsAreFresh /\ ReadyForChange /\ StaleOnlyIfExcused

LEMMA CacheInvInit == CacheInit => CacheInv
<1> SUFFICES ASSUME CacheInit PROVE CacheInv
  OBVIOUS
<1>1. CacheTypeOK
  BY CachesAssumption DEF CacheInit, CacheTypeOK, Entry, Missing
<1>2. ReadsAreFresh /\ ReadyForChange
  BY DEF CacheInit, ReadsAreFresh, ReadyForChange
<1>3. StaleOnlyIfExcused
  BY DEF CacheInit, StaleOnlyIfExcused, Holds, Missing
<1> QED BY <1>1, <1>2, <1>3 DEF CacheInv

-----------------------------------------------------------------------------
\* A query that starts reads what the database says, or is overlapped.
LEMMA StartsReadKeepsInv ==
  ASSUME CacheInv, NEW p \in Process, NEW k \in Key, NEW answer \in SUBSET Answer,
         Matches(k, answer), StartsRead(p, k, answer)
  PROVE  CacheInv'
<1> DEFINE overlapped == \E c \in changes : c.key = k
<1>1. PICK nr \in 1..MaxReads :
        reads' = reads \cup
            {[nr |-> nr, process |-> p, key |-> k, answer |-> answer, overlapped |-> overlapped]}
  BY DEF StartsRead
<1>2. UNCHANGED << truth, entries, changes, dropping, raced, forgotten, changeCount >>
  BY DEF StartsRead
<1>3. overlapped \in BOOLEAN /\ (~overlapped => \A c \in changes : c.key # k)
  OBVIOUS
<1> HIDE DEF overlapped
<1>4. CacheTypeOK'
  <2>1. reads' \subseteq [nr : 1..MaxReads, process : Process, key : Key,
                          overlapped : BOOLEAN, answer : SUBSET Answer]
    BY <1>1, <1>3 DEF CacheInv, CacheTypeOK
  <2> QED BY <1>2, <2>1 DEF CacheInv, CacheTypeOK
<1>5. ReadsAreFresh'
  BY <1>1, <1>2, <1>3 DEF CacheInv, ReadsAreFresh, Matches
<1>6. ReadyForChange' /\ StaleOnlyIfExcused'
  BY <1>2 DEF CacheInv, ReadyForChange, StaleOnlyIfExcused, Excused, Holds
<1> QED BY <1>4, <1>5, <1>6 DEF CacheInv

\* A fresh answer keeps an entry as right as it was, any other marks it.
LEMMA StoreKeepsInv ==
  ASSUME CacheInv, NEW r \in reads, Store(r)
  PROVE  CacheInv'
<1>1. /\ r.process \in Process /\ r.key \in Key /\ r.answer \in SUBSET Answer
      /\ r.overlapped \in BOOLEAN
  BY DEF CacheInv, CacheTypeOK
<1>2. /\ reads' = reads \ {r}
      /\ UNCHANGED << truth, changes, dropping, forgotten, changeCount >>
  BY DEF Store
<1> DEFINE before == entries[r.process][r.key].set
           kept == IF r.key \in Whole THEN r.answer ELSE before \cup r.answer
           entry == [present |-> TRUE, set |-> kept]
<1>3. /\ entry \in Entry /\ entry.present = TRUE /\ entry.set = kept
      /\ \A p \in Process, k \in Key : entries'[p][k] =
           IF p = r.process /\ k = r.key THEN entry ELSE entries[p][k]
  <2>1. entries[r.process][r.key] \in Entry
    BY <1>1 DEF CacheInv, CacheTypeOK
  <2>2. kept \in SUBSET Answer
    BY <1>1, <2>1 DEF Entry
  <2>3. entry \in Entry /\ entry.present = TRUE /\ entry.set = kept
    BY <2>2 DEF Entry
  <2> HIDE DEF entry
  <2>4. entries' = [entries EXCEPT ![r.process] = [@ EXCEPT ![r.key] = entry]]
    BY DEF Store, entry
  <2> QED BY <1>1, <2>3, <2>4 DEF CacheInv, CacheTypeOK
<1> HIDE DEF entry
<1>4. /\ raced \subseteq raced' /\ raced' \subseteq raced \cup {<< r.process, r.key >>}
      /\ r.overlapped => << r.process, r.key >> \in raced'
  BY DEF Store
<1>5. CacheTypeOK'
  <2>1. \A p \in Process, k \in Key : entries[p][k] \in Entry
    BY DEF CacheInv, CacheTypeOK
  <2>2. \A p \in Process, k \in Key : entries'[p][k] \in Entry
    BY <1>3, <2>1
  <2>3. entries' \in [Process -> [Key -> Entry]]
    BY <2>2 DEF Store, CacheInv, CacheTypeOK
  <2>4. raced' \subseteq Process \X Key
    BY <1>1, <1>4 DEF CacheInv, CacheTypeOK
  <2>5. \A p \in Process, k \in Key : entries'[p][k].present \/ entries'[p][k] = Missing
    BY <1>3 DEF CacheInv, CacheTypeOK
  <2> QED BY <1>2, <2>3, <2>4, <2>5 DEF CacheInv, CacheTypeOK
<1>6. ReadsAreFresh'
  BY <1>2 DEF CacheInv, ReadsAreFresh, Matches
<1>7. ReadyForChange'
  <2> SUFFICES ASSUME NEW c \in changes, NEW p \in Process, ~c.made,
                      ~(dropping[p][c.key] > 0), << p, c.key >> \notin raced'
               PROVE  entries'[p][c.key] = Missing
    BY <1>2 DEF ReadyForChange
  <2>1. c.key \in Key
    BY DEF CacheInv, CacheTypeOK
  <2>2. ~(p = r.process /\ c.key = r.key)
    BY <1>4 DEF CacheInv, ReadsAreFresh
  <2> QED BY <1>3, <1>4, <2>1, <2>2 DEF CacheInv, ReadyForChange
<1>8. StaleOnlyIfExcused'
  <2> SUFFICES ASSUME NEW p \in Process, NEW k \in Key, ~Excused(p, k)' PROVE Holds(p, k)'
    BY DEF StaleOnlyIfExcused
  <2>1. ~Excused(p, k)
    BY <1>2, <1>4 DEF Excused
  <2>2. Holds(p, k) /\ (entries[p][k].present \/ entries[p][k] = Missing)
    BY <2>1 DEF CacheInv, StaleOnlyIfExcused, CacheTypeOK
  <2>3. CASE ~(p = r.process /\ k = r.key)
    BY <1>2, <1>3, <2>2, <2>3 DEF Holds
  <2>4. CASE p = r.process /\ k = r.key
    <3>1. Matches(k, r.answer)
      BY <1>4, <2>4 DEF Excused, CacheInv, ReadsAreFresh
    <3>2. entries'[p][k].set = kept
      BY <1>3, <2>4
    <3>3. CASE k \in Whole
      BY <1>2, <2>4, <3>1, <3>2, <3>3 DEF Holds, Matches
    <3>4. CASE k \notin Whole
      <4>1. before \subseteq truth[k]
        BY <2>2, <2>4, <3>4 DEF Holds, Missing
      <4> QED BY <1>2, <2>4, <3>1, <3>2, <3>4, <4>1 DEF Holds, Matches
    <3> QED BY <3>3, <3>4
  <2> QED BY <2>3, <2>4
<1> QED BY <1>5, <1>6, <1>7, <1>8 DEF CacheInv

-----------------------------------------------------------------------------
\* Afterwards no query of the key is fresh, and the others are as before.
LEMMA OverlapsReads ==
  ASSUME CacheInv, NEW k \in Key, reads' = Overlaps(k)
  PROVE  /\ reads' \subseteq [nr : 1..MaxReads, process : Process, key : Key,
                              overlapped : BOOLEAN, answer : SUBSET Answer]
         /\ \A r \in reads' : ~r.overlapped => r.key # k /\ r \in reads
<1>1. \A r \in reads : r \in [nr : 1..MaxReads, process : Process, key : Key,
                              overlapped : BOOLEAN, answer : SUBSET Answer]
  BY DEF CacheInv, CacheTypeOK
<1> QED BY <1>1 DEF Overlaps

\* What a drop leaves: nothing in the process, and a message to every other one.
Dropped(p, k) ==
  /\ entries' \in [Process -> [Key -> Entry]] /\ dropping' \in [Process -> [Key -> Nat]]
  /\ raced' \subseteq raced
  /\ \A q \in Process : dropping'[q][k] > 0
  /\ \A q \in Process, j \in Key :
       /\ entries'[q][j] = entries[q][j] \/ entries'[q][j] = Missing
       /\ j # k => /\ entries'[q][j] = entries[q][j] /\ dropping'[q][j] = dropping[q][j]
                   /\ << q, j >> \in raced => << q, j >> \in raced'

LEMMA DropDrops ==
  ASSUME CacheInv, NEW p \in Process, NEW k \in Key, Drop(p, k)
  PROVE  Dropped(p, k)
<1>1. Missing \in Entry
  BY DEF Missing, Entry
<1>2. /\ entries \in [Process -> [Key -> Entry]] /\ dropping \in [Process -> [Key -> Nat]]
  BY DEF CacheInv, CacheTypeOK
<1>3. entries' \in [Process -> [Key -> Entry]] /\ dropping' \in [Process -> [Key -> Nat]]
  BY <1>1, <1>2 DEF Drop
<1>4. \A q \in Process : dropping'[q][k] > 0
  BY <1>2 DEF Drop
<1>5. \A q \in Process, j \in Key :
       /\ entries'[q][j] = entries[q][j] \/ entries'[q][j] = Missing
       /\ j # k => entries'[q][j] = entries[q][j] /\ dropping'[q][j] = dropping[q][j]
  BY <1>2 DEF Drop
<1> QED BY <1>3, <1>4, <1>5 DEF Drop, Dropped

\* A change that was numbered, and has overlapped the queries of its key.
LEMMA StartsChangeTypes ==
  ASSUME CacheInv, NEW p \in Process, NEW k \in Key, NEW set \in SUBSET Answer, NEW made \in BOOLEAN,
         StartsChange(p, k, set, made)
  PROVE  /\ changeCount' \in 0..MaxChanges
         /\ changes' \subseteq [nr : 1..MaxChanges, process : Process, key : Key,
                                to : SUBSET Answer, made : BOOLEAN]
         /\ \E c : c.key = k /\ c.made = made /\ changes' = changes \cup {c}
<1>1. changeCount' = changeCount + 1 /\ changeCount' \in 1..MaxChanges
  BY CachesAssumption DEF StartsChange, CacheInv, CacheTypeOK
<1> DEFINE c == [nr |-> changeCount', process |-> p, key |-> k, to |-> set, made |-> made]
<1>2. changes' = changes \cup {c}
  BY DEF StartsChange
<1>3. c \in [nr : 1..MaxChanges, process : Process, key : Key, to : SUBSET Answer, made : BOOLEAN]
  BY <1>1
<1>4. c.key = k /\ c.made = made
  OBVIOUS
<1> HIDE DEF c
<1>5. changes' \subseteq [nr : 1..MaxChanges, process : Process, key : Key,
                         to : SUBSET Answer, made : BOOLEAN]
  BY <1>2, <1>3 DEF CacheInv, CacheTypeOK
<1>6. \E x : x.key = k /\ x.made = made /\ changes' = changes \cup {x}
  BY ONLY <1>2, <1>4, Zenon
<1> QED BY <1>1, <1>5, <1>6

\* After a drop of k nobody answers from an entry of k without an excuse.
LEMMA DropKeepsEntries ==
  ASSUME CacheInv, NEW k \in Key, NEW p \in Process, Dropped(p, k)
  PROVE  /\ \A q \in Process, j \in Key : entries'[q][j].present \/ entries'[q][j] = Missing
         /\ \A q \in Process : dropping'[q][k] > 0
         /\ raced' \subseteq Process \X Key
<1>1. ASSUME NEW q \in Process, NEW j \in Key
      PROVE  entries'[q][j].present \/ entries'[q][j] = Missing
  <2>1. entries[q][j].present \/ entries[q][j] = Missing
    BY DEF CacheInv, CacheTypeOK
  <2>2. entries'[q][j] = entries[q][j] \/ entries'[q][j] = Missing
    BY DEF Dropped
  <2> QED BY ONLY <2>1, <2>2, Zenon
<1> QED BY <1>1 DEF Dropped, CacheInv, CacheTypeOK

LEMMA AnnounceChangeKeepsInv ==
  ASSUME CacheInv, NEW p \in Process, NEW k \in Key, NEW set \in SUBSET Answer,
         AnnounceChange(p, k, set)
  PROVE  CacheInv'
<1>1. /\ StartsChange(p, k, set, FALSE) /\ reads' = Overlaps(k)
      /\ Dropped(p, k) /\ forgotten' = forgotten \ {k} /\ UNCHANGED truth
  BY DropDrops DEF AnnounceChange, StartsChange
<1>2. PICK c : c.key = k /\ c.made = FALSE /\ changes' = changes \cup {c}
  BY <1>1, StartsChangeTypes
<1>3. CacheTypeOK'
  BY <1>1, StartsChangeTypes, OverlapsReads, DropKeepsEntries DEF CacheInv, CacheTypeOK, Dropped
<1>4. ReadsAreFresh'
  BY <1>1, <1>2, OverlapsReads DEF CacheInv, ReadsAreFresh, Matches
<1>5. ReadyForChange'
  <2> SUFFICES ASSUME NEW x \in changes', NEW q \in Process, ~x.made,
                      ~(dropping'[q][x.key] > 0), << q, x.key >> \notin raced'
               PROVE  entries'[q][x.key] = Missing
    BY DEF ReadyForChange
  <2>1. x \in changes /\ x.key # k
    BY <1>1, <1>2 DEF Dropped
  <2>2. x.key \in Key
    BY <2>1 DEF CacheInv, CacheTypeOK
  <2> QED BY <1>1, <2>1, <2>2 DEF Dropped, CacheInv, ReadyForChange
<1>6. StaleOnlyIfExcused'
  <2> SUFFICES ASSUME NEW q \in Process, NEW j \in Key, ~Excused(q, j)' PROVE Holds(q, j)'
    BY DEF StaleOnlyIfExcused
  <2>1. j # k
    BY <1>1 DEF Excused, Dropped
  <2>2. ~Excused(q, j)
    BY <1>1, <1>2, <2>1 DEF Excused, Dropped
  <2>3. Holds(q, j)
    BY <2>2 DEF CacheInv, StaleOnlyIfExcused
  <2>4. entries'[q][j] = entries[q][j] /\ truth'[j] = truth[j]
    BY <1>1, <2>1 DEF Dropped
  <2> QED BY ONLY <2>3, <2>4, Zenon DEF Holds
<1> QED BY <1>3, <1>4, <1>5, <1>6 DEF CacheInv

LEMMA AnnounceMoveKeepsInv ==
  ASSUME CacheInv, NEW c \in changes, AnnounceMove(c)
  PROVE  CacheInv'
<1>1. c.process \in Process /\ c.key \in Key
  BY DEF CacheInv, CacheTypeOK
<1>2. /\ changes' = changes \ {c} /\ Dropped(c.process, c.key)
      /\ forgotten' = forgotten \ {c.key} /\ UNCHANGED << truth, reads, changeCount >>
  BY <1>1, DropDrops DEF AnnounceMove
<1>3. CacheTypeOK'
  BY <1>1, <1>2, DropKeepsEntries DEF CacheInv, CacheTypeOK, Dropped
<1>4. ReadsAreFresh'
  BY <1>2 DEF CacheInv, ReadsAreFresh, Matches
<1>5. ReadyForChange'
  <2> SUFFICES ASSUME NEW x \in changes', NEW q \in Process, ~x.made,
                      ~(dropping'[q][x.key] > 0), << q, x.key >> \notin raced'
               PROVE  entries'[q][x.key] = Missing
    BY DEF ReadyForChange
  <2>1. x \in changes /\ x.key # c.key /\ x.key \in Key
    BY <1>2 DEF Dropped, CacheInv, CacheTypeOK
  <2> QED BY <1>2, <2>1 DEF Dropped, CacheInv, ReadyForChange
<1>6. StaleOnlyIfExcused'
  <2> SUFFICES ASSUME NEW q \in Process, NEW j \in Key, ~Excused(q, j)' PROVE Holds(q, j)'
    BY DEF StaleOnlyIfExcused
  <2>1. j # c.key
    BY <1>2 DEF Excused, Dropped
  <2>2. ~Excused(q, j)
    BY <1>2, <2>1 DEF Excused, Dropped
  <2>3. Holds(q, j)
    BY <2>2 DEF CacheInv, StaleOnlyIfExcused
  <2>4. entries'[q][j] = entries[q][j] /\ truth'[j] = truth[j]
    BY <1>2, <2>1 DEF Dropped
  <2> QED BY ONLY <2>3, <2>4, Zenon DEF Holds
<1> QED BY <1>3, <1>4, <1>5, <1>6 DEF CacheInv

-----------------------------------------------------------------------------
\* The statement finds no entry that counts: ReadyForChange.
LEMMA MakeChangeKeepsInv ==
  ASSUME CacheInv, NEW c \in changes, MakeChange(c)
  PROVE  CacheInv'
<1>1. /\ ~c.made /\ c.key \in Key /\ c.to \subseteq Answer
      /\ changes' = changes \ {c}
      /\ UNCHANGED << entries, reads, dropping, raced, forgotten, changeCount >>
  BY DEF MakeChange, CacheInv, CacheTypeOK
<1>2. /\ truth' \in [Key -> SUBSET Answer]
      /\ \A k \in Key \ {c.key} : truth'[k] = truth[k]
  BY <1>1 DEF MakeChange, CacheInv, CacheTypeOK
<1>3. CacheTypeOK'
  BY <1>1, <1>2 DEF CacheInv, CacheTypeOK
<1>4. ReadsAreFresh'
  <2> SUFFICES ASSUME NEW r \in reads, ~r.overlapped PROVE Matches(r.key, r.answer)'
    BY <1>1 DEF CacheInv, ReadsAreFresh
  <2>1. r.key \in Key \ {c.key}
    BY DEF CacheInv, ReadsAreFresh, CacheTypeOK
  <2> QED BY <1>2, <2>1 DEF CacheInv, ReadsAreFresh, Matches
<1>5. ReadyForChange'
  BY <1>1 DEF CacheInv, ReadyForChange
<1>6. StaleOnlyIfExcused'
  <2> SUFFICES ASSUME NEW p \in Process, NEW k \in Key, ~Excused(p, k)' PROVE Holds(p, k)'
    BY DEF StaleOnlyIfExcused
  <2>1. ~Excused(p, k)
    BY <1>1 DEF Excused
  <2>2. CASE k = c.key
    <3>1. entries[p][k] = Missing
      BY <1>1, <2>1, <2>2 DEF CacheInv, ReadyForChange, Excused
    <3> QED BY <1>1, <3>1 DEF Holds, Missing
  <2>3. CASE k # c.key
    BY <1>1, <1>2, <2>1, <2>3 DEF CacheInv, StaleOnlyIfExcused, Holds
  <2> QED BY <2>2, <2>3
<1> QED BY <1>3, <1>4, <1>5, <1>6 DEF CacheInv

\* A move is an excuse until its drop.
LEMMA MoveGraphKeepsInv ==
  ASSUME CacheInv, NEW p \in Process, NEW k \in Key, NEW set \in SUBSET Answer,
         MoveGraph(p, k, set)
  PROVE  CacheInv'
<1>1. /\ StartsChange(p, k, set, TRUE) /\ reads' = Overlaps(k)
      /\ UNCHANGED << entries, dropping, raced, forgotten >>
  BY DEF MoveGraph, StartsChange
<1>2. /\ truth' \in [Key -> SUBSET Answer]
      /\ \A j \in Key \ {k} : truth'[j] = truth[j]
  BY DEF MoveGraph, CacheInv, CacheTypeOK
<1>3. PICK c : c.key = k /\ c.made = TRUE /\ changes' = changes \cup {c}
  BY <1>1, StartsChangeTypes
<1>4. CacheTypeOK'
  <2>1. changeCount' \in 0..MaxChanges
        /\ changes' \subseteq [nr : 1..MaxChanges, process : Process, key : Key,
                               to : SUBSET Answer, made : BOOLEAN]
    BY <1>1, StartsChangeTypes
  <2> QED BY <1>1, <1>2, <2>1, OverlapsReads DEF CacheInv, CacheTypeOK
<1>5. ReadsAreFresh'
  <2> SUFFICES ASSUME NEW r \in reads', ~r.overlapped
               PROVE  Matches(r.key, r.answer)' /\ \A x \in changes' : x.key # r.key
    BY DEF ReadsAreFresh
  <2>1. r \in reads /\ r.key \in Key \ {k}
    BY <1>1, OverlapsReads DEF CacheInv, CacheTypeOK
  <2> QED BY <1>2, <1>3, <2>1 DEF CacheInv, ReadsAreFresh, Matches
<1>6. ReadyForChange'
  BY <1>1, <1>3 DEF CacheInv, ReadyForChange
<1>7. StaleOnlyIfExcused'
  <2> SUFFICES ASSUME NEW q \in Process, NEW j \in Key, ~Excused(q, j)' PROVE Holds(q, j)'
    BY DEF StaleOnlyIfExcused
  <2>1. j # k /\ ~Excused(q, j)
    BY <1>1, <1>3 DEF Excused
  <2> QED BY <1>1, <1>2, <2>1 DEF CacheInv, StaleOnlyIfExcused, Holds
<1> QED BY <1>4, <1>5, <1>6, <1>7 DEF CacheInv

\* A no that becomes a yes leaves every yes as it is.
LEMMA NewYesKeepsInv ==
  ASSUME CacheInv, NEW k \in Key, NEW a \in Answer, NewYes(k, a)
  PROVE  CacheInv'
<1>1. /\ k \notin Whole
      /\ UNCHANGED << entries, reads, changes, dropping, raced, forgotten, changeCount >>
  BY CachesAssumption DEF NewYes
<1>2. /\ truth' \in [Key -> SUBSET Answer]
      /\ \A j \in Key : truth[j] \subseteq truth'[j] /\ (j \in Whole => truth'[j] = truth[j])
  BY <1>1 DEF NewYes, CacheInv, CacheTypeOK
<1>3. CacheTypeOK' /\ ReadyForChange'
  BY <1>1, <1>2 DEF CacheInv, CacheTypeOK, ReadyForChange
<1>4. ReadsAreFresh'
  <2> SUFFICES ASSUME NEW r \in reads, ~r.overlapped PROVE Matches(r.key, r.answer)'
    BY <1>1 DEF CacheInv, ReadsAreFresh
  <2>1. r.key \in Key /\ Matches(r.key, r.answer)
    BY DEF CacheInv, ReadsAreFresh, CacheTypeOK
  <2> QED BY <1>2, <2>1 DEF Matches
<1>5. StaleOnlyIfExcused'
  BY <1>1, <1>2 DEF CacheInv, StaleOnlyIfExcused, Excused, Holds
<1> QED BY <1>3, <1>4, <1>5 DEF CacheInv

-----------------------------------------------------------------------------
LEMMA ReceiveDropKeepsInv ==
  ASSUME CacheInv, NEW p \in Process, NEW k \in Key, ReceiveDrop(p, k)
  PROVE  CacheInv'
<1>1. /\ dropping[p][k] > 0 /\ raced' = raced \ {<< p, k >>}
      /\ UNCHANGED << truth, reads, changes, forgotten, changeCount >>
  BY DEF ReceiveDrop
<1>2. Missing \in Entry
  BY DEF Missing, Entry
<1>3. /\ entries' \in [Process -> [Key -> Entry]] /\ dropping' \in [Process -> [Key -> Nat]]
      /\ entries'[p][k] = Missing
      /\ \A q \in Process, j \in Key : ~(q = p /\ j = k) =>
           entries'[q][j] = entries[q][j] /\ dropping'[q][j] = dropping[q][j]
  BY <1>2 DEF ReceiveDrop, CacheInv, CacheTypeOK
<1>4. CacheTypeOK'
  BY <1>1, <1>3 DEF CacheInv, CacheTypeOK
<1>5. ReadsAreFresh'
  BY <1>1 DEF CacheInv, ReadsAreFresh, Matches
<1>6. ReadyForChange'
  <2> SUFFICES ASSUME NEW x \in changes, NEW q \in Process, ~x.made,
                      ~(dropping'[q][x.key] > 0), << q, x.key >> \notin raced'
               PROVE  entries'[q][x.key] = Missing
    BY <1>1 DEF ReadyForChange
  <2>1. x.key \in Key
    BY DEF CacheInv, CacheTypeOK
  <2> QED BY <1>1, <1>3, <2>1 DEF CacheInv, ReadyForChange
<1>7. StaleOnlyIfExcused'
  <2> SUFFICES ASSUME NEW q \in Process, NEW j \in Key, ~Excused(q, j)' PROVE Holds(q, j)'
    BY DEF StaleOnlyIfExcused
  <2>1. CASE q = p /\ j = k
    BY <1>3, <2>1 DEF Holds, Missing
  <2>2. CASE ~(q = p /\ j = k)
    BY <1>1, <1>3, <2>2 DEF CacheInv, StaleOnlyIfExcused, Excused, Holds
  <2> QED BY <2>1, <2>2
<1> QED BY <1>4, <1>5, <1>6, <1>7 DEF CacheInv

\* A process that starts anew has nothing wrong in its caches; its moves are forgotten.
LEMMA CachesLostKeepsInv ==
  ASSUME CacheInv, NEW p \in Process, RestartProcess(p)
  PROVE  CacheInv'
<1>1. /\ reads' \subseteq reads /\ changes' = {c \in changes : c.process # p}
      /\ raced' = {x \in raced : x[1] # p}
      /\ \A c \in changes \ changes' : c.made => c.key \in forgotten'
      /\ forgotten \subseteq forgotten' /\ UNCHANGED << truth, changeCount >>
  BY DEF RestartProcess
<1>2. Missing \in Entry
  BY DEF Missing, Entry
<1>3. /\ entries' \in [Process -> [Key -> Entry]] /\ dropping' \in [Process -> [Key -> Nat]]
      /\ \A k \in Key : entries'[p][k] = Missing
      /\ \A q \in Process \ {p} : entries'[q] = entries[q] /\ dropping'[q] = dropping[q]
  BY <1>2 DEF RestartProcess, CacheInv, CacheTypeOK
<1>4. CacheTypeOK'
  <2>1. forgotten' \subseteq Key
    BY DEF RestartProcess, CacheInv, CacheTypeOK
  <2>2. ASSUME NEW q \in Process, NEW k \in Key
        PROVE  entries'[q][k].present \/ entries'[q][k] = Missing
    <3>1. entries[q][k].present \/ entries[q][k] = Missing
      BY DEF CacheInv, CacheTypeOK
    <3>2. entries'[q][k] = entries[q][k] \/ entries'[q][k] = Missing
      BY <1>3
    <3> QED BY ONLY <3>1, <3>2, Zenon
  <2> QED BY <1>1, <1>3, <2>1, <2>2 DEF CacheInv, CacheTypeOK
<1>5. ReadsAreFresh'
  BY <1>1 DEF CacheInv, ReadsAreFresh, Matches
<1>6. ReadyForChange'
  <2> SUFFICES ASSUME NEW x \in changes', NEW q \in Process, ~x.made,
                      ~(dropping'[q][x.key] > 0), << q, x.key >> \notin raced'
               PROVE  entries'[q][x.key] = Missing
    BY DEF ReadyForChange
  <2>1. x \in changes /\ x.key \in Key
    BY <1>1 DEF CacheInv, CacheTypeOK
  <2>2. CASE q = p
    BY <1>3, <2>1, <2>2
  <2>3. CASE q # p
    BY <1>1, <1>3, <2>1, <2>3 DEF CacheInv, ReadyForChange
  <2> QED BY <2>2, <2>3
<1>7. StaleOnlyIfExcused'
  <2> SUFFICES ASSUME NEW q \in Process, NEW j \in Key, ~Excused(q, j)' PROVE Holds(q, j)'
    BY DEF StaleOnlyIfExcused
  <2>1. CASE q = p
    BY <1>3, <2>1 DEF Holds, Missing
  <2>2. CASE q # p
    BY <1>1, <1>3, <2>2 DEF CacheInv, StaleOnlyIfExcused, Excused, Holds
  <2> QED BY <2>1, <2>2
<1> QED BY <1>4, <1>5, <1>6, <1>7 DEF CacheInv

-----------------------------------------------------------------------------
LEMMA CacheInvStep == CacheInv /\ [CacheNext]_cacheVars => CacheInv'
<1> SUFFICES ASSUME CacheInv, [CacheNext]_cacheVars PROVE CacheInv'
  OBVIOUS
<1>1. CASE UNCHANGED cacheVars
  BY <1>1 DEF cacheVars, CacheInv, CacheTypeOK, ReadsAreFresh, ReadyForChange, StaleOnlyIfExcused,
              Matches, Excused, Holds
<1>2. ASSUME NEW p \in Process, NEW k \in Key, ReadSet(p, k) PROVE CacheInv'
  <2>1. truth[k] \in SUBSET Answer /\ Matches(k, truth[k])
    BY DEF CacheInv, CacheTypeOK, Matches
  <2> QED BY <1>2, <2>1, StartsReadKeepsInv DEF ReadSet
<1>3. ASSUME NEW p \in Process, NEW k \in Key, NEW a \in Answer, AskQuestion(p, k, a) PROVE CacheInv'
  <2>1. {a} \in SUBSET Answer /\ Matches(k, {a})
    BY <1>3, CachesAssumption DEF AskQuestion, Matches
  <2> QED BY <1>3, <2>1, StartsReadKeepsInv DEF AskQuestion
<1>4. ASSUME NEW p \in Process, NEW k \in Key, NEW set \in SUBSET Answer,
             RunQuery(p, k, set) \/ AnnounceChange(p, k, set) \/ MoveGraph(p, k, set)
      PROVE  CacheInv'
  <2>1. CASE RunQuery(p, k, set)
    <3>1. Matches(k, set)
      BY <2>1, CachesAssumption DEF RunQuery, Matches
    <3> QED BY <2>1, <3>1, StartsReadKeepsInv DEF RunQuery
  <2> QED BY <1>4, <2>1, AnnounceChangeKeepsInv, MoveGraphKeepsInv
<1>5. ASSUME NEW p \in Process, NEW k \in Key, ReceiveDrop(p, k) PROVE CacheInv'
  BY <1>5, ReceiveDropKeepsInv
<1>6. ASSUME NEW r \in reads, Store(r) PROVE CacheInv'
  BY <1>6, StoreKeepsInv
<1>7. ASSUME NEW c \in changes, MakeChange(c) \/ AnnounceMove(c) PROVE CacheInv'
  BY <1>7, MakeChangeKeepsInv, AnnounceMoveKeepsInv
<1>8. ASSUME NEW k \in Key, NEW a \in Answer, NewYes(k, a) PROVE CacheInv'
  BY <1>8, NewYesKeepsInv
<1>9. ASSUME NEW p \in Process, RestartProcess(p) PROVE CacheInv'
  BY <1>9, CachesLostKeepsInv
<1> QED BY <1>1, <1>2, <1>3, <1>4, <1>5, <1>6, <1>7, <1>8, <1>9 DEF CacheNext

\* Entries, queries, changes and messages have their types, and an entry that is missing holds
\* nothing (CacheTypeOK: cache.get, cache.set and cache.invalidate).
THEOREM CacheTypeCorrect == CacheSpec => []CacheTypeOK
<1>1. CacheInv => CacheTypeOK
  BY DEF CacheInv
<1> QED BY CacheInvInit, CacheInvStep, <1>1, PTL DEF CacheSpec

\* What a process answers from a cache is what the database says, but for the exceptions
\* Excused lists, with any number of processes, queries and changes and whatever their order
\* (StaleOnlyIfExcused: the invalidation before a change and the messages to the others).
THEOREM CachesAreRight == CacheSpec => []StaleOnlyIfExcused
<1>1. CacheInv => StaleOnlyIfExcused
  BY DEF CacheInv
<1> QED BY CacheInvInit, CacheInvStep, <1>1, PTL DEF CacheSpec

-----------------------------------------------------------------------------
(* A node's quota follows its subscription, for any customers, products    *)
(* and dates, however often a webhook comes and whenever it does.          *)
(*                                                                         *)
(* Quota events and webhooks under way are one history: the events by id,  *)
(* then what will become an event, in order. A step adds to its end, or    *)
(* turns the first webhook into an event, or doubles it. Told says what    *)
(* the history tells of each node: a node that pays has an item with its   *)
(* total, and nothing after it but the end it scheduled; a node that does  *)
(* not has after every total an end that has passed. It survives whatever  *)
(* keeps the order of the items, doubles included (Renumbering).           *)

HookType == [type : {"subscription.created", "subscription.updated",
                     "subscription.updated: cancel", "subscription.updated: canceled"},
             node : Customer, amount : Amount \cup {0}, effectiveAt : 0..MaxTime \cup {NoDate}]

EventType == [node : Customer, total : Amount \cup {0}, validFrom : 0..MaxTime]

HooksOK ==
  /\ webhooks \in Seq(HookType)
  /\ \A n \in Customer : subscription[n] = Unpaid \/ subscription[n].amount \in Amount

Items == 1..Len(quotaEvents) + Len(webhooks)
Hook(x) == webhooks[x - Len(quotaEvents)]
IsEvent(x) == x <= Len(quotaEvents)
Counts(x) == x \in Items /\ (IsEvent(x) \/ Hook(x).type # "subscription.updated")

\* What an item says: of which node, the total, and from when
ItemNode(x) == IF IsEvent(x) THEN quotaEvents[x].node ELSE Hook(x).node
ItemTotal(x) ==
  IF IsEvent(x) THEN quotaEvents[x].total
  ELSE IF Hook(x).type = "subscription.created" THEN Hook(x).amount ELSE 0
ItemFrom(x) == IF IsEvent(x) THEN quotaEvents[x].validFrom ELSE Hook(x).effectiveAt

About(n) == {x \in Items : Counts(x) /\ ItemNode(x) = n}
Ends(x, date) == ItemTotal(x) = 0 /\ ItemFrom(x) = date

ToldOfPaid(n) ==
  \E m \in About(n) :
    /\ ItemTotal(m) = subscription[n].amount
    /\ \A x \in About(n) : x > m =>
         subscription[n].until # NoDate /\ Ends(x, subscription[n].until)
    /\ subscription[n].until # NoDate =>
         \E x \in About(n) : x > m /\ Ends(x, subscription[n].until)
ToldOfUnpaid(n) ==
  \A m \in About(n) : ItemTotal(m) # 0 =>
    \E x \in About(n), date \in 0..MaxTime : x > m /\ Ends(x, date) /\ date < now
Told == \A n \in Customer :
  IF subscription[n] = Unpaid THEN ToldOfUnpaid(n) ELSE ToldOfPaid(n)

PaymentInv == PaymentTypeOK /\ HooksOK /\ Told

LEMMA PaymentInvInit == PaymentInit => PaymentInv
<1> SUFFICES ASSUME PaymentInit PROVE PaymentInv
  OBVIOUS
<1>1. PaymentTypeOK /\ HooksOK
  BY PaymentsAssumption DEF PaymentInit, PaymentTypeOK, HooksOK, Unpaid
<1>2. Items = {}
  BY DEF PaymentInit, Items
<1>3. Told
  BY <1>2 DEF PaymentInit, Told, ToldOfUnpaid, About
<1> QED BY <1>1, <1>3 DEF PaymentInv

LEMMA PaymentTypes ==
  ASSUME PaymentInv
  PROVE  /\ now \in 0..MaxTime /\ now \in Nat /\ MaxTime \in Nat
         /\ Len(quotaEvents) \in Nat /\ Len(webhooks) \in Nat /\ Items \subseteq Nat
         /\ \A x \in Items : IsEvent(x) => quotaEvents[x] \in EventType
         /\ \A x \in Items : ~IsEvent(x) =>
              x - Len(quotaEvents) \in DOMAIN webhooks /\ Hook(x) \in HookType
         /\ 0 \notin Amount /\ Amount \subseteq Nat /\ NoDate \notin 0..MaxTime
<1>1. now \in 0..MaxTime /\ now \in Nat /\ MaxTime \in Nat
  BY PaymentsAssumption DEF PaymentInv, PaymentTypeOK
<1>2. quotaEvents \in Seq(EventType) /\ webhooks \in Seq(HookType)
  BY DEF PaymentInv, PaymentTypeOK, HooksOK, EventType
<1>3. Len(quotaEvents) \in Nat /\ Len(webhooks) \in Nat /\ Items \subseteq Nat
  BY <1>2 DEF Items
<1>4. ASSUME NEW x \in Items, IsEvent(x)
      PROVE  quotaEvents[x] \in EventType
  <2>1. x \in 1..Len(quotaEvents)
    BY <1>3, <1>4 DEF Items, IsEvent
  <2> QED BY <1>2, <2>1
<1>5. \A x \in Items : ~IsEvent(x) =>
         x - Len(quotaEvents) \in DOMAIN webhooks /\ Hook(x) \in HookType
  BY <1>2, <1>3 DEF Items, IsEvent, Hook
<1>6. 0 \notin Amount /\ Amount \subseteq Nat /\ NoDate \notin 0..MaxTime
  <2>1. ~(0 <= -1)
    OBVIOUS
  <2> QED BY <1>1, <2>1, PaymentsAssumption DEF NoDate
<1> QED BY <1>1, <1>3, <1>4, <1>5, <1>6

-----------------------------------------------------------------------------
\* The provider's webhook is a new item at the end; all others stay.
LEMMA SendsItem ==
  ASSUME PaymentInv, NEW hook \in HookType, Sends(hook), UNCHANGED quotaEvents,
         NEW last, last = Len(quotaEvents) + Len(webhooks) + 1
  PROVE  /\ webhooks' \in Seq(HookType)
         /\ last \notin Items /\ Items' = Items \cup {last} /\ \A x \in Items : x < last
         /\ \A x \in Items : /\ Counts(x)' <=> Counts(x)
                             /\ ItemNode(x)' = ItemNode(x) /\ ItemTotal(x)' = ItemTotal(x)
                             /\ ItemFrom(x)' = ItemFrom(x)
         /\ Counts(last)' <=> hook.type # "subscription.updated"
         /\ ItemNode(last)' = hook.node /\ ItemFrom(last)' = hook.effectiveAt
         /\ ItemTotal(last)' = IF hook.type = "subscription.created" THEN hook.amount ELSE 0
<1>1. /\ webhooks \in Seq(HookType) /\ Len(quotaEvents) \in Nat /\ Len(webhooks) \in Nat
  BY PaymentTypes DEF PaymentInv, HooksOK
<1>2. /\ webhooks' = Append(webhooks, hook) /\ webhooks' \in Seq(HookType)
      /\ Len(webhooks') = Len(webhooks) + 1 /\ webhooks'[Len(webhooks) + 1] = hook
      /\ \A i \in 1..Len(webhooks) : webhooks'[i] = webhooks[i]
  BY <1>1 DEF Sends
<1>3. last \notin Items /\ Items' = Items \cup {last} /\ \A x \in Items : x < last
  BY <1>1, <1>2 DEF Items
<1>4. /\ ~(last <= Len(quotaEvents)) /\ last - Len(quotaEvents) = Len(webhooks) + 1
  BY <1>1
<1>5. ASSUME NEW x \in Items, ~IsEvent(x)
      PROVE  webhooks'[x - Len(quotaEvents)] = webhooks[x - Len(quotaEvents)]
  BY <1>1, <1>2, <1>5 DEF Items, IsEvent
<1>6. ASSUME NEW x \in Items
      PROVE  /\ Counts(x)' <=> Counts(x)
             /\ ItemNode(x)' = ItemNode(x) /\ ItemTotal(x)' = ItemTotal(x) /\ ItemFrom(x)' = ItemFrom(x)
  BY <1>3, <1>5 DEF Counts, ItemNode, ItemTotal, ItemFrom, IsEvent, Hook
<1>7. webhooks'[last - Len(quotaEvents')] = hook
  BY <1>2, <1>4
<1>8. /\ Counts(last)' <=> hook.type # "subscription.updated"
      /\ ItemNode(last)' = hook.node /\ ItemFrom(last)' = hook.effectiveAt
      /\ ItemTotal(last)' = IF hook.type = "subscription.created" THEN hook.amount ELSE 0
  BY <1>3, <1>4, <1>7 DEF Counts, ItemNode, ItemTotal, ItemFrom, IsEvent, Hook
<1> QED BY <1>2, <1>3, <1>6, <1>8

\* The items of a node afterwards
LEMMA SendsAbout ==
  ASSUME PaymentInv, NEW hook \in HookType, Sends(hook), UNCHANGED quotaEvents, NEW n \in Customer,
         NEW last, last = Len(quotaEvents) + Len(webhooks) + 1
  PROVE  About(n)' = IF hook.node = n /\ hook.type # "subscription.updated"
                     THEN About(n) \cup {last} ELSE About(n)
  BY SendsItem DEF About

\* What is told of a node stays as it is when its items and what it pays for do.
LEMMA OthersStay ==
  ASSUME PaymentInv, NEW n \in Customer, About(n)' = About(n),
         \A x \in About(n) : ItemTotal(x)' = ItemTotal(x) /\ ItemFrom(x)' = ItemFrom(x),
         subscription'[n] = subscription[n], now <= now', now' \in Nat
  PROVE  (ToldOfUnpaid(n) => ToldOfUnpaid(n)') /\ (ToldOfPaid(n) => ToldOfPaid(n)')
<1>1. ToldOfPaid(n) => ToldOfPaid(n)'
  BY DEF ToldOfPaid, Ends
<1>2. ASSUME ToldOfUnpaid(n), NEW m \in About(n), ItemTotal(m) # 0
      PROVE  \E x \in About(n), date \in 0..MaxTime : x > m /\ Ends(x, date)' /\ date < now'
  <2>1. PICK x \in About(n), date \in 0..MaxTime : x > m /\ Ends(x, date) /\ date < now
    BY <1>2 DEF ToldOfUnpaid
  <2>2. date < now'
    BY <2>1, PaymentTypes
  <2> QED BY <2>1, <2>2 DEF Ends
<1> QED BY <1>1, <1>2 DEF ToldOfUnpaid

LEMMA SubscribeKeepsInv ==
  ASSUME PaymentInv, NEW n \in Customer, NEW amount \in Amount, Subscribe(n, amount)
  PROVE  PaymentInv'
<1> DEFINE hook == Webhook("subscription.created", n, amount, NoDate)
<1>1. /\ UNCHANGED << now, quotaEvents >> /\ Sends(hook)
      /\ subscription' = [subscription EXCEPT ![n] = [amount |-> amount, until |-> NoDate]]
  BY DEF Subscribe
<1>2. hook \in HookType /\ hook.type = "subscription.created" /\ hook.node = n
      /\ hook.amount = amount
  BY DEF Webhook, HookType
<1> HIDE DEF hook
<1>3. PICK last : last = Len(quotaEvents) + Len(webhooks) + 1
  OBVIOUS
<1>4. \A x \in Items : /\ ItemNode(x)' = ItemNode(x) /\ ItemTotal(x)' = ItemTotal(x)
                       /\ ItemFrom(x)' = ItemFrom(x) /\ x < last
  BY <1>1, <1>2, <1>3, SendsItem
<1>5. ItemTotal(last)' = amount /\ webhooks' \in Seq(HookType) /\ last \in Nat
  <2>1. last \in Nat
    BY <1>3, PaymentTypes
  <2> QED BY <1>1, <1>2, <1>3, <2>1, SendsItem
<1>6. \A m \in Customer : About(m)' = IF m = n THEN About(m) \cup {last} ELSE About(m)
  BY <1>1, <1>2, <1>3, SendsAbout
<1>7. [amount |-> amount, until |-> NoDate] # Unpaid
  BY PaymentTypes DEF Unpaid
<1>8. PaymentTypeOK'
  <2>1. subscription' \in [Customer -> [amount : Amount \cup {0}, until : 0..MaxTime \cup {NoDate}]]
    BY <1>1 DEF PaymentInv, PaymentTypeOK
  <2>2. \A i \in DOMAIN webhooks' : webhooks'[i] \in HookType
    BY <1>5
  <2> QED BY <1>1, <2>1, <2>2 DEF PaymentInv, PaymentTypeOK, HookType
<1>9. HooksOK'
  BY <1>1, <1>5 DEF PaymentInv, HooksOK, PaymentTypeOK
<1>10. ToldOfPaid(n)'
  <2>1. subscription'[n] = [amount |-> amount, until |-> NoDate]
    BY <1>1 DEF PaymentInv, PaymentTypeOK
  <2>2. last \in About(n)' /\ \A x \in About(n)' : ~(x > last)
    BY <1>4, <1>5, <1>6, PaymentTypes DEF About
  <2> QED BY <1>5, <2>1, <2>2 DEF ToldOfPaid
<1>11. ASSUME NEW m \in Customer \ {n}
       PROVE  subscription'[m] = subscription[m] /\ (ToldOfUnpaid(m) => ToldOfUnpaid(m)')
              /\ (ToldOfPaid(m) => ToldOfPaid(m)')
  <2>1. About(m)' = About(m) /\ subscription'[m] = subscription[m] /\ now' = now /\ now <= now
    BY <1>1, <1>6, PaymentTypes DEF PaymentInv, PaymentTypeOK
  <2>2. \A x \in About(m) : ItemTotal(x)' = ItemTotal(x) /\ ItemFrom(x)' = ItemFrom(x)
    BY <1>4 DEF About
  <2> QED BY <2>1, <2>2, OthersStay, PaymentTypes
<1>12. Told'
  BY <1>1, <1>7, <1>10, <1>11 DEF Told, PaymentInv, PaymentTypeOK
<1> QED BY <1>8, <1>9, <1>12 DEF PaymentInv

LEMMA OtherChangeKeepsInv ==
  ASSUME PaymentInv, NEW n \in Customer, ChangeSubscription(n)
  PROVE  PaymentInv'
<1> DEFINE hook == Webhook("subscription.updated", n, 0, NoDate)
<1>1. UNCHANGED << now, subscription, quotaEvents >> /\ Sends(hook)
  BY DEF ChangeSubscription
<1>2. hook \in HookType /\ hook.type = "subscription.updated"
  BY DEF Webhook, HookType
<1> HIDE DEF hook
<1>3. PICK last : last = Len(quotaEvents) + Len(webhooks) + 1
  OBVIOUS
<1>4. /\ webhooks' \in Seq(HookType)
      /\ \A x \in Items : ItemTotal(x)' = ItemTotal(x) /\ ItemFrom(x)' = ItemFrom(x)
  BY <1>1, <1>2, <1>3, SendsItem
<1>5. \A m \in Customer : About(m)' = About(m)
  BY <1>1, <1>2, <1>3, SendsAbout
<1>6. PaymentTypeOK' /\ HooksOK'
  <2>1. \A i \in DOMAIN webhooks' : webhooks'[i] \in HookType
    BY <1>4
  <2> QED BY <1>1, <1>4, <2>1 DEF PaymentInv, PaymentTypeOK, HooksOK, HookType
<1>7. Told'
  <2>1. ASSUME NEW m \in Customer
        PROVE  (ToldOfUnpaid(m) => ToldOfUnpaid(m)') /\ (ToldOfPaid(m) => ToldOfPaid(m)')
    <3>1. \A x \in About(m) : ItemTotal(x)' = ItemTotal(x) /\ ItemFrom(x)' = ItemFrom(x)
      BY <1>4 DEF About
    <3>2. About(m)' = About(m) /\ subscription'[m] = subscription[m] /\ now <= now' /\ now' \in Nat
      BY <1>1, <1>5, PaymentTypes
    <3> QED BY <3>1, <3>2, OthersStay
  <2> QED BY <1>1, <2>1 DEF Told, PaymentInv
<1> QED BY <1>6, <1>7 DEF PaymentInv

\* The end a node schedules is the only item after its total.
LEMMA ScheduleKeepsInv ==
  ASSUME PaymentInv, NEW n \in Customer, NEW end \in 0..MaxTime, ScheduleEnd(n, end)
  PROVE  PaymentInv'
<1> DEFINE hook == Webhook("subscription.updated: cancel", n, 0, end)
<1>1. /\ UNCHANGED << now, quotaEvents >> /\ Sends(hook)
      /\ subscription[n] # Unpaid /\ subscription[n].until = NoDate
      /\ subscription' = [subscription EXCEPT ![n].until = end]
  BY DEF ScheduleEnd
<1>2. hook \in HookType /\ hook.type = "subscription.updated: cancel" /\ hook.node = n
      /\ hook.effectiveAt = end
  BY DEF Webhook, HookType
<1> HIDE DEF hook
<1>3. PICK last : last = Len(quotaEvents) + Len(webhooks) + 1
  OBVIOUS
<1>4. \A x \in Items : ItemTotal(x)' = ItemTotal(x) /\ ItemFrom(x)' = ItemFrom(x) /\ x < last
  BY <1>1, <1>2, <1>3, SendsItem
<1>5. webhooks' \in Seq(HookType) /\ Ends(last, end)' /\ last \in Nat
  <2>1. last \in Nat
    BY <1>3, PaymentTypes
  <2>2. ItemTotal(last)' = 0 /\ ItemFrom(last)' = end /\ webhooks' \in Seq(HookType)
    BY <1>1, <1>2, <1>3, SendsItem
  <2> QED BY <2>1, <2>2 DEF Ends
<1>6. \A m \in Customer : About(m)' = IF m = n THEN About(m) \cup {last} ELSE About(m)
  BY <1>1, <1>2, <1>3, SendsAbout
<1>7. /\ subscription' \in [Customer -> [amount : Amount \cup {0}, until : 0..MaxTime \cup {NoDate}]]
      /\ subscription'[n].amount = subscription[n].amount /\ subscription'[n].until = end
      /\ \A m \in Customer \ {n} : subscription'[m] = subscription[m]
  BY <1>1 DEF PaymentInv, PaymentTypeOK
<1>8. end # NoDate /\ subscription'[n] # Unpaid /\ subscription[n].amount \in Amount
  BY <1>1, <1>7, PaymentTypes DEF Unpaid, PaymentInv, HooksOK
<1>9. PaymentTypeOK' /\ HooksOK'
  <2>1. \A i \in DOMAIN webhooks' : webhooks'[i] \in HookType
    BY <1>5
  <2> QED BY <1>1, <1>5, <1>7, <1>8, <2>1 DEF PaymentInv, PaymentTypeOK, HooksOK, HookType
<1>10. ToldOfPaid(n)'
  <2>1. PICK m \in About(n) :
          /\ ItemTotal(m) = subscription[n].amount /\ \A x \in About(n) : ~(x > m)
    BY <1>1 DEF PaymentInv, Told, ToldOfPaid
  <2>2. m \in About(n)' /\ ItemTotal(m)' = subscription'[n].amount /\ last > m /\ last \in About(n)'
    BY <1>4, <1>5, <1>6, <1>7, <2>1, PaymentTypes DEF About
  <2>3. \A x \in About(n)' : x > m => x = last
    BY <1>6, <2>1
  <2> QED BY <1>5, <1>7, <1>8, <2>2, <2>3 DEF ToldOfPaid
<1>11. ASSUME NEW m \in Customer \ {n}
       PROVE  (ToldOfUnpaid(m) => ToldOfUnpaid(m)') /\ (ToldOfPaid(m) => ToldOfPaid(m)')
  <2>1. About(m)' = About(m) /\ subscription'[m] = subscription[m] /\ now <= now' /\ now' \in Nat
    BY <1>1, <1>6, <1>7, PaymentTypes
  <2>2. \A x \in About(m) : ItemTotal(x)' = ItemTotal(x) /\ ItemFrom(x)' = ItemFrom(x)
    BY <1>4 DEF About
  <2> QED BY <2>1, <2>2, OthersStay
<1>12. Told'
  BY <1>7, <1>8, <1>10, <1>11 DEF Told, PaymentInv
<1> QED BY <1>9, <1>12 DEF PaymentInv

\* The end it scheduled has passed.
LEMMA EndKeepsInv ==
  ASSUME PaymentInv, NEW n \in Customer, EndSubscription(n)
  PROVE  PaymentInv'
<1> DEFINE hook == Webhook("subscription.updated: canceled", n, 0, NoDate)
<1>1. /\ UNCHANGED << now, quotaEvents >> /\ Sends(hook) /\ subscription[n] # Unpaid
      /\ subscription[n].until # NoDate /\ subscription[n].until < now
      /\ subscription' = [subscription EXCEPT ![n] = Unpaid]
  BY DEF EndSubscription
<1>2. hook \in HookType /\ hook.type = "subscription.updated: canceled" /\ hook.node = n
  BY DEF Webhook, HookType
<1> HIDE DEF hook
<1>3. PICK last : last = Len(quotaEvents) + Len(webhooks) + 1
  OBVIOUS
<1>4. \A x \in Items : ItemTotal(x)' = ItemTotal(x) /\ ItemFrom(x)' = ItemFrom(x) /\ x < last
  BY <1>1, <1>2, <1>3, SendsItem
<1>5. webhooks' \in Seq(HookType) /\ ItemTotal(last)' = 0
  BY <1>1, <1>2, <1>3, SendsItem
<1>6. \A m \in Customer : About(m)' = IF m = n THEN About(m) \cup {last} ELSE About(m)
  BY <1>1, <1>2, <1>3, SendsAbout
<1>7. /\ subscription' \in [Customer -> [amount : Amount \cup {0}, until : 0..MaxTime \cup {NoDate}]]
      /\ subscription'[n] = Unpaid
      /\ \A m \in Customer \ {n} : subscription'[m] = subscription[m]
  BY <1>1 DEF PaymentInv, PaymentTypeOK, Unpaid
<1>8. PaymentTypeOK' /\ HooksOK'
  <2>1. \A i \in DOMAIN webhooks' : webhooks'[i] \in HookType
    BY <1>5
  <2> QED BY <1>1, <1>5, <1>7, <2>1 DEF PaymentInv, PaymentTypeOK, HooksOK, HookType
<1>9. ToldOfUnpaid(n)'
  <2>1. PICK date \in 0..MaxTime : date = subscription[n].until /\ date < now
    BY <1>1 DEF PaymentInv, PaymentTypeOK
  <2>2. PICK m \in About(n) : /\ \A x \in About(n) : x > m => Ends(x, date)
                             /\ \E x \in About(n) : x > m /\ Ends(x, date)
    BY <1>1, <2>1 DEF PaymentInv, Told, ToldOfPaid
  <2>3. PICK x \in About(n) : x > m /\ Ends(x, date)
    BY <2>2
  <2>4. x \in About(n)' /\ Ends(x, date)'
    <3>1. x \in About(n)' /\ ItemTotal(x)' = 0 /\ ItemFrom(x)' = date
      BY <1>4, <1>6, <2>3 DEF About, Ends
    <3> QED BY <3>1 DEF Ends
  <2>5. ASSUME NEW y \in About(n)', ItemTotal(y)' # 0 PROVE x > y
    <3>1. y \in About(n) /\ ItemTotal(y) # 0
      BY <1>4, <1>5, <1>6, <2>5 DEF About
    <3>2. ~(y > m)
      BY <2>2, <3>1 DEF Ends
    <3>3. x \in Nat /\ m \in Nat /\ y \in Nat
      BY <3>1, PaymentTypes DEF About
    <3> QED BY <2>3, <3>2, <3>3
  <2> QED BY <1>1, <2>1, <2>4, <2>5 DEF ToldOfUnpaid
<1>10. ASSUME NEW m \in Customer \ {n}
       PROVE  (ToldOfUnpaid(m) => ToldOfUnpaid(m)') /\ (ToldOfPaid(m) => ToldOfPaid(m)')
  <2>1. About(m)' = About(m) /\ subscription'[m] = subscription[m] /\ now <= now' /\ now' \in Nat
    BY <1>1, <1>6, <1>7, PaymentTypes
  <2>2. \A x \in About(m) : ItemTotal(x)' = ItemTotal(x) /\ ItemFrom(x)' = ItemFrom(x)
    BY <1>4 DEF About
  <2> QED BY <2>1, <2>2, OthersStay
<1>11. Told'
  BY <1>7, <1>9, <1>10 DEF Told, PaymentInv
<1> QED BY <1>8, <1>11 DEF PaymentInv

LEMMA TickKeepsInv ==
  ASSUME PaymentInv, Tick
  PROVE  PaymentInv'
<1>1. UNCHANGED << subscription, webhooks, quotaEvents >> /\ now' \in 0..MaxTime /\ now <= now'
      /\ now' \in Nat
  BY PaymentTypes DEF Tick
<1>2. PaymentTypeOK' /\ HooksOK'
  BY <1>1 DEF PaymentInv, PaymentTypeOK, HooksOK
<1>3. \A x : ItemTotal(x)' = ItemTotal(x) /\ ItemFrom(x)' = ItemFrom(x)
  BY <1>1 DEF ItemTotal, ItemFrom, IsEvent, Hook
<1>4. \A n \in Customer : About(n)' = About(n)
  BY <1>1 DEF About, Items, Counts, ItemNode, IsEvent, Hook
<1>5. Told'
  <2>1. ASSUME NEW n \in Customer
        PROVE  (ToldOfUnpaid(n) => ToldOfUnpaid(n)') /\ (ToldOfPaid(n) => ToldOfPaid(n)')
    BY <1>1, <1>3, <1>4, OthersStay
  <2> QED BY <1>1, <2>1 DEF Told, PaymentInv
<1> QED BY <1>2, <1>5 DEF PaymentInv

-----------------------------------------------------------------------------
\* New numbers for the items of a node, some of them twice: to[x] is where x is afterwards,
\* from[y] what y was. The order is kept, and what the items say.
Renumbers(n, to, from) ==
  /\ \A x \in About(n) :
       /\ to[x] \in About(n)' /\ ItemTotal(to[x])' = ItemTotal(x)
       /\ ItemFrom(x) # NoDate => ItemFrom(to[x])' = ItemFrom(x)
       /\ \A y \in About(n) : x < y => to[x] < to[y]
  /\ \A y \in About(n)' :
       /\ from[y] \in About(n) /\ ItemTotal(y)' = ItemTotal(from[y])
       /\ ItemFrom(from[y]) # NoDate => ItemFrom(y)' = ItemFrom(from[y])
       /\ \A x \in About(n) : /\ x > from[y] => to[x] > y
                              /\ y > to[x] => from[y] > x

LEMMA Renumbering ==
  ASSUME PaymentInv, UNCHANGED << now, subscription >>, NEW n \in Customer, NEW to, NEW from,
         Renumbers(n, to, from)
  PROVE  /\ ToldOfUnpaid(n) => ToldOfUnpaid(n)'
         /\ subscription[n] # Unpaid /\ ToldOfPaid(n) => ToldOfPaid(n)'
<1>1. ASSUME ToldOfUnpaid(n), NEW y \in About(n)', ItemTotal(y)' # 0
      PROVE  \E x \in About(n)', date \in 0..MaxTime : x > y /\ Ends(x, date)' /\ date < now
  <2>1. PICK x \in About(n), date \in 0..MaxTime : x > from[y] /\ Ends(x, date) /\ date < now
    BY <1>1 DEF Renumbers, ToldOfUnpaid
  <2>2. to[x] \in About(n)' /\ to[x] > y
    BY <2>1 DEF Renumbers
  <2>3. ItemTotal(to[x])' = 0 /\ ItemFrom(to[x])' = date
    BY <2>1, PaymentTypes DEF Renumbers, Ends
  <2> QED BY <2>1, <2>2, <2>3 DEF Ends
<1>2. ASSUME subscription[n] # Unpaid, ToldOfPaid(n)
      PROVE  ToldOfPaid(n)'
  <2>1. PICK date : date = subscription[n].until
    OBVIOUS
  <2>2. date \in 0..MaxTime \cup {NoDate}
    BY <2>1 DEF PaymentInv, PaymentTypeOK
  <2>3. PICK m \in About(n) :
          /\ ItemTotal(m) = subscription[n].amount
          /\ \A x \in About(n) : x > m => date # NoDate /\ Ends(x, date)
          /\ date # NoDate => \E x \in About(n) : x > m /\ Ends(x, date)
    BY <1>2, <2>1 DEF ToldOfPaid
  <2>4. to[m] \in About(n)' /\ ItemTotal(to[m])' = subscription[n].amount
    BY <2>3 DEF Renumbers
  <2>5. ASSUME NEW y \in About(n)', y > to[m]
        PROVE  date # NoDate /\ Ends(y, date)'
    <3>1. from[y] \in About(n) /\ from[y] > m
      BY <2>5 DEF Renumbers
    <3>2. date # NoDate /\ ItemTotal(from[y]) = 0 /\ ItemFrom(from[y]) = date
      BY <2>3, <3>1 DEF Ends
    <3>3. ItemTotal(y)' = 0 /\ ItemFrom(y)' = date
      BY <3>2 DEF Renumbers
    <3> QED BY <3>2, <3>3 DEF Ends
  <2>6. ASSUME date # NoDate
        PROVE  \E x \in About(n)' : x > to[m] /\ Ends(x, date)'
    <3>1. PICK x \in About(n) : x > m /\ Ends(x, date)
      BY <2>3, <2>6
    <3>2. m < x
      BY <3>1
    <3>3. to[x] \in About(n)' /\ to[m] < to[x] /\ ItemTotal(to[x])' = 0 /\ ItemFrom(to[x])' = date
      BY <2>6, <3>1, <3>2 DEF Renumbers, Ends
    <3>4. to[x] > to[m]
      BY <3>3
    <3> QED BY <3>3, <3>4 DEF Ends
  <2>7. subscription'[n].until = date /\ subscription'[n].amount = subscription[n].amount
    BY <2>1
  <2> QED BY <2>4, <2>5, <2>6, <2>7 DEF ToldOfPaid, Ends
<1> QED BY <1>1, <1>2 DEF ToldOfUnpaid

\* The item y afterwards says what x said.
Same(x, y) ==
  /\ y \in Items' /\ (Counts(y)' <=> Counts(x)) /\ ItemNode(y)' = ItemNode(x)
  /\ ItemTotal(y)' = ItemTotal(x)
  /\ ItemFrom(x) # NoDate => ItemFrom(y)' = ItemFrom(x)

\* e events are added, k webhooks are gone.
LEMMA HandleEffect ==
  ASSUME PaymentInv, NEW answered, HandleCallback(answered)
  PROVE  LET hook == Head(webhooks) IN
         /\ hook \in HookType /\ hook = webhooks[1] /\ Len(webhooks) > 0
         /\ \E e, k \in {0, 1} :
              /\ e = 0 <=> hook.type = "subscription.updated"
              /\ quotaEvents' \in Seq(EventType) /\ webhooks' \in Seq(HookType)
              /\ Len(quotaEvents') = Len(quotaEvents) + e /\ Len(webhooks') = Len(webhooks) - k
              /\ \A i \in 1..Len(quotaEvents) : quotaEvents'[i] = quotaEvents[i]
              /\ e = 1 => quotaEvents'[Len(quotaEvents) + 1] = QuotaEventOf(hook)
              /\ \A i \in 1..Len(webhooks) - k : webhooks'[i] = webhooks[i + k]
<1> DEFINE hook == Head(webhooks)
<1>1. quotaEvents \in Seq(EventType) /\ webhooks \in Seq(HookType) /\ webhooks # << >>
  BY DEF HandleCallback, PaymentInv, PaymentTypeOK, HooksOK, EventType
<1>2. hook \in HookType /\ hook = webhooks[1] /\ Len(webhooks) > 0
  BY <1>1
<1> HIDE DEF hook
<1>3. QuotaEventOf(hook) \in EventType
  BY <1>2, PaymentTypes DEF QuotaEventOf, EventType, HookType
<1>4. \E e \in {0, 1} :
        /\ e = 0 <=> hook.type = "subscription.updated"
        /\ quotaEvents' \in Seq(EventType)
        /\ Len(quotaEvents') = Len(quotaEvents) + e
        /\ \A i \in 1..Len(quotaEvents) : quotaEvents'[i] = quotaEvents[i]
        /\ e = 1 => quotaEvents'[Len(quotaEvents) + 1] = QuotaEventOf(hook)
  <2>1. CASE hook.type = "subscription.updated"
    <3>1. quotaEvents' = quotaEvents
      BY <2>1 DEF HandleCallback, hook
    <3>2. Len(quotaEvents) = Len(quotaEvents) + 0
      BY <1>1
    <3> QED BY <1>1, <2>1, <3>1, <3>2
  <2>2. CASE hook.type # "subscription.updated"
    <3>1. quotaEvents' = Append(quotaEvents, QuotaEventOf(hook))
      BY <2>2 DEF HandleCallback, hook
    <3> QED BY <1>1, <1>3, <2>2, <3>1
  <2> QED BY <2>1, <2>2
<1>5. \E k \in {0, 1} :
        /\ webhooks' \in Seq(HookType) /\ Len(webhooks') = Len(webhooks) - k
        /\ \A i \in 1..Len(webhooks) - k : webhooks'[i] = webhooks[i + k]
  <2>1. CASE webhooks' = webhooks
    <3>1. /\ Len(webhooks) = Len(webhooks) - 0
          /\ \A i \in 1..Len(webhooks) - 0 : webhooks[i] = webhooks[i + 0]
      BY <1>1
    <3> QED BY <1>1, <2>1, <3>1
  <2>2. CASE webhooks' = Tail(webhooks)
    <3>1. /\ Tail(webhooks) \in Seq(HookType) /\ Len(Tail(webhooks)) = Len(webhooks) - 1
          /\ \A i \in 1..Len(webhooks) - 1 : Tail(webhooks)[i] = webhooks[i + 1]
      BY <1>1
    <3> QED BY <2>2, <3>1
  <2> QED BY <2>1, <2>2 DEF HandleCallback
<1> QED BY <1>2, <1>4, <1>5 DEF hook

LEMMA HandleKeepsInv ==
  ASSUME PaymentInv, NEW answered, HandleCallback(answered)
  PROVE  PaymentInv'
<1>1. UNCHANGED << now, subscription >>
  BY DEF HandleCallback
<1>2. PICK hook, L, W : hook = Head(webhooks) /\ L = Len(quotaEvents) /\ W = Len(webhooks)
  OBVIOUS
<1>3. hook \in HookType /\ hook = webhooks[1] /\ W > 0 /\ L \in Nat /\ W \in Nat
  BY <1>2, HandleEffect, PaymentTypes
<1>4. PICK e \in {0, 1}, k \in {0, 1} :
        /\ e = 0 <=> hook.type = "subscription.updated"
        /\ quotaEvents' \in Seq(EventType) /\ webhooks' \in Seq(HookType)
        /\ Len(quotaEvents') = L + e /\ Len(webhooks') = W - k
        /\ \A i \in 1..L : quotaEvents'[i] = quotaEvents[i]
        /\ e = 1 => quotaEvents'[L + 1] = QuotaEventOf(hook)
        /\ \A i \in 1..W - k : webhooks'[i] = webhooks[i + k]
  BY <1>2, HandleEffect
<1>5. PaymentTypeOK' /\ HooksOK'
  <2>1. \A i \in DOMAIN webhooks' : webhooks'[i] \in HookType
    BY <1>4
  <2> QED BY <1>1, <1>4, <2>1 DEF PaymentInv, PaymentTypeOK, HooksOK, HookType, EventType
<1>6. Items = 1..L + W /\ Items' = 1..(L + e) + (W - k)
  BY <1>2, <1>4 DEF Items
<1>7. ASSUME NEW x \in 1..L
      PROVE  Same(x, x)
  <2>1. /\ x \in Items /\ x \in Items' /\ x <= Len(quotaEvents) /\ x <= Len(quotaEvents')
        /\ quotaEvents'[x] = quotaEvents[x]
    BY <1>2, <1>3, <1>4, <1>6
  <2> QED BY <2>1 DEF Same, Counts, ItemNode, ItemTotal, ItemFrom, IsEvent
<1>8. ASSUME e = 1
      PROVE  L + 1 \in Items /\ Same(L + 1, L + 1)
  <2>1. PICK x : x = L + 1
    OBVIOUS
  <2>2. /\ x \in Items /\ x \in Items' /\ ~(x <= Len(quotaEvents)) /\ x <= Len(quotaEvents')
        /\ x - Len(quotaEvents) = 1
    BY <1>2, <1>3, <1>4, <1>6, <1>8, <2>1
  <2>3. Hook(x) = hook
    BY <1>3, <2>2 DEF Hook
  <2>4. /\ quotaEvents'[x].node = hook.node
        /\ quotaEvents'[x].total = IF hook.type = "subscription.created" THEN hook.amount ELSE 0
        /\ hook.effectiveAt # NoDate => quotaEvents'[x].validFrom = hook.effectiveAt
    BY <1>4, <1>8, <2>1 DEF QuotaEventOf
  <2>5. Same(x, x)
    BY <1>4, <1>8, <2>2, <2>3, <2>4 DEF Same, Counts, ItemNode, ItemTotal, ItemFrom, IsEvent
  <2> QED BY <2>1, <2>2, <2>5
<1>9. ASSUME NEW x \in Items, x > L + k
      PROVE  x + e - k > L + e /\ Same(x, x + e - k)
  <2>1. PICK y : y = x + e - k
    OBVIOUS
  <2>2. /\ x \in Nat /\ y \in Items' /\ y > L + e
        /\ ~(x <= Len(quotaEvents)) /\ ~(y <= Len(quotaEvents'))
        /\ y - Len(quotaEvents') \in 1..W - k
        /\ (y - Len(quotaEvents')) + k = x - Len(quotaEvents)
    BY <1>2, <1>3, <1>4, <1>6, <1>9, <2>1
  <2>3. webhooks'[y - Len(quotaEvents')] = webhooks[x - Len(quotaEvents)]
    BY <1>4, <2>2
  <2>4. Hook(y)' = Hook(x)
    BY <2>3 DEF Hook
  <2>5. Same(x, y)
    BY <2>2, <2>4 DEF Same, Counts, ItemNode, ItemTotal, ItemFrom, IsEvent
  <2> QED BY <2>1, <2>2, <2>5
\* A webhook without a handler goes away without an event.
<1>10. ASSUME k = 1, e = 0
       PROVE  ~Counts(L + 1)
  <2>1. /\ ~(L + 1 <= Len(quotaEvents)) /\ (L + 1) - Len(quotaEvents) = 1
    BY <1>2, <1>3
  <2>2. Hook(L + 1) = hook
    BY <1>3, <2>1 DEF Hook
  <2> QED BY <1>4, <1>10, <2>1, <2>2 DEF Counts, IsEvent
<1>11. PICK to : to = [x \in Items |-> IF x <= L \/ (x = L + 1 /\ k = 1) THEN x ELSE x + e - k]
  OBVIOUS
<1>12. PICK from : from = [y \in 1..(L + e) + (W - k) |->
                             IF y <= L \/ (y = L + 1 /\ e = 1) THEN y ELSE y - e + k]
  OBVIOUS
<1>13. ASSUME NEW x \in Items, Counts(x)
       PROVE  Same(x, to[x])
  <2>1. CASE x <= L
    <3>1. x \in 1..L /\ to[x] = x
      BY <1>6, <1>11, <2>1
    <3> QED BY <1>7, <3>1
  <2>2. CASE x = L + 1 /\ k = 1
    <3>1. e = 1 /\ to[x] = L + 1
      BY <1>10, <1>11, <1>13, <2>2
    <3> QED BY <1>8, <2>2, <3>1
  <2>3. CASE ~(x <= L) /\ ~(x = L + 1 /\ k = 1)
    <3>1. x > L + k /\ to[x] = x + e - k
      BY <1>3, <1>6, <1>11, <2>3
    <3> QED BY <1>9, <3>1
  <2> QED BY <2>1, <2>2, <2>3
<1>14. ASSUME NEW y \in Items'
       PROVE  from[y] \in Items /\ Same(from[y], y)
  <2>1. CASE y <= L
    <3>1. y \in 1..L /\ from[y] = y /\ y \in Items
      BY <1>3, <1>6, <1>12, <2>1
    <3> QED BY <1>7, <3>1
  <2>2. CASE y = L + 1 /\ e = 1
    <3>1. from[y] = L + 1
      BY <1>6, <1>12, <2>2
    <3> QED BY <1>8, <2>2, <3>1
  <2>3. CASE ~(y <= L) /\ ~(y = L + 1 /\ e = 1)
    <3>1. from[y] = y - e + k
      BY <1>6, <1>12, <2>3
    <3>2. from[y] \in Items /\ from[y] > L + k /\ from[y] + e - k = y
      BY <1>3, <1>6, <2>3, <3>1
    <3> QED BY <1>9, <3>2
  <2> QED BY <2>1, <2>2, <2>3
<1>15. ASSUME NEW x \in Items, NEW z \in Items, Counts(x), Counts(z), x < z
       PROVE  to[x] < to[z]
  <2>1. ~(k = 1 /\ e = 0 /\ (x = L + 1 \/ z = L + 1))
    BY <1>10, <1>15
  <2> QED BY <1>3, <1>6, <1>11, <1>15, <2>1
<1>16. ASSUME NEW x \in Items, Counts(x), NEW y \in Items'
       PROVE  (x > from[y] => to[x] > y) /\ (y > to[x] => from[y] > x)
  <2>1. ~(k = 1 /\ e = 0 /\ x = L + 1)
    BY <1>10, <1>16
  <2> QED BY <1>3, <1>6, <1>11, <1>12, <2>1
<1>17. ASSUME NEW n \in Customer
       PROVE  Renumbers(n, to, from)
  <2>1. \A x \in About(n) : x \in Items /\ Counts(x)
    BY DEF About
  <2>2. \A y \in About(n)' : y \in Items' /\ from[y] \in About(n)
    BY <1>14 DEF About, Same
  <2>3. \A x \in About(n) : to[x] \in About(n)'
    BY <1>13, <2>1 DEF About, Same
  <2>4. ASSUME NEW x \in About(n)
        PROVE  /\ ItemTotal(to[x])' = ItemTotal(x)
               /\ ItemFrom(x) # NoDate => ItemFrom(to[x])' = ItemFrom(x)
               /\ \A y \in About(n) : x < y => to[x] < to[y]
    BY <1>13, <1>15, <2>1 DEF Same
  <2>5. ASSUME NEW y \in About(n)'
        PROVE  /\ ItemTotal(y)' = ItemTotal(from[y])
               /\ ItemFrom(from[y]) # NoDate => ItemFrom(y)' = ItemFrom(from[y])
               /\ \A x \in About(n) : (x > from[y] => to[x] > y) /\ (y > to[x] => from[y] > x)
    BY <1>14, <1>16, <2>1, <2>2 DEF Same
  <2> QED BY <2>2, <2>3, <2>4, <2>5 DEF Renumbers
<1>18. Told'
  BY <1>1, <1>17, Renumbering DEF Told, PaymentInv
<1> QED BY <1>5, <1>18 DEF PaymentInv

-----------------------------------------------------------------------------
LEMMA PaymentInvStep == PaymentInv /\ [PaymentNext]_paymentVars => PaymentInv'
<1> SUFFICES ASSUME PaymentInv, [PaymentNext]_paymentVars PROVE PaymentInv'
  OBVIOUS
<1>1. CASE UNCHANGED paymentVars
  <2>1. UNCHANGED << now, subscription, webhooks, quotaEvents >>
    BY <1>1 DEF paymentVars
  <2> QED BY <2>1 DEF PaymentInv, PaymentTypeOK, HooksOK, Told, ToldOfPaid, ToldOfUnpaid, About, Ends,
                     ItemTotal, ItemFrom, ItemNode, Counts, Items, Hook, IsEvent
<1>2. ASSUME NEW n \in Customer, NEW amount \in Amount, Subscribe(n, amount) PROVE PaymentInv'
  BY <1>2, SubscribeKeepsInv
<1>3. ASSUME NEW n \in Customer, ChangeSubscription(n) \/ EndSubscription(n) PROVE PaymentInv'
  BY <1>3, OtherChangeKeepsInv, EndKeepsInv
<1>4. ASSUME NEW n \in Customer, NEW end \in 0..MaxTime, ScheduleEnd(n, end) PROVE PaymentInv'
  BY <1>4, ScheduleKeepsInv
<1>5. ASSUME NEW answered \in BOOLEAN, HandleCallback(answered) PROVE PaymentInv'
  BY <1>5, HandleKeepsInv
<1>6. CASE Tick
  BY <1>6, TickKeepsInv
<1> QED BY <1>1, <1>2, <1>3, <1>4, <1>5, <1>6 DEF PaymentNext

\* Quota events and subscriptions have the types of their columns (PaymentTypeOK: the webhook
\* handlers and quota_events).
THEOREM PaymentTypeCorrect == PaymentSpec => []PaymentTypeOK
<1>1. PaymentInv => PaymentTypeOK
  BY DEF PaymentInv
<1> QED BY PaymentInvInit, PaymentInvStep, <1>1, PTL DEF PaymentSpec

\* What the events say when nothing about the node is under way
LEMMA SettledQuota ==
  ASSUME PaymentInv, NEW n \in Customer,
         \A i \in DOMAIN webhooks : webhooks[i].node # n,
         \A i \in DOMAIN quotaEvents :
           quotaEvents[i].node = n /\ quotaEvents[i].validFrom >= now => quotaEvents[i].total = 0,
         NEW paid, paid = (subscription[n] # Unpaid
                           /\ (subscription[n].until = NoDate \/ now <= subscription[n].until))
  PROVE  /\ paid => \E i \in LatestQuotaEvent(n) :
                      LatestQuotaEvent(n) = {i} /\ quotaEvents[i].total = subscription[n].amount
         /\ ~paid => \A i \in LatestQuotaEvent(n) : quotaEvents[i].total = 0
<1>1. PICK L : L = Len(quotaEvents) /\ L \in Nat /\ DOMAIN quotaEvents = 1..L
  BY PaymentTypes DEF PaymentInv, PaymentTypeOK
<1>2. ASSUME NEW x \in About(n)
      PROVE  /\ x \in 1..L /\ quotaEvents[x] \in EventType /\ quotaEvents[x].node = n
             /\ ItemTotal(x) = quotaEvents[x].total /\ ItemFrom(x) = quotaEvents[x].validFrom
             /\ ItemFrom(x) \in Nat /\ ItemTotal(x) \in Nat
  <2>1. x \in Items /\ ItemNode(x) = n
    BY DEF About
  <2>2. x <= Len(quotaEvents)
    BY <2>1, PaymentTypes DEF ItemNode, IsEvent, Hook
  <2>3. x \in 1..L /\ quotaEvents[x] \in EventType
    BY <1>1, <2>1, <2>2, PaymentTypes DEF IsEvent, Items
  <2> QED BY <2>1, <2>2, <2>3, PaymentTypes DEF ItemNode, ItemTotal, ItemFrom, IsEvent, EventType
<1>3. ASSUME NEW x \in 1..L, quotaEvents[x].node = n
      PROVE  x \in About(n)
  BY <1>1, <1>3, PaymentTypes DEF About, Items, Counts, IsEvent, ItemNode
<1> DEFINE holding == {i \in 1..L : quotaEvents[i].node = n /\ quotaEvents[i].validFrom < now}
<1>4. /\ LatestQuotaEvent(n) = {i \in holding : \A j \in holding : j <= i}
      /\ \A x \in holding : x \in About(n) /\ x \in Nat
      /\ \A x \in About(n) : x \in holding <=> ItemFrom(x) < now
  BY <1>1, <1>2, <1>3 DEF LatestQuotaEvent
<1>5. \A x \in About(n) : ItemTotal(x) # 0 => x \in holding
  BY <1>1, <1>2, <1>4, PaymentTypes
<1> HIDE DEF holding
<1>6. ASSUME paid
      PROVE  \E i \in LatestQuotaEvent(n) :
               LatestQuotaEvent(n) = {i} /\ quotaEvents[i].total = subscription[n].amount
  <2>1. subscription[n] # Unpaid /\ subscription[n].amount \in Amount
    BY <1>6 DEF PaymentInv, HooksOK
  <2>2. PICK m \in About(n) :
          /\ ItemTotal(m) = subscription[n].amount
          /\ \A x \in About(n) : x > m =>
               subscription[n].until # NoDate /\ Ends(x, subscription[n].until)
    BY <2>1 DEF PaymentInv, Told, ToldOfPaid
  <2>3. m \in holding
    BY <1>5, <2>1, <2>2, PaymentTypes
  <2>4. ASSUME NEW x \in holding PROVE x <= m
    <3>1. x \in About(n) /\ ItemFrom(x) < now /\ x \in Nat /\ m \in Nat
      BY <1>4, <2>3
    <3>2. CASE x > m
      <4>1. ItemFrom(x) = subscription[n].until /\ subscription[n].until # NoDate
        BY <2>2, <3>1, <3>2 DEF Ends
      <4>2. now <= subscription[n].until
        BY <1>6, <4>1
      <4> QED BY <1>2, <3>1, <4>1, <4>2, PaymentTypes
    <3> QED BY <3>1, <3>2
  <2>5. LatestQuotaEvent(n) = {m}
    <3>1. m \in LatestQuotaEvent(n)
      BY <1>4, <2>3, <2>4
    <3>2. ASSUME NEW x \in LatestQuotaEvent(n) PROVE x = m
      <4>1. x \in Nat /\ m \in Nat /\ x <= m /\ m <= x
        BY <1>4, <2>3, <2>4
      <4> QED BY <4>1
    <3> QED BY <3>1, <3>2
  <2> QED BY <1>2, <2>2, <2>5
<1>7. ASSUME ~paid, NEW i \in LatestQuotaEvent(n)
      PROVE  quotaEvents[i].total = 0
  <2> SUFFICES ASSUME quotaEvents[i].total # 0 PROVE FALSE
    OBVIOUS
  <2>1. i \in About(n) /\ i \in holding /\ \A j \in holding : j <= i
    BY <1>4
  <2>2. ItemTotal(i) # 0
    BY <1>2, <2>1
  \* An end later than i has passed.
  <2>3. \E x \in About(n), date \in 0..MaxTime : x > i /\ Ends(x, date) /\ date < now
    <3>1. CASE subscription[n] = Unpaid
      BY <2>1, <2>2, <3>1 DEF PaymentInv, Told, ToldOfUnpaid
    <3>2. CASE subscription[n] # Unpaid
      <4>1. PICK date \in 0..MaxTime : date = subscription[n].until /\ date # NoDate /\ date < now
        <5>1. subscription[n].until \in 0..MaxTime \cup {NoDate}
          BY DEF PaymentInv, PaymentTypeOK
        <5>2. subscription[n].until # NoDate /\ ~(now <= subscription[n].until)
          BY <1>7, <3>2
        <5> QED BY <5>1, <5>2, PaymentTypes
      <4>2. PICK m \in About(n) : /\ \A x \in About(n) : x > m => Ends(x, date)
                                 /\ \E x \in About(n) : x > m /\ Ends(x, date)
        BY <3>2, <4>1 DEF PaymentInv, Told, ToldOfPaid
      <4>3. PICK x \in About(n) : x > m /\ Ends(x, date)
        BY <4>2
      <4>4. ~(i > m) /\ i \in Nat /\ m \in Nat /\ x \in Nat
        BY <1>2, <2>1, <2>2, <4>2 DEF Ends
      <4> QED BY <4>1, <4>3, <4>4
    <3> QED BY <3>1, <3>2
  <2>4. PICK x \in About(n) : x > i /\ ItemFrom(x) < now
    BY <2>3 DEF Ends
  <2>5. x \in holding /\ x \in Nat /\ i \in Nat
    BY <1>4, <2>1, <2>4
  <2> QED BY <2>1, <2>4, <2>5
<1> QED BY <1>6, <1>7

\* A node has the total it pays for until the end it scheduled, and the default otherwise, once
\* its webhooks have arrived (QuotaFollowsSubscription: the webhook handlers and
\* getTotalStorageAvailable).
THEOREM QuotaIsPaidFor == PaymentSpec => []QuotaFollowsSubscription
<1>1. ASSUME PaymentInv, NEW n \in Customer,
             \A i \in DOMAIN webhooks : webhooks[i].node # n,
             \A i \in DOMAIN quotaEvents :
               quotaEvents[i].node = n /\ quotaEvents[i].validFrom >= now => quotaEvents[i].total = 0,
             NEW paid, paid = (subscription[n] # Unpaid
                               /\ (subscription[n].until = NoDate \/ now <= subscription[n].until))
      PROVE  /\ IsUpgraded(n) <=> paid
             /\ TotalStorageAvailable(n) =
                  IF paid THEN subscription[n].amount ELSE IF n \in Personal THEN FreeTotal ELSE 0
  <2>1. CASE paid
    <3>1. PICK i : LatestQuotaEvent(n) = {i} /\ quotaEvents[i].total = subscription[n].amount
      BY <1>1, <2>1, SettledQuota
    <3>2. subscription[n].amount > 0
      <4>1. subscription[n].amount \in Amount
        BY <1>1, <2>1 DEF PaymentInv, HooksOK
      <4>2. \A a \in Amount : a > 0
        BY PaymentsAssumption
      <4> QED BY <4>1, <4>2
    <3> QED BY <2>1, <3>1, <3>2 DEF IsUpgraded, TotalStorageAvailable
  <2>2. CASE ~paid
    <3>1. \A i \in LatestQuotaEvent(n) : quotaEvents[i].total = 0
      BY <1>1, <2>2, SettledQuota
    <3>2. ~(\E t \in {quotaEvents[i].total : i \in LatestQuotaEvent(n)} : t > 0)
      BY <3>1
    <3> QED BY <2>2, <3>1, <3>2 DEF IsUpgraded, TotalStorageAvailable
  <2> QED BY <2>1, <2>2
<1>2. PaymentInv => QuotaFollowsSubscription
  BY <1>1 DEF QuotaFollowsSubscription
<1> QED BY PaymentInvInit, PaymentInvStep, <1>2, PTL DEF PaymentSpec

-----------------------------------------------------------------------------
(* How far anybody gets beyond the quota, for any holders, servers and     *)
(* sizes.                                                                  *)
(*                                                                         *)
(* OvershootBounded is not inductive: what matters is what may still come. *)
(* ToCome adds up what is granted and not saved yet, for each server that  *)
(* knows of something available what it may let through unseen (Room), and *)
(* for each read that found the usage below a limit what it puts back      *)
(* (a weight). Once the usage has reached the limit a new read finds       *)
(* nothing, and no step makes usage and ToCome together any larger. The    *)
(* limit is any number from the highest total on, since totals may rise    *)
(* later.                                                                  *)

Uploads ==
  [nr : 1..MaxParallel, server : Server, holder : Holder, bytes : 1..MaxBytes,
   at : {"reading", "granted"}, charged : Holder, total : Nat \cup {-1}, used : Nat \cup {-1}]

\* What a read that found less than the limit t puts back
PutBack == MaxBytes + Slack * MaxParallel

Weights(n, t) ==
  [r \in Uploads |->
     IF r.charged # n THEN 0
     ELSE IF r.at = "granted" THEN r.bytes
     ELSE IF r.used # -1 /\ r.used < t THEN PutBack ELSE 0]

Readers(ups, s, n) == {r \in ups : r.server = s /\ r.charged = n /\ r.at = "reading"}

\* What a server may let through: the slack for each upload that could set the counter back,
\* less what it let through since the last one did.
Room(ups, known, asked, n) ==
  [s \in Server |->
     IF known[s][n] > 0 /\ Cardinality(Readers(ups, s, n)) < MaxParallel
     THEN Slack * (MaxParallel - Cardinality(Readers(ups, s, n))) - asked[s][n]
     ELSE 0]

ToCome(ups, known, asked, n, t) ==
  SumFunctionOnSet(Weights(n, t), ups) + SumFunctionOnSet(Room(ups, known, asked, n), Server)

Served(ups) ==
  /\ ups \subseteq Uploads
  /\ \A r, q \in ups : r.nr = q.nr => r = q

Remembered(known, asked) ==
  /\ known \in [Server -> [Holder -> Int]]
  /\ asked \in [Server -> [Holder -> 0..Slack]]

LEMMA FewServed ==
  ASSUME NEW ups, Served(ups)
  PROVE  IsFiniteSet(ups) /\ Cardinality(ups) \in Nat /\ Cardinality(ups) <= MaxParallel
<1> DEFINE f == [r \in ups |-> r.nr]
<1>1. f \in Injection(ups, 1..MaxParallel)
  BY DEF Served, Uploads, Injection, IsInjective
<1>2. IsFiniteSet(1..MaxParallel) /\ Cardinality(1..MaxParallel) = MaxParallel
  <2>1. MaxParallel \in Nat /\ MaxParallel >= 1
    BY QuotaAssumption
  <2> QED BY <2>1, FS_Interval
<1>3. IsFiniteSet(ups) /\ Cardinality(ups) <= Cardinality(1..MaxParallel)
  BY <1>1, <1>2, FS_Injection
<1> QED BY <1>2, <1>3, FS_CardinalityType

LEMMA ReadersType ==
  ASSUME NEW ups, Served(ups), NEW s, NEW n
  PROVE  /\ IsFiniteSet(Readers(ups, s, n))
         /\ Cardinality(Readers(ups, s, n)) \in 0..MaxParallel
<1>1. Readers(ups, s, n) \in SUBSET ups
  BY DEF Readers
<1>2. /\ IsFiniteSet(Readers(ups, s, n))
      /\ Cardinality(Readers(ups, s, n)) <= Cardinality(ups)
  BY <1>1, FewServed, FS_Subset
<1>3. Cardinality(Readers(ups, s, n)) \in Nat
  BY <1>2, FS_CardinalityType
<1>4. MaxParallel \in Nat
  BY QuotaAssumption
<1> QED BY <1>2, <1>3, <1>4, FewServed

LEMMA WeightsType ==
  ASSUME NEW n, NEW t
  PROVE  /\ PutBack \in Nat
         /\ \A r \in Uploads : Weights(n, t)[r] \in Nat
<1>1. PutBack \in Nat
  BY QuotaAssumption DEF PutBack
<1>2. \A r \in Uploads : r.bytes \in Nat
  BY QuotaAssumption DEF Uploads
<1> QED BY <1>1, <1>2 DEF Weights

LEMMA RoomType ==
  ASSUME NEW ups, Served(ups), NEW known, NEW asked, Remembered(known, asked),
         NEW n \in Holder, NEW s \in Server
  PROVE  /\ Room(ups, known, asked, n)[s] \in Nat
         /\ Room(ups, known, asked, n)[s] <=
              Slack * MaxParallel - Slack * Cardinality(Readers(ups, s, n))
<1> DEFINE k == Cardinality(Readers(ups, s, n))
<1>1. k \in Nat /\ k <= MaxParallel /\ MaxParallel \in Nat /\ Slack \in Nat
  BY ReadersType, QuotaAssumption
<1>2. asked[s][n] \in Nat /\ asked[s][n] <= Slack
  BY <1>1 DEF Remembered
<1> HIDE DEF k
<1>3. /\ Slack * (MaxParallel - k) = Slack * MaxParallel - Slack * k
      /\ Slack * MaxParallel \in Int /\ Slack * k \in Int
      /\ Slack * (MaxParallel - k) \in Nat
      /\ k < MaxParallel => Slack * (MaxParallel - k) >= Slack
  BY <1>1
<1>4. Room(ups, known, asked, n)[s] = IF known[s][n] > 0 /\ k < MaxParallel
                                      THEN Slack * (MaxParallel - k) - asked[s][n] ELSE 0
  BY DEF Room, k
<1>5. /\ Room(ups, known, asked, n)[s] \in Nat
      /\ Room(ups, known, asked, n)[s] <= Slack * MaxParallel - Slack * k
  BY <1>1, <1>2, <1>3, <1>4
<1> QED BY <1>5 DEF k

LEMMA ToComeType ==
  ASSUME NEW ups, Served(ups), NEW known, NEW asked, Remembered(known, asked),
         NEW n \in Holder, NEW t
  PROVE  /\ SumFunctionOnSet(Weights(n, t), ups) \in Nat
         /\ SumFunctionOnSet(Room(ups, known, asked, n), Server) \in Nat
<1>1. IsFiniteSet(ups) /\ \A r \in ups : Weights(n, t)[r] \in Nat
  BY FewServed, WeightsType DEF Served
<1>2. IsFiniteSet(Server) /\ \A s \in Server : Room(ups, known, asked, n)[s] \in Nat
  BY QuotaAssumption, RoomType
<1>3. ASSUME NEW U, IsFiniteSet(U), NEW f, \A x \in U : f[x] \in Nat
      PROVE  SumFunctionOnSet(f, U) \in Nat
  <2>1. SumFunctionOnSet(f, U) \in Int
    BY <1>3, SumIsInteger
  <2>2. SumFunctionOnSet(f, {}) <= SumFunctionOnSet(f, U)
    BY <1>3, SumOfSubset
  <2> QED BY <2>1, <2>2, SumOfNothing
<1> QED BY <1>1, <1>2, <1>3

\* Whatever is going on, no more than this and one can be to come.
LEMMA ToComeBounded ==
  ASSUME NEW ups, Served(ups), NEW known, NEW asked, Remembered(known, asked),
         NEW n \in Holder, NEW t
  PROVE  ToCome(ups, known, asked, n, t) <= Overshoot + 1
<1> DEFINE R == {r \in ups : r.charged = n /\ r.at = "reading"}
           a == MaxBytes + Slack * (MaxParallel - 1)
           w == Weights(n, t)
           room == Room(ups, known, asked, n)
           N == Cardinality(Server)
<1>1. /\ MaxParallel \in Nat /\ MaxParallel >= 1 /\ Slack \in Nat /\ MaxBytes \in Nat
      /\ N \in Nat /\ IsFiniteSet(Server)
  BY QuotaAssumption, FS_CardinalityType
<1>2. a \in Nat /\ a + Slack = PutBack
  <2>1. MaxParallel - 1 \in Nat
    BY <1>1
  <2>2. Slack * (MaxParallel - 1) \in Nat /\ Slack * (MaxParallel - 1) + Slack = Slack * MaxParallel
    BY <1>1, <2>1
  <2> QED BY <1>1, <2>2 DEF PutBack
<1>3. IsFiniteSet(ups) /\ Cardinality(ups) \in Nat /\ Cardinality(ups) <= MaxParallel
  BY FewServed
<1>4. R \in SUBSET ups /\ IsFiniteSet(R) /\ Cardinality(R) \in Nat /\ ups \cap R = R
  BY <1>3, FS_Subset, FS_CardinalityType
<1>5. SumFunctionOnSet(w, ups) <= a * Cardinality(ups) + Slack * Cardinality(R)
  <2>1. ASSUME NEW r \in ups
        PROVE  w[r] \in Int /\ w[r] <= IF r \in R THEN a + Slack ELSE a
    <3>1. r \in Uploads
      BY DEF Served
    <3>2. r.bytes \in Nat /\ r.bytes <= MaxBytes /\ r.at \in {"reading", "granted"}
      BY <1>1, <3>1 DEF Uploads
    <3>3. w[r] = IF r.charged # n THEN 0
                 ELSE IF r.at = "granted" THEN r.bytes
                 ELSE IF r.used # -1 /\ r.used < t THEN PutBack ELSE 0
      BY <3>1 DEF Weights
    <3>4. MaxBytes <= a
      <4>1. MaxParallel - 1 \in Nat
        BY <1>1
      <4>2. Slack * (MaxParallel - 1) \in Nat
        BY <1>1, <4>1
      <4> QED BY <1>1, <4>2
    <3>5. r \in R <=> r.charged = n /\ r.at = "reading"
      OBVIOUS
    <3>6. PutBack \in Nat
      BY WeightsType
    <3> HIDE DEF R, a, w
    <3> QED BY <1>1, <1>2, <3>2, <3>3, <3>4, <3>5, <3>6
  <2> HIDE DEF R, a, w
  <2>2. SumFunctionOnSet(w, ups) <= a * Cardinality(ups) + Slack * Cardinality(ups \cap R)
    BY <1>1, <1>2, <1>3, <2>1, SumBounded
  <2> QED BY <1>4, <2>2
<1>6. SumFunctionOnSet(room, Server) <= (Slack * MaxParallel) * N - Slack * Cardinality(R)
  <2> DEFINE k == [r \in R |-> r.server]
  <2>1. k \in [R -> Server]
    BY DEF Served, Uploads
  <2>2. ASSUME NEW s \in Server
        PROVE  /\ room[s] \in Int
               /\ room[s] <= Slack * MaxParallel - Slack * Cardinality({r \in R : k[r] = s})
    <3>1. {r \in R : k[r] = s} = Readers(ups, s, n)
      BY DEF Readers
    <3>2. /\ room[s] \in Nat
          /\ room[s] <= Slack * MaxParallel - Slack * Cardinality(Readers(ups, s, n))
      BY RoomType
    <3>3. room[s] \in Int
      <4>1. Nat \subseteq Int
        OBVIOUS
      <4> HIDE DEF room
      <4> QED BY <3>2, <4>1
    <3> HIDE DEF R, k, room
    <3> QED BY <3>1, <3>2, <3>3
  <2>3. Slack * MaxParallel \in Nat
    BY <1>1
  <2> HIDE DEF R, k, room
  <2> QED BY <1>1, <1>4, <2>1, <2>2, <2>3, SumOfParts
<1>7. ToCome(ups, known, asked, n, t) = SumFunctionOnSet(w, ups) + SumFunctionOnSet(room, Server)
  BY DEF ToCome
<1>8. SumFunctionOnSet(w, ups) \in Nat /\ SumFunctionOnSet(room, Server) \in Nat
  BY ToComeType
<1>9. Overshoot + 1 = MaxParallel * (MaxBytes + Slack * (MaxParallel + N - 1))
  BY <1>1 DEF Overshoot
<1>10. a * Cardinality(ups) <= a * MaxParallel
  <2>1. \A x, y, z \in Nat : x <= y => z * x <= z * y
    OBVIOUS
  <2> HIDE DEF a
  <2> QED BY <1>1, <1>2, <1>3, <2>1
<1>11. a * MaxParallel + (Slack * MaxParallel) * N
         = MaxParallel * (MaxBytes + Slack * (MaxParallel + N - 1))
  <2>1. \A m, s, p, c \in Int :
          (m + s * (p - 1)) * p + (s * p) * c = p * (m + s * (p + c - 1))
    OBVIOUS
  <2> QED BY <1>1, <2>1
<1> DEFINE W == SumFunctionOnSet(w, ups)
           Q == SumFunctionOnSet(room, Server)
           u == a * Cardinality(ups)
           v == Slack * Cardinality(R)
           x == a * MaxParallel
           y == (Slack * MaxParallel) * N
<1>12. u \in Int /\ v \in Int /\ x \in Int /\ y \in Int /\ W \in Int /\ Q \in Int
  <2> HIDE DEF a, R, W, Q, N, w, room
  <2>1. Slack * MaxParallel \in Int /\ Cardinality(ups) \in Int
    BY <1>1, <1>3
  <2> QED BY <1>1, <1>2, <1>3, <1>4, <1>8, <2>1 DEF W, Q
<1>13. W <= u + v /\ Q <= y - v /\ u <= x
  BY <1>5, <1>6, <1>10
<1>14. ToCome(ups, known, asked, n, t) = W + Q /\ Overshoot + 1 = x + y
  BY <1>7, <1>9, <1>11
<1> HIDE DEF u, v, x, y, W, Q
<1> QED BY <1>12, <1>13, <1>14

LEMMA OvershootType == Overshoot \in Nat
<1> DEFINE N == Cardinality(Server)
<1>1. /\ MaxParallel \in Nat /\ MaxParallel >= 1 /\ Slack \in Nat
      /\ MaxBytes \in Nat /\ MaxBytes >= 1 /\ N \in Nat
  BY QuotaAssumption, FS_CardinalityType
<1>2. Overshoot = MaxParallel * (MaxBytes + Slack * (MaxParallel + N - 1)) - 1
  BY DEF Overshoot
<1>3. ASSUME NEW c \in Nat, c >= 1 PROVE MaxParallel * c \in Nat /\ MaxParallel * c >= 1
  BY <1>1, <1>3
<1>4. Slack * (MaxParallel + N - 1) \in Nat
  <2>1. MaxParallel + N - 1 \in Nat
    BY <1>1
  <2> HIDE DEF N
  <2> QED BY <1>1, <2>1
<1> DEFINE c == MaxBytes + Slack * (MaxParallel + N - 1)
<1>5. c \in Nat /\ c >= 1
  BY <1>1, <1>4
<1>6. Overshoot = MaxParallel * c - 1
  BY <1>2
<1> HIDE DEF c
<1> QED BY <1>3, <1>5, <1>6

LEMMA AddServed ==
  ASSUME NEW ups, Served(ups), NEW q \in Uploads, \A r \in ups : r.nr # q.nr
  PROVE  /\ Served(ups \cup {q}) /\ q \notin ups
         /\ Cardinality(ups \cup {q}) = Cardinality(ups) + 1
<1>1. q \notin ups /\ Served(ups \cup {q})
  BY DEF Served
<1> QED BY <1>1, FewServed, FS_AddElement

LEMMA FewerServed ==
  ASSUME NEW ups, Served(ups), NEW less \in SUBSET ups
  PROVE  Served(less) /\ Cardinality(less) <= Cardinality(ups)
<1>1. Served(less)
  BY DEF Served
<1> QED BY <1>1, FewServed, FS_Subset

LEMMA ReplaceServed ==
  ASSUME NEW ups, Served(ups), NEW r \in ups, NEW q \in Uploads, q.nr = r.nr
  PROVE  /\ Served((ups \ {r}) \cup {q}) /\ Served(ups \ {r}) /\ q \notin ups \ {r}
         /\ Cardinality((ups \ {r}) \cup {q}) = Cardinality(ups)
<1>1. Served(ups \ {r}) /\ IsFiniteSet(ups)
  BY FewerServed, FewServed
<1>2. \A x \in ups \ {r} : x.nr # q.nr
  BY DEF Served
<1>3. /\ Served((ups \ {r}) \cup {q}) /\ q \notin ups \ {r}
      /\ Cardinality((ups \ {r}) \cup {q}) = Cardinality(ups \ {r}) + 1
  BY <1>1, <1>2, AddServed
<1>4. Cardinality(ups \ {r}) = Cardinality(ups) - 1 /\ Cardinality(ups) \in Nat
  BY <1>1, FS_RemoveElement, FewServed
<1> QED BY <1>1, <1>3, <1>4

-----------------------------------------------------------------------------
\* What happens to the weights when an upload comes, goes, or gets on
LEMMA WeightsAdd ==
  ASSUME NEW ups, Served(ups), NEW q \in Uploads, \A r \in ups : r.nr # q.nr, NEW n, NEW t
  PROVE  SumFunctionOnSet(Weights(n, t), ups \cup {q}) =
           SumFunctionOnSet(Weights(n, t), ups) + Weights(n, t)[q]
<1> DEFINE w == Weights(n, t)
<1>1. IsFiniteSet(ups) /\ q \notin ups
  BY FewServed, AddServed
<1>2. \A y \in ups \cup {q} : w[y] \in Int
  BY WeightsType DEF Served
<1>3. SumFunctionOnSet(w, ups) \in Int /\ w[q] \in Int
  BY <1>1, <1>2, SumIsInteger
<1> HIDE DEF w
<1>4. SumFunctionOnSet(w, ups \cup {q}) = w[q] + SumFunctionOnSet(w, ups)
  BY <1>1, <1>2, SumWith
<1>5. SumFunctionOnSet(w, ups \cup {q}) = SumFunctionOnSet(w, ups) + w[q]
  BY <1>3, <1>4
<1> QED BY <1>5 DEF w

LEMMA WeightsRemove ==
  ASSUME NEW ups, Served(ups), NEW r \in ups, NEW n, NEW t
  PROVE  SumFunctionOnSet(Weights(n, t), ups \ {r}) =
           SumFunctionOnSet(Weights(n, t), ups) - Weights(n, t)[r]
<1> DEFINE w == Weights(n, t)
<1>1. IsFiniteSet(ups) /\ IsFiniteSet(ups \ {r})
  BY FewServed, FS_RemoveElement
<1>2. \A y \in ups : w[y] \in Int
  BY WeightsType DEF Served
<1>3. SumFunctionOnSet(w, ups \ {r}) \in Int /\ w[r] \in Int
  <2> HIDE DEF w
  <2> QED BY <1>1, <1>2, SumIsInteger
<1> HIDE DEF w
<1>4. SumFunctionOnSet(w, ups) = w[r] + SumFunctionOnSet(w, ups \ {r})
  BY <1>1, <1>2, SumWithout
<1>5. SumFunctionOnSet(w, ups \ {r}) = SumFunctionOnSet(w, ups) - w[r]
  BY <1>3, <1>4
<1> QED BY <1>5 DEF w

LEMMA WeightsReplace ==
  ASSUME NEW ups, Served(ups), NEW r \in ups, NEW q \in Uploads, q.nr = r.nr, NEW n, NEW t
  PROVE  SumFunctionOnSet(Weights(n, t), (ups \ {r}) \cup {q}) =
           SumFunctionOnSet(Weights(n, t), ups) - Weights(n, t)[r] + Weights(n, t)[q]
<1>1. Served(ups \ {r}) /\ \A x \in ups \ {r} : x.nr # q.nr
  BY ReplaceServed DEF Served
<1>2. SumFunctionOnSet(Weights(n, t), (ups \ {r}) \cup {q}) =
        SumFunctionOnSet(Weights(n, t), ups \ {r}) + Weights(n, t)[q]
  BY <1>1, WeightsAdd
<1> QED BY <1>2, WeightsRemove

\* An upload that arrives takes from the room of its server what it is granted, and gives the
\* slack it takes with a read.
LEMMA EstimateAddsNothing ==
  ASSUME Served(uploads), Remembered(lastKnown, unchecked), lastKnown' = lastKnown,
         NEW s \in Server, NEW c \in Holder, NEW b \in Nat \ {0},
         NEW q \in Uploads, \A x \in uploads : x.nr # q.nr,
         q.server = s, q.charged = c, q.at = "reading", q.used = -1,
         NEW g \in Uploads, \A x \in uploads : x.nr # g.nr,
         g.server = s, g.charged = c, g.at = "granted", g.bytes = b,
         \/ /\ uploads' = uploads \cup {q}
            /\ unchecked' = [unchecked EXCEPT ![s][c] = 0]
         \/ /\ uploads' = uploads \/ uploads' = uploads \cup {g}
            /\ unchecked' = [unchecked EXCEPT ![s][c] = unchecked[s][c] + b]
            /\ unchecked[s][c] + b <= Slack /\ lastKnown[s][c] > 0,
         NEW n \in Holder, NEW t
  PROVE  /\ Served(uploads') /\ Remembered(lastKnown', unchecked')
         /\ Cardinality(uploads') <= Cardinality(uploads) + 1
         /\ ToCome(uploads', lastKnown', unchecked', n, t)
              <= ToCome(uploads, lastKnown, unchecked, n, t)
<1> DEFINE known == lastKnown[s][c]
           asked == unchecked[s][c] + b
           Old == Room(uploads, lastKnown, unchecked, n)
           New == Room(uploads', lastKnown', unchecked', n)
           w == Weights(n, t)
           k == Cardinality(Readers(uploads, s, n))
<1>1. /\ MaxParallel \in Nat /\ Slack \in Nat /\ IsFiniteSet(Server)
      /\ k \in 0..MaxParallel
      /\ known \in Int /\ unchecked[s][c] \in 0..Slack /\ asked \in Nat
      /\ Cardinality(uploads) \in Nat
  BY QuotaAssumption, ReadersType, FewServed DEF Remembered
<1>3. ToCome(uploads, lastKnown, unchecked, n, t)
        = SumFunctionOnSet(w, uploads) + SumFunctionOnSet(Old, Server)
  BY DEF ToCome
<1>4. ToCome(uploads', lastKnown', unchecked', n, t)
        = SumFunctionOnSet(w, uploads') + SumFunctionOnSet(New, Server)
  BY DEF ToCome
<1>5. /\ SumFunctionOnSet(w, uploads) \in Nat /\ SumFunctionOnSet(Old, Server) \in Nat
      /\ \A x \in Server : Old[x] \in Nat
  BY ToComeType, RoomType
<1>6. \A x \in Server : Old[x] = IF lastKnown[x][n] > 0 /\ Cardinality(Readers(uploads, x, n)) < MaxParallel
                                 THEN Slack * (MaxParallel - Cardinality(Readers(uploads, x, n))) - unchecked[x][n]
                                 ELSE 0
  BY DEF Room
<1>7. \A x \in Server : New[x] = IF lastKnown[x][n] > 0 /\ Cardinality(Readers(uploads', x, n)) < MaxParallel
                                 THEN Slack * (MaxParallel - Cardinality(Readers(uploads', x, n))) - unchecked'[x][n]
                                 ELSE 0
  BY DEF Room
<1>8. CASE uploads' = uploads \cup {q} /\ unchecked' = [unchecked EXCEPT ![s][c] = 0]
  <2>1. uploads' = uploads \cup {q} /\ unchecked' = [unchecked EXCEPT ![s][c] = 0]
    BY <1>8
  <2>2. Served(uploads') /\ Cardinality(uploads') = Cardinality(uploads) + 1 /\ q \notin uploads
    <3>1. /\ Served(uploads \cup {q}) /\ q \notin uploads
          /\ Cardinality(uploads \cup {q}) = Cardinality(uploads) + 1
      BY AddServed
    <3> QED BY <2>1, <3>1
  <2>3. Remembered(lastKnown', unchecked')
    BY <1>1, <2>1 DEF Remembered
  <2>4. SumFunctionOnSet(w, uploads') = SumFunctionOnSet(w, uploads)
    <3>1. w[q] = 0
      BY DEF Weights
    <3>2. SumFunctionOnSet(w, uploads') = SumFunctionOnSet(w, uploads) + w[q]
      <4>1. SumFunctionOnSet(w, uploads \cup {q}) = SumFunctionOnSet(w, uploads) + w[q]
        BY SMTT(30), WeightsAdd
      <4> QED BY <2>1, <4>1
    <3> HIDE DEF w
    <3> QED BY <1>5, <3>1, <3>2
  <2>5. ASSUME NEW x \in Server PROVE New[x] \in Nat /\ New[x] <= Old[x]
    <3>1. New[x] \in Nat
      BY <2>2, <2>3, RoomType
    <3>2. CASE x = s /\ n = c
      <4>1. Readers(uploads', x, n) = Readers(uploads, x, n) \cup {q} /\ q \notin Readers(uploads, x, n)
        BY <2>1, <2>2, <3>2 DEF Readers
      <4>2. Cardinality(Readers(uploads', x, n)) = k + 1
        <5> DEFINE R == Readers(uploads, x, n)
        <5>1. IsFiniteSet(R) /\ Cardinality(R) = k
          BY <3>2, ReadersType
        <5>2. Readers(uploads', x, n) = R \cup {q} /\ q \notin R
          BY <4>1
        <5> HIDE DEF R
        <5>3. Cardinality(R \cup {q}) = Cardinality(R) + 1
          BY <5>1, <5>2, FS_AddElement
        <5> QED BY <5>1, <5>2, <5>3
      <4>3. unchecked'[x][n] = 0 /\ unchecked[x][n] \in 0..Slack
        BY <1>1, <2>1, <3>2 DEF Remembered
      <4>4. /\ Old[x] = IF known > 0 /\ k < MaxParallel THEN Slack * (MaxParallel - k) - unchecked[x][n] ELSE 0
            /\ New[x] = IF known > 0 /\ k + 1 < MaxParallel THEN Slack * (MaxParallel - (k + 1)) ELSE 0
        <5>1. Old[x] = IF known > 0 /\ k < MaxParallel THEN Slack * (MaxParallel - k) - unchecked[x][n] ELSE 0
          BY <1>6, <3>2
        <5>2. New[x] = IF known > 0 /\ k + 1 < MaxParallel THEN Slack * (MaxParallel - (k + 1)) - 0 ELSE 0
          BY <1>7, <3>2, <4>2, <4>3
        <5>3. k + 1 < MaxParallel => Slack * (MaxParallel - (k + 1)) \in Int
          BY <1>1
        <5> HIDE DEF k, known, New, Old
        <5> QED BY <5>1, <5>2, <5>3
      <4>5. Slack * (MaxParallel - k) = Slack * (MaxParallel - (k + 1)) + Slack
        BY <1>1
      <4>6. Slack * (MaxParallel - (k + 1)) \in Int
        BY <1>1
      <4> HIDE DEF k, known, New, Old
      <4>7. Old[x] \in Nat
        BY <1>5
      <4> QED BY <1>1, <3>1, <4>3, <4>4, <4>5, <4>6, <4>7
    <3>3. CASE ~(x = s /\ n = c)
      <4>1. Readers(uploads', x, n) = Readers(uploads, x, n)
        BY <2>1, <3>3 DEF Readers
      <4>2. unchecked'[x][n] = unchecked[x][n]
        BY <2>1, <3>3 DEF Remembered
      <4>3. New[x] = Old[x]
        BY <1>6, <1>7, <4>1, <4>2
      <4> QED BY <1>5, <4>3
    <3> QED BY <3>2, <3>3
  <2>6. SumFunctionOnSet(New, Server) <= SumFunctionOnSet(Old, Server)
    <3> HIDE DEF New, Old
    <3>1. \A x \in Server : New[x] \in Int /\ Old[x] \in Int /\ New[x] <= Old[x]
      BY <1>5, <2>5
    <3> QED BY <1>1, <3>1, SumsCompare
  <2>7. SumFunctionOnSet(New, Server) \in Nat
    BY <2>2, <2>3, ToComeType
  <2> HIDE DEF New, Old, w
  <2>8. ToCome(uploads', lastKnown', unchecked', n, t) <= ToCome(uploads, lastKnown, unchecked, n, t)
    BY <1>3, <1>4, <1>5, <2>4, <2>6, <2>7
  <2> QED BY <1>1, <2>1, <2>2, <2>3, <2>8
<1>9. CASE /\ unchecked' = [unchecked EXCEPT ![s][c] = asked]
           /\ asked <= Slack /\ known > 0
           /\ uploads' = uploads \/ uploads' = uploads \cup {g}
  <2>1. /\ unchecked' = [unchecked EXCEPT ![s][c] = asked]
        /\ asked <= Slack /\ known > 0
        /\ uploads' = uploads \/ uploads' = uploads \cup {g}
    BY <1>9
  <2>2. Remembered(lastKnown', unchecked')
    <3>1. asked \in 0..Slack
      <4> HIDE DEF asked
      <4> QED BY <1>1, <2>1
    <3> HIDE DEF asked
    <3> QED BY <2>1, <3>1 DEF Remembered
  <2>3. ASSUME NEW x \in Server
        PROVE  /\ Readers(uploads', x, n) = Readers(uploads, x, n)
               /\ unchecked'[x][n] = IF x = s /\ n = c THEN asked ELSE unchecked[x][n]
    <3>1. Readers(uploads', x, n) = Readers(uploads, x, n)
      BY <2>1 DEF Readers
    <3> HIDE DEF asked
    <3>2. unchecked'[x][n] = IF x = s /\ n = c THEN asked ELSE unchecked[x][n]
      BY <2>1 DEF Remembered
    <3> QED BY <3>1, <3>2
  <2>4. ASSUME NEW x \in Server, ~(x = s /\ n = c) PROVE New[x] = Old[x]
    <3>1. Readers(uploads', x, n) = Readers(uploads, x, n) /\ unchecked'[x][n] = unchecked[x][n]
      BY <2>3, <2>4
    <3> QED BY <1>6, <1>7, <3>1
  <2>5. n = c => /\ Old[s] = IF k < MaxParallel THEN Slack * (MaxParallel - k) - unchecked[s][n] ELSE 0
                 /\ New[s] = IF k < MaxParallel THEN Slack * (MaxParallel - k) - unchecked'[s][n] ELSE 0
    <3> SUFFICES ASSUME n = c
                 PROVE  /\ Old[s] = IF k < MaxParallel THEN Slack * (MaxParallel - k) - unchecked[s][n] ELSE 0
                        /\ New[s] = IF k < MaxParallel THEN Slack * (MaxParallel - k) - unchecked'[s][n] ELSE 0
      OBVIOUS
    <3>1. Readers(uploads', s, n) = Readers(uploads, s, n) /\ lastKnown[s][n] > 0
      BY <2>1, <2>3
    <3>2. Old[s] = IF k < MaxParallel THEN Slack * (MaxParallel - k) - unchecked[s][n] ELSE 0
      BY <1>6, <3>1
    <3>3. New[s] = IF k < MaxParallel THEN Slack * (MaxParallel - k) - unchecked'[s][n] ELSE 0
      BY <1>7, <3>1
    <3> QED BY <3>2, <3>3
  <2>6. Slack * (MaxParallel - k) \in Int
    BY <1>1
  <2>7. n = c => unchecked'[s][n] = unchecked[s][n] + b /\ unchecked[s][n] \in Nat
    <3>1. n = c => unchecked'[s][n] = asked
      <4> HIDE DEF asked
      <4> QED BY <2>3
    <3>2. n = c => unchecked[s][n] \in Nat
      BY <1>1
    <3> QED BY <3>1, <3>2
  <2>8. CASE uploads' = uploads
    <3>1. ASSUME NEW x \in Server PROVE New[x] \in Nat /\ New[x] <= Old[x]
      <4>1. New[x] \in Nat
        BY <2>2, <2>8, RoomType
      <4>2. CASE x = s /\ n = c
        <5> HIDE DEF k, New, Old
        <5> QED BY <1>5, <2>5, <2>6, <2>7, <4>1, <4>2
      <4>3. CASE ~(x = s /\ n = c)
        BY <1>5, <2>4, <4>1, <4>3
      <4> QED BY <4>1, <4>2, <4>3
    <3>2. SumFunctionOnSet(New, Server) <= SumFunctionOnSet(Old, Server)
      <4> HIDE DEF New, Old
      <4>1. \A x \in Server : New[x] \in Int /\ Old[x] \in Int /\ New[x] <= Old[x]
        BY <1>5, <3>1
      <4> QED BY <1>1, <4>1, SumsCompare
    <3>3. SumFunctionOnSet(New, Server) \in Nat
      BY <2>2, <2>8, ToComeType
    <3> HIDE DEF New, Old, w
    <3>4. ToCome(uploads', lastKnown', unchecked', n, t) <= ToCome(uploads, lastKnown, unchecked, n, t)
      BY <1>3, <1>4, <1>5, <2>8, <3>2, <3>3
    <3> QED BY <1>1, <2>2, <2>8, <3>4
  <2>9. CASE uploads' = uploads \cup {g}
    <3>1. Served(uploads') /\ Cardinality(uploads') = Cardinality(uploads) + 1
      <4>1. /\ Served(uploads \cup {g}) /\ g \notin uploads
            /\ Cardinality(uploads \cup {g}) = Cardinality(uploads) + 1
        BY AddServed
      <4> QED BY <2>9, <4>1
    <3>2. SumFunctionOnSet(w, uploads') = SumFunctionOnSet(w, uploads) + w[g]
      <4>1. SumFunctionOnSet(w, uploads \cup {g}) = SumFunctionOnSet(w, uploads) + w[g]
        BY WeightsAdd
      <4> QED BY <2>9, <4>1
    <3>3. w[g] = IF n = c THEN b ELSE 0
      BY DEF Weights
    <3>4. k < MaxParallel
      <4>1. Cardinality(uploads) + 1 <= MaxParallel
        BY <3>1, FewServed
      <4>2. Readers(uploads, s, n) \in SUBSET uploads
        BY DEF Readers
      <4>3. k <= Cardinality(uploads)
        BY <4>2, FewServed, FS_Subset
      <4> HIDE DEF k
      <4> QED BY <1>1, <4>1, <4>3
    <3>5. \A x \in Server : New[x] \in Nat
      BY <2>2, <3>1, RoomType
    <3>6. SumFunctionOnSet(New, Server) = SumFunctionOnSet(Old, Server) - Old[s] + New[s]
      <4>1. \A x \in Server : Old[x] \in Int /\ New[x] \in Int
        <5> HIDE DEF Old, New
        <5> QED BY <1>5, <3>5
      <4>2. CASE n = c
        <5>1. \A x \in Server : x # s => New[x] = Old[x]
          BY <2>4
        <5> HIDE DEF Old, New
        <5> QED BY <1>1, <4>1, <5>1, SumChanges
      <4>3. CASE n # c
        <5>1. \A x \in Server : x # s => New[x] = Old[x]
          BY <2>4
        <5> HIDE DEF Old, New
        <5> QED BY <1>1, <4>1, <5>1, SumChanges
      <4> QED BY <4>2, <4>3
    <3>7. IF n = c THEN New[s] = Old[s] - b ELSE New[s] = Old[s]
      <4>1. CASE n = c
        <5> HIDE DEF k, New, Old
        <5> QED BY <1>5, <2>5, <2>6, <2>7, <3>4, <4>1
      <4>2. CASE n # c
        BY <2>4, <4>2
      <4> QED BY <4>1, <4>2
    <3>8. Old[s] \in Nat /\ New[s] \in Nat
      BY <1>5, <3>5
    <3> HIDE DEF New, Old, w
    <3>9. ToCome(uploads', lastKnown', unchecked', n, t) <= ToCome(uploads, lastKnown, unchecked, n, t)
      BY <1>3, <1>4, <1>5, <3>2, <3>3, <3>6, <3>7, <3>8
    <3> QED BY <1>1, <2>2, <2>9, <3>1, <3>9
  <2> QED BY <2>1, <2>8, <2>9
<1> QED BY <1>8, <1>9

\* A query of a read answers: only the weight of its upload changes.
LEMMA ReplaceKeepsRoom ==
  ASSUME NEW ups, Served(ups), NEW known, NEW asked, Remembered(known, asked),
         NEW r \in ups, NEW q \in Uploads, q.nr = r.nr,
         q.server = r.server, q.charged = r.charged, q.at = r.at,
         NEW n \in Holder, NEW t
  PROVE  ToCome((ups \ {r}) \cup {q}, known, asked, n, t) =
           ToCome(ups, known, asked, n, t) - Weights(n, t)[r] + Weights(n, t)[q]
<1> DEFINE new == (ups \ {r}) \cup {q}
<1>1. q \notin ups \ {r} /\ Served(new)
  BY ReplaceServed
<1>2. ASSUME NEW x \in Server
      PROVE  Cardinality(Readers(new, x, n)) = Cardinality(Readers(ups, x, n))
  <2> DEFINE R == Readers(ups, x, n)
  <2>1. IsFiniteSet(R) /\ Cardinality(R) \in Nat
    BY ReadersType, FS_CardinalityType
  <2>2. CASE r \in R
    <3>1. Readers(new, x, n) = (R \ {r}) \cup {q} /\ q \notin R \ {r}
      BY <1>1, <2>2 DEF Readers
    <3> HIDE DEF R, new
    <3>2. IsFiniteSet(R \ {r}) /\ Cardinality(R \ {r}) = Cardinality(R) - 1
      BY <2>1, <2>2, FS_RemoveElement
    <3>3. Cardinality((R \ {r}) \cup {q}) = Cardinality(R \ {r}) + 1
      BY <3>1, <3>2, FS_AddElement
    <3>4. Cardinality(Readers(new, x, n)) = Cardinality(R)
      BY <2>1, <3>1, <3>2, <3>3
    <3> QED BY <3>4 DEF R
  <2>3. CASE r \notin R
    <3>1. Readers(new, x, n) = R
      BY <2>3 DEF Readers
    <3> QED BY <3>1
  <2> QED BY <2>2, <2>3
<1>3. Room(new, known, asked, n) = Room(ups, known, asked, n)
  BY <1>2 DEF Room
<1>4. SumFunctionOnSet(Weights(n, t), new) =
        SumFunctionOnSet(Weights(n, t), ups) - Weights(n, t)[r] + Weights(n, t)[q]
  BY WeightsReplace
<1>5. /\ Weights(n, t)[r] \in Int /\ Weights(n, t)[q] \in Int
      /\ SumFunctionOnSet(Weights(n, t), ups) \in Int
      /\ SumFunctionOnSet(Room(ups, known, asked, n), Server) \in Int
  <2>1. r \in Uploads
    BY DEF Served
  <2>2. SumFunctionOnSet(Weights(n, t), ups) \in Nat /\ SumFunctionOnSet(Room(ups, known, asked, n), Server) \in Nat
    BY ToComeType
  <2>3. Weights(n, t)[r] \in Nat /\ Weights(n, t)[q] \in Nat
    BY <2>1, WeightsType
  <2> QED BY <2>2, <2>3
<1> HIDE DEF new
<1>6. ToCome(new, known, asked, n, t) =
           ToCome(ups, known, asked, n, t) - Weights(n, t)[r] + Weights(n, t)[q]
  BY <1>3, <1>4, <1>5 DEF ToCome
<1> QED BY <1>6 DEF new

\* What was granted is saved: it is no longer to come.
LEMMA RemoveKeepsRoom ==
  ASSUME NEW ups, Served(ups), NEW known, NEW asked, Remembered(known, asked),
         NEW r \in ups, r.at = "granted", NEW n \in Holder, NEW t
  PROVE  ToCome(ups \ {r}, known, asked, n, t) = ToCome(ups, known, asked, n, t) - Weights(n, t)[r]
<1>1. ASSUME NEW x \in Server PROVE Readers(ups \ {r}, x, n) = Readers(ups, x, n)
  BY DEF Readers
<1>2. Room(ups \ {r}, known, asked, n) = Room(ups, known, asked, n)
  BY <1>1 DEF Room
<1>3. SumFunctionOnSet(Weights(n, t), ups \ {r}) =
        SumFunctionOnSet(Weights(n, t), ups) - Weights(n, t)[r]
  BY WeightsRemove
<1>4. /\ Weights(n, t)[r] \in Nat
      /\ SumFunctionOnSet(Weights(n, t), ups) \in Nat
      /\ SumFunctionOnSet(Room(ups, known, asked, n), Server) \in Nat
  <2>1. r \in Uploads
    BY DEF Served
  <2> QED BY <2>1, ToComeType, WeightsType
<1> QED BY <1>2, <1>3, <1>4 DEF ToCome

EndsRead(ups, new, known, known2, r, a) ==
  /\ r \in ups /\ r.at = "reading" /\ r.used \in Nat /\ a \in Int
  /\ known2 = [known EXCEPT ![r.server][r.charged] = a]
  /\ a < r.bytes => new = ups \ {r}
  /\ ~(a < r.bytes) => new = (ups \ {r}) \cup {[r EXCEPT !.at = "granted"]}

\* A read ends. If it found the limit reached, its server knows of nothing any more; if not, it
\* puts back no more than its weight.
LEMMA EndReadAddsNothing ==
  ASSUME NEW ups, Served(ups), NEW known, NEW asked, Remembered(known, asked),
         NEW new, NEW known2, NEW r, NEW a, EndsRead(ups, new, known, known2, r, a),
         NEW n \in Holder, NEW t \in Nat, r.used >= t /\ r.charged = n => a <= 0
  PROVE  /\ Served(new) /\ Remembered(known2, asked)
         /\ Cardinality(new) <= Cardinality(ups)
         /\ ToCome(new, known2, asked, n, t) <= ToCome(ups, known, asked, n, t)
<1> DEFINE s == r.server
           c == r.charged
           w == Weights(n, t)
           Old == Room(ups, known, asked, n)
           New == Room(new, known2, asked, n)
<1> DEFINE g == [r EXCEPT !.at = "granted"]
<1>e. /\ r \in ups /\ r.at = "reading" /\ r.used \in Nat /\ a \in Int
      /\ known2 = [known EXCEPT ![r.server][r.charged] = a]
      /\ a < r.bytes => new = ups \ {r}
      /\ ~(a < r.bytes) => new = (ups \ {r}) \cup {g}
  BY DEF EndsRead
<1>g. /\ g \in Uploads /\ g.nr = r.nr /\ g.server = r.server
      /\ g.charged = r.charged /\ g.bytes = r.bytes /\ g.at = "granted"
  BY <1>e DEF Served, Uploads
<1> HIDE DEF g
<1>0. r \in Uploads /\ s \in Server /\ c \in Holder /\ r.bytes \in Nat /\ r.bytes >= 1 /\ r.bytes <= MaxBytes
  BY <1>e, QuotaAssumption DEF Served, Uploads
<1>1. Served(new) /\ Cardinality(new) <= Cardinality(ups)
  <2>1. Cardinality(ups) \in Nat
    BY FewServed
  <2>2. CASE a < r.bytes
    BY <1>e, <2>2, FewerServed
  <2>3. CASE ~(a < r.bytes)
    <3>1. /\ Served((ups \ {r}) \cup {g})
          /\ Cardinality((ups \ {r}) \cup {g}) = Cardinality(ups)
      BY <1>e, <1>g, ReplaceServed
    <3> QED BY <1>e, <2>1, <2>3, <3>1
  <2> QED BY <2>2, <2>3
<1>2. Remembered(known2, asked)
  BY <1>e DEF Remembered
<1>3. /\ \A x \in Server : Old[x] \in Nat /\ New[x] \in Nat
      /\ SumFunctionOnSet(w, ups) \in Nat /\ SumFunctionOnSet(w, new) \in Nat
      /\ SumFunctionOnSet(Old, Server) \in Nat /\ SumFunctionOnSet(New, Server) \in Nat
      /\ w[r] \in Nat /\ w[g] \in Nat /\ PutBack \in Nat
  BY <1>0, <1>1, <1>2, <1>g, ToComeType, RoomType, WeightsType
<1>4. SumFunctionOnSet(w, new) = SumFunctionOnSet(w, ups) - w[r] + IF a < r.bytes THEN 0 ELSE w[g]
  <2>1. SumFunctionOnSet(w, ups \ {r}) = SumFunctionOnSet(w, ups) - w[r]
    BY <1>e, WeightsRemove
  <2>2. SumFunctionOnSet(w, (ups \ {r}) \cup {g}) = SumFunctionOnSet(w, ups) - w[r] + w[g]
    BY <1>e, <1>g, WeightsReplace
  <2> HIDE DEF w
  <2>3. CASE a < r.bytes
    <3>1. new = ups \ {r}
      BY <1>e, <2>3
    <3>2. SumFunctionOnSet(w, new) = SumFunctionOnSet(w, ups) - w[r]
      BY <2>1, <3>1
    <3>3. SumFunctionOnSet(w, ups) - w[r] + 0 = SumFunctionOnSet(w, ups) - w[r]
      BY <1>3
    <3> QED BY <2>3, <3>2, <3>3
  <2>4. CASE ~(a < r.bytes)
    BY <1>e, <1>3, <2>2, <2>4
  <2> QED BY <2>3, <2>4
<1>5. w[r] = (IF c = n /\ r.used < t THEN PutBack ELSE 0) /\ w[g] = (IF c = n THEN r.bytes ELSE 0)
  BY <1>0, <1>e, <1>g DEF Weights
<1>6. ASSUME NEW x \in Server, ~(x = s /\ n = c) PROVE New[x] = Old[x]
  <2>1. Readers(new, x, n) = Readers(ups, x, n)
    BY <1>e, <1>g, <1>6 DEF Readers
  <2>2. known2[x][n] = known[x][n]
    BY <1>e, <1>6 DEF Remembered
  <2> QED BY <2>1, <2>2 DEF Room
<1>7. SumFunctionOnSet(New, Server) = SumFunctionOnSet(Old, Server) - Old[s] + New[s]
  <2>1. \A x \in Server : Old[x] \in Int /\ New[x] \in Int /\ (x # s => New[x] = Old[x])
    <3> HIDE DEF Old, New
    <3> QED BY <1>3, <1>6
  <2>2. IsFiniteSet(Server)
    BY QuotaAssumption
  <2> HIDE DEF Old, New
  <2> QED BY <1>0, <2>1, <2>2, SumChanges
<1>8. CASE n # c
  <2>1. New[s] = Old[s]
    BY <1>0, <1>6, <1>8
  <2> HIDE DEF Old, New, w
  <2>2. SumFunctionOnSet(New, Server) = SumFunctionOnSet(Old, Server)
    BY <1>0, <1>3, <1>7, <2>1
  <2>3. SumFunctionOnSet(w, new) = SumFunctionOnSet(w, ups)
    BY <1>3, <1>4, <1>5, <1>8
  <2>4. ToCome(new, known2, asked, n, t) = ToCome(ups, known, asked, n, t)
    BY <2>2, <2>3 DEF ToCome, Old, New, w
  <2>5. ToCome(ups, known, asked, n, t) \in Int
    <3>1. SumFunctionOnSet(w, ups) + SumFunctionOnSet(Old, Server) \in Int
      BY <1>3
    <3> QED BY <3>1 DEF ToCome, w, Old
  <2> QED BY <1>1, <1>2, <2>4, <2>5
<1>9. CASE n = c /\ r.used < t
  <2>1. New[s] <= Slack * MaxParallel
    <3> DEFINE k == Cardinality(Readers(new, s, n))
    <3>1. New[s] <= Slack * MaxParallel - Slack * k
      BY <1>0, <1>1, <1>2, RoomType
    <3>2. k \in Nat /\ MaxParallel \in Nat /\ Slack \in Nat
      BY <1>1, ReadersType, QuotaAssumption
    <3> HIDE DEF k
    <3>3. Slack * k \in Nat /\ Slack * MaxParallel \in Nat
      BY <3>2
    <3>4. New[s] \in Nat
      BY <1>0, <1>3
    <3> HIDE DEF New
    <3> QED BY <3>1, <3>3, <3>4
  <2>2. PutBack = MaxBytes + Slack * MaxParallel /\ Slack * MaxParallel \in Nat /\ MaxBytes \in Nat
    BY QuotaAssumption DEF PutBack
  <2>3. Old[s] \in Nat /\ New[s] \in Nat
    BY <1>0, <1>3
  <2>4. w[r] = PutBack /\ w[g] = r.bytes
    BY <1>5, <1>9
  <2>5. /\ ToCome(new, known2, asked, n, t) = SumFunctionOnSet(w, new) + SumFunctionOnSet(New, Server)
        /\ ToCome(ups, known, asked, n, t) = SumFunctionOnSet(w, ups) + SumFunctionOnSet(Old, Server)
    BY DEF ToCome
  <2>6. ToCome(new, known2, asked, n, t) <= ToCome(ups, known, asked, n, t)
    <3> HIDE DEF Old, New, w, s
    <3> QED BY <1>0, <1>3, <1>4, <1>7, <2>1, <2>2, <2>3, <2>4, <2>5
  <2> QED BY <1>1, <1>2, <2>6
<1>10. CASE n = c /\ ~(r.used < t)
  <2>1. a <= 0 /\ a < r.bytes
    BY <1>0, <1>e, <1>10
  <2>2. New[s] = 0
    <3>1. known2[s][n] = a
      BY <1>0, <1>e, <1>10 DEF Remembered
    <3>2. ~(known2[s][n] > 0)
      BY <1>e, <2>1, <3>1
    <3> QED BY <1>0, <3>2 DEF Room
  <2>3. Old[s] \in Nat
    BY <1>0, <1>3
  <2>4. w[r] = 0
    BY <1>5, <1>10
  <2>5. /\ ToCome(new, known2, asked, n, t) = SumFunctionOnSet(w, new) + SumFunctionOnSet(New, Server)
        /\ ToCome(ups, known, asked, n, t) = SumFunctionOnSet(w, ups) + SumFunctionOnSet(Old, Server)
    BY DEF ToCome
  <2>6. ToCome(new, known2, asked, n, t) <= ToCome(ups, known, asked, n, t)
    <3> HIDE DEF Old, New, w, s
    <3> QED BY <1>3, <1>4, <1>7, <2>1, <2>2, <2>3, <2>4, <2>5
  <2> QED BY <1>1, <1>2, <2>6
<1> QED BY <1>8, <1>9, <1>10

Dies(ups, new, known, known2, asked, asked2, s) ==
  LET zero == [m \in Holder |-> 0]
  IN  /\ new = {r \in ups : r.server # s}
      /\ known2 = [known EXCEPT ![s] = zero]
      /\ asked2 = [asked EXCEPT ![s] = zero]

\* A server dies: nothing is to come from it.
LEMMA RestartAddsNothing ==
  ASSUME NEW ups, Served(ups), NEW known, NEW asked, Remembered(known, asked), NEW s \in Server,
         NEW new, NEW known2, NEW asked2, Dies(ups, new, known, known2, asked, asked2, s),
         NEW n \in Holder, NEW t
  PROVE  /\ Served(new) /\ Remembered(known2, asked2)
         /\ Cardinality(new) <= Cardinality(ups)
         /\ ToCome(new, known2, asked2, n, t) <= ToCome(ups, known, asked, n, t)
<1> DEFINE zero == [m \in Holder |-> 0]
<1>0. /\ new = {r \in ups : r.server # s}
      /\ known2 = [known EXCEPT ![s] = zero]
      /\ asked2 = [asked EXCEPT ![s] = zero]
  BY DEF Dies
<1> DEFINE w == Weights(n, t)
           Old == Room(ups, known, asked, n)
           New == Room(new, known2, asked2, n)
<1>1. Served(new) /\ Cardinality(new) <= Cardinality(ups)
  <2>1. new \in SUBSET ups
    BY <1>0
  <2> QED BY <2>1, FewerServed
<1>2. Remembered(known2, asked2)
  BY <1>0, QuotaAssumption DEF Remembered
<1>3. /\ SumFunctionOnSet(w, ups) \in Nat /\ SumFunctionOnSet(w, new) \in Nat
      /\ SumFunctionOnSet(Old, Server) \in Nat /\ SumFunctionOnSet(New, Server) \in Nat
  BY <1>1, <1>2, ToComeType
<1>4. SumFunctionOnSet(w, new) <= SumFunctionOnSet(w, ups)
  <2>1. IsFiniteSet(ups) /\ new \in SUBSET ups /\ \A r \in ups : w[r] \in Nat
    BY <1>0, FewServed, WeightsType DEF Served
  <2> HIDE DEF w
  <2> QED BY <2>1, SumOfSubset
<1>5. ASSUME NEW x \in Server PROVE New[x] \in Int /\ Old[x] \in Int /\ New[x] <= Old[x]
  <2>1. New[x] \in Nat /\ Old[x] \in Nat
    BY <1>1, <1>2, RoomType
  <2>2. CASE x = s
    <3>1. known2[x][n] = 0
      BY <1>0, <2>2 DEF Remembered
    <3>2. ~(known2[x][n] > 0)
      BY <3>1
    <3>3. New[x] = 0
      BY <3>2 DEF Room
    <3> HIDE DEF New, Old
    <3> QED BY <2>1, <3>3
  <2>3. CASE x # s
    <3>1. Readers(new, x, n) = Readers(ups, x, n)
      BY <1>0, <2>3 DEF Readers
    <3>2. known2[x][n] = known[x][n] /\ asked2[x][n] = asked[x][n]
      BY <1>0, <2>3 DEF Remembered
    <3>3. New[x] = Old[x]
      BY <3>1, <3>2 DEF Room
    <3> HIDE DEF New, Old
    <3> QED BY <2>1, <3>3
  <2> QED BY <2>2, <2>3
<1>6. SumFunctionOnSet(New, Server) <= SumFunctionOnSet(Old, Server)
  <2>1. IsFiniteSet(Server)
    BY QuotaAssumption
  <2> HIDE DEF New, Old
  <2> QED BY <1>5, <2>1, SumsCompare
<1>7. /\ ToCome(new, known2, asked2, n, t) = SumFunctionOnSet(w, new) + SumFunctionOnSet(New, Server)
      /\ ToCome(ups, known, asked, n, t) = SumFunctionOnSet(w, ups) + SumFunctionOnSet(Old, Server)
  BY DEF ToCome
<1>8. ToCome(new, known2, asked2, n, t) <= ToCome(ups, known, asked, n, t)
  <2> HIDE DEF New, Old, w
  <2> QED BY <1>3, <1>4, <1>6, <1>7
<1> QED BY <1>1, <1>2, <1>8

-----------------------------------------------------------------------------
\* Who is above a node, and who is charged for it, is a user or an organization.
LEMMA UpType ==
  ASSUME accountee \in [Org -> Holder], NEW n \in Holder, NEW k \in Nat
  PROVE  Up(n, k) \in Holder
<1> DEFINE g == [h \in Holder |-> IF h \in Org THEN accountee[h] ELSE h]
           Is(u) == u = [i \in Nat |-> IF i = 0 THEN n
                                       ELSE IF u[i - 1] \in Org THEN accountee[u[i - 1]] ELSE u[i - 1]]
           up == CHOOSE u : Is(u)
<1>1. g \in [Holder -> Holder]
  OBVIOUS
<1>2. PICK f \in [Nat -> Holder] : f[0] = n /\ \A i \in Nat : f[i + 1] = g[f[i]]
  <2> HIDE DEF g
  <2>1. \E f : Iterates(f, g, n, Holder)
    BY <1>1, Iteration
  <2> QED BY <2>1 DEF Iterates
<1>3. Is(f)
  <2>1. ASSUME NEW i \in Nat
        PROVE  f[i] = IF i = 0 THEN n ELSE IF f[i - 1] \in Org THEN accountee[f[i - 1]] ELSE f[i - 1]
    <3>1. CASE i = 0
      BY <1>2, <3>1
    <3>2. CASE i # 0
      <4>1. i - 1 \in Nat /\ (i - 1) + 1 = i
        BY <3>2
      <4>2. f[(i - 1) + 1] = g[f[i - 1]] /\ f[i - 1] \in Holder
        BY <1>2, <4>1
      <4> QED BY <3>2, <4>1, <4>2
    <3> QED BY <3>1, <3>2
  <2>2. f = [i \in Nat |-> f[i]]
    OBVIOUS
  <2> QED BY <2>1, <2>2
<1>4. Is(up)
  BY <1>3
<1>5. Up(n, k) = up[k]
  BY DEF Up
<1>6. \A i \in Nat : up[i] = IF i = 0 THEN n
                             ELSE IF up[i - 1] \in Org THEN accountee[up[i - 1]] ELSE up[i - 1]
  BY <1>4
<1> HIDE DEF up
<1> DEFINE T == {i \in Nat : up[i] \in Holder}
<1>7. 0 \in T
  BY <1>6
<1>8. ASSUME NEW i \in T PROVE i + 1 \in T
  <2>1. i + 1 \in Nat /\ i + 1 # 0 /\ (i + 1) - 1 = i /\ up[i] \in Holder
    OBVIOUS
  <2>2. up[i + 1] = IF up[i] \in Org THEN accountee[up[i]] ELSE up[i]
    BY <1>6, <2>1
  <2> QED BY <2>1, <2>2
<1>9. T = Nat
  <2> HIDE DEF T
  <2>1. T \in SUBSET Nat
    BY DEF T
  <2> QED BY <1>7, <1>8, <2>1, NumbersByInduction
<1> QED BY <1>5, <1>9

LEMMA LargestOf ==
  ASSUME NEW m \in Nat, NEW K \in SUBSET (1..m), K # {}
  PROVE  Max(K) \in K
<1> DEFINE T == {j \in Nat : m - j \in K}
<1>1. T \in SUBSET Nat /\ T # {}
  <2>1. PICK k \in K : TRUE
    OBVIOUS
  <2>2. m - k \in Nat /\ m - (m - k) = k
    OBVIOUS
  <2> QED BY <2>1, <2>2
<1>2. PICK j \in T : \A i \in T : j <= i
  <2> HIDE DEF T
  <2> QED BY <1>1, LeastNumber
<1>3. \A y \in K : m - j >= y
  <2> SUFFICES ASSUME NEW y \in K PROVE m - j >= y
    OBVIOUS
  <2>1. y \in 1..m /\ m - y \in Nat /\ m - (m - y) = y
    OBVIOUS
  <2>2. m - y \in T
    BY <2>1
  <2>3. j <= m - y /\ j \in Nat
    BY <1>2, <2>2
  <2> QED BY <2>1, <2>3
<1>4. m - j \in K
  OBVIOUS
<1> QED BY <1>3, <1>4 DEF Max

LEMMA AccounteeType ==
  ASSUME accountee \in [Org -> Holder], NEW n \in Holder
  PROVE  AccounteeOf(n) \in Holder
<1> DEFINE K == {k \in 1..Cardinality(Org) : \A i, j \in 0..k - 1 : Up(n, i) = Up(n, j) => i = j}
<1>1. CASE n \in Payer \/ assigned[n] # NoEvent
  BY <1>1 DEF AccounteeOf
<1>2. CASE ~(n \in Payer \/ assigned[n] # NoEvent)
  <2>1. n \in Org
    BY <1>2 DEF Holder
  <2>2. Cardinality(Org) \in Nat /\ Cardinality(Org) >= 1
    <3>1. IsFiniteSet(Org)
      BY QuotaAssumption
    <3>2. Cardinality(Org) # 0
      BY <2>1, <3>1, FS_EmptySet
    <3>3. Cardinality(Org) \in Nat
      BY <3>1, FS_CardinalityType
    <3> QED BY <3>2, <3>3
  <2>3. 1 \in K
    <3>1. \A i, j \in 0..1 - 1 : i = j
      OBVIOUS
    <3> QED BY <2>2, <3>1
  <2>4. K \in SUBSET (1..Cardinality(Org))
    OBVIOUS
  <2>5. AccounteeOf(n) = Up(n, Max(K))
    BY <1>2 DEF AccounteeOf
  <2> HIDE DEF K
  <2>6. Max(K) \in K
    BY <2>2, <2>3, <2>4, LargestOf
  <2>7. Max(K) \in Nat
    <3>1. Max(K) \in 1..Cardinality(Org)
      BY <2>4, <2>6
    <3> QED BY <2>2, <3>1
  <2> QED BY <2>5, <2>7, UpType
<1> QED BY <1>1, <1>2

Beneath(n) == {m \in Holder : n \in Above(m)}

LEMMA AboveStays ==
  ASSUME accountee' = accountee, NEW m
  PROVE  Above(m)' = Above(m)
BY DEF Above, Up

LEMMA BeneathStays ==
  ASSUME accountee' = accountee, NEW n
  PROVE  Beneath(n)' = Beneath(n)
BY AboveStays DEF Beneath

LEMMA StoredSum ==
  ASSUME NEW f \in [Holder -> Nat], NEW D \in SUBSET Holder
  PROVE  IsFiniteSet(D) /\ SumFunctionOnSet(f, D) \in Nat
<1>1. IsFiniteSet(Holder)
  BY QuotaAssumption, FS_Union DEF Holder
<1>2. IsFiniteSet(D)
  BY <1>1, FS_Subset
<1>3. \A x \in D : f[x] \in Nat
  OBVIOUS
<1>4. \A x \in D : f[x] \in Int
  OBVIOUS
<1>5. SumFunctionOnSet(f, D) \in Int
  BY <1>2, <1>4, SumIsInteger
<1>6. SumFunctionOnSet(f, {}) <= SumFunctionOnSet(f, D)
  <2>1. {} \in SUBSET D
    OBVIOUS
  <2> QED BY <1>2, <1>3, <2>1, SumOfSubset
<1> QED BY <1>2, <1>5, <1>6, SumOfNothing

LEMMA UsedIs ==
  ASSUME stored \in [Holder -> Nat], NEW n
  PROVE  UsedBy(n) = SumFunctionOnSet(stored, Beneath(n)) /\ UsedBy(n) \in Nat
<1>1. UsedBy(n) = SumFunctionOnSet(stored, Beneath(n))
  BY DEF UsedBy, Beneath
<1>2. Beneath(n) \in SUBSET Holder
  BY DEF Beneath
<1> QED BY <1>1, <1>2, StoredSum

LEMMA UsedStays ==
  ASSUME accountee' = accountee, stored' = stored, NEW n
  PROVE  UsedBy(n)' = UsedBy(n)
<1>1. UsedBy(n) = SumFunctionOnSet(stored, Beneath(n))
  BY DEF UsedBy, Beneath
<1>2. UsedBy(n)' = SumFunctionOnSet(stored', Beneath(n)')
  BY DEF UsedBy, Beneath
<1> QED BY <1>1, <1>2, BeneathStays

\* What a holder is stored counts for everybody above.
LEMMA UsedGrows ==
  ASSUME accountee' = accountee, stored \in [Holder -> Nat],
         NEW h \in Holder, NEW b \in Nat, stored' = [stored EXCEPT ![h] = @ + b], NEW n
  PROVE  UsedBy(n)' = UsedBy(n) + IF n \in Above(h) THEN b ELSE 0
<1> DEFINE D == Beneath(n)
           old == stored
           new == stored'
<1>1. /\ UsedBy(n) = SumFunctionOnSet(old, D)
      /\ UsedBy(n)' = SumFunctionOnSet(new, D)
  <2>1. UsedBy(n) = SumFunctionOnSet(stored, Beneath(n))
    BY DEF UsedBy, Beneath
  <2>2. UsedBy(n)' = SumFunctionOnSet(stored', Beneath(n)')
    BY DEF UsedBy, Beneath
  <2> QED BY <2>1, <2>2, BeneathStays
<1>2. D \in SUBSET Holder /\ (h \in D <=> n \in Above(h))
  BY DEF Beneath
<1>3. IsFiniteSet(D) /\ SumFunctionOnSet(old, D) \in Nat
  BY <1>2, StoredSum
<1>4. \A x \in D : old[x] \in Int /\ new[x] \in Int /\ (x # h => new[x] = old[x])
  BY <1>2
<1>5. old[h] \in Nat /\ new[h] = old[h] + b
  OBVIOUS
<1> HIDE DEF D, old, new
<1>6. CASE h \in D
  <2>1. SumFunctionOnSet(new, D) = SumFunctionOnSet(old, D) - old[h] + new[h]
    BY <1>3, <1>4, <1>6, SumChanges
  <2>2. SumFunctionOnSet(new, D) = SumFunctionOnSet(old, D) + b
    BY <1>3, <1>5, <2>1
  <2> QED BY <1>1, <1>2, <1>6, <2>2
<1>7. CASE h \notin D
  <2>1. \A x \in D : old[x] \in Int /\ new[x] = old[x]
    BY <1>4, <1>7
  <2>2. SumFunctionOnSet(new, D) = SumFunctionOnSet(old, D)
    BY <1>3, <2>1, SumsAreEqual
  <2> QED BY <1>1, <1>2, <1>3, <1>7, <2>2
<1> QED BY <1>6, <1>7

-----------------------------------------------------------------------------
QuotaTypes ==
  /\ accountee \in [Org -> Holder]
  /\ assigned \in [Holder -> Plan \cup {NoEvent, 0}]
  /\ stored \in [Holder -> Nat] /\ unasked \in [Holder -> Nat] /\ highest \in [Holder -> Nat]
  /\ Remembered(lastKnown, unchecked) /\ Served(uploads)
  /\ uploadCount \in 0..MaxUploads

\* Every upload is stored once, or still served, or gone.
StoredCounted ==
  \A n \in Holder : stored[n] + MaxBytes * Cardinality(uploads) <= MaxBytes * uploadCount

\* No read has seen a total above the highest one.
TotalsKnown ==
  /\ \A n \in Holder : TotalOf(n) <= highest[n]
  /\ \A r \in uploads : r.total <= highest[r.charged]

FewToCome ==
  \A n \in Holder, t \in Nat : highest[n] <= t =>
    UsedBy(n) - unasked[n] + ToCome(uploads, lastKnown, unchecked, n, t) <= t + Overshoot

QuotaInv == QuotaTypes /\ StoredCounted /\ TotalsKnown /\ FewToCome

LEMMA ToComeNat ==
  ASSUME NEW ups, Served(ups), NEW known, NEW asked, Remembered(known, asked),
         NEW n \in Holder, NEW t
  PROVE  ToCome(ups, known, asked, n, t) \in Nat
BY ToComeType DEF ToCome

LEMMA PlanType ==
  ASSUME NEW x \in Plan \cup {NoEvent, 0}, x > 0
  PROVE  x \in Nat
<1>1. x \in Plan \/ x = -1 \/ x = 0
  BY DEF NoEvent
<1>2. \A y \in Plan : y \in Nat
  BY QuotaAssumption
<1>3. ~(-1 > 0) /\ ~(0 > 0)
  OBVIOUS
<1> QED BY <1>1, <1>2, <1>3

LEMMA TotalType ==
  ASSUME assigned \in [Holder -> Plan \cup {NoEvent, 0}], NEW n \in Holder
  PROVE  TotalOf(n) \in Nat
<1>1. assigned[n] \in Plan \cup {NoEvent, 0} /\ DefaultTotal \in Nat
  BY QuotaAssumption
<1> QED BY <1>1, PlanType DEF TotalOf

LEMMA QuotaInvInit == QuotaInit => QuotaInv
<1> SUFFICES ASSUME QuotaInit PROVE QuotaInv
  OBVIOUS
<1>1. assigned \in [Holder -> Plan \cup {NoEvent, 0}]
  BY DEF QuotaInit
<1>2. Remembered(lastKnown, unchecked) /\ Served(uploads)
  BY QuotaAssumption DEF QuotaInit, Remembered, Served
<1>3. QuotaTypes
  <2>1. highest \in [Holder -> Nat]
    BY <1>1, TotalType DEF QuotaInit
  <2> QED BY <1>1, <1>2, <2>1, QuotaAssumption DEF QuotaInit, QuotaTypes
<1>4. StoredCounted
  <2>1. Cardinality(uploads) = 0 /\ uploadCount = 0 /\ \A n \in Holder : stored[n] = 0
    BY FS_EmptySet DEF QuotaInit
  <2>2. MaxBytes * 0 = 0
    BY QuotaAssumption
  <2> QED BY <2>1, <2>2 DEF StoredCounted
<1>5. TotalsKnown
  <2>1. \A n \in Holder : highest[n] = TotalOf(n) /\ TotalOf(n) \in Nat
    BY <1>1, TotalType DEF QuotaInit
  <2>2. uploads = {}
    BY DEF QuotaInit
  <2>3. \A n \in Holder : TotalOf(n) <= highest[n]
    BY <2>1
  <2> QED BY <2>2, <2>3 DEF TotalsKnown
<1>6. FewToCome
  <2> SUFFICES ASSUME NEW n \in Holder, NEW t \in Nat
               PROVE  UsedBy(n) - unasked[n] + ToCome(uploads, lastKnown, unchecked, n, t) <= t + Overshoot
    BY DEF FewToCome
  <2>1. UsedBy(n) = 0
    <3> DEFINE D == Beneath(n)
    <3>1. UsedBy(n) = SumFunctionOnSet(stored, D) /\ UsedBy(n) \in Nat
      BY <1>3, UsedIs DEF QuotaTypes
    <3>2. D \in SUBSET Holder
      BY DEF Beneath
    <3>3. \A x \in D : stored[x] = 0
      BY <3>2 DEF QuotaInit
    <3>4. IsFiniteSet(D) /\ Cardinality(D) \in Nat /\ D \cap {} = {}
      BY <1>3, <3>2, StoredSum, FS_CardinalityType DEF QuotaTypes
    <3>5. \A x \in D : stored[x] \in Int /\ stored[x] <= IF x \in {} THEN 0 + 0 ELSE 0
      BY <3>3
    <3>6. SumFunctionOnSet(stored, D) <= 0 * Cardinality(D) + 0 * Cardinality(D \cap {})
      <4> HIDE DEF D
      <4> QED BY <3>4, <3>5, SumBounded
    <3>7. 0 * Cardinality(D) = 0 /\ 0 * Cardinality(D \cap {}) = 0
      BY <3>4, FS_EmptySet
    <3> QED BY <3>1, <3>6, <3>7
  <2>2. ToCome(uploads, lastKnown, unchecked, n, t) = 0
    <3>1. SumFunctionOnSet(Weights(n, t), uploads) = 0
      BY SumOfNothing DEF QuotaInit
    <3> DEFINE room == Room(uploads, lastKnown, unchecked, n)
    <3>2. \A s \in Server : room[s] = 0
      <4>1. \A s \in Server : ~(lastKnown[s][n] > 0)
        BY DEF QuotaInit
      <4> QED BY <4>1 DEF Room
    <3>3. SumFunctionOnSet(room, Server) \in Nat
      BY <1>2, ToComeType
    <3>4. IsFiniteSet(Server) /\ Cardinality(Server) \in Nat
      BY QuotaAssumption, FS_CardinalityType
    <3>5. \A x \in Server : room[x] \in Int /\ room[x] <= IF x \in {} THEN 0 + 0 ELSE 0
      BY <3>2
    <3>6. SumFunctionOnSet(room, Server) <= 0 * Cardinality(Server) + 0 * Cardinality(Server \cap {})
      <4> HIDE DEF room
      <4> QED BY <3>4, <3>5, SumBounded
    <3>7. 0 * Cardinality(Server) = 0 /\ 0 * Cardinality(Server \cap {}) = 0
      <4>1. Server \cap {} = {}
        OBVIOUS
      <4> QED BY <3>4, <4>1, FS_EmptySet
    <3>8. SumFunctionOnSet(room, Server) = 0
      <4> HIDE DEF room
      <4> QED BY <3>3, <3>6, <3>7
    <3> QED BY <3>1, <3>8 DEF ToCome
  <2>3. unasked[n] = 0
    BY DEF QuotaInit
  <2> QED BY <2>1, <2>2, <2>3, OvershootType
<1> QED BY <1>3, <1>4, <1>5, <1>6 DEF QuotaInv

-----------------------------------------------------------------------------
\* It is enough that no step adds to what is to come for whoever reached the limit.
LEMMA FewToComeKept ==
  ASSUME QuotaTypes, FewToCome, accountee' = accountee, stored' = stored, unasked' = unasked,
         Served(uploads'), Remembered(lastKnown', unchecked'), highest' \in [Holder -> Nat],
         \A n \in Holder : highest[n] <= highest'[n],
         \A n \in Holder, t \in Nat : highest[n] <= t =>
           \/ ToCome(uploads', lastKnown', unchecked', n, t) <= ToCome(uploads, lastKnown, unchecked, n, t)
           \/ UsedBy(n) < t
  PROVE  FewToCome'
<1> SUFFICES ASSUME NEW n \in Holder, NEW t \in Nat, highest'[n] <= t
             PROVE  UsedBy(n)' - unasked'[n] + ToCome(uploads', lastKnown', unchecked', n, t) <= t + Overshoot
  BY DEF FewToCome
<1>1. highest[n] <= t
  BY DEF QuotaTypes
<1>2. UsedBy(n)' = UsedBy(n) /\ UsedBy(n) \in Nat
  BY UsedStays, UsedIs DEF QuotaTypes
<1>3. /\ ToCome(uploads', lastKnown', unchecked', n, t) \in Nat
      /\ ToCome(uploads', lastKnown', unchecked', n, t) <= Overshoot + 1
      /\ ToCome(uploads, lastKnown, unchecked, n, t) \in Nat
  BY ToComeNat, ToComeBounded DEF QuotaTypes
<1>4. unasked'[n] = unasked[n] /\ unasked[n] \in Nat /\ Overshoot \in Nat
  BY OvershootType DEF QuotaTypes
<1>5. CASE UsedBy(n) < t
  BY <1>2, <1>3, <1>4, <1>5
<1>6. CASE ToCome(uploads', lastKnown', unchecked', n, t) <= ToCome(uploads, lastKnown, unchecked, n, t)
  <2>1. UsedBy(n) - unasked[n] + ToCome(uploads, lastKnown, unchecked, n, t) <= t + Overshoot
    BY <1>1 DEF FewToCome
  <2> QED BY <1>2, <1>3, <1>4, <1>6, <2>1
<1> QED BY <1>1, <1>5, <1>6

LEMMA UploadKeepsInv ==
  ASSUME QuotaInv, NEW s \in Server, NEW user \in Payer, NEW h \in Holder,
         NEW kind \in {"create", "change"}, NEW b \in 1..MaxBytes, Upload(s, user, h, kind, b)
  PROVE  QuotaInv'
<1> DEFINE nr == CHOOSE i \in FreeNumbers : TRUE
           c == ChargedWith(user, h, kind)
           r == [nr |-> nr, server |-> s, holder |-> h, bytes |-> b, at |-> "arrived",
                 charged |-> c, total |-> -1, used |-> -1]
           q == [nr |-> nr, server |-> s, holder |-> h, bytes |-> b, at |-> "reading",
                 charged |-> c, total |-> -1, used |-> -1]
           g == [nr |-> nr, server |-> s, holder |-> h, bytes |-> b, at |-> "granted",
                 charged |-> c, total |-> -1, used |-> -1]
<1>1. QuotaTypes /\ StoredCounted /\ TotalsKnown /\ FewToCome
  BY DEF QuotaInv
<1>2. /\ uploadCount < MaxUploads /\ FreeNumbers # {} /\ uploadCount' = uploadCount + 1
      /\ EstimateRemaining(r)
      /\ UNCHANGED << accountee, assigned, eventCount, stored, lastKnown, highest, unasked >>
  BY DEF Upload, events
<1>3. nr \in 1..MaxParallel /\ \A x \in uploads : x.nr # nr
  <2>1. nr \in FreeNumbers
    BY <1>2
  <2> QED BY <2>1 DEF FreeNumbers
<1>4. c \in Holder
  BY <1>1, AccounteeType DEF ChargedWith, QuotaTypes, Holder
<1>5. b \in Nat \ {0}
  BY QuotaAssumption
<1> HIDE DEF nr, c
<1>6. q \in Uploads /\ g \in Uploads
  BY <1>3, <1>4 DEF Uploads
<1>7. \/ /\ uploads' = uploads \cup {q}
         /\ unchecked' = [unchecked EXCEPT ![s][c] = 0]
      \/ /\ uploads' = uploads \/ uploads' = uploads \cup {g}
         /\ unchecked' = [unchecked EXCEPT ![s][c] = unchecked[s][c] + b]
         /\ unchecked[s][c] + b <= Slack /\ lastKnown[s][c] > 0
  <2>1. r \notin uploads /\ uploads \ {r} = uploads
    BY <1>3
  <2>2. [r EXCEPT !.at = "reading"] = q /\ [r EXCEPT !.at = "granted"] = g
    OBVIOUS
  <2>3. /\ lastKnown[s][c] \in Int /\ unchecked[s][c] \in Nat /\ Slack \in Nat
    BY <1>1, <1>4, QuotaAssumption DEF QuotaTypes, Remembered
  <2>4. r.server = s /\ r.charged = c /\ r.bytes = b
    OBVIOUS
  <2> HIDE DEF r, q, g
  <2>5. CASE unchecked[s][c] + b > Slack \/ lastKnown[s][c] <= 0
    <3>1. unchecked' = [unchecked EXCEPT ![s][c] = 0] /\ Becomes(r, [r EXCEPT !.at = "reading"])
      BY <1>2, <2>4, <2>5 DEF EstimateRemaining
    <3> QED BY <2>1, <2>2, <3>1 DEF Becomes
  <2>6. CASE ~(unchecked[s][c] + b > Slack \/ lastKnown[s][c] <= 0)
    <3>1. /\ unchecked' = [unchecked EXCEPT ![s][c] = unchecked[s][c] + b]
          /\ Decide(r, lastKnown[s][c])
      BY <1>2, <2>4, <2>6 DEF EstimateRemaining
    <3>2. uploads' = uploads \/ uploads' = uploads \cup {g}
      BY <2>1, <2>2, <3>1 DEF Decide, Becomes
    <3>3. unchecked[s][c] + b <= Slack /\ lastKnown[s][c] > 0
      BY <1>5, <2>3, <2>6
    <3> QED BY <3>1, <3>2, <3>3
  <2> QED BY <2>5, <2>6
<1>8. /\ q.server = s /\ q.charged = c /\ q.at = "reading" /\ q.used = -1 /\ q.nr = nr
      /\ g.server = s /\ g.charged = c /\ g.at = "granted" /\ g.bytes = b /\ g.nr = nr
      /\ q.total = -1 /\ g.total = -1
  OBVIOUS
<1> HIDE DEF r, q, g
<1>9. (\A x \in uploads : x.nr # q.nr) /\ (\A x \in uploads : x.nr # g.nr)
  BY <1>3, <1>8
<1>10. ASSUME NEW n \in Holder, NEW t
       PROVE  /\ Served(uploads') /\ Remembered(lastKnown', unchecked')
              /\ Cardinality(uploads') <= Cardinality(uploads) + 1
              /\ ToCome(uploads', lastKnown', unchecked', n, t)
                   <= ToCome(uploads, lastKnown, unchecked, n, t)
  <2>1. Served(uploads) /\ Remembered(lastKnown, unchecked) /\ lastKnown' = lastKnown
    BY <1>1, <1>2 DEF QuotaTypes
  <2> QED BY <1>4, <1>5, <1>6, <1>7, <1>8, <1>9, <2>1, EstimateAddsNothing
<1>11. /\ Served(uploads') /\ Remembered(lastKnown', unchecked')
       /\ Cardinality(uploads') <= Cardinality(uploads) + 1
  BY <1>4, <1>10
<1>12. QuotaTypes'
  <2>1. uploadCount + 1 \in 0..MaxUploads
    BY <1>1, <1>2, QuotaAssumption DEF QuotaTypes
  <2> QED BY <1>1, <1>2, <1>11, <2>1 DEF QuotaTypes
<1>13. StoredCounted'
  <2>1. /\ Cardinality(uploads) \in Nat /\ Cardinality(uploads') \in Nat
        /\ uploadCount \in Nat /\ MaxBytes \in Nat
    BY <1>1, <1>11, FewServed, QuotaAssumption DEF QuotaTypes
  <2> DEFINE i == Cardinality(uploads)
             j == Cardinality(uploads')
  <2>2. MaxBytes * j <= MaxBytes * i + MaxBytes
    <3>1. i \in Nat /\ j \in Nat /\ j <= i + 1
      BY <1>11, <2>1
    <3> HIDE DEF i, j
    <3>2. MaxBytes * j <= MaxBytes * (i + 1) /\ MaxBytes * (i + 1) = MaxBytes * i + MaxBytes
      BY <2>1, <3>1
    <3> QED BY <3>2
  <2>3. MaxBytes * (uploadCount + 1) = MaxBytes * uploadCount + MaxBytes
    BY <2>1
  <2>4. MaxBytes * i \in Int /\ MaxBytes * j \in Int /\ MaxBytes * uploadCount \in Int
    BY <2>1
  <2> SUFFICES ASSUME NEW n \in Holder PROVE stored'[n] + MaxBytes * j <= MaxBytes * uploadCount'
    BY DEF StoredCounted
  <2>5. stored[n] + MaxBytes * i <= MaxBytes * uploadCount /\ stored[n] \in Nat
    BY <1>1 DEF StoredCounted, QuotaTypes
  <2> HIDE DEF i, j
  <2> QED BY <1>2, <2>1, <2>2, <2>3, <2>4, <2>5
<1>14. TotalsKnown'
  <2>1. \A n \in Holder : TotalOf(n)' = TotalOf(n) /\ highest'[n] = highest[n]
    BY <1>2 DEF TotalOf
  <2>2. ASSUME NEW x \in uploads' PROVE x.total <= highest'[x.charged]
    <3>1. CASE x \in uploads
      BY <1>1, <1>2, <3>1 DEF TotalsKnown
    <3>2. CASE x \in {q, g}
      <4>1. x.total = -1 /\ x.charged \in Holder
        BY <1>4, <1>8, <3>2
      <4>2. highest'[x.charged] \in Nat
        BY <1>12, <4>1 DEF QuotaTypes
      <4> QED BY <4>1, <4>2
    <3> QED BY <1>7, <3>1, <3>2
  <2> QED BY <1>1, <2>1, <2>2 DEF TotalsKnown
<1>15. FewToCome'
  <2>1. /\ accountee' = accountee /\ stored' = stored /\ unasked' = unasked
        /\ highest' \in [Holder -> Nat] /\ \A n \in Holder : highest[n] <= highest'[n]
    BY <1>1, <1>2 DEF QuotaTypes
  <2>2. \A n \in Holder, t \in Nat : highest[n] <= t =>
           \/ ToCome(uploads', lastKnown', unchecked', n, t) <= ToCome(uploads, lastKnown, unchecked, n, t)
           \/ UsedBy(n) < t
    BY <1>10
  <2> QED BY <1>1, <1>11, <2>1, <2>2, FewToComeKept
<1> QED BY <1>12, <1>13, <1>14, <1>15 DEF QuotaInv

LEMMA StoredCountedKept ==
  ASSUME QuotaTypes, StoredCounted, Served(uploads'), stored' = stored, uploadCount' = uploadCount,
         Cardinality(uploads') <= Cardinality(uploads)
  PROVE  StoredCounted'
<1> DEFINE i == Cardinality(uploads)
           j == Cardinality(uploads')
<1>1. i \in Nat /\ j \in Nat /\ MaxBytes \in Nat /\ uploadCount \in Nat /\ j <= i
  BY FewServed, QuotaAssumption DEF QuotaTypes
<1> SUFFICES ASSUME NEW n \in Holder PROVE stored'[n] + MaxBytes * j <= MaxBytes * uploadCount'
  BY DEF StoredCounted
<1>2. stored[n] + MaxBytes * i <= MaxBytes * uploadCount /\ stored[n] \in Nat
  BY DEF StoredCounted, QuotaTypes
<1> HIDE DEF i, j
<1>3. MaxBytes * j <= MaxBytes * i
  BY <1>1
<1>4. MaxBytes * i \in Int /\ MaxBytes * j \in Int /\ MaxBytes * uploadCount \in Int
  BY <1>1
<1> QED BY <1>2, <1>3, <1>4

\* One of the two queries of a read answers.
LEMMA ReadKeepsInv ==
  ASSUME QuotaInv, NEW r \in uploads, ReadTotal(r) \/ ReadUsed(r)
  PROVE  QuotaInv'
<1>1. QuotaTypes /\ StoredCounted /\ TotalsKnown /\ FewToCome
  BY DEF QuotaInv
<1>2. r \in Uploads /\ r.charged \in Holder /\ Served(uploads) /\ Remembered(lastKnown, unchecked)
  BY <1>1 DEF QuotaTypes, Served, Uploads
<1>3. TotalOf(r.charged) \in Nat /\ UsedBy(r.charged) \in Nat
  BY <1>1, <1>2, TotalType, UsedIs DEF QuotaTypes
<1>4. /\ UNCHANGED << accountee, assigned, eventCount, stored, unchecked, lastKnown, uploadCount, highest, unasked >>
      /\ r.at = "reading"
  BY DEF ReadTotal, ReadUsed, events, memory, bookkept
<1>5. PICK q : /\ uploads' = (uploads \ {r}) \cup {q}
               /\ \/ q = [r EXCEPT !.total = TotalOf(r.charged)]
                  \/ r.used = -1 /\ q = [r EXCEPT !.used = UsedBy(r.charged)]
  BY DEF ReadTotal, ReadUsed, Becomes
<1>6. /\ q \in Uploads /\ q.nr = r.nr /\ q.server = r.server /\ q.charged = r.charged /\ q.at = r.at
      /\ q.bytes = r.bytes
      /\ q.total = r.total \/ q.total = TotalOf(r.charged)
      /\ q.used = r.used \/ (r.used = -1 /\ q.used = UsedBy(r.charged))
  <2>1. CASE q = [r EXCEPT !.total = TotalOf(r.charged)]
    BY <1>2, <1>3, <2>1 DEF Uploads
  <2>2. CASE r.used = -1 /\ q = [r EXCEPT !.used = UsedBy(r.charged)]
    BY <1>2, <1>3, <2>2 DEF Uploads
  <2> QED BY <1>5, <2>1, <2>2
<1>7. Served(uploads') /\ Cardinality(uploads') = Cardinality(uploads)
  <2>1. /\ Served((uploads \ {r}) \cup {q})
        /\ Cardinality((uploads \ {r}) \cup {q}) = Cardinality(uploads)
    BY <1>2, <1>6, ReplaceServed
  <2> QED BY <1>5, <2>1
<1>8. QuotaTypes'
  BY <1>1, <1>4, <1>7 DEF QuotaTypes
<1>9. StoredCounted'
  <2>1. Cardinality(uploads') <= Cardinality(uploads)
    BY <1>2, <1>7, FewServed
  <2> QED BY <1>1, <1>4, <1>7, <2>1, StoredCountedKept
<1>10. TotalsKnown'
  <2>1. \A n \in Holder : TotalOf(n)' = TotalOf(n) /\ highest'[n] = highest[n]
    BY <1>4 DEF TotalOf
  <2>2. q.total <= highest[q.charged]
    BY <1>1, <1>2, <1>6 DEF TotalsKnown
  <2>3. \A x \in uploads' : x.total <= highest'[x.charged]
    BY <1>1, <1>4, <1>5, <2>2 DEF TotalsKnown
  <2> QED BY <1>1, <2>1, <2>3 DEF TotalsKnown
<1>11. FewToCome'
  <2>1. ASSUME NEW n \in Holder, NEW t \in Nat, ~(UsedBy(n) < t)
        PROVE  ToCome(uploads', lastKnown', unchecked', n, t) <= ToCome(uploads, lastKnown, unchecked, n, t)
    <3> DEFINE w == Weights(n, t)
    <3>1. ToCome((uploads \ {r}) \cup {q}, lastKnown, unchecked, n, t) =
            ToCome(uploads, lastKnown, unchecked, n, t) - w[r] + w[q]
      BY <1>2, <1>6, ReplaceKeepsRoom
    <3>2. w[r] \in Nat /\ w[q] \in Nat /\ ToCome(uploads, lastKnown, unchecked, n, t) \in Nat
      BY <1>2, <1>6, WeightsType, ToComeNat
    <3>3. w[q] <= w[r]
      <4>1. /\ w[r] = IF r.charged # n THEN 0 ELSE IF r.used # -1 /\ r.used < t THEN PutBack ELSE 0
            /\ w[q] = IF q.charged # n THEN 0 ELSE IF q.used # -1 /\ q.used < t THEN PutBack ELSE 0
        BY <1>2, <1>4, <1>6 DEF Weights
      <4>2. CASE q.used = r.used
        BY <1>6, <3>2, <4>1, <4>2
      <4>3. CASE r.used = -1 /\ q.used = UsedBy(r.charged)
        <5>1. w[q] = 0
          BY <1>6, <2>1, <4>1, <4>3
        <5> HIDE DEF w
        <5> QED BY <3>2, <5>1
      <4> QED BY <1>6, <4>2, <4>3
    <3>4. uploads' = (uploads \ {r}) \cup {q} /\ lastKnown' = lastKnown /\ unchecked' = unchecked
      BY <1>4, <1>5
    <3>5. ToCome(uploads', lastKnown', unchecked', n, t) = ToCome(uploads, lastKnown, unchecked, n, t) - w[r] + w[q]
      BY <3>1, <3>4
    <3> HIDE DEF w
    <3> QED BY <3>2, <3>3, <3>5
  <2>2. /\ accountee' = accountee /\ stored' = stored /\ unasked' = unasked
        /\ highest' \in [Holder -> Nat] /\ \A n \in Holder : highest[n] <= highest'[n]
        /\ Remembered(lastKnown', unchecked')
    BY <1>1, <1>4 DEF QuotaTypes
  <2>3. \A n \in Holder, t \in Nat : highest[n] <= t =>
           \/ ToCome(uploads', lastKnown', unchecked', n, t) <= ToCome(uploads, lastKnown, unchecked, n, t)
           \/ UsedBy(n) < t
    BY <2>1
  <2> QED BY <1>1, <1>7, <2>2, <2>3, FewToComeKept
<1> QED BY <1>8, <1>9, <1>10, <1>11 DEF QuotaInv

LEMMA EndReadKeepsInv ==
  ASSUME QuotaInv, NEW r \in uploads, EndRead(r)
  PROVE  QuotaInv'
<1> DEFINE a == r.total - r.used
           g == [r EXCEPT !.at = "granted"]
<1>1. QuotaTypes /\ StoredCounted /\ TotalsKnown /\ FewToCome
  BY DEF QuotaInv
<1>2. r \in Uploads /\ r.charged \in Holder /\ Served(uploads) /\ Remembered(lastKnown, unchecked)
  BY <1>1 DEF QuotaTypes, Served, Uploads
<1>3. /\ r.at = "reading" /\ r.total # -1 /\ r.used # -1
      /\ lastKnown' = [lastKnown EXCEPT ![r.server][r.charged] = a]
      /\ a < r.bytes => uploads' = uploads \ {r}
      /\ ~(a < r.bytes) => uploads' = (uploads \ {r}) \cup {g}
      /\ UNCHANGED << accountee, assigned, eventCount, stored, unchecked, uploadCount, highest, unasked >>
  BY DEF EndRead, Decide, Becomes, events
<1>4. r.total \in Nat /\ r.used \in Nat /\ a \in Int
  BY <1>2, <1>3 DEF Uploads
<1>5. /\ g \in Uploads /\ g.nr = r.nr /\ g.server = r.server /\ g.charged = r.charged
      /\ g.bytes = r.bytes /\ g.at = "granted" /\ g.total = r.total
  BY <1>2 DEF Uploads
<1>6. r.total <= highest[r.charged]
  BY <1>1 DEF TotalsKnown
<1>7. ASSUME NEW n \in Holder, NEW t \in Nat, highest[n] <= t
      PROVE  /\ Served(uploads') /\ Remembered(lastKnown', unchecked)
             /\ Cardinality(uploads') <= Cardinality(uploads)
             /\ ToCome(uploads', lastKnown', unchecked, n, t) <= ToCome(uploads, lastKnown, unchecked, n, t)
  <2>1. r.used >= t /\ r.charged = n => a <= 0
    <3>1. highest[n] \in Nat
      BY <1>1 DEF QuotaTypes
    <3> QED BY <1>4, <1>6, <1>7, <3>1
  <2>2. EndsRead(uploads, uploads', lastKnown, lastKnown', r, a)
    BY <1>3, <1>4 DEF EndsRead
  <2> HIDE DEF a
  <2> QED BY <1>2, <2>1, <2>2, EndReadAddsNothing
<1>8. Served(uploads') /\ Remembered(lastKnown', unchecked') /\ Cardinality(uploads') <= Cardinality(uploads)
  <2>1. highest[r.charged] \in Nat /\ highest[r.charged] <= highest[r.charged]
    BY <1>1, <1>2 DEF QuotaTypes
  <2> QED BY <1>2, <1>3, <1>7, <2>1
<1>9. QuotaTypes'
  BY <1>1, <1>3, <1>8 DEF QuotaTypes
<1>10. StoredCounted'
  BY <1>1, <1>3, <1>8, StoredCountedKept
<1>11. TotalsKnown'
  <2>1. \A n \in Holder : TotalOf(n)' = TotalOf(n) /\ highest'[n] = highest[n]
    BY <1>3 DEF TotalOf
  <2>2. uploads' \subseteq uploads \cup {g}
    BY <1>3
  <2>3. g.total <= highest[g.charged]
    BY <1>5, <1>6
  <2> HIDE DEF g
  <2>4. \A x \in uploads' : x.total <= highest'[x.charged]
    BY <1>1, <1>3, <2>2, <2>3 DEF TotalsKnown
  <2> QED BY <1>1, <2>1, <2>4 DEF TotalsKnown
<1>12. FewToCome'
  <2>1. /\ accountee' = accountee /\ stored' = stored /\ unasked' = unasked /\ unchecked' = unchecked
        /\ highest' \in [Holder -> Nat] /\ \A n \in Holder : highest[n] <= highest'[n]
    BY <1>1, <1>3 DEF QuotaTypes
  <2>2. \A n \in Holder, t \in Nat : highest[n] <= t =>
           \/ ToCome(uploads', lastKnown', unchecked', n, t) <= ToCome(uploads, lastKnown, unchecked, n, t)
           \/ UsedBy(n) < t
    BY <1>7, <2>1
  <2> QED BY <1>1, <1>8, <2>1, <2>2, FewToComeKept
<1> QED BY <1>9, <1>10, <1>11, <1>12 DEF QuotaInv

-----------------------------------------------------------------------------
LEMMA SaveKeepsInv ==
  ASSUME QuotaInv, NEW r \in uploads, SaveUpload(r)
  PROVE  QuotaInv'
<1> DEFINE h == r.holder
           b == r.bytes
<1>1. QuotaTypes /\ StoredCounted /\ TotalsKnown /\ FewToCome
  BY DEF QuotaInv
<1>2. /\ r \in Uploads /\ r.charged \in Holder /\ h \in Holder /\ b \in Nat /\ b <= MaxBytes
      /\ Served(uploads) /\ Remembered(lastKnown, unchecked)
  BY <1>1, QuotaAssumption DEF QuotaTypes, Served, Uploads
<1>3. /\ r.at = "granted"
      /\ stored' = [stored EXCEPT ![h] = @ + b]
      /\ unasked' = [n \in Holder |-> IF n \in Above(h) \ {r.charged}
                                      THEN unasked[n] + b ELSE unasked[n]]
      /\ uploads' = uploads \ {r}
      /\ UNCHANGED << accountee, assigned, eventCount, unchecked, lastKnown, uploadCount, highest >>
  BY DEF SaveUpload, events, memory
<1>4. Served(uploads') /\ Cardinality(uploads') = Cardinality(uploads) - 1
  <2>1. Served(uploads')
    BY <1>2, <1>3, FewerServed
  <2>2. Cardinality(uploads \ {r}) = Cardinality(uploads) - 1
    BY <1>2, FewServed, FS_RemoveElement
  <2> QED BY <1>3, <2>1, <2>2
<1> HIDE DEF h, b
<1>5. stored' \in [Holder -> Nat] /\ unasked' \in [Holder -> Nat]
  <2>1. \A n \in Holder : stored[n] \in Nat /\ unasked[n] \in Nat
    BY <1>1 DEF QuotaTypes
  <2>2. \A n \in Holder : stored[n] + b \in Nat /\ unasked[n] + b \in Nat
    BY <1>2, <2>1
  <2> QED BY <1>1, <1>2, <1>3, <2>1, <2>2 DEF QuotaTypes
<1>6. QuotaTypes'
  BY <1>1, <1>3, <1>4, <1>5 DEF QuotaTypes
<1>7. StoredCounted'
  <2> DEFINE i == Cardinality(uploads)
             j == Cardinality(uploads')
  <2>1. i \in Nat /\ j \in Nat /\ j = i - 1 /\ MaxBytes \in Nat /\ uploadCount \in Nat
    BY <1>1, <1>2, <1>4, FewServed, QuotaAssumption DEF QuotaTypes
  <2> SUFFICES ASSUME NEW n \in Holder PROVE stored'[n] + MaxBytes * j <= MaxBytes * uploadCount'
    BY DEF StoredCounted
  <2>2. stored[n] + MaxBytes * i <= MaxBytes * uploadCount /\ stored[n] \in Nat
    BY <1>1 DEF StoredCounted, QuotaTypes
  <2>3. stored'[n] = stored[n] \/ stored'[n] = stored[n] + b
    BY <1>1, <1>2, <1>3 DEF QuotaTypes
  <2> HIDE DEF i, j
  <2>4. MaxBytes * j = MaxBytes * i - MaxBytes
    BY <2>1
  <2>5. MaxBytes * i \in Int /\ MaxBytes * j \in Int /\ MaxBytes * uploadCount \in Int
    BY <2>1
  <2> QED BY <1>2, <1>3, <2>1, <2>2, <2>3, <2>4, <2>5
<1>8. TotalsKnown'
  <2>1. \A n \in Holder : TotalOf(n)' = TotalOf(n) /\ highest'[n] = highest[n]
    BY <1>3 DEF TotalOf
  <2>2. \A x \in uploads' : x.total <= highest'[x.charged]
    BY <1>1, <1>3 DEF TotalsKnown
  <2> QED BY <1>1, <2>1, <2>2 DEF TotalsKnown
<1>9. FewToCome'
  <2> SUFFICES ASSUME NEW n \in Holder, NEW t \in Nat, highest'[n] <= t
               PROVE  UsedBy(n)' - unasked'[n] + ToCome(uploads', lastKnown', unchecked', n, t)
                        <= t + Overshoot
    BY DEF FewToCome
  <2>1. highest[n] <= t
    BY <1>3
  <2>2. UsedBy(n) - unasked[n] + ToCome(uploads, lastKnown, unchecked, n, t) <= t + Overshoot
    BY <1>1, <2>1 DEF FewToCome
  <2>3. UsedBy(n)' = UsedBy(n) + IF n \in Above(h) THEN b ELSE 0
    <3>1. accountee' = accountee /\ stored \in [Holder -> Nat]
      BY <1>1, <1>3 DEF QuotaTypes
    <3> QED BY <1>2, <1>3, <3>1, UsedGrows
  <2>4. unasked'[n] = IF n \in Above(h) \ {r.charged} THEN unasked[n] + b ELSE unasked[n]
    BY <1>3
  <2> DEFINE w == Weights(n, t)
             old == ToCome(uploads, lastKnown, unchecked, n, t)
             new == ToCome(uploads', lastKnown', unchecked', n, t)
             used == UsedBy(n)
             used2 == UsedBy(n)'
  <2>5. new = old - w[r]
    <3>1. ToCome(uploads \ {r}, lastKnown, unchecked, n, t) = old - w[r]
      BY <1>2, <1>3, RemoveKeepsRoom
    <3> QED BY <1>3, <3>1
  <2>6. w[r] = IF r.charged = n THEN b ELSE 0
    BY <1>2, <1>3 DEF Weights, b
  <2>7. old \in Int /\ used \in Int /\ unasked[n] \in Int /\ Overshoot \in Int /\ b \in Int
    <3>1. old \in Nat /\ used \in Nat /\ unasked[n] \in Nat
      BY <1>1, <1>2, ToComeNat, UsedIs DEF QuotaTypes
    <3> HIDE DEF old, used
    <3> QED BY <1>2, <3>1, OvershootType
  <2>8. /\ used2 = used + (IF n \in Above(h) THEN b ELSE 0)
        /\ used - unasked[n] + old <= t + Overshoot
    BY <2>2, <2>3
  <2> HIDE DEF w, old, new, used, used2
  <2>9. used2 - unasked'[n] + new <= t + Overshoot
    <3>1. CASE n \in Above(h) /\ n = r.charged
      BY <1>2, <2>4, <2>5, <2>6, <2>7, <2>8, <3>1
    <3>2. CASE n \in Above(h) /\ n # r.charged
      BY <1>2, <2>4, <2>5, <2>6, <2>7, <2>8, <3>2
    <3>3. CASE n \notin Above(h)
      BY <1>2, <2>4, <2>5, <2>6, <2>7, <2>8, <3>3
    <3> QED BY <3>1, <3>2, <3>3
  <2> QED BY <2>9 DEF new, used2
<1> QED BY <1>6, <1>7, <1>8, <1>9 DEF QuotaInv

LEMMA AssignKeepsInv ==
  ASSUME QuotaInv, NEW m \in Holder, NEW total \in Plan \cup {0}, Assign(m, total)
  PROVE  QuotaInv'
<1>1. QuotaTypes /\ StoredCounted /\ TotalsKnown /\ FewToCome
  BY DEF QuotaInv
<1>2. /\ assigned' = [assigned EXCEPT ![m] = total]
      /\ UNCHANGED << accountee, stored, unchecked, lastKnown, uploads, uploadCount, unasked >>
      /\ highest' = [highest EXCEPT ![m] = IF TotalOf(m)' > @ THEN TotalOf(m)' ELSE @]
  BY DEF Assign, memory
<1>3. assigned' \in [Holder -> Plan \cup {NoEvent, 0}]
  BY <1>1, <1>2 DEF QuotaTypes
<1>4. ASSUME NEW n \in Holder PROVE TotalOf(n)' \in Nat
  <2>1. assigned'[n] \in Plan \cup {NoEvent, 0} /\ DefaultTotal \in Nat
    BY <1>3, QuotaAssumption
  <2> QED BY <2>1, PlanType DEF TotalOf
<1>5. ASSUME NEW n \in Holder
      PROVE  highest'[n] \in Nat /\ highest[n] <= highest'[n] /\ TotalOf(n)' <= highest'[n]
  <2>1. highest[n] \in Nat /\ TotalOf(n)' \in Nat /\ TotalOf(n) <= highest[n]
    BY <1>1, <1>4 DEF QuotaTypes, TotalsKnown
  <2>2. CASE n = m
    <3>1. highest'[n] = IF TotalOf(n)' > highest[n] THEN TotalOf(n)' ELSE highest[n]
      BY <1>1, <1>2, <2>2 DEF QuotaTypes
    <3> QED BY <2>1, <3>1
  <2>3. CASE n # m
    <3>1. TotalOf(n)' = TotalOf(n)
      BY <1>1, <1>2, <2>3 DEF TotalOf, QuotaTypes
    <3>2. highest'[n] = highest[n]
      BY <1>1, <1>2, <2>3 DEF QuotaTypes
    <3> QED BY <2>1, <3>1, <3>2
  <2> QED BY <2>2, <2>3
<1>6. highest' \in [Holder -> Nat]
  BY <1>1, <1>2, <1>4 DEF QuotaTypes
<1>7. QuotaTypes'
  BY <1>1, <1>2, <1>3, <1>6 DEF QuotaTypes
<1>8. Cardinality(uploads') <= Cardinality(uploads)
  BY <1>1, <1>2, FewServed DEF QuotaTypes
<1>9. StoredCounted'
  BY <1>1, <1>2, <1>7, <1>8, StoredCountedKept DEF QuotaTypes
<1>10. TotalsKnown'
  <2>1. ASSUME NEW x \in uploads' PROVE x.total <= highest'[x.charged]
    <3>1. x \in Uploads /\ x.charged \in Holder
      BY <1>1, <1>2 DEF QuotaTypes, Served, Uploads
    <3>2. x.total \in Int /\ x.total <= highest[x.charged] /\ highest[x.charged] \in Nat
      BY <1>1, <1>2, <3>1 DEF TotalsKnown, QuotaTypes, Uploads
    <3> QED BY <1>5, <3>1, <3>2
  <2> QED BY <1>5, <2>1 DEF TotalsKnown
<1>11. FewToCome'
  <2>1. \A n \in Holder, t \in Nat : highest[n] <= t =>
           \/ ToCome(uploads', lastKnown', unchecked', n, t) <= ToCome(uploads, lastKnown, unchecked, n, t)
           \/ UsedBy(n) < t
    <3> SUFFICES ASSUME NEW n \in Holder, NEW t \in Nat
                 PROVE  ToCome(uploads', lastKnown', unchecked', n, t)
                          <= ToCome(uploads, lastKnown, unchecked, n, t)
      OBVIOUS
    <3>1. ToCome(uploads, lastKnown, unchecked, n, t) \in Nat
      BY <1>1, ToComeNat DEF QuotaTypes
    <3> QED BY <1>2, <3>1
  <2>2. Served(uploads') /\ Remembered(lastKnown', unchecked')
    BY <1>7 DEF QuotaTypes
  <2> QED BY <1>1, <1>2, <1>5, <1>6, <2>1, <2>2, FewToComeKept
<1> QED BY <1>7, <1>9, <1>10, <1>11 DEF QuotaInv

LEMMA RestartKeepsInv ==
  ASSUME QuotaInv, NEW s \in Server, Restart(s)
  PROVE  QuotaInv'
<1> DEFINE zero == [m \in Holder |-> 0]
<1>1. QuotaTypes /\ StoredCounted /\ TotalsKnown /\ FewToCome
  BY DEF QuotaInv
<1>2. /\ unchecked' = [unchecked EXCEPT ![s] = zero]
      /\ lastKnown' = [lastKnown EXCEPT ![s] = zero]
      /\ uploads' = {r \in uploads : r.server # s}
      /\ UNCHANGED << accountee, assigned, eventCount, stored, uploadCount, highest, unasked >>
  BY DEF Restart, events
<1>3. ASSUME NEW n \in Holder, NEW t
      PROVE  /\ Served(uploads') /\ Remembered(lastKnown', unchecked')
             /\ Cardinality(uploads') <= Cardinality(uploads)
             /\ ToCome(uploads', lastKnown', unchecked', n, t) <= ToCome(uploads, lastKnown, unchecked, n, t)
  <2>1. Served(uploads) /\ Remembered(lastKnown, unchecked)
    BY <1>1 DEF QuotaTypes
  <2>2. Dies(uploads, uploads', lastKnown, lastKnown', unchecked, unchecked', s)
    BY <1>2 DEF Dies
  <2> QED BY <2>1, <2>2, RestartAddsNothing
<1>4. /\ Served(uploads') /\ Remembered(lastKnown', unchecked')
      /\ Cardinality(uploads') <= Cardinality(uploads)
  <2>1. CASE Holder = {}
    <3>1. uploads = {} /\ uploads' = {}
      BY <1>1, <1>2, <2>1 DEF QuotaTypes, Served, Uploads
    <3>2. Remembered(lastKnown', unchecked')
      BY <1>1, <1>2, <2>1 DEF QuotaTypes, Remembered
    <3> QED BY <1>1, <3>1, <3>2, FewServed DEF QuotaTypes
  <2>2. CASE Holder # {}
    BY <1>3, <2>2
  <2> QED BY <2>1, <2>2
<1>5. QuotaTypes'
  BY <1>1, <1>2, <1>4 DEF QuotaTypes
<1>6. StoredCounted'
  BY <1>1, <1>2, <1>4, StoredCountedKept
<1>7. TotalsKnown'
  <2>1. \A n \in Holder : TotalOf(n)' = TotalOf(n) /\ highest'[n] = highest[n]
    BY <1>2 DEF TotalOf
  <2>2. \A x \in uploads' : x.total <= highest'[x.charged]
    BY <1>1, <1>2 DEF TotalsKnown
  <2> QED BY <1>1, <2>1, <2>2 DEF TotalsKnown
<1>8. FewToCome'
  <2>1. /\ accountee' = accountee /\ stored' = stored /\ unasked' = unasked
        /\ highest' \in [Holder -> Nat] /\ \A n \in Holder : highest[n] <= highest'[n]
    BY <1>1, <1>2 DEF QuotaTypes
  <2> QED BY <1>1, <1>3, <1>4, <2>1, FewToComeKept
<1> QED BY <1>5, <1>6, <1>7, <1>8 DEF QuotaInv

-----------------------------------------------------------------------------
LEMMA QuotaInvStep == QuotaInv /\ [QuotaNext]_quotaVars => QuotaInv'
<1> SUFFICES ASSUME QuotaInv, [QuotaNext]_quotaVars PROVE QuotaInv'
  OBVIOUS
<1>1. CASE \E s \in Server, user \in Payer, n \in Holder, kind \in {"create", "change"},
              bytes \in 1..MaxBytes : Upload(s, user, n, kind, bytes)
  BY <1>1, UploadKeepsInv
<1>2. CASE \E r \in uploads : ReadTotal(r) \/ ReadUsed(r)
  BY <1>2, ReadKeepsInv
<1>3. CASE \E r \in uploads : EndRead(r)
  BY <1>3, EndReadKeepsInv
<1>4. CASE \E r \in uploads : SaveUpload(r)
  BY <1>4, SaveKeepsInv
<1>5. CASE \E n \in Holder, total \in Plan \cup {0} : Assign(n, total)
  BY <1>5, AssignKeepsInv
<1>6. CASE \E s \in Server : Restart(s)
  BY <1>6, RestartKeepsInv
<1>7. CASE UNCHANGED quotaVars
  <2>1. UNCHANGED << accountee, assigned, eventCount, stored, unchecked, lastKnown, uploads,
                     uploadCount, highest, unasked >>
    BY <1>7 DEF quotaVars
  <2>2. \A n : UsedBy(n)' = UsedBy(n) /\ TotalOf(n)' = TotalOf(n)
    BY <2>1, UsedStays DEF TotalOf
  <2>3. QuotaTypes' /\ StoredCounted'
    BY <2>1 DEF QuotaInv, QuotaTypes, StoredCounted
  <2>4. TotalsKnown'
    BY <2>1, <2>2 DEF QuotaInv, TotalsKnown
  <2>5. FewToCome'
    BY <2>1, <2>2 DEF QuotaInv, FewToCome
  <2> QED BY <2>3, <2>4, <2>5 DEF QuotaInv
<1> QED BY <1>1, <1>2, <1>3, <1>4, <1>5, <1>6, <1>7 DEF QuotaNext

LEMMA QuotaInvHolds == QuotaSpec => []QuotaInv
BY QuotaInvInit, QuotaInvStep, PTL DEF QuotaSpec

\* What is stored and remembered stays in range: a server never counts more than the slack
\* between two reads, and an upload is stored at most once.
THEOREM QuotaTypeCorrect == QuotaSpec => []QuotaTypeOK
<1>1. QuotaInv => QuotaTypeOK
  <2> SUFFICES ASSUME QuotaInv PROVE QuotaTypeOK
    OBVIOUS
  <2>1. QuotaTypes /\ StoredCounted
    BY DEF QuotaInv
  <2>2. Cardinality(uploads) \in Nat /\ Cardinality(uploads) <= MaxParallel
    BY <2>1, FewServed DEF QuotaTypes
  <2>3. ASSUME NEW n \in Holder PROVE stored[n] \in 0..MaxUploads * MaxBytes
    <3> DEFINE i == Cardinality(uploads)
    <3>1. stored[n] \in Nat /\ stored[n] + MaxBytes * i <= MaxBytes * uploadCount
      BY <2>1 DEF QuotaTypes, StoredCounted
    <3>2. uploadCount \in Nat /\ uploadCount <= MaxUploads /\ MaxUploads \in Nat /\ MaxBytes \in Nat
      BY <2>1, QuotaAssumption DEF QuotaTypes
    <3>3. i \in Nat
      BY <2>2
    <3> HIDE DEF i
    <3>4. MaxBytes * i \in Nat /\ MaxBytes * uploadCount \in Nat /\ MaxUploads * MaxBytes \in Nat
      BY <3>2, <3>3
    <3>5. MaxBytes * uploadCount <= MaxUploads * MaxBytes
      BY <3>2
    <3> QED BY <3>1, <3>4, <3>5
  <2>4. stored \in [Holder -> 0..MaxUploads * MaxBytes]
    BY <2>1, <2>3 DEF QuotaTypes
  <2> QED BY <2>1, <2>2, <2>4 DEF QuotaTypeOK, QuotaTypes, Remembered
<1> QED BY <1>1, QuotaInvHolds, PTL

\* Nobody gets further beyond the quota than the bound, with what is charged to him: however the
\* uploads of any number of servers interleave with the reads of estimateRemainingStorageSize,
\* whatever plans come and go, and whichever servers restart.
THEOREM QuotaOvershootBounded == QuotaSpec => []OvershootBounded
<1>1. QuotaInv => OvershootBounded
  <2> SUFFICES ASSUME QuotaInv, NEW n \in Holder
               PROVE  UsedBy(n) <= highest[n] + unasked[n] + Overshoot
    BY DEF OvershootBounded
  <2>1. QuotaTypes /\ FewToCome
    BY DEF QuotaInv
  <2> DEFINE used == UsedBy(n)
             more == ToCome(uploads, lastKnown, unchecked, n, highest[n])
  <2>2. highest[n] \in Nat /\ unasked[n] \in Nat /\ used \in Nat /\ more \in Nat /\ Overshoot \in Nat
    BY <2>1, UsedIs, ToComeNat, OvershootType DEF QuotaTypes
  <2>3. used - unasked[n] + more <= highest[n] + Overshoot
    <3>1. highest[n] <= highest[n]
      BY <2>2
    <3> QED BY <2>1, <2>2, <3>1 DEF FewToCome
  <2> HIDE DEF used, more
  <2>4. used <= highest[n] + unasked[n] + Overshoot
    BY <2>2, <2>3
  <2> QED BY <2>4 DEF used
<1> QED BY <1>1, QuotaInvHolds, PTL

=============================================================================
