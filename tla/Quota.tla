-------------------------------- MODULE Quota --------------------------------
(***************************************************************************)
(* The storage quota: who is charged for what is uploaded, and how much is *)
(* let through.                                                            *)
(*                                                                         *)
(* A server does not read what an accountee uses for every upload. It      *)
(* keeps what it last knew to be available, and reads again when more than *)
(* a slack was asked for since, or when nothing was left. Reading takes    *)
(* two queries; other uploads, of this server and of others, are checked   *)
(* and saved in the meantime.                                              *)
(*                                                                         *)
(* An organization is a group; somebody is accountable for it, a user or   *)
(* another organization, and so on up. What a record takes is counted for  *)
(* everybody above it. Bytes come in small units.                          *)
(***************************************************************************)
EXTENDS Integers, FiniteSets, FiniteSetsExt, Functions

CONSTANTS
  Payer,         \* the users
  Org,           \* the organizations
  Server,        \* the server processes
  DefaultTotal,  \* getDefaultStorageSizeQuota
  Plan,          \* the totals that may be assigned
  Slack,         \* 5 % of a megabyte
  MaxBytes,      \* bound on the bytes of an upload
  MaxUploads,    \* bound on the uploads
  MaxParallel,   \* bound on the uploads served at the same time
  MaxEvents      \* bound on the quota events

ASSUME QuotaAssumption ==
  /\ Payer \cap Org = {} /\ IsFiniteSet(Payer) /\ IsFiniteSet(Org) /\ IsFiniteSet(Server)
  /\ Plan \subseteq Nat \ {0} /\ DefaultTotal \in Nat \ {0} /\ Slack \in Nat
  /\ MaxBytes \in Nat \ {0} /\ MaxUploads \in Nat /\ MaxParallel \in Nat \ {0}
  /\ MaxEvents \in Nat

VARIABLES
  accountee,   \* who is accountable for each organization
  assigned,    \* the total of the latest quota event of a node: NoEvent, 0, or a plan
  eventCount,  \* the quota events so far
  stored,      \* the bytes of the records a node is directly accountable for
  unchecked,   \* what was asked for since the last read, per server
  lastKnown,   \* what the last read found available, per server
  uploads,     \* the uploads being served
  uploadCount, \* the uploads so far
  highest,     \* history: the highest total a node ever had
  unasked      \* history: bytes counted for a node that another one was charged with

quotaVars == << accountee, assigned, eventCount, stored, unchecked, lastKnown, uploads, uploadCount,
                highest, unasked >>
events == << assigned, eventCount >>
memory == << unchecked, lastKnown >>
bookkept == << highest, unasked >>

Holder == Payer \cup Org
NoEvent == -1

-----------------------------------------------------------------------------
\* The nodes above a node: the recursive query ends at a user, or where it meets a node again.
Up(n, k) ==
  LET up[i \in Nat] == IF i = 0 THEN n
                       ELSE IF up[i - 1] \in Org THEN accountee[up[i - 1]] ELSE up[i - 1]
  IN  up[k]
Above(n) == {Up(n, k) : k \in 0..Cardinality(Org)}

\* getAccounteeIdForNode: a node with a quota event of its own, else the last one of the query
AccounteeOf(n) ==
  IF n \in Payer \/ assigned[n] # NoEvent THEN n
  ELSE LET last == Max({k \in 1..Cardinality(Org) :
                         \A i, j \in 0..k - 1 : Up(n, i) = Up(n, j) => i = j})
       IN  Up(n, last)

TotalOf(n) ==
  IF assigned[n] > 0 THEN assigned[n] ELSE IF n \in Payer THEN DefaultTotal ELSE 0

\* getUsedStorageSize: the records of all the nodes this one is accountable for, itself and below
UsedBy(n) == SumFunctionOnSet(stored, {m \in Holder : n \in Above(m)})

-----------------------------------------------------------------------------
QuotaInit ==
  /\ accountee \in [Org -> Holder]
  /\ assigned = [n \in Holder |-> NoEvent]
  /\ eventCount = 0
  /\ stored = [n \in Holder |-> 0]
  /\ unchecked = [s \in Server |-> [n \in Holder |-> 0]]
  /\ lastKnown = [s \in Server |-> [n \in Holder |-> 0]]
  /\ uploads = {}
  /\ uploadCount = 0
  /\ highest = [n \in Holder |-> TotalOf(n)]
  /\ unasked = [n \in Holder |-> 0]

Becomes(r, new) == uploads' = (uploads \ {r}) \cup {new}

\* Refused when what is available is not enough, whatever was let through in the meantime.
Decide(r, available) ==
  IF available < r.bytes THEN uploads' = uploads \ {r}
  ELSE Becomes(r, [r EXCEPT !.at = "granted"])

\* Mutant: what was let through is never added up.
EstimateRemaining_ForgetsUnchecked(r) ==
  /\ IF r.bytes > Slack \/ lastKnown[r.server][r.charged] <= 0
     THEN Becomes(r, [r EXCEPT !.at = "reading"])
     ELSE Decide(r, lastKnown[r.server][r.charged])
  /\ UNCHANGED unchecked

\* Mutant: the counter is not reset.
EstimateRemaining_NoReset(r) ==
  LET asked == unchecked[r.server][r.charged] + r.bytes
      known == lastKnown[r.server][r.charged]
  IN  /\ unchecked' = [unchecked EXCEPT ![r.server][r.charged] = asked]
      /\ IF asked > Slack \/ known <= 0
         THEN Becomes(r, [r EXCEPT !.at = "reading"])
         ELSE Decide(r, known)

\* estimateRemainingStorageSize until its await: the counter is reset before the read.
EstimateRemaining(r) ==
  LET asked == unchecked[r.server][r.charged] + r.bytes
      known == lastKnown[r.server][r.charged]
  IN  IF asked > Slack \/ known <= 0
      THEN /\ unchecked' = [unchecked EXCEPT ![r.server][r.charged] = 0]
           /\ Becomes(r, [r EXCEPT !.at = "reading"])
      ELSE /\ unchecked' = [unchecked EXCEPT ![r.server][r.charged] = asked]
           /\ Decide(r, known)

\* Who is charged for an upload: for a new record, whose accountability fact may name another
\* holder, its accountee; for a change, the one who makes it.
ChargedWith(user, n, kind) == IF kind = "create" THEN AccounteeOf(n) ELSE user

\* Uploads served at the same time are told apart by a number.
FreeNumbers == (1..MaxParallel) \ {r.nr : r \in uploads}

\* An upload arrives. Who is charged is looked up together with the first look at what is
\* available.
Upload(s, user, n, kind, bytes) ==
  /\ uploadCount < MaxUploads /\ FreeNumbers # {}
  /\ uploadCount' = uploadCount + 1
  /\ EstimateRemaining(
       [nr |-> CHOOSE i \in FreeNumbers : TRUE, server |-> s, holder |-> n, bytes |-> bytes,
        at |-> "arrived", charged |-> ChargedWith(user, n, kind), total |-> -1, used |-> -1])
  /\ UNCHANGED << accountee, events, stored, lastKnown, highest, unasked >>

\* The two queries of getRemainingStorageSize, in either order
ReadTotal(r) ==
  /\ r.at = "reading" /\ r.total = -1
  /\ Becomes(r, [r EXCEPT !.total = TotalOf(r.charged)])
  /\ UNCHANGED << accountee, events, stored, memory, uploadCount, bookkept >>
ReadUsed(r) ==
  /\ r.at = "reading" /\ r.used = -1
  /\ Becomes(r, [r EXCEPT !.used = UsedBy(r.charged)])
  /\ UNCHANGED << accountee, events, stored, memory, uploadCount, bookkept >>

\* ... and what it does when both have answered
EndRead(r) ==
  /\ r.at = "reading" /\ r.total # -1 /\ r.used # -1
  /\ lastKnown' = [lastKnown EXCEPT ![r.server][r.charged] = r.total - r.used]
  /\ Decide(r, r.total - r.used)
  /\ UNCHANGED << accountee, events, stored, unchecked, uploadCount, highest, unasked >>

\* What was granted is saved.
SaveUpload(r) ==
  /\ r.at = "granted"
  /\ stored' = [stored EXCEPT ![r.holder] = @ + r.bytes]
  /\ unasked' = [n \in Holder |-> IF n \in Above(r.holder) \ {r.charged}
                                  THEN unasked[n] + r.bytes ELSE unasked[n]]
  /\ uploads' = uploads \ {r}
  /\ UNCHANGED << accountee, events, memory, uploadCount, highest >>

\* A quota event becomes the latest one: a plan, or the end of one.
Assign(n, total) ==
  /\ eventCount < MaxEvents /\ eventCount' = eventCount + 1
  /\ assigned[n] # total
  /\ assigned' = [assigned EXCEPT ![n] = total]
  /\ UNCHANGED << accountee, stored, memory, uploads, uploadCount, unasked >>
  /\ highest' = [highest EXCEPT ![n] = IF TotalOf(n)' > @ THEN TotalOf(n)' ELSE @]

\* A server dies with what it knew and with the uploads it served.
Restart(s) ==
  /\ unchecked' = [unchecked EXCEPT ![s] = [n \in Holder |-> 0]]
  /\ lastKnown' = [lastKnown EXCEPT ![s] = [n \in Holder |-> 0]]
  /\ uploads' = {r \in uploads : r.server # s}
  /\ UNCHANGED << accountee, events, stored, uploadCount, highest, unasked >>

QuotaNext ==
  \/ \E s \in Server, user \in Payer, n \in Holder, kind \in {"create", "change"},
        bytes \in 1..MaxBytes : Upload(s, user, n, kind, bytes)
  \/ \E r \in uploads : ReadTotal(r) \/ ReadUsed(r) \/ EndRead(r) \/ SaveUpload(r)
  \/ \E n \in Holder, total \in Plan \cup {0} : Assign(n, total)
  \/ \E s \in Server : Restart(s)

QuotaSpec == QuotaInit /\ [][QuotaNext]_quotaVars

-----------------------------------------------------------------------------
QuotaTypeOK ==
  /\ accountee \in [Org -> Holder]
  /\ assigned \in [Holder -> Plan \cup {NoEvent, 0}]
  /\ stored \in [Holder -> 0..MaxUploads * MaxBytes]
  /\ unchecked \in [Server -> [Holder -> 0..Slack]]
  /\ lastKnown \in [Server -> [Holder -> Int]]
  /\ Cardinality(uploads) <= MaxParallel

\* Nobody gets far beyond the quota with what is charged to him, however the uploads of the
\* servers interleave with the reads. A server that knows of something available lets the slack
\* through once, and once more for each upload that waits for a read meanwhile: each sets the
\* counter back. A read that ends late grants its own upload and tells its server of something
\* available again, so that all this may happen once per upload served at the same time. Bytes
\* another one was charged with come on top.
Overshoot ==
  MaxParallel * (MaxBytes + Slack * (MaxParallel + Cardinality(Server) - 1)) - 1
OvershootBounded ==
  \A n \in Holder : UsedBy(n) <= highest[n] + unasked[n] + Overshoot

=============================================================================
