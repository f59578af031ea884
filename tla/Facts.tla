-------------------------------- MODULE Facts --------------------------------
(***************************************************************************)
(* Saving and deleting facts: who may, and what happens on the way.        *)
(*                                                                         *)
(* Requests check first and write later, in statements of their own and    *)
(* outside of any transaction: a transfer of accountability selects the    *)
(* old fact, deletes it and inserts the new one, while other requests are  *)
(* served.                                                                 *)
(*                                                                         *)
(* Every query looks at all facts here; FactBoxes, which implements this   *)
(* specification, narrows them. Terms and caches are left out, and so is   *)
(* what a fact's creation notifies.                                        *)
(***************************************************************************)
EXTENDS Authorization, Integers, FiniteSets

CONSTANTS
  Record,       \* the records that may be created; a group is a record, too
  Predicate,    \* the predicates in use
  MaxRequests,  \* bound on the requests to create, save and delete
  MaxAtOnce     \* bound on the requests served at the same time

ASSUME FactsAssumption ==
  /\ User \cap Record = {}
  /\ Accountable \in Predicate /\ Predicate \subseteq Role \cup {UserDefined}
  /\ MaxRequests \in Nat
  /\ MaxAtOnce \in Nat \ {0}

VARIABLES
  facts,     \* the rows of the facts table
  records,   \* the records that were created, with their creators
  requests,  \* the requests being served
  count      \* the requests made so far

vars == << facts, records, requests, count >>

Node == User \cup Record
Created == {r.record : r \in records}
Fact == [s : Node, p : Predicate, o : Node]
AccountabilityOf(node) == AccountabilityIn(facts, node)

-----------------------------------------------------------------------------
Init ==
  /\ facts = {}
  /\ records = {}
  /\ requests = {}
  /\ count = 0

\* A new request gets a number of its own.
Arrives(u, kind, f) ==
  /\ count < MaxRequests
  /\ count' = count + 1
  /\ Cardinality(requests) < MaxAtOnce
  /\ requests' = requests \cup
       {[nr |-> count + 1, user |-> u, kind |-> kind, fact |-> f, at |-> "checked", old |-> {}]}

\* The request goes on, or ends.
Moves(r, at, old) == requests' = (requests \ {r}) \cup {[r EXCEPT !.at = at, !.old = old]}
Ends(r) == requests' = requests \ {r}

\* Creating a record starts with the fact that its creator is accountable for it.
CreateRecord(u, record) ==
  /\ record \notin Created
  /\ count < MaxRequests /\ count' = count + 1
  /\ records' = records \cup {[record |-> record, creator |-> u]}
  /\ facts' = facts \cup {[s |-> u, p |-> Accountable, o |-> record]}
  /\ UNCHANGED requests

\* POST /facts: the facts are checked before any of them is saved.
RequestSave(u, f) ==
  /\ Arrives(u, "save", f)
  /\ MaySave(facts, facts, u, f)
  /\ UNCHANGED << facts, records >>

\* DELETE /facts: the same check
RequestDelete(u, f) ==
  /\ Arrives(u, "delete", f)
  /\ MaySave(facts, facts, u, f)
  /\ UNCHANGED << facts, records >>

\* Mutant: what was checked when the request came is not checked again.
CheckAgain_Trusts(r) ==
  /\ r.kind = "save" /\ r.fact.p = Accountable /\ r.at = "checked"
  /\ Moves(r, "authorized", {})
  /\ UNCHANGED << facts, records, count >>

\* Fact.save of an accountability checks again; AuthorizationError ends the request.
CheckAgain(r) ==
  /\ r.kind = "save" /\ r.fact.p = Accountable /\ r.at = "checked"
  /\ IF MaySave(facts, facts, r.user, r.fact) THEN Moves(r, "authorized", {}) ELSE Ends(r)
  /\ UNCHANGED << facts, records, count >>

\* Mutant: the lookup forgets the predicate.
SelectOld_AnyPredicate(r) ==
  /\ r.kind = "save" /\ r.at = "authorized"
  /\ Moves(r, "replacing", {f \in facts : f.o = r.fact.o})
  /\ UNCHANGED << facts, records, count >>

\* ... looks up who is accountable now,
SelectOld(r) ==
  /\ r.kind = "save" /\ r.at = "authorized"
  /\ Moves(r, "replacing", AccountabilityOf(r.fact.o))
  /\ UNCHANGED << facts, records, count >>

\* Mutant: the old facts are passed over.
DeleteOld_Skipped(r, f) ==
  /\ r.kind = "save" /\ r.at = "replacing" /\ f \in r.old
  /\ Moves(r, "replacing", r.old \ {f})
  /\ UNCHANGED << facts, records, count >>

\* ... deletes what it found, one fact after the other,
DeleteOld(r, f) ==
  /\ r.kind = "save" /\ r.at = "replacing" /\ f \in r.old
  /\ facts' = facts \ {f}
  /\ Moves(r, "replacing", r.old \ {f})
  /\ UNCHANGED << records, count >>

\* ... and inserts the new fact.
InsertNew(r) ==
  /\ r.kind = "save" /\ r.at = "replacing" /\ r.old = {}
  /\ facts' = facts \cup {r.fact}
  /\ Ends(r)
  /\ UNCHANGED << records, count >>

\* Any other fact is inserted without looking again.
InsertFact(r) ==
  /\ r.kind = "save" /\ r.fact.p # Accountable /\ r.at = "checked"
  /\ facts' = facts \cup {r.fact}
  /\ Ends(r)
  /\ UNCHANGED << records, count >>

\* Mutant: what was checked when the request came is not checked again.
CheckDelete_Trusts(r) ==
  /\ r.kind = "delete" /\ r.at = "checked"
  /\ IF r.fact.p = Accountable /\ r.fact.s = r.user THEN Ends(r) ELSE Moves(r, "authorized", {})
  /\ UNCHANGED << facts, records, count >>

\* Fact.delete checks once more
CheckDelete(r) ==
  /\ r.kind = "delete" /\ r.at = "checked"
  /\ IF MayDelete(facts, facts, r.user, r.fact) THEN Moves(r, "authorized", {}) ELSE Ends(r)
  /\ UNCHANGED << facts, records, count >>

\* ... and moves the fact to deleted_facts, if it is there.
DeleteFact(r) ==
  /\ r.kind = "delete" /\ r.at = "authorized"
  /\ facts' = facts \ {r.fact}
  /\ Ends(r)
  /\ UNCHANGED << records, count >>

-----------------------------------------------------------------------------
\* What users write facts about: themselves, each other and the records there are
FactNow == [s : User \cup Created, p : Predicate, o : User \cup Created]

UserStep(u) ==
  \/ \E record \in Record : CreateRecord(u, record)
  \/ \E f \in FactNow : RequestSave(u, f)
  \/ \E f \in FactNow : RequestDelete(u, f)

Serve(r) ==
  \/ CheckAgain(r)
  \/ SelectOld(r)
  \/ \E f \in r.old : DeleteOld(r, f)
  \/ InsertNew(r)
  \/ InsertFact(r)
  \/ CheckDelete(r)
  \/ DeleteFact(r)

Next == (\E u \in User : UserStep(u)) \/ \E r \in requests : Serve(r)

Spec == Init /\ [][Next]_vars

\* A request that has changed nothing yet may be turned away for other reasons, too.
TurnAway(r) ==
  /\ r.at = "checked" \/ (r.at = "authorized" /\ r.kind = "save")
  /\ Ends(r)
  /\ UNCHANGED << facts, records, count >>

LenientSpec == Init /\ [][Next \/ \E r \in requests : TurnAway(r)]_vars

-----------------------------------------------------------------------------
(* Properties *)

Request == [nr : Nat, user : User, kind : {"save", "delete"}, fact : Fact,
            at : {"checked", "authorized", "replacing"}, old : SUBSET Fact]

\* Every variable has its type, a record is created once, and what a transfer is going
\* to delete says who is accountable for the record it is about, and nothing else.
TypeOK ==
  /\ facts \subseteq Fact
  /\ records \subseteq [record : Record, creator : User]
  /\ \A r, s \in records : r.record = s.record => r = s
  /\ requests \subseteq Request
  /\ \A r \in requests :
       /\ r.at = "replacing" => r.kind = "save"
       /\ r.kind = "save" /\ r.at # "checked" => r.fact.p = Accountable
       /\ \A f \in r.old : r.at = "replacing" /\ f.p = Accountable /\ f.o = r.fact.o
  /\ count \in 0 .. MaxRequests

\* Nobody is changing who is accountable for the record.
AtRest(record) == \A r \in requests : ~(r.fact.p = Accountable /\ r.fact.o = record)

\* "Exactly one entity can be accountable for a resource at any time", whatever was saved,
\* transferred and deleted: here of a record that no request is transferring. FactsHistory
\* says what remains of it with several requests at once.
OneAccountable ==
  \A record \in Created : AtRest(record) => Cardinality(AccountabilityOf(record)) = 1

\* "You cannot transfer accountability to individual users": the only user that is ever
\* accountable for a record is the one that created it.
OnlyCreatorsOrGroups ==
  \A f \in facts : f.p = Accountable /\ f.s \in User /\ f.o \in Record =>
    [record |-> f.o, creator |-> f.s] \in records

=============================================================================
