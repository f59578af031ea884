----------------------------- MODULE Facts_proofs -----------------------------
(***************************************************************************)
(* Theorems about Facts, for any number of users, records and requests at  *)
(* the same time: types; that a record has exactly one accountable user or *)
(* group, and that a group that is accountable stays so, unless two        *)
(* requests about the accountability of that record run into each other.   *)
(*                                                                         *)
(* Run facts_transfer shows what happens then.                             *)
(*                                                                         *)
(* And theorems about Compositions, for any records and facts of the       *)
(* request, wherever it fails: CompInv follows a record's accountability   *)
(* from the fact that is saved before the record through the transfers.    *)
(*                                                                         *)
(* And theorems about Queries, for any nodes, predicates, terms and        *)
(* writes: in whatever order writes, refreshes and crashes come, the       *)
(* latest fact is the one inserted last; and a settled query finds what    *)
(* its clauses mean, through chains of facts of any length.                *)
(***************************************************************************)
EXTENDS FactsHistory, Compositions, Queries, FiniteSetTheorems, TLAPS, Induction

\* What TypeOK says of one request
RequestOK(r) ==
  /\ r \in Request
  /\ r.at = "replacing" => r.kind = "save"
  /\ r.kind = "save" /\ r.at # "checked" => r.fact.p = Accountable
  /\ \A f \in r.old : r.at = "replacing" /\ f.p = Accountable /\ f.o = r.fact.o

\* Every step of the specification keeps the types.
LEMMA TypeStep == TypeOK /\ [Next]_vars => TypeOK'
<1> SUFFICES ASSUME TypeOK, [Next]_vars PROVE TypeOK'
  OBVIOUS
<1> USE FactsAssumption
<1>0. /\ \A r \in requests : RequestOK(r)
      /\ FactNow \subseteq Fact
      /\ facts \subseteq Fact
      /\ count \in 0 .. MaxRequests
  BY DEF TypeOK, RequestOK, FactNow, Fact, Node, Created
<1>1. ASSUME \A r \in requests' : RequestOK(r), facts' \subseteq Fact, UNCHANGED records,
             count' \in 0 .. MaxRequests
      PROVE  TypeOK'
  BY <1>1 DEF TypeOK, RequestOK
<1>2. ASSUME NEW u \in User, NEW record \in Record, CreateRecord(u, record) PROVE TypeOK'
  <2>1. [s |-> u, p |-> Accountable, o |-> record] \in Fact
    BY DEF Fact, Node
  <2>2. facts' \subseteq Fact /\ count' \in 0 .. MaxRequests
    BY <1>0, <1>2, <2>1 DEF CreateRecord
  <2>3. /\ records' \subseteq [record : Record, creator : User]
        /\ \A r, s \in records' : r.record = s.record => r = s
    BY <1>2 DEF TypeOK, CreateRecord, Created
  <2> QED BY <1>2, <2>2, <2>3 DEF TypeOK, CreateRecord
<1>3. ASSUME NEW u \in User, NEW f \in FactNow, NEW kind \in {"save", "delete"},
             Arrives(u, kind, f), UNCHANGED << facts, records >>
      PROVE  TypeOK'
  <2> DEFINE new == [nr |-> count + 1, user |-> u, kind |-> kind, fact |-> f,
                     at |-> "checked", old |-> {}]
  <2>1. new \in Request
    BY <1>0 DEF Request
  <2>2. RequestOK(new)
    BY <2>1 DEF RequestOK
  <2>3. \A r \in requests' : RequestOK(r)
    BY <1>0, <1>3, <2>2 DEF Arrives
  <2>4. count' \in 0 .. MaxRequests
    BY <1>0, <1>3 DEF Arrives
  <2> QED BY <1>0, <1>1, <1>3, <2>3, <2>4
<1>4. ASSUME NEW r \in requests, Serve(r) PROVE TypeOK'
  <2>1. RequestOK(r) /\ r \in Request /\ r.fact \in Fact
    BY <1>0 DEF RequestOK, Request
  <2>2. ASSUME NEW at \in {"checked", "authorized", "replacing"}, NEW old \in SUBSET Fact,
               Moves(r, at, old), facts' \subseteq Fact, UNCHANGED << records, count >>,
               at = "replacing" => r.kind = "save",
               r.kind = "save" /\ at # "checked" => r.fact.p = Accountable,
               \A f \in old : at = "replacing" /\ f.p = Accountable /\ f.o = r.fact.o
        PROVE  TypeOK'
    <3> DEFINE new == [r EXCEPT !.at = at, !.old = old]
    <3>0. new \in Request /\ new.at = at /\ new.old = old /\ new.kind = r.kind /\ new.fact = r.fact
      BY <2>1 DEF Request
    <3> HIDE DEF new
    <3>1. RequestOK(new)
      BY <2>2, <3>0 DEF RequestOK
    <3>2. \A q \in requests' : RequestOK(q)
      BY <1>0, <2>2, <3>1 DEF Moves, new
    <3> QED BY <1>0, <1>1, <2>2, <3>2
  <2>3. ASSUME Ends(r), facts' \subseteq Fact, UNCHANGED << records, count >> PROVE TypeOK'
    BY <1>0, <1>1, <2>3 DEF Ends
  <2>4. CASE CheckAgain(r)
    BY <1>0, <2>2, <2>3, <2>4 DEF CheckAgain
  <2>5. CASE SelectOld(r)
    <3>1. r.kind = "save" /\ r.fact.p = Accountable
      BY <2>1, <2>5 DEF SelectOld, RequestOK
    <3> QED BY <1>0, <2>2, <2>5, <3>1 DEF SelectOld, AccountabilityOf, AccountabilityIn
  <2>6. ASSUME NEW f \in r.old, DeleteOld(r, f) PROVE TypeOK'
    <3>1. r.old \in SUBSET Fact
      BY <2>1 DEF Request
    <3> QED BY <1>0, <2>1, <2>2, <2>6, <3>1 DEF DeleteOld, RequestOK
  <2>7. CASE InsertNew(r)
    BY <1>0, <2>1, <2>3, <2>7 DEF InsertNew
  <2>8. CASE InsertFact(r)
    BY <1>0, <2>1, <2>3, <2>8 DEF InsertFact
  <2>9. CASE CheckDelete(r)
    BY <1>0, <2>2, <2>3, <2>9 DEF CheckDelete
  <2>10. CASE DeleteFact(r)
    BY <1>0, <2>3, <2>10 DEF DeleteFact
  <2> QED BY <1>4, <2>4, <2>5, <2>6, <2>7, <2>8, <2>9, <2>10 DEF Serve
<1>5. CASE UNCHANGED vars
  BY <1>5 DEF TypeOK, vars
<1>6. ASSUME NEW u \in User, NEW f \in FactNow, RequestSave(u, f) \/ RequestDelete(u, f)
      PROVE  TypeOK'
  BY <1>3, <1>6 DEF RequestSave, RequestDelete
<1> QED BY <1>2, <1>4, <1>5, <1>6 DEF Next, UserStep

\* Every variable keeps its type and a transfer only ever deletes accountability of its
\* own record, however many requests are served at the same time.
THEOREM TypeCorrect == Spec => []TypeOK
<1>1. Init => TypeOK
  BY FactsAssumption DEF Init, TypeOK
<1> QED BY <1>1, TypeStep, PTL DEF Spec

-----------------------------------------------------------------------------
(* Several requests at a time *)

\* What the facts say about record o while request r is past its last check
Midway(r, o) ==
  LET own == [s |-> r.user, p |-> Accountable, o |-> o]
  IN /\ r.kind = "save" /\ r.at = "authorized" => AccountabilityOf(o) = {own}
     /\ r.at = "replacing" => r.old \subseteq {own} /\ AccountabilityOf(o) = r.old
     /\ r.kind = "delete" => r.fact \notin facts

\* At most one request is about to change who is accountable for the record, and what it
\* found is still so. The record has exactly one accountable node, except between the
\* deletion of the old fact and the insertion of the new one.
Clear(o) ==
  /\ \A r, q \in requests : Underway(r, o) /\ Underway(q, o) => r = q
  /\ \A r \in requests : Underway(r, o) => Midway(r, o)
  /\ ~Replacing(o) => \E f : AccountabilityOf(o) = {f}

\* Facts are about what there is, and records that no two requests ran into are clear.
InOrder ==
  /\ \A f \in facts : f.o \in User \cup Created
  /\ \A r \in requests : r.fact.o \in User \cup Created
  /\ \A o \in Created \ contested : Clear(o)

\* A request that may save an accountability of a record finds its user accountable,
\* alone; nobody else's accountability may be deleted, for there is none.
LEMMA SavedByOwner ==
  ASSUME NEW r \in requests, MaySave(facts, facts, r.user, r.fact), r.fact.p = Accountable,
         NEW g, AccountabilityOf(r.fact.o) = {g}
  PROVE  g = [s |-> r.user, p |-> Accountable, o |-> r.fact.o]
<1>1. ~FirstAccountability(facts, r.user, r.fact)
  BY DEF FirstAccountability, AccountabilityOf, AccountabilityIn
<1>2. [s |-> r.user, p |-> Accountable, o |-> r.fact.o] \in facts
  BY <1>1 DEF MaySave, ValidTransfer
<1> QED BY <1>2 DEF AccountabilityOf, AccountabilityIn

\* A step of a request that is not about the accountability of a clear record leaves it.
LEMMA ClearByOthers ==
  ASSUME TypeOK, NEW r \in requests, Serve(r), NEW o, Clear(o),
         ~(r.fact.p = Accountable /\ r.fact.o = o)
  PROVE  Clear(o)'
<1>1. /\ r \in Request
      /\ r.kind = "save" /\ r.at # "checked" => r.fact.p = Accountable
      /\ r.at = "replacing" => r.kind = "save"
      /\ \A f \in r.old : f.p = Accountable /\ f.o = r.fact.o
  BY DEF TypeOK
<1>2. \A f : (f \in facts' /\ f \notin facts) \/ (f \in facts /\ f \notin facts') =>
               ~(f.p = Accountable /\ f.o = o)
  BY <1>1 DEF Serve, CheckAgain, SelectOld, DeleteOld, InsertNew, InsertFact, CheckDelete, DeleteFact
<1>3. AccountabilityOf(o)' = AccountabilityOf(o)
  BY <1>2 DEF AccountabilityOf, AccountabilityIn
<1>4. ASSUME NEW q \in requests', Underway(q, o) PROVE q \in requests /\ q # r
  <2>1. ASSUME NEW at, NEW old, q = [r EXCEPT !.at = at, !.old = old] PROVE FALSE
    <3>1. q.fact = r.fact
      BY <1>1, <2>1 DEF Request
    <3> QED BY <1>4, <3>1 DEF Underway
  <2>2. q \in requests \/ \E at, old : q = [r EXCEPT !.at = at, !.old = old]
    BY DEF Serve, CheckAgain, SelectOld, DeleteOld, InsertNew, InsertFact, CheckDelete, DeleteFact,
           Moves, Ends
  <2> QED BY <1>4, <2>1, <2>2 DEF Underway
<1>5. ASSUME NEW q \in requests, Underway(q, o) PROVE q \in requests'
  <2>1. q # r
    BY <1>5 DEF Underway
  <2> QED BY <2>1 DEF Serve, CheckAgain, SelectOld, DeleteOld, InsertNew, InsertFact, CheckDelete,
                      DeleteFact, Moves, Ends
<1>6. ASSUME NEW q \in requests', Underway(q, o) PROVE Midway(q, o)'
  <2>1. q \in requests /\ Midway(q, o)
    BY <1>4, <1>6 DEF Clear
  <2>2. q.fact \notin facts => q.fact \notin facts'
    BY <1>2, <1>6 DEF Underway
  <2> QED BY <1>3, <2>1, <2>2 DEF Midway
<1>7. Replacing(o)' = Replacing(o)
  BY <1>4, <1>5 DEF Replacing
<1> QED BY <1>3, <1>4, <1>6, <1>7 DEF Clear

\* A step of a request about the accountability of a clear record leaves it clear, if
\* it does not run into another one.
LEMMA ClearByItsOwn ==
  ASSUME TypeOK, NEW r \in requests, Serve(r), Clear(r.fact.o), r.fact.p = Accountable,
         \A p, q \in requests' : Underway(p, r.fact.o) /\ Underway(q, r.fact.o) => p = q
  PROVE  Clear(r.fact.o)'
<1> DEFINE o == r.fact.o
           own == [s |-> r.user, p |-> Accountable, o |-> o]
<1>1. /\ r \in Request
      /\ r.at = "replacing" => r.kind = "save"
      /\ r.at \in {"checked", "authorized", "replacing"}
      /\ \A f \in r.old : f.p = Accountable /\ f.o = o
  BY DEF TypeOK, Request
<1>2. /\ Underway(r, o) <=> r.at # "checked"
      /\ r.at # "checked" => Midway(r, o)
  BY DEF Underway, Clear
<1>3. ASSUME NEW at, NEW old, Moves(r, at, old), at = "authorized", r.at # "replacing"
      PROVE  ~Replacing(o)
  <2> DEFINE new == [r EXCEPT !.at = at, !.old = old]
  <2>1. new.at = at /\ new.fact = r.fact /\ new \in requests'
    BY <1>1, <1>3 DEF Request, Moves
  <2> HIDE DEF new
  <2> SUFFICES ASSUME NEW q \in requests, Underway(q, o), q.at = "replacing", q # r PROVE FALSE
    BY <1>3 DEF Replacing
  <2>2. Underway(new, o) /\ q \in requests'
    BY <1>3, <2>1 DEF Underway, Moves
  <2>3. q = new
    BY <2>1, <2>2
  <2> QED BY <1>3, <2>1, <2>3
<1>4. ASSUME NEW at, NEW old, Moves(r, at, old), at # "checked",
             at = "replacing" \/ \E f : AccountabilityOf(o)' = {f},
             r.kind = "save" /\ at = "authorized" => AccountabilityOf(o)' = {own},
             at = "replacing" => old \subseteq {own} /\ AccountabilityOf(o)' = old,
             r.kind = "delete" => r.fact \notin facts'
      PROVE  Clear(o)'
  <2> DEFINE new == [r EXCEPT !.at = at, !.old = old]
  <2>1. /\ new.at = at /\ new.old = old /\ new.kind = r.kind /\ new.fact = r.fact
        /\ new.user = r.user /\ new \in requests'
    BY <1>1, <1>4 DEF Request, Moves
  <2> HIDE DEF new
  <2>2. Underway(new, o)
    BY <1>4, <2>1 DEF Underway
  <2>3. \A q \in requests' : Underway(q, o) => q = new
    BY <2>1, <2>2
  <2>4. Midway(new, o)'
    BY <1>4, <2>1 DEF Midway
  <2>5. ~Replacing(o)' => \E f : AccountabilityOf(o)' = {f}
    BY <1>4, <2>1, <2>2 DEF Replacing
  <2> QED BY <2>3, <2>4, <2>5 DEF Clear
<1>5. ASSUME Ends(r), r.at = "checked", facts' = facts PROVE Clear(o)'
  <2>1. /\ requests' \subseteq requests /\ AccountabilityOf(o)' = AccountabilityOf(o)
        /\ \A q \in requests : Underway(q, o) => q \in requests'
    BY <1>2, <1>5 DEF Ends, AccountabilityOf, AccountabilityIn
  <2>2. Replacing(o)' = Replacing(o)
    BY <2>1 DEF Replacing
  <2> QED BY <1>5, <2>1, <2>2 DEF Clear, Midway
<1>6. ASSUME Ends(r), r.at # "checked", \E f : AccountabilityOf(o)' = {f} PROVE Clear(o)'
  <2>1. \A q \in requests' : ~Underway(q, o)
    BY <1>2, <1>6 DEF Clear, Ends
  <2> QED BY <1>6, <2>1 DEF Clear
<1>7. ASSUME MaySave(facts, facts, r.user, r.fact), ~Replacing(o)
      PROVE  AccountabilityOf(o) = {own}
  <2>1. PICK g : AccountabilityOf(o) = {g}
    BY <1>7 DEF Clear
  <2> QED BY <1>7, <2>1, SavedByOwner
<1>8. facts' = facts => AccountabilityOf(o)' = AccountabilityOf(o)
  BY DEF AccountabilityOf, AccountabilityIn
<1>9. CASE CheckAgain(r)
  <2>1. r.kind = "save" /\ r.at = "checked" /\ facts' = facts
    BY <1>9 DEF CheckAgain
  <2>2. CASE MaySave(facts, facts, r.user, r.fact) /\ Moves(r, "authorized", {})
    <3>1. AccountabilityOf(o) = {own}
      BY <1>3, <1>7, <2>1, <2>2
    <3> QED BY <1>4, <1>8, <2>1, <2>2, <3>1
  <2> QED BY <1>5, <1>9, <2>1, <2>2 DEF CheckAgain
<1>10. CASE SelectOld(r)
  <2>1. /\ r.kind = "save" /\ r.at = "authorized" /\ facts' = facts
        /\ Moves(r, "replacing", AccountabilityOf(o))
    BY <1>10 DEF SelectOld
  <2>2. AccountabilityOf(o) = {own}
    BY <1>2, <2>1 DEF Midway
  <2> QED BY <1>4, <1>8, <2>1, <2>2
<1>11. ASSUME NEW f \in r.old, DeleteOld(r, f) PROVE Clear(o)'
  <2>1. /\ r.kind = "save" /\ r.at = "replacing" /\ Moves(r, "replacing", r.old \ {f})
        /\ facts' = facts \ {f}
    BY <1>11 DEF DeleteOld
  <2>2. AccountabilityOf(o)' = AccountabilityOf(o) \ {f}
    BY <2>1 DEF AccountabilityOf, AccountabilityIn
  <2>3. r.old \ {f} \subseteq {own} /\ AccountabilityOf(o)' = r.old \ {f}
    BY <1>2, <2>1, <2>2 DEF Midway
  <2> QED BY <1>4, <2>1, <2>3
<1>12. CASE InsertNew(r)
  <2>1. /\ r.at = "replacing" /\ r.old = {} /\ Ends(r) /\ facts' = facts \cup {r.fact}
    BY <1>12 DEF InsertNew
  <2>2. AccountabilityOf(o) = {}
    BY <1>2, <2>1 DEF Midway
  <2>3. AccountabilityOf(o)' = {r.fact}
    BY <2>1, <2>2 DEF AccountabilityOf, AccountabilityIn
  <2> QED BY <1>6, <2>1, <2>3
<1>13. CASE CheckDelete(r)
  <2>1. r.kind = "delete" /\ r.at = "checked" /\ facts' = facts
    BY <1>13 DEF CheckDelete
  <2>2. CASE MayDelete(facts, facts, r.user, r.fact) /\ Moves(r, "authorized", {})
    <3>1. AccountabilityOf(o) = {own}
      BY <1>3, <1>7, <2>1, <2>2 DEF MayDelete
    <3>2. ASSUME r.fact \in facts PROVE FALSE
      <4>1. r.fact = own
        BY <3>1, <3>2 DEF AccountabilityOf, AccountabilityIn
      <4>2. r.fact.s = r.user
        BY <4>1
      <4> QED BY <2>2, <4>2 DEF MayDelete
    <3> QED BY <1>4, <1>8, <2>1, <2>2, <3>1, <3>2
  <2> QED BY <1>5, <1>13, <2>1, <2>2 DEF CheckDelete
<1>14. CASE DeleteFact(r)
  <2>1. r.kind = "delete" /\ r.at = "authorized" /\ Ends(r) /\ facts' = facts \ {r.fact}
    BY <1>14 DEF DeleteFact
  <2>2. facts' = facts
    BY <1>2, <2>1 DEF Midway
  <2>3. ~Replacing(o)
    BY <1>2, <2>1 DEF Replacing, Clear
  <2> QED BY <1>6, <1>8, <2>1, <2>2, <2>3 DEF Clear
<1>15. ~InsertFact(r)
  BY DEF InsertFact
<1> QED BY <1>9, <1>10, <1>11, <1>12, <1>13, <1>14, <1>15 DEF Serve

\* Every step leaves the records in order that no two requests run into each other about.
LEMMA InOrderStep == TypeOK /\ InOrder /\ [HistoryNext]_historyVars => InOrder'
<1> SUFFICES ASSUME TypeOK, InOrder, [HistoryNext]_historyVars PROVE InOrder'
  OBVIOUS
<1> USE FactsAssumption
<1>1. CASE UNCHANGED historyVars
  <2>1. /\ UNCHANGED << facts, requests, contested >> /\ Created' = Created
        /\ \A o : AccountabilityOf(o)' = AccountabilityOf(o)
    BY <1>1 DEF historyVars, Created, AccountabilityOf, AccountabilityIn
  <2>2. ASSUME NEW o, Clear(o) PROVE Clear(o)'
    BY <2>1, <2>2 DEF Clear, Midway, Replacing
  <2> QED BY <2>1, <2>2 DEF InOrder
<1>2. CASE HistoryNext
  <2>0. /\ Next /\ TypeOK'
        /\ \A o \in Created' \ contested' : o \notin contested /\ o \in Record
                /\ \A r, q \in requests' : Underway(r, o) /\ Underway(q, o) => r = q
    <3>1. Next /\ contested' = contested \cup Contested'
      BY <1>2 DEF HistoryNext
    <3>2. TypeOK'
      BY <3>1, TypeStep
    <3>3. Created' \subseteq Record
      BY <3>2 DEF TypeOK, Created
    <3> QED BY <3>1, <3>2, <3>3 DEF Contested
  <2>1. ASSUME NEW u \in User, NEW record \in Record, CreateRecord(u, record) PROVE InOrder'
    <3> DEFINE new == [s |-> u, p |-> Accountable, o |-> record]
    <3>1. /\ Created' = Created \cup {record} /\ record \notin Created /\ record \notin User
          /\ facts' = facts \cup {new} /\ requests' = requests
      <4>1. PICK x : x = [record |-> record, creator |-> u]
        OBVIOUS
      <4>2. x.record = record /\ records' = records \cup {x}
        BY <2>1, <4>1 DEF CreateRecord
      <4> QED BY <2>1, <4>2 DEF CreateRecord, Created
    <3>2. \A r \in requests : r.fact.o # record
      BY <3>1 DEF InOrder
    <3>3. AccountabilityOf(record)' = {new}
      BY <3>1 DEF InOrder, AccountabilityOf, AccountabilityIn
    <3>4. Clear(record)'
      BY <3>1, <3>2, <3>3 DEF Clear, Underway
    <3>5. ASSUME NEW o \in Created, Clear(o) PROVE Clear(o)'
      <4>1. AccountabilityOf(o)' = AccountabilityOf(o)
        BY <3>1 DEF AccountabilityOf, AccountabilityIn
      <4>2. \A r \in requests : r.fact \notin facts => r.fact \notin facts'
        BY <3>1, <3>2
      <4> QED BY <3>1, <3>5, <4>1, <4>2 DEF Clear, Midway, Replacing
    <3> QED BY <2>0, <3>1, <3>4, <3>5 DEF InOrder
  <2>2. ASSUME NEW u \in User, NEW f \in FactNow, NEW kind \in {"save", "delete"},
               Arrives(u, kind, f), UNCHANGED << facts, records >>
        PROVE  InOrder'
    <3> DEFINE new == [nr |-> count + 1, user |-> u, kind |-> kind, fact |-> f,
                       at |-> "checked", old |-> {}]
    <3>1. /\ requests' = requests \cup {new} /\ new.at = "checked" /\ new.fact = f
          /\ Created' = Created /\ facts' = facts
          /\ \A o : AccountabilityOf(o)' = AccountabilityOf(o)
      BY <2>2 DEF Arrives, Created, AccountabilityOf, AccountabilityIn
    <3> HIDE DEF new
    <3>2. ASSUME NEW o, Clear(o) PROVE Clear(o)'
      <4>1. \A r \in requests' : Underway(r, o) => r \in requests
        BY <3>1 DEF Underway
      <4>2. Replacing(o)' = Replacing(o)
        BY <3>1, <4>1 DEF Replacing
      <4> QED BY <3>1, <3>2, <4>1, <4>2 DEF Clear, Midway
    <3>3. f.o \in User \cup Created
      BY DEF FactNow
    <3> QED BY <2>0, <3>1, <3>2, <3>3 DEF InOrder
  <2>3. ASSUME NEW r \in requests, Serve(r) PROVE InOrder'
    <3>1. /\ r.fact.o \in User \cup Created /\ r \in Request
          /\ Created' = Created
      BY <2>3 DEF InOrder, TypeOK, Serve, CheckAgain, SelectOld, DeleteOld, InsertNew, InsertFact,
                  CheckDelete, DeleteFact, Created
    <3>2. \A f \in facts' : f.o \in User \cup Created
      <4>1. facts' \subseteq facts \cup {r.fact}
        BY <2>3 DEF Serve, CheckAgain, SelectOld, DeleteOld, InsertNew, InsertFact, CheckDelete,
                    DeleteFact
      <4> QED BY <3>1, <4>1 DEF InOrder
    <3>3. \A q \in requests' : q.fact.o \in User \cup Created
      <4>1. ASSUME NEW at, NEW old PROVE [r EXCEPT !.at = at, !.old = old].fact = r.fact
        BY <3>1 DEF Request
      <4>2. \A q \in requests' : q.fact = r.fact \/ q \in requests
        <5>1. \/ requests' = requests \ {r}
              \/ \E at, old : requests' = (requests \ {r}) \cup {[r EXCEPT !.at = at, !.old = old]}
          BY <2>3 DEF Serve, CheckAgain, SelectOld, DeleteOld, InsertNew, InsertFact, CheckDelete,
                      DeleteFact, Moves, Ends
        <5>2. CASE requests' = requests \ {r}
          BY <5>2
        <5>3. ASSUME NEW at, NEW old,
                     requests' = (requests \ {r}) \cup {[r EXCEPT !.at = at, !.old = old]}
              PROVE  \A q \in requests' : q.fact = r.fact \/ q \in requests
          BY <4>1, <5>3
        <5> QED BY <5>1, <5>2, <5>3
      <4> QED BY <3>1, <4>2 DEF InOrder
    <3>4. ASSUME NEW o \in Created \ contested' PROVE Clear(o)'
      <4>1. Clear(o) /\ \A p, q \in requests' : Underway(p, o) /\ Underway(q, o) => p = q
        BY <2>0, <3>1 DEF InOrder
      <4>2. CASE r.fact.p = Accountable /\ r.fact.o = o
        BY <2>3, <4>1, <4>2, ClearByItsOwn
      <4>3. CASE ~(r.fact.p = Accountable /\ r.fact.o = o)
        BY <2>3, <4>1, <4>3, ClearByOthers
      <4> QED BY <4>2, <4>3
    <3> QED BY <3>1, <3>2, <3>3, <3>4 DEF InOrder
  <2> QED BY <2>0, <2>1, <2>2, <2>3 DEF Next, UserStep, RequestSave, RequestDelete
<1> QED BY <1>1, <1>2

LEMMA InOrderHolds == HistorySpec => [](TypeOK /\ InOrder)
<1>1. HistoryInit => TypeOK /\ InOrder
  BY FactsAssumption DEF HistoryInit, Init, TypeOK, InOrder, Created
<1>2. [HistoryNext]_historyVars => [Next]_vars
  BY DEF HistoryNext, historyVars, vars
<1>3. TypeOK /\ InOrder /\ [HistoryNext]_historyVars => TypeOK' /\ InOrder'
  BY <1>2, TypeStep, InOrderStep
<1> QED BY <1>1, <1>3, PTL DEF HistorySpec

\* However many requests are served at once, a record has exactly one accountable user or
\* group, unless a transfer is between its statements or two requests about its own
\* accountability ran into each other.
THEOREM ExactlyOneAccountable == HistorySpec => []UncontestedHaveOne
<1>1. TypeOK /\ InOrder => UncontestedHaveOne
  <2> SUFFICES ASSUME InOrder, NEW record \in Created \ contested, ~Replacing(record)
               PROVE  Cardinality(AccountabilityOf(record)) = 1
    BY DEF UncontestedHaveOne
  <2>1. PICK f : AccountabilityOf(record) = {f}
    BY DEF InOrder, Clear
  <2> QED BY <2>1, FS_Singleton
<1> QED BY <1>1, InOrderHolds, PTL

\* However many requests are served at once, none takes a record from the group that is
\* accountable for it, unless two of them ran into each other about that record.
THEOREM NoWayBack == HistorySpec => UncontestedStayWithGroups
<1> DEFINE Kept(f) ==
      f.p = Accountable /\ f.s \in Record /\ f.o \in Record \ contested => f \in facts'
<1>1. TypeOK /\ InOrder /\ [HistoryNext]_historyVars => [\A f \in facts : Kept(f)]_historyVars
  <2> SUFFICES ASSUME TypeOK, InOrder, HistoryNext, NEW f \in facts, f.p = Accountable,
                      f.s \in Record, f.o \in Record \ contested, f \notin facts'
               PROVE  FALSE
    OBVIOUS
  <2>1. f \in Fact /\ f.o \in Created /\ f.s \notin User
    BY FactsAssumption DEF TypeOK, InOrder
  <2>2. PICK r \in requests : (\E g \in r.old : DeleteOld(r, g)) \/ DeleteFact(r)
    BY DEF HistoryNext, Next, UserStep, Serve, CreateRecord, RequestSave, RequestDelete, CheckAgain,
           SelectOld, InsertNew, InsertFact, CheckDelete
  <2>3. r.user \in User /\ Clear(f.o) /\ f \in AccountabilityOf(f.o)
    BY <2>1 DEF TypeOK, InOrder, Request, AccountabilityOf, AccountabilityIn
  <2>4. ASSUME NEW g \in r.old, DeleteOld(r, g) PROVE FALSE
    <3>1. g = f /\ r.fact.p = Accountable /\ r.fact.o = f.o /\ r.at = "replacing"
      BY <2>4 DEF DeleteOld, TypeOK
    <3>2. Midway(r, f.o)
      BY <2>3, <3>1 DEF Clear, Underway
    <3>3. f = [s |-> r.user, p |-> Accountable, o |-> f.o]
      BY <2>3, <3>1, <3>2 DEF Midway
    <3> QED BY <2>1, <2>3, <3>3
  <2>5. ASSUME DeleteFact(r) PROVE FALSE
    <3>1. r.fact = f /\ r.kind = "delete" /\ r.at = "authorized"
      BY <2>5 DEF DeleteFact
    <3>2. Midway(r, f.o)
      BY <2>3, <3>1 DEF Clear, Underway
    <3> QED BY <3>1, <3>2 DEF Midway
  <2> QED BY <2>2, <2>4, <2>5
<1> QED BY <1>1, InOrderHolds, PTL DEF UncontestedStayWithGroups, HistorySpec


-----------------------------------------------------------------------------
(* Compositions *)

Positions == DOMAIN asked

\* No fact the request came with is being saved yet.
NothingSaved == phase \notin {"saving", "done", "thrown"} /\ ~(phase = "failed" /\ creating \subseteq Contents)

\* The transfers of a record's accountability that are done
TransfersDone(r) == {i \in Transfers(Positions) \ todo : asked[i].o = r}

\* The last transfer that is done decides who is accountable.
Accounted(r) ==
  \/ TransfersDone(r) = {} /\ AccountabilityIn(saved, r) = {Mine(r)}
  \/ \E i \in TransfersDone(r) : /\ \A k \in TransfersDone(r) : k <= i
                                 /\ AccountabilityIn(saved, r) = {asked[i]}

CompTypes ==
  /\ actor \in User /\ creating \subseteq NewRecord
  /\ isNewGraph \in BOOLEAN /\ handing \in BOOLEAN
  /\ phase \in {"idle", "checking", "checked", "refused", "creating", "saving", "done", "failed",
               "thrown"}
  /\ stage \in [NewRecord -> {"none", "accountable", "stored", "lost", "empty"}]
  /\ Positions \subseteq Nat /\ \A i \in Positions : asked[i] \in FactsAbout(creating)
  /\ todo \subseteq Positions

\* What the phases mean
Phases ==
  /\ phase \in {"idle", "checking", "checked"} => isNewGraph = FALSE
  /\ phase \in {"idle", "checking", "checked", "refused"} =>
       /\ saved \subseteq {Mine(g) : g \in Owned}
       /\ \A r \in NewRecord : stage[r] = "none"
  /\ phase \notin {"idle", "checking", "refused"} => valued = creating
  /\ phase \in {"saving", "done", "thrown"} => creating \subseteq Contents
  /\ phase = "done" => todo = {} /\ ~handing
  /\ NothingSaved => /\ saved \subseteq {Mine(n) : n \in NewRecord \cup Owned}
                     /\ inGraph = {} /\ todo = Positions /\ ~handing

\* Where the records are, and who is accountable for them
Records ==
  /\ \A r \in NewRecord : stage[r] # "none" => r \in creating
  /\ \A x, y \in creating \cap Grouped : stage[x] = stage[y]
  /\ \A r \in NewRecord : stage[r] \in {"accountable", "stored", "empty"} =>
       Accounted(r) \/ (handing /\ \E i \in todo : IsNext(i) /\ asked[i].o = r)
  /\ handing => \E i \in todo : /\ IsNext(i) /\ asked[i].p = Accountable
                                /\ AccountabilityIn(saved, asked[i].o) = {}

\* Which facts are saved
Saved ==
  /\ saved \subseteq {Mine(n) : n \in NewRecord \cup Owned} \cup {asked[i] : i \in Positions}
  /\ \A i \in Transfers(Positions) \ todo, j \in Transfers(todo) : i <= j
  /\ \A i \in Positions \ todo : asked[i].p # Accountable => asked[i] \in saved

\* Which facts are in the new graph
Graph ==
  /\ isNewGraph => \A i \in Positions : asked[i].s \in creating /\ asked[i].o \in creating
  /\ \A f \in inGraph : f \in saved /\ f.o \in creating
  /\ phase \in {"saving", "done"} /\ isNewGraph =>
       \A f \in saved : f.p # Accountable /\ (f.s \in creating \/ f.o \in creating) => f \in inGraph
  /\ phase = "done" /\ isNewGraph /\ Positions # {} =>
       \A f \in saved : f.s \in creating \/ f.o \in creating => f \in inGraph

CompInv == CompTypes /\ Phases /\ Records /\ Saved /\ Graph

\* Nothing is asked for yet, or nobody looked at it.
LEMMA CompInvInit == CompInit => CompInv
<1> SUFFICES ASSUME CompInit PROVE CompInv
  OBVIOUS
<1> USE DEF CompInit
<1>1. CompTypes
  <2>1. Positions = {}
    BY DEF Positions
  <2>2. stage \in [NewRecord -> {"none", "accountable", "stored", "lost", "empty"}]
    OBVIOUS
  <2> QED BY <2>1, <2>2 DEF CompTypes
<1>2. Phases
  BY DEF Phases, NothingSaved, Positions, Mine
<1>3. Records
  BY DEF Records
<1>4. Saved
  BY DEF Saved, Positions, Transfers, Mine
<1>5. Graph
  BY DEF Graph, Positions
<1> QED BY <1>1, <1>2, <1>3, <1>4, <1>5 DEF CompInv

\* A request is made: its positions are numbers, its facts are about what it creates.
LEMMA RequestTypes ==
  ASSUME NEW names, NEW asks \in Requests(names)
  PROVE  DOMAIN asks \subseteq Nat /\ \A i \in DOMAIN asks : asks[i] \in FactsAbout(names)
<1>1. PICK n \in 0 .. MaxFacts : asks \in [1 .. n -> FactsAbout(names)]
  BY DEF Requests
<1> QED BY <1>1

LEMMA RequestStep ==
  ASSUME CompInv, phase = "idle", phase' = "checking",
         NEW names \in SUBSET NewRecord, NEW asks \in Requests(names),
         creating' = names, asked' = asks, todo' = DOMAIN asks,
         UNCHANGED << actor, isNewGraph, stage, saved, inGraph, handing >>
  PROVE  CompInv'
<1> USE DEF CompInv
<1>1. CompTypes'
  BY RequestTypes DEF CompTypes, Positions
<1>2. Phases'
  BY DEF CompTypes, Phases, NothingSaved, Positions, Mine
<1>3. Records'
  BY <1>1 DEF CompTypes, Phases, Records, NothingSaved
<1>4. Saved'
  <2>1. saved \subseteq {Mine(n) : n \in NewRecord \cup Owned}
    BY DEF Phases, NothingSaved
  <2>2. UNCHANGED {Mine(n) : n \in NewRecord \cup Owned}
    BY DEF Mine
  <2>3. todo' = Positions'
    BY DEF Positions
  <2> QED BY <2>1, <2>2, <2>3 DEF Saved, Transfers
<1>5. Graph'
  BY DEF Graph, Phases, NothingSaved, Positions
<1> QED BY <1>1, <1>2, <1>3, <1>4, <1>5

\* Steps that leave the facts and the names alone, before anything is stored
LEMMA CheckStep ==
  ASSUME CompInv, CheckComposition \/ \E enough \in BOOLEAN : ReserveStorage(enough)
  PROVE  CompInv'
<1> USE DEF CompInv, request
<1>0. /\ UNCHANGED << actor, creating, valued, asked, todo, stage, saved, inGraph, handing >>
      /\ phase \in {"checking", "checked"} /\ phase' \in {"checked", "creating", "refused"}
      /\ phase' \in {"checked", "creating"} => valued = creating
      /\ phase' = "checked" => isNewGraph' = FALSE
      /\ isNewGraph' \in BOOLEAN
      /\ isNewGraph' => \A i \in Positions : asked[i].s \in creating /\ asked[i].o \in creating
  <2>1. CASE CheckComposition
    <3>1. phase' = "checked" => valued = creating
      BY <2>1 DEF CheckComposition
    <3>2. phase' \in {"checked", "refused"}
      BY <2>1 DEF CheckComposition
    <3> QED BY <2>1, <3>1, <3>2 DEF CheckComposition, Phases
  <2>2. ASSUME NEW enough \in BOOLEAN, ReserveStorage(enough) PROVE <1>0
    <3>1. isNewGraph' \in BOOLEAN
      BY <2>2, Zenon DEF ReserveStorage
    <3>2. isNewGraph' => \A i \in Positions : asked[i].s \in creating /\ asked[i].o \in creating
      BY <2>2 DEF ReserveStorage, Positions
    <3>3. phase' \in {"creating", "refused"}
      BY <2>2 DEF ReserveStorage
    <3> QED BY <2>2, <3>1, <3>2, <3>3 DEF ReserveStorage, Phases
  <2> QED BY <2>1, <2>2
<1> HIDE DEF request
<1>1. CompTypes'
  BY <1>0 DEF CompTypes, Positions
<1>2. Phases'
  BY <1>0 DEF CompTypes, Phases, NothingSaved, Positions, Mine
<1>3. Records'
  BY <1>0 DEF CompTypes, Phases, Records, NothingSaved
<1>4. Saved'
  <2>1. UNCHANGED << {Mine(n) : n \in NewRecord \cup Owned}, Positions, Transfers(todo),
                     Transfers(Positions) >>
    BY <1>0 DEF Mine, Positions, Transfers
  <2> QED BY <1>0, <2>1 DEF Saved, Positions
<1>5. Graph'
  BY <1>0 DEF Graph, Phases, NothingSaved, Positions
<1> QED BY <1>1, <1>2, <1>3, <1>4, <1>5

\* As long as records are stored, whoever makes the request is accountable for a record, if anybody is.
LEMMA CreationStep ==
  ASSUME CompInv, phase \in {"creating", "failed"}, phase' \in {phase, "failed"},
         NEW r \in creating, stage[r] \in {"none", "accountable"},
         NEW to \in {"accountable", "stored", "lost", "empty"}, Advance(r, to),
         NEW new, new \in {{}, {Mine(x) : x \in Together(r)}}, saved' = saved \cup new,
         to # "lost" => stage[r] = "accountable" \/ new = {Mine(x) : x \in Together(r)},
         UNCHANGED << request, todo, isNewGraph, inGraph, handing >>
  PROVE  CompInv'
<1> USE DEF CompInv
<1>0. /\ UNCHANGED << actor, creating, valued, asked, todo, isNewGraph, inGraph, handing >>
      /\ UNCHANGED << {Mine(n) : n \in NewRecord \cup Owned}, Positions >>
  BY DEF request, Mine, Positions
<1>a. /\ creating \subseteq NewRecord /\ r \in NewRecord
      /\ stage \in [NewRecord -> {"none", "accountable", "stored", "lost", "empty"}]
  BY DEF CompTypes
<1>b. NothingSaved
  BY <1>a DEF NothingSaved, Contents
<1>c. /\ saved \subseteq {Mine(n) : n \in NewRecord \cup Owned}
      /\ inGraph = {} /\ todo = Positions /\ ~handing /\ valued = creating
  BY <1>b DEF Phases
<1>d. r \in Together(r) /\ Together(r) \subseteq creating
  BY DEF Together
<1>e. \A x \in NewRecord : stage'[x] = IF x \in Together(r) THEN to ELSE stage[x]
  BY DEF Advance
<1>f. new \subseteq {Mine(n) : n \in NewRecord}
  BY <1>a, <1>d
<1>1. CompTypes'
  <2>1. stage' \in [NewRecord -> {"none", "accountable", "stored", "lost", "empty"}]
    BY <1>a DEF Advance
  <2> QED BY <1>0, <2>1 DEF CompTypes, Positions
<1>2. Phases'
  BY <1>0, <1>c, <1>f DEF Phases
<1>3. Records'
  <2>1. \A x \in Together(r) : stage[x] = stage[r]
    BY DEF Together, Records
  <2>2. \A x, y \in creating \cap Grouped : x \in Together(r) <=> y \in Together(r)
    BY DEF Together, Records
  <2>3. \A x : AccountabilityIn(saved', x) = AccountabilityIn(saved, x) \cup {f \in new : f.o = x}
    BY <1>f DEF AccountabilityIn, Mine, CompFact
  <2>4. \A x : TransfersDone(x)' = {} /\ TransfersDone(x) = {}
    BY <1>0, <1>c DEF TransfersDone, Transfers
  <2>5. ASSUME NEW x \in NewRecord, stage'[x] \in {"accountable", "stored", "empty"}
        PROVE  Accounted(x)'
    <3>1. AccountabilityIn(saved', x) \subseteq {Mine(x)}
      BY <1>c, <1>f DEF AccountabilityIn, Mine, CompFact
    <3>2. Mine(x) \in AccountabilityIn(saved', x)
      <4>1. CASE x \in Together(r) /\ new = {Mine(y) : y \in Together(r)}
        BY <4>1, <2>3 DEF Mine, CompFact
      <4>2. CASE ~(x \in Together(r) /\ new = {Mine(y) : y \in Together(r)})
        <5>1. stage[x] \in {"accountable", "stored", "empty"}
          BY <4>2, <2>1, <2>5, <1>e
        <5>2. Accounted(x)
          BY <5>1, <1>c DEF Records
        <5> QED BY <5>2, <2>3, <2>4 DEF Accounted
      <4> QED BY <4>1, <4>2
    <3>3. Mine(x)' = Mine(x)
      BY <1>0 DEF Mine
    <3> QED BY <3>1, <3>2, <3>3, <2>4 DEF Accounted
  <2>6. \A x \in NewRecord : stage'[x] # "none" => x \in creating
    BY <1>e, <1>d DEF Records
  <2>7. \A x, y \in creating \cap Grouped : stage'[x] = stage'[y]
    BY <2>2, <1>a, <1>e DEF Records
  <2> QED BY <1>0, <1>c, <2>5, <2>6, <2>7 DEF Records
<1>4. Saved'
  <2>1. Transfers(Positions)' \ todo' = {}
    BY <1>0, <1>c DEF Transfers
  <2> QED BY <1>0, <1>c, <1>f, <2>1 DEF Saved
<1>5. Graph'
  BY <1>0, <1>c DEF Graph
<1> QED BY <1>1, <1>2, <1>3, <1>4, <1>5

\* The request goes on to its facts, or breaks off while records are stored.
LEMMA BreakStep == CompInv /\ (StartFacts \/ RequestBreaksOff) => CompInv'
<1> SUFFICES ASSUME CompInv, StartFacts \/ RequestBreaksOff PROVE CompInv'
  OBVIOUS
<1> USE DEF CompInv
<1>0. /\ UNCHANGED << actor, creating, valued, asked, todo, isNewGraph, saved, inGraph, handing >>
      /\ UNCHANGED << {Mine(n) : n \in NewRecord \cup Owned}, Positions, Transfers(todo),
                      Transfers(Positions) >>
      /\ phase \in {"creating", "saving"} /\ phase' \in {"saving", "failed"}
      /\ phase' = "saving" => phase = "creating" /\ stage' = stage /\ creating \subseteq Contents
  BY DEF StartFacts, RequestBreaksOff, request, Mine, Positions, Transfers
<1>a. /\ creating \subseteq NewRecord
      /\ stage \in [NewRecord -> {"none", "accountable", "stored", "lost", "empty"}]
  BY DEF CompTypes
<1>b. stage' \in [NewRecord -> {"none", "accountable", "stored", "lost", "empty"}]
  BY <1>a DEF StartFacts, RequestBreaksOff
<1>c. \A x \in NewRecord :
         /\ stage'[x] \in {"accountable", "stored", "empty"} => stage[x] \in {"accountable", "stored", "empty"}
         /\ stage'[x] # "none" => stage[x] # "none" \/ x \in creating
         /\ stage[x] = "stored" <=> stage'[x] = "stored"
  BY <1>a DEF StartFacts, RequestBreaksOff
<1>d. \A x, y \in creating : stage[x] = stage[y] => stage'[x] = stage'[y]
  BY <1>a DEF StartFacts, RequestBreaksOff
<1>e. Contents' = Contents
  BY <1>c DEF Contents
<1>1. CompTypes'
  BY <1>0, <1>b DEF CompTypes, Positions
<1>2. Phases'
  BY <1>0, <1>e DEF Phases, NothingSaved
<1>3. Records'
  BY <1>0, <1>a, <1>c, <1>d DEF Records, Accounted, TransfersDone, Mine, IsNext
<1>4. Saved'
  BY <1>0 DEF Saved
<1>5. Graph'
  <2>1. phase' = "saving" => \A f \in saved : f.p = Accountable
    BY <1>0 DEF Phases, NothingSaved, Mine, CompFact
  <2> QED BY <1>0, <2>1 DEF Graph
<1> QED BY <1>1, <1>2, <1>3, <1>4, <1>5

\* There is one fact that is saved next, and none but a transfer is while transfers are left.
LEMMA OneIsNext ==
  ASSUME CompTypes, NEW i \in todo, IsNext(i)
  PROVE  /\ \A j \in todo : IsNext(j) => j = i
         /\ asked[i].p # Accountable => Transfers(todo) = {}
         /\ \A j \in Transfers(todo) : i <= j
         /\ Transfers(todo) = {} \/ asked[i].p = Accountable
<1>1. todo \subseteq Nat
  BY DEF CompTypes
<1>2. \A j \in todo : IsNext(j) => i <= j /\ j <= i
  BY DEF IsNext, Transfers
<1> QED BY <1>1, <1>2 DEF IsNext, Transfers

\* What a fact in the middle of being saved may rely on
LEMMA WhileSaving ==
  ASSUME CompInv, phase = "saving", UNCHANGED << request, isNewGraph, stage >>
  PROVE  /\ UNCHANGED << actor, creating, valued, asked, Contents, Positions, Transfers(Positions) >>
         /\ UNCHANGED {Mine(n) : n \in NewRecord \cup Owned}
         /\ \A n : Mine(n)' = Mine(n)
         /\ creating \subseteq Contents /\ valued = creating
  BY DEF CompInv, Phases, request, Contents, Positions, Transfers, Mine

\* The old accountability is deleted, or the request is turned down.
LEMMA StartTransferStep == ASSUME CompInv, NEW i \in todo, StartTransfer(i) PROVE CompInv'
<1> USE DEF CompInv
<1> DEFINE old == AccountabilityIn(saved, asked[i].o)
<1>0. /\ phase = "saving" /\ IsNext(i) /\ asked[i].p = Accountable /\ ~handing
      /\ UNCHANGED << request, todo, isNewGraph, stage >>
      /\ \/ /\ saved' = saved \ old /\ inGraph' = inGraph \ old /\ handing' = TRUE
            /\ phase' = phase
         \/ phase' = "thrown" /\ UNCHANGED << saved, inGraph, handing >>
  BY DEF StartTransfer
<1>a. /\ UNCHANGED << actor, creating, valued, asked, Contents, Positions, Transfers(Positions) >>
      /\ UNCHANGED {Mine(n) : n \in NewRecord \cup Owned}
      /\ \A n : Mine(n)' = Mine(n)
      /\ creating \subseteq Contents /\ valued = creating
  BY <1>0, WhileSaving
<1>b. Transfers(todo)' = Transfers(todo) /\ \A j : IsNext(j)' = IsNext(j)
  BY <1>0, <1>a DEF Transfers, IsNext
<1>c. \A r : TransfersDone(r)' = TransfersDone(r)
  BY <1>0, <1>a DEF TransfersDone
<1>1. CompTypes'
  BY <1>0, <1>a DEF CompTypes, Positions
<1>2. Phases'
  BY <1>0, <1>a DEF Phases, NothingSaved
<1>3. Records'
  <2>1. handing' => AccountabilityIn(saved', asked[i].o) = {}
    BY <1>0 DEF AccountabilityIn
  <2>2. \A r : r # asked[i].o => AccountabilityIn(saved', r) = AccountabilityIn(saved, r)
    BY <1>0 DEF AccountabilityIn
  <2>3. \A r \in NewRecord : stage[r] \in {"accountable", "stored", "empty"} => Accounted(r)
    BY <1>0 DEF Records
  <2>4. \A r : Accounted(r) /\ r # asked[i].o => Accounted(r)'
    BY <2>2, <1>a, <1>c DEF Accounted
  <2>5. ~handing' => \A r : Accounted(r) => Accounted(r)'
    BY <1>0, <1>a, <1>c DEF Accounted
  <2> QED BY <1>0, <1>a, <1>b, <2>1, <2>3, <2>4, <2>5 DEF Records
<1>4. Saved'
  BY <1>0, <1>a, <1>b DEF Saved, AccountabilityIn
<1>5. Graph'
  BY <1>0, <1>a DEF Graph, AccountabilityIn
<1> QED BY <1>1, <1>2, <1>3, <1>4, <1>5

\* The new accountability is inserted: nobody else was made accountable meanwhile.
LEMMA EndTransferStep == ASSUME CompInv, NEW i \in todo, EndTransfer(i) PROVE CompInv'
<1> USE DEF CompInv
<1> DEFINE o == asked[i].o
<1>0. /\ phase = "saving" /\ IsNext(i) /\ handing /\ handing' = FALSE /\ phase' = phase
      /\ saved' = saved \cup {asked[i]} /\ todo' = todo \ {i}
      /\ UNCHANGED << request, isNewGraph, stage, inGraph >>
  BY DEF EndTransfer
<1>a. /\ UNCHANGED << actor, creating, valued, asked, Contents, Positions, Transfers(Positions) >>
      /\ UNCHANGED {Mine(n) : n \in NewRecord \cup Owned}
      /\ \A n : Mine(n)' = Mine(n)
      /\ creating \subseteq Contents /\ valued = creating
  BY <1>0, WhileSaving
<1>b. /\ asked[i].p = Accountable /\ AccountabilityIn(saved, o) = {}
      /\ \A j \in todo : IsNext(j) => j = i
      /\ \A j \in Transfers(todo) : i <= j
      /\ Positions \subseteq Nat /\ todo \subseteq Positions
  BY <1>0, OneIsNext DEF Records, CompTypes
<1>c. /\ i \in Transfers(Positions) /\ i \in Transfers(todo)
      /\ Transfers(todo)' = Transfers(todo) \ {i}
  BY <1>0, <1>a, <1>b DEF Transfers
<1>1. CompTypes'
  BY <1>0, <1>a DEF CompTypes, Positions
<1>2. Phases'
  BY <1>0, <1>a DEF Phases, NothingSaved
<1>3. Records'
  <2>1. Accounted(o)'
    <3>1. AccountabilityIn(saved', o) = {asked[i]}
      BY <1>0, <1>b DEF AccountabilityIn
    <3>2. i \in TransfersDone(o)'
      BY <1>0, <1>a, <1>c DEF TransfersDone
    <3>3. \A k \in TransfersDone(o)' : k <= i
      BY <1>0, <1>a, <1>b, <1>c DEF TransfersDone, Saved
    <3> QED BY <3>1, <3>2, <3>3, <1>a DEF Accounted
  <2>2. ASSUME NEW r \in NewRecord, r # o, stage[r] \in {"accountable", "stored", "empty"}
        PROVE  Accounted(r)'
    <3>1. Accounted(r)
      BY <2>2, <1>b DEF Records
    <3>2. TransfersDone(r)' = TransfersDone(r)
      BY <2>2, <1>0, <1>a, <1>b DEF TransfersDone
    <3>3. AccountabilityIn(saved', r) = AccountabilityIn(saved, r)
      BY <2>2, <1>0 DEF AccountabilityIn
    <3> QED BY <3>1, <3>2, <3>3, <1>a DEF Accounted
  <2> QED BY <1>0, <1>a, <2>1, <2>2 DEF Records
<1>4. Saved'
  BY <1>0, <1>a, <1>b, <1>c DEF Saved
<1>5. Graph'
  BY <1>0, <1>a, <1>b DEF Graph
<1> QED BY <1>1, <1>2, <1>3, <1>4, <1>5

\* The facts that follow the transfers say nothing about who is accountable.
LEMMA SaveFactsStep == ASSUME CompInv, NEW i \in todo, SaveFacts(i) PROVE CompInv'
<1> USE DEF CompInv
<1> DEFINE some == IF isNewGraph THEN todo ELSE {i}
           new == {asked[j] : j \in some}
<1>0. /\ phase = "saving" /\ IsNext(i) /\ asked[i].p # Accountable /\ phase' = phase
      /\ saved' = saved \cup new /\ todo' = todo \ some
      /\ inGraph' = IF isNewGraph THEN inGraph \cup new ELSE inGraph
      /\ UNCHANGED << request, isNewGraph, stage, handing >>
  BY DEF SaveFacts
<1>a. /\ UNCHANGED << actor, creating, valued, asked, Contents, Positions, Transfers(Positions) >>
      /\ UNCHANGED {Mine(n) : n \in NewRecord \cup Owned}
      /\ \A n : Mine(n)' = Mine(n)
      /\ creating \subseteq Contents /\ valued = creating
  BY <1>0, WhileSaving
<1>b. /\ Transfers(todo) = {} /\ Transfers(todo') = {} /\ some \subseteq todo
      /\ Positions \subseteq Nat /\ todo \subseteq Positions
      /\ \A f \in new : f.p # Accountable
  BY <1>0, OneIsNext DEF Records, CompTypes, Transfers
<1>c. ~handing
  BY <1>b DEF Records, Transfers
<1>d. \A r : AccountabilityIn(saved', r) = AccountabilityIn(saved, r)
  BY <1>0, <1>b DEF AccountabilityIn
<1>1. CompTypes'
  BY <1>0, <1>a DEF CompTypes, Positions
<1>2. Phases'
  BY <1>0, <1>a DEF Phases, NothingSaved
<1>3. Records'
  <2>1. \A r : TransfersDone(r)' = TransfersDone(r)
    BY <1>0, <1>a, <1>b DEF TransfersDone, Transfers
  <2>2. \A r : Accounted(r) => Accounted(r)'
    BY <2>1, <1>a, <1>d DEF Accounted
  <2> QED BY <1>0, <1>a, <1>c, <2>2 DEF Records
<1>4. Saved'
  <2>1. Transfers(todo)' = {}
    BY <1>a, <1>b DEF Transfers
  <2>2. \A j \in some : asked[j] \in saved'
    BY <1>0
  <2> QED BY <1>0, <1>a, <1>b, <2>1, <2>2 DEF Saved
<1>5. Graph'
  <2>1. isNewGraph => \A f \in new : f.o \in creating
    BY <1>b DEF Graph
  <2> QED BY <1>0, <1>a, <1>b, <2>1 DEF Graph
<1> QED BY <1>1, <1>2, <1>3, <1>4, <1>5

\* What is left to do is done: who is accountable does not change any more.
LEMMA MoveStep == CompInv /\ MoveAccountability => CompInv'
<1> SUFFICES ASSUME CompInv, MoveAccountability PROVE CompInv'
  OBVIOUS
<1> USE DEF CompInv
<1> DEFINE mine == UNION {AccountabilityIn(saved, r) : r \in creating}
<1>0. /\ phase = "saving" /\ todo = {} /\ phase' = "done"
      /\ inGraph' = IF isNewGraph /\ Positions # {} THEN inGraph \cup mine ELSE inGraph
      /\ UNCHANGED << request, todo, isNewGraph, stage, saved, handing >>
  BY DEF MoveAccountability, Positions
<1>a. /\ UNCHANGED << actor, creating, valued, asked, Contents, Positions, Transfers(Positions) >>
      /\ UNCHANGED {Mine(n) : n \in NewRecord \cup Owned}
      /\ \A n : Mine(n)' = Mine(n)
      /\ creating \subseteq Contents /\ valued = creating
  BY <1>0, WhileSaving
<1>b. Transfers(todo) = {} /\ Transfers(todo)' = {} /\ ~handing
  BY <1>0, <1>a DEF Transfers, Records
<1>c. \A r : Accounted(r)' = Accounted(r)
  BY <1>0, <1>a DEF Accounted, TransfersDone
<1>d. mine = {f \in saved : f.p = Accountable /\ f.o \in creating}
  BY DEF AccountabilityIn
<1>1. CompTypes'
  BY <1>0, <1>a DEF CompTypes, Positions
<1>2. Phases'
  BY <1>0, <1>a, <1>b DEF Phases, NothingSaved
<1>3. Records'
  BY <1>0, <1>a, <1>b, <1>c DEF Records
<1>4. Saved'
  BY <1>0, <1>a, <1>b DEF Saved
<1>5. Graph'
  <2>1. ASSUME isNewGraph, NEW f \in saved, f.p = Accountable, f.s \in creating
        PROVE  f.o \in creating
    <3>1. CASE \E n \in NewRecord \cup Owned : f = Mine(n)
      BY <2>1, <3>1, CompositionsAssumption DEF Mine, CompFact, CompTypes
    <3>2. CASE \E i \in Positions : f = asked[i]
      BY <2>1, <3>2 DEF Graph
    <3> QED BY <3>1, <3>2 DEF Saved
  <2> QED BY <1>0, <1>a, <1>d, <2>1 DEF Graph
<1> QED BY <1>1, <1>2, <1>3, <1>4, <1>5

\* The groups that are taken from the user are not among the records that are created.
LEMMA LoseGroupStep == ASSUME CompInv, NEW g \in Owned, LoseGroup(g) PROVE CompInv'
<1> USE DEF CompInv
<1>0. /\ phase # "idle" /\ saved' = saved \ {Mine(g)}
      /\ UNCHANGED << phase, actor, creating, valued, asked, todo, isNewGraph, stage, inGraph, handing >>
      /\ UNCHANGED << {Mine(n) : n \in NewRecord \cup Owned}, {Mine(n) : n \in Owned},
                      Positions, Transfers(todo), Transfers(Positions), Contents >>
      /\ \A n : Mine(n)' = Mine(n) /\ IsNext(n)' = IsNext(n)
  BY DEF LoseGroup, request, Mine, Positions, Transfers, Contents, IsNext
<1>a. /\ creating \subseteq NewRecord /\ g \notin NewRecord
      /\ Mine(g).p = Accountable /\ Mine(g).o = g
  BY CompositionsAssumption DEF CompTypes, Mine, CompFact
<1>b. \A r : r # g => AccountabilityIn(saved', r) = AccountabilityIn(saved, r)
  BY <1>0, <1>a DEF AccountabilityIn
<1>c. \A r : AccountabilityIn(saved, r) = {} => AccountabilityIn(saved', r) = {}
  BY <1>0 DEF AccountabilityIn
<1>1. CompTypes'
  BY <1>0 DEF CompTypes, Positions
<1>2. Phases'
  BY <1>0 DEF Phases, NothingSaved
<1>3. Records'
  <2>1. \A r : r # g /\ Accounted(r) => Accounted(r)'
    BY <1>0, <1>b DEF Accounted, TransfersDone
  <2> QED BY <1>0, <1>a, <1>c, <2>1 DEF Records
<1>4. Saved'
  BY <1>0, <1>a DEF Saved
<1>5. Graph'
  BY <1>0, <1>a DEF Graph
<1> QED BY <1>1, <1>2, <1>3, <1>4, <1>5

LEMMA CompInvStep == CompInv /\ [CompNext]_compVars => CompInv'
<1> SUFFICES ASSUME CompInv, [CompNext]_compVars PROVE CompInv'
  OBVIOUS
<1>1. ASSUME NEW asking \in SUBSET NewRecord, NEW withValue, NEW asks \in Requests(asking),
             CreateComposition(asking, withValue, asks)
      PROVE  CompInv'
  BY <1>1, RequestStep DEF CreateComposition
<1>2. ASSUME NEW r \in NewRecord, NEW asks \in Requests({r}), CreateOneRecord(r, asks)
      PROVE  CompInv'
  <2>1. {r} \in SUBSET NewRecord
    OBVIOUS
  <2> QED BY <1>2, <2>1, RequestStep DEF CreateOneRecord
<1>3. ASSUME NEW r \in NewRecord, SaveAccountability(r) PROVE CompInv'
  BY <1>3, CreationStep DEF SaveAccountability
<1>4. ASSUME NEW r \in NewRecord, StoreContent(r) PROVE CompInv'
  <2>1. saved' = saved \cup {}
    BY <1>4 DEF StoreContent
  <2> QED BY <1>4, <2>1, CreationStep DEF StoreContent
<1>5. ASSUME NEW r \in NewRecord, CreationFails(r) PROVE CompInv'
  <2>1. saved' = saved \cup {}
    BY <1>5 DEF CreationFails
  <2>2. CASE stage[r] = "none"
    <3>1. Advance(r, "lost")
      BY <1>5, <2>2 DEF CreationFails
    <3> QED BY <1>5, <2>1, <2>2, <3>1, CreationStep DEF CreationFails
  <2>3. CASE stage[r] = "accountable"
    <3>1. Advance(r, "empty")
      BY <1>5, <2>3 DEF CreationFails
    <3> QED BY <1>5, <2>1, <2>3, <3>1, CreationStep DEF CreationFails
  <2> QED BY <1>5, <2>2, <2>3 DEF CreationFails
<1>6. CASE UNCHANGED compVars
  <2>1. UNCHANGED << actor, phase, creating, valued, asked, todo, isNewGraph, stage, saved, inGraph, handing >>
    BY <1>6 DEF compVars
  <2>2. /\ UNCHANGED << {Mine(n) : n \in NewRecord \cup Owned}, {Mine(n) : n \in Owned},
                        Positions, Transfers(todo), Transfers(Positions), Contents >>
        /\ \A n : Mine(n)' = Mine(n) /\ IsNext(n)' = IsNext(n)
    BY <2>1 DEF Mine, Positions, Transfers, Contents, IsNext
  <2>3. \A r : Accounted(r)' = Accounted(r)
    BY <2>1, <2>2 DEF Accounted, TransfersDone
  <2>4. CompTypes' /\ Phases'
    BY <2>1, <2>2 DEF CompInv, CompTypes, Phases, NothingSaved, Positions
  <2>5. Records' /\ Saved' /\ Graph'
    BY <2>1, <2>2, <2>3 DEF CompInv, Records, Saved, Graph
  <2> QED BY <2>4, <2>5 DEF CompInv
<1> QED BY <1>1, <1>2, <1>3, <1>4, <1>5, <1>6, CheckStep, BreakStep, MoveStep, LoseGroupStep,
           StartTransferStep, EndTransferStep, SaveFactsStep DEF CompNext

LEMMA CompInvHolds == CompSpec => []CompInv
  BY CompInvInit, CompInvStep, PTL DEF CompSpec

\* Nothing of a request is stored before it is let through, and of the facts only those it asked
\* for and those that make the user accountable.
THEOREM CompTypeCorrect == CompSpec => []CompTypeOK
<1>1. CompInv => CompTypeOK
  <2> SUFFICES ASSUME CompInv PROVE CompTypeOK
    OBVIOUS
  <2> USE DEF CompInv
  <2>1. \A r \in NewRecord : stage[r] # "none" => r \in creating /\ r \in valued
    BY DEF Phases, Records, CompTypes
  <2>2. phase \in {"idle", "checking", "checked", "refused"} =>
          saved \subseteq {Mine(g) : g \in Owned} /\ inGraph = {} /\ Contents = {}
    BY DEF Phases, NothingSaved, Contents
  <2>3. /\ saved \subseteq {Mine(n) : n \in NewRecord \cup Owned} \cup {asked[i] : i \in DOMAIN asked}
        /\ inGraph \subseteq saved
    BY DEF Saved, Graph, Positions
  <2> QED BY <2>1, <2>2, <2>3 DEF CompTypes, CompTypeOK
<1> QED BY <1>1, CompInvHolds, PTL

\* However a request ends, and whatever fails on the way, a record that is stored has exactly one
\* node accountable for it, but for the one whose transfer breaks off halfway.
THEOREM StoredHaveOwners == CompSpec => []StoredIsAccountable
<1>1. CompInv => StoredIsAccountable
  <2> SUFFICES ASSUME CompInv, NEW r \in Contents,
                      ~(handing /\ \E i \in todo : IsNext(i) /\ asked[i].o = r)
               PROVE  Cardinality(AccountabilityIn(saved, r)) = 1
    BY DEF StoredIsAccountable
  <2>1. Accounted(r)
    BY DEF CompInv, Records, Contents
  <2>2. \E f : AccountabilityIn(saved, r) = {f}
    BY <2>1 DEF Accounted
  <2> QED BY <2>2, FS_Singleton
<1> QED BY <1>1, CompInvHolds, PTL

\* A request that was answered has stored every record and every fact it came with, the last
\* transfer of a record decides who is accountable for it, and a graph of new records is whole.
THEOREM AnswersAreTrue == CompSpec => []AnswerTellsTheTruth
<1>1. CompInv => AnswerTellsTheTruth
  <2> SUFFICES ASSUME CompInv, phase = "done" PROVE AnswerTellsTheTruth
    BY DEF AnswerTellsTheTruth
  <2> USE DEF CompInv
  <2>1. creating \subseteq Contents /\ todo = {} /\ ~handing /\ creating \subseteq NewRecord
    BY DEF Phases, CompTypes
  <2>2. \A i \in DOMAIN asked : asked[i].p # Accountable => asked[i] \in saved
    BY <2>1 DEF Saved, Positions
  <2>3. ASSUME NEW r \in creating
        PROVE  LET transfers == {i \in Transfers(DOMAIN asked) : asked[i].o = r}
               IN  \/ transfers = {} /\ AccountabilityIn(saved, r) = {Mine(r)}
                   \/ \E i \in transfers : /\ \A k \in transfers : k <= i
                                          /\ AccountabilityIn(saved, r) = {asked[i]}
    <3>1. Accounted(r)
      BY <2>1 DEF Records, Contents
    <3>2. TransfersDone(r) = {i \in Transfers(DOMAIN asked) : asked[i].o = r}
      BY <2>1 DEF TransfersDone, Positions
    <3> QED BY <3>1, <3>2 DEF Accounted
  <2>4. isNewGraph /\ DOMAIN asked # {} =>
          \A f \in saved : (f.s \in creating \/ f.o \in creating) => f \in inGraph
    BY DEF Graph, Positions
  <2> QED BY <2>1, <2>2, <2>3, <2>4 DEF AnswerTellsTheTruth
<1> QED BY <1>1, CompInvHolds, PTL

-----------------------------------------------------------------------------
(* Queries: which fact is the latest.                                      *)
(*                                                                         *)
(* LatestIsNewest is inductive together with the types: a write unsettles  *)
(* its subject and predicate, a refresh brings all their rows up to date,  *)
(* and no step touches the rows of another subject or predicate. What the  *)
(* rows are marked with is compared by id, so that the ids must be those   *)
(* of different rows.                                                      *)

QueryInv == QueryTypeOK /\ LatestIsNewest

LEMMA QueryInvInit == QueryInit => QueryInv
BY QueriesAssumption DEF QueryInit, QueryInv, QueryTypeOK, LatestIsNewest

\* A write adds its subject and predicate to those that wait for a refresh.
LEMMA WriteUnsettles ==
  ASSUME QueryInv, NEW s \in Entity, NEW p \in Relation, lastId < MaxWrites, lastId' = lastId + 1,
         refreshing' = refreshing \cup {[by |-> lastId', subject |-> s, predicate |-> p]},
         UNCHANGED missed
  PROVE  /\ lastId' \in 0..MaxWrites /\ lastId' \in 1..MaxWrites
         /\ refreshing' \subseteq [by : 1..lastId', subject : Entity, predicate : Relation]
         /\ ~Settled(s, p)'
         /\ \A x \in Entity, y \in Relation : Settled(x, y)' => Settled(x, y)
<1>1. lastId' \in 0..MaxWrites /\ lastId' \in 1..MaxWrites
  BY QueriesAssumption DEF QueryInv, QueryTypeOK
<1>2. \A w \in refreshing : w \in [by : 1..lastId', subject : Entity, predicate : Relation]
  BY QueriesAssumption DEF QueryInv, QueryTypeOK
<1>3. refreshing' \subseteq [by : 1..lastId', subject : Entity, predicate : Relation]
  BY <1>1, <1>2
<1>4. ~Settled(s, p)'
  <2> DEFINE w == [by |-> lastId', subject |-> s, predicate |-> p]
  <2>1. w \in refreshing' /\ << w.subject, w.predicate >> = << s, p >>
    OBVIOUS
  <2> QED BY <2>1 DEF Settled
<1>5. \A x \in Entity, y \in Relation : Settled(x, y)' => Settled(x, y)
  BY DEF Settled
<1> QED BY <1>1, <1>3, <1>4, <1>5

LEMMA InsertKeepsInv ==
  ASSUME QueryInv, NEW s \in Entity, NEW p \in Relation, NEW o \in Entity \cup Term, InsertRow(s, p, o)
  PROVE  QueryInv'
<1> DEFINE new == [id |-> lastId', subject |-> s, predicate |-> p, object |-> o, latest |-> FALSE]
<1>1. /\ lastId' \in 0..MaxWrites /\ lastId' \in 1..MaxWrites
      /\ refreshing' \subseteq [by : 1..lastId', subject : Entity, predicate : Relation]
      /\ ~Settled(s, p)'
      /\ \A x \in Entity, y \in Relation : Settled(x, y)' => Settled(x, y)
  BY WriteUnsettles DEF InsertRow
<1>2. rows' = rows \cup {new} /\ lastId' = lastId + 1 /\ UNCHANGED << visible, missed >>
  BY DEF InsertRow
<1>3. new \in Row
  BY <1>1 DEF Row
<1>4. \A r \in rows : r \in Row /\ r.id < lastId'
  BY <1>2, QueriesAssumption DEF QueryInv, QueryTypeOK, Row
<1>5. \A r1, r2 \in rows' : r1.id = r2.id => r1 = r2
  <2> SUFFICES ASSUME NEW r1 \in rows', NEW r2 \in rows', r1.id = r2.id PROVE r1 = r2
    OBVIOUS
  <2>1. CASE r1 \in rows /\ r2 \in rows
    BY <2>1 DEF QueryInv, QueryTypeOK
  <2>2. CASE r1 = new /\ r2 = new
    BY <2>2
  <2>3. new.id = lastId' /\ lastId' \in Nat /\ (\A r \in rows : r.id \in Nat)
    BY <1>1, <1>4 DEF Row
  <2>4. \A r \in rows : r.id # new.id
    BY <1>4, <2>3
  <2> QED BY <1>2, <2>1, <2>2, <2>4
<1>6. \A r \in rows' : r \in Row /\ r.id <= lastId'
  <2>1. \A r \in rows : r \in Row /\ r.id <= lastId'
    BY <1>1, <1>4 DEF Row
  <2>2. new.id <= lastId'
    BY <1>1
  <2> QED BY <1>2, <1>3, <2>1, <2>2
<1>7. QueryTypeOK'
  BY <1>1, <1>2, <1>5, <1>6 DEF QueryInv, QueryTypeOK
<1>8. LatestIsNewest'
  <2> SUFFICES ASSUME NEW r \in rows', Settled(r.subject, r.predicate)'
               PROVE  r.latest <=> IsNewest(r)'
    BY DEF LatestIsNewest
  <2>1. r \in Row /\ r.subject \in Entity /\ r.predicate \in Relation
    BY <1>6 DEF Row
  <2>2. ~(r.subject = s /\ r.predicate = p)
    BY <1>1
  <2>3. r \in rows
    BY <1>2, <2>2
  <2>4. About(r.subject, r.predicate)' = About(r.subject, r.predicate)
    BY <1>2, <2>2 DEF About
  <2>5. Settled(r.subject, r.predicate)
    BY <1>1, <2>1
  <2> QED BY <2>3, <2>4, <2>5 DEF QueryInv, LatestIsNewest, IsNewest
<1> QED BY <1>7, <1>8 DEF QueryInv

LEMMA DeleteKeepsInv ==
  ASSUME QueryInv, NEW s \in Entity, NEW p \in Relation, NEW o \in Entity \cup Term, DeleteRow(s, p, o)
  PROVE  QueryInv'
<1>1. /\ lastId' \in 0..MaxWrites
      /\ refreshing' \subseteq [by : 1..lastId', subject : Entity, predicate : Relation]
      /\ ~Settled(s, p)'
      /\ \A x \in Entity, y \in Relation : Settled(x, y)' => Settled(x, y)
  BY WriteUnsettles DEF DeleteRow
<1>2. rows' = rows \ {r \in About(s, p) : r.object = o} /\ lastId' = lastId + 1
      /\ UNCHANGED << visible, missed >>
  BY DEF DeleteRow
<1>3. \A r \in rows : r.id <= lastId'
  BY <1>2, QueriesAssumption DEF QueryInv, QueryTypeOK, Row
<1>4. QueryTypeOK'
  BY <1>1, <1>2, <1>3 DEF QueryInv, QueryTypeOK
<1>5. LatestIsNewest'
  <2> SUFFICES ASSUME NEW r \in rows', Settled(r.subject, r.predicate)'
               PROVE  r.latest <=> IsNewest(r)'
    BY DEF LatestIsNewest
  <2>1. r \in rows /\ r.subject \in Entity /\ r.predicate \in Relation
    BY <1>2 DEF QueryInv, QueryTypeOK, Row
  <2>2. ~(r.subject = s /\ r.predicate = p)
    BY <1>1
  <2>3. About(r.subject, r.predicate)' = About(r.subject, r.predicate)
    BY <1>2, <2>2 DEF About
  <2>4. Settled(r.subject, r.predicate)
    BY <1>1, <2>1
  <2> QED BY <2>1, <2>3, <2>4 DEF QueryInv, LatestIsNewest, IsNewest
<1> QED BY <1>4, <1>5 DEF QueryInv

\* What a refresh does to a row of its subject and predicate
Marked(r) == [r EXCEPT !.latest = IsNewest(r)]

LEMMA MarkedRow ==
  ASSUME QueryInv, NEW r \in rows
  PROVE  /\ Marked(r) \in Row
         /\ Marked(r).id = r.id /\ Marked(r).subject = r.subject
         /\ Marked(r).predicate = r.predicate /\ Marked(r).latest = IsNewest(r)
<1>1. r \in Row
  BY DEF QueryInv, QueryTypeOK
<1>2. IsNewest(r) \in BOOLEAN
  BY DEF IsNewest
<1> QED BY <1>1, <1>2 DEF Marked, Row

LEMMA RefreshKeepsInv ==
  ASSUME QueryInv, NEW w \in refreshing, RefreshLatestState(w)
  PROVE  QueryInv'
<1> DEFINE about == About(w.subject, w.predicate)
<1>1. /\ rows' = (rows \ about) \cup {Marked(r) : r \in about}
      /\ refreshing' = refreshing \ {w} /\ missed' = missed \ {<< w.subject, w.predicate >>}
      /\ UNCHANGED << lastId, visible >>
  BY DEF RefreshLatestState, Marked
<1>2. about \subseteq rows /\ \A r \in rows :
        r \in about <=> r.subject = w.subject /\ r.predicate = w.predicate
  BY DEF About
\* Every row is the successor of one with the same id, subject and predicate.
<1> DEFINE Refreshed(r) == IF r \in about THEN Marked(r) ELSE r
<1>3. rows' = {Refreshed(r) : r \in rows}
  BY <1>1, <1>2
<1>4. \A r \in rows : /\ Refreshed(r) \in Row /\ Refreshed(r).id = r.id
                      /\ Refreshed(r).subject = r.subject /\ Refreshed(r).predicate = r.predicate
  BY MarkedRow DEF QueryInv, QueryTypeOK
<1> HIDE DEF Refreshed
<1>5. QueryTypeOK'
  <2>1. rows' \subseteq Row
    BY <1>3, <1>4
  <2>2. \A r \in rows' : r.id <= lastId'
    BY <1>1, <1>3, <1>4 DEF QueryInv, QueryTypeOK
  <2>3. \A r1, r2 \in rows' : r1.id = r2.id => r1 = r2
    BY <1>3, <1>4 DEF QueryInv, QueryTypeOK
  <2> QED BY <1>1, <2>1, <2>2, <2>3 DEF QueryInv, QueryTypeOK
<1>6. ASSUME NEW r \in rows, NEW x \in rows', x = Refreshed(r)
      PROVE  IsNewest(x)' <=> IsNewest(r)
  <2>1. x.id = r.id /\ x.subject = r.subject /\ x.predicate = r.predicate
    BY <1>4, <1>6
  <2>2. IsNewest(x)' <=> \A y \in rows' :
          y.subject = x.subject /\ y.predicate = x.predicate => y.id <= x.id
    BY DEF IsNewest, About
  <2>3. IsNewest(r) <=> \A y \in rows :
          y.subject = r.subject /\ y.predicate = r.predicate => y.id <= r.id
    BY DEF IsNewest, About
  <2> QED BY <1>3, <1>4, <2>1, <2>2, <2>3
<1>7. LatestIsNewest'
  <2> SUFFICES ASSUME NEW x \in rows', Settled(x.subject, x.predicate)'
               PROVE  x.latest <=> IsNewest(x)'
    BY DEF LatestIsNewest
  <2>1. PICK r \in rows : x = Refreshed(r)
    BY <1>3
  <2>2. x.subject = r.subject /\ x.predicate = r.predicate
    BY <1>4, <2>1
  <2>3. CASE r \in about
    <3>1. x.latest = IsNewest(r)
      BY <2>1, <2>3, MarkedRow DEF Refreshed
    <3>2. IsNewest(x)' <=> IsNewest(r)
      BY <1>6, <2>1
    <3> QED BY <3>1, <3>2
  <2>4. CASE r \notin about
    <3>1. << r.subject, r.predicate >> # << w.subject, w.predicate >>
      BY <1>2, <2>4
    <3>2. Settled(r.subject, r.predicate)
      BY <1>1, <2>2, <3>1 DEF Settled
    <3>3. x = r
      BY <2>1, <2>4 DEF Refreshed
    <3>4. IsNewest(x)' <=> IsNewest(r)
      BY <1>6, <2>1
    <3>5. r.latest <=> IsNewest(r)
      BY <3>2 DEF QueryInv, LatestIsNewest
    <3> QED BY <3>3, <3>4, <3>5
  <2> QED BY <2>3, <2>4
<1> QED BY <1>5, <1>7 DEF QueryInv

LEMMA LostKeepsInv ==
  ASSUME QueryInv, NEW w \in refreshing, RefreshLost(w)
  PROVE  QueryInv'
<1>1. << w.subject, w.predicate >> \in Entity \X Relation
  BY DEF QueryInv, QueryTypeOK
<1>2. QueryTypeOK'
  BY <1>1 DEF RefreshLost, QueryInv, QueryTypeOK
<1>3. \A x, y : Settled(x, y)' => Settled(x, y)
  BY DEF RefreshLost, Settled
<1>4. \A r \in rows : IsNewest(r)' <=> IsNewest(r)
  BY DEF RefreshLost, IsNewest, About
<1>5. LatestIsNewest'
  BY <1>3, <1>4 DEF RefreshLost, QueryInv, LatestIsNewest
<1> QED BY <1>2, <1>5 DEF QueryInv

LEMMA QueryInvStep == QueryInv /\ [QueryNext]_queryVars => QueryInv'
<1> SUFFICES ASSUME QueryInv, [QueryNext]_queryVars PROVE QueryInv'
  OBVIOUS
<1>1. CASE UNCHANGED queryVars
  BY <1>1 DEF queryVars, QueryInv, QueryTypeOK, LatestIsNewest, Settled, IsNewest, About
<1>2. ASSUME NEW s \in Entity, NEW p \in Relation, NEW o \in Entity \cup Term,
             InsertRow(s, p, o) \/ DeleteRow(s, p, o)
      PROVE  QueryInv'
  BY <1>2, InsertKeepsInv, DeleteKeepsInv
<1>3. ASSUME NEW w \in refreshing, RefreshLatestState(w) \/ RefreshLost(w)
      PROVE  QueryInv'
  BY <1>3, RefreshKeepsInv, LostKeepsInv
<1> QED BY <1>1, <1>2, <1>3 DEF QueryNext

\* Rows have the types of the table's columns and ids of their own, whatever is written and
\* refreshed (QueryTypeOK: the facts table and refreshLatestState).
THEOREM QueryTypeCorrect == QuerySpec => []QueryTypeOK
<1>1. QueryInv => QueryTypeOK
  BY DEF QueryInv
<1> QED BY QueryInvInit, QueryInvStep, <1>1, PTL DEF QuerySpec

\* The row marked as the latest is the one inserted last, once the refreshes of its subject and
\* predicate have run (LatestIsNewest: refreshLatestState after every INSERT and DELETE).
THEOREM MarkedIsNewest == QuerySpec => []LatestIsNewest
<1>1. QueryInv => LatestIsNewest
  BY DEF QueryInv
<1> QED BY QueryInvInit, QueryInvStep, <1>1, PTL DEF QuerySpec

-----------------------------------------------------------------------------
(* Queries: what the clauses mean.                                         *)
(*                                                                         *)
(* A plain clause with a transitive predicate is answered by a recursion   *)
(* that stops after as many rounds as there are rows. That it finds every  *)
(* chain of facts is by induction over the rounds, and because the         *)
(* shortest chain between two nodes goes through no fact twice.            *)

\* A fact the user may see
Edge(p, x, y) == \E r \in AuthFacts : r.subject = x /\ r.predicate = p /\ r.object = y

\* A chain of k of them
Chained(p, n, o, k, chain) ==
  /\ chain \in [0 .. k -> visible \cup Term] /\ chain[0] = n /\ chain[k] = o
  /\ \A i \in 1 .. k : Edge(p, chain[i - 1], chain[i])
Reaches(p, n, o, k) == \E chain : Chained(p, n, o, k, chain)

\* Rows are about entities, each by its id.
LEMMA RowTypes ==
  ASSUME QueryTypeOK
  PROVE  /\ IsFiniteSet(rows)
         /\ \A r \in rows : r.subject \in Entity /\ r.subject \notin Term
         /\ \A p, x, y : Edge(p, x, y) => x \in visible /\ x \notin Term /\ y \in visible \cup Term
<1>1. \A r \in rows : r.id \in 1 .. MaxWrites /\ r.subject \in Entity
  BY DEF QueryTypeOK, Row
<1>2. IsFiniteSet(rows)
  <2> DEFINE id == [r \in rows |-> r.id]
  <2>1. id \in Injection(rows, 1 .. MaxWrites)
    BY <1>1 DEF QueryTypeOK, Injection, IsInjective
  <2>2. IsFiniteSet(1 .. MaxWrites)
    BY FS_Interval, QueriesAssumption
  <2> HIDE DEF id
  <2> QED BY <2>1, <2>2, FS_Injection
<1> QED BY <1>1, <1>2, QueriesAssumption DEF Edge, AuthFacts

\* One fact is a chain.
LEMMA ChainOfOne ==
  ASSUME QueryTypeOK, NEW p, NEW n, NEW o
  PROVE  Reaches(p, n, o, 1) <=> Edge(p, n, o)
<1>1. ASSUME Reaches(p, n, o, 1) PROVE Edge(p, n, o)
  <2>1. PICK chain : Chained(p, n, o, 1, chain)
    BY <1>1 DEF Reaches
  <2>2. 1 \in 1 .. 1 /\ 1 - 1 = 0
    OBVIOUS
  <2> QED BY <2>1, <2>2 DEF Chained
<1>2. ASSUME Edge(p, n, o) PROVE Reaches(p, n, o, 1)
  <2> DEFINE chain == [i \in 0 .. 1 |-> IF i = 0 THEN n ELSE o]
  <2>1. n \in visible /\ o \in visible \cup Term
    BY <1>2, RowTypes
  <2>2. chain \in [0 .. 1 -> visible \cup Term] /\ chain[0] = n /\ chain[1] = o
    BY <2>1
  <2>3. \A i \in 1 .. 1 : i = 1 /\ i - 1 = 0
    OBVIOUS
  <2> HIDE DEF chain
  <2>4. Chained(p, n, o, 1, chain)
    BY <1>2, <2>2, <2>3 DEF Chained
  <2> QED BY <2>4 DEF Reaches
<1> QED BY <1>1, <1>2

\* A longer one begins with a fact and goes on with a chain.
LEMMA ChainOfMore ==
  ASSUME QueryTypeOK, NEW p, NEW n, NEW o, NEW k \in Nat \ {0}
  PROVE  Reaches(p, n, o, k + 1) <=> \E x : Edge(p, n, x) /\ Reaches(p, x, o, k)
<1>1. /\ 0 \in 0 .. k /\ k \in 0 .. k /\ 1 \in 1 .. k + 1 /\ 1 - 1 = 0
      /\ \A i \in 0 .. k : i + 1 \in 0 .. k + 1 /\ (i + 1) - 1 = i
      /\ \A i \in 1 .. k : i + 1 \in 1 .. k + 1 /\ i - 1 \in 0 .. k /\ i \in 0 .. k /\ (i - 1) + 1 = i
      /\ \A i \in 1 .. k + 1 : i # 1 => i - 1 \in 1 .. k
      /\ \A i \in 0 .. k + 1 : i # 0 => i - 1 \in 0 .. k
  OBVIOUS
<1>2. ASSUME Reaches(p, n, o, k + 1) PROVE \E x : Edge(p, n, x) /\ Reaches(p, x, o, k)
  <2>1. PICK chain : Chained(p, n, o, k + 1, chain)
    BY <1>2 DEF Reaches
  <2> DEFINE rest == [i \in 0 .. k |-> chain[i + 1]]
  <2>2. rest \in [0 .. k -> visible \cup Term] /\ rest[0] = chain[1] /\ rest[k] = o
    BY <1>1, <2>1 DEF Chained
  <2>3. \A i \in 1 .. k : Edge(p, rest[i - 1], rest[i])
    <3> SUFFICES ASSUME NEW i \in 1 .. k PROVE Edge(p, rest[i - 1], rest[i])
      OBVIOUS
    <3>1. rest[i - 1] = chain[i] /\ rest[i] = chain[i + 1]
      BY <1>1
    <3>2. Edge(p, chain[(i + 1) - 1], chain[i + 1])
      BY <1>1, <2>1 DEF Chained
    <3>3. (i + 1) - 1 = i
      OBVIOUS
    <3> HIDE DEF rest
    <3> QED BY <3>1, <3>2, <3>3
  <2> HIDE DEF rest
  <2>4. Chained(p, chain[1], o, k, rest)
    BY <2>2, <2>3 DEF Chained
  <2>5. Edge(p, n, chain[1])
    BY <1>1, <2>1 DEF Chained
  <2> QED BY <2>4, <2>5 DEF Reaches
<1>3. ASSUME NEW x, Edge(p, n, x), Reaches(p, x, o, k) PROVE Reaches(p, n, o, k + 1)
  <2>1. PICK rest : Chained(p, x, o, k, rest)
    BY <1>3 DEF Reaches
  <2> DEFINE chain == [i \in 0 .. k + 1 |-> IF i = 0 THEN n ELSE rest[i - 1]]
  <2>2. n \in visible
    BY <1>3, RowTypes
  <2>3. /\ k + 1 \in 0 .. k + 1 /\ k + 1 # 0 /\ (k + 1) - 1 = k /\ 0 \in 0 .. k + 1
        /\ 1 \in 0 .. k + 1
    OBVIOUS
  <2>4. chain \in [0 .. k + 1 -> visible \cup Term] /\ chain[0] = n /\ chain[k + 1] = o /\ chain[1] = x
    BY <1>1, <2>1, <2>2, <2>3 DEF Chained
  <2>5. ASSUME NEW i \in 1 .. k + 1 PROVE Edge(p, chain[i - 1], chain[i])
    <3>1. CASE i = 1
      BY <1>3, <2>4, <3>1
    <3>2. CASE i # 1
      <4>1. /\ i - 1 \in 1 .. k /\ i - 1 # 0 /\ i # 0 /\ i - 1 \in 0 .. k + 1 /\ i \in 0 .. k + 1
        BY <3>2
      <4>2. chain[i - 1] = rest[(i - 1) - 1] /\ chain[i] = rest[i - 1]
        BY <4>1
      <4>3. Edge(p, rest[(i - 1) - 1], rest[i - 1])
        BY <2>1, <4>1 DEF Chained
      <4> HIDE DEF chain
      <4> QED BY <4>2, <4>3
    <3> QED BY <3>1, <3>2
  <2> HIDE DEF chain
  <2>6. Chained(p, n, o, k + 1, chain)
    BY <2>4, <2>5 DEF Chained
  <2> QED BY <2>6 DEF Reaches
<1> QED BY <1>2, <1>3

\* If two facts of a chain are one, the part between them may be left out.
LEMMA ChainCut ==
  ASSUME NEW p, NEW n, NEW o, NEW k \in Nat, NEW chain, Chained(p, n, o, k, chain),
         NEW i \in 1 .. k, NEW j \in 1 .. k, i < j, chain[i] = chain[j]
  PROVE  Reaches(p, n, o, k - (j - i))
<1> DEFINE d == j - i
           cut == [m \in 0 .. k - d |-> IF m <= i THEN chain[m] ELSE chain[m + d]]
<1>1. /\ d \in Nat \ {0} /\ k - d \in Nat /\ i <= k - d /\ i + d = j
      /\ \A m \in 0 .. k - d : m \in 0 .. k /\ m + d \in 0 .. k
      /\ 0 \in 0 .. k - d /\ k - d \in 0 .. k - d /\ (k - d) + d = k /\ 0 <= i
      /\ (k - d <= i => k - d = i /\ j = k)
  OBVIOUS
<1>2. cut \in [0 .. k - d -> visible \cup Term]
  BY <1>1 DEF Chained
<1>3. cut[0] = n
  BY <1>1 DEF Chained
<1>4. cut[k - d] = o
  <2>1. cut[k - d] = IF k - d <= i THEN chain[k - d] ELSE chain[(k - d) + d]
    BY <1>1
  <2>2. chain[k] = o
    BY DEF Chained
  <2> HIDE DEF cut, d
  <2> QED BY <1>1, <2>1, <2>2
<1>5. ASSUME NEW m \in 1 .. k - d PROVE Edge(p, cut[m - 1], cut[m])
  <2>1. m - 1 \in 0 .. k - d /\ m \in 0 .. k - d
    BY <1>1
  <2>2. /\ cut[m - 1] = IF m - 1 <= i THEN chain[m - 1] ELSE chain[(m - 1) + d]
        /\ cut[m] = IF m <= i THEN chain[m] ELSE chain[m + d]
    BY <2>1
  <2>3. \A x \in 1 .. k : Edge(p, chain[x - 1], chain[x])
    BY DEF Chained
  <2>4. CASE m <= i
    <3>1. m \in 1 .. k /\ m - 1 <= i
      BY <1>1, <2>4
    <3> HIDE DEF cut, d
    <3> QED BY <2>2, <2>3, <2>4, <3>1
  <2>5. CASE m = i + 1
    <3>1. m - 1 = i /\ m - 1 <= i /\ ~(m <= i) /\ m + d = j + 1 /\ m + d \in 1 .. k /\ (m + d) - 1 = j
      BY <1>1, <2>5
    <3> HIDE DEF cut, d
    <3>2. cut[m - 1] = chain[j] /\ cut[m] = chain[m + d]
      BY <2>2, <3>1
    <3>3. Edge(p, chain[(m + d) - 1], chain[m + d])
      BY <2>3, <3>1
    <3> QED BY <3>1, <3>2, <3>3
  <2>6. CASE m > i + 1
    <3>1. ~(m - 1 <= i) /\ ~(m <= i) /\ m + d \in 1 .. k /\ (m - 1) + d = (m + d) - 1
      BY <1>1, <2>6
    <3> HIDE DEF cut, d
    <3>2. cut[m - 1] = chain[(m + d) - 1] /\ cut[m] = chain[m + d]
      BY <2>2, <3>1
    <3> QED BY <2>3, <3>1, <3>2
  <2> QED BY <2>4, <2>5, <2>6
<1> HIDE DEF cut, d
<1>6. Chained(p, n, o, k - d, cut)
  BY <1>2, <1>3, <1>4, <1>5 DEF Chained
<1> QED BY <1>6 DEF Reaches, d

\* The shortest chain is not longer than there are facts.
LEMMA ShortChain ==
  ASSUME QueryTypeOK, NEW p, NEW n, NEW o, NEW l \in Nat \ {0}, Reaches(p, n, o, l)
  PROVE  \E k \in 1 .. Cardinality(rows) : Reaches(p, n, o, k)
<1> DEFINE T == {k \in Nat : k # 0 /\ Reaches(p, n, o, k)}
<1>1. l \in T /\ T \in SUBSET Nat
  OBVIOUS
<1>2. PICK k \in T : \A x \in T : k <= x
  <2> HIDE DEF T
  <2> QED BY <1>1, LeastNumber
<1>3. k \in Nat \ {0} /\ Reaches(p, n, o, k)
  OBVIOUS
<1>4. PICK chain : Chained(p, n, o, k, chain)
  BY <1>3 DEF Reaches
<1> DEFINE e == [i \in 1 .. k |-> CHOOSE r \in AuthFacts :
                                     r.subject = chain[i - 1] /\ r.predicate = p /\ r.object = chain[i]]
<1>5. \A i \in 1 .. k : e[i] \in AuthFacts /\ e[i].object = chain[i]
  <2> SUFFICES ASSUME NEW i \in 1 .. k PROVE e[i] \in AuthFacts /\ e[i].object = chain[i]
    OBVIOUS
  <2>1. Edge(p, chain[i - 1], chain[i])
    BY <1>4 DEF Chained
  <2> QED BY <2>1 DEF Edge
<1> HIDE DEF e
<1>6. \A i, j \in 1 .. k : i < j => e[i] # e[j]
  <2> SUFFICES ASSUME NEW i \in 1 .. k, NEW j \in 1 .. k, i < j, e[i] = e[j] PROVE FALSE
    OBVIOUS
  <2>1. chain[i] = chain[j]
    BY <1>5
  <2>2. Reaches(p, n, o, k - (j - i))
    BY <1>3, <1>4, <2>1, ChainCut
  <2>3. k - (j - i) \in Nat /\ k - (j - i) # 0 /\ ~(k <= k - (j - i))
    BY <1>3
  <2> QED BY <1>2, <2>2, <2>3
<1>7. e \in Injection(1 .. k, rows)
  <2>1. e \in [1 .. k -> rows]
    BY <1>5 DEF AuthFacts, e
  <2>2. \A i, j \in 1 .. k : e[i] = e[j] => i = j
    BY <1>3, <1>6
  <2> QED BY <2>1, <2>2 DEF Injection, IsInjective
<1>8. IsFiniteSet(rows) /\ Cardinality(rows) \in Nat
  BY RowTypes, FS_CardinalityType
<1>9. Cardinality(1 .. k) = k
  BY <1>3, FS_Interval
<1>10. k <= Cardinality(rows)
  BY <1>7, <1>8, <1>9, FS_Injection
<1> QED BY <1>3, <1>8, <1>10

-----------------------------------------------------------------------------
\* The rounds of the recursive query
Rounds(p, o) ==
  LET below[n \in Nat] ==
        IF n = 0 THEN Subjects(AuthFacts, p, o)
        ELSE LET before == below[n - 1]
             IN  before \cup UNION {Subjects(AuthFacts, p, x) : x \in before}
  IN  below

\* ... are well-defined: each follows from the one before.
LEMMA RoundsAreDefined ==
  ASSUME QueryTypeOK, NEW p, NEW o
  PROVE  /\ Rounds(p, o)[0] = Subjects(AuthFacts, p, o)
         /\ \A n \in Nat : Rounds(p, o)[n + 1] =
              Rounds(p, o)[n] \cup UNION {Subjects(AuthFacts, p, x) : x \in Rounds(p, o)[n]}
<1> DEFINE S == SUBSET {r.subject : r \in AuthFacts}
           g == [s \in S |-> s \cup UNION {Subjects(AuthFacts, p, x) : x \in s}]
           Defined(f) == f = [n \in Nat |->
                          IF n = 0 THEN Subjects(AuthFacts, p, o)
                          ELSE f[n - 1] \cup UNION {Subjects(AuthFacts, p, x) : x \in f[n - 1]}]
<1>1. \A x : Subjects(AuthFacts, p, x) \in S
  BY DEF Subjects
<1>2. g \in [S -> S]
  BY <1>1
<1> HIDE DEF g
<1>3. PICK f \in [Nat -> S] : f[0] = Subjects(AuthFacts, p, o) /\ \A n \in Nat : f[n + 1] = g[f[n]]
  <2> DEFINE a == Subjects(AuthFacts, p, o)
  <2>1. a \in S
    BY <1>1
  <2> HIDE DEF S, a
  <2>2. \E f : Iterates(f, g, a, S)
    BY <1>2, <2>1, Iteration
  <2> QED BY <2>2 DEF a, Iterates
<1>4. Defined(f)
  <2>1. ASSUME NEW n \in Nat, n # 0
        PROVE  f[n] = f[n - 1] \cup UNION {Subjects(AuthFacts, p, x) : x \in f[n - 1]}
    <3>1. n - 1 \in Nat /\ (n - 1) + 1 = n
      BY <2>1
    <3>2. f[n - 1] \in S /\ f[n] = g[f[n - 1]]
      BY <1>3, <3>1
    <3> HIDE DEF S
    <3> QED BY <3>2 DEF g
  <2> HIDE DEF S
  <2> QED BY <1>3, <2>1
<1>5. Rounds(p, o) = CHOOSE h : Defined(h)
  BY DEF Rounds
<1> HIDE DEF Defined
<1>6. Defined(Rounds(p, o))
  BY <1>4, <1>5
<1> HIDE <1>5
<1>7. \A n \in Nat : n + 1 \in Nat /\ n + 1 # 0 /\ (n + 1) - 1 = n
  OBVIOUS
<1> QED BY <1>6, <1>7 DEF Defined

\* After k rounds the recursion has found what a chain of k + 1 facts at most leads from.
LEMMA RoundsFollowChains ==
  ASSUME QueryTypeOK, NEW p, NEW o
  PROVE  \A k \in Nat : \A n : n \in Rounds(p, o)[k] <=> \E l \in 1 .. k + 1 : Reaches(p, n, o, l)
<1> DEFINE T == {k \in Nat : \A n : n \in Rounds(p, o)[k] <=> \E l \in 1 .. k + 1 : Reaches(p, n, o, l)}
<1>1. \A n, x : n \in Subjects(AuthFacts, p, x) <=> Edge(p, n, x)
  BY DEF Subjects, Edge
<1>2. 0 \in T
  <2>1. \A l \in 1 .. 0 + 1 : l = 1
    OBVIOUS
  <2>2. 1 \in 1 .. 0 + 1
    OBVIOUS
  <2> QED BY <1>1, <2>1, <2>2, RoundsAreDefined, ChainOfOne
<1>3. ASSUME NEW k \in T PROVE k + 1 \in T
  <2> SUFFICES ASSUME NEW n
               PROVE  n \in Rounds(p, o)[k + 1] <=> \E l \in 1 .. (k + 1) + 1 : Reaches(p, n, o, l)
    OBVIOUS
  <2>1. k \in Nat /\ \A m : m \in Rounds(p, o)[k] <=> \E l \in 1 .. k + 1 : Reaches(p, m, o, l)
    OBVIOUS
  <2> HIDE DEF T
  <2>2. n \in Rounds(p, o)[k + 1] <=>
          n \in Rounds(p, o)[k] \/ \E x \in Rounds(p, o)[k] : Edge(p, n, x)
    <3>1. Rounds(p, o)[k + 1] =
            Rounds(p, o)[k] \cup UNION {Subjects(AuthFacts, p, x) : x \in Rounds(p, o)[k]}
      BY <2>1, RoundsAreDefined
    <3> QED BY <1>1, <3>1
  <2>3. \A l \in 1 .. k + 1 : Reaches(p, n, o, l + 1) <=> \E x : Edge(p, n, x) /\ Reaches(p, x, o, l)
    <3>1. \A l \in 1 .. k + 1 : l \in Nat \ {0}
      OBVIOUS
    <3> QED BY <3>1, ChainOfMore
  <2>4. /\ \A l \in 1 .. k + 1 : l \in 1 .. (k + 1) + 1 /\ l + 1 \in 1 .. (k + 1) + 1
        /\ \A l \in 1 .. (k + 1) + 1 : l # 1 => l - 1 \in 1 .. k + 1 /\ (l - 1) + 1 = l
        /\ 1 \in 1 .. k + 1
    BY <2>1
  <2>5. ASSUME n \in Rounds(p, o)[k + 1] PROVE \E l \in 1 .. (k + 1) + 1 : Reaches(p, n, o, l)
    <3>1. CASE n \in Rounds(p, o)[k]
      BY <2>1, <2>4, <3>1
    <3>2. CASE \E x \in Rounds(p, o)[k] : Edge(p, n, x)
      <4>1. PICK x \in Rounds(p, o)[k] : Edge(p, n, x)
        BY <3>2
      <4>2. PICK l \in 1 .. k + 1 : Reaches(p, x, o, l)
        BY <2>1
      <4>3. Reaches(p, n, o, l + 1)
        BY <2>3, <4>1, <4>2
      <4> QED BY <2>4, <4>3
    <3> QED BY <2>2, <2>5, <3>1, <3>2
  <2>6. ASSUME NEW l \in 1 .. (k + 1) + 1, Reaches(p, n, o, l) PROVE n \in Rounds(p, o)[k + 1]
    <3>1. CASE l = 1
      BY <2>1, <2>2, <2>4, <2>6, <3>1
    <3>2. CASE l # 1
      <4> DEFINE j == l - 1
      <4>1. j \in 1 .. k + 1 /\ j + 1 = l
        BY <2>4, <3>2
      <4> HIDE DEF j
      <4>2. Reaches(p, n, o, j + 1)
        BY <2>6, <4>1
      <4>3. PICK x : Edge(p, n, x) /\ Reaches(p, x, o, j)
        BY <2>3, <4>1, <4>2
      <4>4. x \in Rounds(p, o)[k]
        BY <2>1, <4>1, <4>3
      <4> QED BY <2>2, <4>3, <4>4
    <3> QED BY <3>1, <3>2
  <2> QED BY <2>5, <2>6
<1>4. T \in SUBSET Nat
  OBVIOUS
<1>5. T = Nat
  <2> HIDE DEF T
  <2> QED BY <1>2, <1>3, <1>4, NumbersByInduction
<1> QED BY <1>5

\* The recursion finds the nodes that a chain of visible facts links, of whatever length.
LEMMA BelowIsLinked ==
  ASSUME QueryTypeOK, NEW p, NEW o, NEW n
  PROVE  n \in Below(p, o) <=> Linked(p, n, o)
<1> DEFINE N == Cardinality(rows)
<1>1. N \in Nat
  BY RowTypes, FS_CardinalityType
<1>2. Below(p, o) = Rounds(p, o)[N]
  BY DEF Below, Rounds
<1> HIDE DEF N
<1>3. n \in Below(p, o) <=> \E l \in 1 .. N + 1 : Reaches(p, n, o, l)
  BY <1>1, <1>2, RoundsFollowChains
<1>4. (\E l \in 1 .. N + 1 : Reaches(p, n, o, l)) <=> \E l \in 1 .. N : Reaches(p, n, o, l)
  <2>1. ASSUME NEW l \in 1 .. N + 1, Reaches(p, n, o, l) PROVE \E k \in 1 .. N : Reaches(p, n, o, k)
    <3>1. l \in Nat \ {0}
      BY <1>1
    <3> QED BY <2>1, <3>1, ShortChain DEF N
  <2>2. \A l \in 1 .. N : l \in 1 .. N + 1
    BY <1>1
  <2> QED BY <2>1, <2>2
<1>5. ASSUME NEW l \in 1 .. N
      PROVE  Reaches(p, n, o, l) <=>
               \E chain \in [0 .. l -> visible \cup Term] :
                 /\ chain[0] = n /\ chain[l] = o
                 /\ \A i \in 1 .. l : \E r \in rows :
                      r.subject = chain[i - 1] /\ r.predicate = p /\ r.object = chain[i]
  <2>1. ASSUME NEW chain \in [0 .. l -> visible \cup Term]
        PROVE  (\A i \in 1 .. l : Edge(p, chain[i - 1], chain[i])) <=>
               \A i \in 1 .. l : \E r \in rows :
                 r.subject = chain[i - 1] /\ r.predicate = p /\ r.object = chain[i]
    <3>1. \A i \in 1 .. l : i - 1 \in 0 .. l /\ i \in 0 .. l
      BY <1>1
    <3>2. \A i \in 1 .. l : chain[i - 1] \in visible \cup Term /\ chain[i] \in visible \cup Term
      BY <3>1
    <3> QED BY <3>2, RowTypes DEF Edge, AuthFacts
  <2> QED BY <2>1 DEF Reaches, Chained
<1> QED BY <1>3, <1>4, <1>5 DEF Linked, N

-----------------------------------------------------------------------------
\* What a clause asks of a node, once the latest column is up to date: what its part of the
\* statement selects, or lets pass.
LEMMA ClauseMeans ==
  ASSUME QueryInv, AllSettled, NEW c \in Clause, NEW n
  PROVE  /\ c.kind = "is" => (n \in SelectSubjects(c) <=> n \in visible /\ Means(c, n))
         /\ c.kind \in Modifier => (PassesModifier(c, n) <=> Means(c, n))
         /\ c.kind = "of" => (n \in Objects(AuthFacts, c.node, c.predicate) <=> Means(c, n))
         /\ c.kind = "notOf" => (n \notin Objects(AuthFacts, c.node, c.predicate) <=> Means(c, n))
<1>1. /\ c.predicate \in Relation /\ c.kind \in {"is", "of", "notOf", "isNot", "latestIs", "latestIsNot"}
      /\ c.kind \in {"of", "notOf"} => c.node \in Entity
  BY DEF Clause, Modifier
<1>2. \A r : r \in AuthFacts <=> r \in rows /\ Seen(r)
  BY DEF AuthFacts, Seen
<1>3. \A r \in rows : r.subject \in Entity /\ r.predicate \in Relation
  BY DEF QueryInv, QueryTypeOK, Row
<1>4. \A s, p, o : s \in Subjects(AuthFacts, p, o) <=> \E r \in About(s, p) : Seen(r) /\ r.object = o
  BY <1>2 DEF Subjects, About
<1>5. \A s, p, o : o \in Objects(AuthFacts, s, p) <=> \E r \in About(s, p) : Seen(r) /\ r.object = o
  BY <1>2 DEF Objects, About
<1>6. n \in LatestSubjects(c) <=> LatestIs(n, c.predicate, c.node)
  <2>1. \A r \in rows : r.latest <=> IsNewest(r)
    BY <1>3 DEF QueryInv, LatestIsNewest, AllSettled
  <2> QED BY <1>2, <2>1 DEF LatestSubjects, LatestIs, Subjects, About
<1>7. CASE c.kind = "is"
  <2>1. CASE c.predicate \in Transitive
    <3>1. n \in SelectSubjects(c) <=> Linked(c.predicate, n, c.node)
      BY <2>1, BelowIsLinked DEF SelectSubjects, QueryInv
    <3>2. Means(c, n) <=> Linked(c.predicate, n, c.node)
      BY <1>7, <2>1 DEF Means
    <3>3. Linked(c.predicate, n, c.node) => n \in visible
      <4> SUFFICES ASSUME n \in Below(c.predicate, c.node) PROVE n \in visible
        BY BelowIsLinked DEF QueryInv
      <4>1. PICK k \in Nat : n \in Rounds(c.predicate, c.node)[k]
        <5>1. Cardinality(rows) \in Nat
          BY RowTypes, FS_CardinalityType DEF QueryInv
        <5>2. Below(c.predicate, c.node) = Rounds(c.predicate, c.node)[Cardinality(rows)]
          BY DEF Below, Rounds
        <5> QED BY <5>1, <5>2
      <4>2. PICK l \in 1 .. k + 1 : Reaches(c.predicate, n, c.node, l)
        BY <4>1, RoundsFollowChains DEF QueryInv
      <4>3. PICK chain : Chained(c.predicate, n, c.node, l, chain)
        BY <4>2 DEF Reaches
      <4>4. 1 \in 1 .. l /\ 1 - 1 = 0
        OBVIOUS
      <4>5. Edge(c.predicate, n, chain[1])
        BY <4>3, <4>4 DEF Chained
      <4> QED BY <4>5 DEF Edge, AuthFacts
    <3> QED BY <1>7, <3>1, <3>2, <3>3 DEF Modifier
  <2>2. CASE c.predicate \notin Transitive
    <3>1. SelectSubjects(c) = Subjects(AuthFacts, c.predicate, c.node)
      BY <2>2 DEF SelectSubjects
    <3>2. Means(c, n) <=> \E r \in About(n, c.predicate) : Seen(r) /\ r.object = c.node
      BY <1>7, <2>2 DEF Means
    <3>3. \A r \in About(n, c.predicate) : Seen(r) => n \in visible
      BY DEF About, Seen
    <3> QED BY <1>4, <1>7, <3>1, <3>2, <3>3 DEF Modifier
  <2> QED BY <2>1, <2>2
<1>8. CASE c.kind = "isNot"
  <2>1. Means(c, n) <=> ~\E r \in About(n, c.predicate) : Seen(r) /\ r.object = c.node
    BY <1>8 DEF Means
  <2>2. PassesModifier(c, n) <=> n \notin Subjects(AuthFacts, c.predicate, c.node)
    BY <1>8 DEF PassesModifier
  <2> QED BY <1>4, <1>8, <2>1, <2>2 DEF Modifier
<1>9. CASE c.kind = "latestIs"
  <2>1. (Means(c, n) <=> LatestIs(n, c.predicate, c.node)) /\ (PassesModifier(c, n) <=> n \in LatestSubjects(c))
    BY <1>9 DEF Means, PassesModifier
  <2> QED BY <1>6, <1>9, <2>1 DEF Modifier
<1>10. CASE c.kind = "latestIsNot"
  <2>1. /\ Means(c, n) <=> ~LatestIs(n, c.predicate, c.node)
        /\ PassesModifier(c, n) <=> n \notin LatestSubjects(c)
    BY <1>10 DEF Means, PassesModifier
  <2> QED BY <1>6, <1>10, <2>1 DEF Modifier
<1>11. CASE c.kind = "of"
  <2>1. Means(c, n) <=> \E r \in About(c.node, c.predicate) : Seen(r) /\ r.object = n
    BY <1>11 DEF Means
  <2> QED BY <1>5, <1>11, <2>1 DEF Modifier
<1>12. CASE c.kind = "notOf"
  <2>1. Means(c, n) <=> ~\E r \in About(c.node, c.predicate) : Seen(r) /\ r.object = n
    BY <1>12 DEF Means
  <2> QED BY <1>5, <1>12, <2>1 DEF Modifier
<1> QED BY <1>1, <1>7, <1>8, <1>9, <1>10, <1>11, <1>12

\* A query with a plain clause, whatever else it has, finds the nodes that all its clauses mean.
LEMMA NodesFound ==
  ASSUME QueryInv, AllSettled, NEW query \in SUBSET Clause, NEW c \in query, c.kind = "is", NEW n
  PROVE  n \in FindNodes(query) <=> n \in visible /\ \A x \in query : Means(x, n)
<1> DEFINE selects == SubjectSelects(query) \cup ObjectSelects(query)
           Selected(x) == {m \in SelectSubjects(x) : \A y \in OfKind(query, Modifier) : PassesModifier(y, m)}
<1>1. /\ \A x \in query : x \in Clause
      /\ \A x, kinds : x \in OfKind(query, kinds) <=> x \in query /\ x.kind \in kinds
      /\ \A x \in query : x.kind \in {"is", "of", "notOf"} \cup Modifier
  BY DEF OfKind, Clause
<1>2. SubjectSelects(query) = {Selected(x) : x \in OfKind(query, {"is"})}
  BY DEF SubjectSelects
<1>3. \A x, m : m \in Selected(x) <=>
        m \in SelectSubjects(x) /\ \A y \in OfKind(query, Modifier) : PassesModifier(y, m)
  OBVIOUS
<1>4. Selected(c) \in selects
  BY <1>1, <1>2
<1>5. n \in FindNodes(query) <=> (\A select \in selects : n \in select) /\ n \notin Blacklist(query)
  <2>1. FindNodes(query) =
          {m \in UNION selects : \A select \in selects : m \in select} \ Blacklist(query)
    BY <1>4 DEF FindNodes
  <2> HIDE DEF selects
  <2> QED BY <1>4, <2>1
<1>6. (\A select \in selects : n \in select) <=>
        /\ \A x \in query : x.kind = "is" => n \in Selected(x)
        /\ \A x \in query : x.kind = "of" => n \in Objects(AuthFacts, x.node, x.predicate)
  <2>1. ObjectSelects(query) = {Objects(AuthFacts, x.node, x.predicate) : x \in OfKind(query, {"of"})}
    BY DEF ObjectSelects
  <2> HIDE DEF Selected
  <2> QED BY <1>1, <1>2, <2>1
<1> HIDE DEF Selected, selects
<1>7. n \notin Blacklist(query) <=>
        \A x \in query : x.kind = "notOf" => n \notin Objects(AuthFacts, x.node, x.predicate)
  BY <1>1 DEF Blacklist
<1>8. \A x \in query :
        /\ x.kind = "is" => (n \in SelectSubjects(x) <=> n \in visible /\ Means(x, n))
        /\ x.kind \in Modifier => (PassesModifier(x, n) <=> Means(x, n))
        /\ x.kind = "of" => (n \in Objects(AuthFacts, x.node, x.predicate) <=> Means(x, n))
        /\ x.kind = "notOf" => (n \notin Objects(AuthFacts, x.node, x.predicate) <=> Means(x, n))
  BY <1>1, ClauseMeans
<1>9. ASSUME n \in FindNodes(query) PROVE n \in visible /\ \A x \in query : Means(x, n)
  <2>1. n \in Selected(c) /\ n \in visible
    BY <1>3, <1>5, <1>6, <1>8, <1>9
  <2>2. ASSUME NEW x \in query PROVE Means(x, n)
    <3>1. CASE x.kind = "is"
      BY <1>3, <1>5, <1>6, <1>8, <1>9, <3>1
    <3>2. CASE x.kind \in Modifier
      BY <1>1, <1>3, <1>8, <2>1, <3>2
    <3>3. CASE x.kind = "of"
      BY <1>5, <1>6, <1>8, <1>9, <3>3
    <3>4. CASE x.kind = "notOf"
      BY <1>5, <1>7, <1>8, <1>9, <3>4
    <3> QED BY <1>1, <3>1, <3>2, <3>3, <3>4
  <2> QED BY <2>1, <2>2
<1>10. ASSUME n \in visible, \A x \in query : Means(x, n) PROVE n \in FindNodes(query)
  <2>1. \A y \in OfKind(query, Modifier) : PassesModifier(y, n)
    BY <1>1, <1>8, <1>10
  <2>2. \A x \in query : x.kind = "is" => n \in Selected(x)
    BY <1>3, <1>8, <1>10, <2>1
  <2>3. \A x \in query : x.kind = "of" => n \in Objects(AuthFacts, x.node, x.predicate)
    BY <1>8, <1>10
  <2>4. n \notin Blacklist(query)
    BY <1>7, <1>8, <1>10
  <2> QED BY <1>5, <1>6, <2>2, <2>3, <2>4
<1> QED BY <1>9, <1>10

\* What the facts say of every clause and every node the user may see
LEMMA FitsMean ==
  \A c \in Clause : \A n : << c, n >> \in Fits <=> n \in visible /\ Means(c, n)
<1> DEFINE Of(c) == {<< c, n >> : n \in {m \in visible : Means(c, m)}}
<1>1. \A c, d, n : << c, n >> \in Of(d) <=> c = d /\ n \in visible /\ Means(c, n)
  OBVIOUS
<1>2. Fits = UNION {Of(c) : c \in Clause}
  BY DEF Fits
<1> HIDE DEF Of
<1> QED BY <1>1, <1>2

\* A query of any number of clauses, a plain one among them, finds the records it describes in
\* the words of the documentation, with and without the filter for key-value records.
LEMMA QueryAgrees ==
  ASSUME QueryInv, AllSettled, NEW query \in SUBSET Clause, NEW c \in query, c.kind = "is"
  PROVE  Agrees(Fits, query)
<1> DEFINE found == {n \in visible : \A x \in query : << x, n >> \in Fits}
<1>1. found = FindNodes(query)
  <2>1. \A x \in query : x \in Clause
    OBVIOUS
  <2>2. \A n : n \in found <=> n \in visible /\ \A x \in query : Means(x, n)
    BY <2>1, FitsMean
  <2> HIDE DEF found
  <2> QED BY <2>2, NodesFound
<1> HIDE DEF found
<1>2. \A onlyKeyValue \in BOOLEAN :
        ResolveToRecords(query, onlyKeyValue) = found \cap (IF onlyKeyValue THEN KeyValue ELSE Loadable)
  BY <1>1, QueriesAssumption DEF ResolveToRecords, ResolveToIds
<1> QED BY <1>2 DEF Agrees, found

\* A query for facts finds those whose subject and object are what its clauses describe.
LEMMA FactsFound ==
  ASSUME QueryInv, AllSettled, NEW c \in Clause, NEW d \in Clause, c.kind = "is", d.kind = "is", NEW p
  PROVE  FactsAgree(Fits, c, p, d)
<1>1. \A n : /\ n \in SelectSubjects(c) <=> << c, n >> \in Fits
             /\ n \in SelectSubjects(d) <=> << d, n >> \in Fits
  BY ClauseMeans, FitsMean
<1>2. \A r : r \in FindFacts({c}, {p}, {d}) <=>
        /\ r \in AuthFacts /\ r.predicate = p
        /\ r.subject \in SelectSubjects(c) /\ r.object \in SelectSubjects(d)
  BY DEF FindFacts
<1>3. \A r : r \in AuthFacts <=> r \in rows /\ Seen(r)
  BY DEF AuthFacts, Seen
<1> QED BY <1>1, <1>2, <1>3 DEF FactsAgree

\* Whatever facts there are and whoever asks, a settled query finds what its clauses mean over the
\* facts the user may see: it misses nothing behind a chain of facts and shows nothing hidden.
THEOREM QueriesAnswerWhatTheyAsk == QuerySpec => []AnswersMeanWhatTheySay
<1>1. QueryInv => AnswersMeanWhatTheySay
  <2> SUFFICES ASSUME QueryInv, AllSettled PROVE AnswersMeanWhatTheySay
    BY DEF AnswersMeanWhatTheySay
  <2>1. \A c : c \in OfKind(Clause, {"is"}) <=> c \in Clause /\ c.kind = "is"
    BY DEF OfKind
  <2>2. \A c \in OfKind(Clause, {"is"}), d \in Clause : Agrees(Fits, {c, d})
    <3> SUFFICES ASSUME NEW c \in Clause, c.kind = "is", NEW d \in Clause PROVE Agrees(Fits, {c, d})
      BY <2>1
    <3>1. {c, d} \in SUBSET Clause /\ c \in {c, d}
      OBVIOUS
    <3> QED BY <3>1, QueryAgrees
  <2>3. \A c, d \in OfKind(Clause, {"is"}), p \in Relation : FactsAgree(Fits, c, p, d)
    BY <2>1, FactsFound
  <2> QED BY <2>2, <2>3 DEF AnswersMeanWhatTheySay
<1> QED BY QueryInvInit, QueryInvStep, <1>1, PTL DEF QuerySpec

\* ... and so does a query of any number of clauses, a plain one among them.
AnyQueryAgrees ==
  AllSettled =>
    \A query \in SUBSET Clause : OfKind(query, {"is"}) # {} => Agrees(Fits, query)

\* Clauses do not disturb each other, however many there are: each one restricts the answer to
\* what it means, whatever the order and the duplicates (resolveToIds intersects the selects).
THEOREM AnyQueryAnswered == QuerySpec => []AnyQueryAgrees
<1>1. QueryInv => AnyQueryAgrees
  <2> SUFFICES ASSUME QueryInv, AllSettled, NEW query \in SUBSET Clause, NEW c \in OfKind(query, {"is"})
               PROVE  Agrees(Fits, query)
    BY DEF AnyQueryAgrees
  <2>1. c \in query /\ c.kind = "is"
    BY DEF OfKind
  <2> QED BY <2>1, QueryAgrees
<1> QED BY QueryInvInit, QueryInvStep, <1>1, PTL DEF QuerySpec

=============================================================================
