----------------------------- MODULE FactsHistory -----------------------------
(***************************************************************************)
(* Who is accountable while several requests are served at once.           *)
(*                                                                         *)
(* Two requests about the accountability of one record, both past their    *)
(* last check, undo each other's work (run facts_transfer). A history      *)
(* variable keeps the records that this has happened to; it adds nothing   *)
(* to what the requests of Facts do. The properties are about all other    *)
(* records, however many requests are being served.                        *)
(***************************************************************************)
EXTENDS Facts

VARIABLE contested  \* the records two requests were changing the accountability of at once

historyVars == << facts, records, requests, count, contested >>

\* The request is past its last check and may change who is accountable for the record.
Underway(r, record) == r.fact.p = Accountable /\ r.fact.o = record /\ r.at # "checked"

Contested ==
  {record \in Record :
     \E r, q \in requests : r # q /\ Underway(r, record) /\ Underway(q, record)}

HistoryInit == Init /\ contested = {}
HistoryNext == Next /\ contested' = contested \cup Contested'
HistorySpec == HistoryInit /\ [][HistoryNext]_historyVars

-----------------------------------------------------------------------------
(* Properties *)

\* A transfer of the record is deleting the old accountability to insert the new one.
Replacing(record) == \E r \in requests : Underway(r, record) /\ r.at = "replacing"

\* "Exactly one entity can be accountable for a resource at any time": however many users
\* save, transfer and delete at once, a record has exactly one accountable user or group,
\* unless one of its transfers is between its statements or two requests about its
\* accountability have run into each other. Nothing else that goes on at the same time, no
\* invitation, no request about another record, gets in between.
UncontestedHaveOne ==
  \A record \in Created \ contested :
    ~Replacing(record) => Cardinality(AccountabilityOf(record)) = 1

\* Accountability that went to a group stays there: no request, of a member or of the
\* former owner, takes it back, passes it on or deletes it, whatever else is being served,
\* unless it had passed its check before the group got it, together with the transfer that
\* gave it to the group.
UncontestedStayWithGroups ==
  [][\A f \in facts : f.p = Accountable /\ f.s \in Record /\ f.o \in Record \ contested =>
       f \in facts']_historyVars

=============================================================================
