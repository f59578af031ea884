--------------------------- MODULE FactBoxesHistory ---------------------------
(***************************************************************************)
(* What is kept together while several requests are served at once.        *)
(*                                                                         *)
(* A request reads where the facts about its records are, and moves them   *)
(* and inserts its own in later statements. Another request that moves or  *)
(* places facts about the same record meanwhile can leave them in two      *)
(* boxes (run boxes_race). And users may use each other as groups: a user  *)
(* is in no one place, and what is said about one is not kept together.    *)
(* Two history variables keep the records and the users that this can have *)
(* happened to; they add nothing to what the requests of FactBoxes do. The *)
(* properties are about all others, whatever requests are being served.    *)
(***************************************************************************)
EXTENDS FactBoxes

VARIABLES
  contested,  \* the records that two requests got hold of at once
  grouped     \* the users that were used as groups

historyVars ==
  << rows, assigned, boxes, graphs, records, requests, count, contested, grouped >>

\* The request is past its last check.
Acting(r) == r.at # "checked" \/ (r.kind = "save" /\ r.fact.p # Accountable)

\* The records a fact is about
About(f) == {f.s, f.o} \ User
PlaceOf(x) == [box |-> x.box, graph |-> x.graph]

\* The request is about the record, or found facts about another one in its place.
GotHold(r, record) ==
  \/ record \in About(r.fact)
  \/ \E x \in RowsAbout(record) : PlaceOf(x) \in {r.found.s, r.found.o}

\* Two requests have got hold of the record at once, and one of them is about it.
Contested ==
  {record \in Record : \E r, q \in requests :
     /\ r # q /\ Acting(r) /\ Acting(q)
     /\ record \in About(q.fact) /\ GotHold(r, record)}

\* Somebody or something has a role in the user.
Grouped == {f.o : f \in {g \in Facts : g.p \in Role}} \cap User

HistoryInit == Init /\ contested = {} /\ grouped = {}
HistoryNext ==
  /\ Next
  /\ contested' = contested \cup Contested'
  /\ grouped' = grouped \cup Grouped'
HistorySpec == HistoryInit /\ [][HistoryNext]_historyVars

-----------------------------------------------------------------------------
(* Properties *)

\* Facts that are about one record are in one place, so that a query that finds one of them
\* finds all: at every moment, whatever moves, merges and transfers are being served and
\* whatever became of other records, unless two requests have got hold of this one at once.
UncontestedInOnePlace ==
  \A record \in Created \ contested :
    \A x, y \in RowsAbout(record) : PlaceOf(x) = PlaceOf(y)

\* No two requests have got hold of one record, and no user is used as a group.
Undisturbed == contested = {} /\ grouped = {}

\* Looking into one's own boxes loses nothing: what a user has a role in, directly, by
\* way of a group or of its members, is the same with all facts and with those in scope,
\* as long as no two requests have got hold of one record and no user is used as a group.
ScopeLosesNothing ==
  Quiet /\ Undisturbed => \A u \in User, p \in Predicate :
    Accessible(Seen(u), u, {p}) = Accessible(Facts, u, {p})

\* Whoever gains or loses a role in something when a fact is saved or deleted, by whatever
\* chain of groups and members, is among those whose subscribed queries are announced to have
\* changed: those are found by the box of that one fact, as long as no two requests have got
\* hold of one record and no user is used as a group.
ChangesAreNotified ==
  [][Facts' # Facts /\ Undisturbed' =>
       \A u \in User :
         (\E p \in Predicate : Accessible(Facts', u, {p}) # Accessible(Facts, u, {p})) =>
           \E x \in (rows \ rows') \cup (rows' \ rows) : u \in Notified(x)]_historyVars

\* Boxes change nothing about who may do what: what a request that is served alone does to
\* the facts is what it would do if every query looked at all of them, as long as no two
\* requests have got hold of one record and no user is used as a group.
BoxesGoUnnoticed ==
  [][Cardinality(requests \cup requests') <= 1 /\ Undisturbed' =>
       [Unboxed!Next]_(Unboxed!vars)]_historyVars

=============================================================================
