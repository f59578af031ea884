------------------------------ MODULE FactBoxes ------------------------------
(***************************************************************************)
(* Where facts are kept, and who looks there.                              *)
(*                                                                         *)
(* Every fact is in a box. What a user keeps alone is in the user's own    *)
(* box, one graph for each set of connected records. When somebody else    *)
(* is given a role in one of them, the graph moves to a new box that both  *)
(* users are assigned to, and a fact that connects two records brings      *)
(* their graphs or boxes together. Queries, those that authorize requests  *)
(* included, look only at the boxes of the user who asks; the promise is   *)
(* that nobody notices: FactBoxes implements Facts.                        *)
(*                                                                         *)
(* Saving a fact looks up where its subject and its object are, moves rows *)
(* as needed and inserts, in statements of their own.                      *)
(*                                                                         *)
(* Terms, which have a box of their own that everybody looks at, the cache *)
(* of a user's boxes, and compositions are left out.                       *)
(***************************************************************************)
EXTENDS Authorization, Integers, FiniteSets

CONSTANTS
  Record,       \* the records that may be created; a group is a record, too
  Predicate,    \* the predicates in use
  UserGroups,   \* whether users use users as groups, too
  MaxRequests,  \* bound on the requests to create, save and delete
  MaxAtOnce     \* bound on the requests served at the same time

VARIABLES
  rows,      \* table facts: a fact, its box and its graph
  assigned,  \* table users_fact_boxes: who looks at which shared box
  boxes,     \* the shared boxes made so far: the sequence of their ids
  graphs,    \* the graphs made so far: the sequence graph_id
  records,   \* the records that were created, with their creators
  requests,  \* the requests being served
  count      \* the requests made so far

vars == << rows, assigned, boxes, graphs, records, requests, count >>

\* The id of a user's own box is the user's; ids of other boxes come from the same
\* sequence as the ids of users, so that no id is both.
ASSUME FactBoxesAssumption ==
  /\ User \cap Record = {} /\ User \cap Nat = {}
  /\ Accountable \in Predicate /\ Predicate \subseteq Role \cup {UserDefined}
  /\ UserGroups \in BOOLEAN
  /\ MaxRequests \in Nat /\ MaxAtOnce \in Nat \ {0}

NoGraph == 0
Box == User \cup (Nat \ {0})
Place == [box : Box, graph : Nat]
Unknown == [box |-> 0, graph |-> NoGraph]

Node == User \cup Record
Fact == [s : Node, p : Predicate, o : Node]
Created == {r.record : r \in records}

Facts == {x.fact : x \in rows}
RowsAbout(node) == {x \in rows : node \in {x.fact.s, x.fact.o}}

\* getFactScopeByUser
Scope(u) == {u} \cup {a.box : a \in {b \in assigned : b.user = u}}
Seen(u) == {x.fact : x \in {y \in rows : y.box \in Scope(u)}}

-----------------------------------------------------------------------------
Init ==
  /\ rows = {} /\ assigned = {}
  /\ boxes = 0 /\ graphs = 0
  /\ records = {} /\ requests = {}
  /\ count = 0

\* Mutant: that nobody is accountable is looked up in the user's boxes only.
Permitted_InScope(u, f) == MaySave(Seen(u), Seen(u), u, f)

\* isAuthorizedToSave: who is accountable is looked up everywhere, roles in one's boxes.
Permitted(u, f) == MaySave(Facts, Seen(u), u, f)

\* A new request gets a number of its own.
Arrives(u, kind, f) ==
  /\ count < MaxRequests /\ count' = count + 1
  /\ Cardinality(requests) < MaxAtOnce
  /\ Permitted(u, f)
  /\ requests' = requests \cup
       {[nr |-> count + 1, user |-> u, kind |-> kind, fact |-> f, at |-> "checked", old |-> {},
         found |-> [s |-> Unknown, o |-> Unknown], to |-> Unknown, todo |-> {}]}
  /\ UNCHANGED << rows, assigned, boxes, graphs, records >>

Becomes(r, s) == requests' = (requests \ {r}) \cup {s}
Ends(r) == requests' = requests \ {r}

\* The record is in no fact yet: it starts a graph in its creator's own box.
CreateRecord(u, record) ==
  /\ record \notin Created
  /\ count < MaxRequests /\ count' = count + 1
  /\ records' = records \cup {[record |-> record, creator |-> u]}
  /\ graphs' = graphs + 1
  /\ rows' = rows \cup {[fact |-> [s |-> u, p |-> Accountable, o |-> record],
                         box |-> u, graph |-> graphs + 1]}
  /\ UNCHANGED << assigned, boxes, requests >>

RequestSave(u, f) == Arrives(u, "save", f)
RequestDelete(u, f) == Arrives(u, "delete", f)

\* Fact.save of an accountability checks again; AuthorizationError ends the request.
CheckAgain(r) ==
  /\ r.kind = "save" /\ r.fact.p = Accountable /\ r.at = "checked"
  /\ IF Permitted(r.user, r.fact)
       THEN Becomes(r, [r EXCEPT !.at = "authorized"])
       ELSE Ends(r)
  /\ UNCHANGED << rows, assigned, boxes, graphs, records, count >>

-----------------------------------------------------------------------------
(* Placement: getFactBoxPlacement *)

\* Saving has come to the placement, and has not decided on it.
Placing(r) ==
  /\ r.kind = "save" /\ r.to = Unknown
  /\ r.at = IF r.fact.p = Accountable THEN "authorized" ELSE "checked"

\* The sides of the fact that are looked up
Sides(f) == IF f.s \in User THEN {"o"} ELSE IF f.o \in User THEN {"s"} ELSE {"s", "o"}

\* getFactPlacementOf: any row about a record tells where it is; a record without facts
\* starts a graph of the user who asks.
IsNew(node) == node \notin User /\ RowsAbout(node) = {}

Places(u, node) ==
  IF node \in User THEN {[box |-> node, graph |-> NoGraph]}
  ELSE IF IsNew(node) THEN {[box |-> u, graph |-> graphs + 1]}
  ELSE {[box |-> x.box, graph |-> x.graph] : x \in RowsAbout(node)}

Find(r, side) ==
  /\ Placing(r) /\ side \in Sides(r.fact) /\ r.found[side] = Unknown
  /\ \E place \in Places(r.user, r.fact[side]) : Becomes(r, [r EXCEPT !.found[side] = place])
  /\ graphs' = IF IsNew(r.fact[side]) THEN graphs + 1 ELSE graphs
  /\ UNCHANGED << rows, assigned, boxes, records, count >>

\* Statements: assign a user to a box; hand over the users of a box; move the rows of a
\* graph, or of all graphs of a box. Rows of one graph are in one box, so that the graph
\* alone says which rows, and a graph that joins another one stays in its box.
Assign(u, to) == [table |-> "users", of |-> "user", user |-> u, to |-> to]
HandOver(from, to) == [table |-> "users", of |-> "box", box |-> from, to |-> to]
MoveGraph(graph, to) == [table |-> "facts", of |-> "graph", graph |-> graph, to |-> to]
MoveBox(from, to) == [table |-> "facts", of |-> "box", box |-> from, to |-> to]

\* The request knows where its fact goes, and what is to be moved before.
Decides(r, to, todo) == Becomes(r, [r EXCEPT !.to = to, !.todo = todo])

Shared(box) == [box |-> box, graph |-> NoGraph]

\* Mutant: the user is let into the box the record is in.
PlaceRole_LetIn(r) ==
  LET place == r.found.o IN
  /\ Decides(r, place, {Assign(r.fact.s, place)})
  /\ UNCHANGED boxes

\* Mutant: who shares the graph is not let into the new box.
PlaceRole_ActorForgotten(r) ==
  LET place == r.found.o  fresh == Shared(boxes + 1) IN
  IF place.graph = NoGraph
    THEN Decides(r, place, {Assign(r.fact.s, place)}) /\ UNCHANGED boxes
    ELSE /\ Decides(r, fresh, {MoveGraph(place.graph, fresh), Assign(r.fact.s, fresh)})
         /\ boxes' = boxes + 1

\* A user gets a role in something: a shared box gets one more user, and out of the
\* user's own box the graph moves to a new one (moveUserGraphToNewFactBox).
PlaceRole(r) ==
  LET place == r.found.o  fresh == Shared(boxes + 1) IN
  IF place.graph = NoGraph
    THEN Decides(r, place, {Assign(r.fact.s, place)}) /\ UNCHANGED boxes
  ELSE IF place.box = r.fact.s
    THEN Decides(r, place, {}) /\ UNCHANGED boxes
  ELSE /\ Decides(r, fresh, {MoveGraph(place.graph, fresh), Assign(r.user, fresh),
                             Assign(r.fact.s, fresh)})
       /\ boxes' = boxes + 1

\* Something has to do with the user who says so.
PlaceAboutUser(r) ==
  LET place == r.found.s
  IN Decides(r, place, IF place.graph = NoGraph THEN {Assign(r.user, place)} ELSE {})

\* Mutant: the graphs stay two.
MergeUserGraphs_NotMoved(r, s, o) == Decides(r, s, {})

MergeUserGraphs(r, s, o) ==
  IF s.box # r.user \/ o.box # r.user
    THEN Ends(r)
    ELSE Decides(r, s, IF s.graph = o.graph THEN {} ELSE {MoveGraph(o.graph, s)})

MergeFactBoxes(r, s, o) == Decides(r, o, {MoveBox(s.box, o), HandOver(s.box, o)})

MergeUserGraphToFactBox(r, own, shared) ==
  Decides(r, shared, {MoveGraph(own.graph, shared), HandOver(own.box, shared),
                      Assign(own.box, shared)})

\* Two records are connected: their graphs or boxes become one.
PlaceConnection(r) ==
  LET s == r.found.s  o == r.found.o IN
  \/ s.graph # NoGraph /\ o.graph # NoGraph /\ MergeUserGraphs(r, s, o)
  \/ s.graph = NoGraph /\ o.graph = NoGraph /\ MergeFactBoxes(r, s, o)
  \/ s.graph = NoGraph /\ o.graph # NoGraph /\ MergeUserGraphToFactBox(r, o, s)
  \/ s.graph # NoGraph /\ o.graph = NoGraph /\ MergeUserGraphToFactBox(r, s, o)

Decide(r) ==
  /\ Placing(r) /\ \A side \in Sides(r.fact) : r.found[side] # Unknown
  /\ \/ r.fact.s \in User /\ PlaceRole(r)
     \/ r.fact.s \notin User /\ r.fact.o \in User /\ PlaceAboutUser(r) /\ UNCHANGED boxes
     \/ r.fact.s \notin User /\ r.fact.o \notin User /\ PlaceConnection(r) /\ UNCHANGED boxes
  /\ UNCHANGED << rows, assigned, graphs, records, count >>

\* Mutant: the rows keep their graph.
MovedRow_KeepsGraph(st, x) ==
  IF (st.of = "graph" /\ x.graph = st.graph) \/ (st.of = "box" /\ x.box = st.box)
    THEN [x EXCEPT !.box = st.to.box]
    ELSE x

\* UPDATE facts
MovedRow(st, x) ==
  IF (st.of = "graph" /\ x.graph = st.graph) \/ (st.of = "box" /\ x.box = st.box)
    THEN [x EXCEPT !.box = st.to.box, !.graph = st.to.graph]
    ELSE x

MoveRows(st) ==
  /\ rows' = {MovedRow(st, x) : x \in rows}
  /\ UNCHANGED assigned

\* INSERT INTO users_fact_boxes, or UPDATE users_fact_boxes
ReassignUsers(st) ==
  /\ assigned' =
       IF st.of = "box"
         THEN {IF a.box = st.box THEN [a EXCEPT !.box = st.to.box] ELSE a : a \in assigned}
         ELSE assigned \cup {[box |-> st.to.box, user |-> st.user]}
  /\ UNCHANGED rows

\* One of the statements is executed; they are sent together, in no order.
Execute(r, st) ==
  /\ st \in r.todo
  /\ \/ st.table = "facts" /\ MoveRows(st)
     \/ st.table = "users" /\ ReassignUsers(st)
  /\ Becomes(r, [r EXCEPT !.todo = r.todo \ {st}])
  /\ UNCHANGED << boxes, graphs, records, count >>

Placed(r) == r.to # Unknown /\ r.todo = {}

-----------------------------------------------------------------------------
(* Saving and deleting, after the placement *)

SelectOld(r) ==
  /\ r.kind = "save" /\ r.at = "authorized" /\ Placed(r)
  /\ Becomes(r, [r EXCEPT !.at = "replacing", !.old = AccountabilityIn(Facts, r.fact.o)])
  /\ UNCHANGED << rows, assigned, boxes, graphs, records, count >>

Delete(f) == rows' = {x \in rows : x.fact # f}
Insert(f, place) == rows' = rows \cup {[fact |-> f, box |-> place.box, graph |-> place.graph]}

DeleteOld(r, f) ==
  /\ r.at = "replacing" /\ f \in r.old
  /\ Delete(f)
  /\ Becomes(r, [r EXCEPT !.old = r.old \ {f}])
  /\ UNCHANGED << assigned, boxes, graphs, records, count >>

InsertFact(r) ==
  /\ r.kind = "save" /\ Placed(r)
  /\ \/ r.fact.p # Accountable /\ r.at = "checked"
     \/ r.at = "replacing" /\ r.old = {}
  /\ Insert(r.fact, r.to)
  /\ Ends(r)
  /\ UNCHANGED << assigned, boxes, graphs, records, count >>

CheckDelete(r) ==
  /\ r.kind = "delete" /\ r.at = "checked"
  /\ IF MayDelete(Facts, Seen(r.user), r.user, r.fact)
       THEN Becomes(r, [r EXCEPT !.at = "authorized"])
       ELSE Ends(r)
  /\ UNCHANGED << rows, assigned, boxes, graphs, records, count >>

DeleteFact(r) ==
  /\ r.kind = "delete" /\ r.at = "authorized"
  /\ Delete(r.fact)
  /\ Ends(r)
  /\ UNCHANGED << assigned, boxes, graphs, records, count >>

-----------------------------------------------------------------------------
(* Who is told of a change: QuerySubscriptionService *)

\* Mutant: a box has only the users that are assigned to it.
Notified_Assigned(x) == {a.user : a \in {b \in assigned : b.box = x.box}}

\* isUserAssociatedToFactBox, for the box of the row that was inserted or deleted: its own
\* user, or the users that are assigned to it.
Notified(x) == {u \in User : x.box = u \/ [box |-> x.box, user |-> u] \in assigned}

-----------------------------------------------------------------------------
\* What users write facts about: themselves, each other and the records there are
FactNow ==
  {f \in [s : User \cup Created, p : Predicate, o : User \cup Created] :
     f.o \in User => UserGroups \/ f.p = UserDefined}

UserStep(u) ==
  \/ \E record \in Record : CreateRecord(u, record)
  \/ \E f \in FactNow : RequestSave(u, f)
  \/ \E f \in FactNow : RequestDelete(u, f)

Serve(r) ==
  \/ CheckAgain(r)
  \/ \E side \in {"s", "o"} : Find(r, side)
  \/ Decide(r)
  \/ \E st \in r.todo : Execute(r, st)
  \/ SelectOld(r)
  \/ \E f \in r.old : DeleteOld(r, f)
  \/ InsertFact(r)
  \/ CheckDelete(r)
  \/ DeleteFact(r)

Next == (\E u \in User : UserStep(u)) \/ \E r \in requests : Serve(r)

Spec == Init /\ [][Next]_vars

-----------------------------------------------------------------------------
(* Properties *)

Quiet == requests = {}

Statement ==
  [table : {"users"}, of : {"user"}, user : User, to : Place]
    \cup [table : {"users"}, of : {"box"}, box : Box, to : Place]
    \cup [table : {"facts"}, of : {"graph"}, graph : Nat \ {NoGraph}, to : Place]
    \cup [table : {"facts"}, of : {"box"}, box : Box, to : Place]

Request ==
  [nr : Nat, user : User, kind : {"save", "delete"}, fact : Fact,
   at : {"checked", "authorized", "replacing"}, old : SUBSET Fact,
   found : [s : Place \cup {Unknown}, o : Place \cup {Unknown}],
   to : Place \cup {Unknown}, todo : SUBSET Statement]

\* A shared box that was made, or a graph in somebody's own box
IsShared(place) == place.box \in 1 .. boxes /\ place.graph = NoGraph
Made(place) == IsShared(place) \/ (place.box \in User /\ place.graph \in 1 .. graphs)

\* A fact that gives one user a role in another one
AboutUsersOnly(f) == f.s \in User /\ f.o \in User
OwnBox(u) == [box |-> u, graph |-> NoGraph]

\* Every variable has its type. Every row is in a place that was made; only a fact that
\* gives somebody a role in a user is in that user's own box, and in no graph of it.
TypeOK ==
  /\ rows \subseteq [fact : Fact, box : Box, graph : Nat]
  /\ \A x \in rows :
       Made(x) \/ (AboutUsersOnly(x.fact) /\ x.box = x.fact.o /\ x.graph = NoGraph)
  /\ assigned \subseteq [box : (1 .. boxes) \cup User, user : User]
  /\ boxes \in Nat /\ graphs \in Nat
  /\ records \subseteq [record : Record, creator : User]
  /\ requests \subseteq Request
  /\ count \in 0 .. MaxRequests

\* All members of a group have the access that the group was given, whatever was served at
\* the same time: "Now all members of the team can read and write the document"
\* (authorization-model.mdx).
MembersHaveAccess ==
  Quiet => \A f, g \in Facts :
    f.s \in User /\ f.p = "$isMemberOf" /\ f.o = g.s /\ g.p = "$canAccess" /\ f.o # g.o =>
      HasAccess(Seen(f.s), f.s, {"$canAccess"}, g.o)

\* Users are taken for groups where a role in one of them is asked for, and whoever gets it
\* is let into that user's own box, to all facts that are there. Nobody else ever is:
\* whatever moves, merges and hands over boxes at the same time, a user comes to look into
\* the own box of another one only by a statement of that one's own request, which gives a
\* role in himself.
OnlyOwnersLetIn ==
  [][\A a \in assigned' \ assigned : a.box \in User \ {a.user} =>
       \E r \in requests \ requests' :
         /\ r.user = a.box /\ r.kind = "save"
         /\ r.fact.s = a.user /\ r.fact.p \in Role /\ r.fact.o = a.box]_vars

\* The requests of Facts; where facts are kept is not its concern.
Served == {[nr |-> r.nr, user |-> r.user, kind |-> r.kind, fact |-> r.fact, at |-> r.at,
            old |-> r.old] : r \in requests}
Unboxed == INSTANCE Facts WITH facts <- Facts, requests <- Served

\* Boxes, and requests that move them at the same time, may get in the way of a request,
\* but never let one do what it could not do if every query looked at all facts.
BoxesAllowNothingMore == Unboxed!LenientSpec

=============================================================================
