--------------------------- MODULE FactBoxes_proofs ---------------------------
(***************************************************************************)
(* Theorems about FactBoxes, for any number of users, records and requests *)
(* at the same time, and users as groups or not.                           *)
(*                                                                         *)
(* Whatever requests move at the same time (invariant IInv): rows are only *)
(* ever in places that were made, and a user is let into somebody else's   *)
(* own box by that one's own request alone. The boxes implement Facts, but *)
(* that a request may be turned away there (IInv and OInv).                *)
(*                                                                         *)
(* And facts about one record stay in one place, whatever becomes of       *)
(* others, unless two requests get hold of that record at once (invariant  *)
(* Tidy, one record at a time).                                            *)
(***************************************************************************)
EXTENDS FactBoxesHistory, FiniteSetTheorems, TLAPS

\* A statement leaves rows in places that were made, and users in shared boxes; or it lets
\* a user, who gets a role in another one, into that one's own box.
StatementOK(f, st) ==
  \/ Made(st.to) /\ (st.table = "users" => IsShared(st.to))
  \/ AboutUsersOnly(f) /\ st = Assign(f.s, OwnBox(f.o))

\* What a request knows and is about to do
RequestOK(r) ==
  /\ {r.fact.s, r.fact.o} \subseteq User \cup Created
  /\ AboutUsersOnly(r.fact) => r.fact.o = r.user /\ r.fact.p \in Role
  /\ \A side \in {"s", "o"} :
       \/ r.found[side] = Unknown
       \/ r.fact[side] \notin User /\ Made(r.found[side])
       \/ AboutUsersOnly(r.fact) /\ side = "o" /\ r.found.o = OwnBox(r.fact.o)
  /\ \/ r.to = Unknown
     \/ Made(r.to)
     \/ AboutUsersOnly(r.fact) /\ r.to = OwnBox(r.fact.o)
  /\ r.todo # {} => r.kind = "save"
  /\ \A st \in r.todo : StatementOK(r.fact, st)

IInv ==
  /\ TypeOK
  /\ \A x \in rows : {x.fact.s, x.fact.o} \subseteq User \cup Created
  /\ \A r \in requests : RequestOK(r)

SamePlace(x, y) == x.box = y.box /\ x.graph = y.graph

-----------------------------------------------------------------------------
\* No step unmakes a box, a graph or a record.
Grows ==
  /\ boxes' \in {boxes, boxes + 1} /\ graphs' \in {graphs, graphs + 1}
  /\ Created \subseteq Created'

LEMMA GrowsKeepsRequests ==
  ASSUME TypeOK, Grows, NEW r, RequestOK(r)
  PROVE  RequestOK(r)'
<1>1. ASSUME NEW place, Made(place) PROVE Made(place)'
  BY <1>1 DEF TypeOK, Grows, Made, IsShared
<1>2. ASSUME NEW place, IsShared(place) PROVE IsShared(place)'
  BY <1>2 DEF TypeOK, Grows, IsShared
<1>3. ASSUME NEW f, NEW st, StatementOK(f, st) PROVE StatementOK(f, st)'
  BY <1>1, <1>2, <1>3 DEF StatementOK
<1> QED BY <1>1, <1>3 DEF RequestOK, Grows

\* Places that were made are places.
LEMMA MadeIsPlace ==
  ASSUME TypeOK, NEW place \in Place \cup {Unknown}
  PROVE  /\ ~Made(Unknown)
         /\ Made(place) => place \in Place
         /\ Made(place) /\ place.graph = NoGraph => IsShared(place)
         /\ Made(place) /\ place.graph # NoGraph => place.box \in User
BY FactBoxesAssumption DEF TypeOK, Made, IsShared, Unknown, NoGraph

\* A fact about users only that may be saved gives a role in the user who saves it.
LEMMA RoleInOneself ==
  ASSUME NEW u \in User, NEW f, AboutUsersOnly(f), Permitted(u, f)
  PROVE  f.o = u /\ f.p \in Role
BY DEF AboutUsersOnly, Permitted, MaySave, Accountable, Role

\* What a request that goes on has to keep
LEMMA RequestGoesOn ==
  ASSUME IInv, Grows, NEW r \in requests, NEW new \in Request, RequestOK(new)',
         requests' = (requests \ {r}) \cup {new}
  PROVE  requests' \subseteq Request /\ \A q \in requests' : RequestOK(q)'
BY GrowsKeepsRequests DEF IInv, TypeOK

\* A row is in a place that was made, or in the own box of the user it is about.
RowMade(x) == Made(x) \/ (AboutUsersOnly(x.fact) /\ x.box = x.fact.o /\ x.graph = NoGraph)

LEMMA RowsMade ==
  ASSUME IInv, Grows
  PROVE  \A x \in rows : RowMade(x)'
BY DEF IInv, TypeOK, Grows, RowMade, Made, IsShared

-----------------------------------------------------------------------------
\* A new request knows nothing yet.
LEMMA InvArrives ==
  ASSUME IInv, NEW u \in User, NEW f \in FactNow,
         NEW kind \in {"save", "delete"}, Arrives(u, kind, f)
  PROVE  IInv'
<1> USE FactBoxesAssumption
<1>0. PICK new :
        new = [nr |-> count + 1, user |-> u, kind |-> kind, fact |-> f, at |-> "checked",
               old |-> {}, found |-> [s |-> Unknown, o |-> Unknown], to |-> Unknown, todo |-> {}]
  OBVIOUS
<1>1. /\ Grows /\ Created' = Created /\ requests' = requests \cup {new}
      /\ UNCHANGED << rows, assigned, boxes, graphs, records >>
      /\ count' \in 0 .. MaxRequests
  BY <1>0 DEF Arrives, Grows, Created, IInv, TypeOK
<1>2. f \in Fact /\ {f.s, f.o} \subseteq User \cup Created
  BY DEF FactNow, Fact, Node, Created, IInv, TypeOK
<1>3. new \in Request
  BY <1>0, <1>2 DEF Request, IInv, TypeOK
<1>4. RequestOK(new)'
  <2>1. AboutUsersOnly(f) => f.o = u /\ f.p \in Role
    BY RoleInOneself DEF Arrives
  <2> QED BY <1>0, <1>1, <1>2, <2>1 DEF RequestOK, AboutUsersOnly
<1>5. \A q \in requests : RequestOK(q)'
  BY <1>1, GrowsKeepsRequests DEF IInv
<1>6. \A x \in rows : RowMade(x)'
  BY <1>1, RowsMade
<1> QED BY <1>1, <1>3, <1>4, <1>5, <1>6 DEF IInv, TypeOK, RowMade

\* The record's first graph
LEMMA InvCreateRecord ==
  ASSUME IInv, NEW u \in User, NEW record \in Record, CreateRecord(u, record)
  PROVE  IInv'
<1> USE FactBoxesAssumption
<1>1. /\ Created' = Created \cup {record} /\ Grows
      /\ records' \subseteq [record : Record, creator : User]
  <2>1. PICK x : x = [record |-> record, creator |-> u]
    OBVIOUS
  <2>2. x.record = record /\ records' = records \cup {x}
    BY <2>1 DEF CreateRecord
  <2> QED BY <2>1, <2>2 DEF CreateRecord, Created, Grows, IInv, TypeOK
<1>2. PICK x : x = [fact |-> [s |-> u, p |-> Accountable, o |-> record],
                    box |-> u, graph |-> graphs + 1]
  OBVIOUS
<1>3. /\ rows' = rows \cup {x} /\ x \in [fact : Fact, box : Box, graph : Nat]
      /\ Made(x)' /\ {x.fact.s, x.fact.o} \subseteq User \cup Created'
  BY <1>1, <1>2 DEF CreateRecord, Fact, Node, Box, Made, IInv, TypeOK
<1>4. \A q \in requests' : RequestOK(q)'
  BY <1>1, GrowsKeepsRequests DEF IInv, CreateRecord
<1>5. \A y \in rows : RowMade(y)'
  BY <1>1, RowsMade
<1> QED BY <1>1, <1>3, <1>4, <1>5 DEF IInv, TypeOK, RowMade, CreateRecord

\* A record is found where one of its rows is, or its new graph in one's own box.
LEMMA InvFind ==
  ASSUME IInv, NEW r \in requests, NEW side \in {"s", "o"}, Find(r, side)
  PROVE  IInv'
<1> USE FactBoxesAssumption
<1>1. r \in Request /\ RequestOK(r) /\ TypeOK
  BY DEF IInv, TypeOK
<1>2. r.fact[side] \in User => AboutUsersOnly(r.fact) /\ side = "o"
  BY <1>1 DEF Find, Sides, AboutUsersOnly
<1>3. PICK place \in Places(r.user, r.fact[side]) : Becomes(r, [r EXCEPT !.found[side] = place])
  BY DEF Find
<1>4. /\ Grows /\ Created' = Created
      /\ UNCHANGED << rows, assigned, boxes, records, count >>
      /\ graphs' \in Nat
  BY <1>1 DEF Find, Grows, Created, TypeOK
<1>5. /\ place \in Place
      /\ IF r.fact[side] \in User THEN place = OwnBox(r.fact[side]) ELSE Made(place)'
  <2>1. CASE r.fact[side] \in User
    BY <1>3, <2>1 DEF Places, OwnBox, Place, Box, NoGraph
  <2>2. CASE r.fact[side] \notin User /\ IsNew(r.fact[side])
    BY <1>1, <1>3, <2>2 DEF Find, Places, TypeOK, Made, Place, Box, Request
  <2>3. CASE r.fact[side] \notin User /\ ~IsNew(r.fact[side])
    <3>1. PICK x \in RowsAbout(r.fact[side]) : place = [box |-> x.box, graph |-> x.graph]
      BY <1>3, <2>3 DEF Places
    <3>2. x \in rows /\ ~AboutUsersOnly(x.fact)
      BY <2>3, <3>1 DEF RowsAbout, AboutUsersOnly
    <3>3. Made(x)' /\ x.box \in Box /\ x.graph \in Nat
      BY <1>1, <1>4, <3>2, RowsMade DEF TypeOK, RowMade
    <3> QED BY <2>3, <3>1, <3>3 DEF Made, IsShared, Place
  <2> QED BY <2>1, <2>2, <2>3
<1>6. PICK new : new = [r EXCEPT !.found[side] = place]
  OBVIOUS
<1>7. new \in Request
  BY <1>1, <1>5, <1>6 DEF Request
<1>8. RequestOK(new)'
  <2>1. RequestOK(r)'
    BY <1>1, <1>4, GrowsKeepsRequests
  <2>2. /\ new.fact = r.fact /\ new.to = r.to /\ new.todo = r.todo
        /\ new.user = r.user /\ new.kind = r.kind
        /\ \A d \in {"s", "o"} : new.found[d] = IF d = side THEN place ELSE r.found[d]
    BY <1>1, <1>6 DEF Request
  <2>3. ASSUME NEW d \in {"s", "o"}
        PROVE  \/ new.found[d] = Unknown
               \/ new.fact[d] \notin User /\ Made(new.found[d])'
               \/ AboutUsersOnly(new.fact) /\ d = "o" /\ new.found.o = OwnBox(new.fact.o)
    BY <1>2, <1>5, <2>1, <2>2 DEF RequestOK
  <2> QED BY <2>1, <2>2, <2>3 DEF RequestOK
<1>9. requests' = (requests \ {r}) \cup {new}
  BY <1>3, <1>6 DEF Becomes
<1>10. requests' \subseteq Request /\ \A q \in requests' : RequestOK(q)'
  BY <1>4, <1>7, <1>8, <1>9, RequestGoesOn
<1>11. \A x \in rows : RowMade(x)'
  BY <1>4, RowsMade
<1> QED BY <1>1, <1>4, <1>10, <1>11 DEF IInv, TypeOK, RowMade

\* A decision goes to a place that was made, and so do the statements.
LEMMA InvDecides ==
  ASSUME IInv, Grows, NEW r \in requests, NEW to \in Place, NEW todo \in SUBSET Statement,
         Decides(r, to, todo), r.kind = "save", \A st \in todo : StatementOK(r.fact, st)',
         Made(to)' \/ (AboutUsersOnly(r.fact) /\ to = OwnBox(r.fact.o)),
         UNCHANGED << rows, assigned, graphs, records, count >>
  PROVE  IInv'
<1>1. r \in Request /\ TypeOK /\ RequestOK(r)'
  BY GrowsKeepsRequests DEF IInv, TypeOK
<1>2. PICK new : new = [r EXCEPT !.to = to, !.todo = todo]
  OBVIOUS
<1>3. /\ new \in Request /\ new.to = to /\ new.todo = todo
      /\ new.fact = r.fact /\ new.found = r.found /\ new.user = r.user /\ new.kind = r.kind
  BY <1>1, <1>2 DEF Request
<1>4. RequestOK(new)'
  BY <1>1, <1>3 DEF RequestOK
<1>5. requests' = (requests \ {r}) \cup {new}
  BY <1>2 DEF Decides, Becomes
<1>6. requests' \subseteq Request /\ \A q \in requests' : RequestOK(q)'
  BY <1>3, <1>4, <1>5, RequestGoesOn
<1>7. \A x \in rows : RowMade(x)'
  BY RowsMade
<1>8. assigned' \subseteq [box : (1 .. boxes') \cup User, user : User] /\ boxes' \in Nat
  BY <1>1 DEF TypeOK, Grows
<1> QED BY <1>1, <1>6, <1>7, <1>8 DEF IInv, TypeOK, RowMade, Created

LEMMA InvDecide ==
  ASSUME IInv, NEW r \in requests, Decide(r)
  PROVE  IInv'
<1> USE FactBoxesAssumption
<1> DEFINE s == r.found.s  o == r.found.o
<1>1. /\ r \in Request /\ RequestOK(r) /\ TypeOK
      /\ s \in Place \cup {Unknown} /\ o \in Place \cup {Unknown}
      /\ UNCHANGED << rows, assigned, graphs, records, count >>
      /\ boxes \in Nat /\ graphs \in Nat /\ r.kind = "save"
  BY DEF IInv, TypeOK, Decide, Placing, Request
<1>2. /\ "s" \in Sides(r.fact) => s \in Place /\ Made(s)
      /\ "o" \in Sides(r.fact) =>
           /\ o \in Place
           /\ IF r.fact.o \in User THEN AboutUsersOnly(r.fact) /\ o = OwnBox(r.fact.o) ELSE Made(o)
  <2>1. ASSUME "s" \in Sides(r.fact) PROVE s # Unknown /\ r.fact.s \notin User
    BY <2>1 DEF Decide, Sides
  <2>2. ASSUME "o" \in Sides(r.fact) PROVE o # Unknown
    BY <2>2 DEF Decide
  <2>3. s # Unknown => r.fact.s \notin User /\ Made(s)
    BY <1>1 DEF RequestOK
  <2>4. o # Unknown => \/ r.fact.o \notin User /\ Made(o)
                       \/ AboutUsersOnly(r.fact) /\ o = OwnBox(r.fact.o)
    BY <1>1 DEF RequestOK
  <2> QED BY <1>1, <2>1, <2>2, <2>3, <2>4, MadeIsPlace DEF AboutUsersOnly
<1>3. \A p \in Place : Made(p) => /\ p.graph = NoGraph => IsShared(p)
                                  /\ p.graph # NoGraph => p.box \in User
                                  /\ p.box \in Box /\ p.graph \in Nat
  BY <1>1, MadeIsPlace DEF Place
<1>4. ASSUME NEW to \in Place, NEW todo \in SUBSET Statement, Decides(r, to, todo),
             Made(to) \/ (AboutUsersOnly(r.fact) /\ to = OwnBox(r.fact.o)),
             \A st \in todo : StatementOK(r.fact, st), UNCHANGED boxes
      PROVE  IInv'
  <2>1. Grows /\ (Made(to) => Made(to)') /\ \A st \in todo : StatementOK(r.fact, st)'
    BY <1>1, <1>4 DEF Grows, Created, Made, IsShared, StatementOK
  <2> QED BY <1>1, <1>4, <2>1, InvDecides
<1>5. ASSUME Ends(r), UNCHANGED boxes PROVE IInv'
  BY <1>1, <1>5 DEF Ends, IInv, TypeOK, RequestOK, StatementOK, Made, IsShared, Created
<1>6. CASE r.fact.s \in User /\ PlaceRole(r)
  <2>1. /\ o \in Place
        /\ IF r.fact.o \in User THEN AboutUsersOnly(r.fact) /\ o = OwnBox(r.fact.o) ELSE Made(o)
    BY <1>2, <1>6 DEF Sides
  <2>2. CASE o.graph = NoGraph
    <3>1. Decides(r, o, {Assign(r.fact.s, o)}) /\ UNCHANGED boxes
      BY <1>6, <2>2 DEF PlaceRole
    <3>2. Assign(r.fact.s, o) \in Statement /\ StatementOK(r.fact, Assign(r.fact.s, o))
      BY <1>3, <1>6, <2>1, <2>2 DEF Assign, Statement, StatementOK
    <3> QED BY <1>4, <2>1, <3>1, <3>2
  <2>3. CASE o.graph # NoGraph /\ o.box = r.fact.s
    <3>1. Decides(r, o, {}) /\ UNCHANGED boxes
      BY <1>6, <2>3 DEF PlaceRole
    <3> QED BY <1>4, <2>1, <3>1
  <2>4. CASE o.graph # NoGraph /\ o.box # r.fact.s
    <3> Made(o)
      BY <2>1, <2>4 DEF OwnBox
    <3>1. PICK fresh : fresh = Shared(boxes + 1)
      OBVIOUS
    <3>2. PICK todo : todo = {MoveGraph(o.graph, fresh), Assign(r.user, fresh),
                              Assign(r.fact.s, fresh)}
      OBVIOUS
    <3>3. Decides(r, fresh, todo) /\ boxes' = boxes + 1
      BY <1>6, <2>4, <3>1, <3>2 DEF PlaceRole
    <3>4. fresh \in Place /\ Made(fresh)' /\ IsShared(fresh)'
      BY <1>1, <3>1, <3>3 DEF Shared, Place, Box, Made, IsShared, NoGraph
    <3>5. Grows
      BY <1>1, <3>3 DEF Grows, Created
    <3>6. todo \in SUBSET Statement /\ \A st \in todo : StatementOK(r.fact, st)'
      <4>1. /\ MoveGraph(o.graph, fresh) \in Statement
            /\ StatementOK(r.fact, MoveGraph(o.graph, fresh))'
        BY <1>3, <2>1, <2>4, <3>4 DEF MoveGraph, Statement, StatementOK
      <4>2. ASSUME NEW u \in User
            PROVE  Assign(u, fresh) \in Statement /\ StatementOK(r.fact, Assign(u, fresh))'
        BY <3>4 DEF Assign, Statement, StatementOK
      <4>3. r.user \in User
        BY <1>1 DEF Request
      <4> QED BY <1>6, <3>2, <4>1, <4>2, <4>3
    <3> QED BY <1>1, <3>3, <3>4, <3>5, <3>6, InvDecides
  <2> QED BY <2>2, <2>3, <2>4
<1>7. CASE r.fact.s \notin User /\ r.fact.o \in User /\ PlaceAboutUser(r) /\ UNCHANGED boxes
  <2>1. s \in Place /\ Made(s) /\ r.user \in User
    BY <1>1, <1>2, <1>7 DEF Sides, Request
  <2>2. CASE s.graph = NoGraph
    <3>1. Decides(r, s, {Assign(r.user, s)})
      BY <1>7, <2>2 DEF PlaceAboutUser
    <3>2. Assign(r.user, s) \in Statement /\ StatementOK(r.fact, Assign(r.user, s))
      BY <1>3, <2>1, <2>2 DEF Assign, Statement, StatementOK
    <3> QED BY <1>4, <1>7, <2>1, <3>1, <3>2
  <2>3. CASE s.graph # NoGraph
    <3>1. Decides(r, s, {})
      BY <1>7, <2>3 DEF PlaceAboutUser
    <3> QED BY <1>4, <1>7, <2>1, <3>1
  <2> QED BY <2>2, <2>3
<1>8. CASE r.fact.s \notin User /\ r.fact.o \notin User /\ PlaceConnection(r) /\ UNCHANGED boxes
  <2>1. s \in Place /\ Made(s) /\ o \in Place /\ Made(o)
    BY <1>2, <1>8 DEF Sides
  <2>2. CASE s.graph # NoGraph /\ o.graph # NoGraph /\ MergeUserGraphs(r, s, o)
    <3>1. MoveGraph(o.graph, s) \in Statement /\ StatementOK(r.fact, MoveGraph(o.graph, s))
      BY <1>3, <2>1, <2>2 DEF MoveGraph, Statement, StatementOK
    <3>2. CASE Ends(r)
      BY <1>5, <1>8, <3>2
    <3>3. CASE Decides(r, s, IF s.graph = o.graph THEN {} ELSE {MoveGraph(o.graph, s)})
      <4>1. CASE s.graph = o.graph
        BY <1>4, <1>8, <2>1, <3>3, <4>1
      <4>2. CASE s.graph # o.graph
        BY <1>4, <1>8, <2>1, <3>1, <3>3, <4>2
      <4> QED BY <4>1, <4>2
    <3> QED BY <2>2, <3>2, <3>3 DEF MergeUserGraphs
  <2>3. CASE s.graph = NoGraph /\ o.graph = NoGraph /\ MergeFactBoxes(r, s, o)
    <3>1. /\ MoveBox(s.box, o) \in Statement /\ StatementOK(r.fact, MoveBox(s.box, o))
          /\ HandOver(s.box, o) \in Statement /\ StatementOK(r.fact, HandOver(s.box, o))
      BY <1>3, <2>1, <2>3 DEF MoveBox, HandOver, Statement, StatementOK
    <3>2. Decides(r, o, {MoveBox(s.box, o), HandOver(s.box, o)})
      BY <2>3 DEF MergeFactBoxes
    <3> QED BY <1>4, <1>8, <2>1, <3>1, <3>2
  <2>4. ASSUME NEW own \in Place, Made(own), own.graph # NoGraph,
               NEW shared \in Place, Made(shared), shared.graph = NoGraph,
               MergeUserGraphToFactBox(r, own, shared)
        PROVE  IInv'
    <3>1. own.box \in User /\ own.box \in Box /\ own.graph \in Nat /\ IsShared(shared)
      BY <1>3, <2>4
    <3>2. /\ MoveGraph(own.graph, shared) \in Statement
          /\ StatementOK(r.fact, MoveGraph(own.graph, shared))
          /\ HandOver(own.box, shared) \in Statement /\ StatementOK(r.fact, HandOver(own.box, shared))
          /\ Assign(own.box, shared) \in Statement /\ StatementOK(r.fact, Assign(own.box, shared))
      BY <2>4, <3>1 DEF MoveGraph, HandOver, Assign, Statement, StatementOK
    <3>3. Decides(r, shared, {MoveGraph(own.graph, shared), HandOver(own.box, shared),
                              Assign(own.box, shared)})
      BY <2>4 DEF MergeUserGraphToFactBox
    <3> QED BY <1>4, <1>8, <2>4, <3>2, <3>3
  <2> QED BY <1>8, <2>1, <2>2, <2>3, <2>4 DEF PlaceConnection
<1> QED BY <1>6, <1>7, <1>8 DEF Decide

LEMMA InvExecute ==
  ASSUME IInv, NEW r \in requests, NEW st \in r.todo, Execute(r, st)
  PROVE  IInv'
<1> USE FactBoxesAssumption
<1>1. /\ r \in Request /\ RequestOK(r) /\ TypeOK /\ Grows /\ Created' = Created
      /\ UNCHANGED << boxes, graphs, records, count >>
  BY DEF IInv, TypeOK, Execute, Grows, Created
<1>2. st \in Statement /\ StatementOK(r.fact, st)
  BY <1>1 DEF Request, RequestOK
<1>3. st.to \in Place /\ (st.table = "facts" => Made(st.to)')
  BY <1>1, <1>2 DEF Statement, StatementOK, Assign, Made, IsShared
<1>4. PICK new : new = [r EXCEPT !.todo = r.todo \ {st}]
  OBVIOUS
<1>5. new \in Request /\ requests' = (requests \ {r}) \cup {new}
  BY <1>1, <1>4 DEF Request, Execute, Becomes
<1>6. RequestOK(new)'
  <2>1. RequestOK(r)'
    BY <1>1, GrowsKeepsRequests
  <2>2. /\ new.fact = r.fact /\ new.found = r.found /\ new.to = r.to /\ new.user = r.user
        /\ new.kind = r.kind /\ new.todo \subseteq r.todo
    BY <1>1, <1>4 DEF Request
  <2> QED BY <2>1, <2>2 DEF RequestOK
<1>7. requests' \subseteq Request /\ \A q \in requests' : RequestOK(q)'
  BY <1>1, <1>5, <1>6, RequestGoesOn
<1>8. \A x \in rows : RowMade(x)'
  BY <1>1, RowsMade
<1>9. CASE st.table = "facts" /\ MoveRows(st)
  <2>1. ASSUME NEW x \in rows
        PROVE  /\ MovedRow(st, x) \in [fact : Fact, box : Box, graph : Nat]
               /\ MovedRow(st, x).fact = x.fact /\ RowMade(MovedRow(st, x))'
    <3>1. x \in [fact : Fact, box : Box, graph : Nat]
      BY <1>1 DEF TypeOK
    <3>2. CASE MovedRow(st, x) = x
      BY <1>8, <3>1, <3>2
    <3>3. CASE MovedRow(st, x) = [x EXCEPT !.box = st.to.box, !.graph = st.to.graph]
      <4>1. PICK y : y = [x EXCEPT !.box = st.to.box, !.graph = st.to.graph]
        OBVIOUS
      <4>2. y \in [fact : Fact, box : Box, graph : Nat] /\ y.fact = x.fact /\ SamePlace(y, st.to)
        BY <1>3, <3>1, <4>1 DEF Place, SamePlace
      <4>3. RowMade(y)'
        BY <1>3, <1>9, <4>2 DEF RowMade, Made, IsShared, SamePlace
      <4> QED BY <3>3, <4>1, <4>2, <4>3
    <3> QED BY <3>2, <3>3 DEF MovedRow
  <2>2. /\ rows' \subseteq [fact : Fact, box : Box, graph : Nat] /\ \A x \in rows' : RowMade(x)'
        /\ \A x \in rows' : {x.fact.s, x.fact.o} \subseteq User \cup Created'
    BY <1>1, <1>9, <2>1 DEF MoveRows, IInv
  <2> QED BY <1>1, <1>7, <1>9, <2>2 DEF IInv, TypeOK, RowMade, MoveRows
<1>10. CASE st.table = "users" /\ ReassignUsers(st)
  <2>1. st.to.box \in (1 .. boxes) \cup User
    BY <1>2, <1>10 DEF StatementOK, IsShared, AboutUsersOnly, Assign, OwnBox
  <2>2. CASE st.of = "box"
    <3>1. ASSUME NEW a \in assigned
          PROVE  [a EXCEPT !.box = st.to.box] \in [box : (1 .. boxes) \cup User, user : User]
      BY <1>1, <2>1 DEF TypeOK
    <3>2. assigned' \subseteq [box : (1 .. boxes) \cup User, user : User]
      BY <1>1, <1>10, <2>2, <3>1 DEF ReassignUsers, TypeOK
    <3> QED BY <1>1, <1>7, <1>8, <1>10, <3>2 DEF IInv, TypeOK, RowMade, ReassignUsers
  <2>3. CASE st.of # "box"
    <3>1. st.user \in User
      BY <1>2, <1>10, <2>3 DEF Statement
    <3>2. assigned' \subseteq [box : (1 .. boxes) \cup User, user : User]
      BY <1>1, <1>10, <2>1, <2>3, <3>1 DEF ReassignUsers, TypeOK
    <3> QED BY <1>1, <1>7, <1>8, <1>10, <3>2 DEF IInv, TypeOK, RowMade, ReassignUsers
  <2> QED BY <2>2, <2>3
<1> QED BY <1>9, <1>10 DEF Execute

\* The steps before and after the placement: they delete rows, or insert one where the
\* request has decided to.
LEMMA InvWrite ==
  ASSUME IInv, NEW r \in requests,
         \/ CheckAgain(r) \/ SelectOld(r) \/ (\E f \in r.old : DeleteOld(r, f))
         \/ InsertFact(r) \/ CheckDelete(r) \/ DeleteFact(r)
  PROVE  IInv'
<1> USE FactBoxesAssumption
<1>1. /\ r \in Request /\ RequestOK(r) /\ TypeOK /\ Grows /\ Created' = Created
      /\ UNCHANGED << assigned, boxes, graphs, records, count >>
  BY DEF IInv, TypeOK, CheckAgain, SelectOld, DeleteOld, InsertFact, CheckDelete, DeleteFact,
         Grows, Created
<1>2. /\ rows' \subseteq [fact : Fact, box : Box, graph : Nat] /\ \A x \in rows' : RowMade(x)'
      /\ \A x \in rows' : {x.fact.s, x.fact.o} \subseteq User \cup Created'
  <2>1. \A x \in rows : RowMade(x)'
    BY <1>1, RowsMade
  <2>2. CASE rows' \subseteq rows
    BY <1>1, <2>1, <2>2 DEF IInv, TypeOK
  <2>3. CASE InsertFact(r)
    <3>1. PICK x : x = [fact |-> r.fact, box |-> r.to.box, graph |-> r.to.graph]
      OBVIOUS
    <3>2. r.to \in Place /\ (Made(r.to)' \/ (AboutUsersOnly(r.fact) /\ r.to = OwnBox(r.fact.o)))
      BY <1>1, <2>3 DEF InsertFact, Placed, Request, RequestOK, Made, IsShared
    <3>3. x \in [fact : Fact, box : Box, graph : Nat] /\ RowMade(x)' /\ x.fact = r.fact
      BY <1>1, <3>1, <3>2 DEF Request, Place, RowMade, Made, IsShared, OwnBox
    <3>4. rows' = rows \cup {x}
      BY <2>3, <3>1 DEF InsertFact, Insert
    <3> QED BY <1>1, <2>1, <3>3, <3>4 DEF IInv, TypeOK, RequestOK
  <2> QED BY <2>2, <2>3 DEF CheckAgain, SelectOld, DeleteOld, CheckDelete, DeleteFact, Delete
<1>3. requests' \subseteq Request /\ \A q \in requests' : RequestOK(q)'
  <2>1. CASE Ends(r)
    BY <1>1, <2>1, GrowsKeepsRequests DEF Ends, IInv, TypeOK
  <2>2. ASSUME NEW new \in Request, Becomes(r, new), new.fact = r.fact, new.found = r.found,
               new.to = r.to, new.todo = r.todo, new.user = r.user, new.kind = r.kind
        PROVE  requests' \subseteq Request /\ \A q \in requests' : RequestOK(q)'
    <3>1. RequestOK(new)'
      <4>1. RequestOK(r)'
        BY <1>1, GrowsKeepsRequests
      <4> QED BY <2>2, <4>1 DEF RequestOK
    <3> QED BY <1>1, <2>2, <3>1, RequestGoesOn DEF Becomes
  <2>3. CASE Becomes(r, [r EXCEPT !.at = "authorized"])
    BY <1>1, <2>2, <2>3 DEF Request
  <2>4. CASE SelectOld(r)
    <3>1. AccountabilityIn(Facts, r.fact.o) \subseteq Fact
      BY <1>1 DEF AccountabilityIn, Facts, TypeOK
    <3>2. PICK new :
            new = [r EXCEPT !.at = "replacing", !.old = AccountabilityIn(Facts, r.fact.o)]
      OBVIOUS
    <3> QED BY <1>1, <2>2, <2>4, <3>1, <3>2 DEF SelectOld, Request
  <2>5. ASSUME NEW f \in r.old, DeleteOld(r, f)
        PROVE  requests' \subseteq Request /\ \A q \in requests' : RequestOK(q)'
    BY <1>1, <2>2, <2>5 DEF DeleteOld, Request
  <2> QED BY <2>1, <2>3, <2>4, <2>5 DEF CheckAgain, InsertFact, CheckDelete, DeleteFact
<1> QED BY <1>1, <1>2, <1>3 DEF IInv, TypeOK, RowMade

-----------------------------------------------------------------------------
LEMMA InvStep == IInv /\ [Next]_vars => IInv'
<1> SUFFICES ASSUME IInv, [Next]_vars PROVE IInv'
  OBVIOUS
<1>1. ASSUME NEW u \in User, UserStep(u) PROVE IInv'
  BY <1>1, InvArrives, InvCreateRecord DEF UserStep, RequestSave, RequestDelete
<1>2. ASSUME NEW r \in requests, Serve(r) PROVE IInv'
  BY <1>2, InvFind, InvDecide, InvExecute, InvWrite DEF Serve
<1>3. CASE UNCHANGED vars
  BY <1>3 DEF vars, IInv, TypeOK, RequestOK, StatementOK, Made, IsShared, Created
<1> QED BY <1>1, <1>2, <1>3 DEF Next

LEMMA InvInit == Init => IInv
BY FactBoxesAssumption DEF Init, IInv, TypeOK

\* Rows are only ever in boxes and graphs that were made, or in the own box of the user they
\* are about, whatever is served at the same time.
THEOREM TypeCorrect == Spec => []TypeOK
<1>1. IInv => TypeOK
  BY DEF IInv
<1> QED BY <1>1, InvInit, InvStep, PTL DEF Spec

\* Only a user's own request, which gives somebody a role in that user, lets anybody into
\* the own box of a user, whatever is placed, merged and handed over at the same time.
THEOREM NobodyElseLetsIn == Spec => OnlyOwnersLetIn
<1> DEFINE LetInByOwner(a) ==
             \E r \in requests \ requests' :
               /\ r.user = a.box /\ r.kind = "save"
               /\ r.fact.s = a.user /\ r.fact.p \in Role /\ r.fact.o = a.box
<1>1. ASSUME IInv, [Next]_vars, NEW a \in assigned' \ assigned, a.box \in User \ {a.user}
      PROVE  LetInByOwner(a)
  <2>0. PICK r \in requests : \E st \in r.todo : Execute(r, st) /\ ReassignUsers(st)
    BY <1>1 DEF vars, Next, UserStep, CreateRecord, RequestSave, RequestDelete, Arrives, Serve,
                CheckAgain, Find, Decide, Execute, MoveRows, SelectOld, DeleteOld, InsertFact,
                CheckDelete, DeleteFact
  <2>1. PICK st \in r.todo : Execute(r, st) /\ ReassignUsers(st)
    BY <2>0
  <2>2. /\ r \in Request /\ RequestOK(r) /\ StatementOK(r.fact, st) /\ r.kind = "save"
        /\ st \in Statement
    BY <1>1, <2>1 DEF IInv, TypeOK, RequestOK, Request
  <2>3. st.table = "users"
    BY <1>1, <2>1 DEF Execute, MoveRows
  <2>4. a.box = st.to.box
    <3>1. ASSUME NEW b \in assigned PROVE [b EXCEPT !.box = st.to.box].box = st.to.box
      BY <1>1 DEF IInv, TypeOK
    <3>2. CASE st.of = "box"
      <4>1. PICK b \in assigned : a = IF b.box = st.box THEN [b EXCEPT !.box = st.to.box] ELSE b
        BY <1>1, <2>1, <3>2 DEF ReassignUsers
      <4>2. a = [b EXCEPT !.box = st.to.box]
        BY <1>1, <4>1
      <4> QED BY <3>1, <4>2
    <3>3. CASE st.of # "box"
      <4>1. a = [box |-> st.to.box, user |-> st.user]
        BY <1>1, <2>1, <3>3 DEF ReassignUsers
      <4> QED BY <4>1
    <3> QED BY <3>2, <3>3
  <2>5. AboutUsersOnly(r.fact) /\ st = Assign(r.fact.s, OwnBox(r.fact.o))
    BY <1>1, <2>2, <2>3, <2>4, FactBoxesAssumption DEF StatementOK, IsShared, IInv, TypeOK
  <2>6. a.user = r.fact.s /\ a.box = r.fact.o
    BY <1>1, <2>1, <2>4, <2>5 DEF Assign, OwnBox, ReassignUsers
  <2>7. r \notin requests'
    <3>1. PICK new : new = [r EXCEPT !.todo = r.todo \ {st}]
      OBVIOUS
    <3>2. new.todo = r.todo \ {st}
      BY <2>2, <3>1 DEF Request
    <3> QED BY <2>1, <3>1, <3>2 DEF Execute, Becomes
  <2> QED BY <2>2, <2>5, <2>6, <2>7 DEF RequestOK
<1>2. IInv /\ [Next]_vars =>
        [\A a \in assigned' \ assigned : a.box \in User \ {a.user} => LetInByOwner(a)]_vars
  BY <1>1
<1> QED BY <1>2, InvInit, InvStep, PTL DEF Spec, OnlyOwnersLetIn

-----------------------------------------------------------------------------
(* The boxes allow nothing more than Facts *)

\* Requests have numbers of their own, and replace nothing before they have selected it.
Numbered ==
  /\ IsFiniteSet(requests)
  /\ \A r, q \in requests : r.nr = q.nr => r = q
  /\ \A r \in requests : r.nr <= count

Staged(r) ==
  /\ r.at # "replacing" => r.old = {}
  /\ r.at = "replacing" => r.kind = "save"

OInv == IInv /\ Numbered /\ \A r \in requests : Staged(r)

\* What Facts knows of a request
Plain(r) == [nr |-> r.nr, user |-> r.user, kind |-> r.kind, fact |-> r.fact, at |-> r.at,
             old |-> r.old]

\* How a request may go on: under its number, for the same user, kind and fact
GoesOn(r, new) ==
  /\ new.nr = r.nr /\ new.user = r.user /\ new.kind = r.kind /\ new.fact = r.fact
  /\ Becomes(r, new) /\ count' = count

LEMMA OInvGoesOn ==
  ASSUME OInv, NEW r \in requests, NEW new, GoesOn(r, new), Staged(new)
  PROVE  Numbered' /\ \A q \in requests' : Staged(q)
<1>1. IsFiniteSet(requests')
  BY FS_RemoveElement, FS_AddElement DEF OInv, Numbered, GoesOn, Becomes
<1>2. \A q, p \in requests' : q.nr = p.nr => q = p
  BY DEF OInv, Numbered, GoesOn, Becomes
<1> QED BY <1>1, <1>2 DEF OInv, Numbered, GoesOn, Becomes

LEMMA OInvEnds ==
  ASSUME OInv, NEW r \in requests, Ends(r), count' = count
  PROVE  Numbered' /\ \A q \in requests' : Staged(q)
<1>1. IsFiniteSet(requests')
  BY FS_RemoveElement DEF OInv, Numbered, Ends
<1> QED BY <1>1 DEF OInv, Numbered, Ends

LEMMA OInvArrives ==
  ASSUME OInv, NEW u \in User, NEW f, NEW kind, Arrives(u, kind, f)
  PROVE  Numbered' /\ \A q \in requests' : Staged(q)
<1>1. PICK new :
        new = [nr |-> count + 1, user |-> u, kind |-> kind, fact |-> f, at |-> "checked",
               old |-> {}, found |-> [s |-> Unknown, o |-> Unknown], to |-> Unknown, todo |-> {}]
  OBVIOUS
<1>2. /\ new.nr = count + 1 /\ new.at = "checked" /\ new.old = {}
      /\ requests' = requests \cup {new} /\ count' = count + 1 /\ count \in Nat
      /\ \A q \in requests : q.nr \in Nat
  BY <1>1, FactBoxesAssumption DEF Arrives, OInv, IInv, TypeOK, Request
<1>3. IsFiniteSet(requests')
  BY <1>2, FS_AddElement DEF OInv, Numbered
<1>4. \A q \in requests : q.nr <= count
  BY DEF OInv, Numbered
<1>5. \A q, p \in requests' : q.nr = p.nr => q = p
  BY <1>2, <1>4 DEF OInv, Numbered
<1>6. \A q \in requests' : q.nr <= count'
  BY <1>2, <1>4
<1> QED BY <1>2, <1>3, <1>5, <1>6 DEF OInv, Numbered, Staged

\* Every step of a request lets it go on or ends it.
LEMMA RequestMoves ==
  ASSUME OInv, NEW r \in requests, Serve(r)
  PROVE  \/ Ends(r) /\ count' = count
         \/ \E new : GoesOn(r, new) /\ Staged(new)
<1>1. r \in Request /\ Staged(r) /\ count' = count
  BY DEF OInv, IInv, TypeOK, Serve, CheckAgain, Find, Decide, Execute, SelectOld, DeleteOld,
         InsertFact, CheckDelete, DeleteFact
<1>2. ASSUME NEW side \in {"s", "o"}, Find(r, side) PROVE \E new : GoesOn(r, new) /\ Staged(new)
  <2>1. PICK place : Becomes(r, [r EXCEPT !.found[side] = place])
    BY <1>2 DEF Find
  <2>2. PICK new : new = [r EXCEPT !.found[side] = place]
    OBVIOUS
  <2> QED BY <1>1, <2>1, <2>2 DEF Request, GoesOn, Staged
<1>3. ASSUME NEW to, NEW todo, Decides(r, to, todo) PROVE \E new : GoesOn(r, new) /\ Staged(new)
  <2>1. PICK new : new = [r EXCEPT !.to = to, !.todo = todo]
    OBVIOUS
  <2>2. /\ new.nr = r.nr /\ new.user = r.user /\ new.kind = r.kind /\ new.fact = r.fact
        /\ new.at = r.at /\ new.old = r.old
    BY <1>1, <2>1 DEF Request
  <2> QED BY <1>1, <1>3, <2>1, <2>2 DEF Decides, GoesOn, Staged
<1>4. CASE Decide(r)
  <2>1. Ends(r) \/ \E to, todo : Decides(r, to, todo)
    BY <1>4 DEF Decide, PlaceRole, PlaceAboutUser, PlaceConnection, MergeUserGraphs,
                MergeFactBoxes, MergeUserGraphToFactBox
  <2> QED BY <1>1, <1>3, <2>1
<1>5. ASSUME NEW st \in r.todo, Execute(r, st) PROVE \E new : GoesOn(r, new) /\ Staged(new)
  <2>1. PICK new : new = [r EXCEPT !.todo = r.todo \ {st}]
    OBVIOUS
  <2> QED BY <1>1, <1>5, <2>1 DEF Execute, Request, GoesOn, Staged
<1>6. ASSUME NEW at \in {"authorized", "replacing"}, NEW old,
             Becomes(r, [r EXCEPT !.at = at, !.old = old]), at = "authorized" => old = {},
             at = "replacing" => r.kind = "save"
      PROVE  \E new : GoesOn(r, new) /\ Staged(new)
  <2>1. PICK new : new = [r EXCEPT !.at = at, !.old = old]
    OBVIOUS
  <2>2. /\ new.nr = r.nr /\ new.user = r.user /\ new.kind = r.kind /\ new.fact = r.fact
        /\ new.at = at /\ new.old = old
    BY <1>1, <2>1 DEF Request
  <2> QED BY <1>1, <1>6, <2>1, <2>2 DEF GoesOn, Staged
<1>7. ASSUME Becomes(r, [r EXCEPT !.at = "authorized"]), r.at = "checked"
      PROVE  \E new : GoesOn(r, new) /\ Staged(new)
  <2>1. PICK new : new = [r EXCEPT !.at = "authorized"]
    OBVIOUS
  <2> QED BY <1>1, <1>7, <2>1 DEF Request, GoesOn, Staged
<1>8. ASSUME NEW f \in r.old, DeleteOld(r, f) PROVE \E new : GoesOn(r, new) /\ Staged(new)
  <2>1. PICK new : new = [r EXCEPT !.old = r.old \ {f}]
    OBVIOUS
  <2> QED BY <1>1, <1>8, <2>1 DEF DeleteOld, Request, GoesOn, Staged
<1> QED BY <1>1, <1>2, <1>4, <1>5, <1>6, <1>7, <1>8
        DEF Serve, CheckAgain, SelectOld, InsertFact, CheckDelete, DeleteFact

LEMMA OInvStep == OInv /\ [Next]_vars => OInv'
<1> SUFFICES ASSUME OInv, [Next]_vars PROVE OInv'
  OBVIOUS
<1>1. IInv'
  BY InvStep DEF OInv
<1>2. ASSUME NEW u \in User, UserStep(u) PROVE Numbered' /\ \A q \in requests' : Staged(q)
  <2>1. ASSUME NEW record, CreateRecord(u, record)
        PROVE  Numbered' /\ \A q \in requests' : Staged(q)
    <3>1. requests' = requests /\ count' = count + 1 /\ count \in Nat
      BY <2>1, FactBoxesAssumption DEF CreateRecord, OInv, IInv, TypeOK
    <3>2. \A q \in requests : q.nr \in Nat /\ q.nr <= count
      BY DEF OInv, Numbered, IInv, TypeOK, Request
    <3> QED BY <3>1, <3>2 DEF OInv, Numbered
  <2> QED BY <1>2, <2>1, OInvArrives DEF UserStep, RequestSave, RequestDelete
<1>3. ASSUME NEW r \in requests, Serve(r) PROVE Numbered' /\ \A q \in requests' : Staged(q)
  BY <1>3, RequestMoves, OInvEnds, OInvGoesOn
<1>4. ASSUME UNCHANGED vars PROVE Numbered' /\ \A q \in requests' : Staged(q)
  BY <1>4 DEF vars, OInv, Numbered
<1>5. Numbered' /\ \A q \in requests' : Staged(q)
  BY <1>2, <1>3, <1>4 DEF Next, OInv
<1> QED BY <1>1, <1>5 DEF OInv, Staged

LEMMA OInvInit == Init => OInv
BY InvInit, FS_EmptySet DEF Init, OInv, Numbered

\* Whoever looks at less finds less: no check lets through what it would not with all facts.
LEMMA SeesLess ==
  ASSUME NEW all, NEW seen, seen \subseteq all, NEW u, NEW f
  PROVE  /\ MaySave(all, seen, u, f) => MaySave(all, all, u, f)
         /\ MayDelete(all, seen, u, f) => MayDelete(all, all, u, f)
<1>1. Groups(seen, u) \subseteq Groups(all, u)
  BY DEF Groups
<1>2. ASSUME NEW roles PROVE Accessible(seen, u, roles) \subseteq Accessible(all, u, roles)
  BY <1>1 DEF Accessible
<1>3. \A roles, node : HasAccess(seen, u, roles, node) => HasAccess(all, u, roles, node)
  BY <1>2 DEF HasAccess
<1>4. ValidTransfer(all, seen, u, f) => ValidTransfer(all, all, u, f)
  BY <1>3 DEF ValidTransfer
<1>5. ValidInvitation(seen, u, f) => ValidInvitation(all, u, f)
  BY <1>3 DEF ValidInvitation
<1>6. MaySave(all, seen, u, f) => MaySave(all, all, u, f)
  BY <1>3, <1>4, <1>5 DEF MaySave
<1> QED BY <1>6 DEF MayDelete

\* Facts has the same rules.
LEMMA SameRules ==
  ASSUME NEW all, NEW u, NEW f
  PROVE  /\ Unboxed!MaySave(all, all, u, f) <=> MaySave(all, all, u, f)
         /\ Unboxed!MayDelete(all, all, u, f) <=> MayDelete(all, all, u, f)
         /\ Unboxed!AccountabilityIn(all, f.o) = AccountabilityIn(all, f.o)
<1>1. Unboxed!Accountable = Accountable /\ Unboxed!Role = Role
  BY DEF Accountable, Role, Unboxed!Accountable, Unboxed!Role
<1>2. \A node : Unboxed!AccountabilityIn(all, node) = AccountabilityIn(all, node)
  BY <1>1 DEF AccountabilityIn, Unboxed!AccountabilityIn
<1>3. Unboxed!Groups(all, u) = Groups(all, u)
  BY <1>1 DEF Groups, Unboxed!Groups
<1>4. \A roles : Unboxed!Accessible(all, u, roles) = Accessible(all, u, roles)
  BY <1>3 DEF Accessible, Unboxed!Accessible
<1>5. \A roles, node : Unboxed!HasAccess(all, u, roles, node) <=> HasAccess(all, u, roles, node)
  BY <1>4 DEF HasAccess, Unboxed!HasAccess
<1>6. Unboxed!FirstAccountability(all, u, f) <=> FirstAccountability(all, u, f)
  BY <1>2 DEF FirstAccountability, Unboxed!FirstAccountability
<1>7. Unboxed!ValidTransfer(all, all, u, f) <=> ValidTransfer(all, all, u, f)
  BY <1>1, <1>5 DEF ValidTransfer, Unboxed!ValidTransfer
<1>8. Unboxed!ValidInvitation(all, u, f) <=> ValidInvitation(all, u, f)
  BY <1>1, <1>5 DEF ValidInvitation, Unboxed!ValidInvitation
<1>9. Unboxed!MaySave(all, all, u, f) <=> MaySave(all, all, u, f)
  BY <1>1, <1>5, <1>6, <1>7, <1>8 DEF MaySave, Unboxed!MaySave
<1>10. Unboxed!MayDelete(all, all, u, f) <=> MayDelete(all, all, u, f)
  BY <1>1, <1>9 DEF MayDelete, Unboxed!MayDelete
<1> QED BY <1>2, <1>9, <1>10

LEMMA PlainOf ==
  ASSUME NEW r
  PROVE  /\ Plain(r).nr = r.nr /\ Plain(r).user = r.user /\ Plain(r).kind = r.kind
         /\ Plain(r).fact = r.fact /\ Plain(r).at = r.at /\ Plain(r).old = r.old
BY DEF Plain

LEMMA ServedIs ==
  /\ Served = {Plain(r) : r \in requests}
  /\ Served' = {Plain(r) : r \in requests'}
BY DEF Served, Plain

\* The request goes on in Facts as it does here, or ends.
LEMMA MovesIs ==
  ASSUME OInv, NEW r \in requests, NEW new, GoesOn(r, new)
  PROVE  /\ Unboxed!Moves(Plain(r), new.at, new.old)
         /\ Plain(new) = Plain(r) => Served' = Served
<1>1. [Plain(r) EXCEPT !.at = new.at, !.old = new.old] = Plain(new)
  <2>1. PICK p : p = Plain(r)
    OBVIOUS
  <2>2. p \in [nr : {r.nr}, user : {r.user}, kind : {r.kind}, fact : {r.fact}, at : {r.at},
               old : {r.old}]
    BY <2>1 DEF Plain
  <2>3. PICK q : q = [p EXCEPT !.at = new.at, !.old = new.old]
    OBVIOUS
  <2>4. q \in [nr : {r.nr}, user : {r.user}, kind : {r.kind}, fact : {r.fact}, at : {new.at},
               old : {new.old}]
    BY <2>2, <2>3
  <2>5. q = Plain(new)
    BY <2>4 DEF Plain, GoesOn
  <2> QED BY <2>1, <2>3, <2>5
<1>2. \A q \in requests : Plain(q) = Plain(r) => q = r
  BY PlainOf DEF OInv, Numbered
<1>3. Served' = (Served \ {Plain(r)}) \cup {Plain(new)}
  BY <1>2, ServedIs DEF GoesOn, Becomes
<1>4. Plain(r) \in Served
  BY ServedIs
<1> QED BY <1>1, <1>3, <1>4 DEF Unboxed!Moves

LEMMA EndsIs ==
  ASSUME OInv, NEW r \in requests, Ends(r)
  PROVE  Unboxed!Ends(Plain(r))
<1>1. \A q \in requests : Plain(q) = Plain(r) => q = r
  BY PlainOf DEF OInv, Numbered
<1> QED BY <1>1, ServedIs DEF Ends, Unboxed!Ends

LEMMA ServedAtMost ==
  ASSUME OInv
  PROVE  Unboxed!Cardinality(Served) <= Cardinality(requests)
<1>1. PICK f : f = [r \in requests |-> Plain(r)]
  OBVIOUS
<1>2. f \in Surjection(requests, Served)
  BY <1>1, ServedIs DEF Surjection
<1>3. Cardinality(Served) <= Cardinality(requests)
  BY <1>2, FS_Surjection DEF OInv, Numbered
<1>4. Unboxed!Cardinality(Served) = Cardinality(Served)
  BY DEF Cardinality, IsFiniteSet, Unboxed!Cardinality, Unboxed!IsFiniteSet
<1> QED BY <1>3, <1>4

LEMMA UserStepImplements ==
  ASSUME OInv, NEW u \in User, UserStep(u)
  PROVE  Unboxed!Next
<1> USE FactBoxesAssumption
<1>1. Unboxed!Accountable = Accountable /\ Unboxed!Created = Created
  BY DEF Accountable, Unboxed!Accountable, Created, Unboxed!Created
<1>2. ASSUME NEW record \in Record, CreateRecord(u, record)
      PROVE  Unboxed!CreateRecord(u, record)
  <2>1. PICK x : x = [fact |-> [s |-> u, p |-> Accountable, o |-> record],
                      box |-> u, graph |-> graphs + 1]
    OBVIOUS
  <2>2. rows' = rows \cup {x} /\ Served' = Served
    BY <1>2, <2>1 DEF CreateRecord, Served
  <2>3. Facts' = Facts \cup {x.fact}
    BY <2>2 DEF Facts
  <2>4. x.fact = [s |-> u, p |-> Accountable, o |-> record]
    BY <2>1
  <2> QED BY <1>1, <1>2, <2>2, <2>3, <2>4 DEF CreateRecord, Unboxed!CreateRecord
<1>3. ASSUME NEW f \in FactNow, NEW kind \in {"save", "delete"}, Arrives(u, kind, f)
      PROVE  /\ f \in Unboxed!FactNow /\ Unboxed!MaySave(Facts, Facts, u, f)
             /\ Unboxed!Arrives(u, kind, f) /\ UNCHANGED << Facts, records >>
  <2>1. Unboxed!MaySave(Facts, Facts, u, f)
    <3>1. Seen(u) \subseteq Facts
      BY DEF Seen, Facts
    <3> QED BY <1>3, <3>1, SeesLess, SameRules DEF Arrives, Permitted
  <2>2. PICK new :
          new = [nr |-> count + 1, user |-> u, kind |-> kind, fact |-> f, at |-> "checked",
                 old |-> {}, found |-> [s |-> Unknown, o |-> Unknown], to |-> Unknown, todo |-> {}]
    OBVIOUS
  <2>3. Served' = Served \cup {Plain(new)}
    BY <1>3, <2>2, ServedIs DEF Arrives
  <2>4. Plain(new) = [nr |-> count + 1, user |-> u, kind |-> kind, fact |-> f,
                      at |-> "checked", old |-> {}]
    BY <2>2 DEF Plain
  <2>5. Unboxed!Cardinality(Served) < MaxAtOnce
    <3>1. Cardinality(requests) \in Nat /\ Cardinality(requests) < MaxAtOnce
      BY <1>3, FS_CardinalityType DEF Arrives, OInv, Numbered
    <3>2. Unboxed!Cardinality(Served) \in Nat
      <4>1. IsFiniteSet(Served)
        <5>1. PICK g : g = [r \in requests |-> Plain(r)]
          OBVIOUS
        <5>2. g \in Surjection(requests, Served)
          BY <5>1, ServedIs DEF Surjection
        <5> QED BY <5>2, FS_Surjection DEF OInv, Numbered
      <4>2. Unboxed!Cardinality(Served) = Cardinality(Served)
        BY DEF Cardinality, IsFiniteSet, Unboxed!Cardinality, Unboxed!IsFiniteSet
      <4> QED BY <4>1, <4>2, FS_CardinalityType
    <3> QED BY <3>1, <3>2, ServedAtMost
  <2>6. Unboxed!Arrives(u, kind, f)
    BY <1>3, <2>3, <2>4, <2>5 DEF Arrives, Unboxed!Arrives
  <2>7. f \in Unboxed!FactNow
    BY <1>1 DEF FactNow, Unboxed!FactNow
  <2> QED BY <1>3, <2>1, <2>6, <2>7 DEF Arrives, Facts
<1> QED BY <1>2, <1>3 DEF UserStep, RequestSave, RequestDelete, Unboxed!Next, Unboxed!UserStep,
           Unboxed!RequestSave, Unboxed!RequestDelete

\* Moving rows changes no fact.
LEMMA ExecuteKeepsFacts ==
  ASSUME TypeOK, NEW r, NEW st \in r.todo, Execute(r, st)
  PROVE  Facts' = Facts
<1>1. ASSUME NEW x \in rows PROVE MovedRow(st, x).fact = x.fact
  BY DEF MovedRow, TypeOK
<1>2. CASE MoveRows(st)
  BY <1>1, <1>2 DEF MoveRows, Facts
<1>3. CASE ReassignUsers(st)
  BY <1>3 DEF ReassignUsers, Facts
<1> QED BY <1>2, <1>3 DEF Execute

\* Looking up and deciding, and moving rows and users: Facts notices nothing of it, unless
\* the request is turned away.
LEMMA PlacementUnnoticed ==
  ASSUME OInv, NEW r \in requests,
         \/ \E side \in {"s", "o"} : Find(r, side)
         \/ Decide(r)
         \/ \E st \in r.todo : Execute(r, st)
  PROVE  UNCHANGED << Facts, records, Served, count >> \/ Unboxed!TurnAway(Plain(r))
<1>1. IInv /\ TypeOK /\ r \in Request /\ UNCHANGED << records, count >>
  BY DEF OInv, IInv, TypeOK, Find, Decide, Execute
<1>2. ASSUME NEW side \in {"s", "o"}, Find(r, side)
      PROVE  Served' = Served /\ Facts' = Facts
  <2>1. PICK place : Becomes(r, [r EXCEPT !.found[side] = place])
    BY <1>2 DEF Find
  <2>2. PICK new : new = [r EXCEPT !.found[side] = place]
    OBVIOUS
  <2>3. GoesOn(r, new) /\ Plain(new) = Plain(r)
    BY <1>1, <2>1, <2>2 DEF Plain, Request, GoesOn
  <2> QED BY <1>2, <2>3, MovesIs DEF Find, Facts
<1>3. CASE Decide(r)
  <2>1. ASSUME NEW to, NEW todo, Decides(r, to, todo) PROVE Served' = Served
    <3>1. PICK new : new = [r EXCEPT !.to = to, !.todo = todo]
      OBVIOUS
    <3>2. GoesOn(r, new) /\ Plain(new) = Plain(r)
      BY <1>1, <2>1, <3>1 DEF Decides, Plain, Request, GoesOn
    <3> QED BY <3>2, MovesIs
  <2>2. Ends(r) \/ \E to, todo : Decides(r, to, todo)
    BY <1>3 DEF Decide, PlaceRole, PlaceAboutUser, PlaceConnection, MergeUserGraphs,
                MergeFactBoxes, MergeUserGraphToFactBox
  <2>3. ASSUME Ends(r) PROVE Unboxed!TurnAway(Plain(r))
    <3>1. r.at = "checked" \/ (r.at = "authorized" /\ r.kind = "save")
      BY <1>3 DEF Decide, Placing
    <3>2. Facts' = Facts
      BY <1>3 DEF Decide, Facts
    <3> QED BY <1>1, <2>3, <3>1, <3>2, EndsIs, PlainOf DEF Unboxed!TurnAway
  <2> QED BY <1>1, <1>3, <2>1, <2>2, <2>3 DEF Decide, Facts
<1>4. ASSUME NEW st \in r.todo, Execute(r, st) PROVE Served' = Served /\ Facts' = Facts
  <2>1. PICK new : new = [r EXCEPT !.todo = r.todo \ {st}]
    OBVIOUS
  <2>2. GoesOn(r, new) /\ Plain(new) = Plain(r)
    BY <1>1, <1>4, <2>1 DEF Execute, Plain, Request, GoesOn
  <2> QED BY <1>1, <1>4, <2>2, MovesIs, ExecuteKeepsFacts
<1> QED BY <1>1, <1>2, <1>3, <1>4

LEMMA WriteImplements ==
  ASSUME OInv, NEW r \in requests,
         \/ CheckAgain(r) \/ SelectOld(r) \/ (\E f \in r.old : DeleteOld(r, f))
         \/ InsertFact(r) \/ CheckDelete(r) \/ DeleteFact(r)
  PROVE  Unboxed!Serve(Plain(r)) \/ Unboxed!TurnAway(Plain(r))
<1>1. /\ IInv /\ TypeOK /\ r \in Request /\ Staged(r) /\ UNCHANGED << records, count >>
      /\ Seen(r.user) \subseteq Facts
  BY DEF OInv, IInv, TypeOK, Seen, Facts, CheckAgain, SelectOld, DeleteOld, InsertFact,
         CheckDelete, DeleteFact
<1>2. /\ Plain(r).user = r.user /\ Plain(r).kind = r.kind /\ Plain(r).fact = r.fact
      /\ Plain(r).at = r.at /\ Plain(r).old = r.old
  BY PlainOf
<1>3. Unboxed!Accountable = Accountable
  BY DEF Accountable, Unboxed!Accountable
<1>4. ASSUME Becomes(r, [r EXCEPT !.at = "authorized"]), r.at = "checked"
      PROVE  Unboxed!Moves(Plain(r), "authorized", {})
  <2>1. PICK new : new = [r EXCEPT !.at = "authorized"]
    OBVIOUS
  <2>2. GoesOn(r, new) /\ new.at = "authorized" /\ new.old = {}
    BY <1>1, <1>4, <2>1 DEF Request, Staged, GoesOn
  <2> QED BY <2>2, MovesIs
<1>5. ASSUME Ends(r), r.at = "checked", Facts' = Facts PROVE Unboxed!TurnAway(Plain(r))
  BY <1>1, <1>2, <1>5, EndsIs DEF Unboxed!TurnAway
<1>6. CASE CheckAgain(r)
  <2>1. /\ r.kind = "save" /\ r.fact.p = Accountable /\ r.at = "checked" /\ Facts' = Facts
    BY <1>6 DEF CheckAgain, Facts
  <2>2. CASE Permitted(r.user, r.fact)
    <3>1. Unboxed!MaySave(Facts, Facts, r.user, r.fact)
      BY <1>1, <2>2, SeesLess, SameRules DEF Permitted
    <3>2. Unboxed!Moves(Plain(r), "authorized", {})
      BY <1>4, <1>6, <2>1, <2>2 DEF CheckAgain
    <3>3. Unboxed!CheckAgain(Plain(r))
      BY <1>1, <1>2, <1>3, <2>1, <3>1, <3>2 DEF Unboxed!CheckAgain
    <3> QED BY <3>3 DEF Unboxed!Serve
  <2>3. CASE ~Permitted(r.user, r.fact)
    BY <1>5, <1>6, <2>1, <2>3 DEF CheckAgain
  <2> QED BY <2>2, <2>3
<1>7. CASE CheckDelete(r)
  <2>1. r.kind = "delete" /\ r.at = "checked" /\ Facts' = Facts
    BY <1>7 DEF CheckDelete, Facts
  <2>2. CASE MayDelete(Facts, Seen(r.user), r.user, r.fact)
    <3>1. Unboxed!MayDelete(Facts, Facts, r.user, r.fact)
      BY <1>1, <2>2, SeesLess, SameRules
    <3>2. Unboxed!Moves(Plain(r), "authorized", {})
      BY <1>4, <1>7, <2>1, <2>2 DEF CheckDelete
    <3>3. Unboxed!CheckDelete(Plain(r))
      BY <1>1, <1>2, <2>1, <3>1, <3>2 DEF Unboxed!CheckDelete
    <3> QED BY <3>3 DEF Unboxed!Serve
  <2>3. CASE ~MayDelete(Facts, Seen(r.user), r.user, r.fact)
    BY <1>5, <1>7, <2>1, <2>3 DEF CheckDelete
  <2> QED BY <2>2, <2>3
<1>8. CASE SelectOld(r)
  <2>1. PICK new : new = [r EXCEPT !.at = "replacing", !.old = AccountabilityIn(Facts, r.fact.o)]
    OBVIOUS
  <2>2. GoesOn(r, new) /\ new.at = "replacing" /\ new.old = AccountabilityIn(Facts, r.fact.o)
    BY <1>1, <1>8, <2>1 DEF SelectOld, Request, GoesOn
  <2>3. r.kind = "save" /\ r.at = "authorized" /\ Facts' = Facts
    BY <1>8 DEF SelectOld, Facts
  <2>4. Unboxed!Moves(Plain(r), "replacing", AccountabilityIn(Facts, r.fact.o))
    BY <2>2, MovesIs
  <2>5. Unboxed!AccountabilityOf(r.fact.o) = AccountabilityIn(Facts, r.fact.o)
    BY SameRules DEF Unboxed!AccountabilityOf
  <2>6. Unboxed!SelectOld(Plain(r))
    BY <1>1, <1>2, <2>3, <2>4, <2>5 DEF Unboxed!SelectOld
  <2> QED BY <2>6 DEF Unboxed!Serve
<1>9. ASSUME NEW f \in r.old, DeleteOld(r, f) PROVE Unboxed!Serve(Plain(r))
  <2>1. PICK new : new = [r EXCEPT !.old = r.old \ {f}]
    OBVIOUS
  <2>2. /\ GoesOn(r, new) /\ new.at = "replacing" /\ new.old = r.old \ {f}
        /\ r.kind = "save" /\ r.at = "replacing"
    BY <1>1, <1>9, <2>1 DEF Request, DeleteOld, Staged, GoesOn
  <2>3. Facts' = Facts \ {f}
    BY <1>9 DEF DeleteOld, Delete, Facts
  <2>4. Unboxed!Moves(Plain(r), "replacing", r.old \ {f})
    BY <2>2, MovesIs
  <2>5. Unboxed!DeleteOld(Plain(r), f)
    BY <1>1, <1>2, <2>2, <2>3, <2>4 DEF Unboxed!DeleteOld
  <2> QED BY <1>2, <2>5 DEF Unboxed!Serve
<1>10. CASE InsertFact(r)
  <2>1. PICK x : x = [fact |-> r.fact, box |-> r.to.box, graph |-> r.to.graph]
    OBVIOUS
  <2>2. rows' = rows \cup {x} /\ x.fact = r.fact /\ Ends(r)
    BY <1>10, <2>1 DEF InsertFact, Insert
  <2>3. Facts' = Facts \cup {r.fact} /\ Unboxed!Ends(Plain(r))
    BY <2>2, EndsIs DEF Facts
  <2>4. CASE r.fact.p # Accountable /\ r.at = "checked"
    <3>1. Unboxed!InsertFact(Plain(r))
      BY <1>1, <1>2, <1>3, <1>10, <2>3, <2>4 DEF InsertFact, Unboxed!InsertFact
    <3> QED BY <3>1 DEF Unboxed!Serve
  <2>5. CASE r.at = "replacing" /\ r.old = {}
    <3>1. Unboxed!InsertNew(Plain(r))
      BY <1>1, <1>2, <1>10, <2>3, <2>5 DEF InsertFact, Unboxed!InsertNew
    <3> QED BY <3>1 DEF Unboxed!Serve
  <2> QED BY <1>10, <2>4, <2>5 DEF InsertFact
<1>11. CASE DeleteFact(r)
  <2>1. Facts' = Facts \ {r.fact} /\ Unboxed!Ends(Plain(r))
    BY <1>11, EndsIs DEF DeleteFact, Delete, Facts
  <2>2. Unboxed!DeleteFact(Plain(r))
    BY <1>1, <1>2, <1>11, <2>1 DEF DeleteFact, Unboxed!DeleteFact
  <2> QED BY <2>2 DEF Unboxed!Serve
<1> QED BY <1>6, <1>7, <1>8, <1>9, <1>10, <1>11

LEMMA StepImplements ==
  OInv /\ [Next]_vars =>
    [Unboxed!Next \/ \E r \in Served : Unboxed!TurnAway(r)]_(Unboxed!vars)
<1> DEFINE Lenient == Unboxed!Next \/ \E r \in Served : Unboxed!TurnAway(r)
<1> SUFFICES ASSUME OInv, [Next]_vars PROVE [Lenient]_(Unboxed!vars)
  OBVIOUS
<1>1. ASSUME UNCHANGED << Facts, records, Served, count >>
      PROVE  [Lenient]_(Unboxed!vars)
  BY <1>1 DEF Unboxed!vars
<1>2. ASSUME NEW u \in User, UserStep(u) PROVE Lenient
  BY <1>2, UserStepImplements
<1>3. ASSUME NEW r \in requests, Serve(r) PROVE [Lenient]_(Unboxed!vars)
  <2>1. Plain(r) \in Served
    BY ServedIs
  <2>2. Unboxed!Serve(Plain(r)) => Unboxed!Next
    BY <2>1 DEF Unboxed!Next
  <2>3. Unboxed!TurnAway(Plain(r)) => Lenient
    BY <2>1
  <2> QED BY <1>1, <1>3, <2>2, <2>3, PlacementUnnoticed, WriteImplements DEF Serve
<1>4. CASE UNCHANGED vars
  BY <1>1, <1>4 DEF vars, Facts, Served
<1> QED BY <1>2, <1>3, <1>4 DEF Next

\* Whatever requests move rows and users at the same time, and users as groups or not: no
\* request does to the facts what it could not do if every query looked at all of them.
THEOREM BoxesImplementFacts == Spec => BoxesAllowNothingMore
<1>1. Init => Unboxed!Init
  BY DEF Init, Facts, Served, Unboxed!Init
<1> QED BY <1>1, OInvInit, OInvStep, StepImplements, PTL
        DEF Spec, BoxesAllowNothingMore, Unboxed!LenientSpec

-----------------------------------------------------------------------------
(* A record that no two requests get hold of at once stays in one place *)

Related(record, f, g) == record \in About(f) \cap About(g)

Together(record) ==
  \A x, y \in rows : Related(record, x.fact, y.fact) => SamePlace(x, y)

\* A graph is in one box, wherever rows are, and requests have found and decided.
InUse ==
  {PlaceOf(x) : x \in rows} \cup UNION {{r.found.s, r.found.o, r.to} : r \in requests}

OneBox == \A p, q \in InUse : p.graph = q.graph /\ p.graph # NoGraph => p.box = q.box

\* Row x is, or will be moved, to where the request's fact goes.
Settles(r, x) ==
  \/ (\A st \in r.todo : st.table # "facts") /\ SamePlace(x, r.to)
  \/ \E st \in r.todo :
       /\ st.table = "facts" /\ \A t \in r.todo : t.table = "facts" => t = st
       /\ SamePlace(MovedRow(st, x), r.to)

\* What the request has found of the record is where it still is; once the request has
\* decided, its statements bring the rows about the record to where its fact goes.
Current(r, record) ==
  /\ r.to = Unknown => \A side \in {"s", "o"}, x \in rows :
       r.found[side] # Unknown /\ r.fact[side] = record /\ record \in About(x.fact) =>
         SamePlace(x, r.found[side])
  /\ r.to # Unknown => \A x \in rows : Related(record, x.fact, r.fact) => Settles(r, x)

MovesGraphs(st) == st.table = "facts"

\* The rows a statement moves, and the places it empties
Hits(st, x) == \/ st.of = "graph" /\ x.graph = st.graph
               \/ st.of = "box" /\ x.box = st.box
Takes(st, p) == \/ st.of = "graph" /\ p.graph = st.graph /\ p.graph # NoGraph
                \/ st.of = "box" /\ p.box = st.box /\ IsShared(p)

\* Statements move from what was found to what was decided.
Bound(r) ==
  /\ r.to = Unknown => r.todo = {}
  /\ \A st \in r.todo :
       st.to = r.to /\ (MovesGraphs(st) => Takes(st, r.found.s) \/ Takes(st, r.found.o))

\* Before its last check, a request looks up nothing.
Idle(r) == ~Acting(r) => r.found.s = Unknown /\ r.found.o = Unknown /\ r.to = Unknown

Tidy(record) ==
  /\ OneBox /\ Together(record)
  /\ \A r \in requests : Current(r, record) /\ Bound(r) /\ Idle(r)

\* Places that are in use: a shared box has no graphs.
LEMMA InUseIs ==
  ASSUME IInv, NEW p \in InUse
  PROVE  /\ p \in Place \cup {Unknown}
         /\ p.graph \in 0 .. graphs
         /\ p.box \in 1 .. boxes => p.graph = NoGraph
<1> USE FactBoxesAssumption
<1>1. boxes \in Nat /\ graphs \in Nat
  BY DEF IInv, TypeOK
<1>2. CASE p = Unknown
  BY <1>1, <1>2 DEF Unknown, NoGraph
<1>3. ASSUME p \in Place, Made(p) \/ \E u \in User : p = OwnBox(u) PROVE p.graph \in 0 .. graphs
  BY <1>1, <1>3 DEF Made, IsShared, OwnBox, NoGraph
<1>4. ASSUME p \in Place, Made(p) \/ (p.box \in User /\ p.graph = NoGraph)
      PROVE  /\ p.graph \in 0 .. graphs
             /\ p.box \in 1 .. boxes => p.graph = NoGraph
  BY <1>1, <1>4 DEF Made, IsShared, NoGraph
<1>5. ASSUME NEW x \in rows, p = PlaceOf(x)
      PROVE  p \in Place /\ (Made(p) \/ (p.box \in User /\ p.graph = NoGraph))
  <2>1. /\ x.box \in Box /\ x.graph \in Nat
        /\ Made(x) \/ (x.box \in User /\ x.graph = NoGraph)
    BY DEF IInv, TypeOK, AboutUsersOnly
  <2>2. p.box = x.box /\ p.graph = x.graph /\ p \in Place
    BY <1>5, <2>1 DEF PlaceOf, Place
  <2> QED BY <2>1, <2>2 DEF Made, IsShared
<1>6. ASSUME NEW r \in requests, p \in {r.found.s, r.found.o, r.to}, p # Unknown
      PROVE  p \in Place /\ (Made(p) \/ (p.box \in User /\ p.graph = NoGraph))
  <2>1. r \in Request /\ RequestOK(r)
    BY DEF IInv, TypeOK
  <2>2. p \in Place
    BY <1>6, <2>1 DEF Request
  <2>3. Made(p) \/ \E u \in User : p = OwnBox(u)
    BY <1>6, <2>1 DEF RequestOK, AboutUsersOnly
  <2> QED BY <2>2, <2>3 DEF OwnBox
<1> QED BY <1>2, <1>4, <1>5, <1>6 DEF InUse

LEMMA InUseOf ==
  /\ \A x \in rows : PlaceOf(x) \in InUse
  /\ \A r \in requests : r.found.s \in InUse /\ r.found.o \in InUse /\ r.to \in InUse
BY DEF InUse

\* Rows about a record that one request is about are left alone by the others.
LEMMA Untouched ==
  ASSUME IInv, NEW record \in Record \ Contested, Tidy(record),
         NEW r \in requests, NEW q \in requests, r # q, Acting(q), record \in About(q.fact),
         NEW st \in r.todo, MovesGraphs(st), NEW x \in rows, record \in About(x.fact)
  PROVE  ~Hits(st, x)
<1>1. Bound(r) /\ Idle(r)
  BY DEF Tidy
<1>2. Acting(r)
  BY <1>1 DEF Bound, Idle
<1>3. PICK p \in {r.found.s, r.found.o} : Takes(st, p)
  BY <1>1 DEF Bound
<1>4. p \in InUse /\ PlaceOf(x) \in InUse
  BY InUseOf
<1>5. p \in Place /\ PlaceOf(x) \in Place
  <2>1. p # Unknown
    BY <1>3, FactBoxesAssumption DEF Takes, Unknown, IsShared, NoGraph, IInv, TypeOK
  <2>2. PlaceOf(x) # Unknown
    BY FactBoxesAssumption DEF PlaceOf, IInv, TypeOK, Box, Unknown
  <2> QED BY <1>4, <2>1, <2>2, InUseIs
<1>6. PlaceOf(x).box = x.box /\ PlaceOf(x).graph = x.graph
  BY DEF PlaceOf
<1>7. ASSUME Hits(st, x) PROVE PlaceOf(x).box = p.box /\ PlaceOf(x).graph = p.graph
  <2>1. CASE st.of = "graph" /\ p.graph = st.graph /\ p.graph # NoGraph
    BY <1>4, <1>6, <1>7, <2>1 DEF Hits, Tidy, OneBox
  <2>2. CASE st.of = "box" /\ p.box = st.box /\ IsShared(p)
    BY <1>4, <1>6, <1>7, <2>2, InUseIs DEF Hits, IsShared
  <2> QED BY <1>3, <2>1, <2>2 DEF Takes
<1>8. ASSUME Hits(st, x) PROVE PlaceOf(x) \in {r.found.s, r.found.o}
  BY <1>5, <1>7, <1>8 DEF Place
<1>9. x \in RowsAbout(record)
  BY DEF RowsAbout, About
<1> QED BY <1>2, <1>8, <1>9 DEF Contested, GotHold

\* A step brings at most one place into use: a shared box, or a new graph.
LEMMA OneBoxGrows ==
  ASSUME IInv, OneBox, Grows, NEW new,
         \A p \in InUse' : p \in InUse \/ p = new,
         new.graph \in {NoGraph, graphs + 1}
  PROVE  OneBox'
<1>1. graphs \in Nat /\ \A p \in InUse : p.graph \in 0 .. graphs
  BY InUseIs DEF IInv, TypeOK
<1>2. \A p \in InUse : p.graph # graphs + 1
  BY <1>1
<1> QED BY <1>2 DEF OneBox

\* What places are in use after a step
LEMMA InUseNext ==
  ASSUME NEW r \in requests, NEW new, Becomes(r, new)
  PROVE  \A p \in InUse' : \/ p \in InUse
                           \/ p \in {new.found.s, new.found.o, new.to}
                           \/ \E x \in rows' : p = PlaceOf(x)
BY DEF InUse, Becomes

\* What to show of a step of a request
LEMMA TidyNext ==
  ASSUME IInv, NEW record \in Record, Tidy(record), Grows, NEW r \in requests,
         OneBox', Together(record)',
         \A q \in requests \ {r} : Current(q, record) => Current(q, record)',
         Ends(r) \/ \E new : Becomes(r, new) /\ Current(new, record)' /\ Bound(new)' /\ Idle(new)
  PROVE  Tidy(record)'
<1>1. ASSUME NEW q \in requests, Bound(q) PROVE Bound(q)'
  <2>1. ASSUME NEW st, NEW p, Takes(st, p) PROVE Takes(st, p)'
    BY <2>1 DEF Takes, IsShared, Grows, IInv, TypeOK
  <2> QED BY <1>1, <2>1 DEF Bound
<1>2. \A q \in requests \ {r} : Current(q, record)' /\ Bound(q)' /\ Idle(q)'
  BY <1>1 DEF Tidy, Idle, Acting
<1> QED BY <1>2 DEF Tidy, Ends, Becomes, Idle, Acting

LEMMA TidyUserStep ==
  ASSUME IInv, NEW record \in Record, Tidy(record), NEW u \in User, UserStep(u)
  PROVE  Tidy(record)'
<1> USE FactBoxesAssumption
<1>0. \A q \in requests : q \in Request /\ RequestOK(q) /\ Current(q, record) /\ Bound(q) /\ Idle(q)
  BY DEF IInv, TypeOK, Tidy
<1>1. ASSUME NEW fresh \in Record, CreateRecord(u, fresh) PROVE Tidy(record)'
  <2>1. PICK x : x = [fact |-> [s |-> u, p |-> Accountable, o |-> fresh],
                      box |-> u, graph |-> graphs + 1]
    OBVIOUS
  <2>2. /\ rows' = rows \cup {x} /\ requests' = requests /\ boxes' = boxes
        /\ graphs' = graphs + 1 /\ Created \subseteq Created'
        /\ About(x.fact) = {fresh} /\ fresh \notin User \cup Created
        /\ PlaceOf(x).graph = graphs + 1
    BY <1>1, <2>1 DEF CreateRecord, About, PlaceOf, Created
  <2>3. ASSUME NEW y \in rows PROVE fresh \notin About(y.fact)
    BY <2>2 DEF IInv, About
  <2>4. ASSUME NEW r \in requests PROVE fresh \notin About(r.fact)
    BY <1>0, <2>2 DEF RequestOK, About
  <2>5. Together(record)'
    BY <2>2, <2>3 DEF Tidy, Together, Related, SamePlace
  <2>6. ASSUME NEW r \in requests PROVE Current(r, record)' /\ Bound(r)' /\ Idle(r)'
    <3>1. ASSUME NEW side \in {"s", "o"}, r.fact[side] = record PROVE record \notin About(x.fact)
      BY <2>2, <2>4, <3>1 DEF About
    <3>2. ~Related(record, x.fact, r.fact)
      BY <2>2, <2>4 DEF Related
    <3>3. Current(r, record)'
      BY <1>0, <2>2, <3>1, <3>2 DEF Current, Settles, SamePlace
    <3>4. Bound(r)'
      BY <1>0, <2>2 DEF Bound, Takes, IsShared
    <3> QED BY <1>0, <3>3, <3>4 DEF Idle, Acting
  <2>7. OneBox'
    <3>1. Grows
      BY <2>2 DEF Grows
    <3>2. \A p \in InUse' : p \in InUse \/ p = PlaceOf(x)
      BY <2>2 DEF InUse
    <3> QED BY <2>2, <3>1, <3>2, OneBoxGrows DEF Tidy
  <2> QED BY <2>2, <2>5, <2>6, <2>7 DEF Tidy
<1>2. ASSUME NEW f \in FactNow, NEW kind \in {"save", "delete"}, Arrives(u, kind, f)
      PROVE  Tidy(record)'
  <2>1. PICK new :
          new = [nr |-> count + 1, user |-> u, kind |-> kind, fact |-> f, at |-> "checked",
                 old |-> {}, found |-> [s |-> Unknown, o |-> Unknown], to |-> Unknown, todo |-> {}]
    OBVIOUS
  <2>2. /\ requests' = requests \cup {new} /\ rows' = rows /\ boxes' = boxes /\ graphs' = graphs
        /\ new.found.s = Unknown /\ new.found.o = Unknown /\ new.to = Unknown /\ new.todo = {}
        /\ \A side \in {"s", "o"} : new.found[side] = Unknown
        /\ Created' = Created
    BY <1>2, <2>1 DEF Arrives, Created
  <2>3. Current(new, record)' /\ Bound(new)' /\ Idle(new)'
    BY <2>2 DEF Current, Bound, Idle
  <2>4. \A r \in requests : Current(r, record)' /\ Bound(r)' /\ Idle(r)'
    BY <1>0, <2>2 DEF Current, Settles, Bound, Takes, IsShared, Idle, Acting
  <2>5. OneBox'
    <3>1. Unknown.graph = NoGraph /\ Grows
      BY <2>2 DEF Unknown, Grows
    <3>2. \A p \in InUse' : p \in InUse \/ p = Unknown
      BY <2>2 DEF InUse
    <3> QED BY <3>1, <3>2, OneBoxGrows DEF Tidy
  <2> QED BY <2>2, <2>3, <2>4, <2>5 DEF Tidy, Together
<1> QED BY <1>1, <1>2 DEF UserStep, RequestSave, RequestDelete

LEMMA TidyFind ==
  ASSUME IInv, NEW record \in Record, Tidy(record),
         NEW r \in requests, NEW side \in {"s", "o"}, Find(r, side)
  PROVE  Tidy(record)'
<1> USE FactBoxesAssumption
<1>1. /\ r \in Request /\ RequestOK(r) /\ Current(r, record) /\ Bound(r) /\ Together(record)
      /\ Acting(r)
      /\ rows' = rows /\ r.to = Unknown /\ r.todo = {} /\ boxes' = boxes /\ Grows
      /\ graphs \in Nat
  BY DEF Tidy, IInv, TypeOK, Find, Placing, Acting, Bound, Grows, Created
<1>2. PICK place \in Places(r.user, r.fact[side]) : Becomes(r, [r EXCEPT !.found[side] = place])
  BY DEF Find
<1>3. ASSUME NEW x \in rows, r.fact[side] = record, record \in About(x.fact)
      PROVE  SamePlace(x, place)
  <2>0. r.fact[side] \notin User
    BY <1>3 DEF About
  <2>1. x \in RowsAbout(r.fact[side])
    BY <1>3 DEF RowsAbout, About
  <2>2. PICK y \in RowsAbout(r.fact[side]) : place = [box |-> y.box, graph |-> y.graph]
    BY <1>2, <2>0, <2>1 DEF Places, IsNew
  <2>3. r.fact[side] \in About(y.fact) /\ y \in rows
    BY <2>0, <2>2 DEF RowsAbout, About
  <2>4. Related(record, x.fact, y.fact)
    BY <1>3, <2>3 DEF Related
  <2>5. SamePlace(x, y)
    BY <1>1, <2>3, <2>4 DEF Together
  <2> QED BY <2>2, <2>5 DEF SamePlace
<1>4. PICK new : new = [r EXCEPT !.found[side] = place]
  OBVIOUS
<1>5. /\ new.fact = r.fact /\ new.to = Unknown /\ new.todo = {} /\ new.kind = r.kind
      /\ new.at = r.at /\ new.found.s \in {place, r.found.s} /\ new.found.o \in {place, r.found.o}
      /\ \A d \in {"s", "o"} : new.found[d] = IF d = side THEN place ELSE r.found[d]
  BY <1>1, <1>4 DEF Request
<1>6. Current(new, record)' /\ Bound(new)' /\ Idle(new)
  <2>1. Current(new, record)'
    BY <1>1, <1>3, <1>5 DEF Current
  <2>2. Acting(new)
    BY <1>1, <1>5 DEF Acting
  <2> QED BY <1>5, <2>1, <2>2 DEF Bound, Idle
<1>7. Becomes(r, new)
  BY <1>2, <1>4
<1>8. OneBox'
  <2>1. place \in InUse \/ place.graph \in {NoGraph, graphs + 1}
    <3>1. CASE r.fact[side] \in User \/ IsNew(r.fact[side])
      BY <1>2, <3>1 DEF Places
    <3>2. CASE r.fact[side] \notin User /\ ~IsNew(r.fact[side])
      <4>1. PICK x \in rows : place = [box |-> x.box, graph |-> x.graph]
        BY <1>2, <3>2 DEF Places, RowsAbout
      <4>2. place = PlaceOf(x)
        BY <4>1 DEF PlaceOf
      <4> QED BY <4>2, InUseOf
    <3> QED BY <3>1, <3>2
  <2>2. \A p \in InUse' : p \in InUse \/ p = place
    BY <1>1, <1>5, <1>7, InUseNext, InUseOf
  <2>3. CASE place \in InUse
    BY <2>2, <2>3 DEF Tidy, OneBox
  <2>4. CASE place.graph \in {NoGraph, graphs + 1}
    BY <1>1, <2>2, <2>4, OneBoxGrows DEF Tidy
  <2> QED BY <2>1, <2>3, <2>4
<1>9. Together(record)' /\ \A q \in requests : Current(q, record) => Current(q, record)'
  BY <1>1 DEF Together, Current, Settles
<1> QED BY <1>1, <1>6, <1>7, <1>8, <1>9, TidyNext

LEMMA TidyDecide ==
  ASSUME IInv, NEW record \in Record, Tidy(record), NEW r \in requests, Decide(r)
  PROVE  Tidy(record)'
<1> USE FactBoxesAssumption
<1> DEFINE s == r.found.s  o == r.found.o
<1>1. /\ r \in Request /\ RequestOK(r) /\ Current(r, record) /\ Together(record) /\ Acting(r)
      /\ TypeOK /\ rows' = rows /\ r.to = Unknown /\ boxes \in Nat /\ graphs \in Nat
      /\ s \in Place \cup {Unknown} /\ o \in Place \cup {Unknown}
      /\ UNCHANGED << graphs, records >>
  BY DEF Tidy, IInv, TypeOK, Decide, Placing, Request, Acting
<1>2. /\ "s" \in Sides(r.fact) => s # Unknown /\ Made(s)
      /\ "o" \in Sides(r.fact) => /\ o # Unknown
                                  /\ r.fact.o \notin User => Made(o)
                                  /\ r.fact.o \in User => About(r.fact) = {}
  <2>1. ASSUME "s" \in Sides(r.fact) PROVE s # Unknown /\ r.fact.s \notin User
    BY <2>1 DEF Decide, Sides
  <2>2. ASSUME "o" \in Sides(r.fact)
        PROVE  o # Unknown /\ (r.fact.o \in User => r.fact.s \in User)
    BY <2>2 DEF Decide, Sides
  <2>3. s # Unknown => r.fact.s \notin User /\ Made(s)
    BY <1>1 DEF RequestOK
  <2>4. o # Unknown => (r.fact.o \notin User /\ Made(o)) \/ AboutUsersOnly(r.fact)
    BY <1>1 DEF RequestOK
  <2> QED BY <2>1, <2>2, <2>3, <2>4 DEF AboutUsersOnly, About
<1>3. \A x \in rows :
        record \in About(x.fact) =>
          /\ "s" \in Sides(r.fact) /\ r.fact.s = record => SamePlace(x, s)
          /\ "o" \in Sides(r.fact) /\ r.fact.o = record => SamePlace(x, o)
  BY <1>1, <1>2 DEF Current
<1>4. \A q \in requests : Current(q, record) => Current(q, record)'
  BY <1>1 DEF Current, Settles
<1>5. \A p \in Place : Made(p) => /\ p.graph = NoGraph => IsShared(p)
                                  /\ p.graph # NoGraph => p.box \in User
  BY <1>1, MadeIsPlace
<1>6. ASSUME NEW to, NEW todo, Decides(r, to, todo), to # Unknown,
             boxes' \in {boxes, boxes + 1}, to \in InUse \/ to.graph = NoGraph,
             \A x \in rows : Related(record, x.fact, r.fact) =>
               \/ (\A st \in todo : st.table # "facts") /\ SamePlace(x, to)
               \/ \E st \in todo :
                    /\ st.table = "facts" /\ \A t \in todo : t.table = "facts" => t = st
                    /\ SamePlace(MovedRow(st, x), to),
             \A st \in todo :
               st.to = to /\ (MovesGraphs(st) => Takes(st, s) \/ Takes(st, o))
      PROVE  Tidy(record)'
  <2>1. PICK new : new = [r EXCEPT !.to = to, !.todo = todo]
    OBVIOUS
  <2>2. /\ new.to = to /\ new.todo = todo /\ new.fact = r.fact /\ new.found = r.found
        /\ new.kind = r.kind /\ new.at = r.at
    BY <1>1, <2>1 DEF Request
  <2>3. Becomes(r, new) /\ Grows
    BY <1>1, <1>6, <2>1 DEF Decides, Grows, Created
  <2>4. Current(new, record)' /\ Idle(new)
    <3>1. Current(new, record)'
      BY <1>1, <1>6, <2>2 DEF Current, Settles
    <3> QED BY <1>1, <2>2, <3>1 DEF Idle, Acting
  <2>5. Bound(new)'
    <3>1. ASSUME NEW st, NEW p, Takes(st, p) PROVE Takes(st, p)'
      BY <1>1, <1>6, <3>1 DEF Takes, IsShared
    <3> QED BY <1>6, <2>2, <3>1 DEF Bound
  <2>6. OneBox'
    <3>1. \A p \in InUse' : p \in InUse \/ p = to
      BY <1>1, <2>2, <2>3, InUseNext, InUseOf
    <3>2. CASE to \in InUse
      BY <3>1, <3>2 DEF Tidy, OneBox
    <3>3. CASE to.graph = NoGraph
      BY <2>3, <3>1, <3>3, OneBoxGrows DEF Tidy
    <3> QED BY <1>6, <3>2, <3>3
  <2> QED BY <1>1, <1>4, <2>3, <2>4, <2>5, <2>6, TidyNext DEF Together
<1>7. ASSUME Ends(r), boxes' = boxes PROVE Tidy(record)'
  <2>1. Grows /\ Together(record)'
    BY <1>1, <1>7 DEF Grows, Created, Together
  <2>2. OneBox'
    <3>1. InUse' \subseteq InUse
      BY <1>1, <1>7 DEF InUse, Ends
    <3> QED BY <3>1 DEF Tidy, OneBox
  <2> QED BY <1>4, <1>7, <2>1, <2>2, TidyNext
<1>8. ASSUME NEW to, NEW x \in rows, NEW st, st.to = to, Hits(st, x)
      PROVE  SamePlace(MovedRow(st, x), to)
  <2>1. x \in [fact : Fact, box : Box, graph : Nat]
    BY <1>1 DEF TypeOK
  <2>2. PICK y : y = [x EXCEPT !.box = to.box, !.graph = to.graph]
    OBVIOUS
  <2>3. SamePlace(y, to)
    BY <2>1, <2>2 DEF SamePlace
  <2> QED BY <1>8, <2>2, <2>3 DEF MovedRow, Hits
<1>9. /\ \A graph, to : LET st == MoveGraph(graph, to)
                        IN st.table = "facts" /\ st.of = "graph" /\ st.graph = graph /\ st.to = to
      /\ \A box, to : LET st == MoveBox(box, to)
                      IN st.table = "facts" /\ st.of = "box" /\ st.box = box /\ st.to = to
      /\ \A u, to : LET st == Assign(u, to)
                    IN st.table = "users" /\ st.of = "user" /\ st.to = to
      /\ \A box, to : LET st == HandOver(box, to)
                      IN st.table = "users" /\ st.of = "box" /\ st.box = box /\ st.to = to
  BY DEF MoveGraph, MoveBox, Assign, HandOver
<1>10. ASSUME NEW to, NEW x \in rows, NEW graph, NEW box
       PROVE  /\ x.graph = graph => SamePlace(MovedRow(MoveGraph(graph, to), x), to)
              /\ x.graph # graph => MovedRow(MoveGraph(graph, to), x) = x
              /\ x.box = box => SamePlace(MovedRow(MoveBox(box, to), x), to)
              /\ x.box # box => MovedRow(MoveBox(box, to), x) = x
  <2>1. ASSUME NEW st, st = MoveGraph(graph, to)
        PROVE  IF x.graph = graph THEN SamePlace(MovedRow(st, x), to) ELSE MovedRow(st, x) = x
    <3>1. st.of = "graph" /\ st.graph = graph /\ st.to = to
      BY <1>9, <2>1
    <3> QED BY <1>8, <3>1 DEF Hits, MovedRow
  <2>2. ASSUME NEW st, st = MoveBox(box, to)
        PROVE  IF x.box = box THEN SamePlace(MovedRow(st, x), to) ELSE MovedRow(st, x) = x
    <3>1. st.of = "box" /\ st.box = box /\ st.to = to
      BY <1>9, <2>2
    <3> QED BY <1>8, <3>1 DEF Hits, MovedRow
  <2> QED BY <2>1, <2>2
<1>11. s \in InUse /\ o \in InUse
  BY InUseOf
<1>12. CASE r.fact.s \in User /\ PlaceRole(r)
  <2>1. /\ o # Unknown /\ \A x \in rows : Related(record, x.fact, r.fact) => SamePlace(x, o)
    BY <1>2, <1>3, <1>12 DEF Sides, Related, About
  <2>2. ASSUME Decides(r, o, {Assign(r.fact.s, o)}) \/ Decides(r, o, {}), boxes' = boxes
        PROVE  Tidy(record)'
    BY <1>6, <1>9, <1>11, <2>1, <2>2 DEF MovesGraphs
  <2>3. ASSUME NEW fresh, fresh # Unknown, fresh.graph = NoGraph, o.graph # NoGraph,
               Decides(r, fresh, {MoveGraph(o.graph, fresh), Assign(r.user, fresh),
                                  Assign(r.fact.s, fresh)}),
               boxes' = boxes + 1
        PROVE  Tidy(record)'
    <3>1. \A x \in rows : Related(record, x.fact, r.fact) =>
            SamePlace(MovedRow(MoveGraph(o.graph, fresh), x), fresh)
      <4>1. \A x \in rows : Related(record, x.fact, r.fact) => x.graph = o.graph
        BY <2>1 DEF SamePlace
      <4> QED BY <1>10, <4>1
    <3>2. PICK todo : todo = {MoveGraph(o.graph, fresh), Assign(r.user, fresh),
                              Assign(r.fact.s, fresh)}
      OBVIOUS
    <3>3. \A st \in todo :
            st.to = fresh /\ (MovesGraphs(st) => st = MoveGraph(o.graph, fresh))
      BY <1>9, <3>2 DEF MovesGraphs
    <3>4. Takes(MoveGraph(o.graph, fresh), o)
      BY <1>9, <2>3 DEF Takes
    <3>5. \A x \in rows : Related(record, x.fact, r.fact) =>
            \E st \in todo : /\ st.table = "facts" /\ \A t \in todo : t.table = "facts" => t = st
                             /\ SamePlace(MovedRow(st, x), fresh)
      BY <1>9, <3>1, <3>2
    <3>6. Decides(r, fresh, todo)
      BY <2>3, <3>2
    <3> QED BY <1>6, <2>3, <3>3, <3>4, <3>5, <3>6
  <2>4. Shared(boxes + 1) # Unknown /\ Shared(boxes + 1).graph = NoGraph
    BY <1>1 DEF Shared, Unknown
  <2> QED BY <1>12, <2>2, <2>3, <2>4 DEF PlaceRole
<1>13. CASE r.fact.s \notin User /\ r.fact.o \in User /\ PlaceAboutUser(r) /\ UNCHANGED boxes
  <2>1. s # Unknown /\ \A x \in rows : Related(record, x.fact, r.fact) => SamePlace(x, s)
    BY <1>2, <1>3, <1>13 DEF Sides, Related, About
  <2>2. Decides(r, s, {Assign(r.user, s)}) \/ Decides(r, s, {})
    BY <1>13 DEF PlaceAboutUser
  <2> QED BY <1>6, <1>9, <1>11, <1>13, <2>1, <2>2 DEF MovesGraphs
<1>14. CASE r.fact.s \notin User /\ r.fact.o \notin User /\ PlaceConnection(r) /\ UNCHANGED boxes
  <2>1. /\ s # Unknown /\ o # Unknown /\ s \in Place /\ o \in Place /\ Made(s) /\ Made(o)
        /\ \A x \in rows : Related(record, x.fact, r.fact) => SamePlace(x, s) \/ SamePlace(x, o)
    BY <1>1, <1>2, <1>3, <1>14 DEF Sides, Related, About
  <2>2. CASE s.graph # NoGraph /\ o.graph # NoGraph /\ MergeUserGraphs(r, s, o)
    <3>1. CASE s.box = o.box /\ s.graph = o.graph /\ Decides(r, s, {})
      BY <1>6, <1>11, <1>14, <2>1, <3>1 DEF SamePlace
    <3>2. CASE s.graph # o.graph /\ Decides(r, s, {MoveGraph(o.graph, s)})
      <4>1. \A x \in rows : Related(record, x.fact, r.fact) =>
              SamePlace(MovedRow(MoveGraph(o.graph, s), x), s)
        BY <1>10, <2>1, <3>2 DEF SamePlace
      <4>2. Takes(MoveGraph(o.graph, s), o)
        BY <1>9, <2>2 DEF Takes
      <4> QED BY <1>6, <1>9, <1>11, <1>14, <2>1, <3>2, <4>1, <4>2
    <3> QED BY <1>7, <1>14, <2>2, <3>1, <3>2 DEF MergeUserGraphs
  <2>3. CASE MergeFactBoxes(r, s, o) /\ s.graph = NoGraph /\ o.graph = NoGraph
    <3>1. \A x \in rows : Related(record, x.fact, r.fact) =>
            SamePlace(MovedRow(MoveBox(s.box, o), x), o)
      BY <1>10, <2>1, <2>3 DEF SamePlace
    <3>2. Decides(r, o, {MoveBox(s.box, o), HandOver(s.box, o)})
      BY <2>3 DEF MergeFactBoxes
    <3>3. Takes(MoveBox(s.box, o), s)
      BY <1>5, <1>9, <2>1, <2>3 DEF Takes
    <3>4. PICK todo : todo = {MoveBox(s.box, o), HandOver(s.box, o)}
      OBVIOUS
    <3>5. \A st \in todo : st.to = o /\ (MovesGraphs(st) => st = MoveBox(s.box, o))
      BY <1>9, <3>4 DEF MovesGraphs
    <3>6. \A x \in rows : Related(record, x.fact, r.fact) =>
            \E st \in todo : /\ st.table = "facts" /\ \A t \in todo : t.table = "facts" => t = st
                             /\ SamePlace(MovedRow(st, x), o)
      BY <1>9, <3>1, <3>4
    <3>7. Decides(r, o, todo)
      BY <3>2, <3>4
    <3> QED BY <1>6, <1>11, <1>14, <2>1, <3>3, <3>5, <3>6, <3>7
  <2>4. ASSUME NEW own, NEW shared, MergeUserGraphToFactBox(r, own, shared),
               own.graph # NoGraph, shared.graph = NoGraph, shared # Unknown,
               own \in {s, o}, own.box \in User, shared \in InUse,
               \A x \in rows :
                 Related(record, x.fact, r.fact) => SamePlace(x, own) \/ SamePlace(x, shared)
        PROVE  Tidy(record)'
    <3>1. \A x \in rows : Related(record, x.fact, r.fact) =>
            SamePlace(MovedRow(MoveGraph(own.graph, shared), x), shared)
      <4>1. ASSUME NEW x \in rows, Related(record, x.fact, r.fact)
            PROVE  SamePlace(MovedRow(MoveGraph(own.graph, shared), x), shared)
        <5>1. CASE x.graph = own.graph
          BY <1>10, <5>1
        <5>2. CASE x.graph # own.graph
          <6>1. SamePlace(x, shared)
            BY <2>4, <4>1, <5>2 DEF SamePlace
          <6> QED BY <1>10, <5>2, <6>1
        <5> QED BY <5>1, <5>2
      <4> QED BY <4>1
    <3>2. PICK todo : todo = {MoveGraph(own.graph, shared), HandOver(own.box, shared),
                              Assign(own.box, shared)}
      OBVIOUS
    <3>3. Decides(r, shared, todo)
      BY <2>4, <3>2 DEF MergeUserGraphToFactBox
    <3>4. Takes(MoveGraph(own.graph, shared), own)
      BY <1>9, <2>4 DEF Takes
    <3>5. \A st \in todo :
            st.to = shared /\ (MovesGraphs(st) => st = MoveGraph(own.graph, shared))
      BY <1>9, <2>4, <3>2 DEF MovesGraphs
    <3>6. \A x \in rows : Related(record, x.fact, r.fact) =>
            \E st \in todo : /\ st.table = "facts" /\ \A t \in todo : t.table = "facts" => t = st
                             /\ SamePlace(MovedRow(st, x), shared)
      BY <1>9, <3>1, <3>2
    <3> QED BY <1>6, <1>14, <2>4, <3>3, <3>4, <3>5, <3>6
  <2> QED BY <1>5, <1>11, <1>14, <2>1, <2>2, <2>3, <2>4 DEF PlaceConnection
<1> QED BY <1>12, <1>13, <1>14 DEF Decide

LEMMA TidyExecute ==
  ASSUME IInv, NEW record \in Record \ Contested, Tidy(record),
         NEW r \in requests, NEW st \in r.todo, Execute(r, st)
  PROVE  Tidy(record)'
<1>1. /\ r \in Request /\ Current(r, record) /\ Bound(r) /\ Idle(r) /\ Together(record) /\ TypeOK
      /\ r.to # Unknown /\ st.to \in Place /\ st.to = r.to
  BY DEF Tidy, IInv, TypeOK, Current, Request, Statement, Bound
<1>2. PICK new : new = [r EXCEPT !.todo = r.todo \ {st}]
  OBVIOUS
<1>3. /\ new.todo = r.todo \ {st} /\ new.to = r.to /\ new.fact = r.fact /\ new.found = r.found
      /\ new.kind = r.kind /\ new.at = r.at
  BY <1>1, <1>2 DEF Request
<1>4. /\ Becomes(r, new) /\ Grows /\ UNCHANGED << boxes, graphs, records >>
      /\ Bound(new)' /\ Idle(new)
  <2>1. Becomes(r, new) /\ Grows /\ UNCHANGED << boxes, graphs, records >>
    BY <1>1, <1>2 DEF Execute, Grows, Created
  <2>2. Acting(new)
    BY <1>1, <1>3 DEF Idle, Acting
  <2>3. Bound(new)'
    BY <1>1, <1>3, <2>1 DEF Bound, Takes, IsShared
  <2> QED BY <2>1, <2>2, <2>3 DEF Idle
<1>5. CASE st.table = "users" /\ ReassignUsers(st)
  <2>1. rows' = rows
    BY <1>5 DEF ReassignUsers
  <2>2. Current(new, record)'
    BY <1>1, <1>3, <1>5, <2>1 DEF Current, Settles
  <2>3. Together(record)' /\ \A q \in requests : Current(q, record) => Current(q, record)'
    BY <1>1, <2>1 DEF Together, Current, Settles
  <2>4. OneBox'
    <3>1. \A p \in InUse' : p \in InUse
      BY <1>3, <1>4, <2>1, InUseNext, InUseOf
    <3> QED BY <3>1 DEF Tidy, OneBox
  <2> QED BY <1>4, <2>2, <2>3, <2>4, TidyNext
<1>6. CASE st.table = "facts" /\ MoveRows(st)
  <2>1. ASSUME NEW x \in rows
        PROVE  /\ MovedRow(st, x).fact = x.fact
               /\ IF Hits(st, x) THEN SamePlace(MovedRow(st, x), r.to) ELSE MovedRow(st, x) = x
    <3>1. x \in [fact : Fact, box : Box, graph : Nat]
      BY <1>1 DEF TypeOK
    <3>2. PICK y : y = [x EXCEPT !.box = st.to.box, !.graph = st.to.graph]
      OBVIOUS
    <3>3. SamePlace(y, st.to) /\ y.fact = x.fact
      BY <3>1, <3>2 DEF SamePlace
    <3> QED BY <1>1, <3>2, <3>3 DEF MovedRow, Hits
  <2>2. ASSUME NEW x \in rows, NEW y \in rows, SamePlace(x, y)
        PROVE  SamePlace(MovedRow(st, x), MovedRow(st, y))
    <3>1. Hits(st, x) <=> Hits(st, y)
      BY <2>2 DEF Hits, SamePlace
    <3> QED BY <2>1, <2>2, <3>1 DEF SamePlace
  <2>3. Together(record)'
    BY <1>1, <1>6, <2>1, <2>2 DEF Together, MoveRows
  <2>4. ASSUME NEW x \in rows, Related(record, x.fact, r.fact)
        PROVE  SamePlace(MovedRow(st, x), r.to)
    BY <1>1, <1>6, <2>4 DEF Current, Settles
  <2>5. ASSUME NEW x \in rows, Related(record, x.fact, r.fact), NEW t \in new.todo
        PROVE  t.table # "facts"
    BY <1>1, <1>3, <1>6, <2>5 DEF Current, Settles
  <2>6. Current(new, record)'
    BY <1>1, <1>3, <1>6, <2>1, <2>4, <2>5 DEF Current, Settles, MoveRows
  <2>7. ASSUME NEW q \in requests \ {r}, Current(q, record) PROVE Current(q, record)'
    <3>1. CASE Acting(q)
      <4>1. ASSUME NEW x \in rows, Related(record, x.fact, q.fact) PROVE MovedRow(st, x) = x
        <5>1. ~Hits(st, x)
          BY <1>6, <3>1, <4>1, Untouched DEF MovesGraphs, Related
        <5> QED BY <2>1, <5>1
      <4>2. ASSUME NEW side \in {"s", "o"}, NEW x, q.fact[side] = record, record \in About(x.fact)
            PROVE  Related(record, x.fact, q.fact)
        BY <4>2 DEF Related, About
      <4>3. ASSUME NEW x \in rows', Related(record, x.fact, q.fact) PROVE x \in rows
        BY <1>6, <2>1, <4>1, <4>3 DEF MoveRows
      <4>4. ASSUME q.to = Unknown PROVE Current(q, record)'
        BY <2>7, <4>2, <4>3, <4>4 DEF Current
      <4>5. ASSUME q.to # Unknown PROVE Current(q, record)'
        BY <2>7, <4>3, <4>5 DEF Current, Settles
      <4> QED BY <4>4, <4>5
    <3>2. CASE ~Acting(q)
      <4>1. \A side \in {"s", "o"} : q.found[side] = Unknown
        BY <3>2 DEF Tidy, Idle
      <4>2. q.to = Unknown
        BY <3>2 DEF Tidy, Idle
      <4> QED BY <2>7, <4>1, <4>2 DEF Current
    <3> QED BY <3>1, <3>2
  <2>8. OneBox'
    <3>1. \A x \in rows' : PlaceOf(x) \in InUse
      <4>1. ASSUME NEW x \in rows PROVE PlaceOf(MovedRow(st, x)) \in InUse
        <5>1. CASE Hits(st, x)
          <6>1. PlaceOf(MovedRow(st, x)) = r.to
            <7>1. r.to \in Place
              BY <1>1
            <7>2. SamePlace(MovedRow(st, x), r.to)
              BY <2>1, <5>1
            <7> QED BY <7>1, <7>2 DEF SamePlace, PlaceOf, Place
          <6> QED BY <6>1, InUseOf
        <5>2. CASE ~Hits(st, x)
          BY <2>1, <5>2, InUseOf
        <5> QED BY <5>1, <5>2
      <4> QED BY <1>6, <4>1 DEF MoveRows
    <3>2. \A p \in InUse' : p \in InUse
      BY <1>3, <1>4, <3>1, InUseNext, InUseOf
    <3> QED BY <3>2 DEF Tidy, OneBox
  <2> QED BY <1>4, <2>3, <2>6, <2>7, <2>8, TidyNext
<1> QED BY <1>5, <1>6 DEF Execute

LEMMA TidyWrite ==
  ASSUME IInv, NEW record \in Record \ Contested, Tidy(record), NEW r \in requests,
         \/ CheckAgain(r) \/ SelectOld(r) \/ (\E f \in r.old : DeleteOld(r, f))
         \/ InsertFact(r) \/ CheckDelete(r) \/ DeleteFact(r)
  PROVE  Tidy(record)'
<1>1. /\ r \in Request /\ Current(r, record) /\ Bound(r) /\ Idle(r) /\ Together(record) /\ TypeOK
      /\ UNCHANGED << boxes, graphs, records >> /\ Grows
  BY DEF Tidy, IInv, TypeOK, CheckAgain, SelectOld, DeleteOld, InsertFact, CheckDelete,
         DeleteFact, Grows, Created
<1>2. ASSUME rows' \subseteq rows
      PROVE  Together(record)' /\ \A q \in requests : Current(q, record) => Current(q, record)'
  BY <1>1, <1>2 DEF Together, Current, Settles
<1>3. ASSUME rows' \subseteq rows, Ends(r) PROVE Tidy(record)'
  <2>1. InUse' \subseteq InUse
    BY <1>3 DEF InUse, Ends
  <2>2. OneBox'
    BY <2>1 DEF Tidy, OneBox
  <2> QED BY <1>1, <1>2, <1>3, <2>2, TidyNext
<1>4. ASSUME rows' \subseteq rows, NEW new, Becomes(r, new), new.fact = r.fact,
             new.found = r.found, new.to = r.to, new.todo = r.todo, new.at # "checked"
      PROVE  Tidy(record)'
  <2>1. Current(new, record)' /\ Bound(new)' /\ Idle(new)
    BY <1>1, <1>4 DEF Current, Settles, Bound, Takes, IsShared, Idle, Acting
  <2>2. OneBox'
    <3>1. \A p \in InUse' : p \in InUse
      BY <1>4, InUseNext, InUseOf
    <3> QED BY <3>1 DEF Tidy, OneBox
  <2> QED BY <1>1, <1>2, <1>4, <2>1, <2>2, TidyNext
<1>5. CASE CheckAgain(r) \/ CheckDelete(r)
  <2>1. PICK new : new = [r EXCEPT !.at = "authorized"]
    OBVIOUS
  <2>2. /\ new.fact = r.fact /\ new.found = r.found /\ new.to = r.to /\ new.todo = r.todo
        /\ new.at = "authorized"
    BY <1>1, <2>1 DEF Request
  <2> QED BY <1>3, <1>4, <1>5, <2>1, <2>2 DEF CheckAgain, CheckDelete
<1>6. CASE SelectOld(r)
  <2>1. PICK new : new = [r EXCEPT !.at = "replacing", !.old = AccountabilityIn(Facts, r.fact.o)]
    OBVIOUS
  <2>2. /\ new.fact = r.fact /\ new.found = r.found /\ new.to = r.to /\ new.todo = r.todo
        /\ new.at = "replacing"
    BY <1>1, <2>1 DEF Request
  <2> QED BY <1>4, <1>6, <2>1, <2>2 DEF SelectOld
<1>7. ASSUME NEW f \in r.old, DeleteOld(r, f) PROVE Tidy(record)'
  <2>1. PICK new : new = [r EXCEPT !.old = r.old \ {f}]
    OBVIOUS
  <2>2. /\ new.fact = r.fact /\ new.found = r.found /\ new.to = r.to /\ new.todo = r.todo
        /\ new.at = "replacing"
    BY <1>1, <1>7, <2>1 DEF Request, DeleteOld
  <2> QED BY <1>4, <1>7, <2>1, <2>2 DEF DeleteOld, Delete
<1>8. CASE DeleteFact(r)
  BY <1>3, <1>8 DEF DeleteFact, Delete
<1>9. CASE InsertFact(r)
  <2>1. PICK x : x = [fact |-> r.fact, box |-> r.to.box, graph |-> r.to.graph]
    OBVIOUS
  <2>2. /\ rows' = rows \cup {x} /\ SamePlace(x, r.to) /\ x.fact = r.fact
        /\ r.to # Unknown /\ r.todo = {} /\ Acting(r)
    BY <1>9, <2>1 DEF InsertFact, Insert, SamePlace, Placed, Acting
  <2>3. \A y \in rows : Related(record, y.fact, r.fact) => SamePlace(y, r.to)
    BY <1>1, <2>2 DEF Current, Settles
  <2>4. \A y \in rows :
          Related(record, y.fact, x.fact) \/ Related(record, x.fact, y.fact) => SamePlace(x, y)
    BY <2>2, <2>3 DEF Related, SamePlace
  <2>5. Together(record)'
    BY <1>1, <2>2, <2>4 DEF Together, SamePlace
  <2>6. ASSUME NEW q \in requests \ {r}, Current(q, record) PROVE Current(q, record)'
    <3>1. CASE Acting(q)
      <4>1. ~(record \in About(r.fact) /\ record \in About(q.fact))
        BY <2>2, <3>1 DEF Contested, GotHold
      <4>2. ~Related(record, x.fact, q.fact)
        BY <2>2, <4>1 DEF Related
      <4>3. \A side \in {"s", "o"} : q.fact[side] = record => record \notin About(x.fact)
        BY <2>2, <4>2 DEF About, Related
      <4> QED BY <2>2, <2>6, <4>2, <4>3 DEF Current, Settles
    <3>2. CASE ~Acting(q)
      <4>1. \A side \in {"s", "o"} : q.found[side] = Unknown
        BY <3>2 DEF Tidy, Idle
      <4>2. q.to = Unknown
        BY <3>2 DEF Tidy, Idle
      <4> QED BY <2>6, <4>1, <4>2 DEF Current
    <3> QED BY <3>1, <3>2
  <2>7. OneBox'
    <3>1. PlaceOf(x) = r.to
      <4>1. r.to \in Place
        BY <1>1, <2>2 DEF Request
      <4> QED BY <2>2, <4>1 DEF SamePlace, PlaceOf, Place
    <3>2. InUse' \subseteq InUse
      BY <1>9, <2>2, <3>1 DEF InUse, InsertFact, Ends
    <3> QED BY <3>2 DEF Tidy, OneBox
  <2> QED BY <1>1, <1>9, <2>5, <2>6, <2>7, TidyNext DEF InsertFact
<1> QED BY <1>5, <1>6, <1>7, <1>8, <1>9

LEMMA TidyStep ==
  ASSUME IInv, NEW record \in Record \ Contested, Tidy(record), [Next]_vars
  PROVE  Tidy(record)'
<1>1. ASSUME NEW r \in requests, Serve(r) PROVE Tidy(record)'
  BY <1>1, TidyFind, TidyDecide, TidyExecute, TidyWrite DEF Serve
<1>2. CASE UNCHANGED vars
  BY <1>2 DEF vars, Tidy, OneBox, InUse, Together, Current, Settles, Bound, Takes, IsShared,
              Idle, Acting
<1> QED BY <1>1, <1>2, TidyUserStep DEF Next

\* What no two requests have got hold of at once is tidy, and is in nobody's way now.
HistoryInv == \A record \in Record \ contested : record \notin Contested /\ Tidy(record)

LEMMA HistoryStep == IInv /\ HistoryInv /\ [HistoryNext]_historyVars => HistoryInv'
<1> SUFFICES ASSUME IInv, HistoryInv, [HistoryNext]_historyVars,
                    NEW record \in Record \ contested'
             PROVE  record \notin Contested' /\ Tidy(record)'
  BY DEF HistoryInv
<1>1. record \notin contested /\ (HistoryNext => record \notin Contested')
  BY DEF HistoryNext, historyVars
<1>4. [Next]_vars
  BY DEF HistoryNext, historyVars, vars
<1>2. record \notin Contested /\ Tidy(record)
  BY <1>1 DEF HistoryInv
<1>3. CASE UNCHANGED historyVars
  BY <1>2, <1>3, <1>4, TidyStep DEF historyVars, Contested, GotHold, RowsAbout
<1> QED BY <1>1, <1>2, <1>3, <1>4, TidyStep

\* Facts about one record are kept in one place, at every moment and whatever was shared,
\* connected, invited and moved, for any number of requests at once, unless two requests
\* have got hold of that very record at once (run boxes_race shows that they must not): what
\* a request has found of a record is still true when it moves rows and inserts. What became
\* of other records, even of those it is being connected to, does not matter.
THEOREM RecordsStayInOnePlace == HistorySpec => []UncontestedInOnePlace
<1>1. HistoryInit => HistoryInv
  BY DEF HistoryInit, HistoryInv, Init, Contested, Tidy, OneBox, InUse, Together
<1>2. IInv /\ HistoryInv => UncontestedInOnePlace
  <2> SUFFICES ASSUME IInv, HistoryInv, NEW record \in Created \ contested,
                      NEW x \in RowsAbout(record), NEW y \in RowsAbout(record)
               PROVE  SamePlace(x, y)
    BY DEF UncontestedInOnePlace, SamePlace, PlaceOf
  <2>1. record \in Record /\ record \notin User
    BY FactBoxesAssumption DEF IInv, TypeOK, Created
  <2>2. Related(record, x.fact, y.fact)
    BY <2>1 DEF RowsAbout, Related, About
  <2>3. Together(record)
    BY <2>1 DEF HistoryInv, Tidy
  <2> QED BY <2>2, <2>3 DEF Together, RowsAbout
<1>3. HistoryInit => Init
  BY DEF HistoryInit
<1>4. [HistoryNext]_historyVars => [Next]_vars
  BY DEF HistoryNext, historyVars, vars
<1> QED BY <1>1, <1>2, <1>3, <1>4, InvInit, InvStep, HistoryStep, PTL DEF HistorySpec
=============================================================================
