------------------------------- MODULE Queries -------------------------------
(***************************************************************************)
(* Finding records and facts by what the facts say of them.                *)
(*                                                                         *)
(* A query is a set of clauses. It becomes one SQL statement over the      *)
(* facts the user may see, so that an answer is a function of the state.   *)
(* Which fact of a subject and a predicate is the latest is not computed   *)
(* by the query but kept in a column, which a statement of its own brings  *)
(* up to date after facts were inserted or deleted; the server may die     *)
(* between the two.                                                        *)
(*                                                                         *)
(* What the user may see, and the terms, are chosen once; what they depend *)
(* on is the subject of Facts, FactBoxes and Caches. Facts with reserved   *)
(* predicates take no part: they have no latest one.                       *)
(***************************************************************************)
EXTENDS Integers, FiniteSets, FiniteSetsExt

CONSTANTS
  Entity,        \* the nodes facts are about
  Term,        \* the terms, which everybody may see
  Loadable,    \* the items whose id has the prefix of a kind of record
  KeyValue,    \* ... of a key-value record
  Relation,    \* the predicates,
  Transitive,  \* ... those whose name ends with a star
  MaxWrites    \* bound on the insertions and deletions

ASSUME QueriesAssumption ==
  /\ Entity \cap Term = {}
  /\ KeyValue \subseteq Loadable /\ Loadable \subseteq Entity
  /\ Transitive \subseteq Relation
  /\ MaxWrites \in Nat

VARIABLES
  rows,        \* the facts table
  lastId,      \* the id of the row inserted last
  visible,     \* the nodes the user is authorized to see, auth_nodes
  refreshing,  \* the writes whose latest column is not brought up to date yet
  missed       \* history: subjects and predicates whose refresh a crash swallowed

queryVars == << rows, lastId, visible, refreshing, missed >>

Row == [id : 1..MaxWrites, subject : Entity, predicate : Relation, object : Entity \cup Term,
        latest : BOOLEAN]
About(s, p) == {r \in rows : r.subject = s /\ r.predicate = p}
IsNewest(r) == \A x \in About(r.subject, r.predicate) : x.id <= r.id

-----------------------------------------------------------------------------
QueryInit ==
  /\ rows = {}
  /\ lastId = 0
  /\ visible \in SUBSET Entity
  /\ refreshing = {}
  /\ missed = {}

\* Mutant: the rows of a subject and a predicate are numbered.
InsertRow_OwnNumbers(s, p, o) ==
  /\ lastId < MaxWrites
  /\ lastId' = lastId + 1
  /\ rows' = rows \cup {[id |-> Cardinality(About(s, p)) + 1, subject |-> s, predicate |-> p,
                         object |-> o, latest |-> FALSE]}
  /\ refreshing' = refreshing \cup {[by |-> lastId', subject |-> s, predicate |-> p]}
  /\ UNCHANGED << visible, missed >>

\* A fact is inserted, whether it is there already or not, its column empty.
InsertRow(s, p, o) ==
  /\ lastId < MaxWrites
  /\ lastId' = lastId + 1
  /\ rows' = rows \cup {[id |-> lastId', subject |-> s, predicate |-> p, object |-> o,
                         latest |-> FALSE]}
  /\ refreshing' = refreshing \cup {[by |-> lastId', subject |-> s, predicate |-> p]}
  /\ UNCHANGED << visible, missed >>

\* A fact is deleted with all its duplicates. Deletions are numbered like the rows.
DeleteRow(s, p, o) ==
  /\ lastId < MaxWrites
  /\ \E r \in About(s, p) : r.object = o
  /\ lastId' = lastId + 1
  /\ rows' = rows \ {r \in About(s, p) : r.object = o}
  /\ refreshing' = refreshing \cup {[by |-> lastId', subject |-> s, predicate |-> p]}
  /\ UNCHANGED << visible, missed >>

\* Mutant: the refresh marks the row and forgets the one before.
RefreshLatestState_OnlyMarks(w) ==
  /\ w \in refreshing
  /\ LET about == About(w.subject, w.predicate) IN
     rows' = (rows \ about) \cup {[r EXCEPT !.latest = @ \/ IsNewest(r)] : r \in about}
  /\ refreshing' = refreshing \ {w}
  /\ missed' = missed \ {<< w.subject, w.predicate >>}
  /\ UNCHANGED << lastId, visible >>

\* The latest row of the subject and the predicate is marked, the others are not.
RefreshLatestState(w) ==
  /\ w \in refreshing
  /\ LET about == About(w.subject, w.predicate) IN
     rows' = (rows \ about) \cup {[r EXCEPT !.latest = IsNewest(r)] : r \in about}
  /\ refreshing' = refreshing \ {w}
  /\ missed' = missed \ {<< w.subject, w.predicate >>}
  /\ UNCHANGED << lastId, visible >>

\* The server dies before it.
RefreshLost(w) ==
  /\ w \in refreshing
  /\ refreshing' = refreshing \ {w}
  /\ missed' = missed \cup {<< w.subject, w.predicate >>}
  /\ UNCHANGED << rows, lastId, visible >>

QueryNext ==
  \/ \E s \in Entity, p \in Relation, o \in Entity \cup Term : InsertRow(s, p, o) \/ DeleteRow(s, p, o)
  \/ \E w \in refreshing : RefreshLatestState(w) \/ RefreshLost(w)

QuerySpec == QueryInit /\ [][QueryNext]_queryVars

-----------------------------------------------------------------------------
\* Queries
\*   is:          [$it, p, o]              of:     [s, p, $it]
\*   isNot:       [$it, p, $not(o)]        notOf:  [s, p, $not($it)]
\*   latestIs:    [$it, $latest(p), o]
\*   latestIsNot: [$it, $latest(p), $not(o)]
\* $latest takes a predicate without a star.
Modifier == {"isNot", "latestIs", "latestIsNot"}
Clause ==
  {c \in [kind : {"is", "of", "notOf"} \cup Modifier, predicate : Relation, node : Entity \cup Term] :
    /\ c.kind \in {"of", "notOf"} => c.node \in Entity
    /\ c.kind \in {"latestIs", "latestIsNot"} => c.predicate \notin Transitive}
OfKind(query, kinds) == {c \in query : c.kind \in kinds}

\* The facts about nodes the user may see.
AuthFacts == {r \in rows : r.subject \in visible /\ r.object \in visible \cup Term}

Subjects(facts_, p, o) == {r.subject : r \in {x \in facts_ : x.predicate = p /\ x.object = o}}
Objects(facts_, s, p) == {r.object : r \in {x \in facts_ : x.subject = s /\ x.predicate = p}}

\* Mutant: the recursion starts from the visible facts and goes on through all of them.
Below_ThroughHidden(p, o) ==
  LET below[n \in Nat] ==
        IF n = 0 THEN Subjects(AuthFacts, p, o)
        ELSE LET before == below[n - 1]
             IN  before \cup UNION {Subjects(rows, p, x) : x \in before}
  IN  below[Cardinality(rows)]

\* The recursive query of a transitive predicate; a cycle in the facts ends it.
Below(p, o) ==
  LET below[n \in Nat] ==
        IF n = 0 THEN Subjects(AuthFacts, p, o)
        ELSE LET before == below[n - 1]
             IN  before \cup UNION {Subjects(AuthFacts, p, x) : x \in before}
  IN  below[Cardinality(rows)]

\* The subjects a plain clause selects
SelectSubjects(c) ==
  IF c.predicate \in Transitive THEN Below(c.predicate, c.node)
  ELSE Subjects(AuthFacts, c.predicate, c.node)

LatestSubjects(c) == Subjects({r \in AuthFacts : r.latest}, c.predicate, c.node)

\* Mutant: not the latest one is taken for latest, but not this one.
PassesModifier_LatestOther(c, n) ==
  CASE c.kind = "isNot" -> n \notin Subjects(AuthFacts, c.predicate, c.node)
    [] c.kind = "latestIs" -> n \in LatestSubjects(c)
    [] c.kind = "latestIsNot" ->
         \E r \in AuthFacts : /\ r.subject = n /\ r.predicate = c.predicate
                              /\ r.latest /\ r.object # c.node

\* The condition a clause with modifiers adds to every select of a plain clause
PassesModifier(c, n) ==
  CASE c.kind = "isNot" -> n \notin Subjects(AuthFacts, c.predicate, c.node)
    [] c.kind = "latestIs" -> n \in LatestSubjects(c)
    [] c.kind = "latestIsNot" -> n \notin LatestSubjects(c)

\* The selects the statement intersects: none for clauses with modifiers alone
SubjectSelects(query) ==
  {{n \in SelectSubjects(c) : \A m \in OfKind(query, Modifier) : PassesModifier(m, n)} :
    c \in OfKind(query, {"is"})}
ObjectSelects(query) == {Objects(AuthFacts, c.node, c.predicate) : c \in OfKind(query, {"of"})}
Blacklist(query) == UNION {Objects(AuthFacts, c.node, c.predicate) : c \in OfKind(query, {"notOf"})}

\* The nodes that match: without any select, everything the user may see
FindNodes(query) ==
  LET selects == SubjectSelects(query) \cup ObjectSelects(query)
      nodes   == IF selects = {} THEN visible
                 ELSE {n \in UNION selects : \A select \in selects : n \in select}
  IN  nodes \ Blacklist(query)

\* A filter for key-value records looks at the prefixes; what is no record is not loaded.
ResolveToIds(query, onlyKeyValue) ==
  IF onlyKeyValue THEN FindNodes(query) \cap KeyValue ELSE FindNodes(query)
ResolveToRecords(query, onlyKeyValue) == ResolveToIds(query, onlyKeyValue) \cap Loadable

\* Fact.findAll takes plain clauses, for the subjects and for the objects.
FindFacts(subjectQuery, predicates, objectQuery) ==
  {r \in AuthFacts :
    /\ \A c \in subjectQuery : r.subject \in SelectSubjects(c)
    /\ r.predicate \in predicates
    /\ \A c \in objectQuery : r.object \in SelectSubjects(c)}

-----------------------------------------------------------------------------
\* Rows have the columns of the table, and no two have one id.
QueryTypeOK ==
  /\ rows \subseteq Row
  /\ lastId \in 0..MaxWrites
  /\ \A r1, r2 \in rows : r1.id = r2.id => r1 = r2
  /\ \A r \in rows : r.id <= lastId
  /\ visible \subseteq Entity
  /\ refreshing \subseteq [by : 1..lastId, subject : Entity, predicate : Relation]
  /\ missed \subseteq Entity \X Relation

\* When no write about a subject and a predicate is under way, and no crash swallowed
\* what should have followed one, the row marked as the latest is the one inserted last:
\* refreshLatestState, whatever the order of the writes, the deletions and their refreshes.
Settled(s, p) ==
  /\ \A w \in refreshing : << w.subject, w.predicate >> # << s, p >>
  /\ << s, p >> \notin missed
LatestIsNewest ==
  \A r \in rows : Settled(r.subject, r.predicate) => (r.latest <=> IsNewest(r))

\* What a clause says of a node, in the words of the documentation and over what the user
\* may see: there is, or is not, such a fact, or the one inserted last is, or is not, such.
Seen(r) == r.subject \in visible /\ r.object \in visible \cup Term
Linked(p, n, o) ==
  \E length \in 1..Cardinality(rows) : \E chain \in [0..length -> visible \cup Term] :
    /\ chain[0] = n /\ chain[length] = o
    /\ \A i \in 1..length : \E r \in rows :
         r.subject = chain[i - 1] /\ r.predicate = p /\ r.object = chain[i]
LatestIs(n, p, o) == \E r \in About(n, p) : IsNewest(r) /\ Seen(r) /\ r.object = o
Means(c, n) ==
  CASE c.kind = "is" /\ c.predicate \in Transitive -> Linked(c.predicate, n, c.node)
    [] c.kind = "is" /\ c.predicate \notin Transitive ->
         \E r \in About(n, c.predicate) : Seen(r) /\ r.object = c.node
    [] c.kind = "isNot" -> ~\E r \in About(n, c.predicate) : Seen(r) /\ r.object = c.node
    [] c.kind = "latestIs" -> LatestIs(n, c.predicate, c.node)
    [] c.kind = "latestIsNot" -> ~LatestIs(n, c.predicate, c.node)
    [] c.kind = "of" -> \E r \in About(c.node, c.predicate) : Seen(r) /\ r.object = n
    [] c.kind = "notOf" -> ~\E r \in About(c.node, c.predicate) : Seen(r) /\ r.object = n

Fits == UNION {{<< c, n >> : n \in {m \in visible : Means(c, m)}} : c \in Clause}
Agrees(fits, query) ==
  LET found == {n \in visible : \A c \in query : << c, n >> \in fits}
  IN  \A onlyKeyValue \in BOOLEAN :
        ResolveToRecords(query, onlyKeyValue) =
          found \cap (IF onlyKeyValue THEN KeyValue ELSE Loadable)
FactsAgree(fits, c, p, d) ==
  FindFacts({c}, {p}, {d}) =
    {r \in rows : Seen(r) /\ << c, r.subject >> \in fits /\ r.predicate = p /\ << d, r.object >> \in fits}
AllSettled == \A s \in Entity, p \in Relation : Settled(s, p)

\* Once there are facts and every write is followed by its refresh, a query of a plain
\* clause and any other finds the records it describes, and no others: it neither misses one
\* nor shows one the user may not see, through whatever chain of facts it is reached. So do
\* the queries for facts.
AnswersMeanWhatTheySay ==
  lastId > 0 /\ AllSettled =>
    LET fits == Fits
        plain == OfKind(Clause, {"is"})
    IN  /\ \A c \in plain, d \in Clause : Agrees(fits, {c, d})
        /\ \A c, d \in plain, p \in Relation : FactsAgree(fits, c, p, d)

=============================================================================
