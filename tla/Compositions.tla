----------------------------- MODULE Compositions -----------------------------
(***************************************************************************)
(* Creating records with their facts in one request: one record, or the    *)
(* several records of a composition.                                       *)
(*                                                                         *)
(* The request is checked as a whole before anything is stored. Then the   *)
(* records are stored, those of one kind together and the kinds at the     *)
(* same time, each after the fact that makes the user accountable for it.  *)
(* Then come the facts: transfers of accountability one by one, through    *)
(* the same path as a single fact and checked again; the others together   *)
(* if they make a graph of their own, else one by one. At last the         *)
(* accountability facts are moved to that graph. No transaction spans two  *)
(* of these statements.                                                    *)
(*                                                                         *)
(* There is one request, by one user. Somebody else may take one of the    *)
(* user's groups meanwhile. Facts with terms, with users and those whose   *)
(* object is a role are left out: see FactBoxes for where facts are placed *)
(* otherwise.                                                              *)
(***************************************************************************)
EXTENDS Authorization, Integers, FiniteSets

CONSTANTS
  NewRecord,   \* the records a request may create
  Grouped,     \* ... those of the kind that is stored together, key-value records
  Owned,       \* the groups the user is accountable for at first
  MaxFacts     \* bound on the facts of a request

ASSUME CompositionsAssumption ==
  /\ Grouped \subseteq NewRecord /\ NewRecord \cap Owned = {}
  /\ (NewRecord \cup Owned) \cap User = {} /\ MaxFacts \in Nat

VARIABLES
  actor,      \* the user who makes the request
  phase,      \* how far the request is
  creating,   \* the records it creates
  valued,     \* ... those for which it has a value
  asked,      \* the facts it came with, in their order
  todo,       \* ... and the positions of those it still has to save
  single,     \* it is a request for one record, not for a composition
  isNewGraph, \* isNewUserScopedGraph
  stage,      \* how far each record is
  saved,      \* the facts table
  inGraph,    \* the facts that are in the new graph
  handing     \* the old accountability is deleted, the new one is not inserted yet

compVars == << actor, phase, creating, valued, asked, todo, single, isNewGraph, stage, saved, inGraph,
              handing >>
request == << actor, creating, valued, asked, single >>

CompFact(s, p, o) == [s |-> s, p |-> p, o |-> o]
Mine(r) == CompFact(actor, Accountable, r)
Contents == {r \in NewRecord : stage[r] = "stored"}

\* The transfers of accountability come first, each part in its order.
Transfers(positions) == {i \in positions : asked[i].p = Accountable}
IsNext(i) ==
  LET first == IF Transfers(todo) # {} THEN Transfers(todo) ELSE todo
  IN  i \in first /\ \A j \in first : i <= j

-----------------------------------------------------------------------------
CompInit ==
  /\ actor \in User
  /\ phase = "idle"
  /\ creating = {} /\ valued = {} /\ asked = << >> /\ todo = {}
  /\ single = FALSE /\ isNewGraph = FALSE
  /\ stage = [r \in NewRecord |-> "none"]
  /\ saved = {Mine(g) : g \in Owned}
  /\ inGraph = {}
  /\ handing = FALSE

\* The facts a request may ask for: one of the nodes is a record it creates. The facts that
\* would make the user accountable are dropped when the placeholders are resolved.
FactsAbout(records) ==
  {f \in [s : records \cup Owned, p : {UserDefined, Accountable}, o : records \cup Owned] :
    f.s \in records \/ f.o \in records}

CreateComposition(records, withValue, facts) ==
  /\ phase = "idle"
  /\ phase' = "checking"
  /\ creating' = records /\ valued' = withValue /\ asked' = facts /\ todo' = DOMAIN facts
  /\ UNCHANGED << actor, single, isNewGraph, stage, saved, inGraph, handing >>

\* The request for one record, which takes the same way; but whatever its body has is the
\* value, and its facts are never saved as a graph of their own.
CreateOneRecord(r, facts) ==
  /\ phase = "idle"
  /\ phase' = "checking"
  /\ single' = TRUE
  /\ creating' = {r} /\ valued' = {r} /\ asked' = facts /\ todo' = DOMAIN facts
  /\ UNCHANGED << actor, isNewGraph, stage, saved, inGraph, handing >>

\* isAuthorizedToSave with attributesInCreation: a record in creation is taken for accessible.
MaySaveInCreation(f) ==
  IF f.p = Accountable
  THEN /\ f.s # f.o
       /\ f.o \in creating \/ CompFact(actor, Accountable, f.o) \in saved
       /\ f.s \in creating \/ HasAccess(saved, actor, {Accountable, "$isMemberOf", "$canAccess", "$canRefine"}, f.s)
       /\ f.o \in creating \/ HasAccess(saved, actor, {Accountable}, f.o)
  ELSE /\ f.s \in creating \/ HasAccess(saved, actor, {Accountable, "$isHostOf", "$isMemberOf", "$canRefine"}, f.s)
       /\ f.o \in creating \/ HasAccess(saved, actor, {Accountable, "$isHostOf", "$isMemberOf", "$canAccess",
                                                    "$canReferTo"}, f.o)

\* Mutant: a record without a value goes on.
CheckComposition_ValuesLater ==
  /\ phase = "checking"
  /\ phase' = IF \A i \in DOMAIN asked : MaySaveInCreation(asked[i]) THEN "checked" ELSE "refused"
  /\ UNCHANGED << request, todo, isNewGraph, stage, saved, inGraph, handing >>

\* findUnauthorizedFacts and groupCompositionByAttributeClass: one fact that may not be saved,
\* or one record without a value, and nothing is stored.
CheckComposition ==
  /\ phase = "checking"
  /\ phase' = IF (\A i \in DOMAIN asked : MaySaveInCreation(asked[i])) /\ valued = creating
              THEN "checked" ELSE "refused"
  /\ UNCHANGED << request, todo, isNewGraph, stage, saved, inGraph, handing >>

\* Quota.ensureStorageSpaceToSave, then isNewUserScopedGraph: no fact of the composition has a
\* node that was there.
ReserveStorage(enough) ==
  /\ phase = "checked"
  /\ phase' = IF enough THEN "creating" ELSE "refused"
  /\ isNewGraph' = (~single /\ \A i \in DOMAIN asked : asked[i].s \in creating /\ asked[i].o \in creating)
  /\ UNCHANGED << request, todo, stage, saved, inGraph, handing >>

\* createAll: the records that are stored with the record r
Together(r) == IF r \in Grouped THEN creating \cap Grouped ELSE {r}
Advance(r, to) == stage' = [x \in NewRecord |-> IF x \in Together(r) THEN to ELSE stage[x]]

\* Mutant: accountability is left to the facts that follow.
SaveAccountability_Later(r) ==
  /\ phase \in {"creating", "failed"} /\ r \in creating /\ stage[r] = "none"
  /\ Advance(r, "accountable")
  /\ UNCHANGED << phase, request, todo, isNewGraph, saved, inGraph, handing >>

\* createAccountableFact; for key-value records the facts of all of them.
SaveAccountability(r) ==
  /\ phase \in {"creating", "failed"} /\ r \in creating /\ stage[r] = "none"
  /\ Advance(r, "accountable")
  /\ saved' = saved \cup {Mine(x) : x \in Together(r)}
  /\ UNCHANGED << phase, request, todo, isNewGraph, inGraph, handing >>

\* createRecord, createAllRecords
StoreContent(r) ==
  /\ phase \in {"creating", "failed"} /\ r \in creating /\ stage[r] = "accountable"
  /\ Advance(r, "stored")
  /\ UNCHANGED << phase, request, todo, isNewGraph, saved, inGraph, handing >>

\* One of the statements fails. What runs at the same time goes on.
CreationFails(r) ==
  /\ phase \in {"creating", "failed"} /\ r \in creating /\ stage[r] \in {"none", "accountable"}
  /\ Advance(r, IF stage[r] = "none" THEN "lost" ELSE "empty")
  /\ phase' = "failed"
  /\ UNCHANGED << request, todo, isNewGraph, saved, inGraph, handing >>

\* All are stored.
StartFacts ==
  /\ phase = "creating" /\ creating \subseteq Contents
  /\ phase' = "saving"
  /\ UNCHANGED << request, todo, isNewGraph, stage, saved, inGraph, handing >>

\* Fact.save of a transfer: checked again, without regard to the records in creation, and what
\* was there is deleted;
StartTransfer(i) ==
  /\ phase = "saving" /\ IsNext(i) /\ asked[i].p = Accountable /\ ~handing
  /\ LET f == asked[i] IN
     IF ValidTransfer(saved, saved, actor, f)
       THEN /\ saved' = saved \ AccountabilityIn(saved, f.o)
            /\ inGraph' = inGraph \ AccountabilityIn(saved, f.o)
            /\ handing' = TRUE
            /\ UNCHANGED phase
       ELSE phase' = "thrown" /\ UNCHANGED << saved, inGraph, handing >>
  /\ UNCHANGED << request, todo, isNewGraph, stage >>

\* ... then it is inserted.
EndTransfer(i) ==
  /\ phase = "saving" /\ IsNext(i) /\ handing
  /\ handing' = FALSE
  /\ saved' = saved \cup {asked[i]}
  /\ todo' = todo \ {i}
  /\ UNCHANGED << phase, request, isNewGraph, stage, inGraph >>

\* saveAllWithoutAuthCheckAndSpecialTreatment: all at once in the new graph, or the next one.
SaveFacts(i) ==
  /\ phase = "saving" /\ IsNext(i) /\ asked[i].p # Accountable
  /\ LET some == IF isNewGraph THEN todo ELSE {i}
         facts == {asked[j] : j \in some}
     IN
     /\ saved' = saved \cup facts
     /\ inGraph' = IF isNewGraph THEN inGraph \cup facts ELSE inGraph
     /\ todo' = todo \ some
  /\ UNCHANGED << phase, request, isNewGraph, stage, handing >>

\* Mutant: the accountability facts stay where they were saved.
MoveAccountability_NotMoved ==
  /\ phase = "saving" /\ todo = {}
  /\ phase' = "done"
  /\ UNCHANGED << request, todo, isNewGraph, stage, saved, inGraph, handing >>

\* moveAllAccountabilityFactsToFactBox; without facts there is no graph to move them to.
MoveAccountability ==
  /\ phase = "saving" /\ todo = {}
  /\ phase' = "done"
  /\ inGraph' = IF isNewGraph /\ DOMAIN asked # {}
                THEN inGraph \cup UNION {AccountabilityIn(saved, r) : r \in creating} ELSE inGraph
  /\ UNCHANGED << request, todo, isNewGraph, stage, saved, handing >>

\* A statement fails, or the server dies: what comes next is not done.
RequestBreaksOff ==
  /\ phase \in {"creating", "saving"}
  /\ phase' = "failed"
  /\ stage' = [r \in NewRecord |->
       CASE r \in creating /\ stage[r] = "none" -> "lost"
         [] r \in creating /\ stage[r] = "accountable" -> "empty"
         [] OTHER -> stage[r]]
  /\ UNCHANGED << request, todo, isNewGraph, saved, inGraph, handing >>

\* Another request takes a group from the user.
LoseGroup(g) ==
  /\ phase # "idle" /\ Mine(g) \in saved
  /\ saved' = saved \ {Mine(g)}
  /\ UNCHANGED << phase, request, todo, isNewGraph, stage, inGraph, handing >>

Requests(records) == UNION {[1..n -> FactsAbout(records)] : n \in 0..MaxFacts}
CompNext ==
  \/ \E records \in SUBSET NewRecord : \E withValue \in SUBSET records :
       \E facts \in Requests(records) : CreateComposition(records, withValue, facts)
  \/ \E r \in NewRecord : \E facts \in Requests({r}) : CreateOneRecord(r, facts)
  \/ CheckComposition
  \/ \E enough \in BOOLEAN : ReserveStorage(enough)
  \/ \E r \in NewRecord : SaveAccountability(r) \/ StoreContent(r) \/ CreationFails(r)
  \/ StartFacts \/ MoveAccountability
  \/ \E i \in todo : StartTransfer(i) \/ EndTransfer(i) \/ SaveFacts(i)
  \/ RequestBreaksOff
  \/ \E g \in Owned : LoseGroup(g)

CompSpec == CompInit /\ [][CompNext]_compVars

-----------------------------------------------------------------------------
\* Nothing is stored of a request that is not let through, and only what it asks for of the others.
CompTypeOK ==
  /\ phase \in {"idle", "checking", "checked", "refused", "creating", "saving", "done", "failed",
               "thrown"}
  /\ stage \in [NewRecord -> {"none", "accountable", "stored", "lost", "empty"}]
  /\ \A r \in NewRecord : stage[r] # "none" => r \in creating /\ r \in valued
  /\ phase \in {"idle", "checking", "checked", "refused"} =>
       saved \subseteq {Mine(g) : g \in Owned} /\ inGraph = {} /\ Contents = {}
  /\ saved \subseteq {Mine(n) : n \in NewRecord \cup Owned} \cup {asked[i] : i \in DOMAIN asked}
  /\ inGraph \subseteq saved

\* However a request ends, a record that is stored has exactly one node accountable for it, so
\* that somebody may manage it and is charged; but for the one whose transfer breaks off
\* between the deletion of the old fact and the INSERT of the new one.
StoredIsAccountable ==
  \A r \in Contents :
    Cardinality(AccountabilityIn(saved, r)) = 1 \/ (handing /\ \E i \in todo : IsNext(i) /\ asked[i].o = r)

\* A request that was answered has done what it asked for: every record is stored, every fact
\* is there, the last transfer of a record decides who is accountable; and when the new
\* records make a graph of their own, all facts about them are in it.
AnswerTellsTheTruth ==
  phase = "done" =>
    /\ creating \subseteq Contents
    /\ \A i \in DOMAIN asked : asked[i].p # Accountable => asked[i] \in saved
    /\ \A r \in creating :
         LET transfers == {i \in Transfers(DOMAIN asked) : asked[i].o = r}
         IN  \/ transfers = {} /\ AccountabilityIn(saved, r) = {Mine(r)}
             \/ \E i \in transfers : /\ \A k \in transfers : k <= i
                                    /\ AccountabilityIn(saved, r) = {asked[i]}
    /\ isNewGraph /\ DOMAIN asked # {} =>
         \A f \in saved : (f.s \in creating \/ f.o \in creating) => f \in inGraph

\* A request that is turned down leaves nothing, also when it is turned down by the second
\* look at its facts: docs/blueprint-pattern.mdx says that creation is atomic.
AllOrNothing ==
  phase \in {"refused", "thrown"} =>
    Contents = {} /\ \A f \in saved : f.s \notin creating /\ f.o \notin creating

=============================================================================
