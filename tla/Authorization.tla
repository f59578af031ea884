----------------------------- MODULE Authorization -----------------------------
(***************************************************************************)
(* Who may save and delete which fact.                                     *)
(*                                                                         *)
(* A fact is a triple of a subject, a predicate and an object. The facts   *)
(* with reserved predicates decide who may do what, also who may save or   *)
(* delete which fact. Some of the queries look at all facts, others only   *)
(* at those in the scope of the user who asks: every operator takes the    *)
(* facts its query looks at.                                               *)
(***************************************************************************)
CONSTANT User  \* users, known by their id

Role == {"$isAccountableFor", "$isHostOf", "$isMemberOf", "$canAccess", "$canRead",
         "$canRefine", "$canReferTo"}
Accountable == "$isAccountableFor"

\* All predicates that are not reserved; they give no role to anybody.
UserDefined == "isA"

AccountabilityIn(all, node) == {f \in all : f.p = Accountable /\ f.o = node}

\* getGroupsOfTheUser
Groups(seen, u) ==
  {u} \cup {f.o : f \in {g \in seen : g.s = u /\ g.p \in {"$isHostOf", "$isMemberOf", Accountable}}}

\* selectSubjectsInAnyGroup: what the groups have a role in, and the members thereof
Accessible(seen, u, roles) ==
  LET direct == {f.o : f \in {g \in seen : g.s \in Groups(seen, u) /\ g.p \in roles}}
  IN direct \cup {f.s : f \in {g \in seen : g.p = "$isMemberOf" /\ g.o \in direct}}

HasAccess(seen, u, roles, node) == node \in Accessible(seen, u, roles)

\* isValidCreatedAtFact
FirstAccountability(all, u, f) == f.s = u /\ AccountabilityIn(all, f.o) = {}

\* isValidAccountabilityTransfer
ValidTransfer(all, seen, u, f) ==
  /\ f.s # f.o
  /\ [s |-> u, p |-> Accountable, o |-> f.o] \in all
  /\ \/ f.s = u
     \/ HasAccess(seen, u, {Accountable, "$isMemberOf", "$canAccess", "$canRefine"}, f.s)
  /\ HasAccess(seen, u, {Accountable}, f.o)

\* isValidInvitation
ValidInvitation(seen, u, f) == HasAccess(seen, u, {Accountable, "$isHostOf"}, f.o)

\* isAuthorizedToSave
MaySave(all, seen, u, f) ==
  /\ f.o \in User => f.o = u
  /\ \/ f.p = Accountable /\ (FirstAccountability(all, u, f) \/ ValidTransfer(all, seen, u, f))
     \/ f.p \in Role \ {Accountable} /\ f.s \in User /\ ValidInvitation(seen, u, f)
     \/ /\ f.p # Accountable /\ f.s \notin User
        /\ HasAccess(seen, u, {Accountable, "$isHostOf", "$isMemberOf", "$canRefine"}, f.s)
        /\ \/ f.o = u
           \/ HasAccess(seen, u, {Accountable, "$isHostOf", "$isMemberOf", "$canAccess",
                                  "$canReferTo"}, f.o)

\* isAuthorizedToDelete
MayDelete(all, seen, u, f) == ~(f.p = Accountable /\ f.s = u) /\ MaySave(all, seen, u, f)

=============================================================================
