----------------------------- MODULE MCFactBoxes -----------------------------
(***************************************************************************)
(* FactBoxesHistory on small sets: users and records are interchangeable.  *)
(*                                                                         *)
(* Either all users make requests, one at a time, or two of them do,       *)
(* several at a time.                                                      *)
(***************************************************************************)
EXTENDS FactBoxesHistory, TLC

CONSTANT AtATime  \* bound on the requests when several are served at a time

VARIABLE who  \* the users who make requests

Symmetry == Permutations(User) \cup Permutations(Record)

MCInit ==
  /\ HistoryInit
  /\ who \in {User} \cup {two \in SUBSET User : Cardinality(two) = 2}

Written == {f \in FactNow : {f.s, f.o} \subseteq who \cup Created}

MCUserStep(u) ==
  /\ IF who = User THEN requests = {} ELSE count < AtATime
  /\ \/ \E record \in Record : CreateRecord(u, record)
     \/ \E f \in Written : RequestSave(u, f)
     \/ \E f \in Written : RequestDelete(u, f)

MCNext ==
  /\ (\E u \in who : MCUserStep(u)) \/ \E r \in requests : Serve(r)
  /\ contested' = contested \cup Contested'
  /\ grouped' = grouped \cup Grouped'
  /\ UNCHANGED who

MCSpec == MCInit /\ [][MCNext]_<< historyVars, who >>

=============================================================================
