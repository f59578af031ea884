----------------------------- MODULE SharedText -----------------------------
(***************************************************************************)
(* What the collaboration on one long text promises to its users.          *)
(*                                                                         *)
(* The text is a sequence of committed changes, each a set of edits. A     *)
(* view is either unknown (the record is not loaded, or has lost track) or *)
(* shows exactly the first changes of that sequence plus the edits its     *)
(* user made since and that are not among them. A view follows the         *)
(* sequence change by change; the only way to get elsewhere is to open the *)
(* record again.                                                           *)
(***************************************************************************)
EXTENDS Integers, Sequences

CONSTANTS Client, Edit

VARIABLES
  committed,  \* the committed changes, in order
  view        \* what each client sees

vars == << committed, view >>

Unknown == [known |-> FALSE]

TextAt(n) == UNION {committed[i] : i \in 1 .. n}

\* A view that has seen n changes and holds the own edits on top
View(n, own) == [known |-> TRUE, seen |-> n, own |-> own, text |-> TextAt(n) \cup own]

Init ==
  /\ committed = << >>
  /\ view = [c \in Client |-> Unknown]

\* Nothing is committed twice.
Commit(ops) ==
  /\ ops \cap TextAt(Len(committed)) = {}
  /\ committed' = Append(committed, ops)
  /\ UNCHANGED view

Open(c, n) ==
  /\ view' = [view EXCEPT ![c] = View(n, {})]
  /\ UNCHANGED committed

TypeEdit(c, e) ==
  /\ view[c].known
  /\ e \notin view[c].text
  /\ view' = [view EXCEPT ![c] = View(@.seen, @.own \cup {e})]
  /\ UNCHANGED committed

\* The next change becomes visible; if it is the client's own it is no longer pending.
Advance(c) ==
  /\ view[c].known
  /\ view[c].seen < Len(committed)
  /\ view' = [view EXCEPT ![c] = View(@.seen + 1, @.own \ committed[@.seen + 1])]
  /\ UNCHANGED committed

LoseTrack(c) ==
  /\ view' = [view EXCEPT ![c] = Unknown]
  /\ UNCHANGED committed

Next ==
  \/ \E ops \in SUBSET Edit : Commit(ops)
  \/ \E c \in Client :
       \/ \E n \in 0 .. Len(committed) : Open(c, n)
       \/ \E e \in Edit : TypeEdit(c, e)
       \/ Advance(c)
       \/ LoseTrack(c)

Spec == Init /\ [][Next]_vars

=============================================================================
