---------------------------- MODULE MCKeyValueSync ----------------------------
(* What happens between the server and pages, what queries find and what      *)
(* uploads are charged for, on small sets. The parts share no state: a        *)
(* behaviour is one of one of them, with the others at rest, so that the run  *)
(* is as large as the sum of the parts and not as their product. Clients and  *)
(* values of KeyValueSync are interchangeable.                                *)
EXTENDS KeyValueSync, ClientServerBus, LiveQueries, Queries, Quota, TLC

CONSTANT UploadsWithEvents  \* bound on the uploads where there is a quota event

VARIABLE part

PagesInit ==
  /\ part \in {"key-value", "bus", "live queries", "queries", "quota"}
  /\ Init /\ BusInit /\ LiveInit /\ QueryInit /\ QuotaInit
  /\ part # "queries" => visible = {}
  /\ part # "quota" => \A g \in Org : accountee[g] = g

PagesNext ==
  /\ UNCHANGED part
  /\ IF part = "key-value" THEN Next ELSE UNCHANGED vars
  /\ IF part = "bus" THEN BusNext ELSE UNCHANGED busVars
  /\ IF part = "live queries" THEN LiveNext ELSE UNCHANGED liveVars
  /\ IF part = "queries" THEN QueryNext ELSE UNCHANGED queryVars
  /\ IF part = "quota" THEN QuotaNext ELSE UNCHANGED quotaVars
  /\ eventCount' = 0 \/ uploadCount' <= UploadsWithEvents

PagesSpec ==
  PagesInit /\ [][PagesNext]_<< part, vars, busVars, liveVars, queryVars, quotaVars >>

Symmetry == Permutations(Client) \cup Permutations(Val)

=============================================================================
