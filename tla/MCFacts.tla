------------------------------- MODULE MCFacts -------------------------------
(* What the server stores and what it remembers of that, on small sets: facts, *)
(* compositions, payments and caches. The four share no state: a behaviour is  *)
(* one of one of them, with the others at rest, so that the run is as large as *)
(* the sum of them and not as their product. Users and records of Facts and    *)
(* processes are interchangeable.                                              *)
EXTENDS FactsHistory, Compositions, Payments, Caches, TLC

VARIABLE part

ServerInit ==
  /\ part \in {"facts", "compositions", "payments", "caches"}
  /\ HistoryInit /\ CompInit /\ PaymentInit /\ CacheInit
  /\ part # "caches" => \A k \in Key : truth[k] = {}

ServerNext ==
  /\ UNCHANGED part
  /\ IF part = "facts" THEN HistoryNext ELSE UNCHANGED historyVars
  /\ IF part = "compositions" THEN CompNext ELSE UNCHANGED compVars
  /\ IF part = "payments" THEN PaymentNext ELSE UNCHANGED paymentVars
  /\ IF part = "caches" THEN CacheNext ELSE UNCHANGED cacheVars

ServerSpec ==
  ServerInit /\ [][ServerNext]_<< part, historyVars, compVars, paymentVars, cacheVars >>

Symmetry == Permutations(User) \cup Permutations(Record) \cup Permutations(Process)

=============================================================================
