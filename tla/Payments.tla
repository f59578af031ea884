------------------------------ MODULE Payments ------------------------------
(***************************************************************************)
(* How a node's quota follows its subscription.                            *)
(*                                                                         *)
(* The payment provider tells the server by webhooks what happens to a     *)
(* subscription; each becomes a quota event, a row with the total and the  *)
(* time from which it holds. The latest row that holds already gives the   *)
(* total. The end of a subscription is announced before it comes.          *)
(*                                                                         *)
(* The provider is external: it sends what a subscription goes through in  *)
(* order, and sends again what was not answered. A node has one            *)
(* subscription at a time.                                                 *)
(***************************************************************************)
EXTENDS Integers, Sequences, SequencesExt

CONSTANTS
  Customer,          \* the nodes with subscriptions
  Personal,          \* those that are users
  Amount,            \* the totals of the products
  FreeTotal,         \* getDefaultStorageSizeQuota
  MaxTime,           \* bound on the clock
  MaxSubscriptions,  \* bound on the subscriptions
  MaxRepeats         \* bound on the webhooks sent again, or about something else

ASSUME PaymentsAssumption ==
  /\ Personal \subseteq Customer
  /\ Amount \subseteq Nat \ {0} /\ FreeTotal \in Nat \ {0} /\ FreeTotal \notin Amount
  /\ MaxTime \in Nat /\ MaxSubscriptions \in Nat /\ MaxRepeats \in Nat

VARIABLES
  now,            \* the clock
  subscription,   \* at the provider: what each node pays for, and until when
  webhooks,       \* the webhooks under way
  quotaEvents,    \* the quota_events table, by id
  subscribed,     \* the subscriptions so far
  repeated        \* the webhooks sent again, or about something else, so far

paymentVars == << now, subscription, webhooks, quotaEvents, subscribed, repeated >>

NoDate == -1
Unpaid == [amount |-> 0, until |-> NoDate]

-----------------------------------------------------------------------------
PaymentInit ==
  /\ now = 0
  /\ subscription = [n \in Customer |-> Unpaid]
  /\ webhooks = << >>
  /\ quotaEvents = << >>
  /\ subscribed = 0 /\ repeated = 0

Webhook(type, n, amount, effectiveAt) ==
  [type |-> type, node |-> n, amount |-> amount, effectiveAt |-> effectiveAt]
Sends(hook) == webhooks' = Append(webhooks, hook)

\* The provider: a node subscribes,
Subscribe(n, amount) ==
  /\ subscribed < MaxSubscriptions /\ subscribed' = subscribed + 1
  /\ subscription[n] = Unpaid
  /\ subscription' = [subscription EXCEPT ![n] = [amount |-> amount, until |-> NoDate]]
  /\ Sends(Webhook("subscription.created", n, amount, NoDate))
  /\ UNCHANGED << now, quotaEvents, repeated >>

\* ... changes something that has nothing to do with the end,
ChangeSubscription(n) ==
  /\ subscription[n] # Unpaid
  /\ repeated < MaxRepeats /\ repeated' = repeated + 1
  /\ Sends(Webhook("subscription.updated", n, 0, NoDate))
  /\ UNCHANGED << now, subscription, quotaEvents, subscribed >>

\* ... schedules the end, now or later,
ScheduleEnd(n, end) ==
  /\ subscription[n] # Unpaid /\ subscription[n].until = NoDate /\ now <= end
  /\ subscription' = [subscription EXCEPT ![n].until = end]
  /\ Sends(Webhook("subscription.updated: cancel", n, 0, end))
  /\ UNCHANGED << now, quotaEvents, subscribed, repeated >>

\* ... and has no subscription any more when it has passed.
EndSubscription(n) ==
  /\ subscription[n] # Unpaid /\ subscription[n].until # NoDate /\ subscription[n].until < now
  /\ subscription' = [subscription EXCEPT ![n] = Unpaid]
  /\ Sends(Webhook("subscription.updated: canceled", n, 0, NoDate))
  /\ UNCHANGED << now, quotaEvents, subscribed, repeated >>

Tick ==
  /\ now < MaxTime /\ now' = now + 1
  /\ UNCHANGED << subscription, webhooks, quotaEvents, subscribed, repeated >>

-----------------------------------------------------------------------------
\* Mutant: a scheduled end holds from the moment it is announced.
QuotaEventOf_AtOnce(hook) ==
  [node |-> hook.node, validFrom |-> now,
   total |-> IF hook.type = "subscription.created" THEN hook.amount ELSE 0]

\* Mutant: a webhook without a date gives an event without one.
QuotaEventOf_NoDate(hook) ==
  [node |-> hook.node, validFrom |-> hook.effectiveAt,
   total |-> IF hook.type = "subscription.created" THEN hook.amount ELSE 0]

\* The quota event a webhook becomes. The end of a subscription has no total, and holds from
\* the date it comes; without a date, it holds from now on.
QuotaEventOf(hook) ==
  [node |-> hook.node,
   total |-> IF hook.type = "subscription.created" THEN hook.amount ELSE 0,
   validFrom |-> IF hook.effectiveAt # NoDate THEN hook.effectiveAt ELSE now]

\* The first webhook is handled: one without a handler is refused and changes nothing. When
\* the answer is lost, the provider sends it once more.
HandleCallback(answered) ==
  /\ webhooks # << >>
  /\ LET hook == Head(webhooks) IN
     quotaEvents' = IF hook.type = "subscription.updated" THEN quotaEvents
                    ELSE Append(quotaEvents, QuotaEventOf(hook))
  /\ \/ answered /\ webhooks' = Tail(webhooks) /\ UNCHANGED repeated
     \/ ~answered /\ repeated < MaxRepeats /\ repeated' = repeated + 1 /\ UNCHANGED webhooks
  /\ UNCHANGED << now, subscription, subscribed >>

PaymentNext ==
  \/ \E n \in Customer : \/ \E amount \in Amount : Subscribe(n, amount)
                         \/ ChangeSubscription(n)
                         \/ \E end \in 0..MaxTime : ScheduleEnd(n, end)
                         \/ EndSubscription(n)
  \/ \E answered \in BOOLEAN : HandleCallback(answered)
  \/ Tick

PaymentSpec == PaymentInit /\ [][PaymentNext]_paymentVars

-----------------------------------------------------------------------------
\* getLatestQuotaEvent: the last of those that hold already
LatestQuotaEvent(n) ==
  LET holding == {i \in DOMAIN quotaEvents :
                    quotaEvents[i].node = n /\ quotaEvents[i].validFrom < now}
  IN  {i \in holding : \A j \in holding : j <= i}

\* getTotalStorageAvailable: a total of 0 or none is the default, of users only.
TotalStorageAvailable(n) ==
  LET totals == {quotaEvents[i].total : i \in LatestQuotaEvent(n)} IN
  IF \E t \in totals : t > 0 THEN CHOOSE t \in totals : t > 0
  ELSE IF n \in Personal THEN FreeTotal ELSE 0

IsUpgraded(n) == \E i \in LatestQuotaEvent(n) : quotaEvents[i].total > 0

-----------------------------------------------------------------------------
\* Dates lie on the clock; webhooks and events are about customers.
PaymentTypeOK ==
  /\ now \in 0..MaxTime
  /\ subscription \in [Customer -> [amount : Amount \cup {0}, until : 0..MaxTime \cup {NoDate}]]
  /\ \A i \in DOMAIN webhooks : webhooks[i].node \in Customer
  /\ quotaEvents \in Seq([node : Customer, total : Amount \cup {0}, validFrom : 0..MaxTime])

\* Once its webhooks have arrived and the clock has gone on, a node has the total it pays for,
\* up to the end it scheduled and not beyond; without a subscription it has the default. This
\* holds although ends are announced early, webhooks come twice, and a node subscribes again.
QuotaFollowsSubscription ==
  \A n \in Customer :
    /\ \A i \in DOMAIN webhooks : webhooks[i].node # n
    /\ \A i \in DOMAIN quotaEvents : quotaEvents[i].node = n /\ quotaEvents[i].validFrom >= now
         => quotaEvents[i].total = 0
    => LET paid == /\ subscription[n] # Unpaid
                   /\ subscription[n].until = NoDate \/ now <= subscription[n].until
       IN  /\ IsUpgraded(n) <=> paid
           /\ TotalStorageAvailable(n) =
                IF paid THEN subscription[n].amount ELSE IF n \in Personal THEN FreeTotal ELSE 0

=============================================================================
