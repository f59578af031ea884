----------------------------- MODULE LiveQueries -----------------------------
(***************************************************************************)
(* Subscribing to a query: the pages of one user, and one query.           *)
(*                                                                         *)
(* A page subscribes to a channel named after the user and the query, and  *)
(* runs the query once it has joined. Whoever saves a fact then looks for  *)
(* such channels and sends a ping to those whose result might change; a    *)
(* page that gets a ping runs the query again and shows what comes. Pings  *)
(* reach the pages of all server instances, but the list of channels is    *)
(* each instance's own: what was there when it started, and after that     *)
(* the channels of its own pages.                                          *)
(*                                                                         *)
(* Every change here is one the query depends on; which those are is the   *)
(* subject of FactBoxes. The messages of a page arrive in order: see       *)
(* ClientServerBus.                                                        *)
(***************************************************************************)
EXTENDS Integers, Sequences, SequencesExt, FiniteSets, Functions

CONSTANTS
  Instance,     \* the server instances
  Page,         \* the pages the user has open
  MaxResults,   \* bound on the changes of the result
  MaxFetches,   \* bound on the queries of a page that are under way
  MaxMishaps    \* bound on reloads, broken sockets, restarts and failed queries

ASSUME LiveQueriesAssumption ==
  MaxResults \in Nat /\ MaxFetches \in Nat \ {0} /\ MaxMishaps \in Nat

VARIABLES
  result,    \* what the query yields: how often it changed
  known,     \* the instances whose list has the channel
  joined,    \* the instance on which a page has joined the channel, or Nowhere
  stage,     \* how far the subscription of a page is
  pings,     \* the messages on their way to a page
  telling,   \* the changes whose subscribers are not told yet
  fetches,   \* the queries of a page that are under way
  shown,     \* what a page shows
  newest,    \* history: the newest result a page has got
  untold,    \* history: the changes a page was not told of, and why
  mishaps    \* the mishaps so far

liveVars == << result, known, joined, stage, pings, telling, fetches, shown, newest, untold, mishaps >>

Nowhere == "nowhere"
Welcome == 0   \* the answer to a subscription, among the pings, which are numbered by the change
Results == 0..MaxResults
Joined(p) == joined[p] # Nowhere
Watches(p) == stage[p] = "subscribed"

-----------------------------------------------------------------------------
LiveInit ==
  /\ result = 0
  /\ known = {}
  /\ joined = [p \in Page |-> Nowhere]
  /\ stage = [p \in Page |-> "new"]
  /\ pings = [p \in Page |-> << >>]
  /\ telling = {}
  /\ fetches = [p \in Page |-> {}]
  /\ shown = [p \in Page |-> 0] /\ newest = [p \in Page |-> 0]
  /\ untold = [p \in Page |-> {}]
  /\ mishaps = 0

\* onPossibleChange: a query, whose answer is not read yet
StartsFetch(p) ==
  /\ Cardinality(fetches[p]) < MaxFetches
  /\ \E nr \in 1..MaxFetches :
       /\ \A f \in fetches[p] : f.nr # nr
       /\ fetches' = [fetches EXCEPT ![p] = @ \cup {[nr |-> nr, answer |-> -1]}]

\* The page asks to join the channel.
SubscribeToQuery(p) ==
  /\ stage[p] = "new"
  /\ stage' = [stage EXCEPT ![p] = "joining"]
  /\ UNCHANGED << result, known, joined, pings, telling, fetches, shown, newest, untold, mishaps >>

\* An instance lets the page in: the room is on its list from now on.
JoinChannel(p, i) ==
  /\ stage[p] = "joining" /\ ~Joined(p)
  /\ joined' = [joined EXCEPT ![p] = i]
  /\ known' = known \cup {i}
  /\ pings' = [pings EXCEPT ![p] = Append(@, Welcome)]
  /\ UNCHANGED << result, stage, telling, fetches, shown, newest, untold, mishaps >>

\* The answer arrives: the handler is there, and the query runs.
ReceiveAnswer(p) ==
  /\ pings[p] # << >> /\ Head(pings[p]) = Welcome
  /\ pings' = [pings EXCEPT ![p] = Tail(@)]
  /\ stage' = [stage EXCEPT ![p] = "subscribed"]
  /\ StartsFetch(p)
  /\ UNCHANGED << result, known, joined, telling, shown, newest, untold, mishaps >>

\* Mutant: no second query while one runs.
ReceivePing_OneQueryAtATime(p) ==
  /\ pings[p] # << >> /\ Head(pings[p]) # Welcome
  /\ pings' = [pings EXCEPT ![p] = Tail(@)]
  /\ IF Watches(p) /\ fetches[p] = {} THEN StartsFetch(p) ELSE UNCHANGED fetches
  /\ UNCHANGED << result, known, joined, stage, telling, shown, newest, untold, mishaps >>

\* A ping arrives: the query runs again, if there is a handler still.
ReceivePing(p) ==
  /\ pings[p] # << >> /\ Head(pings[p]) # Welcome
  /\ pings' = [pings EXCEPT ![p] = Tail(@)]
  /\ IF Watches(p) THEN StartsFetch(p) ELSE UNCHANGED fetches
  /\ UNCHANGED << result, known, joined, stage, telling, shown, newest, untold, mishaps >>

\* The server reads the facts.
AnswerQuery(p, f) ==
  /\ f.answer = -1
  /\ fetches' = [fetches EXCEPT ![p] = (@ \ {f}) \cup {[f EXCEPT !.answer = result]}]
  /\ UNCHANGED << result, known, joined, stage, pings, telling, shown, newest, untold, mishaps >>

\* An answer arrives and is shown, after or before those to earlier queries.
ShowResult(p, f) ==
  /\ f.answer # -1
  /\ fetches' = [fetches EXCEPT ![p] = @ \ {f}]
  /\ shown' = [shown EXCEPT ![p] = f.answer]
  /\ newest' = [newest EXCEPT ![p] = IF f.answer > @ THEN f.answer ELSE @]
  /\ UNCHANGED << result, known, joined, stage, pings, telling, untold, mishaps >>

\* The handler is taken away; the page stays in the channel.
UnsubscribeFromQuery(p) ==
  /\ Watches(p)
  /\ stage' = [stage EXCEPT ![p] = "left"]
  /\ UNCHANGED << result, known, joined, pings, telling, fetches, shown, newest, untold, mishaps >>

-----------------------------------------------------------------------------
\* Facts are saved or deleted that change the result.
ChangeFacts(i) ==
  /\ result < MaxResults /\ result' = result + 1
  /\ telling' = telling \cup {[to |-> result', by |-> i, listed |-> FALSE]}
  /\ UNCHANGED << known, joined, stage, pings, fetches, shown, newest, untold, mishaps >>

\* The pages of the set, or those of them that watch, are not told of the changes.
NotTold(pages, changes, why) ==
  untold' = [p \in Page |->
    IF p \in pages /\ Watches(p) THEN untold[p] \cup {[of |-> c, why |-> why] : c \in changes}
    ELSE untold[p]]

\* getSubscribedQueries: the list of channels is looked through.
ListChannels(c) ==
  /\ ~c.listed
  /\ IF c.by \in known
     THEN /\ telling' = (telling \ {c}) \cup {[c EXCEPT !.listed = TRUE]}
          /\ UNCHANGED untold
     ELSE /\ telling' = telling \ {c}
          /\ NotTold(Page, {c.to}, "not listed")
  /\ UNCHANGED << result, known, joined, stage, pings, fetches, shown, newest, mishaps >>

\* Once the database has said that the user is concerned, whoever is in the channel gets a ping.
SendPings(c) ==
  /\ c.listed
  /\ telling' = telling \ {c}
  /\ pings' = [p \in Page |-> IF Joined(p) THEN Append(pings[p], c.to) ELSE pings[p]]
  /\ NotTold({p \in Page : ~Joined(p)}, {c.to}, "mishap")
  /\ UNCHANGED << result, known, joined, stage, fetches, shown, newest, mishaps >>

-----------------------------------------------------------------------------
Mishap == mishaps < MaxMishaps /\ mishaps' = mishaps + 1

\* Mutant: a channel is taken from the list when anybody leaves it.
LeavesRoom_TakesChannel(p) ==
  /\ joined' = [joined EXCEPT ![p] = Nowhere]
  /\ known' = known \ {joined[p]}
  /\ pings' = [pings EXCEPT ![p] = << >>]

\* The rooms of the page's socket are left; the last one of an instance takes the channel
\* from its list, whoever is in it elsewhere.
LeavesRoom(p) ==
  /\ joined' = [joined EXCEPT ![p] = Nowhere]
  /\ known' = IF \E q \in Page \ {p} : joined[q] = joined[p] THEN known ELSE known \ {joined[p]}
  /\ pings' = [pings EXCEPT ![p] = << >>]

\* The socket breaks: it will connect again but not join again. What was on its way is lost,
\* the answer to a subscription, too.
SocketBreaks(p) ==
  /\ Mishap
  /\ Joined(p)
  /\ LeavesRoom(p)
  /\ stage' = [stage EXCEPT ![p] = IF @ = "joining" THEN "left" ELSE @]
  /\ NotTold({p}, ToSet(pings[p]) \ {Welcome}, "mishap")
  /\ UNCHANGED << result, telling, fetches, shown, newest >>

\* The page is loaded anew.
Reload(p) ==
  /\ Mishap
  /\ LeavesRoom(p)
  /\ stage' = [stage EXCEPT ![p] = "new"]
  /\ fetches' = [fetches EXCEPT ![p] = {}]
  /\ shown' = [shown EXCEPT ![p] = 0] /\ newest' = [newest EXCEPT ![p] = 0]
  /\ untold' = [untold EXCEPT ![p] = {}]
  /\ UNCHANGED << result, telling >>

\* A query fails: nothing is shown, and the query does not run again.
FetchFails(p, f) ==
  /\ Mishap
  /\ fetches' = [fetches EXCEPT ![p] = @ \ {f}]
  /\ NotTold({p}, 1..result, "mishap")
  /\ UNCHANGED << result, known, joined, stage, pings, telling, shown, newest >>

\* An instance dies and starts anew: its sockets break, what it was to tell is not told, and
\* its list is what the sockets of the other instances have joined.
InstanceRestarts(i) ==
  /\ Mishap
  /\ LET here == {p \in Page : joined[p] = i}
         lost == {c \in telling : c.by = i}
     IN  /\ joined' = [p \in Page |-> IF p \in here THEN Nowhere ELSE joined[p]]
         /\ pings' = [p \in Page |-> IF p \in here THEN << >> ELSE pings[p]]
         /\ stage' = [p \in Page |-> IF p \in here /\ stage[p] = "joining" THEN "left" ELSE stage[p]]
         /\ known' = IF \E p \in Page \ here : Joined(p) THEN known \cup {i} ELSE known \ {i}
         /\ telling' = telling \ lost
         /\ untold' = [p \in Page |->
              IF Watches(p)
              THEN untold[p] \cup
                     {[of |-> c, why |-> "mishap"] :
                       c \in {x.to : x \in lost} \cup
                             (IF p \in here THEN ToSet(pings[p]) \ {Welcome} ELSE {})}
              ELSE untold[p]]
  /\ UNCHANGED << result, fetches, shown, newest >>

LiveNext ==
  \/ \E p \in Page :
       \/ SubscribeToQuery(p) \/ ReceiveAnswer(p) \/ ReceivePing(p) \/ UnsubscribeFromQuery(p)
       \/ SocketBreaks(p) \/ Reload(p)
       \/ \E i \in Instance : JoinChannel(p, i)
       \/ \E f \in fetches[p] : AnswerQuery(p, f) \/ ShowResult(p, f) \/ FetchFails(p, f)
  \/ \E i \in Instance : ChangeFacts(i) \/ InstanceRestarts(i)
  \/ \E c \in telling : ListChannels(c) \/ SendPings(c)

LiveSpec == LiveInit /\ [][LiveNext]_liveVars

-----------------------------------------------------------------------------
\* Instances list the channels of their own pages; nobody shows a result that never was.
LiveTypeOK ==
  /\ result \in Results
  /\ known \subseteq Instance
  /\ joined \in [Page -> Instance \cup {Nowhere}]
  /\ stage \in [Page -> {"new", "joining", "subscribed", "left"}]
  /\ \A p \in Page : joined[p] \in known \cup {Nowhere}
  /\ shown \in [Page -> Results]
  /\ \A p \in Page : shown[p] <= newest[p] /\ newest[p] <= result

\* When nothing is under way, a page has got every change but those it was not told of, however
\* its subscription, the changes and the queries interleave: subscribe before the first query
\* (subscribeToQuery), save before looking for subscribers (notifyFactChanged), the query
\* after the ping.
AtRest(p) == Watches(p) /\ telling = {} /\ pings[p] = << >> /\ fetches[p] = {}
ResultsArrive ==
  \A p \in Page : AtRest(p) =>
    \A c \in newest[p] + 1..result : \E x \in untold[p] : x.of = c

=============================================================================
