------------------------- MODULE LiveQueries_proofs --------------------------
(***************************************************************************)
(* Subscribed pages get every result they are told of, for any number of   *)
(* instances, pages, changes and mishaps.                                  *)
(*                                                                         *)
(* ResultsArrive speaks of a page at rest. Followed is the way of a change  *)
(* to the page: it has yet to be told, or its ping is on the way, or a     *)
(* query is that will see it, unless the page has it or was not told.      *)
(* Every step hands it on to the next of these, and at rest only the last  *)
(* two are left.                                                           *)
(***************************************************************************)
EXTENDS LiveQueries, TLAPS

Change == 1..MaxResults
Fetch == [nr : 1..MaxFetches, answer : {-1} \cup Results]

\* The types of what LiveTypeOK leaves out
WayTypeOK ==
  /\ pings \in [Page -> Seq(Results)]
  /\ telling \subseteq [to : Change, by : Instance, listed : BOOLEAN]
  /\ fetches \in [Page -> SUBSET Fetch]
  /\ \A p \in Page : \A f \in fetches[p] : f.answer <= result
  /\ newest \in [Page -> Results]
  /\ untold \in [Page -> SUBSET [of : Change, why : {"not listed", "mishap"}]]

NotToldOf(p, c) == \E x \in untold[p] : x.of = c
OnItsWay(p, c) ==
  \/ \E t \in telling : t.to = c
  \/ c \in ToSet(pings[p])
  \/ \E f \in fetches[p] : f.answer = -1 \/ f.answer >= c
Followed ==
  \A p \in Page, c \in Change :
    Watches(p) /\ c <= result => c <= newest[p] \/ NotToldOf(p, c) \/ OnItsWay(p, c)

Inv == LiveTypeOK /\ WayTypeOK /\ Followed

LEMMA ToSetFacts ==
  ASSUME NEW S, NEW s \in Seq(S)
  PROVE  /\ \A x \in S : ToSet(Append(s, x)) = ToSet(s) \cup {x} /\ Append(s, x) \in Seq(S)
         /\ s # << >> => /\ ToSet(s) = ToSet(Tail(s)) \cup {Head(s)}
                         /\ Tail(s) \in Seq(S) /\ Head(s) \in S
         /\ ToSet(s) \subseteq S
<1>1. ASSUME NEW x \in S
      PROVE  ToSet(Append(s, x)) = ToSet(s) \cup {x} /\ Append(s, x) \in Seq(S)
  <2>1. ToSet(Append(s, x)) \subseteq ToSet(s) \cup {x}
    BY DEF ToSet
  <2>2. ToSet(s) \subseteq ToSet(Append(s, x))
    BY DEF ToSet
  <2>3. x \in ToSet(Append(s, x))
    <3>1. Append(s, x)[Len(s) + 1] = x /\ Len(s) + 1 \in DOMAIN Append(s, x)
      OBVIOUS
    <3> QED BY <3>1 DEF ToSet
  <2> QED BY <2>1, <2>2, <2>3
<1>2. ASSUME s # << >>
      PROVE  /\ ToSet(s) = ToSet(Tail(s)) \cup {Head(s)}
             /\ Tail(s) \in Seq(S) /\ Head(s) \in S
  <2>1. /\ Tail(s) \in Seq(S) /\ Head(s) \in S /\ Head(s) = s[1]
        /\ DOMAIN s = 1..Len(s) /\ DOMAIN Tail(s) = 1..Len(s) - 1 /\ Len(s) \in Nat \ {0}
        /\ \A i \in 1..Len(s) - 1 : Tail(s)[i] = s[i + 1]
    BY <1>2
  <2>2. ToSet(s) \subseteq ToSet(Tail(s)) \cup {Head(s)}
    <3> SUFFICES ASSUME NEW i \in 1..Len(s), i # 1 PROVE s[i] \in ToSet(Tail(s))
      BY <2>1 DEF ToSet
    <3>1. i - 1 \in DOMAIN Tail(s) /\ Tail(s)[i - 1] = s[i]
      BY <2>1
    <3> QED BY <3>1 DEF ToSet
  <2>3. ToSet(Tail(s)) \cup {Head(s)} \subseteq ToSet(s)
    BY <2>1 DEF ToSet
  <2> QED BY <2>1, <2>2, <2>3
<1>3. ToSet(s) \subseteq S
  BY DEF ToSet
<1> QED BY <1>1, <1>2, <1>3

LEMMA Types ==
  ASSUME Inv
  PROVE  /\ MaxResults \in Nat /\ result \in Nat /\ result \in Results
         /\ Results \subseteq Int /\ Change \subseteq Results
         /\ \A p \in Page : newest[p] \in Results /\ newest[p] \in Int /\ shown[p] \in Results
         /\ \A p \in Page : \A f \in fetches[p] :
              f \in Fetch /\ f.answer \in {-1} \cup Results /\ f.answer \in Int
         /\ \A t \in telling : t.to \in Change /\ t \in [to : Change, by : Instance, listed : BOOLEAN]
<1>1. /\ MaxResults \in Nat /\ result \in Nat /\ result \in Results
      /\ Results \subseteq Int /\ Change \subseteq Results
  BY LiveQueriesAssumption DEF Inv, LiveTypeOK, Results, Change
<1>2. \A p \in Page : newest[p] \in Results /\ newest[p] \in Int /\ shown[p] \in Results
  BY <1>1 DEF Inv, LiveTypeOK, WayTypeOK
<1>3. ASSUME NEW p \in Page, NEW f \in fetches[p]
      PROVE  f \in Fetch /\ f.answer \in {-1} \cup Results /\ f.answer \in Int
  <2>1. f \in Fetch
    BY DEF Inv, WayTypeOK
  <2>2. f.answer \in {-1} \cup Results
    BY <2>1 DEF Fetch
  <2>3. -1 \in Int
    OBVIOUS
  <2>4. f.answer \in Int
    BY ONLY <1>1, <2>2, <2>3
  <2> QED BY <2>1, <2>2, <2>4
<1>4. \A t \in telling : t.to \in Change /\ t \in [to : Change, by : Instance, listed : BOOLEAN]
  BY DEF Inv, WayTypeOK
<1> QED BY <1>1, <1>2, <1>3, <1>4

LEMMA InitInv == LiveInit => Inv
<1> SUFFICES ASSUME LiveInit PROVE Inv
  OBVIOUS
<1>1. LiveTypeOK
  BY LiveQueriesAssumption DEF LiveInit, LiveTypeOK, Results
<1>2. WayTypeOK
  BY LiveQueriesAssumption DEF LiveInit, WayTypeOK, Results
<1>3. Followed
  BY DEF LiveInit, Followed, Change
<1> QED BY <1>1, <1>2, <1>3 DEF Inv

-----------------------------------------------------------------------------
\* A query that starts will see every change so far.
LEMMA StartsFetchSees ==
  ASSUME Inv, NEW p \in Page, StartsFetch(p)
  PROVE  /\ fetches' \in [Page -> SUBSET Fetch]
         /\ \A q \in Page : \A f \in fetches'[q] : f.answer = -1 \/ f \in fetches[q]
         /\ \E f \in fetches'[p] : f.answer = -1
         /\ \A q \in Page : fetches[q] \subseteq fetches'[q]
<1>1. PICK nr \in 1..MaxFetches :
        fetches' = [fetches EXCEPT ![p] = @ \cup {[nr |-> nr, answer |-> -1]}]
  BY DEF StartsFetch
<1>2. [nr |-> nr, answer |-> -1] \in Fetch
  BY DEF Fetch
<1>3. fetches \in [Page -> SUBSET Fetch]
  BY DEF Inv, WayTypeOK
<1> QED BY <1>1, <1>2, <1>3

LEMMA SubscribeKeepsInv ==
  ASSUME Inv, NEW p \in Page, SubscribeToQuery(p) \/ UnsubscribeFromQuery(p)
  PROVE  Inv'
<1>1. /\ UNCHANGED << result, known, joined, pings, telling, fetches, shown, newest, untold >>
      /\ \E x \in {"joining", "left"} : stage' = [stage EXCEPT ![p] = x]
  BY DEF SubscribeToQuery, UnsubscribeFromQuery
<1>2. LiveTypeOK'
  BY <1>1 DEF Inv, LiveTypeOK
<1>3. WayTypeOK'
  BY <1>1 DEF Inv, WayTypeOK
<1>4. \A q \in Page : Watches(q)' => Watches(q)
  BY <1>1 DEF Inv, LiveTypeOK, Watches
<1>5. Followed'
  BY <1>1, <1>4 DEF Inv, Followed, NotToldOf, OnItsWay
<1> QED BY <1>2, <1>3, <1>5 DEF Inv

LEMMA JoinKeepsInv ==
  ASSUME Inv, NEW p \in Page, NEW i \in Instance, JoinChannel(p, i)
  PROVE  Inv'
<1>1. /\ UNCHANGED << result, stage, telling, fetches, shown, newest, untold >>
      /\ joined' = [joined EXCEPT ![p] = i] /\ known' = known \cup {i}
      /\ pings' = [pings EXCEPT ![p] = Append(@, Welcome)]
  BY DEF JoinChannel
<1>2. LiveTypeOK'
  BY <1>1 DEF Inv, LiveTypeOK
<1>3. Welcome \in Results
  BY LiveQueriesAssumption DEF Welcome, Results
<1>4. ASSUME NEW q \in Page
      PROVE  pings'[q] \in Seq(Results) /\ ToSet(pings[q]) \subseteq ToSet(pings'[q])
  <2>1. pings[q] \in Seq(Results)
    BY DEF Inv, WayTypeOK
  <2>2. /\ Append(pings[q], Welcome) \in Seq(Results)
        /\ ToSet(Append(pings[q], Welcome)) = ToSet(pings[q]) \cup {Welcome}
    BY <1>3, <2>1, ToSetFacts
  <2> QED BY <1>1, <2>1, <2>2 DEF Inv, WayTypeOK
<1>5. WayTypeOK'
  BY <1>1, <1>4 DEF Inv, WayTypeOK
<1>6. Followed'
  BY <1>1, <1>4 DEF Inv, Followed, Watches, NotToldOf, OnItsWay
<1> QED BY <1>2, <1>5, <1>6 DEF Inv

\* Whatever a page takes from its socket, the query it starts sees the change.
LEMMA ReceiveKeepsInv ==
  ASSUME Inv, NEW p \in Page, ReceiveAnswer(p) \/ ReceivePing(p)
  PROVE  Inv'
<1>1. /\ UNCHANGED << result, known, joined, telling, shown, newest, untold >>
      /\ pings[p] # << >> /\ pings' = [pings EXCEPT ![p] = Tail(@)]
      /\ stage' \in [Page -> {"new", "joining", "subscribed", "left"}]
      /\ \A q \in Page \ {p} : stage'[q] = stage[q]
      /\ StartsFetch(p) \/ (UNCHANGED fetches /\ ~Watches(p)')
  BY DEF ReceiveAnswer, ReceivePing, Inv, LiveTypeOK, Watches
<1>2. /\ fetches' \in [Page -> SUBSET Fetch]
      /\ \A q \in Page : \A f \in fetches'[q] : f.answer = -1 \/ f \in fetches[q]
      /\ \A q \in Page : fetches[q] \subseteq fetches'[q]
      /\ Watches(p)' => \E f \in fetches'[p] : f.answer = -1
  BY <1>1, StartsFetchSees DEF Inv, WayTypeOK
<1>3. LiveTypeOK'
  BY <1>1 DEF Inv, LiveTypeOK
<1>4. \A q \in Page : pings'[q] \in Seq(Results)
  BY <1>1, ToSetFacts DEF Inv, WayTypeOK
<1>5. WayTypeOK'
  <2>1. \A q \in Page : \A f \in fetches'[q] : f.answer <= result
    <3>1. result \in Nat /\ \A q \in Page : \A f \in fetches[q] : f.answer <= result
      BY Types DEF Inv, WayTypeOK
    <3> QED BY <1>2, <3>1
  <2>2. pings' \in [Page -> Seq(Results)]
    BY <1>1, <1>4 DEF Inv, WayTypeOK
  <2> QED BY <1>1, <1>2, <2>1, <2>2 DEF Inv, WayTypeOK
<1>6. Followed'
  <2> SUFFICES ASSUME NEW q \in Page, NEW c \in Change, Watches(q)', c <= result
               PROVE  c <= newest[q] \/ NotToldOf(q, c)' \/ OnItsWay(q, c)'
    BY <1>1 DEF Followed
  <2>1. CASE q = p
    BY <1>2, <2>1 DEF OnItsWay
  <2>2. CASE q # p
    <3>1. Watches(q) /\ pings'[q] = pings[q]
      BY <1>1, <2>2 DEF Watches, Inv, WayTypeOK
    <3> QED BY <1>1, <1>2, <3>1 DEF Inv, Followed, NotToldOf, OnItsWay
  <2> QED BY <2>1, <2>2
<1> QED BY <1>3, <1>5, <1>6 DEF Inv

-----------------------------------------------------------------------------
LEMMA AnswerKeepsInv ==
  ASSUME Inv, NEW p \in Page, NEW f \in fetches[p], AnswerQuery(p, f)
  PROVE  Inv'
<1> DEFINE answered == [f EXCEPT !.answer = result]
<1>1. /\ UNCHANGED << result, known, joined, stage, pings, telling, shown, newest, untold >>
      /\ f.answer = -1 /\ fetches' = [fetches EXCEPT ![p] = (@ \ {f}) \cup {answered}]
  BY DEF AnswerQuery
<1>2. answered \in Fetch /\ answered.answer = result
  BY Types DEF Fetch
<1> HIDE DEF answered
<1>3. LiveTypeOK'
  BY <1>1 DEF Inv, LiveTypeOK
<1>4. WayTypeOK'
  <2>1. fetches' \in [Page -> SUBSET Fetch]
    BY <1>1, <1>2 DEF Inv, WayTypeOK
  <2>2. \A q \in Page : \A x \in fetches'[q] : x.answer <= result
    <3>1. \A q \in Page : \A x \in fetches'[q] : x \in fetches[q] \/ x = answered
      BY <1>1 DEF Inv, WayTypeOK
    <3>2. result <= result
      BY Types
    <3>3. \A q \in Page : \A x \in fetches[q] : x.answer <= result
      BY DEF Inv, WayTypeOK
    <3> QED BY ONLY <1>1, <1>2, <3>1, <3>2, <3>3, Zenon
  <2> QED BY <1>1, <2>1, <2>2 DEF Inv, WayTypeOK
<1>5. Followed'
  <2> SUFFICES ASSUME NEW q \in Page, NEW c \in Change, Watches(q), c <= result
               PROVE  c <= newest[q] \/ NotToldOf(q, c)' \/ OnItsWay(q, c)'
    BY <1>1 DEF Followed, Watches
  <2>1. CASE q = p
    <3>1. answered \in fetches'[p] /\ answered.answer >= c
      BY <1>1, <1>2 DEF Inv, WayTypeOK, LiveTypeOK, Results, Change
    <3> QED BY <2>1, <3>1 DEF OnItsWay
  <2>2. CASE q # p
    <3>1. fetches'[q] = fetches[q]
      BY <1>1, <2>2 DEF Inv, WayTypeOK
    <3> QED BY <1>1, <3>1 DEF Inv, Followed, NotToldOf, OnItsWay
  <2> QED BY <2>1, <2>2
<1> QED BY <1>3, <1>4, <1>5 DEF Inv

LEMMA ShowKeepsInv ==
  ASSUME Inv, NEW p \in Page, NEW f \in fetches[p], ShowResult(p, f)
  PROVE  Inv'
<1>1. /\ UNCHANGED << result, known, joined, stage, pings, telling, untold >>
      /\ f.answer # -1 /\ fetches' = [fetches EXCEPT ![p] = @ \ {f}]
      /\ shown' = [shown EXCEPT ![p] = f.answer]
      /\ newest' = [newest EXCEPT ![p] = IF f.answer > @ THEN f.answer ELSE @]
  BY DEF ShowResult
<1>2. f.answer \in Results /\ f.answer <= result /\ newest[p] \in Results
  BY <1>1, Types DEF Inv, WayTypeOK
<1>3. /\ newest' \in [Page -> Results] /\ f.answer <= newest'[p]
      /\ \A q \in Page : newest[q] <= newest'[q] /\ newest'[q] <= result
      /\ \A q \in Page \ {p} : newest'[q] = newest[q]
  <2>1. \A q \in Page : newest'[q] = IF q = p /\ f.answer > newest[p] THEN f.answer ELSE newest[q]
    BY <1>1 DEF Inv, WayTypeOK
  <2>2. \A q \in Page : newest[q] \in Results /\ newest[q] <= result
    BY Types DEF Inv, LiveTypeOK
  <2>3. newest' \in [Page -> Results]
    BY <1>1, <1>2 DEF Inv, WayTypeOK
  <2> QED BY <1>2, <2>1, <2>2, <2>3, Types
<1>4. LiveTypeOK'
  BY <1>1, <1>2, <1>3 DEF Inv, LiveTypeOK
<1>5. WayTypeOK'
  BY <1>1, <1>3 DEF Inv, WayTypeOK
<1>6. Followed'
  <2> SUFFICES ASSUME NEW q \in Page, NEW c \in Change, Watches(q), c <= result
               PROVE  c <= newest'[q] \/ NotToldOf(q, c)' \/ OnItsWay(q, c)'
    BY <1>1 DEF Followed, Watches
  <2>1. c <= newest[q] => c <= newest'[q]
    BY <1>3, Types
  <2>2. \A x \in fetches[q] : x \in fetches'[q] \/ (q = p /\ x = f)
    BY <1>1 DEF Inv, WayTypeOK
  <2>3. q = p /\ f.answer >= c => c <= newest'[q]
    BY <1>2, <1>3, Types
  <2>4. c <= newest[q] \/ NotToldOf(q, c) \/ OnItsWay(q, c)
    BY DEF Inv, Followed
  <2> QED BY <1>1, <2>1, <2>2, <2>3, <2>4 DEF NotToldOf, OnItsWay
<1> QED BY <1>4, <1>5, <1>6 DEF Inv

LEMMA ChangeKeepsInv ==
  ASSUME Inv, NEW i \in Instance, ChangeFacts(i)
  PROVE  Inv'
<1> DEFINE new == [to |-> result', by |-> i, listed |-> FALSE]
<1>1. /\ UNCHANGED << known, joined, stage, pings, fetches, shown, newest, untold >>
      /\ result < MaxResults /\ result' = result + 1 /\ telling' = telling \cup {new}
  BY DEF ChangeFacts
<1>2. result' \in Results /\ result' \in Change /\ result <= result' /\ result \in Nat
  BY <1>1, Types DEF Results, Change
<1>3. new \in [to : Change, by : Instance, listed : BOOLEAN] /\ new.to = result'
  BY <1>2
<1> HIDE DEF new
<1>4. LiveTypeOK'
  <2>1. ASSUME NEW q \in Page PROVE newest[q] <= result'
    <3>1. newest[q] <= result /\ newest[q] \in Int /\ result \in Nat
      BY Types DEF Inv, LiveTypeOK
    <3> QED BY ONLY <1>1, <3>1
  <2> QED BY <1>1, <1>2, <2>1 DEF Inv, LiveTypeOK
<1>5. WayTypeOK'
  <2>1. ASSUME NEW q \in Page, NEW f \in fetches[q] PROVE f.answer <= result'
    <3>1. f.answer <= result /\ f.answer \in Int /\ result \in Nat
      BY Types DEF Inv, WayTypeOK
    <3> QED BY ONLY <1>1, <3>1
  <2> QED BY <1>1, <1>3, <2>1 DEF Inv, WayTypeOK
<1>6. Followed'
  <2> SUFFICES ASSUME NEW q \in Page, NEW c \in Change, Watches(q), c <= result'
               PROVE  c <= newest[q] \/ NotToldOf(q, c)' \/ OnItsWay(q, c)'
    BY <1>1 DEF Followed, Watches
  <2>1. CASE c = result'
    BY <1>1, <1>3, <2>1 DEF OnItsWay
  <2>2. CASE c <= result
    BY <1>1, <2>2 DEF Inv, Followed, NotToldOf, OnItsWay
  <2> QED BY <1>1, <1>2, <2>1, <2>2 DEF Change
<1> QED BY <1>4, <1>5, <1>6 DEF Inv

-----------------------------------------------------------------------------
\* What NotTold adds.
LEMMA NotToldAdds ==
  ASSUME Inv, NEW pages \in SUBSET Page, NEW changes \in SUBSET Change,
         NEW why \in {"not listed", "mishap"}, NotTold(pages, changes, why)
  PROVE  /\ untold' \in [Page -> SUBSET [of : Change, why : {"not listed", "mishap"}]]
         /\ \A q \in Page : untold[q] \subseteq untold'[q]
         /\ \A q \in pages, c \in changes : Watches(q) => NotToldOf(q, c)'
<1> DEFINE added == {[of |-> c, why |-> why] : c \in changes}
<1>1. added \subseteq [of : Change, why : {"not listed", "mishap"}]
      /\ \A c \in changes : \E x \in added : x.of = c
  <2>1. \A c \in changes : /\ [of |-> c, why |-> why] \in [of : Change, why : {"not listed", "mishap"}]
                           /\ [of |-> c, why |-> why].of = c
    OBVIOUS
  <2>2. ASSUME NEW x \in added PROVE x \in [of : Change, why : {"not listed", "mishap"}]
    <3>1. PICK c \in changes : x = [of |-> c, why |-> why]
      OBVIOUS
    <3> QED BY <2>1, <3>1
  <2>3. ASSUME NEW c \in changes PROVE \E x \in added : x.of = c
    <3>1. [of |-> c, why |-> why] \in added
      OBVIOUS
    <3> QED BY <2>1, <3>1
  <2> QED BY <2>2, <2>3
<1>2. untold' = [p \in Page |-> IF p \in pages /\ Watches(p) THEN untold[p] \cup added ELSE untold[p]]
  BY DEF NotTold
<1>3. untold \in [Page -> SUBSET [of : Change, why : {"not listed", "mishap"}]]
  BY DEF Inv, WayTypeOK
<1> HIDE DEF added
<1> QED BY <1>1, <1>2, <1>3 DEF NotToldOf

\* What the page was not told of is taken from its way, and nothing else.
LEMMA TakenFromWay ==
  ASSUME Inv, UNCHANGED << result, newest >>,
         \A q \in Page : untold[q] \subseteq untold'[q],
         \A q \in Page : Watches(q)' => Watches(q),
         \A q \in Page, c \in Change :
           Watches(q)' /\ c <= result /\ OnItsWay(q, c) => OnItsWay(q, c)' \/ NotToldOf(q, c)'
  PROVE  Followed'
<1> SUFFICES ASSUME NEW q \in Page, NEW c \in Change, Watches(q)', c <= result
             PROVE  c <= newest[q] \/ NotToldOf(q, c)' \/ OnItsWay(q, c)'
  BY DEF Followed
<1>1. c <= newest[q] \/ NotToldOf(q, c) \/ OnItsWay(q, c)
  BY DEF Inv, Followed
<1>2. NotToldOf(q, c) => NotToldOf(q, c)'
  BY DEF NotToldOf
<1> QED BY <1>1, <1>2

LEMMA ListKeepsInv ==
  ASSUME Inv, NEW t \in telling, ListChannels(t)
  PROVE  Inv'
<1> DEFINE listed == [t EXCEPT !.listed = TRUE]
<1>1. UNCHANGED << result, known, joined, stage, pings, fetches, shown, newest >>
  BY DEF ListChannels
<1>2. LiveTypeOK'
  BY <1>1 DEF Inv, LiveTypeOK
<1>3. t \in [to : Change, by : Instance, listed : BOOLEAN]
  BY DEF Inv, WayTypeOK
<1>4. CASE t.by \in known
  <2>1. telling' = (telling \ {t}) \cup {listed} /\ UNCHANGED untold
    BY <1>4 DEF ListChannels
  <2>2. listed \in [to : Change, by : Instance, listed : BOOLEAN] /\ listed.to = t.to
    BY <1>3
  <2> HIDE DEF listed
  <2>3. WayTypeOK'
    BY <1>1, <2>1, <2>2 DEF Inv, WayTypeOK
  <2>4. \A q \in Page, c \in Change : OnItsWay(q, c) => OnItsWay(q, c)'
    BY <1>1, <2>1, <2>2 DEF OnItsWay
  <2>5. Followed'
    BY <1>1, <2>1, <2>4, TakenFromWay DEF Watches
  <2> QED BY <1>2, <2>3, <2>5 DEF Inv
<1>5. CASE t.by \notin known
  <2>1. telling' = telling \ {t} /\ NotTold(Page, {t.to}, "not listed")
    BY <1>5 DEF ListChannels
  <2>2. /\ untold' \in [Page -> SUBSET [of : Change, why : {"not listed", "mishap"}]]
        /\ \A q \in Page : untold[q] \subseteq untold'[q]
        /\ \A q \in Page : Watches(q) => NotToldOf(q, t.to)'
    <3>1. Page \in SUBSET Page /\ {t.to} \in SUBSET Change /\ t.to \in {t.to}
      BY Types
    <3> QED BY <2>1, <3>1, NotToldAdds
  <2>3. WayTypeOK'
    BY <1>1, <2>1, <2>2 DEF Inv, WayTypeOK
  <2>4. ASSUME NEW q \in Page, NEW c \in Change, Watches(q), OnItsWay(q, c)
        PROVE  OnItsWay(q, c)' \/ NotToldOf(q, c)'
    BY <1>1, <2>1, <2>2, <2>4 DEF OnItsWay
  <2>5. Followed'
    BY <1>1, <2>2, <2>4, TakenFromWay DEF Watches
  <2> QED BY <1>2, <2>3, <2>5 DEF Inv
<1> QED BY <1>4, <1>5

LEMMA SendKeepsInv ==
  ASSUME Inv, NEW t \in telling, SendPings(t)
  PROVE  Inv'
<1>1. /\ UNCHANGED << result, known, joined, stage, fetches, shown, newest >>
      /\ telling' = telling \ {t}
      /\ pings' = [p \in Page |-> IF Joined(p) THEN Append(pings[p], t.to) ELSE pings[p]]
      /\ NotTold({p \in Page : ~Joined(p)}, {t.to}, "mishap")
  BY DEF SendPings
<1>2. LiveTypeOK'
  <2>1. UNCHANGED << result, known, joined, stage, fetches, shown, newest >>
    BY <1>1
  <2> QED BY ONLY <2>1, Inv DEF Inv, LiveTypeOK
<1>3. t.to \in Change /\ t.to \in Results
  BY Types
<1>4. /\ untold' \in [Page -> SUBSET [of : Change, why : {"not listed", "mishap"}]]
      /\ \A q \in Page : untold[q] \subseteq untold'[q]
      /\ \A q \in Page : ~Joined(q) /\ Watches(q) => NotToldOf(q, t.to)'
  <2>1. {p \in Page : ~Joined(p)} \in SUBSET Page /\ {t.to} \in SUBSET Change
    BY <1>3
  <2>2. NotTold({p \in Page : ~Joined(p)}, {t.to}, "mishap")
    BY <1>1
  <2> QED BY <2>1, <2>2, NotToldAdds
<1>5. ASSUME NEW q \in Page
      PROVE  /\ pings'[q] \in Seq(Results) /\ ToSet(pings[q]) \subseteq ToSet(pings'[q])
             /\ Joined(q) => t.to \in ToSet(pings'[q])
  <2>1. pings[q] \in Seq(Results)
    BY DEF Inv, WayTypeOK
  <2>2. /\ Append(pings[q], t.to) \in Seq(Results)
        /\ ToSet(Append(pings[q], t.to)) = ToSet(pings[q]) \cup {t.to}
    BY <1>3, <2>1, ToSetFacts
  <2> QED BY <1>1, <2>1, <2>2
<1>6. WayTypeOK'
  <2>1. pings' \in [Page -> Seq(Results)]
    BY <1>1, <1>5
  <2> QED BY <1>1, <1>4, <2>1 DEF Inv, WayTypeOK
<1>7. ASSUME NEW q \in Page, NEW c \in Change, Watches(q), OnItsWay(q, c)
      PROVE  OnItsWay(q, c)' \/ NotToldOf(q, c)'
  BY <1>1, <1>4, <1>5, <1>7 DEF OnItsWay
<1>8. Followed'
  BY <1>1, <1>4, <1>7, TakenFromWay DEF Watches
<1> QED BY <1>2, <1>6, <1>8 DEF Inv
-----------------------------------------------------------------------------
\* What a page loses with its socket, it is not told of.
LEMMA LeavesRoomLeaves ==
  ASSUME Inv, NEW p \in Page, LeavesRoom(p)
  PROVE  /\ joined' \in [Page -> Instance \cup {Nowhere}] /\ known' \subseteq Instance
         /\ \A q \in Page : joined'[q] \in known' \cup {Nowhere}
         /\ pings' \in [Page -> Seq(Results)] /\ \A q \in Page \ {p} : pings'[q] = pings[q]
<1>1. /\ joined' = [joined EXCEPT ![p] = Nowhere] /\ pings' = [pings EXCEPT ![p] = << >>]
      /\ known' \subseteq known
      /\ \A q \in Page \ {p} : joined[q] \in known => joined[q] \in known'
  BY DEF LeavesRoom
<1>2. << >> \in Seq(Results)
  OBVIOUS
<1> QED BY <1>1, <1>2 DEF Inv, LiveTypeOK, WayTypeOK

LEMMA BreakKeepsInv ==
  ASSUME Inv, NEW p \in Page, SocketBreaks(p)
  PROVE  Inv'
<1> DEFINE lost == ToSet(pings[p]) \ {Welcome}
<1>1. /\ UNCHANGED << result, telling, fetches, shown, newest >>
      /\ LeavesRoom(p) /\ NotTold({p}, lost, "mishap")
      /\ stage' = [stage EXCEPT ![p] = IF @ = "joining" THEN "left" ELSE @]
  BY DEF SocketBreaks
<1>2. lost \in SUBSET Change /\ \A c \in Change : c \in ToSet(pings[p]) => c \in lost
  <2>1. ToSet(pings[p]) \subseteq Results
    BY ToSetFacts DEF Inv, WayTypeOK
  <2> QED BY <2>1, Types DEF Results, Change, Welcome
<1> HIDE DEF lost
<1>3. /\ untold' \in [Page -> SUBSET [of : Change, why : {"not listed", "mishap"}]]
      /\ \A q \in Page : untold[q] \subseteq untold'[q]
      /\ \A c \in lost : Watches(p) => NotToldOf(p, c)'
  <2>1. {p} \in SUBSET Page
    OBVIOUS
  <2> QED BY <1>1, <1>2, <2>1, NotToldAdds
<1>4. LiveTypeOK'
  BY <1>1, LeavesRoomLeaves DEF Inv, LiveTypeOK
<1>5. WayTypeOK'
  BY <1>1, <1>3, LeavesRoomLeaves DEF Inv, WayTypeOK
<1>6. \A q \in Page : Watches(q)' => Watches(q)
  BY <1>1 DEF Inv, LiveTypeOK, Watches
<1>7. ASSUME NEW q \in Page, NEW c \in Change, Watches(q)', OnItsWay(q, c)
      PROVE  OnItsWay(q, c)' \/ NotToldOf(q, c)'
  <2>1. CASE q = p
    BY <1>1, <1>2, <1>3, <1>6, <1>7, <2>1 DEF OnItsWay
  <2>2. CASE q # p
    <3>1. pings'[q] = pings[q]
      BY <1>1, <2>2, LeavesRoomLeaves
    <3> QED BY <1>1, <1>7, <3>1 DEF OnItsWay
  <2> QED BY <2>1, <2>2
<1>8. Followed'
  BY <1>1, <1>3, <1>6, <1>7, TakenFromWay
<1> QED BY <1>4, <1>5, <1>8 DEF Inv

LEMMA ReloadKeepsInv ==
  ASSUME Inv, NEW p \in Page, Reload(p)
  PROVE  Inv'
<1>1. /\ UNCHANGED << result, telling >> /\ LeavesRoom(p)
      /\ stage' = [stage EXCEPT ![p] = "new"] /\ fetches' = [fetches EXCEPT ![p] = {}]
      /\ shown' = [shown EXCEPT ![p] = 0] /\ newest' = [newest EXCEPT ![p] = 0]
      /\ untold' = [untold EXCEPT ![p] = {}]
  BY DEF Reload
<1>2. 0 \in Results /\ 0 <= 0 /\ 0 <= result
  BY Types DEF Results
<1>3. LiveTypeOK'
  BY <1>1, <1>2, LeavesRoomLeaves DEF Inv, LiveTypeOK, WayTypeOK
<1>4. WayTypeOK'
  BY <1>1, <1>2, LeavesRoomLeaves DEF Inv, WayTypeOK
<1>5. ~Watches(p)'
  BY <1>1 DEF Watches, Inv, LiveTypeOK
<1>6. ASSUME NEW q \in Page \ {p}
      PROVE  /\ stage'[q] = stage[q] /\ fetches'[q] = fetches[q] /\ newest'[q] = newest[q]
             /\ untold'[q] = untold[q] /\ pings'[q] = pings[q]
  BY <1>1, LeavesRoomLeaves DEF Inv, LiveTypeOK, WayTypeOK
<1>7. Followed'
  <2> SUFFICES ASSUME NEW q \in Page \ {p}, NEW c \in Change, Watches(q)', c <= result
               PROVE  c <= newest'[q] \/ NotToldOf(q, c)' \/ OnItsWay(q, c)'
    BY <1>1, <1>5 DEF Followed
  <2>1. Watches(q)
    BY <1>6 DEF Watches
  <2>2. c <= newest[q] \/ NotToldOf(q, c) \/ OnItsWay(q, c)
    BY <2>1 DEF Inv, Followed
  <2> QED BY <1>1, <1>6, <2>2 DEF NotToldOf, OnItsWay
<1> QED BY <1>3, <1>4, <1>7 DEF Inv

LEMMA FailKeepsInv ==
  ASSUME Inv, NEW p \in Page, NEW f \in fetches[p], FetchFails(p, f)
  PROVE  Inv'
<1>1. /\ UNCHANGED << result, known, joined, stage, pings, telling, shown, newest >>
      /\ fetches' = [fetches EXCEPT ![p] = @ \ {f}]
      /\ NotTold({p}, 1..result, "mishap")
  BY DEF FetchFails
<1>2. /\ untold' \in [Page -> SUBSET [of : Change, why : {"not listed", "mishap"}]]
      /\ \A q \in Page : untold[q] \subseteq untold'[q]
      /\ \A c \in 1..result : Watches(p) => NotToldOf(p, c)'
  <2>1. {p} \in SUBSET Page /\ 1..result \in SUBSET Change
    BY Types DEF Results, Change
  <2> QED BY <1>1, <2>1, NotToldAdds
<1>3. LiveTypeOK'
  BY <1>1 DEF Inv, LiveTypeOK
<1>4. WayTypeOK'
  BY <1>1, <1>2 DEF Inv, WayTypeOK
<1>5. ASSUME NEW q \in Page, NEW c \in Change, Watches(q)', c <= result, OnItsWay(q, c)
      PROVE  OnItsWay(q, c)' \/ NotToldOf(q, c)'
  <2>1. CASE q = p
    <3>1. c \in 1..result
      BY <1>5, Types DEF Change
    <3> QED BY <1>1, <1>2, <1>5, <2>1, <3>1 DEF Watches
  <2>2. CASE q # p
    <3>1. fetches'[q] = fetches[q]
      BY <1>1, <2>2 DEF Inv, WayTypeOK
    <3> QED BY <1>1, <1>5, <3>1 DEF OnItsWay
  <2> QED BY <2>1, <2>2
<1>6. Followed'
  BY <1>1, <1>2, <1>5, TakenFromWay DEF Watches
<1> QED BY <1>3, <1>4, <1>6 DEF Inv

LEMMA InstanceRestartKeepsInv ==
  ASSUME Inv, NEW i \in Instance, InstanceRestarts(i)
  PROVE  Inv'
<1> DEFINE here == {p \in Page : joined[p] = i}
           lost == {c \in telling : c.by = i}
           missing(p) == {x.to : x \in lost} \cup
                         (IF p \in here THEN ToSet(pings[p]) \ {Welcome} ELSE {})
           added(p) == {[of |-> c, why |-> "mishap"] : c \in missing(p)}
<1>1. /\ UNCHANGED << result, fetches, shown, newest >> /\ telling' = telling \ lost
      /\ joined' = [p \in Page |-> IF p \in here THEN Nowhere ELSE joined[p]]
      /\ pings' = [p \in Page |-> IF p \in here THEN << >> ELSE pings[p]]
      /\ stage' = [p \in Page |-> IF p \in here /\ stage[p] = "joining" THEN "left" ELSE stage[p]]
      /\ known' = IF \E p \in Page \ here : Joined(p) THEN known \cup {i} ELSE known \ {i}
      /\ untold' = [p \in Page |-> IF Watches(p) THEN untold[p] \cup added(p) ELSE untold[p]]
  BY DEF InstanceRestarts
<1>2. \A p \in Page : missing(p) \subseteq Change
  <2>1. \A p \in Page : ToSet(pings[p]) \ {Welcome} \subseteq Change
    <3>1. \A p \in Page : ToSet(pings[p]) \subseteq Results
      BY ToSetFacts DEF Inv, WayTypeOK
    <3> QED BY <3>1, Types DEF Results, Change, Welcome
  <2> QED BY <2>1, Types
<1>3. \A p \in Page : /\ added(p) \subseteq [of : Change, why : {"not listed", "mishap"}]
                      /\ \A c \in missing(p) : \E x \in added(p) : x.of = c
  <2> SUFFICES ASSUME NEW p \in Page
               PROVE  /\ added(p) \subseteq [of : Change, why : {"not listed", "mishap"}]
                      /\ \A c \in missing(p) : \E x \in added(p) : x.of = c
    OBVIOUS
  <2> HIDE DEF missing
  <2>1. \A c \in missing(p) : /\ [of |-> c, why |-> "mishap"] \in [of : Change, why : {"not listed", "mishap"}]
                              /\ [of |-> c, why |-> "mishap"].of = c
    BY <1>2
  <2>2. ASSUME NEW c \in missing(p) PROVE \E x \in added(p) : x.of = c
    <3>1. [of |-> c, why |-> "mishap"] \in added(p)
      OBVIOUS
    <3> QED BY <2>1, <3>1
  <2>3. added(p) \subseteq [of : Change, why : {"not listed", "mishap"}]
    <3> SUFFICES ASSUME NEW x \in added(p) PROVE x \in [of : Change, why : {"not listed", "mishap"}]
      OBVIOUS
    <3>1. PICK c \in missing(p) : x = [of |-> c, why |-> "mishap"]
      OBVIOUS
    <3> QED BY <2>1, <3>1
  <2> QED BY <2>2, <2>3
<1>4. /\ \A p \in Page, c \in Change : c \in missing(p) <=>
           (\E t \in lost : t.to = c) \/ (p \in here /\ c \in ToSet(pings[p]))
  BY DEF Change, Welcome
<1> HIDE DEF missing, added
<1>5. /\ untold' \in [Page -> SUBSET [of : Change, why : {"not listed", "mishap"}]]
      /\ \A q \in Page : untold[q] \subseteq untold'[q]
      /\ \A q \in Page : \A c \in missing(q) : Watches(q) => NotToldOf(q, c)'
  BY <1>1, <1>3 DEF Inv, WayTypeOK, NotToldOf
<1>6. LiveTypeOK'
  <2>1. known' \subseteq Instance /\ \A q \in Page : joined'[q] \in known' \cup {Nowhere}
    <3>1. known \subseteq Instance /\ \A q \in Page : joined[q] \in known \cup {Nowhere}
      BY DEF Inv, LiveTypeOK
    <3>2. \A q \in Page : joined'[q] = IF joined[q] = i THEN Nowhere ELSE joined[q]
      BY <1>1
    <3>3. known \ {i} \subseteq known' /\ known' \subseteq known \cup {i}
      BY <1>1
    <3> QED BY <3>1, <3>2, <3>3
  <2> QED BY <1>1, <2>1 DEF Inv, LiveTypeOK
<1>7. WayTypeOK'
  <2>1. pings' \in [Page -> Seq(Results)]
    <3>1. \A q \in Page : pings[q] \in Seq(Results)
      BY DEF Inv, WayTypeOK
    <3>2. << >> \in Seq(Results)
      OBVIOUS
    <3>3. pings' = [p \in Page |-> IF p \in here THEN << >> ELSE pings[p]]
      BY <1>1
    <3> HIDE DEF here
    <3> QED BY <3>1, <3>2, <3>3
  <2>2. telling' \subseteq telling
    BY <1>1
  <2> QED BY <1>1, <1>5, <2>1, <2>2 DEF Inv, WayTypeOK
<1>8. \A q \in Page : Watches(q)' => Watches(q)
  BY <1>1 DEF Watches
<1>9. ASSUME NEW q \in Page, NEW c \in Change, Watches(q)', OnItsWay(q, c)
      PROVE  OnItsWay(q, c)' \/ NotToldOf(q, c)'
  <2>1. CASE c \in missing(q)
    BY <1>5, <1>8, <1>9, <2>1
  <2>2. CASE c \notin missing(q)
    <3>1. ~(\E t \in lost : t.to = c) /\ ~(q \in here /\ c \in ToSet(pings[q]))
      BY <1>4, <2>2
    <3>2. c \in ToSet(pings[q]) => c \in ToSet(pings'[q])
      BY <1>1, <3>1
    <3> QED BY <1>1, <1>9, <3>1, <3>2 DEF OnItsWay
  <2> QED BY <2>1, <2>2
<1>10. Followed'
  BY <1>1, <1>5, <1>8, <1>9, TakenFromWay
<1> QED BY <1>6, <1>7, <1>10 DEF Inv

-----------------------------------------------------------------------------
LEMMA NextInv == Inv /\ [LiveNext]_liveVars => Inv'
<1> SUFFICES ASSUME Inv, [LiveNext]_liveVars PROVE Inv'
  OBVIOUS
<1>1. CASE UNCHANGED liveVars
  BY <1>1 DEF liveVars, Inv, LiveTypeOK, WayTypeOK, Followed, Watches, NotToldOf, OnItsWay
<1>2. ASSUME NEW p \in Page,
             \/ SubscribeToQuery(p) \/ ReceiveAnswer(p) \/ ReceivePing(p)
             \/ UnsubscribeFromQuery(p) \/ SocketBreaks(p) \/ Reload(p)
      PROVE  Inv'
  BY <1>2, SubscribeKeepsInv, ReceiveKeepsInv, BreakKeepsInv, ReloadKeepsInv
<1>3. ASSUME NEW p \in Page, NEW i \in Instance, JoinChannel(p, i) PROVE Inv'
  BY <1>3, JoinKeepsInv
<1>4. ASSUME NEW p \in Page, NEW f \in fetches[p],
             AnswerQuery(p, f) \/ ShowResult(p, f) \/ FetchFails(p, f)
      PROVE  Inv'
  BY <1>4, AnswerKeepsInv, ShowKeepsInv, FailKeepsInv
<1>5. ASSUME NEW i \in Instance, ChangeFacts(i) \/ InstanceRestarts(i) PROVE Inv'
  BY <1>5, ChangeKeepsInv, InstanceRestartKeepsInv
<1>6. ASSUME NEW t \in telling, ListChannels(t) \/ SendPings(t) PROVE Inv'
  BY <1>6, ListKeepsInv, SendKeepsInv
<1> QED BY <1>1, <1>2, <1>3, <1>4, <1>5, <1>6 DEF LiveNext

\* Instances know the channels of their pages, and no page shows a result from the future
\* (LiveTypeOK: the rooms of a socket and the list of channels).
THEOREM TypeCorrect == LiveSpec => []LiveTypeOK
<1>1. Inv => LiveTypeOK
  BY DEF Inv
<1> QED BY InitInv, NextInv, <1>1, PTL DEF LiveSpec

\* A page at rest has got every change but those it was not told of (ResultsArrive:
\* subscribeToQuery and notifyFactChanged).
THEOREM PagesFollow == LiveSpec => []ResultsArrive
<1>1. Inv => ResultsArrive
  <2> SUFFICES ASSUME Inv, NEW p \in Page, AtRest(p), NEW c \in newest[p] + 1..result
               PROVE  NotToldOf(p, c)
    BY DEF ResultsArrive, NotToldOf
  <2>1. c \in Change /\ c <= result /\ ~(c <= newest[p])
    BY Types DEF Results, Change
  <2>2. ~OnItsWay(p, c)
    BY DEF AtRest, OnItsWay, ToSet
  <2> QED BY <2>1, <2>2 DEF Inv, Followed, AtRest
<1> QED BY InitInv, NextInv, <1>1, PTL DEF LiveSpec

=============================================================================
