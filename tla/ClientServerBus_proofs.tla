------------------------ MODULE ClientServerBus_proofs ------------------------
(***************************************************************************)
(* Each handler of a page gets the messages of its channel once and in     *)
(* order, for any number of channels, calls, messages and broken sockets.  *)
(*                                                                         *)
(* InOrderOnce speaks of handlers the page has. Answers is what holds of   *)
(* one before: between the answer to its call and what follows it on the   *)
(* wire lies exactly what the handler is going to miss or get.             *)
(***************************************************************************)
EXTENDS ClientServerBus, SequenceTheorems, TLAPS

CallRecord == [nr : 1..callCount, kind : {"subscribe", "send"}, channel : Channel]
WireMessage == [nr : Int, channel : Channel, ok : BOOLEAN]

BusTypes ==
  /\ calls \subseteq CallRecord
  /\ callCount \in 0..MaxCalls
  /\ rooms \subseteq Channel
  /\ wire \in Seq(WireMessage)
  /\ broadcasts \in Seq(Channel)
  /\ handlers \in [Channel -> SUBSET Handler]
  /\ isPaused \in BOOLEAN
  /\ heldBack \in [Handler -> Seq(Nat)]
  /\ received \in [Handler -> Seq(Nat)]
  /\ since \in [Handler -> 0..Len(broadcasts)]
  /\ breaks \in Nat

\* Calls are told apart by their numbers. One that is not answered has no handler yet, and a
\* handler is for one channel.
Identities ==
  /\ \A x, y \in calls : x.nr = y.nr => x = y
  /\ \A x \in calls, c \in Channel : x.nr \notin handlers[c]
  /\ \A c, d \in Channel : c # d => handlers[c] \cap handlers[d] = {}
  /\ \A n \in Handler :
       n > callCount \/ (\E x \in calls : x.nr = n) => received[n] = << >> /\ heldBack[n] = << >>
  /\ ~isPaused => \A n \in Handler : heldBack[n] = << >>

\* What is on the wire: broadcasts in their order, and answers to calls that wait for them.
Wire ==
  /\ \A i \in DOMAIN wire : wire[i].nr < 0 =>
       -wire[i].nr \in 1..Len(broadcasts) /\ broadcasts[-wire[i].nr] = wire[i].channel
  /\ \A i, j \in DOMAIN wire : wire[i].nr < 0 /\ wire[j].nr < 0 /\ i < j => wire[j].nr < wire[i].nr
  /\ \A i \in DOMAIN wire : wire[i].nr >= 0 =>
       \E x \in calls : x.nr = wire[i].nr /\ x.channel = wire[i].channel
  /\ \A i, j \in DOMAIN wire : wire[i].nr > 0 /\ wire[i].nr = wire[j].nr => i = j

\* A message of channel c is on the wire after position i.
Follows(m, i) == \E j \in DOMAIN wire : i < j /\ wire[j].nr = -m

\* The answer to a subscription divides the messages: what follows was sent after it, and
\* unless the socket broke, everything sent after it follows.
Answers ==
  \A i \in DOMAIN wire : wire[i].nr > 0 =>
    /\ \A j \in DOMAIN wire : i < j /\ wire[j].nr < 0 => since[wire[i].nr] < -wire[j].nr
    /\ \A x \in calls :
         breaks = 0 /\ x.nr = wire[i].nr /\ x.kind = "subscribe" /\ wire[i].ok =>
           /\ x.channel \in rooms
           /\ \A m \in SentSince(since[x.nr], x.channel) : Follows(m, i)

\* The same of a handler, with what it got
Gets(h, c) ==
  /\ \A i, j \in DOMAIN Got(h) : i < j => Got(h)[i] < Got(h)[j]
  /\ \A i \in DOMAIN Got(h) : Got(h)[i] \in SentSince(since[h], c)
  /\ \A i \in DOMAIN Got(h), j \in Coming(c) : Got(h)[i] < -wire[j].nr
  /\ \A j \in Coming(c) : since[h] < -wire[j].nr
  /\ breaks = 0 =>
       /\ c \in rooms
       /\ \A m \in SentSince(since[h], c) :
            m \in Range(Got(h)) \/ \E j \in DOMAIN wire : wire[j].nr = -m

BusInv ==
  /\ BusTypeOK /\ BusTypes /\ Identities /\ Wire /\ Answers
  /\ \A c \in Channel : \A h \in handlers[c] : Gets(h, c)


-----------------------------------------------------------------------------
(* Sequences *)

LEMMA AppendElements ==
  ASSUME NEW S, NEW s \in Seq(S), NEW x \in S
  PROVE  /\ Append(s, x) \in Seq(S) /\ Len(s) \in Nat /\ Len(Append(s, x)) = Len(s) + 1
         /\ DOMAIN s = 1..Len(s) /\ DOMAIN Append(s, x) = DOMAIN s \cup {Len(s) + 1}
         /\ \A i \in DOMAIN s : Append(s, x)[i] = s[i] /\ s[i] \in S /\ i \in Nat /\ i < Len(s) + 1
         /\ Append(s, x)[Len(s) + 1] = x
<1>1. /\ Append(s, x) \in Seq(S) /\ Len(s) \in Nat /\ Len(Append(s, x)) = Len(s) + 1
      /\ \A i \in 1..Len(s) : Append(s, x)[i] = s[i] /\ s[i] \in S
      /\ Append(s, x)[Len(s) + 1] = x
  BY AppendProperties, ElementOfSeq
<1>2. DOMAIN s = 1..Len(s) /\ DOMAIN Append(s, x) = 1..Len(s) + 1
  BY <1>1
<1>3. 1..Len(s) + 1 = (1..Len(s)) \cup {Len(s) + 1}
  BY <1>1
<1> QED BY <1>1, <1>2, <1>3

LEMMA TailElements ==
  ASSUME NEW S, NEW s \in Seq(S), s # << >>
  PROVE  /\ Tail(s) \in Seq(S) /\ Head(s) = s[1] /\ s[1] \in S /\ 1 \in DOMAIN s
         /\ \A i \in DOMAIN s : s[i] \in S /\ i \in Nat \ {0}
         /\ \A i \in DOMAIN Tail(s) : i \in Nat \ {0} /\ i + 1 \in DOMAIN s /\ Tail(s)[i] = s[i + 1]
         /\ \A i \in DOMAIN s : i # 1 => i - 1 \in DOMAIN Tail(s) /\ Tail(s)[i - 1] = s[i]
<1>1. /\ Tail(s) \in Seq(S) /\ Len(Tail(s)) = Len(s) - 1 /\ Len(s) \in Nat \ {0}
      /\ \A i \in 1..Len(Tail(s)) : Tail(s)[i] = s[i + 1]
      /\ Head(s) = s[1]
  BY HeadTailProperties, EmptySeq
<1>2. \A i \in 1..Len(s) : s[i] \in S
  BY ElementOfSeq
<1>3. DOMAIN s = 1..Len(s) /\ DOMAIN Tail(s) = 1..Len(s) - 1
  BY <1>1
<1>4. \A i \in 1..Len(s) - 1 : i \in Nat \ {0} /\ i + 1 \in 1..Len(s)
  BY <1>1
<1>5. \A i \in 1..Len(s) : i # 1 => i - 1 \in 1..Len(s) - 1 /\ (i - 1) + 1 = i
  BY <1>1
<1> QED BY <1>1, <1>2, <1>3, <1>4, <1>5

LEMMA WireElements ==
  ASSUME BusTypes
  PROVE  \A i \in DOMAIN wire : /\ wire[i] \in WireMessage /\ i \in Nat \ {0}
                                 /\ wire[i].nr \in Int /\ wire[i].channel \in Channel
<1>1. wire \in Seq(WireMessage)
  BY DEF BusTypes
<1>2. DOMAIN wire = 1..Len(wire) /\ Len(wire) \in Nat
  BY <1>1
<1>3. \A i \in DOMAIN wire : wire[i] \in WireMessage /\ i \in Nat \ {0}
  BY <1>1, <1>2, ElementOfSeq
<1> QED BY <1>3 DEF WireMessage

LEMMA AppendToConcat ==
  ASSUME NEW a \in Seq(Nat), NEW b \in Seq(Nat), NEW x \in Nat
  PROVE  a \o Append(b, x) = Append(a \o b, x)
<1>1. << x >> \in Seq(Nat) /\ a \o b \in Seq(Nat)
  BY ConcatProperties
<1>2. Append(b, x) = b \o << x >> /\ Append(a \o b, x) = (a \o b) \o << x >>
  BY <1>1, AppendIsConcat
<1> QED BY <1>1, <1>2, ConcatAssociative

-----------------------------------------------------------------------------
(* The steps *)

LEMMA BusInitInv == BusInit => BusInv
<1> SUFFICES ASSUME BusInit PROVE BusInv
  OBVIOUS
<1>1. /\ wire = << >> /\ broadcasts = << >> /\ calls = {} /\ rooms = {} /\ callCount = 0
      /\ \A c \in Channel : handlers[c] = {}
      /\ \A n \in Handler : heldBack[n] = << >> /\ received[n] = << >>
  BY DEF BusInit
<1>2. DOMAIN wire = {} /\ Len(broadcasts) = 0
  BY <1>1
<1>3. BusTypeOK
  BY <1>1 DEF BusInit, BusTypeOK
<1>4. BusTypes
  <2>1. wire \in Seq(WireMessage) /\ broadcasts \in Seq(Channel) /\ << >> \in Seq(Nat)
    BY <1>1
  <2>2. handlers \in [Channel -> SUBSET Handler]
    BY DEF BusInit
  <2>3. heldBack \in [Handler -> Seq(Nat)] /\ received \in [Handler -> Seq(Nat)]
    BY <2>1 DEF BusInit
  <2>4. since \in [Handler -> 0..Len(broadcasts)] /\ callCount \in 0..MaxCalls
    BY <1>2, BusAssumption DEF BusInit
  <2> QED BY <1>1, <2>1, <2>2, <2>3, <2>4 DEF BusInit, BusTypes
<1>5. Identities
  BY <1>1 DEF Identities
<1>6. Wire /\ Answers
  BY <1>2 DEF Wire, Answers
<1> QED BY <1>1, <1>3, <1>4, <1>5, <1>6 DEF BusInv

\* What a handler gets is a matter of these.
LEMMA SameGets ==
  ASSUME NEW h, NEW c, Gets(h, c), Got(h)' = Got(h), since'[h] = since[h],
         UNCHANGED << wire, broadcasts, rooms, breaks >>
  PROVE  Gets(h, c)'
BY DEF Gets, Coming, SentSince

\* Steps of the page and its socket that leave messages and handlers alone
LEMMA SocketKeepsInv ==
  ASSUME BusInv, Opened \/ OpenFails \/ Reconnect \/ PauseNotification
  PROVE  BusInv'
<1>1. /\ UNCHANGED << callCount, rooms, wire, broadcasts, handlers, heldBack, received, since, breaks >>
      /\ calls' = calls \/ (calls' = {} /\ wire = << >>)
      /\ isPaused' = isPaused \/ isPaused'
  BY DEF Opened, OpenFails, Reconnect, PauseNotification, pageVars, BusInv, BusTypeOK
<1>2. BusTypeOK'
  BY DEF Opened, OpenFails, Reconnect, PauseNotification, pageVars, BusInv, BusTypeOK
<1>3. BusTypes'
  <2>1. isPaused' \in BOOLEAN
    BY <1>1 DEF Opened, OpenFails, Reconnect, PauseNotification, pageVars, BusInv, BusTypes
  <2> QED BY <1>1, <2>1 DEF BusInv, BusTypes, CallRecord
<1>4. Identities'
  BY <1>1 DEF BusInv, Identities
<1>5. Wire' /\ Answers'
  <2>1. CASE calls' = calls
    <3>1. \A m, i : Follows(m, i)' = Follows(m, i)
      BY <1>1 DEF Follows
    <3> QED BY <1>1, <2>1, <3>1 DEF BusInv, Wire, Answers, SentSince
  <2>2. CASE wire = << >>
    BY <1>1, <2>2 DEF Wire, Answers
  <2> QED BY <1>1, <2>1, <2>2
<1>6. \A c \in Channel : \A h \in handlers'[c] : Gets(h, c)'
  BY <1>1, SameGets DEF BusInv, Got
<1> QED BY <1>2, <1>3, <1>4, <1>5, <1>6 DEF BusInv

LEMMA CallKeepsInv ==
  ASSUME BusInv, NEW kind \in {"subscribe", "send"}, NEW c \in Channel, Call(kind, c)
  PROVE  BusInv'
<1> DEFINE new == [nr |-> callCount + 1, kind |-> kind, channel |-> c]
<1>1. /\ callCount' = callCount + 1 /\ callCount \in Nat /\ callCount + 1 \in Handler
      /\ callCount' \in 0..MaxCalls
      /\ calls' = calls \/ calls' = calls \cup {new}
      /\ UNCHANGED << rooms, wire, broadcasts, handlers, isPaused, heldBack, received, since, breaks,
                      socket >>
  BY BusAssumption DEF Call, pageVars, BusInv, BusTypes, Handler
<1>2. new.nr = callCount + 1 /\ new.channel = c /\ new \in CallRecord'
  BY <1>1 DEF CallRecord
<1>3. \A x \in calls : x.nr \in 1..callCount /\ x \in CallRecord' /\ x.nr # callCount + 1
  BY <1>1 DEF BusInv, BusTypes, CallRecord
<1> HIDE DEF new
<1>4. BusTypeOK'
  <2>1. 1..callCount \subseteq 1..callCount'
    BY <1>1
  <2>2. \A x \in calls' : x.nr \in 1..callCount' /\ x.channel \in Channel
    BY <1>1, <1>2, <1>3 DEF CallRecord
  <2> QED BY <1>1, <2>1, <2>2 DEF Call, BusInv, BusTypeOK
<1>5. BusTypes'
  BY <1>1, <1>2, <1>3 DEF BusInv, BusTypes
<1>6. Identities'
  <2>1. \A d \in Channel : callCount + 1 \notin handlers[d]
    BY <1>1 DEF BusInv, BusTypeOK
  <2>2. \A n \in Handler : n > callCount' => n > callCount
    BY <1>1 DEF Handler
  <2>3. callCount + 1 > callCount
    BY <1>1
  <2> QED BY <1>1, <1>2, <1>3, <2>1, <2>2, <2>3 DEF BusInv, Identities
<1>7. Wire'
  BY <1>1 DEF BusInv, Wire
<1>8. Answers'
  <2>1. \A m, i : Follows(m, i)' = Follows(m, i)
    BY <1>1 DEF Follows
  <2>2. \A i \in DOMAIN wire : wire[i].nr > 0 => wire[i].nr # callCount + 1
    <3>1. \A i \in DOMAIN wire : wire[i].nr \in Int
      BY WireElements DEF BusInv
    <3> QED BY <1>3, <3>1 DEF BusInv, Wire
  <2> QED BY <1>1, <1>2, <2>1, <2>2 DEF BusInv, Answers, SentSince
<1>9. \A d \in Channel : \A h \in handlers'[d] : Gets(h, d)'
  BY <1>1, SameGets DEF BusInv, Got
<1> QED BY <1>4, <1>5, <1>6, <1>7, <1>8, <1>9 DEF BusInv

\* Nothing has been sent since the answer, and nothing follows it.
LEMMA AnswerKeepsInv ==
  ASSUME BusInv, NEW call \in calls, NEW authorized \in BOOLEAN, Answer(call, authorized)
  PROVE  BusInv'
<1> DEFINE new == [nr |-> call.nr, channel |-> call.channel, ok |-> authorized]
           n == call.nr
           a == Len(wire) + 1
<1>1. /\ wire' = Append(wire, new)
      /\ since' = [since EXCEPT ![n] = Len(broadcasts)]
      /\ rooms' = IF authorized /\ call.kind = "subscribe" THEN rooms \cup {call.channel} ELSE rooms
      /\ \A i \in DOMAIN wire : wire[i].nr # n
      /\ UNCHANGED << attempt, socket, calls, callCount, broadcasts, handlers, isPaused, heldBack,
                      received, breaks >>
      /\ socket = "up"
  BY DEF Answer, pageVars
<1>2. /\ n \in 1..callCount /\ n \in Handler /\ n \in Nat \ {0} /\ call.channel \in Channel
      /\ callCount \in Nat
  BY SMTT(30), BusAssumption DEF BusInv, BusTypes, CallRecord, Handler
<1>3. new \in WireMessage /\ new.nr = n /\ new.channel = call.channel /\ new.ok = authorized
  BY <1>2 DEF WireMessage
<1> HIDE DEF new, n
<1>4. /\ wire' \in Seq(WireMessage) /\ DOMAIN wire' = DOMAIN wire \cup {a} /\ a \in Nat
      /\ \A i \in DOMAIN wire : wire'[i] = wire[i] /\ i \in Nat /\ i < a /\ wire[i].nr \in Int
      /\ wire'[a] = new
  BY <1>1, <1>3, AppendElements, WireElements DEF BusInv, BusTypes
<1> HIDE DEF a
<1>5. /\ since'[n] = Len(broadcasts) /\ Len(broadcasts) \in Nat
      /\ \A h \in Handler : h # n => since'[h] = since[h]
      /\ since' \in [Handler -> 0..Len(broadcasts)]
  BY <1>1, <1>2 DEF BusInv, BusTypes
<1>6. BusTypeOK'
  BY <1>1 DEF BusInv, BusTypeOK
<1>7. BusTypes'
  <2>1. rooms' \subseteq Channel
    BY <1>1, <1>2 DEF BusInv, BusTypes
  <2> QED BY <1>1, <1>4, <1>5, <2>1 DEF BusInv, BusTypes, CallRecord
<1>8. Identities'
  BY <1>1 DEF BusInv, Identities
<1>9. ~(new.nr < 0) /\ new.nr > 0
  BY <1>2, <1>3
<1>10. Wire'
  <2>1. \A i \in DOMAIN wire' : wire'[i].nr < 0 =>
          -wire'[i].nr \in 1..Len(broadcasts) /\ broadcasts[-wire'[i].nr] = wire'[i].channel
    BY <1>4, <1>9 DEF BusInv, Wire
  <2>2. \A i, j \in DOMAIN wire' :
          wire'[i].nr < 0 /\ wire'[j].nr < 0 /\ i < j => wire'[j].nr < wire'[i].nr
    BY <1>4, <1>9 DEF BusInv, Wire
  <2>3. \A i \in DOMAIN wire' : wire'[i].nr >= 0 =>
          \E x \in calls : x.nr = wire'[i].nr /\ x.channel = wire'[i].channel
    BY <1>3, <1>4 DEF BusInv, Wire, n
  <2>4. \A i, j \in DOMAIN wire' : wire'[i].nr > 0 /\ wire'[i].nr = wire'[j].nr => i = j
    BY <1>1, <1>3, <1>4 DEF BusInv, Wire
  <2> QED BY <1>1, <2>1, <2>2, <2>3, <2>4 DEF Wire
<1>11. \A m, i : Follows(m, i) => Follows(m, i)'
  BY <1>4 DEF Follows
<1>12. Answers'
  <2> SUFFICES ASSUME NEW i \in DOMAIN wire', wire'[i].nr > 0
               PROVE  /\ \A j \in DOMAIN wire' :
                           i < j /\ wire'[j].nr < 0 => since'[wire'[i].nr] < -wire'[j].nr
                      /\ \A x \in calls :
                           breaks = 0 /\ x.nr = wire'[i].nr /\ x.kind = "subscribe" /\ wire'[i].ok =>
                             /\ x.channel \in rooms'
                             /\ \A m \in SentSince(since[x.nr], x.channel)' : Follows(m, i)'
    BY <1>1 DEF Answers
  <2>1. CASE i = a
    <3>1. \A j \in DOMAIN wire' : ~(i < j /\ wire'[j].nr < 0)
      BY <1>4, <1>9, <2>1
    <3>2. \A x \in calls : x.nr = wire'[i].nr => x = call
      BY <1>3, <1>4, <2>1 DEF BusInv, Identities, n
    <3>3. SentSince(since[n], call.channel)' = {}
      BY <1>1, <1>5 DEF SentSince
    <3> QED BY <1>1, <1>3, <1>4, <2>1, <3>1, <3>2, <3>3 DEF n
  <2>2. CASE i # a
    <3>1. i \in DOMAIN wire /\ wire'[i] = wire[i] /\ wire[i].nr # n /\ wire[i].nr \in Handler
      <4>1. i \in DOMAIN wire /\ wire'[i] = wire[i] /\ wire[i].nr # n
        BY <1>1, <1>4, <2>2
      <4>2. \E x \in calls : x.nr = wire[i].nr
        BY <1>4, <4>1 DEF BusInv, Wire
      <4>3. \A x \in calls : x.nr \in Handler
        BY <1>2, BusAssumption DEF BusInv, BusTypes, CallRecord, Handler
      <4> QED BY <4>1, <4>2, <4>3
    <3>2. since'[wire[i].nr] = since[wire[i].nr]
      BY <1>5, <3>1
    <3>3. \A j \in DOMAIN wire' : i < j /\ wire'[j].nr < 0 => since'[wire'[i].nr] < -wire'[j].nr
      BY <1>4, <1>9, <3>1, <3>2 DEF BusInv, Answers
    <3>4. ASSUME NEW x \in calls, breaks = 0, x.nr = wire'[i].nr, x.kind = "subscribe", wire'[i].ok
          PROVE  /\ x.channel \in rooms'
                 /\ \A m \in SentSince(since[x.nr], x.channel)' : Follows(m, i)'
      <4>1. /\ x.channel \in rooms
            /\ \A m \in SentSince(since[x.nr], x.channel) : Follows(m, i)
        BY <3>1, <3>4 DEF BusInv, Answers
      <4>2. SentSince(since[x.nr], x.channel)' = SentSince(since[x.nr], x.channel)
        BY <1>1, <3>1, <3>2, <3>4 DEF SentSince
      <4> QED BY <1>1, <1>11, <4>1, <4>2
    <3> QED BY <3>3, <3>4
  <2> QED BY <2>1, <2>2
<1>13. ASSUME NEW c \in Channel, NEW h \in handlers'[c] PROVE Gets(h, c)'
  <2>1. Gets(h, c) /\ h \in handlers[c]
    BY <1>1, <1>13 DEF BusInv
  <2>2. h # n /\ h \in Handler
    BY <1>1, <2>1 DEF BusInv, Identities, BusTypes, n
  <2>3. since'[h] = since[h] /\ Got(h)' = Got(h) /\ SentSince(since[h], c)' = SentSince(since[h], c)
    BY <1>1, <1>5, <2>2 DEF Got, SentSince
  <2>4. Coming(c)' = Coming(c) /\ \A j \in Coming(c) : wire'[j] = wire[j]
    BY <1>4, <1>9 DEF Coming
  <2>5. breaks' = 0 => breaks = 0 /\ rooms \subseteq rooms'
    BY <1>1
  <2>6. \A m : (\E j \in DOMAIN wire : wire[j].nr = -m) => (\E j \in DOMAIN wire' : wire'[j].nr = -m)
    BY <1>4
  <2> QED BY <2>1, <2>3, <2>4, <2>5, <2>6 DEF Gets
<1> QED BY <1>6, <1>7, <1>8, <1>10, <1>12, <1>13 DEF BusInv

\* What is sent is newer than all before, and goes to whoever has joined.
LEMMA SendKeepsInv ==
  ASSUME BusInv, NEW c \in Channel, SendToChannel(c)
  PROVE  BusInv'
<1> DEFINE L == Len(broadcasts) + 1
           new == [nr |-> -L, channel |-> c, ok |-> TRUE]
           a == Len(wire) + 1
<1>1. /\ broadcasts' = Append(broadcasts, c)
      /\ wire' = IF c \in rooms THEN Append(wire, new) ELSE wire
      /\ UNCHANGED << attempt, socket, calls, callCount, rooms, handlers, isPaused, heldBack,
                      received, since, breaks >>
  BY AppendElements DEF SendToChannel, pageVars, BusInv, BusTypes
<1>2. /\ broadcasts' \in Seq(Channel) /\ Len(broadcasts) \in Nat /\ L \in Nat \ {0}
      /\ Len(broadcasts') = L
      /\ \A m \in 1..Len(broadcasts) : broadcasts'[m] = broadcasts[m] /\ m < L /\ m \in 1..L
      /\ broadcasts'[L] = c /\ L \in 1..L
      /\ \A m \in 1..L : m = L \/ m \in 1..Len(broadcasts)
  BY <1>1, AppendElements DEF BusInv, BusTypes
<1>3. new \in WireMessage /\ new.nr = -L /\ new.channel = c /\ new.nr < 0 /\ ~(new.nr > 0)
  BY <1>2 DEF WireMessage
<1>4. \A n \in 0..Len(broadcasts), d \in Channel :
        SentSince(n, d)' = SentSince(n, d) \cup IF d = c THEN {L} ELSE {}
  <2> SUFFICES ASSUME NEW n \in 0..Len(broadcasts), NEW d \in Channel
               PROVE  \A m : m \in SentSince(n, d)' <=> m \in SentSince(n, d) \/ (d = c /\ m = L)
    OBVIOUS
  <2>1. \A m : m \in n + 1..L <=> m \in n + 1..Len(broadcasts) \/ m = L
    BY <1>2
  <2>2. n + 1..Len(broadcasts) \subseteq 1..Len(broadcasts)
    BY <1>2
  <2> QED BY <1>2, <2>1, <2>2 DEF SentSince
<1> HIDE DEF new, L
<1>5. /\ wire' \in Seq(WireMessage)
      /\ DOMAIN wire' = DOMAIN wire \cup IF c \in rooms THEN {a} ELSE {}
      /\ \A i \in DOMAIN wire : wire'[i] = wire[i] /\ i \in Nat /\ i < a /\ wire[i].nr \in Int
      /\ c \in rooms => wire'[a] = new
      /\ a \in Nat
  BY <1>1, <1>3, AppendElements, WireElements DEF BusInv, BusTypes
<1> HIDE DEF a
<1>6. \A i \in DOMAIN wire : wire[i].nr < 0 =>
        -wire[i].nr \in 1..Len(broadcasts) /\ -wire[i].nr < L /\ -L < wire[i].nr
  BY <1>2, <1>5 DEF BusInv, Wire
<1>7. BusTypeOK'
  BY <1>1, <1>5 DEF BusInv, BusTypeOK
<1>8. BusTypes'
  <2>1. since \in [Handler -> 0..L]
    <3>1. 0..Len(broadcasts) \subseteq 0..L
      BY <1>2 DEF L
    <3> QED BY <3>1 DEF BusInv, BusTypes
  <2> QED BY <1>1, <1>2, <1>5, <2>1 DEF BusInv, BusTypes, CallRecord
<1>9. Identities'
  BY <1>1 DEF BusInv, Identities
<1>10. Wire'
  <2>1. \A i \in DOMAIN wire' : wire'[i].nr < 0 =>
          -wire'[i].nr \in 1..Len(broadcasts') /\ broadcasts'[-wire'[i].nr] = wire'[i].channel
    <3>1. -(-L) = L
      BY <1>2
    <3> QED BY <1>2, <1>3, <1>5, <1>6, <3>1 DEF BusInv, Wire
  <2>2. \A i, j \in DOMAIN wire' :
          wire'[i].nr < 0 /\ wire'[j].nr < 0 /\ i < j => wire'[j].nr < wire'[i].nr
    <3> SUFFICES ASSUME NEW i \in DOMAIN wire', NEW j \in DOMAIN wire',
                        wire'[i].nr < 0, wire'[j].nr < 0, i < j
                 PROVE  wire'[j].nr < wire'[i].nr
      OBVIOUS
    <3>1. i \in DOMAIN wire
      BY <1>5
    <3> QED BY <1>3, <1>5, <1>6, <3>1 DEF BusInv, Wire
  <2>3. \A i \in DOMAIN wire' : wire'[i].nr >= 0 =>
          \E x \in calls : x.nr = wire'[i].nr /\ x.channel = wire'[i].channel
    <3>1. ~(-L >= 0)
      BY <1>2
    <3> QED BY <1>3, <1>5, <3>1 DEF BusInv, Wire
  <2>4. \A i, j \in DOMAIN wire' : wire'[i].nr > 0 /\ wire'[i].nr = wire'[j].nr => i = j
    BY <1>3, <1>5 DEF BusInv, Wire
  <2> QED BY <1>1, <2>1, <2>2, <2>3, <2>4 DEF Wire
<1>11. \A m, i : Follows(m, i) => Follows(m, i)'
  BY <1>5 DEF Follows
<1>12. Answers'
  <2> SUFFICES ASSUME NEW i \in DOMAIN wire', wire'[i].nr > 0
               PROVE  /\ \A j \in DOMAIN wire' :
                           i < j /\ wire'[j].nr < 0 => since[wire'[i].nr] < -wire'[j].nr
                      /\ \A x \in calls :
                           breaks = 0 /\ x.nr = wire'[i].nr /\ x.kind = "subscribe" /\ wire'[i].ok =>
                             /\ x.channel \in rooms
                             /\ \A m \in SentSince(since[x.nr], x.channel)' : Follows(m, i)'
    BY <1>1 DEF Answers
  <2>1. i \in DOMAIN wire /\ wire'[i] = wire[i] /\ wire[i].nr > 0
    BY <1>3, <1>5
  <2>2. \A x \in calls : x.nr \in Handler /\ x.channel \in Channel
    BY SMTT(30), BusAssumption DEF BusInv, BusTypes, CallRecord, Handler
  <2>3. \A x \in calls : since[x.nr] \in 0..Len(broadcasts)
    BY <2>2 DEF BusInv, BusTypes
  <2>4. \E x \in calls : x.nr = wire[i].nr
    BY <1>5, <2>1 DEF BusInv, Wire
  <2>5. since[wire[i].nr] < L
    BY <1>2, <2>3, <2>4 DEF L
  <2>6. \A j \in DOMAIN wire' : i < j /\ wire'[j].nr < 0 => since[wire'[i].nr] < -wire'[j].nr
    <3>1. -(-L) = L
      BY <1>2
    <3> QED BY <1>3, <1>5, <2>1, <2>5, <3>1 DEF BusInv, Answers
  <2>7. ASSUME NEW x \in calls, breaks = 0, x.nr = wire'[i].nr, x.kind = "subscribe", wire'[i].ok
        PROVE  /\ x.channel \in rooms
               /\ \A m \in SentSince(since[x.nr], x.channel)' : Follows(m, i)'
    <3>1. /\ x.channel \in rooms
          /\ \A m \in SentSince(since[x.nr], x.channel) : Follows(m, i)
      BY <2>1, <2>7 DEF BusInv, Answers
    <3>2. \A m : x.channel = c /\ m = L => Follows(m, i)'
      BY <1>3, <1>5, <2>1, <3>1 DEF Follows
    <3>3. SentSince(since[x.nr], x.channel)' =
            SentSince(since[x.nr], x.channel) \cup IF x.channel = c THEN {L} ELSE {}
      <4>1. PICK n \in 0..Len(broadcasts) : n = since[x.nr]
        BY <2>3
      <4>2. SentSince(n, x.channel)' = SentSince(n, x.channel) \cup IF x.channel = c THEN {L} ELSE {}
        BY <1>4, <2>2
      <4>3. since'[x.nr] = n
        BY <1>1, <4>1
      <4>4. SentSince(since[x.nr], x.channel)' = SentSince(n, x.channel)'
        BY <4>3 DEF SentSince
      <4> QED BY <4>1, <4>2, <4>4
    <3> QED BY <1>11, <3>1, <3>2, <3>3
  <2> QED BY <2>6, <2>7
<1>13. ASSUME NEW d \in Channel, NEW h \in handlers'[d] PROVE Gets(h, d)'
  <2>1. Gets(h, d) /\ h \in handlers[d]
    BY <1>1, <1>13 DEF BusInv
  <2>2. since[h] \in 0..Len(broadcasts) /\ since[h] < L
    BY <1>2, <2>1 DEF BusInv, BusTypes, L
  <2>3. /\ Got(h)' = Got(h)
        /\ SentSince(since[h], d)' = SentSince(since[h], d) \cup IF d = c THEN {L} ELSE {}
    BY <1>1, <1>4, <2>2 DEF Got, SentSince
  <2>4. \A j \in Coming(d)' : -wire'[j].nr = L \/ (j \in Coming(d) /\ wire'[j] = wire[j])
    <3>1. -(-L) = L
      BY <1>2
    <3> QED BY <1>3, <1>5, <3>1 DEF Coming
  <2>5. \A i \in DOMAIN Got(h) : Got(h)[i] < L
    BY <1>2, <2>1, <2>2 DEF Gets, SentSince
  <2>6. \A m : (\E j \in DOMAIN wire : wire[j].nr = -m) => (\E j \in DOMAIN wire' : wire'[j].nr = -m)
    BY <1>5
  <2>7. c \in rooms => \E j \in DOMAIN wire' : wire'[j].nr = -L
    BY <1>3, <1>5
  <2>8. /\ \A i, j \in DOMAIN Got(h)' : i < j => Got(h)'[i] < Got(h)'[j]
        /\ \A i \in DOMAIN Got(h)' : Got(h)'[i] \in SentSince(since[h], d)'
    BY <2>1, <2>3 DEF Gets
  <2>9. /\ \A i \in DOMAIN Got(h)', j \in Coming(d)' : Got(h)'[i] < -wire'[j].nr
        /\ \A j \in Coming(d)' : since[h] < -wire'[j].nr
    BY <2>1, <2>2, <2>3, <2>4, <2>5 DEF Gets
  <2>10. breaks = 0 =>
           /\ d \in rooms
           /\ \A m \in SentSince(since[h], d)' :
                m \in Range(Got(h)') \/ \E j \in DOMAIN wire' : wire'[j].nr = -m
    BY <2>1, <2>3, <2>6, <2>7 DEF Gets
  <2> QED BY <1>1, <2>8, <2>9, <2>10 DEF Gets, SentSince
<1> QED BY <1>7, <1>8, <1>9, <1>10, <1>12, <1>13 DEF BusInv

\* The handlers are called with what was held back for them: they had got it before.
LEMMA UnpauseKeepsInv ==
  ASSUME BusInv, UnpauseNotification
  PROVE  BusInv'
<1>1. /\ received' = [h \in Handler |-> received[h] \o heldBack[h]]
      /\ heldBack' = [h \in Handler |-> << >>]
      /\ UNCHANGED << attempt, socket, calls, callCount, rooms, wire, broadcasts, handlers, isPaused,
                      since, breaks >>
  BY DEF UnpauseNotification
<1>2. \A h \in Handler : received[h] \in Seq(Nat) /\ heldBack[h] \in Seq(Nat)
  BY DEF BusInv, BusTypes
<1>3. \A h \in Handler : received'[h] \in Seq(Nat) /\ received'[h] = received[h] \o heldBack[h]
  BY <1>1, <1>2, ConcatProperties
<1>4. \A h \in Handler : Got(h)' = Got(h)
  <2> TAKE h \in Handler
  <2>1. heldBack'[h] = << >>
    BY <1>1
  <2> QED BY <1>3, <2>1, ConcatEmptySeq DEF Got
<1>5. BusTypeOK'
  BY <1>1 DEF BusInv, BusTypeOK
<1>6. BusTypes'
  <2>1. << >> \in Seq(Nat)
    OBVIOUS
  <2>2. heldBack' \in [Handler -> Seq(Nat)] /\ received' \in [Handler -> Seq(Nat)]
    BY <1>1, <1>3, <2>1
  <2> QED BY <1>1, <2>2 DEF BusInv, BusTypes, CallRecord
<1>7. Identities'
  <2>1. \A n \in Handler : received[n] = << >> /\ heldBack[n] = << >> => received'[n] = << >>
    BY <1>2, <1>3, ConcatEmptySeq
  <2>2. \A n \in Handler : heldBack'[n] = << >>
    BY <1>1
  <2> QED BY <1>1, <2>1, <2>2 DEF BusInv, Identities
<1>8. Wire' /\ Answers'
  <2>1. \A m, i : Follows(m, i)' = Follows(m, i)
    BY <1>1 DEF Follows
  <2> QED BY <1>1, <2>1 DEF BusInv, Wire, Answers, SentSince
<1>9. \A c \in Channel : \A h \in handlers'[c] : Gets(h, c)'
  <2>1. \A c \in Channel : \A h \in handlers[c] : h \in Handler
    BY DEF BusInv, BusTypes
  <2> QED BY <1>1, <1>4, <2>1, SameGets DEF BusInv
<1> QED BY <1>5, <1>6, <1>7, <1>8, <1>9 DEF BusInv

LEMMA UnsubscribeKeepsInv ==
  ASSUME BusInv, NEW h \in Handler, NEW c \in Channel, Unsubscribe(h, c)
  PROVE  BusInv'
<1>1. /\ handlers' \in [Channel -> SUBSET Handler]
      /\ \A d \in Channel : handlers'[d] \subseteq handlers[d]
      /\ UNCHANGED << attempt, socket, calls, callCount, rooms, wire, broadcasts, isPaused, heldBack,
                      received, since, breaks >>
  BY DEF Unsubscribe, BusInv, BusTypes
<1>2. BusTypeOK'
  BY <1>1 DEF BusInv, BusTypeOK
<1>3. BusTypes'
  BY <1>1 DEF BusInv, BusTypes, CallRecord
<1>4. Identities'
  BY <1>1 DEF BusInv, Identities
<1>5. Wire' /\ Answers'
  <2>1. \A m, i : Follows(m, i)' = Follows(m, i)
    BY <1>1 DEF Follows
  <2> QED BY <1>1, <2>1 DEF BusInv, Wire, Answers, SentSince
<1>6. \A d \in Channel : \A g \in handlers'[d] : Gets(g, d)'
  BY <1>1, SameGets DEF BusInv, Got
<1> QED BY <1>2, <1>3, <1>4, <1>5, <1>6 DEF BusInv

\* Nothing more is promised, and nothing is on its way.
LEMMA SocketGoesKeepsInv ==
  ASSUME BusInv, NEW to \in {"down", "closed"}, SocketGoes(to)
  PROVE  BusInv'
<1>1. /\ socket = "up" /\ socket' = to /\ breaks' = breaks + 1 /\ breaks \in Nat
      /\ rooms' = {} /\ wire' = << >> /\ calls' = {}
      /\ UNCHANGED << attempt, callCount, broadcasts, handlers, isPaused, heldBack, received, since >>
  BY DEF SocketGoes, pageVars, BusInv, BusTypes
<1>2. breaks' # 0 /\ breaks' \in Nat /\ DOMAIN wire' = {} /\ wire' \in Seq(WireMessage)
  BY <1>1
<1>3. BusTypeOK'
  BY <1>1, <1>2 DEF BusInv, BusTypeOK
<1>4. BusTypes'
  BY <1>1, <1>2 DEF BusInv, BusTypes
<1>5. Identities'
  BY <1>1 DEF BusInv, Identities
<1>6. Wire' /\ Answers'
  BY <1>2 DEF Wire, Answers
<1>7. ASSUME NEW c \in Channel, NEW h \in handlers'[c] PROVE Gets(h, c)'
  <2>1. Gets(h, c) /\ Got(h)' = Got(h) /\ SentSince(since[h], c)' = SentSince(since[h], c)
    BY <1>1, <1>7 DEF BusInv, Got, SentSince
  <2>2. Coming(c)' = {}
    BY <1>2 DEF Coming
  <2> QED BY <1>2, <2>1, <2>2 DEF Gets
<1> QED BY <1>3, <1>4, <1>5, <1>6, <1>7 DEF BusInv

\* The first message has arrived: the others move up.
LEMMA MovedUp ==
  ASSUME BusTypes, wire # << >>, wire' = Tail(wire)
  PROVE  /\ wire' \in Seq(WireMessage) /\ Head(wire) = wire[1] /\ wire[1] \in WireMessage
         /\ 1 \in DOMAIN wire
         /\ \A i \in DOMAIN wire : i \in Nat \ {0} /\ wire[i].nr \in Int
         /\ \A i \in DOMAIN wire' : /\ i \in Nat \ {0} /\ i + 1 \in DOMAIN wire
                                    /\ wire'[i] = wire[i + 1] /\ wire'[i].nr \in Int
         /\ \A i \in DOMAIN wire : i # 1 => i - 1 \in DOMAIN wire' /\ wire'[i - 1] = wire[i]
<1>1. wire \in Seq(WireMessage)
  BY DEF BusTypes
<1>2. /\ wire' \in Seq(WireMessage) /\ Head(wire) = wire[1] /\ wire[1] \in WireMessage
      /\ 1 \in DOMAIN wire
      /\ \A i \in DOMAIN wire : wire[i] \in WireMessage /\ i \in Nat \ {0}
      /\ \A i \in DOMAIN wire' : i \in Nat \ {0} /\ i + 1 \in DOMAIN wire /\ wire'[i] = wire[i + 1]
      /\ \A i \in DOMAIN wire : i # 1 => i - 1 \in DOMAIN wire' /\ wire'[i - 1] = wire[i]
  BY <1>1, TailElements
<1>3. \A i \in DOMAIN wire : wire[i].nr \in Int
  BY <1>2 DEF WireMessage
<1> QED BY <1>2, <1>3

\* The call that was answered, if any, is the one that ends.
LEMMA TailKeepsWire ==
  ASSUME BusTypes, Wire, Answers, wire # << >>, wire' = Tail(wire), calls' \subseteq calls,
         \A x \in calls : x \notin calls' => x.nr = wire[1].nr /\ x.nr > 0,
         UNCHANGED << broadcasts, since, breaks, rooms >>
  PROVE  Wire' /\ Answers'
<1>1. /\ 1 \in DOMAIN wire
      /\ \A i \in DOMAIN wire : i \in Nat \ {0} /\ wire[i].nr \in Int
      /\ \A i \in DOMAIN wire' : /\ i \in Nat \ {0} /\ i + 1 \in DOMAIN wire
                                 /\ wire'[i] = wire[i + 1] /\ wire'[i].nr \in Int
      /\ \A i \in DOMAIN wire : i # 1 => i - 1 \in DOMAIN wire' /\ wire'[i - 1] = wire[i]
  BY MovedUp
<1>2. \A i, j \in DOMAIN wire' : i < j <=> i + 1 < j + 1
  BY <1>1
<1>3. Wire'
  <2>1. \A i \in DOMAIN wire' : wire'[i].nr < 0 =>
          -wire'[i].nr \in 1..Len(broadcasts) /\ broadcasts[-wire'[i].nr] = wire'[i].channel
    BY <1>1 DEF Wire
  <2>2. \A i, j \in DOMAIN wire' :
          wire'[i].nr < 0 /\ wire'[j].nr < 0 /\ i < j => wire'[j].nr < wire'[i].nr
    BY <1>1, <1>2 DEF Wire
  <2>3. ASSUME NEW i \in DOMAIN wire', wire'[i].nr >= 0
        PROVE  \E x \in calls' : x.nr = wire'[i].nr /\ x.channel = wire'[i].channel
    <3>1. i + 1 \in DOMAIN wire /\ wire'[i] = wire[i + 1] /\ i + 1 # 1
      BY <1>1
    <3>2. PICK x \in calls : x.nr = wire[i + 1].nr /\ x.channel = wire[i + 1].channel
      BY <2>3, <3>1 DEF Wire
    <3>3. x \in calls'
      <4>1. wire[i + 1].nr = wire[1].nr /\ wire[i + 1].nr > 0 => i + 1 = 1
        BY <1>1, <3>1 DEF Wire
      <4> QED BY <3>1, <3>2, <4>1
    <3> QED BY <3>1, <3>2, <3>3
  <2>4. \A i, j \in DOMAIN wire' : wire'[i].nr > 0 /\ wire'[i].nr = wire'[j].nr => i = j
    <3>1. \A i, j \in DOMAIN wire' : i + 1 = j + 1 => i = j
      BY <1>1
    <3> QED BY <1>1, <3>1 DEF Wire
  <2> QED BY <2>1, <2>2, <2>3, <2>4 DEF Wire
<1>4. \A m, i : i \in DOMAIN wire' /\ Follows(m, i + 1) => Follows(m, i)'
  <2> SUFFICES ASSUME NEW m, NEW i \in DOMAIN wire', NEW j \in DOMAIN wire, i + 1 < j, wire[j].nr = -m
               PROVE  \E k \in DOMAIN wire' : i < k /\ wire'[k].nr = -m
    BY DEF Follows
  <2>1. j # 1 /\ i < j - 1
    BY <1>1
  <2> QED BY <1>1, <2>1
<1>5. ASSUME NEW i \in DOMAIN wire', wire'[i].nr > 0
      PROVE  /\ \A j \in DOMAIN wire' : i < j /\ wire'[j].nr < 0 => since[wire'[i].nr] < -wire'[j].nr
             /\ \A x \in calls' :
                  breaks = 0 /\ x.nr = wire'[i].nr /\ x.kind = "subscribe" /\ wire'[i].ok =>
                    /\ x.channel \in rooms
                    /\ \A m \in SentSince(since[x.nr], x.channel) : Follows(m, i)'
  <2>1. i + 1 \in DOMAIN wire /\ wire'[i] = wire[i + 1] /\ wire[i + 1].nr > 0
    BY <1>1, <1>5
  <2>2. \A j \in DOMAIN wire' : i < j /\ wire'[j].nr < 0 => since[wire'[i].nr] < -wire'[j].nr
    BY <1>1, <1>2, <2>1 DEF Answers
  <2>3. \A x \in calls :
          breaks = 0 /\ x.nr = wire[i + 1].nr /\ x.kind = "subscribe" /\ wire[i + 1].ok =>
            /\ x.channel \in rooms
            /\ \A m \in SentSince(since[x.nr], x.channel) : Follows(m, i + 1)
    BY <2>1 DEF Answers
  <2> QED BY <1>4, <2>1, <2>2, <2>3
<1>6. \A n, d : SentSince(n, d)' = SentSince(n, d)
  BY DEF SentSince
<1>7. Answers'
  BY <1>5, <1>6 DEF Answers, SentSince
<1> QED BY <1>3, <1>7

\* A handler the first message is not for
LEMMA TailGets ==
  ASSUME BusTypes, wire # << >>, wire' = Tail(wire),
         NEW c \in Channel, NEW h \in Handler, Gets(h, c), Got(h)' = Got(h),
         wire[1].nr < 0 => wire[1].channel # c /\ broadcasts[-wire[1].nr] = wire[1].channel,
         UNCHANGED << broadcasts, since, breaks, rooms >>
  PROVE  Gets(h, c)'
<1>1. /\ \A i \in DOMAIN wire : i \in Nat \ {0} /\ wire[i].nr \in Int
      /\ \A i \in DOMAIN wire' : i + 1 \in DOMAIN wire /\ wire'[i] = wire[i + 1]
      /\ \A i \in DOMAIN wire : i # 1 => i - 1 \in DOMAIN wire' /\ wire'[i - 1] = wire[i]
  BY MovedUp
<1>2. \A j \in Coming(c)' : j + 1 \in Coming(c) /\ wire'[j] = wire[j + 1]
  BY <1>1 DEF Coming
<1>3. \A m \in SentSince(since[h], c) : -m # wire[1].nr
  <2>1. since[h] \in 0..Len(broadcasts) /\ Len(broadcasts) \in Nat
    BY DEF BusTypes
  <2>2. \A m \in SentSince(since[h], c) : m \in Nat \ {0} /\ -(-m) = m /\ -m < 0 /\ broadcasts[m] = c
    BY <2>1 DEF SentSince
  <2> QED BY <2>2
<1>4. \A m \in SentSince(since[h], c) :
        (\E j \in DOMAIN wire : wire[j].nr = -m) => \E j \in DOMAIN wire' : wire'[j].nr = -m
  BY <1>1, <1>3
<1>5. SentSince(since[h], c)' = SentSince(since[h], c)
  BY DEF SentSince
<1> QED BY <1>2, <1>4, <1>5 DEF Gets

\* The answer becomes a handler that has got nothing yet, and everything it must get follows.
LEMMA CallAnswerKeepsInv ==
  ASSUME BusInv, ReceiveCallAnswer
  PROVE  BusInv'
<1>1. /\ wire # << >> /\ wire[1].nr > 0 /\ wire' = Tail(wire) /\ Head(wire) = wire[1]
      /\ UNCHANGED << attempt, socket, callCount, rooms, broadcasts, isPaused, heldBack, received,
                      since, breaks >>
  BY MovedUp DEF ReceiveCallAnswer, BusInv
<1>2. PICK call \in calls :
        /\ call.nr = wire[1].nr
        /\ calls' = calls \ {call}
        /\ IF call.kind = "subscribe" /\ wire[1].ok
           THEN handlers' = [handlers EXCEPT ![call.channel] = @ \cup {call.nr}]
           ELSE UNCHANGED handlers
  BY <1>1 DEF ReceiveCallAnswer
<1> DEFINE h == call.nr
           c == call.channel
<1>3. /\ h \in 1..callCount /\ h \in Handler /\ c \in Channel
      /\ \A x \in calls : x.nr = h => x = call
      /\ \A d \in Channel : h \notin handlers[d]
      /\ Got(h) = << >>
  <2>1. h \in 1..callCount /\ h \in Handler /\ c \in Channel
    BY SMTT(30), BusAssumption DEF BusInv, BusTypes, CallRecord, Handler
  <2>2. /\ \A x \in calls : x.nr = h => x = call
        /\ \A d \in Channel : h \notin handlers[d]
        /\ received[h] = << >> /\ heldBack[h] = << >>
    BY <2>1 DEF BusInv, Identities
  <2> QED BY <2>1, <2>2, EmptySeq, ConcatEmptySeq DEF Got
<1>4. \/ UNCHANGED handlers
      \/ /\ call.kind = "subscribe" /\ wire[1].ok
         /\ handlers' \in [Channel -> SUBSET Handler]
         /\ handlers'[c] = handlers[c] \cup {h}
         /\ \A d \in Channel : d # c => handlers'[d] = handlers[d]
  <2>1. handlers \in [Channel -> SUBSET Handler]
    BY DEF BusInv, BusTypes
  <2>2. CASE call.kind = "subscribe" /\ wire[1].ok
    <3>1. handlers' = [handlers EXCEPT ![c] = @ \cup {h}]
      BY <1>2, <2>2
    <3> HIDE DEF h, c
    <3>2. handlers' \in [Channel -> SUBSET Handler] /\ handlers'[c] = handlers[c] \cup {h}
      BY <1>3, <2>1, <3>1
    <3>3. \A d \in Channel : d # c => handlers'[d] = handlers[d]
      BY <2>1, <3>1
    <3> QED BY <2>2, <3>2, <3>3
  <2> QED BY <1>2, <2>2
<1>5. /\ 1 \in DOMAIN wire /\ wire' \in Seq(WireMessage)
      /\ \A i \in DOMAIN wire : i \in Nat \ {0}
      /\ \A i \in DOMAIN wire' : i \in Nat \ {0} /\ i + 1 \in DOMAIN wire /\ wire'[i] = wire[i + 1]
      /\ \A i \in DOMAIN wire : i # 1 => i - 1 \in DOMAIN wire' /\ wire'[i - 1] = wire[i]
  BY <1>1, MovedUp DEF BusInv
<1>6. call.kind = "subscribe" /\ wire[1].ok => Gets(h, c)' /\ (breaks = 0 => c \in rooms)
  <2> SUFFICES ASSUME call.kind = "subscribe", wire[1].ok PROVE Gets(h, c)' /\ (breaks = 0 => c \in rooms)
    OBVIOUS
  <2>1. breaks = 0 => c \in rooms /\ \A m \in SentSince(since[h], c) : Follows(m, 1)
    BY <1>1, <1>2, <1>5 DEF BusInv, Answers
  <2>2. \A j \in DOMAIN wire : 1 < j /\ wire[j].nr < 0 => since[h] < -wire[j].nr
    BY <1>1, <1>2, <1>5 DEF BusInv, Answers
  <2>3. \A j \in Coming(c)' : since[h] < -wire'[j].nr
    <3>1. \A j \in Coming(c)' : j \in DOMAIN wire' /\ wire'[j].nr < 0
      BY DEF Coming
    <3>2. \A j \in DOMAIN wire' : 1 < j + 1
      BY <1>5
    <3> QED BY <1>5, <2>2, <3>1, <3>2
  <2>4. \A m : Follows(m, 1) => \E j \in DOMAIN wire' : wire'[j].nr = -m
    BY <1>5 DEF Follows
  <2>5. Got(h)' = Got(h) /\ DOMAIN Got(h) = {} /\ since' = since
    BY <1>1, <1>3 DEF Got
  <2>6. SentSince(since[h], c)' = SentSince(since[h], c)
    BY <1>1 DEF SentSince
  <2> QED BY <1>1, <2>1, <2>3, <2>4, <2>5, <2>6 DEF Gets
<1>7. BusTypeOK'
  <2>1. socket = "up"
    BY <1>1 DEF BusInv, BusTypeOK
  <2>2. \A d \in Channel : handlers'[d] \subseteq 1..callCount
    BY <1>3, <1>4 DEF BusInv, BusTypeOK
  <2>3. \A d \in Channel : breaks = 0 /\ handlers'[d] # {} => d \in rooms
    BY <1>4, <1>6 DEF BusInv, BusTypeOK
  <2> QED BY <1>1, <1>2, <2>1, <2>2, <2>3 DEF BusInv, BusTypeOK
<1>8. BusTypes'
  BY <1>1, <1>2, <1>4, <1>5 DEF BusInv, BusTypes, CallRecord
<1>9. Identities'
  <2>1. \A x, y \in calls' : x.nr = y.nr => x = y
    BY <1>2 DEF BusInv, Identities
  <2>2. \A x \in calls', d \in Channel : x.nr \notin handlers'[d]
    BY <1>2, <1>3, <1>4 DEF BusInv, Identities
  <2>3. \A d, e \in Channel : d # e => handlers'[d] \cap handlers'[e] = {}
    BY <1>3, <1>4 DEF BusInv, Identities
  <2> QED BY <1>1, <1>2, <2>1, <2>2, <2>3 DEF BusInv, Identities
<1>10. Wire' /\ Answers'
  <2>1. \A x \in calls : x \notin calls' => x.nr = wire[1].nr /\ x.nr > 0
    BY <1>1, <1>2
  <2> QED BY <1>1, <1>2, <2>1, TailKeepsWire DEF BusInv
<1>11. ASSUME NEW d \in Channel, NEW g \in handlers'[d] PROVE Gets(g, d)'
  <2>1. CASE g \in handlers[d]
    <3>1. g \in Handler /\ Gets(g, d) /\ Got(g)' = Got(g)
      BY <1>1, <2>1 DEF BusInv, BusTypes, Got
    <3>2. ~(wire[1].nr < 0)
      BY <1>1, <1>2, <1>3
    <3> QED BY <1>1, <3>1, <3>2, TailGets DEF BusInv
  <2>2. CASE g \notin handlers[d]
    <3>1. d = c /\ g = h /\ call.kind = "subscribe" /\ wire[1].ok
      BY <1>4, <1>11, <2>2
    <3> QED BY <1>6, <3>1
  <2> QED BY <2>1, <2>2
<1> QED BY <1>7, <1>8, <1>9, <1>10, <1>11 DEF BusInv

\* The handlers of a channel get one message more.
LEMMA Delivered ==
  ASSUME BusInv, NEW hs \in SUBSET Handler, NEW m \in Nat, Deliver(hs, m), UNCHANGED isPaused
  PROVE  /\ received' \in [Handler -> Seq(Nat)] /\ heldBack' \in [Handler -> Seq(Nat)]
         /\ \A h \in Handler : Got(h) \in Seq(Nat)
         /\ \A h \in hs : Got(h)' = Append(Got(h), m)
         /\ \A h \in Handler : h \notin hs => received'[h] = received[h] /\ heldBack'[h] = heldBack[h]
         /\ ~isPaused => heldBack' = heldBack
<1>1. /\ received \in [Handler -> Seq(Nat)] /\ heldBack \in [Handler -> Seq(Nat)]
      /\ ~isPaused => \A h \in Handler : heldBack[h] = << >>
  BY DEF BusInv, BusTypes, Identities
<1>2. \A h \in Handler : received[h] \in Seq(Nat) /\ heldBack[h] \in Seq(Nat)
  BY <1>1
<1>3. \A h \in Handler : Got(h) \in Seq(Nat)
  BY <1>2, ConcatProperties DEF Got
<1>4. ASSUME NEW f, f \in [Handler -> Seq(Nat)]
      PROVE  /\ WithMore(f, hs, m) \in [Handler -> Seq(Nat)]
             /\ \A h \in Handler : WithMore(f, hs, m)[h] = IF h \in hs THEN Append(f[h], m) ELSE f[h]
  <2>1. \A h \in Handler : f[h] \in Seq(Nat) /\ Append(f[h], m) \in Seq(Nat)
    BY <1>4, AppendProperties
  <2> QED BY <2>1 DEF WithMore
<1>5. CASE isPaused
  <2>1. heldBack' = WithMore(heldBack, hs, m) /\ received' = received
    BY <1>5 DEF Deliver
  <2>2. ASSUME NEW h \in hs PROVE Got(h)' = Append(Got(h), m)
    <3>1. heldBack'[h] = Append(heldBack[h], m) /\ received'[h] = received[h]
      BY <1>1, <1>4, <2>1
    <3>2. received[h] \o Append(heldBack[h], m) = Append(received[h] \o heldBack[h], m)
      BY <1>2, AppendToConcat
    <3> QED BY <3>1, <3>2 DEF Got
  <2> QED BY <1>1, <1>3, <1>4, <1>5, <2>1, <2>2
<1>6. CASE ~isPaused
  <2>1. received' = WithMore(received, hs, m) /\ heldBack' = heldBack
    BY <1>6 DEF Deliver
  <2>2. ASSUME NEW h \in hs PROVE Got(h)' = Append(Got(h), m)
    <3>1. /\ received'[h] = Append(received[h], m) /\ heldBack'[h] = << >> /\ heldBack[h] = << >>
          /\ received[h] \in Seq(Nat) /\ Append(received[h], m) \in Seq(Nat)
      BY <1>1, <1>2, <1>4, <1>6, <2>1, AppendProperties
    <3> QED BY <3>1, ConcatEmptySeq DEF Got
  <2> QED BY <1>1, <1>3, <1>4, <1>6, <2>1, <2>2
<1> QED BY <1>5, <1>6

\* A message is newer than what its handlers got, and older than what is to come.
LEMMA DataKeepsInv ==
  ASSUME BusInv, ReceiveData
  PROVE  BusInv'
<1> DEFINE c == wire[1].channel
           m == -wire[1].nr
<1>1. /\ wire # << >> /\ wire[1].nr < 0 /\ wire' = Tail(wire)
      /\ Deliver(handlers[c], m)
      /\ UNCHANGED << attempt, socket, calls, callCount, rooms, broadcasts, handlers, isPaused,
                      since, breaks >>
  BY MovedUp DEF ReceiveData, BusInv
<1>2. /\ 1 \in DOMAIN wire /\ wire' \in Seq(WireMessage) /\ c \in Channel /\ wire[1].nr \in Int
      /\ \A i \in DOMAIN wire : i \in Nat \ {0} /\ wire[i].nr \in Int
      /\ \A i \in DOMAIN wire' : i \in Nat \ {0} /\ i + 1 \in DOMAIN wire /\ wire'[i] = wire[i + 1]
      /\ \A i \in DOMAIN wire : i # 1 => i - 1 \in DOMAIN wire' /\ wire'[i - 1] = wire[i]
  BY <1>1, MovedUp, WireElements DEF BusInv
<1>3. m \in 1..Len(broadcasts) /\ broadcasts[m] = c /\ m \in Nat /\ Len(broadcasts) \in Nat
  <2>1. m \in 1..Len(broadcasts) /\ broadcasts[m] = c
    BY <1>1, <1>2 DEF BusInv, Wire
  <2>2. Len(broadcasts) \in Nat
    BY DEF BusInv, BusTypes
  <2> QED BY <2>1, <2>2
<1>4. handlers[c] \in SUBSET Handler
  BY <1>2 DEF BusInv, BusTypes
<1>5. /\ received' \in [Handler -> Seq(Nat)] /\ heldBack' \in [Handler -> Seq(Nat)]
      /\ \A h \in Handler : Got(h) \in Seq(Nat)
      /\ \A h \in handlers[c] : Got(h)' = Append(Got(h), m)
      /\ \A h \in Handler : h \notin handlers[c] => received'[h] = received[h] /\ heldBack'[h] = heldBack[h]
      /\ ~isPaused => heldBack' = heldBack
  BY <1>1, <1>3, <1>4, Delivered
<1>6. BusTypeOK'
  BY <1>1 DEF BusInv, BusTypeOK
<1>7. BusTypes'
  BY <1>1, <1>2, <1>5 DEF BusInv, BusTypes, CallRecord
<1>8. Identities'
  <2>1. \A n \in Handler : n > callCount \/ (\E x \in calls : x.nr = n) => n \notin handlers[c]
    <3>1. \A n \in handlers[c] : n \in 1..callCount /\ callCount \in Nat
      BY <1>2, BusAssumption DEF BusInv, BusTypeOK, BusTypes
    <3> QED BY <1>2, <3>1 DEF BusInv, Identities
  <2> QED BY <1>1, <1>5, <2>1 DEF BusInv, Identities
<1>9. Wire' /\ Answers'
  BY <1>1, TailKeepsWire DEF BusInv
<1>10. ASSUME NEW d \in Channel, NEW h \in handlers'[d] PROVE Gets(h, d)'
  <2>1. h \in Handler /\ h \in handlers[d] /\ Gets(h, d) /\ since' = since
    BY <1>1, <1>10 DEF BusInv, BusTypes
  <2>2. CASE d # c
    <3>1. Got(h)' = Got(h)
      <4>1. h \notin handlers[c]
        BY <1>2, <2>1, <2>2 DEF BusInv, Identities
      <4> QED BY <1>5, <2>1, <4>1 DEF Got
    <3> QED BY <1>1, <1>3, <2>1, <2>2, <3>1, TailGets DEF BusInv
  <2>3. CASE d = c
    <3> DEFINE got == Got(h)
               k == Len(Got(h)) + 1
    <3>1. /\ Got(h)' = Append(got, m) /\ DOMAIN Append(got, m) = DOMAIN got \cup {k} /\ k \in Nat
          /\ \A i \in DOMAIN got : Append(got, m)[i] = got[i] /\ i \in Nat /\ i < k /\ got[i] \in Nat
          /\ Append(got, m)[k] = m
      BY SMTT(30), <1>3, <1>5, <2>1, <2>3, AppendElements
    <3> DEFINE more == Append(Got(h), m)
    <3>2. 1 \in Coming(d)
      BY <1>1, <1>2, <2>3 DEF Coming
    <3>3. (\A i \in DOMAIN got : got[i] < m) /\ since[h] < m
      BY <2>1, <2>3, <3>2 DEF Gets
    <3>4. m \in SentSince(since[h], c)
      <4>1. since[h] \in Nat
        BY <1>3, <2>1 DEF BusInv, BusTypes
      <4> QED BY <1>3, <3>3, <4>1 DEF SentSince
    <3>5. \A j \in Coming(d)' : /\ j + 1 \in Coming(d) /\ wire'[j] = wire[j + 1]
                                /\ m < -wire'[j].nr
      <4>1. \A j \in Coming(d)' : j \in DOMAIN wire' /\ wire'[j].nr < 0 /\ wire'[j].channel = d
        BY DEF Coming
      <4>2. \A j \in DOMAIN wire' : 1 < j + 1
        BY <1>2
      <4>3. \A j \in Coming(d)' : wire[j + 1].nr < wire[1].nr
        BY <1>1, <1>2, <4>1, <4>2 DEF BusInv, Wire
      <4> QED BY <1>2, <4>1, <4>3 DEF Coming
    <3>6. SentSince(since[h], d)' = SentSince(since[h], d)
      BY <1>1 DEF SentSince
    <3> HIDE DEF got, k, m, c
    <3>7. \A i, j \in DOMAIN more : i < j => more[i] < more[j]
      BY <2>1, <3>1, <3>3 DEF Gets, got
    <3>8. \A i \in DOMAIN more : more[i] \in SentSince(since[h], d)
      BY <2>1, <2>3, <3>1, <3>4 DEF Gets, got
    <3>9. \A i \in DOMAIN more, j \in Coming(d)' : more[i] < -wire'[j].nr
      BY <2>1, <2>3, <3>1, <3>5 DEF Gets, got
    <3>10. \A j \in Coming(d)' : since[h] < -wire'[j].nr
      BY <2>1, <2>3, <3>5 DEF Gets
    <3>11. ASSUME breaks = 0
           PROVE  /\ d \in rooms
                  /\ \A n \in SentSince(since[h], d) :
                       n \in Range(more) \/ \E j \in DOMAIN wire' : wire'[j].nr = -n
      <4>1. /\ d \in rooms
            /\ \A n \in SentSince(since[h], d) :
                 n \in Range(got) \/ \E j \in DOMAIN wire : wire[j].nr = -n
        BY <2>1, <3>11 DEF Gets, got
      <4>2. m \in Range(more) /\ \A n \in Range(got) : n \in Range(more)
        BY <3>1 DEF Range, got
      <4>3. \A n \in SentSince(since[h], d) : n \in Int /\ (wire[1].nr = -n => n = m)
        BY <1>2 DEF SentSince, m
      <4>4. ASSUME NEW n \in SentSince(since[h], d), NEW j \in DOMAIN wire, wire[j].nr = -n
            PROVE  n = m \/ \E i \in DOMAIN wire' : wire'[i].nr = -n
        BY <1>2, <4>3, <4>4
      <4> QED BY <4>1, <4>2, <4>4
    <3>12. breaks' = breaks /\ rooms' = rooms /\ Got(h)' = more
      BY <1>1, <3>1 DEF got
    <3> HIDE DEF more
    <3> QED BY <2>1, <3>6, <3>7, <3>8, <3>9, <3>10, <3>11, <3>12 DEF Gets
  <2> QED BY <2>2, <2>3
<1> QED BY <1>6, <1>7, <1>8, <1>9, <1>10 DEF BusInv

-----------------------------------------------------------------------------
LEMMA BusStep == BusInv /\ [BusNext]_busVars => BusInv'
<1> SUFFICES ASSUME BusInv, [BusNext]_busVars PROVE BusInv'
  OBVIOUS
<1>1. ASSUME NEW kind \in {"subscribe", "send"}, NEW c \in Channel, Call(kind, c) PROVE BusInv'
  BY <1>1, CallKeepsInv
<1>2. CASE Opened \/ OpenFails \/ Reconnect \/ PauseNotification
  BY <1>2, SocketKeepsInv
<1>3. ASSUME NEW call \in calls, NEW authorized \in BOOLEAN, Answer(call, authorized) PROVE BusInv'
  BY <1>3, AnswerKeepsInv
<1>4. ASSUME NEW c \in Channel, SendToChannel(c) PROVE BusInv'
  BY <1>4, SendKeepsInv
<1>5. CASE ReceiveCallAnswer
  BY <1>5, CallAnswerKeepsInv
<1>6. CASE ReceiveData
  BY <1>6, DataKeepsInv
<1>7. CASE UnpauseNotification
  BY <1>7, UnpauseKeepsInv
<1>8. ASSUME NEW h \in Handler, NEW c \in Channel, Unsubscribe(h, c) PROVE BusInv'
  BY <1>8, UnsubscribeKeepsInv
<1>9. ASSUME NEW to \in {"down", "closed"}, SocketGoes(to) PROVE BusInv'
  BY <1>9, SocketGoesKeepsInv
<1>10. CASE UNCHANGED busVars
  <2>1. /\ BusTypeOK' /\ Identities' /\ Wire'
        /\ BusTypes'
    BY <1>10 DEF busVars, pageVars, BusInv, BusTypeOK, BusTypes, Identities, Wire, CallRecord
  <2>2. Answers'
    <3>1. \A m, i : Follows(m, i)' = Follows(m, i)
      BY <1>10 DEF busVars, Follows
    <3> QED BY <1>10, <3>1 DEF busVars, BusInv, Answers, SentSince
  <2>3. \A c \in Channel : \A h \in handlers'[c] : Gets(h, c)'
    BY <1>10, SameGets DEF busVars, pageVars, BusInv, Got
  <2> QED BY <2>1, <2>2, <2>3 DEF BusInv
<1> QED BY <1>1, <1>2, <1>3, <1>4, <1>5, <1>6, <1>7, <1>8, <1>9, <1>10 DEF BusNext

LEMMA BusInvHolds == BusSpec => []BusInv
BY BusInitInv, BusStep, PTL DEF BusSpec

\* A page has a socket only if its first attempt to connect led to one, and handlers only for
\* channels the socket has joined and not lost (ensureConnection, subscribe).
THEOREM BusTypeCorrect == BusSpec => []BusTypeOK
<1>1. BusInv => BusTypeOK
  BY DEF BusInv
<1> QED BY <1>1, BusInvHolds, PTL

\* What a handler got and what is on its way to it are the messages of its channel since its call
\* was answered, in order and each once, without a gap unless the socket broke (subscribe, the
\* listener of ensureConnection, pauseNotification and unpauseNotification).
THEOREM HandlersMissNothing == BusSpec => []InOrderOnce
<1>1. BusInv => InOrderOnce
  <2> SUFFICES ASSUME BusInv, NEW c \in Channel, NEW h \in handlers[c]
               PROVE  LET got == Got(h)
                          coming == Coming(c)
                          messages == Range(got) \cup {-wire[i].nr : i \in coming}
                      IN  /\ \A i, j \in DOMAIN got : i < j => got[i] < got[j]
                          /\ \A i, j \in coming : i < j => -wire[i].nr < -wire[j].nr
                          /\ \A i \in DOMAIN got, j \in coming : got[i] < -wire[j].nr
                          /\ messages \subseteq SentSince(since[h], c)
                          /\ breaks = 0 => messages = SentSince(since[h], c)
    BY DEF InOrderOnce
  <2> DEFINE messages == Range(Got(h)) \cup {-wire[i].nr : i \in Coming(c)}
  <2>1. Gets(h, c)
    BY DEF BusInv
  <2>2. \A i \in DOMAIN wire : wire[i].nr \in Int
    BY WireElements DEF BusInv
  <2>3. \A i, j \in Coming(c) : i < j => -wire[i].nr < -wire[j].nr
    <3>1. \A i, j \in Coming(c) : i < j => wire[j].nr < wire[i].nr
      BY DEF BusInv, Wire, Coming
    <3>2. \A i \in Coming(c) : wire[i].nr \in Int
      BY <2>2 DEF Coming
    <3> QED BY <3>1, <3>2
  <2>4. since[h] \in Nat /\ Len(broadcasts) \in Nat
    BY DEF BusInv, BusTypes
  <2>5. \A j \in Coming(c) : -wire[j].nr \in SentSince(since[h], c)
    <3> SUFFICES ASSUME NEW j \in Coming(c) PROVE -wire[j].nr \in SentSince(since[h], c)
      OBVIOUS
    <3>1. -wire[j].nr \in 1..Len(broadcasts) /\ broadcasts[-wire[j].nr] = c
      BY DEF BusInv, Wire, Coming
    <3>2. since[h] < -wire[j].nr
      BY <2>1 DEF Gets
    <3> QED BY <2>4, <3>1, <3>2 DEF SentSince
  <2>6. messages \subseteq SentSince(since[h], c)
    BY <2>1, <2>5 DEF Gets, Range
  <2>7. ASSUME breaks = 0, NEW m \in SentSince(since[h], c) PROVE m \in messages
    <3>1. CASE m \in Range(Got(h))
      BY <3>1
    <3>2. ASSUME NEW j \in DOMAIN wire, wire[j].nr = -m PROVE m \in messages
      <4>1. m \in Nat \ {0} /\ broadcasts[m] = c
        BY <2>4 DEF SentSince
      <4>2. wire[j].nr < 0 /\ -wire[j].nr = m
        BY <3>2, <4>1
      <4>3. j \in Coming(c)
        BY <4>1, <4>2 DEF BusInv, Wire, Coming
      <4> QED BY <4>2, <4>3
    <3> QED BY <2>1, <2>7, <3>1, <3>2 DEF Gets
  <2> QED BY <2>1, <2>3, <2>6, <2>7 DEF Gets
<1> QED BY <1>1, BusInvHolds, PTL
=============================================================================
