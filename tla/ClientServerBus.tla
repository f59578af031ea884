--------------------------- MODULE ClientServerBus ---------------------------
(***************************************************************************)
(* The messages between the server and one page.                           *)
(*                                                                         *)
(* A page has one socket, which its first call opens and every call waits  *)
(* for. A call joins a channel or sends a message to one; the server       *)
(* answers when it knows whether the user may, so in any order. What is    *)
(* sent to a channel goes to the sockets that have joined it, in order and *)
(* at most once; the page gives it to the handlers it has for the channel, *)
(* or holds it back while notifications are paused.                        *)
(*                                                                         *)
(* The socket library is external: it connects again by itself, keeps      *)
(* what is emitted meanwhile, and never answers what it had sent before.   *)
(* A handler is known by the call that brings it.                          *)
(***************************************************************************)
EXTENDS Integers, Sequences, Functions

CONSTANTS
  Channel,        \* the channels
  MaxCalls,       \* bound on the calls
  MaxBroadcasts,  \* bound on the messages sent to channels
  MaxBreaks       \* bound on the times the socket breaks

ASSUME BusAssumption ==
  MaxCalls \in Nat /\ MaxBroadcasts \in Nat /\ MaxBreaks \in Nat

VARIABLES
  attempt,    \* connectionsInEstablishment: the first attempt to connect
  socket,     \* the socket it led to
  calls,      \* the calls that are not answered yet
  callCount,  \* the calls so far
  rooms,      \* the channels the socket has joined
  wire,       \* what is on its way to the page
  broadcasts, \* what was sent to the channels so far
  handlers,   \* subscriptions: the handlers of each channel
  isPaused,   \* notifications are paused, or were
  heldBack,   \* messagesWhilePaused, those for each handler
  received,   \* what each handler has been called with
  since,      \* history: the broadcasts there were when a handler's call was answered
  breaks      \* the times the socket broke so far

pageVars == << handlers, isPaused, heldBack, received >>
busVars == << attempt, socket, calls, callCount, rooms, wire, broadcasts, handlers, isPaused,
              heldBack, received, since, breaks >>

Handler == 1..MaxCalls

-----------------------------------------------------------------------------
BusInit ==
  /\ attempt = "none" /\ socket = "none"
  /\ calls = {} /\ callCount = 0
  /\ rooms = {} /\ wire = << >> /\ broadcasts = << >>
  /\ handlers = [c \in Channel |-> {}]
  /\ isPaused = FALSE /\ heldBack = [h \in Handler |-> << >>]
  /\ received = [h \in Handler |-> << >>]
  /\ since = [h \in Handler |-> 0]
  /\ breaks = 0

\* subscribe or send: the first one opens the socket; after an attempt that failed, or once
\* the socket was closed for good, calls do not reach anybody.
Call(kind, c) ==
  /\ callCount < MaxCalls /\ callCount' = callCount + 1
  /\ attempt' = IF attempt = "none" THEN "pending" ELSE attempt
  /\ calls' = IF attempt = "failed" THEN calls
              ELSE calls \cup {[nr |-> callCount', kind |-> kind, channel |-> c]}
  /\ UNCHANGED << socket, rooms, wire, broadcasts, pageVars, since, breaks >>

\* The attempt ends. Its outcome is never forgotten: the calls that wait, and all later ones,
\* get the socket or are rejected.
Opened ==
  /\ attempt = "pending"
  /\ attempt' = "open" /\ socket' = "up"
  /\ UNCHANGED << calls, callCount, rooms, wire, broadcasts, pageVars, since, breaks >>
OpenFails ==
  /\ attempt = "pending"
  /\ attempt' = "failed" /\ calls' = {}
  /\ UNCHANGED << socket, callCount, rooms, wire, broadcasts, pageVars, since, breaks >>

\* Mutant: a call is answered before it is known whether the user may.
Answer_BeforeJoining(call, authorized) ==
  /\ socket = "up"
  /\ call.nr \notin {wire[i].nr : i \in DOMAIN wire}
  /\ rooms' = IF authorized /\ call.kind = "subscribe" THEN rooms \cup {call.channel} ELSE rooms
  /\ wire' = Append(wire, [nr |-> call.nr, channel |-> call.channel, ok |-> TRUE])
  /\ since' = [since EXCEPT ![call.nr] = Len(broadcasts)]
  /\ UNCHANGED << attempt, socket, calls, callCount, broadcasts, pageVars, breaks >>

\* The server answers a call: who may, joins the channel before the answer is sent.
Answer(call, authorized) ==
  /\ socket = "up"
  /\ call.nr \notin {wire[i].nr : i \in DOMAIN wire}
  /\ rooms' = IF authorized /\ call.kind = "subscribe" THEN rooms \cup {call.channel} ELSE rooms
  /\ wire' = Append(wire, [nr |-> call.nr, channel |-> call.channel, ok |-> authorized])
  /\ since' = [since EXCEPT ![call.nr] = Len(broadcasts)]
  /\ UNCHANGED << attempt, socket, calls, callCount, broadcasts, pageVars, breaks >>

\* Something is sent to a channel.
SendToChannel(c) ==
  /\ Len(broadcasts) < MaxBroadcasts
  /\ broadcasts' = Append(broadcasts, c)
  /\ wire' = IF c \in rooms THEN Append(wire, [nr |-> -Len(broadcasts'), channel |-> c, ok |-> TRUE])
             ELSE wire
  /\ UNCHANGED << attempt, socket, calls, callCount, rooms, pageVars, since, breaks >>

\* An answer arrives: the call ends, or throws when it was refused.
ReceiveCallAnswer ==
  /\ wire # << >> /\ Head(wire).nr > 0
  /\ wire' = Tail(wire)
  /\ \E call \in calls :
       /\ call.nr = Head(wire).nr
       /\ calls' = calls \ {call}
       /\ IF call.kind = "subscribe" /\ Head(wire).ok
          THEN handlers' = [handlers EXCEPT ![call.channel] = @ \cup {call.nr}]
          ELSE UNCHANGED handlers
  /\ UNCHANGED << attempt, socket, callCount, rooms, broadcasts, isPaused, heldBack, received,
                  since, breaks >>

WithMore(messages, hs, m) ==
  [h \in Handler |-> IF h \in hs THEN Append(messages[h], m) ELSE messages[h]]

\* Mutant: what comes while notifications are paused is dropped.
Deliver_NotWhilePaused(hs, m) ==
  /\ received' = IF isPaused THEN received ELSE WithMore(received, hs, m)
  /\ UNCHANGED heldBack

\* Each handler is called, or the call is held back.
Deliver(hs, m) ==
  IF isPaused
  THEN heldBack' = WithMore(heldBack, hs, m) /\ UNCHANGED received
  ELSE received' = WithMore(received, hs, m) /\ UNCHANGED heldBack

\* A message arrives.
ReceiveData ==
  /\ wire # << >> /\ Head(wire).nr < 0
  /\ wire' = Tail(wire)
  /\ Deliver(handlers[Head(wire).channel], -Head(wire).nr)
  /\ UNCHANGED << attempt, socket, calls, callCount, rooms, broadcasts, handlers, isPaused,
                  since, breaks >>

PauseNotification ==
  /\ ~isPaused /\ isPaused' = TRUE
  /\ UNCHANGED << attempt, socket, calls, callCount, rooms, wire, broadcasts, handlers, heldBack,
                  received, since, breaks >>

\* What was held back is delivered, to handlers that were taken away meanwhile, too; what
\* comes later is held back again.
UnpauseNotification ==
  /\ \E h \in Handler : heldBack[h] # << >>
  /\ received' = [h \in Handler |-> received[h] \o heldBack[h]]
  /\ heldBack' = [h \in Handler |-> << >>]
  /\ UNCHANGED << attempt, socket, calls, callCount, rooms, wire, broadcasts, handlers, isPaused,
                  since, breaks >>

\* The handler is taken away, the room is not left.
Unsubscribe(h, c) ==
  /\ h \in handlers[c]
  /\ handlers' = [handlers EXCEPT ![c] = @ \ {h}]
  /\ UNCHANGED << attempt, socket, calls, callCount, rooms, wire, broadcasts, isPaused, heldBack,
                  received, since, breaks >>

\* The socket breaks: its rooms, what was on its way, and the answers to come are lost.
SocketGoes(to) ==
  /\ socket = "up" /\ socket' = to
  /\ breaks < MaxBreaks /\ breaks' = breaks + 1
  /\ rooms' = {} /\ wire' = << >> /\ calls' = {}
  /\ UNCHANGED << attempt, callCount, broadcasts, pageVars, since >>

\* It connects again. Nobody joins the channels again.
Reconnect ==
  /\ socket = "down" /\ socket' = "up"
  /\ UNCHANGED << attempt, calls, callCount, rooms, wire, broadcasts, pageVars, since, breaks >>

BusNext ==
  \/ \E kind \in {"subscribe", "send"}, c \in Channel : Call(kind, c)
  \/ Opened \/ OpenFails
  \/ \E call \in calls, authorized \in BOOLEAN : Answer(call, authorized)
  \/ \E c \in Channel : SendToChannel(c)
  \/ ReceiveCallAnswer \/ ReceiveData
  \/ PauseNotification \/ UnpauseNotification
  \/ \E h \in Handler, c \in Channel : Unsubscribe(h, c)
  \/ \E to \in {"down", "closed"} : SocketGoes(to)
  \/ Reconnect

BusSpec == BusInit /\ [][BusNext]_busVars

-----------------------------------------------------------------------------
\* A page has a socket only if its first attempt led to one. Handlers are those of answered
\* calls, and the socket has joined their channels until it breaks.
BusTypeOK ==
  /\ attempt \in {"none", "pending", "open", "failed"}
  /\ socket \in {"none", "up", "down", "closed"}
  /\ socket # "none" <=> attempt = "open"
  /\ \A call \in calls : call.nr \in 1..callCount /\ call.channel \in Channel
  /\ socket # "up" => rooms = {} /\ wire = << >>
  /\ \A c \in Channel : handlers[c] \subseteq 1..callCount
  /\ \A c \in Channel : breaks = 0 /\ handlers[c] # {} => c \in rooms

\* The messages for a handler: got and then held back; and, by their positions, on the way
Got(h) == received[h] \o heldBack[h]
Coming(c) == {i \in DOMAIN wire : wire[i].nr < 0 /\ wire[i].channel = c}

SentSince(n, c) == {m \in n + 1..Len(broadcasts) : broadcasts[m] = c}

\* A handler gets, in order and each once, the messages sent to its channel after its call was
\* answered, all of them unless the socket broke: whatever other calls, handlers and pauses there are
\* (subscribe, the listener of ensureConnection, pauseNotification and unpauseNotification).
InOrderOnce ==
  \A c \in Channel : \A h \in handlers[c] :
    LET got == Got(h)
        coming == Coming(c)
        messages == Range(got) \cup {-wire[i].nr : i \in coming}
    IN  /\ \A i, j \in DOMAIN got : i < j => got[i] < got[j]
        /\ \A i, j \in coming : i < j => -wire[i].nr < -wire[j].nr
        /\ \A i \in DOMAIN got, j \in coming : got[i] < -wire[j].nr
        /\ messages \subseteq SentSince(since[h], c)
        /\ breaks = 0 => messages = SentSince(since[h], c)

=============================================================================
