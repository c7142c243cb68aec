---------------------------- MODULE UpdatesCursor ----------------------------
(***************************************************************************)
(* The updates state that TelegramAgent keeps in storage: how far the      *)
(* account's stream of updates has been followed, so that                  *)
(* updates.GetDifference can fetch what was missed.                        *)
(*                                                                         *)
(* The server numbers the account's updates (pts) and, on their own, the   *)
(* envelopes it pushes them in (seq).  It pushes them while the agent is   *)
(* connected, and answers updates.GetState and updates.GetDifference.      *)
(* What is on its way may overtake, and is lost with the connection.  The  *)
(* counters qts and date, merged like these two, are left out.             *)
(***************************************************************************)
EXTENDS Naturals, FiniteSets

CONSTANTS
  MaxPts,    \* bound: updates of the account
  MaxInbox,  \* bound: messages on their way to the agent
  MaxAsked,  \* bound: requests on their way to the server
  MaxDrop    \* bound: connections lost

ASSUME BoundAssumption == {MaxPts, MaxInbox, MaxAsked, MaxDrop} \subseteq Nat

VARIABLES
  cursor,     \* set of at most one [pts, seq]: updates_state
  seen,       \* updates the agent has been handed
  connected,  \* an authenticated session is connected
  asked,      \* requests on their way
  inbox,      \* messages on their way to the agent
  pts,        \* server: updates so far
  seq,        \* server: numbered envelopes so far
  drops       \* connections lost so far

server == <<pts, seq>>
vars == <<cursor, seen, connected, asked, inbox, server, drops>>

Counter == {"pts", "seq"}

State == [type : {"state"}, pts : Nat, seq : Nat]
Difference == [type : {"difference", "slice"}, from : Nat, pts : Nat, seq : Nat]
Message ==
  State \cup Difference
  \cup [type : {"empty"}, seq : Nat] \cup [type : {"tooLong"}, pts : Nat]
  \cup [type : {"updates"}, update : Nat, seq : Nat]
  \cup [type : {"short"}, update : Nat, pts : Nat]
-----------------------------------------------------------------------------
(* The state the agent keeps *)

\* Mutant: the new value replaces the old one.
MergeLatest(current, partial) ==
  IF \A c \in Counter : c \in DOMAIN partial \/ current # {}
  THEN {[c \in Counter |->
           IF c \in DOMAIN partial THEN partial[c] ELSE CHOOSE n \in {s[c] : s \in current} : TRUE]}
  ELSE current

\* mergeUpdatesState: counter by counter the higher value, the current one where the
\* message has none; nothing while a counter has no value at all.
Merge(current, partial) ==
  IF \A c \in Counter : c \in DOMAIN partial \/ current # {}
  THEN {[c \in Counter |->
           LET values == {partial[d] : d \in {c} \cap DOMAIN partial} \cup {s[c] : s \in current}
           IN  CHOOSE n \in values : \A v \in values : v <= n]}
  ELSE current

\* stateFromUpdatesStateRecord, stateFromDifferenceResult, stateFromUpdateEnvelope:
\* the counters of a message.  An envelope's own pts are not read.
Counters(m) == [c \in Counter \cap DOMAIN m |-> m[c]]

\* The updates in a message.
Contents(m) ==
  IF m.type \in {"difference", "slice"} THEN m.from + 1 .. m.pts
  ELSE IF m.type \in {"updates", "short"} THEN {m.update} ELSE {}
-----------------------------------------------------------------------------
(* The agent *)

\* pushFrame, with #updateRecoveryFromEvents.
Receive(m) ==
  /\ inbox' = inbox \ {m}
  /\ seen' = seen \cup Contents(m)
  /\ cursor' = Merge(cursor, Counters(m))
  /\ UNCHANGED <<connected, asked, server, drops>>

Ask(request) ==
  /\ connected /\ Cardinality(asked) < MaxAsked
  /\ asked' = asked \cup {request}
  /\ UNCHANGED <<cursor, seen, connected, inbox, server, drops>>

\* telegramGetState
GetState == Ask([type |-> "getState"])

\* Mutant: the first update asked for is the one after next.
GetDifferenceFromNext ==
  \E c \in cursor : Ask([type |-> "getDifference", from |-> c.pts + 1])

\* telegramGetDifference
GetDifference == \E c \in cursor : Ask([type |-> "getDifference", from |-> c.pts])

\* A reconnect asks for the state at once.
Reconnect ==
  /\ ~connected
  /\ connected' = TRUE
  /\ asked' = {[type |-> "getState"]}
  /\ UNCHANGED <<cursor, seen, inbox, server, drops>>

\* startAuth and logout: the state is cleared, and the session is another's.
Clear ==
  /\ drops < MaxDrop /\ drops' = drops + 1
  /\ cursor' = {} /\ seen' = {}
  /\ connected' = FALSE /\ asked' = {} /\ inbox' = {}
  /\ UNCHANGED server
-----------------------------------------------------------------------------
(* The server and the connection *)

Push(m) == inbox' = IF connected THEN inbox \cup {m} ELSE inbox

\* An update, in an envelope that has a number or in a short one.
Update ==
  /\ pts < MaxPts /\ Cardinality(inbox) < MaxInbox
  /\ pts' = pts + 1
  /\ \/ seq' = seq + 1 /\ Push([type |-> "updates", update |-> pts', seq |-> seq'])
     \/ UNCHANGED seq /\ Push([type |-> "short", update |-> pts', pts |-> pts'])
  /\ UNCHANGED <<cursor, seen, connected, asked, drops>>

Answers(request) ==
  IF request.type = "getState" THEN {[type |-> "state", pts |-> pts, seq |-> seq]}
  ELSE IF request.from = pts THEN {[type |-> "empty", seq |-> seq]}
  ELSE {[type |-> "difference", from |-> request.from, pts |-> pts, seq |-> seq],
        [type |-> "tooLong", pts |-> pts]}
       \cup {[type |-> "slice", from |-> request.from, pts |-> p, seq |-> seq] :
               p \in request.from + 1 .. pts - 1}

Answer(request) ==
  /\ Cardinality(inbox) < MaxInbox
  /\ asked' = asked \ {request}
  /\ \E m \in Answers(request) : inbox' = inbox \cup {m}
  /\ UNCHANGED <<cursor, seen, connected, server, drops>>

\* The connection breaks.
Disconnect ==
  /\ connected /\ drops < MaxDrop
  /\ drops' = drops + 1
  /\ connected' = FALSE
  /\ asked' = {} /\ inbox' = {}
  /\ UNCHANGED <<cursor, seen, server>>
-----------------------------------------------------------------------------
Init ==
  /\ cursor = {} /\ seen = {} /\ connected = TRUE
  /\ asked = {} /\ inbox = {}
  /\ pts = 0 /\ seq = 0 /\ drops = 0

Next ==
  \/ \E m \in inbox : Receive(m)
  \/ \E request \in asked : Answer(request)
  \/ GetState \/ GetDifference \/ Reconnect \/ Clear
  \/ Update \/ Disconnect

Spec == Init /\ [][Next]_vars
-----------------------------------------------------------------------------
(* Properties *)

\* Every variable has its type.
TypeOK ==
  /\ cursor \subseteq [Counter -> Nat] /\ Cardinality(cursor) <= 1
  /\ {pts, seq, drops} \subseteq Nat
  /\ seen \subseteq 1 .. pts
  /\ connected \in BOOLEAN
  /\ asked \subseteq [type : {"getState"}] \cup [type : {"getDifference"}, from : 0 .. pts]
  /\ inbox \subseteq Message

\* What was once followed is not followed again: no late answer turns a counter
\* back, only a new login or a logout.
CursorNeverRegresses ==
  [][\A c \in cursor : (\A d \in cursor' : d.pts >= c.pts /\ d.seq >= c.seq)
                       /\ (cursor' = {} => Clear)]_vars

\* A difference never moves the state past an update that the agent was not handed,
\* however late it comes and whatever was pushed in between.
DifferenceLeavesNoGap ==
  [][\A m \in inbox :
       Receive(m) /\ m.type \in {"difference", "slice"} =>
         \A c \in cursor, d \in cursor' : c.pts + 1 .. d.pts \subseteq seen']_vars
=============================================================================
