----------------------------- MODULE BridgeLink -----------------------------
(***************************************************************************)
(* How an agent reaches a target through a bridge: SocketBridgeAgent (the  *)
(* Durable Object of one account), DurableSocket (the Durable Object that  *)
(* brokers bridges) and one dlkn-socket-bridge-rs process.                 *)
(*                                                                         *)
(* The agent asks DurableSocket for a session; DurableSocket records it    *)
(* and tells a bridge over the control WebSocket; the bridge dials the     *)
(* agent's data WebSocket and relays.  The end of a session reaches the    *)
(* agent twice, on unordered paths: the data WebSocket closes, and the     *)
(* bridge reports session_closed to DurableSocket.                         *)
(*                                                                         *)
(* What the agent's subclass does with a notification is left open: it may *)
(* close, open and send at any time.                                       *)
(***************************************************************************)
EXTENDS Naturals, Sequences, FiniteSets

CONSTANTS
  Key,          \* socket keys
  NoKey,        \* none
  Evictions,    \* the agent's object may be evicted and lose its memory
  MaxControl,   \* bound: control connections the bridge makes; the last holds
  MaxFrame      \* bound: frames the agent sends

ASSUME KeyAssumption == NoKey \notin Key
ASSUME SettingAssumption ==
  /\ Evictions \in BOOLEAN
  /\ MaxControl \in Nat \ {0} /\ MaxFrame \in Nat

VARIABLES
  current,   \* agent: bridge_socket_key
  opening,   \* agent: the keys of the createSession calls it awaits
  memory,    \* agent: #pendingBridgeFrames
  stored,    \* agent: pending_bridge_frames in its storage
  links,     \* agent: open connections marked isBridge
  owed,      \* agent: connections whose close it has not been told of
  flushed,   \* agent: [key -> frames written to that connection]
  closes,    \* agent: onSocketClosed calls so far, [key, path]
  frame,     \* agent: frames sent so far
  rows,      \* DurableSocket: ds_sessions
  sockets,   \* DurableSocket: control WebSockets it believes open
  control,   \* bridge: its control connection, 0 while it has none
  controls,  \* bridge: control connections made so far
  phase,     \* bridge: what it does with each key
  via,       \* bridge: the control connection a key was opened on
  reports    \* session_closed messages in flight

agent == <<current, opening, memory, stored, links, owed, flushed, closes, frame>>
queue == <<memory, stored>>
durable == <<rows, sockets>>
bridge == <<control, controls, phase, via>>
vars == <<agent, durable, bridge, reports>>

Phase == {"new",        \* not requested
          "requested",  \* open_session is in flight
          "connecting", \* dialling the data WebSocket
          "relaying",   \* the engine runs
          "ended",      \* the engine has ended, session_closed not yet sent
          "reported"}   \* session_closed was written to its control WebSocket

Frame == Nat  \* numbered as they are sent
-----------------------------------------------------------------------------
(* SocketBridgeAgent *)

\* crypto.randomUUID(): a key not used before, it does not matter which.
Fresh == CHOOSE k \in Key : phase[k] = "new"

\* Mutant: open_session is sent and the row that routes its end is not written.
RequestSessionUnrecorded(k) ==
  /\ phase[k] = "new" /\ k = Fresh
  /\ opening' = opening \cup {k}
  /\ phase' = [phase EXCEPT ![k] = "requested"]
  /\ \E g \in sockets : via' = [via EXCEPT ![k] = g]
  /\ UNCHANGED <<current, queue, links, owed, flushed, closes, frame, rows, sockets,
                 control, controls, reports>>

\* createBridgeConnection up to its await: DurableSocket.createSession records
\* the key and tells one of the bridges it knows.  Without any it refuses, the
\* call throws, and nothing has changed.
RequestSession(k) ==
  /\ phase[k] = "new" /\ k = Fresh
  /\ opening' = opening \cup {k}
  /\ rows' = rows \cup {k}
  /\ phase' = [phase EXCEPT ![k] = "requested"]
  /\ \E g \in sockets : via' = [via EXCEPT ![k] = g]
  /\ UNCHANGED <<current, queue, links, owed, flushed, closes, frame, sockets,
                 control, controls, reports>>

\* ... and after it: saveBridgeInfo.
SessionCreated(k) ==
  /\ k \in opening
  /\ current' = k /\ opening' = opening \ {k}
  /\ UNCHANGED <<queue, links, owed, flushed, closes, frame, durable, bridge, reports>>

\* Mutant: the loop over the connections goes on after a bridge was found.
SendFrameGoesOn ==
  /\ frame < MaxFrame
  /\ frame' = frame + 1
  /\ LET f == frame + 1 IN
       /\ flushed' = [k \in Key |-> IF k \in links THEN Append(flushed[k], f) ELSE flushed[k]]
       /\ memory' = Append(memory, f)
       /\ stored' = Append(memory, f)
  /\ UNCHANGED <<current, opening, links, owed, closes, durable, bridge, reports>>

\* sendBridgeBytes: to the first bridge connection, else to both queues.
SendFrame ==
  /\ frame < MaxFrame
  /\ frame' = frame + 1
  /\ LET f == frame + 1 IN
       \/ /\ \E k \in links : flushed' = [flushed EXCEPT ![k] = Append(@, f)]
          /\ UNCHANGED queue
       \/ /\ links = {}
          /\ memory' = Append(memory, f)
          /\ stored' = Append(memory, f)
          /\ UNCHANGED flushed
  /\ UNCHANGED <<current, opening, links, owed, closes, durable, bridge, reports>>

\* closeBridgeConnection
CloseBridgeConnection ==
  /\ memory' = <<>> /\ stored' = <<>>
  /\ links' = {}
  /\ current' = NoKey
  /\ UNCHANGED <<opening, owed, flushed, closes, frame, durable, bridge, reports>>

\* Mutant: the stored queue is not deleted after the flush.
OnConnectKeepsStored(k) ==
  /\ links' = links \cup {k} /\ owed' = owed \cup {k}
  /\ flushed' = [flushed EXCEPT ![k] = @ \o memory \o stored]
  /\ memory' = <<>> /\ stored' = stored
  /\ UNCHANGED <<current, opening, closes, frame>>

\* Mutant: the last frame queued is flushed first.
OnConnectReversed(k) ==
  /\ links' = links \cup {k} /\ owed' = owed \cup {k}
  /\ LET all == memory \o stored IN
       flushed' = [flushed EXCEPT ![k] =
                     @ \o [i \in DOMAIN all |-> all[Len(all) + 1 - i]]]
  /\ memory' = <<>> /\ stored' = <<>>
  /\ UNCHANGED <<current, opening, closes, frame>>

\* onConnect of a bridge: whatever is queued goes to it, whoever it is for.
OnConnect(k) ==
  /\ links' = links \cup {k} /\ owed' = owed \cup {k}
  /\ flushed' = [flushed EXCEPT ![k] = @ \o memory \o stored]
  /\ memory' = <<>> /\ stored' = <<>>
  /\ UNCHANGED <<current, opening, closes, frame>>

OnSocketClosed(k, path) == closes' = closes \cup {[key |-> k, path |-> path]}

\* Mutant: a closed connection stays among the agent's bridges.
OnCloseKeepsLink(k) ==
  /\ k \in owed /\ phase[k] \in {"ended", "reported"}
  /\ links' = links /\ owed' = owed \ {k}
  /\ OnSocketClosed(k, "data")
  /\ UNCHANGED <<current, opening, queue, flushed, frame, durable, bridge, reports>>

\* onClose of a bridge connection.
OnClose(k) ==
  /\ k \in owed /\ phase[k] \in {"ended", "reported"}
  /\ links' = links \ {k} /\ owed' = owed \ {k}
  /\ OnSocketClosed(k, "data")
  /\ UNCHANGED <<current, opening, queue, flushed, frame, durable, bridge, reports>>

\* The object is evicted and built again: connections and storage survive, the methods
\* that await an answer do not.
Evict ==
  /\ Evictions
  /\ memory' = <<>> /\ opening' = {}
  /\ UNCHANGED <<current, stored, links, owed, flushed, closes, frame,
                 durable, bridge, reports>>
-----------------------------------------------------------------------------
(* The bridge *)

\* open_session arrives on the control connection the bridge reads.
OpenSession(k) ==
  /\ phase[k] = "requested" /\ via[k] = control
  /\ phase' = [phase EXCEPT ![k] = "connecting"]
  /\ UNCHANGED <<agent, durable, control, controls, via, reports>>

DataConnect(k) ==
  /\ phase[k] = "connecting"
  /\ phase' = [phase EXCEPT ![k] = "relaying"]
  /\ OnConnect(k)
  /\ UNCHANGED <<durable, control, controls, via, reports>>

\* Mutant: a failed dial returns without a session_closed.
DataConnectFailsSilently(k) ==
  /\ phase[k] = "connecting"
  /\ phase' = [phase EXCEPT ![k] = "reported"]
  /\ UNCHANGED <<agent, durable, control, controls, via, reports>>

DataConnectFails(k) ==
  /\ phase[k] = "connecting"
  /\ phase' = [phase EXCEPT ![k] = "ended"]
  /\ UNCHANGED <<agent, durable, control, controls, via, reports>>

\* Mutant: session_closed is sent while the engine still runs.
EngineReportsEarly(k) ==
  /\ phase[k] = "relaying"
  /\ reports' = reports \cup {k}
  /\ UNCHANGED <<agent, durable, control, controls, phase, via>>

\* The engine returns, for any reason, and closes the data WebSocket.
EngineEnds(k) ==
  /\ phase[k] = "relaying"
  /\ phase' = [phase EXCEPT ![k] = "ended"]
  /\ UNCHANGED <<agent, durable, control, controls, via, reports>>

\* session_closed goes to the control connection the session was opened on,
\* which may be gone: the error is ignored.
ReportClosed(k) ==
  /\ phase[k] = "ended"
  /\ phase' = [phase EXCEPT ![k] = "reported"]
  /\ reports' = IF via[k] = control THEN reports \cup {k} ELSE reports
  /\ UNCHANGED <<agent, durable, control, controls, via>>

\* The control connection breaks, with any of the messages on it.
ControlBreaks ==
  /\ control # 0 /\ controls < MaxControl
  /\ control' = 0
  /\ reports' \in SUBSET reports
  /\ UNCHANGED <<agent, durable, controls, phase, via>>

\* run_bridge tries again after 5 seconds.
ControlReconnects ==
  /\ control = 0 /\ controls < MaxControl
  /\ control' = controls + 1 /\ controls' = controls + 1
  /\ sockets' = sockets \cup {controls + 1}
  /\ UNCHANGED <<agent, rows, phase, via, reports>>
-----------------------------------------------------------------------------
(* DurableSocket *)

\* webSocketClose: the runtime drops the socket from getWebSockets.
SocketGone ==
  /\ \E g \in sockets \ {control} : sockets' = sockets \ {g}
  /\ UNCHANGED <<agent, rows, bridge, reports>>

\* Mutant: the row is deleted and the agent not told.
SessionClosedUntold(k) ==
  /\ k \in reports
  /\ reports' = reports \ {k}
  /\ rows' = rows \ {k}
  /\ UNCHANGED <<current, opening, queue, links, owed, flushed, closes, frame, sockets,
                 bridge>>

\* webSocketMessage of a session_closed: tell the agent, then forget the session.
SessionClosed(k) ==
  /\ k \in reports
  /\ reports' = reports \ {k}
  /\ IF k \in rows THEN OnSocketClosed(k, "control") ELSE UNCHANGED closes
  /\ rows' = rows \ {k}
  /\ UNCHANGED <<current, opening, queue, links, owed, flushed, frame, sockets, bridge>>
-----------------------------------------------------------------------------
Init ==
  /\ current = NoKey /\ opening = {}
  /\ memory = <<>> /\ stored = <<>>
  /\ links = {} /\ owed = {}
  /\ flushed = [k \in Key |-> <<>>]
  /\ closes = {} /\ frame = 0
  /\ rows = {} /\ sockets = {1}
  /\ control = 1 /\ controls = 1
  /\ phase = [k \in Key |-> "new"]
  /\ via = [k \in Key |-> 0]
  /\ reports = {}

Next ==
  \/ \E k \in Key :
       \/ RequestSession(k) \/ SessionCreated(k) \/ OnClose(k)
       \/ OpenSession(k) \/ DataConnect(k) \/ DataConnectFails(k)
       \/ EngineEnds(k) \/ ReportClosed(k) \/ SessionClosed(k)
  \/ SendFrame \/ CloseBridgeConnection \/ Evict
  \/ ControlBreaks \/ ControlReconnects \/ SocketGone

Spec == Init /\ [][Next]_vars

\* Tasks of the bridge and calls between the objects run to their end; nothing
\* obliges an engine to end, or the agent to do anything of its own accord.
Fairness ==
  \A k \in Key :
    /\ WF_vars(OpenSession(k) \/ DataConnect(k) \/ DataConnectFails(k) \/ ReportClosed(k))
    /\ WF_vars(SessionClosed(k))

FairSpec == Spec /\ Fairness
-----------------------------------------------------------------------------
(* Properties *)

\* Every variable has its type.
TypeOK ==
  /\ current \in Key \cup {NoKey} /\ opening \subseteq Key
  /\ {memory, stored} \subseteq Seq(Frame)
  /\ links \subseteq owed /\ owed \subseteq Key
  /\ flushed \in [Key -> Seq(Frame)]
  /\ closes \subseteq [key : Key, path : {"data", "control"}]
  /\ frame \in Nat
  /\ rows \subseteq Key /\ reports \subseteq Key
  /\ sockets \subseteq 1 .. controls
  /\ control \in {0, controls} /\ controls \in Nat
  /\ phase \in [Key -> Phase]
  /\ via \in [Key -> 0 .. controls]

\* A frame waits in a queue only while no bridge is connected: no interleaving of
\* sends, connects, closes and evictions leaves one behind a live connection.
QueuedFramesAwaitBridge == memory # <<>> \/ stored # <<>> => links = {}

\* A frame is overtaken on no connection: one with a lower number than its
\* predecessor is a repetition.
FramesInOrder ==
  \A k \in Key : \A i, j \in DOMAIN flushed[k] :
    i < j /\ flushed[k][j] < flushed[k][i] =>
      \E h \in 1 .. i : flushed[k][h] = flushed[k][j]

\* A session that can still end has its row in ds_sessions: a session_closed is
\* never dropped for want of an agent to tell.
LiveSessionsAreRouted ==
  \A k \in Key : phase[k] \in Phase \ {"new", "reported"} \/ k \in reports => k \in rows

Accepted(n) == \/ \E i \in DOMAIN memory : memory[i] = n
               \/ \E i \in DOMAIN stored : stored[i] = n
               \/ \E k \in Key : \E i \in DOMAIN flushed[k] : flushed[k][i] = n

\* base-agent.ts:29 of the queue: "we persist these to KV storage so they survive across
\* DO instance boundaries".  A stored frame stays queued until it is written to a
\* bridge, or the agent closes.
QueueSurvives ==
  [][\A n \in {stored[i] : i \in DOMAIN stored} :
       Accepted(n)' \/ CloseBridgeConnection]_vars

\* Every frame is written to a bridge at most once.
DrainedOnce ==
  \A k \in Key : \A i, j \in DOMAIN flushed[k] :
    i # j => flushed[k][i] # flushed[k][j]

Numbers(s) == {s[i] : i \in DOMAIN s}

Thrice(s) == \E h, i, j \in DOMAIN s : h < i /\ i < j /\ s[h] = s[i] /\ s[i] = s[j]

\* Of what each connection was written: no frame went to two, or to one three times.
OneOrTwo(written) ==
  /\ \A k, l \in Key : k # l => Numbers(written[k]) \cap Numbers(written[l]) = {}
  /\ \A k \in Key : ~Thrice(written[k])

\* The true form of it: a frame is written to one connection only, whatever reconnects
\* and evictions come between, and there at most twice, once from each queue.
AtMostTwice == OneOrTwo(flushed)

\* A session as its agent knows it, and the notifications of its end on their way.
SessionState(k) ==
  CASE phase[k] = "new" -> "none"
    [] phase[k] \in {"requested", "connecting"} -> "asked"
    [] phase[k] = "relaying" /\ k \in links -> "open"
    [] OTHER -> "shut"

NoticesDue(k) ==
  IF SessionState(k) # "shut" THEN 0
  ELSE (IF k \in owed THEN 1 ELSE 0) + (IF [key |-> k, path |-> "control"] \in closes THEN 0 ELSE 1)

Session(k) == INSTANCE BridgeSession WITH state <- SessionState(k), due <- NoticesDue(k)

\* The agent, DurableSocket and the bridge together keep the promise of BridgeSession
\* for every key.
KeepsSessions ==
  /\ \A k \in Key : Session(k)!Init
  /\ [][\A k \in Key : [Session(k)!Next]_(Session(k)!session)]_vars

\* Of a session whose control connection is gone the agent may never hear again:
\* nothing times out.
Cut(k) == via[k] # control

\* The agent waits for no session for ever: the one it holds gets a bridge connection,
\* or the agent hears that it failed, or gives it up.
SessionSettles ==
  []<>(\A k \in Key :
         current = k => \/ phase[k] = "relaying" \/ Cut(k)
                        \/ \E c \in closes : c.key = k)

\* Every session that has ended is reported to the agent and its row removed.
EndIsReported ==
  []<>(\A k \in Key :
         phase[k] \in {"ended", "reported"} =>
           \/ k \notin rows /\ [key |-> k, path |-> "control"] \in closes
           \/ Cut(k))
=============================================================================
