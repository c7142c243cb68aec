---------------------------- MODULE TelegramAgent ----------------------------
(***************************************************************************)
(* TelegramAgent: the Durable Object of one Telegram account.  It drives   *)
(* the reducer of TelegramSession, keeps its snapshot in memory and in     *)
(* storage, asks for bridge sessions, queues what it sends before one is   *)
(* connected, and shows a phase and a socket status to the browser.        *)
(*                                                                         *)
(* Its methods interleave where they await the call to DurableSocket that  *)
(* opens a bridge session; their other awaits settle before any event is   *)
(* delivered.  A method that waits is a task.  Bridge sessions behave as   *)
(* in BridgeLink: they connect or fail, end at any time, and the end of    *)
(* one that was connected is notified twice.                               *)
(*                                                                         *)
(* A snapshot is reduced to its machine value, the key exchange it belongs *)
(* to and the number of messages made from it; a frame to its exchange     *)
(* and its number, which stands for message id and sequence number.        *)
(***************************************************************************)
EXTENDS Naturals, Sequences, FiniteSets

CONSTANTS
  Task,         \* methods that may be waiting at the same time
  Prompts,      \* the values in which the account's login awaits its user
  MaxSession,   \* bound: bridge sessions granted
  MaxExchange,  \* bound: key exchanges begun
  MaxMessage,   \* bound: messages made in one exchange
  Restarts      \* the object may be restarted

ASSUME AgentAssumption ==
  /\ Prompts \subseteq {"awaiting_code", "awaiting_password", "awaiting_qr_scan"}
  /\ {MaxSession, MaxExchange} \subseteq Nat /\ MaxMessage \in Nat \ {0}
  /\ Restarts \in BOOLEAN

VARIABLES
  cache,    \* set of at most one snapshot: #snapshotCache
  saved,    \* set of at most one snapshot: the one in storage
  key,      \* bridge_socket_key, 0 for none
  memory,   \* exchanges of the frames in #pendingBridgeFrames
  stored,   \* exchanges of the frames in pending_bridge_frames
  manual,   \* #manualSocketClose
  shown,    \* [phase, socketStatus] of the broadcast state
  task,     \* what each task waits for
  link,     \* the sessions granted: [at, for, due], for an exchange, with the
            \* notifications of its end the agent has yet to handle
  fed,      \* for each session, the exchanges of the frames written to it
  made,     \* history: for each exchange, the number last written or queued
  reused,   \* history: a number was used again, and crossed was false
  crossed,  \* history: a session was asked for before an earlier one was over; or
            \* before the method that asked went on its end was told, or the account
            \* logged out, or the object restarted
  out       \* history: nothing but a logout has happened to the account since

store == <<cache, saved>>
queue == <<memory, stored>>
wire == <<fed, made, reused>>
vars == <<store, key, queue, manual, shown, task, link, wire, crossed, out>>

Value == {"handshake", "authorizing", "awaiting_code", "awaiting_password",
          "awaiting_qr_scan", "ready", "error"}
Snapshot == [value : Value, exch : 1 .. MaxExchange, n : 1 .. MaxMessage]

Phase == {"idle", "connecting", "waiting_code", "waiting_password", "waiting_qr_scan",
          "authenticated", "error"}
Status == {"disconnected", "connecting", "connected", "error"}

Free == [at |-> "free"]
Creating(t) == task[t].at = "creating"

\* #loadSnapshot, without the copy to memory that every caller's save repeats.
Loaded == IF cache # {} THEN cache ELSE saved
-----------------------------------------------------------------------------
(* The session reducer, seen from the agent *)

\* createSession, and the state after a reconnect directive: a new key exchange
\* whose first frame is made already.
Begin == [value |-> "handshake", exch |-> Len(made) + 1, n |-> 1]

May(s) == s.n < MaxMessage
Advanced(s, value, k) == [s EXCEPT !.value = value, !.n = @ + k]
Sent(s, value) == Advanced(s, value, 1)

\* What TelegramSession implements, whatever arrives.
Machine(s) == INSTANCE AccountMachine WITH value <- s.value, exchange <- s.exch, made <- s.n

\* What a frame of exchange e can make of s, as [snapshot, sends], the second a number
\* of messages.  The frame of another exchange does not decrypt or has a foreign nonce.
Outcomes(s, e) ==
  LET own == e = s.exch
  IN  {[snapshot |-> [s EXCEPT !.value = v], sends |-> 0] :
         v \in {"error"} \cup {w \in Machine(s)!Stays : own}}
      \cup
      {[snapshot |-> Sent(s, v), sends |-> 1] :
         v \in {w \in Machine(s)!Answers : own /\ May(s)}}
      \cup
      {[snapshot |-> Advanced(s, v, k), sends |-> k] :
         v \in {w \in Machine(s)!Bursts : own}, k \in 1 .. MaxMessage - s.n}

\* A frame that moves the account to another data centre.
Migrates(s, e) == Machine(s)!Migrates /\ e = s.exch
-----------------------------------------------------------------------------
(* Snapshot and state *)

\* #saveSnapshot
Save(s) == cache' = {s} /\ saved' = {s}

\* #phaseFromSnapshot
PhaseOf(value) ==
  IF value \in {"handshake", "authorizing"} THEN "connecting"
  ELSE IF value = "awaiting_code" THEN "waiting_code"
  ELSE IF value = "awaiting_password" THEN "waiting_password"
  ELSE IF value = "awaiting_qr_scan" THEN "waiting_qr_scan"
  ELSE IF value = "ready" THEN "authenticated"
  ELSE "error"

Show(phase, status) == shown' = [phase |-> phase, socketStatus |-> status]

\* #resetIfStale: the phase, if no bridge backs it; the snapshot stays in storage.
Stale(state, k) == state.phase \notin {"idle", "authenticated"} /\ k = 0
Reset(state, k) ==
  IF Stale(state, k) THEN [phase |-> "idle", socketStatus |-> "disconnected"] ELSE state
-----------------------------------------------------------------------------
(* Bridge sessions *)

Opened == {k \in DOMAIN link : link[k].at = "open"}
Asked == {k \in DOMAIN link : link[k].at = "asked"}

\* Mutant: the frames queued for the closed session are kept.
CloseBridgeKeepsQueue ==
  /\ UNCHANGED queue
  /\ key' = 0

\* closeBridgeConnection, but for the sessions themselves.  A session that is
\* still dialling is not closed.
CloseBridge ==
  /\ memory' = {} /\ stored' = {}
  /\ key' = 0

\* A session that was connected ends with two notifications, on the data WebSocket
\* and through DurableSocket; one that was not, with the second alone.
Shut(l) == [l EXCEPT !.at = "shut", !.due = IF l.at = "open" THEN 2 ELSE 1]

Closed(links) ==
  [k \in DOMAIN links |-> IF links[k].at = "open" THEN Shut(links[k]) ELSE links[k]]

\* createBridgeConnection up to its await, by method m as task t for snapshot s,
\* with the sessions there are before.
Ask(t, m, s, before) ==
  /\ Len(link) < MaxSession
  /\ link' = Append(before, [at |-> "asked", for |-> s.exch, due |-> 0])
  /\ fed' = Append(fed, {})
  /\ task' = [task EXCEPT ![t] = [at |-> "creating", by |-> m, snapshot |-> s,
                                  session |-> Len(link) + 1]]

Crosses(overlap) == crossed' = (crossed \/ overlap)

Pending == \E t \in Task : Creating(t)
PendingOf(k) == \E t \in Task : Creating(t) /\ task[t].session = k

\* Mutant: the session before is not closed.
ReconnectLeavesOpen(t, m, s, links) ==
  /\ CloseBridge
  /\ Ask(t, m, s, links)
  /\ Crosses(Asked # {} \/ Pending)

\* closeBridgeConnection and createBridgeConnection.
Reconnect(t, m, s, links) ==
  /\ CloseBridge
  /\ Ask(t, m, s, Closed(links))
  /\ Crosses(Asked # {} \/ Pending)

\* Mutant: the queue is not written to storage.
SendBridgeBytesUnpersisted(s, n) ==
  /\ \/ /\ \E k \in Opened : fed' = [fed EXCEPT ![k] = @ \cup {s.exch}]
        /\ UNCHANGED queue
     \/ /\ Opened = {}
        /\ memory' = memory \cup {s.exch}
        /\ UNCHANGED <<stored, fed>>
  /\ made' = [made EXCEPT ![s.exch] = s.n]
  /\ UNCHANGED reused

\* sendBridgeBytes of the last n frames made from s: to a bridge connection, else to
\* both queues.
SendBridgeBytes(s, n) ==
  /\ \/ /\ \E k \in Opened : fed' = [fed EXCEPT ![k] = @ \cup {s.exch}]
        /\ UNCHANGED queue
     \/ /\ Opened = {}
        /\ memory' = memory \cup {s.exch} /\ stored' = memory'
        /\ UNCHANGED fed
  /\ reused' = (reused \/ (~crossed /\ s.n < made[s.exch] + n))
  /\ made' = [made EXCEPT ![s.exch] = s.n]

\* #executeCommands of so many send_frames: without a bridge they are skipped.
Execute(s, sends) ==
  IF sends > 0 /\ key # 0 THEN SendBridgeBytes(s, sends) ELSE UNCHANGED <<queue, wire>>
-----------------------------------------------------------------------------
(* Login *)

\* startAuth up to its await.  An earlier session is neither closed nor its queue
\* emptied.
StartAuth(t) ==
  /\ task[t] = Free /\ Len(made) < MaxExchange
  /\ made' = Append(made, 0)
  /\ Save(Begin)
  /\ Ask(t, "startAuth", Begin, link)
  /\ Crosses(Asked \cup Opened # {} \/ stored # {} \/ Pending)
  /\ out' = FALSE
  /\ UNCHANGED <<key, queue, manual, shown, reused>>

\* Mutant: the snapshot is not saved again before the first frame is sent.
AuthCreatedUnsaved(t, s) ==
  /\ SendBridgeBytes(s, 1)
  /\ Show("connecting", "connecting")
  /\ UNCHANGED store

\* ... and after it.
AuthCreated(t, s) ==
  /\ Save(s)
  /\ SendBridgeBytes(s, 1)
  /\ Show("connecting", "connecting")

\* submitCode, submitPassword and refreshQrToken in the value that awaits them.
Submit ==
  /\ \E s \in Loaded :
       /\ s.value \in Prompts /\ May(s)
       /\ Save(Sent(s, "authorizing"))
       /\ Execute(Sent(s, "authorizing"), 1)
  /\ Show("connecting", shown.socketStatus)
  /\ UNCHANGED <<key, manual, task, link, crossed, out>>

\* refreshQrToken in any other: the machine leaves the snapshot alone, and the agent
\* shows it.
RefreshIgnored ==
  /\ \E s \in Loaded :
       /\ s.value # "awaiting_qr_scan"
       /\ Save(s)
       /\ Show(PhaseOf(s.value), shown.socketStatus)
  /\ UNCHANGED <<key, queue, manual, task, link, wire, crossed, out>>

\* logout
Logout ==
  /\ CloseBridge /\ link' = Closed(link)
  /\ cache' = {} /\ saved' = {}
  /\ Show("idle", "disconnected")
  /\ out' = ~Pending
  /\ Crosses(Pending)
  /\ UNCHANGED <<manual, task, wire>>
-----------------------------------------------------------------------------
(* An authenticated session *)

Ready == {s \in Loaded : s.value = "ready"}

\* Mutant: the snapshot that made the frame is not kept.
CallUnsaved ==
  /\ \E s \in Ready : May(s) /\ Save(s) /\ Execute(Sent(s, "ready"), 1)
  /\ Show("authenticated", shown.socketStatus)
  /\ UNCHANGED <<key, manual, task, link, crossed, out>>

\* #dispatchSessionMethod: telegramGetState, telegramGetDifference and
\* sendTelegramMethod.  It succeeds even when the frame is skipped.
Call ==
  /\ \E s \in Ready : May(s) /\ Save(Sent(s, "ready")) /\ Execute(Sent(s, "ready"), 1)
  /\ Show("authenticated", shown.socketStatus)
  /\ UNCHANGED <<key, manual, task, link, crossed, out>>

\* closeCurrentSocket
CloseCurrentSocket ==
  /\ CloseBridge /\ link' = Closed(link)
  /\ manual' = TRUE
  /\ Show(shown.phase, "disconnected")
  /\ UNCHANGED <<store, task, wire, crossed, out>>

\* recoverSession up to the await of #reconnectAuthenticatedSession.
RecoverSession(t) ==
  /\ task[t] = Free
  /\ \E s \in Ready : May(s) /\ Save(s) /\ Reconnect(t, "recoverSession", s, link)
  /\ manual' = FALSE
  /\ Show("authenticated", "connecting")
  /\ UNCHANGED <<made, reused, out>>

RecoverMissing ==
  /\ Loaded = {}
  /\ Show("idle", "disconnected")
  /\ UNCHANGED <<store, key, queue, manual, task, link, wire, crossed, out>>

\* #reconnectAuthenticatedSession after its await: updates.GetState is asked for
\* from the snapshot of before it.  Without a key there is nothing to encrypt
\* with and the call throws.
ReconnectCreated(t, s) ==
  \/ /\ s.value # "handshake"
     /\ Save(Sent(s, s.value))
     /\ SendBridgeBytes(Sent(s, s.value), 1)
     /\ Show("authenticated", "connecting")
  \/ /\ s.value \in {"handshake", "error"}
     /\ Show(IF task[t].by = "onSocketClosed" THEN "authenticated" ELSE shown.phase, "error")
     /\ UNCHANGED <<store, queue, wire>>
-----------------------------------------------------------------------------
(* createBridgeConnection after its await *)

SessionCreated(t) ==
  /\ Creating(t)
  /\ key' = task[t].session
  /\ LET s == task[t].snapshot IN
       \/ task[t].by = "startAuth" /\ AuthCreated(t, s)
       \/ /\ task[t].by = "pushFrame"
          /\ Save(s) /\ SendBridgeBytes(s, 1)
          /\ Show("connecting", shown.socketStatus)
       \/ task[t].by \in {"recoverSession", "onSocketClosed"} /\ ReconnectCreated(t, s)
  /\ task' = [task EXCEPT ![t] = Free]
  /\ UNCHANGED <<manual, link, crossed, out>>

\* Mutant: a recovery that was refused goes on showing that it connects.
SessionRefusedSilently(t) ==
  /\ Creating(t) /\ link[task[t].session].at = "asked"
  /\ link' = [link EXCEPT ![task[t].session].at = "shut"]
  /\ task' = [task EXCEPT ![t] = Free]
  /\ UNCHANGED <<store, key, queue, manual, shown, wire, crossed, out>>

\* DurableSocket has refused, which shows when the call returns: it throws, and the
\* method catches.
SessionRefused(t) ==
  /\ Creating(t) /\ link[task[t].session].at = "asked"
  /\ link' = [link EXCEPT ![task[t].session].at = "shut"]
  /\ \/ task[t].by \in {"startAuth", "pushFrame"} /\ Show("error", shown.socketStatus)
     \/ task[t].by = "recoverSession" /\ Show(shown.phase, "error")
     \/ task[t].by = "onSocketClosed" /\ Show("authenticated", "error")
  /\ task' = [task EXCEPT ![t] = Free]
  /\ UNCHANGED <<store, key, queue, manual, wire, crossed, out>>
-----------------------------------------------------------------------------
(* The bridge *)

\* A bridge connection opens: whatever is queued goes to it.
SessionConnects(k) ==
  /\ link[k].at = "asked"
  /\ link' = [link EXCEPT ![k].at = "open"]
  /\ fed' = [fed EXCEPT ![k] = memory \cup stored]
  /\ memory' = {} /\ stored' = {}
  /\ UNCHANGED <<store, key, manual, shown, task, made, reused, crossed, out>>

\* The dial fails, or an engine ends.  The agent learns at once that the connection is
\* gone, and what its target answered has been pushed by then.
SessionEnds(k) ==
  /\ link[k].at # "shut"
  /\ link' = [link EXCEPT ![k] = Shut(@)]
  /\ UNCHANGED <<store, key, queue, manual, shown, task, wire, crossed, out>>

\* pushFrame of a frame that answers exchange e.
PushFrame(k, e) ==
  /\ k \in Opened /\ e \in fed[k]
  /\ \E s \in Loaded : \E r \in Outcomes(s, e) :
       /\ Save(r.snapshot)
       /\ Execute(r.snapshot, r.sends)
       /\ Show(PhaseOf(r.snapshot.value),
               IF r.snapshot.value = "ready" THEN "connected" ELSE shown.socketStatus)
  /\ UNCHANGED <<key, manual, task, link, crossed, out>>

\* ... which moves the account: a reconnect command and the first frame of the new
\* exchange.
PushMigration(t, k, e) ==
  /\ k \in Opened /\ e \in fed[k] /\ task[t] = Free
  /\ \E s \in Loaded : Migrates(s, e)
  /\ Len(made) < MaxExchange
  /\ made' = Append(made, 0)
  /\ Save(Begin)
  /\ \/ key # 0 /\ Reconnect(t, "pushFrame", Begin, link) /\ UNCHANGED shown
     \/ /\ key = 0 /\ Show("connecting", shown.socketStatus)
        /\ UNCHANGED <<key, queue, task, link, fed, crossed>>
  /\ UNCHANGED <<manual, reused, out>>

\* onSocketClosed, told neither of which session nor that it is the second time.
OnSocketClosed(t, k) ==
  /\ link[k].due > 0
  /\ manual' = FALSE
  /\ LET heard == [link EXCEPT ![k].due = @ - 1] IN
       \/ /\ ~manual /\ shown.phase = "authenticated" /\ task[t] = Free
          /\ \E s \in Loaded : May(s) /\ Reconnect(t, "onSocketClosed", s, heard)
          /\ UNCHANGED shown
       \/ /\ \/ manual /\ Show(shown.phase, "disconnected")
             \/ /\ ~manual /\ shown.phase = "authenticated" /\ Loaded = {}
                /\ Show("authenticated", "error")
             \/ /\ ~manual /\ shown.phase # "authenticated"
                /\ Show("error", "error")
          /\ link' = heard
          /\ Crosses(PendingOf(k))
          /\ UNCHANGED <<key, queue, task, fed>>
  /\ UNCHANGED <<store, made, reused, out>>
-----------------------------------------------------------------------------
(* The object *)

\* onConnect of a browser, with #resetIfStale.
BrowserConnects ==
  /\ Stale(shown, key)
  /\ cache' = {}
  /\ shown' = Reset(shown, key)
  /\ UNCHANGED <<saved, key, queue, manual, task, link, wire, crossed, out>>

\* The object is built again from its storage, and onStart runs; the tasks are gone.
Restart ==
  /\ Restarts
  /\ LET state == IF \E s \in saved : s.value = "ready"
                  THEN [phase |-> "authenticated", socketStatus |-> "disconnected"] ELSE shown
     IN  /\ shown' = Reset(state, key)
         /\ cache' = IF Stale(state, key) THEN {} ELSE saved
  /\ memory' = {} /\ manual' = FALSE
  /\ task' = [t \in Task |-> Free]
  /\ Crosses(Pending)
  /\ UNCHANGED <<saved, key, stored, link, wire, out>>
-----------------------------------------------------------------------------
Init ==
  /\ cache = {} /\ saved = {} /\ key = 0
  /\ memory = {} /\ stored = {} /\ manual = FALSE
  /\ shown = [phase |-> "idle", socketStatus |-> "disconnected"]
  /\ task = [t \in Task |-> Free]
  /\ link = <<>> /\ fed = <<>>
  /\ made = <<>> /\ reused = FALSE /\ crossed = FALSE /\ out = FALSE

Next ==
  \/ \E t \in Task :
       \/ StartAuth(t) \/ RecoverSession(t)
       \/ SessionCreated(t) \/ SessionRefused(t)
       \/ \E k \in DOMAIN link :
            \/ \E e \in fed[k] : PushMigration(t, k, e)
            \/ OnSocketClosed(t, k)
  \/ Submit \/ RefreshIgnored \/ RecoverMissing \/ Logout \/ Call \/ CloseCurrentSocket
  \/ \E k \in DOMAIN link :
       \/ SessionConnects(k) \/ SessionEnds(k)
       \/ \E e \in fed[k] : PushFrame(k, e)
  \/ BrowserConnects \/ Restart

Spec == Init /\ [][Next]_vars
-----------------------------------------------------------------------------
(* Properties *)

\* Every variable has its type.
TypeOK ==
  /\ cache \subseteq Snapshot /\ saved \subseteq Snapshot
  /\ Cardinality(cache) <= 1 /\ Cardinality(saved) <= 1
  /\ key \in 0 .. Len(link)
  /\ memory \subseteq stored /\ stored \subseteq DOMAIN made
  /\ {manual, reused, crossed, out} \subseteq BOOLEAN
  /\ shown \in [phase : Phase, socketStatus : Status]
  /\ link \in Seq([at : {"asked", "open", "shut"}, for : DOMAIN made, due : 0 .. 2])
  /\ fed \in Seq(SUBSET DOMAIN made) /\ Len(fed) = Len(link)
  /\ made \in Seq(0 .. MaxMessage)
  /\ \A t \in Task :
       \/ task[t] = Free
       \/ Creating(t) /\ task[t].snapshot \in Snapshot /\ task[t].session \in DOMAIN link

\* What is in memory is in storage: an eviction loses nothing.
CacheIsCoherent == cache \subseteq saved

\* A frame that leaves the agent was made from a snapshot that is in storage by
\* then: whatever answers it finds the state that asked.
SentFromStored ==
  [][\A e \in DOMAIN made : made'[e] # made[e] =>
       \E s \in saved' : s.exch = e /\ s.n = made'[e]]_vars

\* While sessions follow each other, the frames written to one belong to the key
\* exchange, and with it the data centre, that it was opened for.
FramesReachTheirTarget ==
  ~crossed => \A k \in DOMAIN link : fed[k] \subseteq {link[k].for}

\* While sessions follow each other, no message id or sequence number is used
\* again: what ran during an await is not undone on the wire.
NumbersRise == ~reused

\* A browser that reads "connected" or "connecting" has a reason to wait: a session
\* that is open or on its way, or the notification of its end.
StatusIsGrounded ==
  ~crossed /\ shown.socketStatus \in {"connecting", "connected"} =>
    \/ \E k \in DOMAIN link : link[k].at # "shut" \/ link[k].due > 0
    \/ Pending

\* A browser that reads "authenticated" talks to an account whose session is in
\* storage, ready to be resumed: no interleaving shows one that is gone.
AuthenticatedIsReady ==
  ~crossed /\ ~Pending /\ shown.phase = "authenticated" => \E s \in saved : s.value = "ready"

\* After a logout with no method under way nothing brings the account back: no
\* snapshot in memory or storage, no bridge key, no frame in a queue, no session
\* asked for.
LogoutIsFinal ==
  out => cache = {} /\ saved = {} /\ key = 0 /\ stored = {} /\ ~Pending

\* A session of the account as BridgeSession has it.
SessionState(k) == IF k \in DOMAIN link THEN link[k].at ELSE "none"
NoticesDue(k) == IF k \in DOMAIN link THEN link[k].due ELSE 0

Session(k) == INSTANCE BridgeSession WITH state <- SessionState(k), due <- NoticesDue(k)

\* Whatever the account's methods do, each of its sessions is one of BridgeSession: the
\* agent is modelled on what BridgeLink was shown to give it, and no more.
KeepsSessions ==
  /\ \A k \in 1 .. MaxSession : Session(k)!Init
  /\ [][\A k \in 1 .. MaxSession : [Session(k)!Next]_(Session(k)!session)]_vars
=============================================================================
