------------------------------ MODULE ZaloAgent ------------------------------
(***************************************************************************)
(* ZaloAgent: the Durable Object of one Zalo account.  It drives the       *)
(* reducer of ZaloSession, asks for bridge sessions, and shows a phase and *)
(* a socket status to the user's browser.                                  *)
(*                                                                         *)
(* Its methods interleave where they await: the QR login and the check of  *)
(* credentials over HTTP, the call to DurableSocket that opens a bridge    *)
(* session, and the decryption of a frame.  A method waiting at one of     *)
(* these is a task.  Bridge sessions behave as in BridgeLink: they connect *)
(* or fail, end at any time, and their end is notified twice.              *)
(***************************************************************************)
EXTENDS ZaloSession, FiniteSets

CONSTANTS
  Task,        \* methods that may be waiting at the same time
  MaxSession,  \* bound: bridge sessions asked for
  Restarts     \* the object may be restarted

ASSUME AgentAssumption ==
  /\ MaxSession \in Nat \ {0}
  /\ Restarts \in BOOLEAN

VARIABLES
  snapshot,  \* set of at most one snapshot: this.snapshot
  saved,     \* set of at most one snapshot: the one in storage
  creds,     \* credentials and profile, in memory and in storage alike
  current,   \* bridge_socket_key, 0 for none
  ping,      \* the ping timer runs
  shown,     \* [phase, socketStatus] of the broadcast state
  task,      \* what each task waits for
  link,      \* the sessions asked for, each "asked", "refused", "open" or "shut"
  notices,   \* notifications of a session's end sent so far, <<session, path>>
  told,      \* those of them the agent has handled
  stale      \* history: a frame's result has replaced a snapshot it was not made from

local == <<snapshot, saved, creds, current, ping, shown>>
bridge == <<link, notices>>
vars == <<local, task, bridge, told, stale>>

Phase == {"idle", "qr_pending", "qr_scanned", "authenticating", "recovering",
          "authenticated", "error"}
Status == {"disconnected", "connecting", "connected", "error"}

Free == [at |-> "free"]
-----------------------------------------------------------------------------
(* The broadcast state *)

MapPhase(value) ==
  CASE value = "idle" -> "idle"
    [] value \in {"qr_connecting", "qr_awaiting_scan"} -> "qr_pending"
    [] value = "qr_scanned" -> "qr_scanned"
    [] value = "cred_logging_in" -> "authenticating"
    [] value \in {"ws_connecting", "logged_in", "reconnecting"} -> "recovering"
    [] value = "listening" -> "authenticated"
    [] value \in {"error", "qr_expired"} -> "error"

\* normalizeState, which patchState applies; the methods that call setState themselves
\* show states it leaves alone.
Normalize(state, held) ==
  IF state.socketStatus = "connected" /\ held
     /\ state.phase \in {"authenticating", "recovering"}
  THEN [state EXCEPT !.phase = "authenticated"] ELSE state

Show(phase, status, held) == Normalize([phase |-> phase, socketStatus |-> status], held)

\* deriveRestoredState
Restored(s, held) ==
  LET p == IF held /\ MapPhase(s.value) = "authenticating" THEN "recovering"
           ELSE MapPhase(s.value)
  IN  Show(p, CASE p = "authenticated" -> "connected"
                [] p \in {"recovering", "authenticating"} -> "connecting"
                [] p = "error" -> "error"
                [] OTHER -> "disconnected", held)

\* processEvents
AfterEvent(state, event, held) ==
  CASE event = "qr_ready" -> Show("qr_pending", state.socketStatus, held)
    [] event = "qr_scanned" -> Show("qr_scanned", state.socketStatus, held)
    [] event = "login_success" -> Show("recovering", "connecting", held)
    [] event = "frame" /\ held /\ state.phase # "authenticated" ->
         Show("authenticated", "connected", held)
    [] OTHER -> state
-----------------------------------------------------------------------------
(* Bridge sessions *)

Has(result, command) == \E i \in DOMAIN result.commands : result.commands[i] = command

\* closeBridgeSocket: open connections are closed, a session still dialling is not.
Closed(l) == [k \in DOMAIN l |-> IF l[k] = "open" THEN "shut" ELSE l[k]]

EndNotices(l) == {k \in DOMAIN l : l[k] = "open"} \X {"data", "control"}

\* Mutant: the key stored is not the one asked for.
ReconnectNextKey(t, m) ==
  /\ Len(link) < MaxSession
  /\ notices' = notices \cup EndNotices(link)
  /\ current' = Len(link) + 2
  /\ link' = Append(Closed(link), "asked")
  /\ task' = [task EXCEPT ![t] = [at |-> "creating", by |-> m, session |-> Len(link) + 1]]

\* closeBridgeSocket and createBridgeSocket up to its await, which method m makes
\* as task t.  A request that the end of the object keeps from DurableSocket is one
\* refused before a Restart: the snapshot is stored, and nobody waits for an answer.
Reconnect(t, m) ==
  /\ Len(link) < MaxSession
  /\ notices' = notices \cup EndNotices(link)
  /\ current' = 0
  /\ \E answer \in {"asked", "refused"} : link' = Append(Closed(link), answer)
  /\ task' = [task EXCEPT ![t] = [at |-> "creating", by |-> m, session |-> Len(link) + 1]]

\* applyTransition up to the commands: the snapshot is kept and stored, the state
\* shown, the ping timer started or stopped.
ShownBy(r) ==
  LET phase == MapPhase(r.snapshot.value) IN
  Show(phase, CASE phase = "authenticated" -> "connected"
                [] phase = "recovering" -> "connecting"
                [] phase = "error" -> "error"
                [] OTHER -> shown.socketStatus, creds)

Keep(r, running) ==
  /\ snapshot' = {r.snapshot}
  /\ saved' = IF Has(r, "clear_credentials") THEN {} ELSE {r.snapshot}
  /\ creds' = (Has(r, "persist_credentials") \/ (creds /\ ~Has(r, "clear_credentials")))
  /\ ping' = CASE MapPhase(r.snapshot.value) = "authenticated" -> TRUE
               [] MapPhase(r.snapshot.value) = "error" -> FALSE
               [] OTHER -> running

\* ... and the rest of it for a result without a reconnect command.
Process(r) ==
  /\ shown' = AfterEvent(ShownBy(r), r.event, creds')
  /\ current' = IF Has(r, "clear_credentials") THEN 0 ELSE current
  /\ UNCHANGED bridge

\* applyTransition as the last step of method m.  It waits, as task t, for the
\* session that a reconnect command asks for, and ends otherwise.
Apply(r, t, m) ==
  /\ Keep(r, ping /\ m # "onSocketClosed")
  /\ \/ /\ Has(r, "reconnect")
        /\ shown' = ShownBy(r)
        /\ Reconnect(t, m)
     \/ /\ ~Has(r, "reconnect")
        /\ Process(r)
        /\ task' = [task EXCEPT ![t] = Free]

\* The answer of a login, given to the snapshot the agent has by now.
Succeed(t, m) ==
  /\ \E s \in snapshot :
       Apply(Transition(s, "http_login_creds_result", LoginSucceeded(s)), t, m)
  /\ UNCHANGED <<told, stale>>

FailLogin(t, m) ==
  /\ \E s \in snapshot : Apply(Transition(s, "http_login_failed", LoginFailed(s)), t, m)
  /\ UNCHANGED <<told, stale>>

Fail(t, status) ==
  /\ shown' = Show("error", status, creds)
  /\ task' = [task EXCEPT ![t] = Free]
  /\ UNCHANGED <<snapshot, saved, creds, current, ping, bridge, told, stale>>

Return(t) ==
  /\ task' = [task EXCEPT ![t] = Free]
  /\ UNCHANGED <<local, bridge, told, stale>>

Waiting(t, at) == task[t].at = at
-----------------------------------------------------------------------------
(* Logins *)

\* initiateQRLogin up to its await of performQRLogin.  The panel that calls it names
\* the request's origin, so resolveRequestOrigin does not throw; nor in recoverSession.
StartQRLogin(t) ==
  /\ Waiting(t, "free")
  /\ snapshot' = {CreateSession("qr")} /\ saved' = snapshot'
  /\ shown' = Show("qr_pending", "disconnected", creds)
  /\ task' = [task EXCEPT ![t] = [at |-> "qr"]]
  /\ UNCHANGED <<creds, current, ping, bridge, told, stale>>

\* onQrReady and onScanned: the login goes on waiting.
QRCallback(t, next, results, phase) ==
  /\ task' = [task EXCEPT ![t] = [at |-> next]]
  /\ \/ /\ \E r \in results : Keep(r, ping) /\ Process(r)
        /\ UNCHANGED <<told, stale>>
     \/ /\ snapshot = {}
        /\ shown' = Show(phase, shown.socketStatus, creds)
        /\ UNCHANGED <<snapshot, saved, creds, current, ping, bridge, told, stale>>

OnQRReady(t) ==
  /\ Waiting(t, "qr")
  /\ QRCallback(t, "shown", {Transition(s, "http_login_qr_result", QRShown(s)) : s \in snapshot},
                "qr_pending")

OnScanned(t) ==
  /\ Waiting(t, "shown")
  /\ QRCallback(t, "scanned", {Transition(s, "qr_scan_event", QRScanned(s)) : s \in snapshot},
                "qr_scanned")

QRLoginSucceeds(t) ==
  /\ Waiting(t, "scanned")
  /\ IF snapshot = {} THEN Return(t)
     ELSE Succeed(t, "initiateQRLogin")

QRLoginFails(t) ==
  /\ task[t].at \in {"qr", "shown", "scanned"}
  /\ IF snapshot = {} THEN Fail(t, shown.socketStatus)
     ELSE FailLogin(t, "initiateQRLogin")

\* submitCredentials up to its await of validatePersistedSession.
StartSubmit(t) ==
  /\ Waiting(t, "free")
  /\ snapshot' = {CreateSession("credentials")} /\ saved' = snapshot'
  /\ shown' = Show("authenticating", "connecting", creds)
  /\ task' = [task EXCEPT ![t] = [at |-> "submit"]]
  /\ UNCHANGED <<creds, current, ping, bridge, told, stale>>

SubmitAnswered(t) ==
  /\ Waiting(t, "submit")
  /\ IF snapshot = {} THEN Return(t)
     ELSE Succeed(t, "submitCredentials") \/ FailLogin(t, "submitCredentials")

\* recoverSession up to its await of validatePersistedSession.
StartRecover(t) ==
  /\ Waiting(t, "free") /\ creds
  /\ shown' = Show("recovering", "connecting", creds)
  /\ task' = [task EXCEPT ![t] = [at |-> "recover"]]
  /\ UNCHANGED <<snapshot, saved, creds, current, ping, bridge, told, stale>>

\* The session is rebuilt from the credentials, whatever the agent has by now.
RecoverValidated(t) ==
  /\ Waiting(t, "recover")
  /\ creds' = TRUE
  /\ snapshot' = {LoginSucceeded(CreateSession("credentials")).snapshot}
  /\ saved' = snapshot'
  /\ Reconnect(t, "recoverSession")
  /\ UNCHANGED <<ping, shown, told, stale>>

RecoverRefused(t) == Waiting(t, "recover") /\ Fail(t, "error")

\* Mutant: the stored snapshot is not deleted.
LogoutKeepsSnapshot ==
  /\ snapshot' = {} /\ creds' = FALSE
  /\ ping' = FALSE /\ current' = 0
  /\ shown' = Show("idle", "disconnected", FALSE)
  /\ link' = Closed(link) /\ notices' = notices \cup EndNotices(link)
  /\ UNCHANGED <<saved, task, told, stale>>

\* logout: the credentials are cleared, as the machine may have asked already, the
\* bridge is closed and the snapshot dropped.
Logout ==
  /\ snapshot' = {} /\ saved' = {} /\ creds' = FALSE
  /\ ping' = FALSE /\ current' = 0
  /\ shown' = Show("idle", "disconnected", FALSE)
  /\ link' = Closed(link) /\ notices' = notices \cup EndNotices(link)
  /\ UNCHANGED <<task, told, stale>>
-----------------------------------------------------------------------------
(* createBridgeSocket after its await *)

SessionCreated(t) ==
  /\ Waiting(t, "creating") /\ link[task[t].session] # "refused"
  /\ current' = task[t].session
  /\ CASE task[t].by \in {"initiateQRLogin", "submitCredentials"} ->
            /\ shown' = AfterEvent(shown, "login_success", creds)
            /\ UNCHANGED ping
       [] task[t].by = "recoverSession" ->
            /\ shown' = Show("authenticated", "connected", creds)
            /\ ping' = TRUE
       [] task[t].by = "onSocketClosed" -> UNCHANGED <<shown, ping>>
  /\ task' = [task EXCEPT ![t] = Free]
  /\ UNCHANGED <<snapshot, saved, creds, bridge, told, stale>>

\* It throws, and the method catches.
SessionRefused(t) ==
  /\ Waiting(t, "creating") /\ link[task[t].session] = "refused"
  /\ \/ task[t].by = "initiateQRLogin" /\ snapshot # {} /\ FailLogin(t, "initiateQRLogin")
     \/ task[t].by = "initiateQRLogin" /\ snapshot = {} /\ Fail(t, shown.socketStatus)
     \/ task[t].by = "submitCredentials" /\ Fail(t, shown.socketStatus)
     \/ task[t].by \in {"recoverSession", "onSocketClosed"} /\ Fail(t, "error")
-----------------------------------------------------------------------------
(* The bridge *)

SessionConnects(k) ==
  /\ link[k] = "asked"
  /\ link' = [link EXCEPT ![k] = "open"]
  /\ UNCHANGED <<local, task, notices, told, stale>>

\* The dial fails, or an engine ends: a connection that was open is closed, and
\* session_closed sent either way.
SessionEnds(k) ==
  /\ link[k] \in {"asked", "open"}
  /\ link' = [link EXCEPT ![k] = "shut"]
  /\ notices' = notices \cup
       ({k} \X (IF link[k] = "open" THEN {"data", "control"} ELSE {"control"}))
  /\ UNCHANGED <<local, task, told, stale>>

\* pushFrame.
PushFrame(k) ==
  /\ link[k] = "open"
  /\ \E s \in snapshot :
       \E frame \in Frames(s, k) :
         LET r == Transition(s, "inbound_frame", frame) IN Keep(r, ping) /\ Process(r)
  /\ UNCHANGED <<task, told, stale>>

\* A frame that may be encrypted: its result, made from the snapshot of now, is
\* applied later.
DecryptFrame(t, k) ==
  /\ Waiting(t, "free") /\ link[k] = "open"
  /\ \E s \in snapshot : \E frame \in Frames(s, k) :
       /\ CanHandle(s.value, "inbound_frame") /\ s.key # NoKey
       /\ task' = [task EXCEPT ![t] = [at |-> "decrypting", from |-> s, result |-> frame]]
  /\ UNCHANGED <<local, bridge, told, stale>>

FrameDecrypted(t) ==
  /\ Waiting(t, "decrypting")
  /\ Apply(task[t].result, t, "pushFrame")
  /\ stale' = (stale \/ snapshot # {task[t].from})
  /\ UNCHANGED told

\* onSocketClosed, told neither of which session nor of a sign-out elsewhere: the
\* bridge drops the target's close code, and DurableSocket says 1006.
OnSocketClosed(t, k, path) ==
  /\ Waiting(t, "free") /\ <<k, path>> \in notices \ told
  /\ told' = told \cup {<<k, path>>}
  /\ UNCHANGED stale
  /\ IF snapshot = {}
     THEN /\ shown' = Show(shown.phase, "disconnected", creds)
          /\ ping' = FALSE
          /\ UNCHANGED <<snapshot, saved, creds, current, task, bridge>>
     ELSE \E s \in snapshot :
            Apply(Transition(s, "ws_closed", WsClosed(s, FALSE)), t, "onSocketClosed")

\* The object is built again from its storage; the tasks are gone.
Restart ==
  /\ Restarts
  /\ snapshot' = saved
  /\ ping' = FALSE
  /\ \/ \E s \in saved : shown' = Restored(s, creds)
     \/ saved = {} /\ shown' = Show(shown.phase, shown.socketStatus, creds)
  /\ task' = [t \in Task |-> Free]
  /\ UNCHANGED <<saved, creds, current, bridge, told, stale>>
-----------------------------------------------------------------------------
Init ==
  /\ snapshot = {} /\ saved = {} /\ creds = FALSE
  /\ current = 0 /\ ping = FALSE
  /\ shown = [phase |-> "idle", socketStatus |-> "disconnected"]
  /\ task = [t \in Task |-> Free]
  /\ link = <<>> /\ notices = {} /\ told = {} /\ stale = FALSE

Next ==
  \/ \E t \in Task :
       \/ StartQRLogin(t) \/ OnQRReady(t) \/ OnScanned(t)
       \/ QRLoginSucceeds(t) \/ QRLoginFails(t)
       \/ StartSubmit(t) \/ SubmitAnswered(t)
       \/ StartRecover(t) \/ RecoverValidated(t) \/ RecoverRefused(t)
       \/ SessionCreated(t) \/ SessionRefused(t) \/ FrameDecrypted(t)
       \/ \E k \in DOMAIN link :
            \/ DecryptFrame(t, k)
            \/ \E path \in {"data", "control"} : OnSocketClosed(t, k, path)
  \/ \E k \in DOMAIN link : SessionConnects(k) \/ SessionEnds(k) \/ PushFrame(k)
  \/ Logout \/ Restart

Spec == Init /\ [][Next]_vars
-----------------------------------------------------------------------------
(* Properties *)

\* Every variable has its type.
TypeOK ==
  /\ snapshot \subseteq Snapshot /\ saved \subseteq Snapshot
  /\ Cardinality(snapshot) <= 1 /\ Cardinality(saved) <= 1
  /\ {creds, ping, stale} \subseteq BOOLEAN
  /\ current \in 0 .. Len(link)
  /\ shown \in [phase : Phase, socketStatus : Status]
  /\ \A t \in Task : task[t].at \in {"free", "qr", "shown", "scanned", "submit", "recover",
                                     "creating", "decrypting"}
  /\ link \in Seq({"asked", "refused", "open", "shut"})
  /\ told \subseteq notices /\ notices \subseteq (DOMAIN link) \X {"data", "control"}

Online == {"ws_connecting", "listening", "reconnecting"}

\* A session that listens has the server's key, and one that is online the
\* credentials and the address to reconnect with.
SessionIsComplete ==
  \A s \in snapshot \cup saved :
    /\ s.value = "listening" => s.key # NoKey
    /\ s.value = "reconnecting" => s.key = NoKey
    /\ s.value \in Online => s.creds /\ s.url

\* A restart never finds an online session without stored credentials, as long as
\* no frame's stale result was applied.
SavedHasCredentials ==
  \A s \in saved : s.value \in Online => creds \/ stale

\* A session that is connecting always has something to wait for: a bridge
\* session or the notification of the end of one; or its last request for a
\* session was refused.  So it is after a restart, when no method is under way.
ConnectingHasSession ==
  \A s \in snapshot :
    s.value \in {"ws_connecting", "reconnecting"} =>
      \/ \E k \in DOMAIN link : link[k] \in {"asked", "open"}
      \/ notices # told
      \/ link[Len(link)] = "refused"
      \/ stale

\* While it reconnects, only the end of the session it reconnects with makes the
\* agent give up.
ReconnectSurvivesStaleClose ==
  [][\A s \in snapshot, n \in told' \ told :
       s.value = "reconnecting" /\ n[1] # Len(link) => \A u \in snapshot' : u.value # "error"]_vars

\* A session of the account as BridgeSession has it; of one refused the bridge never
\* knew.
SessionState(k) ==
  IF k \notin DOMAIN link \/ link[k] = "refused" THEN "none" ELSE link[k]

Untold(k, path) == IF <<k, path>> \in notices \ told THEN 1 ELSE 0
NoticesDue(k) == Untold(k, "data") + Untold(k, "control")

Session(k) == INSTANCE BridgeSession WITH state <- SessionState(k), due <- NoticesDue(k)

\* Whatever the account's methods do, each of its sessions is one of BridgeSession: the
\* agent is modelled on what BridgeLink was shown to give it, and no more.
KeepsSessions ==
  /\ \A k \in 1 .. MaxSession : Session(k)!Init
  /\ [][\A k \in 1 .. MaxSession : [Session(k)!Next]_(Session(k)!session)]_vars
=============================================================================
