--------------------------- MODULE ZaloAgent_proofs ---------------------------
(***************************************************************************)
(* Proofs about ZaloAgent, for any number of tasks and bridge sessions:    *)
(* the types, the session a snapshot describes is complete, a restart      *)
(* finds no online session without credentials, and a connecting session   *)
(* has something to wait for.                                              *)
(***************************************************************************)
EXTENDS ZaloAgent, FiniteSetTheorems, TLAPS

LinkState == {"asked", "refused", "open", "shut"}

\* What a snapshot must be whatever the rest of the state.
Complete(s) ==
  /\ s \in Snapshot
  /\ s.value = "listening" => s.key # NoKey
  /\ s.value = "reconnecting" => s.key = NoKey
  /\ s.value \in Online => s.creds /\ s.url

Connecting(s) == s.value \in {"ws_connecting", "reconnecting"}

\* Only sessions that are shut have notices, and only sent notices are told.
LinksOK ==
  /\ link \in Seq(LinkState)
  /\ notices \subseteq (DOMAIN link) \X {"data", "control"}
  /\ \A n \in notices : link[n[1]] = "shut"
  /\ told \subseteq notices

Waits ==
  \/ \E k \in DOMAIN link : link[k] \in {"asked", "open"}
  \/ notices # told
  \/ link[Len(link)] = "refused"
  \/ stale

SnapshotsOK ==
  /\ creds \in BOOLEAN /\ stale \in BOOLEAN
  /\ saved = snapshot
  /\ \A s \in snapshot :
       /\ Complete(s)
       /\ s.value \in Online => creds \/ stale
       /\ Connecting(s) => Waits

\* What a transition makes of a complete snapshot.
Follows(s, type, r) ==
  /\ Complete(r.snapshot)
  /\ ~Has(r, "clear_credentials")
  /\ r.snapshot.value \in Online => s.value \in Online \/ Has(r, "persist_credentials")
  /\ Connecting(r.snapshot) =>
       Has(r, "reconnect") \/ (Connecting(s) /\ type # "ws_closed")

\* The result of a frame being decrypted follows from the snapshot it was made from.
FrameFollows(s, r) == Follows(s, "inbound_frame", r) /\ ~Has(r, "reconnect")

TasksOK ==
  /\ task = [t \in Task |-> task[t]]
  /\ \A t \in Task : task[t].at = "decrypting" => FrameFollows(task[t].from, task[t].result)

AgentInv == LinksOK /\ SnapshotsOK /\ TasksOK
-----------------------------------------------------------------------------
(* The reducer *)

\* Which commands the sequences the reducer returns hold.
LEMMA CommandsHeld ==
  ASSUME NEW s, NEW event, NEW c
  PROVE /\ ~Has(Result(s, <<>>, event), c)
        /\ Has(Result(s, <<"send_ping">>, event), c) <=> c = "send_ping"
        /\ Has(Result(s, <<"reconnect", "send_ping">>, event), c)
             <=> c \in {"reconnect", "send_ping"}
        /\ Has(Result(s, <<"persist_credentials", "reconnect", "send_ping">>, event), c)
             <=> c \in {"persist_credentials", "reconnect", "send_ping"}
BY DEF Has, Result

\* A result without commands whose snapshot is no further than before follows.
LEMMA Unchanged ==
  ASSUME NEW s, Complete(s), NEW type, NEW event,
         type = "ws_closed" => ~Connecting(s)
  PROVE Follows(s, type, Result(s, <<>>, event))
BY CommandsHeld DEF Follows, Result

\* A transition the machine does not have leaves the snapshot; one it has follows
\* if its handler's result does.
LEMMA TransitionFollows ==
  ASSUME NEW s, Complete(s), NEW type, NEW result,
         CanHandle(s.value, type) => Follows(s, type, result)
  PROVE Follows(s, type, Transition(s, type, result))
<1>1. ~CanHandle(s.value, type) /\ type = "ws_closed" => ~Connecting(s)
  BY DEF CanHandle, Reconnecting, Connecting
<1> QED BY <1>1, Unchanged DEF Transition

\* The result of each event follows from a snapshot that can handle it.
LEMMA ResultsFollow ==
  ASSUME NEW s, Complete(s), NEW key \in Nat \ {0}
  PROVE /\ Follows(s, "inbound_frame", CipherKey(s, key))
        /\ Follows(s, "inbound_frame", DuplicateConnection(s))
        /\ Follows(s, "inbound_frame", PingFrame(s))
        /\ Follows(s, "inbound_frame", DataFrame(s))
        /\ Follows(s, "ws_closed", WsClosed(s, FALSE))
        /\ Follows(s, "http_login_qr_result", QRShown(s))
        /\ CanHandle(s.value, "qr_scan_event") => Follows(s, "qr_scan_event", QRScanned(s))
        /\ CanHandle(s.value, "http_login_creds_result") =>
             Follows(s, "http_login_creds_result", LoginSucceeded(s))
        /\ Follows(s, "http_login_failed", LoginFailed(s))
<1>0. s \in Snapshot
  BY DEF Complete
<1> USE <1>0 DEF Complete, Connecting, Snapshot, Value, NoKey, Online, Follows, Result
<1>1. Follows(s, "inbound_frame", CipherKey(s, key))
  <2>1. CASE s.value \in {"ws_connecting", "reconnecting"}
    BY <2>1, CommandsHeld DEF CipherKey
  <2>2. CASE s.value \notin {"ws_connecting", "reconnecting"}
    BY <2>2, CommandsHeld DEF CipherKey
  <2> QED BY <2>1, <2>2
<1>2. Follows(s, "inbound_frame", DuplicateConnection(s))
  BY CommandsHeld DEF DuplicateConnection
<1>3. /\ Follows(s, "inbound_frame", PingFrame(s))
      /\ Follows(s, "inbound_frame", DataFrame(s))
  BY CommandsHeld DEF PingFrame, DataFrame
<1>4. Follows(s, "ws_closed", WsClosed(s, FALSE))
  <2>1. CASE s.value = "listening"
    BY <2>1, CommandsHeld DEF WsClosed
  <2>2. CASE s.value # "listening"
    BY <2>2, CommandsHeld DEF WsClosed
  <2> QED BY <2>1, <2>2
<1>5. Follows(s, "http_login_qr_result", QRShown(s))
  BY CommandsHeld DEF QRShown
<1>6. Follows(s, "qr_scan_event", QRScanned(s))
  BY CommandsHeld DEF QRScanned
<1>7. ASSUME CanHandle(s.value, "http_login_creds_result")
      PROVE  Follows(s, "http_login_creds_result", LoginSucceeded(s))
  <2>1. s.value # "reconnecting" /\ s.value # "listening"
    BY <1>7 DEF CanHandle, Reconnecting
  <2> QED BY <2>1, CommandsHeld DEF LoginSucceeded
<1>8. Follows(s, "http_login_failed", LoginFailed(s))
  BY CommandsHeld DEF LoginFailed
<1> QED BY <1>1, <1>2, <1>3, <1>4, <1>5, <1>6, <1>7, <1>8
-----------------------------------------------------------------------------
(* Bridge sessions *)

\* Closing the open connections changes nothing else of a sequence of sessions.
LEMMA ClosedLinks ==
  ASSUME NEW l \in Seq(LinkState)
  PROVE /\ Closed(l) \in Seq(LinkState) /\ Len(Closed(l)) = Len(l)
        /\ DOMAIN Closed(l) = DOMAIN l
        /\ \A k \in DOMAIN l : Closed(l)[k] = IF l[k] = "open" THEN "shut" ELSE l[k]
BY DEF Closed, LinkState

\* ... and keeps what is known of the notices.
LEMMA ClosedOK ==
  ASSUME LinksOK, link' = Closed(link), notices' = notices \cup EndNotices(link),
         told' \subseteq notices
  PROVE LinksOK'
<1>1. link \in Seq(LinkState)
  BY DEF LinksOK
<1>2. \A n \in notices' : n \in (DOMAIN link) \X {"data", "control"}
                           /\ (link[n[1]] = "shut" \/ link[n[1]] = "open")
  BY DEF LinksOK, EndNotices
<1> QED BY <1>1, <1>2, ClosedLinks DEF LinksOK

\* A new session is the last one, and asked for or refused.
LEMMA ReconnectOK ==
  ASSUME LinksOK, NEW t, NEW m, Reconnect(t, m), told' \subseteq notices
  PROVE LinksOK' /\ Waits'
<1>1. PICK answer \in {"asked", "refused"} : link' = Append(Closed(link), answer)
  BY DEF Reconnect
<1>2. /\ Closed(link) \in Seq(LinkState) /\ Len(Closed(link)) = Len(link)
      /\ DOMAIN Closed(link) = DOMAIN link /\ DOMAIN link = 1 .. Len(link)
      /\ \A k \in DOMAIN link : Closed(link)[k] = IF link[k] = "open" THEN "shut" ELSE link[k]
  BY ClosedLinks DEF LinksOK
<1>3. /\ link' \in Seq(LinkState) /\ Len(link') = Len(link) + 1
      /\ DOMAIN link' = 1 .. Len(link) + 1
      /\ link'[Len(link')] = answer
      /\ \A k \in DOMAIN link : link'[k] = Closed(link)[k] /\ k \in DOMAIN link'
  BY <1>1, <1>2 DEF LinkState
<1>4. \A n \in notices' : n \in (DOMAIN link) \X {"data", "control"}
                           /\ (link[n[1]] = "shut" \/ link[n[1]] = "open")
  BY DEF LinksOK, EndNotices, Reconnect
<1>5. told' \subseteq notices'
  BY DEF Reconnect
<1>6. LinksOK'
  BY <1>2, <1>3, <1>4, <1>5 DEF LinksOK
<1>7. Waits'
  BY <1>3, Len(link) \in Nat, LinksOK DEF Waits, LinksOK
<1> QED BY <1>6, <1>7

\* A result that follows from the agent's snapshot, kept and carried out.
LEMMA ResultOK ==
  ASSUME LinksOK, SnapshotsOK,
         NEW s \in snapshot, NEW type, NEW r, Follows(s, type, r),
         NEW running, Keep(r, running), stale' = stale,
         told' \subseteq notices, type # "ws_closed" => told' = told,
         \/ Has(r, "reconnect") /\ \E t, m : Reconnect(t, m)
         \/ ~Has(r, "reconnect") /\ UNCHANGED bridge
  PROVE LinksOK' /\ SnapshotsOK'
<1>1. /\ LinksOK'
      /\ Has(r, "reconnect") => Waits'
      /\ ~Has(r, "reconnect") => UNCHANGED bridge
  <2>1. CASE Has(r, "reconnect")
    BY <2>1, ReconnectOK
  <2>2. CASE ~Has(r, "reconnect")
    BY <2>2 DEF LinksOK, bridge
  <2> QED BY <2>1, <2>2
<1>2. /\ snapshot' = {r.snapshot} /\ saved' = {r.snapshot}
      /\ creds' = (Has(r, "persist_credentials") \/ creds)
  BY DEF Keep, Follows
<1>3. Complete(r.snapshot)
  BY DEF Follows
<1>4. r.snapshot.value \in Online => creds' \/ stale'
  BY <1>2 DEF SnapshotsOK, Follows
<1>5. ASSUME Connecting(r.snapshot) PROVE Waits'
  <2>1. CASE Has(r, "reconnect")
    BY <1>1, <2>1
  <2>2. CASE ~Has(r, "reconnect")
    <3>1. Connecting(s) /\ told' = told
      BY <1>5, <2>2 DEF Follows
    <3>2. Waits
      BY <3>1 DEF SnapshotsOK
    <3>3. link' = link /\ notices' = notices
      BY <1>1, <2>2 DEF bridge
    <3> QED BY <3>1, <3>2, <3>3 DEF Waits
  <2> QED BY <2>1, <2>2
<1>6. creds' \in BOOLEAN /\ stale' \in BOOLEAN
  BY <1>2 DEF SnapshotsOK
<1> QED BY <1>1, <1>2, <1>3, <1>4, <1>5, <1>6 DEF SnapshotsOK, Connecting, Complete
-----------------------------------------------------------------------------
(* The agent *)

\* A task may start or end, or wait for something else, but a frame's result must
\* follow from its snapshot.
LEMMA TaskOK ==
  ASSUME TasksOK, NEW t \in Task, NEW rec, task' = [task EXCEPT ![t] = rec],
         rec.at = "decrypting" => FrameFollows(rec.from, rec.result)
  PROVE TasksOK'
<1>1. \A u \in Task : task'[u] = IF u = t THEN rec ELSE task[u]
  BY DEF TasksOK
<1>2. task' = [u \in Task |-> task'[u]]
  BY DEF TasksOK
<1> QED BY <1>1, <1>2
        DEF TasksOK, FrameFollows, Follows, Complete, Connecting, Has

\* Tasks that stay the same stay correct.
LEMMA TasksSame == ASSUME TasksOK, task' = task PROVE TasksOK'
BY DEF TasksOK, FrameFollows, Follows, Complete, Connecting, Has

\* Steps that leave the snapshot and the bridge alone keep the invariant.
LEMMA SameOK ==
  ASSUME LinksOK, SnapshotsOK, UNCHANGED <<snapshot, saved, creds, bridge, told, stale>>
  PROVE LinksOK' /\ SnapshotsOK'
BY DEF LinksOK, SnapshotsOK, bridge, Waits, Complete, Connecting

\* A new snapshot that is not online keeps it too.
LEMMA OfflineOK ==
  ASSUME LinksOK, SnapshotsOK, UNCHANGED <<creds, bridge, told, stale>>,
         NEW s, Complete(s), s.value \notin Online, snapshot' = {s}, saved' = snapshot'
  PROVE LinksOK' /\ SnapshotsOK'
BY DEF LinksOK, SnapshotsOK, bridge, Waits, Complete, Connecting, Online

\* A new session is complete, and not online.
LEMMA CreateSessionOK ==
  ASSUME NEW mode \in {"qr", "credentials"}
  PROVE Complete(CreateSession(mode)) /\ CreateSession(mode).value \notin Online
BY DEF Complete, CreateSession, Snapshot, Value, Online, NoKey

\* applyTransition keeps the invariant.
LEMMA ApplyOK ==
  ASSUME AgentInv, NEW t \in Task, NEW s \in snapshot, NEW type, NEW r, Follows(s, type, r),
         NEW m, Apply(r, t, m), stale' = stale,
         told' \subseteq notices, type # "ws_closed" => told' = told
  PROVE AgentInv'
<1>1. \/ Has(r, "reconnect") /\ \E u, n : Reconnect(u, n)
      \/ ~Has(r, "reconnect") /\ UNCHANGED bridge
  BY DEF Apply, Process
<1>2. LinksOK' /\ SnapshotsOK'
  <2>1. Keep(r, ping /\ m # "onSocketClosed")
    BY DEF Apply
  <2> QED BY <1>1, <2>1, ResultOK DEF AgentInv
<1>3. TasksOK'
  <2>1. CASE Has(r, "reconnect")
    BY <2>1, TaskOK DEF Apply, Reconnect, AgentInv
  <2>2. CASE ~Has(r, "reconnect")
    BY <2>2, TaskOK DEF Apply, Free, AgentInv
  <2> QED BY <2>1, <2>2
<1> QED BY <1>2, <1>3 DEF AgentInv

\* A login that succeeds or fails keeps it.
LEMMA AnswerOK ==
  ASSUME AgentInv, NEW t \in Task, NEW m, Succeed(t, m) \/ FailLogin(t, m)
  PROVE AgentInv'
<1>1. told' \subseteq notices /\ told' = told /\ stale' = stale
  BY DEF Succeed, FailLogin, AgentInv, LinksOK
<1>2. CASE Succeed(t, m)
  <2>1. PICK s \in snapshot :
          Apply(Transition(s, "http_login_creds_result", LoginSucceeded(s)), t, m)
    BY <1>2 DEF Succeed
  <2>2. Complete(s)
    BY DEF AgentInv, SnapshotsOK
  <2>3. Follows(s, "http_login_creds_result",
               Transition(s, "http_login_creds_result", LoginSucceeded(s)))
    BY <2>2, ResultsFollow, TransitionFollows, 1 \in Nat \ {0}
  <2> QED BY <1>1, <2>1, <2>3, ApplyOK
<1>3. CASE FailLogin(t, m)
  <2>1. PICK s \in snapshot :
          Apply(Transition(s, "http_login_failed", LoginFailed(s)), t, m)
    BY <1>3 DEF FailLogin
  <2>2. Complete(s)
    BY DEF AgentInv, SnapshotsOK
  <2>3. Follows(s, "http_login_failed",
               Transition(s, "http_login_failed", LoginFailed(s)))
    BY <2>2, ResultsFollow, TransitionFollows, 1 \in Nat \ {0}
  <2> QED BY <1>1, <2>1, <2>3, ApplyOK
<1> QED BY <1>2, <1>3

\* A method that fails or returns keeps it.
LEMMA EndOK ==
  ASSUME AgentInv, NEW t \in Task, NEW status, Fail(t, status) \/ Return(t)
  PROVE AgentInv'
<1>1. LinksOK' /\ SnapshotsOK'
  BY SameOK DEF Fail, Return, local, AgentInv
<1>2. TasksOK'
  BY TaskOK DEF Fail, Return, Free, AgentInv
<1> QED BY <1>1, <1>2 DEF AgentInv

\* What frames and the callbacks of the QR login bring asks for no session.
LEMMA QuietResults ==
  ASSUME NEW s, NEW type, NEW key,
         NEW result \in Frames(s, key) \cup {QRShown(s), QRScanned(s)}
  PROVE ~Has(result, "reconnect") /\ ~Has(Transition(s, type, result), "reconnect")
<1>1. ~Has(CipherKey(s, key), "reconnect")
  BY CommandsHeld DEF CipherKey
<1>2. /\ ~Has(DuplicateConnection(s), "reconnect")
      /\ ~Has(PingFrame(s), "reconnect") /\ ~Has(DataFrame(s), "reconnect")
      /\ ~Has(QRShown(s), "reconnect") /\ ~Has(QRScanned(s), "reconnect")
  BY CommandsHeld DEF DuplicateConnection, PingFrame, DataFrame, QRShown, QRScanned
<1>3. ~Has(Result(s, <<>>, "none"), "reconnect")
  BY CommandsHeld
<1> QED BY <1>1, <1>2, <1>3 DEF Transition, Frames

\* A frame's result follows from a complete snapshot.
LEMMA FramesFollow ==
  ASSUME NEW s, Complete(s), NEW k \in Nat \ {0}, NEW frame \in Frames(s, k)
  PROVE  /\ FrameFollows(s, frame)
         /\ FrameFollows(s, Transition(s, "inbound_frame", frame))
<1>1. Follows(s, "inbound_frame", frame)
  BY ResultsFollow DEF Frames
<1>2. Follows(s, "inbound_frame", Transition(s, "inbound_frame", frame))
  BY <1>1, TransitionFollows
<1> QED BY <1>1, <1>2, QuietResults DEF FrameFollows

\* Such a result keeps the invariant of the snapshot and the sessions.
LEMMA ProcessOK ==
  ASSUME LinksOK, SnapshotsOK, NEW s \in snapshot, NEW type, NEW r,
         Follows(s, type, r), ~Has(r, "reconnect"),
         NEW running, Keep(r, running), Process(r), UNCHANGED <<told, stale>>
  PROVE LinksOK' /\ SnapshotsOK'
<1>1. told' \subseteq notices /\ told' = told /\ stale' = stale /\ UNCHANGED bridge
  BY DEF LinksOK, Process
<1> QED BY <1>1, ResultOK

\* The callbacks of the QR login keep it.
LEMMA QRCallbackOK ==
  ASSUME AgentInv, NEW t \in Task, OnQRReady(t) \/ OnScanned(t)
  PROVE AgentInv'
<1> DEFINE shownResult(s) == Transition(s, "http_login_qr_result", QRShown(s))
           scannedResult(s) == Transition(s, "qr_scan_event", QRScanned(s))
<1>1. TasksOK'
  <2>1. \E next \in {"shown", "scanned"} : task' = [task EXCEPT ![t] = [at |-> next]]
    BY DEF OnQRReady, OnScanned, QRCallback
  <2> QED BY <2>1, TaskOK DEF AgentInv
<1>2. ASSUME NEW s \in snapshot
      PROVE /\ Follows(s, "http_login_qr_result", shownResult(s))
            /\ Follows(s, "qr_scan_event", scannedResult(s))
            /\ ~Has(shownResult(s), "reconnect") /\ ~Has(scannedResult(s), "reconnect")
  <2>1. Complete(s)
    BY DEF AgentInv, SnapshotsOK
  <2>2. /\ Follows(s, "http_login_qr_result", shownResult(s))
        /\ Follows(s, "qr_scan_event", scannedResult(s))
    BY <2>1, ResultsFollow, TransitionFollows, 1 \in Nat \ {0}
  <2> QED BY <2>2, QuietResults
<1>3. \/ UNCHANGED <<snapshot, saved, creds, bridge, told, stale>>
      \/ \E s \in snapshot : \E r \in {shownResult(s), scannedResult(s)} :
           Keep(r, ping) /\ Process(r) /\ UNCHANGED <<told, stale>>
  BY DEF OnQRReady, OnScanned, QRCallback
<1>4. LinksOK' /\ SnapshotsOK'
  BY <1>2, <1>3, SameOK, ProcessOK DEF AgentInv
<1> QED BY <1>1, <1>4 DEF AgentInv

\* A frame keeps it, applied at once ...
LEMMA PushFrameOK ==
  ASSUME AgentInv, NEW k \in DOMAIN link, PushFrame(k)
  PROVE AgentInv'
<1>1. PICK s \in snapshot : \E frame \in Frames(s, k) :
        LET r == Transition(s, "inbound_frame", frame) IN Keep(r, ping) /\ Process(r)
  BY DEF PushFrame
<1>2. PICK frame \in Frames(s, k) :
        LET r == Transition(s, "inbound_frame", frame) IN Keep(r, ping) /\ Process(r)
  BY <1>1
<1> DEFINE r == Transition(s, "inbound_frame", frame)
<1>3. Complete(s) /\ k \in Nat \ {0}
  BY DEF AgentInv, SnapshotsOK, LinksOK
<1>4. Follows(s, "inbound_frame", r) /\ ~Has(r, "reconnect")
  BY <1>3, FramesFollow DEF FrameFollows
<1>5. UNCHANGED <<told, stale, task>>
  BY DEF PushFrame
<1>6. LinksOK' /\ SnapshotsOK'
  BY <1>2, <1>4, <1>5, ProcessOK DEF AgentInv
<1> QED BY <1>5, <1>6, TasksSame DEF AgentInv

\* ... or later.
LEMMA FrameDecryptedOK ==
  ASSUME AgentInv, NEW t \in Task, FrameDecrypted(t)
  PROVE AgentInv'
<1> DEFINE s == task[t].from
           r == task[t].result
<1>1. Follows(s, "inbound_frame", r) /\ ~Has(r, "reconnect")
  BY DEF FrameDecrypted, Waiting, AgentInv, TasksOK, FrameFollows
<1>2. /\ Keep(r, ping /\ "pushFrame" # "onSocketClosed") /\ Process(r)
      /\ task' = [task EXCEPT ![t] = Free]
      /\ stale' = (stale \/ snapshot # {s}) /\ told' = told
  BY <1>1 DEF FrameDecrypted, Apply
<1>3. TasksOK'
  BY <1>2, TaskOK DEF Free, AgentInv
<1>4. LinksOK' /\ SnapshotsOK'
  <2>1. CASE stale \/ snapshot # {s}
    <3>1. stale' = TRUE /\ UNCHANGED bridge
      BY <1>2, <2>1 DEF Process
    <3>2. snapshot' = {r.snapshot} /\ saved' = snapshot' /\ creds' \in BOOLEAN
      BY <1>1, <1>2 DEF Keep, Follows, AgentInv, SnapshotsOK
    <3>3. Complete(r.snapshot)
      BY <1>1 DEF Follows
    <3> QED BY <1>2, <3>1, <3>2, <3>3
            DEF AgentInv, LinksOK, SnapshotsOK, bridge, Waits, Complete
  <2>2. CASE ~stale /\ snapshot = {s}
    <3>1. s \in snapshot
      BY <2>2
    <3>2. UNCHANGED <<told, stale>>
      BY <1>2, <2>2 DEF AgentInv, SnapshotsOK
    <3> QED BY <1>1, <1>2, <3>1, <3>2, ProcessOK DEF AgentInv
  <2> QED BY <2>1, <2>2
<1> QED BY <1>3, <1>4 DEF AgentInv

\* The end of a session, once told, may open another one or end the login.
LEMMA OnSocketClosedOK ==
  ASSUME AgentInv, NEW t \in Task, NEW k, NEW path, OnSocketClosed(t, k, path)
  PROVE AgentInv'
<1>1. told' \subseteq notices /\ stale' = stale
  BY DEF OnSocketClosed, AgentInv, LinksOK
<1>2. CASE snapshot = {}
  <2>1. UNCHANGED <<snapshot, saved, creds, task, bridge>>
    BY <1>2 DEF OnSocketClosed
  <2> QED BY <1>1, <1>2, <2>1, TasksSame
         DEF AgentInv, LinksOK, SnapshotsOK, bridge, Complete
<1>3. CASE snapshot # {}
  <2>1. PICK s \in snapshot :
          Apply(Transition(s, "ws_closed", WsClosed(s, FALSE)), t, "onSocketClosed")
    BY <1>3 DEF OnSocketClosed
  <2>2. Complete(s)
    BY DEF AgentInv, SnapshotsOK
  <2>3. Follows(s, "ws_closed", Transition(s, "ws_closed", WsClosed(s, FALSE)))
    BY <2>2, ResultsFollow, TransitionFollows, 1 \in Nat \ {0}
  <2> QED BY <1>1, <2>1, <2>3, ApplyOK
<1> QED BY <1>2, <1>3

\* The start of a login replaces the snapshot, or leaves it.
LEMMA StartOK ==
  ASSUME AgentInv, NEW t \in Task, StartQRLogin(t) \/ StartSubmit(t) \/ StartRecover(t)
  PROVE AgentInv'
<1>1. TasksOK'
  <2>1. \E at \in {"qr", "submit", "recover"} : task' = [task EXCEPT ![t] = [at |-> at]]
    BY DEF StartQRLogin, StartSubmit, StartRecover
  <2> QED BY <2>1, TaskOK DEF AgentInv
<1>2. CASE StartQRLogin(t) \/ StartSubmit(t)
  <2>1. \E mode \in {"qr", "credentials"} : snapshot' = {CreateSession(mode)}
    BY <1>2 DEF StartQRLogin, StartSubmit
  <2>2. saved' = snapshot' /\ UNCHANGED <<creds, bridge, told, stale>>
    BY <1>2 DEF StartQRLogin, StartSubmit
  <2>3. LinksOK' /\ SnapshotsOK'
    BY <2>1, <2>2, CreateSessionOK, OfflineOK DEF AgentInv
  <2> QED BY <1>1, <2>3 DEF AgentInv
<1>3. CASE StartRecover(t)
  <2>1. LinksOK' /\ SnapshotsOK'
    BY <1>3, SameOK DEF StartRecover, AgentInv
  <2> QED BY <1>1, <2>1 DEF AgentInv
<1> QED BY <1>2, <1>3

\* A recovery rebuilds the session and asks for a bridge in one step.
LEMMA RecoverValidatedOK ==
  ASSUME AgentInv, NEW t \in Task, RecoverValidated(t)
  PROVE AgentInv'
<1> DEFINE s == LoginSucceeded(CreateSession("credentials")).snapshot
<1>1. Complete(s)
  <2>1. /\ Complete(CreateSession("credentials"))
        /\ CreateSession("credentials").value = "cred_logging_in"
    BY CreateSessionOK DEF CreateSession
  <2>2. CanHandle(CreateSession("credentials").value, "http_login_creds_result")
    BY <2>1 DEF CanHandle
  <2> QED BY <2>1, <2>2, ResultsFollow, 1 \in Nat \ {0} DEF Follows
<1>2. /\ creds' = TRUE /\ snapshot' = {s} /\ saved' = snapshot'
      /\ told' = told /\ stale' = stale /\ Reconnect(t, "recoverSession")
  BY DEF RecoverValidated
<1>3. LinksOK' /\ Waits'
  BY <1>2, ReconnectOK DEF AgentInv, LinksOK
<1>4. TasksOK'
  BY <1>2, TaskOK DEF Reconnect, AgentInv
<1>5. SnapshotsOK'
  BY <1>1, <1>2, <1>3 DEF SnapshotsOK, AgentInv, Complete
<1> QED BY <1>3, <1>4, <1>5 DEF AgentInv

\* A session that ends leaves a notice not yet told.
LEMMA SessionStepOK ==
  ASSUME AgentInv, NEW k \in DOMAIN link, SessionConnects(k) \/ SessionEnds(k)
  PROVE AgentInv'
<1>1. /\ UNCHANGED <<snapshot, saved, creds, task, told, stale>>
      /\ link[k] \in {"asked", "open"}
  BY DEF SessionConnects, SessionEnds, local
<1>2. /\ link \in Seq(LinkState) /\ DOMAIN link = 1 .. Len(link)
      /\ <<k, "control">> \notin told
  BY <1>1 DEF AgentInv, LinksOK
<1>3. CASE SessionConnects(k)
  <2>1. /\ link' \in Seq(LinkState) /\ DOMAIN link' = DOMAIN link /\ Len(link') = Len(link)
        /\ \A n \in DOMAIN link : link'[n] = IF n = k THEN "open" ELSE link[n]
        /\ notices' = notices
    BY <1>2, <1>3 DEF SessionConnects, LinkState
  <2>2. LinksOK' /\ Waits'
    BY <1>1, <1>2, <2>1 DEF AgentInv, LinksOK, Waits
  <2> QED BY <1>1, <2>2, TasksSame DEF AgentInv, SnapshotsOK, Complete
<1>4. CASE SessionEnds(k)
  <2>1. /\ link' \in Seq(LinkState) /\ DOMAIN link' = DOMAIN link /\ Len(link') = Len(link)
        /\ \A n \in DOMAIN link : link'[n] = IF n = k THEN "shut" ELSE link[n]
        /\ notices \subseteq notices'
        /\ notices' \subseteq notices \cup ({k} \X {"data", "control"})
        /\ <<k, "control">> \in notices'
    BY <1>2, <1>4 DEF SessionEnds, LinkState
  <2>2. LinksOK' /\ Waits'
    BY <1>1, <1>2, <2>1 DEF AgentInv, LinksOK, Waits
  <2> QED BY <1>1, <2>2, TasksSame DEF AgentInv, SnapshotsOK, Complete
<1> QED BY <1>3, <1>4

\* A method goes on after its request for a session, ends or fails.
LEMMA SessionAnsweredOK ==
  ASSUME AgentInv, NEW t \in Task, SessionCreated(t) \/ SessionRefused(t)
  PROVE AgentInv'
<1>1. CASE SessionCreated(t)
  <2>1. LinksOK' /\ SnapshotsOK'
    BY <1>1, SameOK DEF SessionCreated, AgentInv
  <2>2. TasksOK'
    BY <1>1, TaskOK DEF SessionCreated, Free, AgentInv
  <2> QED BY <2>1, <2>2 DEF AgentInv
<1>2. CASE SessionRefused(t)
  <2>1. (\E status : Fail(t, status)) \/ FailLogin(t, "initiateQRLogin")
    BY <1>2 DEF SessionRefused
  <2> QED BY <2>1, EndOK, AnswerOK
<1> QED BY <1>1, <1>2
-----------------------------------------------------------------------------
(* The theorems *)

LEMMA InitOK == Init => AgentInv
<1> SUFFICES ASSUME Init PROVE AgentInv
  OBVIOUS
<1>1. LinksOK
  BY DEF Init, LinksOK
<1>2. SnapshotsOK
  BY DEF Init, SnapshotsOK
<1>3. TasksOK
  <2>1. \A t \in Task : task[t].at = "free"
    BY DEF Init, Free
  <2> QED BY <2>1 DEF Init, TasksOK
<1> QED BY <1>1, <1>2, <1>3 DEF AgentInv

LEMMA StepOK == AgentInv /\ [Next]_vars => AgentInv'
<1> SUFFICES ASSUME AgentInv, [Next]_vars PROVE AgentInv'
  OBVIOUS
<1>1. CASE UNCHANGED vars
  <2>1. LinksOK' /\ SnapshotsOK'
    BY <1>1, SameOK DEF vars, local, AgentInv
  <2> QED BY <1>1, <2>1, TasksSame DEF vars, AgentInv
<1>2. ASSUME NEW t \in Task, StartQRLogin(t) \/ StartSubmit(t) \/ StartRecover(t)
      PROVE AgentInv'
  BY <1>2, StartOK
<1>3. ASSUME NEW t \in Task, OnQRReady(t) \/ OnScanned(t)
      PROVE AgentInv'
  BY <1>3, QRCallbackOK
<1>4. ASSUME NEW t \in Task,
             QRLoginSucceeds(t) \/ QRLoginFails(t) \/ SubmitAnswered(t) \/ RecoverRefused(t)
      PROVE AgentInv'
  <2>1. \/ Return(t) \/ \E status : Fail(t, status)
        \/ \E m : Succeed(t, m) \/ FailLogin(t, m)
    BY <1>4 DEF QRLoginSucceeds, QRLoginFails, SubmitAnswered, RecoverRefused
  <2> QED BY <2>1, EndOK, AnswerOK
<1>5. ASSUME NEW t \in Task, RecoverValidated(t) PROVE AgentInv'
  BY <1>5, RecoverValidatedOK
<1>6. ASSUME NEW t \in Task, SessionCreated(t) \/ SessionRefused(t) PROVE AgentInv'
  BY <1>6, SessionAnsweredOK
<1>7. ASSUME NEW t \in Task, FrameDecrypted(t) PROVE AgentInv'
  BY <1>7, FrameDecryptedOK
<1>8. ASSUME NEW t \in Task, NEW k \in DOMAIN link, DecryptFrame(t, k) PROVE AgentInv'
  <2>1. PICK s \in snapshot : \E frame \in Frames(s, k) :
          task' = [task EXCEPT ![t] = [at |-> "decrypting", from |-> s, result |-> frame]]
    BY <1>8 DEF DecryptFrame
  <2>2. \A frame \in Frames(s, k) : FrameFollows(s, frame)
    BY FramesFollow DEF AgentInv, SnapshotsOK, LinksOK
  <2>3. TasksOK'
    BY <2>1, <2>2, TaskOK DEF AgentInv
  <2>4. LinksOK' /\ SnapshotsOK'
    BY <1>8, SameOK DEF DecryptFrame, local, AgentInv
  <2> QED BY <2>3, <2>4 DEF AgentInv
<1>9. ASSUME NEW t \in Task, NEW k, NEW path, OnSocketClosed(t, k, path) PROVE AgentInv'
  BY <1>9, OnSocketClosedOK
<1>10. ASSUME NEW k \in DOMAIN link, SessionConnects(k) \/ SessionEnds(k) PROVE AgentInv'
  BY <1>10, SessionStepOK
<1>11. ASSUME NEW k \in DOMAIN link, PushFrame(k) PROVE AgentInv'
  BY <1>11, PushFrameOK
<1>12. CASE Logout
  <2>1. LinksOK'
    BY <1>12, ClosedOK DEF Logout, AgentInv, LinksOK
  <2>2. SnapshotsOK' /\ TasksOK'
    BY <1>12, TasksSame DEF Logout, AgentInv, SnapshotsOK, Complete
  <2> QED BY <2>1, <2>2 DEF AgentInv
<1>13. CASE Restart
  <2>1. LinksOK' /\ SnapshotsOK'
    BY <1>13, SameOK DEF Restart, AgentInv, SnapshotsOK
  <2>2. TasksOK'
    BY <1>13 DEF Restart, TasksOK, Free
  <2> QED BY <2>1, <2>2 DEF AgentInv
<1> QED
  BY <1>1, <1>2, <1>3, <1>4, <1>5, <1>6, <1>7, <1>8, <1>9, <1>10, <1>11, <1>12, <1>13
  DEF Next

LEMMA Invariance == Spec => []AgentInv
<1>1. Init => AgentInv
  BY InitOK
<1>2. AgentInv /\ [Next]_vars => AgentInv'
  BY StepOK
<1> QED BY <1>1, <1>2, PTL DEF Spec

\* Whatever the interleaving, the snapshot has the key, the credentials and the
\* address its state relies on.
THEOREM SessionIsCompleteCorrect == Spec => []SessionIsComplete
<1>1. AgentInv => SessionIsComplete
  BY DEF AgentInv, SnapshotsOK, Complete, SessionIsComplete
<1> QED BY <1>1, Invariance, PTL

\* Unless a frame's stale result was applied, the stored session is online only
\* if the stored credentials are there.
THEOREM SavedHasCredentialsCorrect == Spec => []SavedHasCredentials
<1>1. AgentInv => SavedHasCredentials
  BY DEF AgentInv, SnapshotsOK, SavedHasCredentials
<1> QED BY <1>1, Invariance, PTL

\* A session that connects waits for a bridge session or the notice of its end,
\* or its request for one was refused.
THEOREM ConnectingHasSessionCorrect == Spec => []ConnectingHasSession
<1>1. AgentInv => ConnectingHasSession
  BY DEF AgentInv, SnapshotsOK, Connecting, Waits, ConnectingHasSession
<1> QED BY <1>1, Invariance, PTL
-----------------------------------------------------------------------------
(* The type invariant *)

Shown == [phase : Phase, socketStatus : Status]

At == {"free", "qr", "shown", "scanned", "submit", "recover", "creating", "decrypting"}

\* The methods that may wait for a bridge session.
Creator == {"initiateQRLogin", "submitCredentials", "recoverSession", "onSocketClosed"}

\* What a waiting task knows, when there are n sessions.
TaskType(rec, n) ==
  /\ rec.at \in At
  /\ rec.at = "creating" => rec.session \in 1 .. n /\ rec.by \in Creator

\* What the type invariant says beyond AgentInv.
TypesOK ==
  /\ \E s : snapshot \subseteq {s}
  /\ ping \in BOOLEAN
  /\ current \in 0 .. Len(link)
  /\ shown \in Shown
  /\ \A t \in Task : TaskType(task[t], Len(link))

\* Every value of the machine has a phase to show, and showing it is typed.
LEMMA ShowType ==
  /\ \A value \in Value : MapPhase(value) \in Phase
  /\ \A phase \in Phase, status \in Status : \A held : Show(phase, status, held) \in Shown
  /\ \A state \in Shown : \A event, held : AfterEvent(state, event, held) \in Shown
<1>1. ASSUME NEW value \in Value PROVE MapPhase(value) \in Phase
  BY DEF Value, MapPhase, Phase
<1>2. ASSUME NEW phase \in Phase, NEW status \in Status, NEW held
      PROVE  Show(phase, status, held) \in Shown
  <2>1. "authenticated" \in Phase BY DEF Phase
  <2>2. [phase |-> phase, socketStatus |-> status] \in Shown BY DEF Shown
  <2>3. [[phase |-> phase, socketStatus |-> status] EXCEPT !.phase = "authenticated"] \in Shown
    BY <2>1 DEF Shown
  <2> QED BY <2>2, <2>3 DEF Show, Normalize
<1>3. ASSUME NEW state \in Shown, NEW event, NEW held
      PROVE  AfterEvent(state, event, held) \in Shown
  <2>1. {"qr_pending", "qr_scanned", "recovering", "authenticated"} \subseteq Phase
        /\ {"connecting", "connected"} \subseteq Status
    BY DEF Phase, Status
  <2>2. state.socketStatus \in Status BY DEF Shown
  <2> QED BY <1>2, <2>1, <2>2 DEF AfterEvent
<1> QED BY <1>1, <1>2, <1>3

\* A result that is kept shows its phase.
LEMMA KeepTypes ==
  ASSUME AgentInv', TypesOK, NEW r, NEW running \in BOOLEAN, Keep(r, running)
  PROVE  /\ \E s : snapshot' \subseteq {s}
         /\ ping' \in BOOLEAN
         /\ ShownBy(r) \in Shown
<1>1. snapshot' = {r.snapshot} BY DEF Keep
<1>2. r.snapshot.value \in Value
  BY <1>1 DEF AgentInv, SnapshotsOK, Complete, Snapshot
<1>3. MapPhase(r.snapshot.value) \in Phase BY <1>2, ShowType
<1>4. shown.socketStatus \in Status /\ {"connected", "connecting", "error"} \subseteq Status
  BY DEF TypesOK, Shown, Status
<1>5. ShownBy(r) \in Shown BY <1>3, <1>4, ShowType DEF ShownBy
<1>6. ping' \in BOOLEAN BY DEF Keep
<1> QED BY <1>1, <1>5, <1>6

\* One task's record is replaced, and no session is forgotten.
LEMMA TaskTypes ==
  ASSUME TypesOK, TasksOK, NEW t \in Task, NEW rec, task' = [task EXCEPT ![t] = rec],
         Len(link) \in Nat, Len(link') \in Nat, Len(link) <= Len(link'),
         TaskType(rec, Len(link'))
  PROVE  \A u \in Task : TaskType(task'[u], Len(link'))
<1>1. \A u \in Task : task'[u] = IF u = t THEN rec ELSE task[u] BY DEF TasksOK
<1> QED BY <1>1 DEF TypesOK, TaskType

\* A session asked for is the last one.
LEMMA ReconnectTypes ==
  ASSUME AgentInv, TypesOK, NEW t \in Task, NEW m \in Creator, Reconnect(t, m)
  PROVE  /\ current' \in 0 .. Len(link')
         /\ \A u \in Task : TaskType(task'[u], Len(link'))
<1> DEFINE rec == [at |-> "creating", by |-> m, session |-> Len(link) + 1]
<1>1. Closed(link) \in Seq(LinkState) /\ Len(Closed(link)) = Len(link) /\ Len(link) \in Nat
  BY ClosedLinks DEF AgentInv, LinksOK
<1>2. Len(link') = Len(link) + 1 BY <1>1 DEF Reconnect
<1>3. task' = [task EXCEPT ![t] = rec] /\ current' = 0 BY DEF Reconnect
<1>4. TaskType(rec, Len(link')) BY <1>1, <1>2 DEF TaskType, At
<1>5. /\ TasksOK /\ Len(link') \in Nat /\ Len(link) <= Len(link') /\ 0 \in 0 .. Len(link')
  BY <1>1, <1>2 DEF AgentInv
<1> HIDE DEF rec
<1>6. \A u \in Task : TaskType(task'[u], Len(link'))
  BY <1>1, <1>3, <1>4, <1>5, TaskTypes
<1> QED BY <1>3, <1>5, <1>6

\* A result carried out without a reconnect.
LEMMA ProcessTypes ==
  ASSUME AgentInv, AgentInv', TypesOK, NEW r, NEW running \in BOOLEAN,
         Keep(r, running), Process(r)
  PROVE  /\ \E s : snapshot' \subseteq {s}
         /\ ping' \in BOOLEAN /\ shown' \in Shown /\ link' = link
         /\ current' \in 0 .. Len(link')
<1>1. ShownBy(r) \in Shown BY KeepTypes
<1>2. shown' \in Shown BY <1>1, ShowType DEF Process
<1>3. current' \in 0 .. Len(link') /\ link' = link
  BY DEF Process, bridge, TypesOK, AgentInv, LinksOK
<1> QED BY <1>2, <1>3, KeepTypes

\* applyTransition.
LEMMA ApplyTypes ==
  ASSUME AgentInv, AgentInv', TypesOK, NEW r, NEW t \in Task, NEW m, Apply(r, t, m),
         m \in Creator \/ ~Has(r, "reconnect")
  PROVE  TypesOK'
<1>1. Keep(r, ping /\ m # "onSocketClosed") /\ (ping /\ m # "onSocketClosed") \in BOOLEAN
  BY DEF Apply
<1>2. CASE Has(r, "reconnect")
  BY <1>1, <1>2, KeepTypes, ReconnectTypes DEF Apply, TypesOK
<1>3. CASE ~Has(r, "reconnect")
  <2>1. Process(r) /\ task' = [task EXCEPT ![t] = Free] BY <1>3 DEF Apply
  <2>2. link' = link /\ Len(link) \in Nat
    BY <2>1 DEF Process, bridge, AgentInv, LinksOK
  <2>3. TaskType(Free, Len(link')) BY DEF TaskType, Free, At
  <2>4. TasksOK /\ Len(link') \in Nat /\ Len(link) <= Len(link') BY <2>2 DEF AgentInv
  <2>5. \A u \in Task : TaskType(task'[u], Len(link'))
    BY <2>1, <2>2, <2>3, <2>4, TaskTypes
  <2> QED BY <1>1, <2>1, <2>5, ProcessTypes DEF TypesOK
<1> QED BY <1>2, <1>3

\* A step that only replaces one task's record and what is shown.
LEMMA PlainTypes ==
  ASSUME AgentInv, TypesOK, NEW t \in Task, NEW rec, task' = [task EXCEPT ![t] = rec],
         rec.at \in At \ {"creating"}, link' = link, current' \in 0 .. Len(link),
         shown' \in Shown, ping' \in BOOLEAN, \E s : snapshot' \subseteq {s}
  PROVE  TypesOK'
<1>1. Len(link) \in Nat /\ Len(link') \in Nat /\ Len(link) <= Len(link') /\ TasksOK
  BY DEF AgentInv, LinksOK
<1>2. TaskType(rec, Len(link')) BY DEF TaskType
<1>3. \A u \in Task : TaskType(task'[u], Len(link')) BY <1>1, <1>2, TaskTypes
<1> QED BY <1>3 DEF TypesOK

\* Every step keeps the types.
LEMMA NextTypes == AgentInv /\ AgentInv' /\ TypesOK /\ [Next]_vars => TypesOK'
<1> SUFFICES ASSUME AgentInv, AgentInv', TypesOK, [Next]_vars PROVE TypesOK' OBVIOUS
<1> USE DEF TypesOK
<1>0. /\ Free.at = "free" /\ Free.at \in At \ {"creating"}
      /\ {"idle", "qr_pending", "qr_scanned", "authenticating", "recovering", "authenticated",
          "error"} \subseteq Phase
      /\ {"disconnected", "connecting", "connected", "error"} \subseteq Status
      /\ shown.socketStatus \in Status /\ shown.phase \in Phase
  BY DEF Phase, Status, Free, At, Shown
<1>1. ASSUME NEW t \in Task, Return(t) \/ \E status \in Status : Fail(t, status)
      PROVE TypesOK'
  <2>1. task' = [task EXCEPT ![t] = Free] /\ UNCHANGED <<snapshot, current, ping, link>>
    BY <1>1 DEF Return, Fail, local, bridge
  <2>2. shown' \in Shown BY <1>0, <1>1, ShowType DEF Return, Fail, local
  <2> QED BY <1>0, <2>1, <2>2, PlainTypes
<1>2. ASSUME NEW t \in Task, NEW m \in Creator, Succeed(t, m) \/ FailLogin(t, m)
      PROVE TypesOK'
  BY <1>2, ApplyTypes DEF Succeed, FailLogin
<1>3. ASSUME NEW t \in Task, StartQRLogin(t) \/ StartSubmit(t) \/ StartRecover(t)
      PROVE TypesOK'
  <2>1. /\ UNCHANGED <<current, ping, link>>
        /\ \E at \in {"qr", "submit", "recover"} : task' = [task EXCEPT ![t] = [at |-> at]]
        /\ \E s : snapshot' \subseteq {s}
    BY <1>3 DEF StartQRLogin, StartSubmit, StartRecover, bridge
  <2>2. shown' \in Shown
    BY <1>0, <1>3, ShowType DEF StartQRLogin, StartSubmit, StartRecover
  <2>3. {"qr", "submit", "recover"} \subseteq At \ {"creating"} BY DEF At
  <2> QED BY <2>1, <2>2, <2>3, PlainTypes
<1>4. ASSUME NEW t \in Task, OnQRReady(t) \/ OnScanned(t) PROVE TypesOK'
  <2>1. \E at \in {"shown", "scanned"} : task' = [task EXCEPT ![t] = [at |-> at]]
    BY <1>4 DEF OnQRReady, OnScanned, QRCallback
  <2>2. \/ \E r : Keep(r, ping) /\ Process(r)
        \/ /\ \E phase \in {"qr_pending", "qr_scanned"} :
                shown' = Show(phase, shown.socketStatus, creds)
           /\ UNCHANGED <<snapshot, current, ping, link>>
    BY <1>4 DEF OnQRReady, OnScanned, QRCallback, bridge
  <2>3. /\ \E s : snapshot' \subseteq {s}
        /\ ping' \in BOOLEAN /\ shown' \in Shown /\ link' = link /\ current' \in 0 .. Len(link)
    BY <1>0, <2>2, ProcessTypes, ShowType
  <2>4. {"shown", "scanned"} \subseteq At \ {"creating"} BY DEF At
  <2> QED BY <2>1, <2>3, <2>4, PlainTypes
<1>5. ASSUME NEW t \in Task,
             QRLoginSucceeds(t) \/ QRLoginFails(t) \/ SubmitAnswered(t) \/ RecoverRefused(t)
      PROVE TypesOK'
  <2>1. \/ Return(t) \/ \E status \in Status : Fail(t, status)
        \/ \E m \in Creator : Succeed(t, m) \/ FailLogin(t, m)
    BY <1>0, <1>5 DEF Creator, QRLoginSucceeds, QRLoginFails, SubmitAnswered, RecoverRefused
  <2> QED BY <1>1, <1>2, <2>1
<1>6. ASSUME NEW t \in Task, RecoverValidated(t) PROVE TypesOK'
  <2>1. /\ Reconnect(t, "recoverSession") /\ UNCHANGED <<ping, shown>>
        /\ \E s : snapshot' \subseteq {s}
    BY <1>6 DEF RecoverValidated
  <2>2. "recoverSession" \in Creator BY DEF Creator
  <2> QED BY <2>1, <2>2, ReconnectTypes
<1>7. ASSUME NEW t \in Task, SessionCreated(t) PROVE TypesOK'
  <2>1. /\ task' = [task EXCEPT ![t] = Free] /\ UNCHANGED <<snapshot, link>>
        /\ current' = task[t].session /\ task[t].at = "creating"
    BY <1>7 DEF SessionCreated, bridge, Waiting
  <2>2. current' \in 0 .. Len(link) /\ task[t].by \in Creator
    BY <2>1 DEF AgentInv, LinksOK, TaskType
  <2>3. shown' \in {shown, AfterEvent(shown, "login_success", creds),
                    Show("authenticated", "connected", creds)}
        /\ ping' \in {ping, TRUE}
    BY <1>7, <2>2 DEF SessionCreated, Creator
  <2>4. shown' \in Shown /\ ping' \in BOOLEAN BY <1>0, <2>3, ShowType
  <2> QED BY <1>0, <2>1, <2>2, <2>4, PlainTypes
<1>8. ASSUME NEW t \in Task, SessionRefused(t) PROVE TypesOK'
  <2>1. /\ (\E status \in Status : Fail(t, status)) \/ FailLogin(t, "initiateQRLogin")
        /\ "initiateQRLogin" \in Creator
    BY <1>0, <1>8 DEF SessionRefused, Creator
  <2> QED BY <1>1, <1>2, <2>1
<1>9. ASSUME NEW t \in Task, FrameDecrypted(t) PROVE TypesOK'
  <2>1. ~Has(task[t].result, "reconnect")
    BY <1>9 DEF FrameDecrypted, Waiting, AgentInv, TasksOK, FrameFollows
  <2> QED BY <1>9, <2>1, ApplyTypes DEF FrameDecrypted
<1>10. ASSUME NEW t \in Task, NEW k, DecryptFrame(t, k) PROVE TypesOK'
  <2>1. \E from, result :
          task' = [task EXCEPT ![t] = [at |-> "decrypting", from |-> from, result |-> result]]
    BY <1>10 DEF DecryptFrame
  <2>2. UNCHANGED <<snapshot, current, ping, shown, link>>
    BY <1>10 DEF DecryptFrame, local, bridge
  <2>3. "decrypting" \in At \ {"creating"} BY DEF At
  <2> QED BY <2>1, <2>2, <2>3, PlainTypes
<1>11. ASSUME NEW t \in Task, NEW k, NEW path, OnSocketClosed(t, k, path) PROVE TypesOK'
  <2>1. CASE snapshot = {}
    <3>1. /\ UNCHANGED <<snapshot, current, task, link>> /\ ping' = FALSE
          /\ shown' = Show(shown.phase, "disconnected", creds)
      BY <1>11, <2>1 DEF OnSocketClosed, bridge
    <3> QED BY <1>0, <3>1, ShowType
  <2>2. CASE snapshot # {}
    BY <1>11, <2>2, ApplyTypes DEF OnSocketClosed, Creator
  <2> QED BY <2>1, <2>2
<1>12. ASSUME NEW k \in DOMAIN link, SessionConnects(k) \/ SessionEnds(k) PROVE TypesOK'
  <2>1. \E v \in {"open", "shut"} : link' = [link EXCEPT ![k] = v]
    BY <1>12 DEF SessionConnects, SessionEnds
  <2>2. Len(link') = Len(link) BY <2>1 DEF AgentInv, LinksOK
  <2>3. UNCHANGED <<snapshot, current, ping, shown, task>>
    BY <1>12 DEF SessionConnects, SessionEnds, local
  <2> QED BY <2>2, <2>3
<1>13. ASSUME NEW k, PushFrame(k) PROVE TypesOK'
  <2>1. (\E r : Keep(r, ping) /\ Process(r)) /\ task' = task
    BY <1>13 DEF PushFrame
  <2> QED BY <2>1, ProcessTypes
<1>14. CASE Logout
  <2>1. /\ snapshot' = {} /\ ping' = FALSE /\ current' = 0 /\ task' = task
        /\ shown' = Show("idle", "disconnected", FALSE) /\ link' = Closed(link)
    BY <1>14 DEF Logout
  <2>2. Len(link') = Len(link) /\ Len(link) \in Nat BY <2>1, ClosedLinks DEF AgentInv, LinksOK
  <2>3. shown' \in Shown BY <1>0, <2>1, ShowType
  <2>4. snapshot' \subseteq {0} BY <2>1
  <2>5. current' \in 0 .. Len(link') BY <2>1, <2>2
  <2>6. ping' \in BOOLEAN BY <2>1
  <2>7. \A t \in Task : TaskType(task'[t], Len(link')) BY <2>1, <2>2
  <2> QED BY <2>3, <2>4, <2>5, <2>6, <2>7
<1>15. CASE Restart
  <2>1. /\ snapshot' = snapshot /\ ping' = FALSE /\ UNCHANGED <<current, link>>
        /\ task' = [t \in Task |-> Free]
    BY <1>15 DEF Restart, bridge, AgentInv, SnapshotsOK
  <2>2. shown' \in Shown
    <3>1. CASE \E s \in saved : shown' = Restored(s, creds)
      <4>1. PICK s \in saved : shown' = Restored(s, creds) BY <3>1
      <4>2. MapPhase(s.value) \in Phase
        BY ShowType DEF AgentInv, SnapshotsOK, Complete, Snapshot
      <4> QED BY <1>0, <4>1, <4>2, ShowType DEF Restored
    <3>2. CASE shown' = Show(shown.phase, shown.socketStatus, creds)
      BY <1>0, <3>2, ShowType
    <3> QED BY <1>15, <3>1, <3>2 DEF Restart
  <2>3. TaskType(Free, Len(link)) BY DEF TaskType, Free, At
  <2> QED BY <2>1, <2>2, <2>3
<1>16. CASE UNCHANGED vars BY <1>16 DEF vars, local, bridge
<1> HIDE DEF TypesOK
<1> QED BY <1>3, <1>4, <1>5, <1>6, <1>7, <1>8, <1>9, <1>10, <1>11, <1>12, <1>13, <1>14,
           <1>15, <1>16 DEF Next

\* Every variable has its type, for any number of methods under way and sessions.
THEOREM AgentTypeCorrect == Spec => []TypeOK
<1>1. Init => AgentInv /\ TypesOK
  <2> SUFFICES ASSUME Init PROVE AgentInv /\ TypesOK OBVIOUS
  <2>1. /\ snapshot = {} /\ current = 0 /\ ping = FALSE /\ link = <<>>
        /\ shown = [phase |-> "idle", socketStatus |-> "disconnected"]
        /\ task = [t \in Task |-> Free]
    BY DEF Init
  <2>2. shown \in Shown BY <2>1 DEF Shown, Phase, Status
  <2>3. \A t \in Task : TaskType(task[t], Len(link)) BY <2>1 DEF TaskType, Free, At
  <2>4. snapshot \subseteq {0} /\ current \in 0 .. Len(link) BY <2>1
  <2> QED BY <2>1, <2>2, <2>3, <2>4, InitOK DEF TypesOK
<1>2. (AgentInv /\ TypesOK) /\ [Next]_vars => (AgentInv /\ TypesOK)'
  BY StepOK, NextTypes
<1>3. AgentInv /\ TypesOK => TypeOK
  <2> SUFFICES ASSUME AgentInv, TypesOK PROVE TypeOK OBVIOUS
  <2>1. PICK s : snapshot \subseteq {s} BY DEF TypesOK
  <2>2. snapshot = {} \/ snapshot = {s} BY <2>1
  <2>3. Cardinality(snapshot) \in {0, 1} BY <2>2, FS_EmptySet, FS_Singleton
  <2>4. saved = snapshot /\ snapshot \subseteq Snapshot
    BY DEF AgentInv, SnapshotsOK, Complete
  <2> QED BY <2>3, <2>4 DEF AgentInv, TypesOK, LinksOK, LinkState, SnapshotsOK, TypeOK, Shown, At,
            TaskType
<1> QED BY <1>1, <1>2, <1>3, PTL DEF Spec
-----------------------------------------------------------------------------
(* The sessions of the account are those of BridgeSession *)

Paths == {"data", "control"}

\* At most one notification is handled.
HearsOne == told' = told \/ \E n \in notices \ told : told' = told \cup {n}

Closes == link' = Closed(link) /\ notices' = notices \cup EndNotices(link)

Asks == \E t, m : Reconnect(t, m)

\* What a step does with sessions and their notifications.
BridgeStep ==
  \/ HearsOne /\ (UNCHANGED bridge \/ Asks)
  \/ told' = told /\ (Closes \/ \E k \in DOMAIN link : SessionConnects(k) \/ SessionEnds(k))

LEMMA ApplyBridge ==
  ASSUME NEW r, NEW t, NEW m, Apply(r, t, m)
  PROVE  UNCHANGED bridge \/ Asks
BY DEF Apply, Process, Asks

LEMMA StepBridge == [Next]_vars => BridgeStep
<1> SUFFICES ASSUME [Next]_vars PROVE BridgeStep
  OBVIOUS
<1>0. told' = told => HearsOne
  BY DEF HearsOne
<1>1. ASSUME NEW t \in Task, NEW m, Succeed(t, m) \/ FailLogin(t, m) PROVE BridgeStep
  BY <1>0, <1>1, ApplyBridge DEF Succeed, FailLogin, BridgeStep
<1>2. ASSUME NEW t \in Task, Return(t) \/ \E status : Fail(t, status) PROVE BridgeStep
  BY <1>0, <1>2 DEF Return, Fail, BridgeStep
<1>3. ASSUME NEW t \in Task, OnQRReady(t) \/ OnScanned(t) PROVE BridgeStep
  BY <1>0, <1>3 DEF OnQRReady, OnScanned, QRCallback, Process, BridgeStep
<1>4. ASSUME NEW t \in Task,
             QRLoginSucceeds(t) \/ QRLoginFails(t) \/ SubmitAnswered(t) \/ RecoverRefused(t)
      PROVE BridgeStep
  BY <1>1, <1>2, <1>4 DEF QRLoginSucceeds, QRLoginFails, SubmitAnswered, RecoverRefused
<1>5. ASSUME NEW t \in Task, SessionRefused(t) PROVE BridgeStep
  BY <1>1, <1>2, <1>5 DEF SessionRefused
<1>6. ASSUME NEW t \in Task, RecoverValidated(t) PROVE BridgeStep
  BY <1>0, <1>6 DEF RecoverValidated, Asks, BridgeStep
<1>7. ASSUME NEW t \in Task, FrameDecrypted(t) PROVE BridgeStep
  BY <1>0, <1>7, ApplyBridge DEF FrameDecrypted, BridgeStep
<1>8. ASSUME NEW t \in Task, NEW k, NEW path, OnSocketClosed(t, k, path) PROVE BridgeStep
  <2>1. HearsOne
    BY <1>8 DEF OnSocketClosed, HearsOne
  <2>2. UNCHANGED bridge \/ Asks
    BY <1>8, ApplyBridge DEF OnSocketClosed
  <2> QED
    BY <2>1, <2>2 DEF BridgeStep
<1>9. ASSUME NEW k \in DOMAIN link, SessionConnects(k) \/ SessionEnds(k) PROVE BridgeStep
  BY <1>9 DEF SessionConnects, SessionEnds, BridgeStep
<1>10. ASSUME NEW k \in DOMAIN link, PushFrame(k) PROVE BridgeStep
  BY <1>0, <1>10 DEF PushFrame, Process, BridgeStep
<1>11. CASE Logout
  BY <1>11 DEF Logout, Closes, BridgeStep
<1>12. CASE UNCHANGED bridge /\ told' = told
  BY <1>0, <1>12 DEF BridgeStep
<1> QED
  BY <1>1, <1>2, <1>3, <1>4, <1>5, <1>6, <1>7, <1>8, <1>9, <1>10, <1>11, <1>12
  DEF Next, vars, StartQRLogin, StartSubmit, StartRecover, SessionCreated, DecryptFrame, Restart

\* No notification of a session that has not ended.
LEMMA NoNotices ==
  ASSUME LinksOK, NEW k, k \notin DOMAIN link \/ link[k] # "shut"
  PROVE  /\ \A path : <<k, path>> \notin notices /\ <<k, path>> \notin told
         /\ NoticesDue(k) = 0
<1>1. \A path : <<k, path>> \notin notices /\ <<k, path>> \notin told
  BY DEF LinksOK
<1> QED
  BY <1>1 DEF NoticesDue, Untold

\* A session that stays as it is, with one of its notifications handled or none.
LEMMA HeardSession ==
  ASSUME LinksOK, NEW k, SessionState(k)' = SessionState(k), HearsOne,
         \A path \in Paths : <<k, path>> \in notices' <=> <<k, path>> \in notices
  PROVE  [Session(k)!Next]_(Session(k)!session)
<1>1. CASE \E path \in Paths : <<k, path>> \in notices \ told /\ told' = told \cup {<<k, path>>}
  <2>1. PICK path \in Paths : <<k, path>> \in notices \ told /\ told' = told \cup {<<k, path>>}
    BY <1>1
  <2>2. CASE path = "data"
    <3>1. /\ Untold(k, "data") = 1 /\ Untold(k, "data")' = 0
          /\ Untold(k, "control")' = Untold(k, "control") /\ Untold(k, "control") \in {0, 1}
      BY <2>1, <2>2 DEF Untold, Paths
    <3>2. NoticesDue(k) > 0 /\ NoticesDue(k)' = NoticesDue(k) - 1
      BY <3>1 DEF NoticesDue
    <3> QED
      BY <3>2 DEF Session!Next, Session!Hear
  <2>3. CASE path = "control"
    <3>1. /\ Untold(k, "control") = 1 /\ Untold(k, "control")' = 0
          /\ Untold(k, "data")' = Untold(k, "data") /\ Untold(k, "data") \in {0, 1}
      BY <2>1, <2>3 DEF Untold, Paths
    <3>2. NoticesDue(k) > 0 /\ NoticesDue(k)' = NoticesDue(k) - 1
      BY <3>1 DEF NoticesDue
    <3> QED
      BY <3>2 DEF Session!Next, Session!Hear
  <2> QED
    BY <2>1, <2>2, <2>3 DEF Paths
<1>2. CASE \A path \in Paths : <<k, path>> \in told' <=> <<k, path>> \in told
  <2>1. NoticesDue(k)' = NoticesDue(k)
    BY <1>2 DEF NoticesDue, Untold, Paths
  <2> QED
    BY <2>1 DEF Session!session
<1> QED
  BY <1>1, <1>2 DEF HearsOne

\* An open session that ends, with both of its notifications to come.
LEMMA EndedSession ==
  ASSUME LinksOK, NEW k \in DOMAIN link, k \in DOMAIN link', link'[k] = "shut",
         link[k] \in {"asked", "open"}, HearsOne,
         <<k, "control">> \in notices', <<k, "data">> \in notices' <=> link[k] = "open"
  PROVE  [Session(k)!Next]_(Session(k)!session)
<1>1. /\ SessionState(k) = link[k] /\ SessionState(k)' = "shut"
      /\ NoticesDue(k) = 0
  BY NoNotices DEF SessionState
<1>2. \A path : <<k, path>> \notin told'
  BY NoNotices DEF HearsOne
<1>3. NoticesDue(k)' = IF link[k] = "open" THEN 2 ELSE 1
  BY <1>2 DEF NoticesDue, Untold
<1> QED
  BY <1>1, <1>3 DEF Session!Next, Session!End

\* What closing the open sessions does to one of them.
LEMMA ClosedSession ==
  ASSUME LinksOK, NEW k \in DOMAIN link, k \in DOMAIN link', link'[k] = Closed(link)[k],
         notices' = notices \cup EndNotices(link), HearsOne
  PROVE  [Session(k)!Next]_(Session(k)!session)
<1>1. link'[k] = IF link[k] = "open" THEN "shut" ELSE link[k]
  BY DEF Closed
<1>2. CASE link[k] = "open"
  BY <1>1, <1>2, EndedSession DEF EndNotices
<1>3. CASE link[k] # "open"
  <2>1. SessionState(k)' = SessionState(k)
    BY <1>1, <1>3 DEF SessionState
  <2>2. \A path \in Paths : <<k, path>> \in notices' <=> <<k, path>> \in notices
    BY <1>3 DEF EndNotices
  <2> QED
    BY <2>1, <2>2, HeardSession
<1> QED
  BY <1>2, <1>3

LEMMA NextSession ==
  ASSUME LinksOK, LinksOK', BridgeStep, NEW k
  PROVE  [Session(k)!Next]_(Session(k)!session)
<1> DEFINE Goal == [Session(k)!Next]_(Session(k)!session)
<1>0. link \in Seq(LinkState) /\ DOMAIN link = 1 .. Len(link) /\ Len(link) \in Nat
  BY DEF LinksOK
<1>1. CASE HearsOne /\ UNCHANGED bridge
  BY <1>1, HeardSession DEF SessionState, bridge
<1>2. ASSUME HearsOne, NEW t, NEW m, Reconnect(t, m) PROVE Goal
  <2>1. PICK answer \in {"asked", "refused"} : link' = Append(Closed(link), answer)
    BY <1>2 DEF Reconnect
  <2>2. /\ DOMAIN link' = 1 .. Len(link) + 1 /\ link'[Len(link) + 1] = answer
        /\ \A j \in DOMAIN link : link'[j] = Closed(link)[j]
    <3>1. Closed(link) \in Seq(LinkState) /\ Len(Closed(link)) = Len(link)
      BY <1>0, ClosedLinks
    <3> QED
      BY <1>0, <2>1, <3>1 DEF LinkState
  <2>3. CASE k \in DOMAIN link
    <3>1. k \in DOMAIN link' /\ link'[k] = Closed(link)[k]
      BY <1>0, <2>2, <2>3
    <3> QED
      BY <1>2, <2>3, <3>1, ClosedSession DEF Reconnect
  <2>4. CASE k \notin DOMAIN link
    <3>1. k \notin DOMAIN link' \/ link'[k] \in {"asked", "refused"}
      BY <1>0, <2>2, <2>4
    <3>2. /\ SessionState(k) = "none" /\ SessionState(k)' \in {"none", "asked"}
      BY <2>4, <3>1 DEF SessionState
    <3>3. NoticesDue(k) = 0
      BY <2>4, NoNotices
    <3>4. NoticesDue(k)' = 0
      <4>1. \A path : <<k, path>> \notin notices'
        BY <3>1 DEF LinksOK
      <4> QED
        BY <4>1 DEF NoticesDue, Untold
    <3> QED
      BY <3>2, <3>3, <3>4 DEF Session!Next, Session!Ask, Session!session
  <2> QED
    BY <2>3, <2>4
<1>3. CASE told' = told /\ Closes
  <2>1. DOMAIN link' = DOMAIN link /\ HearsOne
    BY <1>3 DEF Closes, Closed, HearsOne
  <2>2. CASE k \in DOMAIN link
    BY <1>3, <2>1, <2>2, ClosedSession DEF Closes
  <2>3. CASE k \notin DOMAIN link
    <3>1. SessionState(k)' = SessionState(k)
      BY <2>1, <2>3 DEF SessionState
    <3>2. \A path \in Paths : <<k, path>> \in notices' <=> <<k, path>> \in notices
      BY <1>3, <2>3 DEF Closes, EndNotices
    <3> QED
      BY <2>1, <3>1, <3>2, HeardSession
  <2> QED
    BY <2>2, <2>3
<1>4. ASSUME NEW j \in DOMAIN link, SessionConnects(j) PROVE Goal
  <2>1. /\ DOMAIN link' = DOMAIN link /\ link[j] = "asked" /\ link'[j] = "open"
        /\ \A n \in DOMAIN link : n # j => link'[n] = link[n]
        /\ UNCHANGED <<notices, told>>
    BY <1>0, <1>4 DEF SessionConnects
  <2>2. CASE k = j
    <3>1. SessionState(k) = "asked" /\ SessionState(k)' = "open"
      BY <2>1, <2>2 DEF SessionState
    <3>2. NoticesDue(k)' = NoticesDue(k)
      BY <2>1 DEF NoticesDue, Untold
    <3> QED
      BY <3>1, <3>2 DEF Session!Next, Session!Connect
  <2>3. CASE k # j
    <3>1. SessionState(k)' = SessionState(k)
      BY <2>1, <2>3 DEF SessionState
    <3> QED
      BY <2>1, <3>1, HeardSession DEF HearsOne
  <2> QED
    BY <2>2, <2>3
<1>5. ASSUME NEW j \in DOMAIN link, SessionEnds(j) PROVE Goal
  <2>1. /\ DOMAIN link' = DOMAIN link /\ link[j] \in {"asked", "open"} /\ link'[j] = "shut"
        /\ \A n \in DOMAIN link : n # j => link'[n] = link[n]
        /\ told' = told
        /\ notices' = notices \cup
             ({j} \X (IF link[j] = "open" THEN {"data", "control"} ELSE {"control"}))
    BY <1>0, <1>5 DEF SessionEnds
  <2>2. CASE k = j
    <3>1. /\ <<k, "control">> \in notices'
          /\ (<<k, "data">> \in notices' <=> link[k] = "open")
      BY <2>1, <2>2, NoNotices
    <3> QED
      BY <2>1, <2>2, <3>1, EndedSession DEF HearsOne
  <2>3. CASE k # j
    <3>1. SessionState(k)' = SessionState(k)
      BY <2>1, <2>3 DEF SessionState
    <3>2. \A path \in Paths : <<k, path>> \in notices' <=> <<k, path>> \in notices
      BY <2>1, <2>3
    <3> QED
      BY <2>1, <3>1, <3>2, HeardSession DEF HearsOne
  <2> QED
    BY <2>2, <2>3
<1> QED
  BY <1>1, <1>2, <1>3, <1>4, <1>5 DEF BridgeStep, Asks

\* Every session the account's logins, frames, notifications and restarts make is one of
\* BridgeSession.
THEOREM KeepsSessionsCorrect == Spec => KeepsSessions
<1>1. Init => \A k \in 1 .. MaxSession : Session(k)!Init
  BY DEF Init, SessionState, NoticesDue, Untold, Session!Init
<1>2. AgentInv /\ AgentInv' /\ [Next]_vars
      => [\A k \in 1 .. MaxSession : [Session(k)!Next]_(Session(k)!session)]_vars
  BY StepBridge, NextSession DEF AgentInv
<1> QED
  BY <1>1, <1>2, Invariance, PTL DEF Spec, KeepsSessions
=============================================================================
