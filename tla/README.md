# A verification of the socket bridge

TLA+ models of `dlkn-socket-bridge`: two chat protocols (Telegram and Zalo) driven by pure
session reducers, Durable Objects that persist and run them on Cloudflare Workers, and a
Rust process that holds the TCP and WebSocket connections the Workers cannot hold.

Every definition that stands for code is listed in `PROJECT.json` under `map` with the lines
it is translated from. Paths below are relative to `src/`; `agents/` is short for
`examples/socket-bridge-worker/agents/`, `gramjs/` for `packages/gramjs-statemachine/src/`,
`zca/` for `packages/zca-js-statemachine/src/` and `main.rs` for
`packages/dlkn-socket-bridge-rs/src/main.rs`.

- [1. The system](#1-the-system)
- [2. The modules](#2-the-modules)
- [3. The runs](#3-the-runs)
- [4. The proofs](#4-the-proofs)
- [5. Where the code differs from what it says](#5-where-the-code-differs-from-what-it-says)
- [6. What is not modelled, and the plan](#6-what-is-not-modelled-and-the-plan)

## 1. The system

```
 browser --- agent (Durable Object) ---- createSession ---> DurableSocket (Durable Object)
              |  TelegramAgent, ZaloAgent <-- onSocketClosed --   |  control WebSocket
              |  session reducer (pure)                           v
              +------------- data WebSocket ------------- dlkn-socket-bridge-rs --- target
```

### Components

| component | state | operations |
|---|---|---|
| Telegram session reducer, `gramjs/` | the serialised state: phase, data centre, auth key, Diffie-Hellman nonces, salt, last message id, pending requests, login data | `createSession`, `transitionSession` on: an inbound frame, submitted code, submitted password, QR refresh, method call, socket close |
| Zalo session reducer, `zca/session/` | the snapshot: machine value, credentials, WebSocket address, cipher key | `createSession`, `transitionSession` on: an inbound frame, socket close, the steps of a QR login, login answers, logout |
| Framing engines, `main.rs` (`mtproto-frame`, `loco-frame`) | the frame being read, the close reason | a `select!` loop over commands, target bytes and agent messages |
| Stream and WebSocket engines, `main.rs` | as above, without framing | as above |
| Control loop and data sessions, `main.rs` | the control connection, the table of sessions | `open_session`, dialling, relaying, `session_closed`, reconnecting |
| `DurableSocket`, `agents/durable-socket.ts` | `ds_sessions` rows, control WebSockets | `createSession`, `session_closed`, socket close |
| `SocketBridgeAgent`, `agents/shared/base-agent.ts` | bridge key, the frame queue in memory and in storage, bridge connections | `createBridgeConnection`, `sendBridgeBytes`, `closeBridgeConnection`, `onConnect`, `onClose` |
| `ZaloAgent`, `agents/zalo-agent.ts` | snapshot, credentials, ping timer, broadcast state, message store and cursors | two logins, `recoverSession`, `logout`, `pushFrame`, `onSocketClosed`, restart, messages |
| `TelegramAgent`, `agents/telegram-agent.ts` | snapshot in memory and storage, bridge key, updates state, broadcast state, a flag for a close by hand | login, `recoverSession`, `closeCurrentSocket`, `logout`, RPCs, `pushFrame`, `onSocketClosed`, restart |
| Updates state, `gramjs/dispatch/updates-state.ts` | `pts`, `qts`, `date`, `seq` | merging of server states and differences |
| `shared-statemachine`, conversation helpers, Worker entry, user interface, patches | none of their own | adapters, formatting, routing, rendering |

### How they interact

An agent calls `DurableSocket.createSession` and awaits it; `DurableSocket` records the key
and writes `open_session` to a bridge's control WebSocket. The bridge dials the agent's data
WebSocket, then the target, and relays frames. The agent queues what it sends before the
data WebSocket is there, in memory and in storage, and drains both in `onConnect`. The end of
a session reaches the agent twice, on paths that are not ordered: the data WebSocket closes
(`onClose`), and the bridge writes `session_closed` on the control WebSocket, which
`DurableSocket` turns into a call of the agent. Both become `onSocketClosed(code, reason)`,
which says neither which session ended nor that this is the second time. Inside an agent
everything is single threaded, and interleaves at every `await` that leaves the object.

### What is hard here

- The login is a dozen round trips over up to two data centres, each reply with several
  outcomes, each data centre with a new key exchange in the middle.
- Replies are recognised by class, not by the state that asked for them; servers reorder,
  repeat and box them.
- `tokio::select!` drops futures; the read future of a framing engine holds bytes.
- Two queues for the same frames, one of which an eviction empties.
- Ends of sessions are told twice and without a name, while a method of the agent waits for
  the next session.
- A QR login waits for minutes in an object that may be logged out, logged in differently or
  restarted in between; a frame is decrypted behind an `await` that carries an old snapshot.

`PROJECT.json` lists these under `hazards`, each at its line and with the properties that
would catch it, or the reason why none does.

### What makes the components correct

| component | correct when |
|---|---|
| Telegram reducer | each phase has the key material and login data its next event reads; the pending table names only requests of this connection and always the one waited for; a key's first encrypted request alone carries InitConnection; tokens are imported where they are valid; READY means authorised and is not left by a late reply; logins get somewhere |
| Engines | the agent receives the target's frames (or chunks) whole, in order, once, and all of them before `remote_close` |
| Bridge link | a frame accepted is delivered once and in order or dropped by a close; a requested session is connected or reported; every end is reported and its row removed |
| Telegram agent | memory and storage agree; what is sent was stored first; frames go to the key exchange their session was opened for; message numbers are not used twice; the browser is told what is true; a logout is final |
| Updates state | counters do not turn back, and no difference moves them past an update that was not handed over |
| Zalo reducer and agent | an online session has credentials, address and (listening) key, in storage too; a connecting session has something to wait for; only the end of its own session stops a reconnect |

## 2. The modules

| module | models | checked by | theorems in |
|---|---|---|---|
| `AccountMachine` | abstract: the Telegram reducer, as its agent may rely on it | through `TelegramSession` | - |
| `TelegramSession` | the Telegram reducer, and the server's answers; implements `AccountMachine` | `MCTelegramSession` | `TelegramSession_proofs`, `TelegramReady_proofs` |
| `TelegramAgent` | the Durable Object `TelegramAgent`, over `AccountMachine` and `BridgeSession` | `MCTelegramAgent` | `TelegramAgent_proofs` |
| `UpdatesCursor` | the updates state of that agent, with the server that numbers updates | `MCUpdatesCursor` | `UpdatesCursor_proofs` |
| `FrameChannel` | abstract: what an engine promises | through `FrameEngine` | - |
| `FrameEngine` | the framing, stream and WebSocket engines; implements `FrameChannel` | `MCFrameEngine` | `FrameEngine_proofs` |
| `BridgeSession` | abstract: one bridge session, as its agent may rely on it | through `BridgeLink` | - |
| `BridgeLink` | `SocketBridgeAgent`, `DurableSocket`, control loop and data sessions, composed; implements `BridgeSession` for every key | `MCBridgeLink` | `BridgeLink_proofs` |
| `ZaloSession` | the Zalo reducer: operators, no state | through `ZaloAgent` | - |
| `ZaloAgent` | `ZaloAgent` over `ZaloSession` and bridge sessions | `MCZaloAgent` | `ZaloAgent_proofs` |

The abstract modules stand for no code and have no lines there: a proof ties them to
the modules that do. Operators whose comment calls them a mutant are variants of a definition with a plausible
bug. Nothing uses them but the mutation of their run: each property is broken by one of them.

**TelegramSession.** `s` is the serialised state that every transition returns. One action
per host event and one operator `Handle...` per class of inbound frame; `Reply` delivers the
answer to one request of `sent`. The server is external: it gives any answer the handlers
distinguish, in order unless `Faults` says otherwise. `Faults` adds reordered and repeated
replies, containers, result classes without a handler, salt changes and transport errors.
`DeliverContainer` puts up to `MaxContainer` messages in one frame: results, requests refused
for their salt, scanned QR codes, and the news of a new session. `dispatchObject` dispatches
them all and `advanceSession` then takes all their actions (`HandleContainer`): a result causes
none, since it was not parsed; every refusal and every scan may export or import a token, so one frame
can send several requests (`CallAll`), or fail at the first scan for want of a token after it
has sent some.
`advanceSession`'s try/catch is `Keep`: a handler that throws leaves the session in ERROR.
Key arithmetic, bytes and the view are abstracted: a key is the number of the connection it
was negotiated on, a QR token the data centre it is valid for, a secret a Boolean that says
whether the snapshot holds it. The mapped lines include that abstracted detail.

**TelegramAgent.** The object's methods interleave where they await
`createBridgeConnection`; a method that waits there is a *task*, and every other method,
frame, notification and restart may run meanwhile. The other awaits (storage, key
arithmetic, the drawing of a QR code) settle without an event being delivered and are taken
with the step they belong to. A snapshot is reduced to its machine value, the key exchange it
belongs to and the number of messages made from it; `Outcomes(s, e)` is what a frame of
exchange `e` may make of it: any value that `AccountMachine` may move to, with no message, one
or several, and ERROR for a frame of another exchange. A frame in a queue or on a session is
reduced to its exchange. Bridge sessions are what `BridgeLink` lets an agent see: asked for,
refused, open, shut, and up to two notices of the end, which name no session. A session is shut
in one step: what its target answered is taken to have been pushed before. `key` is `bridge_socket_key`; without one `#executeCommands`
skips a frame. `made`, `reused`, `crossed` and `out` are history: the last number sent of each
exchange, whether one was used again, whether sessions have overlapped, and whether nothing
but a logout has happened to the account.

`crossed` deserves a word. It is set when a method asks for a session while another one is
asked for or a method still waits, when an end is told while the method that asked for that
session still waits, and when a logout or a restart overtakes a waiting method. The code has no guard
against any of these, and then its promises fail (section 6 lists how). Four properties are
stated of the histories without such an overlap, in which reconnects, migrations, closes by
either side, double notices, restarts and calls still interleave in every order; the other
properties hold throughout.

**AccountMachine** is where the reducer and its agent meet. Past the key exchange the reducer
decides by the class of what arrives and not by what it waits for, so a frame may take any
value to any prompt or to `ready`, a session that is not ready back to `authorizing` with a
message or, when the frame carries several updates, with several, and any of them to another
data centre. What it never does is what counts: a ready session sends nothing of its own accord
and is not taken back into its login by a message of its own, a prompt is never reached by a
frame that sends, and an exchange is left for a new one only. `TelegramSession` implements it
under every fault, and `TelegramAgent` takes `Stays`, `Answers`, `Bursts` and `Migrates` from
it. When the
moves were written into the agent's model by hand they were too few: a login-token update
answers a password prompt with an import, and while a request made before it is still
unanswered a QR prompt may turn into a password prompt, into `ready` or into a move to another
data centre.

**UpdatesCursor.** `cursor` is the stored `updates_state`, `seen` the updates that the agent
was handed. The server numbers updates, pushes them, and answers `updates.GetState` and
`updates.GetDifference`; whatever is on its way may overtake and is lost with the connection.
`Merge` is `mergeUpdatesState`; `Contents` what each class of message hands over. A reconnect
asks for `GetState`, as the code does.

**FrameEngine.** `engine` is the one that the target's scheme selects. A byte is its offset in
the target's stream and frame `n` is a range of offsets, so that a message sent to the agent is
the range it holds; for the WebSocket engine a frame is a message of the target, for the stream
engine frames only measure how far the target's bytes have come, and a chunk need not end with
one. The biased `select!`'s read branch is `ReadBytes`,
`DecodeHeader` and `RelayFrame` (framing), `RelayChunk` (stream) or `RelayMessage`
(WebSocket), and `ReadEof`; the other branches are the agent's messages, pings and close. When
one of those wins while the read waits, the bytes it has consumed are gone
(`main.rs:682-705`): `DropRead`, and `cut` records after how many messages that first
happened. `FrameChannel` is the promise; the refinement mapping counts completed frames,
translates ranges to frame numbers, and ends the promise with the relay or with a cut read.

**BridgeLink.** `agent`, `durable` and `bridge` are the three parties, `reports` the
messages between the last two. The subclass's reaction to a notification is left open: it
may open, send and close at any time, and open several sessions before the first is answered
(`opening`). An eviction, at any moment, empties `memory` and ends the methods that wait; the
control connection may break with the messages on it, and `run_bridge` makes another. Of the
`MaxControl` connections the last one holds.

**BridgeSession** is where the link and the agents meet. A session is asked for, connects or
fails, and its end is final; only then is the agent told, over the data WebSocket if it
connected and over `DurableSocket`, each at most once. `BridgeLink` implements it for every key:
`SessionState` reads it off the phase and the data WebSocket, `NoticesDue` counts what may
still be told. A report that the bridge loses stays due for ever, which is what an agent that
cannot tell a late notice from a lost one sees. Each agent has its own mapping, from the
sessions that its model keeps, so that both agents assume no more of the bridge than
`BridgeLink` gives (section 4).

**ZaloSession, ZaloAgent.** `ZaloSession` holds the reducer's results, snapshot by snapshot.
`ZaloAgent` makes the object's `await`s visible: a method that waits is a *task* (`task[t].at`:
`qr`, `shown`, `scanned`, `submit`, `recover`, `creating`, `decrypting`), and all other
methods may run meanwhile. `Apply` is `applyTransition` with `executeCommands` up to the
`await` of a reconnect; `SessionCreated` and `SessionRefused` are the rest. Bridge sessions
are reduced to what BridgeLink lets the agent see: asked for, refused, open, shut, with
up to two notices of the end in any order. A restart between the stored snapshot and its
request to DurableSocket leaves what a refused request and a restart leave. The panels name
`window.location.origin` in every login and recovery, so `resolveRequestOrigin` never throws
there. `remote` of `WsClosed` is always false, because the
bridge closes the data WebSocket without the target's code (`main.rs:312`) and DurableSocket
says 1006 (`durable-socket.ts:71`): the close of a sign-out elsewhere does not reach the
machine. `stale` is a history variable: it records that a decrypted frame's result replaced
a snapshot it was not made from.

## 3. The runs

| run | question | bounds |
|---|---|---|
| `telegram_login` | Does the login work, in both modes, through data-centre moves? | 3 data centres, one unknown to the resolver; 2 connections, 8 message ids; transport errors |
| `telegram_faults` | What holds whatever the network does, and is it what the agent counts on? | as above with 7 message ids, all six faults, containers of up to 2 messages, 2 salts |
| `telegram_boxed` | *violation*: a boxed result | only the fault `boxed` |
| `telegram_agent` | Is what the agent sends, stores and shows consistent, whatever interleaves? | 2 tasks, 3 bridge sessions, 2 key exchanges, 3 messages each, restarts; tasks symmetric |
| `updates_cursor` | Does the updates state follow the account? | 3 updates, 3 messages and 2 requests on their way, 2 lost connections |
| `frame_engine` | Do the engines keep FrameChannel's promise, and what remains when a read is cut? | 3 frames of 4, 2 and 5 bytes with headers of 2, reads of up to 3 bytes, 2 agent messages at any time |
| `frame_engine_cut` | *violation*: whole frames, with traffic at any time | the same |
| `bridge_link` | Are queue, rows and notifications consistent, and do sessions settle and ends arrive? | 2 keys, 2 frames, evictions, 2 control connections of which the second holds |
| `bridge_link_evicted` | *violation*: stored frames survive | 2 keys, 2 frames, evictions |
| `bridge_link_drained` | *violation*: frames drained twice | 2 keys, 2 frames |
| `zalo_agent` | Is the session complete and never stuck, whatever interleaves? | 2 tasks, 2 bridge sessions, restarts; tasks symmetric |
| `zalo_stale_close` | *violation*: the second notification of an end | the same without restarts |

**What the passing runs show.**

- `telegram_login`: `WaitsForPending` (a session that waits has its request in the pending
  table, unanswered), `ImportsTokenOfThisDc`, `ReadyNeverRegresses` and, under fairness,
  `LoginProgresses`.
- `telegram_faults`: `KeyMaterial`, `OneInitConnection`, `PendingIsOurs`, `ReadyIsGranted`
  and `AwaitingInputUsable`, which need nothing of the network; and the refinement
  `ImplementsMachine`: whatever arrives, the reducer makes no move that the agent's model lacks.
- `telegram_agent`: without exception `SentFromStored` (what is sent or queued was made in the
  snapshot stored in the same step, so that its answer finds the state that asked) and
  `LogoutIsFinal` (after a logout with no method under way, neither the bridge nor the browser
  nor a restart brings back a snapshot in memory or storage, a key, a queue or a session).
  While sessions do not overlap:
  `FramesReachTheirTarget`, `NumbersRise`, `StatusIsGrounded` and `AuthenticatedIsReady`.
- `updates_cursor`: `CursorNeverRegresses`, and `DifferenceLeavesNoGap`: a difference,
  however late, moves the state only past updates that were handed over. The second is about
  differences: a pushed update and the answer to `GetState` do leave gaps (section 6).
- `frame_engine`: the refinement `ImplementsChannel`, `RemoteCloseIsLast` and `FramesArrive`
  promise whole frames, in order, until a read is cut; `DamageFollowsLoss` and
  `RelayedInOrder` say what holds after that: damage only behind a loss, a loss only behind a
  cut, and nothing repeated or reordered. The stream and WebSocket engines are never cut. So
  lost reads are the only thing wrong with the framing engines, and `frame_engine_cut` shows
  that they do happen.
- `bridge_link`, under evictions and a broken control connection: `QueuedFramesAwaitBridge`,
  `FramesInOrder`, `LiveSessionsAreRouted`, `AtMostTwice` (a frame goes to one session, and to
  that at most once from each queue) and `KeepsSessions` (the refinement of `BridgeSession`: no end is
  told early, twice on one path, or of a session that never was). Under fairness
  `SessionSettles` and `EndIsReported`, which excuse the sessions that were opened on a control
  connection that broke (`Cut`): such a session can wait for ever and its row stay, because no
  part of the code has a timeout. Evictions and late answers excuse nothing.
- `zalo_agent`: `SessionIsComplete`, `SavedHasCredentials`, `ConnectingHasSession`. The last
  two except the states after a stale decrypted frame, and `ConnectingHasSession` names a
  refused request as the one thing a connecting session may be left with. That is a real
  dead end: `ws_connecting` has no transition for `http_login_failed`, so after a QR login
  the phase stays `recovering` until the user acts.

**Why the bounds are enough.** Two connections make one move between data centres, with the
old connection's leftovers; seven or eight message ids take every login to READY across that
move and leave requests to go wrong after it. Three frames are a frame, its successor and
one after a damaged one; the frames have different lengths, one without a body; reads of three
bytes end inside a frame, at its end and across two. Two keys are a session and its successor;
the properties speak of at most two sessions. Two tasks are a waiting method and one that
overtakes it; in `TelegramAgent` three sessions are one that ends, its successor and what the
second notice of the end asks for, two exchanges the login and a move to another data centre,
three messages the first, one in between and the next, or two that one frame makes. Containers of
two messages have every pair of messages, and with it every order of a refusal and a scan;
the theorems have containers of any size. Three updates are one lost, one passed
by a request and one pushed after it. `Prompts` is one value there, because the three that
await the user differ in what is shown and in nothing else; the theorems have all three.
`CHECK_DEADLOCK FALSE` is set where the system really stops: a session in ERROR, an engine
that has ended, a link whose two keys are used up. The agents and the updates state never stop.

**Fairness.** `TelegramSession`: `WF(Reply)`, the server answers what it is sent; user input
is never obliged. `FrameEngine`: `WF(Read)`, the task is polled when bytes are there; nothing
obliges target or agent. `BridgeLink`, for each key by itself: the bridge goes on with the
session (it reads `open_session`, dials, and reports the end, tokio tasks that can run), and
DurableSocket takes the report and calls the agent; nothing obliges an engine to end, a control
connection to break or to be made again, or an agent to act. `TelegramAgent`, `UpdatesCursor`
and `ZaloAgent` are checked for safety only: the agents have no timers that retry, so nothing
in their code obliges progress.

## 4. The proofs

All theorems hold for every value of the constants: any set of data centres, any subset of
faults, any layout of frames and any buffer, any number of keys, tasks, sessions, exchanges,
messages and updates, with or without evictions, control loss and restarts.

| theorem | states |
|---|---|
| *TelegramSession* | |
| `TypeCorrect` | `TypeOK` |
| `KeyMaterialCorrect` | every phase holds exactly the key material its handler reads |
| `OneInitConnectionCorrect` | the first encrypted request of a connection, and no other, carries InitConnection |
| `PendingIsOursCorrect` | message ids are not reused; the pending table names requests of this connection |
| `AwaitingInputUsableCorrect` | a form is shown only with what its event needs, under every fault |
| `ReadyIsGrantedCorrect` | a session is ready only if the server granted it, under every fault |
| `ImportsTokenOfThisDcCorrect` | if no answer is reordered or repeated (`InOrder`), a QR token is imported only where it is valid |
| `ReadyNeverRegressesCorrect` | if every answer is handed over, once and in order (`Punctual`), a ready session leaves READY only for ERROR or a new key exchange |
| `ImplementsMachineCorrect` | the reducer implements `AccountMachine`, under every fault |
| `WaitsForPendingCorrect` | if no result is boxed or ignored and no salt changes (`Lossless`), a waiting session has its request pending and unanswered |
| *TelegramAgent* | |
| `AgentTypeCorrect` | `TypeOK`: at most one snapshot; queues, sessions and tasks refer to what exists |
| `CacheIsCoherentCorrect` | what is in memory is in storage |
| `SentFromStoredCorrect` | what is sent was made from the snapshot stored in the same step |
| `LogoutIsFinalCorrect` | nothing brings back an account that logged out with no method under way |
| `FramesReachTheirTargetCorrect` | while sessions follow each other, a session gets frames of its own exchange only |
| `NumbersRiseCorrect` | ... no message number is used twice |
| `StatusIsGroundedCorrect` | ... the browser waits only for what is on its way |
| `AuthenticatedIsReadyCorrect` | ... an account shown as authenticated has a ready session in storage |
| `KeepsSessionsCorrect` | every session of the account behaves as `BridgeSession` says |
| *UpdatesCursor* | |
| `CursorTypeCorrect` | `TypeOK` |
| `CursorNeverRegressesCorrect` | no counter turns back |
| `DifferenceLeavesNoGapCorrect` | no difference passes an update that was not handed over |
| *FrameEngine* | |
| `EngineTypeCorrect` | `TypeOK`: nothing is read that was not written |
| `RelayedInOrderCorrect` | nothing is repeated or reordered, and nothing lost before a read is cut |
| `DamageFollowsLossCorrect` | messages without a gap are the target's frames |
| `RemoteCloseIsLastCorrect` | all complete frames precede `remote_close`, unless a read was cut |
| `ImplementsChannelCorrect` | every engine implements `FrameChannel` |
| `DamageNeedsCut` | all that is relayed before the first cut, or at all if there is none, is whole frames |
| *BridgeLink* | |
| `LinkTypeCorrect` | `TypeOK` |
| `QueuedFramesAwaitBridgeCorrect` | no frame is left queued behind a live bridge connection |
| `FramesInOrderCorrect` | a frame overtaken on a connection is a repetition |
| `LiveSessionsAreRoutedCorrect` | a `session_closed` finds the row of its session |
| `ClosesFollowEndCorrect` | the agent never hears of the end of a session that relays |
| `ImplementsSession`, `KeepsSessionsCorrect` | for every key the link implements `BridgeSession` |
| `AtMostTwiceCorrect` | a frame is written to one session only, and to that at most twice |
| `QueueLostByEvictionCorrect` | what `QueueSurvives` denies, exactly: a stored frame is lost by a close, or by a send after an eviction, and by nothing else |
| *ZaloAgent* | |
| `AgentTypeCorrect` | `TypeOK`: methods that wait refer to sessions that exist |
| `SessionIsCompleteCorrect` | a listening session has a key, an online one credentials and address, in memory and storage |
| `SavedHasCredentialsCorrect` | no online session is stored without its credentials, but by a stale frame |
| `ConnectingHasSessionCorrect` | a connecting session has a bridge session, a notice to come, or a refused request |
| `KeepsSessionsCorrect` | every session of the account behaves as `BridgeSession` says |

**Assumptions.** Only the `ASSUME`s of the modules: known data centres are data centres, the
home one is known, `NoDC` is none of them; frames are at least a header long, at most
`MaxSize`, and do not overlap; a buffer holds a byte and an exchange a message; the values in
which a login awaits its user are among the machine's three; bounds are natural numbers. TLC
evaluates them on every run.

**TelegramSession.** `TypeOK` is inductive with one lemma per handler. `KeyMaterial` is not
inductive by itself but becomes so with the types; each handler either keeps the phase and its
key, or moves both. `OneInitConnection` and `PendingIsOurs` need a strengthening that relates
`lastMsgId` and `inited` to what was sent: every id sent is at most `lastMsgId`, and `inited`
holds exactly when an encrypted request was sent on this connection. Handlers are reduced to
four shapes by lemmas (`Kept`, `Asked`, `Exchanged`, `Moved`), so each shape is proved once.

`FormInv` adds what each phase promises of its snapshot (`Usable`) and that a code is asked
for, and answered, only when there is a phone: so every late or repeated frame finds or brings
what the form needs. `Tokens` is the invariant of a QR login: a login by phone holds no token
and asks for none, and a session that calls methods holds none either, so that the only
requests `MIGRATE` answers never have a token to carry to another data centre. It needs
answers in order: TLC finds the property violated with a `LoginToken` that comes late or again
after a method was called (section 6). `Waits` follows each answer to the entry it removes: an
entry outlives everything but the first answer to it, and a first answer that leaves the phase
alone is the answer to a method.

`ReadyNeverRegresses` has a module of its own, `TelegramReady_proofs`, since it is about the
order of a whole connection. What threatens a ready session is an answer that a login asked
for and did not wait for. With a password check `c` pending, a scanned QR code makes the
reducer import its token (`x`, behind `c`), and the `SESSION_PASSWORD_NEEDED` that answers an
earlier request makes it ask for the password again (`g`, behind `x`). Then `c` authorises and
the session is ready, while `g` is still to be answered by `account.Password`, which would take
it back to AWAITING_PASSWORD. It does not, because the answer to `x` comes in between, and
for an account with a password whose login is granted that can only be a refusal: the
session is in ERROR before `g` is heard of. `Ordered` says which requests can be unanswered
behind which, `Fenced` that one like `g` never stands unprotected, and `Staged` what may be
unanswered at all in each phase. With `x`'s answer lost to the reducer the property fails:
TLC finds a violation, of up to 17 steps, with any one of the faults `boxed`, `ignored`,
`reorder` and `resend`, so `Punctual`, which excludes these four and allows salt changes and
transport errors, cannot be weakened fault by fault.

The refinement of `AccountMachine` is shown in terms of phases: a step leaves the machine
without a message, sends one or (a container) several, or begins an exchange. It needs
one fact beyond the types: a ready session holds no QR token (`Spent`), for a login-token
update imports whatever token there is, in any phase. Only `LoggedIn` makes a session ready,
and it drops the token; with a variant that keeps it TLC finds a ready session that
authorizes again.

**TelegramAgent.** The inductive invariant is `AgentInv`. `TypeInv` says more than `TypeOK`: two
stored snapshots are one, memory holds nothing that storage does not, and a method that
resumes a session has room for its message. `SafeInv` holds while sessions follow each other.
`LinksOK`: one session is live at a time, it is for the exchange of the stored snapshot, and
so is what was or will be written to it; frames are queued or written only while a bridge key
is held. `TasksOK`: the one method that waits can rely on a session to which nothing was
written and whose end it has yet to hear, and (`GoesOn`) on a snapshot whose next number is
new, although that was read before the await: this is so because nothing can be sent in
between, `key` being 0 or the machine being in its handshake. `StoreLeads`: no number on the
wire is above the stored snapshot's. `StatusOK` strengthens `StatusIsGrounded`: what backs the
status is not the session of a login that still waits, since that may be refused without the
status being touched. Two lemmas carry most steps: `AskSafe` for every method that asks for a
session when none is live, and `AdvanceSafe` for every step from the stored snapshot to the
next one.

**UpdatesCursor.** Whatever was asked for, and whatever is on its way in answer, starts no
later than the state that is kept (`FromFollowed`): the counters never turn back, so an answer
that comes late starts in what was followed already.

**FrameEngine.** `EngineInv` has one part per variable that moves: where a read begins
(`RelayedInv`), what its size says (`ReadInv`), and that messages without a gap are frames
(`FramesInv`), which rests on offsets being distinct. The refinement is proved by a step simulation
(`NextChannel`): `TargetWrites` produces, `RelayFrame`, `RelayChunk` and `RelayMessage`
deliver, what ends the relay or cuts a read ends the promise, and all else stutters. It needs
`MapInv`: before a cut the number of a message is its index. `DamageNeedsCut` is the true form
of `DeliversWholeFrames`, which `frame_engine_cut` refutes.

**BridgeLink.** `LinkInv`: a session is reported once, after its end (`ReportsOK`); memory is
empty or the stored queue (`QueueOK`); what waits is younger than what was written, and in
the order of its sending (`NumbersOK`). `QueueLostByEviction` is the true form of
`QueueSurvives`, which `bridge_link_evicted` refutes. `AtMostTwice` is the true form of `DrainedOnce`, which
`bridge_link_drained` refutes: what waits was written nowhere, so a double drain is the only
source of a repetition and leaves nothing behind that could be written a third time. The
refinement of `BridgeSession` needs `SessionOK`: the data WebSocket is closed after its session
began to relay, and DurableSocket tells of an end only when the report was delivered.

**The agents' sessions.** `KeepsSessions` of `TelegramAgent` and `ZaloAgent` is a statement
about the models: whatever the methods do, a session steps as `BridgeSession` does. It closes
the composition from one side: every behaviour that the agents' models give a session is
one that the abstract session has. That they leave none out (a session may be refused, connect,
end and be told of whenever `BridgeSession` allows) is a matter of ENABLED, and is seen from
the guards of `SessionConnects`, `SessionEnds` and `OnSocketClosed` instead.

**ZaloAgent.** The inductive invariant `AgentInv` has three parts. `LinksOK`: only shut
sessions have notices, and only sent ones are told. `SnapshotsOK`: the stored snapshot is the
one in memory, it is complete, and it has credentials and something to wait for. `TasksOK`:
the result a decrypting task holds follows from the snapshot it was made from. The reducer
enters through `Follows(s, type, r)`: what a result may be, given the snapshot it was made
from, and no more. `ResultsFollow` proves it of each event, `ResultOK` that applying such a
result keeps the invariant. `ConnectingHasSession` needs `LinksOK`: a notice is handled
exactly once, so the last end of a session is told while the snapshot still connects, and the
machine leaves the state.

**Model-checked only.** Liveness under fairness (`LoginProgresses`, `FramesArrive`,
`SessionSettles`, `EndIsReported`), which the prover does not cover, and the five properties
that the code violates (section 5). Every safety and action property of a passing run is a
theorem. Three have a hypothesis about the faults, stated in the theorem and needed:
`ReadyNeverRegresses` (`Punctual`), `ImportsTokenOfThisDc` (`InOrder`) and `WaitsForPending`
(`Lossless`). `KeepsSessions` of the two agents
and `CacheIsCoherent` are proved and in no run.

## 5. Where the code differs from what it says

| run | what the code does |
|---|---|
| `telegram_boxed` | A result inside a `MessageContainer` is removed from the pending table and otherwise dropped (`gramjs/dispatch/inbound-dispatch.ts:399` passes no parsed body), where the function promises to dispatch it recursively. The session waits for an answer it has had. |
| `frame_engine_cut` | `read_exact` inside `select!` loses bytes when another branch wins (`main.rs:682-705`). The codec on the other side counts on whole frames. |
| `bridge_link_drained` | `onConnect` sends the queue in memory and then the stored one, which holds the same frames (`base-agent.ts:228`). |
| `bridge_link_evicted` | Queued frames are stored "so they survive across DO instance boundaries" (`base-agent.ts:29-30`). An evicted object starts with an empty queue in memory, and the first frame it queues is stored in place of what was there (`base-agent.ts:178-190`): the frames stored before are never sent. |
| `zalo_stale_close` | The first notification of an end moves the machine from listening to reconnecting, the second from reconnecting to error, while the new session is being opened (`agents/zalo-agent.ts:1494`). |

## 6. What is not modelled, and the plan

**Flaws that the models have and no property forbids.** No text of the repository promises
otherwise, so no run expects them to be violations; the models contain the steps, and the
properties are stated around them.

- `closeCurrentSocket` sets a flag that absorbs one notice (`agents/telegram-agent.ts:744`);
  a session that was connected ends with two, and the second makes the agent reconnect the
  socket the user has just closed (`app/components/TelegramPanel.tsx:266` offers recovery by
  hand).
- Every close by the agent itself yields two notices, and each of them, with an authenticated
  account, closes the new session and asks for another (`telegram-agent.ts:849`): reconnects
  do not come to an end.
- A logout during a reconnect's await is undone by what follows the await, or leaves
  "authenticated" on display with nothing stored. The notices of a logout's own close turn
  "idle" into "error".
- During a reconnect there is no bridge key: an RPC then answers ok although its frame was
  skipped (`telegram-agent.ts:434-438`).
- Reconnects that overlap reuse message numbers: each sends from the snapshot that it read
  before its await (`telegram-agent.ts:293`).
- `startAuth` neither closes an earlier session nor empties its queue
  (`telegram-agent.ts:531`), and `onConnect` does not ask whose queue it drains
  (`agents/shared/base-agent.ts:222-236`): the frames of two key exchanges mix.
- A restart while a migration waits for its session leaves "authenticated" on display over a
  snapshot in its handshake. The notice of a dial that failed may overtake the answer to
  `createSession`, and leaves "connecting" for ever.
- A `LoginToken` that arrives late or again takes a ready session back to the QR code; a
  `MIGRATE` that answers a method then carries the token to a data centre where it is not
  valid (`session/session-runtime.ts:164`). The properties that exclude this,
  `ReadyNeverRegresses` and `ImportsTokenOfThisDc`, are checked and proved with answers in
  order.
- Each reconnect's `updates.GetState` moves the updates state past what was missed
  (`telegram-agent.ts:298`); a later difference starts behind it.
- A session opened on a control connection that has broken is neither connected nor reported,
  and its row in `ds_sessions` stays (`main.rs:216`, `durable-socket.ts:112`).

**Not modelled, and not planned:** bytes, encryption and key arithmetic (values are told apart
only as far as the properties do); `gramjs/conversation` and the views (formatting);
`shared-statemachine` (adapter types); the Worker entry and the user interface (no state of
their own); `zca` frame decoding beyond its classes; patches, lock files and `dist/`.

**Left out of modelled parts:** of `ZaloAgent` the message store, the cursors,
`fetchMissingEvents`, `sendMessage` and the content of the ping queue; of `TelegramAgent` the
packet log, the activity list and the counters of messages and recoveries; of
`SocketBridgeAgent` the activity list and the browsers' connections; of the bridge
`close_session` and control pings, which nobody sends; `qts` and `date` of the updates state.

**The plan, in order:**

1. `TelegramAgent` with `UpdatesCursor`: that the agent's sessions and calls give the updates
   state no more than `UpdatesCursor` takes from them. With the reducer the agent is tied by
   `AccountMachine`, with the link by `BridgeSession`.
2. The message cursors of `ZaloAgent` and its `fetchMissingEvents`, in the way of
   `UpdatesCursor`, and the ping queue.
3. The browsers' connections and the activity list of `SocketBridgeAgent`.

Runs of a module that a composed one supersedes are merged into the latter's, so that the
number of runs stays one per question.
