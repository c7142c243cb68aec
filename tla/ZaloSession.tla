----------------------------- MODULE ZaloSession -----------------------------
(***************************************************************************)
(* The session reducer of zca-js-statemachine: what createSession and      *)
(* transitionSession return.  A snapshot is [value, creds, url, key]: the  *)
(* machine's state, whether it holds credentials and the address of the    *)
(* real-time server, and the cipher key.  Keys are told apart by the       *)
(* bridge session that delivered them.  A result is a snapshot, a sequence *)
(* of commands and an event, "none" for no event.                          *)
(***************************************************************************)
EXTENDS Naturals, Sequences

NoKey == 0

Value == {"idle", "qr_connecting", "qr_awaiting_scan", "qr_scanned", "qr_expired",
          "cred_logging_in", "logged_in", "ws_connecting", "listening",
          "reconnecting", "error"}

Snapshot == [value : Value, creds : BOOLEAN, url : BOOLEAN, key : Nat]

Result(s, commands, event) == [snapshot |-> s, commands |-> commands, event |-> event]

CreateSession(mode) ==
  [value |-> IF mode = "qr" THEN "qr_connecting" ELSE "cred_logging_in",
   creds |-> mode = "credentials", url |-> FALSE, key |-> NoKey]

\* Mutant: a session that reconnects has no transition for a close.
ReconnectingWithoutClose == {"inbound_frame"}

Reconnecting == {"ws_closed", "inbound_frame"}

\* The events each state of the machine has a transition for.
CanHandle(value, type) ==
  \/ value = "idle" /\ type = "logout"
  \/ value = "qr_connecting" /\ type \in {"ws_closed", "http_login_qr_result",
                                          "http_login_creds_result", "http_login_failed"}
  \/ value = "qr_awaiting_scan" /\ type \in {"qr_scan_event", "inbound_frame", "ws_closed",
                                             "http_login_creds_result", "http_login_failed"}
  \/ value = "qr_scanned" /\ type \in {"qr_scan_event", "http_login_creds_result",
                                       "http_login_failed"}
  \/ value = "cred_logging_in" /\ type \in {"http_login_creds_result", "http_login_failed"}
  \/ value = "ws_connecting" /\ type \in {"ws_closed", "inbound_frame"}
  \/ value = "reconnecting" /\ type \in Reconnecting
  \/ value = "listening" /\ type \in {"inbound_frame", "ws_closed", "logout"}

\* transitionSession: an event the state has no transition for changes nothing.
Transition(s, type, result) ==
  IF CanHandle(s.value, type) THEN result ELSE Result(s, <<>>, "none")

\* The frames of the Zalo server: its cipher key, ...
CipherKey(s, key) ==
  IF s.value \in {"ws_connecting", "reconnecting"}
  THEN Result([s EXCEPT !.value = "listening", !.key = key], <<"send_ping">>, "none")
  ELSE Result([s EXCEPT !.key = key], <<>>, "none")

\* ... the notice that the account connected elsewhere, ...
DuplicateConnection(s) == Result([s EXCEPT !.value = "error"], <<>>, "none")

\* ... its pings, and anything else, which is for the agent.
PingFrame(s) == Result(s, <<>>, "none")

DataFrame(s) == Result(s, <<>>, "frame")

\* What a frame of bridge session k may be.
Frames(s, k) == {CipherKey(s, k), DuplicateConnection(s), PingFrame(s), DataFrame(s)}

\* Mutant: the key of the closed connection is kept.
WsClosedKeepsKey(s, remote) ==
  Result([s EXCEPT !.value = IF s.value = "listening" /\ ~remote
                             THEN "reconnecting" ELSE "error"],
         IF s.value = "listening" /\ ~remote THEN <<"reconnect", "send_ping">> ELSE <<>>,
         "none")

\* remote: the close says that the account was signed out elsewhere.
WsClosed(s, remote) ==
  IF s.value # "listening"
  THEN Result([s EXCEPT !.value = "error", !.key = NoKey], <<>>, "none")
  ELSE IF remote
  THEN Result([value |-> "error", creds |-> FALSE, url |-> FALSE, key |-> NoKey],
              <<"clear_credentials">>, "none")
  ELSE Result([s EXCEPT !.value = "reconnecting", !.key = NoKey],
              IF s.url /\ s.creds THEN <<"reconnect", "send_ping">> ELSE <<>>, "none")

QRShown(s) == Result([s EXCEPT !.value = "qr_awaiting_scan"], <<>>, "qr_ready")

QRScanned(s) == Result([s EXCEPT !.value = "qr_scanned"], <<>>, "qr_scanned")

LoginSucceeded(s) ==
  Result([s EXCEPT !.value = "ws_connecting", !.creds = TRUE, !.url = TRUE],
         <<"persist_credentials", "reconnect", "send_ping">>, "login_success")

LoginFailed(s) == Result([s EXCEPT !.value = "error"], <<>>, "none")
=============================================================================
