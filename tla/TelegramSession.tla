--------------------------- MODULE TelegramSession ---------------------------
(***************************************************************************)
(* The Telegram session reducer of packages/gramjs-statemachine together   *)
(* with the Telegram server it talks to over one connection at a time.     *)
(*                                                                         *)
(* The reducer is a pure function: (snapshot, host event) -> (snapshot,    *)
(* frames to send, reconnect directive).  `s' is the persisted snapshot,   *)
(* one action per host event and kind of inbound frame.  The server is     *)
(* external: it answers each request it received once, with any reply the  *)
(* MTProto API allows for it; Faults names what else the network may do.   *)
(* A reply is decided when it is delivered: nothing reads it earlier.      *)
(*                                                                         *)
(* Left out: the bytes of frames, the arithmetic of the key exchange, and  *)
(* frames the reducer ignores in every phase (quick acks, Pong, MsgsAck,   *)
(* updates that carry no login token).                                     *)
(***************************************************************************)
EXTENDS Naturals, FiniteSets

CONSTANTS
  DC,            \* data centres a server reply may name
  KnownDC,       \* those in the resolver's table
  HomeDC,        \* the resolver's default
  NoDC,          \* no data centre; also "no QR token"
  Faults,        \* subset of FaultKinds: what else the network and server may do
  MaxConnection, \* bound: key exchanges started
  MaxMsgId,      \* bound: message ids per connection
  MaxContainer,  \* bound: replies and scans in one container
  MaxSalt        \* bound: salts the server goes through

FaultKinds ==
  {"reorder",   \* requests are answered out of order
   "resend",    \* a reply or login-token update is delivered again
   "boxed",     \* frames travel together inside a MessageContainer
   "ignored",   \* a login request gets a result class the reducer has no rule for
   "salt",      \* the server changes its salt
   "transport"} \* a 4-byte transport error arrives in place of a message

ASSUME DCAssumption == KnownDC \subseteq DC /\ HomeDC \in KnownDC /\ NoDC \notin DC
ASSUME FaultAssumption == Faults \subseteq FaultKinds
ASSUME BoundAssumption ==
  MaxConnection \in Nat \ {0} /\ MaxMsgId \in Nat \ {0}
  /\ MaxContainer \in Nat /\ MaxSalt \in Nat

VARIABLES
  s,           \* the persisted SerializedState
  connection,  \* key exchanges started: the current connection and its key
  sent,        \* requests sent on the current connection
  replied,     \* replies delivered on it
  account,     \* the server's view of the current key
  salt         \* the salt the server accepts now

vars == <<s, connection, sent, replied, account, salt>>

Handshake == {"PQ_SENT", "DH_SENT", "DH_GEN_SENT"}
Waiting   == {"CODE_SENT", "SIGN_IN_SENT", "PASSWORD_INFO_SENT",
              "CHECK_PASSWORD_SENT", "QR_TOKEN_SENT", "QR_IMPORT_SENT"}
Awaiting  == {"AWAITING_CODE", "AWAITING_PASSWORD", "AWAITING_QR_SCAN"}
Encrypted == Waiting \cup Awaiting \cup {"READY"}
Phase     == Handshake \cup Encrypted \cup {"ERROR"}

PlainName == {"ReqPqMulti", "ReqDHParams", "SetClientDHParams"}
ApiName   == {"auth.SendCode", "auth.SignIn", "account.GetPassword",
              "auth.CheckPassword", "auth.ExportLoginToken",
              "auth.ImportLoginToken", "method"}
DhValue   == {"dhNonce", "dhServerNonce", "dhNewNonce"}

Session ==
  [phase : Phase, dc : DC, key : Nat, sessionId : BOOLEAN, dh : SUBSET DhValue,
   salt : Nat, inited : BOOLEAN, lastMsgId : Nat,
   pending : SUBSET [id : Nat, name : ApiName],
   mode : {"phone", "qr"}, phone : BOOLEAN, codeHash : BOOLEAN, srp : BOOLEAN,
   token : DC \cup {NoDC}, user : BOOLEAN]

Request == [id : Nat, name : PlainName \cup ApiName, key : Nat, dc : DC,
            token : DC \cup {NoDC}, salt : Nat, init : BOOLEAN]

Room == s.lastMsgId < MaxMsgId
-----------------------------------------------------------------------------
(* Building snapshots and requests *)

\* createInitialState, then startDhExchange: the reducer never rests in INIT.
Fresh(dc, mode, phone, token) ==
  [phase |-> "PQ_SENT", dc |-> dc, key |-> 0, sessionId |-> FALSE,
   dh |-> {"dhNonce"}, salt |-> 0, inited |-> FALSE, lastMsgId |-> 1,
   pending |-> {}, mode |-> mode, phone |-> phone, codeHash |-> FALSE,
   srp |-> FALSE, token |-> token, user |-> FALSE]

Plain(st, name) ==
  [id |-> st.lastMsgId, name |-> name, key |-> 0, dc |-> st.dc,
   token |-> NoDC, salt |-> 0, init |-> FALSE]

\* hydrateSession throws on anything less.
Hydratable(st) == st.key # 0 /\ st.sessionId

Fail(st) == [st EXCEPT !.phase = "ERROR"]

\* Mutants of Requested: initConnection never recorded; the pending id read too
\* early.
RequestedNotInited(st, name, phase) ==
  [st EXCEPT !.phase = phase, !.lastMsgId = @ + 1,
             !.pending = @ \cup {[id |-> st.lastMsgId + 1, name |-> name]}]
RequestedStaleId(st, name, phase) ==
  [st EXCEPT !.phase = phase, !.lastMsgId = @ + 1, !.inited = TRUE,
             !.pending = @ \cup {[id |-> st.lastMsgId, name |-> name]}]

\* sendApiRequest: the snapshot after, and the request it puts on the wire.
Requested(st, name, phase) ==
  [st EXCEPT !.phase = phase, !.lastMsgId = @ + 1, !.inited = TRUE,
             !.pending = @ \cup {[id |-> st.lastMsgId + 1, name |-> name]}]

ApiRequest(st, name) ==
  [id |-> st.lastMsgId + 1, name |-> name, key |-> st.key, dc |-> st.dc,
   token |-> IF name = "auth.ImportLoginToken" THEN st.token ELSE NoDC,
   salt |-> st.salt, init |-> ~st.inited]

\* An exception anywhere in the handling of a frame leaves the snapshot as it
\* was before the frame, with phase ERROR.
Keep(st) == s' = st /\ UNCHANGED <<connection, sent>>

Call(st, name, phase) ==
  IF Hydratable(st)
  THEN /\ s' = Requested(st, name, phase)
       /\ sent' = sent \cup {ApiRequest(st, name)}
       /\ UNCHANGED connection
  ELSE Keep(Fail(s))

\* Several requests of one frame, exports before imports, as Call would send them
\* one after the other.
Batch(st, exports, imports) ==
  {ApiRequest([st EXCEPT !.lastMsgId = @ + i - 1, !.inited = @ \/ i > 1],
              IF i <= exports THEN "auth.ExportLoginToken" ELSE "auth.ImportLoginToken") :
     i \in 1..exports + imports}

CallAll(st, exports, imports, phase) ==
  LET batch == Batch(st, exports, imports) IN
  IF batch = {} \/ Hydratable(st)
  THEN /\ s' = [st EXCEPT !.phase = phase, !.lastMsgId = @ + exports + imports,
                          !.inited = @ \/ batch # {},
                          !.pending = @ \cup {[id |-> r.id, name |-> r.name] : r \in batch}]
       /\ sent' = sent \cup batch
       /\ UNCHANGED connection
  ELSE Keep(Fail(s))

\* Mutants of Reconnect: to the default data centre; carrying over the pending
\* table; carrying over the phase.
ReconnectHome(dc, token) ==
  /\ s' = Fresh(HomeDC, s.mode, s.phone, token)
  /\ sent' = {Plain(s', "ReqPqMulti")}
  /\ connection' = connection + 1
ReconnectKeepsPending(dc, token) ==
  /\ s' = [Fresh(dc, s.mode, s.phone, token) EXCEPT !.pending = s.pending]
  /\ sent' = {Plain(s', "ReqPqMulti")}
  /\ connection' = connection + 1
ReconnectKeepsPhase(dc, token) ==
  /\ s' = [Fresh(dc, s.mode, s.phone, token) EXCEPT !.phase = s.phase]
  /\ sent' = {Plain(s', "ReqPqMulti")}
  /\ connection' = connection + 1

\* buildReconnectDirective: a fresh snapshot on a new connection to dc.
Reconnect(dc, token) ==
  IF dc \in KnownDC
  THEN LET st == Fresh(dc, s.mode, s.phone, token) IN
       /\ s' = st
       /\ sent' = {Plain(st, "ReqPqMulti")}
       /\ connection' = connection + 1
  ELSE Keep(Fail(s))

\* continueAuthReady
ContinueAuth(st) ==
  IF st.token # NoDC THEN Call(st, "auth.ImportLoginToken", "QR_IMPORT_SENT")
  ELSE IF st.mode = "qr" THEN Call(st, "auth.ExportLoginToken", "QR_TOKEN_SENT")
  ELSE IF st.phone THEN Call(st, "auth.SendCode", "CODE_SENT")
  ELSE Keep(Fail(s))
-----------------------------------------------------------------------------
(* Key exchange: steps 2 to 4, one plain frame each *)

HandleResPq(f) ==
  /\ s.phase = "PQ_SENT"
  /\ LET st == [s EXCEPT !.phase = "DH_SENT", !.lastMsgId = @ + 1,
                         !.dh = @ \cup {"dhServerNonce", "dhNewNonce"}]
     IN  IF f.kind = "ResPQ"
         THEN s' = st /\ sent' = sent \cup {Plain(st, "ReqDHParams")}
         ELSE s' = Fail(s) /\ UNCHANGED sent
  /\ UNCHANGED connection

HandleServerDHParams(f) ==
  /\ s.phase = "DH_SENT"
  /\ LET st == [s EXCEPT !.phase = "DH_GEN_SENT", !.lastMsgId = @ + 1,
                         !.key = connection, !.salt = salt]
     IN  IF f.kind = "ServerDHParamsOk"
         THEN s' = st /\ sent' = sent \cup {Plain(st, "SetClientDHParams")}
         ELSE s' = Fail(s) /\ UNCHANGED sent
  /\ UNCHANGED connection

\* Mutants of HandleDhGenResult: the nonces stay; the login is not continued.
HandleDhGenResultKeepsNonces(f) ==
  /\ s.phase = "DH_GEN_SENT"
  /\ IF f.kind = "DhGenOk" THEN ContinueAuth([s EXCEPT !.sessionId = TRUE])
                           ELSE Keep(Fail(s))
HandleDhGenResultStops(f) ==
  /\ s.phase = "DH_GEN_SENT"
  /\ Keep(IF f.kind = "DhGenOk" THEN [s EXCEPT !.sessionId = TRUE, !.dh = {}]
                                ELSE Fail(s))

HandleDhGenResult(f) ==
  /\ s.phase = "DH_GEN_SENT"
  /\ IF f.kind = "DhGenOk"
     THEN ContinueAuth([s EXCEPT !.sessionId = TRUE, !.dh = {}])
     ELSE Keep(Fail(s))
-----------------------------------------------------------------------------
(* Encrypted frames *)

\* The request name is looked up before the result leaves the pending set.
RequestName(f) == {p.name : p \in {q \in s.pending : q.id = f.to}}

Settled(f) == [s EXCEPT !.pending = {p \in @ : p.id # f.to}]

\* Mutant of LoggedIn: a phase the machine does not have.
LoggedInUnknownPhase(st) == [st EXCEPT !.phase = "AUTHENTICATED", !.token = NoDC]

\* Mutant of LoggedIn: the QR token stays.
LoggedInKeepsToken(st) == [st EXCEPT !.phase = "READY", !.user = TRUE]

LoggedIn(st) == [st EXCEPT !.phase = "READY", !.user = TRUE, !.token = NoDC]

\* buildLoginActions: decided by the class of the result, whatever the phase;
\* only account.Password is tied to the request it answers.
HandleResult(f) ==
  LET st == Settled(f) IN
  \/ f.kind = "auth.SentCode"
     /\ Keep([st EXCEPT !.phase = "AWAITING_CODE", !.codeHash = TRUE])
  \/ f.kind = "account.Password"
     /\ Keep(IF "account.GetPassword" \in RequestName(f)
             THEN [st EXCEPT !.phase = "AWAITING_PASSWORD", !.srp = TRUE]
             ELSE st)
  \/ f.kind = "auth.LoginToken"
     /\ Keep([st EXCEPT !.phase = "AWAITING_QR_SCAN", !.token = f.dc])
  \/ f.kind \in {"auth.Authorization", "auth.LoginTokenSuccess"}
     /\ Keep(LoggedIn(st))
  \/ f.kind = "SignUpRequired" /\ Keep(Fail(st))
  \/ f.kind = "auth.LoginTokenMigrateTo" /\ Reconnect(f.dc, f.dc)
  \/ f.kind = "other" /\ Keep(st)

\* RPC errors: a *_MIGRATE_n error moves the session to another data centre,
\* three named errors have a follow-up, any other ends the session.
HandleRpcError(f) ==
  LET st == Settled(f) IN
  \/ f.kind = "MIGRATE" /\ Reconnect(f.dc, s.token)
  \/ f.kind = "AUTH_TOKEN_EXPIRED"
     /\ IF s.phase = "QR_IMPORT_SENT"
        THEN Call([st EXCEPT !.token = NoDC], "auth.ExportLoginToken",
                  "QR_TOKEN_SENT")
        ELSE Keep(Fail(st))
  \/ f.kind = "SESSION_PASSWORD_NEEDED"
     /\ IF s.phase \in {"QR_IMPORT_SENT", "SIGN_IN_SENT"}
        THEN Call(st, "account.GetPassword", "PASSWORD_INFO_SENT")
        ELSE Keep(Fail(st))
  \/ f.kind = "AUTH_KEY_UNREGISTERED" /\ Reconnect(s.dc, NoDC)
  \/ f.kind = "OTHER_ERROR" /\ Keep(Fail(st))

\* BadServerSalt: adopt the salt; only the QR phases repeat a request.
HandleBadServerSalt ==
  LET st == [s EXCEPT !.salt = salt] IN
  IF s.phase \in {"QR_TOKEN_SENT", "AWAITING_QR_SCAN"}
  THEN Call(st, "auth.ExportLoginToken", "QR_TOKEN_SENT")
  ELSE IF s.phase = "QR_IMPORT_SENT"
  THEN IF s.token = NoDC THEN Keep(Fail(st))
       ELSE Call(st, "auth.ImportLoginToken", "QR_IMPORT_SENT")
  ELSE Keep(st)

\* Mutant of HandleLoginTokenUpdate: the token is dropped as it is used.
HandleLoginTokenUpdateConsumes ==
  IF s.token = NoDC THEN Keep(Fail(s))
  ELSE Call([s EXCEPT !.token = NoDC], "auth.ImportLoginToken", "QR_IMPORT_SENT")

\* An update that carries a login token imports the QR token held, in any phase.
HandleLoginTokenUpdate ==
  IF s.token = NoDC THEN Keep(Fail(s))
  ELSE Call(s, "auth.ImportLoginToken", "QR_IMPORT_SENT")

\* A MessageContainer: all its messages are dispatched, and then the actions they
\* caused are taken in order.  The results in it were not parsed, so they leave the
\* pending set and cause none; a refused salt and a scanned QR code cause what they
\* cause alone.  `refused' counts the salts refused before the first scan, `scanned'
\* the scans and the salts refused after it, when all import the token.
HandleContainer(results, salted, refused, scanned) ==
  LET st == [s EXCEPT !.pending = {p \in @ : \A f \in results : p.id # f.to},
                      !.salt = IF salted THEN salt ELSE @]
      exports == IF s.phase \in {"QR_TOKEN_SENT", "AWAITING_QR_SCAN"} THEN refused ELSE 0
      imports == scanned + IF s.phase = "QR_IMPORT_SENT" THEN refused ELSE 0
  IN  \/ imports > 0 /\ s.token = NoDC /\ CallAll(st, exports, 0, "ERROR")
      \/ imports > 0 /\ s.token # NoDC /\ CallAll(st, exports, imports, "QR_IMPORT_SENT")
      \/ imports = 0 /\ exports > 0    /\ CallAll(st, exports, 0, "QR_TOKEN_SENT")
      \/ imports = 0 /\ exports = 0    /\ Keep(st)
-----------------------------------------------------------------------------
(* The server (external): what it may reply to each request *)

\* Kinds whose frame names a data centre other than the sender's.
Moving == {"MIGRATE", "auth.LoginTokenMigrateTo"}

Granting == {"auth.Authorization", "auth.LoginTokenSuccess"}

Result == Granting \cup {"auth.SentCode", "account.Password", "auth.LoginToken",
                         "auth.LoginTokenMigrateTo", "SignUpRequired", "other"}
RpcError == {"MIGRATE", "AUTH_TOKEN_EXPIRED", "SESSION_PASSWORD_NEEDED",
             "AUTH_KEY_UNREGISTERED", "OTHER_ERROR"}

Kinds(name) ==
  CASE name = "ReqPqMulti"        -> {"ResPQ", "Refused"}
    [] name = "ReqDHParams"       -> {"ServerDHParamsOk", "Refused"}
    [] name = "SetClientDHParams" -> {"DhGenOk", "Refused"}
    [] name = "auth.SendCode"     -> {"auth.SentCode", "MIGRATE", "OTHER_ERROR"}
    [] name = "auth.SignIn"       -> {"auth.Authorization", "MIGRATE",
                                      "SESSION_PASSWORD_NEEDED", "OTHER_ERROR"}
    [] name = "account.GetPassword"  -> {"account.Password", "OTHER_ERROR"}
    [] name = "auth.CheckPassword"   -> {"auth.Authorization", "OTHER_ERROR"}
    [] name = "auth.ExportLoginToken" ->
         {"auth.LoginToken", "auth.LoginTokenSuccess", "auth.LoginTokenMigrateTo",
          "SignUpRequired", "SESSION_PASSWORD_NEEDED", "OTHER_ERROR"}
    [] name = "auth.ImportLoginToken" ->
         {"auth.LoginToken", "auth.LoginTokenSuccess", "auth.LoginTokenMigrateTo",
          "SignUpRequired", "SESSION_PASSWORD_NEEDED", "AUTH_TOKEN_EXPIRED",
          "OTHER_ERROR"}
    [] name = "method" -> {"other", "MIGRATE", "AUTH_KEY_UNREGISTERED", "OTHER_ERROR"}

\* Not sent to a key that has logged in (reordered, it may have been sent before).
LoginPending == {"auth.LoginToken", "auth.LoginTokenMigrateTo",
                 "SESSION_PASSWORD_NEEDED"}

Answered(id) == \E f \in replied : f.to = id

\* An account with a second factor is entered with the password only.
PasswordAsked == \E f \in replied : f.kind = "SESSION_PASSWORD_NEEDED"

\* The server has processed a request wrapped in InitConnection.
ServerInited == \E r \in sent, f \in replied :
                  r.init /\ f.to = r.id /\ f.kind # "BadServerSalt"

Frame == [to : Nat, kind : Result \cup RpcError \cup
            {"ResPQ", "ServerDHParamsOk", "DhGenOk", "Refused", "BadServerSalt",
             "UpdateLoginToken"},
          dc : DC]

Replies(r) ==
  {f \in [to : {r.id}, dc : DC,
          kind : Kinds(r.name) \cup
                 IF "ignored" \in Faults /\ r.key # 0 THEN {"other"} ELSE {}] :
     /\ f.kind \in Moving <=> f.dc # r.dc
     /\ f.kind \in Moving \cup {"AUTH_KEY_UNREGISTERED"} => connection < MaxConnection
     /\ r.name = "method" =>
          (f.kind = "AUTH_KEY_UNREGISTERED" <=> account # "authorized")
     /\ r.key # 0 /\ ~r.init /\ ~ServerInited => f.kind = "OTHER_ERROR"
     /\ f.kind \in Granting /\ r.name # "auth.CheckPassword" => ~PasswordAsked
     /\ account # "none" /\ "reorder" \notin Faults => f.kind \notin LoginPending}

\* A new connection starts with a new key, of which the server knows nothing.
ServerAfter(f) ==
  /\ replied' = IF connection' # connection THEN {} ELSE replied \cup {f}
  /\ account' = IF connection' # connection THEN "none"
                ELSE IF f.kind \in Granting THEN "authorized" ELSE account
  /\ UNCHANGED salt

Due(r) == /\ Room /\ ~Answered(r.id)
          /\ "reorder" \in Faults \/ \A q \in sent : q.id < r.id => Answered(q.id)

\* A request refused for its salt.
Refusal(r) == [to |-> r.id, kind |-> "BadServerSalt", dc |-> r.dc]

\* The server says once that the QR code of a token it issued on this connection was
\* scanned, and before it grants the login, unless it resends.
Scans ==
  {[f EXCEPT !.kind = "UpdateLoginToken"] : f \in
     {q \in replied : /\ q.kind = "auth.LoginToken"
                      /\ \/ "resend" \in Faults
                         \/ /\ account = "none"
                            /\ [q EXCEPT !.kind = "UpdateLoginToken"] \notin replied}}

Accepts(r) == Due(r) /\ r.key # 0 /\ r.salt = salt /\ s.phase \in Encrypted
-----------------------------------------------------------------------------
(* Steps: a frame arrives, the user acts, or the server changes its mind *)

DeliverPlain(r) ==
  /\ Due(r) /\ r.key = 0
  /\ \E f \in Replies(r) :
       /\ HandleResPq(f) \/ HandleServerDHParams(f) \/ HandleDhGenResult(f)
       /\ ServerAfter(f)

DeliverResult(r) ==
  Accepts(r) /\ \E f \in Replies(r) : HandleResult(f) /\ ServerAfter(f)

DeliverRpcError(r) ==
  Accepts(r) /\ \E f \in Replies(r) : HandleRpcError(f) /\ ServerAfter(f)

\* The replies of which one each to these requests is made.
ResultSets(requests) ==
  LET replies == UNION {Replies(r) : r \in requests} IN
  {{g[r] : r \in requests} :
     g \in {h \in [requests -> replies] : \A r \in requests : h[r].to = r.id}}

\* A container: what is due to some requests, a result under the server's salt and a
\* refusal under another, before the first scan of a QR code or after it, the scans,
\* and maybe the news of a new session.  Each reply in it is one that the server could
\* have sent alone.
DeliverContainer ==
  /\ "boxed" \in Faults /\ Room /\ s.phase \in Encrypted
  /\ \E due \in SUBSET {r \in sent : r.key # 0 /\ ~Answered(r.id)}, scans \in SUBSET Scans :
       LET refused == {r \in due : r.salt # salt} IN
       /\ Cardinality(due) + Cardinality(scans) <= MaxContainer
       /\ \/ "reorder" \in Faults
          \/ \A r \in due, q \in sent : q.id < r.id => Answered(q.id) \/ q \in due
       /\ \E early, late, seen \in 0..MaxContainer, created \in BOOLEAN :
            /\ early + late = Cardinality(refused) /\ seen = Cardinality(scans)
            /\ seen = 0 => late = 0
            /\ created => s.salt # salt
            /\ \E results \in ResultSets(due \ refused) :
                 /\ HandleContainer(results, created \/ refused # {}, early, seen + late)
                 /\ s'.lastMsgId <= MaxMsgId
                 /\ replied' = replied \cup results \cup scans
                                  \cup {Refusal(r) : r \in refused}
                 /\ account' = IF \E f \in results : f.kind \in Granting
                               THEN "authorized" ELSE account
                 /\ UNCHANGED salt

DeliverAgain(f) ==
  /\ "resend" \in Faults /\ Room /\ s.phase \in Encrypted
  /\ HandleResult(f) \/ HandleRpcError(f)
  /\ ServerAfter(f)

DeliverBadServerSalt(r) ==
  /\ Due(r) /\ r.key # 0 /\ r.salt # salt /\ s.phase \in Encrypted
  /\ HandleBadServerSalt
  /\ replied' = replied \cup {Refusal(r)}
  /\ UNCHANGED <<account, salt>>

DeliverNewSessionCreated ==
  /\ s.phase \in Encrypted /\ s.salt # salt
  /\ s' = [s EXCEPT !.salt = salt]
  /\ UNCHANGED <<connection, sent, replied, account, salt>>

\* The QR code was scanned.
DeliverLoginTokenUpdate ==
  /\ Room /\ s.phase \in Encrypted
  /\ \E scan \in Scans : replied' = replied \cup {scan}
  /\ HandleLoginTokenUpdate
  /\ UNCHANGED <<account, salt>>

DeliverTransportError ==
  /\ "transport" \in Faults /\ s.phase # "ERROR"
  /\ Keep(Fail(s))
  /\ UNCHANGED <<replied, account, salt>>

\* Host events: each is accepted in one machine state only, and throws, with
\* nothing saved, when what it needs is missing.
SubmitCode ==
  /\ Room /\ s.phase = "AWAITING_CODE" /\ s.phone /\ s.codeHash /\ Hydratable(s)
  /\ Call(s, "auth.SignIn", "SIGN_IN_SENT")
  /\ UNCHANGED <<replied, account, salt>>

SubmitPassword ==
  /\ Room /\ s.phase = "AWAITING_PASSWORD" /\ s.srp /\ Hydratable(s)
  /\ Call(s, "auth.CheckPassword", "CHECK_PASSWORD_SENT")
  /\ UNCHANGED <<replied, account, salt>>

\* Mutant of RefreshQr: accepted in every machine state.
RefreshQrAnyPhase ==
  /\ Room /\ s.phase \in Encrypted /\ Hydratable(s)
  /\ Call(s, "auth.ExportLoginToken", "QR_TOKEN_SENT")
  /\ UNCHANGED <<replied, account, salt>>

RefreshQr ==
  /\ Room /\ s.phase = "AWAITING_QR_SCAN" /\ Hydratable(s)
  /\ Call(s, "auth.ExportLoginToken", "QR_TOKEN_SENT")
  /\ UNCHANGED <<replied, account, salt>>

\* invokeSessionMethod, which its callers reserve for a READY session.
InvokeMethod ==
  /\ Room /\ s.phase = "READY" /\ Hydratable(s)
  /\ Call(s, "method", s.phase)
  /\ UNCHANGED <<replied, account, salt>>

RotateSalt ==
  /\ "salt" \in Faults /\ salt < MaxSalt
  /\ salt' = salt + 1
  /\ UNCHANGED <<s, connection, sent, replied, account>>

Revoke ==
  /\ account = "authorized"
  /\ account' = "revoked"
  /\ UNCHANGED <<s, connection, sent, replied, salt>>

\* createSession: a session starts with its first request already written.
Init ==
  /\ \E mode \in {"phone", "qr"}, phone \in BOOLEAN :
       /\ mode = "qr" => ~phone
       /\ s = Fresh(HomeDC, mode, phone, NoDC)
  /\ connection = 1
  /\ sent = {Plain(s, "ReqPqMulti")}
  /\ replied = {}
  /\ account = "none"
  /\ salt = 1

Reply == \E r \in sent : \/ DeliverPlain(r) \/ DeliverResult(r)
                          \/ DeliverRpcError(r) \/ DeliverBadServerSalt(r)

Next ==
  \/ Reply
  \/ \E f \in replied : DeliverAgain(f)
  \/ DeliverContainer
  \/ DeliverNewSessionCreated
  \/ DeliverLoginTokenUpdate
  \/ DeliverTransportError
  \/ SubmitCode \/ SubmitPassword \/ RefreshQr \/ InvokeMethod
  \/ RotateSalt \/ Revoke

Spec == Init /\ [][Next]_vars

\* The server answers what it is sent, and its answer arrives.
FairSpec == Spec /\ WF_vars(Reply)
-----------------------------------------------------------------------------
(* Properties *)

\* Every variable has its type.
TypeOK ==
  /\ s \in Session
  /\ connection \in Nat
  /\ sent \in SUBSET Request
  /\ replied \in SUBSET Frame
  /\ account \in {"none", "authorized", "revoked"}
  /\ salt \in Nat

\* Each phase holds the key material its handler reads, and no other: nonces
\* only while the exchange runs, the auth key from step 3, a session id from
\* step 4, and a key only ever of the connection it was negotiated on.  So
\* hydrateSession, which throws on a missing part, never does so.
KeyMaterial ==
  /\ s.phase = "PQ_SENT" =>
       s.key = 0 /\ s.dh = {"dhNonce"} /\ ~s.sessionId
  /\ s.phase = "DH_SENT" =>
       s.key = 0 /\ s.dh = DhValue /\ ~s.sessionId
  /\ s.phase = "DH_GEN_SENT" =>
       s.key = connection /\ s.dh = DhValue /\ ~s.sessionId
  /\ s.phase \in Encrypted =>
       s.key = connection /\ s.dh = {} /\ s.sessionId

\* On every connection the first encrypted request, and no other, is wrapped in
\* InitConnection, across reconnects that start over with a new key.
OneInitConnection ==
  \A r \in sent : r.key # 0 =>
    (r.init <=> \A q \in sent : q.key # 0 => r.id <= q.id)

\* Message ids are used once per connection, and the pending table never names a
\* request of an earlier connection, so a result can't settle the wrong request.
PendingIsOurs ==
  /\ \A r, q \in sent : r.id = q.id => r = q
  /\ \A p \in s.pending : \E r \in sent :
       r.id = p.id /\ r.name = p.name /\ r.dc = s.dc /\ r.key = connection

\* A session that waits for an answer has the request it waits on in its pending
\* table: it never waits for an answer that has already come.
AwaitedRequest ==
  [phase \in Waiting |->
     CASE phase = "CODE_SENT"           -> "auth.SendCode"
       [] phase = "SIGN_IN_SENT"        -> "auth.SignIn"
       [] phase = "PASSWORD_INFO_SENT"  -> "account.GetPassword"
       [] phase = "CHECK_PASSWORD_SENT" -> "auth.CheckPassword"
       [] phase = "QR_TOKEN_SENT"       -> "auth.ExportLoginToken"
       [] phase = "QR_IMPORT_SENT"      -> "auth.ImportLoginToken"]
WaitsForPending ==
  s.phase \in Waiting =>
    \E p \in s.pending : p.name = AwaitedRequest[s.phase] /\ ~Answered(p.id)

\* A QR token is imported only at the data centre it is valid for.
ImportsTokenOfThisDc ==
  \A r \in sent : r.name = "auth.ImportLoginToken" => r.token = s.dc

\* The session believes it is logged in only if the server granted the login to
\* the key it holds.
ReadyIsGranted == s.phase = "READY" => account # "none" /\ s.user

\* When the view offers a form the reducer has what the form's event needs, so
\* submitting a code or a password never throws.
AwaitingInputUsable ==
  /\ s.phase = "AWAITING_CODE" => s.phone /\ s.codeHash
  /\ s.phase = "AWAITING_PASSWORD" => s.srp
  /\ s.phase \in {"AWAITING_QR_SCAN", "QR_IMPORT_SENT"} => s.token # NoDC

\* A session that is logged in leaves READY only for ERROR or for a new key
\* exchange: no late reply of the login takes it back into the login.
ReadyNeverRegresses ==
  [][s.phase = "READY" => s'.phase \in {"READY", "ERROR", "PQ_SENT"}]_vars

\* A session that waits on the server stops waiting: it reaches a point where it
\* asks the user, is logged in, or has failed (or the model's message ids end).
LoginProgresses ==
  s.phase \in Handshake \cup Waiting ~>
    s.phase \notin Handshake \cup Waiting \/ ~Room

\* deriveSessionStateValue
StateValue(phase) ==
  CASE phase \in Handshake -> "handshake"
    [] phase \in Waiting -> "authorizing"
    [] phase = "AWAITING_CODE" -> "awaiting_code"
    [] phase = "AWAITING_PASSWORD" -> "awaiting_password"
    [] phase = "AWAITING_QR_SCAN" -> "awaiting_qr_scan"
    [] phase = "READY" -> "ready"
    [] phase = "ERROR" -> "error"

\* The machine that the agent of the account sees.
Machine == INSTANCE AccountMachine WITH
  Prompts <- {"awaiting_code", "awaiting_password", "awaiting_qr_scan"},
  value <- StateValue(s.phase), exchange <- connection, made <- s.lastMsgId

\* Whatever arrives, in any order and however often, the reducer makes no move that
\* its agent is not prepared for.
ImplementsMachine == Machine!Spec
=============================================================================
