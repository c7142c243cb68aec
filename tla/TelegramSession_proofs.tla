----------------------- MODULE TelegramSession_proofs -----------------------
(***************************************************************************)
(* Proofs that the safety invariants of TelegramSession hold for any set   *)
(* of data centres, any faults and any bounds.  Two of them need a limit   *)
(* on the faults, which their theorems name: the data centre of a QR token *)
(* that no answer is late (InOrder), the request a phase waits for that    *)
(* none is lost to the reducer (Lossless).                                 *)
(***************************************************************************)
EXTENDS TelegramSession, TLAPS

\* The part of the type invariant that a handler of the reducer must restore.
ReducerTypeOK == /\ s' \in Session
                 /\ connection' \in Nat
                 /\ sent' \in SUBSET Request

-----------------------------------------------------------------------------
(* Types of the operators the handlers are built from *)

\* The phases a handler can set are phases.
LEMMA PhaseFacts == /\ "ERROR" \in Phase /\ Waiting \subseteq Phase
                    /\ Awaiting \subseteq Phase /\ Handshake \subseteq Phase
                    /\ "READY" \in Phase
BY DEF Phase, Encrypted

\* A failed snapshot is a snapshot.
LEMMA FailType == ASSUME NEW st \in Session PROVE Fail(st) \in Session
BY PhaseFacts DEF Fail, Session

\* A snapshot from which an answered request was removed is a snapshot.
LEMMA SettledType == ASSUME TypeOK, NEW f PROVE Settled(f) \in Session
BY DEF Settled, Session, TypeOK

\* A new session's snapshot is a snapshot.
LEMMA FreshType ==
  ASSUME NEW dc \in DC, NEW mode \in {"phone", "qr"}, NEW phone \in BOOLEAN,
         NEW token \in DC \cup {NoDC}
  PROVE  /\ Fresh(dc, mode, phone, token) \in Session
         /\ Plain(Fresh(dc, mode, phone, token), "ReqPqMulti") \in Request
<1>1. "PQ_SENT" \in Phase /\ {"dhNonce"} \in SUBSET DhValue
  BY PhaseFacts DEF Handshake, DhValue
<1>2. "ReqPqMulti" \in PlainName BY DEF PlainName
<1>3. Fresh(dc, mode, phone, token) \in Session
  BY <1>1 DEF Fresh, Session
<1> QED BY <1>2, <1>3 DEF Fresh, Plain, Request

\* A step that only replaces the snapshot keeps the types.
LEMMA KeepType ==
  ASSUME TypeOK, NEW st \in Session, Keep(st)
  PROVE  ReducerTypeOK
BY DEF Keep, ReducerTypeOK, TypeOK

\* Sending an API request keeps the types.
LEMMA CallType ==
  ASSUME TypeOK, NEW st \in Session, NEW name \in ApiName, NEW phase \in Phase,
         Call(st, name, phase)
  PROVE  ReducerTypeOK
<1>1. CASE Hydratable(st)
  <2> DEFINE p == [id |-> st.lastMsgId + 1, name |-> name]
  <2>1. Requested(st, name, phase) \in Session
    <3>1. st.lastMsgId + 1 \in Nat /\ st.pending \in SUBSET [id : Nat, name : ApiName]
      BY DEF Session
    <3>2. st.pending \cup {p} \in SUBSET [id : Nat, name : ApiName]
      BY <3>1
    <3> HIDE DEF p
    <3>3. Requested(st, name, phase) =
            [st EXCEPT !.phase = phase, !.lastMsgId = st.lastMsgId + 1,
                       !.inited = TRUE, !.pending = st.pending \cup {p}]
      BY DEF Requested, p
    <3> QED BY <3>1, <3>2, <3>3 DEF Session
  <2>2. ApiRequest(st, name) \in Request
    BY DEF ApiRequest, Request, Session, ApiName
  <2> QED BY <1>1, <2>1, <2>2 DEF Call, ReducerTypeOK, TypeOK
<1>2. CASE ~Hydratable(st)
  <2>1. Keep(Fail(s)) BY <1>2 DEF Call
  <2> QED BY <2>1, FailType, KeepType DEF TypeOK
<1> QED BY <1>1, <1>2

\* Moving to another data centre keeps the types.
LEMMA ReconnectType ==
  ASSUME TypeOK, NEW dc \in DC, NEW token \in DC \cup {NoDC}, Reconnect(dc, token)
  PROVE  ReducerTypeOK
<1>1. CASE dc \in KnownDC
  <2>1. s.mode \in {"phone", "qr"} /\ s.phone \in BOOLEAN
    BY DEF TypeOK, Session
  <2> QED BY <1>1, <2>1, FreshType DEF Reconnect, ReducerTypeOK, TypeOK
<1>2. CASE dc \notin KnownDC
  <2>1. Keep(Fail(s)) BY <1>2 DEF Reconnect
  <2> QED BY <2>1, FailType, KeepType DEF TypeOK
<1> QED BY <1>1, <1>2

\* Continuing the login once there is a key keeps the types.
LEMMA ContinueAuthType ==
  ASSUME TypeOK, NEW st \in Session, ContinueAuth(st)
  PROVE  ReducerTypeOK
<1>1. \/ Call(st, "auth.ImportLoginToken", "QR_IMPORT_SENT")
      \/ Call(st, "auth.ExportLoginToken", "QR_TOKEN_SENT")
      \/ Call(st, "auth.SendCode", "CODE_SENT")
      \/ Keep(Fail(s))
  BY DEF ContinueAuth
<1>2. {"auth.ImportLoginToken", "auth.ExportLoginToken", "auth.SendCode"}
        \subseteq ApiName
  BY DEF ApiName
<1>3. {"QR_IMPORT_SENT", "QR_TOKEN_SENT", "CODE_SENT"} \subseteq Phase
  BY PhaseFacts DEF Waiting
<1>4. Fail(s) \in Session BY FailType DEF TypeOK
<1> QED BY <1>1, <1>2, <1>3, <1>4, CallType, KeepType
-----------------------------------------------------------------------------
(* The type invariant *)

\* A reply is a frame, and it answers the request it was made for.
LEMMA RepliesType ==
  ASSUME TypeOK, NEW r \in sent, NEW f \in Replies(r)
  PROVE  f \in Frame /\ f.to = r.id /\ f.kind \in Kinds(r.name) \cup {"other"}
<1>1. r \in Request BY DEF TypeOK
<1>2. \A name \in PlainName \cup ApiName :
        Kinds(name) \subseteq Result \cup RpcError \cup
           {"ResPQ", "ServerDHParamsOk", "DhGenOk", "Refused"}
  BY DEF Kinds, PlainName, ApiName, Result, RpcError, Granting
<1>3. f.to = r.id /\ f.dc \in DC /\ f.kind \in Kinds(r.name) \cup {"other"}
      /\ f = [to |-> f.to, kind |-> f.kind, dc |-> f.dc]
  BY DEF Replies
<1>4. "other" \in Result BY DEF Result
<1> QED BY <1>1, <1>2, <1>3, <1>4 DEF Frame, Request

\* The handlers of the key exchange keep the types.
LEMMA HandshakeType ==
  ASSUME TypeOK, NEW f,
         HandleResPq(f) \/ HandleServerDHParams(f) \/ HandleDhGenResult(f)
  PROVE  ReducerTypeOK
<1>0. s \in Session /\ Fail(s) \in Session BY FailType DEF TypeOK
<1>1. CASE HandleResPq(f)
  <2> DEFINE st == [s EXCEPT !.phase = "DH_SENT", !.lastMsgId = s.lastMsgId + 1,
                             !.dh = s.dh \cup {"dhServerNonce", "dhNewNonce"}]
  <2>1. s.dh \cup {"dhServerNonce", "dhNewNonce"} \in SUBSET DhValue
    BY <1>0 DEF Session, DhValue
  <2>2. "DH_SENT" \in Phase BY PhaseFacts DEF Handshake
  <2>3. s.lastMsgId + 1 \in Nat BY <1>0 DEF Session
  <2>4. st \in Session BY <1>0, <2>1, <2>2, <2>3 DEF Session
  <2>5. Plain(st, "ReqDHParams") \in Request
    BY <2>4 DEF Session, Plain, Request, PlainName
  <2> QED BY <1>0, <1>1, <2>4, <2>5 DEF HandleResPq, ReducerTypeOK, TypeOK
<1>2. CASE HandleServerDHParams(f)
  <2> DEFINE st == [s EXCEPT !.phase = "DH_GEN_SENT", !.lastMsgId = s.lastMsgId + 1,
                             !.key = connection, !.salt = salt]
  <2>1. "DH_GEN_SENT" \in Phase BY PhaseFacts DEF Handshake
  <2>2. s.lastMsgId + 1 \in Nat /\ connection \in Nat /\ salt \in Nat
    BY <1>0 DEF Session, TypeOK
  <2>3. st \in Session BY <1>0, <2>1, <2>2 DEF Session
  <2>4. Plain(st, "SetClientDHParams") \in Request
    BY <2>3 DEF Session, Plain, Request, PlainName
  <2> QED BY <1>0, <1>2, <2>3, <2>4 DEF HandleServerDHParams, ReducerTypeOK, TypeOK
<1>3. CASE HandleDhGenResult(f)
  <2>1. [s EXCEPT !.sessionId = TRUE, !.dh = {}] \in Session
    BY <1>0 DEF Session
  <2> QED BY <1>0, <1>3, <2>1, ContinueAuthType, KeepType DEF HandleDhGenResult
<1> QED BY <1>1, <1>2, <1>3

\* The handler of RPC results keeps the types.
LEMMA ResultType ==
  ASSUME TypeOK, NEW f \in Frame, HandleResult(f)
  PROVE  ReducerTypeOK
<1> DEFINE st == Settled(f)
<1>1. st \in Session /\ Fail(st) \in Session BY SettledType, FailType
<1>2. f.dc \in DC BY DEF Frame
<1> HIDE DEF st
<1>3. [st EXCEPT !.phase = "AWAITING_CODE", !.codeHash = TRUE] \in Session
  BY <1>1, PhaseFacts DEF Session, Awaiting
<1>4. [st EXCEPT !.phase = "AWAITING_PASSWORD", !.srp = TRUE] \in Session
  BY <1>1, PhaseFacts DEF Session, Awaiting
<1>5. [st EXCEPT !.phase = "AWAITING_QR_SCAN", !.token = f.dc] \in Session
  BY <1>1, <1>2, PhaseFacts DEF Session, Awaiting
<1>6. LoggedIn(st) \in Session
  BY <1>1, PhaseFacts DEF Session, LoggedIn
<1>7. \/ Keep([st EXCEPT !.phase = "AWAITING_CODE", !.codeHash = TRUE])
      \/ Keep([st EXCEPT !.phase = "AWAITING_PASSWORD", !.srp = TRUE])
      \/ Keep([st EXCEPT !.phase = "AWAITING_QR_SCAN", !.token = f.dc])
      \/ Keep(LoggedIn(st)) \/ Keep(st) \/ Keep(Fail(st))
      \/ Reconnect(f.dc, f.dc)
  BY DEF HandleResult, st
<1> QED BY <1>1, <1>2, <1>3, <1>4, <1>5, <1>6, <1>7, KeepType, ReconnectType

\* The handler of RPC errors keeps the types.
LEMMA RpcErrorType ==
  ASSUME TypeOK, NEW f \in Frame, HandleRpcError(f)
  PROVE  ReducerTypeOK
<1> DEFINE st == Settled(f)
           fresh == [st EXCEPT !.token = NoDC]
<1>1. st \in Session /\ Fail(st) \in Session BY SettledType, FailType
<1>2. f.dc \in DC /\ s.dc \in DC /\ s.token \in DC \cup {NoDC}
  BY DEF Frame, TypeOK, Session
<1>3. fresh \in Session BY <1>1 DEF Session
<1>4. {"QR_TOKEN_SENT", "PASSWORD_INFO_SENT"} \subseteq Phase
  BY PhaseFacts DEF Waiting
<1>5. {"auth.ExportLoginToken", "account.GetPassword"} \subseteq ApiName
  BY DEF ApiName
<1>6. \/ Reconnect(f.dc, s.token) \/ Reconnect(s.dc, NoDC) \/ Keep(Fail(st))
      \/ Call(fresh, "auth.ExportLoginToken", "QR_TOKEN_SENT")
      \/ Call(st, "account.GetPassword", "PASSWORD_INFO_SENT")
  BY DEF HandleRpcError
<1> HIDE DEF st, fresh
<1> QED BY <1>1, <1>2, <1>3, <1>4, <1>5, <1>6, CallType, KeepType, ReconnectType

\* The handlers of a refused salt and a scanned QR code keep them.
LEMMA ServiceType ==
  ASSUME TypeOK, HandleBadServerSalt \/ HandleLoginTokenUpdate
  PROVE  ReducerTypeOK
<1> DEFINE st == [s EXCEPT !.salt = salt]
<1>1. s \in Session /\ Fail(s) \in Session BY FailType DEF TypeOK
<1>2. st \in Session BY DEF TypeOK, Session
<1>3. Fail(st) \in Session BY <1>2, FailType
<1>4. {"QR_TOKEN_SENT", "QR_IMPORT_SENT"} \subseteq Phase
  BY PhaseFacts DEF Waiting
<1>5. {"auth.ExportLoginToken", "auth.ImportLoginToken"} \subseteq ApiName
  BY DEF ApiName
<1>6. \/ Keep(st) \/ Keep(Fail(st)) \/ Keep(Fail(s))
      \/ Call(st, "auth.ExportLoginToken", "QR_TOKEN_SENT")
      \/ Call(st, "auth.ImportLoginToken", "QR_IMPORT_SENT")
      \/ Call(s, "auth.ImportLoginToken", "QR_IMPORT_SENT")
  BY DEF HandleBadServerSalt, HandleLoginTokenUpdate
<1> HIDE DEF st
<1> QED BY <1>1, <1>2, <1>3, <1>4, <1>5, <1>6, CallType, KeepType

-----------------------------------------------------------------------------
(* Containers: what all their messages together make of a snapshot *)

\* The snapshot of the same connection and login, in the same phase.
Trimmed(st) ==
  /\ st \in Session /\ st.phase = s.phase /\ st.dc = s.dc /\ st.key = s.key
  /\ st.sessionId = s.sessionId /\ st.dh = s.dh /\ st.inited = s.inited
  /\ st.lastMsgId = s.lastMsgId /\ st.pending \subseteq s.pending
  /\ st.mode = s.mode /\ st.phone = s.phone /\ st.codeHash = s.codeHash
  /\ st.srp = s.srp /\ st.token = s.token /\ st.user = s.user

\* A batch of requests numbered on from s, of which the first alone, and only on a
\* connection that has sent none yet, carries InitConnection.
BatchOf(batch, last) ==
  /\ batch \in SUBSET Request
  /\ \A r \in batch : /\ s.lastMsgId < r.id /\ r.id <= last
                      /\ r.key = s.key /\ r.dc = s.dc
                      /\ r.init <=> ~s.inited /\ r.id = s.lastMsgId + 1
  /\ \A r, q \in batch : r.id = q.id => r = q
  /\ \E r \in batch : r.id = s.lastMsgId + 1

\* The phases in which a refused salt makes the reducer export a token.
Exporting == {"QR_TOKEN_SENT", "AWAITING_QR_SCAN"}

\* What a container does that makes the reducer send: exports in the phases that
\* await the scan, imports only with a token, and an error only after exports.
Posted ==
  /\ s' \in Session /\ s'.dc = s.dc /\ s'.key = s.key /\ s'.sessionId = s.sessionId
  /\ s'.dh = s.dh /\ s'.mode = s.mode /\ s'.phone = s.phone /\ s'.codeHash = s.codeHash
  /\ s'.srp = s.srp /\ s'.token = s.token /\ s'.user = s.user
  /\ s'.inited = TRUE /\ s'.lastMsgId > s.lastMsgId /\ Hydratable(s)
  /\ \/ s'.phase \in {"QR_TOKEN_SENT", "ERROR"} /\ s.phase \in Exporting
     \/ s'.phase = "QR_IMPORT_SENT" /\ s.token # NoDC
  /\ \E batch : /\ BatchOf(batch, s'.lastMsgId)
                /\ \A r \in batch : /\ r.name \in {"auth.ExportLoginToken", "auth.ImportLoginToken"}
                                    /\ r.name = "auth.ExportLoginToken" => s.phase \in Exporting
                                    /\ r.name = "auth.ImportLoginToken"
                                         => r.token = s.token /\ s.token # NoDC
                /\ s'.pending \subseteq
                     s.pending \cup {[id |-> r.id, name |-> r.name] : r \in batch}
                /\ sent' = sent \cup batch
  /\ connection' = connection

\* All that a container may do: drop answered requests and take a salt, fail besides,
\* or send.
Handled == \/ \E st : Trimmed(st) /\ (Keep(st) \/ Keep(Fail(st)))
           \/ Posted

\* The requests of one frame.
LEMMA BatchFacts ==
  ASSUME TypeOK, NEW st, Trimmed(st), NEW exports \in Nat, NEW imports \in Nat
  PROVE  /\ exports + imports = 0 => Batch(st, exports, imports) = {}
         /\ exports + imports > 0 =>
              BatchOf(Batch(st, exports, imports), s.lastMsgId + exports + imports)
         /\ \A r \in Batch(st, exports, imports) :
              /\ r.name \in {"auth.ExportLoginToken", "auth.ImportLoginToken"}
              /\ r.name = "auth.ExportLoginToken" => exports > 0
              /\ r.name = "auth.ImportLoginToken" => imports > 0 /\ r.token = s.token
<1> DEFINE n == exports + imports
           base(i) == [st EXCEPT !.lastMsgId = st.lastMsgId + i - 1,
                                 !.inited = st.inited \/ i > 1]
           name(i) == IF i <= exports THEN "auth.ExportLoginToken"
                      ELSE "auth.ImportLoginToken"
           q(i) == ApiRequest(base(i), name(i))
<1>1. Batch(st, exports, imports) = {q(i) : i \in 1..n} BY DEF Batch
<1>2. st \in Session /\ s \in Session /\ s.lastMsgId \in Nat BY DEF TypeOK, Trimmed, Session
<1>3. ASSUME NEW i \in 1..n
      PROVE  /\ q(i) \in Request /\ q(i).id = s.lastMsgId + i /\ q(i).key = s.key
             /\ q(i).dc = s.dc /\ q(i).name = name(i)
             /\ q(i).init <=> ~s.inited /\ i = 1
             /\ name(i) = "auth.ImportLoginToken" => q(i).token = s.token
  <2>1. /\ base(i).lastMsgId = s.lastMsgId + i - 1 /\ base(i).key = s.key
        /\ base(i).dc = s.dc /\ base(i).token = s.token /\ base(i).salt = st.salt
        /\ base(i).inited <=> (s.inited \/ i > 1)
    BY <1>2 DEF Trimmed, Session
  <2>2. /\ s.lastMsgId + i - 1 + 1 = s.lastMsgId + i /\ s.lastMsgId + i \in Nat
        /\ i > 1 <=> i # 1
    BY <1>2
  <2>3. name(i) \in ApiName BY DEF ApiName
  <2>4. s.key \in Nat /\ s.dc \in DC /\ s.token \in DC \cup {NoDC} /\ st.salt \in Nat
    BY <1>2 DEF Session
  <2> HIDE DEF base, name
  <2> QED BY <2>1, <2>2, <2>3, <2>4 DEF ApiRequest, Request
<1> HIDE DEF q
<1>4. CASE n > 0
  <2>1. 1 \in 1..n BY <1>4
  <2>2. \E r \in {q(i) : i \in 1..n} : r.id = s.lastMsgId + 1 BY <1>3, <2>1
  <2>3. \A r \in {q(i) : i \in 1..n} :
          /\ r \in Request /\ s.lastMsgId < r.id /\ r.id <= s.lastMsgId + n
          /\ r.key = s.key /\ r.dc = s.dc
          /\ r.init <=> ~s.inited /\ r.id = s.lastMsgId + 1
    BY <1>2, <1>3
  <2>4. \A r1, r2 \in {q(i) : i \in 1..n} : r1.id = r2.id => r1 = r2
    BY <1>2, <1>3
  <2>5. BatchOf(Batch(st, exports, imports), s.lastMsgId + n)
    BY <1>1, <2>2, <2>3, <2>4 DEF BatchOf
  <2>6. s.lastMsgId + n = s.lastMsgId + exports + imports BY <1>2
  <2>7. \A i \in 1..n : i <= exports \/ imports > 0 OBVIOUS
  <2> QED BY <1>1, <1>3, <1>4, <2>5, <2>6, <2>7
<1>5. CASE n = 0
  <2>1. 1..n = {} BY <1>5
  <2> QED BY <1>1, <1>5, <2>1
<1> QED BY <1>4, <1>5

\* Several requests are sent, or none for want of a key.
LEMMA CallAllPosts ==
  ASSUME TypeOK, NEW st, Trimmed(st), NEW exports \in Nat, NEW imports \in Nat, NEW phase,
         CallAll(st, exports, imports, phase), exports + imports > 0,
         exports > 0 => s.phase \in Exporting,
         imports > 0 => s.token # NoDC,
         \/ phase \in {"QR_TOKEN_SENT", "ERROR"} /\ s.phase \in Exporting
         \/ phase = "QR_IMPORT_SENT" /\ s.token # NoDC
  PROVE  Posted \/ Keep(Fail(s))
<1> DEFINE batch == Batch(st, exports, imports)
           entries == {[id |-> r.id, name |-> r.name] : r \in batch}
<1>0. BatchOf(batch, s.lastMsgId + exports + imports) BY BatchFacts
<1>1. \A r \in batch : /\ r.name \in {"auth.ExportLoginToken", "auth.ImportLoginToken"}
                       /\ r.name = "auth.ExportLoginToken" => exports > 0
                       /\ r.name = "auth.ImportLoginToken" => imports > 0 /\ r.token = s.token
  BY BatchFacts
<1>2. batch # {} /\ \A r \in batch : r \in Request /\ r.name \in ApiName
  BY <1>0, <1>1 DEF BatchOf, ApiName
<1>3. CASE Hydratable(st)
  <2>1. /\ s' = [st EXCEPT !.phase = phase,
                          !.lastMsgId = st.lastMsgId + exports + imports,
                          !.inited = st.inited \/ batch # {},
                          !.pending = st.pending \cup entries]
        /\ sent' = sent \cup batch /\ connection' = connection
    BY <1>3 DEF CallAll
  <2>2. entries \in SUBSET [id : Nat, name : ApiName] BY <1>2 DEF Request
  <2>3. phase \in Phase BY PhaseFacts DEF Waiting
  <2> HIDE DEF batch, entries
  <2>4. /\ st \in Session /\ st.lastMsgId = s.lastMsgId /\ st.pending \subseteq s.pending
        /\ s.lastMsgId \in Nat /\ st.pending \in SUBSET [id : Nat, name : ApiName]
    BY DEF Trimmed, TypeOK, Session
  <2>5. /\ s'.phase = phase /\ s'.lastMsgId = s.lastMsgId + exports + imports
        /\ s'.inited = TRUE /\ s'.pending = st.pending \cup entries
        /\ s'.dc = st.dc /\ s'.key = st.key /\ s'.sessionId = st.sessionId
        /\ s'.dh = st.dh /\ s'.mode = st.mode /\ s'.phone = st.phone
        /\ s'.codeHash = st.codeHash /\ s'.srp = st.srp /\ s'.token = st.token
        /\ s'.user = st.user
    BY <1>2, <2>1, <2>4 DEF Session
  <2>6. s' \in Session
    <3>1. st.lastMsgId + exports + imports \in Nat BY <2>4
    <3>2. st.pending \cup entries \in SUBSET [id : Nat, name : ApiName] BY <2>2, <2>4
    <3>3. (st.inited \/ batch # {}) \in BOOLEAN OBVIOUS
    <3> QED BY <2>1, <2>3, <2>4, <3>1, <3>2, <3>3 DEF Session
  <2>7. s'.lastMsgId > s.lastMsgId BY <2>4, <2>5
  <2>8. Hydratable(s) BY <1>3 DEF Hydratable, Trimmed
  <2>9. \E b : /\ BatchOf(b, s'.lastMsgId)
               /\ \A r \in b : /\ r.name \in {"auth.ExportLoginToken", "auth.ImportLoginToken"}
                               /\ r.name = "auth.ExportLoginToken" => s.phase \in Exporting
                               /\ r.name = "auth.ImportLoginToken"
                                    => r.token = s.token /\ s.token # NoDC
               /\ s'.pending \subseteq
                    s.pending \cup {[id |-> r.id, name |-> r.name] : r \in b}
               /\ sent' = sent \cup b
    <3>1. s'.pending \subseteq
            s.pending \cup {[id |-> r.id, name |-> r.name] : r \in batch}
      BY <2>4, <2>5 DEF entries
    <3> QED BY <1>0, <1>1, <2>1, <2>5, <3>1
  <2> QED BY <2>1, <2>5, <2>6, <2>7, <2>8, <2>9 DEF Posted, Trimmed
<1>4. CASE ~Hydratable(st)
  BY <1>2, <1>4 DEF CallAll
<1> QED BY <1>3, <1>4

\* Its handler does no more.
LEMMA ContainerForm ==
  ASSUME TypeOK, NEW results, NEW salted, NEW refused \in Nat, NEW scanned \in Nat,
         HandleContainer(results, salted, refused, scanned)
  PROVE  Handled
<1> DEFINE pending == {p \in s.pending : \A f \in results : p.id # f.to}
           current == IF salted THEN salt ELSE s.salt
           st == [s EXCEPT !.pending = pending, !.salt = current]
           exports == IF s.phase \in Exporting THEN refused ELSE 0
           imports == scanned + IF s.phase = "QR_IMPORT_SENT" THEN refused ELSE 0
<1>1. s \in Session /\ salt \in Nat /\ s.salt \in Nat BY DEF TypeOK, Session
<1>2. pending \subseteq s.pending /\ current \in Nat BY <1>1
<1>3. pending \in SUBSET [id : Nat, name : ApiName] BY <1>1, <1>2 DEF Session
<1>4. \/ imports > 0 /\ s.token = NoDC /\ CallAll(st, exports, 0, "ERROR")
      \/ imports > 0 /\ s.token # NoDC /\ CallAll(st, exports, imports, "QR_IMPORT_SENT")
      \/ imports = 0 /\ exports > 0 /\ CallAll(st, exports, 0, "QR_TOKEN_SENT")
      \/ Keep(st)
  BY DEF HandleContainer, Exporting
<1>5. exports \in Nat /\ imports \in Nat /\ (exports > 0 => s.phase \in Exporting)
  OBVIOUS
<1> HIDE DEF pending, current
<1>6. Trimmed(st) BY <1>1, <1>2, <1>3 DEF Trimmed, Session
<1>7. Trimmed(s) BY <1>1 DEF Trimmed
<1> HIDE DEF st, exports, imports
<1>8. CASE imports > 0 /\ s.token = NoDC /\ CallAll(st, exports, 0, "ERROR")
  <2>1. CASE exports > 0
    <3>1. exports + 0 > 0 BY <1>5, <2>1
    <3>2. Posted \/ Keep(Fail(s)) BY <1>5, <1>6, <1>8, <2>1, <3>1, CallAllPosts
    <3> QED BY <1>7, <3>2 DEF Handled
  <2>2. CASE exports = 0
    <3>1. Batch(st, exports, 0) = {} BY <1>6, <2>2, BatchFacts
    <3>2. /\ s' = [st EXCEPT !.phase = "ERROR", !.lastMsgId = st.lastMsgId + exports + 0,
                            !.inited = st.inited \/ Batch(st, exports, 0) # {},
                            !.pending = st.pending \cup
                               {[id |-> r.id, name |-> r.name] : r \in Batch(st, exports, 0)}]
          /\ sent' = sent \cup Batch(st, exports, 0) /\ connection' = connection
      BY <1>8, <3>1 DEF CallAll
    <3>3. st \in Session /\ st.lastMsgId \in Nat /\ st.inited \in BOOLEAN
      BY <1>6 DEF Trimmed, Session
    <3>4. /\ st.lastMsgId + exports + 0 = st.lastMsgId
          /\ (st.inited \/ Batch(st, exports, 0) # {}) = st.inited
          /\ st.pending \cup
                {[id |-> r.id, name |-> r.name] : r \in Batch(st, exports, 0)} = st.pending
      BY <2>2, <3>1, <3>3
    <3>5. s' = [st EXCEPT !.phase = "ERROR"] BY <3>2, <3>3, <3>4 DEF Session
    <3>6. Keep(Fail(st)) BY <3>1, <3>2, <3>5 DEF Keep, Fail
    <3> QED BY <1>6, <3>6 DEF Handled
  <2> QED BY <1>5, <2>1, <2>2
<1>9. CASE imports > 0 /\ s.token # NoDC /\ CallAll(st, exports, imports, "QR_IMPORT_SENT")
  <2>1. exports + imports > 0 BY <1>5, <1>9
  <2>2. Posted \/ Keep(Fail(s)) BY <1>5, <1>6, <1>9, <2>1, CallAllPosts
  <2> QED BY <1>7, <2>2 DEF Handled
<1>10. CASE imports = 0 /\ exports > 0 /\ CallAll(st, exports, 0, "QR_TOKEN_SENT")
  <2>1. exports + 0 > 0 BY <1>5, <1>10
  <2>2. Posted \/ Keep(Fail(s)) BY <1>5, <1>6, <1>10, <2>1, CallAllPosts
  <2> QED BY <1>7, <2>2 DEF Handled
<1> QED BY <1>4, <1>6, <1>8, <1>9, <1>10 DEF Handled

\* A container keeps the types.
LEMMA ContainerType ==
  ASSUME TypeOK, Handled
  PROVE  ReducerTypeOK
<1>1. CASE \E st : Trimmed(st) /\ (Keep(st) \/ Keep(Fail(st)))
  BY <1>1, FailType, KeepType DEF Trimmed
<1>2. CASE Posted
  BY <1>2 DEF Posted, BatchOf, ReducerTypeOK, TypeOK
<1> QED BY <1>1, <1>2 DEF Handled

\* The step of a container: what the reducer does, and what counts as delivered.
LEMMA ContainerStep ==
  ASSUME TypeOK, DeliverContainer
  PROVE  /\ s.phase \in Encrypted /\ Handled /\ salt' = salt
         /\ \E results, refused, scans :
              /\ results \subseteq UNION {Replies(r) : r \in sent}
              /\ refused \subseteq sent /\ scans \subseteq Scans
              /\ replied' = replied \cup results \cup scans \cup {Refusal(r) : r \in refused}
              /\ account' = IF \E f \in results : f.kind \in Granting THEN "authorized"
                            ELSE account
<1>1. PICK due \in SUBSET {r \in sent : r.key # 0 /\ ~Answered(r.id)},
           scans \in SUBSET Scans :
       LET refused == {r \in due : r.salt # salt} IN
       /\ Cardinality(due) + Cardinality(scans) <= MaxContainer
       /\ \/ "reorder" \in Faults
          \/ \A r \in due, q \in sent : q.id < r.id => Answered(q.id) \/ q \in due
       /\ \E early, late, seen \in 0..MaxContainer, created \in BOOLEAN :
            /\ early + late = Cardinality(refused) /\ seen = Cardinality(scans)
            /\ seen = 0 => late = 0
            /\ created => s.salt # salt
            /\ \E results \in ResultSets(due \ refused) :
                 /\ HandleContainer(results, created \/ refused # {}, early, seen + late)
                 /\ s'.lastMsgId <= MaxMsgId
                 /\ replied' = replied \cup results \cup scans
                                  \cup {Refusal(r) : r \in refused}
                 /\ account' = IF \E f \in results : f.kind \in Granting
                               THEN "authorized" ELSE account
                 /\ UNCHANGED salt
  BY DEF DeliverContainer
<1>2. PICK early \in 0..MaxContainer, late \in 0..MaxContainer, seen \in 0..MaxContainer,
           created \in BOOLEAN :
        \E results \in ResultSets(due \ {r \in due : r.salt # salt}) :
          /\ HandleContainer(results, created \/ {r \in due : r.salt # salt} # {},
                             early, seen + late)
          /\ replied' = replied \cup results \cup scans
                           \cup {Refusal(r) : r \in {q \in due : q.salt # salt}}
          /\ account' = IF \E f \in results : f.kind \in Granting THEN "authorized"
                        ELSE account
          /\ salt' = salt
  BY <1>1
<1>3. PICK results \in ResultSets(due \ {r \in due : r.salt # salt}) :
        /\ HandleContainer(results, created \/ {r \in due : r.salt # salt} # {},
                           early, seen + late)
        /\ replied' = replied \cup results \cup scans
                         \cup {Refusal(r) : r \in {q \in due : q.salt # salt}}
        /\ account' = IF \E f \in results : f.kind \in Granting THEN "authorized"
                      ELSE account
        /\ salt' = salt
  BY <1>2
<1>4. early \in Nat /\ seen + late \in Nat BY BoundAssumption
<1>5. Handled BY <1>3, <1>4, ContainerForm
<1>6. ASSUME NEW requests, requests \subseteq sent, NEW rs \in ResultSets(requests)
      PROVE  rs \subseteq UNION {Replies(r) : r \in sent}
  <2> DEFINE replies == UNION {Replies(r) : r \in requests}
  <2>1. PICK g \in [requests -> replies] : rs = {g[r] : r \in requests}
    BY <1>6 DEF ResultSets
  <2>2. \A r \in requests : g[r] \in replies BY <2>1
  <2> QED BY <1>6, <2>1, <2>2
<1>7. due \ {r \in due : r.salt # salt} \subseteq sent
      /\ {q \in due : q.salt # salt} \subseteq sent
  OBVIOUS
<1>8. results \subseteq UNION {Replies(r) : r \in sent} BY <1>6, <1>7
<1>9. s.phase \in Encrypted BY DEF DeliverContainer
<1> QED BY <1>3, <1>5, <1>7, <1>8, <1>9

\* The server's part of a step keeps its types.
LEMMA ServerType ==
  ASSUME TypeOK, NEW f \in Frame, ServerAfter(f)
  PROVE  /\ replied' \in SUBSET Frame
         /\ account' \in {"none", "authorized", "revoked"}
         /\ salt' \in Nat
BY DEF ServerAfter, TypeOK

\* Initially every variable has its type.
LEMMA InitType == Init => TypeOK
<1> SUFFICES ASSUME Init PROVE TypeOK OBVIOUS
<1>1. PICK mode \in {"phone", "qr"}, phone \in BOOLEAN :
        s = Fresh(HomeDC, mode, phone, NoDC)
  BY DEF Init
<1>2. HomeDC \in DC BY DCAssumption
<1>3. s \in Session /\ Plain(s, "ReqPqMulti") \in Request
  BY <1>1, <1>2, FreshType
<1> QED BY <1>3 DEF Init, TypeOK

\* Every step keeps every variable in its type.
LEMMA NextType == TypeOK /\ [Next]_vars => TypeOK'
<1> SUFFICES ASSUME TypeOK, [Next]_vars PROVE TypeOK' OBVIOUS
<1> USE DEF ReducerTypeOK
<1>1. ASSUME NEW r \in sent, DeliverPlain(r) PROVE TypeOK'
  <2>1. PICK f \in Replies(r) :
          /\ HandleResPq(f) \/ HandleServerDHParams(f) \/ HandleDhGenResult(f)
          /\ ServerAfter(f)
    BY <1>1 DEF DeliverPlain
  <2>2. f \in Frame BY RepliesType
  <2> QED BY <2>1, <2>2, HandshakeType, ServerType DEF TypeOK
<1>2. ASSUME NEW r \in sent, DeliverResult(r) PROVE TypeOK'
  <2>1. PICK f \in Replies(r) : HandleResult(f) /\ ServerAfter(f)
    BY <1>2 DEF DeliverResult
  <2>2. f \in Frame BY RepliesType
  <2> QED BY <2>1, <2>2, ResultType, ServerType DEF TypeOK
<1>3. ASSUME NEW r \in sent, DeliverRpcError(r) PROVE TypeOK'
  <2>1. PICK f \in Replies(r) : HandleRpcError(f) /\ ServerAfter(f)
    BY <1>3 DEF DeliverRpcError
  <2>2. f \in Frame BY RepliesType
  <2> QED BY <2>1, <2>2, RpcErrorType, ServerType DEF TypeOK
<1>4. CASE DeliverContainer
  <2>1. PICK results, refused, scans :
          /\ results \subseteq UNION {Replies(r) : r \in sent}
          /\ refused \subseteq sent /\ scans \subseteq Scans
          /\ replied' = replied \cup results \cup scans \cup {Refusal(r) : r \in refused}
          /\ account' = IF \E f \in results : f.kind \in Granting THEN "authorized"
                        ELSE account
    BY <1>4, ContainerStep
  <2>2. results \subseteq Frame BY <2>1, RepliesType
  <2>3. scans \subseteq Frame BY <2>1 DEF Scans, TypeOK, Frame
  <2>4. \A r \in refused : Refusal(r) \in Frame BY <2>1 DEF Refusal, TypeOK, Request, Frame
  <2>5. ReducerTypeOK /\ salt' = salt BY <1>4, ContainerStep, ContainerType
  <2> QED BY <2>1, <2>2, <2>3, <2>4, <2>5 DEF TypeOK
<1>5. ASSUME NEW f \in replied, DeliverAgain(f) PROVE TypeOK'
  <2>1. f \in Frame BY DEF TypeOK
  <2> QED BY <1>5, <2>1, ResultType, RpcErrorType, ServerType
          DEF DeliverAgain, TypeOK
<1>6. ASSUME NEW r \in sent, DeliverBadServerSalt(r) PROVE TypeOK'
  <2>1. r.id \in Nat /\ r.dc \in DC BY DEF TypeOK, Request
  <2>2. Refusal(r) \in Frame BY <2>1 DEF Refusal, Frame
  <2> QED BY <1>6, <2>2, ServiceType DEF DeliverBadServerSalt, TypeOK
<1>7. CASE DeliverNewSessionCreated
  <2>1. [s EXCEPT !.salt = salt] \in Session BY DEF TypeOK, Session
  <2> QED BY <1>7, <2>1 DEF DeliverNewSessionCreated, TypeOK
<1>8. CASE DeliverLoginTokenUpdate
  <2>1. PICK f \in replied :
          replied' = replied \cup {[f EXCEPT !.kind = "UpdateLoginToken"]}
    BY <1>8 DEF DeliverLoginTokenUpdate, Scans
  <2>2. [f EXCEPT !.kind = "UpdateLoginToken"] \in Frame BY DEF TypeOK, Frame
  <2> QED BY <1>8, <2>1, <2>2, ServiceType DEF DeliverLoginTokenUpdate, TypeOK
<1>9. CASE DeliverTransportError
  <2>1. Fail(s) \in Session BY FailType DEF TypeOK
  <2> QED BY <1>9, <2>1, KeepType DEF DeliverTransportError, TypeOK
<1>10. CASE SubmitCode \/ SubmitPassword \/ RefreshQr \/ InvokeMethod
  <2>1. \/ Call(s, "auth.SignIn", "SIGN_IN_SENT")
        \/ Call(s, "auth.CheckPassword", "CHECK_PASSWORD_SENT")
        \/ Call(s, "auth.ExportLoginToken", "QR_TOKEN_SENT")
        \/ Call(s, "method", s.phase)
    BY <1>10 DEF SubmitCode, SubmitPassword, RefreshQr, InvokeMethod
  <2>2. {"SIGN_IN_SENT", "CHECK_PASSWORD_SENT", "QR_TOKEN_SENT", s.phase}
          \subseteq Phase
    BY PhaseFacts DEF Waiting, TypeOK, Session
  <2>3. {"auth.SignIn", "auth.CheckPassword", "auth.ExportLoginToken", "method"}
          \subseteq ApiName
    BY DEF ApiName
  <2>4. s \in Session BY DEF TypeOK
  <2>5. ReducerTypeOK BY <2>1, <2>2, <2>3, <2>4, CallType
  <2> QED BY <1>10, <2>5
          DEF SubmitCode, SubmitPassword, RefreshQr, InvokeMethod, TypeOK
<1>11. CASE RotateSalt BY <1>11 DEF RotateSalt, TypeOK
<1>12. CASE Revoke BY <1>12 DEF Revoke, TypeOK
<1>13. CASE UNCHANGED vars BY <1>13 DEF vars, TypeOK
<1> QED BY <1>1, <1>2, <1>3, <1>4, <1>5, <1>6, <1>7, <1>8, <1>9, <1>10, <1>11,
           <1>12, <1>13 DEF Next, Reply

\* TypeOK holds in every reachable state: no handler, whatever the server
\* answers, leaves a snapshot the next one could not read.
THEOREM TypeCorrect == Spec => []TypeOK
BY InitType, NextType, PTL DEF Spec
-----------------------------------------------------------------------------
(* What one step of the reducer can do to a connection *)

\* The snapshot stays on its connection and sends nothing.
Kept ==
  /\ s'.dc = s.dc /\ s'.key = s.key /\ s'.lastMsgId = s.lastMsgId
  /\ s'.inited = s.inited /\ s'.pending \subseteq s.pending
  /\ s'.phase # "ERROR" =>
       /\ s.phase \in Encrypted /\ s'.phase \in Encrypted
       /\ s'.sessionId = s.sessionId /\ s'.dh = s.dh
  /\ connection' = connection /\ sent' = sent

\* It sends API requests under the key of this connection, and may fail then.
Asked ==
  /\ s'.dc = s.dc /\ s'.key = s.key
  /\ s'.lastMsgId \in Nat /\ s'.lastMsgId > s.lastMsgId /\ s'.inited = TRUE
  /\ s'.phase # "ERROR" => s'.phase \in Encrypted /\ s'.sessionId /\ s'.dh = {}
  /\ s.key # 0 /\ s.key = connection /\ connection' = connection
  /\ \E batch :
       /\ BatchOf(batch, s'.lastMsgId)
       /\ s'.pending \subseteq s.pending \cup {[id |-> r.id, name |-> r.name] : r \in batch}
       /\ sent' = sent \cup batch

\* It exchanges the next plain message of the key exchange.
Exchanged ==
  /\ s'.dc = s.dc /\ s'.lastMsgId = s.lastMsgId + 1 /\ s'.pending = s.pending
  /\ s'.inited = s.inited /\ connection' = connection
  /\ \E r \in Request : r.id = s.lastMsgId + 1 /\ r.key = 0 /\ sent' = sent \cup {r}
  /\ ~s'.sessionId /\ s'.dh = DhValue
  /\ \/ s.phase = "PQ_SENT" /\ s'.phase = "DH_SENT" /\ s'.key = 0
     \/ s.phase = "DH_SENT" /\ s'.phase = "DH_GEN_SENT" /\ s'.key = connection

\* It starts over on a new connection.
Moved ==
  \E dc \in DC, token \in DC \cup {NoDC} :
    /\ s' = Fresh(dc, s.mode, s.phone, token)
    /\ sent' = {Plain(s', "ReqPqMulti")}

\* A snapshot from which a handler may send.
Sendable(st) ==
  /\ st \in Session
  /\ st.dc = s.dc /\ st.key = s.key /\ st.lastMsgId = s.lastMsgId
  /\ st.inited = s.inited /\ st.pending \subseteq s.pending
  /\ st.key = connection /\ st.sessionId /\ st.dh = {}

\* Two snapshots of one connection, both past the key exchange.
Alike(st, st2) ==
  /\ st2.phase \in Encrypted /\ st2.dc = st.dc /\ st2.key = st.key
  /\ st2.lastMsgId = st.lastMsgId /\ st2.inited = st.inited
  /\ st2.pending = st.pending /\ st2.sessionId = st.sessionId /\ st2.dh = st.dh

\* Failing is staying.
LEMMA FailKept ==
  ASSUME TypeOK, NEW st \in Session, Keep(Fail(st)),
         st.dc = s.dc, st.key = s.key, st.lastMsgId = s.lastMsgId,
         st.inited = s.inited, st.pending \subseteq s.pending
  PROVE  Kept
BY DEF Keep, Fail, Kept, Session

\* A call sends one request, or fails.
LEMMA CallAsks ==
  ASSUME TypeOK, NEW st, Sendable(st), NEW name \in ApiName, NEW phase \in Encrypted,
         Call(st, name, phase)
  PROVE  Asked \/ Kept
<1>1. CASE Hydratable(st)
  <2> DEFINE r == ApiRequest(st, name)
  <2>1. st \in Session /\ s \in Session BY DEF Sendable, TypeOK
  <2>2. r \in Request BY <2>1 DEF ApiRequest, Request, Session, ApiName
  <2>3. /\ r.id = s.lastMsgId + 1 /\ r.key = s.key /\ r.dc = s.dc
        /\ r.init = ~s.inited /\ r.name = name
    BY DEF ApiRequest, Sendable
  <2>4. s' = Requested(st, name, phase) /\ sent' = sent \cup {r} /\ connection' = connection
    BY <1>1 DEF Call
  <2> HIDE DEF r
  <2>5. /\ s'.dc = st.dc /\ s'.key = st.key /\ s'.lastMsgId = st.lastMsgId + 1
        /\ s'.inited = TRUE /\ s'.phase = phase /\ s'.sessionId = st.sessionId
        /\ s'.dh = st.dh
        /\ s'.pending = st.pending \cup {[id |-> st.lastMsgId + 1, name |-> name]}
    BY <2>1, <2>4 DEF Requested, Session
  <2>6. s.key # 0 /\ s.lastMsgId \in Nat BY <1>1, <2>1 DEF Hydratable, Sendable, Session
  <2>7. BatchOf({r}, s.lastMsgId + 1)
    <3>1. s.lastMsgId < r.id /\ r.id <= s.lastMsgId + 1 BY <2>3, <2>6
    <3>2. r.init <=> ~s.inited /\ r.id = s.lastMsgId + 1 BY <2>3
    <3> QED BY <2>2, <2>3, <3>1, <3>2 DEF BatchOf
  <2>8. s'.pending \subseteq s.pending \cup {[id |-> q.id, name |-> q.name] : q \in {r}}
    BY <2>3, <2>5 DEF Sendable
  <2>9. /\ s'.dc = s.dc /\ s'.key = s.key /\ s'.lastMsgId = s.lastMsgId + 1
        /\ s'.sessionId /\ s'.dh = {} /\ s.key = connection
    BY <2>5 DEF Sendable
  <2> QED BY <2>4, <2>5, <2>6, <2>7, <2>8, <2>9 DEF Asked
<1>2. CASE ~Hydratable(st)
  <2>1. Keep(Fail(s)) /\ s \in Session BY <1>2 DEF Call, TypeOK
  <2> QED BY <2>1, FailKept
<1> QED BY <1>1, <1>2

\* A move to another data centre starts over, or fails.
LEMMA ReconnectMoves ==
  ASSUME TypeOK, NEW dc \in DC, NEW token \in DC \cup {NoDC}, Reconnect(dc, token)
  PROVE  Moved \/ Kept
<1>1. CASE dc \in KnownDC BY <1>1 DEF Reconnect, Moved
<1>2. CASE dc \notin KnownDC
  <2>1. Keep(Fail(s)) /\ s \in Session BY <1>2 DEF Reconnect, TypeOK
  <2> QED BY <2>1, FailKept
<1> QED BY <1>1, <1>2

\* An encrypted snapshot that waits for nothing more may send.
LEMMA EncryptedSendable ==
  ASSUME TypeOK, KeyMaterial, s.phase \in Encrypted
  PROVE  /\ Sendable(s)
         /\ Sendable([s EXCEPT !.salt = salt])
         /\ \A f : /\ Sendable(Settled(f)) /\ Settled(f).phase = s.phase
                   /\ Sendable([Settled(f) EXCEPT !.token = NoDC])
<1>1. s \in Session /\ salt \in Nat BY DEF TypeOK
<1>2. s.key = connection /\ s.dh = {} /\ s.sessionId BY DEF KeyMaterial
<1>3. ASSUME NEW f
      PROVE  /\ Sendable(Settled(f)) /\ Settled(f).phase = s.phase
             /\ Sendable([Settled(f) EXCEPT !.token = NoDC])
  <2>1. Settled(f) \in Session BY SettledType
  <2> DEFINE pending == {p \in s.pending : p.id # f.to}
  <2>2. Settled(f) = [s EXCEPT !.pending = pending] BY DEF Settled
  <2>3. pending \subseteq s.pending OBVIOUS
  <2> HIDE DEF pending
  <2>4. Sendable(Settled(f)) /\ Settled(f).phase = s.phase
    BY <1>1, <1>2, <2>1, <2>2, <2>3 DEF Sendable, Session
  <2>5. [Settled(f) EXCEPT !.token = NoDC] \in Session BY <2>1 DEF Session
  <2> HIDE <2>2
  <2> QED BY <2>1, <2>4, <2>5 DEF Sendable, Session
<1>4. [s EXCEPT !.salt = salt] \in Session BY <1>1 DEF Session
<1> QED BY <1>1, <1>2, <1>3, <1>4 DEF Sendable, Session

\* A handler that only replaces the snapshot, in an encrypted phase.
LEMMA KeepKept ==
  ASSUME TypeOK, KeyMaterial, s.phase \in Encrypted, NEW st, Sendable(st),
         \/ Keep(Fail(st))
         \/ \E st2 : Keep(st2) /\ Alike(st, st2)
  PROVE  Kept
<1>1. CASE Keep(Fail(st)) BY <1>1, FailKept DEF Sendable
<1>2. CASE ~Keep(Fail(st))
  <2>1. PICK st2 : Keep(st2) /\ Alike(st, st2)
    BY <1>2
  <2>2. s \in Session /\ s.dh = {} /\ s.sessionId = TRUE /\ st.sessionId = TRUE
    BY DEF KeyMaterial, TypeOK, Sendable, Session
  <2> QED BY <2>1, <2>2 DEF Sendable, Kept, Keep, Alike
<1> QED BY <1>1, <1>2

\* RPC results, RPC errors and service frames keep, ask or move.
LEMMA ResultStep ==
  ASSUME TypeOK, KeyMaterial, s.phase \in Encrypted, NEW f \in Frame, HandleResult(f)
  PROVE  Kept \/ Moved
<1> DEFINE st == Settled(f)
           code == [st EXCEPT !.phase = "AWAITING_CODE", !.codeHash = TRUE]
           password == [st EXCEPT !.phase = "AWAITING_PASSWORD", !.srp = TRUE]
           qr == [st EXCEPT !.phase = "AWAITING_QR_SCAN", !.token = f.dc]
<1>1. f.dc \in DC BY DEF Frame
<1>2. Sendable(st) /\ st \in Session /\ st.phase = s.phase
  BY EncryptedSendable DEF Sendable
<1>3. \/ \E st2 \in {code, password, qr, LoggedIn(st), st} : Keep(st2)
      \/ Keep(Fail(st)) \/ Reconnect(f.dc, f.dc)
  BY DEF HandleResult
<1> HIDE DEF st
<1>4. {"AWAITING_CODE", "AWAITING_PASSWORD", "AWAITING_QR_SCAN", "READY"}
         \subseteq Encrypted
  BY DEF Encrypted, Awaiting
<1>5. Alike(st, code) BY <1>2, <1>4 DEF Session, Alike
<1>6. Alike(st, password) BY <1>2, <1>4 DEF Session, Alike
<1>7. Alike(st, qr) BY <1>2, <1>4 DEF Session, Alike
<1>8. Alike(st, LoggedIn(st)) BY <1>2, <1>4 DEF Session, Alike, LoggedIn
<1>9. Alike(st, st) BY <1>2 DEF Alike
<1> HIDE DEF code, password, qr
<1> QED BY <1>1, <1>2, <1>3, <1>5, <1>6, <1>7, <1>8, <1>9, KeepKept, ReconnectMoves

\* The handler of RPC errors keeps, asks or moves.
LEMMA RpcErrorStep ==
  ASSUME TypeOK, KeyMaterial, s.phase \in Encrypted, NEW f \in Frame, HandleRpcError(f)
  PROVE  Kept \/ Asked \/ Moved
<1> DEFINE st == Settled(f)
           fresh == [st EXCEPT !.token = NoDC]
<1>1. f.dc \in DC /\ s.dc \in DC /\ s.token \in DC \cup {NoDC} /\ NoDC \in DC \cup {NoDC}
  BY DEF Frame, TypeOK, Session
<1>2. Sendable(st) /\ Sendable(fresh)
  BY EncryptedSendable
<1>3. "QR_TOKEN_SENT" \in Encrypted /\ "PASSWORD_INFO_SENT" \in Encrypted
  BY DEF Encrypted, Waiting
<1>4. "auth.ExportLoginToken" \in ApiName /\ "account.GetPassword" \in ApiName
  BY DEF ApiName
<1>5. \/ Reconnect(f.dc, s.token) \/ Reconnect(s.dc, NoDC) \/ Keep(Fail(st))
      \/ Call(fresh, "auth.ExportLoginToken", "QR_TOKEN_SENT")
      \/ Call(st, "account.GetPassword", "PASSWORD_INFO_SENT")
  BY DEF HandleRpcError
<1> HIDE DEF st, fresh
<1> QED BY <1>1, <1>2, <1>3, <1>4, <1>5, CallAsks, KeepKept, ReconnectMoves

\* The handlers of a refused salt and a scanned QR code do too.
LEMMA ServiceStep ==
  ASSUME TypeOK, KeyMaterial, s.phase \in Encrypted,
         HandleBadServerSalt \/ HandleLoginTokenUpdate
  PROVE  Kept \/ Asked
<1> DEFINE st == [s EXCEPT !.salt = salt]
<1>1. Sendable(s) /\ Sendable(st) /\ st.phase \in Encrypted
  BY EncryptedSendable DEF TypeOK, Session
<1>2. "QR_TOKEN_SENT" \in Encrypted /\ "QR_IMPORT_SENT" \in Encrypted
  BY DEF Encrypted, Waiting
<1>3. "auth.ExportLoginToken" \in ApiName /\ "auth.ImportLoginToken" \in ApiName
  BY DEF ApiName
<1>4. \/ Keep(st) \/ Keep(Fail(st)) \/ Keep(Fail(s))
      \/ Call(st, "auth.ExportLoginToken", "QR_TOKEN_SENT")
      \/ Call(st, "auth.ImportLoginToken", "QR_IMPORT_SENT")
      \/ Call(s, "auth.ImportLoginToken", "QR_IMPORT_SENT")
  BY DEF HandleBadServerSalt, HandleLoginTokenUpdate
<1> HIDE DEF st
<1>5. Alike(st, st) BY <1>1 DEF Alike
<1> QED BY <1>1, <1>2, <1>3, <1>4, <1>5, CallAsks, KeepKept

\* A container keeps, or asks for several things at once.
LEMMA ContainerKept ==
  ASSUME TypeOK, KeyMaterial, s.phase \in Encrypted, Handled
  PROVE  Kept \/ Asked
<1>1. s \in Session /\ s.key = connection /\ s.dh = {} /\ s.sessionId
  BY DEF TypeOK, KeyMaterial
<1>2. CASE \E st : Trimmed(st) /\ (Keep(st) \/ Keep(Fail(st)))
  <2>1. PICK st : Trimmed(st) /\ (Keep(st) \/ Keep(Fail(st))) BY <1>2
  <2>2. CASE Keep(Fail(st)) BY <2>1, <2>2, FailKept DEF Trimmed
  <2>3. CASE Keep(st) BY <2>1, <2>3 DEF Trimmed, Keep, Kept
  <2> QED BY <2>1, <2>2, <2>3
<1>3. CASE Posted
  <2>1. s.key # 0 /\ s'.lastMsgId \in Nat BY <1>3 DEF Posted, Hydratable, Session
  <2>2. s'.phase # "ERROR" => s'.phase \in Encrypted
    BY <1>3 DEF Posted, Encrypted, Waiting
  <2>3. s'.sessionId /\ s'.dh = {} BY <1>1, <1>3 DEF Posted
  <2> QED BY <1>1, <1>3, <2>1, <2>2, <2>3 DEF Posted, Asked
<1> QED BY <1>2, <1>3 DEF Handled

\* The key exchange exchanges, then asks.
LEMMA HandshakeStep ==
  ASSUME TypeOK, KeyMaterial, NEW f,
         HandleResPq(f) \/ HandleServerDHParams(f) \/ HandleDhGenResult(f)
  PROVE  Kept \/ Exchanged \/ Asked
<1>0. /\ s \in Session /\ Fail(s) \in Session /\ connection \in Nat /\ salt \in Nat
      /\ s.lastMsgId \in Nat
  BY FailType DEF TypeOK, Session
<1>1. CASE HandleResPq(f)
  <2> DEFINE st == [s EXCEPT !.phase = "DH_SENT", !.lastMsgId = s.lastMsgId + 1,
                             !.dh = s.dh \cup {"dhServerNonce", "dhNewNonce"}]
             r == Plain(st, "ReqDHParams")
  <2>1. CASE f.kind = "ResPQ"
    <3>1. s.phase = "PQ_SENT" /\ s' = st /\ sent' = sent \cup {r} /\ connection' = connection
      BY <1>1, <2>1 DEF HandleResPq
    <3>2. s.dh = {"dhNonce"} /\ s.key = 0 /\ s.sessionId = FALSE
      BY <3>1, <1>0 DEF KeyMaterial, Session
    <3>3. st.dh = DhValue /\ st.phase = "DH_SENT" /\ st.lastMsgId = s.lastMsgId + 1
          /\ st.dc = s.dc /\ st.key = s.key /\ st.pending = s.pending
          /\ st.inited = s.inited /\ st.sessionId = s.sessionId
      BY <1>0, <3>2 DEF Session, DhValue
    <3>4. r.id = s.lastMsgId + 1 /\ r.key = 0 /\ r \in Request
      <4>1. s.dc \in DC /\ s.lastMsgId + 1 \in Nat BY <1>0 DEF Session
      <4> HIDE DEF st
      <4> QED BY <4>1, <3>3 DEF Plain, Request, PlainName
    <3> QED BY <3>1, <3>2, <3>3, <3>4 DEF Exchanged
  <2>2. CASE f.kind # "ResPQ"
    <3>1. Keep(Fail(s)) BY <1>1, <2>2 DEF HandleResPq, Keep
    <3> QED BY <3>1, <1>0, FailKept
  <2> QED BY <2>1, <2>2
<1>2. CASE HandleServerDHParams(f)
  <2> DEFINE st == [s EXCEPT !.phase = "DH_GEN_SENT", !.lastMsgId = s.lastMsgId + 1,
                             !.key = connection, !.salt = salt]
             r == Plain(st, "SetClientDHParams")
  <2>1. CASE f.kind = "ServerDHParamsOk"
    <3>1. s.phase = "DH_SENT" /\ s' = st /\ sent' = sent \cup {r} /\ connection' = connection
      BY <1>2, <2>1 DEF HandleServerDHParams
    <3>2. s.dh = DhValue /\ s.sessionId = FALSE
      BY <3>1, <1>0 DEF KeyMaterial, Session
    <3>3. st.dh = DhValue /\ st.phase = "DH_GEN_SENT" /\ st.lastMsgId = s.lastMsgId + 1
          /\ st.dc = s.dc /\ st.key = connection /\ st.pending = s.pending
          /\ st.inited = s.inited /\ st.sessionId = s.sessionId
      BY <1>0, <3>2 DEF Session
    <3>4. r.id = s.lastMsgId + 1 /\ r.key = 0 /\ r \in Request
      <4>1. s.dc \in DC /\ s.lastMsgId + 1 \in Nat BY <1>0 DEF Session
      <4> HIDE DEF st
      <4> QED BY <4>1, <3>3 DEF Plain, Request, PlainName
    <3> QED BY <3>1, <3>2, <3>3, <3>4 DEF Exchanged
  <2>2. CASE f.kind # "ServerDHParamsOk"
    <3>1. Keep(Fail(s)) BY <1>2, <2>2 DEF HandleServerDHParams, Keep
    <3> QED BY <3>1, <1>0, FailKept
  <2> QED BY <2>1, <2>2
<1>3. CASE HandleDhGenResult(f)
  <2> DEFINE st == [s EXCEPT !.sessionId = TRUE, !.dh = {}]
  <2>1. s.phase = "DH_GEN_SENT" /\ s.key = connection
    BY <1>3 DEF HandleDhGenResult, KeyMaterial
  <2>2. Sendable(st) BY <1>0, <2>1 DEF Sendable, Session
  <2>3. \/ Keep(Fail(s))
        \/ Call(st, "auth.ImportLoginToken", "QR_IMPORT_SENT")
        \/ Call(st, "auth.ExportLoginToken", "QR_TOKEN_SENT")
        \/ Call(st, "auth.SendCode", "CODE_SENT")
    BY <1>3 DEF HandleDhGenResult, ContinueAuth
  <2>4. {"QR_IMPORT_SENT", "QR_TOKEN_SENT", "CODE_SENT"} \subseteq Encrypted
    BY DEF Encrypted, Waiting
  <2>5. {"auth.ImportLoginToken", "auth.ExportLoginToken", "auth.SendCode"}
          \subseteq ApiName
    BY DEF ApiName
  <2> HIDE DEF st
  <2> QED BY <1>0, <2>2, <2>3, <2>4, <2>5, CallAsks, FailKept
<1> QED BY <1>1, <1>2, <1>3

\* Every step of the system is one of the four, or leaves the session alone.
LEMMA StepForm ==
  ASSUME TypeOK, KeyMaterial, [Next]_vars
  PROVE  Kept \/ Asked \/ Exchanged \/ Moved \/ UNCHANGED <<s, connection, sent>>
<1>1. ASSUME NEW r \in sent, DeliverPlain(r) PROVE Kept \/ Exchanged \/ Asked
  BY <1>1, HandshakeStep DEF DeliverPlain
<1>2. ASSUME NEW r \in sent, DeliverResult(r) PROVE Kept \/ Moved
  BY <1>2, RepliesType, ResultStep DEF DeliverResult, Accepts
<1>3. ASSUME NEW r \in sent, DeliverRpcError(r) PROVE Kept \/ Asked \/ Moved
  BY <1>3, RepliesType, RpcErrorStep DEF DeliverRpcError, Accepts
<1>4. CASE DeliverContainer BY <1>4, ContainerStep, ContainerKept
<1>5. ASSUME NEW f \in replied, DeliverAgain(f) PROVE Kept \/ Asked \/ Moved
  <2>1. f \in Frame BY DEF TypeOK
  <2> QED BY <1>5, <2>1, ResultStep, RpcErrorStep DEF DeliverAgain
<1>6. ASSUME NEW r \in sent, DeliverBadServerSalt(r) PROVE Kept \/ Asked
  BY <1>6, ServiceStep DEF DeliverBadServerSalt
<1>7. CASE DeliverNewSessionCreated
  <2>1. s.phase \in Encrypted /\ Keep([s EXCEPT !.salt = salt])
    BY <1>7 DEF DeliverNewSessionCreated, Keep
  <2>2. Alike(s, [s EXCEPT !.salt = salt]) BY <2>1 DEF Alike, TypeOK, Session
  <2> QED BY <2>1, <2>2, EncryptedSendable, KeepKept
<1>8. CASE DeliverLoginTokenUpdate
  BY <1>8, ServiceStep DEF DeliverLoginTokenUpdate
<1>9. CASE DeliverTransportError
  BY <1>9, FailKept DEF DeliverTransportError, TypeOK
<1>10. CASE SubmitCode \/ SubmitPassword \/ RefreshQr \/ InvokeMethod
  <2>1. \/ Call(s, "auth.SignIn", "SIGN_IN_SENT")
        \/ Call(s, "auth.CheckPassword", "CHECK_PASSWORD_SENT")
        \/ Call(s, "auth.ExportLoginToken", "QR_TOKEN_SENT")
        \/ Call(s, "method", s.phase)
    BY <1>10 DEF SubmitCode, SubmitPassword, RefreshQr, InvokeMethod
  <2>2. s.phase \in Encrypted
    BY <1>10 DEF SubmitCode, SubmitPassword, RefreshQr, InvokeMethod, Encrypted, Awaiting
  <2>3. {"SIGN_IN_SENT", "CHECK_PASSWORD_SENT", "QR_TOKEN_SENT"} \subseteq Encrypted
    BY DEF Encrypted, Waiting
  <2>4. {"auth.SignIn", "auth.CheckPassword", "auth.ExportLoginToken", "method"}
          \subseteq ApiName
    BY DEF ApiName
  <2> QED BY <2>1, <2>2, <2>3, <2>4, EncryptedSendable, CallAsks
<1>11. CASE RotateSalt BY <1>11 DEF RotateSalt
<1>12. CASE Revoke BY <1>12 DEF Revoke
<1>13. CASE UNCHANGED vars BY <1>13 DEF vars
<1> QED BY <1>1, <1>2, <1>3, <1>4, <1>5, <1>6, <1>7, <1>8, <1>9, <1>10, <1>11,
           <1>12, <1>13 DEF Next, Reply
-----------------------------------------------------------------------------
(* The key material of every phase, and the use of message ids *)

\* What the next message id and the next InitConnection are computed from.
Bookkeeping ==
  /\ \A r \in sent : r.id <= s.lastMsgId
  /\ s.inited <=> \E r \in sent : r.key # 0

\* A new session satisfies the invariant.
LEMMA InitSafe == Init => KeyMaterial /\ OneInitConnection /\ PendingIsOurs /\ Bookkeeping
<1> SUFFICES ASSUME Init
             PROVE  KeyMaterial /\ OneInitConnection /\ PendingIsOurs /\ Bookkeeping
  OBVIOUS
<1>1. PICK mode, phone : s = Fresh(HomeDC, mode, phone, NoDC) BY DEF Init
<1>2. sent = {Plain(s, "ReqPqMulti")} BY DEF Init
<1>3. KeyMaterial
  BY <1>1 DEF KeyMaterial, Fresh, Encrypted, Waiting, Awaiting
<1> QED BY <1>1, <1>2, <1>3
        DEF Fresh, Plain, OneInitConnection, PendingIsOurs, Bookkeeping

\* Every handler leaves the phase it sets the key material that phase reads.
LEMMA NextKeyMaterial == TypeOK /\ KeyMaterial /\ [Next]_vars => KeyMaterial'
<1> SUFFICES ASSUME TypeOK, KeyMaterial, [Next]_vars PROVE KeyMaterial' OBVIOUS
<1> USE DEF KeyMaterial
<1>0. {"PQ_SENT", "DH_SENT", "DH_GEN_SENT", "ERROR"} \cap Encrypted = {}
  BY DEF Encrypted, Waiting, Awaiting
<1>1. CASE Kept BY <1>0, <1>1 DEF Kept
<1>2. CASE Asked BY <1>0, <1>2 DEF Asked
<1>3. CASE Exchanged BY <1>0, <1>3 DEF Exchanged
<1>4. CASE Moved BY <1>0, <1>4 DEF Moved, Fresh
<1>5. CASE UNCHANGED <<s, connection, sent>> BY <1>5
<1> QED BY <1>1, <1>2, <1>3, <1>4, <1>5, StepForm

\* Every phase holds the key material its handler reads, for any data centres,
\* faults and bounds: hydrateSession never throws.
THEOREM KeyMaterialCorrect == Spec => []KeyMaterial
<1>1. TypeOK /\ KeyMaterial /\ [Next]_vars => (TypeOK /\ KeyMaterial)'
  BY NextType, NextKeyMaterial
<1>2. Init => TypeOK /\ KeyMaterial BY InitType, InitSafe
<1> QED BY <1>1, <1>2, PTL DEF Spec

\* The inductive invariant: ids are unique and InitConnection is sent once
\* because the snapshot's counter and flag bound what has been sent.
Safe == TypeOK /\ KeyMaterial /\ Bookkeeping /\ OneInitConnection /\ PendingIsOurs

\* A step that sends nothing keeps the invariant.
LEMMA KeptSafe == ASSUME Safe, TypeOK', KeyMaterial', Kept PROVE Safe'
<1>1. Bookkeeping' BY DEF Safe, Kept, Bookkeeping
<1>2. OneInitConnection' BY DEF Safe, Kept, OneInitConnection
<1>3. PendingIsOurs' BY DEF Safe, Kept, PendingIsOurs
<1> QED BY <1>1, <1>2, <1>3 DEF Safe

\* A step that sends API requests keeps the invariant.
LEMMA AskedSafe == ASSUME Safe, TypeOK', KeyMaterial', Asked PROVE Safe'
<1>1. PICK batch :
        /\ BatchOf(batch, s'.lastMsgId)
        /\ s'.pending \subseteq s.pending \cup {[id |-> r.id, name |-> r.name] : r \in batch}
        /\ sent' = sent \cup batch
  BY DEF Asked
<1>2. /\ s.key # 0 /\ s.key = connection /\ connection' = connection /\ s'.inited = TRUE
      /\ s'.lastMsgId \in Nat /\ s'.lastMsgId > s.lastMsgId /\ s'.dc = s.dc
  BY DEF Asked
<1>3. /\ s.lastMsgId \in Nat /\ s.inited \in BOOLEAN
      /\ \A q \in sent : q.id \in Nat /\ q.id <= s.lastMsgId /\ q.init \in BOOLEAN
  BY DEF Safe, TypeOK, Session, Request, Bookkeeping
<1>4. \A r \in batch : /\ r.id \in Nat /\ r.id > s.lastMsgId /\ r.id <= s'.lastMsgId
                       /\ r.key = s.key /\ r.dc = s.dc /\ r.init \in BOOLEAN
                       /\ r.init <=> ~s.inited /\ r.id = s.lastMsgId + 1
  <2>1. \A r \in batch : r \in Request BY <1>1 DEF BatchOf
  <2>2. \A r \in batch : r.id \in Nat /\ r.init \in BOOLEAN BY <2>1 DEF Request
  <2>3. \A r \in batch : /\ s.lastMsgId < r.id /\ r.id <= s'.lastMsgId
                         /\ r.key = s.key /\ r.dc = s.dc
                         /\ r.init <=> ~s.inited /\ r.id = s.lastMsgId + 1
    BY <1>1 DEF BatchOf
  <2> QED BY <1>3, <2>2, <2>3
<1>5. PICK first \in batch : first.id = s.lastMsgId + 1 BY <1>1 DEF BatchOf
<1>6. Bookkeeping' BY <1>1, <1>2, <1>3, <1>4, <1>5 DEF Bookkeeping
<1>7. \A r \in batch : \A q \in sent : q.id < r.id BY <1>3, <1>4
<1>8. OneInitConnection'
  <2>1. CASE s.inited
    <3>1. PICK q0 \in sent : q0.key # 0 BY <2>1 DEF Safe, Bookkeeping
    <3>2. \A r \in batch : r.init = FALSE /\ ~(r.id <= q0.id)
      BY <1>3, <1>4, <1>7, <2>1, <3>1
    <3> QED BY <1>1, <1>3, <1>4, <1>7, <3>1, <3>2 DEF Safe, OneInitConnection
  <2>2. CASE ~s.inited
    <3>1. \A q \in sent : q.key = 0 BY <2>2 DEF Safe, Bookkeeping
    <3>2. \A r \in batch : r.init <=> r.id = s.lastMsgId + 1 BY <1>4, <2>2
    <3>3. \A r \in batch : s.lastMsgId + 1 <= r.id BY <1>3, <1>4
    <3> QED BY <1>1, <1>2, <1>4, <1>5, <3>1, <3>2, <3>3 DEF OneInitConnection
  <2> QED BY <2>1, <2>2
<1>9. PendingIsOurs'
  <2>1. \A q1, q2 \in sent' : q1.id = q2.id => q1 = q2
    BY <1>1, <1>3, <1>4, <1>7 DEF Safe, PendingIsOurs, BatchOf
  <2>2. ASSUME NEW p \in s'.pending
        PROVE  \E q \in sent' : q.id = p.id /\ q.name = p.name /\ q.dc = s'.dc
                                /\ q.key = connection'
    <3>1. CASE p \in s.pending BY <1>1, <1>2, <3>1 DEF Safe, PendingIsOurs
    <3>2. CASE p \notin s.pending
      <4>1. PICK r \in batch : p = [id |-> r.id, name |-> r.name] BY <1>1, <3>2
      <4> QED BY <1>1, <1>2, <1>4, <4>1
    <3> QED BY <3>1, <3>2
  <2> QED BY <2>1, <2>2 DEF PendingIsOurs
<1> QED BY <1>6, <1>8, <1>9 DEF Safe

\* A step of the key exchange keeps the invariant.
LEMMA ExchangedSafe == ASSUME Safe, TypeOK', KeyMaterial', Exchanged PROVE Safe'
<1>1. PICK r \in Request : r.id = s.lastMsgId + 1 /\ r.key = 0 /\ sent' = sent \cup {r}
  BY DEF Exchanged
<1>2. /\ s'.inited = s.inited /\ s'.lastMsgId = s.lastMsgId + 1 /\ s'.dc = s.dc
      /\ s'.pending = s.pending /\ connection' = connection
  BY DEF Exchanged
<1>3. s.lastMsgId \in Nat /\ \A q \in sent : q.id \in Nat /\ q.id < r.id
  BY <1>1 DEF Safe, TypeOK, Session, Request, Bookkeeping
<1>4. Bookkeeping' BY <1>1, <1>2, <1>3 DEF Safe, Bookkeeping
<1>5. OneInitConnection' BY <1>1 DEF Safe, OneInitConnection
<1>6. PendingIsOurs' BY <1>1, <1>2, <1>3 DEF Safe, PendingIsOurs
<1> QED BY <1>4, <1>5, <1>6 DEF Safe

\* A move to a new connection establishes the invariant anew.
LEMMA MovedSafe == ASSUME Safe, TypeOK', KeyMaterial', Moved PROVE Safe'
<1>1. PICK dc \in DC, token \in DC \cup {NoDC} :
        s' = Fresh(dc, s.mode, s.phone, token) /\ sent' = {Plain(s', "ReqPqMulti")}
  BY DEF Moved
<1>2. s'.lastMsgId = 1 /\ s'.pending = {} /\ s'.inited = FALSE BY <1>1 DEF Fresh
<1>3. \A r \in sent' : r.id = 1 /\ r.key = 0 BY <1>1, <1>2 DEF Plain
<1> QED BY <1>1, <1>2, <1>3 DEF Safe, Bookkeeping, OneInitConnection, PendingIsOurs

\* Every step keeps the invariant.
LEMMA NextSafe == Safe /\ [Next]_vars => Safe'
<1> SUFFICES ASSUME Safe, [Next]_vars PROVE Safe' OBVIOUS
<1>1. TypeOK' /\ KeyMaterial' BY NextType, NextKeyMaterial DEF Safe
<1>2. CASE UNCHANGED <<s, connection, sent>>
  BY <1>1, <1>2 DEF Safe, Bookkeeping, OneInitConnection, PendingIsOurs
<1> QED BY <1>1, <1>2, StepForm, KeptSafe, AskedSafe, ExchangedSafe, MovedSafe DEF Safe

\* The inductive invariant holds in every reachable state of the reducer.
LEMMA SafeCorrect == Spec => []Safe
<1>1. Init => Safe BY InitType, InitSafe DEF Safe
<1> QED BY <1>1, NextSafe, PTL DEF Spec

\* The first encrypted request of every connection, and no other, carries
\* InitConnection.
THEOREM OneInitConnectionCorrect == Spec => []OneInitConnection
<1>1. Safe => OneInitConnection BY DEF Safe
<1> QED BY <1>1, SafeCorrect, PTL

\* Message ids are not reused on a connection, and the pending table names only
\* requests of the connection the session is on.
THEOREM PendingIsOursCorrect == Spec => []PendingIsOurs
<1>1. Safe => PendingIsOurs BY DEF Safe
<1> QED BY <1>1, SafeCorrect, PTL
-----------------------------------------------------------------------------
(* What a form needs, and who grants a login *)

\* What a phase promises about the rest of its snapshot.
Usable(st) ==
  /\ st.phase = "AWAITING_CODE" => st.codeHash
  /\ st.phase = "AWAITING_PASSWORD" => st.srp
  /\ st.phase \in {"AWAITING_QR_SCAN", "QR_IMPORT_SENT"} => st.token # NoDC
  /\ st.phase = "READY" => st.user

\* What the handling of a frame of this kind, or of a host event, may do to it:
\* only a code sent asks for the code, only a grant makes the session ready.
Formed(kind) ==
  /\ Usable(s') /\ s'.phone = s.phone
  /\ \A r \in sent' : r.name = "auth.SendCode" => r \in sent \/ s.phone
  /\ s'.phase = "AWAITING_CODE" => s.phase = "AWAITING_CODE" \/ kind = "auth.SentCode"
  /\ s'.phase = "READY" =>
       connection' = connection /\ (s.phase = "READY" \/ kind \in Granting)

\* A step that sends nothing.
LEMMA KeepFormed ==
  ASSUME NEW st, NEW kind, Keep(st), Usable(st), st.phone = s.phone,
         st.phase = "AWAITING_CODE" => s.phase = "AWAITING_CODE" \/ kind = "auth.SentCode",
         st.phase = "READY" => s.phase = "READY" \/ kind \in Granting
  PROVE  Formed(kind)
BY DEF Keep, Formed

\* A failure.
LEMMA FailFormed ==
  ASSUME NEW st \in Session, NEW kind, Keep(Fail(st)), st.phone = s.phone
  PROVE  Formed(kind)
<1>1. Fail(st).phase = "ERROR" /\ Fail(st).phone = s.phone BY DEF Fail, Session
<1> QED BY <1>1, KeepFormed DEF Usable

\* An API request.
LEMMA CallFormed ==
  ASSUME TypeOK, NEW st \in Session, NEW kind, NEW name, NEW phase, Call(st, name, phase),
         st.phone = s.phone, phase \notin Awaiting,
         phase = "QR_IMPORT_SENT" => st.token # NoDC,
         phase = "READY" => s.phase = "READY" /\ st.user,
         name = "auth.SendCode" => s.phone
  PROVE  Formed(kind)
<1>1. CASE Hydratable(st)
  <2>1. /\ s' = Requested(st, name, phase) /\ sent' = sent \cup {ApiRequest(st, name)}
        /\ connection' = connection
    BY <1>1 DEF Call
  <2>2. s'.phase = phase /\ s'.token = st.token /\ s'.user = st.user /\ s'.phone = st.phone
    BY <2>1 DEF Requested, Session
  <2>3. Usable(s') BY <2>2 DEF Usable, Awaiting
  <2>4. ApiRequest(st, name).name = name BY DEF ApiRequest
  <2> QED BY <2>1, <2>2, <2>3, <2>4 DEF Formed, Awaiting
<1>2. CASE ~Hydratable(st)
  <2>1. Keep(Fail(s)) /\ s \in Session BY <1>2 DEF Call, TypeOK
  <2> QED BY <2>1, FailFormed
<1> QED BY <1>1, <1>2

\* A move to another data centre.
LEMMA ReconnectFormed ==
  ASSUME TypeOK, NEW dc, NEW token, NEW kind, Reconnect(dc, token)
  PROVE  Formed(kind)
<1>1. CASE dc \in KnownDC
  <2>1. s' = Fresh(dc, s.mode, s.phone, token) /\ sent' = {Plain(s', "ReqPqMulti")}
    BY <1>1 DEF Reconnect
  <2>2. s'.phase = "PQ_SENT" /\ s'.phone = s.phone /\ \A r \in sent' : r.name = "ReqPqMulti"
    BY <2>1 DEF Fresh, Plain
  <2> QED BY <2>2 DEF Formed, Usable
<1>2. CASE dc \notin KnownDC
  <2>1. Keep(Fail(s)) /\ s \in Session BY <1>2 DEF Reconnect, TypeOK
  <2> QED BY <2>1, FailFormed
<1> QED BY <1>1, <1>2

\* The key exchange, and what it continues with: a code is requested only for a phone.
LEMMA HandshakeFormed ==
  ASSUME TypeOK, NEW f,
         HandleResPq(f) \/ HandleServerDHParams(f) \/ HandleDhGenResult(f)
  PROVE  Formed(f.kind)
<1>0. s \in Session BY DEF TypeOK
<1>1. CASE HandleResPq(f) \/ HandleServerDHParams(f)
  <2>1. \/ Keep(Fail(s))
        \/ /\ s'.phase \in {"DH_SENT", "DH_GEN_SENT"} /\ s'.phone = s.phone
           /\ \E st : \E name \in {"ReqDHParams", "SetClientDHParams"} :
                sent' = sent \cup {Plain(st, name)}
    BY <1>1, <1>0 DEF HandleResPq, HandleServerDHParams, Keep, Session
  <2>2. CASE Keep(Fail(s)) BY <2>2, <1>0, FailFormed
  <2>3. CASE ~Keep(Fail(s)) BY <2>1, <2>3 DEF Formed, Usable, Plain
  <2> QED BY <2>2, <2>3
<1>2. CASE HandleDhGenResult(f)
  <2> DEFINE st == [s EXCEPT !.sessionId = TRUE, !.dh = {}]
  <2>1. st \in Session /\ st.phone = s.phone BY <1>0 DEF Session
  <2>2. \/ Keep(Fail(s))
        \/ Call(st, "auth.ImportLoginToken", "QR_IMPORT_SENT") /\ st.token # NoDC
        \/ Call(st, "auth.ExportLoginToken", "QR_TOKEN_SENT")
        \/ Call(st, "auth.SendCode", "CODE_SENT") /\ st.phone
    BY <1>2 DEF HandleDhGenResult, ContinueAuth
  <2>3. {"QR_IMPORT_SENT", "QR_TOKEN_SENT", "CODE_SENT"} \cap Awaiting = {} BY DEF Awaiting
  <2> HIDE DEF st
  <2> QED BY <1>0, <2>1, <2>2, <2>3, CallFormed, FailFormed
<1> QED BY <1>1, <1>2

\* RPC results: each form is shown with what its event needs.
LEMMA ResultFormed ==
  ASSUME TypeOK, Usable(s), NEW f \in Frame, HandleResult(f)
  PROVE  Formed(f.kind)
<1> DEFINE st == Settled(f)
           code == [st EXCEPT !.phase = "AWAITING_CODE", !.codeHash = TRUE]
           password == [st EXCEPT !.phase = "AWAITING_PASSWORD", !.srp = TRUE]
           qr == [st EXCEPT !.phase = "AWAITING_QR_SCAN", !.token = f.dc]
<1>1. st \in Session BY SettledType
<1>2. /\ st.phone = s.phone /\ st.phase = s.phase /\ st.codeHash = s.codeHash
      /\ st.srp = s.srp /\ st.token = s.token /\ st.user = s.user
  BY DEF Settled, TypeOK, Session
<1>3. f.dc # NoDC BY DCAssumption DEF Frame
<1>4. \/ Keep(code) /\ f.kind = "auth.SentCode"
      \/ Keep(password) \/ Keep(qr) \/ Keep(st) \/ Keep(Fail(st))
      \/ Keep(LoggedIn(st)) /\ f.kind \in Granting
      \/ Reconnect(f.dc, f.dc)
  BY DEF HandleResult, Granting
<1> HIDE DEF st
<1>5. code.phase = "AWAITING_CODE" /\ code.codeHash /\ code.phone = st.phone
  BY <1>1 DEF Session
<1>6. password.phase = "AWAITING_PASSWORD" /\ password.srp /\ password.phone = st.phone
  BY <1>1 DEF Session
<1>7. qr.phase = "AWAITING_QR_SCAN" /\ qr.token # NoDC /\ qr.phone = st.phone
  BY <1>1, <1>3 DEF Session
<1>8. LoggedIn(st).phase = "READY" /\ LoggedIn(st).user /\ LoggedIn(st).phone = st.phone
  BY <1>1 DEF Session, LoggedIn
<1> HIDE DEF code, password, qr
<1>9. Usable(code) /\ Usable(password) /\ Usable(qr) /\ Usable(LoggedIn(st)) /\ Usable(st)
  BY <1>2, <1>5, <1>6, <1>7, <1>8 DEF Usable
<1>10. Keep(code) /\ f.kind = "auth.SentCode" => Formed(f.kind)
  BY <1>2, <1>5, <1>9, KeepFormed
<1>11. Keep(password) => Formed(f.kind) BY <1>2, <1>6, <1>9, KeepFormed
<1>12. Keep(qr) => Formed(f.kind) BY <1>2, <1>7, <1>9, KeepFormed
<1>13. Keep(st) => Formed(f.kind) BY <1>2, <1>9, KeepFormed
<1>14. Keep(LoggedIn(st)) /\ f.kind \in Granting => Formed(f.kind)
  BY <1>2, <1>8, <1>9, KeepFormed
<1>15. Keep(Fail(st)) => Formed(f.kind) BY <1>1, <1>2, FailFormed
<1> QED BY <1>4, <1>10, <1>11, <1>12, <1>13, <1>14, <1>15, ReconnectFormed

\* RPC errors.
LEMMA RpcErrorFormed ==
  ASSUME TypeOK, NEW f \in Frame, HandleRpcError(f)
  PROVE  Formed(f.kind)
<1> DEFINE st == Settled(f)
           fresh == [st EXCEPT !.token = NoDC]
<1>1. st \in Session BY SettledType
<1>2. st.phone = s.phone BY DEF Settled, TypeOK, Session
<1>3. \/ Reconnect(f.dc, s.token) \/ Reconnect(s.dc, NoDC) \/ Keep(Fail(st))
      \/ Call(fresh, "auth.ExportLoginToken", "QR_TOKEN_SENT")
      \/ Call(st, "account.GetPassword", "PASSWORD_INFO_SENT")
  BY DEF HandleRpcError
<1> HIDE DEF st
<1>4. fresh \in Session /\ fresh.phone = s.phone BY <1>1, <1>2 DEF Session
<1>5. {"QR_TOKEN_SENT", "PASSWORD_INFO_SENT"} \cap Awaiting = {} BY DEF Awaiting
<1> HIDE DEF fresh
<1> QED BY <1>1, <1>2, <1>3, <1>4, <1>5, CallFormed, FailFormed, ReconnectFormed

\* A refused salt and a scanned QR code.
LEMMA ServiceFormed ==
  ASSUME TypeOK, Usable(s), NEW kind, HandleBadServerSalt \/ HandleLoginTokenUpdate
  PROVE  Formed(kind)
<1> DEFINE st == [s EXCEPT !.salt = salt]
<1>1. s \in Session /\ st \in Session BY DEF TypeOK, Session
<1>2. /\ st.phone = s.phone /\ st.phase = s.phase /\ st.codeHash = s.codeHash
      /\ st.srp = s.srp /\ st.token = s.token /\ st.user = s.user
  BY <1>1 DEF Session
<1>3. \/ Keep(st) \/ Keep(Fail(st)) \/ Keep(Fail(s))
      \/ Call(st, "auth.ExportLoginToken", "QR_TOKEN_SENT")
      \/ Call(st, "auth.ImportLoginToken", "QR_IMPORT_SENT") /\ s.token # NoDC
      \/ Call(s, "auth.ImportLoginToken", "QR_IMPORT_SENT") /\ s.token # NoDC
  BY <1>2 DEF HandleBadServerSalt, HandleLoginTokenUpdate
<1>4. {"QR_TOKEN_SENT", "QR_IMPORT_SENT"} \cap Awaiting = {} BY DEF Awaiting
<1> HIDE DEF st
<1>5. Usable(st) BY <1>2 DEF Usable
<1>6. Keep(st) => Formed(kind) BY <1>2, <1>5, KeepFormed
<1>7. Keep(Fail(st)) \/ Keep(Fail(s)) => Formed(kind) BY <1>1, <1>2, FailFormed
<1> QED BY <1>1, <1>2, <1>3, <1>4, <1>6, <1>7, CallFormed

\* A container.
LEMMA ContainerFormed ==
  ASSUME TypeOK, Usable(s), NEW kind, Handled
  PROVE  Formed(kind)
<1>1. CASE \E st : Trimmed(st) /\ (Keep(st) \/ Keep(Fail(st)))
  <2>1. PICK st : Trimmed(st) /\ (Keep(st) \/ Keep(Fail(st))) BY <1>1
  <2>2. CASE Keep(st)
    <3>1. Usable(st) BY <2>1 DEF Trimmed, Usable
    <3> QED BY <2>1, <2>2, <3>1, KeepFormed DEF Trimmed
  <2>3. CASE Keep(Fail(st)) BY <2>1, <2>3, FailFormed DEF Trimmed
  <2> QED BY <2>1, <2>2, <2>3
<1>2. CASE Posted
  <2>1. /\ s'.phone = s.phone /\ s'.token = s.token
        /\ \/ s'.phase \in {"QR_TOKEN_SENT", "ERROR"}
           \/ s'.phase = "QR_IMPORT_SENT" /\ s.token # NoDC
    BY <1>2 DEF Posted
  <2>2. \A r \in sent' : r \in sent \/ r.name # "auth.SendCode" BY <1>2 DEF Posted
  <2> QED BY <2>1, <2>2 DEF Formed, Usable
<1> QED BY <1>1, <1>2 DEF Handled

\* The invariant: a code is asked for, and answered, only for a phone, and a grant
\* is in the server's account before it is in the snapshot.
FormInv ==
  /\ TypeOK /\ Usable(s)
  /\ s.phase = "AWAITING_CODE" => s.phone
  /\ \A r \in sent : r.name = "auth.SendCode" => s.phone
  /\ \A f \in replied : f.kind = "auth.SentCode" => s.phone
  /\ s.phase = "READY" => account # "none"

\* A frame, handled in one of the ways above, keeps it.
LEMMA FrameForm ==
  ASSUME FormInv, TypeOK', NEW f, Formed(f.kind), ServerAfter(f),
         f.kind = "auth.SentCode" => s.phone
  PROVE  FormInv'
<1>1. \A q \in replied' : q.kind = "auth.SentCode" => s.phone
  BY DEF FormInv, ServerAfter
<1>2. s'.phase = "READY" => account' # "none"
  BY DEF FormInv, Formed, ServerAfter
<1> QED BY <1>1, <1>2 DEF FormInv, Formed

\* What else is handled, whose reply does not count, keeps it.
LEMMA EventForm ==
  ASSUME FormInv, TypeOK', NEW kind, kind \notin Granting \cup {"auth.SentCode"},
         Formed(kind), account' = account,
         \A q \in replied' : q \in replied \/ q.kind # "auth.SentCode"
  PROVE  FormInv'
BY DEF FormInv, Formed

\* Every step keeps it.
LEMMA NextForm == FormInv /\ [Next]_vars => FormInv'
<1> SUFFICES ASSUME FormInv, [Next]_vars PROVE FormInv' OBVIOUS
<1>0. TypeOK /\ TypeOK' /\ Usable(s) /\ "none" \notin Granting \cup {"auth.SentCode"}
  BY NextType DEF FormInv, Granting
<1>1. ASSUME NEW r \in sent, NEW f \in Replies(r)
      PROVE  f \in Frame /\ (f.kind = "auth.SentCode" => s.phone)
  <2>1. f \in Frame /\ f.kind \in Kinds(r.name) \cup {"other"} BY <1>0, RepliesType
  <2>2. "auth.SentCode" \in Kinds(r.name) /\ r.name \in PlainName \cup ApiName
          => r.name = "auth.SendCode"
    BY DEF Kinds, PlainName, ApiName
  <2>3. r.name \in PlainName \cup ApiName BY <1>0 DEF TypeOK, Request
  <2> QED BY <2>1, <2>2, <2>3 DEF FormInv
<1>2. ASSUME NEW r \in sent, DeliverPlain(r) PROVE FormInv'
  <2>1. PICK f \in Replies(r) :
          /\ HandleResPq(f) \/ HandleServerDHParams(f) \/ HandleDhGenResult(f)
          /\ ServerAfter(f)
    BY <1>2 DEF DeliverPlain
  <2> QED BY <1>0, <1>1, <2>1, HandshakeFormed, FrameForm
<1>3. ASSUME NEW r \in sent, DeliverResult(r) PROVE FormInv'
  <2>1. PICK f \in Replies(r) : HandleResult(f) /\ ServerAfter(f)
    BY <1>3 DEF DeliverResult
  <2> QED BY <1>0, <1>1, <2>1, ResultFormed, FrameForm
<1>4. ASSUME NEW r \in sent, DeliverRpcError(r) PROVE FormInv'
  <2>1. PICK f \in Replies(r) : HandleRpcError(f) /\ ServerAfter(f)
    BY <1>4 DEF DeliverRpcError
  <2> QED BY <1>0, <1>1, <2>1, RpcErrorFormed, FrameForm
<1>5. CASE DeliverContainer
  <2>1. PICK results, refused, scans :
          /\ results \subseteq UNION {Replies(r) : r \in sent}
          /\ refused \subseteq sent /\ scans \subseteq Scans
          /\ replied' = replied \cup results \cup scans \cup {Refusal(r) : r \in refused}
          /\ account' = IF \E f \in results : f.kind \in Granting THEN "authorized"
                        ELSE account
    BY <1>0, <1>5, ContainerStep
  <2>2. Formed("none") BY <1>0, <1>5, ContainerStep, ContainerFormed
  <2>3. \A f \in results : f.kind = "auth.SentCode" => s.phone BY <1>1, <2>1
  <2>4. \A f \in scans : f.kind = "UpdateLoginToken"
    BY <1>0, <2>1 DEF Scans, TypeOK, Frame
  <2>5. \A r \in refused : Refusal(r).kind = "BadServerSalt" BY DEF Refusal
  <2>6. \A f \in replied' : f.kind = "auth.SentCode" => s.phone
    BY <2>1, <2>3, <2>4, <2>5 DEF FormInv
  <2>7. s'.phase = "READY" => account' # "none" BY <1>0, <2>1, <2>2 DEF FormInv, Formed
  <2> QED BY <1>0, <2>2, <2>6, <2>7 DEF FormInv, Formed
<1>6. ASSUME NEW f \in replied, DeliverAgain(f) PROVE FormInv'
  <2>1. f \in Frame /\ (f.kind = "auth.SentCode" => s.phone) BY DEF FormInv, TypeOK
  <2>2. ServerAfter(f) /\ (HandleResult(f) \/ HandleRpcError(f)) BY <1>6 DEF DeliverAgain
  <2>3. Formed(f.kind) BY <1>0, <2>1, <2>2, ResultFormed, RpcErrorFormed
  <2> QED BY <1>0, <2>1, <2>2, <2>3, FrameForm
<1>7. ASSUME NEW r \in sent, DeliverBadServerSalt(r) PROVE FormInv'
  <2>1. Formed("none") BY <1>0, <1>7, ServiceFormed DEF DeliverBadServerSalt
  <2>2. \A q \in replied' : q \in replied \/ q.kind # "auth.SentCode"
    BY <1>7 DEF DeliverBadServerSalt, Refusal
  <2>3. account' = account BY <1>7 DEF DeliverBadServerSalt
  <2> QED BY <1>0, <2>1, <2>2, <2>3, EventForm
<1>8. CASE DeliverNewSessionCreated
  <2>1. s' = [s EXCEPT !.salt = salt] /\ UNCHANGED <<connection, sent, replied, account>>
    BY <1>8 DEF DeliverNewSessionCreated
  <2>2. /\ s'.phone = s.phone /\ s'.phase = s.phase /\ s'.codeHash = s.codeHash
        /\ s'.srp = s.srp /\ s'.token = s.token /\ s'.user = s.user
    BY <1>0, <2>1 DEF TypeOK, Session
  <2> QED BY <1>0, <2>1, <2>2 DEF FormInv, Usable
<1>9. CASE DeliverLoginTokenUpdate
  <2>1. Formed("none") BY <1>0, <1>9, ServiceFormed DEF DeliverLoginTokenUpdate
  <2>2. \A q \in replied' : q \in replied \/ q.kind # "auth.SentCode"
    <3>1. PICK f \in replied :
            replied' = replied \cup {[f EXCEPT !.kind = "UpdateLoginToken"]}
      BY <1>9 DEF DeliverLoginTokenUpdate, Scans
    <3>2. [f EXCEPT !.kind = "UpdateLoginToken"].kind = "UpdateLoginToken"
      BY <1>0 DEF TypeOK, Frame
    <3> QED BY <3>1, <3>2
  <2>3. account' = account BY <1>9 DEF DeliverLoginTokenUpdate
  <2> QED BY <1>0, <2>1, <2>2, <2>3, EventForm
<1>10. CASE DeliverTransportError
  <2>1. Keep(Fail(s)) /\ UNCHANGED <<replied, account>> /\ s \in Session
    BY <1>0, <1>10 DEF DeliverTransportError, TypeOK
  <2>2. Formed("none") BY <2>1, FailFormed
  <2> QED BY <1>0, <2>1, <2>2, EventForm
<1>11. CASE SubmitCode \/ SubmitPassword \/ RefreshQr \/ InvokeMethod
  <2>1. \/ Call(s, "auth.SignIn", "SIGN_IN_SENT")
        \/ Call(s, "auth.CheckPassword", "CHECK_PASSWORD_SENT")
        \/ Call(s, "auth.ExportLoginToken", "QR_TOKEN_SENT")
        \/ Call(s, "method", "READY") /\ s.phase = "READY"
    BY <1>11 DEF SubmitCode, SubmitPassword, RefreshQr, InvokeMethod
  <2>2. {"SIGN_IN_SENT", "CHECK_PASSWORD_SENT", "QR_TOKEN_SENT", "READY"} \cap Awaiting = {}
    BY DEF Awaiting
  <2>3. s \in Session /\ (s.phase = "READY" => s.user) BY <1>0 DEF TypeOK, Usable
  <2>4. Formed("none") BY <1>0, <2>1, <2>2, <2>3, CallFormed
  <2>5. UNCHANGED <<replied, account>>
    BY <1>11 DEF SubmitCode, SubmitPassword, RefreshQr, InvokeMethod
  <2> QED BY <1>0, <2>4, <2>5, EventForm
<1>12. CASE RotateSalt BY <1>0, <1>12 DEF RotateSalt, FormInv
<1>13. CASE Revoke BY <1>0, <1>13 DEF Revoke, FormInv
<1>14. CASE UNCHANGED vars BY <1>0, <1>14 DEF vars, FormInv
<1> QED BY <1>2, <1>3, <1>4, <1>5, <1>6, <1>7, <1>8, <1>9, <1>10, <1>11, <1>12, <1>13,
           <1>14 DEF Next, Reply

\* It holds in every reachable state.
LEMMA FormCorrect == Spec => []FormInv
<1>1. Init => FormInv
  <2> SUFFICES ASSUME Init PROVE FormInv OBVIOUS
  <2>1. s.phase = "PQ_SENT" BY DEF Init, Fresh
  <2>2. \A r \in sent : r.name = "ReqPqMulti" BY DEF Init, Plain
  <2> QED BY <2>1, <2>2, InitType DEF Init, FormInv, Usable
<1> QED BY <1>1, NextForm, PTL DEF Spec

\* A form is shown only with what its event needs, whatever order, repetition or
\* class of reply the network brings: submitting it never throws.
THEOREM AwaitingInputUsableCorrect == Spec => []AwaitingInputUsable
<1>1. FormInv => AwaitingInputUsable BY DEF FormInv, Usable, AwaitingInputUsable
<1> QED BY <1>1, FormCorrect, PTL

\* A session is ready only if the server granted the login to the key it holds, under
\* every fault.
THEOREM ReadyIsGrantedCorrect == Spec => []ReadyIsGranted
<1>1. FormInv => ReadyIsGranted BY DEF FormInv, Usable, ReadyIsGranted
<1> QED BY <1>1, FormCorrect, PTL
-----------------------------------------------------------------------------
(* The data centre of a QR token *)

\* No answer is late: neither reordered nor sent again.
InOrder == Faults \cap {"reorder", "resend"} = {}

QrPhase == {"QR_TOKEN_SENT", "AWAITING_QR_SCAN", "QR_IMPORT_SENT"}
QrName  == {"auth.ExportLoginToken", "auth.ImportLoginToken"}

\* The token held is one of the data centre the session is at.  It can be taken to
\* another one only by MIGRATE, which answers no request of a QR login, and a
\* session that calls methods is past its login and holds none.
Tokens ==
  /\ s.phone => s.mode = "phone"
  /\ s.mode = "phone" => /\ s.token = NoDC /\ s.phase \notin QrPhase
                         /\ \A r \in sent : r.name \notin QrName
  /\ s.phase = "READY" => s.token = NoDC
  /\ s.token # NoDC => s.token = s.dc
  /\ \A r \in sent : /\ r.dc = s.dc
                     /\ r.name = "auth.ImportLoginToken" => r.token = s.dc
                     /\ r.name = "auth.SignIn" => s.phone
                     /\ r.name = "method" => account # "none" /\ s.token = NoDC

SameLogin(st) == st.dc = s.dc /\ st.mode = s.mode /\ st.phone = s.phone

\* The token is kept or dropped, and nothing sent.
Held ==
  /\ SameLogin(s') /\ s'.token \in {s.token, NoDC} /\ UNCHANGED <<connection, sent>>
  /\ s'.phase = "READY" => s'.token = NoDC
  /\ s'.phase \in QrPhase => s.phase \in QrPhase

\* A token comes from the data centre dc.
TokenFrom(dc) ==
  /\ SameLogin(s') /\ s'.token = dc /\ s'.phase = "AWAITING_QR_SCAN"
  /\ UNCHANGED <<connection, sent>>

\* A request that the snapshot may send: with the token held if it imports one.
Apt(r) ==
  /\ r.dc = s.dc
  /\ r.name \in QrName => s.mode # "phone"
  /\ r.name = "auth.ImportLoginToken" => r.token = s.token /\ s.token # NoDC
  /\ r.name = "auth.SignIn" => s.phone
  /\ r.name = "method" => s.phase = "READY"

\* Requests are sent.
Used ==
  /\ SameLogin(s') /\ s'.token \in {s.token, NoDC} /\ connection' = connection
  /\ s'.phase = "READY" => s.phase = "READY"
  /\ s'.phase \in QrPhase => s.mode # "phone"
  /\ \E batch : sent' = sent \cup batch /\ \A r \in batch : Apt(r)

\* The login goes on at the data centre dc, with a token of it or none.
MovedTo(dc) ==
  \E token \in {dc, NoDC} :
    /\ s' = Fresh(dc, s.mode, s.phone, token) /\ sent' = {Plain(s', "ReqPqMulti")}
    /\ token # NoDC => s.mode # "phone"

\* A key that was granted a login is remembered as long as its connection.
AccountLasts == connection' = connection /\ account # "none" => account' # "none"

\* Each of them keeps the token where it is valid.
LEMMA HeldTokens ==
  ASSUME TypeOK, Tokens, Held, AccountLasts
  PROVE  Tokens'
BY DEF Tokens, Held, SameLogin, AccountLasts

LEMMA FromTokens ==
  ASSUME TypeOK, Tokens, TokenFrom(s.dc), account = "none", s.mode # "phone"
  PROVE  Tokens'
BY DEF Tokens, TokenFrom, SameLogin

LEMMA UsedTokens ==
  ASSUME TypeOK, Tokens, Used, AccountLasts,
         s.phase = "READY" => account # "none"
  PROVE  Tokens'
<1>1. PICK batch : sent' = sent \cup batch /\ \A r \in batch : Apt(r) BY DEF Used
<1> QED BY <1>1 DEF Tokens, Used, Apt, SameLogin, AccountLasts

LEMMA MovedTokens ==
  ASSUME TypeOK, Tokens, NEW dc \in DC, MovedTo(dc)
  PROVE  Tokens'
<1>1. PICK token \in {dc, NoDC} :
        /\ s' = Fresh(dc, s.mode, s.phone, token) /\ sent' = {Plain(s', "ReqPqMulti")}
        /\ token # NoDC => s.mode # "phone"
  BY DEF MovedTo
<1>2. /\ s'.dc = dc /\ s'.mode = s.mode /\ s'.phone = s.phone /\ s'.token = token
      /\ s'.phase = "PQ_SENT"
  BY <1>1 DEF Fresh
<1>3. \A r \in sent' : r.name = "ReqPqMulti" /\ r.dc = dc BY <1>1, <1>2 DEF Plain
<1> QED BY <1>1, <1>2, <1>3 DEF Tokens, QrPhase, QrName

\* A failure holds the token.
LEMMA FailHeld ==
  ASSUME NEW st \in Session, Keep(Fail(st)), SameLogin(st), st.token = s.token
  PROVE  Held
<1>1. /\ Fail(st).phase = "ERROR" /\ Fail(st).token = st.token /\ Fail(st).dc = st.dc
      /\ Fail(st).mode = st.mode /\ Fail(st).phone = st.phone
  BY DEF Fail, Session
<1> QED BY <1>1 DEF Keep, Held, SameLogin, QrPhase

\* A request uses it.
LEMMA CallUses ==
  ASSUME TypeOK, NEW st \in Session, NEW name, NEW phase, Call(st, name, phase),
         SameLogin(st), st.token \in {s.token, NoDC},
         phase = "READY" => s.phase = "READY",
         phase \in QrPhase \/ name \in QrName => s.mode # "phone",
         name = "auth.ImportLoginToken" => st.token = s.token /\ s.token # NoDC,
         name = "auth.SignIn" => s.phone,
         name = "method" => s.phase = "READY"
  PROVE  Used \/ Held
<1>1. CASE Hydratable(st)
  <2> DEFINE r == ApiRequest(st, name)
  <2>1. /\ s' = Requested(st, name, phase) /\ sent' = sent \cup {r}
        /\ connection' = connection
    BY <1>1 DEF Call
  <2>2. /\ s'.phase = phase /\ s'.token = st.token /\ s'.dc = st.dc /\ s'.mode = st.mode
        /\ s'.phone = st.phone
    BY <2>1 DEF Requested, Session
  <2>3. r.name = name /\ r.dc = s.dc /\ (name = "auth.ImportLoginToken" => r.token = st.token)
    BY DEF ApiRequest, SameLogin
  <2> HIDE DEF r
  <2>4. Apt(r) BY <2>3 DEF Apt
  <2>6. \E batch : sent' = sent \cup batch /\ \A q \in batch : Apt(q)
    <3> DEFINE batch == {r}
    <3>1. \A q \in batch : Apt(q) BY <2>4
    <3>2. sent' = sent \cup batch BY <2>1
    <3> HIDE DEF batch
    <3> QED BY <3>1, <3>2
  <2>5. /\ SameLogin(s') /\ s'.token \in {s.token, NoDC}
        /\ s'.phase = "READY" => s.phase = "READY"
        /\ s'.phase \in QrPhase => s.mode # "phone"
    BY <2>2 DEF SameLogin
  <2> QED BY <2>1, <2>5, <2>6 DEF Used
<1>2. CASE ~Hydratable(st)
  <2>1. Keep(Fail(s)) /\ s \in Session BY <1>2 DEF Call, TypeOK
  <2> QED BY <2>1, FailHeld DEF SameLogin
<1> QED BY <1>1, <1>2

\* A move takes no token but one of the data centre it goes to.
LEMMA ReconnectTokens ==
  ASSUME TypeOK, NEW dc \in DC, NEW token \in {dc, NoDC}, Reconnect(dc, token),
         token # NoDC => s.mode # "phone"
  PROVE  MovedTo(dc) \/ Held
<1>1. CASE dc \in KnownDC BY <1>1 DEF Reconnect, MovedTo
<1>2. CASE dc \notin KnownDC
  <2>1. Keep(Fail(s)) /\ s \in Session BY <1>2 DEF Reconnect, TypeOK
  <2> QED BY <2>1, FailHeld DEF SameLogin
<1> QED BY <1>1, <1>2

\* The handlers.
LEMMA HandshakeTokens ==
  ASSUME TypeOK, Tokens, NEW f,
         HandleResPq(f) \/ HandleServerDHParams(f) \/ HandleDhGenResult(f)
  PROVE  Held \/ Used
<1>0. s \in Session BY DEF TypeOK
<1>1. CASE HandleResPq(f) \/ HandleServerDHParams(f)
  <2>1. \/ Keep(Fail(s))
        \/ /\ s'.phase \in {"DH_SENT", "DH_GEN_SENT"} /\ SameLogin(s')
           /\ s'.token = s.token /\ connection' = connection
           /\ \E st \in Session : \E name \in {"ReqDHParams", "SetClientDHParams"} :
                sent' = sent \cup {Plain(s', name)}
    BY <1>1, <1>0 DEF HandleResPq, HandleServerDHParams, Keep, Session, SameLogin
  <2>2. CASE Keep(Fail(s)) BY <2>2, <1>0, FailHeld DEF SameLogin
  <2>3. CASE ~Keep(Fail(s))
    <3>1. PICK name \in {"ReqDHParams", "SetClientDHParams"} :
            sent' = sent \cup {Plain(s', name)}
      BY <2>1, <2>3
    <3>2. Plain(s', name).dc = s.dc /\ Plain(s', name).name = name
      BY <2>1, <2>3 DEF Plain, SameLogin
    <3>3. Apt(Plain(s', name)) BY <3>2 DEF Apt, QrName
    <3>5. \E batch : sent' = sent \cup batch /\ \A r \in batch : Apt(r)
      <4> DEFINE batch == {Plain(s', name)}
      <4>1. \A r \in batch : Apt(r) BY <3>3
      <4>2. sent' = sent \cup batch BY <3>1
      <4> HIDE DEF batch
      <4> QED BY <4>1, <4>2
    <3>4. s'.phase # "READY" /\ s'.phase \notin QrPhase BY <2>1, <2>3 DEF QrPhase
    <3> QED BY <2>1, <2>3, <3>4, <3>5 DEF Used
  <2> QED BY <2>2, <2>3
<1>2. CASE HandleDhGenResult(f)
  <2> DEFINE st == [s EXCEPT !.sessionId = TRUE, !.dh = {}]
  <2>1. /\ st \in Session /\ SameLogin(st) /\ st.token = s.token /\ st.mode = s.mode
    BY <1>0 DEF Session, SameLogin
  <2>2. \/ Keep(Fail(s))
        \/ Call(st, "auth.ImportLoginToken", "QR_IMPORT_SENT") /\ st.token # NoDC
        \/ Call(st, "auth.ExportLoginToken", "QR_TOKEN_SENT") /\ st.mode = "qr"
        \/ Call(st, "auth.SendCode", "CODE_SENT")
    BY <1>2 DEF HandleDhGenResult, ContinueAuth
  <2>3. s.token # NoDC \/ s.mode = "qr" => s.mode # "phone" BY DEF Tokens
  <2> HIDE DEF st
  <2>4. Keep(Fail(s)) => Held BY <1>0, FailHeld DEF SameLogin
  <2> QED BY <2>1, <2>2, <2>3, <2>4, CallUses DEF QrPhase, QrName
<1> QED BY <1>1, <1>2

LEMMA SettledLogin ==
  ASSUME TypeOK, NEW f
  PROVE  /\ Settled(f) \in Session /\ SameLogin(Settled(f))
         /\ Settled(f).token = s.token /\ Settled(f).phase = s.phase
BY SettledType DEF Settled, TypeOK, Session, SameLogin

LEMMA ResultTokens ==
  ASSUME TypeOK, Tokens, NEW f \in Frame, HandleResult(f),
         f.kind \in {"auth.LoginToken", "auth.LoginTokenMigrateTo"} => s.mode # "phone"
  PROVE  \/ Held \/ MovedTo(f.dc)
         \/ TokenFrom(f.dc) /\ f.kind = "auth.LoginToken"
<1> DEFINE st == Settled(f)
           code == [st EXCEPT !.phase = "AWAITING_CODE", !.codeHash = TRUE]
           password == [st EXCEPT !.phase = "AWAITING_PASSWORD", !.srp = TRUE]
           qr == [st EXCEPT !.phase = "AWAITING_QR_SCAN", !.token = f.dc]
<1>1. /\ st \in Session /\ SameLogin(st) /\ st.token = s.token /\ st.phase = s.phase
  BY SettledLogin
<1>2. \/ Keep(code) \/ Keep(password) \/ Keep(st) \/ Keep(LoggedIn(st)) \/ Keep(Fail(st))
      \/ Keep(qr) /\ f.kind = "auth.LoginToken"
      \/ Reconnect(f.dc, f.dc) /\ f.kind = "auth.LoginTokenMigrateTo"
  BY DEF HandleResult
<1> HIDE DEF st
<1>3. /\ code.phase = "AWAITING_CODE" /\ password.phase = "AWAITING_PASSWORD"
      /\ LoggedIn(st).phase = "READY" /\ LoggedIn(st).token = NoDC
      /\ code.token = st.token /\ password.token = st.token
      /\ SameLogin(code) /\ SameLogin(password) /\ SameLogin(LoggedIn(st))
  BY <1>1 DEF Session, SameLogin, LoggedIn
<1>4. qr.phase = "AWAITING_QR_SCAN" /\ qr.token = f.dc /\ SameLogin(qr)
  BY <1>1 DEF Session, SameLogin
<1> HIDE DEF code, password, qr
<1>5. Keep(code) \/ Keep(password) \/ Keep(LoggedIn(st)) => Held
  BY <1>1, <1>3 DEF Keep, Held, QrPhase
<1>6. Keep(st) => Held BY <1>1 DEF Keep, Held, Tokens
<1>7. Keep(qr) => TokenFrom(f.dc) BY <1>4 DEF Keep, TokenFrom
<1>8. Keep(Fail(st)) => Held BY <1>1, FailHeld
<1>9. f.dc \in DC BY DEF Frame
<1> QED BY <1>2, <1>5, <1>6, <1>7, <1>8, <1>9, ReconnectTokens

LEMMA RpcErrorTokens ==
  ASSUME TypeOK, Tokens, NEW f \in Frame, HandleRpcError(f),
         f.kind = "MIGRATE" => s.token = NoDC
  PROVE  Held \/ Used \/ MovedTo(f.dc) \/ MovedTo(s.dc)
<1> DEFINE st == Settled(f)
           fresh == [st EXCEPT !.token = NoDC]
<1>1. /\ st \in Session /\ SameLogin(st) /\ st.token = s.token /\ f.dc \in DC /\ s.dc \in DC
  BY SettledLogin DEF Frame, TypeOK, Session
<1>2. \/ Reconnect(f.dc, s.token) /\ f.kind = "MIGRATE"
      \/ Reconnect(s.dc, NoDC) \/ Keep(Fail(st))
      \/ Call(fresh, "auth.ExportLoginToken", "QR_TOKEN_SENT") /\ s.phase = "QR_IMPORT_SENT"
      \/ Call(st, "account.GetPassword", "PASSWORD_INFO_SENT")
  BY DEF HandleRpcError
<1>3. s.phase = "QR_IMPORT_SENT" => s.mode # "phone" BY DEF Tokens, QrPhase
<1> HIDE DEF st
<1>4. fresh \in Session /\ SameLogin(fresh) /\ fresh.token = NoDC
  BY <1>1 DEF Session, SameLogin
<1> HIDE DEF fresh
<1>5. Call(fresh, "auth.ExportLoginToken", "QR_TOKEN_SENT") /\ s.phase = "QR_IMPORT_SENT"
        => Used \/ Held
  BY <1>3, <1>4, CallUses DEF QrName
<1>6. Call(st, "account.GetPassword", "PASSWORD_INFO_SENT") => Used \/ Held
  BY <1>1, CallUses DEF QrPhase, QrName
<1>7. Keep(Fail(st)) => Held BY <1>1, FailHeld
<1> QED BY <1>1, <1>2, <1>5, <1>6, <1>7, ReconnectTokens

LEMMA ServiceTokens ==
  ASSUME TypeOK, Tokens, HandleBadServerSalt \/ HandleLoginTokenUpdate
  PROVE  Held \/ Used
<1> DEFINE st == [s EXCEPT !.salt = salt]
<1>1. /\ s \in Session /\ st \in Session /\ SameLogin(st) /\ st.token = s.token
      /\ st.phase = s.phase
  BY DEF TypeOK, Session, SameLogin
<1>2. \/ Keep(st) \/ Keep(Fail(st)) \/ Keep(Fail(s))
      \/ Call(st, "auth.ExportLoginToken", "QR_TOKEN_SENT") /\ s.phase \in QrPhase
      \/ Call(st, "auth.ImportLoginToken", "QR_IMPORT_SENT") /\ s.token # NoDC
      \/ Call(s, "auth.ImportLoginToken", "QR_IMPORT_SENT") /\ s.token # NoDC
  BY <1>1 DEF HandleBadServerSalt, HandleLoginTokenUpdate, QrPhase
<1>3. s.phase \in QrPhase \/ s.token # NoDC => s.mode # "phone" BY DEF Tokens
<1> HIDE DEF st
<1>4. Keep(st) => Held BY <1>1 DEF Keep, Held, Tokens
<1>5. Keep(Fail(st)) \/ Keep(Fail(s)) => Held BY <1>1, FailHeld DEF SameLogin
<1>6. SameLogin(s) BY DEF SameLogin
<1> QED BY <1>1, <1>2, <1>3, <1>4, <1>5, <1>6, CallUses DEF QrName

LEMMA ContainerTokens ==
  ASSUME TypeOK, Tokens, Handled
  PROVE  (Held \/ Used) /\ connection' = connection
<1>1. CASE \E st : Trimmed(st) /\ (Keep(st) \/ Keep(Fail(st)))
  <2>1. PICK st : Trimmed(st) /\ (Keep(st) \/ Keep(Fail(st))) BY <1>1
  <2>2. SameLogin(st) /\ st \in Session /\ st.token = s.token /\ st.phase = s.phase
    BY <2>1 DEF Trimmed, SameLogin
  <2>3. Keep(st) => Held BY <2>2 DEF Keep, Held, Tokens
  <2>4. Keep(Fail(st)) => Held BY <2>2, FailHeld
  <2> QED BY <2>1, <2>3, <2>4 DEF Keep
<1>2. CASE Posted
  <2>1. s.phase \in Exporting \/ s.token # NoDC => s.mode # "phone"
    BY DEF Tokens, Exporting, QrPhase
  <2>2. PICK batch :
          /\ BatchOf(batch, s'.lastMsgId) /\ sent' = sent \cup batch
          /\ \A r \in batch :
               /\ r.name \in {"auth.ExportLoginToken", "auth.ImportLoginToken"}
               /\ r.name = "auth.ExportLoginToken" => s.phase \in Exporting
               /\ r.name = "auth.ImportLoginToken" => r.token = s.token /\ s.token # NoDC
    BY <1>2 DEF Posted
  <2>3. \A r \in batch :
          /\ s.mode # "phone" /\ r.name # "auth.SignIn" /\ r.name # "method"
          /\ r.name = "auth.ImportLoginToken" => r.token = s.token /\ s.token # NoDC
    BY <2>1, <2>2
  <2>5. \A r \in batch : r.dc = s.dc BY <2>2 DEF BatchOf
  <2>4. /\ SameLogin(s') /\ s'.token = s.token /\ s'.phase # "READY"
        /\ connection' = connection /\ s.mode # "phone"
    BY <1>2, <2>1 DEF Posted, SameLogin
  <2>6. \A r \in batch : Apt(r) BY <2>3, <2>4, <2>5 DEF Apt
  <2> QED BY <2>2, <2>4, <2>6 DEF Used
<1> QED BY <1>1, <1>2 DEF Handled

TokenInv == FormInv /\ (InOrder => Tokens)

\* Every step keeps it.
LEMMA NextTokens == TokenInv /\ [Next]_vars => TokenInv'
<1> SUFFICES ASSUME FormInv, InOrder, Tokens, [Next]_vars PROVE Tokens'
  BY NextForm DEF TokenInv, InOrder
<1>0. /\ TypeOK /\ s.dc \in DC /\ s \in Session
      /\ "reorder" \notin Faults /\ "resend" \notin Faults
      /\ s.phase = "READY" => account # "none"
  BY DEF FormInv, TypeOK, Session, InOrder
<1>1. ASSUME NEW r \in sent, NEW f \in Replies(r)
      PROVE  /\ f \in Frame /\ f.dc \in DC
             /\ f.kind = "auth.LoginToken" => f.dc = s.dc /\ account = "none"
             /\ f.kind \in {"auth.LoginToken", "auth.LoginTokenMigrateTo"} => s.mode # "phone"
             /\ f.kind = "MIGRATE" => s.token = NoDC
  <2>1. f \in Frame /\ f.kind \in Kinds(r.name) \cup {"other"} BY <1>0, RepliesType
  <2>2. r.name \in PlainName \cup ApiName BY <1>0 DEF TypeOK, Request
  <2>3. f.kind = "auth.LoginToken" \/ f.kind = "auth.LoginTokenMigrateTo"
          => r.name \in QrName
    BY <2>1, <2>2 DEF Kinds, PlainName, ApiName, QrName
  <2>4. f.kind = "MIGRATE" => r.name \in {"auth.SendCode", "auth.SignIn", "method"}
    BY <2>1, <2>2 DEF Kinds, PlainName, ApiName
  <2>5. r.name = "auth.SendCode" => s.phone BY DEF FormInv
  <2>6. f.kind = "auth.LoginToken" => f.dc = r.dc /\ account = "none"
    BY <1>0 DEF Replies, LoginPending, Moving
  <2>7. f.dc \in DC BY <2>1 DEF Frame
  <2>8. f.kind \in {"auth.LoginToken", "auth.LoginTokenMigrateTo"} => s.mode # "phone"
    BY <2>3 DEF Tokens
  <2>9. f.kind = "MIGRATE" => s.token = NoDC
    BY <2>4, <2>5 DEF Tokens
  <2>10. r.dc = s.dc BY DEF Tokens
  <2> QED BY <2>1, <2>6, <2>7, <2>8, <2>9, <2>10
<1>2. ASSUME NEW f, ServerAfter(f) PROVE AccountLasts
  BY <1>2 DEF ServerAfter, AccountLasts
<1>3. ASSUME NEW r \in sent, DeliverPlain(r) PROVE Tokens'
  <2>1. PICK f \in Replies(r) :
          /\ HandleResPq(f) \/ HandleServerDHParams(f) \/ HandleDhGenResult(f)
          /\ ServerAfter(f)
    BY <1>3 DEF DeliverPlain
  <2>2. (Held \/ Used) /\ AccountLasts BY <1>0, <1>2, <2>1, HandshakeTokens
  <2> QED BY <1>0, <2>2, HeldTokens, UsedTokens
<1>4. ASSUME NEW r \in sent, DeliverResult(r) PROVE Tokens'
  <2>1. PICK f \in Replies(r) : HandleResult(f) /\ ServerAfter(f)
    BY <1>4 DEF DeliverResult
  <2>2. AccountLasts BY <1>2, <2>1
  <2>3. /\ f \in Frame /\ f.dc \in DC
        /\ f.kind = "auth.LoginToken" => f.dc = s.dc /\ account = "none"
        /\ f.kind \in {"auth.LoginToken", "auth.LoginTokenMigrateTo"} => s.mode # "phone"
    BY <1>1
  <2>4. \/ Held \/ MovedTo(f.dc)
        \/ TokenFrom(f.dc) /\ f.kind = "auth.LoginToken"
    BY <1>0, <2>1, <2>3, ResultTokens
  <2> QED BY <1>0, <2>2, <2>3, <2>4, HeldTokens, MovedTokens, FromTokens
<1>5. ASSUME NEW r \in sent, DeliverRpcError(r) PROVE Tokens'
  <2>1. PICK f \in Replies(r) : HandleRpcError(f) /\ ServerAfter(f)
    BY <1>5 DEF DeliverRpcError
  <2>2. AccountLasts BY <1>2, <2>1
  <2>3. f \in Frame /\ f.dc \in DC /\ (f.kind = "MIGRATE" => s.token = NoDC) BY <1>1
  <2>4. Held \/ Used \/ MovedTo(f.dc) \/ MovedTo(s.dc)
    BY <1>0, <2>1, <2>3, RpcErrorTokens
  <2> QED BY <1>0, <2>2, <2>3, <2>4, HeldTokens, UsedTokens, MovedTokens
<1>6. CASE DeliverContainer
  <2>1. (Held \/ Used) /\ connection' = connection
    BY <1>0, <1>6, ContainerStep, ContainerTokens
  <2>2. account # "none" => account' # "none" BY <1>0, <1>6, ContainerStep
  <2> QED BY <1>0, <2>1, <2>2, HeldTokens, UsedTokens DEF AccountLasts
<1>7. ASSUME NEW f \in replied, DeliverAgain(f) PROVE FALSE
  BY <1>0, <1>7 DEF DeliverAgain
<1>8. CASE (\E r \in sent : DeliverBadServerSalt(r)) \/ DeliverLoginTokenUpdate
  <2>1. (HandleBadServerSalt \/ HandleLoginTokenUpdate) /\ account' = account
    BY <1>8 DEF DeliverBadServerSalt, DeliverLoginTokenUpdate
  <2>2. (Held \/ Used) /\ AccountLasts BY <1>0, <2>1, ServiceTokens DEF AccountLasts
  <2> QED BY <1>0, <2>2, HeldTokens, UsedTokens
<1>9. CASE DeliverNewSessionCreated
  <2>1. /\ s' = [s EXCEPT !.salt = salt]
        /\ UNCHANGED <<connection, sent, account>>
    BY <1>9 DEF DeliverNewSessionCreated
  <2>2. SameLogin(s') /\ s'.token = s.token /\ s'.phase = s.phase
    BY <1>0, <2>1 DEF Session, SameLogin
  <2>3. Held /\ AccountLasts BY <2>1, <2>2 DEF Held, AccountLasts, Tokens
  <2> QED BY <1>0, <2>3, HeldTokens
<1>10. CASE DeliverTransportError
  <2>1. Keep(Fail(s)) /\ account' = account BY <1>10 DEF DeliverTransportError
  <2>2. Held /\ AccountLasts BY <1>0, <2>1, FailHeld DEF SameLogin, AccountLasts
  <2> QED BY <1>0, <2>2, HeldTokens
<1>11. CASE SubmitCode \/ SubmitPassword \/ RefreshQr \/ InvokeMethod
  <2>1. /\ \/ Call(s, "auth.SignIn", "SIGN_IN_SENT") /\ s.phone
           \/ Call(s, "auth.CheckPassword", "CHECK_PASSWORD_SENT")
           \/ Call(s, "auth.ExportLoginToken", "QR_TOKEN_SENT") /\ s.phase \in QrPhase
           \/ Call(s, "method", "READY") /\ s.phase = "READY"
        /\ account' = account
    BY <1>11 DEF SubmitCode, SubmitPassword, RefreshQr, InvokeMethod, QrPhase
  <2>2. s.phase \in QrPhase => s.mode # "phone" BY DEF Tokens
  <2>3. SameLogin(s) BY DEF SameLogin
  <2>4. Held \/ Used BY <1>0, <2>1, <2>2, <2>3, CallUses DEF QrName, QrPhase
  <2>5. AccountLasts BY <2>1 DEF AccountLasts
  <2> QED BY <1>0, <2>4, <2>5, HeldTokens, UsedTokens
<1>12. CASE RotateSalt BY <1>12 DEF RotateSalt, Tokens
<1>13. CASE Revoke BY <1>13 DEF Revoke, Tokens
<1>14. CASE UNCHANGED vars BY <1>14 DEF vars, Tokens
<1> QED BY <1>3, <1>4, <1>5, <1>6, <1>7, <1>8, <1>9, <1>10, <1>11, <1>12, <1>13, <1>14
        DEF Next, Reply

\* As long as no answer of the server is late, a QR token is imported only at the
\* data centre it is valid for.
THEOREM ImportsTokenOfThisDcCorrect == Spec => [](InOrder => ImportsTokenOfThisDc)
<1>1. Init => TokenInv
  <2> SUFFICES ASSUME Init PROVE FormInv /\ Tokens BY DEF TokenInv
  <2>1. PICK mode \in {"phone", "qr"}, phone \in BOOLEAN :
          (mode = "qr" => ~phone) /\ s = Fresh(HomeDC, mode, phone, NoDC)
    BY DEF Init
  <2>2. /\ s.phase = "PQ_SENT" /\ s.token = NoDC /\ s.mode = mode /\ s.phone = phone
    BY <2>1 DEF Fresh
  <2>3. \A r \in sent : r.name = "ReqPqMulti" /\ r.dc = s.dc BY DEF Init, Plain
  <2>4. FormInv BY <2>2, <2>3, InitType DEF Init, FormInv, Usable
  <2> QED BY <2>1, <2>2, <2>3, <2>4 DEF Tokens, QrPhase, QrName
<1>2. TokenInv => (InOrder => ImportsTokenOfThisDc)
  BY DEF TokenInv, Tokens, ImportsTokenOfThisDc
<1> QED BY <1>1, <1>2, NextTokens, PTL DEF Spec
-----------------------------------------------------------------------------
(* The request a phase waits for *)

\* Late answers and failing transports apart, every request gets an answer the
\* reducer has a rule for.
Lossless == Faults \subseteq {"reorder", "resend", "transport"}

Entry(r) == [id |-> r.id, name |-> r.name]

\* A request stays pending until its answer comes, no answer is to a request not
\* yet sent, and the salt in use is the server's.
Waits ==
  /\ WaitsForPending
  /\ \A f \in replied : f.to <= s.lastMsgId
  /\ \A r \in sent : r.key # 0 => /\ r.salt = salt
                                  /\ Answered(r.id) \/ Entry(r) \in s.pending
  /\ s.key # 0 => s.salt = salt

\* The salt of the snapshot.
SaltKept == s'.key # 0 => s'.salt = salt

\* All that is pending but the requests with these ids.
Others(ids) == {p \in s.pending : p.id \notin ids}

\* The phase stays, or is one that does not wait.
Rests(ids) ==
  /\ Others(ids) \subseteq s'.pending /\ s'.lastMsgId = s.lastMsgId
  /\ UNCHANGED <<connection, sent>> /\ SaltKept
  /\ s'.phase = s.phase \/ s'.phase \notin Waiting

\* The phase waits for the request sent.
Asks(ids) ==
  /\ s'.lastMsgId = s.lastMsgId + 1 /\ connection' = connection /\ SaltKept
  /\ \E r : /\ sent' = sent \cup {r} /\ r.id = s.lastMsgId + 1 /\ r.salt = salt
            /\ Others(ids) \cup {Entry(r)} \subseteq s'.pending
            /\ s'.phase \in Waiting => r.name = AwaitedRequest[s'.phase]

\* The key exchange does not wait.
Exchanges ==
  /\ s'.lastMsgId = s.lastMsgId + 1 /\ connection' = connection /\ s'.pending = s.pending
  /\ SaltKept /\ s'.phase \notin Waiting
  /\ \E r : sent' = sent \cup {r} /\ r.key = 0

\* Nor does a session that starts over.
StartsOver ==
  /\ s'.key = 0 /\ s'.phase \notin Waiting /\ connection' # connection
  /\ \A r \in sent' : r.key = 0

\* The requests that have an answer after the step and had none, or one, before.
Answers(ids) ==
  /\ salt' = salt
  /\ \A i \in ids : i <= s.lastMsgId
  /\ IF connection' # connection THEN replied' = {}
     ELSE /\ replied \subseteq replied'
          /\ \A f \in replied' : f \in replied \/ f.to \in ids
          /\ \A i \in ids : \E f \in replied' : f.to = i

\* Each of them keeps the invariant.
LEMMA AnswersSame ==
  ASSUME NEW ids, Answers(ids), connection' = connection
  PROVE  /\ salt' = salt
         /\ \A i : Answered(i)' <=> Answered(i) \/ i \in ids
         /\ Waits => \A f \in replied' : f.to <= s.lastMsgId
<1>1. ASSUME NEW i PROVE Answered(i)' <=> Answered(i) \/ i \in ids
  BY DEF Answers, Answered
<1> QED BY <1>1 DEF Answers, Waits

LEMMA RestsWaits ==
  ASSUME Safe, Waits, NEW ids, Answers(ids), Rests(ids),
         s'.phase \in Waiting => \A i \in ids :
           Answered(i) \/ \A p \in s.pending : p.id = i => p.name # AwaitedRequest[s.phase]
  PROVE  Waits'
<1>1. /\ connection' = connection /\ sent' = sent /\ s'.lastMsgId = s.lastMsgId /\ salt' = salt
      /\ \A i : Answered(i)' <=> Answered(i) \/ i \in ids
      /\ \A p \in s.pending : p.id \notin ids => p \in s'.pending
      /\ \A f \in replied' : f.to <= s.lastMsgId
  BY AnswersSame DEF Rests, Others
<1>2. WaitsForPending'
  <2> SUFFICES ASSUME s'.phase \in Waiting
               PROVE  \E p \in s'.pending : p.name = AwaitedRequest[s'.phase] /\ ~Answered(p.id)'
    BY DEF WaitsForPending, AwaitedRequest, Answered
  <2>1. s'.phase = s.phase BY DEF Rests
  <2>2. PICK p \in s.pending : p.name = AwaitedRequest[s.phase] /\ ~Answered(p.id)
    BY <2>1 DEF Waits, WaitsForPending
  <2>3. p.id \notin ids BY <2>1, <2>2
  <2> QED BY <1>1, <2>1, <2>2, <2>3
<1>3. \A f \in replied' : f.to <= s'.lastMsgId BY <1>1 DEF Waits
<1>4. ASSUME NEW r \in sent', r.key # 0
      PROVE  r.salt = salt' /\ (Answered(r.id)' \/ Entry(r) \in s'.pending)
  <2>1. Entry(r).id = r.id BY DEF Entry
  <2> QED BY <1>1, <1>4, <2>1 DEF Waits
<1>5. s'.key # 0 => s'.salt = salt' BY <1>1 DEF Rests, SaltKept
<1> QED BY <1>2, <1>3, <1>4, <1>5 DEF Waits, Entry, Answered

LEMMA AsksWaits ==
  ASSUME Safe, Waits, TypeOK', NEW ids, Answers(ids), Asks(ids) PROVE Waits'
<1>1. /\ connection' = connection /\ s'.lastMsgId = s.lastMsgId + 1 /\ salt' = salt
      /\ s.lastMsgId \in Nat /\ \A i \in ids : i <= s.lastMsgId
      /\ \A i : Answered(i)' <=> Answered(i) \/ i \in ids
      /\ \A f \in replied : f.to <= s.lastMsgId
      /\ \A f \in replied' : f.to <= s.lastMsgId /\ f.to \in Nat
      /\ \A p \in s.pending : p.id \notin ids => p \in s'.pending
  <2>1. connection' = connection /\ s'.lastMsgId = s.lastMsgId + 1
        /\ \A p \in s.pending : p.id \notin ids => p \in s'.pending
    BY DEF Asks, Others
  <2>2. s.lastMsgId \in Nat /\ \A f \in replied' : f.to \in Nat
    BY DEF Safe, TypeOK, Session, Frame
  <2>3. (\A i \in ids : i <= s.lastMsgId) /\ \A f \in replied : f.to <= s.lastMsgId
    BY DEF Answers, Waits
  <2> QED BY <2>1, <2>2, <2>3, AnswersSame
<1>2. PICK r : /\ sent' = sent \cup {r} /\ r.id = s.lastMsgId + 1 /\ r.salt = salt
               /\ Entry(r) \in s'.pending
               /\ s'.phase \in Waiting => r.name = AwaitedRequest[s'.phase]
  BY DEF Asks
<1>3. Entry(r).id = r.id /\ Entry(r).name = r.name BY DEF Entry
<1>4. ~Answered(r.id)' BY <1>1, <1>2 DEF Answered
<1>5. WaitsForPending' BY <1>2, <1>3, <1>4 DEF WaitsForPending, AwaitedRequest, Answered
<1>6. ASSUME NEW q \in sent', q.key # 0
      PROVE  q.salt = salt' /\ (Answered(q.id)' \/ Entry(q) \in s'.pending)
  <2>1. Entry(q).id = q.id BY DEF Entry
  <2> QED BY <1>1, <1>2, <1>6, <2>1 DEF Waits
<1>7. s'.key # 0 => s'.salt = salt' BY <1>1 DEF Asks, SaltKept
<1>8. \A f \in replied' : f.to <= s'.lastMsgId BY <1>1
<1> QED BY <1>5, <1>6, <1>7, <1>8 DEF Waits, Entry, Answered

LEMMA ExchangesWaits ==
  ASSUME Safe, Waits, TypeOK', NEW ids, Answers(ids), Exchanges
  PROVE  Waits'
<1>1. /\ connection' = connection /\ s'.lastMsgId = s.lastMsgId + 1 /\ salt' = salt
      /\ s'.pending = s.pending
      /\ \A i : Answered(i)' <=> Answered(i) \/ i \in ids
  BY AnswersSame DEF Exchanges
<1>2. s.lastMsgId \in Nat /\ \A f \in replied' : f.to \in Nat
  BY DEF Safe, TypeOK, Session, Frame
<1>3. \A f \in replied' : f.to <= s'.lastMsgId BY <1>1, <1>2, AnswersSame
<1>4. ASSUME NEW r \in sent', r.key # 0
      PROVE  r.salt = salt' /\ (Answered(r.id)' \/ Entry(r) \in s'.pending)
  BY <1>1, <1>4 DEF Waits, Exchanges
<1>5. s'.phase \notin Waiting /\ (s'.key # 0 => s'.salt = salt')
  BY <1>1 DEF Exchanges, SaltKept
<1> QED BY <1>3, <1>4, <1>5 DEF Waits, WaitsForPending, Entry, Answered

LEMMA StartsWaits ==
  ASSUME NEW ids, Answers(ids), StartsOver PROVE Waits'
BY DEF Answers, StartsOver, Waits, WaitsForPending, Entry, Answered

\* A snapshot from which a handler goes on.
Like(st, ids) ==
  /\ st \in Session /\ st.key = s.key /\ st.salt = s.salt /\ st.lastMsgId = s.lastMsgId
  /\ Others(ids) \subseteq st.pending

\* The request each phase waits for.
LEMMA Awaited ==
  /\ AwaitedRequest["CODE_SENT"] = "auth.SendCode"
  /\ AwaitedRequest["SIGN_IN_SENT"] = "auth.SignIn"
  /\ AwaitedRequest["PASSWORD_INFO_SENT"] = "account.GetPassword"
  /\ AwaitedRequest["CHECK_PASSWORD_SENT"] = "auth.CheckPassword"
  /\ AwaitedRequest["QR_TOKEN_SENT"] = "auth.ExportLoginToken"
  /\ AwaitedRequest["QR_IMPORT_SENT"] = "auth.ImportLoginToken"
  /\ \A phase \in Waiting : AwaitedRequest[phase] # "method"
BY DEF AwaitedRequest, Waiting

LEMMA SnapshotsLike ==
  ASSUME TypeOK, NEW ids, NEW f
  PROVE  /\ Like(s, ids) /\ Like(Settled(f), {f.to})
         /\ Like([Settled(f) EXCEPT !.token = NoDC], {f.to})
         /\ Settled(f).phase = s.phase
<1>1. s \in Session /\ Settled(f) \in Session BY SettledType DEF TypeOK
<1> DEFINE pending == {p \in s.pending : p.id # f.to}
<1>2. Settled(f) = [s EXCEPT !.pending = pending] BY DEF Settled
<1>3. Others({f.to}) = pending /\ Others(ids) \subseteq s.pending BY DEF Others
<1> HIDE DEF pending
<1>4. /\ Settled(f).pending = pending /\ Settled(f).key = s.key /\ Settled(f).salt = s.salt
      /\ Settled(f).lastMsgId = s.lastMsgId /\ Settled(f).phase = s.phase
  BY <1>1, <1>2 DEF Session
<1>5. Like(s, ids) /\ Like(Settled(f), {f.to}) BY <1>1, <1>3, <1>4 DEF Like
<1> HIDE <1>2
<1>6. Like([Settled(f) EXCEPT !.token = NoDC], {f.to})
  BY <1>1, <1>5 DEF Like, Session
<1> QED BY <1>4, <1>5, <1>6

\* A handler that sends nothing.
LEMMA KeepRests ==
  ASSUME Waits, NEW ids, NEW st, Like(st, ids), NEW st2, Keep(st2),
         st2.key = st.key, st2.salt = st.salt, st2.lastMsgId = st.lastMsgId,
         st2.pending = st.pending, st2.phase = s.phase \/ st2.phase \notin Waiting
  PROVE  Rests(ids)
BY DEF Waits, Like, Keep, Rests, SaltKept

LEMMA FailRests ==
  ASSUME Waits, NEW ids, NEW st, Like(st, ids), Keep(Fail(st))
  PROVE  Rests(ids) /\ s'.phase \notin Waiting
<1>1. /\ Fail(st).phase = "ERROR" /\ Fail(st).key = st.key /\ Fail(st).salt = st.salt
      /\ Fail(st).lastMsgId = st.lastMsgId /\ Fail(st).pending = st.pending
  BY DEF Fail, Like, Session
<1>2. "ERROR" \notin Waiting BY DEF Waiting
<1> QED BY <1>1, <1>2, KeepRests DEF Keep

\* A handler that sends a request.
LEMMA CallWaits ==
  ASSUME TypeOK, Waits, NEW ids, NEW st, Like(st, ids), NEW name, NEW phase,
         Call(st, name, phase),
         phase \in Waiting => name = AwaitedRequest[phase]
  PROVE  Asks(ids) \/ (Rests(ids) /\ s'.phase \notin Waiting)
<1>1. CASE Hydratable(st)
  <2> DEFINE r == ApiRequest(st, name)
             p == [id |-> st.lastMsgId + 1, name |-> name]
  <2>1. /\ s' = Requested(st, name, phase) /\ sent' = sent \cup {r}
        /\ connection' = connection
    BY <1>1 DEF Call
  <2>2. st \in Session BY DEF Like
  <2>3. /\ s'.phase = phase /\ s'.key = st.key /\ s'.salt = st.salt
        /\ s'.lastMsgId = st.lastMsgId + 1 /\ s'.pending = st.pending \cup {p}
    BY <2>1, <2>2 DEF Requested, Session
  <2>4. r.id = s.lastMsgId + 1 /\ r.salt = s.salt /\ r.name = name /\ Entry(r) = p
    BY DEF ApiRequest, Like, Entry
  <2>5. s.salt = salt BY <1>1 DEF Hydratable, Like, Waits
  <2>6. Others(ids) \subseteq st.pending BY DEF Like
  <2> HIDE DEF r, p
  <2>7. Others(ids) \cup {Entry(r)} \subseteq s'.pending BY <2>3, <2>4, <2>6
  <2>8. s'.lastMsgId = s.lastMsgId + 1 /\ SaltKept BY <2>3, <2>5 DEF Like, SaltKept
  <2> QED BY <2>1, <2>3, <2>4, <2>5, <2>7, <2>8 DEF Asks
<1>2. CASE ~Hydratable(st)
  <2>1. Keep(Fail(s)) /\ Like(s, ids) BY <1>2, SnapshotsLike DEF Call
  <2> QED BY <2>1, FailRests
<1> QED BY <1>1, <1>2

\* A move to another data centre.
LEMMA ReconnectWaits ==
  ASSUME TypeOK, Waits, NEW ids, NEW dc, NEW token, Reconnect(dc, token)
  PROVE  StartsOver \/ (Rests(ids) /\ s'.phase \notin Waiting)
<1>1. CASE dc \in KnownDC
  <2>1. /\ s' = Fresh(dc, s.mode, s.phone, token) /\ sent' = {Plain(s', "ReqPqMulti")}
        /\ connection' = connection + 1 /\ connection \in Nat
    BY <1>1 DEF Reconnect, TypeOK
  <2>2. s'.key = 0 /\ s'.phase = "PQ_SENT" /\ "PQ_SENT" \notin Waiting
    BY <2>1 DEF Fresh, Waiting
  <2>3. \A r \in sent' : r.key = 0 BY <2>1 DEF Plain
  <2> QED BY <2>1, <2>2, <2>3 DEF StartsOver
<1>2. CASE dc \notin KnownDC
  <2>1. Keep(Fail(s)) /\ Like(s, ids) BY <1>2, SnapshotsLike DEF Reconnect
  <2> QED BY <2>1, FailRests
<1> QED BY <1>1, <1>2

\* The handlers.
LEMMA HandshakeWaits ==
  ASSUME TypeOK, Waits, NEW ids, NEW f,
         HandleResPq(f) \/ HandleServerDHParams(f) \/ HandleDhGenResult(f)
  PROVE  Exchanges \/ Asks(ids) \/ (Rests(ids) /\ s'.phase \notin Waiting)
<1>0. s \in Session /\ Like(s, ids) /\ {"DH_SENT", "DH_GEN_SENT"} \cap Waiting = {}
  BY SnapshotsLike DEF TypeOK, Waiting
<1>1. CASE HandleResPq(f) \/ HandleServerDHParams(f)
  <2>1. \/ Keep(Fail(s))
        \/ /\ s'.phase \in {"DH_SENT", "DH_GEN_SENT"} /\ s'.lastMsgId = s.lastMsgId + 1
           /\ s'.pending = s.pending /\ connection' = connection
           /\ s'.salt = salt \/ (s'.key = s.key /\ s'.salt = s.salt)
           /\ \E st, name : sent' = sent \cup {Plain(st, name)}
    BY <1>1, <1>0 DEF HandleResPq, HandleServerDHParams, Keep, Session
  <2>2. CASE Keep(Fail(s)) BY <2>2, <1>0, FailRests
  <2>3. CASE ~Keep(Fail(s))
    <3>1. \E r : sent' = sent \cup {r} /\ r.key = 0
      <4>1. PICK st, name : sent' = sent \cup {Plain(st, name)} BY <2>1, <2>3
      <4>2. Plain(st, name).key = 0 BY DEF Plain
      <4> QED BY <4>1, <4>2
    <3>2. SaltKept BY <2>1, <2>3 DEF SaltKept, Waits
    <3> QED BY <1>0, <2>1, <2>3, <3>1, <3>2 DEF Exchanges
  <2> QED BY <2>2, <2>3
<1>2. CASE HandleDhGenResult(f)
  <2> DEFINE st == [s EXCEPT !.sessionId = TRUE, !.dh = {}]
  <2>1. Like(st, ids) BY <1>0 DEF Like, Session
  <2>2. \/ Keep(Fail(s))
        \/ Call(st, "auth.ImportLoginToken", "QR_IMPORT_SENT")
        \/ Call(st, "auth.ExportLoginToken", "QR_TOKEN_SENT")
        \/ Call(st, "auth.SendCode", "CODE_SENT")
    BY <1>2 DEF HandleDhGenResult, ContinueAuth
  <2> HIDE DEF st
  <2> QED BY <1>0, <2>1, <2>2, Awaited, CallWaits, FailRests
<1> QED BY <1>1, <1>2

LEMMA ResultWaits ==
  ASSUME TypeOK, Waits, NEW f \in Frame, HandleResult(f)
  PROVE  \/ StartsOver
         \/ /\ Rests({f.to})
            /\ s'.phase \in Waiting =>
                 \/ f.kind = "other"
                 \/ f.kind = "account.Password" /\ "account.GetPassword" \notin RequestName(f)
<1> DEFINE st == Settled(f)
           code == [st EXCEPT !.phase = "AWAITING_CODE", !.codeHash = TRUE]
           password == [st EXCEPT !.phase = "AWAITING_PASSWORD", !.srp = TRUE]
           qr == [st EXCEPT !.phase = "AWAITING_QR_SCAN", !.token = f.dc]
<1>1. Like(st, {f.to}) /\ st.phase = s.phase /\ st \in Session
  BY SnapshotsLike DEF Like
<1>2. \/ \E u \in {code, password, qr, LoggedIn(st)} : Keep(u)
      \/ Keep(Fail(st)) \/ Reconnect(f.dc, f.dc)
      \/ /\ Keep(st)
         /\ \/ f.kind = "other"
            \/ f.kind = "account.Password" /\ "account.GetPassword" \notin RequestName(f)
  BY DEF HandleResult
<1> HIDE DEF st
<1>3. \A u \in {code, password, qr, LoggedIn(st)} :
        /\ u.phase \in Awaiting \cup {"READY"} /\ u.key = st.key /\ u.salt = st.salt
        /\ u.lastMsgId = st.lastMsgId /\ u.pending = st.pending
  BY <1>1 DEF Session, LoggedIn, Awaiting
<1>4. (Awaiting \cup {"READY"}) \cap Waiting = {} BY DEF Awaiting, Waiting
<1> HIDE DEF code, password, qr
<1>5. ASSUME NEW u \in {code, password, qr, LoggedIn(st)}, Keep(u)
      PROVE  Rests({f.to}) /\ s'.phase \notin Waiting
  <2>1. s' = u BY <1>5 DEF Keep
  <2> QED BY <1>1, <1>3, <1>4, <1>5, <2>1, KeepRests
<1>6. Keep(st) => Rests({f.to}) BY <1>1, KeepRests
<1> QED BY <1>1, <1>2, <1>5, <1>6, FailRests, ReconnectWaits

LEMMA RpcErrorWaits ==
  ASSUME TypeOK, Waits, NEW f \in Frame, HandleRpcError(f)
  PROVE  StartsOver \/ Asks({f.to}) \/ (Rests({f.to}) /\ s'.phase \notin Waiting)
<1> DEFINE st == Settled(f)
           fresh == [st EXCEPT !.token = NoDC]
<1>1. Like(st, {f.to}) /\ Like(fresh, {f.to}) BY SnapshotsLike
<1>2. \/ Reconnect(f.dc, s.token) \/ Reconnect(s.dc, NoDC) \/ Keep(Fail(st))
      \/ Call(fresh, "auth.ExportLoginToken", "QR_TOKEN_SENT")
      \/ Call(st, "account.GetPassword", "PASSWORD_INFO_SENT")
  BY DEF HandleRpcError
<1> HIDE DEF st, fresh
<1> QED BY <1>1, <1>2, Awaited, CallWaits, FailRests, ReconnectWaits

WaitInv == Safe /\ (Lossless => Waits)

\* Every step keeps it.
LEMMA NextWaits == WaitInv /\ [Next]_vars => WaitInv'
<1> SUFFICES ASSUME Safe, Lossless, Waits, [Next]_vars PROVE Waits'
  BY NextSafe DEF WaitInv, Lossless
<1>0. /\ TypeOK /\ TypeOK' /\ "ignored" \notin Faults /\ "boxed" \notin Faults
      /\ "salt" \notin Faults
  BY NextType DEF Safe, Lossless
<1>1. ASSUME NEW f, ServerAfter(f), f.to <= s.lastMsgId PROVE Answers({f.to})
  BY <1>1 DEF ServerAfter, Answers
<1>2. ASSUME NEW r \in sent, NEW f \in Replies(r)
      PROVE  /\ f \in Frame /\ f.to = r.id /\ f.to <= s.lastMsgId
             /\ f.kind = "other" => r.name = "method"
             /\ f.kind = "account.Password" => r.name = "account.GetPassword"
  <2>1. f \in Frame /\ f.to = r.id BY <1>0, RepliesType
  <2>2. f.kind \in Kinds(r.name) BY <1>0 DEF Replies
  <2>3. r.name \in PlainName \cup ApiName BY <1>0 DEF TypeOK, Request
  <2>4. f.kind = "other" => r.name = "method"
    BY <2>2, <2>3 DEF Kinds, PlainName, ApiName
  <2>5. f.kind = "account.Password" => r.name = "account.GetPassword"
    BY <2>2, <2>3 DEF Kinds, PlainName, ApiName
  <2>6. r.id <= s.lastMsgId BY DEF Safe, Bookkeeping
  <2> QED BY <2>1, <2>4, <2>5, <2>6
<1>3. ASSUME NEW ids, Answers(ids),
             StartsOver \/ Exchanges \/ Asks(ids) \/ (Rests(ids) /\ s'.phase \notin Waiting)
      PROVE  Waits'
  BY <1>0, <1>3, StartsWaits, ExchangesWaits, AsksWaits, RestsWaits
<1>4. ASSUME NEW r \in sent, DeliverPlain(r) PROVE Waits'
  <2>1. PICK f \in Replies(r) :
          /\ HandleResPq(f) \/ HandleServerDHParams(f) \/ HandleDhGenResult(f)
          /\ ServerAfter(f)
    BY <1>4 DEF DeliverPlain
  <2>2. Answers({f.to}) BY <1>1, <1>2, <2>1
  <2> QED BY <1>0, <1>3, <2>1, <2>2, HandshakeWaits
<1>5. ASSUME NEW r \in sent, DeliverResult(r) PROVE Waits'
  <2>1. PICK f \in Replies(r) : HandleResult(f) /\ ServerAfter(f)
    BY <1>5 DEF DeliverResult
  <2>2. Answers({f.to}) /\ f \in Frame /\ f.to = r.id BY <1>1, <1>2, <2>1
  <2>3. CASE StartsOver BY <1>3, <2>2, <2>3
  <2>4. CASE ~StartsOver
    <3>1. /\ Rests({f.to})
          /\ s'.phase \in Waiting =>
               \/ f.kind = "other"
               \/ f.kind = "account.Password" /\ "account.GetPassword" \notin RequestName(f)
      BY <1>0, <2>1, <2>2, <2>4, ResultWaits
    <3>2. ~Answered(r.id) /\ r.key # 0 BY <1>5 DEF DeliverResult, Accepts, Due
    <3>3. Entry(r) \in s.pending BY <3>2 DEF Waits
    <3>4. r.name \in RequestName(f)
      BY <2>2, <3>3 DEF Entry, RequestName
    <3>5. s'.phase \in Waiting => r.name = "method"
      BY <1>2, <3>1, <3>4
    <3>6. \A p \in s.pending : p.id = f.to => p.name = r.name
      BY <2>2 DEF Safe, PendingIsOurs
    <3>7. s'.phase \in Waiting =>
            \A p \in s.pending : p.id = f.to => p.name # AwaitedRequest[s.phase]
      BY <3>1, <3>5, <3>6, Awaited DEF Rests
    <3> QED BY <2>2, <3>1, <3>7, RestsWaits
  <2> QED BY <2>3, <2>4
<1>6. ASSUME NEW r \in sent, DeliverRpcError(r) PROVE Waits'
  <2>1. PICK f \in Replies(r) : HandleRpcError(f) /\ ServerAfter(f)
    BY <1>6 DEF DeliverRpcError
  <2>2. Answers({f.to}) /\ f \in Frame BY <1>1, <1>2, <2>1
  <2> QED BY <1>0, <1>3, <2>1, <2>2, RpcErrorWaits
<1>7. ASSUME NEW f \in replied, DeliverAgain(f) PROVE Waits'
  <2>1. (HandleResult(f) \/ HandleRpcError(f)) /\ ServerAfter(f) BY <1>7 DEF DeliverAgain
  <2>2. f \in Frame /\ f.to <= s.lastMsgId /\ Answered(f.to)
    BY <1>0 DEF TypeOK, Waits, Answered
  <2>3. Answers({f.to}) BY <1>1, <2>1, <2>2
  <2>4. StartsOver \/ Asks({f.to}) \/ Rests({f.to})
    BY <1>0, <2>1, <2>2, ResultWaits, RpcErrorWaits
  <2> QED BY <1>3, <2>2, <2>3, <2>4, RestsWaits
<1>8. ~DeliverContainer /\ \A r \in sent : ~DeliverBadServerSalt(r)
  BY <1>0 DEF DeliverContainer, DeliverBadServerSalt, Waits
<1>9. CASE DeliverNewSessionCreated
  <2>1. /\ s' = [s EXCEPT !.salt = salt] /\ s \in Session
        /\ UNCHANGED <<connection, sent, replied, salt>>
    BY <1>0, <1>9 DEF DeliverNewSessionCreated, TypeOK
  <2>2. /\ s'.phase = s.phase /\ s'.pending = s.pending /\ s'.salt = salt
        /\ s'.lastMsgId = s.lastMsgId
    BY <2>1 DEF Session
  <2>3. Answers({}) BY <2>1 DEF Answers
  <2>4. Rests({}) BY <2>1, <2>2 DEF Rests, Others, SaltKept
  <2> QED BY <2>3, <2>4, RestsWaits
<1>10. CASE DeliverLoginTokenUpdate
  <2>1. /\ HandleLoginTokenUpdate /\ salt' = salt
        /\ \E f \in replied : replied' = replied \cup {[f EXCEPT !.kind = "UpdateLoginToken"]}
    BY <1>10 DEF DeliverLoginTokenUpdate, Scans
  <2>2. PICK f \in replied : replied' = replied \cup {[f EXCEPT !.kind = "UpdateLoginToken"]}
    BY <2>1
  <2>3. f \in Frame /\ f.to <= s.lastMsgId BY <1>0 DEF TypeOK, Waits
  <2>4. [f EXCEPT !.kind = "UpdateLoginToken"].to = f.to BY <2>3 DEF Frame
  <2>5. \/ Call(s, "auth.ImportLoginToken", "QR_IMPORT_SENT") \/ Keep(Fail(s))
    BY <2>1 DEF HandleLoginTokenUpdate
  <2>6. connection' = connection BY <2>5 DEF Call, Keep
  <2>7. Answers({f.to}) BY <2>1, <2>2, <2>3, <2>4, <2>6 DEF Answers
  <2>8. Asks({f.to}) \/ (Rests({f.to}) /\ s'.phase \notin Waiting)
    BY <1>0, <2>5, SnapshotsLike, Awaited, CallWaits, FailRests
  <2> QED BY <1>3, <2>7, <2>8
<1>11. CASE DeliverTransportError
  <2>1. Keep(Fail(s)) /\ UNCHANGED <<replied, salt>> BY <1>11 DEF DeliverTransportError
  <2>2. Answers({}) BY <2>1 DEF Keep, Answers
  <2>3. Rests({}) /\ s'.phase \notin Waiting BY <1>0, <2>1, SnapshotsLike, FailRests
  <2> QED BY <1>3, <2>2, <2>3
<1>12. CASE SubmitCode \/ SubmitPassword \/ RefreshQr \/ InvokeMethod
  <2>1. /\ \/ Call(s, "auth.SignIn", "SIGN_IN_SENT")
           \/ Call(s, "auth.CheckPassword", "CHECK_PASSWORD_SENT")
           \/ Call(s, "auth.ExportLoginToken", "QR_TOKEN_SENT")
           \/ Call(s, "method", "READY")
        /\ UNCHANGED <<replied, salt>>
    BY <1>12 DEF SubmitCode, SubmitPassword, RefreshQr, InvokeMethod
  <2>2. connection' = connection BY <2>1 DEF Call, Keep
  <2>3. Answers({}) BY <2>1, <2>2 DEF Answers
  <2>4. "READY" \notin Waiting BY DEF Waiting
  <2>5. Asks({}) \/ (Rests({}) /\ s'.phase \notin Waiting)
    BY <1>0, <2>1, <2>4, SnapshotsLike, Awaited, CallWaits
  <2> QED BY <1>3, <2>3, <2>5
<1>13. ~RotateSalt BY <1>0 DEF RotateSalt
<1>14. CASE Revoke \/ UNCHANGED vars
  <2>1. UNCHANGED <<s, connection, sent, replied, salt>> BY <1>14 DEF Revoke, vars
  <2> QED BY <2>1 DEF Waits, WaitsForPending, AwaitedRequest, Answered, Entry
<1> QED BY <1>4, <1>5, <1>6, <1>7, <1>8, <1>9, <1>10, <1>11, <1>12, <1>13, <1>14
        DEF Next, Reply

\* If no result is lost to a container or to a class without a rule and no salt changes,
\* a waiting session has its request pending and unanswered, however late answers are.
THEOREM WaitsForPendingCorrect == Spec => [](Lossless => WaitsForPending)
<1>1. Init => WaitInv
  <2> SUFFICES ASSUME Init PROVE Safe /\ Waits BY DEF WaitInv
  <2>1. s.phase = "PQ_SENT" /\ s.key = 0 BY DEF Init, Fresh
  <2>2. "PQ_SENT" \notin Waiting BY DEF Waiting
  <2>3. replied = {} /\ \A r \in sent : r.key = 0 BY DEF Init, Plain
  <2>4. Safe BY InitType, InitSafe DEF Safe
  <2> QED BY <2>1, <2>2, <2>3, <2>4 DEF Waits, WaitsForPending
<1>2. WaitInv => (Lossless => WaitsForPending) BY DEF WaitInv, Waits
<1> QED BY <1>1, <1>2, NextWaits, PTL DEF Spec
-----------------------------------------------------------------------------
(* The machine that the agent sees *)

Prompts == {"awaiting_code", "awaiting_password", "awaiting_qr_scan"}

\* The value of every phase.
LEMMA Values ==
  /\ \A p \in Handshake : StateValue(p) = "handshake"
  /\ \A p \in Waiting : StateValue(p) = "authorizing"
  /\ \A p \in Awaiting : StateValue(p) \in Prompts
  /\ StateValue("READY") = "ready" /\ StateValue("ERROR") = "error"
BY DEF StateValue, Handshake, Waiting, Awaiting, Prompts

\* A session that is logged in holds no token, so that no update makes it import one.
Spent(st) == st.phase = "READY" => st.token = NoDC

\* A snapshot that a handler may leave without sending.
Still(st) ==
  /\ st.lastMsgId = s.lastMsgId
  /\ \/ st.phase = s.phase /\ st.token = s.token
     \/ st.phase = "ERROR"
     \/ s.phase \in Encrypted /\ st.phase \in Awaiting
     \/ s.phase \in Encrypted /\ st.phase = "READY" /\ st.token = NoDC

\* What a step does to the machine, in terms of phases.
Stills == Still(s') /\ connection' = connection
Speaks ==
  /\ s'.lastMsgId = s.lastMsgId + 1 /\ connection' = connection
  /\ \/ s.phase \in Handshake /\ s'.phase \in Handshake \cup Waiting
     \/ s.phase \in Waiting \cup Awaiting /\ s'.phase \in Waiting
     \/ s.phase = "READY" /\ s'.phase = "READY" /\ s'.token = s.token
Pours ==
  /\ s'.lastMsgId \in Nat /\ s'.lastMsgId > s.lastMsgId /\ connection' = connection
  /\ s.phase \in Waiting \cup Awaiting /\ s'.phase \in Waiting \cup {"ERROR"}
Begins ==
  /\ s.phase \in Encrypted /\ connection' = connection + 1
  /\ s'.phase = "PQ_SENT" /\ s'.lastMsgId = 1
Shaped == Stills \/ Speaks \/ Pours \/ Begins

\* Each of the four is a step of the machine, and leaves no token in READY.
LEMMA ShapedSteps ==
  ASSUME TypeOK, Spent(s), Shaped
  PROVE  [Machine!Next]_(Machine!machine) /\ Spent(s')
<1>0. /\ s.phase \in Handshake \cup Waiting \cup Awaiting \cup {"READY", "ERROR"}
      /\ {"READY", "ERROR", "PQ_SENT"} \cap (Waiting \cup Awaiting) = {}
      /\ "PQ_SENT" \in Handshake /\ "READY" \notin Handshake
      /\ Encrypted = Waiting \cup Awaiting \cup {"READY"}
  BY DEF TypeOK, Session, Phase, Encrypted, Handshake, Waiting, Awaiting
<1>1. Spent(s') BY <1>0 DEF Spent, Shaped, Stills, Still, Speaks, Pours, Begins
<1>2. CASE Stills
  <2>1. /\ connection' = connection /\ s'.lastMsgId = s.lastMsgId
        /\ \/ s'.phase = s.phase \/ s'.phase = "ERROR"
           \/ s.phase \in Encrypted /\ s'.phase \in Awaiting \cup {"READY"}
    BY <1>2 DEF Stills, Still
  <2>2. StateValue(s'.phase) \in Machine!Stays \cup {"error"}
    BY <1>0, <2>1, Values DEF Machine!Stays, Machine!Past, Prompts
  <2> QED BY <1>1, <2>1, <2>2 DEF Machine!Next, Machine!Step
<1>3. CASE Speaks
  <2>1. connection' = connection /\ s'.lastMsgId = s.lastMsgId + 1 BY <1>3 DEF Speaks
  <2>2. CASE s.phase = "READY" /\ s'.phase = "READY"
    BY <1>1, <2>1, <2>2, Values DEF Machine!Next, Machine!Call
  <2>3. CASE \/ s.phase \in Handshake /\ s'.phase \in Handshake \cup Waiting
             \/ s.phase \in Waiting \cup Awaiting /\ s'.phase \in Waiting
    <3>1. StateValue(s'.phase) \in Machine!Answers
      BY <2>3, Values DEF Machine!Answers, Machine!Past, Prompts
    <3> QED BY <1>1, <2>1, <3>1 DEF Machine!Next, Machine!Step
  <2> QED BY <1>3, <2>2, <2>3 DEF Speaks
<1>4. CASE Pours
  <2>1. StateValue(s'.phase) \in Machine!Bursts
    BY <1>0, <1>4, Values DEF Pours, Machine!Bursts, Machine!Past, Prompts
  <2>2. s'.lastMsgId \in Nat /\ s'.lastMsgId > s.lastMsgId /\ connection' = connection
    BY <1>4 DEF Pours
  <2> QED BY <1>1, <2>1, <2>2 DEF Machine!Next, Machine!Step
<1>5. CASE Begins
  <2>1. Machine!Migrates
    BY <1>0, <1>5, Values DEF Begins, Machine!Migrates, Machine!Past, Prompts
  <2> QED BY <1>0, <1>1, <1>5, <2>1, Values DEF Begins, Machine!Next, Machine!Migrate
<1> QED BY <1>1, <1>2, <1>3, <1>4, <1>5 DEF Shaped

\* A handler that only replaces the snapshot, or fails.
LEMMA KeepStills ==
  ASSUME NEW st, Keep(st), Still(st)
  PROVE  Stills
BY DEF Keep, Stills

LEMMA FailStills ==
  ASSUME NEW st \in Session, st.lastMsgId = s.lastMsgId, Keep(Fail(st))
  PROVE  Stills
BY DEF Keep, Fail, Session, Stills, Still

\* A call that sends moves the session as it is meant to.
LEMMA CallShaped ==
  ASSUME TypeOK, NEW st \in Session, st.lastMsgId = s.lastMsgId,
         NEW name \in ApiName, NEW phase, Call(st, name, phase),
         \/ phase \in Waiting /\ s.phase \in Handshake \cup Waiting \cup Awaiting
         \/ phase = "READY" /\ s.phase = "READY" /\ st.token = s.token
  PROVE  Stills \/ Speaks
<1>1. CASE Hydratable(st)
  <2>1. s' = Requested(st, name, phase) /\ connection' = connection BY <1>1 DEF Call
  <2>2. s'.lastMsgId = s.lastMsgId + 1 /\ s'.phase = phase /\ s'.token = st.token
    BY <2>1 DEF Requested, Session
  <2> QED BY <2>1, <2>2 DEF Speaks
<1>2. CASE ~Hydratable(st)
  BY <1>2, FailStills DEF Call, TypeOK
<1> QED BY <1>1, <1>2

\* A move to another data centre starts over, or fails.
LEMMA ReconnectShaped ==
  ASSUME TypeOK, s.phase \in Encrypted, NEW dc, NEW token, Reconnect(dc, token)
  PROVE  Shaped
<1>1. CASE dc \in KnownDC BY <1>1 DEF Reconnect, Fresh, Begins, Shaped
<1>2. CASE dc \notin KnownDC
  BY <1>2, FailStills DEF Reconnect, TypeOK, Shaped
<1> QED BY <1>1, <1>2

\* Every handler of a frame has one of the shapes.
LEMMA HandshakeShaped ==
  ASSUME TypeOK, NEW f,
         HandleResPq(f) \/ HandleServerDHParams(f) \/ HandleDhGenResult(f)
  PROVE  Shaped
<1>0. s \in Session /\ connection \in Nat BY DEF TypeOK
<1>1. s.phase \in Handshake /\ {"DH_SENT", "DH_GEN_SENT"} \subseteq Handshake
  BY DEF HandleResPq, HandleServerDHParams, HandleDhGenResult, Handshake
<1>2. CASE HandleResPq(f)
  <2>1. CASE f.kind = "ResPQ"
    <3>1. s'.phase = "DH_SENT" /\ s'.lastMsgId = s.lastMsgId + 1 /\ connection' = connection
      BY <1>0, <1>2, <2>1 DEF HandleResPq, Session
    <3> QED BY <1>1, <3>1 DEF Shaped, Speaks
  <2>2. CASE f.kind # "ResPQ"
    <3>1. Keep(Fail(s)) BY <1>2, <2>2 DEF HandleResPq, Keep
    <3> QED BY <1>0, <3>1, FailStills DEF Shaped
  <2> QED BY <2>1, <2>2
<1>3. CASE HandleServerDHParams(f)
  <2>1. CASE f.kind = "ServerDHParamsOk"
    <3>1. /\ s'.phase = "DH_GEN_SENT" /\ s'.lastMsgId = s.lastMsgId + 1
          /\ connection' = connection
      BY <1>0, <1>3, <2>1 DEF HandleServerDHParams, Session
    <3> QED BY <1>1, <3>1 DEF Shaped, Speaks
  <2>2. CASE f.kind # "ServerDHParamsOk"
    <3>1. Keep(Fail(s)) BY <1>3, <2>2 DEF HandleServerDHParams, Keep
    <3> QED BY <1>0, <3>1, FailStills DEF Shaped
  <2> QED BY <2>1, <2>2
<1>4. CASE HandleDhGenResult(f)
  <2> DEFINE st == [s EXCEPT !.sessionId = TRUE, !.dh = {}]
  <2>1. st \in Session /\ st.lastMsgId = s.lastMsgId BY <1>0 DEF Session
  <2>2. \/ Keep(Fail(s))
        \/ Call(st, "auth.ImportLoginToken", "QR_IMPORT_SENT")
        \/ Call(st, "auth.ExportLoginToken", "QR_TOKEN_SENT")
        \/ Call(st, "auth.SendCode", "CODE_SENT")
    BY <1>4 DEF HandleDhGenResult, ContinueAuth
  <2> HIDE DEF st
  <2>3. /\ {"QR_IMPORT_SENT", "QR_TOKEN_SENT", "CODE_SENT"} \subseteq Waiting
        /\ {"auth.ImportLoginToken", "auth.ExportLoginToken", "auth.SendCode"} \subseteq ApiName
    BY DEF Waiting, ApiName
  <2> QED BY <1>0, <1>1, <2>1, <2>2, <2>3, CallShaped, FailStills DEF Shaped
<1> QED BY <1>2, <1>3, <1>4

\* A snapshot without an answered request differs in nothing else.
LEMMA SettledStill ==
  ASSUME TypeOK, NEW f
  PROVE  /\ Settled(f) \in Session /\ Settled(f).lastMsgId = s.lastMsgId
         /\ Settled(f).phase = s.phase /\ Settled(f).token = s.token
BY SettledType DEF Settled, TypeOK, Session

LEMMA ResultShaped ==
  ASSUME TypeOK, s.phase \in Encrypted, NEW f, HandleResult(f)
  PROVE  Shaped
<1> DEFINE st == Settled(f)
           code == [st EXCEPT !.phase = "AWAITING_CODE", !.codeHash = TRUE]
           password == [st EXCEPT !.phase = "AWAITING_PASSWORD", !.srp = TRUE]
           qr == [st EXCEPT !.phase = "AWAITING_QR_SCAN", !.token = f.dc]
<1>1. /\ st \in Session /\ st.lastMsgId = s.lastMsgId
      /\ st.phase = s.phase /\ st.token = s.token
  BY SettledStill
<1>2. \/ \E u \in {code, password, qr, LoggedIn(st), st} : Keep(u)
      \/ Keep(Fail(st)) \/ Reconnect(f.dc, f.dc)
  BY DEF HandleResult
<1> HIDE DEF st
<1>3. Still(code) /\ Still(password) /\ Still(qr)
  BY <1>1 DEF Still, Session, Awaiting
<1>4. Still(LoggedIn(st)) /\ Still(st) BY <1>1 DEF Still, Session, LoggedIn
<1> HIDE DEF code, password, qr
<1> QED BY <1>1, <1>2, <1>3, <1>4, KeepStills, FailStills, ReconnectShaped DEF Shaped

LEMMA RpcErrorShaped ==
  ASSUME TypeOK, s.phase \in Encrypted, NEW f, HandleRpcError(f)
  PROVE  Shaped
<1> DEFINE st == Settled(f)
           fresh == [st EXCEPT !.token = NoDC]
<1>1. st \in Session /\ st.lastMsgId = s.lastMsgId BY SettledStill
<1>2. \/ Reconnect(f.dc, s.token) \/ Reconnect(s.dc, NoDC) \/ Keep(Fail(st))
      \/ /\ s.phase \in Waiting
         /\ \/ Call(fresh, "auth.ExportLoginToken", "QR_TOKEN_SENT")
            \/ Call(st, "account.GetPassword", "PASSWORD_INFO_SENT")
  BY DEF HandleRpcError, Waiting
<1> HIDE DEF st
<1>3. fresh \in Session /\ fresh.lastMsgId = s.lastMsgId BY <1>1 DEF Session
<1> HIDE DEF fresh
<1>4. /\ {"QR_TOKEN_SENT", "PASSWORD_INFO_SENT"} \subseteq Waiting
      /\ {"auth.ExportLoginToken", "account.GetPassword"} \subseteq ApiName
  BY DEF Waiting, ApiName
<1> QED BY <1>1, <1>2, <1>3, <1>4, CallShaped, FailStills, ReconnectShaped DEF Shaped

\* The handlers of a refused salt and a scanned QR code do, too.  It is here that a
\* token held in READY would take the session out of it.
LEMMA ServiceShaped ==
  ASSUME TypeOK, Spent(s), s.phase \in Encrypted,
         HandleBadServerSalt \/ HandleLoginTokenUpdate
  PROVE  Shaped
<1> DEFINE st == [s EXCEPT !.salt = salt]
<1>0. s \in Session BY DEF TypeOK
<1>1. /\ st \in Session /\ st.lastMsgId = s.lastMsgId
      /\ st.phase = s.phase /\ st.token = s.token
  BY DEF TypeOK, Session
<1>2. Still(st) BY <1>1 DEF Still
<1>3. s.phase = "READY" \/ s.phase \in Waiting \cup Awaiting BY DEF Encrypted
<1>4. \/ Keep(st) \/ Keep(Fail(st)) \/ Keep(Fail(s))
      \/ /\ s.phase \in Waiting \cup Awaiting
         /\ \/ Call(st, "auth.ExportLoginToken", "QR_TOKEN_SENT")
            \/ Call(st, "auth.ImportLoginToken", "QR_IMPORT_SENT")
            \/ Call(s, "auth.ImportLoginToken", "QR_IMPORT_SENT")
  BY <1>3 DEF HandleBadServerSalt, HandleLoginTokenUpdate, Waiting, Awaiting, Spent
<1> HIDE DEF st
<1>5. /\ {"QR_TOKEN_SENT", "QR_IMPORT_SENT"} \subseteq Waiting
      /\ {"auth.ExportLoginToken", "auth.ImportLoginToken"} \subseteq ApiName
  BY DEF Waiting, ApiName
<1> QED BY <1>0, <1>1, <1>2, <1>4, <1>5, CallShaped, KeepStills, FailStills DEF Shaped

\* And a container, which may pour out several requests.
LEMMA ContainerShaped ==
  ASSUME TypeOK, Spent(s), s.phase \in Encrypted, Handled
  PROVE  Shaped
<1>1. CASE \E st : Trimmed(st) /\ (Keep(st) \/ Keep(Fail(st)))
  <2>1. PICK st : Trimmed(st) /\ (Keep(st) \/ Keep(Fail(st))) BY <1>1
  <2>2. Still(st) /\ st \in Session /\ st.lastMsgId = s.lastMsgId
    BY <2>1 DEF Trimmed, Still
  <2> QED BY <2>1, <2>2, KeepStills, FailStills DEF Shaped
<1>2. CASE Posted
  <2>1. s.phase \in Waiting \cup Awaiting
    BY <1>2 DEF Posted, Spent, Exporting, Encrypted, Waiting, Awaiting
  <2>2. s'.phase \in Waiting \cup {"ERROR"} BY <1>2 DEF Posted, Waiting
  <2>3. s'.lastMsgId \in Nat /\ s'.lastMsgId > s.lastMsgId /\ connection' = connection
    BY <1>2 DEF Posted, Session
  <2> QED BY <2>1, <2>2, <2>3 DEF Pours, Shaped
<1> QED BY <1>1, <1>2 DEF Handled

\* So has every step, or it leaves the session alone.
LEMMA StepShaped ==
  ASSUME TypeOK, Spent(s), [Next]_vars
  PROVE  Shaped
<1>0. s \in Session BY DEF TypeOK
<1>1. ASSUME NEW r \in sent, DeliverPlain(r) PROVE Shaped
  BY <1>1, HandshakeShaped DEF DeliverPlain
<1>2. ASSUME NEW r \in sent, DeliverResult(r) PROVE Shaped
  BY <1>2, ResultShaped DEF DeliverResult, Accepts
<1>3. ASSUME NEW r \in sent, DeliverRpcError(r) PROVE Shaped
  BY <1>3, RpcErrorShaped DEF DeliverRpcError, Accepts
<1>4. CASE DeliverContainer BY <1>4, ContainerStep, ContainerShaped
<1>5. ASSUME NEW f \in replied, DeliverAgain(f) PROVE Shaped
  BY <1>5, ResultShaped, RpcErrorShaped DEF DeliverAgain
<1>6. ASSUME NEW r \in sent, DeliverBadServerSalt(r) PROVE Shaped
  BY <1>6, ServiceShaped DEF DeliverBadServerSalt
<1>7. CASE DeliverNewSessionCreated
  <2>1. /\ s'.phase = s.phase /\ s'.token = s.token /\ s'.lastMsgId = s.lastMsgId
        /\ connection' = connection
    BY <1>0, <1>7 DEF DeliverNewSessionCreated, Session
  <2> QED BY <2>1 DEF Shaped, Stills, Still
<1>8. CASE DeliverLoginTokenUpdate
  BY <1>8, ServiceShaped DEF DeliverLoginTokenUpdate
<1>9. CASE DeliverTransportError
  BY <1>0, <1>9, FailStills DEF DeliverTransportError, Shaped
<1>10. CASE SubmitCode \/ SubmitPassword \/ RefreshQr \/ InvokeMethod
  <2>1. \/ /\ s.phase \in Awaiting
           /\ \/ Call(s, "auth.SignIn", "SIGN_IN_SENT")
              \/ Call(s, "auth.CheckPassword", "CHECK_PASSWORD_SENT")
              \/ Call(s, "auth.ExportLoginToken", "QR_TOKEN_SENT")
        \/ s.phase = "READY" /\ Call(s, "method", "READY")
    BY <1>10 DEF SubmitCode, SubmitPassword, RefreshQr, InvokeMethod, Awaiting
  <2>2. /\ {"SIGN_IN_SENT", "CHECK_PASSWORD_SENT", "QR_TOKEN_SENT"} \subseteq Waiting
        /\ {"auth.SignIn", "auth.CheckPassword", "auth.ExportLoginToken", "method"}
             \subseteq ApiName
    BY DEF Waiting, ApiName
  <2> QED BY <1>0, <2>1, <2>2, CallShaped DEF Shaped
<1>11. CASE RotateSalt \/ Revoke \/ UNCHANGED vars
  BY <1>11 DEF RotateSalt, Revoke, vars, Shaped, Stills, Still
<1> QED BY <1>1, <1>2, <1>3, <1>4, <1>5, <1>6, <1>7, <1>8, <1>9, <1>10, <1>11
        DEF Next, Reply

\* Whatever the server answers, in whatever order and however often, the reducer
\* makes only the moves that TelegramAgent's model of it has.
THEOREM ImplementsMachineCorrect == Spec => ImplementsMachine
<1>1. Init => TypeOK /\ Spent(s) /\ Machine!Init
  <2> SUFFICES ASSUME Init PROVE Spent(s) /\ Machine!Init BY InitType
  <2>1. s.phase = "PQ_SENT" /\ s.lastMsgId = 1 /\ connection = 1 BY DEF Init, Fresh
  <2>2. "PQ_SENT" \in Handshake BY DEF Handshake
  <2> QED BY <2>1, <2>2, Values DEF Spent, Machine!Init
<1>2. TypeOK /\ Spent(s) /\ [Next]_vars =>
        (TypeOK /\ Spent(s))' /\ [Machine!Next]_(Machine!machine)
  BY NextType, StepShaped, ShapedSteps DEF Spent
<1> QED BY <1>1, <1>2, PTL DEF Spec, ImplementsMachine, Machine!Spec
=============================================================================
