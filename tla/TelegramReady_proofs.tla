------------------------ MODULE TelegramReady_proofs ------------------------
(***************************************************************************)
(* A Telegram session that is logged in stays out of the login.            *)
(*                                                                         *)
(* What could take READY back is a late account.Password: a session asks   *)
(* for the password while a check of it is under way, when the answer to   *)
(* a scanned QR code says that the account has one.  Answers come in the   *)
(* order of the requests, so the one to the QR request comes first, and in *)
(* READY any answer to it ends the session.  That needs every answer to be *)
(* in its place and read by the reducer (Punctual); TLC finds the session  *)
(* taken back to the password form when one is reordered, sent again,      *)
(* lost in a container or of a class without a rule.                       *)
(***************************************************************************)
EXTENDS TelegramSession_proofs

\* The salt may change and the transport fail, but every answer arrives in the order
\* of the requests, once, and the reducer has a rule for it.
Punctual == Faults \subseteq {"salt", "transport"}

\* The requests of this name without an answer.
Open(name) == {r \in sent : r.name = name /\ ~Answered(r.id)}

\* What was sent and answered: in order, under salts that only grow, the code first,
\* and the password asked for only if the account has one and, behind a check of the
\* password, only for a QR request in between.
Ordered ==
  /\ \A f \in replied : f.to <= s.lastMsgId
  /\ \A r, q \in sent : Answered(r.id) /\ q.id < r.id => Answered(q.id)
  /\ \A r, q \in sent : q.id < r.id => q.salt <= r.salt
  /\ \A r \in sent : r.salt <= s.salt
  /\ s.salt <= salt
  /\ \A r, q \in sent : r.name = "auth.SendCode" /\ q.key # 0 => r.id <= q.id
  /\ \A r \in sent : r.name = "account.GetPassword" => PasswordAsked
  /\ \A c \in Open("auth.CheckPassword"), g \in Open("account.GetPassword") :
       c.id < g.id => \E x \in sent : x.name \in QrName /\ c.id < x.id /\ x.id < g.id

\* Every open question for the password is refused for its salt, or behind a QR
\* request that is open too and was sent under the same salt.
Fenced ==
  \A g \in Open("account.GetPassword") :
    \/ g.salt < salt
    \/ \E x \in sent : /\ x.name \in QrName /\ ~Answered(x.id)
                       /\ x.id < g.id /\ x.salt = g.salt

NoCheck == \A r \in sent : r.name # "auth.CheckPassword"

\* What a phase says of the requests sent.
Staged ==
  /\ s.phase \in Handshake =>
       \A r \in sent : r.key = 0 /\ r.salt = 0 /\ r.name \in PlainName
  /\ Open("auth.SendCode") # {} => s.phase \in {"CODE_SENT", "ERROR"} /\ NoCheck
  /\ s.phase = "CODE_SENT" => s.token = NoDC
  /\ s.phase = "QR_IMPORT_SENT" =>
       \A c \in Open("auth.CheckPassword") :
         \E x \in sent : x.name \in QrName /\ c.id < x.id
  /\ s.phase \in {"AWAITING_CODE", "SIGN_IN_SENT"} => NoCheck
  /\ s.phase = "READY" => Fenced
-----------------------------------------------------------------------------
(* How a step changes what was sent and answered *)

\* The requests with these ids have an answer now, and had none in front of them.
Heard(ids) ==
  /\ connection' = connection /\ salt <= salt'
  /\ PasswordAsked => PasswordAsked'
  /\ \A f \in replied' : f.to <= s.lastMsgId
  /\ \A i : Answered(i)' <=> Answered(i) \/ i \in ids
  /\ \A i \in ids, q \in sent : q.id < i => Answered(q.id)

\* The session sends nothing.
Quiet ==
  /\ sent' = sent /\ s'.lastMsgId = s.lastMsgId
  /\ s.salt <= s'.salt /\ s'.salt <= salt'

\* It sends r.
Sends(r) ==
  /\ sent' = sent \cup {r} /\ r.id = s.lastMsgId + 1 /\ s'.lastMsgId = r.id
  /\ \A q \in sent : q.salt <= r.salt
  /\ r.salt <= s'.salt /\ s.salt <= s'.salt /\ s'.salt <= salt'

\* The numbers of the model are numbers, and ids are below the next one.
LEMMA Numbers ==
  ASSUME Safe
  PROVE  /\ s.lastMsgId \in Nat /\ s.salt \in Nat /\ salt \in Nat
         /\ \A r \in sent : r.id \in Nat /\ r.salt \in Nat /\ r.id <= s.lastMsgId
         /\ \A f \in replied : f.to \in Nat
BY DEF Safe, TypeOK, Session, Request, Frame, Bookkeeping

\* A request that is in order when nothing is sent.
LEMMA QuietOrdered ==
  ASSUME Safe, Safe', Ordered, NEW ids, Heard(ids), Quiet
  PROVE  Ordered'
<1>1. /\ sent' = sent /\ s'.lastMsgId = s.lastMsgId
      /\ \A i : Answered(i)' <=> Answered(i) \/ i \in ids
  BY DEF Heard, Quiet
<1>2. \A f \in replied' : f.to <= s'.lastMsgId BY <1>1 DEF Heard
<1>3. \A r, q \in sent' : Answered(r.id)' /\ q.id < r.id => Answered(q.id)'
  BY <1>1 DEF Ordered, Heard
<1>4. \A r \in sent' : r.salt <= s'.salt
  BY <1>1, Numbers DEF Ordered, Quiet, Safe, TypeOK, Session
<1>5. \A r \in sent' : r.name = "account.GetPassword" => PasswordAsked'
  BY <1>1 DEF Ordered, Heard
<1>6. /\ Open("auth.CheckPassword")' \subseteq Open("auth.CheckPassword")
      /\ Open("account.GetPassword")' \subseteq Open("account.GetPassword")
  BY <1>1 DEF Open
<1>7. \A c \in Open("auth.CheckPassword")', g \in Open("account.GetPassword")' :
        c.id < g.id => \E x \in sent' : x.name \in QrName /\ c.id < x.id /\ x.id < g.id
  BY <1>1, <1>6 DEF Ordered
<1> QED BY <1>1, <1>2, <1>3, <1>4, <1>5, <1>7 DEF Ordered, Quiet

\* A request that is in order when it is sent.
LEMMA SentOrdered ==
  ASSUME Safe, Safe', Ordered, NEW ids, Heard(ids), NEW r, Sends(r),
         r.name = "auth.SendCode" => \A q \in sent : q.key = 0,
         r.name = "account.GetPassword" =>
           /\ PasswordAsked'
           /\ \A c \in Open("auth.CheckPassword") :
                \E x \in sent : x.name \in QrName /\ c.id < x.id
  PROVE  Ordered'
<1>1. /\ sent' = sent \cup {r} /\ s'.lastMsgId = s.lastMsgId + 1 /\ r.id = s.lastMsgId + 1
      /\ \A i : Answered(i)' <=> Answered(i) \/ i \in ids
  BY DEF Heard, Sends
<1>2. /\ s.lastMsgId \in Nat /\ r.id \in Nat /\ r \in sent'
      /\ \A q \in sent : q.id \in Nat /\ q.id < r.id
      /\ \A q \in sent' : q.salt \in Nat
      /\ \A f \in replied' : f.to \in Nat
      /\ s.salt \in Nat /\ s'.salt \in Nat /\ salt' \in Nat
  <2>1. s.lastMsgId \in Nat /\ \A q \in sent : q.id \in Nat /\ q.id <= s.lastMsgId
    BY Numbers
  <2>2. /\ \A q \in sent' : q.salt \in Nat
        /\ \A f \in replied' : f.to \in Nat
        /\ s.salt \in Nat /\ s'.salt \in Nat /\ salt' \in Nat
    BY DEF Safe, TypeOK, Session, Request, Frame
  <2> QED BY <1>1, <2>1, <2>2
<1>3. \A f \in replied' : f.to <= s'.lastMsgId BY <1>1, <1>2 DEF Heard
<1>4. ~Answered(r.id)'
  BY <1>1, <1>2 DEF Heard, Answered
<1>5. \A p, q \in sent' : Answered(p.id)' /\ q.id < p.id => Answered(q.id)'
  BY <1>1, <1>2, <1>4 DEF Ordered, Heard
<1>6. \A p, q \in sent' : q.id < p.id => q.salt <= p.salt
  BY <1>1, <1>2 DEF Ordered, Sends
<1>7. (\A q \in sent' : q.salt <= s'.salt) /\ s'.salt <= salt'
  BY <1>1, <1>2 DEF Ordered, Sends
<1>8. \A p, q \in sent' : p.name = "auth.SendCode" /\ q.key # 0 => p.id <= q.id
  BY <1>1, <1>2 DEF Ordered
<1>9. \A q \in sent' : q.name = "account.GetPassword" => PasswordAsked'
  BY <1>1 DEF Ordered, Heard
<1>10. ASSUME NEW c \in Open("auth.CheckPassword")', NEW g \in Open("account.GetPassword")',
              c.id < g.id
       PROVE  \E x \in sent' : x.name \in QrName /\ c.id < x.id /\ x.id < g.id
  <2>1. /\ c \in sent' /\ c.name = "auth.CheckPassword" /\ ~Answered(c.id)
        /\ g \in sent' /\ g.name = "account.GetPassword" /\ ~Answered(g.id)
    BY <1>1 DEF Open
  <2>2. c # r BY <1>1, <1>2, <1>10, <2>1
  <2>3. c \in Open("auth.CheckPassword") BY <1>1, <2>1, <2>2 DEF Open
  <2>4. CASE g = r BY <1>1, <1>2, <2>1, <2>3, <2>4
  <2>5. CASE g # r
    <3>1. g \in Open("account.GetPassword") BY <1>1, <2>1, <2>5 DEF Open
    <3> QED BY <1>1, <1>10, <2>3, <3>1 DEF Ordered
  <2> QED BY <2>4, <2>5
<1> QED BY <1>3, <1>5, <1>6, <1>7, <1>8, <1>9, <1>10 DEF Ordered

\* The fence stays where no QR request is answered but for its salt.
LEMMA FencedStays ==
  ASSUME Safe, Safe', Fenced, NEW ids, Heard(ids), sent \subseteq sent',
         \A q \in sent' : q \in sent \/ q.name # "account.GetPassword",
         \A x \in sent : x.id \in ids /\ x.name \in QrName => x.salt < salt
  PROVE  Fenced'
<1>1. /\ \A i : Answered(i)' <=> Answered(i) \/ i \in ids
      /\ salt <= salt' /\ salt \in Nat /\ salt' \in Nat
      /\ \A q \in sent : q.salt \in Nat
  BY Numbers DEF Heard, Safe, TypeOK
<1> SUFFICES ASSUME NEW g \in Open("account.GetPassword")'
             PROVE  \/ g.salt < salt'
                    \/ \E x \in sent' : /\ x.name \in QrName /\ ~Answered(x.id)'
                                        /\ x.id < g.id /\ x.salt = g.salt
  BY DEF Fenced
<1>2. g \in sent /\ g \in Open("account.GetPassword") BY <1>1 DEF Open
<1>3. CASE g.salt < salt BY <1>1, <1>2, <1>3
<1>4. CASE ~(g.salt < salt)
  <2>1. PICK x \in sent : /\ x.name \in QrName /\ ~Answered(x.id)
                          /\ x.id < g.id /\ x.salt = g.salt
    BY <1>2, <1>4 DEF Fenced
  <2>2. x.id \notin ids BY <1>4, <2>1
  <2> QED BY <1>1, <2>1, <2>2
<1> QED BY <1>3, <1>4

\* It is there when a check of the password is granted: what asks for the password
\* is behind it, a QR request in between, and all of it under one salt.
LEMMA FencedByGrant ==
  ASSUME Safe, Ordered, NEW c \in sent, c.name = "auth.CheckPassword", c.salt = salt,
         ~Answered(c.id), Heard({c.id}), sent' = sent
  PROVE  Fenced'
<1>1. /\ \A i : Answered(i)' <=> Answered(i) \/ i = c.id
      /\ \A q \in sent : q.id < c.id => Answered(q.id)
  BY DEF Heard
<1>2. /\ salt \in Nat /\ s.salt \in Nat
      /\ \A q \in sent : q.id \in Nat /\ q.salt \in Nat
  BY Numbers
<1> SUFFICES ASSUME NEW g \in Open("account.GetPassword")'
             PROVE  \E x \in sent' : /\ x.name \in QrName /\ ~Answered(x.id)'
                                     /\ x.id < g.id /\ x.salt = g.salt
  BY DEF Fenced
<1>3. g \in sent /\ g.name = "account.GetPassword" /\ ~Answered(g.id) /\ g.id # c.id
  BY <1>1 DEF Open
<1>4. c.id < g.id BY <1>1, <1>2, <1>3
<1>5. PICK x \in sent : x.name \in QrName /\ c.id < x.id /\ x.id < g.id
  BY <1>3, <1>4 DEF Ordered, Open
<1>6. ~Answered(x.id)' BY <1>1, <1>2, <1>5 DEF Ordered
<1>7. x.salt = g.salt
  <2>1. c.salt <= x.salt /\ x.salt <= g.salt /\ g.salt <= s.salt /\ s.salt <= salt
    BY <1>3, <1>5 DEF Ordered
  <2> QED BY <1>2, <1>3, <1>5, <2>1
<1> QED BY <1>5, <1>6, <1>7

\* What the code requests say once they are answered.
CodeAnswered(ids) ==
  \A q \in sent : q.name = "auth.SendCode" => Answered(q.id) \/ q.id \in ids

\* A step that sends nothing keeps what the phase says.
LEMMA QuietStaged ==
  ASSUME Staged, NEW ids, Heard(ids), Quiet, s'.phase \notin Handshake,
         s'.phase \notin {"CODE_SENT", "ERROR"} => CodeAnswered(ids),
         s'.phase \in {"CODE_SENT", "QR_IMPORT_SENT", "SIGN_IN_SENT"} =>
           s'.phase = s.phase /\ s'.token = s.token,
         s'.phase = "AWAITING_CODE" => s.phase = "AWAITING_CODE" \/ NoCheck,
         s'.phase = "READY" => Fenced'
  PROVE  Staged'
<1>1. sent' = sent /\ \A i : Answered(i)' <=> Answered(i) \/ i \in ids
  BY DEF Heard, Quiet
<1>2. \A name : Open(name)' \subseteq Open(name) BY <1>1 DEF Open
<1>3. NoCheck' <=> NoCheck BY <1>1 DEF NoCheck
<1>4. Open("auth.SendCode")' # {} => s'.phase \in {"CODE_SENT", "ERROR"} /\ NoCheck'
  <2>1. s'.phase \notin {"CODE_SENT", "ERROR"} => Open("auth.SendCode")' = {}
    BY <1>1 DEF Open, CodeAnswered
  <2> QED BY <1>2, <1>3, <2>1 DEF Staged
<1>5. s'.phase = "QR_IMPORT_SENT" =>
        \A c \in Open("auth.CheckPassword")' :
          \E x \in sent' : x.name \in QrName /\ c.id < x.id
  BY <1>1, <1>2 DEF Staged
<1> QED BY <1>3, <1>4, <1>5 DEF Staged

\* A step that sends r does.
LEMMA SentStaged ==
  ASSUME Safe, Ordered, NEW ids, Heard(ids), NEW r, Sends(r),
         s'.phase \notin Handshake \cup {"AWAITING_CODE"},
         IF s'.phase = "CODE_SENT"
         THEN NoCheck /\ r.name # "auth.CheckPassword" /\ s'.token = NoDC
         ELSE CodeAnswered(ids) /\ r.name # "auth.SendCode",
         s'.phase = "QR_IMPORT_SENT" => r.name \in QrName,
         s'.phase = "SIGN_IN_SENT" => NoCheck /\ r.name # "auth.CheckPassword",
         s'.phase = "READY" => Fenced'
  PROVE  Staged'
<1>1. /\ sent' = sent \cup {r} /\ r.id = s.lastMsgId + 1
      /\ \A i : Answered(i)' <=> Answered(i) \/ i \in ids
  BY DEF Heard, Sends
<1>2. s.lastMsgId \in Nat /\ \A q \in sent : q.id \in Nat /\ q.id <= s.lastMsgId
  BY Numbers
<1>3. NoCheck /\ r.name # "auth.CheckPassword" => NoCheck' BY <1>1 DEF NoCheck
<1>4. Open("auth.SendCode")' # {} => s'.phase = "CODE_SENT"
  BY <1>1 DEF Open, CodeAnswered
<1>5. s'.phase = "QR_IMPORT_SENT" =>
        \A c \in Open("auth.CheckPassword")' :
          \E x \in sent' : x.name \in QrName /\ c.id < x.id
  <2> SUFFICES ASSUME s'.phase = "QR_IMPORT_SENT", NEW c \in Open("auth.CheckPassword")'
               PROVE  r \in sent' /\ r.name \in QrName /\ c.id < r.id
    OBVIOUS
  <2>1. c \in sent' /\ c.name = "auth.CheckPassword" BY DEF Open
  <2>2. r.name \in QrName /\ "auth.CheckPassword" \notin QrName BY DEF QrName
  <2> QED BY <1>1, <1>2, <2>1, <2>2
<1> QED BY <1>3, <1>4, <1>5 DEF Staged
-----------------------------------------------------------------------------
(* Frames and calls *)

\* A snapshot from which a handler goes on, on the same connection.
Near(st) ==
  /\ st \in Session /\ st.lastMsgId = s.lastMsgId
  /\ s.salt <= st.salt /\ st.salt <= salt

\* A handler that only replaces the snapshot is quiet.
LEMMA KeepQuiet ==
  ASSUME Safe, Ordered, salt' = salt, NEW st, Keep(st), Near(st) PROVE Quiet
BY DEF Keep, Near, Quiet

\* So is one that fails.
LEMMA FailQuiet ==
  ASSUME Safe, Ordered, Safe', salt' = salt, NEW st, Keep(Fail(st)), Near(st)
  PROVE  Quiet /\ s'.phase = "ERROR"
<1>1. Fail(st).phase = "ERROR" /\ Near(Fail(st))
  BY DEF Near, Fail, Session, Safe, TypeOK, Keep
<1> QED BY <1>1, KeepQuiet DEF Keep

\* A failed session keeps what it had.
LEMMA ErrorStaged ==
  ASSUME Safe, Safe', Ordered, Staged, NEW ids, Heard(ids), Quiet, s'.phase = "ERROR"
  PROVE  Ordered' /\ Staged'
<1>1. "ERROR" \notin Handshake BY DEF Handshake
<1> QED BY <1>1, QuietOrdered, QuietStaged

\* A handler that sends a request.
LEMMA CallStaged ==
  ASSUME Safe, Safe', Ordered, Staged, NEW ids, Heard(ids), salt' = salt,
         NEW st, Near(st), NEW name, NEW phase \in Encrypted \ Awaiting,
         Call(st, name, phase),
         IF phase = "CODE_SENT"
         THEN (\A q \in sent : q.key = 0) /\ NoCheck /\ st.token = NoDC
              /\ name = "auth.SendCode"
         ELSE CodeAnswered(ids) /\ name # "auth.SendCode",
         name = "account.GetPassword" =>
           /\ PasswordAsked'
           /\ \A c \in Open("auth.CheckPassword") :
                \E x \in sent : x.name \in QrName /\ c.id < x.id,
         phase = "QR_IMPORT_SENT" => name \in QrName,
         phase = "SIGN_IN_SENT" => NoCheck /\ name # "auth.CheckPassword",
         phase = "READY" => Fenced /\ name # "account.GetPassword" /\ ids = {}
  PROVE  Ordered' /\ Staged'
<1>1. CASE Hydratable(st)
  <2> DEFINE r == ApiRequest(st, name)
  <2>1. s' = Requested(st, name, phase) /\ sent' = sent \cup {r} BY <1>1 DEF Call
  <2>2. /\ s'.phase = phase /\ s'.token = st.token /\ s'.salt = st.salt
        /\ s'.lastMsgId = st.lastMsgId + 1
    BY <2>1 DEF Requested, Session, Near
  <2>3. r.id = st.lastMsgId + 1 /\ r.name = name /\ r.salt = st.salt
    BY DEF ApiRequest
  <2> HIDE DEF r
  <2>4. Sends(r)
    <3>1. /\ st.salt \in Nat /\ s.salt \in Nat
          /\ \A q \in sent : q.salt \in Nat /\ q.salt <= s.salt
      BY Numbers DEF Near, Session, Ordered
    <3> QED BY <2>1, <2>2, <2>3, <3>1 DEF Sends, Near
  <2>5. phase \notin Handshake \cup {"AWAITING_CODE"}
    BY DEF Encrypted, Waiting, Awaiting, Handshake
  <2>6. Ordered' BY <2>3, <2>4, SentOrdered
  <2>7. phase = "READY" => Fenced'
    BY <2>1, <2>3, FencedStays
  <2> QED BY <2>2, <2>3, <2>4, <2>5, <2>6, <2>7, SentStaged
<1>2. CASE ~Hydratable(st)
  <2>1. Keep(Fail(s)) /\ Near(s)
    BY <1>2 DEF Call, Near, Ordered, Safe, TypeOK, Session
  <2> QED BY <2>1, FailQuiet, ErrorStaged
<1> QED BY <1>1, <1>2

\* A session that starts over has sent and heard nothing of the login.
LEMMA MovedStaged ==
  ASSUME Safe, Safe', NEW dc \in KnownDC, NEW token, Reconnect(dc, token),
         NEW f, ServerAfter(f)
  PROVE  Ordered' /\ Staged' /\ s'.phase = "PQ_SENT"
<1>1. /\ s' = Fresh(dc, s.mode, s.phone, token) /\ sent' = {Plain(s', "ReqPqMulti")}
      /\ connection' = connection + 1
  BY DEF Reconnect
<1>2. replied' = {} BY <1>1 DEF ServerAfter, Safe, TypeOK
<1>3. s'.phase = "PQ_SENT" /\ s'.salt = 0 /\ salt' \in Nat
  BY <1>1 DEF Fresh, Safe, TypeOK
<1>4. \A r \in sent' : r.name = "ReqPqMulti" /\ r.key = 0 /\ r.salt = 0 /\ r.id = 1
  BY <1>1 DEF Plain, Fresh
<1>5. Ordered' BY <1>2, <1>3, <1>4 DEF Ordered, Open, Answered
<1>6. Staged' BY <1>3, <1>4 DEF Staged, Open, PlainName
<1> QED BY <1>3, <1>5, <1>6

\* A move that does not start over fails.
LEMMA ReconnectFails ==
  ASSUME NEW dc, NEW token, Reconnect(dc, token) PROVE dc \in KnownDC \/ Keep(Fail(s))
BY DEF Reconnect

\* A reply is heard in its place.
LEMMA HeardReply ==
  ASSUME Punctual, Safe, Ordered, NEW r \in sent, Due(r), NEW f, f.to = r.id,
         replied' = replied \cup {f}, salt' = salt, connection' = connection
  PROVE  Heard({r.id})
<1>1. \A i : Answered(i)' <=> Answered(i) \/ i \in {r.id} BY DEF Answered
<1>2. PasswordAsked => PasswordAsked' BY DEF PasswordAsked
<1>3. \A q \in sent : q.id < r.id => Answered(q.id) BY DEF Due, Punctual
<1>4. salt <= salt' /\ \A q \in replied' : q.to <= s.lastMsgId
  BY Numbers DEF Ordered
<1> QED BY <1>1, <1>2, <1>3, <1>4 DEF Heard

\* What the server says of itself answers nothing.
LEMMA HeardNothing ==
  ASSUME Safe, Ordered, connection' = connection, salt <= salt',
         replied \subseteq replied',
         \A f \in replied' : \E q \in replied : f.to = q.to
  PROVE  Heard({})
<1>1. \A i : Answered(i)' <=> Answered(i) BY DEF Answered
<1>2. PasswordAsked => PasswordAsked' BY DEF PasswordAsked
<1> QED BY <1>1, <1>2 DEF Heard, Ordered

\* The code is the first thing asked for, so any answer comes after its own.
LEMMA ReplyCode ==
  ASSUME Punctual, Safe, Ordered, NEW r \in sent, Due(r), r.key # 0
  PROVE  CodeAnswered({r.id})
<1> SUFFICES ASSUME NEW q \in sent, q.name = "auth.SendCode"
             PROVE  Answered(q.id) \/ q.id = r.id
  BY DEF CodeAnswered
<1>1. q.id <= r.id /\ q.id \in Nat /\ r.id \in Nat BY Numbers DEF Ordered
<1> QED BY <1>1 DEF Due, Punctual
-----------------------------------------------------------------------------
(* The steps *)

\* What every step starts from.
Context ==
  Punctual /\ FormInv /\ Safe /\ Ordered /\ Staged /\ Safe' /\ FormInv'

\* The key exchange: nothing but it has been sent.
LEMMA PlainStep ==
  ASSUME Context, NEW r \in sent, DeliverPlain(r) PROVE Ordered' /\ Staged'
<1> USE DEF Context
<1>1. PICK f \in Replies(r) :
        /\ HandleResPq(f) \/ HandleServerDHParams(f) \/ HandleDhGenResult(f)
        /\ ServerAfter(f)
  BY DEF DeliverPlain
<1>2. f.to = r.id /\ Due(r) BY RepliesType DEF DeliverPlain, Safe
<1>3. s \in Session /\ connection \in Nat /\ salt \in Nat BY DEF Safe, TypeOK
<1>4. s.phase \in Handshake
  BY <1>1 DEF HandleResPq, HandleServerDHParams, HandleDhGenResult, Handshake
<1>5. \A q \in sent : q.key = 0 /\ q.salt = 0 /\ q.name \in PlainName
  BY <1>4 DEF Staged
<1>6. /\ NoCheck /\ CodeAnswered({r.id}) /\ Open("auth.CheckPassword") = {}
  BY <1>5 DEF NoCheck, CodeAnswered, Open, PlainName
<1>7. connection' = connection
  BY <1>1 DEF HandleResPq, HandleServerDHParams, HandleDhGenResult, Keep, ContinueAuth, Call
<1>8. Heard({r.id}) /\ salt' = salt BY <1>1, <1>2, <1>7, HeardReply DEF ServerAfter
<1>9. Near(s) BY <1>3 DEF Near, Ordered, Session
<1>10. Keep(Fail(s)) => Ordered' /\ Staged' BY <1>8, <1>9, FailQuiet, ErrorStaged
<1>11. CASE (HandleResPq(f) \/ HandleServerDHParams(f)) /\ ~Keep(Fail(s))
  <2>1. /\ s'.phase \in {"DH_SENT", "DH_GEN_SENT"} /\ s'.lastMsgId = s.lastMsgId + 1
        /\ s'.salt \in {s.salt, salt}
        /\ \E st \in {s'} : \E name \in {"ReqDHParams", "SetClientDHParams"} :
             sent' = sent \cup {Plain(st, name)}
    BY <1>3, <1>11 DEF HandleResPq, HandleServerDHParams, Keep, Session
  <2>2. PICK name \in {"ReqDHParams", "SetClientDHParams"} :
          sent' = sent \cup {Plain(s', name)}
    BY <2>1
  <2> DEFINE p == Plain(s', name)
  <2>3. p.id = s.lastMsgId + 1 /\ p.key = 0 /\ p.salt = 0 /\ p.name = name
    BY <2>1 DEF Plain
  <2> HIDE DEF p
  <2>4. Sends(p)
    <3>1. s.salt \in Nat /\ s.salt <= salt BY <1>3 DEF Session, Ordered
    <3> QED BY <1>3, <1>5, <1>8, <2>1, <2>2, <2>3, <3>1 DEF Sends, p
  <2>5. Ordered' BY <1>5, <1>8, <2>3, <2>4, SentOrdered
  <2>6. \A q \in sent' : q.key = 0 /\ q.salt = 0 /\ q.name \in PlainName
    BY <1>5, <2>2, <2>3 DEF PlainName, p
  <2>7. Open("auth.SendCode")' = {} BY <2>6 DEF Open, PlainName
  <2> QED BY <2>1, <2>5, <2>6, <2>7 DEF Staged
<1>12. CASE HandleDhGenResult(f)
  <2> DEFINE st == [s EXCEPT !.sessionId = TRUE, !.dh = {}]
  <2>1. Near(st) /\ st.token = s.token BY <1>3, <1>9 DEF Near, Session
  <2>2. \/ Keep(Fail(s))
        \/ Call(st, "auth.ImportLoginToken", "QR_IMPORT_SENT")
        \/ Call(st, "auth.ExportLoginToken", "QR_TOKEN_SENT")
        \/ Call(st, "auth.SendCode", "CODE_SENT") /\ st.token = NoDC
    BY <1>12 DEF HandleDhGenResult, ContinueAuth
  <2>3. {"QR_IMPORT_SENT", "QR_TOKEN_SENT", "CODE_SENT"} \subseteq Encrypted \ Awaiting
    BY DEF Encrypted, Waiting, Awaiting
  <2> HIDE DEF st
  <2>4. Call(st, "auth.ImportLoginToken", "QR_IMPORT_SENT") => Ordered' /\ Staged'
    BY <1>6, <1>8, <2>1, <2>3, CallStaged DEF QrName
  <2>5. Call(st, "auth.ExportLoginToken", "QR_TOKEN_SENT") => Ordered' /\ Staged'
    BY <1>6, <1>8, <2>1, <2>3, CallStaged
  <2>6. Call(st, "auth.SendCode", "CODE_SENT") /\ st.token = NoDC => Ordered' /\ Staged'
    BY <1>5, <1>6, <1>8, <2>1, <2>3, CallStaged
  <2> QED BY <1>10, <2>2, <2>4, <2>5, <2>6
<1> QED BY <1>1, <1>10, <1>11, <1>12

\* The snapshots a frame leaves behind are near.
LEMMA SettledNear ==
  ASSUME Safe, Ordered, NEW f
  PROVE  /\ Near(s) /\ Near(Settled(f))
         /\ Settled(f).phase = s.phase /\ Settled(f).token = s.token
         /\ Near([Settled(f) EXCEPT !.token = NoDC])
         /\ Near([s EXCEPT !.salt = salt])
         /\ [s EXCEPT !.salt = salt].phase = s.phase
         /\ [s EXCEPT !.salt = salt].token = s.token
<1>1. s \in Session /\ Settled(f) \in Session /\ salt \in Nat /\ s.salt \in Nat
  BY SettledType DEF Safe, TypeOK, Session
<1> DEFINE pending == {p \in s.pending : p.id # f.to}
<1>2. Settled(f) = [s EXCEPT !.pending = pending] BY DEF Settled
<1> HIDE DEF pending
<1>3. /\ Settled(f).phase = s.phase /\ Settled(f).token = s.token
      /\ Settled(f).salt = s.salt /\ Settled(f).lastMsgId = s.lastMsgId
  BY <1>1, <1>2 DEF Session
<1>4. Near(s) /\ Near(Settled(f)) BY <1>1, <1>3 DEF Near, Ordered
<1> HIDE <1>2
<1>5. Near([Settled(f) EXCEPT !.token = NoDC]) BY <1>1, <1>4 DEF Near, Session
<1>6. /\ Near([s EXCEPT !.salt = salt])
      /\ [s EXCEPT !.salt = salt].phase = s.phase
      /\ [s EXCEPT !.salt = salt].token = s.token
  BY <1>1 DEF Near, Ordered, Session
<1> QED BY <1>3, <1>4, <1>5, <1>6

\* A result: only a grant makes the session ready, only the code asked for asks for
\* the code.
LEMMA ResultStaged ==
  ASSUME Context, NEW r \in sent, DeliverResult(r) PROVE Ordered' /\ Staged'
<1> USE DEF Context
<1>1. PICK f \in Replies(r) : HandleResult(f) /\ ServerAfter(f) BY DEF DeliverResult
<1>2. /\ f \in Frame /\ f.to = r.id /\ Due(r) /\ r.key # 0 /\ r.salt = salt
      /\ s.phase \in Encrypted /\ ~Answered(r.id)
  BY RepliesType DEF DeliverResult, Accepts, Due, Safe
<1>3. f.kind \in Kinds(r.name) /\ r.name \in PlainName \cup ApiName
  BY DEF Replies, Punctual, Safe, TypeOK, Request
<1> DEFINE st == Settled(f)
           code == [st EXCEPT !.phase = "AWAITING_CODE", !.codeHash = TRUE]
           password == [st EXCEPT !.phase = "AWAITING_PASSWORD", !.srp = TRUE]
           qr == [st EXCEPT !.phase = "AWAITING_QR_SCAN", !.token = f.dc]
<1>4. Near(st) /\ st.phase = s.phase /\ st.token = s.token BY SettledNear
<1>5. st \in Session BY <1>4 DEF Near
<1>6. \/ Keep(code) /\ f.kind = "auth.SentCode"
      \/ Keep(password) /\ f.kind = "account.Password"
      \/ Keep(qr)
      \/ Keep(st) /\ f.kind \in {"other", "account.Password"}
      \/ Keep(Fail(st))
      \/ Keep(LoggedIn(st)) /\ f.kind \in Granting
      \/ f.dc \in KnownDC /\ Reconnect(f.dc, f.dc)
      \/ Keep(Fail(s))
  BY <1>1, ReconnectFails DEF HandleResult, Granting
<1> HIDE DEF st
<1>7. ASSUME NEW u \in {s, st, code, password, qr, LoggedIn(st), Fail(st), Fail(s)}, Keep(u)
      PROVE  Heard({r.id}) /\ salt' = salt
  <2>1. connection' = connection BY <1>7 DEF Keep
  <2> QED BY <1>1, <1>2, <2>1, HeardReply DEF ServerAfter
<1>8. CodeAnswered({r.id}) BY <1>2, ReplyCode
<1>9. CASE Keep(code) /\ f.kind = "auth.SentCode"
  <2>1. code.phase = "AWAITING_CODE" /\ Near(code) BY <1>4, <1>5, <1>9 DEF Near, Session, Safe, TypeOK, Keep
  <2>2. r.name = "auth.SendCode" BY <1>3, <1>9 DEF Kinds, PlainName, ApiName
  <2>3. r \in Open("auth.SendCode") BY <1>2, <2>2 DEF Open
  <2>4. NoCheck BY <2>3 DEF Staged
  <2> HIDE DEF code
  <2>5. Quiet /\ s' = code /\ Heard({r.id}) BY <1>7, <1>9, <2>1, KeepQuiet DEF Keep
  <2>6. Ordered' BY <2>5, QuietOrdered
  <2>7. Staged' BY <1>8, <2>1, <2>4, <2>5, QuietStaged DEF Handshake
  <2> QED BY <2>6, <2>7
<1>10. CASE \/ Keep(password) /\ f.kind = "account.Password"
            \/ Keep(qr)
  <2>1. PICK u \in {password, qr} : Keep(u) BY <1>10
  <2>2. u \in Session BY <2>1 DEF Keep, Safe, TypeOK
  <2>3. /\ u.phase \in {"AWAITING_PASSWORD", "AWAITING_QR_SCAN"}
        /\ u.lastMsgId = st.lastMsgId /\ u.salt = st.salt
    BY <1>5, <2>1 DEF Session
  <2> HIDE DEF password, qr
  <2>4. Near(u) BY <1>4, <2>2, <2>3 DEF Near
  <2>5. Quiet /\ s' = u /\ Heard({r.id}) BY <1>7, <2>1, <2>4, KeepQuiet DEF Keep
  <2>6. Ordered' BY <2>5, QuietOrdered
  <2>7. Staged' BY <1>8, <2>3, <2>5, QuietStaged DEF Handshake
  <2> QED BY <2>6, <2>7
<1>11. CASE Keep(st) /\ f.kind \in {"other", "account.Password"}
  <2>1. Quiet /\ s' = st /\ Heard({r.id}) BY <1>4, <1>7, <1>11, KeepQuiet DEF Keep
  <2>2. s'.phase \notin Handshake
    BY <1>2, <1>4, <2>1 DEF Handshake, Encrypted, Waiting, Awaiting
  <2>3. r.name \notin QrName BY <1>3, <1>11 DEF QrName, Kinds, PlainName, ApiName
  <2>4. \A x \in sent : x.id \in {r.id} => x = r BY DEF Safe, PendingIsOurs
  <2>5. s'.phase = "READY" => Fenced'
    BY <1>4, <2>1, <2>3, <2>4, FencedStays DEF Staged, Quiet
  <2>6. Ordered' BY <2>1, QuietOrdered
  <2>7. Staged' BY <1>4, <1>8, <2>1, <2>2, <2>5, QuietStaged
  <2> QED BY <2>6, <2>7
<1>12. CASE Keep(LoggedIn(st)) /\ f.kind \in Granting
  <2>1. LoggedIn(st).phase = "READY" /\ Near(LoggedIn(st))
    BY <1>4, <1>5, <1>12 DEF Near, Session, LoggedIn, Safe, TypeOK, Keep
  <2>2. Quiet /\ s' = LoggedIn(st) /\ Heard({r.id})
    BY <1>7, <1>12, <2>1, KeepQuiet DEF Keep
  <2>3. r.name = "auth.CheckPassword" => Fenced'
    BY <1>2, <2>2, FencedByGrant DEF Quiet
  <2>4. ASSUME r.name # "auth.CheckPassword" PROVE Fenced'
    <3>1. ~PasswordAsked BY <1>12, <2>4 DEF Replies
    <3>2. \A q \in sent : q.name # "account.GetPassword" BY <3>1 DEF Ordered
    <3>3. Open("account.GetPassword")' = {} BY <2>2, <3>2 DEF Open, Quiet
    <3> QED BY <3>3 DEF Fenced
  <2>5. Fenced' BY <2>3, <2>4
  <2>6. Ordered' BY <2>2, QuietOrdered
  <2>7. Staged' BY <1>8, <2>1, <2>2, <2>5, QuietStaged DEF Handshake
  <2> QED BY <2>6, <2>7
<1>13. CASE Keep(Fail(st)) \/ Keep(Fail(s))
  <2>1. Near(s) BY SettledNear
  <2> QED BY <1>4, <1>7, <1>13, <2>1, FailQuiet, ErrorStaged
<1>14. CASE f.dc \in KnownDC /\ Reconnect(f.dc, f.dc) BY <1>1, <1>14, MovedStaged
<1> QED BY <1>6, <1>9, <1>10, <1>11, <1>12, <1>13, <1>14

\* An error: the password is asked for behind a QR request, or before any check.
LEMMA ErrorReplyStaged ==
  ASSUME Context, NEW r \in sent, DeliverRpcError(r) PROVE Ordered' /\ Staged'
<1> USE DEF Context
<1>1. PICK f \in Replies(r) : HandleRpcError(f) /\ ServerAfter(f) BY DEF DeliverRpcError
<1>2. /\ f \in Frame /\ f.to = r.id /\ Due(r) /\ r.key # 0
  BY RepliesType DEF DeliverRpcError, Accepts, Safe
<1> DEFINE st == Settled(f)
           fresh == [st EXCEPT !.token = NoDC]
<1>3. Near(s) /\ Near(st) /\ Near(fresh) BY SettledNear
<1>4. CodeAnswered({r.id}) BY <1>2, ReplyCode
<1>5. \/ Reconnect(f.dc, s.token) \/ Reconnect(s.dc, NoDC) \/ Keep(Fail(st))
      \/ Call(fresh, "auth.ExportLoginToken", "QR_TOKEN_SENT")
      \/ /\ f.kind = "SESSION_PASSWORD_NEEDED"
         /\ s.phase \in {"QR_IMPORT_SENT", "SIGN_IN_SENT"}
         /\ Call(st, "account.GetPassword", "PASSWORD_INFO_SENT")
  BY <1>1 DEF HandleRpcError
<1>6. {"QR_TOKEN_SENT", "PASSWORD_INFO_SENT"} \subseteq Encrypted \ Awaiting
  BY DEF Encrypted, Waiting, Awaiting
<1> HIDE DEF st, fresh
<1>7. connection' = connection => Heard({r.id}) /\ salt' = salt /\ replied' = replied \cup {f}
  BY <1>1, <1>2, HeardReply DEF ServerAfter
<1>8. ASSUME NEW u \in {s, st}, Keep(Fail(u)) PROVE Ordered' /\ Staged'
  <2>1. connection' = connection BY <1>8 DEF Keep
  <2> QED BY <1>3, <1>7, <1>8, <2>1, FailQuiet, ErrorStaged
<1>9. ASSUME NEW dc, NEW token, Reconnect(dc, token) PROVE Ordered' /\ Staged'
  BY <1>1, <1>8, <1>9, MovedStaged, ReconnectFails
<1>10. ASSUME Call(fresh, "auth.ExportLoginToken", "QR_TOKEN_SENT")
       PROVE  Ordered' /\ Staged'
  <2>1. connection' = connection BY <1>10 DEF Call, Keep
  <2> QED BY <1>3, <1>4, <1>6, <1>7, <1>10, <2>1, CallStaged
<1>11. ASSUME f.kind = "SESSION_PASSWORD_NEEDED",
              s.phase \in {"QR_IMPORT_SENT", "SIGN_IN_SENT"},
              Call(st, "account.GetPassword", "PASSWORD_INFO_SENT")
       PROVE  Ordered' /\ Staged'
  <2>1. connection' = connection BY <1>11 DEF Call, Keep
  <2>2. PasswordAsked' BY <1>7, <1>11, <2>1 DEF PasswordAsked
  <2>3. \A c \in Open("auth.CheckPassword") : \E x \in sent : x.name \in QrName /\ c.id < x.id
    BY <1>11 DEF Staged, NoCheck, Open
  <2> QED BY <1>3, <1>4, <1>6, <1>7, <1>11, <2>1, <2>2, <2>3, CallStaged
<1> QED BY <1>5, <1>8, <1>9, <1>10, <1>11

\* A refused salt: a QR request is repeated, and one that fenced a question for the
\* password leaves that question with a salt that is refused too.
LEMMA SaltStaged ==
  ASSUME Context, NEW r \in sent, DeliverBadServerSalt(r) PROVE Ordered' /\ Staged'
<1> USE DEF Context
<1> DEFINE st == [s EXCEPT !.salt = salt]
           f == [to |-> r.id, kind |-> "BadServerSalt", dc |-> r.dc]
<1>1. /\ Due(r) /\ r.key # 0 /\ r.salt # salt /\ s.phase \in Encrypted
      /\ replied' = replied \cup {f} /\ salt' = salt
  BY DEF DeliverBadServerSalt, Refusal
<1>2. Near(s) /\ Near(st) /\ st.phase = s.phase /\ st.token = s.token BY SettledNear
<1>3. \/ Keep(st) \/ Keep(Fail(st))
      \/ Call(st, "auth.ExportLoginToken", "QR_TOKEN_SENT")
      \/ Call(st, "auth.ImportLoginToken", "QR_IMPORT_SENT")
  BY DEF DeliverBadServerSalt, HandleBadServerSalt
<1> HIDE DEF st
<1>4. connection' = connection BY <1>3 DEF Call, Keep
<1>5. Heard({r.id}) BY <1>1, <1>4, HeardReply
<1>6. CodeAnswered({r.id}) BY <1>1, ReplyCode
<1>7. {"QR_TOKEN_SENT", "QR_IMPORT_SENT"} \subseteq Encrypted \ Awaiting
  BY DEF Encrypted, Waiting, Awaiting
<1>8. CASE Keep(st)
  <2>1. Quiet /\ s' = st BY <1>1, <1>2, <1>8, KeepQuiet DEF Keep
  <2>2. s'.phase \notin Handshake
    BY <1>1, <1>2, <2>1 DEF Handshake, Encrypted, Waiting, Awaiting
  <2>3. r.salt < salt
    <3>1. r.salt <= s.salt /\ s.salt <= salt BY DEF Ordered
    <3>2. r.salt \in Nat /\ s.salt \in Nat /\ salt \in Nat BY Numbers
    <3> QED BY <1>1, <3>1, <3>2
  <2>4. \A x \in sent : x.id \in {r.id} => x = r BY DEF Safe, PendingIsOurs
  <2>5. s'.phase = "READY" => Fenced'
    BY <1>2, <1>5, <2>1, <2>3, <2>4, FencedStays DEF Staged, Quiet
  <2>6. Ordered' BY <1>5, <2>1, QuietOrdered
  <2>7. Staged' BY <1>2, <1>5, <1>6, <2>1, <2>2, <2>5, QuietStaged
  <2> QED BY <2>6, <2>7
<1>9. CASE Keep(Fail(st)) BY <1>1, <1>2, <1>5, <1>9, FailQuiet, ErrorStaged
<1>10. Call(st, "auth.ExportLoginToken", "QR_TOKEN_SENT") => Ordered' /\ Staged'
  BY <1>1, <1>2, <1>5, <1>6, <1>7, CallStaged
<1>11. Call(st, "auth.ImportLoginToken", "QR_IMPORT_SENT") => Ordered' /\ Staged'
  BY <1>1, <1>2, <1>5, <1>6, <1>7, CallStaged DEF QrName
<1> QED BY <1>3, <1>8, <1>9, <1>10, <1>11

\* Outside the phase that waits for the code no request for it is open.
LEMMA CodeSettled ==
  ASSUME Staged, s.phase \notin {"CODE_SENT", "ERROR"} PROVE CodeAnswered({})
BY DEF Staged, CodeAnswered, Open

\* A new salt, by itself or told to the session, and a key revoked.
LEMMA NoticeStaged ==
  ASSUME Context,
         \/ DeliverNewSessionCreated \/ RotateSalt \/ Revoke \/ UNCHANGED vars
  PROVE  Ordered' /\ Staged'
<1> USE DEF Context
<1>1. /\ UNCHANGED <<connection, sent, replied>> /\ salt \in Nat /\ s.salt \in Nat
      /\ s.salt <= salt /\ salt' \in Nat
  BY Numbers DEF DeliverNewSessionCreated, RotateSalt, Revoke, vars, Ordered, Safe, TypeOK
<1>2. /\ s'.phase = s.phase /\ s'.token = s.token /\ s'.lastMsgId = s.lastMsgId
      /\ s.salt <= s'.salt /\ s'.salt <= salt' /\ salt <= salt'
  <2>1. ASSUME DeliverNewSessionCreated
        PROVE  /\ s'.phase = s.phase /\ s'.token = s.token /\ s'.lastMsgId = s.lastMsgId
               /\ s'.salt = salt /\ salt' = salt
    <3>1. s' = [s EXCEPT !.salt = salt] /\ salt' = salt BY <2>1 DEF DeliverNewSessionCreated
    <3>2. s \in Session BY DEF Safe, TypeOK
    <3> QED BY <3>1, <3>2 DEF Session
  <2>2. RotateSalt \/ Revoke \/ UNCHANGED vars => s' = s /\ salt' \in {salt, salt + 1}
    BY DEF RotateSalt, Revoke, vars
  <2> QED BY <1>1, <2>1, <2>2
<1>3. Quiet /\ Heard({}) BY <1>1, <1>2, HeardNothing DEF Quiet
<1>4. s'.phase = "READY" => Fenced' BY <1>1, <1>2, <1>3, FencedStays DEF Staged
<1>5. Ordered' BY <1>3, QuietOrdered
<1>6. CASE s'.phase \notin Handshake
  BY <1>2, <1>3, <1>4, <1>5, <1>6, CodeSettled, QuietStaged
<1>7. CASE s'.phase \in Handshake
  <2>1. \A r \in sent' : r.key = 0 /\ r.salt = 0 /\ r.name \in PlainName
    BY <1>1, <1>2, <1>7 DEF Staged
  <2>2. Open("auth.SendCode")' = {} BY <2>1 DEF Open, PlainName
  <2> QED BY <1>5, <1>7, <2>1, <2>2 DEF Staged, Handshake
<1> QED BY <1>6, <1>7

\* A scanned QR code is imported behind every check of the password.
LEMMA ScanStaged ==
  ASSUME Context, DeliverLoginTokenUpdate PROVE Ordered' /\ Staged'
<1> USE DEF Context
<1>1. PICK f \in replied : replied' = replied \cup {[f EXCEPT !.kind = "UpdateLoginToken"]}
  BY DEF DeliverLoginTokenUpdate, Scans
<1>2. f \in Frame /\ [f EXCEPT !.kind = "UpdateLoginToken"].to = f.to
  BY DEF Safe, TypeOK, Frame
<1>3. /\ HandleLoginTokenUpdate /\ salt' = salt /\ s.phase \in Encrypted
  BY DEF DeliverLoginTokenUpdate, Scans
<1>4. connection' = connection BY <1>3 DEF HandleLoginTokenUpdate, Call, Keep
<1>5. Heard({})
  <2>1. salt <= salt' BY <1>3, Numbers
  <2> QED BY <1>1, <1>2, <1>4, <2>1, HeardNothing
<1>6. Near(s) BY SettledNear
<1>7. CASE s.token = NoDC
  BY <1>3, <1>5, <1>6, <1>7, FailQuiet, ErrorStaged DEF HandleLoginTokenUpdate
<1>8. CASE s.token # NoDC
  <2>1. CodeAnswered({})
    BY <1>3, <1>8, CodeSettled DEF Staged, Encrypted, Waiting, Awaiting
  <2>2. "QR_IMPORT_SENT" \in Encrypted \ Awaiting BY DEF Encrypted, Waiting, Awaiting
  <2>3. Call(s, "auth.ImportLoginToken", "QR_IMPORT_SENT")
    BY <1>3, <1>8 DEF HandleLoginTokenUpdate
  <2> QED BY <1>3, <1>5, <1>6, <2>1, <2>2, <2>3, CallStaged DEF QrName
<1> QED BY <1>7, <1>8

\* What the user does, and a transport that fails.
LEMMA HostStaged ==
  ASSUME Context,
         \/ SubmitCode \/ SubmitPassword \/ RefreshQr \/ InvokeMethod
         \/ DeliverTransportError
  PROVE  Ordered' /\ Staged'
<1> USE DEF Context
<1>1. UNCHANGED <<replied, salt>>
  BY DEF SubmitCode, SubmitPassword, RefreshQr, InvokeMethod, DeliverTransportError
<1>2. connection' = connection
  BY DEF SubmitCode, SubmitPassword, RefreshQr, InvokeMethod, DeliverTransportError,
         Call, Keep
<1>3. Near(s) BY SettledNear
<1>4. Heard({})
  <2>1. salt <= salt' BY <1>1, Numbers
  <2> QED BY <1>1, <1>2, <2>1, HeardNothing
<1>5. {"SIGN_IN_SENT", "CHECK_PASSWORD_SENT", "QR_TOKEN_SENT", "READY"}
        \subseteq Encrypted \ Awaiting
  BY DEF Encrypted, Waiting, Awaiting
<1>6. CASE SubmitCode
  <2>1. s.phase = "AWAITING_CODE" /\ Call(s, "auth.SignIn", "SIGN_IN_SENT")
    BY <1>6 DEF SubmitCode
  <2>2. NoCheck /\ CodeAnswered({}) BY <2>1, CodeSettled DEF Staged
  <2> QED BY <1>1, <1>3, <1>4, <1>5, <2>1, <2>2, CallStaged
<1>7. CASE SubmitPassword \/ RefreshQr
  <2>1. /\ s.phase \in {"AWAITING_PASSWORD", "AWAITING_QR_SCAN"}
        /\ \/ Call(s, "auth.CheckPassword", "CHECK_PASSWORD_SENT")
           \/ Call(s, "auth.ExportLoginToken", "QR_TOKEN_SENT")
    BY <1>7 DEF SubmitPassword, RefreshQr
  <2>2. CodeAnswered({}) BY <2>1, CodeSettled
  <2>3. Call(s, "auth.CheckPassword", "CHECK_PASSWORD_SENT") => Ordered' /\ Staged'
    BY <1>1, <1>3, <1>4, <1>5, <2>2, CallStaged
  <2>4. Call(s, "auth.ExportLoginToken", "QR_TOKEN_SENT") => Ordered' /\ Staged'
    BY <1>1, <1>3, <1>4, <1>5, <2>2, CallStaged
  <2> QED BY <2>1, <2>3, <2>4
<1>8. CASE InvokeMethod
  <2>1. s.phase = "READY" /\ Call(s, "method", "READY") BY <1>8 DEF InvokeMethod
  <2>2. Fenced /\ CodeAnswered({}) BY <2>1, CodeSettled DEF Staged
  <2> QED BY <1>1, <1>3, <1>4, <1>5, <2>1, <2>2, CallStaged
<1>9. CASE DeliverTransportError
  <2>1. Keep(Fail(s)) BY <1>9 DEF DeliverTransportError
  <2> QED BY <1>1, <1>3, <1>4, <2>1, FailQuiet, ErrorStaged
<1> QED BY <1>6, <1>7, <1>8, <1>9

\* The inductive invariant.
ReadyInv == FormInv /\ Safe /\ (Punctual => Ordered /\ Staged)

\* Every step keeps it.
LEMMA NextReady == ReadyInv /\ [Next]_vars => ReadyInv'
<1> SUFFICES ASSUME Punctual, FormInv, Safe, Ordered, Staged, [Next]_vars
             PROVE  Ordered' /\ Staged'
  BY NextForm, NextSafe DEF ReadyInv, Punctual
<1>1. Context BY NextForm, NextSafe DEF Context
<1>2. ~DeliverContainer /\ \A f : ~DeliverAgain(f)
  BY DEF DeliverContainer, DeliverAgain, Punctual
<1>3. CASE Reply
  BY <1>1, <1>2, <1>3, PlainStep, ResultStaged, ErrorReplyStaged, SaltStaged DEF Reply
<1>4. CASE \/ DeliverNewSessionCreated \/ RotateSalt \/ Revoke \/ UNCHANGED vars
  BY <1>1, <1>4, NoticeStaged
<1>5. CASE DeliverLoginTokenUpdate BY <1>1, <1>5, ScanStaged
<1>6. CASE \/ SubmitCode \/ SubmitPassword \/ RefreshQr \/ InvokeMethod
           \/ DeliverTransportError
  BY <1>1, <1>6, HostStaged
<1> QED BY <1>2, <1>3, <1>4, <1>5, <1>6 DEF Next

\* It holds in every reachable state.
LEMMA ReadyCorrect == Spec => []ReadyInv
<1>1. Init => ReadyInv
  <2> SUFFICES ASSUME Init PROVE FormInv /\ Safe /\ Ordered /\ Staged BY DEF ReadyInv
  <2>1. FormInv
    <3>1. s.phase = "PQ_SENT" BY DEF Init, Fresh
    <3>2. \A r \in sent : r.name = "ReqPqMulti" BY DEF Init, Plain
    <3> QED BY <3>1, <3>2, InitType DEF Init, FormInv, Usable
  <2>2. Safe BY InitType, InitSafe DEF Safe
  <2>3. s.phase = "PQ_SENT" /\ s.salt = 0 /\ salt = 1 /\ replied = {}
    BY DEF Init, Fresh
  <2>4. \A r \in sent : r.name = "ReqPqMulti" /\ r.key = 0 /\ r.salt = 0 /\ r.id = 1
    BY DEF Init, Plain, Fresh
  <2>5. Ordered BY <2>3, <2>4 DEF Ordered, Open, Answered
  <2>6. Staged BY <2>3, <2>4 DEF Staged, Open, PlainName
  <2> QED BY <2>1, <2>2, <2>5, <2>6
<1> QED BY <1>1, NextReady, PTL DEF Spec
-----------------------------------------------------------------------------
(* What a step in READY does *)

\* In READY a result keeps the session there: a code or a password would have to
\* answer the oldest open request, and that is neither.
LEMMA ResultInReady ==
  ASSUME Context, s.phase = "READY", NEW r \in sent, DeliverResult(r)
  PROVE  s'.phase \in {"READY", "ERROR", "PQ_SENT"}
<1> USE DEF Context
<1>1. PICK f \in Replies(r) : HandleResult(f) /\ ServerAfter(f) BY DEF DeliverResult
<1>2. /\ f \in Frame /\ f.to = r.id /\ Due(r) /\ r.salt = salt
      /\ ~Answered(r.id)
  BY RepliesType DEF DeliverResult, Accepts, Due, Safe
<1>3. f.kind \in Kinds(r.name) /\ r.name \in PlainName \cup ApiName
  BY DEF Replies, Punctual, Safe, TypeOK, Request
<1>4. f.kind # "auth.SentCode"
  <2> SUFFICES ASSUME r.name = "auth.SendCode" PROVE FALSE
    BY <1>3 DEF Kinds, PlainName, ApiName
  <2>1. r \in Open("auth.SendCode") BY <1>2 DEF Open
  <2> QED BY <2>1 DEF Staged
<1>5. f.kind # "account.Password"
  <2> SUFFICES ASSUME r.name = "account.GetPassword" PROVE FALSE
    BY <1>3 DEF Kinds, PlainName, ApiName
  <2>1. r \in Open("account.GetPassword") BY <1>2 DEF Open
  <2>2. ~(r.salt < salt) BY <1>2, Numbers
  <2>3. PICK x \in sent : ~Answered(x.id) /\ x.id < r.id
    BY <2>1, <2>2 DEF Staged, Fenced
  <2> QED BY <1>2, <2>3 DEF Due, Punctual
<1>6. f.kind \notin {"auth.LoginToken", "auth.LoginTokenMigrateTo"}
  <2>1. account # "none" BY DEF FormInv
  <2> QED BY <2>1 DEF Replies, LoginPending, Punctual
<1> DEFINE st == Settled(f)
<1>7. st \in Session /\ st.phase = "READY"
  BY SettledType, SettledNear DEF Safe
<1> HIDE DEF st
<1>8. Fail(st).phase = "ERROR" /\ LoggedIn(st).phase = "READY"
  BY <1>7 DEF Session, Fail, LoggedIn
<1>9. Keep(LoggedIn(st)) \/ Keep(Fail(st)) \/ Keep(st)
  BY <1>1, <1>4, <1>5, <1>6 DEF HandleResult, st
<1> QED BY <1>7, <1>8, <1>9 DEF Keep

\* An error ends it, or moves it to a new key.
LEMMA ErrorInReady ==
  ASSUME Context, s.phase = "READY", NEW r \in sent, DeliverRpcError(r)
  PROVE  s'.phase \in {"READY", "ERROR", "PQ_SENT"}
<1> USE DEF Context
<1>1. PICK f \in Replies(r) : HandleRpcError(f) /\ ServerAfter(f) BY DEF DeliverRpcError
<1> DEFINE st == Settled(f)
<1>2. s \in Session /\ st \in Session BY SettledType DEF Safe, TypeOK
<1>3. Fail(st).phase = "ERROR" /\ Fail(s).phase = "ERROR" BY <1>2 DEF Fail, Session
<1>4. \/ Reconnect(f.dc, s.token) \/ Reconnect(s.dc, NoDC) \/ Keep(Fail(st))
  BY <1>1 DEF HandleRpcError
<1> HIDE DEF st
<1> QED BY <1>1, <1>3, <1>4, MovedStaged, ReconnectFails DEF Keep

\* The rest leaves the phase, or fails.
LEMMA StepInReady ==
  ASSUME Context, s.phase = "READY", [Next]_vars
  PROVE  s'.phase \in {"READY", "ERROR", "PQ_SENT"}
<1> USE DEF Context
<1>1. /\ s \in Session /\ s.phase \notin Handshake /\ Fail(s).phase = "ERROR"
      /\ [s EXCEPT !.salt = salt].phase = "READY"
  BY SettledNear DEF Safe, TypeOK, Session, Handshake, Fail
<1>2. ~DeliverContainer /\ \A f : ~DeliverAgain(f)
  BY DEF DeliverContainer, DeliverAgain, Punctual
<1>3. ASSUME NEW r \in sent PROVE ~DeliverPlain(r)
  BY DEF DeliverPlain, HandleResPq, HandleServerDHParams, HandleDhGenResult
<1>4. ASSUME NEW r \in sent, DeliverBadServerSalt(r) PROVE s'.phase = "READY"
  BY <1>1, <1>4 DEF DeliverBadServerSalt, HandleBadServerSalt, Keep
<1>5. DeliverNewSessionCreated => s'.phase = "READY" BY <1>1 DEF DeliverNewSessionCreated
<1>6. ~DeliverLoginTokenUpdate
  BY DEF DeliverLoginTokenUpdate, Scans, FormInv, Punctual
<1>7. DeliverTransportError => s'.phase = "ERROR"
  BY <1>1 DEF DeliverTransportError, Keep
<1>8. ~SubmitCode /\ ~SubmitPassword /\ ~RefreshQr
  BY DEF SubmitCode, SubmitPassword, RefreshQr
<1>9. CASE InvokeMethod
  <2>1. Call(s, "method", "READY") BY <1>9 DEF InvokeMethod
  <2>2. Requested(s, "method", "READY").phase = "READY" BY <1>1 DEF Requested, Session
  <2> QED BY <1>1, <2>1, <2>2 DEF Call, Keep
<1>10. RotateSalt \/ Revoke \/ UNCHANGED vars => s' = s BY DEF RotateSalt, Revoke, vars
<1> QED BY <1>2, <1>3, <1>4, <1>5, <1>6, <1>7, <1>8, <1>9, <1>10,
           ResultInReady, ErrorInReady DEF Next, Reply

\* Whatever the server answers, if its answers come in the order of the requests,
\* once, and the reducer has a rule for them, a session that is logged in leaves READY
\* only for ERROR or for a new key exchange, though the salt changes and the transport
\* fails.
THEOREM ReadyNeverRegressesCorrect == Spec => (Punctual => ReadyNeverRegresses)
<1>1. CASE Punctual
  <2>1. ReadyInv /\ [Next]_vars
          => [s.phase = "READY" => s'.phase \in {"READY", "ERROR", "PQ_SENT"}]_vars
    <3> SUFFICES ASSUME ReadyInv, [Next]_vars, s.phase = "READY"
                 PROVE  s'.phase \in {"READY", "ERROR", "PQ_SENT"}
      OBVIOUS
    <3>1. Context BY <1>1, NextReady DEF ReadyInv, Context
    <3> QED BY <3>1, StepInReady
  <2> QED BY <2>1, ReadyCorrect, PTL DEF Spec, ReadyNeverRegresses
<1>2. CASE ~Punctual BY <1>2
<1> QED BY <1>1, <1>2
=============================================================================
