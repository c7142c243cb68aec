------------------------- MODULE TelegramAgent_proofs -------------------------
(***************************************************************************)
(* Theorems about TelegramAgent, for any number of waiting methods,        *)
(* sessions, exchanges and messages, with or without restarts.             *)
(*                                                                         *)
(* The inductive invariant is AgentInv.  TypeInv adds to the types that    *)
(* two stored snapshots are one, that memory holds what storage holds, and *)
(* that a method that resumes a session has room for its message.  SafeInv *)
(* says, of the histories without overlap, what the properties leave out:  *)
(* at most one session is live (LinksOK), it is for the exchange of the    *)
(* stored snapshot, and a frame is in a queue only while a bridge key is   *)
(* held; a method that waits is the only one, nothing was written to its   *)
(* session, and the number that it will send is new (TasksOK, StoreLeads). *)
(***************************************************************************)
EXTENDS TelegramAgent, TLAPS, SequenceTheorems, FiniteSetTheorems

SnapOf(N) == [value : Value, exch : 1 .. N, n : 1 .. MaxMessage]

LinkOf(N) == [at : {"asked", "open", "shut"}, for : 1 .. N, due : 0 .. 2]

Resuming == {"recoverSession", "onSocketClosed"}

\* A method that resumes a session has room for the message that it will make.
CreationOf(N, L) ==
  {c \in [at : {"creating"}, by : {"startAuth", "pushFrame"} \cup Resuming,
          snapshot : SnapOf(N), session : 1 .. L] :
     c.by \in Resuming => May(c.snapshot)}

StoreOK(N) == /\ cache \subseteq saved /\ saved \subseteq SnapOf(N)
              /\ \A r, s \in saved : r = s

QueueOK(N) == memory \subseteq stored /\ stored \subseteq 1 .. N

LinkOK(N) == /\ link \in Seq(LinkOf(N)) /\ fed \in Seq(SUBSET (1 .. N))
             /\ Len(fed) = Len(link) /\ key \in 0 .. Len(link)

MadeOK == made \in Seq(0 .. MaxMessage) /\ Len(made) <= MaxExchange

TaskOK(N, L) == task \in [Task -> {Free} \cup CreationOf(N, L)]

ViewOK == /\ {manual, reused, crossed, out} \subseteq BOOLEAN
          /\ shown \in [phase : Phase, socketStatus : Status]

TypeInv ==
  /\ MadeOK /\ ViewOK
  /\ StoreOK(Len(made)) /\ QueueOK(Len(made)) /\ LinkOK(Len(made))
  /\ TaskOK(Len(made), Len(link))
-----------------------------------------------------------------------------
(* Types *)

LEMMA Numbers ==
  ASSUME TypeInv
  PROVE  /\ Len(made) \in Nat /\ Len(link) \in Nat
         /\ DOMAIN made = 1 .. Len(made) /\ DOMAIN link = 1 .. Len(link)
         /\ DOMAIN fed = 1 .. Len(link)
         /\ MaxMessage \in Nat \ {0} /\ MaxExchange \in Nat /\ MaxSession \in Nat
BY AgentAssumption DEF TypeInv, MadeOK, LinkOK

LEMMA SnapWidens ==
  ASSUME NEW N \in Nat, NEW M \in Nat, N <= M
  PROVE  /\ SnapOf(N) \subseteq SnapOf(M) /\ LinkOf(N) \subseteq LinkOf(M)
         /\ SUBSET (1 .. N) \subseteq SUBSET (1 .. M)
<1>1. 1 .. N \subseteq 1 .. M
  OBVIOUS
<1> QED
  BY <1>1 DEF SnapOf, LinkOf

\* The snapshot that is loaded is the stored one.
LEMMA LoadedIsSaved ==
  ASSUME TypeInv
  PROVE  Loaded = saved
BY DEF TypeInv, StoreOK, Loaded

LEMMA AdvancedTypes ==
  ASSUME NEW N \in Nat, NEW s \in SnapOf(N), NEW v \in Value, NEW k \in 1 .. MaxMessage - s.n
  PROVE  /\ Advanced(s, v, k) \in SnapOf(N) /\ Advanced(s, v, k).exch = s.exch
         /\ Advanced(s, v, k).n = s.n + k /\ Advanced(s, v, k).value = v
<1>1. s.n \in 1 .. MaxMessage /\ MaxMessage \in Nat
  BY AgentAssumption DEF SnapOf
<1>2. s.n + k \in 1 .. MaxMessage /\ k \in Nat
  BY <1>1
<1>3. Advanced(s, v, k) \in [value : Value, exch : 1 .. N, n : 1 .. MaxMessage]
  BY <1>2 DEF Advanced, SnapOf
<1>4. /\ Advanced(s, v, k).value = v /\ Advanced(s, v, k).n = s.n + k
      /\ Advanced(s, v, k).exch = s.exch
  BY DEF Advanced, SnapOf
<1> QED
  BY <1>3, <1>4 DEF SnapOf

LEMMA SentTypes ==
  ASSUME NEW N \in Nat, NEW s \in SnapOf(N), NEW v \in Value, May(s)
  PROVE  /\ Sent(s, v) \in SnapOf(N) /\ Sent(s, v).exch = s.exch /\ Sent(s, v).n = s.n + 1
         /\ Sent(s, v).value = v
<1>1. 1 \in 1 .. MaxMessage - s.n
  BY AgentAssumption DEF SnapOf, May
<1> QED
  BY <1>1, AdvancedTypes DEF Sent

LEMMA BeginTypes ==
  ASSUME TypeInv
  PROVE  Begin \in SnapOf(Len(made) + 1) /\ Begin.exch = Len(made) + 1 /\ Begin.n = 1
         /\ Begin.value = "handshake"
<1>1. Len(made) + 1 \in 1 .. Len(made) + 1 /\ 1 \in 1 .. MaxMessage
  BY Numbers
<1> QED
  BY <1>1 DEF Begin, SnapOf, Value

LEMMA SaveTypes ==
  ASSUME NEW N \in Nat, NEW s \in SnapOf(N), Save(s)
  PROVE  StoreOK(N)' /\ saved' = {s} /\ cache' = {s}
BY DEF Save, StoreOK

LEMMA ShowTypes ==
  ASSUME NEW p \in Phase, NEW c \in Status, Show(p, c)
  PROVE  shown' \in [phase : Phase, socketStatus : Status]
BY DEF Show

LEMMA PhaseTypes ==
  ASSUME NEW v \in Value
  PROVE  PhaseOf(v) \in Phase
BY DEF PhaseOf, Phase, Value

\* What sending a frame leaves behind: the last number of its exchange, and the
\* frame with a session or in both queues.
LEMMA SendTypes ==
  ASSUME TypeInv, NEW N, N = Len(made), NEW s \in SnapOf(N), NEW n \in Nat,
         SendBridgeBytes(s, n)
  PROVE  /\ QueueOK(N)' /\ reused' \in BOOLEAN
         /\ fed' \in Seq(SUBSET (1 .. N)) /\ Len(fed') = Len(fed)
         /\ made' \in Seq(0 .. MaxMessage) /\ Len(made') = N
<1> USE Numbers
<1>1. s.exch \in 1 .. N /\ s.n \in 0 .. MaxMessage
  BY DEF SnapOf
<1>2. fed \in Seq(SUBSET (1 .. N)) /\ DOMAIN fed = 1 .. Len(link)
  BY DEF TypeInv, LinkOK
<1>3. made' \in Seq(0 .. MaxMessage) /\ Len(made') = N
  <2>1. made \in Seq(0 .. MaxMessage) /\ made' = [made EXCEPT ![s.exch] = s.n]
    BY DEF SendBridgeBytes, TypeInv, MadeOK
  <2> QED
    BY <1>1, <2>1
<1>4. QueueOK(N)' /\ fed' \in Seq(SUBSET (1 .. N)) /\ Len(fed') = Len(fed)
  <2>1. CASE \E k \in Opened : fed' = [fed EXCEPT ![k] = @ \cup {s.exch}] /\ UNCHANGED queue
    <3>1. PICK k \in Opened : fed' = [fed EXCEPT ![k] = @ \cup {s.exch}]
      BY <2>1
    <3>2. k \in 1 .. Len(link) /\ fed[k] \cup {s.exch} \in SUBSET (1 .. N)
      BY <1>1, <1>2 DEF Opened
    <3>3. fed' \in Seq(SUBSET (1 .. N)) /\ Len(fed') = Len(fed)
      BY <1>2, <3>1, <3>2
    <3> QED
      BY <2>1, <3>3 DEF TypeInv, QueueOK, queue
  <2>2. CASE memory' = memory \cup {s.exch} /\ stored' = memory' /\ UNCHANGED fed
    BY <1>1, <1>2, <2>2 DEF TypeInv, QueueOK
  <2> QED
    BY <2>1, <2>2 DEF SendBridgeBytes
<1>5. reused' \in BOOLEAN
  <2>1. reused' = (reused \/ (~crossed /\ s.n < made[s.exch] + n))
    BY DEF SendBridgeBytes
  <2> QED
    BY ONLY <2>1, Zenon
<1> QED
  BY <1>3, <1>4, <1>5

LEMMA ExecuteTypes ==
  ASSUME TypeInv, NEW N, N = Len(made), NEW s \in SnapOf(N), NEW sends \in Nat,
         Execute(s, sends)
  PROVE  /\ QueueOK(N)' /\ reused' \in BOOLEAN
         /\ fed' \in Seq(SUBSET (1 .. N)) /\ Len(fed') = Len(fed)
         /\ made' \in Seq(0 .. MaxMessage) /\ Len(made') = N
<1>1. CASE SendBridgeBytes(s, sends)
  BY <1>1, SendTypes
<1>2. CASE UNCHANGED <<queue, wire>>
  BY <1>2 DEF queue, wire, TypeInv, QueueOK, LinkOK, MadeOK, ViewOK
<1> QED
  BY <1>1, <1>2 DEF Execute

\* The sessions after one is asked for, for an exchange up to N.
LEMMA AskTypes ==
  ASSUME TypeInv, NEW N \in Nat, Len(made) <= N, NEW t \in Task,
         NEW m \in {"startAuth", "pushFrame"} \cup Resuming,
         NEW s \in SnapOf(N), m \in Resuming => May(s),
         NEW before, before \in Seq(LinkOf(N)), Len(before) = Len(link),
         Ask(t, m, s, before), NEW L, L = Len(link) + 1
  PROVE  /\ link' \in Seq(LinkOf(N)) /\ fed' \in Seq(SUBSET (1 .. N))
         /\ Len(link') = L /\ Len(fed') = L /\ TaskOK(N, L)'
<1> DEFINE l == [at |-> "asked", for |-> s.exch, due |-> 0]
           c == [at |-> "creating", by |-> m, snapshot |-> s, session |-> Len(link) + 1]
<1> USE Numbers
<1>1. l \in LinkOf(N)
  BY DEF SnapOf, LinkOf
<1>2. link' = Append(before, l)
  BY DEF Ask
<1>3. link' \in Seq(LinkOf(N)) /\ Len(link') = Len(link) + 1
  <2> HIDE DEF l
  <2> QED
    BY <1>1, <1>2
<1>4. fed \in Seq(SUBSET (1 .. N)) /\ Len(fed) = Len(link) /\ fed' = Append(fed, {})
  <2>1. \A i \in 1 .. Len(fed) : fed[i] \in SUBSET (1 .. N)
    BY SnapWidens DEF TypeInv, LinkOK
  <2>2. fed \in Seq(SUBSET (1 .. Len(made))) /\ Len(fed) = Len(link)
    BY DEF TypeInv, LinkOK
  <2> QED
    BY <2>1, <2>2 DEF Ask
<1>5. fed' \in Seq(SUBSET (1 .. N)) /\ Len(fed') = Len(link')
  <2>1. {} \in SUBSET (1 .. N)
    OBVIOUS
  <2> QED
    BY <1>3, <1>4, <2>1
<1>6. c \in CreationOf(N, L)
  BY DEF CreationOf, Resuming
<1>7. ASSUME NEW u \in Task
      PROVE  task[u] \in {Free} \cup CreationOf(N, L)
  <2>1. CASE task[u] = Free
    BY <2>1
  <2>2. CASE task[u] \in CreationOf(Len(made), Len(link))
    <3>1. SnapOf(Len(made)) \subseteq SnapOf(N) /\ 1 .. Len(link) \subseteq 1 .. L
      BY SnapWidens
    <3> QED
      BY <2>2, <3>1 DEF CreationOf
  <2> QED
    BY <2>1, <2>2 DEF TypeInv, TaskOK
<1>8. task' = [task EXCEPT ![t] = c] /\ DOMAIN task = Task
  BY DEF Ask, TypeInv, TaskOK
<1>9. TaskOK(N, L)'
  <2> HIDE DEF c
  <2>1. \A u \in Task : task'[u] \in {Free} \cup CreationOf(N, L)
    BY <1>6, <1>7, <1>8
  <2>2. task' = [u \in Task |-> task'[u]]
    BY <1>8
  <2> QED
    BY <2>1, <2>2 DEF TaskOK
<1> QED
  BY <1>3, <1>5, <1>9

LEMMA ShutTypes ==
  ASSUME NEW N \in Nat, NEW l \in LinkOf(N)
  PROVE  /\ Shut(l) \in LinkOf(N) /\ Shut(l).at = "shut" /\ Shut(l).for = l.for
         /\ Shut(l).due = IF l.at = "open" THEN 2 ELSE 1
<1> DEFINE due == IF l.at = "open" THEN 2 ELSE 1
<1>1. due \in 0 .. 2 /\ l \in [at : {"asked", "open", "shut"}, for : 1 .. N, due : 0 .. 2]
  BY DEF LinkOf
<1>2. Shut(l) = [l EXCEPT !.at = "shut", !.due = due]
  BY DEF Shut
<1>3. Shut(l).at = "shut" /\ Shut(l).for = l.for /\ Shut(l).due = due
  <2> HIDE DEF due
  <2> QED
    BY <1>1, <1>2
<1>4. Shut(l) \in [at : {"asked", "open", "shut"}, for : 1 .. N, due : 0 .. 2]
  <2> HIDE DEF due
  <2> QED
    BY <1>1, <1>2
<1> QED
  BY <1>3, <1>4 DEF LinkOf

LEMMA ClosedTypes ==
  ASSUME NEW N \in Nat, NEW links \in Seq(LinkOf(N))
  PROVE  /\ Closed(links) \in Seq(LinkOf(N)) /\ Len(Closed(links)) = Len(links)
         /\ \A k \in 1 .. Len(links) :
              Closed(links)[k] = IF links[k].at = "open" THEN Shut(links[k]) ELSE links[k]
<1>1. DOMAIN links = 1 .. Len(links) /\ \A k \in 1 .. Len(links) : links[k] \in LinkOf(N)
  OBVIOUS
<1>2. Closed(links) = [k \in 1 .. Len(links) |->
                          IF links[k].at = "open" THEN Shut(links[k]) ELSE links[k]]
  BY <1>1 DEF Closed
<1>3. ASSUME NEW k \in 1 .. Len(links)
      PROVE  Closed(links)[k] \in LinkOf(N)
  BY <1>1, <1>2, ShutTypes
<1> QED
  BY <1>2, <1>3

LEMMA ReconnectTypes ==
  ASSUME TypeInv, NEW N \in Nat, Len(made) <= N, NEW t \in Task,
         NEW m \in {"startAuth", "pushFrame"} \cup Resuming,
         NEW s \in SnapOf(N), m \in Resuming => May(s),
         NEW links \in Seq(LinkOf(N)), Len(links) = Len(link),
         Reconnect(t, m, s, links), NEW L \in Nat, L = Len(link) + 1
  PROVE  /\ link' \in Seq(LinkOf(N)) /\ fed' \in Seq(SUBSET (1 .. N))
         /\ Len(link') = L /\ Len(fed') = L /\ TaskOK(N, L)'
         /\ QueueOK(N)' /\ key' \in 0 .. L
<1>1. Closed(links) \in Seq(LinkOf(N)) /\ Len(Closed(links)) = Len(link)
  BY ClosedTypes
<1>2. Ask(t, m, s, Closed(links))
  BY DEF Reconnect
<1>3. /\ link' \in Seq(LinkOf(N)) /\ fed' \in Seq(SUBSET (1 .. N))
      /\ Len(link') = L /\ Len(fed') = L /\ TaskOK(N, L)'
  BY <1>1, <1>2, AskTypes
<1>4. QueueOK(N)' /\ key' \in 0 .. L
  BY DEF Reconnect, CloseBridge, QueueOK
<1> QED
  BY <1>3, <1>4

\* The parts make up the whole after a step.
LEMMA Whole ==
  ASSUME NEW N, NEW L, ViewOK', StoreOK(N)', QueueOK(N)', TaskOK(N, L)',
         made' \in Seq(0 .. MaxMessage), Len(made') = N, N <= MaxExchange,
         link' \in Seq(LinkOf(N)), fed' \in Seq(SUBSET (1 .. N)),
         Len(link') = L, Len(fed') = L, key' \in 0 .. L
  PROVE  TypeInv'
BY DEF TypeInv, MadeOK, StoreOK, QueueOK, LinkOK, TaskOK

\* The parts that a step leaves alone are right for any larger number of exchanges.
LEMMA Widens ==
  ASSUME TypeInv, NEW N \in Nat, Len(made) <= N
  PROVE  /\ UNCHANGED store => StoreOK(N)'
         /\ UNCHANGED queue => QueueOK(N)'
         /\ link \in Seq(LinkOf(N)) /\ fed \in Seq(SUBSET (1 .. N))
<1> USE Numbers
<1>1. /\ SnapOf(Len(made)) \subseteq SnapOf(N) /\ LinkOf(Len(made)) \subseteq LinkOf(N)
      /\ SUBSET (1 .. Len(made)) \subseteq SUBSET (1 .. N)
      /\ 1 .. Len(made) \subseteq 1 .. N
  BY SnapWidens
<1>2. UNCHANGED store => StoreOK(N)'
  BY <1>1 DEF TypeInv, StoreOK, store
<1>3. UNCHANGED queue => QueueOK(N)'
  BY <1>1 DEF TypeInv, QueueOK, queue
<1>6. link \in Seq(LinkOf(N))
  BY <1>1 DEF TypeInv, LinkOK
<1>7. fed \in Seq(SUBSET (1 .. N))
  <2>1. fed \in Seq(SUBSET (1 .. Len(made)))
    BY DEF TypeInv, LinkOK
  <2>2. \A i \in 1 .. Len(fed) : fed[i] \in SUBSET (1 .. N)
    BY <1>1, <2>1
  <2> QED
    BY <2>1, <2>2
<1> QED
  BY <1>2, <1>3, <1>6, <1>7

\* The tasks that a step leaves alone, and those left when it ends one.
LEMMA TaskStays ==
  ASSUME TypeInv, NEW N \in Nat, Len(made) <= N, NEW L, L = Len(link)
  PROVE  /\ UNCHANGED task => TaskOK(N, L)'
         /\ \A t \in Task : task' = [task EXCEPT ![t] = Free] => TaskOK(N, L)'
<1>1. SnapOf(Len(made)) \subseteq SnapOf(N)
  BY Numbers, SnapWidens
<1>2. CreationOf(Len(made), Len(link)) \subseteq CreationOf(N, L)
  BY <1>1 DEF CreationOf
<1> HIDE DEF CreationOf
<1> QED
  BY <1>2 DEF TypeInv, TaskOK

LEMMA CrossesTypes ==
  ASSUME NEW overlap, Crosses(overlap)
  PROVE  crossed' \in BOOLEAN
BY DEF Crosses

LEMMA TypeInvInit == Init => TypeInv
<1> SUFFICES ASSUME Init
             PROVE  TypeInv
  OBVIOUS
<1>1. <<>> \in Seq(0 .. MaxMessage) /\ <<>> \in Seq(LinkOf(0)) /\ <<>> \in Seq(SUBSET (1 .. 0))
      /\ Len(<<>>) = 0
  OBVIOUS
<1>2. MaxExchange \in Nat
  BY AgentAssumption
<1>4. MadeOK
  BY <1>1, <1>2 DEF Init, MadeOK
<1>5. ViewOK /\ StoreOK(0) /\ QueueOK(0)
  BY DEF Init, ViewOK, StoreOK, QueueOK, Phase, Status
<1>3. LinkOK(0) /\ TaskOK(0, 0)
  BY <1>1 DEF Init, LinkOK, TaskOK
<1> QED
  BY <1>1, <1>3, <1>4, <1>5 DEF Init, TypeInv

LEMMA LoginTypes ==
  ASSUME TypeInv, NEW t \in Task, StartAuth(t) \/ RecoverSession(t)
  PROVE  TypeInv'
<1>0. /\ Len(made) \in Nat /\ Len(made) + 1 \in Nat /\ Len(link) \in Nat /\ Len(link) + 1 \in Nat
      /\ Len(made) <= Len(made) /\ Len(made) <= Len(made) + 1
  BY Numbers
<1> PICK N \in Nat, L \in Nat, M \in Nat, K \in Nat :
        N = Len(made) /\ L = Len(link) /\ M = N + 1 /\ K = L + 1
  BY <1>0
<1>1. CASE StartAuth(t)
  <2>1. Begin \in SnapOf(M) /\ M <= MaxExchange
    BY <1>0, <1>1, Numbers, BeginTypes DEF StartAuth
  <2>2. made' \in Seq(0 .. MaxMessage) /\ Len(made') = M
    <3>1. made \in Seq(0 .. MaxMessage) /\ made' = Append(made, 0) /\ 0 \in 0 .. MaxMessage
      BY <1>1, Numbers DEF StartAuth, TypeInv, MadeOK
    <3> QED
      BY <3>1
  <2>3. StoreOK(M)'
    BY <1>1, <2>1, SaveTypes DEF StartAuth
  <2>0. Len(made) <= M /\ link \in Seq(LinkOf(M))
        /\ (UNCHANGED queue => QueueOK(M)')
    <3>1. Len(made) <= M
      BY <1>0
    <3>2. link \in Seq(LinkOf(M)) /\ (UNCHANGED queue => QueueOK(M)')
      BY <3>1, Widens
    <3> QED
      BY <3>1, <3>2
  <2>4. /\ link' \in Seq(LinkOf(M)) /\ fed' \in Seq(SUBSET (1 .. M))
        /\ Len(link') = K /\ Len(fed') = K /\ TaskOK(M, K)'
    <3>1. Ask(t, "startAuth", Begin, link) /\ "startAuth" \notin Resuming
      BY <1>1 DEF StartAuth, Resuming
    <3> QED
      BY <2>0, <2>1, <3>1, AskTypes
  <2>5. QueueOK(M)'
    BY <1>1, <2>0 DEF StartAuth
  <2>6. ViewOK'
    BY <1>1 DEF StartAuth, Crosses, TypeInv, ViewOK
  <2>7. key' \in 0 .. K
    BY <1>1 DEF StartAuth, TypeInv, LinkOK
  <2> QED
    BY <2>1, <2>2, <2>3, <2>4, <2>5, <2>6, <2>7, Whole
<1>2. CASE RecoverSession(t)
  <2>1. PICK s \in saved : s.value = "ready" /\ May(s) /\ Save(s) /\ Reconnect(t, "recoverSession", s, link)
    BY <1>2, LoadedIsSaved DEF RecoverSession, Ready
  <2>2. s \in SnapOf(N) /\ Len(made') = N /\ made' \in Seq(0 .. MaxMessage) /\ N <= MaxExchange
    BY <1>2 DEF RecoverSession, TypeInv, StoreOK, MadeOK
  <2>3. StoreOK(N)'
    BY <2>1, <2>2, SaveTypes
  <2>4. /\ link' \in Seq(LinkOf(N)) /\ fed' \in Seq(SUBSET (1 .. N))
        /\ Len(link') = K /\ Len(fed') = K /\ TaskOK(N, K)'
        /\ QueueOK(N)' /\ key' \in 0 .. K
    <3>1. "recoverSession" \in Resuming /\ link \in Seq(LinkOf(N)) /\ Len(made) <= N
      BY <1>0 DEF Resuming, TypeInv, LinkOK
    <3> QED
      BY <1>0, <2>1, <2>2, <3>1, ReconnectTypes
  <2>6. ViewOK'
    BY <1>2, <2>1 DEF RecoverSession, Reconnect, Crosses, Show, TypeInv, ViewOK, Phase, Status
  <2> QED
    BY <2>2, <2>3, <2>4, <2>6, Whole
<1> QED
  BY <1>1, <1>2

\* The tasks that are not free wait for a session they asked for.
LEMMA CreatingTypes ==
  ASSUME TypeInv, NEW t \in Task, Creating(t)
  PROVE  task[t] \in CreationOf(Len(made), Len(link))
BY DEF TypeInv, TaskOK, Creating, Free

LEMMA ReconnectCreatedTypes ==
  ASSUME TypeInv, NEW t \in Task, NEW N, N = Len(made), NEW s \in SnapOf(N), May(s),
         ReconnectCreated(t, s), UNCHANGED <<link, manual, crossed, out>>
  PROVE  /\ StoreOK(N)' /\ QueueOK(N)' /\ ViewOK'
         /\ made' \in Seq(0 .. MaxMessage) /\ Len(made') = N
         /\ fed' \in Seq(SUBSET (1 .. N)) /\ Len(fed') = Len(fed)
<1> USE Numbers
<1>1. CASE s.value # "handshake" /\ Save(Sent(s, s.value)) /\ SendBridgeBytes(Sent(s, s.value), 1)
           /\ Show("authenticated", "connecting")
  <2>1. s.value \in Value /\ N \in Nat
    BY DEF SnapOf
  <2>2. Sent(s, s.value) \in SnapOf(N)
    BY <2>1, SentTypes
  <2>3. StoreOK(N)'
    BY <1>1, <2>2, SaveTypes
  <2>4. /\ QueueOK(N)' /\ reused' \in BOOLEAN /\ made' \in Seq(0 .. MaxMessage) /\ Len(made') = N
        /\ fed' \in Seq(SUBSET (1 .. N)) /\ Len(fed') = Len(fed)
    BY <1>1, <2>2, SendTypes
  <2>5. ViewOK'
    BY <1>1, <2>4 DEF Show, Phase, Status, ViewOK, TypeInv
  <2> QED
    BY <2>3, <2>4, <2>5
<1>2. CASE /\ Show(IF task[t].by = "onSocketClosed" THEN "authenticated" ELSE shown.phase, "error")
           /\ UNCHANGED <<store, queue, wire>>
  <2>1. StoreOK(N)' /\ QueueOK(N)'
    <3>1. N \in Nat /\ Len(made) <= N
      OBVIOUS
    <3> QED
      BY <1>2, <3>1, Widens
  <2>2. ViewOK'
    BY <1>2 DEF Show, Phase, Status, ViewOK, TypeInv, wire
  <2> QED
    BY <1>2, <2>1, <2>2 DEF wire, TypeInv, MadeOK, LinkOK
<1> QED
  BY <1>1, <1>2 DEF ReconnectCreated

LEMMA SessionTypes ==
  ASSUME TypeInv, NEW t \in Task, SessionCreated(t) \/ SessionRefused(t)
  PROVE  TypeInv'
<1>0. Len(made) \in Nat /\ Len(link) \in Nat /\ Len(made) <= Len(made)
  BY Numbers
<1> PICK N \in Nat, L \in Nat : N = Len(made) /\ L = Len(link)
  BY <1>0
<1>1. Creating(t) /\ task[t] \in CreationOf(N, L) /\ N <= MaxExchange
  BY CreatingTypes DEF SessionCreated, SessionRefused, TypeInv, MadeOK
<1>2. task[t].snapshot \in SnapOf(N) /\ task[t].session \in 1 .. L
      /\ (task[t].by \in Resuming => May(task[t].snapshot))
  BY <1>1 DEF CreationOf
<1>3. task' = [task EXCEPT ![t] = Free]
  BY DEF SessionCreated, SessionRefused
<1>4. TaskOK(N, L)'
  BY <1>0, <1>3, TaskStays
<1>5. CASE SessionCreated(t)
  <2> DEFINE s == task[t].snapshot
  <2>1. key' \in 0 .. L /\ UNCHANGED <<manual, link, crossed, out>>
    BY <1>2, <1>5 DEF SessionCreated
  <2>2. /\ StoreOK(N)' /\ QueueOK(N)' /\ ViewOK'
        /\ made' \in Seq(0 .. MaxMessage) /\ Len(made') = N
        /\ fed' \in Seq(SUBSET (1 .. N)) /\ Len(fed') = Len(fed)
    <3>1. CASE Save(s) /\ SendBridgeBytes(s, 1)
               /\ \E c \in Status : Show("connecting", c)
      <4>1. StoreOK(N)'
        BY <1>2, <3>1, SaveTypes
      <4>2. /\ QueueOK(N)' /\ reused' \in BOOLEAN /\ made' \in Seq(0 .. MaxMessage)
            /\ Len(made') = N /\ fed' \in Seq(SUBSET (1 .. N)) /\ Len(fed') = Len(fed)
        BY <1>2, <3>1, SendTypes
      <4>3. ViewOK'
        BY <2>1, <3>1, <4>2 DEF Show, Phase, ViewOK, TypeInv
      <4> QED
        BY <4>1, <4>2, <4>3
    <3>2. CASE task[t].by \in Resuming /\ ReconnectCreated(t, s)
      BY <1>2, <2>1, <3>2, ReconnectCreatedTypes
    <3>3. "connecting" \in Status /\ shown.socketStatus \in Status
      BY DEF Status, TypeInv, ViewOK
    <3> QED
      BY <1>5, <3>1, <3>2, <3>3 DEF SessionCreated, AuthCreated, Resuming
  <2>3. link' \in Seq(LinkOf(N)) /\ Len(link') = L /\ Len(fed) = L
    BY <2>1 DEF TypeInv, LinkOK
  <2> QED
    BY <1>1, <1>4, <2>1, <2>2, <2>3, Whole
<1>6. CASE SessionRefused(t)
  <2> DEFINE k == task[t].session
  <2>1. link' = [link EXCEPT ![k].at = "shut"] /\ UNCHANGED <<store, key, queue, manual, wire, crossed, out>>
    BY <1>6 DEF SessionRefused
  <2>2. link' \in Seq(LinkOf(N)) /\ Len(link') = L
    <3>1. link \in Seq(LinkOf(N)) /\ k \in 1 .. Len(link) /\ link[k] \in LinkOf(N)
      BY <1>2 DEF TypeInv, LinkOK
    <3>2. [link[k] EXCEPT !.at = "shut"] \in LinkOf(N)
      BY <3>1 DEF LinkOf
    <3>3. link' = [link EXCEPT ![k] = [link[k] EXCEPT !.at = "shut"]]
      BY <2>1, <3>1
    <3> HIDE DEF k
    <3> QED
      BY <3>1, <3>2, <3>3
  <2>3. StoreOK(N)' /\ QueueOK(N)'
    BY <1>0, <2>1, Widens
  <2>4. ViewOK'
    BY <1>6, <2>1 DEF SessionRefused, Show, Phase, Status, ViewOK, TypeInv, wire
  <2>5. made' \in Seq(0 .. MaxMessage) /\ Len(made') = N /\ fed' \in Seq(SUBSET (1 .. N))
        /\ Len(fed') = L /\ key' \in 0 .. L
    BY <2>1 DEF TypeInv, MadeOK, LinkOK, wire
  <2> QED
    BY <1>1, <1>4, <2>2, <2>3, <2>4, <2>5, Whole
<1> QED
  BY <1>5, <1>6

\* Steps of the account that ask for no session and start no exchange.
LEMMA AccountTypes ==
  ASSUME TypeInv, \/ Submit \/ RefreshIgnored \/ RecoverMissing \/ Logout \/ Call
                  \/ CloseCurrentSocket \/ BrowserConnects \/ Restart
  PROVE  TypeInv'
<1>0. Len(made) \in Nat /\ Len(link) \in Nat /\ Len(made) <= Len(made)
  BY Numbers
<1> PICK N \in Nat, L \in Nat : N = Len(made) /\ L = Len(link)
  BY <1>0
<1>f. /\ made \in Seq(0 .. MaxMessage) /\ N <= MaxExchange /\ link \in Seq(LinkOf(N))
      /\ fed \in Seq(SUBSET (1 .. N)) /\ Len(fed) = L /\ key \in 0 .. L /\ 0 \in 0 .. L
      /\ shown \in [phase : Phase, socketStatus : Status] /\ saved \subseteq SnapOf(N)
  BY DEF TypeInv, MadeOK, LinkOK, ViewOK, StoreOK
<1>1. CASE Submit \/ Call
  <2>1. PICK s \in SnapOf(N), v \in Value : May(s) /\ Save(Sent(s, v)) /\ Execute(Sent(s, v), 1)
    BY <1>1, <1>f, LoadedIsSaved DEF Submit, Call, Ready, Value
  <2>2. Sent(s, v) \in SnapOf(N)
    BY <2>1, SentTypes
  <2>3. StoreOK(N)'
    BY <2>1, <2>2, SaveTypes
  <2>4. /\ QueueOK(N)' /\ reused' \in BOOLEAN /\ made' \in Seq(0 .. MaxMessage) /\ Len(made') = N
        /\ fed' \in Seq(SUBSET (1 .. N)) /\ Len(fed') = Len(fed)
    BY <2>1, <2>2, ExecuteTypes
  <2>5. UNCHANGED <<key, manual, task, link, crossed, out>>
    BY <1>1 DEF Submit, Call
  <2>6. ViewOK'
    <3>1. shown' \in [phase : Phase, socketStatus : Status]
      <4>1. {"connecting", "authenticated"} \subseteq Phase /\ shown.socketStatus \in Status
        BY <1>f DEF Phase
      <4>2. Show("connecting", shown.socketStatus) \/ Show("authenticated", shown.socketStatus)
        BY <1>1 DEF Submit, Call
      <4> QED
        BY <4>1, <4>2, ShowTypes
    <3> QED
      BY <2>4, <2>5, <3>1 DEF ViewOK, TypeInv
  <2> QED
    BY <1>0, <1>f, <2>3, <2>4, <2>5, <2>6, TaskStays, Whole
<1>2. CASE RefreshIgnored \/ RecoverMissing \/ BrowserConnects
  <2>1. UNCHANGED <<key, queue, manual, task, link, wire, crossed, out>>
    BY <1>2 DEF RefreshIgnored, RecoverMissing, BrowserConnects
  <2>2. StoreOK(N)'
    <3>1. CASE UNCHANGED store
      BY <1>0, <3>1, Widens
    <3>2. CASE cache' = {} /\ UNCHANGED saved
      BY <3>2 DEF TypeInv, StoreOK
    <3>3. CASE \E s \in saved : Save(s)
      BY <1>f, <3>3, SaveTypes
    <3> QED
      BY <1>2, <3>1, <3>2, <3>3, LoadedIsSaved DEF RefreshIgnored, RecoverMissing, BrowserConnects
  <2>3. ViewOK'
    <3>1. shown' \in [phase : Phase, socketStatus : Status]
      <4>1. CASE RefreshIgnored
        <5>1. PICK s \in SnapOf(N) : Show(PhaseOf(s.value), shown.socketStatus)
          BY <1>f, <4>1, LoadedIsSaved DEF RefreshIgnored
        <5>2. PhaseOf(s.value) \in Phase
          BY PhaseTypes DEF SnapOf
        <5> QED
          BY <1>f, <5>1, <5>2, ShowTypes
      <4>2. CASE RecoverMissing
        BY <4>2 DEF RecoverMissing, Show, Phase, Status
      <4>3. CASE BrowserConnects
        BY <1>f, <4>3 DEF BrowserConnects, Reset, Phase, Status
      <4> QED
        BY <1>2, <4>1, <4>2, <4>3
    <3> QED
      BY <2>1, <3>1 DEF ViewOK, TypeInv, wire
  <2>4. QueueOK(N)' /\ TaskOK(N, L)'
    BY <1>0, <2>1, Widens, TaskStays
  <2>5. UNCHANGED <<made, link, fed, key>>
    BY <2>1 DEF wire
  <2> QED
    BY <1>f, <2>2, <2>3, <2>4, <2>5, Whole
<1>3. CASE Logout \/ CloseCurrentSocket
  <2>1. CloseBridge /\ link' = Closed(link) /\ UNCHANGED <<task, wire>>
    BY <1>3 DEF Logout, CloseCurrentSocket
  <2>2. link' \in Seq(LinkOf(N)) /\ Len(link') = L
    BY <1>f, <2>1, ClosedTypes
  <2>3. StoreOK(N)'
    BY <1>0, <1>3, Widens DEF Logout, CloseCurrentSocket, StoreOK
  <2>4. QueueOK(N)' /\ TaskOK(N, L)' /\ key' \in 0 .. L
    BY <1>0, <1>f, <2>1, TaskStays DEF CloseBridge, QueueOK
  <2>5. ViewOK'
    <3>1. shown' \in [phase : Phase, socketStatus : Status]
      BY <1>3, <1>f DEF Logout, CloseCurrentSocket, Show, Phase, Status
    <3>2. out' \in BOOLEAN /\ crossed' \in BOOLEAN
      <4>1. CASE out' = ~Pending /\ Crosses(Pending)
        BY <4>1, Zenon DEF Crosses
      <4>2. CASE UNCHANGED <<crossed, out>>
        BY <4>2 DEF TypeInv, ViewOK
      <4> QED
        BY <1>3, <4>1, <4>2 DEF Logout, CloseCurrentSocket
    <3>3. manual' \in BOOLEAN /\ reused' \in BOOLEAN
      BY <1>3, <2>1 DEF Logout, CloseCurrentSocket, TypeInv, ViewOK, wire
    <3> QED
      BY <3>1, <3>2, <3>3 DEF ViewOK
  <2>6. UNCHANGED <<made, fed>>
    BY <2>1 DEF wire
  <2> QED
    BY <1>f, <2>2, <2>3, <2>4, <2>5, <2>6, Whole
<1>4. CASE Restart
  <2>1. StoreOK(N)'
    BY <1>4 DEF Restart, StoreOK, TypeInv
  <2>2. QueueOK(N)' /\ TaskOK(N, L)'
    BY <1>4 DEF Restart, QueueOK, TypeInv, TaskOK
  <2>3. shown' \in [phase : Phase, socketStatus : Status]
    BY <1>f, <1>4 DEF Restart, Reset, Phase, Status
  <2>4. ViewOK'
    BY <1>4, <2>3 DEF Restart, Crosses, ViewOK, TypeInv, wire
  <2>5. UNCHANGED <<made, link, fed, key>>
    BY <1>4 DEF Restart, wire
  <2> QED
    BY <1>f, <2>1, <2>2, <2>4, <2>5, Whole
<1> QED
  BY <1>1, <1>2, <1>3, <1>4

\* An outcome changes the value of the snapshot, and counts the messages made.
LEMMA OutcomeForms ==
  ASSUME NEW s, s.value \in Value, NEW e, NEW r \in Outcomes(s, e)
  PROVE  \/ \E v \in Value : r = [snapshot |-> [s EXCEPT !.value = v], sends |-> 0]
         \/ \E v \in Value : May(s) /\ r = [snapshot |-> Sent(s, v), sends |-> 1]
         \/ \E v \in Value : \E k \in 1 .. MaxMessage - s.n :
              r = [snapshot |-> Advanced(s, v, k), sends |-> k]
<1>1. "error" \in Value BY DEF Value
<1>2. Machine(s)!Stays \subseteq Value
  BY AgentAssumption DEF Machine!Stays, Value
<1>3. Machine(s)!Answers \subseteq Value BY DEF Machine!Answers, Value
<1>4. Machine(s)!Bursts \subseteq Value BY DEF Machine!Bursts, Value
<1>5. CASE r \in {[snapshot |-> [s EXCEPT !.value = v], sends |-> 0] :
                    v \in {"error"} \cup {w \in Machine(s)!Stays : e = s.exch}}
  BY <1>1, <1>2, <1>5
<1>6. CASE r \in {[snapshot |-> Sent(s, v), sends |-> 1] :
                    v \in {w \in Machine(s)!Answers : e = s.exch /\ May(s)}}
  BY <1>3, <1>6
<1>7. CASE r \in {[snapshot |-> Advanced(s, v, k), sends |-> k] :
                    v \in {w \in Machine(s)!Bursts : e = s.exch}, k \in 1 .. MaxMessage - s.n}
  BY <1>4, <1>7
<1> QED
  BY <1>5, <1>6, <1>7 DEF Outcomes

LEMMA OutcomeTypes ==
  ASSUME TypeInv, NEW N \in Nat, NEW s \in SnapOf(N), NEW e, NEW r \in Outcomes(s, e)
  PROVE  /\ r.snapshot \in SnapOf(N) /\ r.snapshot.exch = s.exch
         /\ r.sends \in Nat /\ r.snapshot.n = s.n + r.sends
<1>0. s.value \in Value /\ s.n \in 1 .. MaxMessage /\ MaxMessage \in Nat
  BY AgentAssumption DEF SnapOf
<1>1. CASE \E v \in Value : r = [snapshot |-> [s EXCEPT !.value = v], sends |-> 0]
  BY <1>0, <1>1 DEF SnapOf
<1>2. CASE \E v \in Value : May(s) /\ r = [snapshot |-> Sent(s, v), sends |-> 1]
  <2>1. PICK v \in Value : May(s) /\ r = [snapshot |-> Sent(s, v), sends |-> 1]
    BY <1>2
  <2> QED
    BY <2>1, SentTypes
<1>3. CASE \E v \in Value : \E k \in 1 .. MaxMessage - s.n :
             r = [snapshot |-> Advanced(s, v, k), sends |-> k]
  <2>1. PICK v \in Value, k \in 1 .. MaxMessage - s.n :
               r = [snapshot |-> Advanced(s, v, k), sends |-> k]
    BY <1>3
  <2> QED
    BY <1>0, <2>1, AdvancedTypes
<1> QED
  BY <1>0, <1>1, <1>2, <1>3, OutcomeForms

LEMMA BridgeTypes ==
  ASSUME TypeInv, NEW k \in DOMAIN link,
         SessionConnects(k) \/ SessionEnds(k) \/ \E e \in fed[k] : PushFrame(k, e)
  PROVE  TypeInv'
<1>0. Len(made) \in Nat /\ Len(link) \in Nat /\ Len(made) <= Len(made) /\ k \in 1 .. Len(link)
  BY Numbers
<1> PICK N \in Nat, L \in Nat : N = Len(made) /\ L = Len(link)
  BY <1>0
<1>f. /\ made \in Seq(0 .. MaxMessage) /\ N <= MaxExchange /\ link \in Seq(LinkOf(N))
      /\ fed \in Seq(SUBSET (1 .. N)) /\ Len(fed) = L /\ key \in 0 .. L
      /\ shown \in [phase : Phase, socketStatus : Status] /\ saved \subseteq SnapOf(N)
      /\ link[k] \in LinkOf(N)
  BY <1>0 DEF TypeInv, MadeOK, LinkOK, ViewOK, StoreOK
<1>1. CASE SessionConnects(k)
  <2>1. link' \in Seq(LinkOf(N)) /\ Len(link') = L
    <3>1. [link[k] EXCEPT !.at = "open"] \in LinkOf(N)
      BY <1>f DEF LinkOf
    <3>2. link' = [link EXCEPT ![k] = [link[k] EXCEPT !.at = "open"]]
      BY <1>1, <1>f DEF SessionConnects
    <3> QED
      BY <1>0, <1>f, <3>1, <3>2
  <2>2. fed' \in Seq(SUBSET (1 .. N)) /\ Len(fed') = L
    <3>1. memory \cup stored \in SUBSET (1 .. N)
      BY DEF TypeInv, QueueOK
    <3> QED
      BY <1>0, <1>1, <1>f, <3>1 DEF SessionConnects
  <2>3. StoreOK(N)' /\ TaskOK(N, L)' /\ QueueOK(N)'
    BY <1>0, <1>1, Widens, TaskStays DEF SessionConnects, QueueOK
  <2>4. ViewOK' /\ UNCHANGED <<made, key>>
    BY <1>1 DEF SessionConnects, ViewOK, TypeInv
  <2> QED
    BY <1>f, <2>1, <2>2, <2>3, <2>4, Whole
<1>2. CASE SessionEnds(k)
  <2>1. link' \in Seq(LinkOf(N)) /\ Len(link') = L
    <3>1. Shut(link[k]) \in LinkOf(N) /\ link' = [link EXCEPT ![k] = Shut(link[k])]
      BY <1>2, <1>f, ShutTypes DEF SessionEnds
    <3> QED
      BY <1>0, <1>f, <3>1
  <2>2. UNCHANGED <<store, key, queue, manual, shown, task, wire, crossed, out>>
    BY <1>2 DEF SessionEnds
  <2>3. StoreOK(N)' /\ TaskOK(N, L)' /\ QueueOK(N)'
    BY <1>0, <2>2, Widens, TaskStays
  <2>4. ViewOK' /\ UNCHANGED <<made, fed, key>>
    BY <2>2 DEF wire, ViewOK, TypeInv
  <2> QED
    BY <1>f, <2>1, <2>3, <2>4, Whole
<1>3. CASE \E e \in fed[k] : PushFrame(k, e)
  <2>1. PICK e \in fed[k] : PushFrame(k, e)
    BY <1>3
  <2>s. PICK s \in SnapOf(N) : \E r \in Outcomes(s, e) :
             /\ Save(r.snapshot) /\ Execute(r.snapshot, r.sends)
             /\ Show(PhaseOf(r.snapshot.value),
                     IF r.snapshot.value = "ready" THEN "connected" ELSE shown.socketStatus)
    BY <1>f, <2>1, LoadedIsSaved DEF PushFrame
  <2>2. PICK r \in Outcomes(s, e) :
             /\ Save(r.snapshot) /\ Execute(r.snapshot, r.sends)
             /\ Show(PhaseOf(r.snapshot.value),
                     IF r.snapshot.value = "ready" THEN "connected" ELSE shown.socketStatus)
    BY <2>s
  <2>3. r.snapshot \in SnapOf(N) /\ r.sends \in Nat
    BY <2>2, OutcomeTypes
  <2>4. StoreOK(N)'
    BY <2>2, <2>3, SaveTypes
  <2>5. /\ QueueOK(N)' /\ reused' \in BOOLEAN /\ made' \in Seq(0 .. MaxMessage) /\ Len(made') = N
        /\ fed' \in Seq(SUBSET (1 .. N)) /\ Len(fed') = Len(fed)
    BY <2>2, <2>3, ExecuteTypes
  <2>6. UNCHANGED <<key, manual, task, link, crossed, out>>
    BY <2>1 DEF PushFrame
  <2>7. ViewOK'
    <3>1. PhaseOf(r.snapshot.value) \in Phase
      BY <2>3, PhaseTypes DEF SnapOf
    <3>2. (IF r.snapshot.value = "ready" THEN "connected" ELSE shown.socketStatus) \in Status
      BY <1>f DEF Status
    <3>3. shown' \in [phase : Phase, socketStatus : Status]
      BY <2>2, <3>1, <3>2, ShowTypes
    <3> QED
      BY <2>5, <2>6, <3>3 DEF ViewOK, TypeInv
  <2>8. TaskOK(N, L)'
    BY <1>0, <2>6, TaskStays
  <2> QED
    BY <1>f, <2>4, <2>5, <2>6, <2>7, <2>8, Whole
<1> QED
  BY <1>1, <1>2, <1>3

LEMMA MigrationTypes ==
  ASSUME TypeInv, NEW t \in Task, NEW k \in DOMAIN link, NEW e \in fed[k], PushMigration(t, k, e)
  PROVE  TypeInv'
<1>0. /\ Len(made) \in Nat /\ Len(made) + 1 \in Nat /\ Len(link) \in Nat /\ Len(link) + 1 \in Nat
      /\ Len(made) <= Len(made) /\ Len(made) <= Len(made) + 1 /\ MaxExchange \in Nat
  BY Numbers
<1> PICK N \in Nat, L \in Nat, M \in Nat, K \in Nat :
        N = Len(made) /\ L = Len(link) /\ M = N + 1 /\ K = L + 1
  BY <1>0
<1>1. Begin \in SnapOf(M) /\ M <= MaxExchange /\ Save(Begin)
  BY <1>0, BeginTypes DEF PushMigration
<1>2. made' \in Seq(0 .. MaxMessage) /\ Len(made') = M
  <2>1. made \in Seq(0 .. MaxMessage) /\ made' = Append(made, 0) /\ 0 \in 0 .. MaxMessage
    BY Numbers DEF PushMigration, TypeInv, MadeOK
  <2> QED
    BY <2>1
<1>3. StoreOK(M)'
  BY <1>1, SaveTypes
<1>4. Len(made) <= M
  BY <1>0
<1>5. link \in Seq(LinkOf(M)) /\ fed \in Seq(SUBSET (1 .. M))
      /\ (UNCHANGED queue => QueueOK(M)') /\ (UNCHANGED task => TaskOK(M, L)')
  BY <1>4, Widens, TaskStays
<1>6. CASE Reconnect(t, "pushFrame", Begin, link) /\ UNCHANGED shown
  <2>3. /\ link' \in Seq(LinkOf(M)) /\ fed' \in Seq(SUBSET (1 .. M))
        /\ Len(link') = K /\ Len(fed') = K /\ TaskOK(M, K)'
        /\ QueueOK(M)' /\ key' \in 0 .. K
    <3>1. "pushFrame" \notin Resuming /\ K = Len(link) + 1
      BY <1>0 DEF Resuming
    <3> QED
      BY <1>1, <1>4, <1>5, <1>6, <3>1, ReconnectTypes
  <2>5. ViewOK'
    BY <1>6 DEF PushMigration, Reconnect, Crosses, ViewOK, TypeInv
  <2> QED
    BY <1>1, <1>2, <1>3, <2>3, <2>5, Whole
<1>7. CASE /\ Show("connecting", shown.socketStatus)
           /\ UNCHANGED <<key, queue, task, link, fed, crossed>>
  <2>1. shown' \in [phase : Phase, socketStatus : Status]
    BY <1>7 DEF Show, Phase, ViewOK, TypeInv
  <2>2. ViewOK'
    BY <1>7, <2>1 DEF PushMigration, ViewOK, TypeInv
  <2>3. Len(link') = L /\ Len(fed') = L /\ key' \in 0 .. L
    BY <1>7 DEF TypeInv, LinkOK
  <2> QED
    BY <1>1, <1>2, <1>3, <1>5, <1>7, <2>2, <2>3, Whole
<1> QED
  BY <1>6, <1>7 DEF PushMigration

LEMMA CloseTypes ==
  ASSUME TypeInv, NEW t \in Task, NEW k \in DOMAIN link, OnSocketClosed(t, k)
  PROVE  TypeInv'
<1>0. /\ Len(made) \in Nat /\ Len(link) \in Nat /\ Len(link) + 1 \in Nat /\ Len(made) <= Len(made)
      /\ k \in 1 .. Len(link)
  BY Numbers
<1> PICK N \in Nat, L \in Nat, K \in Nat : N = Len(made) /\ L = Len(link) /\ K = L + 1
  BY <1>0
<1> DEFINE heard == [link EXCEPT ![k].due = @ - 1]
<1>f. /\ made \in Seq(0 .. MaxMessage) /\ N <= MaxExchange /\ link \in Seq(LinkOf(N))
      /\ fed \in Seq(SUBSET (1 .. N)) /\ Len(fed) = L /\ key \in 0 .. L
      /\ shown \in [phase : Phase, socketStatus : Status] /\ saved \subseteq SnapOf(N)
      /\ link[k] \in LinkOf(N) /\ link[k].due > 0
  BY <1>0 DEF TypeInv, MadeOK, LinkOK, ViewOK, StoreOK, OnSocketClosed
<1>1. heard \in Seq(LinkOf(N)) /\ Len(heard) = L
  <2>1. link[k].due - 1 \in 0 .. 2
    BY <1>f DEF LinkOf
  <2>2. [link[k] EXCEPT !.due = link[k].due - 1] \in LinkOf(N)
    BY <1>f, <2>1 DEF LinkOf
  <2>3. heard = [link EXCEPT ![k] = [link[k] EXCEPT !.due = link[k].due - 1]]
    BY <1>f
  <2> HIDE DEF heard
  <2> QED
    BY <1>0, <1>f, <2>2, <2>3
<1>2. StoreOK(N)' /\ UNCHANGED <<store, made, reused, out>> /\ manual' = FALSE
  BY <1>0, Widens DEF OnSocketClosed
<1>3. CASE \E s \in Loaded : May(s) /\ Reconnect(t, "onSocketClosed", s, heard) /\ UNCHANGED shown
  <2> HIDE DEF heard
  <2>1. PICK s \in SnapOf(N) : May(s) /\ Reconnect(t, "onSocketClosed", s, heard)
    BY <1>3, <1>f, LoadedIsSaved
  <2>2. Len(made) <= N /\ K = Len(link) + 1 /\ "onSocketClosed" \in Resuming
    BY <1>0 DEF Resuming
  <2>4. /\ link' \in Seq(LinkOf(N)) /\ fed' \in Seq(SUBSET (1 .. N))
        /\ Len(link') = K /\ Len(fed') = K /\ TaskOK(N, K)'
        /\ QueueOK(N)' /\ key' \in 0 .. K
    BY <1>1, <2>1, <2>2, ReconnectTypes
  <2>6. ViewOK'
    BY <1>2, <1>3, <2>1 DEF Reconnect, Crosses, ViewOK, TypeInv
  <2> QED
    BY <1>2, <1>f, <2>4, <2>6, Whole
<1>4. CASE /\ \E p \in Phase, c \in Status : Show(p, c)
           /\ link' = heard /\ Crosses(PendingOf(k)) /\ UNCHANGED <<key, queue, task, fed>>
  <2>1. shown' \in [phase : Phase, socketStatus : Status]
    BY <1>4, ShowTypes
  <2>2. ViewOK'
    BY <1>2, <1>4, <2>1 DEF Crosses, ViewOK, TypeInv
  <2>3. QueueOK(N)' /\ TaskOK(N, L)'
    BY <1>0, <1>4, Widens, TaskStays
  <2> QED
    BY <1>1, <1>2, <1>4, <1>f, <2>2, <2>3, Whole
<1>5. shown.phase \in Phase /\ {"disconnected", "error"} \subseteq Status
      /\ {"authenticated", "error"} \subseteq Phase
  BY <1>f DEF Phase, Status
<1> QED
  BY <1>3, <1>4, <1>5 DEF OnSocketClosed

LEMMA TypeInvStep == TypeInv /\ [Next]_vars => TypeInv'
<1> SUFFICES ASSUME TypeInv, [Next]_vars
             PROVE  TypeInv'
  OBVIOUS
<1>1. CASE UNCHANGED vars
  BY <1>1 DEF vars, store, queue, wire, TypeInv, MadeOK, ViewOK, StoreOK, QueueOK, LinkOK, TaskOK
<1> QED
  BY <1>1, LoginTypes, SessionTypes, AccountTypes, BridgeTypes, MigrationTypes, CloseTypes DEF Next
-----------------------------------------------------------------------------
(* Safety: what holds while sessions follow each other *)

Live(k) == link[k].at # "shut"

\* Sessions follow each other: one is live at a time, and what was or will be written
\* to it is of the exchange that it was opened for, which is the account's.
LinksOK ==
  /\ \A j, k \in DOMAIN link : Live(j) /\ Live(k) => j = k
  /\ \A k \in DOMAIN link :
       /\ link[k].at = "asked" => fed[k] = {}
       /\ fed[k] \subseteq {link[k].for}
       /\ Live(k) => /\ stored \subseteq {link[k].for}
                     /\ \A s \in saved : s.exch = link[k].for
                     /\ key = 0 => fed[k] = {}
  /\ key = 0 => stored = {}

\* A session asked for is the only one that can be live, nothing was written to it,
\* and the agent has yet to hear of its end.  Until then nothing can be sent.
AwaitsSession(k) ==
  /\ \A j \in DOMAIN link : Live(j) => j = k
  /\ Live(k) \/ link[k].due > 0
  /\ fed[k] = {} /\ stored = {}
  /\ key = 0 \/ \A s \in saved : s.value = "handshake"

\* What the method goes on with: its snapshot can make the next number, and the
\* account that it resumes is in storage.
GoesOn(c) ==
  /\ link[c.session].for = c.snapshot.exch
  /\ made[c.snapshot.exch] <= c.snapshot.n
  /\ c.by \notin Resuming => made[c.snapshot.exch] < c.snapshot.n
  /\ c.by \in Resuming => c.snapshot.value = "ready" /\ \E s \in saved : s.value = "ready"

TasksOK ==
  /\ \A t, u \in Task : Creating(t) /\ Creating(u) => t = u
  /\ \A t \in Task : Creating(t) => AwaitsSession(task[t].session) /\ GoesOn(task[t])

\* No number on the wire is above the stored snapshot's.
StoreLeads == \A s \in saved : made[s.exch] <= s.n

\* A status that promises something rests on a session that a method no longer awaits,
\* or on a method that answers for it.
StatusOK ==
  shown.socketStatus \in {"connecting", "connected"} =>
    \/ \E k \in DOMAIN link : (Live(k) \/ link[k].due > 0) /\ ~PendingOf(k)
    \/ \E t \in Task : Creating(t) /\ task[t].by \in Resuming

PhaseOK == ~Pending /\ shown.phase = "authenticated" => \E s \in saved : s.value = "ready"

FramesReach == \A k \in DOMAIN link : fed[k] \subseteq {link[k].for}

SafeInv == ~crossed => LinksOK /\ TasksOK /\ StoreLeads /\ StatusOK /\ PhaseOK

AgentInv == TypeInv /\ LogoutIsFinal /\ NumbersRise /\ SafeInv
-----------------------------------------------------------------------------
\* What asking for a session does: the session is the last one, nothing was written
\* to it, and one task waits for it.
LEMMA AskEffect ==
  ASSUME TypeInv, NEW t \in Task, NEW m, NEW s, NEW before, Len(before) = Len(link),
         NEW N \in Nat, before \in Seq(LinkOf(N)), Ask(t, m, s, before), ~Pending
  PROVE  \E L :
           /\ DOMAIN link' = 1 .. L /\ L \in Nat /\ L \in 1 .. L
           /\ link'[L] = [at |-> "asked", for |-> s.exch, due |-> 0] /\ fed'[L] = {}
           /\ \A k \in 1 .. L : k # L =>
                 /\ k \in DOMAIN link /\ k \in DOMAIN before
                 /\ link'[k] = before[k] /\ fed'[k] = fed[k]
           /\ \A k \in DOMAIN link : k \in 1 .. L /\ k # L
           /\ task'[t] = [at |-> "creating", by |-> m, snapshot |-> s, session |-> L]
           /\ \A u \in Task : u # t => task'[u].at # "creating"
<1> PICK L : L = Len(link) + 1
  OBVIOUS
<1> USE Numbers
<1>1. link' = Append(before, [at |-> "asked", for |-> s.exch, due |-> 0]) /\ fed' = Append(fed, {})
      /\ task' = [task EXCEPT ![t] = [at |-> "creating", by |-> m, snapshot |-> s,
                                       session |-> Len(link) + 1]]
  BY DEF Ask
<1>2. /\ L \in Nat /\ L \in 1 .. L /\ \A k \in 1 .. L : k # L => k \in 1 .. Len(link)
      /\ \A k \in 1 .. Len(link) : k \in 1 .. L /\ k # L
  OBVIOUS
<1>3. DOMAIN before = 1 .. Len(link) /\ before \in Seq(LinkOf(N))
  OBVIOUS
<1>4. DOMAIN link' = 1 .. L /\ link'[L] = [at |-> "asked", for |-> s.exch, due |-> 0]
      /\ \A k \in 1 .. Len(link) : link'[k] = before[k]
  <2> DEFINE l == [at |-> "asked", for |-> s.exch, due |-> 0]
  <2>1. link' = Append(before, l)
    BY <1>1
  <2> HIDE DEF l
  <2>2. DOMAIN link' = 1 .. L /\ link'[L] = l /\ \A k \in 1 .. Len(link) : link'[k] = before[k]
    BY <1>3, <2>1
  <2> QED
    BY <2>2 DEF l
<1>5. fed'[L] = {} /\ \A k \in 1 .. Len(link) : fed'[k] = fed[k]
  BY <1>1 DEF TypeInv, LinkOK
<1>6. task'[t] = [at |-> "creating", by |-> m, snapshot |-> s, session |-> L]
      /\ \A u \in Task : u # t => task'[u] = task[u]
  BY <1>1 DEF TypeInv, TaskOK
<1>7. \A u \in Task : task[u].at # "creating"
  BY DEF Pending, Creating
<1> QED
  BY <1>2, <1>3, <1>4, <1>5, <1>6, <1>7

\* Asking when no session is live or awaited starts a sequence of its own.
LEMMA AskSafe ==
  ASSUME TypeInv, NEW t \in Task, NEW m, NEW s, NEW before, Len(before) = Len(link),
         NEW N \in Nat, before \in Seq(LinkOf(N)), Ask(t, m, s, before), ~Pending,
         \A k \in DOMAIN link :
            /\ before[k].at = "shut" /\ before[k].for = link[k].for
            /\ fed[k] \subseteq {link[k].for},
         saved' = {s}, stored' = {}, key' = 0 \/ s.value = "handshake",
         made'[s.exch] <= s.n, m \notin Resuming => made'[s.exch] < s.n,
         m \in Resuming => s.value = "ready"
  PROVE  /\ LinksOK' /\ TasksOK' /\ StoreLeads' /\ PhaseOK'
         /\ m \in Resuming \/ (\E k \in DOMAIN link : before[k].due > 0) => StatusOK'
<1>1. PICK L :
      /\ DOMAIN link' = 1 .. L /\ L \in Nat /\ L \in 1 .. L
      /\ link'[L] = [at |-> "asked", for |-> s.exch, due |-> 0] /\ fed'[L] = {}
      /\ \A k \in 1 .. L : k # L =>
            /\ k \in DOMAIN link /\ k \in DOMAIN before
            /\ link'[k] = before[k] /\ fed'[k] = fed[k]
      /\ \A k \in DOMAIN link : k \in 1 .. L /\ k # L
      /\ task'[t] = [at |-> "creating", by |-> m, snapshot |-> s, session |-> L]
      /\ \A u \in Task : u # t => task'[u].at # "creating"
  BY AskEffect
<1>2. \A k \in 1 .. L : k # L => link'[k].at = "shut" /\ fed'[k] \subseteq {link'[k].for}
  BY <1>1
<1>3. link'[L].at = "asked" /\ link'[L].for = s.exch
  BY <1>1
<1>4. LinksOK'
  <2>1. \A k \in 1 .. L : link'[k].at # "shut" => k = L
    BY <1>2
  <2>2. \A k \in 1 .. L : fed'[k] \subseteq {link'[k].for} /\ (link'[k].at = "asked" => fed'[k] = {})
    BY <1>1, <1>2
  <2> QED
    BY <1>1, <1>3, <2>1, <2>2 DEF LinksOK, Live
<1>5. TasksOK'
  <2>1. \A u \in Task : task'[u].at = "creating" => u = t
    BY <1>1
  <2>2. AwaitsSession(L)'
    BY <1>1, <1>2, <1>3 DEF AwaitsSession, Live
  <2>3. task'[t].session = L /\ task'[t].by = m /\ task'[t].snapshot = s
    BY <1>1
  <2>4. GoesOn(task[t])'
    BY <1>3, <2>3 DEF GoesOn
  <2>5. AwaitsSession(task[t].session)'
    BY <2>2, <2>3 DEF AwaitsSession, Live
  <2> QED
    BY <2>1, <2>4, <2>5 DEF TasksOK, Creating
<1>6. StoreLeads'
  BY DEF StoreLeads
<1>7. Creating(t)' /\ task'[t].by = m
  BY <1>1 DEF Creating
<1>8. PhaseOK'
  BY <1>7 DEF PhaseOK, Pending
<1>9. ASSUME NEW k \in DOMAIN link, before[k].due > 0
      PROVE  StatusOK'
  <2>1. k \in DOMAIN link' /\ link'[k].due > 0
    BY <1>1, <1>9
  <2>2. ~PendingOf(k)'
    BY <1>1 DEF PendingOf, Creating
  <2> QED
    BY <2>1, <2>2 DEF StatusOK, Live, PendingOf, Creating
<1>10. m \in Resuming => StatusOK'
  BY <1>7 DEF StatusOK, Creating
<1> QED
  BY <1>4, <1>5, <1>6, <1>8, <1>9, <1>10

\* What sending does: numbers that are above the last, in an open session or in the queue.
LEMMA SendEffect ==
  ASSUME TypeInv, NEW s \in SnapOf(Len(made)), NEW n \in Nat, SendBridgeBytes(s, n)
  PROVE  /\ made'[s.exch] = s.n
         /\ \A e \in DOMAIN made : e # s.exch => made'[e] = made[e]
         /\ crossed \/ made[s.exch] + n <= s.n => reused' = reused
         /\ \A k \in DOMAIN link :
              fed'[k] = fed[k] \/ (link[k].at = "open" /\ fed'[k] = fed[k] \cup {s.exch})
         /\ stored' \subseteq stored \cup {s.exch}
<1> USE Numbers
<1>1. s.exch \in DOMAIN made /\ made' = [made EXCEPT ![s.exch] = s.n]
  BY DEF SendBridgeBytes, SnapOf
<1>2. crossed \/ made[s.exch] + n <= s.n => reused' = reused
  <2>1. reused' = (reused \/ (~crossed /\ s.n < made[s.exch] + n))
    BY DEF SendBridgeBytes
  <2>2. s.n \in Nat /\ made[s.exch] \in Nat
    BY <1>1 DEF SnapOf, TypeInv, MadeOK
  <2>3. made[s.exch] + n <= s.n => ~(s.n < made[s.exch] + n)
    BY <2>2
  <2>4. reused \in BOOLEAN
    BY DEF TypeInv, ViewOK
  <2> QED
    BY ONLY <2>1, <2>3, <2>4, Zenon
<1>3. \A k \in DOMAIN link :
        fed'[k] = fed[k] \/ (link[k].at = "open" /\ fed'[k] = fed[k] \cup {s.exch})
  BY DEF SendBridgeBytes, Opened
<1>4. stored' \subseteq stored \cup {s.exch}
  BY DEF SendBridgeBytes, queue, TypeInv, QueueOK
<1> QED
  BY <1>1, <1>2, <1>3, <1>4 DEF TypeInv, MadeOK

\* Saving a snapshot of the exchange that the live session is for, and sending a frame
\* made from it, if anything.
LEMMA LinksKept ==
  ASSUME TypeInv, LinksOK, NEW r, saved' = {r}, UNCHANGED link,
         \A k \in DOMAIN link : Live(k) => r.exch = link[k].for,
         \/ /\ key' # 0 /\ stored' \subseteq stored \cup {r.exch}
            /\ \A k \in DOMAIN link :
                 fed'[k] = fed[k] \/ (link[k].at = "open" /\ fed'[k] = fed[k] \cup {r.exch})
         \/ UNCHANGED <<key, fed, stored>>
  PROVE  LinksOK'
<1>1. CASE /\ key' # 0 /\ stored' \subseteq stored \cup {r.exch}
           /\ \A k \in DOMAIN link :
                fed'[k] = fed[k] \/ (link[k].at = "open" /\ fed'[k] = fed[k] \cup {r.exch})
  BY <1>1 DEF LinksOK, Live
<1>2. CASE UNCHANGED <<key, fed, stored>>
  BY <1>2 DEF LinksOK, Live
<1> QED
  BY <1>1, <1>2

\* A step that moves sessions on but asks for none leaves what waiting tasks rely on.
LEMMA TasksKept ==
  ASSUME TasksOK, UNCHANGED <<task, saved>>, stored' \subseteq stored, key' \in {key, 0},
         made' = made, DOMAIN link' = DOMAIN link,
         \A t \in Task : Creating(t) => task[t].session \in DOMAIN link,
         \A k \in DOMAIN link :
            /\ link'[k].for = link[k].for
            /\ link'[k].at # "shut" => Live(k)
            /\ PendingOf(k) /\ (Live(k) \/ link[k].due > 0) =>
                 link'[k].at # "shut" \/ link'[k].due > 0
            /\ PendingOf(k) /\ fed[k] = {} => fed'[k] = {}
  PROVE  TasksOK'
<1>1. ASSUME NEW t \in Task, Creating(t)
      PROVE  AwaitsSession(task[t].session)' /\ GoesOn(task[t])'
  <2> DEFINE k == task[t].session
  <2>1. k \in DOMAIN link /\ PendingOf(k) /\ AwaitsSession(k) /\ GoesOn(task[t])
    BY <1>1 DEF TasksOK, PendingOf
  <2>2. /\ link'[k].for = link[k].for /\ fed'[k] = {} /\ stored' = {} /\ task'[t] = task[t]
        /\ link'[k].at # "shut" \/ link'[k].due > 0
        /\ key' = 0 \/ \A s \in saved' : s.value = "handshake"
        /\ \A j \in DOMAIN link' : link'[j].at # "shut" => j = k
    BY <2>1 DEF AwaitsSession
  <2>3. GoesOn(task[t])'
    BY <2>1, <2>2 DEF GoesOn
  <2>4. AwaitsSession(task[t].session)'
    BY <2>2 DEF AwaitsSession, Live
  <2> QED
    BY <2>3, <2>4
<1>2. \A t \in Task : Creating(t)' => Creating(t)
  BY DEF Creating
<1> QED
  BY <1>1, <1>2 DEF TasksOK

LEMMA SessionsTyped ==
  ASSUME TypeInv
  PROVE  /\ \A t \in Task : Creating(t) => task[t].session \in DOMAIN link
         /\ \A k \in DOMAIN link : link[k].at \in {"asked", "open", "shut"} /\ link[k].due \in 0 .. 2
         /\ \A k \in DOMAIN link : Live(k) <=> k \in Asked \cup Opened
<1>1. \A t \in Task : Creating(t) => task[t].session \in DOMAIN link
  BY Numbers, CreatingTypes DEF CreationOf
<1>2. \A k \in DOMAIN link : link[k].at \in {"asked", "open", "shut"} /\ link[k].due \in 0 .. 2
  <2>1. link \in Seq(LinkOf(Len(made)))
    BY DEF TypeInv, LinkOK
  <2>2. \A k \in DOMAIN link : link[k] \in LinkOf(Len(made))
    BY <2>1
  <2> QED
    BY <2>2 DEF LinkOf
<1> QED
  BY <1>1, <1>2 DEF Live, Asked, Opened

\* The sessions, once those that are open have been closed: none is live if none was
\* dialling, and what an open one said is still to be heard.
LEMMA ClosedSafe ==
  ASSUME TypeInv, NEW N \in Nat, NEW links \in Seq(LinkOf(N)), Asked = {},
         DOMAIN links = DOMAIN link, FramesReach,
         \A k \in DOMAIN link : links[k].at = link[k].at /\ links[k].for = link[k].for
  PROVE  /\ Closed(links) \in Seq(LinkOf(N)) /\ Len(Closed(links)) = Len(link)
         /\ \A k \in DOMAIN link :
               /\ Closed(links)[k].at = "shut"
               /\ Closed(links)[k].for = link[k].for
               /\ fed[k] \subseteq {link[k].for}
               /\ k \in Opened => Closed(links)[k].due > 0
               /\ k \notin Opened => Closed(links)[k] = links[k]
<1>1. Len(links) = Len(link) /\ DOMAIN link = 1 .. Len(links)
  BY Numbers
<1>2. Closed(links) \in Seq(LinkOf(N)) /\ Len(Closed(links)) = Len(links)
  BY ClosedTypes
<1>3. ASSUME NEW k \in DOMAIN link
      PROVE  /\ Closed(links)[k].at = "shut" /\ Closed(links)[k].for = link[k].for
             /\ fed[k] \subseteq {link[k].for}
             /\ k \in Opened => Closed(links)[k].due > 0
             /\ k \notin Opened => Closed(links)[k] = links[k]
  <2>1. k \in 1 .. Len(links) /\ links[k] \in LinkOf(N) /\ links[k].at \in {"open", "shut"}
    BY <1>1, SessionsTyped DEF Asked
  <2>2. Closed(links)[k] = IF links[k].at = "open" THEN Shut(links[k]) ELSE links[k]
    BY <2>1, ClosedTypes
  <2> QED
    BY <2>1, <2>2, ShutTypes DEF Opened, FramesReach
<1> QED
  BY <1>1, <1>2, <1>3
-----------------------------------------------------------------------------
\* A new account, or a recovered one.
LEMMA LoginSafe ==
  ASSUME AgentInv, NEW t \in Task, StartAuth(t) \/ RecoverSession(t)
  PROVE  SafeInv' /\ reused' = reused
<1>0. TypeInv /\ reused' = reused
  BY DEF AgentInv, StartAuth, RecoverSession
<1> SUFFICES ASSUME ~crossed'
             PROVE  LinksOK' /\ TasksOK' /\ StoreLeads' /\ StatusOK' /\ PhaseOK'
  BY <1>0 DEF SafeInv
<1> PICK N \in Nat : N = Len(made)
  BY <1>0, Numbers
<1>1. CASE StartAuth(t)
  <2>1. ~crossed /\ Asked \cup Opened = {} /\ stored = {} /\ ~Pending
    BY <1>1 DEF StartAuth, Crosses
  <2>2. LinksOK /\ StatusOK
    BY <2>1 DEF AgentInv, SafeInv
  <2>3. \A k \in DOMAIN link : link[k].at = "shut" /\ fed[k] \subseteq {link[k].for}
    BY <1>0, <2>1, <2>2, SessionsTyped DEF LinksOK, Live
  <2>4. saved' = {Begin} /\ Begin.value = "handshake" /\ made'[Begin.exch] < Begin.n
        /\ made'[Begin.exch] <= Begin.n
    <3>1. Begin.exch = N + 1 /\ Begin.n = 1 /\ Begin.value = "handshake"
      BY <1>0, BeginTypes
    <3>2. made' = Append(made, 0) /\ made \in Seq(0 .. MaxMessage)
      BY <1>0, <1>1 DEF StartAuth, TypeInv, MadeOK
    <3>3. made'[N + 1] = 0
      BY <3>2
    <3> QED
      BY <1>1, <3>1, <3>3 DEF StartAuth, Save
  <2>5. Ask(t, "startAuth", Begin, link) /\ "startAuth" \notin Resuming /\ stored' = {}
    BY <1>1, <2>1 DEF StartAuth, Resuming, queue
  <2>6. link \in Seq(LinkOf(N)) /\ Len(link) = Len(link)
    BY <1>0 DEF TypeInv, LinkOK
  <2>7. /\ LinksOK' /\ TasksOK' /\ StoreLeads' /\ PhaseOK'
        /\ (\E k \in DOMAIN link : link[k].due > 0) => StatusOK'
    BY <1>0, <2>1, <2>3, <2>4, <2>5, <2>6, AskSafe
  <2>8. StatusOK'
    <3>1. CASE \E k \in DOMAIN link : link[k].due > 0
      BY <2>7, <3>1
    <3>2. CASE ~\E k \in DOMAIN link : link[k].due > 0
      <4>1. shown.socketStatus \notin {"connecting", "connected"}
        BY <2>1, <2>2, <2>3, <3>2 DEF StatusOK, Live, Pending
      <4> QED
        BY <1>1, <4>1 DEF StatusOK, StartAuth
    <3> QED
      BY <3>1, <3>2
  <2> QED
    BY <2>7, <2>8
<1>2. CASE RecoverSession(t)
  <2>1. PICK s \in saved : /\ s.value = "ready" /\ Save(s)
                           /\ Reconnect(t, "recoverSession", s, link)
    BY <1>0, <1>2, LoadedIsSaved DEF RecoverSession, Ready
  <2>2. ~crossed /\ Asked = {} /\ ~Pending /\ CloseBridge /\ Ask(t, "recoverSession", s, Closed(link))
    BY <2>1 DEF Reconnect, Crosses
  <2>3. LinksOK /\ StoreLeads
    BY <2>2 DEF AgentInv, SafeInv
  <2>4. link \in Seq(LinkOf(N))
    BY <1>0 DEF TypeInv, LinkOK
  <2>5. /\ Closed(link) \in Seq(LinkOf(N)) /\ Len(Closed(link)) = Len(link)
        /\ \A k \in DOMAIN link :
              /\ Closed(link)[k].at = "shut" /\ Closed(link)[k].for = link[k].for
              /\ fed[k] \subseteq {link[k].for}
    <3>1. FramesReach
      BY <2>3 DEF LinksOK, FramesReach
    <3>2. DOMAIN link = DOMAIN link
          /\ \A k \in DOMAIN link : link[k].at = link[k].at /\ link[k].for = link[k].for
      OBVIOUS
    <3>3. /\ Closed(link) \in Seq(LinkOf(N)) /\ Len(Closed(link)) = Len(link)
          /\ \A k \in DOMAIN link :
                /\ Closed(link)[k].at = "shut"
                /\ Closed(link)[k].for = link[k].for
                /\ fed[k] \subseteq {link[k].for}
                /\ k \in Opened => Closed(link)[k].due > 0
                /\ k \notin Opened => Closed(link)[k] = link[k]
      BY <1>0, <2>2, <2>4, <3>1, <3>2, ClosedSafe
    <3> QED
      BY <3>3
  <2>7. saved' = {s} /\ key' = 0 /\ stored' = {} /\ made'[s.exch] <= s.n /\ "recoverSession" \in Resuming
    BY <1>2, <2>1, <2>2, <2>3 DEF Save, CloseBridge, StoreLeads, RecoverSession, Resuming
  <2> QED
    BY <1>0, <2>1, <2>2, <2>5, <2>7, AskSafe
<1> QED
  BY <1>1, <1>2

\* A frame moves the account: the session that carried it is closed, and its end is
\* still to be heard.  Without a bridge key no frame can have been written to it.
LEMMA MigrationSafe ==
  ASSUME AgentInv, NEW t \in Task, NEW k \in DOMAIN link, NEW e \in fed[k], PushMigration(t, k, e)
  PROVE  SafeInv' /\ reused' = reused
<1>0. TypeInv /\ reused' = reused
  BY DEF AgentInv, PushMigration
<1> SUFFICES ASSUME ~crossed'
             PROVE  LinksOK' /\ TasksOK' /\ StoreLeads' /\ StatusOK' /\ PhaseOK'
  BY <1>0 DEF SafeInv
<1>1. ~crossed
  BY DEF PushMigration, Reconnect, Crosses
<1>2. LinksOK
  BY <1>1 DEF AgentInv, SafeInv
<1>3. key # 0
  BY <1>2 DEF LinksOK, PushMigration, Opened, Live
<1>4. Reconnect(t, "pushFrame", Begin, link) /\ k \in Opened /\ Save(Begin) /\ made' = Append(made, 0)
  BY <1>3 DEF PushMigration
<1>5. Asked = {} /\ ~Pending /\ CloseBridge /\ Ask(t, "pushFrame", Begin, Closed(link))
  BY <1>4 DEF Reconnect, Crosses
<1> PICK N \in Nat : N = Len(made)
  BY <1>0, Numbers
<1>6. /\ Closed(link) \in Seq(LinkOf(N)) /\ Len(Closed(link)) = Len(link)
      /\ \A j \in DOMAIN link :
           /\ Closed(link)[j].at = "shut"
           /\ Closed(link)[j].for = link[j].for
           /\ fed[j] \subseteq {link[j].for}
           /\ j \in Opened => Closed(link)[j].due > 0
           /\ j \notin Opened => Closed(link)[j] = link[j]
  <2>1. FramesReach
    BY <1>2 DEF LinksOK, FramesReach
  <2>2. link \in Seq(LinkOf(N)) /\ DOMAIN link = DOMAIN link
        /\ \A j \in DOMAIN link : link[j].at = link[j].at /\ link[j].for = link[j].for
    BY <1>0 DEF TypeInv, LinkOK
  <2> QED
    BY <1>0, <1>5, <2>1, <2>2, ClosedSafe
<1>7. Begin.value = "handshake" /\ made'[Begin.exch] < Begin.n /\ made'[Begin.exch] <= Begin.n
  <2>1. Begin.exch = N + 1 /\ Begin.n = 1 /\ Begin.value = "handshake"
    BY <1>0, BeginTypes
  <2>2. made \in Seq(0 .. MaxMessage)
    BY <1>0 DEF TypeInv, MadeOK
  <2>3. made'[N + 1] = 0
    BY <1>4, <2>2
  <2> QED
    BY <2>1, <2>3
<1>8. saved' = {Begin} /\ stored' = {} /\ "pushFrame" \notin Resuming
  BY <1>4, <1>5 DEF Save, CloseBridge, Resuming
<1>9. /\ LinksOK' /\ TasksOK' /\ StoreLeads' /\ PhaseOK'
      /\ (\E j \in DOMAIN link : Closed(link)[j].due > 0) => StatusOK'
  BY <1>0, <1>5, <1>6, <1>7, <1>8, AskSafe
<1> QED
  BY <1>4, <1>6, <1>9

\* The notification of an end is heard.
LEMMA CloseSafe ==
  ASSUME AgentInv, NEW t \in Task, NEW k \in DOMAIN link, OnSocketClosed(t, k)
  PROVE  SafeInv' /\ reused' = reused
<1>0. TypeInv /\ reused' = reused /\ UNCHANGED <<store, made>>
  BY DEF AgentInv, OnSocketClosed
<1> SUFFICES ASSUME ~crossed'
             PROVE  LinksOK' /\ TasksOK' /\ StoreLeads' /\ StatusOK' /\ PhaseOK'
  BY <1>0 DEF SafeInv
<1> DEFINE heard == [link EXCEPT ![k].due = @ - 1]
<1>1. ~crossed
  BY DEF OnSocketClosed, Reconnect, Crosses
<1>2. LinksOK /\ TasksOK /\ StoreLeads /\ StatusOK /\ PhaseOK
  BY <1>1 DEF AgentInv, SafeInv
<1> PICK N \in Nat : N = Len(made)
  BY <1>0, Numbers
<1>3. link \in Seq(LinkOf(N)) /\ link[k] \in LinkOf(N) /\ link[k].due > 0 /\ link[k].due - 1 \in 0 .. 2
  <2>1. link \in Seq(LinkOf(N)) /\ link[k] \in LinkOf(N)
    BY <1>0 DEF TypeInv, LinkOK
  <2> QED
    BY <2>1 DEF LinkOf, OnSocketClosed
<1>4. /\ heard \in Seq(LinkOf(N)) /\ DOMAIN heard = DOMAIN link
      /\ \A j \in DOMAIN link :
           heard[j].at = link[j].at /\ heard[j].for = link[j].for /\ (j # k => heard[j] = link[j])
  <2> DEFINE l == [link[k] EXCEPT !.due = link[k].due - 1]
  <2>1. l \in LinkOf(N) /\ l.at = link[k].at /\ l.for = link[k].for
    BY <1>3 DEF LinkOf
  <2>2. heard = [link EXCEPT ![k] = l]
    BY <1>3
  <2> HIDE DEF l, heard
  <2> QED
    BY <1>3, <2>1, <2>2
<1>5. CASE /\ ~manual /\ shown.phase = "authenticated"
           /\ \E s \in Loaded : May(s) /\ Reconnect(t, "onSocketClosed", s, heard)
  <2> HIDE DEF heard
  <2>1. PICK s \in saved : Reconnect(t, "onSocketClosed", s, heard)
    BY <1>0, <1>5, LoadedIsSaved
  <2>2. Asked = {} /\ ~Pending /\ CloseBridge /\ Ask(t, "onSocketClosed", s, Closed(heard))
    BY <2>1 DEF Reconnect, Crosses
  <2>3. s.value = "ready" /\ saved' = {s}
    BY <1>0, <1>2, <1>5, <2>2 DEF PhaseOK, TypeInv, StoreOK, store
  <2>4. /\ Closed(heard) \in Seq(LinkOf(N)) /\ Len(Closed(heard)) = Len(link)
        /\ \A j \in DOMAIN link :
             /\ Closed(heard)[j].at = "shut"
             /\ Closed(heard)[j].for = link[j].for
             /\ fed[j] \subseteq {link[j].for}
             /\ j \in Opened => Closed(heard)[j].due > 0
             /\ j \notin Opened => Closed(heard)[j] = heard[j]
    <3>1. FramesReach
      BY <1>2 DEF LinksOK, FramesReach
    <3> QED
      BY <1>0, <1>4, <2>2, <3>1, ClosedSafe
  <2>5. key' = 0 /\ stored' = {} /\ made'[s.exch] <= s.n /\ "onSocketClosed" \in Resuming
    BY <1>0, <1>2, <2>2 DEF CloseBridge, StoreLeads, Resuming
  <2> QED
    BY <1>0, <2>2, <2>3, <2>4, <2>5, AskSafe
<1>6. CASE /\ link' = heard /\ Crosses(PendingOf(k)) /\ UNCHANGED <<key, queue, task, fed>>
           /\ \/ Show(shown.phase, "disconnected")
              \/ shown.phase = "authenticated" /\ Show("authenticated", "error")
              \/ Show("error", "error")
  <2> HIDE DEF heard
  <2>1. ~PendingOf(k) /\ UNCHANGED <<key, stored, task, fed, saved, made>> /\ link' = heard
    BY <1>0, <1>6 DEF Crosses, store, queue
  <2>2. LinksOK'
    BY <1>2, <1>4, <2>1 DEF LinksOK, Live
  <2>3. TasksOK'
    <3>1. \A j \in DOMAIN link :
            /\ link'[j].for = link[j].for
            /\ link'[j].at # "shut" => Live(j)
            /\ PendingOf(j) /\ (Live(j) \/ link[j].due > 0) =>
                 link'[j].at # "shut" \/ link'[j].due > 0
            /\ PendingOf(j) /\ fed[j] = {} => fed'[j] = {}
      BY <1>4, <2>1 DEF Live
    <3> QED
      BY <1>0, <1>2, <1>4, <2>1, <3>1, SessionsTyped, TasksKept
  <2>4. StoreLeads'
    BY <1>2, <2>1 DEF StoreLeads
  <2>5. StatusOK'
    BY <1>6 DEF StatusOK, Show
  <2>6. PhaseOK'
    BY <1>2, <1>6, <2>1 DEF PhaseOK, Pending, Creating, Show
  <2> QED
    BY <2>2, <2>3, <2>4, <2>5, <2>6
<1> QED
  BY <1>5, <1>6 DEF OnSocketClosed

\* The session that was asked for is granted: the frame it was asked for is sent, of
\* the exchange that it is for and with a number that is new.
LEMMA CreatedSafe ==
  ASSUME AgentInv, NEW t \in Task, SessionCreated(t)
  PROVE  SafeInv' /\ reused' = reused
<1>0. TypeInv /\ Creating(t) /\ UNCHANGED <<link, crossed>> /\ key' = task[t].session
      /\ task' = [task EXCEPT ![t] = Free]
  BY DEF AgentInv, SessionCreated
<1> PICK s, k, N : s = task[t].snapshot /\ k = task[t].session /\ N = Len(made)
  OBVIOUS
<1>1. /\ s \in SnapOf(N) /\ k \in DOMAIN link /\ N \in Nat /\ s.n \in Nat /\ key' # 0
      /\ task[t].by \in Resuming => May(s)
  <2>1. task[t] \in CreationOf(Len(made), Len(link)) /\ Len(made) \in Nat /\ DOMAIN link = 1 .. Len(link)
    BY <1>0, CreatingTypes, Numbers
  <2> QED
    BY <1>0, <2>1 DEF CreationOf, SnapOf
<1>2. CASE crossed
  <2>1. CASE SendBridgeBytes(s, 1)
    BY <1>0, <1>1, <1>2, <2>1, SendEffect DEF SafeInv
  <2>2. CASE UNCHANGED <<store, queue, wire>>
    BY <1>0, <1>2, <2>2 DEF SafeInv, wire
  <2>3. CASE task[t].by \in Resuming /\ SendBridgeBytes(Sent(s, s.value), 1)
    <3>1. s.value \in Value
      BY <1>1 DEF SnapOf
    <3>2. Sent(s, s.value) \in SnapOf(N)
      BY <1>1, <2>3, <3>1, SentTypes
    <3> QED
      BY <1>0, <1>2, <2>3, <3>2, SendEffect DEF SafeInv
  <2> QED
    BY <2>1, <2>2, <2>3 DEF SessionCreated, ReconnectCreated, AuthCreated, Resuming
<1>3. CASE ~crossed
  <2>1. LinksOK /\ TasksOK /\ AwaitsSession(k) /\ GoesOn(task[t])
    BY <1>0, <1>3 DEF AgentInv, SafeInv, TasksOK
  <2>2. PICK r : /\ r \in SnapOf(N) /\ r.exch = s.exch /\ made[r.exch] + 1 <= r.n
                 /\ Save(r) /\ SendBridgeBytes(r, 1)
                 /\ shown' \in [phase : Phase, socketStatus : Status]
                 /\ shown'.phase = "authenticated" => r.value = "ready"
    <3>1. made[s.exch] \in Nat
      <4>1. made \in Seq(0 .. MaxMessage) /\ s.exch \in 1 .. Len(made)
        BY <1>0, <1>1 DEF TypeInv, MadeOK, SnapOf
      <4>2. \A e \in 1 .. Len(made) : made[e] \in Nat
        BY <1>0, <4>1, Numbers
      <4> QED
        BY <4>1, <4>2
    <3>2. CASE task[t].by \notin Resuming /\ Save(s) /\ SendBridgeBytes(s, 1)
               /\ \E c \in Status : Show("connecting", c)
      <4>1. made[s.exch] + 1 <= s.n
        BY <1>1, <2>1, <3>1, <3>2 DEF GoesOn
      <4> QED
        BY <1>1, <3>2, <4>1 DEF Show, Phase
    <3>3. CASE task[t].by \in Resuming /\ ReconnectCreated(t, s)
      <4>1. s.value = "ready" /\ made[s.exch] <= s.n
        BY <2>1, <3>3 DEF GoesOn
      <4>2. /\ Save(Sent(s, s.value)) /\ SendBridgeBytes(Sent(s, s.value), 1)
            /\ Show("authenticated", "connecting")
        BY <3>3, <4>1 DEF ReconnectCreated
      <4>3. s.value \in Value
        BY <4>1 DEF Value
      <4>4. /\ Sent(s, s.value) \in SnapOf(N) /\ Sent(s, s.value).exch = s.exch
            /\ Sent(s, s.value).n = s.n + 1 /\ Sent(s, s.value).value = "ready"
        BY <1>1, <3>3, <4>1, <4>3, SentTypes
      <4>5. made[s.exch] + 1 <= s.n + 1
        BY <1>1, <3>1, <4>1
      <4> QED
        BY <4>2, <4>4, <4>5 DEF Show, Phase, Status
    <3>4. "connecting" \in Status /\ shown.socketStatus \in Status
      BY <1>0 DEF TypeInv, ViewOK, Status
    <3> QED
      BY <3>2, <3>3, <3>4 DEF SessionCreated, AuthCreated, Resuming
  <2>3. /\ made'[r.exch] = r.n /\ reused' = reused /\ stored' \subseteq stored \cup {r.exch}
        /\ \A j \in DOMAIN link :
             fed'[j] = fed[j] \/ (link[j].at = "open" /\ fed'[j] = fed[j] \cup {r.exch})
    BY <1>0, <2>2, SendEffect
  <2>4. saved' = {r}
    BY <2>2 DEF Save
  <2>5. \A j \in DOMAIN link : Live(j) => r.exch = link[j].for
    BY <2>1, <2>2 DEF AwaitsSession, GoesOn
  <2>6. LinksOK'
    BY <1>0, <1>1, <2>1, <2>3, <2>4, <2>5, LinksKept
  <2>7. \A u \in Task : ~Creating(u)'
    <3>1. \A u \in Task : u # t => ~Creating(u)
      BY <1>0, <2>1 DEF TasksOK
    <3>2. task'[t] = Free /\ \A u \in Task : u # t => task'[u] = task[u]
      BY <1>0 DEF TypeInv, TaskOK
    <3> QED
      BY <3>1, <3>2 DEF Creating, Free
  <2>8. TasksOK' /\ ~Pending'
    BY <2>7 DEF TasksOK, Pending
  <2>9. StoreLeads'
    <3>1. made'[r.exch] <= r.n
      BY <2>2, <2>3 DEF SnapOf
    <3> QED
      BY <2>4, <3>1 DEF StoreLeads
  <2>10. StatusOK'
    <3>1. k \in DOMAIN link' /\ (link'[k].at # "shut" \/ link'[k].due > 0)
      BY <1>0, <1>1, <2>1 DEF AwaitsSession, Live
    <3>2. ~PendingOf(k)'
      BY <2>7 DEF PendingOf, Creating
    <3> QED
      BY <3>1, <3>2 DEF StatusOK, Live, PendingOf, Creating
  <2>11. PhaseOK'
    BY <2>2, <2>4 DEF PhaseOK
  <2> QED
    BY <2>3, <2>6, <2>8, <2>9, <2>10, <2>11 DEF SafeInv
<1> QED
  BY <1>2, <1>3

\* The session that was asked for is refused.
LEMMA RefusedSafe ==
  ASSUME AgentInv, NEW t \in Task, SessionRefused(t)
  PROVE  SafeInv' /\ reused' = reused
<1>0. /\ TypeInv /\ Creating(t) /\ task' = [task EXCEPT ![t] = Free] /\ reused' = reused
      /\ UNCHANGED <<cache, saved, key, memory, stored, fed, made, crossed>>
      /\ link' = [link EXCEPT ![task[t].session].at = "shut"]
  BY DEF AgentInv, SessionRefused, store, queue, wire
<1> SUFFICES ASSUME ~crossed'
             PROVE  LinksOK' /\ TasksOK' /\ StoreLeads' /\ StatusOK' /\ PhaseOK'
  BY <1>0 DEF SafeInv
<1> PICK k : k = task[t].session
  OBVIOUS
<1>1. LinksOK /\ TasksOK /\ StoreLeads /\ StatusOK /\ AwaitsSession(k) /\ GoesOn(task[t])
  BY <1>0 DEF AgentInv, SafeInv, TasksOK
<1>2. /\ k \in DOMAIN link /\ DOMAIN link' = DOMAIN link
      /\ link'[k].at = "shut" /\ link'[k].for = link[k].for
      /\ \A j \in DOMAIN link : j # k => link'[j] = link[j]
  <2>1. k \in DOMAIN link
    BY <1>0, SessionsTyped
  <2>2. link \in Seq(LinkOf(Len(made))) /\ link[k] \in LinkOf(Len(made))
    BY <1>0, <2>1 DEF TypeInv, LinkOK
  <2> DEFINE l == [link[k] EXCEPT !.at = "shut"]
  <2>3. link' = [link EXCEPT ![k] = l]
    BY <1>0
  <2>4. l.at = "shut" /\ l.for = link[k].for
    BY <2>2 DEF LinkOf
  <2> HIDE DEF l
  <2> QED
    BY <2>1, <2>2, <2>3, <2>4
<1>3. \A u \in Task : ~Creating(u)'
  <2>1. \A u \in Task : u # t => ~Creating(u)
    BY <1>0, <1>1 DEF TasksOK
  <2>2. task'[t] = Free /\ \A u \in Task : u # t => task'[u] = task[u]
    BY <1>0 DEF TypeInv, TaskOK
  <2> QED
    BY <2>1, <2>2 DEF Creating, Free
<1>4. LinksOK'
  <2>1. \A j \in DOMAIN link : link'[j].at = "shut" /\ fed'[j] \subseteq {link'[j].for}
    BY <1>0, <1>1, <1>2 DEF AwaitsSession, Live, LinksOK
  <2> QED
    BY <1>0, <1>1, <1>2, <2>1 DEF LinksOK, Live
<1>5. TasksOK' /\ StoreLeads'
  BY <1>0, <1>1, <1>3 DEF TasksOK, StoreLeads
<1>6. StatusOK'
  <2>1. CASE task[t].by \in Resuming
    BY <2>1 DEF SessionRefused, Resuming, Show, StatusOK
  <2>2. CASE task[t].by \notin Resuming
    <3>1. shown'.socketStatus = shown.socketStatus
      BY <2>2 DEF SessionRefused, Resuming, Show
    <3>2. ASSUME NEW j \in DOMAIN link, Live(j) \/ link[j].due > 0, ~PendingOf(j)
          PROVE  StatusOK'
      <4>1. j # k
        BY <1>0, <3>2 DEF PendingOf
      <4>2. j \in DOMAIN link' /\ (link'[j].at # "shut" \/ link'[j].due > 0)
        BY <1>2, <3>2, <4>1 DEF Live
      <4>3. ~PendingOf(j)'
        BY <1>3 DEF PendingOf, Creating
      <4> QED
        BY <4>2, <4>3 DEF StatusOK, Live, PendingOf, Creating
    <3>3. \A u \in Task : ~(Creating(u) /\ task[u].by \in Resuming)
      BY <1>0, <1>1, <2>2 DEF TasksOK
    <3> QED
      BY <1>1, <3>1, <3>2, <3>3 DEF StatusOK
  <2> QED
    BY <2>1, <2>2
<1>7. PhaseOK'
  <2>1. CASE task[t].by \in Resuming
    BY <1>0, <1>1, <2>1 DEF GoesOn, PhaseOK
  <2>2. CASE task[t].by \notin Resuming
    BY <2>2 DEF SessionRefused, Resuming, Show, PhaseOK
  <2> QED
    BY <2>1, <2>2
<1> QED
  BY <1>4, <1>5, <1>6, <1>7

\* The account moves from its stored snapshot to another of the same exchange, and the
\* frames that this makes are sent, if there are any and a bridge for them.
LEMMA AdvanceSafe ==
  ASSUME AgentInv, NEW s \in saved, NEW r \in SnapOf(Len(made)), r.exch = s.exch,
         NEW sends \in Nat, s.n + sends <= r.n, Save(r), Execute(r, sends),
         UNCHANGED <<key, task, link, crossed>>,
         Pending /\ s.value = "ready" => r.value = "ready",
         Pending /\ s.value = "handshake" => r = s /\ sends = 0,
         shown'.phase = "authenticated" => r.value = "ready",
         shown'.socketStatus = shown.socketStatus \/ \E k \in DOMAIN link : Live(k) /\ ~PendingOf(k)
  PROVE  SafeInv' /\ reused' = reused
<1>0. TypeInv /\ s \in SnapOf(Len(made)) /\ saved' = {r} /\ saved = {s}
  BY DEF AgentInv, TypeInv, StoreOK, Save
<1>n. s.n \in Nat /\ r.n \in Nat /\ made[s.exch] \in Nat
  <2>1. s.exch \in 1 .. Len(made) /\ made \in Seq(0 .. MaxMessage) /\ Len(made) \in Nat
    BY <1>0, Numbers DEF SnapOf, TypeInv, MadeOK
  <2>2. \A e \in 1 .. Len(made) : made[e] \in Nat
    BY <1>0, <2>1, Numbers
  <2> QED
    BY <1>0, <2>1, <2>2, Numbers DEF SnapOf
<1>p. ~crossed => LinksOK /\ TasksOK /\ StoreLeads /\ StatusOK /\ PhaseOK /\ made[s.exch] <= s.n
  BY DEF AgentInv, SafeInv, StoreLeads
<1>e. /\ reused' = reused
      /\ ~crossed => made'[r.exch] <= r.n
      /\ \/ /\ key' # 0 /\ stored' \subseteq stored \cup {r.exch}
            /\ \A k \in DOMAIN link :
                 fed'[k] = fed[k] \/ (link[k].at = "open" /\ fed'[k] = fed[k] \cup {r.exch})
         \/ UNCHANGED <<key, fed, stored>>
      /\ ~crossed /\ Pending => UNCHANGED <<fed, stored, made>>
  <2>1. CASE sends > 0 /\ key # 0
    <3>1. SendBridgeBytes(r, sends)
      BY <2>1 DEF Execute
    <3>2. crossed \/ made[r.exch] + sends <= r.n
      BY <1>p, <1>n, <2>1
    <3>3. /\ made'[r.exch] = r.n /\ reused' = reused
          /\ stored' \subseteq stored \cup {r.exch}
          /\ \A k \in DOMAIN link :
               fed'[k] = fed[k] \/ (link[k].at = "open" /\ fed'[k] = fed[k] \cup {r.exch})
      BY <1>0, <3>1, <3>2, SendEffect
    <3>4. ~crossed => ~Pending
      <4> SUFFICES ASSUME ~crossed, Pending
                   PROVE  FALSE
        OBVIOUS
      <4>1. s.value = "handshake"
        BY <1>p, <2>1 DEF Pending, TasksOK, AwaitsSession
      <4> QED
        BY <2>1, <4>1
    <3> QED
      BY <1>n, <2>1, <3>3, <3>4
  <2>2. CASE ~(sends > 0 /\ key # 0)
    <3>1. UNCHANGED <<memory, stored, fed, made, reused>>
      BY <2>2 DEF Execute, queue, wire
    <3>2. ~crossed => made[r.exch] <= r.n
      BY <1>n, <1>p
    <3> QED
      BY <3>1, <3>2
  <2> QED
    BY <2>1, <2>2
<1> SUFFICES ASSUME ~crossed
             PROVE  LinksOK' /\ TasksOK' /\ StoreLeads' /\ StatusOK' /\ PhaseOK'
  BY <1>e DEF SafeInv
<1>1. LinksOK'
  <2>1. \A k \in DOMAIN link : Live(k) => r.exch = link[k].for
    BY <1>p DEF LinksOK
  <2> QED
    BY <1>0, <1>e, <1>p, <2>1, LinksKept
<1>2. TasksOK'
  <2>1. \A t \in Task : Creating(t)' <=> Creating(t)
    BY DEF Creating
  <2>2. ASSUME NEW t \in Task, Creating(t)
        PROVE  AwaitsSession(task[t].session)' /\ GoesOn(task[t])'
    <3>1. AwaitsSession(task[t].session) /\ GoesOn(task[t]) /\ UNCHANGED <<fed, stored, made>>
      BY <1>e, <1>p, <2>2 DEF TasksOK, Pending
    <3>2. s.value = "ready" => r.value = "ready"
      BY <2>2 DEF Pending
    <3>3. s.value = "handshake" => r.value = "handshake"
      BY <2>2 DEF Pending
    <3>4. AwaitsSession(task[t].session)'
      BY <1>0, <3>1, <3>3 DEF AwaitsSession, Live
    <3>5. GoesOn(task[t])'
      BY <1>0, <3>1, <3>2 DEF GoesOn
    <3> QED
      BY <3>4, <3>5
  <2> QED
    BY <1>p, <2>1, <2>2 DEF TasksOK
<1>3. StoreLeads'
  BY <1>0, <1>e DEF StoreLeads
<1>4. StatusOK'
  <2>1. \A k \in DOMAIN link : (Live(k) /\ ~PendingOf(k)) => (Live(k)' /\ ~PendingOf(k)')
    BY DEF Live, PendingOf, Creating
  <2>2. (\E k \in DOMAIN link : Live(k) /\ ~PendingOf(k)) => StatusOK'
    BY <2>1 DEF StatusOK
  <2>3. shown'.socketStatus = shown.socketStatus => StatusOK'
    BY <1>p DEF StatusOK, Live, PendingOf, Creating
  <2> QED
    BY <2>2, <2>3
<1>5. PhaseOK'
  BY <1>0 DEF PhaseOK
<1> QED
  BY <1>1, <1>2, <1>3, <1>4, <1>5

\* Only the view of the account changes, to "idle".
LEMMA IdleSafe ==
  ASSUME AgentInv, UNCHANGED <<saved, key, stored, task, link, wire, crossed>>,
         Show("idle", "disconnected")
  PROVE  SafeInv' /\ reused' = reused
<1>1. UNCHANGED <<fed, made, reused>>
  BY DEF wire
<1> SUFFICES ASSUME ~crossed'
             PROVE  LinksOK' /\ TasksOK' /\ StoreLeads' /\ StatusOK' /\ PhaseOK'
  BY <1>1 DEF SafeInv
<1>2. LinksOK /\ TasksOK /\ StoreLeads
  BY DEF AgentInv, SafeInv
<1>3. LinksOK' /\ StoreLeads'
  BY <1>1, <1>2 DEF LinksOK, Live, StoreLeads
<1>4. TasksOK'
  BY <1>1, <1>2 DEF TasksOK, AwaitsSession, GoesOn, Live, Creating
<1>5. StatusOK' /\ PhaseOK'
  BY DEF Show, StatusOK, PhaseOK
<1> QED
  BY <1>3, <1>4, <1>5

\* The calls of the browser, and a frame from the bridge.
LEMMA CallSafe ==
  ASSUME AgentInv,
         \/ Submit \/ RefreshIgnored \/ RecoverMissing \/ Call \/ BrowserConnects
         \/ \E k \in DOMAIN link : \E e \in fed[k] : PushFrame(k, e)
  PROVE  SafeInv' /\ reused' = reused
<1>0. TypeInv /\ Loaded = saved /\ \A s \in saved : s \in SnapOf(Len(made))
  BY LoadedIsSaved DEF AgentInv, TypeInv, StoreOK
<1>n. Len(made) \in Nat
  BY <1>0, Numbers
<1>1. CASE Submit
  <2>1. PICK s \in saved : /\ s.value \in Prompts /\ May(s)
                           /\ Save(Sent(s, "authorizing")) /\ Execute(Sent(s, "authorizing"), 1)
    BY <1>0, <1>1 DEF Submit
  <2> DEFINE r == Sent(s, "authorizing")
  <2>2. "authorizing" \in Value /\ s \in SnapOf(Len(made)) /\ s.n \in Nat
    BY <1>0, <1>n, Numbers DEF Value, SnapOf
  <2>3. r \in SnapOf(Len(made)) /\ r.exch = s.exch /\ r.n = s.n + 1
    BY <1>n, <2>1, <2>2, SentTypes
  <2>4. s.value \notin {"ready", "handshake"}
    BY <2>1, AgentAssumption
  <2>5. UNCHANGED <<key, task, link, crossed>> /\ shown'.phase # "authenticated"
        /\ shown'.socketStatus = shown.socketStatus
    BY <1>1 DEF Submit, Show
  <2>6. Save(r) /\ Execute(r, 1)
    BY <2>1
  <2> HIDE DEF r
  <2>7. s.n + 1 <= r.n
    BY <2>2, <2>3
  <2> QED
    BY <2>3, <2>4, <2>5, <2>6, <2>7, AdvanceSafe
<1>2. CASE Call
  <2>1. PICK s \in saved : /\ s.value = "ready" /\ May(s)
                           /\ Save(Sent(s, "ready")) /\ Execute(Sent(s, "ready"), 1)
    BY <1>0, <1>2 DEF Call, Ready
  <2> DEFINE r == Sent(s, "ready")
  <2>2. "ready" \in Value /\ s \in SnapOf(Len(made)) /\ s.n \in Nat
    BY <1>0, <1>n, Numbers DEF Value, SnapOf
  <2>3. r \in SnapOf(Len(made)) /\ r.exch = s.exch /\ r.n = s.n + 1 /\ r.value = "ready"
    BY <1>n, <2>1, <2>2, SentTypes
  <2>5. UNCHANGED <<key, task, link, crossed>> /\ shown'.socketStatus = shown.socketStatus
    BY <1>2 DEF Call, Show
  <2>6. Save(r) /\ Execute(r, 1) /\ s.value # "handshake"
    BY <2>1
  <2> HIDE DEF r
  <2>7. s.n + 1 <= r.n
    BY <2>2, <2>3
  <2> QED
    BY <2>3, <2>5, <2>6, <2>7, AdvanceSafe
<1>3. CASE RefreshIgnored
  <2>1. PICK s \in saved : Save(s) /\ Show(PhaseOf(s.value), shown.socketStatus)
    BY <1>0, <1>3 DEF RefreshIgnored
  <2>2. s \in SnapOf(Len(made)) /\ s.n \in Nat /\ s.n + 0 <= s.n
    BY <1>0, <1>n, Numbers DEF SnapOf
  <2>3. UNCHANGED <<key, task, link, crossed>> /\ Execute(s, 0)
        /\ shown'.socketStatus = shown.socketStatus
    BY <1>3, <2>1 DEF RefreshIgnored, Execute, Show
  <2>4. shown'.phase = "authenticated" => s.value = "ready"
    BY <2>1 DEF Show, PhaseOf
  <2> QED
    BY <2>1, <2>2, <2>3, <2>4, AdvanceSafe
<1>4. CASE RecoverMissing
  <2>1. UNCHANGED <<saved, key, stored, task, link, wire, crossed>> /\ Show("idle", "disconnected")
    BY <1>4 DEF RecoverMissing, store, queue
  <2> QED
    BY <2>1, IdleSafe
<1>5. CASE BrowserConnects
  <2>1. UNCHANGED <<saved, key, stored, task, link, wire, crossed>> /\ Show("idle", "disconnected")
    BY <1>5 DEF BrowserConnects, Reset, Show, queue
  <2> QED
    BY <2>1, IdleSafe
<1>6. CASE \E k \in DOMAIN link : \E e \in fed[k] : PushFrame(k, e)
  <2>k. PICK k \in DOMAIN link : \E e \in fed[k] : PushFrame(k, e)
    BY <1>6
  <2>1. PICK e \in fed[k] : PushFrame(k, e)
    BY <2>k
  <2>s. PICK s \in saved : \E r \in Outcomes(s, e) :
             /\ Save(r.snapshot) /\ Execute(r.snapshot, r.sends)
             /\ Show(PhaseOf(r.snapshot.value),
                     IF r.snapshot.value = "ready" THEN "connected" ELSE shown.socketStatus)
    BY <1>0, <2>1 DEF PushFrame
  <2>2. PICK o \in Outcomes(s, e) :
             /\ Save(o.snapshot) /\ Execute(o.snapshot, o.sends)
             /\ Show(PhaseOf(o.snapshot.value),
                     IF o.snapshot.value = "ready" THEN "connected" ELSE shown.socketStatus)
    BY <2>s
  <2>3. /\ o.snapshot \in SnapOf(Len(made)) /\ o.snapshot.exch = s.exch /\ o.sends \in Nat
        /\ s \in SnapOf(Len(made)) /\ s.n \in Nat /\ o.snapshot.n = s.n + o.sends
    BY <1>0, <1>n, <2>2, OutcomeTypes, Numbers DEF SnapOf
  <2>4. s.n + o.sends <= o.snapshot.n
    BY <2>3
  <2>5. UNCHANGED <<key, task, link, crossed>> /\ link[k].at = "open" /\ e \in fed[k]
    BY <2>1 DEF PushFrame, Opened
  <2>6. CASE crossed
    <3>1. CASE SendBridgeBytes(o.snapshot, o.sends)
      BY <1>0, <2>3, <2>5, <2>6, <3>1, SendEffect DEF SafeInv
    <3>2. CASE UNCHANGED wire
      BY <2>5, <2>6, <3>2 DEF SafeInv, wire
    <3> QED
      BY <2>2, <3>1, <3>2 DEF Execute
  <2>7. CASE ~crossed
    <3>1. TasksOK
      BY <2>7 DEF AgentInv, SafeInv
    <3>2. ~Pending
      BY <2>5, <3>1 DEF TasksOK, Pending, AwaitsSession, Live
    <3>3. Live(k) /\ ~PendingOf(k)
      BY <2>5, <3>2 DEF Live, Pending, PendingOf
    <3>4. shown'.phase = "authenticated" => o.snapshot.value = "ready"
      BY <2>2 DEF Show, PhaseOf
    <3> QED
      BY <2>2, <2>3, <2>4, <2>5, <3>2, <3>3, <3>4, AdvanceSafe
  <2> QED
    BY <2>6, <2>7
<1> QED
  BY <1>1, <1>2, <1>3, <1>4, <1>5, <1>6

\* Fewer sessions are live than before, and nothing more was written to any.
LEMMA LinksFewer ==
  ASSUME LinksOK, DOMAIN link' = DOMAIN link, fed' = fed, saved' \subseteq saved,
         stored' \subseteq stored,
         \A k \in DOMAIN link :
            /\ link'[k].for = link[k].for
            /\ link'[k].at # "shut" => link'[k].at = link[k].at,
         \/ key' = key
         \/ stored' = {} /\ \A k \in DOMAIN link : link'[k].at # "shut" => link'[k].at = "asked"
  PROVE  LinksOK'
<1>1. \A j, k \in DOMAIN link' : Live(j)' /\ Live(k)' => j = k
  BY DEF LinksOK, Live
<1>2. ASSUME NEW k \in DOMAIN link'
      PROVE  /\ link'[k].at = "asked" => fed'[k] = {}
             /\ fed'[k] \subseteq {link'[k].for}
             /\ link'[k].at # "shut" =>
                  /\ stored' \subseteq {link'[k].for}
                  /\ \A s \in saved' : s.exch = link'[k].for
                  /\ key' = 0 => fed'[k] = {}
  <2>1. k \in DOMAIN link /\ link'[k].for = link[k].for
    OBVIOUS
  <2>2. link'[k].at = "asked" => fed'[k] = {}
    BY <2>1 DEF LinksOK
  <2>3. fed'[k] \subseteq {link'[k].for}
    BY <2>1 DEF LinksOK
  <2>4. ASSUME link'[k].at # "shut"
        PROVE  /\ stored' \subseteq {link'[k].for}
               /\ \A s \in saved' : s.exch = link'[k].for
               /\ key' = 0 => fed'[k] = {}
    <3>1. Live(k) /\ link'[k].at = link[k].at
      BY <2>1, <2>4 DEF Live
    <3>2. stored' \subseteq {link'[k].for} /\ \A s \in saved' : s.exch = link'[k].for
      BY <2>1, <3>1 DEF LinksOK
    <3>3. key' = 0 => fed'[k] = {}
      BY <2>1, <2>2, <2>4, <3>1 DEF LinksOK
    <3> QED
      BY <3>2, <3>3
  <2> QED
    BY <2>2, <2>3, <2>4
<1>3. key' = 0 => stored' = {}
  BY DEF LinksOK
<1> QED
  BY <1>1, <1>2, <1>3 DEF LinksOK, Live

LEMMA ClosedLinks ==
  ASSUME TypeInv, link' = Closed(link)
  PROVE  /\ DOMAIN link' = DOMAIN link
         /\ \A k \in DOMAIN link :
              /\ link'[k].for = link[k].for
              /\ link'[k].at # "shut" => link'[k].at = "asked" /\ link[k].at = "asked"
              /\ Live(k) \/ link[k].due > 0 => link'[k].at # "shut" \/ link'[k].due > 0
<1> PICK N \in Nat : N = Len(made)
  BY Numbers
<1>1. link \in Seq(LinkOf(N)) /\ DOMAIN link = 1 .. Len(link)
  BY Numbers DEF TypeInv, LinkOK
<1>2. DOMAIN link' = DOMAIN link
  BY DEF Closed
<1>3. ASSUME NEW k \in DOMAIN link
      PROVE  /\ link'[k].for = link[k].for
             /\ link'[k].at # "shut" => link'[k].at = "asked" /\ link[k].at = "asked"
             /\ Live(k) \/ link[k].due > 0 => link'[k].at # "shut" \/ link'[k].due > 0
  <2>1. link[k] \in LinkOf(N) /\ link[k].at \in {"asked", "open", "shut"}
    BY <1>1, SessionsTyped
  <2>2. link'[k] = IF link[k].at = "open" THEN Shut(link[k]) ELSE link[k]
    BY DEF Closed
  <2> QED
    BY <2>1, <2>2, ShutTypes DEF Live
<1> QED
  BY <1>2, <1>3

\* The account logs out, or its socket is closed, or the object starts again.
LEMMA AccountSafe ==
  ASSUME AgentInv, Logout \/ CloseCurrentSocket \/ Restart
  PROVE  SafeInv' /\ reused' = reused
<1>0. TypeInv /\ reused' = reused /\ UNCHANGED <<fed, made>>
  BY DEF AgentInv, Logout, CloseCurrentSocket, Restart, wire
<1> SUFFICES ASSUME ~crossed'
             PROVE  LinksOK' /\ TasksOK' /\ StoreLeads' /\ StatusOK' /\ PhaseOK'
  BY <1>0 DEF SafeInv
<1>1. ~crossed
  BY DEF Logout, CloseCurrentSocket, Restart, Crosses
<1>2. LinksOK /\ TasksOK /\ StoreLeads /\ StatusOK /\ PhaseOK
  BY <1>1 DEF AgentInv, SafeInv
<1>3. CASE Logout
  <2>1. /\ ~Pending /\ key' = 0 /\ stored' = {} /\ saved' = {} /\ link' = Closed(link)
        /\ task' = task /\ Show("idle", "disconnected")
    BY <1>3 DEF Logout, CloseBridge, Crosses
  <2>2. LinksOK'
    BY <1>0, <1>2, <2>1, ClosedLinks, LinksFewer
  <2>3. TasksOK'
    BY <2>1 DEF TasksOK, Pending, Creating
  <2> QED
    BY <2>1, <2>2, <2>3 DEF StoreLeads, StatusOK, PhaseOK, Show
<1>4. CASE CloseCurrentSocket
  <2>1. /\ key' = 0 /\ stored' = {} /\ link' = Closed(link) /\ UNCHANGED <<saved, task>>
        /\ Show(shown.phase, "disconnected")
    BY <1>4 DEF CloseCurrentSocket, CloseBridge, store
  <2>2. LinksOK'
    BY <1>0, <1>2, <2>1, ClosedLinks, LinksFewer
  <2>3. TasksOK'
    <3>1. /\ DOMAIN link' = DOMAIN link
          /\ \A k \in DOMAIN link :
               /\ link'[k].for = link[k].for
               /\ link'[k].at # "shut" => Live(k)
               /\ PendingOf(k) /\ (Live(k) \/ link[k].due > 0) =>
                    link'[k].at # "shut" \/ link'[k].due > 0
               /\ PendingOf(k) /\ fed[k] = {} => fed'[k] = {}
      BY <1>0, <2>1, ClosedLinks DEF Live
    <3> QED
      BY <1>0, <1>2, <2>1, <3>1, SessionsTyped, TasksKept
  <2>4. StoreLeads' /\ StatusOK'
    BY <1>0, <1>2, <2>1 DEF StoreLeads, StatusOK, Show
  <2>5. PhaseOK'
    BY <1>2, <2>1 DEF PhaseOK, Pending, Creating, Show
  <2> QED
    BY <2>2, <2>3, <2>4, <2>5
<1>5. CASE Restart
  <2>1. /\ ~Pending /\ UNCHANGED <<saved, key, stored, link>>
        /\ \A t \in Task : ~Creating(t)'
    BY <1>5 DEF Restart, Crosses, Creating, Free
  <2>2. LinksOK' /\ TasksOK' /\ StoreLeads'
    BY <1>0, <1>2, <2>1 DEF LinksOK, TasksOK, StoreLeads, Live
  <2>3. \/ shown' = [phase |-> "idle", socketStatus |-> "disconnected"]
        \/ shown' = shown
        \/ /\ shown' = [phase |-> "authenticated", socketStatus |-> "disconnected"]
           /\ \E s \in saved : s.value = "ready"
    BY <1>5 DEF Restart, Reset
  <2>4. PhaseOK'
    BY <1>2, <2>1, <2>3 DEF PhaseOK
  <2>5. StatusOK'
    <3>1. shown'.socketStatus \in {"connecting", "connected"} =>
            shown'.socketStatus = shown.socketStatus
      BY <2>3
    <3>2. \A k \in DOMAIN link' : ~PendingOf(k)'
      BY <2>1 DEF PendingOf, Creating
    <3> QED
      BY <1>2, <2>1, <3>1, <3>2 DEF StatusOK, Pending, Live
  <2> QED
    BY <2>2, <2>4, <2>5
<1> QED
  BY <1>3, <1>4, <1>5

\* A bridge connection opens, or a session ends.
LEMMA BridgeSafe ==
  ASSUME AgentInv, NEW k \in DOMAIN link, SessionConnects(k) \/ SessionEnds(k)
  PROVE  SafeInv' /\ reused' = reused
<1>0. /\ TypeInv /\ reused' = reused /\ UNCHANGED <<saved, key, shown, task, made, crossed>>
      /\ stored' \subseteq stored
  BY DEF AgentInv, SessionConnects, SessionEnds, store, queue, wire
<1> SUFFICES ASSUME ~crossed
             PROVE  LinksOK' /\ TasksOK' /\ StoreLeads' /\ StatusOK' /\ PhaseOK'
  BY <1>0 DEF SafeInv
<1>2. LinksOK /\ TasksOK /\ StoreLeads /\ StatusOK /\ PhaseOK
  BY <1>0 DEF AgentInv, SafeInv
<1> PICK N \in Nat : N = Len(made)
  BY <1>0, Numbers
<1>3. link \in Seq(LinkOf(N)) /\ link[k] \in LinkOf(N) /\ Live(k)
  <2>1. link \in Seq(LinkOf(N))
    BY <1>0 DEF TypeInv, LinkOK
  <2> QED
    BY <2>1 DEF SessionConnects, SessionEnds, Live
<1>4. CASE SessionConnects(k)
  <2> DEFINE l == [link[k] EXCEPT !.at = "open"]
  <2>1. l.at = "open" /\ l.for = link[k].for /\ link' = [link EXCEPT ![k] = l]
    BY <1>3, <1>4 DEF SessionConnects, LinkOf
  <2> HIDE DEF l
  <2>2. /\ DOMAIN link' = DOMAIN link /\ link'[k].at = "open" /\ link'[k].for = link[k].for
        /\ \A j \in DOMAIN link : j # k => link'[j] = link[j]
    BY <1>3, <2>1
  <2>3. fed'[k] = stored /\ stored' = {} /\ \A j \in DOMAIN link : j # k => fed'[j] = fed[j]
    BY <1>0, <1>4, Numbers DEF SessionConnects, TypeInv, QueueOK
  <2>4. LinksOK'
    <3>1. \A j \in DOMAIN link' : link'[j].at # "shut" => j = k
      BY <1>2, <1>3, <2>2 DEF LinksOK, Live
    <3>2. stored \subseteq {link[k].for} /\ \A s \in saved : s.exch = link[k].for
      BY <1>2, <1>3 DEF LinksOK
    <3>3. \A j \in DOMAIN link' : fed'[j] \subseteq {link'[j].for}
      BY <1>2, <2>2, <2>3, <3>2 DEF LinksOK
    <3>4. key' = 0 => fed'[k] = {}
      BY <1>0, <1>2, <2>3 DEF LinksOK
    <3> QED
      BY <1>0, <2>2, <2>3, <3>1, <3>2, <3>3, <3>4 DEF LinksOK, Live
  <2>5. \A j \in DOMAIN link :
          /\ link'[j].for = link[j].for
          /\ link'[j].at # "shut" => Live(j)
          /\ Live(j) \/ link[j].due > 0 => link'[j].at # "shut" \/ link'[j].due > 0
          /\ PendingOf(j) /\ fed[j] = {} => fed'[j] = {}
    BY <1>2, <1>3, <2>2, <2>3 DEF Live, PendingOf, TasksOK, AwaitsSession
  <2>6. TasksOK'
    BY <1>0, <1>2, <2>2, <2>5, SessionsTyped, TasksKept
  <2>7. StatusOK'
    BY <1>0, <1>2, <2>2, <2>5 DEF StatusOK, Live, PendingOf, Creating
  <2> QED
    BY <1>0, <1>2, <2>4, <2>6, <2>7 DEF StoreLeads, PhaseOK, Pending, Creating
<1>5. CASE SessionEnds(k)
  <2> DEFINE l == Shut(link[k])
  <2>1. l.at = "shut" /\ l.for = link[k].for /\ l.due > 0 /\ link' = [link EXCEPT ![k] = l]
    BY <1>3, <1>5, ShutTypes DEF SessionEnds
  <2> HIDE DEF l
  <2>2. /\ DOMAIN link' = DOMAIN link
        /\ link'[k].at = "shut" /\ link'[k].for = link[k].for /\ link'[k].due > 0
        /\ \A j \in DOMAIN link : j # k => link'[j] = link[j]
    BY <1>3, <2>1
  <2>3. fed' = fed /\ stored' = stored
    BY <1>5 DEF SessionEnds, wire, queue
  <2>4. LinksOK'
    BY <1>0, <1>2, <2>2, <2>3, LinksFewer
  <2>5. \A j \in DOMAIN link :
          /\ link'[j].for = link[j].for
          /\ link'[j].at # "shut" => Live(j)
          /\ Live(j) \/ link[j].due > 0 => link'[j].at # "shut" \/ link'[j].due > 0
          /\ PendingOf(j) /\ fed[j] = {} => fed'[j] = {}
    BY <2>2, <2>3 DEF Live
  <2>6. TasksOK'
    BY <1>0, <1>2, <2>2, <2>5, SessionsTyped, TasksKept
  <2>7. StatusOK'
    BY <1>0, <1>2, <2>2, <2>5 DEF StatusOK, Live, PendingOf, Creating
  <2> QED
    BY <1>0, <1>2, <2>4, <2>6, <2>7 DEF StoreLeads, PhaseOK, Pending, Creating
<1> QED
  BY <1>4, <1>5
-----------------------------------------------------------------------------
(* What a logout leaves, and what is sent *)

LEMMA LogoutStep == TypeInv /\ LogoutIsFinal /\ [Next]_vars => LogoutIsFinal'
<1> SUFFICES ASSUME TypeInv, LogoutIsFinal, [Next]_vars, out'
             PROVE  saved' = {} /\ key' = 0 /\ stored' = {} /\ ~Pending'
  BY TypeInvStep DEF LogoutIsFinal, TypeInv, StoreOK
<1>1. CASE Logout
  BY <1>1 DEF Logout, CloseBridge, Pending, Creating
<1>2. CASE out
  <2>1. saved = {} /\ Loaded = {} /\ key = 0 /\ stored = {} /\ ~Pending
    BY <1>2, LoadedIsSaved DEF LogoutIsFinal
  <2>2. CASE UNCHANGED <<saved, key, stored, task>>
    BY <2>1, <2>2 DEF Pending, Creating
  <2>3. CASE CloseCurrentSocket \/ Restart
    <3>1. UNCHANGED saved /\ key' = 0 /\ stored' = {}
      BY <2>1, <2>3 DEF CloseCurrentSocket, CloseBridge, Restart, store
    <3>2. Restart => \A t \in Task : task'[t].at = "free"
      BY DEF Restart, Free
    <3>3. CloseCurrentSocket => task' = task
      BY DEF CloseCurrentSocket
    <3> QED
      BY <2>1, <2>3, <3>1, <3>2, <3>3 DEF Pending, Creating
  <2>4. CASE \E k \in DOMAIN link :
               SessionConnects(k) \/ SessionEnds(k) \/ \E t \in Task : OnSocketClosed(t, k)
    <3>1. UNCHANGED <<saved, key, stored, task>>
      BY <2>1, <2>4 DEF SessionConnects, SessionEnds, OnSocketClosed, store, queue
    <3> QED
      BY <2>2, <3>1
  <2>5. CASE UNCHANGED vars \/ RecoverMissing \/ BrowserConnects
    <3>1. UNCHANGED <<saved, key, stored, task>>
      BY <2>5 DEF vars, RecoverMissing, BrowserConnects, store, queue
    <3> QED
      BY <2>2, <3>1
  <2>6. ~(Submit \/ RefreshIgnored \/ Call)
    BY <2>1 DEF Submit, RefreshIgnored, Call, Ready
  <2>7. \A t \in Task :
          ~(StartAuth(t) \/ RecoverSession(t) \/ SessionCreated(t) \/ SessionRefused(t))
    BY <2>1 DEF StartAuth, RecoverSession, Ready, SessionCreated, SessionRefused, Pending
  <2>8. \A k \in DOMAIN link : \A e \in fed[k] :
          ~PushFrame(k, e) /\ \A t \in Task : ~PushMigration(t, k, e)
    BY <2>1 DEF PushMigration, PushFrame
  <2> QED
    BY <1>1, <2>3, <2>4, <2>5, <2>6, <2>7, <2>8 DEF Next
<1>3. CASE ~out
  <2>1. ASSUME UNCHANGED out
        PROVE  FALSE
    BY <1>3, <2>1
  <2>2. \A t \in Task : ~StartAuth(t)
    BY DEF StartAuth
  <2>3. ASSUME NEW t \in Task
        PROVE  ~(RecoverSession(t) \/ SessionCreated(t) \/ SessionRefused(t))
    BY <2>1 DEF RecoverSession, SessionCreated, SessionRefused
  <2>4. ASSUME NEW t \in Task, NEW k \in DOMAIN link
        PROVE  ~(OnSocketClosed(t, k) \/ \E e \in fed[k] : PushMigration(t, k, e))
    BY <2>1 DEF OnSocketClosed, PushMigration
  <2>5. ASSUME NEW k \in DOMAIN link
        PROVE  ~(SessionConnects(k) \/ SessionEnds(k) \/ \E e \in fed[k] : PushFrame(k, e))
    BY <2>1 DEF SessionConnects, SessionEnds, PushFrame
  <2>6. ~(Submit \/ RefreshIgnored \/ RecoverMissing \/ Call \/ CloseCurrentSocket)
    BY <2>1 DEF Submit, RefreshIgnored, RecoverMissing, Call, CloseCurrentSocket
  <2>7. ~(BrowserConnects \/ Restart \/ UNCHANGED vars)
    BY <2>1 DEF BrowserConnects, Restart, vars
  <2> QED
    BY <1>1, <2>2, <2>3, <2>4, <2>5, <2>6, <2>7 DEF Next
<1> QED
  BY <1>2, <1>3

Sourced == \A e \in DOMAIN made : made'[e] # made[e] =>
             \E s \in saved' : s.exch = e /\ s.n = made'[e]

LEMMA SavedIsSource ==
  ASSUME TypeInv, NEW r \in SnapOf(Len(made)), Save(r),
         \E n \in Nat : SendBridgeBytes(r, n) \/ Execute(r, n)
  PROVE  Sourced
<1>1. CASE \E n \in Nat : SendBridgeBytes(r, n)
  BY <1>1, SendEffect DEF Save, Sourced
<1>2. CASE UNCHANGED wire
  BY <1>2 DEF wire, Sourced
<1> QED
  BY <1>1, <1>2 DEF Execute

LEMMA SourcedStep == TypeInv /\ [Next]_vars => Sourced
<1> SUFFICES ASSUME TypeInv, [Next]_vars
             PROVE  Sourced
  OBVIOUS
<1>0. Loaded = saved /\ \A s \in saved : s \in SnapOf(Len(made))
  BY LoadedIsSaved DEF TypeInv, StoreOK
<1>n. Len(made) \in Nat
  BY Numbers
<1>1. CASE made' = made
  BY <1>1 DEF Sourced
<1>2. CASE made' = Append(made, 0)
  <2>1. made \in Seq(0 .. MaxMessage) /\ DOMAIN made = 1 .. Len(made)
    BY Numbers DEF TypeInv, MadeOK
  <2>2. \A e \in 1 .. Len(made) : made'[e] = made[e]
    BY <1>2, <2>1
  <2> QED
    BY <2>1, <2>2 DEF Sourced
<1>3. ASSUME NEW s \in SnapOf(Len(made)), NEW v \in Value, May(s), Save(Sent(s, v)),
             SendBridgeBytes(Sent(s, v), 1) \/ Execute(Sent(s, v), 1)
      PROVE  Sourced
  BY <1>n, <1>3, SentTypes, SavedIsSource
<1>4. CASE Submit \/ Call
  BY <1>0, <1>3, <1>4 DEF Submit, Call, Ready, Value
<1>5. ASSUME NEW t \in Task, SessionCreated(t)
      PROVE  Sourced
  <2>1. task[t] \in CreationOf(Len(made), Len(link))
    BY <1>5, CreatingTypes DEF SessionCreated
  <2>2. task[t].snapshot \in SnapOf(Len(made)) /\ (task[t].by \in Resuming => May(task[t].snapshot))
    BY <2>1 DEF CreationOf
  <2>3. task[t].snapshot.value \in Value
    BY <2>2 DEF SnapOf
  <2>4. CASE Save(task[t].snapshot) /\ SendBridgeBytes(task[t].snapshot, 1)
    BY <2>2, <2>4, SavedIsSource
  <2>5. CASE task[t].by \in Resuming /\ ReconnectCreated(t, task[t].snapshot)
    <3>1. CASE UNCHANGED wire
      BY <1>1, <3>1 DEF wire
    <3> QED
      BY <1>3, <2>2, <2>3, <2>5, <3>1 DEF ReconnectCreated
  <2> QED
    BY <1>5, <2>4, <2>5 DEF SessionCreated, AuthCreated, Resuming
<1>6. ASSUME NEW k \in DOMAIN link, NEW e \in fed[k], PushFrame(k, e)
      PROVE  Sourced
  <2>1. PICK s \in saved : \E r \in Outcomes(s, e) : Save(r.snapshot) /\ Execute(r.snapshot, r.sends)
    BY <1>0, <1>6 DEF PushFrame
  <2>2. PICK r \in Outcomes(s, e) : Save(r.snapshot) /\ Execute(r.snapshot, r.sends)
    BY <2>1
  <2>3. r.snapshot \in SnapOf(Len(made)) /\ r.sends \in Nat
    BY <1>0, <1>n, OutcomeTypes
  <2> QED
    BY <2>2, <2>3, SavedIsSource
<1>7. ASSUME NEW t \in Task
      PROVE  /\ StartAuth(t) => Sourced
             /\ RecoverSession(t) \/ SessionRefused(t) => Sourced
             /\ \A k \in DOMAIN link : OnSocketClosed(t, k) => Sourced
             /\ \A k \in DOMAIN link : \A e \in fed[k] : PushMigration(t, k, e) => Sourced
  BY <1>1, <1>2 DEF StartAuth, RecoverSession, SessionRefused, OnSocketClosed, PushMigration, wire
<1>8. CASE \E k \in DOMAIN link : SessionConnects(k) \/ SessionEnds(k)
  BY <1>1, <1>8 DEF SessionConnects, SessionEnds, wire
<1>9. CASE RefreshIgnored \/ RecoverMissing \/ Logout \/ CloseCurrentSocket
  BY <1>1, <1>9 DEF RefreshIgnored, RecoverMissing, Logout, CloseCurrentSocket, wire
<1>10. CASE BrowserConnects \/ Restart \/ UNCHANGED vars
  BY <1>1, <1>10 DEF BrowserConnects, Restart, vars, wire
<1> QED
  BY <1>4, <1>5, <1>6, <1>7, <1>8, <1>9, <1>10 DEF Next
-----------------------------------------------------------------------------
(* The inductive invariant *)

LEMMA InitAgent == Init => AgentInv
<1> SUFFICES ASSUME Init
             PROVE  AgentInv
  OBVIOUS
<1>1. TypeInv
  BY TypeInvInit
<1>2. DOMAIN link = {} /\ \A t \in Task : ~Creating(t)
  BY DEF Init, Creating, Free
<1>3. LogoutIsFinal /\ NumbersRise
  BY DEF Init, LogoutIsFinal, NumbersRise
<1>4. LinksOK /\ TasksOK /\ StoreLeads /\ StatusOK /\ PhaseOK
  BY <1>2 DEF Init, LinksOK, TasksOK, StoreLeads, StatusOK, PhaseOK
<1> QED
  BY <1>1, <1>3, <1>4 DEF AgentInv, SafeInv

LEMMA NextAgent == AgentInv /\ [Next]_vars => AgentInv'
<1> SUFFICES ASSUME AgentInv, [Next]_vars
             PROVE  AgentInv'
  OBVIOUS
<1>1. TypeInv' /\ LogoutIsFinal'
  BY TypeInvStep, LogoutStep DEF AgentInv
<1>2. SafeInv' /\ reused' = reused
  <2>1. CASE UNCHANGED vars
    <3>1. UNCHANGED <<saved, key, stored, shown, task, link, fed, made, reused, crossed>>
      BY <2>1 DEF vars, store, queue, wire
    <3> QED
      BY <3>1 DEF AgentInv, SafeInv, LinksOK, TasksOK, StoreLeads, StatusOK, PhaseOK, Live,
                  Pending, PendingOf, Creating, AwaitsSession, GoesOn
  <2> QED
    BY <2>1, LoginSafe, CreatedSafe, RefusedSafe, MigrationSafe, CloseSafe, CallSafe,
       AccountSafe, BridgeSafe DEF Next
<1> QED
  BY <1>1, <1>2 DEF AgentInv, NumbersRise

LEMMA AgentInvariant == Spec => []AgentInv
BY InitAgent, NextAgent, PTL DEF Spec
-----------------------------------------------------------------------------
\* Every variable keeps its type: at most one snapshot in memory and in storage, of
\* an exchange that was begun; the frames in memory are queued in storage as well; and
\* a method that waits, waits for a session that was granted.
THEOREM AgentTypeCorrect == Spec => []TypeOK
<1>1. TypeInv => TypeOK
  <2> SUFFICES ASSUME TypeInv
               PROVE  TypeOK
    OBVIOUS
  <2>n. Len(made) \in Nat /\ MaxExchange \in Nat /\ Len(made) <= MaxExchange /\ DOMAIN made = 1 .. Len(made)
    BY Numbers DEF TypeInv, MadeOK
  <2>1. SnapOf(Len(made)) \subseteq Snapshot
    BY <2>n DEF SnapOf, Snapshot
  <2>2. ASSUME NEW S, \A r, s \in S : r = s
        PROVE  Cardinality(S) <= 1
    <3>1. CASE S = {}
      BY <3>1, FS_EmptySet
    <3>2. CASE S # {}
      <4>1. PICK s : S = {s}
        BY <2>2, <3>2
      <4>2. Cardinality({s}) = 1
        BY FS_Singleton
      <4> QED
        BY <4>1, <4>2
    <3> QED
      BY <3>1, <3>2
  <2>3. /\ cache \subseteq Snapshot /\ saved \subseteq Snapshot
        /\ Cardinality(cache) <= 1 /\ Cardinality(saved) <= 1
    BY <2>1, <2>2 DEF TypeInv, StoreOK
  <2>4. /\ link \in Seq([at : {"asked", "open", "shut"}, for : DOMAIN made, due : 0 .. 2])
        /\ fed \in Seq(SUBSET DOMAIN made) /\ Len(fed) = Len(link) /\ key \in 0 .. Len(link)
    BY <2>n DEF TypeInv, LinkOK, LinkOf
  <2>5. ASSUME NEW t \in Task
        PROVE  \/ task[t] = Free
               \/ Creating(t) /\ task[t].snapshot \in Snapshot /\ task[t].session \in DOMAIN link
    <3>1. task[t] \in {Free} \cup CreationOf(Len(made), Len(link))
      BY DEF TypeInv, TaskOK
    <3> QED
      BY <2>1, <3>1, Numbers DEF CreationOf, Creating
  <2>6. memory \subseteq stored /\ stored \subseteq DOMAIN made /\ made \in Seq(0 .. MaxMessage)
    BY <2>n DEF TypeInv, QueueOK, MadeOK
  <2>7. /\ {manual, reused, crossed, out} \subseteq BOOLEAN
        /\ shown \in [phase : Phase, socketStatus : Status]
    BY DEF TypeInv, ViewOK
  <2> QED
    BY <2>3, <2>4, <2>5, <2>6, <2>7 DEF TypeOK
<1> QED
  BY <1>1, AgentInvariant, PTL DEF AgentInv

\* The snapshot in memory is the one in storage: an eviction loses no progress.
THEOREM CacheIsCoherentCorrect == Spec => []CacheIsCoherent
<1>1. AgentInv => CacheIsCoherent
  BY DEF AgentInv, TypeInv, StoreOK, CacheIsCoherent
<1> QED
  BY <1>1, AgentInvariant, PTL

\* Whatever is sent or queued is the last message of the snapshot that is stored in
\* the same step.
THEOREM SentFromStoredCorrect == Spec => SentFromStored
<1>1. AgentInv /\ [Next]_vars =>
        [\A e \in DOMAIN made : made'[e] # made[e] =>
           \E s \in saved' : s.exch = e /\ s.n = made'[e]]_vars
  BY SourcedStep DEF AgentInv, Sourced
<1> QED
  BY <1>1, AgentInvariant, PTL DEF Spec, SentFromStored

\* A logout that no method overlaps leaves nothing of the account, and nothing that
\* the bridge or the browser does afterwards brings it back.
THEOREM LogoutIsFinalCorrect == Spec => []LogoutIsFinal
<1>1. AgentInv => LogoutIsFinal
  BY DEF AgentInv
<1> QED
  BY <1>1, AgentInvariant, PTL

\* While sessions follow each other, no frame is written to a session that was opened
\* for another key exchange, hence for another data centre.
THEOREM FramesReachTheirTargetCorrect == Spec => []FramesReachTheirTarget
<1>1. AgentInv => FramesReachTheirTarget
  BY DEF AgentInv, SafeInv, LinksOK, FramesReachTheirTarget
<1> QED
  BY <1>1, AgentInvariant, PTL

\* While sessions follow each other, a resumed method never sends a number again.
THEOREM NumbersRiseCorrect == Spec => []NumbersRise
<1>1. AgentInv => NumbersRise
  BY DEF AgentInv
<1> QED
  BY <1>1, AgentInvariant, PTL

\* While sessions follow each other, the browser is not left waiting for a session
\* that is over and whose end was told.
THEOREM StatusIsGroundedCorrect == Spec => []StatusIsGrounded
<1>1. AgentInv => StatusIsGrounded
  BY DEF AgentInv, SafeInv, StatusOK, StatusIsGrounded, Live, Pending
<1> QED
  BY <1>1, AgentInvariant, PTL

\* While sessions follow each other, an account shown as authenticated has a ready
\* session in storage.
THEOREM AuthenticatedIsReadyCorrect == Spec => []AuthenticatedIsReady
<1>1. AgentInv => AuthenticatedIsReady
  BY DEF AgentInv, SafeInv, PhaseOK, AuthenticatedIsReady
<1> QED
  BY <1>1, AgentInvariant, PTL
-----------------------------------------------------------------------------
(* The sessions of the account are those of BridgeSession *)

\* No notification is due of a session that has not ended.
Unannounced == \A k \in DOMAIN link : Live(k) => link[k].due = 0

\* A session goes from l to m.
Moves(l, m) ==
  \/ m.at = l.at /\ m.due = l.due
  \/ l.at = "asked" /\ m.at \in {"open", "shut"} /\ m.due = l.due
  \/ l.at \in {"asked", "open"} /\ m.at = "shut"
     /\ m.due = l.due + (IF l.at = "open" THEN 2 ELSE 1)
  \/ m.at = l.at /\ l.due > 0 /\ m.due = l.due - 1

\* A step adds sessions that were just asked for, and moves the others.
LinkMoves ==
  /\ DOMAIN link \subseteq DOMAIN link'
  /\ \A k \in DOMAIN link : Moves(link[k], link'[k])
  /\ \A k \in DOMAIN link' \ DOMAIN link : link'[k].at = "asked" /\ link'[k].due = 0

LEMMA MovesOfSession ==
  ASSUME TypeInv, LinkMoves, NEW k
  PROVE  [Session(k)!Next]_(Session(k)!session)
<1>1. CASE k \in DOMAIN link
  <2>1. /\ k \in DOMAIN link' /\ Moves(link[k], link'[k])
        /\ SessionState(k) = link[k].at /\ SessionState(k)' = link'[k].at
        /\ NoticesDue(k) = link[k].due /\ NoticesDue(k)' = link'[k].due
    BY <1>1 DEF LinkMoves, SessionState, NoticesDue
  <2> QED
    BY <2>1 DEF Moves, Session!Next, Session!session, Session!Refuse, Session!Connect,
                Session!End, Session!Hear
<1>2. CASE k \notin DOMAIN link /\ k \in DOMAIN link'
  <2>1. /\ SessionState(k) = "none" /\ SessionState(k)' = "asked"
        /\ NoticesDue(k) = 0 /\ NoticesDue(k)' = 0
    BY <1>2 DEF LinkMoves, SessionState, NoticesDue
  <2> QED
    BY <2>1 DEF Session!Next, Session!Ask
<1>3. CASE k \notin DOMAIN link /\ k \notin DOMAIN link'
  BY <1>3 DEF SessionState, NoticesDue, Session!session
<1> QED
  BY <1>1, <1>2, <1>3

LEMMA UnannouncedStep ==
  ASSUME TypeInv, Unannounced, LinkMoves
  PROVE  Unannounced'
<1> SUFFICES ASSUME NEW k \in DOMAIN link', link'[k].at # "shut"
             PROVE  link'[k].due = 0
  BY DEF Unannounced, Live
<1>1. CASE k \in DOMAIN link
  <2>1. Moves(link[k], link'[k]) /\ link[k].due \in Nat
        /\ (link[k].at # "shut" => link[k].due = 0)
    BY <1>1, SessionsTyped DEF LinkMoves, Unannounced, Live
  <2> QED
    BY <2>1 DEF Moves
<1> QED
  BY <1>1 DEF LinkMoves

\* Closing the open sessions moves them, whatever else was heard of one that had ended.
LEMMA ClosedMoves ==
  ASSUME TypeInv, Unannounced, NEW N \in Nat, NEW links \in Seq(LinkOf(N)), Len(links) = Len(link),
         \A k \in DOMAIN link :
           \/ links[k] = link[k]
           \/ link[k].at = "shut" /\ links[k].at = "shut" /\ Moves(link[k], links[k])
  PROVE  /\ Closed(links) \in Seq(LinkOf(N)) /\ Len(Closed(links)) = Len(link)
         /\ \A k \in DOMAIN link : Moves(link[k], Closed(links)[k])
<1>1. /\ Closed(links) \in Seq(LinkOf(N)) /\ Len(Closed(links)) = Len(links)
      /\ \A k \in 1 .. Len(links) :
           Closed(links)[k] = IF links[k].at = "open" THEN Shut(links[k]) ELSE links[k]
  BY ClosedTypes
<1>2. ASSUME NEW k \in DOMAIN link
      PROVE  Moves(link[k], Closed(links)[k])
  <2>1. k \in 1 .. Len(links) /\ links[k] \in LinkOf(N)
    BY <1>2, Numbers
  <2>2. CASE links[k].at = "open"
    <3>1. links[k] = link[k] /\ link[k].due = 0
      BY <1>2, <2>2 DEF Unannounced, Live
    <3>2. Shut(link[k]).at = "shut" /\ Shut(link[k]).due = 2
      BY <2>1, <2>2, <3>1, ShutTypes
    <3> QED
      BY <1>1, <2>1, <2>2, <3>1, <3>2 DEF Moves
  <2>3. CASE links[k].at # "open"
    <3>1. Closed(links)[k] = links[k]
      BY <1>1, <2>1, <2>3
    <3> QED
      BY <1>2, <3>1 DEF Moves
  <2> QED
    BY <2>2, <2>3
<1> QED
  BY <1>1, <1>2

LEMMA AskMoves ==
  ASSUME TypeInv, NEW t, NEW m, NEW s, NEW N \in Nat, NEW before \in Seq(LinkOf(N)),
         Len(before) = Len(link), \A k \in DOMAIN link : Moves(link[k], before[k]),
         Ask(t, m, s, before)
  PROVE  LinkMoves
<1> DEFINE l == [at |-> "asked", for |-> s.exch, due |-> 0]
<1>1. link' = Append(before, l) /\ l.at = "asked" /\ l.due = 0
  BY DEF Ask
<1> HIDE DEF l
<1>2. DOMAIN link = 1 .. Len(link) /\ DOMAIN before = 1 .. Len(link) /\ Len(link) \in Nat
  BY Numbers
<1>3. /\ DOMAIN link' = 1 .. Len(link) + 1 /\ link'[Len(link) + 1] = l
      /\ \A k \in 1 .. Len(link) : link'[k] = before[k]
  BY <1>1, <1>2
<1> QED
  BY <1>1, <1>2, <1>3 DEF LinkMoves

LEMMA SameMoves == link' = link => LinkMoves
BY DEF LinkMoves, Moves

LEMMA ClosesMoves ==
  ASSUME TypeInv, Unannounced, link' = Closed(link)
  PROVE  LinkMoves
<1>1. link \in Seq(LinkOf(Len(made))) /\ Len(made) \in Nat
  BY Numbers DEF TypeInv, LinkOK
<1>2. Len(Closed(link)) = Len(link) /\ \A k \in DOMAIN link : Moves(link[k], Closed(link)[k])
  BY <1>1, ClosedMoves
<1>3. DOMAIN link' = DOMAIN link
  BY DEF Closed
<1> QED
  BY <1>2, <1>3 DEF LinkMoves

\* One session moves.
LEMMA OneMoves ==
  ASSUME TypeInv, NEW k \in DOMAIN link, NEW l, link' = [link EXCEPT ![k] = l], Moves(link[k], l)
  PROVE  LinkMoves
<1>1. link \in Seq(LinkOf(Len(made)))
  BY DEF TypeInv, LinkOK
<1>2. DOMAIN link' = DOMAIN link /\ \A j \in DOMAIN link : link'[j] = IF j = k THEN l ELSE link[j]
  BY <1>1
<1>3. \A j \in DOMAIN link : Moves(link[j], link[j])
  BY DEF Moves
<1> QED
  BY <1>2, <1>3 DEF LinkMoves

LEMMA LinkMovesStep ==
  ASSUME TypeInv, Unannounced, [Next]_vars
  PROVE  LinkMoves
<1>0. /\ link \in Seq(LinkOf(Len(made))) /\ Len(made) \in Nat
      /\ \A k \in DOMAIN link : link[k] \in LinkOf(Len(made))
      /\ \A k \in DOMAIN link : link[k].at # "shut" => link[k].due = 0
  <2>1. link \in Seq(LinkOf(Len(made))) /\ Len(made) \in Nat
    BY Numbers DEF TypeInv, LinkOK
  <2> QED
    BY <2>1 DEF Unannounced, Live
\* Methods that reconnect, from the sessions that are or from what was heard of one.
<1>1. ASSUME NEW t, NEW m, NEW s, NEW links \in Seq(LinkOf(Len(made))), Len(links) = Len(link),
             \A k \in DOMAIN link :
               \/ links[k] = link[k]
               \/ link[k].at = "shut" /\ links[k].at = "shut" /\ Moves(link[k], links[k]),
             Reconnect(t, m, s, links)
      PROVE  LinkMoves
  BY <1>0, <1>1, ClosedMoves, AskMoves DEF Reconnect
<1>2. ASSUME NEW t \in Task, StartAuth(t) PROVE LinkMoves
  <2>1. \A k \in DOMAIN link : Moves(link[k], link[k])
    BY DEF Moves
  <2> QED
    BY <1>0, <1>2, <2>1, AskMoves DEF StartAuth
<1>3. ASSUME NEW t \in Task, RecoverSession(t) PROVE LinkMoves
  BY <1>0, <1>1, <1>3 DEF RecoverSession
<1>4. ASSUME NEW t \in Task, NEW k \in DOMAIN link, NEW e \in fed[k], PushMigration(t, k, e)
      PROVE  LinkMoves
  <2>1. Reconnect(t, "pushFrame", Begin, link) \/ link' = link
    BY <1>4 DEF PushMigration
  <2> QED
    BY <1>0, <1>1, <2>1, SameMoves
<1>5. ASSUME NEW t \in Task, NEW k \in DOMAIN link, OnSocketClosed(t, k) PROVE LinkMoves
  <2> DEFINE l == [link[k] EXCEPT !.due = @ - 1]
             heard == [link EXCEPT ![k] = l]
  <2>1. link[k].due > 0 /\ link[k].at = "shut" /\ link[k] \in LinkOf(Len(made))
        /\ link[k].due \in 0 .. 2
    BY <1>0, <1>5, SessionsTyped DEF OnSocketClosed
  <2>2. l \in LinkOf(Len(made)) /\ l.at = "shut" /\ l.due = link[k].due - 1
    BY <2>1 DEF LinkOf
  <2>3. [link EXCEPT ![k].due = @ - 1] = heard
    OBVIOUS
  <2>4. link' = heard \/ \E s : Reconnect(t, "onSocketClosed", s, heard)
    BY <1>5, <2>3 DEF OnSocketClosed
  <2>5. Moves(link[k], l)
    BY <2>1, <2>2 DEF Moves
  <2> HIDE DEF l
  <2>6. /\ heard \in Seq(LinkOf(Len(made))) /\ Len(heard) = Len(link)
        /\ \A j \in DOMAIN link : heard[j] = IF j = k THEN l ELSE link[j]
    BY <1>0, <2>2
  <2>7. CASE link' = heard
    BY <2>5, <2>7, OneMoves
  <2>8. CASE \E s : Reconnect(t, "onSocketClosed", s, heard)
    <3> HIDE DEF heard
    <3> QED
      BY <1>1, <2>1, <2>2, <2>5, <2>6, <2>8
  <2> QED
    BY <2>4, <2>7, <2>8
<1>6. ASSUME NEW t \in Task, SessionRefused(t) PROVE LinkMoves
  <2> DEFINE k == task[t].session
             l == [link[k] EXCEPT !.at = "shut"]
  <2>1. k \in DOMAIN link /\ link[k].at = "asked" /\ link[k] \in LinkOf(Len(made))
    BY <1>0, <1>6, SessionsTyped DEF SessionRefused
  <2>2. link' = [link EXCEPT ![k] = l]
    BY <1>6 DEF SessionRefused
  <2>3. Moves(link[k], l)
    BY <2>1 DEF Moves, LinkOf
  <2> HIDE DEF k, l
  <2> QED
    BY <2>1, <2>2, <2>3, OneMoves
<1>7. ASSUME NEW k \in DOMAIN link, SessionConnects(k) PROVE LinkMoves
  <2> DEFINE l == [link[k] EXCEPT !.at = "open"]
  <2>1. link[k].at = "asked" /\ link[k] \in LinkOf(Len(made)) /\ link' = [link EXCEPT ![k] = l]
    BY <1>0, <1>7 DEF SessionConnects
  <2>2. Moves(link[k], l)
    BY <2>1 DEF Moves, LinkOf
  <2> HIDE DEF l
  <2> QED
    BY <2>1, <2>2, OneMoves
<1>8. ASSUME NEW k \in DOMAIN link, SessionEnds(k) PROVE LinkMoves
  <2>1. /\ link[k].at \in {"asked", "open"} /\ link[k].due = 0 /\ link[k] \in LinkOf(Len(made))
        /\ link' = [link EXCEPT ![k] = Shut(link[k])]
    BY <1>0, <1>8, SessionsTyped DEF SessionEnds
  <2>2. Moves(link[k], Shut(link[k]))
    BY <1>0, <2>1, ShutTypes DEF Moves
  <2> QED
    BY <2>1, <2>2, OneMoves
<1>9. CASE Logout \/ CloseCurrentSocket
  BY <1>9, ClosesMoves DEF Logout, CloseCurrentSocket
<1>10. CASE UNCHANGED link
  BY <1>10, SameMoves
<1> QED
  BY <1>2, <1>3, <1>4, <1>5, <1>6, <1>7, <1>8, <1>9, <1>10
  DEF Next, vars, SessionCreated, Submit, RefreshIgnored, RecoverMissing, Call, PushFrame,
      BrowserConnects, Restart

\* Every session the account's methods, notifications and restarts make is one of
\* BridgeSession.
THEOREM KeepsSessionsCorrect == Spec => KeepsSessions
<1>1. Init => Unannounced /\ \A k \in 1 .. MaxSession : Session(k)!Init
  <2> SUFFICES ASSUME Init PROVE DOMAIN link = {}
    BY DEF Unannounced, SessionState, NoticesDue, Session!Init
  <2> QED
    BY DEF Init
<1>2. TypeInv /\ Unannounced /\ [Next]_vars => Unannounced'
  BY LinkMovesStep, UnannouncedStep
<1>3. TypeInv /\ Unannounced /\ [Next]_vars
      => [\A k \in 1 .. MaxSession : [Session(k)!Next]_(Session(k)!session)]_vars
  BY LinkMovesStep, MovesOfSession
<1>4. AgentInv => TypeInv
  BY DEF AgentInv
<1> QED
  BY <1>1, <1>2, <1>3, <1>4, AgentInvariant, PTL DEF Spec, KeepsSessions
=============================================================================
