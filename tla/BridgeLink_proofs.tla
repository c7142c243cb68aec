--------------------------- MODULE BridgeLink_proofs ---------------------------
(***************************************************************************)
(* Theorems about BridgeLink, for any set of keys, any number of control   *)
(* connections and frames, with or without evictions and control loss.     *)
(*                                                                         *)
(* The inductive invariant LinkInv has four parts: the types, what a       *)
(* report in flight says of its session (ReportsOK), where frames wait     *)
(* (QueueOK), and how the frames written to a connection are numbered      *)
(* (NumbersOK).  On it rest what becomes of a queued frame, how            *)
(* often a frame is written, and that every key is a BridgeSession.        *)
(***************************************************************************)
EXTENDS BridgeLink, TLAPS, SequenceTheorems

TypeInv ==
  /\ current \in Key \cup {NoKey} /\ opening \subseteq Key
  /\ memory \in Seq(Frame) /\ stored \in Seq(Frame)
  /\ links \subseteq owed /\ owed \subseteq Key
  /\ flushed \in [Key -> Seq(Frame)]
  /\ closes \subseteq [key : Key, path : {"data", "control"}]
  /\ frame \in Nat
  /\ rows \subseteq Key /\ reports \subseteq Key
  /\ sockets \subseteq 1 .. controls
  /\ control \in {0, controls} /\ controls \in Nat
  /\ phase \in [Key -> Phase]
  /\ via \in [Key -> 0 .. controls]

\* The agent hears of the end of a session at most once per path, and over the
\* data WebSocket only if that was connected: never of a session still relaying.
ClosesFollowEnd ==
  \A c \in closes : phase[c.key] \in {"ended", "reported"}

\* A session is reported once, after its end, and only then.
ReportsOK ==
  /\ \A k \in reports : phase[k] = "reported"
  /\ LiveSessionsAreRouted
  /\ ClosesFollowEnd

\* The queue in memory is the stored one, unless it was lost.
QueueOK ==
  /\ memory \in {<<>>, stored}
  /\ QueuedFramesAwaitBridge

Rising(s) == \A i, j \in DOMAIN s : i < j => s[i] < s[j]

\* Frames that wait are younger than those written, and in the order of their sending.
NumbersOK ==
  /\ Rising(stored)
  /\ \A i \in DOMAIN stored : stored[i] <= frame
  /\ \A k \in Key : \A i \in DOMAIN flushed[k] : flushed[k][i] <= frame
  /\ \A k \in Key : \A i \in DOMAIN flushed[k], j \in DOMAIN stored :
       flushed[k][i] < stored[j]
  /\ FramesInOrder

LinkInv == TypeInv /\ ReportsOK /\ QueueOK /\ NumbersOK
-----------------------------------------------------------------------------
LEMMA TypeInvInit == Init => TypeInv
<1> SUFFICES ASSUME Init PROVE TypeInv
  OBVIOUS
<1>1. <<>> \in Seq(Frame)
  OBVIOUS
<1> QED
  BY <1>1 DEF Init, TypeInv, Phase

LEMMA TypeInvStep == TypeInv /\ [Next]_vars => TypeInv'
<1> SUFFICES ASSUME TypeInv, [Next]_vars PROVE TypeInv'
  OBVIOUS
<1> USE DEF TypeInv
<1>1. ASSUME NEW k \in Key, RequestSession(k) PROVE TypeInv'
  <2>1. via' \in [Key -> 0 .. controls]
    <3>1. PICK g \in sockets : via' = [via EXCEPT ![k] = g]
      BY <1>1 DEF RequestSession
    <3>2. g \in 0 .. controls
      BY <3>1
    <3> QED
      BY <3>1, <3>2
  <2>2. phase' \in [Key -> Phase] /\ rows' \subseteq Key /\ opening' \subseteq Key
    BY <1>1 DEF RequestSession, Phase
  <2>3. UNCHANGED <<current, memory, stored, links, owed, flushed, closes, frame, sockets,
                    control, controls, reports>>
    BY <1>1 DEF RequestSession, queue
  <2> QED
    BY <2>1, <2>2, <2>3
<1>2. ASSUME NEW k \in Key, OnClose(k) PROVE TypeInv'
  <2>1. [key |-> k, path |-> "data"] \in [key : Key, path : {"data", "control"}]
    OBVIOUS
  <2> QED
    BY <1>2, <2>1 DEF OnClose, OnSocketClosed, durable, bridge, queue
<1>3. ASSUME NEW k \in Key, OpenSession(k) PROVE TypeInv'
  BY <1>3 DEF OpenSession, Phase, agent, durable
<1>4. ASSUME NEW k \in Key, DataConnect(k) PROVE TypeInv'
  <2>1. flushed[k] \o memory \o stored \in Seq(Frame)
    OBVIOUS
  <2>2. flushed' \in [Key -> Seq(Frame)]
    BY <1>4, <2>1 DEF DataConnect, OnConnect
  <2> QED
    BY <1>4, <2>2 DEF DataConnect, OnConnect, Phase, durable
<1>5. ASSUME NEW k \in Key, DataConnectFails(k) PROVE TypeInv'
  BY <1>5 DEF DataConnectFails, Phase, agent, durable
<1>6. ASSUME NEW k \in Key, EngineEnds(k) PROVE TypeInv'
  BY <1>6 DEF EngineEnds, Phase, agent, durable
<1>7. ASSUME NEW k \in Key, ReportClosed(k) PROVE TypeInv'
  BY <1>7 DEF ReportClosed, Phase, agent, durable
<1>8. ASSUME NEW k \in Key, SessionClosed(k) PROVE TypeInv'
  <2>1. [key |-> k, path |-> "control"] \in [key : Key, path : {"data", "control"}]
    OBVIOUS
  <2> QED
    BY <1>8, <2>1 DEF SessionClosed, OnSocketClosed, bridge, queue
<1>9. ASSUME NEW k \in Key, SessionCreated(k) PROVE TypeInv'
  BY <1>9 DEF SessionCreated, queue, durable, bridge
<1>10. ASSUME SendFrame PROVE TypeInv'
  <2> DEFINE f == frame + 1
  <2>1. f \in Frame
    BY DEF Frame
  <2>2. Append(memory, f) \in Seq(Frame) /\ \A k \in Key : Append(flushed[k], f) \in Seq(Frame)
    BY <2>1
  <2>3. flushed' \in [Key -> Seq(Frame)]
    <3>1. CASE \E k \in links : flushed' = [flushed EXCEPT ![k] = Append(@, f)]
      BY <2>2, <3>1
    <3> QED
      BY <1>10, <3>1 DEF SendFrame
  <2>4. memory' \in Seq(Frame) /\ stored' \in Seq(Frame)
    BY <1>10, <2>2 DEF SendFrame, queue
  <2>5. frame' \in Nat
    BY <1>10 DEF SendFrame
  <2>6. UNCHANGED <<current, opening, links, owed, closes, durable, bridge, reports>>
    BY <1>10 DEF SendFrame
  <2> QED
    BY <2>3, <2>4, <2>5, <2>6 DEF durable, bridge
<1>11. ASSUME CloseBridgeConnection PROVE TypeInv'
  <2>1. <<>> \in Seq(Frame)
    OBVIOUS
  <2> QED
    BY <1>11, <2>1 DEF CloseBridgeConnection, durable, bridge
<1>12. ASSUME Evict PROVE TypeInv'
  <2>1. <<>> \in Seq(Frame)
    OBVIOUS
  <2> QED
    BY <1>12, <2>1 DEF Evict, durable, bridge
<1>13. ASSUME ControlBreaks PROVE TypeInv'
  BY <1>13 DEF ControlBreaks, agent, durable
<1>14. ASSUME ControlReconnects PROVE TypeInv'
  <2>1. controls' \in Nat /\ control' = controls'
    BY <1>14 DEF ControlReconnects
  <2>2. sockets' \subseteq 1 .. controls'
    BY <1>14 DEF ControlReconnects
  <2>3. via' \in [Key -> 0 .. controls']
    <3>1. 0 .. controls \subseteq 0 .. controls'
      BY <1>14 DEF ControlReconnects
    <3>2. via' = via
      BY <1>14 DEF ControlReconnects
    <3> QED
      BY <3>1, <3>2
  <2>4. UNCHANGED <<current, opening, memory, stored, links, owed, flushed, closes, frame>>
    BY <1>14 DEF ControlReconnects, agent
  <2>5. UNCHANGED <<rows, phase, reports>>
    BY <1>14 DEF ControlReconnects
  <2> QED
    BY <2>1, <2>2, <2>3, <2>4, <2>5
<1>15. ASSUME SocketGone PROVE TypeInv'
  BY <1>15 DEF SocketGone, agent, bridge
<1>16. CASE UNCHANGED vars
  BY <1>16 DEF vars, agent, durable, bridge
<1> QED
  BY <1>1, <1>2, <1>3, <1>4, <1>5, <1>6, <1>7, <1>8, <1>9, <1>10, <1>11, <1>12, <1>13,
     <1>14, <1>15, <1>16 DEF Next
-----------------------------------------------------------------------------
LEMMA ReportsOKStep == TypeInv /\ ReportsOK /\ [Next]_vars => ReportsOK'
<1> SUFFICES ASSUME TypeInv, ReportsOK, [Next]_vars PROVE ReportsOK'
  OBVIOUS
<1> USE DEF ReportsOK, LiveSessionsAreRouted, ClosesFollowEnd
<1>0. phase \in [Key -> Phase] /\ rows \subseteq Key /\ reports \subseteq Key
      /\ \A c \in closes : c.key \in Key
  BY DEF TypeInv
<1>1. ASSUME NEW k \in Key, RequestSession(k) PROVE ReportsOK'
  BY <1>0, <1>1 DEF RequestSession, Phase
<1>2. ASSUME NEW k \in Key, OnClose(k) PROVE ReportsOK'
  BY <1>0, <1>2 DEF OnClose, OnSocketClosed, durable, bridge
<1>3. ASSUME NEW k \in Key, OpenSession(k) PROVE ReportsOK'
  BY <1>0, <1>3 DEF OpenSession, Phase, agent, durable
<1>4. ASSUME NEW k \in Key, DataConnect(k) PROVE ReportsOK'
  BY <1>0, <1>4 DEF DataConnect, OnConnect, Phase, durable
<1>5. ASSUME NEW k \in Key, DataConnectFails(k) PROVE ReportsOK'
  BY <1>0, <1>5 DEF DataConnectFails, Phase, agent, durable
<1>6. ASSUME NEW k \in Key, EngineEnds(k) PROVE ReportsOK'
  BY <1>0, <1>6 DEF EngineEnds, Phase, agent, durable
<1>7. ASSUME NEW k \in Key, ReportClosed(k) PROVE ReportsOK'
  BY <1>0, <1>7 DEF ReportClosed, Phase, agent, durable
<1>8. ASSUME NEW k \in Key, SessionClosed(k) PROVE ReportsOK'
  BY <1>0, <1>8 DEF SessionClosed, OnSocketClosed, bridge
<1>9. ASSUME NEW k \in Key, SessionCreated(k) PROVE ReportsOK'
  BY <1>9 DEF SessionCreated, durable, bridge
<1>10. ASSUME SendFrame PROVE ReportsOK'
  BY <1>10 DEF SendFrame, durable, bridge
<1>11. ASSUME CloseBridgeConnection PROVE ReportsOK'
  BY <1>11 DEF CloseBridgeConnection, durable, bridge
<1>12. ASSUME Evict PROVE ReportsOK'
  BY <1>12 DEF Evict, durable, bridge
<1>13. ASSUME ControlBreaks PROVE ReportsOK'
  BY <1>13 DEF ControlBreaks, agent, durable
<1>14. ASSUME ControlReconnects PROVE ReportsOK'
  BY <1>14 DEF ControlReconnects, agent
<1>15. ASSUME SocketGone PROVE ReportsOK'
  BY <1>15 DEF SocketGone, agent, bridge
<1>16. CASE UNCHANGED vars
  BY <1>16 DEF vars, agent, durable, bridge
<1> QED
  BY <1>1, <1>2, <1>3, <1>4, <1>5, <1>6, <1>7, <1>8, <1>9, <1>10, <1>11, <1>12, <1>13,
     <1>14, <1>15, <1>16 DEF Next
-----------------------------------------------------------------------------
LEMMA QueueOKStep == TypeInv /\ QueueOK /\ [Next]_vars => QueueOK'
<1> SUFFICES ASSUME TypeInv, QueueOK, [Next]_vars PROVE QueueOK'
  OBVIOUS
<1> USE DEF QueueOK, QueuedFramesAwaitBridge
<1>0. links \subseteq owed
  BY DEF TypeInv
<1>1. ASSUME NEW k \in Key, OnClose(k) PROVE QueueOK'
  BY <1>1 DEF OnClose, queue
<1>2. ASSUME NEW k \in Key, DataConnect(k) PROVE QueueOK'
  BY <1>2 DEF DataConnect, OnConnect
<1>3. ASSUME SendFrame PROVE QueueOK'
  BY <1>3 DEF SendFrame, queue
<1>4. ASSUME CloseBridgeConnection PROVE QueueOK'
  BY <1>4 DEF CloseBridgeConnection
<1>5. ASSUME Evict PROVE QueueOK'
  BY <1>5 DEF Evict
<1>6. ASSUME UNCHANGED <<memory, stored, links>> PROVE QueueOK'
  BY <1>6
<1> QED
  BY <1>1, <1>2, <1>3, <1>4, <1>5, <1>6
  DEF Next, vars, agent, queue, RequestSession, OpenSession, DataConnectFails, EngineEnds,
      ReportClosed, SessionClosed, SessionCreated, ControlBreaks, ControlReconnects, SocketGone
-----------------------------------------------------------------------------
\* The frames written to a connection: older than bound, and repeated if out of order.
Written(s, bound) ==
  /\ \A i \in DOMAIN s : s[i] <= bound
  /\ \A i, j \in DOMAIN s : i < j /\ s[j] < s[i] => \E h \in 1 .. i : s[h] = s[j]

Waiting(old, new, bound) ==
  /\ Rising(new)
  /\ \A i \in DOMAIN old, j \in DOMAIN new : old[i] < new[j]
  /\ \A j \in DOMAIN new : new[j] <= bound

\* The frames of two sequences written one after the other.
LEMMA TwoParts ==
  ASSUME NEW p \in Seq(Frame), NEW q \in Seq(Frame), NEW all, all = p \o q
  PROVE  /\ all \in Seq(Frame) /\ Len(p) \in Nat /\ Len(q) \in Nat
         /\ Len(all) = Len(p) + Len(q) /\ DOMAIN all = 1 .. Len(p) + Len(q)
         /\ \A i \in DOMAIN all : all[i] = IF i <= Len(p) THEN p[i] ELSE q[i - Len(p)]
BY ConcatProperties

\* Where the frames of three are, when the first two were put together.
LEMMA Positions ==
  ASSUME NEW a \in Nat, NEW b \in Nat, NEW c \in Nat, NEW p, NEW q, NEW r, NEW m, NEW all,
         \A i \in 1 .. a + b : m[i] = IF i <= a THEN p[i] ELSE q[i - a],
         \A i \in 1 .. (a + b) + c : all[i] = IF i <= a + b THEN m[i] ELSE r[i - (a + b)]
  PROVE  \A i \in 1 .. a + b + c :
           all[i] = IF i <= a THEN p[i] ELSE IF i <= a + b THEN q[i - a] ELSE r[i - a - b]
<1> SUFFICES ASSUME NEW i \in 1 .. a + b + c
             PROVE  all[i] = IF i <= a THEN p[i]
                             ELSE IF i <= a + b THEN q[i - a] ELSE r[i - a - b]
  OBVIOUS
<1>1. all[i] = IF i <= a + b THEN m[i] ELSE r[i - (a + b)]
  OBVIOUS
<1>2. i - (a + b) = i - a - b /\ i \in Nat /\ 1 <= i
  OBVIOUS
<1>3. CASE i <= a + b
  <2>1. i \in 1 .. a + b /\ all[i] = m[i]
    BY <1>1, <1>2, <1>3
  <2>2. m[i] = IF i <= a THEN p[i] ELSE q[i - a]
    BY <2>1
  <2> QED
    BY <1>3, <2>1, <2>2
<1>4. CASE ~ (i <= a + b)
  <2>1. ~ (i <= a)
    BY <1>2, <1>4
  <2> QED
    BY <1>1, <1>2, <1>4, <2>1
<1> QED
  BY <1>3, <1>4

\* The frames of three sequences written one after the other.
LEMMA ThreeParts ==
  ASSUME NEW p \in Seq(Frame), NEW q \in Seq(Frame), NEW r \in Seq(Frame)
  PROVE  /\ DOMAIN ((p \o q) \o r) = 1 .. Len(p) + Len(q) + Len(r)
         /\ \A i \in 1 .. Len(p) + Len(q) + Len(r) :
              ((p \o q) \o r)[i] = IF i <= Len(p) THEN p[i]
                                   ELSE IF i <= Len(p) + Len(q) THEN q[i - Len(p)]
                                   ELSE r[i - Len(p) - Len(q)]
<1>1. PICK m : m = p \o q
  OBVIOUS
<1>2. PICK all : all = m \o r
  OBVIOUS
<1>3. PICK a \in Nat, b \in Nat, c \in Nat : a = Len(p) /\ b = Len(q) /\ c = Len(r)
  BY TwoParts
<1>0. m \in Seq(Frame)
  BY <1>1, TwoParts
<1>4. /\ Len(m) = Len(p) + Len(q) /\ DOMAIN m = 1 .. Len(p) + Len(q)
      /\ \A i \in DOMAIN m : m[i] = IF i <= Len(p) THEN p[i] ELSE q[i - Len(p)]
  BY <1>1, TwoParts
<1>5. /\ DOMAIN all = 1 .. Len(m) + Len(r)
      /\ \A i \in DOMAIN all : all[i] = IF i <= Len(m) THEN m[i] ELSE r[i - Len(m)]
  BY <1>0, <1>2, TwoParts
<1>6. \A i \in 1 .. a + b : m[i] = IF i <= a THEN p[i] ELSE q[i - a]
  BY <1>3, <1>4
<1>7. /\ DOMAIN all = 1 .. (a + b) + c
      /\ \A i \in 1 .. (a + b) + c : all[i] = IF i <= a + b THEN m[i] ELSE r[i - (a + b)]
  BY <1>3, <1>4, <1>5
<1>8. \A i \in 1 .. a + b + c :
        all[i] = IF i <= a THEN p[i] ELSE IF i <= a + b THEN q[i - a] ELSE r[i - a - b]
  BY <1>6, <1>7, Positions
<1>9. /\ DOMAIN all = 1 .. Len(p) + Len(q) + Len(r)
      /\ \A i \in 1 .. Len(p) + Len(q) + Len(r) :
           all[i] = IF i <= Len(p) THEN p[i]
                    ELSE IF i <= Len(p) + Len(q) THEN q[i - Len(p)]
                    ELSE r[i - Len(p) - Len(q)]
  BY <1>3, <1>7, <1>8
<1> QED
  BY <1>1, <1>2, <1>9

\* What draining the queues writes after old: new once, or twice over.  An index of
\* the result lies in old, in the first copy or in the last.
LEMMA DrainedIndices ==
  ASSUME NEW old \in Seq(Frame), NEW new \in Seq(Frame), NEW twice \in BOOLEAN,
         NEW all, all = old \o (IF twice THEN new ELSE <<>>) \o new,
         NEW a, a = Len(old), NEW c, c = Len(new),
         NEW b, b = Len(IF twice THEN new ELSE <<>>)
  PROVE  /\ a \in Nat /\ b \in Nat /\ c \in Nat /\ DOMAIN old = 1 .. a /\ DOMAIN new = 1 .. c
         /\ b = 0 \/ b = c
         /\ DOMAIN all = 1 .. a + b + c
         /\ \A i \in DOMAIN all : all[i] = IF i <= a THEN old[i]
                                         ELSE IF i <= a + b THEN new[i - a] ELSE new[i - a - b]
         /\ \A i \in DOMAIN all :
              \/ i \in 1 .. a /\ all[i] = old[i]
              \/ i - a \in 1 .. c /\ i <= a + b /\ all[i] = new[i - a] /\ b = c
              \/ i - a - b \in 1 .. c /\ i > a + b /\ all[i] = new[i - a - b]
<1> DEFINE first == IF twice THEN new ELSE <<>>
<1>1. a \in Nat /\ b \in Nat /\ c \in Nat /\ DOMAIN old = 1 .. a /\ DOMAIN new = 1 .. c
      /\ first \in Seq(Frame)
      /\ Len(first) = b /\ (b = 0 \/ (b = c /\ first = new))
  OBVIOUS
<1>2. DOMAIN all = 1 .. a + b + c
      /\ \A i \in DOMAIN all : all[i] = IF i <= a THEN old[i]
                                       ELSE IF i <= a + b THEN new[i - a] ELSE new[i - a - b]
  <2>1. all = (old \o first) \o new
    OBVIOUS
  <2> HIDE DEF first
  <2>2. old \in Seq(Frame) /\ first \in Seq(Frame) /\ new \in Seq(Frame)
        /\ Len(old) = a /\ Len(first) = b /\ Len(new) = c
    BY <1>1
  <2>4. /\ DOMAIN all = 1 .. a + b + c
        /\ \A i \in DOMAIN all : all[i] = IF i <= a THEN old[i]
                                         ELSE IF i <= a + b THEN first[i - a] ELSE new[i - a - b]
    <3>1. PICK w : w = (old \o first) \o new
      OBVIOUS
    <3>2. /\ DOMAIN w = 1 .. Len(old) + Len(first) + Len(new)
          /\ \A i \in 1 .. Len(old) + Len(first) + Len(new) :
               w[i] = IF i <= Len(old) THEN old[i]
                      ELSE IF i <= Len(old) + Len(first) THEN first[i - Len(old)]
                      ELSE new[i - Len(old) - Len(first)]
      BY <2>2, <3>1, ThreeParts
    <3> QED
      BY <2>1, <2>2, <3>1, <3>2
  <2>5. ASSUME NEW i \in DOMAIN all, ~ (i <= a), i <= a + b
        PROVE  first = new
    BY <1>1, <2>4, <2>5
  <2> QED
    BY <2>4, <2>5
<1> HIDE DEF first
<1>5. ASSUME NEW i \in DOMAIN all
      PROVE  \/ i \in 1 .. a /\ all[i] = old[i]
             \/ i - a \in 1 .. c /\ i <= a + b /\ all[i] = new[i - a] /\ b = c
             \/ i - a - b \in 1 .. c /\ i > a + b /\ all[i] = new[i - a - b]
  <2>1. i \in Nat /\ 1 <= i /\ i <= a + b + c /\ a \in Nat /\ b \in Nat /\ c \in Nat
    BY <1>1, <1>2
  <2>2. CASE i <= a
    BY <1>2, <2>1, <2>2
  <2>3. CASE a < i /\ i <= a + b
    <3>1. b = c /\ i - a \in 1 .. c
      BY <1>1, <2>1, <2>3
    <3>2. all[i] = new[i - a]
      BY <1>2, <2>1, <2>3
    <3> QED
      BY <2>3, <3>1, <3>2
  <2>4. CASE a + b < i
    <3>1. i - a - b \in 1 .. c
      BY <2>1, <2>4
    <3>2. ~(i <= a) /\ ~(i <= a + b)
      BY <2>1, <2>4
    <3>3. all[i] = new[i - a - b]
      BY <1>2, <3>2
    <3> QED
      BY <2>4, <3>1, <3>3
  <2> QED
    BY <2>1, <2>2, <2>3, <2>4
<1> QED
  BY <1>1, <1>2, <1>5

\* What a connection has been written, followed by younger frames in order, is in order.
LEMMA YoungerFrames ==
  ASSUME NEW old \in Seq(Frame), NEW new \in Seq(Frame), NEW bound \in Nat,
         Written(old, bound), Waiting(old, new, bound),
         NEW twice \in BOOLEAN,
         NEW all, all = old \o (IF twice THEN new ELSE <<>>) \o new
  PROVE  Written(all, bound)
<1> USE DEF Written, Waiting
<1> DEFINE a == Len(old)
           c == Len(new)
           b == Len(IF twice THEN new ELSE <<>>)
<1>1. /\ a \in Nat /\ b \in Nat /\ c \in Nat /\ DOMAIN old = 1 .. a /\ DOMAIN new = 1 .. c
      /\ b = 0 \/ b = c
  BY DrainedIndices
<1>2. /\ DOMAIN all = 1 .. a + b + c
      /\ \A i \in DOMAIN all : all[i] = IF i <= a THEN old[i]
                                       ELSE IF i <= a + b THEN new[i - a] ELSE new[i - a - b]
  BY DrainedIndices
<1>5. \A i \in DOMAIN all :
        \/ i \in 1 .. a /\ all[i] = old[i]
        \/ i - a \in 1 .. c /\ i <= a + b /\ all[i] = new[i - a] /\ b = c
        \/ i - a - b \in 1 .. c /\ i > a + b /\ all[i] = new[i - a - b]
  BY DrainedIndices
<1> HIDE DEF a, b, c
<1>3. \A i \in 1 .. a : old[i] \in Nat
  <2>1. \A i \in 1 .. a : old[i] \in Frame
    BY <1>1
  <2> QED
    BY <2>1 DEF Frame
<1>4. \A i \in 1 .. c : new[i] \in Nat
  <2>1. \A i \in 1 .. c : new[i] \in Frame
    BY <1>1
  <2> QED
    BY <2>1 DEF Frame
<1>6. ASSUME NEW i \in DOMAIN all PROVE all[i] <= bound
  <2>1. CASE i \in 1 .. a /\ all[i] = old[i]
    BY <1>1, <2>1
  <2>2. CASE \E m \in 1 .. c : all[i] = new[m]
    BY <1>1, <2>2
  <2>3. \/ i \in 1 .. a /\ all[i] = old[i]
        \/ i - a \in 1 .. c /\ all[i] = new[i - a]
        \/ i - a - b \in 1 .. c /\ all[i] = new[i - a - b]
    BY <1>5
  <2> QED
    BY <2>1, <2>2, <2>3
<1>7. ASSUME NEW i \in DOMAIN all, NEW j \in DOMAIN all, i < j, all[j] < all[i]
      PROVE  \E h \in 1 .. i : all[h] = all[j]
  <2>1. i \in Nat /\ j \in Nat
    BY <1>1, <1>2
  <2>2. CASE i <= a /\ j <= a
    <3>1. i \in 1 .. a /\ j \in 1 .. a /\ all[i] = old[i] /\ all[j] = old[j]
      BY <1>1, <1>2, <2>1, <2>2
    <3>2. PICK h \in 1 .. i : old[h] = old[j]
      BY <1>1, <1>7, <3>1
    <3>3. h \in DOMAIN all /\ h <= a
      BY <1>1, <1>2, <2>2
    <3> QED
      BY <1>2, <3>1, <3>2, <3>3
  <2>3. CASE i <= a /\ a < j
    <3>1. i \in 1 .. a /\ all[i] = old[i]
      BY <1>1, <1>2, <2>1, <2>3
    <3>2. PICK m \in 1 .. c : all[j] = new[m]
      <4>1. j \notin 1 .. a
        BY <1>1, <2>1, <2>3
      <4> QED
        BY <1>5, <4>1
    <3>3. old[i] < new[m] /\ old[i] \in Nat /\ new[m] \in Nat
      BY <1>1, <1>3, <1>4, <3>1, <3>2
    <3>4. new[m] < old[i]
      BY <1>7, <3>1, <3>2
    <3> QED
      BY <3>3, <3>4
  <2>4. CASE a < i
    <3>1. CASE i <= a + b /\ a + b < j
      <4>1. b = c /\ i - a \in 1 .. c /\ j - a - b \in 1 .. c
            /\ all[i] = new[i - a] /\ all[j] = new[j - a - b]
        <5>1. i \notin 1 .. a /\ ~(i > a + b)
          BY <1>1, <2>1, <2>4, <3>1
        <5>2. j \notin 1 .. a /\ ~(j <= a + b)
          BY <1>1, <2>1, <3>1
        <5> QED
          BY <1>5, <5>1, <5>2
      <4> DEFINE p == i - a
                 q == j - a - b
      <4>2. q < p
        <5>1. p \in 1 .. c /\ q \in 1 .. c /\ new[q] < new[p]
          BY <1>7, <4>1
        <5>2. p < q => new[p] < new[q]
          BY <1>1, <5>1 DEF Rising
        <5>3. new[p] \in Nat /\ new[q] \in Nat
          BY <1>4, <5>1
        <5>4. p = q => new[p] = new[q]
          OBVIOUS
        <5> HIDE DEF p, q
        <5>5. ~(p < q) /\ p # q
          BY ONLY <5>1, <5>2, <5>3, <5>4
        <5>6. p \in Nat /\ q \in Nat
          BY <1>1, <5>1
        <5> QED
          BY ONLY <5>5, <5>6
      <4>3. j - b \in 1 .. i /\ j - b \in DOMAIN all /\ a < j - b /\ j - b <= a + b
        <5>1. a \in Nat /\ c \in Nat /\ b = c /\ i \in Nat /\ j \in Nat
          BY <1>1, <2>1, <4>1
        <5>2. j - a - b >= 1 /\ j - a - b < i - a /\ i - a <= c
          BY <4>1, <4>2, <5>1
        <5>3. a < j - b /\ j - b < i /\ j - b <= a + b
          BY <5>1, <5>2
        <5> QED
          BY <1>2, <5>1, <5>3
      <4>4. all[j - b] = new[j - b - a] /\ j - b - a = j - a - b
        <5>1. PICK k \in DOMAIN all : k = j - b
          BY <4>3
        <5>2. k \in Nat /\ ~(k <= a) /\ k <= a + b
          BY <1>1, <2>1, <4>3, <5>1
        <5>3. all[k] = new[k - a]
          BY <1>2, <5>2
        <5>4. k - a = j - b - a /\ j - b - a = j - a - b
          BY <1>1, <2>1, <5>1
        <5> QED
          BY <5>1, <5>3, <5>4
      <4> QED
        BY <4>1, <4>3, <4>4
    <3>2. CASE ~(i <= a + b /\ a + b < j)
      <4>1. \E p, q \in 1 .. c : p < q /\ all[i] = new[p] /\ all[j] = new[q]
        <5>1. CASE j <= a + b
          <6>1. i - a \in 1 .. c /\ all[i] = new[i - a]
            BY <1>1, <1>5, <1>7, <2>1, <2>4, <5>1
          <6>2. j - a \in 1 .. c /\ all[j] = new[j - a]
            BY <1>1, <1>5, <1>7, <2>1, <2>4, <5>1
          <6>3. i - a < j - a
            BY <1>1, <1>7, <2>1
          <6> QED
            BY <6>1, <6>2, <6>3
        <5>2. CASE a + b < i
          <6>1. i - a - b \in 1 .. c /\ all[i] = new[i - a - b]
            <7>1. ~(i <= a) /\ ~(i <= a + b)
              BY <1>1, <2>1, <5>2
            <7>2. i \notin 1 .. a
              BY <7>1
            <7> QED
              BY <1>5, <7>1, <7>2
          <6>2. j - a - b \in 1 .. c /\ all[j] = new[j - a - b]
            <7>1. ~(j <= a + b) /\ j \notin 1 .. a
              BY <1>1, <1>7, <2>1, <5>2
            <7> QED
              BY <1>5, <7>1
          <6>3. i - a - b < j - a - b
            BY <1>1, <1>7, <2>1
          <6> QED
            BY <6>1, <6>2, <6>3
        <5>3. j <= a + b \/ a + b < i
          BY <1>1, <2>1, <3>2
        <5> QED
          BY <5>1, <5>2, <5>3
      <4>2. PICK p \in 1 .. c, q \in 1 .. c : p < q /\ all[i] = new[p] /\ all[j] = new[q]
        BY <4>1
      <4>3. new[p] < new[q] /\ new[p] \in Nat /\ new[q] \in Nat
        BY <1>1, <1>4, <4>2 DEF Rising
      <4>4. new[q] < new[p]
        BY <1>7, <4>2
      <4> QED
        BY <4>3, <4>4
    <3> QED
      BY <3>1, <3>2
  <2>5. (i <= a /\ j <= a) \/ (i <= a /\ a < j) \/ a < i
    BY <1>1, <2>1
  <2> QED
    BY <2>2, <2>3, <2>4, <2>5
<1> QED
  BY <1>6, <1>7

LEMMA NumbersOKStep == TypeInv /\ QueueOK /\ NumbersOK /\ [Next]_vars => NumbersOK'
<1> SUFFICES ASSUME TypeInv, QueueOK, NumbersOK, [Next]_vars PROVE NumbersOK'
  OBVIOUS
<1>0. /\ memory \in Seq(Frame) /\ stored \in Seq(Frame) /\ flushed \in [Key -> Seq(Frame)]
      /\ frame \in Nat /\ links \subseteq Key /\ current \in Key \cup {NoKey}
  BY DEF TypeInv
<1>1. ASSUME NEW k \in Key, DataConnect(k) PROVE NumbersOK'
  <2> DEFINE old == flushed[k]
             all == old \o memory \o stored
  <2>1. /\ flushed' = [flushed EXCEPT ![k] = all]
        /\ stored' = <<>> /\ frame' = frame
    BY <1>1 DEF DataConnect, OnConnect
  <2>2. PICK twice \in BOOLEAN : memory = IF twice THEN stored ELSE <<>>
    BY DEF QueueOK
  <2>3. Written(old, frame) /\ Waiting(old, stored, frame)
    BY DEF NumbersOK, FramesInOrder, Written, Waiting
  <2>4. Written(all, frame)
    <3>1. all = old \o (IF twice THEN stored ELSE <<>>) \o stored
      BY <2>2
    <3>2. old \in Seq(Frame)
      BY <1>0
    <3> HIDE DEF all, old
    <3> QED
      BY <1>0, <2>3, <3>1, <3>2, YoungerFrames
  <2> HIDE DEF all
  <2>5. \A l \in Key : flushed'[l] = IF l = k THEN all ELSE flushed[l]
    BY <1>0, <2>1
  <2>6. Rising(stored)' /\ DOMAIN stored' = {}
    BY <2>1 DEF Rising
  <2>7. \A l \in Key : \A i \in DOMAIN flushed'[l] : flushed'[l][i] <= frame'
    BY <2>1, <2>4, <2>5 DEF NumbersOK, Written
  <2>8. FramesInOrder'
    BY <2>4, <2>5 DEF NumbersOK, FramesInOrder, Written
  <2> QED
    BY <2>6, <2>7, <2>8 DEF NumbersOK
<1>2. ASSUME SendFrame PROVE NumbersOK'
  <2> DEFINE f == frame + 1
  <2>1. f \in Frame /\ f = frame + 1 /\ frame' = frame + 1
    BY <1>0, <1>2 DEF SendFrame, Frame
  <2>2. \/ /\ \E k \in links : flushed' = [flushed EXCEPT ![k] = Append(@, f)]
           /\ memory' = memory /\ stored' = stored
        \/ /\ links = {}
           /\ memory' = Append(memory, f)
           /\ stored' = Append(memory, f)
           /\ flushed' = flushed
    BY <1>2 DEF SendFrame, queue
  <2> HIDE DEF f
  <2>3. ASSUME NEW s \in Seq(Frame)
        PROVE  /\ DOMAIN Append(s, f) = DOMAIN s \cup {Len(s) + 1}
               /\ \A i \in DOMAIN s : Append(s, f)[i] = s[i] /\ i \in 1 .. Len(s)
               /\ Append(s, f)[Len(s) + 1] = f /\ Len(s) \in Nat
    BY <2>1
  <2>4. ASSUME NEW s \in Seq(Frame) PROVE \A i \in DOMAIN s : s[i] \in Nat
    <3>1. \A i \in DOMAIN s : s[i] \in Frame
      OBVIOUS
    <3> QED
      BY <3>1 DEF Frame
  <2>5. ASSUME NEW k \in links, flushed' = [flushed EXCEPT ![k] = Append(@, f)],
               stored' = stored
        PROVE  NumbersOK'
    <3> DEFINE s == flushed[k]
    <3>1. stored = <<>>
      BY DEF QueueOK, QueuedFramesAwaitBridge
    <3>2. s \in Seq(Frame) /\ \A l \in Key : flushed'[l] = IF l = k THEN Append(s, f) ELSE flushed[l]
      BY <1>0, <2>5
    <3>3. \A i \in DOMAIN s : s[i] <= frame /\ s[i] \in Nat
      BY <1>0, <2>4, <3>2 DEF NumbersOK
    <3>4. \A i, j \in DOMAIN s : i < j /\ s[j] < s[i] => \E h \in 1 .. i : s[h] = s[j]
      BY <1>0 DEF NumbersOK, FramesInOrder
    <3> DEFINE t == Append(s, f)
    <3> HIDE DEF s
    <3>5. DOMAIN t = DOMAIN s \cup {Len(s) + 1} /\ (\A i \in DOMAIN s : t[i] = s[i] /\ i \in 1 .. Len(s))
          /\ t[Len(s) + 1] = f /\ Len(s) \in Nat /\ DOMAIN s = 1 .. Len(s)
      BY <2>3, <3>2
    <3> HIDE DEF t
    <3>6. \A i \in DOMAIN t : t[i] <= frame + 1
      BY <1>0, <2>1, <3>3, <3>5
    <3>7. ASSUME NEW i \in DOMAIN t, NEW j \in DOMAIN t, i < j, t[j] < t[i]
          PROVE  \E h \in 1 .. i : t[h] = t[j]
      <4>1. i \in DOMAIN s
        BY <3>5, <3>7
      <4>2. CASE j \in DOMAIN s
        <5>1. PICK h \in 1 .. i : s[h] = s[j]
          BY <3>4, <3>5, <3>7, <4>1, <4>2
        <5>2. h \in DOMAIN s
          BY <3>5, <4>1
        <5> QED
          BY <3>5, <4>2, <5>1, <5>2
      <4>3. CASE j = Len(s) + 1
        <5>1. t[j] = frame + 1 /\ t[i] <= frame /\ t[i] \in Nat
          BY <2>1, <3>3, <3>5, <4>1, <4>3
        <5> QED
          BY <1>0, <3>7, <5>1
      <4> QED
        BY <3>5, <4>2, <4>3
    <3>8. \A l \in Key : flushed'[l] = IF l = k THEN t ELSE flushed[l]
      BY <3>2 DEF t
    <3>9. FramesInOrder'
      BY <3>7, <3>8 DEF NumbersOK, FramesInOrder
    <3>10. ASSUME NEW l \in Key, NEW i \in DOMAIN flushed'[l] PROVE flushed'[l][i] <= frame'
      <4>1. CASE l = k
        BY <2>1, <3>6, <3>8, <4>1
      <4>2. CASE l # k
        <5>1. flushed'[l] = flushed[l] /\ flushed[l] \in Seq(Frame)
          BY <1>0, <3>8, <4>2
        <5>2. flushed[l][i] <= frame /\ flushed[l][i] \in Nat
          BY <2>4, <5>1 DEF NumbersOK
        <5> QED
          BY <1>0, <2>1, <5>1, <5>2
      <4> QED
        BY <4>1, <4>2
    <3>11. DOMAIN stored' = {} /\ Rising(stored)'
      BY <2>5, <3>1 DEF Rising
    <3> QED
      BY <3>9, <3>10, <3>11 DEF NumbersOK
  <2>6. ASSUME stored' = Append(memory, f), flushed' = flushed PROVE NumbersOK'
    <3>1. memory = stored \/ DOMAIN memory = {}
      BY DEF QueueOK
    <3>2. Rising(memory) /\ \A i \in DOMAIN memory : memory[i] <= frame /\ memory[i] \in Nat
      BY <1>0, <2>4, <3>1 DEF NumbersOK, Rising
    <3>3. DOMAIN stored' = DOMAIN memory \cup {Len(memory) + 1} /\ Len(memory) \in Nat
          /\ (\A i \in DOMAIN memory : stored'[i] = memory[i] /\ i \in 1 .. Len(memory))
          /\ stored'[Len(memory) + 1] = f
      BY <1>0, <2>3, <2>6
    <3>4. Rising(stored)'
      <4>1. ASSUME NEW i \in DOMAIN stored', NEW j \in DOMAIN stored', i < j
            PROVE  stored'[i] < stored'[j]
        <5>1. i \in DOMAIN memory
          BY <3>3, <4>1
        <5>2. CASE j \in DOMAIN memory
          BY <3>2, <3>3, <4>1, <5>1, <5>2 DEF Rising
        <5>3. CASE j = Len(memory) + 1
          BY <1>0, <2>1, <3>2, <3>3, <5>1, <5>3
        <5> QED
          BY <3>3, <5>2, <5>3
      <4> QED
        BY <4>1 DEF Rising
    <3>5. \A i \in DOMAIN stored' : stored'[i] <= frame'
      BY <1>0, <2>1, <3>2, <3>3
    <3>6. ASSUME NEW k \in Key, NEW i \in DOMAIN flushed[k]
          PROVE  /\ flushed[k][i] <= frame'
                 /\ \A j \in DOMAIN stored' : flushed[k][i] < stored'[j]
      <4>1. flushed[k][i] <= frame /\ flushed[k][i] \in Nat
        BY <1>0, <2>4 DEF NumbersOK
      <4>2. \A j \in DOMAIN memory : flushed[k][i] < memory[j]
        BY <3>1 DEF NumbersOK
      <4>3. flushed[k][i] < f
        BY <1>0, <2>1, <4>1
      <4> QED
        BY <1>0, <2>1, <3>3, <4>1, <4>2, <4>3
    <3>7. FramesInOrder'
      BY <2>6 DEF NumbersOK, FramesInOrder
    <3> QED
      BY <2>6, <3>4, <3>5, <3>6, <3>7 DEF NumbersOK
  <2> QED
    BY <2>2, <2>5, <2>6
<1>3. ASSUME CloseBridgeConnection PROVE NumbersOK'
  <2>1. stored' = <<>> /\ flushed' = flushed /\ frame' = frame
    BY <1>3 DEF CloseBridgeConnection
  <2> QED
    BY <2>1 DEF NumbersOK, FramesInOrder, Rising
<1>4. ASSUME UNCHANGED <<stored, flushed, frame>> PROVE NumbersOK'
  BY <1>4 DEF NumbersOK, FramesInOrder, Rising
<1> QED
  BY <1>1, <1>2, <1>3, <1>4
  DEF Next, vars, agent, queue, RequestSession, OnClose, OpenSession, DataConnectFails,
      EngineEnds, ReportClosed, SessionClosed, SessionCreated, Evict, ControlBreaks,
      ControlReconnects, SocketGone
-----------------------------------------------------------------------------
LEMMA LinkInvInit == Init => LinkInv
<1> SUFFICES ASSUME Init PROVE LinkInv
  OBVIOUS
<1>1. ReportsOK
  BY DEF Init, ReportsOK, LiveSessionsAreRouted, ClosesFollowEnd, Phase
<1>2. QueueOK
  BY DEF Init, QueueOK, QueuedFramesAwaitBridge
<1>3. stored = <<>> /\ \A k \in Key : flushed[k] = <<>>
  BY DEF Init
<1>4. NumbersOK
  BY <1>3 DEF NumbersOK, FramesInOrder, Rising
<1> QED
  BY <1>1, <1>2, <1>4, TypeInvInit DEF LinkInv

LEMMA LinkInvStep == LinkInv /\ [Next]_vars => LinkInv'
BY TypeInvStep, ReportsOKStep, QueueOKStep, NumbersOKStep DEF LinkInv

LEMMA LinkInvariant == Spec => []LinkInv
<1>1. Init => LinkInv
  BY LinkInvInit
<1>2. LinkInv /\ [Next]_vars => LinkInv'
  BY LinkInvStep
<1> QED
  BY <1>1, <1>2, PTL DEF Spec

\* Type correctness of agent, DurableSocket and bridge.
THEOREM LinkTypeCorrect == Spec => []TypeOK
<1>1. LinkInv => TypeOK
  BY DEF LinkInv, TypeInv, TypeOK
<1> QED
  BY <1>1, LinkInvariant, PTL

\* No interleaving of sends, connects, closes and evictions leaves a frame queued
\* behind a live bridge connection.
THEOREM QueuedFramesAwaitBridgeCorrect == Spec => []QueuedFramesAwaitBridge
<1>1. LinkInv => QueuedFramesAwaitBridge
  BY DEF LinkInv, QueueOK
<1> QED
  BY <1>1, LinkInvariant, PTL

\* On every connection a frame that is younger than its successor is repeated:
\* draining both queues repeats frames and does not reorder them.
THEOREM FramesInOrderCorrect == Spec => []FramesInOrder
<1>1. LinkInv => FramesInOrder
  BY DEF LinkInv, NumbersOK
<1> QED
  BY <1>1, LinkInvariant, PTL

\* A session_closed always finds the row of its session.
THEOREM LiveSessionsAreRoutedCorrect == Spec => []LiveSessionsAreRouted
<1>1. LinkInv => LiveSessionsAreRouted
  BY DEF LinkInv, ReportsOK
<1> QED
  BY <1>1, LinkInvariant, PTL

\* The agent never hears of the end of a session that is still relaying.
THEOREM ClosesFollowEndCorrect == Spec => []ClosesFollowEnd
<1>1. LinkInv => ClosesFollowEnd
  BY DEF LinkInv, ReportsOK
<1> QED
  BY <1>1, LinkInvariant, PTL
-----------------------------------------------------------------------------
(* What an eviction can lose *)

LostBy(n) ==
  \/ Accepted(n)' \/ CloseBridgeConnection
  \/ SendFrame /\ \A i \in DOMAIN memory : memory[i] # n

LEMMA LossStep ==
  ASSUME TypeInv, [Next]_vars, NEW n, NEW i \in DOMAIN stored, n = stored[i]
  PROVE  LostBy(n)
<1>0. stored \in Seq(Frame) /\ memory \in Seq(Frame) /\ flushed \in [Key -> Seq(Frame)]
      /\ frame \in Nat /\ current \in Key \cup {NoKey}
  BY DEF TypeInv
<1>1. ASSUME UNCHANGED stored PROVE LostBy(n)
  BY <1>1 DEF LostBy, Accepted
<1>2. ASSUME NEW k \in Key, DataConnect(k) PROVE LostBy(n)
  <2> DEFINE p == flushed[k] \o memory
             m == Len(p) + i
  <2>1. flushed[k] \in Seq(Frame) /\ p \in Seq(Frame) /\ Len(p) \in Nat /\ i \in 1 .. Len(stored)
    BY <1>0
  <2>2. flushed'[k] = p \o stored
    BY <1>0, <1>2 DEF DataConnect, OnConnect
  <2> HIDE DEF p
  <2>3. m \in DOMAIN (p \o stored) /\ (p \o stored)[m] = stored[i]
    BY <1>0, <2>1
  <2>4. m \in DOMAIN flushed'[k] /\ flushed'[k][m] = n
    BY <2>2, <2>3
  <2> QED
    BY <2>4 DEF LostBy, Accepted
<1>3. ASSUME SendFrame PROVE LostBy(n)
  <2> DEFINE f == frame + 1
  <2>1. f \in Frame
    BY <1>0 DEF Frame
  <2>2. stored' = stored \/ stored' = Append(memory, f)
    BY <1>3 DEF SendFrame, queue
  <2> HIDE DEF f
  <2>3. CASE stored' = stored
    BY <1>1, <2>3
  <2>4. ASSUME stored' = Append(memory, f), NEW j \in DOMAIN memory, memory[j] = stored[i]
        PROVE  LostBy(n)
    <3>1. j \in DOMAIN stored' /\ stored'[j] = memory[j]
      BY <1>0, <2>1, <2>4
    <3> QED
      BY <2>4, <3>1 DEF LostBy, Accepted
  <2> QED
    BY <1>3, <2>2, <2>3, <2>4 DEF LostBy
<1>4. ASSUME CloseBridgeConnection PROVE LostBy(n)
  BY <1>4 DEF LostBy
<1> QED
  BY <1>1, <1>2, <1>3, <1>4
  DEF Next, vars, agent, queue, RequestSession, OnClose, OpenSession, DataConnectFails,
      EngineEnds, ReportClosed, SessionClosed, SessionCreated, Evict, ControlBreaks,
      ControlReconnects, SocketGone

\* The exact extent of what QueueSurvives denies: a stored frame is lost by a close, or by
\* the first send of an object that an eviction has left without its queue in memory.
QueueLostByEviction ==
  [][\A n \in {stored[i] : i \in DOMAIN stored} :
       \/ Accepted(n)' \/ CloseBridgeConnection
       \/ SendFrame /\ \A i \in DOMAIN memory : memory[i] # n]_vars

\* sendBridgeBytes after an eviction overwrites what was stored, and nothing else that any
\* of the three parties does loses a frame but the agent's own close.
THEOREM QueueLostByEvictionCorrect == Spec => QueueLostByEviction
<1>1. LinkInv /\ [Next]_vars => [\A n \in {stored[i] : i \in DOMAIN stored} : LostBy(n)]_vars
  BY LossStep DEF LinkInv
<1>2. [\A n \in {stored[i] : i \in DOMAIN stored} : LostBy(n)]_vars
      => [\A n \in {stored[i] : i \in DOMAIN stored} :
            \/ Accepted(n)' \/ CloseBridgeConnection
            \/ SendFrame /\ \A i \in DOMAIN memory : memory[i] # n]_vars
  BY DEF LostBy
<1> QED
  BY <1>1, <1>2, LinkInvariant, PTL DEF Spec, QueueLostByEviction
-----------------------------------------------------------------------------
(* How often a frame is written *)

LEMMA FrameNumbers == ASSUME NEW s \in Seq(Frame), NEW i \in DOMAIN s PROVE s[i] \in Nat
<1>1. s[i] \in Frame
  OBVIOUS
<1> QED
  BY <1>1 DEF Frame

\* Draining repeats each queued frame once at most, and nothing written before.
LEMMA DrainedTwice ==
  ASSUME NEW old \in Seq(Frame), NEW new \in Seq(Frame), NEW twice \in BOOLEAN,
         Rising(new), \A i \in DOMAIN old, j \in DOMAIN new : old[i] < new[j],
         ~Thrice(old),
         NEW all, all = old \o (IF twice THEN new ELSE <<>>) \o new
  PROVE  /\ ~Thrice(all)
         /\ Numbers(all) \subseteq Numbers(old) \cup Numbers(new)
<1> DEFINE a == Len(old)
           c == Len(new)
           b == Len(IF twice THEN new ELSE <<>>)
           Old(i) == i \in DOMAIN old /\ all[i] = old[i]
           First(i) == i - a \in DOMAIN new /\ i <= a + b /\ all[i] = new[i - a]
           Last(i) == i - a - b \in DOMAIN new /\ i > a + b /\ all[i] = new[i - a - b]
<1>1. /\ a \in Nat /\ b \in Nat /\ c \in Nat /\ DOMAIN all = 1 .. a + b + c
      /\ DOMAIN old = 1 .. a /\ DOMAIN new = 1 .. c
  BY DrainedIndices
<1>2. \A i \in DOMAIN all : Old(i) \/ First(i) \/ Last(i)
  BY <1>1, DrainedIndices
<1> HIDE DEF a, b, c
<1>3. \A i \in DOMAIN old : old[i] \in Nat
  BY FrameNumbers
<1>4. \A i \in DOMAIN new : new[i] \in Nat
  BY FrameNumbers
<1>5. ASSUME NEW i \in DOMAIN new, NEW j \in DOMAIN new, new[i] = new[j] PROVE i = j
  <2>1. i < j => new[i] < new[j]
    BY DEF Rising
  <2>2. j < i => new[j] < new[i]
    BY DEF Rising
  <2>3. i < j \/ j < i \/ i = j
    BY <1>1
  <2> QED
    BY <1>4, <1>5, <2>1, <2>2, <2>3
<1>6. ASSUME NEW i \in DOMAIN all, NEW j \in DOMAIN all, all[i] = all[j],
             Old(i), First(j) \/ Last(j)
      PROVE  FALSE
  <2>1. \E m \in DOMAIN new : all[j] = new[m]
    BY <1>6
  <2> QED
    BY <1>3, <1>4, <1>6, <2>1
<1>7. ASSUME NEW i \in DOMAIN all, NEW j \in DOMAIN all, First(i), First(j), all[i] = all[j]
      PROVE  i = j
  <2>1. i - a = j - a
    BY <1>5, <1>7
  <2> QED
    BY <1>1, <2>1
<1>8. ASSUME NEW i \in DOMAIN all, NEW j \in DOMAIN all, Last(i), Last(j), all[i] = all[j]
      PROVE  i = j
  <2>1. i - a - b = j - a - b
    BY <1>5, <1>8
  <2> QED
    BY <1>1, <2>1
<1>9. ASSUME NEW h \in DOMAIN all, NEW i \in DOMAIN all, NEW j \in DOMAIN all,
             h < i, i < j, all[h] = all[i], all[i] = all[j]
      PROVE  FALSE
  <2>1. h # i /\ i # j /\ h # j
    BY <1>1, <1>9
  <2>2. CASE Old(h)
    <3>1. Old(i) /\ Old(j)
      BY <1>2, <1>6, <1>9, <2>2
    <3> QED
      BY <1>9, <2>2, <3>1 DEF Thrice
  <2>3. CASE First(h) \/ Last(h)
    <3>1. (First(i) \/ Last(i)) /\ (First(j) \/ Last(j))
      BY <1>2, <1>6, <1>9, <2>3
    <3> HIDE DEF First, Last
    <3> QED
      BY <1>7, <1>8, <1>9, <2>1, <2>3, <3>1
  <2> QED
    BY <1>2, <2>2, <2>3
<1>10. Numbers(all) \subseteq Numbers(old) \cup Numbers(new)
  <2> SUFFICES ASSUME NEW i \in DOMAIN all PROVE all[i] \in Numbers(old) \cup Numbers(new)
    BY DEF Numbers
  <2> QED
    BY <1>2 DEF Numbers
<1> QED
  BY <1>9, <1>10 DEF Thrice

LEMMA AtMostTwiceStep == LinkInv /\ AtMostTwice /\ [Next]_vars => AtMostTwice'
<1> SUFFICES ASSUME LinkInv, AtMostTwice, [Next]_vars PROVE AtMostTwice'
  OBVIOUS
<1>0. /\ memory \in Seq(Frame) /\ stored \in Seq(Frame) /\ flushed \in [Key -> Seq(Frame)]
      /\ frame \in Nat /\ links \subseteq Key /\ current \in Key \cup {NoKey}
  BY DEF LinkInv, TypeInv
\* Only k is written, with frames that no connection had been written.
<1>1. ASSUME NEW k \in Key, NEW s \in Seq(Frame), flushed' = [flushed EXCEPT ![k] = s], ~Thrice(s),
             NEW N, Numbers(s) \subseteq Numbers(flushed[k]) \cup N,
             \A l \in Key : Numbers(flushed[l]) \cap N = {}
      PROVE  AtMostTwice'
  <2>1. \A l \in Key : flushed'[l] = IF l = k THEN s ELSE flushed[l]
    BY <1>0, <1>1
  <2>2. ASSUME NEW l \in Key, l # k PROVE Numbers(s) \cap Numbers(flushed[l]) = {}
    BY <1>1, <2>2 DEF AtMostTwice, OneOrTwo
  <2>3. \A l, m \in Key : l # m => Numbers(flushed'[l]) \cap Numbers(flushed'[m]) = {}
    BY <2>1, <2>2 DEF AtMostTwice, OneOrTwo
  <2>4. \A l \in Key : ~Thrice(flushed'[l])
    BY <1>1, <2>1 DEF AtMostTwice, OneOrTwo
  <2> QED
    BY <2>3, <2>4 DEF AtMostTwice, OneOrTwo
<1>2. ASSUME NEW k \in Key, DataConnect(k) PROVE AtMostTwice'
  <2> DEFINE all == flushed[k] \o memory \o stored
  <2>1. flushed' = [flushed EXCEPT ![k] = all] /\ all \in Seq(Frame)
    BY <1>0, <1>2 DEF DataConnect, OnConnect
  <2>2. PICK twice \in BOOLEAN : memory = IF twice THEN stored ELSE <<>>
    BY DEF LinkInv, QueueOK
  <2>3. /\ Rising(stored) /\ ~Thrice(flushed[k])
        /\ \A l \in Key : \A i \in DOMAIN flushed[l], j \in DOMAIN stored :
             flushed[l][i] < stored[j]
    BY DEF LinkInv, NumbersOK, AtMostTwice, OneOrTwo
  <2>4. all = flushed[k] \o (IF twice THEN stored ELSE <<>>) \o stored
    BY <2>2
  <2>5. flushed[k] \in Seq(Frame)
    BY <1>0
  <2> DEFINE old == flushed[k]
  <2> HIDE DEF all
  <2>6. ~Thrice(all) /\ Numbers(all) \subseteq Numbers(old) \cup Numbers(stored)
    <3>1. /\ old \in Seq(Frame) /\ ~Thrice(old)
          /\ \A i \in DOMAIN old, j \in DOMAIN stored : old[i] < stored[j]
          /\ all = old \o (IF twice THEN stored ELSE <<>>) \o stored
      BY <2>3, <2>4, <2>5
    <3> HIDE DEF old
    <3> QED
      BY <1>0, <2>3, <3>1, DrainedTwice
  <2>7. ASSUME NEW l \in Key PROVE Numbers(flushed[l]) \cap Numbers(stored) = {}
    <3>1. \A i \in DOMAIN flushed[l] : flushed[l][i] \in Nat
      BY <1>0, FrameNumbers
    <3>2. \A i \in DOMAIN flushed[l], j \in DOMAIN stored : flushed[l][i] # stored[j]
      BY <1>0, <2>3, <3>1, FrameNumbers
    <3> QED
      BY <3>2 DEF Numbers
  <2> QED
    BY <1>1, <2>1, <2>6, <2>7
<1>3. ASSUME SendFrame PROVE AtMostTwice'
  <2> DEFINE f == frame + 1
  <2>1. f \in Frame /\ f = frame + 1
    BY <1>0 DEF Frame
  <2>2. (\E k \in links : flushed' = [flushed EXCEPT ![k] = Append(@, f)]) \/ flushed' = flushed
    BY <1>3 DEF SendFrame
  <2> HIDE DEF f
  <2>3. ASSUME NEW k \in links, flushed' = [flushed EXCEPT ![k] = Append(@, f)]
        PROVE  AtMostTwice'
    <3> DEFINE s == flushed[k]
               t == Append(s, f)
    <3>1. s \in Seq(Frame) /\ t \in Seq(Frame) /\ k \in Key /\ flushed' = [flushed EXCEPT ![k] = t]
      BY <1>0, <2>1, <2>3
    <3>2. ASSUME NEW l \in Key, NEW i \in DOMAIN flushed[l]
          PROVE  flushed[l][i] # frame + 1 /\ flushed[l][i] \in Nat
      <4>1. flushed[l][i] \in Nat
        BY <1>0, FrameNumbers
      <4>2. flushed[l][i] <= frame
        BY DEF LinkInv, NumbersOK
      <4> QED
        BY <1>0, <4>1, <4>2
    <3>3. ~Thrice(s) /\ \A i \in DOMAIN s : s[i] # frame + 1
      BY <3>1, <3>2 DEF AtMostTwice, OneOrTwo
    <3> HIDE DEF s
    <3>4. /\ DOMAIN t = 1 .. Len(s) + 1 /\ DOMAIN s = 1 .. Len(s) /\ Len(s) \in Nat
          /\ \A i \in DOMAIN s : t[i] = s[i]
          /\ t[Len(s) + 1] = f
      BY <2>1, <3>1
    <3> HIDE DEF t
    <3>5. ~Thrice(t)
      <4> SUFFICES ASSUME NEW h \in DOMAIN t, NEW i \in DOMAIN t, NEW j \in DOMAIN t, h < i, i < j,
                          t[h] = t[i], t[i] = t[j]
                   PROVE  FALSE
        BY DEF Thrice
      <4>1. h \in DOMAIN s /\ i \in DOMAIN s
        BY <3>4
      <4>2. CASE j \in DOMAIN s
        BY <3>3, <3>4, <4>1, <4>2 DEF Thrice
      <4>3. CASE j = Len(s) + 1
        BY <2>1, <3>3, <3>4, <4>1, <4>3
      <4> QED
        BY <3>4, <4>2, <4>3
    <3>6. Numbers(t) \subseteq Numbers(s) \cup {frame + 1}
      <4> SUFFICES ASSUME NEW i \in DOMAIN t PROVE t[i] \in Numbers(s) \cup {frame + 1}
        BY DEF Numbers
      <4>1. CASE i \in DOMAIN s
        BY <3>4, <4>1 DEF Numbers
      <4>2. CASE i = Len(s) + 1
        BY <2>1, <3>4, <4>2
      <4> QED
        BY <3>4, <4>1, <4>2
    <3>7. \A l \in Key : Numbers(flushed[l]) \cap {frame + 1} = {}
      BY <3>2 DEF Numbers
    <3> QED
      BY <1>1, <3>1, <3>5, <3>6, <3>7 DEF s
  <2>4. CASE flushed' = flushed
    BY <2>4 DEF AtMostTwice
  <2> QED
    BY <2>2, <2>3, <2>4
<1>4. CASE UNCHANGED flushed
  BY <1>4 DEF AtMostTwice
<1> QED
  BY <1>2, <1>3, <1>4
  DEF Next, vars, agent, RequestSession, OnClose, OpenSession, DataConnectFails,
      EngineEnds, ReportClosed, SessionClosed, SessionCreated, CloseBridgeConnection, Evict,
      ControlBreaks, ControlReconnects, SocketGone

\* The true form of DrainedOnce: a frame is written to one connection only, whatever
\* reconnects between, and there at most twice, once from each of the two queues.
THEOREM AtMostTwiceCorrect == Spec => []AtMostTwice
<1>1. Init => AtMostTwice
  <2> SUFFICES ASSUME Init PROVE AtMostTwice
    OBVIOUS
  <2>1. \A k \in Key : flushed[k] = <<>>
    BY DEF Init
  <2> QED
    BY <2>1 DEF AtMostTwice, OneOrTwo, Numbers, Thrice
<1> QED
  BY <1>1, AtMostTwiceStep, LinkInvariant, PTL DEF Spec
-----------------------------------------------------------------------------
(* BridgeLink implements BridgeSession *)

ToldByControl(k) == [key |-> k, path |-> "control"] \in closes

\* What is known of a session whose end is on its way to the agent.
SessionOK ==
  \A k \in Key :
    /\ k \in owed => phase[k] \in {"relaying", "ended", "reported"}
    /\ ToldByControl(k) => phase[k] = "reported" /\ k \notin reports

LEMMA SessionOKStep == LinkInv /\ SessionOK /\ [Next]_vars => SessionOK'
<1> SUFFICES ASSUME LinkInv, SessionOK, [Next]_vars, NEW l \in Key
             PROVE  /\ l \in owed' => phase'[l] \in {"relaying", "ended", "reported"}
                    /\ [key |-> l, path |-> "control"] \in closes'
                         => phase'[l] = "reported" /\ l \notin reports'
  BY DEF SessionOK, ToldByControl
<1> DEFINE told == [key |-> l, path |-> "control"]
           Goal == /\ l \in owed' => phase'[l] \in {"relaying", "ended", "reported"}
                   /\ told \in closes' => phase'[l] = "reported" /\ l \notin reports'
<1>0. phase \in [Key -> Phase]
      /\ (l \in owed => phase[l] \in {"relaying", "ended", "reported"})
      /\ (told \in closes => phase[l] = "reported" /\ l \notin reports)
  BY DEF LinkInv, TypeInv, SessionOK, ToldByControl
<1>1. ASSUME NEW k \in Key, RequestSession(k) PROVE Goal
  BY <1>0, <1>1 DEF RequestSession, Phase
<1>2. ASSUME NEW k \in Key, OnClose(k) PROVE Goal
  BY <1>0, <1>2 DEF OnClose, OnSocketClosed, bridge
<1>3. ASSUME NEW k \in Key, OpenSession(k) PROVE Goal
  BY <1>0, <1>3 DEF OpenSession, agent
<1>4. ASSUME NEW k \in Key, DataConnect(k) PROVE Goal
  BY <1>0, <1>4 DEF DataConnect, OnConnect
<1>5. ASSUME NEW k \in Key, DataConnectFails(k) PROVE Goal
  BY <1>0, <1>5 DEF DataConnectFails, agent
<1>6. ASSUME NEW k \in Key, EngineEnds(k) PROVE Goal
  BY <1>0, <1>6 DEF EngineEnds, agent
<1>7. ASSUME NEW k \in Key, ReportClosed(k) PROVE Goal
  BY <1>0, <1>7 DEF ReportClosed, agent
<1>8. ASSUME NEW k \in Key, SessionClosed(k) PROVE Goal
  <2>1. phase[k] = "reported"
    BY <1>8 DEF SessionClosed, LinkInv, ReportsOK
  <2> QED
    BY <1>0, <1>8, <2>1 DEF SessionClosed, OnSocketClosed, bridge
<1>9. CASE UNCHANGED <<owed, closes, phase, reports>>
  BY <1>0, <1>9
<1>10. ASSUME ControlBreaks PROVE Goal
  BY <1>0, <1>10 DEF ControlBreaks, agent
<1> QED
  BY <1>1, <1>2, <1>3, <1>4, <1>5, <1>6, <1>7, <1>8, <1>9, <1>10
  DEF Next, vars, agent, bridge, SessionCreated, SendFrame, CloseBridgeConnection, Evict,
      ControlReconnects, SocketGone

\* The session of a key is disturbed only through these four.
LEMMA SessionUndisturbed ==
  ASSUME NEW l \in Key, phase'[l] = phase[l],
         l \in links' <=> l \in links, l \in owed' <=> l \in owed,
         ToldByControl(l)' <=> ToldByControl(l)
  PROVE  [Session(l)!Next]_(Session(l)!session)
<1>1. SessionState(l)' = SessionState(l)
  BY DEF SessionState
<1>2. NoticesDue(l)' = NoticesDue(l)
  BY <1>1 DEF NoticesDue, ToldByControl
<1> QED
  BY <1>1, <1>2 DEF Session!session

\* ... as every state of it says.
LEMMA SessionReads ==
  ASSUME LinkInv, SessionOK, NEW l \in Key
  PROVE  /\ phase[l] = "new" => SessionState(l) = "none"
         /\ phase[l] \in {"requested", "connecting"} => SessionState(l) = "asked"
         /\ phase[l] = "relaying" /\ l \in links => SessionState(l) = "open"
         /\ phase[l] = "relaying" /\ l \notin links => SessionState(l) = "shut"
         /\ phase[l] \in {"ended", "reported"} => SessionState(l) = "shut"
         /\ SessionState(l) # "shut" => NoticesDue(l) = 0
         /\ SessionState(l) = "shut" =>
              NoticesDue(l) = (IF l \in owed THEN 1 ELSE 0) + (IF ToldByControl(l) THEN 0 ELSE 1)
BY DEF LinkInv, TypeInv, Phase, SessionState, NoticesDue, ToldByControl

LEMMA NextSession ==
  ASSUME LinkInv, SessionOK, LinkInv', SessionOK', [Next]_vars, NEW l \in Key
  PROVE  [Session(l)!Next]_(Session(l)!session)
<1> DEFINE Goal == [Session(l)!Next]_(Session(l)!session)
<1>0. /\ phase \in [Key -> Phase] /\ links \subseteq owed
      /\ l \in owed => phase[l] \in {"relaying", "ended", "reported"}
      /\ ToldByControl(l) => phase[l] = "reported" /\ l \notin reports
      /\ Session(l)!Next => Goal
  BY DEF LinkInv, TypeInv, SessionOK
<1>a. /\ phase'[l] = "new" => SessionState(l)' = "none"
      /\ phase'[l] \in {"requested", "connecting"} => SessionState(l)' = "asked"
      /\ phase'[l] = "relaying" /\ l \in links' => SessionState(l)' = "open"
      /\ phase'[l] = "relaying" /\ l \notin links' => SessionState(l)' = "shut"
      /\ phase'[l] \in {"ended", "reported"} => SessionState(l)' = "shut"
      /\ SessionState(l)' # "shut" => NoticesDue(l)' = 0
      /\ SessionState(l)' = "shut" =>
           NoticesDue(l)' = (IF l \in owed' THEN 1 ELSE 0) + (IF ToldByControl(l)' THEN 0 ELSE 1)
  BY DEF LinkInv, TypeInv, Phase, SessionState, NoticesDue, ToldByControl
<1>1. ASSUME NEW k \in Key, RequestSession(k) PROVE Goal
  <2>1. CASE k = l
    <3>1. phase[l] = "new" /\ phase'[l] = "requested"
      BY <1>0, <1>1, <2>1 DEF RequestSession
    <3> QED
      BY <1>0, <1>a, <3>1, SessionReads DEF Session!Next, Session!Ask
  <2>2. CASE k # l
    BY <1>0, <1>1, <2>2, SessionUndisturbed DEF RequestSession, ToldByControl
  <2> QED
    BY <2>1, <2>2
<1>2. ASSUME NEW k \in Key, OnClose(k) PROVE Goal
  <2>0. ToldByControl(l)' <=> ToldByControl(l)
    BY <1>2 DEF OnClose, OnSocketClosed, ToldByControl
  <2>1. CASE k = l
    <3>1. /\ phase[l] \in {"ended", "reported"} /\ phase'[l] = phase[l]
          /\ l \in owed /\ l \notin owed'
      BY <1>2, <2>1 DEF OnClose, bridge
    <3>2. SessionState(l) = "shut" /\ SessionState(l)' = "shut"
      BY <1>a, <3>1, SessionReads
    <3>3. NoticesDue(l) > 0 /\ NoticesDue(l)' = NoticesDue(l) - 1
      BY <1>a, <2>0, <3>1, <3>2, SessionReads
    <3> QED
      BY <1>0, <3>2, <3>3 DEF Session!Next, Session!Hear
  <2>2. CASE k # l
    BY <1>2, <2>0, <2>2, SessionUndisturbed DEF OnClose, bridge
  <2> QED
    BY <2>1, <2>2
<1>3. ASSUME NEW k \in Key, OpenSession(k) PROVE Goal
  <2>1. CASE k = l
    <3>1. phase[l] = "requested" /\ phase'[l] = "connecting"
      BY <1>0, <1>3, <2>1 DEF OpenSession
    <3> QED
      BY <1>0, <1>a, <3>1, SessionReads DEF Session!session
  <2>2. CASE k # l
    BY <1>0, <1>3, <2>2, SessionUndisturbed DEF OpenSession, agent, ToldByControl
  <2> QED
    BY <2>1, <2>2
<1>4. ASSUME NEW k \in Key, DataConnect(k) PROVE Goal
  <2>1. CASE k = l
    <3>1. phase[l] = "connecting" /\ phase'[l] = "relaying" /\ l \in links'
      BY <1>0, <1>4, <2>1 DEF DataConnect, OnConnect
    <3> QED
      BY <1>0, <1>a, <3>1, SessionReads DEF Session!Next, Session!Connect
  <2>2. CASE k # l
    BY <1>0, <1>4, <2>2, SessionUndisturbed DEF DataConnect, OnConnect, ToldByControl
  <2> QED
    BY <2>1, <2>2
<1>5. ASSUME NEW k \in Key, DataConnectFails(k) PROVE Goal
  <2>1. CASE k = l
    <3>1. /\ phase[l] = "connecting" /\ phase'[l] = "ended"
          /\ l \notin owed' /\ ~ToldByControl(l)'
      BY <1>0, <1>5, <2>1 DEF DataConnectFails, agent, ToldByControl
    <3> QED
      BY <1>0, <1>a, <3>1, SessionReads DEF Session!Next, Session!End
  <2>2. CASE k # l
    BY <1>0, <1>5, <2>2, SessionUndisturbed DEF DataConnectFails, agent, ToldByControl
  <2> QED
    BY <2>1, <2>2
<1>6. ASSUME NEW k \in Key, EngineEnds(k) PROVE Goal
  <2>0. UNCHANGED <<links, owed, closes>> /\ (ToldByControl(l)' <=> ToldByControl(l))
    BY <1>6 DEF EngineEnds, agent, ToldByControl
  <2>1. CASE k = l /\ l \in links
    <3>1. /\ phase[l] = "relaying" /\ phase'[l] = "ended"
          /\ l \in owed' /\ ~ToldByControl(l)'
      BY <1>0, <1>6, <2>0, <2>1 DEF EngineEnds
    <3> QED
      BY <1>0, <1>a, <2>1, <3>1, SessionReads DEF Session!Next, Session!End
  <2>2. CASE k = l /\ l \notin links
    <3>1. phase[l] = "relaying" /\ phase'[l] = "ended"
      BY <1>0, <1>6, <2>2 DEF EngineEnds
    <3>2. SessionState(l) = "shut" /\ SessionState(l)' = "shut"
      BY <1>a, <2>2, <3>1, SessionReads
    <3> QED
      BY <1>a, <2>0, <3>2, SessionReads DEF Session!session
  <2>3. CASE k # l
    BY <1>0, <1>6, <2>0, <2>3, SessionUndisturbed DEF EngineEnds
  <2> QED
    BY <2>1, <2>2, <2>3
<1>7. ASSUME NEW k \in Key, ReportClosed(k) PROVE Goal
  <2>0. UNCHANGED <<links, owed, closes>> /\ (ToldByControl(l)' <=> ToldByControl(l))
    BY <1>7 DEF ReportClosed, agent, ToldByControl
  <2>1. CASE k = l
    <3>1. phase[l] = "ended" /\ phase'[l] = "reported"
      BY <1>0, <1>7, <2>1 DEF ReportClosed
    <3> QED
      BY <1>a, <2>0, <3>1, SessionReads DEF Session!session
  <2>2. CASE k # l
    BY <1>0, <1>7, <2>0, <2>2, SessionUndisturbed DEF ReportClosed
  <2> QED
    BY <2>1, <2>2
<1>8. ASSUME NEW k \in Key, SessionClosed(k) PROVE Goal
  <2>0. UNCHANGED <<links, owed, phase>>
    BY <1>8 DEF SessionClosed, bridge
  <2>1. k \in reports /\ k \in rows /\ phase[k] = "reported"
    BY <1>8 DEF SessionClosed, LinkInv, ReportsOK, LiveSessionsAreRouted
  <2>2. closes' = closes \cup {[key |-> k, path |-> "control"]}
    BY <1>8, <2>1 DEF SessionClosed, OnSocketClosed
  <2>3. CASE k = l
    <3>1. ~ToldByControl(l) /\ ToldByControl(l)'
      BY <1>0, <2>1, <2>2, <2>3 DEF ToldByControl
    <3>2. SessionState(l) = "shut" /\ SessionState(l)' = "shut"
      BY <1>a, <2>0, <2>1, <2>3, SessionReads
    <3>3. NoticesDue(l) > 0 /\ NoticesDue(l)' = NoticesDue(l) - 1
      BY <1>a, <2>0, <3>1, <3>2, SessionReads
    <3> QED
      BY <1>0, <3>2, <3>3 DEF Session!Next, Session!Hear
  <2>4. CASE k # l
    BY <2>0, <2>2, <2>4, SessionUndisturbed DEF ToldByControl
  <2> QED
    BY <2>3, <2>4
<1>9. ASSUME CloseBridgeConnection PROVE Goal
  <2>0. links' = {} /\ UNCHANGED <<owed, closes, phase>> /\ (ToldByControl(l)' <=> ToldByControl(l))
    BY <1>9 DEF CloseBridgeConnection, bridge, ToldByControl
  <2>1. CASE l \in links /\ phase[l] = "relaying"
    <3>1. l \in owed' /\ ~ToldByControl(l)' /\ l \notin links'
      BY <1>0, <2>0, <2>1
    <3> QED
      BY <1>0, <1>a, <2>0, <2>1, <3>1, SessionReads DEF Session!Next, Session!End
  <2>2. CASE l \in links /\ phase[l] # "relaying"
    <3>1. phase[l] \in {"ended", "reported"} /\ phase'[l] \in {"ended", "reported"}
      BY <1>0, <2>0, <2>2
    <3>2. SessionState(l) = "shut" /\ SessionState(l)' = "shut"
      BY <1>a, <3>1, SessionReads
    <3> QED
      BY <1>a, <2>0, <3>2, SessionReads DEF Session!session
  <2>3. CASE l \notin links
    BY <2>0, <2>3, SessionUndisturbed
  <2> QED
    BY <2>1, <2>2, <2>3
<1>10. CASE UNCHANGED <<phase, links, owed, closes>>
  BY <1>10, SessionUndisturbed DEF ToldByControl
<1> QED
  BY <1>1, <1>2, <1>3, <1>4, <1>5, <1>6, <1>7, <1>8, <1>9, <1>10
  DEF Next, vars, agent, bridge, SessionCreated, SendFrame, Evict, ControlBreaks,
      ControlReconnects, SocketGone

LEMMA InitSession == ASSUME Init, NEW l \in Key PROVE Session(l)!Init
BY DEF Init, Session!Init, SessionState, NoticesDue

LEMMA SessionInvariant == Spec => []SessionOK
<1>1. Init => SessionOK
  BY DEF Init, SessionOK, ToldByControl
<1> QED
  BY <1>1, SessionOKStep, LinkInvariant, PTL DEF Spec

\* For every key, the agent, DurableSocket and the bridge implement BridgeSession: what
\* evictions, lost control connections and closes of the agent's own do is a step of it
\* or none.
THEOREM ImplementsSession == ASSUME NEW k \in Key PROVE Spec => Session(k)!Spec
<1>1. Init => Session(k)!Init
  BY InitSession
<1>2. LinkInv /\ SessionOK /\ LinkInv' /\ SessionOK' /\ [Next]_vars
      => [Session(k)!Next]_(Session(k)!session)
  BY NextSession
<1> QED
  BY <1>1, <1>2, LinkInvariant, SessionInvariant, PTL DEF Spec, Session!Spec

\* The same of all keys at once, as the run checks it: no step, whatever party takes it,
\* breaks the promise to any session.
THEOREM KeepsSessionsCorrect == Spec => KeepsSessions
<1>1. Init => \A k \in Key : Session(k)!Init
  BY InitSession
<1>2. LinkInv /\ SessionOK /\ LinkInv' /\ SessionOK' /\ [Next]_vars
      => [\A k \in Key : [Session(k)!Next]_(Session(k)!session)]_vars
  BY NextSession
<1> QED
  BY <1>1, <1>2, LinkInvariant, SessionInvariant, PTL DEF Spec, KeepsSessions
=============================================================================
