-------------------------- MODULE UpdatesCursor_proofs --------------------------
(***************************************************************************)
(* Theorems about UpdatesCursor, for every bound.                          *)
(*                                                                         *)
(* What a difference promises rests on one fact: whatever was asked for,   *)
(* and whatever is on its way in answer, starts no later than the state    *)
(* the agent keeps (FromFollowed).  Only answers to this login count, so   *)
(* an agent without a state has nothing of the kind on its way.            *)
(***************************************************************************)
EXTENDS UpdatesCursor, TLAPS, FiniteSetTheorems

AtMostOne(S) == \A a, b \in S : a = b

\* A message says nothing the server has not counted.
Sound(m) ==
  /\ "pts" \in DOMAIN m => m.pts <= pts
  /\ "update" \in DOMAIN m => m.update \in 1 .. pts

FromFollowed(m) ==
  "from" \in DOMAIN m => cursor # {} /\ \A c \in cursor : m.from <= c.pts

TypeInv ==
  /\ cursor \subseteq [Counter -> Nat] /\ AtMostOne(cursor)
  /\ {pts, seq, drops} \subseteq Nat
  /\ seen \subseteq 1 .. pts
  /\ connected \in BOOLEAN
  /\ asked \subseteq [type : {"getState"}] \cup [type : {"getDifference"}, from : 0 .. pts]
  /\ inbox \subseteq Message

CursorInv ==
  /\ TypeInv
  /\ \A c \in cursor : c.pts <= pts
  /\ \A m \in inbox : Sound(m) /\ FromFollowed(m)
  /\ \A request \in asked : FromFollowed(request)
-----------------------------------------------------------------------------
LEMMA AtMostOneCardinality ==
  ASSUME NEW S, AtMostOne(S)
  PROVE  Cardinality(S) <= 1
<1>1. CASE S = {}
  BY <1>1, FS_EmptySet
<1>2. CASE S # {}
  <2>1. PICK a \in S : S = {a}
    BY <1>2 DEF AtMostOne
  <2>2. Cardinality({a}) = 1
    BY FS_Singleton, Zenon
  <2> QED
    BY <2>1, <2>2
<1> QED
  BY <1>1, <1>2

\* The counters of a message are among the two that are kept, each a number.
LEMMA CountersType ==
  ASSUME NEW m \in Message
  PROVE  /\ DOMAIN Counters(m) = Counter \cap DOMAIN m
         /\ \A c \in DOMAIN Counters(m) : Counters(m)[c] = m[c] /\ m[c] \in Nat
BY DEF Counters, Counter, Message, State, Difference

\* A merge keeps one state, no counter of which is below what it was, or other than
\* what it was or what the message says.
LEMMA MergeResult ==
  ASSUME NEW current, current \subseteq [Counter -> Nat], AtMostOne(current),
         NEW partial, DOMAIN partial \subseteq Counter,
         \A c \in DOMAIN partial : partial[c] \in Nat
  PROVE  /\ Merge(current, partial) \subseteq [Counter -> Nat]
         /\ AtMostOne(Merge(current, partial))
         /\ current # {} => Merge(current, partial) # {}
         /\ \A d \in Merge(current, partial) : \A c \in Counter :
              /\ \A e \in current : e[c] <= d[c]
              /\ \/ \E e \in current : d[c] = e[c]
                 \/ c \in DOMAIN partial /\ d[c] = partial[c]
<1> DEFINE values(c) == {partial[d] : d \in {c} \cap DOMAIN partial} \cup {s[c] : s \in current}
           best(c) == CHOOSE n \in values(c) : \A v \in values(c) : v <= n
<1>1. CASE ~ \A c \in Counter : c \in DOMAIN partial \/ current # {}
  <2>1. Merge(current, partial) = current /\ current = {}
    BY <1>1 DEF Merge
  <2> QED
    BY <2>1 DEF AtMostOne
<1>2. CASE \A c \in Counter : c \in DOMAIN partial \/ current # {}
  <2>1. Merge(current, partial) = {[c \in Counter |-> best(c)]}
    BY <1>2 DEF Merge
  <2>2. ASSUME NEW c \in Counter
        PROVE  best(c) \in values(c) /\ \A v \in values(c) : v <= best(c)
    <3>1. \E n \in values(c) : \A v \in values(c) : v <= n
      <4>1. values(c) \subseteq Nat
        OBVIOUS
      <4>2. PICK a : a \in values(c)
        BY <1>2
      <4>3. \A u, v, w \in values(c) : u = v \/ v = w \/ u = w
        BY DEF AtMostOne
      <4> HIDE DEF values
      <4>4. CASE \A v \in values(c) : v <= a
        BY <4>2, <4>4
      <4>5. CASE \E v \in values(c) : a < v
        <5>1. PICK b \in values(c) : a < b
          BY <4>5
        <5>2. \A v \in values(c) : v = a \/ v = b
          BY <4>1, <4>2, <4>3, <5>1
        <5> QED
          BY <4>1, <4>2, <5>1, <5>2
      <4> QED
        BY <4>1, <4>2, <4>4, <4>5
    <3> HIDE DEF values
    <3> QED
      BY <3>1
  <2>3. ASSUME NEW c \in Counter
        PROVE  best(c) \in Nat
    <3>1. values(c) \subseteq Nat
      OBVIOUS
    <3> QED
      BY <2>2, <3>1
  <2> HIDE DEF best
  <2>4. \A c \in Counter : [x \in Counter |-> best(x)][c] = best(c)
    OBVIOUS
  <2>5. \A c \in Counter : \A e \in current : e[c] <= best(c)
    BY <2>2
  <2>6. \A c \in Counter : \/ \E e \in current : best(c) = e[c]
                           \/ c \in DOMAIN partial /\ best(c) = partial[c]
    BY <2>2
  <2>7. [c \in Counter |-> best(c)] \in [Counter -> Nat]
    BY <2>3
  <2> HIDE DEF values
  <2> QED
    BY <2>1, <2>4, <2>5, <2>6, <2>7 DEF AtMostOne
<1> QED
  BY <1>1, <1>2
-----------------------------------------------------------------------------
LEMMA InitCursor == Init => CursorInv
BY DEF Init, CursorInv, TypeInv, AtMostOne

\* Whatever message is received, the state keeps its type and follows it.
LEMMA ReceiveKeeps ==
  ASSUME CursorInv, NEW m \in inbox, Receive(m)
  PROVE  CursorInv'
<1>1. m \in Message /\ Sound(m)
  BY DEF CursorInv, TypeInv
<1> DEFINE partial == Counters(m)
<1>2. /\ DOMAIN partial \subseteq Counter
      /\ \A c \in DOMAIN partial : partial[c] = m[c] /\ partial[c] \in Nat
  BY <1>1, CountersType
<1>3. cursor \subseteq [Counter -> Nat] /\ AtMostOne(cursor)
  BY DEF CursorInv, TypeInv
<1> HIDE DEF partial
<1>4. cursor' = Merge(cursor, partial)
  BY DEF Receive, partial
<1>5. /\ cursor' \subseteq [Counter -> Nat]
      /\ AtMostOne(cursor')
      /\ cursor # {} => cursor' # {}
      /\ \A d \in cursor' : \A c \in Counter :
           /\ \A e \in cursor : e[c] <= d[c]
           /\ (\E e \in cursor : d[c] = e[c]) \/ (c \in DOMAIN partial /\ d[c] = partial[c])
  BY <1>2, <1>3, <1>4, MergeResult
<1>6. UNCHANGED <<connected, asked, pts, seq, drops>> /\ inbox' = inbox \ {m}
  BY DEF Receive, server
<1>7. seen' \subseteq 1 .. pts
  <2>1. Contents(m) \subseteq 1 .. pts
    BY <1>1 DEF Contents, Message, State, Difference, Sound, CursorInv, TypeInv
  <2> QED
    BY <2>1 DEF Receive, CursorInv, TypeInv
<1>8. TypeInv'
  BY <1>5, <1>6, <1>7 DEF CursorInv, TypeInv, AtMostOne
<1>9. \A c \in cursor' : c.pts <= pts'
  <2> SUFFICES ASSUME NEW d \in cursor'
               PROVE  d.pts <= pts
    BY <1>6
  <2>1. \/ \E e \in cursor : d.pts = e.pts
        \/ "pts" \in DOMAIN partial /\ d.pts = partial["pts"]
    BY <1>5 DEF Counter
  <2>2. "pts" \in DOMAIN partial => "pts" \in DOMAIN m /\ partial["pts"] = m.pts
    BY <1>1, <1>2, CountersType DEF partial
  <2>3. "pts" \in DOMAIN partial => partial["pts"] <= pts
    BY <1>1, <2>2 DEF Sound
  <2> QED
    BY <2>1, <2>3 DEF CursorInv
<1>10. \A c \in cursor : \A d \in cursor' : c.pts <= d.pts /\ c.pts \in Nat /\ d.pts \in Nat
  BY <1>3, <1>5 DEF Counter
<1>11. \A n \in inbox' \cup asked' : FromFollowed(n)'
  <2> SUFFICES ASSUME NEW n \in inbox \cup asked, "from" \in DOMAIN n
               PROVE  cursor' # {} /\ \A d \in cursor' : n.from <= d.pts
    BY <1>6 DEF FromFollowed
  <2>1. cursor # {} /\ \A c \in cursor : n.from <= c.pts
    BY DEF CursorInv, FromFollowed
  <2>2. n.from \in Nat
    BY DEF CursorInv, TypeInv, Message, State, Difference
  <2> QED
    BY <1>5, <1>10, <2>1, <2>2
<1>12. \A n \in inbox' : Sound(n)'
  BY <1>6 DEF CursorInv, Sound
<1> QED
  BY <1>8, <1>9, <1>11, <1>12 DEF CursorInv
-----------------------------------------------------------------------------
\* What the server and the connection do leaves the agent's state alone.
LEMMA NextKeeps == CursorInv /\ [Next]_vars => CursorInv'
<1> SUFFICES ASSUME CursorInv, [Next]_vars
             PROVE  CursorInv'
  OBVIOUS
<1> USE DEF server
<1>1. ASSUME NEW m \in inbox, Receive(m)
      PROVE  CursorInv'
  BY <1>1, ReceiveKeeps
<1>2. ASSUME NEW request \in asked, Answer(request)
      PROVE  CursorInv'
  <2>1. request \in [type : {"getState"}] \cup [type : {"getDifference"}, from : 0 .. pts]
        /\ FromFollowed(request)
    BY DEF CursorInv, TypeInv
  <2>2. PICK m \in Answers(request) : inbox' = inbox \cup {m}
    BY <1>2 DEF Answer
  <2>3. m \in Message /\ Sound(m) /\ FromFollowed(m)
    BY <2>1 DEF Answers, Message, State, Difference, Sound, FromFollowed, CursorInv, TypeInv
  <2>4. asked' \subseteq asked /\ UNCHANGED <<cursor, seen, connected, pts, seq, drops>>
    BY <1>2 DEF Answer
  <2>5. TypeInv'
    BY <2>2, <2>3, <2>4 DEF CursorInv, TypeInv, AtMostOne
  <2> QED
    BY <2>2, <2>3, <2>4, <2>5 DEF CursorInv, Sound, FromFollowed
<1>3. CASE GetState
  BY <1>3 DEF GetState, Ask, CursorInv, TypeInv, AtMostOne, Sound, FromFollowed
<1>4. CASE GetDifference
  <2>1. PICK c \in cursor : Ask([type |-> "getDifference", from |-> c.pts])
    BY <1>4 DEF GetDifference
  <2>2. c.pts \in 0 .. pts /\ \A d \in cursor : c.pts <= d.pts
    BY DEF CursorInv, TypeInv, AtMostOne, Counter
  <2>3. /\ asked' = asked \cup {[type |-> "getDifference", from |-> c.pts]}
        /\ UNCHANGED <<cursor, seen, connected, inbox, pts, seq, drops>>
    BY <2>1 DEF Ask
  <2>4. TypeInv'
    BY <2>2, <2>3 DEF CursorInv, TypeInv, AtMostOne
  <2> QED
    BY <2>2, <2>3, <2>4 DEF CursorInv, Sound, FromFollowed
<1>5. CASE Reconnect
  BY <1>5 DEF Reconnect, CursorInv, TypeInv, AtMostOne, Sound, FromFollowed
<1>6. CASE Clear
  <2>1. cursor' = {} /\ asked' = {} /\ inbox' = {} /\ seen' = {} /\ connected' \in BOOLEAN
    BY <1>6 DEF Clear
  <2>2. drops' = drops + 1 /\ UNCHANGED <<pts, seq>>
    BY <1>6 DEF Clear
  <2> QED
    BY <2>1, <2>2 DEF CursorInv, TypeInv, AtMostOne
<1>7. CASE Update
  <2>1. /\ pts' = pts + 1 /\ seq' \in Nat
        /\ UNCHANGED <<cursor, connected, asked, drops>> /\ seen' = seen
    BY <1>7 DEF Update, CursorInv, TypeInv
  <2>2. \A m \in inbox' \ inbox : m \in Message /\ Sound(m)' /\ FromFollowed(m)'
    BY <1>7, <2>1 DEF Update, Push, Message, Sound, FromFollowed, CursorInv, TypeInv
  <2>3. TypeInv'
    BY <2>1, <2>2 DEF CursorInv, TypeInv, AtMostOne
  <2>4. \A c \in cursor' : c.pts <= pts'
    BY <2>1 DEF CursorInv, TypeInv, Counter
  <2>5. \A m \in inbox : m \in Message /\ Sound(m) /\ FromFollowed(m)
    BY DEF CursorInv, TypeInv
  <2>6. \A m \in inbox : Sound(m)' /\ FromFollowed(m)'
    BY <2>1, <2>5 DEF CursorInv, TypeInv, Sound, FromFollowed, Message, State, Difference
  <2>7. \A request \in asked' : FromFollowed(request)'
    BY <2>1 DEF CursorInv, FromFollowed
  <2> QED
    BY <2>2, <2>3, <2>4, <2>6, <2>7 DEF CursorInv
<1>8. CASE Disconnect
  <2>1. asked' = {} /\ inbox' = {} /\ connected' \in BOOLEAN
    BY <1>8 DEF Disconnect
  <2>2. drops' = drops + 1 /\ UNCHANGED <<cursor, seen, pts, seq>>
    BY <1>8 DEF Disconnect
  <2> QED
    BY <2>1, <2>2 DEF CursorInv, TypeInv, AtMostOne
<1>9. CASE UNCHANGED vars
  BY <1>9 DEF vars, CursorInv, TypeInv, AtMostOne, Sound, FromFollowed
<1> QED
  BY <1>1, <1>2, <1>3, <1>4, <1>5, <1>6, <1>7, <1>8, <1>9 DEF Next

LEMMA CursorInvariant == Spec => []CursorInv
BY InitCursor, NextKeeps, PTL DEF Spec
-----------------------------------------------------------------------------
\* Every variable has its type, for every bound.
THEOREM CursorTypeCorrect == Spec => []TypeOK
<1>1. CursorInv => TypeOK
  BY AtMostOneCardinality DEF CursorInv, TypeInv, TypeOK
<1> QED
  BY <1>1, CursorInvariant, PTL

\* No answer, however late, turns a counter of the updates state back
\* (mergeUpdatesState), and nothing but a login or a logout clears it.
THEOREM CursorNeverRegressesCorrect == Spec => CursorNeverRegresses
<1> DEFINE Forward ==
      \A c \in cursor : (\A d \in cursor' : d.pts >= c.pts /\ d.seq >= c.seq)
                        /\ (cursor' = {} => Clear)
<1>1. CursorInv /\ [Next]_vars => [Forward]_vars
  <2> SUFFICES ASSUME CursorInv, Next
               PROVE  Forward
    OBVIOUS
  <2>1. ASSUME NEW m \in inbox, Receive(m)
        PROVE  Forward
    <3>1. m \in Message /\ cursor \subseteq [Counter -> Nat] /\ AtMostOne(cursor)
      BY DEF CursorInv, TypeInv
    <3>2. cursor' = Merge(cursor, Counters(m))
      BY <2>1 DEF Receive
    <3>3. /\ cursor' \subseteq [Counter -> Nat]
          /\ cursor # {} => cursor' # {}
          /\ \A d \in cursor' : \A c \in Counter : \A e \in cursor : e[c] <= d[c]
      <4>1. /\ DOMAIN Counters(m) \subseteq Counter
            /\ \A c \in DOMAIN Counters(m) : Counters(m)[c] \in Nat
        BY <3>1, CountersType
      <4> QED
        BY <3>1, <3>2, <4>1, MergeResult
    <3> QED
      BY <3>1, <3>3 DEF Counter
  <2>2. ASSUME cursor' = cursor
        PROVE  Forward
    BY <2>2 DEF CursorInv, TypeInv, AtMostOne, Counter
  <2>3. CASE Clear
    BY <2>3 DEF Clear
  <2> QED
    BY <2>1, <2>2, <2>3 DEF Next, Answer, GetState, GetDifference, Ask, Reconnect, Update, Disconnect
<1> QED
  BY <1>1, CursorInvariant, PTL DEF Spec, CursorNeverRegresses

\* A difference, however late, moves the updates state past no update that the agent
\* was not handed (stateFromDifferenceResult after telegramGetDifference).
THEOREM DifferenceLeavesNoGapCorrect == Spec => DifferenceLeavesNoGap
<1> DEFINE NoGap ==
      \A m \in inbox :
        Receive(m) /\ m.type \in {"difference", "slice"} =>
          \A c \in cursor, d \in cursor' : c.pts + 1 .. d.pts \subseteq seen'
<1>1. CursorInv => [NoGap]_vars
  <2> SUFFICES ASSUME CursorInv, NEW m \in inbox, Receive(m),
                      m.type \in {"difference", "slice"},
                      NEW c \in cursor, NEW d \in cursor'
               PROVE  c.pts + 1 .. d.pts \subseteq seen'
    OBVIOUS
  <2>1. m \in Difference /\ FromFollowed(m)
    BY DEF CursorInv, TypeInv, Message, State, Difference
  <2>2. m.from <= c.pts /\ m.from \in Nat /\ m.pts \in Nat
    BY <2>1 DEF FromFollowed, Difference
  <2>3. m.from + 1 .. m.pts \subseteq seen' /\ seen \subseteq seen'
    BY <2>1 DEF Receive, Contents
  <2>4. d.pts = c.pts \/ d.pts = m.pts
    <3>1. cursor \subseteq [Counter -> Nat] /\ AtMostOne(cursor) /\ m \in Message
      BY DEF CursorInv, TypeInv
    <3>2. \/ \E e \in cursor : d["pts"] = e["pts"]
          \/ "pts" \in DOMAIN Counters(m) /\ d["pts"] = Counters(m)["pts"]
      <4>1. /\ DOMAIN Counters(m) \subseteq Counter
            /\ \A x \in DOMAIN Counters(m) : Counters(m)[x] \in Nat
        BY <3>1, CountersType
      <4>2. cursor' = Merge(cursor, Counters(m)) /\ "pts" \in Counter
        BY DEF Receive, Counter
      <4> QED
        BY <3>1, <4>1, <4>2, MergeResult
    <3> QED
      BY <3>1, <3>2, CountersType DEF AtMostOne
  <2>5. c.pts \in Nat
    BY DEF CursorInv, TypeInv, Counter
  <2> QED
    BY <2>2, <2>3, <2>4, <2>5
<1> QED
  BY <1>1, CursorInvariant, PTL DEF DifferenceLeavesNoGap
=============================================================================
