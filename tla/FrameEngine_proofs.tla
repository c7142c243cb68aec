--------------------------- MODULE FrameEngine_proofs ---------------------------
(***************************************************************************)
(* Theorems about FrameEngine, for every layout of frames, every size of a *)
(* header and of a buffer, and any traffic.                                *)
(*                                                                         *)
(* Three facts carry them.  A read begins where the last message ended,    *)
(* or one was cut before it (RelayedInv).  A size decoded at the first     *)
(* byte of a frame is that frame's (ReadInv).  And since frames do not     *)
(* overlap, a position between two of them is the first byte of at most    *)
(* one: messages without a gap are the target's frames (FramesInv).        *)
(***************************************************************************)
EXTENDS FrameEngine, TLAPS, SequenceTheorems, FiniteSetTheorems

\* TypeOK, number by number.
TypeInv ==
  /\ engine \in Engine /\ eof \in BOOLEAN /\ reason \in Reasons \cup {"none"}
  /\ written \in Nat /\ start \in Nat /\ read \in Nat /\ size \in Nat
  /\ queued \in Nat /\ forwarded \in Nat /\ cut \in Nat
  /\ start <= read /\ read <= written /\ written <= Offset[Frames + 1]
  /\ relayed \in Seq([from : Nat, to : Nat])

\* The read: what it holds, and what its size says.
ReadInv ==
  /\ engine # "frame" => start = read /\ size = 0
  /\ size # 0 => size \in Announced /\ HeaderSize <= size /\ start + HeaderSize <= read
  /\ read <= Goal

\* The messages, and where the next begins.
RelayedInv ==
  /\ RelayedInOrder
  /\ cut <= Len(relayed) + 1
  /\ Expected(Len(relayed) + 1) <= start
  /\ Expected(Len(relayed) + 1) < start => cut \in 1 .. Len(relayed) + 1

Contiguous(k) == \A i \in 1 .. k : relayed[i].from = Expected(i)

FramesInv ==
  engine # "stream" =>
    \A k \in DOMAIN relayed : Contiguous(k) => k <= Frames /\ relayed[k] = FrameAt(k)

EngineInv ==
  /\ TypeInv /\ ReadInv /\ RelayedInv /\ FramesInv
  /\ RemoteCloseIsLast
  /\ reason = "remote_close" => eof
-----------------------------------------------------------------------------
(* Frames *)

\* An offset is the first byte of one frame at most.
LEMMA OffsetsDiffer ==
  ASSUME NEW m \in 1 .. Frames + 1, NEW n \in 1 .. Frames + 1, Offset[m] = Offset[n]
  PROVE  m = n
BY OffsetAssumption

\* A later offset is higher, and none is beyond the last.
LEMMA OffsetsRise ==
  ASSUME NEW m \in 1 .. Frames + 1, NEW n \in 1 .. Frames + 1, m <= n
  PROVE  Offset[m] <= Offset[n] /\ Offset[m] \in Nat /\ Offset[n] \in Nat
<1>1. Offset[m] \in Nat /\ Offset[n] \in Nat
  BY OffsetAssumption
<1>2. m < n => Offset[m] + HeaderSize <= Offset[n]
  BY OffsetAssumption
<1>3. m < n \/ m = n
  BY OffsetAssumption
<1> QED
  BY <1>1, <1>2, <1>3, OffsetAssumption

\* What the header at a frame's first byte announces is that frame's size.
LEMMA AnnouncedThere ==
  ASSUME NEW n \in 1 .. Frames, Offset[n] = start
  PROVE  Announced = {Offset[n + 1] - Offset[n]}
<1>1. \A m \in 1 .. Frames : Offset[m] = start => m = n
  BY OffsetsDiffer, OffsetAssumption
<1>2. {m \in 1 .. Frames : Offset[m] = start} = {n}
  BY <1>1
<1> QED
  BY <1>2 DEF Announced

\* A size that is not an oversize holds the header.
LEMMA AnnouncedSize ==
  ASSUME NEW n \in Announced, n # 0
  PROVE  n \in Nat /\ HeaderSize <= n
<1>1. CASE \E m \in 1 .. Frames : Offset[m] = start
  <2>1. PICK m \in 1 .. Frames : Offset[m] = start
    BY <1>1
  <2>2. n = Offset[m + 1] - Offset[m]
    BY <2>1, AnnouncedThere
  <2> QED
    BY <2>2, OffsetAssumption
<1>2. CASE ~ \E m \in 1 .. Frames : Offset[m] = start
  BY <1>2, OffsetAssumption DEF Announced
<1> QED
  BY <1>1, <1>2
-----------------------------------------------------------------------------
(* Messages *)

LEMMA RelayedType ==
  ASSUME TypeInv
  PROVE  /\ Len(relayed) \in Nat /\ DOMAIN relayed = 1 .. Len(relayed)
         /\ \A i \in 1 .. Len(relayed) : relayed[i].from \in Nat /\ relayed[i].to \in Nat
         /\ \A i \in 1 .. Len(relayed) + 1 : Expected(i) \in Nat
<1>1. relayed \in Seq([from : Nat, to : Nat])
  BY DEF TypeInv
<1>2. Len(relayed) \in Nat /\ DOMAIN relayed = 1 .. Len(relayed)
  BY <1>1
<1>3. \A i \in 1 .. Len(relayed) : relayed[i] \in [from : Nat, to : Nat]
  BY <1>1, ElementOfSeq
<1>4. \A i \in 1 .. Len(relayed) + 1 : i = 1 \/ i - 1 \in 1 .. Len(relayed)
  BY <1>2
<1> QED
  BY <1>2, <1>3, <1>4 DEF Expected

\* Messages without a gap that reach up to the read are the target's frames: the
\* read begins at the next.
LEMMA WhereNext ==
  ASSUME EngineInv, engine # "stream", Contiguous(Len(relayed)),
         Expected(Len(relayed) + 1) = start
  PROVE  Len(relayed) <= Frames /\ Offset[Len(relayed) + 1] = start
<1>1. CASE Len(relayed) = 0
  BY <1>1, OffsetAssumption DEF Expected
<1>2. CASE Len(relayed) # 0
  <2>1. Len(relayed) \in DOMAIN relayed /\ Len(relayed) \in Nat
    BY <1>2, RelayedType DEF EngineInv
  <2>2. Len(relayed) <= Frames /\ relayed[Len(relayed)] = FrameAt(Len(relayed))
    BY <2>1 DEF EngineInv, FramesInv
  <2>3. Expected(Len(relayed) + 1) = relayed[Len(relayed)].to
    BY <1>2, <2>1 DEF Expected
  <2> QED
    BY <2>2, <2>3 DEF FrameAt
<1> QED
  BY <1>1, <1>2

\* As long as no read is cut, there is no gap.
LEMMA UncutIsContiguous ==
  ASSUME EngineInv, cut = 0
  PROVE  Contiguous(Len(relayed)) /\ Expected(Len(relayed) + 1) = start
<1>1. \A i \in 1 .. Len(relayed) : Expected(i) <= relayed[i].from /\ ~ (Expected(i) < relayed[i].from)
  BY RelayedType DEF EngineInv, RelayedInv, RelayedInOrder
<1>2. Contiguous(Len(relayed))
  <2> SUFFICES ASSUME NEW i \in 1 .. Len(relayed)
               PROVE  relayed[i].from = Expected(i)
    BY DEF Contiguous
  <2>1. relayed[i].from \in Nat /\ Expected(i) \in Nat
    BY RelayedType DEF EngineInv
  <2> QED
    BY <1>1, <2>1
<1>3. Expected(Len(relayed) + 1) <= start /\ ~ (Expected(Len(relayed) + 1) < start)
  BY RelayedType DEF EngineInv, RelayedInv
<1>4. Expected(Len(relayed) + 1) \in Nat
  <2>1. Len(relayed) + 1 \in 1 .. Len(relayed) + 1
    BY RelayedType DEF EngineInv
  <2> QED
    BY <2>1, RelayedType DEF EngineInv
<1>5. start \in Nat
  BY DEF EngineInv, TypeInv
<1> QED
  BY <1>2, <1>3, <1>4, <1>5

\* One more message, from where the read began.
LEMMA RelayKeeps ==
  ASSUME EngineInv, NEW end \in Nat, start < end,
         relayed' = Append(relayed, [from |-> start, to |-> end]), start' = end,
         UNCHANGED <<cut, engine>>,
         engine # "stream" => start < Offset[Frames + 1],
         engine # "stream" =>
           \A n \in 1 .. Frames : Offset[n] = start => end = Offset[n + 1]
  PROVE  RelayedInv' /\ FramesInv'
<1> PICK len \in Nat : len = Len(relayed)
  BY RelayedType DEF EngineInv
<1>1. /\ len \in Nat /\ DOMAIN relayed = 1 .. len
      /\ \A i \in 1 .. len : relayed[i].from \in Nat /\ relayed[i].to \in Nat
      /\ \A i \in 1 .. len + 1 : Expected(i) \in Nat
      /\ start \in Nat
  BY RelayedType DEF EngineInv, TypeInv
<1>2. /\ Len(relayed') = len + 1
      /\ DOMAIN relayed' = 1 .. len + 1
      /\ \A i \in 1 .. len : relayed'[i] = relayed[i]
      /\ relayed'[len + 1] = [from |-> start, to |-> end]
  <2>1. relayed \in Seq([from : Nat, to : Nat])
    BY DEF EngineInv, TypeInv
  <2>2. [from |-> start, to |-> end] \in [from : Nat, to : Nat]
    BY <1>1
  <2> QED
    BY <2>1, <2>2
<1>3. /\ \A i \in 1 .. len + 1 : Expected(i)' = Expected(i)
      /\ Expected(len + 2)' = end
  <2>1. \A i \in 1 .. len + 1 : i = 1 \/ i - 1 \in 1 .. len
    BY <1>1
  <2>2. len + 2 # 1 /\ (len + 2) - 1 = len + 1
    BY <1>1
  <2>3. \A i \in 1 .. len + 1 : Expected(i)' = Expected(i)
    BY <1>2, <2>1 DEF Expected
  <2>4. Expected(len + 2)' = relayed'[len + 1].to
    BY <2>2 DEF Expected
  <2> QED
    BY <1>2, <2>3, <2>4
<1>4. RelayedInOrder'
  <2> SUFFICES ASSUME NEW i \in 1 .. len + 1
               PROVE  /\ Expected(i) <= relayed'[i].from /\ relayed'[i].from < relayed'[i].to
                      /\ Expected(i) < relayed'[i].from => cut \in 1 .. i
    BY <1>2, <1>3 DEF RelayedInOrder
  <2>1. CASE i \in 1 .. len
    BY <1>1, <1>2, <2>1 DEF EngineInv, RelayedInv, RelayedInOrder
  <2>2. CASE i = len + 1
    BY <1>1, <1>2, <2>2 DEF EngineInv, RelayedInv
  <2> QED
    BY <1>1, <2>1, <2>2
<1>5. RelayedInv'
  <2>1. cut <= len + 1 /\ cut \in Nat
    BY DEF EngineInv, TypeInv, RelayedInv
  <2>2. cut' <= Len(relayed') + 1
    BY <1>2, <2>1
  <2>3. Expected(Len(relayed) + 1)' = end
    <3>1. Len(relayed') + 1 = len + 2
      BY <1>2
    <3> QED
      BY <1>3, <3>1
  <2> QED
    BY <1>4, <2>2, <2>3 DEF RelayedInv
<1>6. FramesInv'
  <2> SUFFICES ASSUME engine # "stream", NEW k \in 1 .. len + 1, Contiguous(k)'
               PROVE  k <= Frames /\ relayed'[k] = FrameAt(k)
    BY <1>2 DEF FramesInv, FrameAt
  <2>1. \A i \in 1 .. k : relayed'[i].from = Expected(i)
    BY <1>1, <1>3 DEF Contiguous
  <2>2. CASE k \in 1 .. len
    <3>1. Contiguous(k)
      BY <1>1, <1>2, <2>1, <2>2 DEF Contiguous
    <3> QED
      BY <1>1, <1>2, <2>2, <3>1 DEF EngineInv, FramesInv
  <2>3. CASE k = len + 1
    <3>1. Contiguous(len) /\ Expected(len + 1) = start
      BY <1>1, <1>2, <2>1, <2>3 DEF Contiguous
    <3>2. len <= Frames /\ Offset[len + 1] = start
      BY <3>1, WhereNext
    <3>3. len # Frames
      <4>1. Offset[Frames + 1] \in Nat /\ start < Offset[Frames + 1]
        BY OffsetAssumption
      <4> SUFFICES ASSUME len = Frames
                   PROVE  FALSE
        OBVIOUS
      <4> QED
        BY <1>1, <3>2, <4>1
    <3>5. len + 1 \in 1 .. Frames
      <4>1. Frames \in Nat
        BY OffsetAssumption
      <4> QED
        BY <1>1, <3>2, <3>3, <4>1
    <3>6. end = Offset[len + 2]
      BY <3>2, <3>5
    <3> QED
      BY <1>2, <2>3, <3>2, <3>5, <3>6, OffsetAssumption DEF FrameAt
  <2> QED
    BY <1>1, <2>2, <2>3
<1> QED
  BY <1>5, <1>6
-----------------------------------------------------------------------------
(* Steps *)

\* The numbers, as the arithmetic below needs them.
LEMMA Numbers ==
  ASSUME TypeInv
  PROVE  /\ written \in Nat /\ start \in Nat /\ read \in Nat /\ size \in Nat /\ cut \in Nat
         /\ queued \in Nat /\ forwarded \in Nat
         /\ HeaderSize \in Nat \ {0} /\ Goal \in Nat
         /\ start <= read /\ read <= written /\ written <= Offset[Frames + 1]
         /\ Offset[Frames + 1] \in Nat
<1>1. HeaderSize \in Nat \ {0} /\ Offset[Frames + 1] \in Nat
  BY OffsetAssumption
<1>2. /\ written \in Nat /\ start \in Nat /\ read \in Nat /\ size \in Nat /\ cut \in Nat
      /\ queued \in Nat /\ forwarded \in Nat
      /\ start <= read /\ read <= written /\ written <= Offset[Frames + 1]
  BY DEF TypeInv
<1>3. Goal \in Nat
  BY <1>1, <1>2 DEF Goal
<1> QED
  BY <1>1, <1>2, <1>3

LEMMA InitEngine == Init => EngineInv
<1> SUFFICES ASSUME Init
             PROVE  EngineInv
  OBVIOUS
<1>1. HeaderSize \in Nat \ {0} /\ Offset[Frames + 1] \in Nat
  BY OffsetAssumption
<1>2. TypeInv
  <2>1. relayed \in Seq([from : Nat, to : Nat])
    BY DEF Init
  <2>2. eof \in BOOLEAN /\ reason \in Reasons \cup {"none"} /\ engine \in Engine
    BY DEF Init
  <2> QED
    BY <1>1, <2>1, <2>2 DEF Init, TypeInv
<1>3. ReadInv
  BY <1>1 DEF Init, ReadInv, Goal
<1>4. Len(relayed) = 0 /\ DOMAIN relayed = {} /\ start = 0 /\ cut = 0
  BY DEF Init
<1>5. RelayedInv
  BY <1>4 DEF RelayedInv, RelayedInOrder, Expected
<1> QED
  BY <1>2, <1>3, <1>4, <1>5 DEF EngineInv, FramesInv, RemoteCloseIsLast, Init

\* A step that neither reads nor relays.
LEMMA StillKeeps ==
  ASSUME EngineInv, UNCHANGED <<kept, start, read, size, relayed>>
  PROVE  ReadInv' /\ RelayedInv' /\ FramesInv'
BY DEF kept, EngineInv, ReadInv, Announced, Goal, RelayedInv, RelayedInOrder, Expected, FramesInv,
       Contiguous, FrameAt

\* A step that interrupts the read.
LEMMA DropKeeps ==
  ASSUME EngineInv, DropRead, UNCHANGED relayed
  PROVE  ReadInv' /\ RelayedInv' /\ FramesInv' /\ cut' \in Nat
<1>1. start' = read /\ size' = 0 /\ UNCHANGED <<engine, read, relayed>>
  BY DEF DropRead
<1>2. /\ Len(relayed) \in Nat
      /\ cut \in Nat /\ start \in Nat /\ read \in Nat /\ start <= read
  BY Numbers, RelayedType DEF EngineInv
<1>3. cut' = cut \/ (cut = 0 /\ cut' = Len(relayed) + 1)
  BY DEF DropRead
<1>4. cut = 0 /\ read # start => cut' = Len(relayed) + 1
  BY DEF DropRead
<1>5. ReadInv'
  <2>1. read <= read + HeaderSize
    BY <1>2, OffsetAssumption
  <2> QED
    BY <1>1, <2>1 DEF EngineInv, ReadInv, Goal
<1>6. RelayedInOrder'
  BY <1>1, <1>2, <1>3, RelayedType DEF EngineInv, RelayedInv, RelayedInOrder, Expected
<1>7. PICK len \in Nat : len = Len(relayed)
  BY <1>2
<1>8. RelayedInv'
  <2>1. len = Len(relayed') /\ len + 1 \in 1 .. len + 1
    BY <1>1, <1>7
  <2>2. Expected(len + 1)' = Expected(len + 1)
    BY <1>1 DEF Expected
  <2>3. Expected(len + 1) \in Nat
    BY <1>7, <2>1, RelayedType DEF EngineInv
  <2>4. Expected(len + 1) <= start /\ (Expected(len + 1) < start => cut \in 1 .. len + 1)
        /\ cut <= len + 1
    BY <1>7 DEF EngineInv, RelayedInv
  <2>5. Expected(len + 1) <= read /\ (Expected(len + 1) < read => cut' \in 1 .. len + 1)
        /\ cut' <= len + 1
    BY <1>2, <1>3, <1>4, <1>7, <2>3, <2>4
  <2> QED
    BY <1>1, <1>6, <2>1, <2>2, <2>5 DEF RelayedInv
<1>9. FramesInv'
  BY <1>1 DEF EngineInv, FramesInv, Contiguous, Expected, FrameAt
<1> QED
  BY <1>2, <1>3, <1>5, <1>8, <1>9

LEMMA ReadBytesKeeps ==
  ASSUME EngineInv, ReadBytes
  PROVE  EngineInv'
<1>1. /\ engine = "frame" /\ Waits /\ read < written /\ read' = Min2(Goal, written)
      /\ UNCHANGED <<engine, cut, written, eof, start, size, relayed, queued, forwarded, reason>>
      /\ reason = "none"
  BY DEF ReadBytes, kept, Running
<1>2. read' \in Nat /\ read <= read' /\ read' <= written /\ read' <= Goal
  BY <1>1, Numbers DEF EngineInv, Min2, Waits
<1>3. start \in Nat /\ read \in Nat /\ start <= read /\ HeaderSize \in Nat
  BY Numbers DEF EngineInv
<1>4. TypeInv'
  BY <1>1, <1>2, <1>3 DEF EngineInv, TypeInv
<1>5. Goal' = Goal /\ Announced' = Announced
  BY <1>1 DEF Goal, Announced
<1>6. ReadInv'
  BY <1>1, <1>2, <1>3, <1>5 DEF EngineInv, ReadInv
<1>7. RelayedInv' /\ FramesInv'
  BY <1>1 DEF EngineInv, RelayedInv, RelayedInOrder, Expected, FramesInv, Contiguous, FrameAt
<1> QED
  BY <1>1, <1>4, <1>6, <1>7 DEF EngineInv, RemoteCloseIsLast

LEMMA DecodeHeaderKeeps ==
  ASSUME EngineInv, DecodeHeader
  PROVE  EngineInv'
<1>1. /\ engine = "frame" /\ size = 0 /\ read = start + HeaderSize /\ reason = "none"
      /\ UNCHANGED <<engine, cut, written, eof, start, read, relayed, queued, forwarded>>
  BY DEF DecodeHeader, kept, Running
<1>2. PICK n \in Announced :
        IF n = 0 THEN reason' = "error" /\ UNCHANGED size ELSE size' = n /\ UNCHANGED reason
  BY DEF DecodeHeader
<1>3. size' # 0 => size' \in Announced /\ size' \in Nat /\ HeaderSize <= size'
  BY <1>1, <1>2, AnnouncedSize
<1>4. size' \in Nat /\ reason' \in {"none", "error"}
  BY <1>1, <1>2, <1>3
<1>5. TypeInv'
  BY <1>1, <1>4 DEF EngineInv, TypeInv, Reasons
<1>6. Announced' = Announced
  BY <1>1 DEF Announced
<1>7. ReadInv'
  <2>1. start \in Nat /\ HeaderSize \in Nat
    BY Numbers DEF EngineInv
  <2>2. read <= Goal'
    <3>1. CASE size' = 0
      BY <1>1, <2>1, <3>1 DEF Goal
    <3>2. CASE size' # 0
      BY <1>1, <1>3, <2>1, <3>2 DEF Goal
    <3> QED
      BY <3>1, <3>2
  <2>3. start + HeaderSize <= read
    BY <1>1, <2>1
  <2> QED
    BY <1>1, <1>3, <1>6, <2>2, <2>3 DEF ReadInv
<1>8. RelayedInv' /\ FramesInv'
  BY <1>1 DEF EngineInv, RelayedInv, RelayedInOrder, Expected, FramesInv, Contiguous, FrameAt
<1> QED
  BY <1>4, <1>5, <1>7, <1>8 DEF EngineInv, RemoteCloseIsLast

\* The message an engine relays: what its read took, from where it began.
LEMMA Relaying ==
  ASSUME EngineInv, RelayFrame \/ RelayChunk \/ RelayMessage
  PROVE  \E end \in Nat :
        /\ start < end /\ end <= written /\ size' = 0
        /\ relayed' = Append(relayed, [from |-> start, to |-> end])
        /\ start' = end /\ read' = end
        /\ engine # "stream" => \A n \in 1 .. Frames : Offset[n] = start => end = Offset[n + 1]
<1>0. /\ written \in Nat /\ start \in Nat /\ read \in Nat /\ size \in Nat
      /\ HeaderSize \in Nat \ {0}
      /\ start <= read /\ read <= written
  BY Numbers DEF EngineInv
<1>1. CASE RelayFrame
  <2>1. size # 0 /\ ~Waits /\ start' = read /\ size' = 0 /\ read' = read
        /\ relayed' = Append(relayed, [from |-> start, to |-> read])
    BY <1>1 DEF RelayFrame
  <2>2. size \in Announced /\ start < read /\ read = start + size
    BY <1>0, <2>1 DEF EngineInv, ReadInv, Waits, Goal
  <2>3. \A n \in 1 .. Frames : Offset[n] = start => read = Offset[n + 1]
    <3> SUFFICES ASSUME NEW n \in 1 .. Frames, Offset[n] = start
                 PROVE  read = Offset[n + 1]
      OBVIOUS
    <3>1. size = Offset[n + 1] - Offset[n]
      BY <2>2, AnnouncedThere
    <3>2. Offset[n + 1] \in Nat
      BY OffsetAssumption
    <3> QED
      BY <1>0, <2>2, <3>1, <3>2
  <2> QED
    BY <1>0, <2>1, <2>2, <2>3
<1>2. CASE RelayChunk
  <2>1. engine = "stream" /\ UNCHANGED size
    BY <1>2 DEF RelayChunk
  <2>2. PICK end \in read + 1 .. Min2(read + BufferSize, written) :
          /\ read' = end /\ start' = end
          /\ relayed' = Append(relayed, [from |-> read, to |-> end])
    BY <1>2 DEF RelayChunk
  <2>3. start = read /\ size = 0
    BY <2>1 DEF EngineInv, ReadInv
  <2>4. end \in Nat /\ start < end /\ end <= written
    BY <1>0, <2>2, <2>3, TrafficAssumption DEF Min2
  <2> QED
    BY <2>1, <2>2, <2>3, <2>4
<1>3. CASE RelayMessage
  <2>1. engine = "websocket" /\ UNCHANGED size
    BY <1>3 DEF RelayMessage
  <2>2. PICK n \in 1 .. Frames :
          /\ Offset[n] = read /\ Offset[n + 1] <= written
          /\ read' = Offset[n + 1] /\ start' = read'
          /\ relayed' = Append(relayed, [from |-> read, to |-> read'])
    BY <1>3 DEF RelayMessage
  <2>3. start = read /\ size = 0
    BY <2>1 DEF EngineInv, ReadInv
  <2>4. Offset[n + 1] \in Nat /\ start < Offset[n + 1]
    BY <2>2, <2>3, OffsetAssumption
  <2>5. \A m \in 1 .. Frames : Offset[m] = start => m = n
    BY <2>2, <2>3, OffsetsDiffer, OffsetAssumption
  <2> QED
    BY <2>1, <2>2, <2>3, <2>4, <2>5
<1> QED
  BY <1>1, <1>2, <1>3

\* A relayed message is the read's, whichever engine sends it.
LEMMA RelayingKeeps ==
  ASSUME EngineInv, RelayFrame \/ RelayChunk \/ RelayMessage
  PROVE  EngineInv'
<1>1. /\ UNCHANGED <<engine, cut, written, eof, queued, forwarded, reason>>
      /\ reason = "none"
  BY DEF RelayFrame, RelayChunk, RelayMessage, kept, Running
<1>2. /\ written \in Nat /\ start \in Nat /\ read \in Nat /\ size \in Nat
      /\ HeaderSize \in Nat \ {0}
      /\ start <= read /\ read <= written /\ written <= Offset[Frames + 1]
      /\ Offset[Frames + 1] \in Nat
  BY Numbers DEF EngineInv
<1>3. PICK end \in Nat :
        /\ start < end /\ end <= written /\ size' = 0
        /\ relayed' = Append(relayed, [from |-> start, to |-> end])
        /\ start' = end /\ read' = end
        /\ engine # "stream" => \A n \in 1 .. Frames : Offset[n] = start => end = Offset[n + 1]
  BY Relaying
<1>4. RelayedInv' /\ FramesInv'
  <2>1. start < Offset[Frames + 1]
    BY <1>2, <1>3
  <2> QED
    BY <1>1, <1>3, <2>1, RelayKeeps
<1>5. TypeInv'
  <2>1. relayed' \in Seq([from : Nat, to : Nat])
    <3>1. relayed \in Seq([from : Nat, to : Nat])
      BY DEF EngineInv, TypeInv
    <3> QED
      BY <1>2, <1>3, <3>1
  <2> QED
    BY <1>1, <1>2, <1>3, <2>1 DEF EngineInv, TypeInv
<1>6. ReadInv'
  BY <1>1, <1>2, <1>3 DEF ReadInv, Goal
<1> QED
  BY <1>1, <1>4, <1>5, <1>6 DEF EngineInv, RemoteCloseIsLast

\* The end of the stream, met by a read that waits: nothing complete is left.
LEMMA ReadEofKeeps ==
  ASSUME EngineInv, ReadEof
  PROVE  EngineInv'
<1>1. /\ Waits /\ eof /\ read = written /\ reason' = "remote_close"
      /\ UNCHANGED <<engine, cut, written, eof, start, read, size, relayed, queued, forwarded>>
  BY DEF ReadEof, kept, reading
<1>2. TypeInv'
  <2>1. reason' \in Reasons \cup {"none"}
    BY <1>1 DEF Reasons
  <2> QED
    BY <1>1, <2>1 DEF EngineInv, TypeInv
<1>3. ReadInv' /\ RelayedInv' /\ FramesInv'
  BY <1>1, StillKeeps DEF kept
<1>4. RemoteCloseIsLast'
  <2> SUFFICES ASSUME cut = 0, NEW n \in 1 .. Frames, Offset[n + 1] <= written
               PROVE  Arrived(n)
    BY <1>1 DEF RemoteCloseIsLast, Arrived, FrameAt
  <2> PICK len \in Nat : len = Len(relayed) /\ DOMAIN relayed = 1 .. len
    BY RelayedType DEF EngineInv
  <2>1. Contiguous(len) /\ Expected(len + 1) = start
    BY UncutIsContiguous
  <2>2. /\ written \in Nat /\ start \in Nat /\ size \in Nat /\ HeaderSize \in Nat \ {0}
        /\ start <= read
    BY Numbers DEF EngineInv
  <2>3. Offset[n + 1] \in Nat /\ 0 < Offset[n + 1] /\ n \in Nat /\ Frames \in Nat
    BY OffsetAssumption
  <2>4. CASE engine = "stream"
    <3>1. start = written
      BY <1>1, <2>4 DEF EngineInv, ReadInv
    <3>2. len # 0
      BY <2>1, <2>3, <3>1 DEF Expected
    <3>3. relayed[len].to = written /\ len \in DOMAIN relayed
      BY <2>1, <3>1, <3>2 DEF Expected
    <3> QED
      BY <2>4, <3>3 DEF Arrived
  <2>5. CASE engine # "stream"
    <3>1. len <= Frames /\ Offset[len + 1] = start
      BY <2>1, <2>5, WhereNext
    <3>2. n <= len
      <4> SUFFICES ASSUME len < n
                   PROVE  FALSE
        BY <2>3
      <4>1. len + 1 \in 1 .. Frames /\ len + 2 \in 1 .. Frames + 1 /\ len + 2 <= n + 1
        BY <2>3
      <4>2. Offset[len + 2] <= Offset[n + 1] /\ Offset[len + 2] \in Nat
        BY <2>3, <4>1, OffsetsRise
      <4>3. Offset[len + 2] <= read
        BY <1>1, <2>2, <2>3, <4>2
      <4>4. start + HeaderSize <= Offset[len + 2]
        BY <3>1, <4>1, OffsetAssumption
      <4>5. CASE size = 0
        BY <1>1, <2>2, <4>2, <4>3, <4>4, <4>5 DEF Waits, Goal
      <4>6. CASE size # 0
        <5>1. size = Offset[len + 2] - start
          <6>1. size \in Announced
            BY <4>6 DEF EngineInv, ReadInv
          <6>2. (len + 1) + 1 = len + 2
            OBVIOUS
          <6> QED
            BY <3>1, <4>1, <6>1, <6>2, AnnouncedThere
        <5> QED
          BY <1>1, <2>2, <4>2, <4>3, <4>6, <5>1 DEF Waits, Goal
      <4> QED
        BY <4>5, <4>6
    <3>3. Contiguous(n)
      BY <2>1, <2>3, <3>2 DEF Contiguous
    <3>4. n \in DOMAIN relayed
      BY <2>3, <3>2
    <3> QED
      BY <2>5, <3>3, <3>4 DEF Arrived, EngineInv, FramesInv
  <2> QED
    BY <2>4, <2>5
<1> QED
  BY <1>1, <1>2, <1>3, <1>4 DEF EngineInv

LEMMA NextEngine == EngineInv /\ [Next]_vars => EngineInv'
<1> SUFFICES ASSUME EngineInv, [Next]_vars
             PROVE  EngineInv'
  OBVIOUS
<1> USE DEF kept, reading
<1>1. CASE TargetWrites
  <2>1. /\ ~eof /\ eof' = eof
        /\ UNCHANGED <<engine, cut, start, read, size, relayed, queued, forwarded, reason>>
    BY <1>1 DEF TargetWrites
  <2>2. written' \in Nat /\ written <= written' /\ written' <= Offset[Frames + 1]
    BY <1>1, Numbers DEF TargetWrites, EngineInv
  <2>3. TypeInv'
    BY <2>1, <2>2, Numbers DEF EngineInv, TypeInv
  <2>4. ReadInv' /\ RelayedInv' /\ FramesInv'
    BY <2>1, StillKeeps
  <2> QED
    BY <2>1, <2>3, <2>4 DEF EngineInv, RemoteCloseIsLast
<1>2. CASE TargetCloses
  <2>1. /\ eof' = TRUE
        /\ UNCHANGED <<engine, cut, written, start, read, size, relayed, queued, forwarded, reason>>
    BY <1>2 DEF TargetCloses
  <2>2. TypeInv'
    BY <2>1 DEF EngineInv, TypeInv
  <2>3. ReadInv' /\ RelayedInv' /\ FramesInv'
    BY <2>1, StillKeeps
  <2> QED
    BY <2>1, <2>2, <2>3 DEF EngineInv, RemoteCloseIsLast, Arrived, FrameAt
<1>3. CASE AgentSends
  <2>1. /\ queued' = queued + 1
        /\ UNCHANGED <<engine, cut, written, eof, start, read, size, relayed, forwarded, reason>>
    BY <1>3 DEF AgentSends
  <2>2. TypeInv'
    BY <2>1 DEF EngineInv, TypeInv
  <2>3. ReadInv' /\ RelayedInv' /\ FramesInv'
    BY <2>1, StillKeeps
  <2> QED
    BY <2>1, <2>2, <2>3 DEF EngineInv, RemoteCloseIsLast, Arrived, FrameAt
<1>4. CASE ForwardAgentMessage \/ AnswerAgentPing
  <2>1. /\ DropRead /\ reason = "none"
        /\ UNCHANGED <<written, eof, relayed, reason>>
    BY <1>4 DEF ForwardAgentMessage, AnswerAgentPing, Interruptible, Running
  <2>2. queued' \in Nat /\ forwarded' \in Nat
    BY <1>4, Numbers DEF ForwardAgentMessage, AnswerAgentPing, EngineInv
  <2>3. ReadInv' /\ RelayedInv' /\ FramesInv' /\ cut' \in Nat
    BY <2>1, DropKeeps
  <2>4. TypeInv'
    BY <2>1, <2>2, <2>3 DEF EngineInv, TypeInv, DropRead
  <2> QED
    BY <2>1, <2>3, <2>4 DEF EngineInv, RemoteCloseIsLast
<1>5. CASE AgentCloses \/ CommandCloses \/ IoFails
  <2>1. /\ reason' \in {"agent_close", "command", "error"}
        /\ UNCHANGED <<engine, cut, written, eof, start, read, size, relayed, queued, forwarded>>
    BY <1>5 DEF AgentCloses, CommandCloses, IoFails
  <2>2. TypeInv'
    BY <2>1 DEF EngineInv, TypeInv, Reasons
  <2>3. ReadInv' /\ RelayedInv' /\ FramesInv'
    BY <2>1, StillKeeps
  <2> QED
    BY <2>1, <2>2, <2>3 DEF EngineInv, RemoteCloseIsLast
<1>6. CASE Read
  BY <1>6, ReadBytesKeeps, DecodeHeaderKeeps, RelayingKeeps, ReadEofKeeps DEF Read
<1>7. CASE UNCHANGED vars
  <2>1. UNCHANGED <<engine, cut, written, eof, start, read, size, relayed, queued, forwarded, reason>>
    BY <1>7 DEF vars
  <2>2. ReadInv' /\ RelayedInv' /\ FramesInv'
    BY <2>1, StillKeeps
  <2>3. TypeInv' /\ RemoteCloseIsLast'
    BY <2>1 DEF EngineInv, TypeInv, RemoteCloseIsLast, Arrived, FrameAt
  <2> QED
    BY <2>1, <2>2, <2>3 DEF EngineInv
<1> QED
  BY <1>1, <1>2, <1>3, <1>4, <1>5, <1>6, <1>7 DEF Next

LEMMA EngineInvariant == Spec => []EngineInv
BY InitEngine, NextEngine, PTL DEF Spec
-----------------------------------------------------------------------------
\* Every variable of the engines has its type, whatever the frames and the traffic.
THEOREM EngineTypeCorrect == Spec => []TypeOK
<1>1. EngineInv => TypeOK
  BY DEF EngineInv, TypeInv, TypeOK
<1> QED
  BY <1>1, EngineInvariant, PTL

\* No engine's select! loop repeats or reorders bytes of the target, or loses one
\* before it drops a read with bytes in it.
THEOREM RelayedInOrderCorrect == Spec => []RelayedInOrder
<1>1. EngineInv => RelayedInOrder
  BY DEF EngineInv, RelayedInv
<1> QED
  BY <1>1, EngineInvariant, PTL

\* A framing engine or the WebSocket engine damages a message only after it lost
\* bytes: the length field is read where a frame begins until then.
THEOREM DamageFollowsLossCorrect == Spec => []DamageFollowsLoss
<1>1. EngineInv => DamageFollowsLoss
  BY DEF EngineInv, FramesInv, DamageFollowsLoss, Contiguous
<1> QED
  BY <1>1, EngineInvariant, PTL

\* "remote_close" is the engine's last word: every frame the target completed is
\* with the agent by then, unless a read was cut.
THEOREM RemoteCloseIsLastCorrect == Spec => []RemoteCloseIsLast
<1>1. EngineInv => RemoteCloseIsLast
  BY DEF EngineInv
<1> QED
  BY <1>1, EngineInvariant, PTL
-----------------------------------------------------------------------------
(* The engines implement FrameChannel *)

\* A set of numbers with a bound has a highest: of the sets of the numbers above
\* one of them, ordered by inclusion, there is a least.
LEMMA Highest ==
  ASSUME NEW max \in Nat, NEW T, T \subseteq 0 .. max, T # {}
  PROVE  \E n \in T : \A m \in T : m <= n
<1> DEFINE above(n) == n + 1 .. max
           W == {above(n) : n \in T}
<1>1. FiniteSubsetsOf(1 .. max) = SUBSET (1 .. max)
  <2>1. IsFiniteSet(1 .. max)
    BY FS_Interval
  <2> QED
    BY <2>1, FS_FiniteSubsetsOfFinite
<1>2. IsWellFoundedOn(StrictSubsetOrdering(1 .. max), SUBSET (1 .. max))
  BY <1>1, FS_StrictSubsetOrderingWellFounded
<1>3. W \subseteq SUBSET (1 .. max) /\ W # {}
  <2>1. ASSUME NEW n \in T
        PROVE  above(n) \in SUBSET (1 .. max)
    <3>1. n \in Nat /\ n + 1 \in Nat /\ n + 1 >= 1
      OBVIOUS
    <3> QED
      BY <3>1
  <2>2. PICK n \in T : TRUE
    OBVIOUS
  <2>3. above(n) \in W
    BY <2>2
  <2> HIDE DEF above
  <2> QED
    BY <2>1, <2>3
<1>4. PICK x \in W : \A y \in W : ~ (<<y, x>> \in StrictSubsetOrdering(1 .. max))
  <2> HIDE DEF W
  <2> QED
    BY <1>2, <1>3, WFMin
<1>5. PICK n \in T : x = above(n)
  BY <1>4
<1>6. ASSUME NEW m \in T, n < m
      PROVE  FALSE
  <2>1. above(m) \in W /\ above(m) \subseteq 1 .. max /\ x \subseteq 1 .. max
    BY <1>3, <1>4
  <2>2. above(m) \subseteq x /\ m \in x /\ m \notin above(m)
    BY <1>5, <1>6
  <2>3. <<above(m), x>> \in StrictSubsetOrdering(1 .. max)
    BY <2>1, <2>2 DEF StrictSubsetOrdering
  <2> QED
    BY <1>4, <2>1, <2>3
<1> QED
  BY <1>6

\* There is a last frame that ends at or before any position, and it alone does.
LEMMA LastBeforeIs ==
  ASSUME NEW end \in Nat
  PROVE  /\ LastBefore(end) \in 0 .. Frames
         /\ Offset[LastBefore(end) + 1] <= end
         /\ LastBefore(end) < Frames => end < Offset[LastBefore(end) + 2]
<1> DEFINE T == {n \in 0 .. Frames : Offset[n + 1] <= end}
<1>0. Frames \in Nat /\ \A n \in 0 .. Frames : Offset[n + 1] \in Nat
  BY OffsetAssumption
<1>1. 0 \in T
  BY <1>0, OffsetAssumption
<1>2. PICK n \in T : \A m \in T : m <= n
  <2>1. T \subseteq 0 .. Frames /\ T # {}
    BY <1>1
  <2> HIDE DEF T
  <2> QED
    BY <1>0, <2>1, Highest
<1>3. n \in 0 .. Frames /\ Offset[n + 1] <= end
  OBVIOUS
<1>4. n < Frames => end < Offset[n + 2]
  <2> SUFFICES ASSUME n < Frames
               PROVE  end < Offset[n + 2]
    OBVIOUS
  <2>1. n + 1 \in 0 .. Frames /\ (n + 1) + 1 = n + 2
    BY <1>0, <1>3
  <2>2. n + 1 \notin T
    BY <1>0, <1>2, <1>3
  <2> QED
    BY <1>0, <2>1, <2>2
<1> QED
  BY <1>3, <1>4 DEF LastBefore

\* A later position is not before a frame that an earlier one is not before.
LEMMA LastBeforeRises ==
  ASSUME NEW a \in Nat, NEW b \in Nat, a <= b
  PROVE  LastBefore(a) <= LastBefore(b)
<1> DEFINE m == LastBefore(a)
           n == LastBefore(b)
<1>1. /\ m \in 0 .. Frames /\ Offset[m + 1] <= a
      /\ n \in 0 .. Frames /\ (n < Frames => b < Offset[n + 2])
  BY LastBeforeIs
<1> HIDE DEF m, n
<1>2. ASSUME n < m
      PROVE  FALSE
  <2>1. Frames \in Nat /\ n + 2 \in 1 .. Frames + 1 /\ m + 1 \in 1 .. Frames + 1 /\ n + 2 <= m + 1
    BY <1>1, <1>2, OffsetAssumption
  <2>2. Offset[n + 2] <= Offset[m + 1] /\ Offset[n + 2] \in Nat /\ Offset[m + 1] \in Nat
    BY <2>1, OffsetsRise
  <2>3. n < Frames
    <3>1. Frames \in Nat /\ m \in Nat /\ n \in Nat /\ m <= Frames
      BY <1>1, OffsetAssumption
    <3> QED
      BY <1>2, <3>1
  <2> QED
    BY <1>1, <2>2, <2>3
<1>3. m <= n
  BY <1>1, <1>2
<1> QED
  BY <1>3 DEF m, n

LEMMA LastBeforeOffset ==
  ASSUME NEW n \in 0 .. Frames
  PROVE  LastBefore(Offset[n + 1]) = n
<1> DEFINE m == LastBefore(Offset[n + 1])
<1>0. Frames \in Nat /\ n + 1 \in 1 .. Frames + 1 /\ Offset[n + 1] \in Nat
  BY OffsetAssumption
<1>1. m \in 0 .. Frames /\ Offset[m + 1] <= Offset[n + 1]
      /\ (m < Frames => Offset[n + 1] < Offset[m + 2])
  BY <1>0, LastBeforeIs
<1> HIDE DEF m
<1>2. ASSUME m < n
      PROVE  FALSE
  <2>1. m + 2 \in 1 .. Frames + 1 /\ m + 2 <= n + 1
    BY <1>0, <1>1, <1>2
  <2>2. Offset[m + 2] <= Offset[n + 1] /\ Offset[m + 2] \in Nat
    BY <1>0, <2>1, OffsetsRise
  <2> QED
    BY <1>0, <1>1, <1>2, <2>2
<1>3. ASSUME n < m
      PROVE  FALSE
  <2>1. n + 1 \in 1 .. Frames + 1 /\ m + 1 \in 1 .. Frames + 1 /\ n + 1 < m + 1
    BY <1>0, <1>1, <1>3
  <2>2. Offset[n + 1] + HeaderSize <= Offset[m + 1]
    BY <2>1, OffsetAssumption
  <2>3. HeaderSize \in Nat \ {0} /\ Offset[m + 1] \in Nat
    BY <2>1, OffsetAssumption
  <2> QED
    BY <1>0, <1>1, <2>2, <2>3
<1>4. m = n
  BY <1>1, <1>2, <1>3
<1> QED
  BY <1>4 DEF m

\* Where the agent stands: the end of the last message before a read was cut.
Reached == Expected(Intact + 1)

\* The messages up to there have no gap; while nothing was cut they end where the
\* read begins.
LEMMA ReachedIs ==
  ASSUME EngineInv
  PROVE  /\ Intact \in 0 .. Len(relayed) /\ Contiguous(Intact) /\ Reached \in Nat
         /\ cut = 0 => Intact = Len(relayed) /\ Reached = start
<1> PICK len \in Nat : len = Len(relayed)
  BY RelayedType DEF EngineInv
<1>1. cut \in Nat /\ cut <= len + 1
  BY DEF EngineInv, TypeInv, RelayedInv
<1>2. Intact \in 0 .. len /\ (cut = 0 => Intact = len)
  BY <1>1 DEF Intact
<1>3. Contiguous(Intact)
  <2> SUFFICES ASSUME NEW i \in 1 .. Intact
               PROVE  relayed[i].from = Expected(i)
    BY DEF Contiguous
  <2>1. i \in 1 .. len /\ i \in DOMAIN relayed
    BY <1>2, RelayedType DEF EngineInv
  <2>2. Expected(i) <= relayed[i].from /\ (Expected(i) < relayed[i].from => cut \in 1 .. i)
    BY <2>1 DEF EngineInv, RelayedInv, RelayedInOrder
  <2>3. cut \notin 1 .. i
    BY <1>1, <2>1 DEF Intact
  <2>4. relayed[i].from \in Nat /\ Expected(i) \in Nat
    BY <2>1, RelayedType DEF EngineInv
  <2> QED
    BY <2>2, <2>3, <2>4
<1>4. Reached \in Nat
  <2>1. Intact + 1 \in 1 .. len + 1
    BY <1>2
  <2> QED
    BY <2>1, RelayedType DEF EngineInv, Reached
<1>5. cut = 0 => Reached = start
  BY <1>2, UncutIsContiguous DEF Reached
<1> QED
  BY <1>2, <1>3, <1>4, <1>5

\* A message before the first cut is the frame of its number.
LEMMA FramesUntilCut ==
  ASSUME EngineInv, engine # "stream", NEW i \in 1 .. Intact
  PROVE  i \in 1 .. Frames /\ relayed[i] = FrameAt(i)
<1>1. Intact \in 0 .. Len(relayed) /\ Contiguous(Intact) /\ Len(relayed) \in Nat
      /\ DOMAIN relayed = 1 .. Len(relayed)
  BY ReachedIs, RelayedType DEF EngineInv
<1>2. i \in DOMAIN relayed /\ Contiguous(i)
  BY <1>1 DEF Contiguous
<1> QED
  BY <1>1, <1>2 DEF EngineInv, FramesInv

\* What the agent has, in the channel's terms: the frames before where it stands.
LEMMA DeliveredIs ==
  ASSUME EngineInv
  PROVE  Delivered = [n \in 1 .. LastBefore(Reached) |-> n]
<1>1. CASE engine = "stream"
  BY <1>1 DEF Delivered, Reached
<1>2. CASE engine # "stream"
  <2>1. Intact \in 0 .. Len(relayed) /\ Contiguous(Intact) /\ Len(relayed) \in Nat
        /\ DOMAIN relayed = 1 .. Len(relayed)
    BY ReachedIs, RelayedType DEF EngineInv
  <2>2. ASSUME NEW i \in 1 .. Intact
        PROVE  i \in 1 .. Frames /\ relayed[i] = FrameAt(i)
    BY <1>2, FramesUntilCut
  <2>3. ASSUME NEW i \in 1 .. Intact
        PROVE  Number(relayed[i]) = i
    <3>1. relayed[i] = FrameAt(i) /\ i \in 1 .. Frames
      BY <2>2
    <3>2. ASSUME NEW n \in 1 .. Frames, FrameAt(i) = FrameAt(n)
          PROVE  n = i
      <4>1. Offset[n] = Offset[i]
        BY <3>2 DEF FrameAt
      <4>2. n \in 1 .. Frames + 1 /\ i \in 1 .. Frames + 1
        BY <3>1, OffsetAssumption
      <4> QED
        BY <4>1, <4>2, OffsetsDiffer
    <3> QED
      BY <3>1, <3>2 DEF Number
  <2>4. Reached = Offset[Intact + 1] /\ Intact \in 0 .. Frames
    <3>1. CASE Intact = 0
      BY <3>1, OffsetAssumption DEF Reached, Expected
    <3>2. CASE Intact # 0
      <4>1. Intact \in 1 .. Intact /\ Intact + 1 # 1 /\ (Intact + 1) - 1 = Intact
        BY <2>1, <3>2
      <4>2. relayed[Intact] = FrameAt(Intact) /\ Intact \in 1 .. Frames
        BY <2>2, <4>1
      <4>3. Reached = relayed[Intact].to
        BY <4>1 DEF Reached, Expected
      <4> QED
        BY <4>2, <4>3 DEF FrameAt
    <3> QED
      BY <3>1, <3>2
  <2>5. LastBefore(Reached) = Intact
    BY <2>4, LastBeforeOffset
  <2> QED
    BY <1>2, <2>3, <2>5 DEF Delivered
<1> QED
  BY <1>1, <1>2

LEMMA ProducedIs ==
  ASSUME EngineInv
  PROVE  Produced \in 0 .. Frames /\ LastBefore(Reached) \in 0 .. Frames
         /\ (cut = 0 => LastBefore(Reached) <= Produced)
<1>1. Reached \in Nat /\ (cut = 0 => Reached = start)
  BY ReachedIs
<1>2. written \in Nat /\ start \in Nat /\ start <= written
  BY Numbers DEF EngineInv
<1> QED
  BY <1>1, <1>2, LastBeforeIs, LastBeforeRises DEF Produced

\* What the refinement needs of both ends of a step.
MapInv ==
  /\ Delivered = [n \in 1 .. LastBefore(Reached) |-> n]
  /\ Produced \in 0 .. Frames
  /\ LastBefore(Reached) \in 0 .. Frames
  /\ cut = 0 => Reached = start /\ LastBefore(Reached) <= Produced

LEMMA MapInvariant == EngineInv => MapInv
BY ReachedIs, DeliveredIs, ProducedIs DEF MapInv

LEMMA InitChannel == Init => Channel!Init
<1> SUFFICES ASSUME Init
             PROVE  Channel!Init
  OBVIOUS
<1>1. LastBefore(0) = 0
  BY LastBeforeOffset, OffsetAssumption
<1>2. Len(relayed) = 0 /\ cut = 0 /\ written = 0 /\ reason = "none"
  BY DEF Init
<1>3. Expected(Intact + 1) = 0
  BY <1>2 DEF Intact, Expected
<1>4. Delivered = <<>>
  <2>1. EngineInv
    BY InitEngine
  <2>2. Delivered = [n \in 1 .. 0 |-> n]
    BY <1>1, <1>3, <2>1, DeliveredIs DEF Reached
  <2> QED
    BY <2>2
<1> QED
  BY <1>1, <1>2, <1>4 DEF Channel!Init, Produced, Ended, Running

\* A step that moves neither the messages nor the cut moves nothing delivered.
LEMMA DeliveredStays ==
  ASSUME UNCHANGED <<engine, relayed, Intact>>
  PROVE  Delivered' = Delivered
BY DEF Delivered, Expected, Number, FrameAt, LastBefore

LEMMA NextChannel ==
  ASSUME EngineInv, MapInv, MapInv', [Next]_vars
  PROVE  [Channel!Next]_(Channel!channel)
<1> DEFINE Stays == UNCHANGED <<Produced, Delivered, Ended>>
<1>0. /\ Stays => [Channel!Next]_(Channel!channel)
      /\ Channel!Next => [Channel!Next]_(Channel!channel)
  BY DEF Channel!channel
<1>1. ASSUME UNCHANGED <<engine, cut, relayed>>
      PROVE  UNCHANGED <<Delivered, Intact>>
  <2>1. Intact' = Intact
    BY <1>1 DEF Intact
  <2> QED
    BY <1>1, <2>1, DeliveredStays
<1>2. CASE TargetWrites
  <2>1. UNCHANGED <<engine, cut, relayed, reason>> /\ written' \in Nat /\ written <= written'
        /\ written \in Nat
    BY <1>2, Numbers DEF TargetWrites, kept, EngineInv
  <2>2. Produced <= Produced' /\ Produced \in 0 .. Frames /\ Produced' \in 0 .. Frames
    BY <2>1, LastBeforeIs, LastBeforeRises DEF Produced
  <2>3. UNCHANGED <<Delivered, Ended>>
    BY <1>1, <2>1 DEF Ended, Running
  <2>4. CASE Produced' = Produced
    BY <1>0, <2>3, <2>4
  <2>5. CASE Produced' # Produced
    <3>1. Produced' \in Produced + 1 .. Frames
      BY <2>2, <2>5
    <3> QED
      BY <1>0, <2>3, <3>1 DEF Channel!Next, Channel!Produce
  <2> QED
    BY <2>4, <2>5
<1>3. CASE ForwardAgentMessage \/ AnswerAgentPing
  <2>1. DropRead /\ reason = "none" /\ UNCHANGED <<written, relayed, reason>>
    BY <1>3 DEF ForwardAgentMessage, AnswerAgentPing, Interruptible, Running
  <2>2. UNCHANGED engine /\ (cut' = cut \/ (cut = 0 /\ cut' = Len(relayed) + 1))
    BY <2>1 DEF DropRead
  <2>3. Produced' = Produced
    BY <2>1 DEF Produced
  <2>4. CASE cut' = cut
    BY <1>0, <1>1, <2>1, <2>2, <2>3, <2>4 DEF Ended, Running
  <2>5. CASE cut = 0 /\ cut' = Len(relayed) + 1
    <3>1. Len(relayed) \in Nat
      BY RelayedType DEF EngineInv
    <3>2. Intact' = Intact
      BY <2>1, <2>5, <3>1 DEF Intact
    <3>3. Delivered' = Delivered
      BY <2>1, <2>2, <3>2, DeliveredStays
    <3>4. ~Ended /\ Ended'
      BY <2>1, <2>5, <3>1 DEF Ended, Running
    <3> QED
      BY <1>0, <2>3, <3>3, <3>4 DEF Channel!Next, Channel!End, Ended
  <2> QED
    BY <2>2, <2>4, <2>5
<1>4. CASE RelayFrame \/ RelayChunk \/ RelayMessage
  <2>1. UNCHANGED <<engine, cut, written, reason>> /\ reason = "none"
    BY <1>4 DEF RelayFrame, RelayChunk, RelayMessage, kept, Running
  <2>2. PICK end \in Nat : /\ start < end /\ start' = end
                           /\ relayed' = Append(relayed, [from |-> start, to |-> end])
    BY <1>4, Relaying
  <2>3. Produced' = Produced /\ Ended' = Ended
    BY <2>1 DEF Produced, Ended, Running
  <2>4. CASE cut = 0
    <3>1. Reached = start /\ Reached' = end /\ start \in Nat
      BY <2>1, <2>2, <2>4, Numbers DEF EngineInv, MapInv
    <3>2. LastBefore(start) <= LastBefore(end) /\ LastBefore(end) <= Produced
          /\ LastBefore(start) \in 0 .. Frames /\ LastBefore(end) \in 0 .. Frames
          /\ Produced \in Nat
      BY <2>1, <2>2, <2>3, <2>4, <3>1, LastBeforeRises, LastBeforeIs DEF MapInv
    <3>3. /\ Delivered = [n \in 1 .. LastBefore(start) |-> n]
          /\ Delivered' = [n \in 1 .. LastBefore(end) |-> n]
      BY <3>1 DEF MapInv
    <3>4. CASE LastBefore(end) = LastBefore(start)
      BY <1>0, <2>3, <3>3, <3>4
    <3>5. CASE LastBefore(end) # LastBefore(start)
      <4>1. Len(Delivered) = LastBefore(start)
        BY <3>2, <3>3
      <4>2. LastBefore(end) \in Len(Delivered) + 1 .. Produced
        BY <3>2, <3>5, <4>1
      <4>3. ~Ended
        BY <2>1, <2>4 DEF Ended, Running
      <4> QED
        BY <1>0, <2>3, <3>3, <4>2, <4>3 DEF Channel!Next, Channel!Deliver
    <3> QED
      BY <3>4, <3>5
  <2>5. CASE cut # 0
    <3>1. Intact' = Intact
      BY <2>1, <2>5 DEF Intact
    <3>2. Reached' = Reached
      <4>1. Intact \in 0 .. Len(relayed) /\ Len(relayed) \in Nat
        BY ReachedIs, RelayedType DEF EngineInv
      <4>2. \A i \in 1 .. Len(relayed) : relayed'[i] = relayed[i]
        <5>1. relayed \in Seq([from : Nat, to : Nat]) /\ start \in Nat
          BY Numbers DEF EngineInv, TypeInv
        <5> QED
          BY <2>2, <5>1
      <4>3. Intact + 1 = 1 \/ (Intact + 1) - 1 \in 1 .. Len(relayed)
        BY <4>1
      <4>4. Expected(Intact + 1)' = IF Intact + 1 = 1 THEN 0 ELSE relayed'[(Intact + 1) - 1].to
        BY <3>1 DEF Expected
      <4> QED
        BY <4>2, <4>3, <4>4 DEF Reached, Expected
    <3>3. Delivered' = Delivered
      BY <3>2 DEF MapInv
    <3> QED
      BY <1>0, <2>3, <3>3
  <2> QED
    BY <2>4, <2>5
<1>5. CASE AgentCloses \/ CommandCloses \/ IoFails \/ ReadEof \/ DecodeHeader
  <2>1. UNCHANGED <<engine, cut, written, relayed>> /\ reason = "none"
    BY <1>5 DEF AgentCloses, CommandCloses, IoFails, ReadEof, DecodeHeader, kept, Running
  <2>2. UNCHANGED <<Produced, Delivered>>
    BY <1>1, <2>1 DEF Produced
  <2>3. CASE reason' = "none" \/ cut # 0
    BY <1>0, <2>1, <2>2, <2>3 DEF Ended, Running
  <2>4. CASE reason' # "none" /\ cut = 0
    <3>1. ~Ended /\ Ended' /\ Ended' = TRUE
      BY <2>1, <2>4 DEF Ended, Running
    <3> QED
      BY <1>0, <2>2, <3>1 DEF Channel!Next, Channel!End
  <2> QED
    BY <2>3, <2>4
<1>6. CASE TargetCloses \/ AgentSends \/ ReadBytes \/ UNCHANGED vars
  <2>1. UNCHANGED <<engine, cut, written, relayed, reason>>
    BY <1>6 DEF TargetCloses, AgentSends, ReadBytes, kept, vars
  <2> QED
    BY <1>0, <1>1, <2>1 DEF Produced, Ended, Running
<1> QED
  BY <1>2, <1>3, <1>4, <1>5, <1>6 DEF Next, Read

\* Until the relay ends or a read is cut, an engine hands over the target's frames
\* whole, in order and each once: every step is one of FrameChannel or none.
THEOREM ImplementsChannelCorrect == Spec => ImplementsChannel
<1>1. EngineInv /\ MapInv /\ MapInv' /\ [Next]_vars => [Channel!Next]_(Channel!channel)
  BY NextChannel
<1> QED
  BY <1>1, InitChannel, MapInvariant, EngineInvariant, PTL DEF Spec, ImplementsChannel, Channel!Spec
-----------------------------------------------------------------------------
(* Where damage begins *)

\* What an engine that keeps message boundaries hands over before its first cut.
WholeUntilCut ==
  engine # "stream" => \A i \in 1 .. Intact : i <= Frames /\ relayed[i] = FrameAt(i)

\* The true form of DeliversWholeFrames: the callback delivers the full frames, in order
\* and each once, up to the first read that a select! loop drops with bytes in it, and
\* all along if none is.
THEOREM DamageNeedsCut == Spec => [](WholeUntilCut /\ (cut = 0 => DeliversWholeFrames))
<1>1. ASSUME EngineInv
      PROVE  WholeUntilCut /\ (cut = 0 => DeliversWholeFrames)
  <2>1. /\ Intact \in 0 .. Len(relayed) /\ Contiguous(Intact)
        /\ cut = 0 => Intact = Len(relayed)
    BY <1>1, ReachedIs
  <2>2. Len(relayed) \in Nat /\ DOMAIN relayed = 1 .. Len(relayed)
    BY <1>1, RelayedType DEF EngineInv
  <2>3. engine # "stream" => \A i \in 1 .. Intact : i <= Frames /\ relayed[i] = FrameAt(i)
    BY <1>1, FramesUntilCut
  <2>4. WholeUntilCut
    BY <2>3 DEF WholeUntilCut
  <2>5. cut = 0 => DeliversWholeFrames
    BY <2>1, <2>2, <2>4 DEF WholeUntilCut, DeliversWholeFrames
  <2> QED
    BY <2>4, <2>5
<1> QED
  BY <1>1, EngineInvariant, PTL
=============================================================================
