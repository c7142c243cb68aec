----------------------------- MODULE FrameEngine -----------------------------
(***************************************************************************)
(* The engines of dlkn-socket-bridge-rs: one task relays between a target  *)
(* and the data WebSocket of an agent.  A framing engine (mtproto-frame,   *)
(* loco-frame) cuts the target's TCP stream into frames, the stream engine *)
(* (tcp, tls) passes on what a read returns, the WebSocket engine (ws,     *)
(* wss) passes on messages.                                                *)
(*                                                                         *)
(* Bytes of the target's stream are their offsets.  Frame n is the bytes   *)
(* from Offset[n] up to Offset[n + 1], header included: a frame, or a      *)
(* message of a WebSocket.  The read future has consumed the bytes from    *)
(* `start' up to `read'; each iteration of the loop makes a new one, and   *)
(* tokio::select! drops the old one when another branch wins, with the     *)
(* bytes it held: only a framing engine's holds any.  select! is biased,   *)
(* so a branch below the read wins only while the read is waiting for      *)
(* bytes; more bytes can arrive between the two polls.                     *)
(***************************************************************************)
EXTENDS Naturals, Sequences

CONSTANTS
  Frames,      \* frames the target produces
  Offset,      \* [1 .. Frames + 1 -> Nat]: where each begins
  HeaderSize,  \* bytes of the length field (4 in the code)
  MaxSize,     \* largest frame, header included, that a header may announce
  BufferSize,  \* most a read of the stream engine returns (8192 in the code)
  MaxAgent     \* bound: messages the agent sends

ASSUME TrafficAssumption == BufferSize \in Nat \ {0} /\ MaxAgent \in Nat
ASSUME OffsetAssumption ==
  /\ Frames \in Nat
  /\ HeaderSize \in Nat \ {0}
  /\ MaxSize \in Nat
  /\ Offset \in [1 .. Frames + 1 -> Nat]
  /\ Offset[1] = 0
  /\ \A m, n \in 1 .. Frames + 1 : m < n => Offset[m] + HeaderSize <= Offset[n]
  /\ \A n \in 1 .. Frames : Offset[n + 1] <= Offset[n] + MaxSize

VARIABLES
  engine,    \* the one the target's scheme selects
  written,   \* bytes the target has written
  eof,       \* the target has closed its side
  start,     \* first byte of the frame being read
  read,      \* first byte not yet read
  size,      \* size of that frame once its header is decoded, else 0
  relayed,   \* messages sent to the agent: [from, to], to excluded
  queued,    \* messages of the agent waiting in the data WebSocket
  forwarded, \* messages of the agent written to the target
  reason,    \* close_reason; "none" while the loop runs
  cut        \* history: 0, or 1 + the messages relayed when a read was first
             \* dropped with bytes in it

vars == <<engine, cut, written, eof, start, read, size, relayed, queued, forwarded, reason>>

reading == <<start, read, size>>
kept == <<engine, cut>>

Engine == {"frame", "stream", "websocket"}

Reasons == {"command", "remote_close", "agent_close", "error"}

Min2(a, b) == IF a < b THEN a ELSE b

\* Offset up to which the read future reads before it does anything else.
Goal == start + IF size = 0 THEN HeaderSize ELSE size

\* The read future waits for bytes.
Waits == read < Goal

Running == reason = "none"
-----------------------------------------------------------------------------
(* The target *)

TargetWrites ==
  /\ ~eof
  /\ \E end \in written + 1 .. Offset[Frames + 1] : written' = end
  /\ UNCHANGED <<kept, eof, reading, relayed, queued, forwarded, reason>>

TargetCloses ==
  /\ ~eof /\ eof' = TRUE
  /\ UNCHANGED <<kept, written, reading, relayed, queued, forwarded, reason>>
-----------------------------------------------------------------------------
(* The read branch *)

\* Mutant of ReadBytes: the read is taken to be whole when any byte arrives.
ReadBytesAll ==
  /\ engine = "frame" /\ Running /\ Waits /\ read < written
  /\ read' = Goal
  /\ UNCHANGED <<kept, written, eof, start, size, relayed, queued, forwarded, reason>>

\* read_exact takes what there is, up to what it asked for.
ReadBytes ==
  /\ engine = "frame" /\ Running /\ Waits /\ read < written
  /\ read' = Min2(Goal, written)
  /\ UNCHANGED <<kept, written, eof, start, size, relayed, queued, forwarded, reason>>

\* The size the four bytes at `start' announce: a frame's own at its first byte,
\* anything elsewhere.  Zero stands for a size over MAX_FRAME_SIZE.
Announced ==
  IF \E n \in 1 .. Frames : Offset[n] = start
  THEN {Offset[n + 1] - Offset[n] : n \in {m \in 1 .. Frames : Offset[m] = start}}
  ELSE {0} \cup (HeaderSize .. MaxSize)

\* Mutant of DecodeHeader: the header counted twice.
DecodeHeaderTwice ==
  /\ engine = "frame" /\ Running /\ size = 0 /\ read = start + HeaderSize
  /\ \E n \in Announced :
       IF n = 0 THEN reason' = "error" /\ UNCHANGED size
                ELSE size' = n + HeaderSize /\ UNCHANGED reason
  /\ UNCHANGED <<kept, written, eof, start, read, relayed, queued, forwarded>>

\* A quick ack (mtproto) is a header with its high bit set and nothing after it:
\* like an empty frame it is complete with its header.
DecodeHeader ==
  /\ engine = "frame" /\ Running /\ size = 0 /\ read = start + HeaderSize
  /\ \E n \in Announced :
       IF n = 0 THEN reason' = "error" /\ UNCHANGED size
                ELSE size' = n /\ UNCHANGED reason
  /\ UNCHANGED <<kept, written, eof, start, read, relayed, queued, forwarded>>

\* Mutant of RelayFrame: without the header.
RelayFrameStripped ==
  /\ Running /\ size # 0 /\ ~Waits
  /\ relayed' = Append(relayed, [from |-> start + HeaderSize, to |-> read])
  /\ start' = read /\ size' = 0
  /\ UNCHANGED <<kept, written, eof, read, queued, forwarded, reason>>

\* A whole frame goes to the agent as one message, and the next read begins.
RelayFrame ==
  /\ Running /\ size # 0 /\ ~Waits
  /\ relayed' = Append(relayed, [from |-> start, to |-> read])
  /\ start' = read /\ size' = 0
  /\ UNCHANGED <<kept, written, eof, read, queued, forwarded, reason>>

\* Mutant of RelayChunk: the buffer is sent whole, however little was read.
RelayChunkPadded ==
  /\ engine = "stream" /\ Running /\ read < written
  /\ read' = read + Min2(BufferSize, written - read) /\ start' = read'
  /\ relayed' = Append(relayed, [from |-> read, to |-> read + BufferSize])
  /\ UNCHANGED <<kept, written, eof, size, queued, forwarded, reason>>

\* The stream engine sends what one read returned, which need not be all there is.
RelayChunk ==
  /\ engine = "stream" /\ Running /\ read < written
  /\ \E end \in read + 1 .. Min2(read + BufferSize, written) :
       /\ read' = end /\ start' = end
       /\ relayed' = Append(relayed, [from |-> read, to |-> end])
  /\ UNCHANGED <<kept, written, eof, size, queued, forwarded, reason>>

\* The WebSocket engine sends the next message, binary or text, once it is whole;
\* the parts of it that have arrived wait in the WebSocket, not in the future.
RelayMessage ==
  /\ engine = "websocket" /\ Running
  /\ \E n \in 1 .. Frames :
       /\ Offset[n] = read /\ Offset[n + 1] <= written
       /\ read' = Offset[n + 1] /\ start' = read'
       /\ relayed' = Append(relayed, [from |-> read, to |-> read'])
  /\ UNCHANGED <<kept, written, eof, size, queued, forwarded, reason>>

\* Mutant of ReadEof: the close is seen before the bytes that preceded it.
ReadEofEarly ==
  /\ Running /\ Waits /\ eof
  /\ reason' = "remote_close"
  /\ UNCHANGED <<kept, written, eof, reading, relayed, queued, forwarded>>

\* The read meets the end of the stream: UnexpectedEof, a read of no bytes, or a
\* close frame.
ReadEof ==
  /\ Running /\ Waits /\ eof /\ read = written
  /\ reason' = "remote_close"
  /\ UNCHANGED <<kept, written, eof, reading, relayed, queued, forwarded>>
-----------------------------------------------------------------------------
(* The branches below it *)

AgentSends ==
  /\ queued + forwarded < MaxAgent
  /\ queued' = queued + 1
  /\ UNCHANGED <<kept, written, eof, reading, relayed, forwarded, reason>>

\* Another branch won: the read future and the bytes it holds are dropped.
DropRead ==
  /\ start' = read /\ size' = 0
  /\ cut' = IF cut = 0 /\ read # start THEN Len(relayed) + 1 ELSE cut
  /\ UNCHANGED <<engine, read>>

Interruptible == Running /\ Waits

ForwardAgentMessage ==
  /\ Interruptible /\ queued > 0
  /\ queued' = queued - 1 /\ forwarded' = forwarded + 1
  /\ DropRead
  /\ UNCHANGED <<written, eof, relayed, reason>>

\* A data WebSocket ping is answered, and ends the iteration like a message.
AnswerAgentPing ==
  /\ Interruptible /\ read # start
  /\ DropRead
  /\ UNCHANGED <<written, eof, relayed, queued, forwarded, reason>>

\* The agent closed the data WebSocket; its earlier messages come first.
AgentCloses ==
  /\ Running /\ Waits /\ queued = 0
  /\ reason' = "agent_close"
  /\ UNCHANGED <<kept, written, eof, reading, relayed, queued, forwarded>>

\* The command channel is closed, or says so: checked before the read.
CommandCloses ==
  /\ Running
  /\ reason' = "command"
  /\ UNCHANGED <<kept, written, eof, reading, relayed, queued, forwarded>>

\* A read, a write or the data WebSocket failed: the engine returns Err.
IoFails ==
  /\ Running
  /\ reason' = "error"
  /\ UNCHANGED <<kept, written, eof, reading, relayed, queued, forwarded>>
-----------------------------------------------------------------------------
Init ==
  /\ engine \in Engine /\ cut = 0
  /\ written = 0 /\ eof = FALSE
  /\ start = 0 /\ read = 0 /\ size = 0
  /\ relayed = <<>>
  /\ queued = 0 /\ forwarded = 0
  /\ reason = "none"

Read == ReadBytes \/ DecodeHeader \/ RelayFrame \/ RelayChunk \/ RelayMessage \/ ReadEof

Next ==
  \/ TargetWrites \/ TargetCloses
  \/ Read
  \/ AgentSends \/ ForwardAgentMessage \/ AnswerAgentPing
  \/ AgentCloses \/ CommandCloses \/ IoFails

Spec == Init /\ [][Next]_vars

\* The task is polled while there are bytes to read.
FairSpec == Spec /\ WF_vars(Read)
-----------------------------------------------------------------------------
(* Properties *)

\* Every variable has its type, and nothing is read that was not written.
TypeOK ==
  /\ engine \in Engine
  /\ {written, start, read, size, queued, forwarded, cut} \subseteq Nat
  /\ eof \in BOOLEAN
  /\ start <= read /\ read <= written /\ written <= Offset[Frames + 1]
  /\ relayed \in Seq([from : Nat, to : Nat])
  /\ reason \in Reasons \cup {"none"}

FrameAt(n) == [from |-> Offset[n], to |-> Offset[n + 1]]

\* Whole frames, in order, each once: the callback delivers the full frame.
DeliversWholeFrames ==
  engine = "frame" =>
    \A i \in DOMAIN relayed : i <= Frames /\ relayed[i] = FrameAt(i)

\* Where message i should begin if no byte is lost.
Expected(i) == IF i = 1 THEN 0 ELSE relayed[i - 1].to

\* A damaged message is always preceded by lost bytes: as long as the messages
\* are contiguous they are the target's frames.
DamageFollowsLoss ==
  engine # "stream" =>
    \A k \in DOMAIN relayed :
      (\A i \in 1 .. k : relayed[i].from = Expected(i)) => k <= Frames /\ relayed[k] = FrameAt(k)

\* No engine, whatever interrupts it, repeats or reorders bytes of the target; and
\* it loses none before a read is dropped with bytes in it.
RelayedInOrder ==
  \A i \in DOMAIN relayed :
    /\ Expected(i) <= relayed[i].from /\ relayed[i].from < relayed[i].to
    /\ Expected(i) < relayed[i].from => cut \in 1 .. i

\* The agent has frame n whole.
Arrived(n) ==
  IF engine = "stream" THEN \E i \in DOMAIN relayed : Offset[n + 1] <= relayed[i].to
  ELSE n \in DOMAIN relayed /\ relayed[n] = FrameAt(n)

\* "remote_close" is reported only when every frame the target completed before
\* it closed is with the agent, unless a read was cut.
RemoteCloseIsLast ==
  reason = "remote_close" /\ cut = 0 =>
    \A n \in 1 .. Frames : Offset[n + 1] <= written => Arrived(n)

\* A frame the target completes reaches the agent, unless the relay ends or a read
\* is cut.
FramesArrive ==
  \A n \in 1 .. Frames :
    written >= Offset[n + 1] ~> Arrived(n) \/ ~Running \/ cut # 0

\* Every engine keeps the promise of FrameChannel until the relay ends, or a read
\* is cut and with it the promise.
Number(m) == IF \E n \in 1 .. Frames : m = FrameAt(n)
             THEN CHOOSE n \in 1 .. Frames : m = FrameAt(n) ELSE 0

LastBefore(end) == CHOOSE n \in 0 .. Frames :
  /\ Offset[n + 1] <= end
  /\ n < Frames => end < Offset[n + 2]

Intact == IF cut = 0 THEN Len(relayed) ELSE cut - 1

Produced == LastBefore(written)
Delivered ==
  IF engine = "stream" THEN [n \in 1 .. LastBefore(Expected(Intact + 1)) |-> n]
  ELSE [i \in 1 .. Intact |-> Number(relayed[i])]
Ended == ~Running \/ cut # 0

Channel == INSTANCE FrameChannel WITH
  produced <- Produced, delivered <- Delivered, ended <- Ended

ImplementsChannel == Channel!Spec
=============================================================================
