------------------------------ MODULE Framing -------------------------------
(***************************************************************************)
(* protocol.py, and the loop with which ClientHandler._read_loop and       *)
(* PhysicalNodeManager._read_loop use it: a frame is two start bytes, two  *)
(* bytes of length and a payload; bytes come in chunks that respect no     *)
(* boundary, and there may be bytes between frames that belong to none     *)
(* (the 32 wake bytes of a client, the console output of a serial node).   *)
(***************************************************************************)
EXTENDS Naturals, Sequences, FiniteSets

CONSTANTS
  MaxPacket,   \* MAX_PACKET_SIZE
  Payload,     \* what the peer puts in frames
  Noise,       \* what it may send between them
  MaxFrames, MaxNoise   \* bounds: frames and noise that the peer sends

START1 == 148
START2 == 195
Byte == 0..255

ASSUME FramingAssumption ==
  /\ MaxPacket \in Nat /\ MaxPacket < 256 * 256
  /\ \A p \in Payload : p \in Seq(Byte) /\ Len(p) <= MaxPacket
  /\ Noise \subseteq Seq(Byte)
  /\ MaxFrames \in Nat /\ MaxNoise \in Nat

VARIABLES
  stream,    \* all bytes the peer has sent
  read,      \* how many of them the loop has read
  buffer,    \* buffer
  scanning,  \* the inner loop is at work on the buffer
  \* History.
  frames,    \* Seq of the frames sent: where they begin in stream, and their payload
  noises,    \* noise sent
  decoded,   \* payloads that came out of the buffer
  cut,       \* positions of frames that lost their first byte
  skipped    \* the inner loop stopped at a bad length

framingVars == <<stream, read, buffer, scanning, frames, noises, decoded, cut, skipped>>

-----------------------------------------------------------------------------
EncodeFrame(p) == <<START1, START2, Len(p) \div 256, Len(p) % 256>> \o p

Starts(data) == {i \in 1..Len(data) - 1 : data[i] = START1 /\ data[i + 1] = START2}
From(data, i) == SubSeq(data, i, Len(data))
FirstStart(data) == CHOOSE i \in Starts(data) : \A j \in Starts(data) : i <= j
NoFrame(rest) == [found |-> FALSE, payload |-> <<>>, rest |-> rest]

(* data begins with the two start bytes. *)
LengthOf(data) == data[3] * 256 + data[4]
FrameAtStart(data) ==
  IF Len(data) < 4 THEN NoFrame(data)
  ELSE IF LengthOf(data) > MaxPacket THEN NoFrame(From(data, 5))
  ELSE IF Len(data) < 4 + LengthOf(data) THEN NoFrame(data)
  ELSE [found |-> TRUE, payload |-> SubSeq(data, 5, 4 + LengthOf(data)),
        rest |-> From(data, 5 + LengthOf(data))]

(* Mutant: an incomplete frame is dropped together with its first byte. *)
FindFrameDrops(data) ==
  IF Len(data) < 4 THEN NoFrame(data)
  ELSE IF Starts(data) = {} THEN NoFrame(<<>>)
  ELSE LET d == From(data, FirstStart(data)) IN
         IF FrameAtStart(d).found THEN FrameAtStart(d) ELSE NoFrame(From(d, 2))

FindFrame(data) ==
  IF Len(data) < 4 THEN NoFrame(data)
  ELSE IF Starts(data) = {} THEN NoFrame(<<>>)
  ELSE FrameAtStart(From(data, FirstStart(data)))

(* History: find_frame stops at a header with a bad length. *)
BadLength(data) ==
  /\ Len(data) >= 4 /\ Starts(data) # {}
  /\ LET d == From(data, FirstStart(data)) IN Len(d) >= 4 /\ LengthOf(d) > MaxPacket

-----------------------------------------------------------------------------
FramingInit ==
  /\ stream = <<>> /\ read = 0 /\ buffer = <<>> /\ scanning = FALSE
  /\ frames = <<>> /\ noises = 0 /\ decoded = <<>> /\ cut = {} /\ skipped = FALSE

SendFrame(p) ==
  /\ Len(frames) < MaxFrames
  /\ stream' = stream \o EncodeFrame(p)
  /\ frames' = Append(frames, [at |-> Len(stream) + 1, payload |-> p])
  /\ UNCHANGED <<read, buffer, scanning, noises, decoded, cut, skipped>>

SendNoise(s) ==
  /\ noises < MaxNoise
  /\ noises' = noises + 1
  /\ stream' = stream \o s
  /\ UNCHANGED <<read, buffer, scanning, frames, decoded, cut, skipped>>

(* read(4096) returns a chunk: whatever has come in, or the beginning of it. *)
ReadChunk(n) ==
  /\ ~scanning
  /\ n \in 1..Len(stream) - read
  /\ read' = read + n
  /\ buffer' = buffer \o SubSeq(stream, read + 1, read + n)
  /\ scanning' = TRUE
  /\ skipped' = FALSE
  /\ UNCHANGED <<stream, frames, noises, decoded, cut>>

(* find_frame returns a payload. *)
Extract ==
  /\ scanning /\ FindFrame(buffer).found
  /\ buffer' = FindFrame(buffer).rest
  /\ decoded' = Append(decoded, FindFrame(buffer).payload)
  /\ UNCHANGED <<stream, read, scanning, frames, noises, cut, skipped>>

(* It returns None: the loop goes back to read().  With no start bytes in  *)
(* the buffer everything is dropped, the first of a pair at its end too.   *)
NoMoreFrames ==
  /\ scanning /\ ~FindFrame(buffer).found
  /\ buffer' = FindFrame(buffer).rest
  /\ scanning' = FALSE
  /\ skipped' = BadLength(buffer)
  /\ cut' = IF Len(buffer) >= 4 /\ Starts(buffer) = {}
            THEN cut \cup ({read} \cap {frames[i].at : i \in DOMAIN frames}) ELSE cut
  /\ UNCHANGED <<stream, read, frames, noises, decoded>>

FramingNext ==
  \/ \E p \in Payload : SendFrame(p)
  \/ \E s \in Noise : SendNoise(s)
  \/ \E n \in 1..Len(stream) : ReadChunk(n)
  \/ Extract \/ NoMoreFrames

FramingSpec == FramingInit /\ [][FramingNext]_framingVars

-----------------------------------------------------------------------------
(* Every variable keeps its type. *)
FramingTypeOK ==
  /\ stream \in Seq(Byte) /\ read \in 0..Len(stream)
  /\ buffer \in Seq(Byte) /\ scanning \in BOOLEAN
  /\ frames \in Seq([at : Nat, payload : Payload]) /\ noises \in 0..MaxNoise
  /\ decoded \in Seq(Seq(Byte))
  /\ cut \in SUBSET Nat /\ skipped \in BOOLEAN

(* The frames that did not lose their first byte.  The rest of one that    *)
(* did is read as noise, unless it has a byte that could begin a frame.    *)
Whole == {i \in DOMAIN frames : frames[i].at \notin cut}
Rank(i) == Cardinality({j \in Whole : j <= i})
PlainCuts ==
  \A i \in DOMAIN frames \ Whole : \A k \in 2..4 + Len(frames[i].payload) :
    EncodeFrame(frames[i].payload)[k] # START1

(* Whatever the chunks and the noise, what is decoded is what was sent, in *)
(* order and once, but for frames whose first byte was the last of a chunk *)
(* and had only noise before it in the buffer; and when the loop waits for *)
(* more, no complete frame waits with it, unless a bad length came first.  *)
DecodedAsSent ==
  PlainCuts =>
    /\ Len(decoded) <= Cardinality(Whole)
    /\ \A i \in Whole : Rank(i) <= Len(decoded) => decoded[Rank(i)] = frames[i].payload
    /\ ~scanning /\ ~skipped /\ read = Len(stream) => Len(decoded) = Cardinality(Whole)

(* No frame is ever lost: one of which only the first byte has come in is  *)
(* incomplete, and stays ("(None, data) if incomplete/invalid").           *)
NoFrameLost ==
  ~scanning /\ ~skipped /\ read = Len(stream) => Len(decoded) = Len(frames)
==============================================================================
