---------------------------- MODULE FramingProofs ----------------------------
(***************************************************************************)
(* Proofs about Framing, for any payloads, noise and division into chunks. *)
(***************************************************************************)
EXTENDS Framing, SequenceTheorems, FiniteSetTheorems, WellFoundedInduction, TLAPS

(* The part of a sequence of bytes from some place on, or to some place.   *)
LEMMA PartIs ==
  ASSUME NEW data \in Seq(Byte), NEW i \in Nat \ {0}, NEW j \in Nat, j <= Len(data)
  PROVE  /\ SubSeq(data, i, j) \in Seq(Byte)
         /\ Len(SubSeq(data, i, j)) = IF i <= j THEN j + 1 - i ELSE 0
         /\ \A k \in 1..j + 1 - i : SubSeq(data, i, j)[k] = data[i + k - 1]
<1>1. \A k \in i..j : k \in 1..Len(data)
  OBVIOUS
<1>2. \A k \in i..j : data[k] \in Byte
  BY <1>1, ElementOfSeq
<1>3. i \in Int /\ j \in Int /\ j - i + 1 = j + 1 - i
  OBVIOUS
<1> QED BY <1>2, <1>3, SubSeqProperties

LEMMA FromIs ==
  ASSUME NEW data \in Seq(Byte), NEW i \in Nat \ {0}
  PROVE  /\ From(data, i) \in Seq(Byte)
         /\ Len(From(data, i)) = IF i <= Len(data) THEN Len(data) + 1 - i ELSE 0
         /\ \A k \in 1..Len(data) + 1 - i : From(data, i)[k] = data[i + k - 1]
<1>1. Len(data) \in Nat
  OBVIOUS
<1> QED BY <1>1, PartIs DEF From

(* The first pair of start bytes is one of them. *)
LEMMA FirstStartIs ==
  ASSUME NEW data \in Seq(Byte), Starts(data) # {}
  PROVE  /\ FirstStart(data) \in Starts(data) /\ FirstStart(data) \in Nat \ {0}
         /\ FirstStart(data) <= Len(data) - 1
         /\ \A j \in Starts(data) : FirstStart(data) <= j
<1> DEFINE less == OpToRel(<, Nat)
<1>0. \A x, y \in Nat : <<x, y>> \notin less => y <= x
  BY DEF OpToRel
<1>1. Starts(data) \subseteq Nat \ {0} /\ \A i \in Starts(data) : i <= Len(data) - 1
  BY DEF Starts
<1>2. IsWellFoundedOn(less, Nat)
  BY NatLessThanWellFounded
<1> HIDE DEF less
<1>3. PICK i \in Starts(data) : \A j \in Starts(data) : <<j, i>> \notin less
  BY <1>1, <1>2, WFMin
<1>4. \A j \in Starts(data) : i <= j
  BY <1>0, <1>1, <1>3
<1> QED BY <1>1, <1>4 DEF FirstStart

(* What find_frame returns are bytes, and a payload no longer than allowed.*)
Found == [found : BOOLEAN, payload : Seq(Byte), rest : Seq(Byte)]

LEMMA FindFrameType ==
  ASSUME NEW data \in Seq(Byte)
  PROVE  FindFrame(data) \in Found
<1>0. \A d \in Seq(Byte) : NoFrame(d) \in Found
  BY EmptySeq DEF NoFrame, Found
<1>1. ASSUME NEW d \in Seq(Byte) PROVE FrameAtStart(d) \in Found
  <2>1. CASE Len(d) < 4
    BY <1>0, <2>1 DEF FrameAtStart
  <2>2. CASE ~(Len(d) < 4) /\ LengthOf(d) > MaxPacket
    <3>1. From(d, 5) \in Seq(Byte)
      BY FromIs
    <3> QED BY <1>0, <2>2, <3>1 DEF FrameAtStart
  <2>3. CASE ~(Len(d) < 4) /\ ~(LengthOf(d) > MaxPacket) /\ Len(d) < 4 + LengthOf(d)
    BY <1>0, <2>3 DEF FrameAtStart
  <2>4. CASE ~(Len(d) < 4) /\ ~(LengthOf(d) > MaxPacket) /\ ~(Len(d) < 4 + LengthOf(d))
    <3>1. d[3] \in Byte /\ d[4] \in Byte /\ Len(d) \in Nat
      BY <2>4
    <3>2. LengthOf(d) \in Nat
      <4>1. \A a, b \in 0..255 : a * 256 + b \in Nat
        OBVIOUS
      <4> QED BY <3>1, <4>1 DEF LengthOf, Byte
    <3>3. SubSeq(d, 5, 4 + LengthOf(d)) \in Seq(Byte)
      BY <2>4, <3>1, <3>2, PartIs
    <3>4. From(d, 5 + LengthOf(d)) \in Seq(Byte)
      BY <3>2, FromIs
    <3> QED BY <2>4, <3>3, <3>4 DEF FrameAtStart, Found
  <2> QED BY <2>1, <2>2, <2>3, <2>4
<1>2. CASE Len(data) < 4
  BY <1>0, <1>2 DEF FindFrame
<1>3. CASE ~(Len(data) < 4) /\ Starts(data) = {}
  BY <1>0, <1>3, EmptySeq DEF FindFrame
<1>4. CASE ~(Len(data) < 4) /\ Starts(data) # {}
  <2>1. From(data, FirstStart(data)) \in Seq(Byte)
    BY <1>4, FirstStartIs, FromIs
  <2> QED BY <1>1, <1>4, <2>1 DEF FindFrame
<1> QED BY <1>2, <1>3, <1>4

LEMMA FourBytes ==
  ASSUME NEW a \in Byte, NEW b \in Byte, NEW c \in Byte, NEW d \in Byte
  PROVE  /\ <<a, b, c, d>> \in Seq(Byte) /\ Len(<<a, b, c, d>>) = 4
         /\ <<a, b, c, d>>[1] = a /\ <<a, b, c, d>>[2] = b
         /\ <<a, b, c, d>>[3] = c /\ <<a, b, c, d>>[4] = d
OBVIOUS

(* A frame is bytes: its length fits the two that say it.                  *)
LEMMA EncodeType ==
  ASSUME NEW p \in Payload
  PROVE  /\ p \in Seq(Byte) /\ Len(p) \in Nat /\ Len(p) <= MaxPacket
         /\ EncodeFrame(p) \in Seq(Byte) /\ Len(EncodeFrame(p)) = 4 + Len(p)
         /\ EncodeFrame(p)[1] = START1 /\ EncodeFrame(p)[2] = START2
         /\ EncodeFrame(p)[3] * 256 + EncodeFrame(p)[4] = Len(p)
         /\ \A i \in 1..Len(p) : EncodeFrame(p)[4 + i] = p[i]
<1> DEFINE hi == Len(p) \div 256
           lo == Len(p) % 256
           head == <<START1, START2, hi, lo>>
<1>1. p \in Seq(Byte) /\ Len(p) \in Nat /\ Len(p) <= MaxPacket /\ Len(p) < 65536
  BY FramingAssumption
<1>2. hi \in Byte /\ lo \in Byte /\ hi * 256 + lo = Len(p)
  <2>1. hi \in Int /\ lo \in Int /\ 0 <= lo /\ lo <= 255
    BY <1>1
  <2>2. Len(p) = 256 * hi + lo
    BY <1>1
  <2> HIDE DEF hi, lo
  <2>3. hi >= 0 /\ hi <= 255 /\ hi * 256 + lo = Len(p)
    BY <1>1, <2>1, <2>2
  <2> QED BY <2>1, <2>3 DEF Byte
<1>0. EncodeFrame(p) = head \o p
  BY DEF EncodeFrame
<1> HIDE DEF hi, lo
<1>3. /\ head \in Seq(Byte) /\ Len(head) = 4
      /\ head[1] = START1 /\ head[2] = START2 /\ head[3] = hi /\ head[4] = lo
  <2>1. START1 \in Byte /\ START2 \in Byte
    BY DEF Byte, START1, START2
  <2> QED BY <1>2, <2>1, FourBytes
<1> HIDE DEF head
<1>4. /\ EncodeFrame(p) = head \o p
      /\ EncodeFrame(p) \in Seq(Byte) /\ Len(EncodeFrame(p)) = 4 + Len(p)
      /\ \A i \in 1..4 + Len(p) : EncodeFrame(p)[i] = IF i <= 4 THEN head[i] ELSE p[i - 4]
  <2>2. /\ head \o p \in Seq(Byte) /\ Len(head \o p) = Len(head) + Len(p)
        /\ \A i \in 1..Len(head) + Len(p) :
             (head \o p)[i] = IF i <= Len(head) THEN head[i] ELSE p[i - Len(head)]
    <3>1. head \in Seq(Byte) /\ p \in Seq(Byte)
      BY <1>1, <1>3
    <3> QED BY <3>1, ConcatProperties, Zenon
  <2> QED BY <1>0, <1>3, <2>2
<1>6. \A i \in 1..Len(p) : 4 + i \in 1..4 + Len(p) /\ ~(4 + i <= 4) /\ (4 + i) - 4 = i
  BY <1>1
<1>7. 1 \in 1..4 + Len(p) /\ 2 \in 1..4 + Len(p) /\ 3 \in 1..4 + Len(p) /\ 4 \in 1..4 + Len(p)
  BY <1>1
<1>8. ASSUME NEW i \in 1..Len(p) PROVE EncodeFrame(p)[4 + i] = p[i]
  <2>1. 4 + i \in 1..4 + Len(p) /\ ~(4 + i <= 4)
    BY <1>6
  <2>2. EncodeFrame(p)[4 + i] = p[(4 + i) - 4]
    BY <1>4, <2>1, Zenon
  <2> QED BY <1>6, <2>2
<1>9. /\ EncodeFrame(p)[1] = START1 /\ EncodeFrame(p)[2] = START2
      /\ EncodeFrame(p)[3] = hi /\ EncodeFrame(p)[4] = lo
  BY <1>3, <1>4, <1>7
<1> QED BY <1>1, <1>2, <1>4, <1>8, <1>9

(* What find_frame does where a frame begins.                              *)
LEMMA FrameAtStartIs ==
  ASSUME NEW p \in Payload, NEW data \in Seq(Byte),
         \A i \in 1..Len(data) : i <= 4 + Len(p) => data[i] = EncodeFrame(p)[i]
  PROVE  FrameAtStart(data) = IF Len(data) < 4 + Len(p) THEN NoFrame(data)
                              ELSE [found |-> TRUE, payload |-> p, rest |-> From(data, 5 + Len(p))]
<1>1. Len(data) \in Nat /\ p \in Seq(Byte) /\ Len(p) \in Nat /\ Len(p) <= MaxPacket
  BY EncodeType
<1>2. CASE Len(data) < 4
  BY <1>1, <1>2 DEF FrameAtStart
<1>3. CASE ~(Len(data) < 4)
  <2>1. data[3] = EncodeFrame(p)[3] /\ data[4] = EncodeFrame(p)[4]
    BY <1>1, <1>3
  <2>2. LengthOf(data) = Len(p) /\ ~(LengthOf(data) > MaxPacket)
    <3>1. LengthOf(data) = Len(p)
      BY <2>1, EncodeType DEF LengthOf
    <3> QED BY <1>1, <3>1, FramingAssumption
  <2>7. CASE Len(data) < 4 + Len(p)
    BY <1>1, <1>3, <2>2, <2>7 DEF FrameAtStart
  <2>8. CASE ~(Len(data) < 4 + Len(p))
    <3>1. /\ SubSeq(data, 5, 4 + Len(p)) \in Seq(Byte)
          /\ Len(SubSeq(data, 5, 4 + Len(p))) = Len(p)
          /\ \A k \in 1..Len(p) : SubSeq(data, 5, 4 + Len(p))[k] = data[4 + k]
      <4>1. /\ 5 \in Nat \ {0} /\ 4 + Len(p) \in Nat /\ 4 + Len(p) <= Len(data)
            /\ (4 + Len(p)) + 1 - 5 = Len(p) /\ \A k \in 1..Len(p) : 5 + k - 1 = 4 + k
            /\ (IF 5 <= 4 + Len(p) THEN (4 + Len(p)) + 1 - 5 ELSE 0) = Len(p)
        BY <1>1, <2>8
      <4>2. /\ SubSeq(data, 5, 4 + Len(p)) \in Seq(Byte)
            /\ Len(SubSeq(data, 5, 4 + Len(p))) = IF 5 <= 4 + Len(p) THEN (4 + Len(p)) + 1 - 5 ELSE 0
            /\ \A k \in 1..(4 + Len(p)) + 1 - 5 : SubSeq(data, 5, 4 + Len(p))[k] = data[5 + k - 1]
        BY <4>1, PartIs
      <4> QED BY <4>1, <4>2
    <3>2. \A k \in 1..Len(p) : data[4 + k] = p[k]
      <4>1. \A k \in 1..Len(p) : 4 + k \in 1..Len(data) /\ 4 + k <= 4 + Len(p)
        BY <1>1, <2>8
      <4>2. \A k \in 1..Len(p) : data[4 + k] = EncodeFrame(p)[4 + k]
        BY <4>1
      <4>3. \A k \in 1..Len(p) : EncodeFrame(p)[4 + k] = p[k]
        BY EncodeType
      <4> QED BY <4>2, <4>3
    <3>3. SubSeq(data, 5, 4 + Len(p)) = p
      BY <1>1, <3>1, <3>2, SeqEqual
    <3> QED BY <1>1, <1>3, <2>2, <2>8, <3>3 DEF FrameAtStart
  <2> QED BY <2>7, <2>8
<1> QED BY <1>2, <1>3

(* find_frame on a buffer that begins where a frame begins: it returns the *)
(* payload as soon as all of it is there, and until then leaves everything.*)
THEOREM FrameFound ==
  ASSUME NEW p \in Payload, NEW data \in Seq(Byte),
         \A i \in 1..Len(data) : i <= 4 + Len(p) => data[i] = EncodeFrame(p)[i]
  PROVE  FindFrame(data) = IF Len(data) < 4 + Len(p) THEN NoFrame(data)
                           ELSE [found |-> TRUE, payload |-> p, rest |-> From(data, 5 + Len(p))]
<1>1. Len(data) \in Nat /\ Len(p) \in Nat
  BY EncodeType
<1>2. CASE Len(data) < 4
  BY <1>1, <1>2 DEF FindFrame
<1>3. CASE ~(Len(data) < 4)
  <2>1. data[1] = START1 /\ data[2] = START2 /\ 1 \in 1..Len(data) - 1
    BY <1>1, <1>3, EncodeType
  <2>2. 1 \in Starts(data)
    BY <2>1 DEF Starts
  <2>3. FirstStart(data) = 1
    BY <2>2, FirstStartIs
  <2>4. From(data, FirstStart(data)) = data
    BY <2>3, SubSeqFull DEF From
  <2>5. FindFrame(data) = FrameAtStart(data)
    BY <1>3, <2>2, <2>4 DEF FindFrame
  <2> QED BY <2>5, FrameAtStartIs
<1> QED BY <1>2, <1>3

(* Every variable of the loop keeps its type. *)
LEMMA FramingTypeInit == FramingInit => FramingTypeOK
<1>1. /\ <<>> \in Seq(Byte) /\ <<>> \in Seq([at : Nat, payload : Payload])
      /\ <<>> \in Seq(Seq(Byte)) /\ Len(<<>>) = 0
  BY EmptySeq
<1>2. 0 \in 0..0 /\ 0 \in 0..MaxNoise /\ {} \in SUBSET Nat
  BY FramingAssumption
<1> QED BY <1>1, <1>2 DEF FramingInit, FramingTypeOK

LEMMA FramingTypeStep ==
  ASSUME FramingTypeOK, [FramingNext]_framingVars
  PROVE  FramingTypeOK'
<1> USE DEF FramingTypeOK
<1>1. ASSUME NEW p \in Payload, SendFrame(p) PROVE FramingTypeOK'
  <2>1. stream' \in Seq(Byte) /\ Len(stream') >= Len(stream)
    BY <1>1, EncodeType DEF SendFrame
  <2>2. [at |-> Len(stream) + 1, payload |-> p] \in [at : Nat, payload : Payload]
    OBVIOUS
  <2> QED BY <1>1, <2>1, <2>2 DEF SendFrame
<1>2. ASSUME NEW s \in Noise, SendNoise(s) PROVE FramingTypeOK'
  <2>1. stream' \in Seq(Byte) /\ Len(stream') >= Len(stream)
    BY <1>2, FramingAssumption DEF SendNoise
  <2> QED BY <1>2, <2>1, FramingAssumption DEF SendNoise
<1>3. ASSUME NEW n \in 1..Len(stream), ReadChunk(n) PROVE FramingTypeOK'
  <2>1. read + n \in 0..Len(stream) /\ read + 1 \in Nat \ {0}
    BY <1>3 DEF ReadChunk
  <2>2. SubSeq(stream, read + 1, read + n) \in Seq(Byte)
    BY <2>1, PartIs
  <2>3. buffer \o SubSeq(stream, read + 1, read + n) \in Seq(Byte)
    BY <2>2, ConcatProperties
  <2> QED BY <1>3, <2>1, <2>3 DEF ReadChunk
<1>4. CASE Extract
  <2>1. FindFrame(buffer).rest \in Seq(Byte) /\ FindFrame(buffer).payload \in Seq(Byte)
    BY FindFrameType DEF Found
  <2> QED BY <1>4, <2>1 DEF Extract
<1>5. CASE NoMoreFrames
  <2>1. FindFrame(buffer).rest \in Seq(Byte) /\ BadLength(buffer) \in BOOLEAN
    BY FindFrameType DEF Found, BadLength
  <2>2. cut' \in SUBSET Nat
    <3>1. {read} \cap {frames[i].at : i \in DOMAIN frames} \subseteq Nat
      OBVIOUS
    <3> QED BY <1>5, <3>1 DEF NoMoreFrames
  <2> QED BY <1>5, <2>1, <2>2 DEF NoMoreFrames
<1>6. CASE UNCHANGED framingVars
  BY <1>6 DEF framingVars
<1> QED BY <1>1, <1>2, <1>3, <1>4, <1>5, <1>6 DEF FramingNext

-----------------------------------------------------------------------------
(* Without noise the stream is the frames, end to end, and the buffer is   *)
(* the part of it between the last frame decoded and the last byte read.   *)
End(n) == IF n = 0 THEN 0 ELSE frames[n].at + 3 + Len(frames[n].payload)

Sent ==
  /\ End(Len(frames)) = Len(stream)
  /\ \A i \in 1..Len(frames) :
       /\ frames[i].at = End(i - 1) + 1
       /\ End(i) <= Len(stream)
       /\ \A k \in 1..4 + Len(frames[i].payload) :
            stream[End(i - 1) + k] = EncodeFrame(frames[i].payload)[k]

InOrder ==
  /\ Len(decoded) <= Len(frames)
  /\ \A i \in 1..Len(decoded) : decoded[i] = frames[i].payload

Buffered ==
  /\ read = End(Len(decoded)) + Len(buffer)
  /\ \A k \in 1..Len(buffer) : buffer[k] = stream[End(Len(decoded)) + k]

Drained == ~scanning /\ Len(decoded) < Len(frames) => read < End(Len(decoded) + 1)

PlainInv == FramingTypeOK /\ Sent /\ InOrder /\ Buffered /\ Drained

LEMMA EndType ==
  ASSUME FramingTypeOK
  PROVE  /\ Len(frames) \in Nat /\ Len(decoded) \in Nat /\ End(0) = 0
         /\ \A i \in 1..Len(frames) :
              /\ frames[i].at \in Nat /\ frames[i].payload \in Payload
              /\ Len(frames[i].payload) \in Nat
              /\ End(i) \in Nat /\ End(i) = frames[i].at + 3 + Len(frames[i].payload)
         /\ \A i \in 0..Len(frames) : End(i) \in Nat
<1>1. Len(frames) \in Nat /\ Len(decoded) \in Nat /\ End(0) = 0
  BY DEF FramingTypeOK, End
<1>2. ASSUME NEW i \in 1..Len(frames)
      PROVE  /\ frames[i].at \in Nat /\ frames[i].payload \in Payload
             /\ Len(frames[i].payload) \in Nat
             /\ End(i) \in Nat /\ End(i) = frames[i].at + 3 + Len(frames[i].payload)
  <2>1. frames[i] \in [at : Nat, payload : Payload]
    BY ElementOfSeq DEF FramingTypeOK
  <2>2. frames[i].at \in Nat /\ frames[i].payload \in Payload
    BY <2>1
  <2>3. Len(frames[i].payload) \in Nat
    BY <2>2, EncodeType
  <2> QED BY <2>2, <2>3 DEF End
<1>3. ASSUME NEW i \in 0..Len(frames) PROVE End(i) \in Nat
  <2>1. CASE i = 0
    BY <1>1, <2>1
  <2>2. CASE i \in 1..Len(frames)
    BY <1>2, <2>2
  <2> QED BY <1>1, <2>1, <2>2
<1> QED BY <1>1, <1>2, <1>3

(* What find_frame returns on such a buffer.                               *)
LEMMA NextFrame ==
  ASSUME PlainInv
  PROVE  LET n == Len(decoded)
             p == frames[n + 1].payload
         IN  IF n < Len(frames) /\ End(n + 1) <= read
             THEN FindFrame(buffer) = [found |-> TRUE, payload |-> p, rest |-> From(buffer, 5 + Len(p))]
             ELSE FindFrame(buffer) = NoFrame(buffer)
<1> DEFINE n == Len(decoded)
           p == frames[n + 1].payload
<1>1. /\ FramingTypeOK /\ n \in Nat /\ Len(frames) \in Nat /\ n <= Len(frames)
      /\ buffer \in Seq(Byte) /\ Len(buffer) \in Nat /\ Len(stream) \in Nat
      /\ read \in Nat /\ read <= Len(stream) /\ End(n) \in Nat
      /\ read = End(n) + Len(buffer)
  <2>1. n \in 0..Len(frames)
    BY EndType DEF PlainInv, InOrder
  <2> QED BY <2>1, EndType DEF PlainInv, FramingTypeOK, InOrder, Buffered
<1>2. CASE n < Len(frames)
  <2>1. n + 1 \in 1..Len(frames) /\ n + 1 - 1 = n
    BY <1>1, <1>2
  <2>2. p \in Payload /\ Len(p) \in Nat /\ End(n + 1) = End(n) + 4 + Len(p)
    <3>1. frames[n + 1].at = End(n) + 1
      BY <2>1 DEF PlainInv, Sent
    <3>2. p \in Payload /\ Len(p) \in Nat /\ End(n + 1) = frames[n + 1].at + 3 + Len(p)
      BY <1>1, <2>1, EndType
    <3>3. \A e, l \in Nat : (e + 1) + 3 + l = e + 4 + l
      OBVIOUS
    <3> QED BY <1>1, <3>1, <3>2, <3>3
  <2>3. \A i \in 1..Len(buffer) : i <= 4 + Len(p) => buffer[i] = EncodeFrame(p)[i]
    <3>1. \A k \in 1..4 + Len(p) : stream[End(n) + k] = EncodeFrame(p)[k]
      BY <2>1 DEF PlainInv, Sent
    <3>2. \A k \in 1..Len(buffer) : k <= 4 + Len(p) => k \in 1..4 + Len(p)
      BY <1>1, <2>2
    <3>3. \A k \in 1..Len(buffer) : buffer[k] = stream[End(n) + k]
      BY DEF PlainInv, Buffered
    <3> QED BY <3>1, <3>2, <3>3
  <2>4. FindFrame(buffer) = IF Len(buffer) < 4 + Len(p) THEN NoFrame(buffer)
               ELSE [found |-> TRUE, payload |-> p, rest |-> From(buffer, 5 + Len(p))]
    BY <1>1, <2>2, <2>3, FrameFound
  <2>5. Len(buffer) < 4 + Len(p) <=> ~(End(n + 1) <= read)
    <3>1. \A e, b, l \in Nat : b < 4 + l <=> ~(e + 4 + l <= e + b)
      OBVIOUS
    <3> QED BY <1>1, <2>2, <3>1
  <2> QED BY <1>2, <2>4, <2>5
<1>3. CASE ~(n < Len(frames))
  <2>1. n = Len(frames) /\ End(n) = Len(stream)
    BY <1>1, <1>3 DEF PlainInv, Sent
  <2>2. Len(buffer) < 4
    BY <1>1, <2>1
  <2> QED BY <1>3, <2>2 DEF FindFrame
<1> QED BY <1>2, <1>3

LEMMA PlainInit == FramingInit => PlainInv
<1> SUFFICES ASSUME FramingInit PROVE PlainInv
  OBVIOUS
<1>1. Len(<<>>) = 0
  BY EmptySeq
<1>2. FramingTypeOK
  BY FramingTypeInit
<1>3. Sent /\ InOrder /\ Buffered /\ Drained
  BY <1>1 DEF FramingInit, Sent, InOrder, Buffered, Drained, End
<1> QED BY <1>2, <1>3 DEF PlainInv

LEMMA PlainStep ==
  ASSUME Noise = {}, PlainInv, [FramingNext]_framingVars
  PROVE  PlainInv'
<1>1. FramingTypeOK' /\ FramingTypeOK
  BY FramingTypeStep DEF PlainInv
<1>m. PICK m \in Nat : m = Len(frames)
  BY <1>1, EndType
<1>n. PICK n \in Nat : n = Len(decoded)
  BY <1>1, EndType
<1>2. /\ m \in Nat /\ n \in Nat /\ n <= m /\ n \in 0..m
      /\ Len(stream) \in Nat /\ read \in Nat /\ read <= Len(stream) /\ Len(buffer) \in Nat
      /\ End(n) \in Nat /\ read = End(n) + Len(buffer)
  <2>1. n \in Nat /\ m \in Nat /\ n <= m
    BY <1>m, <1>n DEF PlainInv, InOrder
  <2>2. n \in 0..m
    BY <2>1
  <2>3. End(n) \in Nat
    BY <1>1, <1>m, <2>2, EndType
  <2> QED BY <1>1, <1>n, <2>1, <2>2, <2>3 DEF PlainInv, FramingTypeOK, Buffered
<1>3. ASSUME UNCHANGED <<stream, frames>> PROVE Sent' /\ \A i \in Nat : End(i)' = End(i)
  BY <1>3 DEF PlainInv, Sent, End
<1>4. ASSUME NEW p \in Payload, SendFrame(p) PROVE PlainInv'
  <2>1. /\ Len(frames') = m + 1 /\ \A i \in 1..m : frames'[i] = frames[i]
        /\ frames'[m + 1] = [at |-> Len(stream) + 1, payload |-> p]
    <3>1. [at |-> Len(stream) + 1, payload |-> p] \in [at : Nat, payload : Payload]
      BY <1>2
    <3> QED BY <1>1, <1>4, <1>m, <3>1, AppendProperties DEF SendFrame, FramingTypeOK
  <2>2. \A i \in 0..m : End(i)' = End(i)
    BY <1>2, <2>1 DEF End
  <2>3. Len(p) \in Nat /\ EncodeFrame(p) \in Seq(Byte) /\ Len(EncodeFrame(p)) = 4 + Len(p)
    BY EncodeType
  <2>4. /\ Len(stream') = Len(stream) + 4 + Len(p)
        /\ \A k \in 1..Len(stream) : stream'[k] = stream[k]
        /\ \A k \in 1..4 + Len(p) : stream'[Len(stream) + k] = EncodeFrame(p)[k]
    <3>1. /\ Len(stream') = Len(stream) + Len(EncodeFrame(p))
          /\ \A i \in 1..Len(stream) + Len(EncodeFrame(p)) : stream'[i] =
                IF i <= Len(stream) THEN stream[i] ELSE EncodeFrame(p)[i - Len(stream)]
      <4>1. stream \in Seq(Byte) /\ stream' = stream \o EncodeFrame(p)
        BY <1>1, <1>4 DEF SendFrame, FramingTypeOK
      <4>2. EncodeFrame(p) \in Seq(Byte)
        BY <2>3
      <4> QED BY <4>1, <4>2, ConcatProperties, Zenon
    <3>2. \A k \in 1..4 + Len(p) : /\ Len(stream) + k \in 1..Len(stream) + Len(EncodeFrame(p))
                                  /\ ~(Len(stream) + k <= Len(stream))
                                  /\ (Len(stream) + k) - Len(stream) = k
      BY <1>2, <2>3
    <3>3. \A k \in 1..4 + Len(p) : stream'[Len(stream) + k] = EncodeFrame(p)[k]
      BY <3>1, <3>2
    <3>4. \A k \in 1..Len(stream) : k \in 1..Len(stream) + Len(EncodeFrame(p)) /\ k <= Len(stream)
      BY <1>2, <2>3
    <3> QED BY <1>2, <2>3, <3>1, <3>3, <3>4
  <2>5. End(m + 1)' = Len(stream') /\ End(m) = Len(stream)
    <3>1. End(m) = Len(stream)
      BY <1>m DEF PlainInv, Sent
    <3>2. frames'[m + 1].at = Len(stream) + 1 /\ frames'[m + 1].payload = p /\ m + 1 # 0
      BY <1>2, <2>1
    <3>3. End(m + 1)' = Len(stream) + 1 + 3 + Len(p)
      BY <3>2 DEF End
    <3> QED BY <1>2, <2>3, <2>4, <3>1, <3>3
  <2>6. ASSUME NEW i \in 1..m + 1
        PROVE  /\ frames'[i].at = End(i - 1)' + 1
               /\ End(i)' <= Len(stream')
               /\ \A k \in 1..4 + Len(frames'[i].payload) :
                    stream'[End(i - 1)' + k] = EncodeFrame(frames'[i].payload)[k]
    <3>1. CASE i = m + 1
      <4>1. End(i - 1)' = Len(stream) /\ End(i)' = Len(stream')
        BY <1>2, <2>2, <2>5, <3>1
      <4>2. frames'[i].at = Len(stream) + 1 /\ frames'[i].payload = p
        BY <2>1, <3>1
      <4>3. End(i)' <= Len(stream')
        BY <1>2, <2>3, <2>4, <4>1
      <4> QED BY <2>4, <4>1, <4>2, <4>3
    <3>2. CASE i # m + 1
      <4>1. i \in 1..m /\ i - 1 \in 0..m /\ i \in 0..m
        BY <1>2, <3>2
      <4>2. End(i - 1)' = End(i - 1) /\ End(i)' = End(i) /\ frames'[i] = frames[i]
        BY <2>1, <2>2, <4>1
      <4>3. /\ frames[i].at = End(i - 1) + 1
            /\ \A k \in 1..4 + Len(frames[i].payload) :
                 stream[End(i - 1) + k] = EncodeFrame(frames[i].payload)[k]
        BY <1>m, <4>1 DEF PlainInv, Sent
      <4>4. End(i) <= Len(stream)
        BY <1>m, <4>1 DEF PlainInv, Sent
      <4>5. PICK l \in Nat : l = Len(frames[i].payload)
        BY <1>1, <1>m, <4>1, EndType
      <4>6. End(i) = frames[i].at + 3 + l /\ End(i - 1) \in Nat
        BY <1>1, <1>m, <4>1, <4>5, EndType
      <4>e. PICK e \in Nat : e = End(i - 1)
        BY <4>6
      <4>a. frames[i].at = e + 1
        BY <4>3, <4>e
      <4>7. e = End(i - 1) /\ End(i) = e + 4 + l
        BY <4>5, <4>6, <4>a, <4>e
      <4>b. PICK b \in Nat : b = Len(stream)
        BY <1>2
      <4>c. e + 4 + l <= b
        BY <4>4, <4>7, <4>b
      <4>d. \A k \in 1..4 + l : e + k \in 1..b
        BY <4>c
      <4>8. \A k \in 1..4 + l : e + k \in 1..Len(stream)
        BY <4>b, <4>d
      <4>9. \A k \in 1..4 + l : stream'[e + k] = stream[e + k]
        BY <2>4, <4>8
      <4>10. End(i)' <= Len(stream')
        <5>1. \A y, z, x \in Nat : y <= z => y <= z + 4 + x
          OBVIOUS
        <5>2. End(i) \in Nat
          BY <4>7, <4>e, <4>5
        <5> QED BY <1>2, <2>3, <2>4, <4>2, <4>4, <5>1, <5>2
      <4>11. \A k \in 1..4 + l : stream'[e + k] = EncodeFrame(frames[i].payload)[k]
        BY <4>3, <4>5, <4>7, <4>9
      <4> QED BY <4>2, <4>3, <4>5, <4>7, <4>10, <4>11
    <3> QED BY <3>1, <3>2
  <2>7. Sent'
    BY <2>1, <2>5, <2>6 DEF Sent
  <2>8. UNCHANGED <<read, buffer, scanning, decoded>>
    BY <1>4 DEF SendFrame
  <2>9. InOrder'
    <3>1. \A i \in 1..n : i \in 1..m
      BY <1>2
    <3>2. n <= m + 1
      BY <1>2
    <3> QED BY <1>n, <2>1, <2>8, <3>1, <3>2 DEF InOrder, PlainInv
  <2>10. Buffered'
    <3>1. \A k \in 1..Len(buffer) : End(n) + k \in 1..Len(stream)
      BY <1>2
    <3>2. End(n)' = End(n)
      BY <1>2, <2>2
    <3>3. \A k \in 1..Len(buffer) : buffer[k] = stream'[End(n) + k]
      BY <1>n, <2>4, <3>1 DEF Buffered, PlainInv
    <3> QED BY <1>2, <1>n, <2>8, <3>2, <3>3 DEF Buffered
  <2>11. Drained'
    <3>1. CASE n < m
      <4>1. n + 1 \in 0..m
        BY <1>2, <3>1
      <4>2. End(n + 1)' = End(n + 1)
        BY <2>2, <4>1
      <4> QED BY <1>m, <1>n, <2>8, <3>1, <4>2 DEF Drained, PlainInv
    <3>2. CASE n = m
      <4>1. read < End(n + 1)'
        BY <1>2, <2>3, <2>4, <2>5, <3>2
      <4> QED BY <1>n, <2>8, <4>1 DEF Drained
    <3> QED BY <1>2, <3>1, <3>2
  <2> QED BY <1>1, <2>7, <2>9, <2>10, <2>11 DEF PlainInv
<1>5. ASSUME NEW c \in 1..Len(stream), ReadChunk(c) PROVE PlainInv'
  <2>1. Sent' /\ \A i \in Nat : End(i)' = End(i)
    BY <1>3, <1>5 DEF ReadChunk
  <2>2. read + 1 \in Nat \ {0} /\ read + c \in Nat /\ read + c <= Len(stream) /\ c \in Nat \ {0}
    <3>1. c \in 1..Len(stream) - read
      BY <1>5 DEF ReadChunk
    <3> QED BY <1>2, <3>1
  <2>3. /\ SubSeq(stream, read + 1, read + c) \in Seq(Byte)
        /\ Len(SubSeq(stream, read + 1, read + c)) = c
        /\ \A k \in 1..c : SubSeq(stream, read + 1, read + c)[k] = stream[read + k]
    <3>1. /\ SubSeq(stream, read + 1, read + c) \in Seq(Byte)
          /\ Len(SubSeq(stream, read + 1, read + c)) =
               IF read + 1 <= read + c THEN (read + c) + 1 - (read + 1) ELSE 0
          /\ \A k \in 1..(read + c) + 1 - (read + 1) :
               SubSeq(stream, read + 1, read + c)[k] = stream[(read + 1) + k - 1]
      <4>1. stream \in Seq(Byte)
        BY <1>1 DEF FramingTypeOK
      <4> QED BY <2>2, <4>1, PartIs
    <3>2. /\ read + 1 <= read + c /\ (read + c) + 1 - (read + 1) = c
          /\ \A k \in 1..c : (read + 1) + k - 1 = read + k
      <4>1. read \in Nat /\ c \in Nat /\ c >= 1
        BY <1>2, <2>2
      <4> QED BY <4>1
    <3> QED BY <3>1, <3>2
  <2>4. /\ Len(buffer') = Len(buffer) + c
        /\ \A k \in 1..Len(buffer) + c : buffer'[k] = stream[End(n) + k]
    <3>1. /\ Len(buffer') = Len(buffer) + c
          /\ \A k \in 1..Len(buffer) + c : buffer'[k] =
               IF k <= Len(buffer) THEN buffer[k]
               ELSE SubSeq(stream, read + 1, read + c)[k - Len(buffer)]
      BY <1>1, <1>5, <2>3, ConcatProperties DEF ReadChunk, FramingTypeOK
    <3>2. ASSUME NEW k \in 1..Len(buffer) + c PROVE buffer'[k] = stream[End(n) + k]
      <4>1. CASE k <= Len(buffer)
        <5>1. k \in 1..Len(buffer)
          BY <1>2, <2>2, <4>1
        <5>2. buffer[k] = stream[End(n) + k]
          BY <1>n, <5>1 DEF PlainInv, Buffered
        <5> QED BY <3>1, <4>1, <5>2
      <4>2. CASE ~(k <= Len(buffer))
        <5>0. \A e, b \in Nat : k \in 1..b + c /\ ~(k <= b) => k - b \in 1..c /\ (e + b) + (k - b) = e + k
          BY <2>2
        <5>1. k - Len(buffer) \in 1..c /\ read + (k - Len(buffer)) = End(n) + k
          BY <1>2, <4>2, <5>0
        <5> QED BY <2>3, <3>1, <4>2, <5>1
      <4> QED BY <4>1, <4>2
    <3> QED BY <3>1, <3>2
  <2>5. UNCHANGED <<decoded, frames>> /\ read' = read + c /\ scanning'
    BY <1>5 DEF ReadChunk
  <2>6. InOrder' /\ Drained'
    BY <2>5 DEF InOrder, Drained, PlainInv
  <2>7. Buffered'
    <3>1. End(n)' = End(n)
      BY <1>2, <2>1
    <3>2. read' = End(n) + Len(buffer')
      BY <1>2, <2>2, <2>4, <2>5
    <3>3. \A k \in 1..Len(buffer') : buffer'[k] = stream[End(n) + k]
      BY <2>4
    <3>4. UNCHANGED stream
      BY <1>5 DEF ReadChunk
    <3> QED BY <1>n, <2>5, <3>1, <3>2, <3>3, <3>4 DEF Buffered
  <2>8. UNCHANGED stream
    BY <1>5 DEF ReadChunk
  <2> QED BY <1>1, <2>1, <2>6, <2>7, <2>8 DEF PlainInv
<1>6. CASE Extract
  <2>1. Sent' /\ \A i \in Nat : End(i)' = End(i)
    BY <1>3, <1>6 DEF Extract
  <2> DEFINE p == frames[n + 1].payload
  <2>2. /\ n < m /\ End(n + 1) <= read
        /\ FindFrame(buffer) = [found |-> TRUE, payload |-> p, rest |-> From(buffer, 5 + Len(p))]
    <3>1. FindFrame(buffer).found
      BY <1>6 DEF Extract
    <3>2. FindFrame(buffer) # NoFrame(buffer)
      BY <3>1 DEF NoFrame
    <3> QED BY <1>m, <1>n, <3>2, NextFrame
  <2>3. n + 1 \in 1..m /\ (n + 1) - 1 = n
    BY <1>2, <2>2
  <2>4. Len(p) \in Nat /\ End(n + 1) = End(n) + 4 + Len(p) /\ p \in Payload
    <3>1. frames[n + 1].at = End(n) + 1
      BY <1>m, <2>3 DEF PlainInv, Sent
    <3>2. p \in Payload /\ Len(p) \in Nat /\ End(n + 1) = frames[n + 1].at + 3 + Len(p)
      BY <1>1, <1>m, <2>3, EndType
    <3> QED BY <1>2, <3>1, <3>2
  <2>5. /\ buffer' = From(buffer, 5 + Len(p)) /\ decoded' = Append(decoded, p)
        /\ UNCHANGED <<stream, read, scanning, frames>> /\ scanning
    BY <1>6, <2>2 DEF Extract
  <2>6. /\ Len(decoded') = n + 1 /\ decoded'[n + 1] = p
        /\ \A i \in 1..n : decoded'[i] = decoded[i]
    <3>1. p \in Seq(Byte)
      BY <2>4, EncodeType
    <3> QED BY <1>1, <1>n, <2>5, <3>1, AppendProperties DEF FramingTypeOK
  <2>7. InOrder'
    <3>1. \A i \in 1..n + 1 : i \in 1..n \/ i = n + 1
      BY <1>2
    <3>2. n + 1 <= m
      BY <1>2, <2>2
    <3>3. \A i \in 1..n : decoded[i] = frames[i].payload
      BY <1>n DEF InOrder, PlainInv
    <3> QED BY <1>m, <2>5, <2>6, <3>1, <3>2, <3>3 DEF InOrder
  <2>8. /\ Len(buffer') = Len(buffer) - (4 + Len(p))
        /\ \A k \in 1..Len(buffer') : buffer'[k] = buffer[4 + Len(p) + k]
    <3>0. \A e, b, l \in Nat : e + 4 + l <= e + b => 5 + l \in Nat \ {0} /\ 4 + l <= b
      OBVIOUS
    <3>1. 5 + Len(p) \in Nat \ {0} /\ 4 + Len(p) <= Len(buffer)
      BY <1>2, <2>2, <2>4, <3>0
    <3>2. /\ Len(buffer') = IF 5 + Len(p) <= Len(buffer) THEN Len(buffer) + 1 - (5 + Len(p)) ELSE 0
          /\ \A k \in 1..Len(buffer) + 1 - (5 + Len(p)) : buffer'[k] = buffer[(5 + Len(p)) + k - 1]
      BY <1>1, <2>5, <3>1, FromIs DEF FramingTypeOK
    <3>3. Len(buffer') = Len(buffer) - (4 + Len(p))
      <4>1. PICK l \in Nat : l = Len(p)
        BY <2>4
      <4>2. PICK b \in Nat : b = Len(buffer) /\ 4 + l <= b
        BY <1>2, <3>1, <4>1
      <4>3. Len(buffer') = IF 5 + l <= b THEN b + 1 - (5 + l) ELSE 0
        BY <3>2, <4>1, <4>2
      <4>4. Len(buffer') = b - (4 + l)
        BY <4>2, <4>3
      <4> QED BY <4>1, <4>2, <4>4
    <3>4. \A k \in 1..Len(buffer') : /\ k \in 1..Len(buffer) + 1 - (5 + Len(p))
                                    /\ (5 + Len(p)) + k - 1 = 4 + Len(p) + k
      BY <1>2, <2>4, <3>3
    <3> QED BY <3>2, <3>3, <3>4
  <2>9. Buffered'
    <3>0. Len(buffer') \in Int /\ Len(p) \in Nat /\ End(n) \in Nat
      BY <1>2, <2>4, <2>8
    <3>1. End(Len(decoded))' = End(n + 1)
      BY <1>2, <2>1, <2>6
    <3>2. \A k \in 1..Len(buffer') : 4 + Len(p) + k \in 1..Len(buffer)
      BY <1>2, <2>4, <2>8
    <3>3. \A k \in 1..Len(buffer') : buffer'[k] = stream[End(n) + (4 + Len(p) + k)]
      BY <1>n, <2>8, <3>2 DEF PlainInv, Buffered
    <3>4. PICK l \in Nat, e \in Nat, b \in Int :
            /\ l = Len(p) /\ e = End(n) /\ b = Len(buffer') /\ End(n + 1) = e + 4 + l
            /\ Len(buffer) = b + (4 + l)
      <4>1. PICK l \in Nat, e \in Nat : l = Len(p) /\ e = End(n) /\ End(n + 1) = e + 4 + l
        BY <2>4, <3>0
      <4>2. PICK b \in Int, a \in Nat : b = Len(buffer') /\ a = Len(buffer) /\ b = a - (4 + l)
        BY <1>2, <2>8, <3>0, <4>1
      <4>3. a = b + (4 + l)
        BY <4>1, <4>2
      <4> QED BY <4>1, <4>2, <4>3
    <3>5. \A k \in 1..b : buffer'[k] = stream[e + 4 + l + k]
      <4>1. \A k \in 1..b : e + (4 + l + k) = e + 4 + l + k
        OBVIOUS
      <4> QED BY <3>3, <3>4, <4>1
    <3>6. read = End(n + 1) + b
      <4>1. read = e + (b + (4 + l)) /\ End(n + 1) = e + 4 + l
        BY <1>2, <3>4
      <4>2. e + (b + (4 + l)) = e + 4 + l + b
        OBVIOUS
      <4> QED BY <4>1, <4>2
    <3>7. UNCHANGED stream /\ read' = End(n + 1) + b /\ b = Len(buffer')
      BY <2>5, <3>4, <3>6
    <3>8. \A k \in 1..b : buffer'[k] = stream[End(n + 1) + k]
      BY <3>4, <3>5
    <3> QED BY <3>1, <3>7, <3>8 DEF Buffered
  <2>10. Drained'
    BY <2>5 DEF Drained
  <2> QED BY <1>1, <2>1, <2>7, <2>9, <2>10 DEF PlainInv
<1>7. CASE NoMoreFrames
  <2>1. Sent' /\ \A i \in Nat : End(i)' = End(i)
    BY <1>3, <1>7 DEF NoMoreFrames
  <2>2. FindFrame(buffer) = NoFrame(buffer) /\ ~(n < m /\ End(n + 1) <= read)
    <3>1. ~FindFrame(buffer).found
      BY <1>7 DEF NoMoreFrames
    <3> QED BY <1>m, <1>n, <3>1, NextFrame
  <2>3. UNCHANGED <<stream, read, buffer, frames, decoded>>
    BY <1>7, <2>2 DEF NoMoreFrames, NoFrame
  <2>4. InOrder' /\ Buffered'
    BY <1>n, <2>1, <2>3 DEF InOrder, Buffered, PlainInv
  <2>5. n < m => End(n + 1) \in Nat /\ n + 1 \in Nat
    <3>1. n < m => n + 1 \in 0..m /\ n + 1 \in Nat
      BY <1>2
    <3> QED BY <1>1, <1>m, <3>1, EndType
  <2>6. Drained'
    <3>1. n < m => read < End(n + 1)
      BY <1>2, <2>2, <2>5
    <3>2. n < m => End(n + 1)' = End(n + 1)
      BY <2>1, <2>5
    <3> QED BY <1>m, <1>n, <2>3, <3>1, <3>2 DEF Drained
  <2> QED BY <1>1, <2>1, <2>4, <2>6 DEF PlainInv
<1>8. CASE UNCHANGED framingVars
  BY <1>1, <1>8 DEF framingVars, PlainInv, Sent, InOrder, Buffered, Drained, End
<1>9. ~ \E s \in Noise : SendNoise(s)
  OBVIOUS
<1> QED BY <1>4, <1>5, <1>6, <1>7, <1>8, <1>9 DEF FramingNext

(* Without noise nothing is ever lost, however the bytes are cut into      *)
(* chunks: what is decoded is what was sent, in order, and when the loop   *)
(* waits for more it has everything that has come in completely.           *)
THEOREM ChunksLoseNothing ==
  ASSUME Noise = {}
  PROVE  FramingSpec => [](InOrder /\ NoFrameLost)
<1>1. PlainInv => InOrder /\ NoFrameLost
  <2> SUFFICES ASSUME PlainInv, ~scanning, read = Len(stream), Len(decoded) # Len(frames)
               PROVE  FALSE
    BY DEF PlainInv, NoFrameLost
  <2>1. /\ Len(decoded) \in Nat /\ Len(frames) \in Nat /\ Len(stream) \in Nat
        /\ \A i \in 0..Len(frames) : End(i) \in Nat
    BY EndType DEF PlainInv, FramingTypeOK
  <2>2. Len(decoded) < Len(frames)
    BY <2>1 DEF PlainInv, InOrder
  <2>3. read < End(Len(decoded) + 1)
    BY <2>2 DEF PlainInv, Drained
  <2>4. Len(decoded) + 1 \in 1..Len(frames) /\ Len(decoded) + 1 \in 0..Len(frames)
    BY <2>1, <2>2
  <2>5. End(Len(decoded) + 1) <= Len(stream)
    BY <2>4 DEF PlainInv, Sent
  <2> QED BY <2>1, <2>3, <2>4, <2>5
<1> QED BY <1>1, PlainInit, PlainStep, PTL DEF FramingSpec
-----------------------------------------------------------------------------
(* With noise.  A start byte in it is no harm when it begins no pair, or   *)
(* a header with a bad length: the wake bytes and the console output that  *)
(* the module speaks of have none.                                         *)
Harmless(s) ==
  \A k \in 1..Len(s) : s[k] = START1 =>
    /\ k + 1 <= Len(s)
    /\ s[k + 1] = START2 => k + 3 <= Len(s) /\ s[k + 2] * 256 + s[k + 3] > MaxPacket

(* Where frames are in the stream. *)
Last(i) == frames[i].at + 3 + Len(frames[i].payload)

Layout ==
  /\ \A i \in DOMAIN frames :
       /\ frames[i].at >= 1 /\ Last(i) <= Len(stream)
       /\ \A k \in 1..4 + Len(frames[i].payload) :
            stream[frames[i].at + k - 1] = EncodeFrame(frames[i].payload)[k]
  /\ \A i, j \in DOMAIN frames : i < j => Last(i) < frames[j].at
  /\ \A c \in cut : c <= read

(* What there is between them. *)
BadHeaderAt(k) ==
  /\ k + 3 <= Len(stream) /\ stream[k + 2] * 256 + stream[k + 3] > MaxPacket
  /\ \A i \in DOMAIN frames : frames[i].at < k \/ k + 3 < frames[i].at

Between ==
  \A k \in 1..Len(stream) :
    \/ \E i \in DOMAIN frames : frames[i].at <= k /\ k <= Last(i)
    \/ stream[k] = START1 => /\ k + 1 <= Len(stream)
                             /\ stream[k + 1] = START2 => BadHeaderAt(k)

(* The buffer is the part of the stream that is not gone, and no whole     *)
(* frame is gone in part: those that are gone were decoded.                *)
Gone == read - Len(buffer)
Passed == {i \in Whole : frames[i].at <= Gone}

Rest ==
  /\ Len(buffer) <= read
  /\ \A k \in 1..Len(buffer) : buffer[k] = stream[Gone + k]

Decoded ==
  /\ \A i \in DOMAIN frames : frames[i].at \in cut => frames[i].at <= Gone
  /\ \A i \in Passed : Last(i) <= Gone
  /\ Len(decoded) = Cardinality(Passed)
  /\ \A i \in Passed : decoded[Cardinality({j \in Passed : j <= i})] = frames[i].payload
  /\ ~scanning /\ ~skipped => \A i \in Whole \ Passed : read < Last(i)

LEMMA FrameIs ==
  ASSUME FramingTypeOK, NEW i \in DOMAIN frames
  PROVE  /\ i \in Nat /\ frames[i].at \in Nat /\ frames[i].payload \in Payload
         /\ Len(frames[i].payload) \in Nat /\ Last(i) \in Nat
         /\ Last(i) = frames[i].at + 3 + Len(frames[i].payload)
<1>1. i \in 1..Len(frames)
  BY DEF FramingTypeOK
<1> QED BY <1>1, EndType DEF Last

LEMMA StartBytes == START1 \in Byte /\ START2 \in Byte /\ START1 # START2
BY DEF START1, START2, Byte

(* A whole frame that is not gone shows by its two start bytes.            *)
LEMMA WholeIsPair ==
  ASSUME FramingTypeOK, Layout, Rest, NEW j \in Whole \ Passed
  PROVE  /\ j \in DOMAIN frames /\ frames[j].at \in Nat /\ Gone \in Nat /\ frames[j].at > Gone
         /\ frames[j].at < read => \E o \in Starts(buffer) : o \in Nat /\ frames[j].at = Gone + o
<1>1. /\ Len(buffer) \in Nat /\ read \in Nat /\ Gone \in Nat /\ read = Gone + Len(buffer)
  BY DEF FramingTypeOK, Rest, Gone
<1>2. j \in DOMAIN frames /\ frames[j].at \in Nat /\ frames[j].at > Gone
  BY <1>1, FrameIs DEF Whole, Passed
<1>3. ASSUME frames[j].at < read PROVE \E o \in Starts(buffer) : o \in Nat /\ frames[j].at = Gone + o
  <2>1. PICK o \in Nat : frames[j].at = Gone + o /\ 1 <= o /\ o < Len(buffer)
    <3>1. frames[j].at - Gone \in Nat /\ frames[j].at = Gone + (frames[j].at - Gone)
      BY <1>1, <1>2
    <3> QED BY <1>1, <1>2, <1>3, <3>1
  <2>2. o \in 1..Len(buffer) - 1 /\ o \in 1..Len(buffer) /\ o + 1 \in 1..Len(buffer)
    BY <1>1, <2>1
  <2>3. buffer[o] = stream[frames[j].at] /\ buffer[o + 1] = stream[frames[j].at + 1]
    <3>1. Gone + (o + 1) = frames[j].at + 1
      BY <1>1, <2>1
    <3> QED BY <2>1, <2>2, <3>1 DEF Rest
  <2>4. stream[frames[j].at] = START1 /\ stream[frames[j].at + 1] = START2
    <3>1. 1 \in 1..4 + Len(frames[j].payload) /\ 2 \in 1..4 + Len(frames[j].payload)
          /\ frames[j].at + 1 - 1 = frames[j].at /\ frames[j].at + 2 - 1 = frames[j].at + 1
      BY <1>2, FrameIs
    <3>2. frames[j].payload \in Payload
      BY <1>2, FrameIs
    <3>3. /\ stream[frames[j].at + 1 - 1] = EncodeFrame(frames[j].payload)[1]
          /\ stream[frames[j].at + 2 - 1] = EncodeFrame(frames[j].payload)[2]
      BY <1>2, <3>1 DEF Layout
    <3> QED BY <3>1, <3>2, <3>3, EncodeType
  <2>5. o \in Starts(buffer)
    BY <2>2, <2>3, <2>4 DEF Starts
  <2> QED BY <2>1, <2>5
<1> QED BY <1>1, <1>2, <1>3

(* In the buffer, the first pair of start bytes is that of the first whole *)
(* frame that is not gone, or a bad header before it.                      *)
LEMMA FirstPair ==
  ASSUME FramingTypeOK, Layout, Between, PlainCuts, Rest, Decoded, Starts(buffer) # {}
  PROVE  LET b == FirstStart(buffer) IN
           /\ b \in Nat /\ 1 <= b /\ b + 1 <= Len(buffer)
           /\ \A j \in Whole \ Passed : frames[j].at >= Gone + b
           /\ \/ \E i \in Whole \ Passed : frames[i].at = Gone + b
              \/ BadHeaderAt(Gone + b)
<1> DEFINE b == FirstStart(buffer)
           pos == Gone + b
<1>1. /\ Len(buffer) \in Nat /\ read \in Nat /\ Len(stream) \in Nat /\ read <= Len(stream)
      /\ Gone \in Nat /\ read = Gone + Len(buffer)
  BY DEF FramingTypeOK, Rest, Gone
<1>2. /\ b \in Nat /\ 1 <= b /\ b + 1 <= Len(buffer) /\ buffer[b] = START1 /\ buffer[b + 1] = START2
      /\ \A j \in Starts(buffer) : b <= j
  <2>1. b \in Starts(buffer) /\ b \in Nat /\ \A j \in Starts(buffer) : b <= j
    BY FirstStartIs DEF FramingTypeOK
  <2> HIDE DEF b
  <2> QED BY <1>1, <2>1 DEF Starts
<1> HIDE DEF b
<1>3. stream[pos] = START1 /\ stream[pos + 1] = START2 /\ pos \in 1..Len(stream) /\ pos + 1 <= read
  <2>1. b \in 1..Len(buffer) /\ b + 1 \in 1..Len(buffer) /\ Gone + (b + 1) = pos + 1
    BY <1>1, <1>2
  <2>2. buffer[b] = stream[pos] /\ buffer[b + 1] = stream[pos + 1]
    BY <2>1 DEF Rest
  <2> QED BY <1>1, <1>2, <2>2
<1>5. ASSUME NEW j \in Whole \ Passed PROVE frames[j].at >= pos
  <2>1. CASE frames[j].at < read
    BY <1>1, <1>2, <2>1, WholeIsPair
  <2>2. CASE ~(frames[j].at < read)
    BY <1>1, <1>2, <2>2, WholeIsPair
  <2> QED BY <2>1, <2>2
<1>6. ASSUME NEW i \in DOMAIN frames, frames[i].at <= pos, pos <= Last(i)
      PROVE  i \in Whole \ Passed /\ frames[i].at = pos
  <2>1. frames[i].at \in Nat /\ Len(frames[i].payload) \in Nat
        /\ Last(i) = frames[i].at + 3 + Len(frames[i].payload)
    BY FrameIs
  <2>2. i \notin Passed
    <3>1. i \in Passed => Last(i) <= Gone
      BY DEF Decoded
    <3> QED BY <1>1, <1>2, <1>6, <2>1, <3>1
  <2>3. i \in Whole
    <3> SUFFICES ASSUME i \notin Whole PROVE FALSE
      OBVIOUS
    <3>1. frames[i].at <= Gone
      BY DEF Whole, Decoded
    <3>2. PICK k \in 2..4 + Len(frames[i].payload) : pos = frames[i].at + k - 1
      <4>1. pos - frames[i].at + 1 \in 2..4 + Len(frames[i].payload)
        <5>1. PICK a \in Nat, l \in Nat, g \in Nat, o \in Nat :
                a = frames[i].at /\ l = Len(frames[i].payload) /\ g = Gone /\ o = b
          BY <1>1, <1>2, <2>1
        <5>2. a <= g /\ g + o <= a + 3 + l /\ 1 <= o
          BY <1>2, <1>6, <2>1, <3>1, <5>1
        <5>3. g + o - a + 1 \in 2..4 + l
          BY <5>2
        <5> QED BY <5>1, <5>3
      <4>2. pos = frames[i].at + (pos - frames[i].at + 1) - 1
        BY <1>1, <1>2, <2>1
      <4> QED BY <4>1, <4>2
    <3>3. k \in 1..4 + Len(frames[i].payload)
      BY <2>1
    <3>4. EncodeFrame(frames[i].payload)[k] = START1
      BY <1>3, <3>2, <3>3 DEF Layout
    <3> QED BY <3>4 DEF PlainCuts
  <2>4. frames[i].at >= pos
    BY <1>5, <2>2, <2>3
  <2>5. pos \in Nat
    BY <1>1, <1>2
  <2>6. frames[i].at = pos
    BY <1>6, <2>1, <2>4, <2>5
  <2> QED BY <2>2, <2>3, <2>6
<1>7. (\E i \in Whole \ Passed : frames[i].at = pos) \/ BadHeaderAt(pos)
  <2>1. CASE \E i \in DOMAIN frames : frames[i].at <= pos /\ pos <= Last(i)
    BY <1>6, <2>1
  <2>2. CASE ~\E i \in DOMAIN frames : frames[i].at <= pos /\ pos <= Last(i)
    BY <1>3, <2>2 DEF Between
  <2> QED BY <2>1, <2>2
<1> QED BY <1>2, <1>5, <1>7 DEF b

LEMMA FromFrom ==
  ASSUME NEW data \in Seq(Byte), NEW i \in Nat \ {0}, NEW j \in Nat \ {0}, i <= Len(data) + 1
  PROVE  From(From(data, i), j) = From(data, i + j - 1)
<1> DEFINE d == From(data, i)
<1>1. Len(data) \in Nat /\ i + j - 1 \in Nat \ {0}
  BY LenProperties
<1>2. /\ d \in Seq(Byte) /\ Len(d) = Len(data) + 1 - i
      /\ \A k \in 1..Len(data) + 1 - i : d[k] = data[i + k - 1]
  <2>1. (IF i <= Len(data) THEN Len(data) + 1 - i ELSE 0) = Len(data) + 1 - i
    BY <1>1
  <2> QED BY <2>1, FromIs
<1> HIDE DEF d
<1>3. /\ From(d, j) \in Seq(Byte) /\ Len(From(d, j)) = IF j <= Len(d) THEN Len(d) + 1 - j ELSE 0
      /\ \A k \in 1..Len(d) + 1 - j : From(d, j)[k] = d[j + k - 1]
  BY <1>2, FromIs
<1>4. /\ From(data, i + j - 1) \in Seq(Byte)
      /\ Len(From(data, i + j - 1)) = IF i + j - 1 <= Len(data) THEN Len(data) + 1 - (i + j - 1) ELSE 0
      /\ \A k \in 1..Len(data) + 1 - (i + j - 1) : From(data, i + j - 1)[k] = data[(i + j - 1) + k - 1]
  BY <1>1, FromIs
<1>5. Len(From(d, j)) = Len(From(data, i + j - 1))
  BY <1>1, <1>2, <1>3, <1>4
<1>6. \A k \in 1..Len(From(d, j)) : From(d, j)[k] = From(data, i + j - 1)[k]
  <2> SUFFICES ASSUME NEW k \in 1..Len(From(d, j)) PROVE From(d, j)[k] = From(data, i + j - 1)[k]
    OBVIOUS
  <2>1. /\ k \in 1..Len(d) + 1 - j /\ k \in 1..Len(data) + 1 - (i + j - 1)
        /\ j + k - 1 \in 1..Len(data) + 1 - i /\ i + (j + k - 1) - 1 = (i + j - 1) + k - 1
    BY <1>1, <1>2, <1>3
  <2>2. From(d, j)[k] = d[j + k - 1] /\ d[j + k - 1] = data[i + (j + k - 1) - 1]
    BY <1>2, <1>3, <2>1
  <2> QED BY <1>4, <2>1, <2>2
<1> QED BY <1>3, <1>4, <1>5, <1>6, SeqEqual DEF d

(* What find_frame makes of such a buffer: it drops c - 1 bytes, and these *)
(* are those up to the end of the next whole frame, which it returns, or   *)
(* none of a whole frame, unless its first byte is the last of the buffer. *)
NextWhole(c) ==
  \E i \in Whole \ Passed :
    /\ FindFrame(buffer).payload = frames[i].payload
    /\ Last(i) = Gone + c - 1
    /\ \A j \in Whole \ Passed : frames[j].at >= frames[i].at

DropsAll == Len(buffer) >= 4 /\ Starts(buffer) = {}

NoneWhole(c) ==
  /\ \A j \in Whole \ Passed : frames[j].at >= Gone + c \/ (DropsAll /\ frames[j].at = read)
  /\ BadLength(buffer) \/ \A j \in Whole \ Passed : read < Last(j)

LEMMA NextInBuffer ==
  ASSUME FramingTypeOK, Layout, Between, PlainCuts, Rest, Decoded
  PROVE  \E c \in 1..Len(buffer) + 1 :
           /\ FindFrame(buffer).rest = From(buffer, c)
           /\ DropsAll => c = Len(buffer) + 1
           /\ IF FindFrame(buffer).found THEN NextWhole(c) ELSE NoneWhole(c)
<1> USE DEF NoFrame
<1>1. /\ buffer \in Seq(Byte) /\ Len(buffer) \in Nat /\ read \in Nat /\ Len(stream) \in Nat
      /\ read <= Len(stream) /\ Gone \in Nat /\ read = Gone + Len(buffer)
  BY DEF FramingTypeOK, Rest, Gone
<1>2. ASSUME NEW j \in Whole \ Passed
      PROVE  /\ frames[j].at \in Nat /\ Last(j) \in Nat /\ Len(frames[j].payload) \in Nat
             /\ Last(j) = frames[j].at + 3 + Len(frames[j].payload)
             /\ frames[j].at > Gone /\ j \in DOMAIN frames
  BY WholeIsPair, FrameIs
<1>3. CASE Len(buffer) < 4
  <2>1. FindFrame(buffer) = NoFrame(buffer) /\ From(buffer, 1) = buffer /\ ~DropsAll
    BY <1>1, <1>3, SubSeqFull DEF FindFrame, From, DropsAll
  <2>2. NoneWhole(1)
    <3>1. \A j \in Whole \ Passed : frames[j].at >= Gone + 1 /\ read < Last(j)
      <4>1. \A g, b, a, l \in Nat : b < 4 /\ a > g => a >= g + 1 /\ g + b < a + 3 + l
        OBVIOUS
      <4> QED BY <1>1, <1>2, <1>3, <4>1
    <3> QED BY <3>1 DEF NoneWhole
  <2>3. 1 \in 1..Len(buffer) + 1
    BY <1>1
  <2> QED BY <2>1, <2>2, <2>3
<1>4. CASE DropsAll
  <2>1. FindFrame(buffer) = NoFrame(<<>>)
    BY <1>1, <1>4 DEF FindFrame, DropsAll
  <2>2. From(buffer, Len(buffer) + 1) = <<>>
    <3>1. From(buffer, Len(buffer) + 1) \in Seq(Byte) /\ Len(From(buffer, Len(buffer) + 1)) = 0
      BY <1>1, FromIs
    <3> QED BY <3>1, EmptySeq
  <2>3. NoneWhole(Len(buffer) + 1)
    <3>1. ASSUME NEW j \in Whole \ Passed PROVE frames[j].at >= read
      BY <1>1, <1>2, <1>4, WholeIsPair DEF DropsAll
    <3>2. \A j \in Whole \ Passed : frames[j].at >= Gone + (Len(buffer) + 1) \/ frames[j].at = read
      BY <1>1, <1>2, <3>1
    <3>3. \A j \in Whole \ Passed : read < Last(j)
      BY <1>1, <1>2, <3>1
    <3> QED BY <1>4, <3>2, <3>3 DEF NoneWhole
  <2>4. Len(buffer) + 1 \in 1..Len(buffer) + 1
    BY <1>1
  <2> QED BY <2>1, <2>2, <2>3, <2>4
<1>5. CASE Len(buffer) >= 4 /\ Starts(buffer) # {}
  <2> DEFINE data == From(buffer, FirstStart(buffer))
  <2>1. PICK b \in Nat :
          /\ b = FirstStart(buffer) /\ 1 <= b /\ b + 1 <= Len(buffer)
          /\ \A j \in Whole \ Passed : frames[j].at >= Gone + b
          /\ (\E i \in Whole \ Passed : frames[i].at = Gone + b) \/ BadHeaderAt(Gone + b)
    BY <1>5, FirstPair
  <2>2. FindFrame(buffer) = FrameAtStart(data) /\ ~DropsAll
    BY <1>1, <1>5 DEF FindFrame, DropsAll
  <2>3. /\ data \in Seq(Byte) /\ Len(data) = Len(buffer) + 1 - b /\ Len(data) \in Nat
        /\ \A k \in 1..Len(data) : data[k] = buffer[b + k - 1]
    <3>1. b \in Nat \ {0} /\ b <= Len(buffer) /\ data = From(buffer, b)
      BY <1>1, <2>1
    <3>2. /\ From(buffer, b) \in Seq(Byte)
          /\ Len(From(buffer, b)) = IF b <= Len(buffer) THEN Len(buffer) + 1 - b ELSE 0
          /\ \A k \in 1..Len(buffer) + 1 - b : From(buffer, b)[k] = buffer[b + k - 1]
      BY <1>1, <3>1, FromIs
    <3> HIDE DEF data
    <3>3. Len(data) = Len(buffer) + 1 - b
      BY <3>1, <3>2
    <3>4. Len(data) \in Nat
      BY <1>1, <3>1, <3>3
    <3> QED BY <3>1, <3>2, <3>3, <3>4
  <2>4. data = From(buffer, b)
    BY <2>1
  <2> HIDE DEF data
  <2>5. \A k \in 1..Len(data) : data[k] = stream[Gone + b + k - 1]
    <3>1. \A k \in 1..Len(data) : b + k - 1 \in 1..Len(buffer) /\ Gone + (b + k - 1) = Gone + b + k - 1
      <4>1. PICK g \in Nat, n \in Nat, m \in Nat :
              g = Gone /\ n = Len(buffer) /\ m = Len(data) /\ m = n + 1 - b
        BY <1>1, <2>3
      <4>2. \A k \in 1..m : b + k - 1 \in 1..n /\ g + (b + k - 1) = g + b + k - 1
        BY <2>1, <4>1
      <4> QED BY <4>1, <4>2
    <3> QED BY <2>3, <3>1 DEF Rest
  <2>6. b \in 1..Len(buffer) + 1 /\ b \in Nat \ {0} /\ b <= Len(buffer) + 1
    BY <1>1, <2>1
  <2>7. ASSUME NEW i \in Whole \ Passed, frames[i].at = Gone + b
        PROVE  \E c \in 1..Len(buffer) + 1 :
                 /\ FindFrame(buffer).rest = From(buffer, c)
                 /\ IF FindFrame(buffer).found THEN NextWhole(c) ELSE NoneWhole(c)
    <3> DEFINE p == frames[i].payload
    <3>1. p \in Payload /\ Len(p) \in Nat /\ Last(i) = Gone + b + 3 + Len(p) /\ i \in DOMAIN frames
      BY <1>2, <2>7, FrameIs
    <3>2. \A k \in 1..Len(data) : k <= 4 + Len(p) => data[k] = EncodeFrame(p)[k]
      <4>1. \A k \in 1..Len(data) : k <= 4 + Len(p) => k \in 1..4 + Len(p)
        BY <2>3, <3>1
      <4>2. \A k \in 1..4 + Len(p) : stream[Gone + b + k - 1] = EncodeFrame(p)[k]
        BY <2>7, <3>1 DEF Layout
      <4> QED BY <2>5, <4>1, <4>2
    <3> HIDE DEF p
    <3>3. FindFrame(buffer) = IF Len(data) < 4 + Len(p) THEN NoFrame(data)
                              ELSE [found |-> TRUE, payload |-> p, rest |-> From(data, 5 + Len(p))]
      BY <2>2, <2>3, <3>1, <3>2, FrameAtStartIs
    <3>4. CASE Len(data) < 4 + Len(p)
      <4>1. PICK g \in Nat, n \in Nat, l \in Nat :
              g = Gone /\ n = Len(buffer) /\ l = Len(p)
        BY <1>1, <3>1
      <4>2. read = g + n /\ n + 1 - b < 4 + l /\ Last(i) = g + b + 3 + l
        BY <1>1, <2>3, <3>1, <3>4, <4>1
      <4>3. ASSUME NEW j \in Whole \ Passed PROVE read < Last(j)
        <5>1. CASE j = i
          BY <4>2, <5>1
        <5>2. CASE j # i
          <6>1. j \in Nat /\ i \in Nat /\ j \in DOMAIN frames /\ frames[j].at >= frames[i].at
            BY <1>2, <2>1, <2>7, <3>1, FrameIs
          <6>2. ~(j < i)
            <7>1. j < i => Last(j) < frames[i].at
              BY <3>1, <6>1 DEF Layout
            <7> QED BY <1>2, <6>1, <7>1
          <6>3. Last(i) < frames[j].at
            BY <3>1, <5>2, <6>1, <6>2 DEF Layout
          <6> QED BY <1>2, <4>2, <6>3
        <5> QED BY <5>1, <5>2
      <4>4. NoneWhole(b)
        BY <2>1, <4>3 DEF NoneWhole
      <4> QED BY <2>4, <2>6, <3>3, <3>4, <4>4
    <3>5. CASE ~(Len(data) < 4 + Len(p))
      <4>1. PICK c \in 1..Len(buffer) + 1 : c = b + (5 + Len(p)) - 1 /\ c = b + 4 + Len(p)
        <5>1. b + 4 + Len(p) \in 1..Len(buffer) + 1 /\ b + 4 + Len(p) = b + (5 + Len(p)) - 1
          <6>1. PICK n \in Nat : n = Len(buffer)
            BY <1>1
          <6>2. PICK l \in Nat : l = Len(p)
            BY <3>1
          <6>3. ~(n + 1 - b < 4 + l)
            BY <2>3, <3>5, <6>1, <6>2
          <6>4. b + 4 + l \in 1..n + 1 /\ b + 4 + l = b + (5 + l) - 1
            BY <6>3
          <6> QED BY <6>1, <6>2, <6>4
        <5> QED BY <5>1
      <4>2. FindFrame(buffer).rest = From(buffer, c) /\ FindFrame(buffer).found
            /\ FindFrame(buffer).payload = p
        <5>1. 5 + Len(p) \in Nat \ {0}
          BY <3>1
        <5>2. From(data, 5 + Len(p)) = From(buffer, c)
          BY <1>1, <2>4, <2>6, <4>1, <5>1, FromFrom
        <5> QED BY <3>3, <3>5, <5>2
      <4>3. Last(i) = Gone + c - 1
        <5>1. PICK l \in Nat : l = Len(p)
          BY <3>1
        <5>2. PICK g \in Nat : g = Gone
          BY <1>1
        <5>3. Last(i) = g + b + 3 + l /\ c = b + 4 + l
          BY <3>1, <4>1, <5>1, <5>2
        <5>4. g + b + 3 + l = g + (b + 4 + l) - 1
          OBVIOUS
        <5> QED BY <5>2, <5>3, <5>4
      <4>4. NextWhole(c)
        BY <2>1, <2>7, <4>2, <4>3 DEF NextWhole, p
      <4> QED BY <4>2, <4>4
    <3> QED BY <3>4, <3>5
  <2>8. ASSUME BadHeaderAt(Gone + b)
        PROVE  \E c \in 1..Len(buffer) + 1 :
                 /\ FindFrame(buffer).rest = From(buffer, c)
                 /\ IF FindFrame(buffer).found THEN NextWhole(c) ELSE NoneWhole(c)
    <3>1. ASSUME NEW j \in Whole \ Passed PROVE frames[j].at > Gone + b + 3
      <4>1. frames[j].at < Gone + b \/ Gone + b + 3 < frames[j].at
        BY <1>2, <2>8 DEF BadHeaderAt
      <4>2. frames[j].at >= Gone + b
        BY <2>1
      <4> QED BY <1>1, <1>2, <2>1, <4>1, <4>2
    <3>2. CASE Len(data) < 4
      <4>1. FindFrame(buffer) = NoFrame(data)
        BY <2>2, <3>2 DEF FrameAtStart
      <4>2. \A j \in Whole \ Passed : read < Last(j)
        <5>1. read < Gone + b + 3
          <6>1. PICK g \in Nat, n \in Nat, m \in Nat :
                  g = Gone /\ n = Len(buffer) /\ m = Len(data) /\ m = n + 1 - b /\ read = g + n
            BY <1>1, <2>3
          <6>2. g + n < g + b + 3
            BY <2>1, <3>2, <6>1
          <6> QED BY <6>1, <6>2
        <5>2. \A t, a, l \in Nat : read < t /\ a > t => read < a + 3 + l
          BY <1>1
        <5>3. Gone + b + 3 \in Nat
          BY <1>1, <2>1
        <5> QED BY <1>2, <3>1, <5>1, <5>2, <5>3
      <4>3. NoneWhole(b)
        BY <2>1, <4>2 DEF NoneWhole
      <4> QED BY <2>4, <2>6, <4>1, <4>3
    <3>3. CASE ~(Len(data) < 4)
      <4>1. LengthOf(data) > MaxPacket
        <5>1. 3 \in 1..Len(data) /\ 4 \in 1..Len(data)
              /\ Gone + b + 3 - 1 = Gone + b + 2 /\ Gone + b + 4 - 1 = Gone + b + 3
          BY <1>1, <2>1, <2>3, <3>3
        <5>2. data[3] = stream[Gone + b + 2] /\ data[4] = stream[Gone + b + 3]
          BY <2>5, <5>1
        <5> QED BY <2>8, <5>2 DEF BadHeaderAt, LengthOf
      <4>2. FindFrame(buffer) = NoFrame(From(data, 5))
        BY <2>2, <2>3, <3>3, <4>1 DEF FrameAtStart
      <4>3. PICK c \in 1..Len(buffer) + 1 : c = b + 5 - 1 /\ c = b + 4
        <5>1. b + 4 \in 1..Len(buffer) + 1 /\ b + 4 = b + 5 - 1
          BY <1>1, <2>1, <2>3, <3>3
        <5> QED BY <5>1
      <4>4. From(data, 5) = From(buffer, c)
        BY <1>1, <2>4, <2>6, <4>3, FromFrom
      <4>5. BadLength(buffer)
        <5>1. data = From(buffer, FirstStart(buffer)) /\ Len(data) >= 4
          BY <2>1, <2>3, <2>4, <3>3
        <5> QED BY <1>5, <4>1, <5>1 DEF BadLength
      <4>6. NoneWhole(c)
        <5>1. \A j \in Whole \ Passed : frames[j].at >= Gone + c
          <6>1. PICK g \in Nat : g = Gone /\ c = b + 4
            BY <1>1, <4>3
          <6>2. \A j \in Whole \ Passed : frames[j].at \in Nat /\ frames[j].at > g + b + 3
            BY <1>2, <3>1, <6>1
          <6>3. \A j \in Whole \ Passed : frames[j].at >= g + (b + 4)
            BY <2>1, <6>2
          <6> QED BY <6>1, <6>3
        <5> QED BY <4>5, <5>1 DEF NoneWhole
      <4> QED BY <4>2, <4>4, <4>6
    <3> QED BY <3>2, <3>3
  <2> QED BY <2>1, <2>2, <2>7, <2>8
<1> QED BY <1>1, <1>3, <1>4, <1>5 DEF DropsAll

(* What the peer sends leaves what it sent before in its place.            *)
LEMMA StreamGrows ==
  ASSUME FramingTypeOK, NEW t \in Seq(Byte), stream' = stream \o t
  PROVE  /\ Len(stream) \in Nat /\ Len(t) \in Nat /\ Len(stream') = Len(stream) + Len(t)
         /\ \A k \in 1..Len(stream) : stream'[k] = stream[k]
         /\ \A k \in 1..Len(t) : stream'[Len(stream) + k] = t[k]
<1>1. stream \in Seq(Byte) /\ Len(stream) \in Nat /\ Len(t) \in Nat
  BY LenProperties DEF FramingTypeOK
<1>2. /\ Len(stream \o t) = Len(stream) + Len(t)
      /\ \A k \in 1..Len(stream) + Len(t) :
           (stream \o t)[k] = IF k <= Len(stream) THEN stream[k] ELSE t[k - Len(stream)]
  BY <1>1, ConcatProperties, Zenon
<1>3. ASSUME NEW k \in 1..Len(stream) PROVE stream'[k] = stream[k]
  <2>1. k \in 1..Len(stream) + Len(t) /\ k <= Len(stream)
    BY <1>1
  <2> QED BY <1>2, <2>1
<1>4. ASSUME NEW k \in 1..Len(t) PROVE stream'[Len(stream) + k] = t[k]
  <2>1. /\ Len(stream) + k \in 1..Len(stream) + Len(t) /\ ~(Len(stream) + k <= Len(stream))
        /\ (Len(stream) + k) - Len(stream) = k
    BY <1>1
  <2> QED BY <1>2, <2>1
<1> QED BY <1>1, <1>2, <1>3, <1>4

LEMMA FrameAdded ==
  ASSUME FramingTypeOK, NEW p \in Payload, SendFrame(p)
  PROVE  /\ Len(frames) \in Nat /\ Len(p) \in Nat /\ Len(stream) \in Nat
         /\ DOMAIN frames = 1..Len(frames) /\ DOMAIN frames' = 1..Len(frames) + 1
         /\ \A i \in 1..Len(frames) : frames'[i] = frames[i]
         /\ frames'[Len(frames) + 1] = [at |-> Len(stream) + 1, payload |-> p]
         /\ Len(stream') = Len(stream) + 4 + Len(p)
         /\ \A k \in 1..Len(stream) : stream'[k] = stream[k]
         /\ \A k \in 1..4 + Len(p) : stream'[Len(stream) + k] = EncodeFrame(p)[k]
<1>1. /\ frames \in Seq([at : Nat, payload : Payload]) /\ Len(frames) \in Nat
      /\ Len(stream) \in Nat /\ Len(p) \in Nat
      /\ EncodeFrame(p) \in Seq(Byte) /\ Len(EncodeFrame(p)) = 4 + Len(p)
  BY EncodeType DEF FramingTypeOK
<1>2. [at |-> Len(stream) + 1, payload |-> p] \in [at : Nat, payload : Payload]
  BY <1>1
<1>3. /\ DOMAIN frames = 1..Len(frames) /\ DOMAIN frames' = 1..Len(frames) + 1
      /\ \A i \in 1..Len(frames) : frames'[i] = frames[i]
      /\ frames'[Len(frames) + 1] = [at |-> Len(stream) + 1, payload |-> p]
  BY <1>1, <1>2, AppendProperties DEF SendFrame
<1>4. /\ Len(stream') = Len(stream) + (4 + Len(p))
      /\ \A k \in 1..Len(stream) : stream'[k] = stream[k]
      /\ \A k \in 1..4 + Len(p) : stream'[Len(stream) + k] = EncodeFrame(p)[k]
  BY <1>1, StreamGrows DEF SendFrame
<1>5. Len(stream) + (4 + Len(p)) = Len(stream) + 4 + Len(p)
  BY <1>1
<1> QED BY <1>1, <1>3, <1>4, <1>5

(* Where things are in the stream stays as it is.                          *)
LEMMA LayoutStep ==
  ASSUME \A s \in Noise : Harmless(s), FramingTypeOK, Layout, Between,
         [FramingNext]_framingVars
  PROVE  Layout' /\ Between'
<1>1. ASSUME NEW p \in Payload, SendFrame(p) PROVE Layout' /\ Between'
  <2>m. PICK m \in Nat : m = Len(frames)
    BY <1>1, FrameAdded
  <2>n. PICK n \in Nat : n = Len(stream)
    BY <1>1, FrameAdded
  <2>l. PICK l \in Nat : l = Len(p)
    BY <1>1, FrameAdded
  <2>1. /\ m = Len(frames) /\ n = Len(stream) /\ l = Len(p)
        /\ DOMAIN frames = 1..m /\ DOMAIN frames' = 1..m + 1
        /\ \A i \in 1..m : frames'[i] = frames[i]
        /\ frames'[m + 1] = [at |-> n + 1, payload |-> p]
        /\ Len(stream') = n + 4 + l
        /\ \A k \in 1..n : stream'[k] = stream[k]
        /\ \A k \in 1..4 + l : stream'[n + k] = EncodeFrame(p)[k]
    BY <1>1, <2>m, <2>n, <2>l, FrameAdded
  <2>2. /\ \A i \in 1..m : Last(i)' = Last(i)
        /\ frames'[m + 1].at = n + 1 /\ frames'[m + 1].payload = p /\ Last(m + 1)' = n + 4 + l
    <3>1. Last(m + 1)' = n + 1 + 3 + l
      BY <2>1 DEF Last
    <3> QED BY <2>1, <3>1 DEF Last
  <2>3. \A i \in 1..m :
          /\ frames[i].at \in Nat /\ frames[i].at >= 1 /\ Last(i) \in Nat /\ Last(i) <= n
          /\ Len(frames[i].payload) \in Nat /\ Last(i) = frames[i].at + 3 + Len(frames[i].payload)
    BY <2>1, FrameIs DEF Layout
  <2>4. \A i \in 1..m + 1 : i \in 1..m \/ i = m + 1
    OBVIOUS
  <2>5. ASSUME NEW i \in 1..m + 1
        PROVE  /\ frames'[i].at >= 1 /\ Last(i)' <= Len(stream')
               /\ \A k \in 1..4 + Len(frames'[i].payload) :
                    stream'[frames'[i].at + k - 1] = EncodeFrame(frames'[i].payload)[k]
    <3>1. CASE i \in 1..m
      <4>1. \A k \in 1..4 + Len(frames[i].payload) : frames[i].at + k - 1 \in 1..n
        <5>1. \A a, q \in Nat : a >= 1 /\ a + 3 + q <= n => \A k \in 1..4 + q : a + k - 1 \in 1..n
          OBVIOUS
        <5>2. /\ frames[i].at \in Nat /\ Len(frames[i].payload) \in Nat /\ frames[i].at >= 1
              /\ frames[i].at + 3 + Len(frames[i].payload) <= n
          BY <2>3, <3>1
        <5> QED BY <5>1, <5>2
      <4>2. \A k \in 1..4 + Len(frames[i].payload) :
              stream[frames[i].at + k - 1] = EncodeFrame(frames[i].payload)[k]
        BY <2>1, <3>1 DEF Layout
      <4>3. Last(i)' <= n + 4 + l
        BY <2>2, <2>3, <3>1
      <4>4. frames'[i] = frames[i]
        BY <2>1, <3>1
      <4>5. \A k \in 1..4 + Len(frames[i].payload) :
              stream'[frames[i].at + k - 1] = EncodeFrame(frames[i].payload)[k]
        BY <2>1, <4>1, <4>2
      <4> QED BY <2>1, <2>3, <3>1, <4>3, <4>4, <4>5
    <3>2. CASE i = m + 1
      <4>1. \A k \in 1..4 + l : n + 1 + k - 1 = n + k
        OBVIOUS
      <4>2. \A k \in 1..4 + l : stream'[n + 1 + k - 1] = EncodeFrame(p)[k]
        BY <2>1, <4>1
      <4>3. frames'[i].at = n + 1 /\ frames'[i].payload = p /\ Last(i)' = n + 4 + l
        BY <2>2, <3>2
      <4>4. n + 1 >= 1 /\ n + 4 + l <= n + 4 + l
        OBVIOUS
      <4> QED BY <2>1, <4>2, <4>3, <4>4
    <3> QED BY <2>4, <3>1, <3>2
  <2>6. ASSUME NEW i \in 1..m + 1, NEW j \in 1..m + 1, i < j PROVE Last(i)' < frames'[j].at
    <3>1. i \in 1..m
      BY <2>6
    <3>2. CASE j \in 1..m
      <4>1. Last(i) < frames[j].at
        BY <2>1, <2>6, <3>1, <3>2 DEF Layout
      <4> QED BY <2>1, <2>2, <3>1, <3>2, <4>1
    <3>3. CASE j = m + 1
      BY <2>2, <2>3, <3>1, <3>3
    <3> QED BY <2>4, <3>2, <3>3
  <2>7. Layout'
    <3>1. DOMAIN frames' = 1..m + 1 /\ cut' = cut /\ read' = read
      BY <1>1, <2>1 DEF SendFrame
    <3>2. \A c \in cut' : c <= read'
      BY <3>1 DEF Layout
    <3> QED BY <2>5, <2>6, <3>1, <3>2 DEF Layout
  <2>8. ASSUME NEW k \in 1..n + 4 + l
        PROVE  \/ \E i \in DOMAIN frames' : frames'[i].at <= k /\ k <= Last(i)'
               \/ stream'[k] = START1 => /\ k + 1 <= Len(stream')
                                         /\ stream'[k + 1] = START2 => BadHeaderAt(k)'
    <3>1. CASE k > n
      <4>1. m + 1 \in DOMAIN frames'
        BY <2>1
      <4> QED BY <2>2, <3>1, <4>1
    <3>2. CASE k \in 1..n /\ \E i \in DOMAIN frames : frames[i].at <= k /\ k <= Last(i)
      <4>1. PICK i \in 1..m : frames[i].at <= k /\ k <= Last(i)
        BY <2>1, <3>2
      <4>2. i \in DOMAIN frames'
        BY <2>1
      <4>3. frames'[i].at <= k /\ k <= Last(i)'
        BY <2>1, <2>2, <4>1
      <4> QED BY <4>2, <4>3
    <3>3. CASE k \in 1..n /\ ~\E i \in DOMAIN frames : frames[i].at <= k /\ k <= Last(i)
      <4> SUFFICES ASSUME stream[k] = START1
                   PROVE  k + 1 <= Len(stream') /\ (stream'[k + 1] = START2 => BadHeaderAt(k)')
        BY <2>1, <3>3
      <4>1. k + 1 <= n /\ (stream[k + 1] = START2 => BadHeaderAt(k))
        BY <2>1, <3>3 DEF Between
      <4>2. stream'[k + 1] = stream[k + 1]
        BY <2>1, <4>1
      <4>3. ASSUME BadHeaderAt(k) PROVE BadHeaderAt(k)'
        <5>1. k + 3 <= n /\ stream[k + 2] * 256 + stream[k + 3] > MaxPacket
          BY <2>1, <4>3 DEF BadHeaderAt
        <5>2. stream'[k + 2] = stream[k + 2] /\ stream'[k + 3] = stream[k + 3]
          BY <2>1, <5>1
        <5>3. \A i \in 1..m + 1 : frames'[i].at < k \/ k + 3 < frames'[i].at
          <6>1. \A i \in 1..m : frames'[i].at < k \/ k + 3 < frames'[i].at
            BY <2>1, <4>3 DEF BadHeaderAt
          <6>2. k + 3 < frames'[m + 1].at
            BY <2>2, <5>1
          <6> QED BY <2>4, <6>1, <6>2
        <5> QED BY <2>1, <5>1, <5>2, <5>3 DEF BadHeaderAt
      <4> QED BY <2>1, <4>1, <4>2, <4>3
    <3> QED BY <3>1, <3>2, <3>3
  <2> QED BY <2>1, <2>7, <2>8 DEF Between
<1>2. ASSUME NEW s \in Noise, SendNoise(s) PROVE Layout' /\ Between'
  <2>1. PICK n \in Nat, l \in Nat :
          /\ n = Len(stream) /\ l = Len(s) /\ Len(stream') = n + l
          /\ \A k \in 1..n : stream'[k] = stream[k]
          /\ \A k \in 1..l : stream'[n + k] = s[k]
    <3>1. s \in Seq(Byte)
      BY FramingAssumption
    <3> QED BY <1>2, <3>1, StreamGrows DEF SendNoise
  <2>2. frames' = frames /\ read' = read /\ cut' = cut
    BY <1>2 DEF SendNoise
  <2>3. \A i \in DOMAIN frames :
          /\ frames[i].at \in Nat /\ frames[i].at >= 1 /\ Last(i) \in Nat /\ Last(i) <= n
          /\ Len(frames[i].payload) \in Nat /\ Last(i) = frames[i].at + 3 + Len(frames[i].payload)
          /\ Last(i)' = Last(i)
    BY <2>1, <2>2, FrameIs DEF Layout, Last
  <2>4. Layout'
    <3>1. ASSUME NEW i \in DOMAIN frames, NEW k \in 1..4 + Len(frames[i].payload)
          PROVE  stream'[frames[i].at + k - 1] = EncodeFrame(frames[i].payload)[k]
      <4>1. frames[i].at + k - 1 \in 1..n
        BY <2>3
      <4> QED BY <2>1, <4>1 DEF Layout
    <3>2. \A i \in DOMAIN frames : Last(i) <= n + l
      BY <2>3
    <3> QED BY <2>1, <2>2, <2>3, <3>1, <3>2 DEF Layout
  <2>5. ASSUME NEW k \in 1..n + l
        PROVE  \/ \E i \in DOMAIN frames : frames[i].at <= k /\ k <= Last(i)
               \/ stream'[k] = START1 => /\ k + 1 <= n + l
                                         /\ stream'[k + 1] = START2 => BadHeaderAt(k)'
    <3>1. CASE k > n
      <4>1. PICK o \in 1..l : k = n + o
        <5>1. k - n \in 1..l /\ k = n + (k - n)
          BY <3>1
        <5> QED BY <5>1
      <4> SUFFICES ASSUME s[o] = START1
                   PROVE  k + 1 <= n + l /\ (stream'[k + 1] = START2 => BadHeaderAt(k)')
        BY <2>1, <4>1
      <4>2. o + 1 <= l /\ (s[o + 1] = START2 => o + 3 <= l /\ s[o + 2] * 256 + s[o + 3] > MaxPacket)
        BY <2>1 DEF Harmless
      <4>3. k + 1 = n + (o + 1) /\ stream'[k + 1] = s[o + 1]
        BY <2>1, <4>1, <4>2
      <4>4. ASSUME s[o + 1] = START2 PROVE BadHeaderAt(k)'
        <5>1. o + 2 \in 1..l /\ o + 3 \in 1..l /\ k + 2 = n + (o + 2) /\ k + 3 = n + (o + 3)
          BY <4>1, <4>2, <4>4
        <5>2. stream'[k + 2] = s[o + 2] /\ stream'[k + 3] = s[o + 3]
          BY <2>1, <5>1
        <5>3. \A i \in DOMAIN frames : frames[i].at < k
          BY <2>3, <3>1
        <5>4. k + 3 <= Len(stream')
          BY <2>1, <5>1
        <5> QED BY <2>2, <4>2, <4>4, <5>2, <5>3, <5>4 DEF BadHeaderAt
      <4> QED BY <4>1, <4>2, <4>3, <4>4
    <3>2. CASE k \in 1..n /\ ~\E i \in DOMAIN frames : frames[i].at <= k /\ k <= Last(i)
      <4> SUFFICES ASSUME stream[k] = START1
                   PROVE  k + 1 <= n + l /\ (stream'[k + 1] = START2 => BadHeaderAt(k)')
        BY <2>1, <3>2
      <4>1. k + 1 <= n /\ (stream[k + 1] = START2 => BadHeaderAt(k))
        BY <2>1, <3>2 DEF Between
      <4>2. stream'[k + 1] = stream[k + 1]
        BY <2>1, <4>1
      <4>3. ASSUME BadHeaderAt(k) PROVE BadHeaderAt(k)'
        <5>1. k + 3 <= n /\ stream[k + 2] * 256 + stream[k + 3] > MaxPacket
          BY <2>1, <4>3 DEF BadHeaderAt
        <5>2. stream'[k + 2] = stream[k + 2] /\ stream'[k + 3] = stream[k + 3]
          BY <2>1, <5>1
        <5>3. k + 3 <= Len(stream')
          BY <2>1, <5>1
        <5> QED BY <2>2, <4>3, <5>1, <5>2, <5>3 DEF BadHeaderAt
      <4> QED BY <4>1, <4>2, <4>3
    <3> QED BY <3>1, <3>2
  <2>6. Between'
    BY <2>1, <2>2, <2>3, <2>5 DEF Between
  <2> QED BY <2>4, <2>6
<1>3. ASSUME stream' = stream, frames' = frames, read' \in Nat, read <= read',
             \A c \in cut' : c \in cut \/ c = read
      PROVE  Layout' /\ Between'
  <2>1. read \in Nat /\ \A c \in cut : c \in Nat
    BY DEF FramingTypeOK
  <2>2. \A c \in cut : c <= read
    BY DEF Layout
  <2>3. \A c \in cut' : c <= read'
    BY <1>3, <2>1, <2>2
  <2>4. Layout'
    BY <1>3, <2>3 DEF Layout, Last
  <2> QED BY <1>3, <2>4 DEF Between, Last, BadHeaderAt
<1>4. ASSUME NEW n \in 1..Len(stream), ReadChunk(n) PROVE Layout' /\ Between'
  <2>1. read' \in Nat /\ read <= read'
    BY <1>4 DEF ReadChunk, FramingTypeOK
  <2> QED BY <1>3, <1>4, <2>1 DEF ReadChunk
<1>5. CASE Extract \/ UNCHANGED framingVars
  <2>1. read' = read /\ read \in Nat
    BY <1>5 DEF Extract, framingVars, FramingTypeOK
  <2> QED BY <1>3, <1>5, <2>1 DEF Extract, framingVars
<1>6. CASE NoMoreFrames
  <2>1. read' = read /\ read \in Nat
    BY <1>6 DEF NoMoreFrames, FramingTypeOK
  <2> QED BY <1>3, <1>6, <2>1 DEF NoMoreFrames
<1> QED BY <1>1, <1>2, <1>4, <1>5, <1>6 DEF FramingNext

(* A frame that was cut stays cut. *)
LEMMA PlainCutsBack ==
  ASSUME FramingTypeOK, [FramingNext]_framingVars, PlainCuts'
  PROVE  PlainCuts
<1>1. \A i \in DOMAIN frames : i \in DOMAIN frames' /\ frames'[i] = frames[i]
  <2>1. ASSUME NEW p \in Payload, SendFrame(p)
        PROVE  \A i \in DOMAIN frames : i \in DOMAIN frames' /\ frames'[i] = frames[i]
    <3>1. Len(frames) \in Nat /\ DOMAIN frames = 1..Len(frames) /\ DOMAIN frames' = 1..Len(frames) + 1
          /\ \A i \in 1..Len(frames) : frames'[i] = frames[i]
      BY <2>1, FrameAdded
    <3>2. 1..Len(frames) \subseteq 1..Len(frames) + 1
      BY <3>1
    <3> QED BY <3>1, <3>2
  <2>2. ASSUME ~\E p \in Payload : SendFrame(p) PROVE frames' = frames
    BY <2>2 DEF FramingNext, SendNoise, ReadChunk, Extract, NoMoreFrames, framingVars
  <2> QED BY <2>1, <2>2
<1>2. cut \subseteq cut'
  BY DEF FramingNext, SendFrame, SendNoise, ReadChunk, Extract, NoMoreFrames, framingVars
<1>3. \A i \in DOMAIN frames \ Whole : i \in DOMAIN frames' \ Whole'
  BY <1>1, <1>2 DEF Whole
<1> QED BY <1>1, <1>3 DEF PlainCuts

(* The frames that are gone come before those that are not.                *)
LEMMA GoneFirst ==
  ASSUME FramingTypeOK, Layout, Rest, NEW i \in Passed, NEW j \in Whole \ Passed
  PROVE  i \in Nat /\ j \in Nat /\ i < j
<1>1. i \in DOMAIN frames /\ j \in DOMAIN frames /\ i # j
  BY DEF Passed, Whole
<1>2. /\ i \in Nat /\ j \in Nat /\ frames[i].at \in Nat /\ frames[j].at \in Nat
      /\ Len(frames[j].payload) \in Nat /\ Last(j) = frames[j].at + 3 + Len(frames[j].payload)
  BY <1>1, FrameIs
<1>3. frames[i].at <= Gone /\ frames[j].at > Gone /\ Gone \in Nat
  BY WholeIsPair DEF Passed
<1>4. j < i => Last(j) < frames[i].at
  BY <1>1 DEF Layout
<1> QED BY <1>1, <1>2, <1>3, <1>4

LEMMA PassedFinite ==
  ASSUME FramingTypeOK
  PROVE  /\ IsFiniteSet(Whole) /\ IsFiniteSet(Passed) /\ Passed \subseteq Whole
         /\ Cardinality(Whole) \in Nat /\ Cardinality(Passed) \in Nat
<1>1. Len(frames) \in Nat /\ DOMAIN frames = 1..Len(frames)
  BY DEF FramingTypeOK
<1>2. IsFiniteSet(1..Len(frames))
  BY <1>1, FS_Interval
<1>3. Whole \subseteq 1..Len(frames) /\ Passed \subseteq Whole
  BY <1>1 DEF Whole, Passed
<1>4. IsFiniteSet(Whole) /\ IsFiniteSet(Passed)
  BY <1>2, <1>3, FS_Subset
<1> QED BY <1>3, <1>4, FS_CardinalityType

LEMMA RestFrom ==
  ASSUME FramingTypeOK, Rest, NEW c \in 1..Len(buffer) + 1, buffer' = From(buffer, c),
         stream' = stream, read' = read
  PROVE  /\ Rest' /\ Gone \in Nat /\ Gone' \in Nat /\ Gone' = Gone + c - 1 /\ read = Gone + Len(buffer)
         /\ Len(buffer) \in Nat /\ c \in Nat
<1>1. /\ buffer \in Seq(Byte) /\ Len(buffer) \in Nat /\ read \in Nat
      /\ Gone \in Nat /\ read = Gone + Len(buffer)
  BY DEF FramingTypeOK, Rest, Gone
<1>2. c \in Nat \ {0} /\ (IF c <= Len(buffer) THEN Len(buffer) + 1 - c ELSE 0) = Len(buffer) + 1 - c
  BY <1>1
<1>3. /\ Len(buffer') = Len(buffer) + 1 - c
      /\ \A k \in 1..Len(buffer) + 1 - c : buffer'[k] = buffer[c + k - 1]
  BY <1>1, <1>2, FromIs
<1>4. PICK g \in Nat, n \in Nat : g = Gone /\ n = Len(buffer) /\ read = g + n /\ c \in 1..n + 1
  BY <1>1
<1>5. Gone' = read - (n + 1 - c)
  BY <1>3, <1>4 DEF Gone
<1>6. Gone' = g + c - 1 /\ Gone' \in Nat /\ n + 1 - c <= read
  BY <1>2, <1>4, <1>5
<1>7. ASSUME NEW k \in 1..n + 1 - c PROVE buffer'[k] = stream[Gone' + k]
  <2>1. c + k - 1 \in 1..n /\ g + (c + k - 1) = (g + c - 1) + k
    BY <1>2, <1>4
  <2>2. buffer[c + k - 1] = stream[g + (c + k - 1)]
    BY <1>4, <2>1 DEF Rest
  <2> QED BY <1>3, <1>4, <1>6, <2>1, <2>2
<1> QED BY <1>1, <1>2, <1>3, <1>4, <1>6, <1>7 DEF Rest

(* Steps after which the same frames are gone.                             *)
LEMMA SamePassed ==
  ASSUME Decoded, Passed' = Passed, decoded' = decoded, Gone \in Nat, Gone' \in Nat, Gone <= Gone',
         \A i \in Passed : frames'[i] = frames[i] /\ Last(i) \in Nat
  PROVE  /\ \A i \in Passed' : Last(i)' <= Gone'
         /\ Len(decoded') = Cardinality(Passed')
         /\ \A i \in Passed' : decoded'[Cardinality({j \in Passed' : j <= i})] = frames'[i].payload
<1>1. ASSUME NEW i \in Passed PROVE Last(i)' <= Gone'
  <2>1. Last(i)' = Last(i) /\ Last(i) \in Nat /\ Last(i) <= Gone
    BY DEF Last, Decoded
  <2> QED BY <2>1
<1>2. ASSUME NEW i \in Passed
      PROVE  decoded'[Cardinality({j \in Passed' : j <= i})] = frames'[i].payload
  BY DEF Decoded
<1> QED BY <1>1, <1>2 DEF Decoded

LEMMA DecodedStep ==
  ASSUME FramingTypeOK, Layout, Between, PlainCuts, Rest, Decoded, [FramingNext]_framingVars
  PROVE  Rest' /\ Decoded'
<1>1. /\ Len(stream) \in Nat /\ Len(buffer) \in Nat /\ read \in Nat /\ read <= Len(stream)
      /\ Gone \in Nat /\ read = Gone + Len(buffer)
  BY DEF FramingTypeOK, Rest, Gone
<1>2. \A i \in DOMAIN frames :
        /\ i \in Nat /\ frames[i].at \in Nat /\ Last(i) \in Nat /\ Len(frames[i].payload) \in Nat
        /\ Last(i) = frames[i].at + 3 + Len(frames[i].payload)
        /\ frames[i].at < Last(i) /\ Last(i) <= Len(stream)
  BY FrameIs DEF Layout
<1>3. Passed \subseteq Whole /\ Whole \subseteq DOMAIN frames
  BY DEF Passed, Whole
<1>4. \A k \in 1..Len(buffer) : Gone + k \in 1..Len(stream) /\ buffer[k] = stream[Gone + k]
  BY <1>1 DEF Rest
<1>5. ASSUME NEW p \in Payload, SendFrame(p) PROVE Rest' /\ Decoded'
  <2>m. PICK m \in Nat : m = Len(frames)
    BY <1>5, FrameAdded
  <2>n. PICK n \in Nat : n = Len(stream)
    BY <1>5, FrameAdded
  <2>l. PICK l \in Nat : l = Len(p)
    BY <1>5, FrameAdded
  <2>1. /\ m = Len(frames) /\ n = Len(stream) /\ l = Len(p)
        /\ DOMAIN frames = 1..m /\ DOMAIN frames' = 1..m + 1
        /\ \A i \in 1..m : frames'[i] = frames[i]
        /\ frames'[m + 1] = [at |-> n + 1, payload |-> p]
        /\ Len(stream') = n + 4 + l
        /\ \A k \in 1..n : stream'[k] = stream[k]
    BY <1>5, <2>m, <2>n, <2>l, FrameAdded
  <2>2. UNCHANGED <<read, buffer, scanning, decoded, cut, skipped>> /\ Gone' = Gone
    BY <1>5 DEF SendFrame, Gone
  <2>3. Rest'
    BY <1>4, <2>1, <2>2 DEF Rest
  <2>4. \A i \in 1..m + 1 : i \in 1..m \/ i = m + 1
    OBVIOUS
  <2>5. \A i \in 1..m : i \in 1..m + 1
    OBVIOUS
  <2>6. n + 1 \notin cut /\ n + 1 > Gone /\ n + 1 > read /\ frames'[m + 1].at = n + 1
    <3>1. \A c \in cut : c \in Nat /\ c <= read
      BY DEF Layout, FramingTypeOK
    <3>2. n + 1 > read /\ n + 1 > Gone
      BY <1>1, <2>1
    <3> QED BY <1>1, <2>1, <3>1, <3>2
  <2>7. Whole' = Whole \cup {m + 1} /\ Passed' = Passed /\ m + 1 \notin Whole
    <3>1. m + 1 \notin 1..m /\ m + 1 \in 1..m + 1
      OBVIOUS
    <3>2. Whole' = Whole \cup {m + 1} /\ m + 1 \notin Whole
      BY <2>1, <2>2, <2>4, <2>5, <2>6, <3>1 DEF Whole
    <3>3. ~(frames'[m + 1].at <= Gone')
      BY <1>1, <2>1, <2>2, <2>6
    <3>4. \A i \in Whole : frames'[i] = frames[i]
      BY <1>3, <2>1
    <3> QED BY <2>2, <3>2, <3>3, <3>4 DEF Passed
  <2>8. \A i \in Passed : frames'[i] = frames[i] /\ Last(i) \in Nat
    BY <1>2, <1>3, <2>1
  <2>9. \A i \in DOMAIN frames' : frames'[i].at \in cut' => frames'[i].at <= Gone'
    BY <2>1, <2>2, <2>4, <2>6 DEF Decoded
  <2>10. ~scanning' /\ ~skipped' => \A i \in Whole' \ Passed' : read' < Last(i)'
    <3> SUFFICES ASSUME ~scanning, ~skipped, NEW i \in Whole' \ Passed' PROVE read < Last(i)'
      BY <2>2
    <3>1. CASE i = m + 1
      <4>1. Last(i)' = n + 1 + 3 + l
        <5>1. frames'[i].at = n + 1 /\ frames'[i].payload = p
          BY <2>1, <3>1
        <5> QED BY <2>1, <5>1 DEF Last
      <4> QED BY <1>1, <2>1, <4>1
    <3>2. CASE i \in Whole \ Passed
      <4>1. Last(i)' = Last(i)
        BY <1>3, <2>1, <3>2 DEF Last
      <4> QED BY <3>2, <4>1 DEF Decoded
    <3> QED BY <2>7, <3>1, <3>2
  <2>11. /\ \A i \in Passed' : Last(i)' <= Gone'
         /\ Len(decoded') = Cardinality(Passed')
         /\ \A i \in Passed' : decoded'[Cardinality({j \in Passed' : j <= i})] = frames'[i].payload
    BY <1>1, <2>2, <2>7, <2>8, SamePassed
  <2> QED BY <2>3, <2>9, <2>10, <2>11 DEF Decoded
<1>6. ASSUME NEW t \in Seq(Byte), stream' = stream \o t,
             UNCHANGED <<read, buffer, scanning, frames, decoded, cut, skipped>>
      PROVE  Rest' /\ Decoded'
  <2>1. Gone' = Gone /\ Whole' = Whole /\ Passed' = Passed
    BY <1>6 DEF Gone, Whole, Passed
  <2>2. \A i \in DOMAIN frames : Last(i)' = Last(i)
    BY <1>6 DEF Last
  <2>3. \A k \in 1..Len(stream) : stream'[k] = stream[k]
    BY <1>6, StreamGrows
  <2>4. Rest'
    BY <1>4, <1>6, <2>1, <2>3 DEF Rest
  <2>5. \A i \in Whole \ Passed : Last(i)' = Last(i)
    BY <1>3, <2>2
  <2>6. \A i \in Passed : frames'[i] = frames[i] /\ Last(i) \in Nat
    BY <1>2, <1>3, <1>6
  <2>7. /\ \A i \in Passed' : Last(i)' <= Gone'
        /\ Len(decoded') = Cardinality(Passed')
        /\ \A i \in Passed' : decoded'[Cardinality({j \in Passed' : j <= i})] = frames'[i].payload
    BY <1>1, <1>6, <2>1, <2>6, SamePassed
  <2>8. \A i \in DOMAIN frames' : frames'[i].at \in cut' => frames'[i].at <= Gone'
    BY <1>6, <2>1 DEF Decoded
  <2>9. ~scanning' /\ ~skipped' => \A i \in Whole' \ Passed' : read' < Last(i)'
    BY <1>6, <2>1, <2>5 DEF Decoded
  <2> QED BY <2>4, <2>7, <2>8, <2>9 DEF Decoded
<1>7. ASSUME NEW s \in Noise, SendNoise(s) PROVE Rest' /\ Decoded'
  <2>1. s \in Seq(Byte)
    BY FramingAssumption
  <2> QED BY <1>6, <1>7, <2>1 DEF SendNoise
<1>8. CASE UNCHANGED framingVars
  <2>1. <<>> \in Seq(Byte) /\ stream \o <<>> = stream
    BY EmptySeq, ConcatEmptySeq DEF FramingTypeOK
  <2> QED BY <1>6, <1>8, <2>1 DEF framingVars
<1>9. ASSUME NEW c \in Nat, ReadChunk(c) PROVE Rest' /\ Decoded'
  <2>1. PICK n \in Nat, r \in Nat, b \in Nat, g \in Nat :
          /\ n = Len(stream) /\ r = read /\ b = Len(buffer) /\ g = Gone
          /\ r = g + b /\ c \in 1..n - r /\ r <= n
    BY <1>1, <1>9 DEF ReadChunk
  <2> DEFINE t == SubSeq(stream, r + 1, r + c)
  <2>2. /\ t \in Seq(Byte) /\ Len(t) = c
        /\ \A k \in 1..c : t[k] = stream[r + k]
    <3>1. /\ r + 1 \in Nat \ {0} /\ r + c \in Nat /\ r + c <= Len(stream)
          /\ (r + c) + 1 - (r + 1) = c /\ (IF r + 1 <= r + c THEN (r + c) + 1 - (r + 1) ELSE 0) = c
          /\ \A k \in 1..c : (r + 1) + k - 1 = r + k
      BY <2>1
    <3>0. stream \in Seq(Byte)
      BY DEF FramingTypeOK
    <3>2. /\ t \in Seq(Byte)
          /\ Len(t) = IF r + 1 <= r + c THEN (r + c) + 1 - (r + 1) ELSE 0
          /\ \A k \in 1..(r + c) + 1 - (r + 1) : t[k] = stream[(r + 1) + k - 1]
      BY <3>0, <3>1, PartIs
    <3> QED BY <3>1, <3>2
  <2> HIDE DEF t
  <2>3. /\ buffer' = buffer \o t /\ read' = r + c /\ scanning'
        /\ UNCHANGED <<stream, frames, decoded, cut>>
    BY <1>9, <2>1 DEF ReadChunk, t
  <2>4. /\ Len(buffer') = b + c
        /\ \A k \in 1..b + c : buffer'[k] = IF k <= b THEN buffer[k] ELSE t[k - b]
    <3>1. buffer \in Seq(Byte)
      BY DEF FramingTypeOK
    <3>2. /\ Len(buffer \o t) = Len(buffer) + Len(t)
          /\ \A k \in 1..Len(buffer) + Len(t) :
               (buffer \o t)[k] = IF k <= Len(buffer) THEN buffer[k] ELSE t[k - Len(buffer)]
      BY <2>2, <3>1, ConcatProperties, Zenon
    <3> QED BY <2>1, <2>2, <2>3, <3>2
  <2>5. Gone' = Gone
    <3>1. Gone' = (r + c) - (b + c)
      BY <2>3, <2>4 DEF Gone
    <3> QED BY <2>1, <3>1
  <2>6. Rest'
    <3>1. ASSUME NEW k \in 1..b + c PROVE buffer'[k] = stream[g + k]
      <4>1. CASE k <= b
        <5>1. k \in 1..b
          BY <4>1
        <5> QED BY <1>4, <2>1, <2>4, <4>1, <5>1
      <4>2. CASE ~(k <= b)
        <5>1. k - b \in 1..c /\ r + (k - b) = g + k
          BY <2>1, <4>2
        <5> QED BY <2>2, <2>4, <4>2, <5>1
      <4> QED BY <4>1, <4>2
    <3>2. b + c <= r + c
      BY <2>1
    <3> QED BY <2>1, <2>3, <2>4, <2>5, <3>1, <3>2 DEF Rest
  <2>7. Whole' = Whole /\ Passed' = Passed
    BY <2>3, <2>5 DEF Whole, Passed
  <2>8. \A i \in Passed : frames'[i] = frames[i] /\ Last(i) \in Nat
    BY <1>2, <1>3, <2>3
  <2>9. /\ \A i \in Passed' : Last(i)' <= Gone'
        /\ Len(decoded') = Cardinality(Passed')
        /\ \A i \in Passed' : decoded'[Cardinality({j \in Passed' : j <= i})] = frames'[i].payload
    BY <1>1, <2>3, <2>5, <2>7, <2>8, SamePassed
  <2>10. \A i \in DOMAIN frames' : frames'[i].at \in cut' => frames'[i].at <= Gone'
    BY <2>3, <2>5 DEF Decoded
  <2> QED BY <2>3, <2>6, <2>9, <2>10 DEF Decoded
<1>10. PICK c \in 1..Len(buffer) + 1 :
         /\ FindFrame(buffer).rest = From(buffer, c)
         /\ DropsAll => c = Len(buffer) + 1
         /\ IF FindFrame(buffer).found THEN NextWhole(c) ELSE NoneWhole(c)
  BY NextInBuffer
<1>11. CASE Extract
  <2>1. /\ buffer' = From(buffer, c) /\ decoded' = Append(decoded, FindFrame(buffer).payload)
        /\ UNCHANGED <<stream, read, scanning, frames, cut>> /\ scanning /\ NextWhole(c)
    BY <1>10, <1>11 DEF Extract
  <2>2. PICK i \in Whole \ Passed :
          /\ FindFrame(buffer).payload = frames[i].payload
          /\ Last(i) = Gone + c - 1
          /\ \A j \in Whole \ Passed : frames[j].at >= frames[i].at
    BY <2>1 DEF NextWhole
  <2>3. Rest' /\ Gone' = Gone + c - 1 /\ Gone' \in Nat /\ c \in Nat /\ Gone' >= Gone
    <3>1. Rest' /\ Gone' = Gone + c - 1 /\ Gone' \in Nat /\ c \in Nat
      BY <2>1, RestFrom
    <3> QED BY <1>1, <3>1
  <2>4. Whole' = Whole /\ \A j \in DOMAIN frames : Last(j)' = Last(j)
    BY <2>1 DEF Whole, Last
  <2>5. Passed' = Passed \cup {i}
    <3>1. ASSUME NEW j \in Passed PROVE frames[j].at <= Gone'
      BY <1>1, <1>2, <1>3, <2>3 DEF Passed
    <3>2. frames[i].at <= Gone'
      BY <1>2, <1>3, <2>2, <2>3
    <3>3. ASSUME NEW j \in Whole \ Passed, j # i PROVE ~(frames[j].at <= Gone')
      <4>1. i \in DOMAIN frames /\ j \in DOMAIN frames /\ frames[j].at >= frames[i].at
        BY <1>3, <2>2
      <4>2. j < i => Last(j) < frames[i].at
        BY <4>1 DEF Layout
      <4>3. i < j => Last(i) < frames[j].at
        BY <4>1 DEF Layout
      <4>4. ~(j < i)
        BY <1>2, <4>1, <4>2
      <4>5. Last(i) < frames[j].at
        BY <1>2, <3>3, <4>1, <4>3, <4>4
      <4> QED BY <1>2, <2>2, <2>3, <4>1, <4>5
    <3> QED BY <1>3, <2>1, <2>4, <3>1, <3>2, <3>3 DEF Passed
  <2>6. \A j \in Passed : j \in Nat /\ i \in Nat /\ j < i
    BY GoneFirst
  <2>7. IsFiniteSet(Passed) /\ Cardinality(Passed) \in Nat
    BY PassedFinite
  <2>8. PICK n \in Nat : n = Cardinality(Passed) /\ n = Len(decoded)
    BY <2>7 DEF Decoded
  <2>9. Cardinality(Passed') = n + 1
    BY <2>5, <2>7, <2>8, FS_AddElement
  <2>10. /\ Len(decoded') = n + 1 /\ decoded'[n + 1] = frames[i].payload
         /\ \A k \in 1..n : decoded'[k] = decoded[k]
    <3>1. FindFrame(buffer).payload \in Seq(Byte) /\ decoded \in Seq(Seq(Byte))
      BY FindFrameType DEF Found, FramingTypeOK
    <3> QED BY <2>1, <2>2, <2>8, <3>1, AppendProperties
  <2>11. ASSUME NEW j \in Passed'
         PROVE  decoded'[Cardinality({k \in Passed' : k <= j})] = frames[j].payload
    <3>1. CASE j = i
      <4>1. i \in Nat
        BY <1>2, <1>3
      <4>2. {k \in Passed' : k <= i} = Passed'
        BY <2>5, <2>6, <4>1
      <4> QED BY <2>9, <2>10, <3>1, <4>2
    <3>2. CASE j \in Passed
      <4> DEFINE S == {k \in Passed : k <= j}
      <4>1. {k \in Passed' : k <= j} = S
        BY <2>5, <2>6, <3>2
      <4>2. S \subseteq Passed /\ j \in S
        BY <2>6, <3>2
      <4> HIDE DEF S
      <4>3. IsFiniteSet(S) /\ Cardinality(S) <= n /\ Cardinality(S) \in Nat
        BY <2>7, <2>8, <4>2, FS_Subset, FS_CardinalityType
      <4>4. Cardinality(S) # 0
        BY <4>2, <4>3, FS_EmptySet
      <4>5. Cardinality(S) \in 1..n
        BY <4>3, <4>4
      <4>6. decoded[Cardinality(S)] = frames[j].payload
        BY <3>2 DEF Decoded, S
      <4> QED BY <2>10, <4>1, <4>5, <4>6
    <3> QED BY <2>5, <3>1, <3>2
  <2>12. ASSUME NEW j \in Passed' PROVE Last(j)' <= Gone'
    <3>1. CASE j = i
      BY <1>2, <1>3, <2>2, <2>3, <2>4, <3>1
    <3>2. CASE j \in Passed
      <4>1. Last(j) <= Gone
        BY <3>2 DEF Decoded
      <4> QED BY <1>1, <1>2, <1>3, <2>3, <2>4, <3>2, <4>1
    <3> QED BY <2>5, <3>1, <3>2
  <2>13. \A j \in DOMAIN frames : frames[j].at \in cut => frames[j].at <= Gone'
    <3>1. \A j \in DOMAIN frames : frames[j].at \in cut => frames[j].at <= Gone
      BY DEF Decoded
    <3> QED BY <1>1, <1>2, <2>3, <3>1
  <2> QED BY <2>1, <2>3, <2>9, <2>10, <2>11, <2>12, <2>13 DEF Decoded
<1>12. CASE NoMoreFrames
  <2>1. /\ buffer' = From(buffer, c) /\ decoded' = decoded /\ skipped' = BadLength(buffer)
        /\ UNCHANGED <<stream, read, frames>> /\ NoneWhole(c)
        /\ cut' = IF DropsAll THEN cut \cup ({read} \cap {frames[i].at : i \in DOMAIN frames}) ELSE cut
    BY <1>10, <1>12 DEF NoMoreFrames, DropsAll
  <2>2. Rest' /\ Gone' = Gone + c - 1 /\ Gone' \in Nat /\ c \in Nat /\ Gone' >= Gone
    <3>1. Rest' /\ Gone' = Gone + c - 1 /\ Gone' \in Nat /\ c \in Nat
      BY <2>1, RestFrom
    <3> QED BY <1>1, <3>1
  <2>3. \A j \in DOMAIN frames : Last(j)' = Last(j)
    BY <2>1 DEF Last
  <2>4. Whole' \subseteq Whole
    BY <2>1 DEF Whole
  <2>5. ASSUME NEW j \in Passed PROVE j \in Whole' /\ frames[j].at <= Gone'
    <3>1. frames[j].at <= Gone /\ Last(j) <= Gone
      BY DEF Passed, Decoded
    <3>2. j \in DOMAIN frames /\ frames[j].at \notin cut
      BY DEF Passed, Whole
    <3>3. frames[j].at # read
      BY <1>1, <1>2, <3>1, <3>2
    <3> QED BY <1>1, <1>2, <2>1, <2>2, <3>1, <3>2, <3>3 DEF Whole
  <2>6. ASSUME NEW j \in Whole', j \notin Passed PROVE ~(frames[j].at <= Gone')
    <3>1. j \in Whole \ Passed /\ j \in DOMAIN frames
      BY <1>3, <2>4, <2>6
    <3>2. frames[j].at >= Gone + c \/ (DropsAll /\ frames[j].at = read)
      BY <2>1, <3>1 DEF NoneWhole
    <3>3. ~(DropsAll /\ frames[j].at = read)
      BY <2>1, <2>6, <3>1 DEF Whole
    <3> QED BY <1>1, <1>2, <2>2, <3>1, <3>2, <3>3
  <2>7. Passed' = Passed
    BY <1>3, <2>1, <2>4, <2>5, <2>6 DEF Passed
  <2>8. \A j \in Passed : frames'[j] = frames[j] /\ Last(j) \in Nat
    BY <1>2, <1>3, <2>1
  <2>9. /\ \A i \in Passed' : Last(i)' <= Gone'
        /\ Len(decoded') = Cardinality(Passed')
        /\ \A i \in Passed' : decoded'[Cardinality({j \in Passed' : j <= i})] = frames'[i].payload
    BY <1>1, <2>1, <2>2, <2>7, <2>8, SamePassed
  <2>10. \A j \in DOMAIN frames : frames[j].at \in cut' => frames[j].at <= Gone'
    <3> SUFFICES ASSUME NEW j \in DOMAIN frames, frames[j].at \in cut' PROVE frames[j].at <= Gone'
      OBVIOUS
    <3>1. CASE frames[j].at \in cut
      <4>1. frames[j].at <= Gone
        BY <3>1 DEF Decoded
      <4> QED BY <1>1, <1>2, <2>2, <4>1
    <3>2. CASE DropsAll /\ frames[j].at = read
      <4>1. c = Len(buffer) + 1
        BY <1>10, <3>2
      <4> QED BY <1>1, <2>2, <3>2, <4>1
    <3> QED BY <2>1, <3>1, <3>2
  <2>11. ~skipped' => \A i \in Whole' \ Passed' : read' < Last(i)'
    <3>1. ~skipped' => \A j \in Whole \ Passed : read < Last(j)
      BY <2>1 DEF NoneWhole
    <3>2. \A j \in Whole' \ Passed' : j \in Whole \ Passed /\ Last(j)' = Last(j)
      BY <1>3, <2>3, <2>4, <2>7
    <3> QED BY <2>1, <3>1, <3>2
  <2> QED BY <2>1, <2>2, <2>9, <2>10, <2>11 DEF Decoded
<1>13. \A n \in 1..Len(stream) : n \in Nat
  OBVIOUS
<1> QED BY <1>5, <1>7, <1>8, <1>9, <1>11, <1>12, <1>13 DEF FramingNext

NoiseInv == FramingTypeOK /\ Layout /\ Between /\ (PlainCuts => Rest /\ Decoded)

LEMMA NoiseInit == FramingInit => NoiseInv
<1> SUFFICES ASSUME FramingInit PROVE NoiseInv
  OBVIOUS
<1>1. FramingTypeOK
  BY FramingTypeInit
<1>2. /\ read = 0 /\ cut = {} /\ DOMAIN frames = {}
      /\ Len(stream) = 0 /\ Len(buffer) = 0 /\ Len(decoded) = 0
  BY EmptySeq DEF FramingInit
<1>3. Layout /\ Between
  BY <1>2 DEF Layout, Between
<1>4. Whole = {} /\ Passed = {} /\ Cardinality({}) = 0
  BY <1>2, FS_EmptySet DEF Whole, Passed
<1>5. Rest /\ Decoded
  BY <1>2, <1>4 DEF Rest, Decoded, Gone
<1> QED BY <1>1, <1>3, <1>5 DEF NoiseInv

(* What is decoded is what was sent in whole frames, in order and once,    *)
(* and a frame that has come in completely does not wait for more bytes:   *)
(* for every noise whose start bytes begin nothing that could be a frame.  *)
THEOREM NoiseDoesNoHarm ==
  ASSUME \A s \in Noise : Harmless(s)
  PROVE  FramingSpec => []DecodedAsSent
<1>1. NoiseInv => DecodedAsSent
  <2> SUFFICES ASSUME FramingTypeOK, Layout, Rest, Decoded
               PROVE  /\ Len(decoded) <= Cardinality(Whole)
                      /\ \A i \in Whole : Rank(i) <= Len(decoded) => decoded[Rank(i)] = frames[i].payload
                      /\ ~scanning /\ ~skipped /\ read = Len(stream) => Len(decoded) = Cardinality(Whole)
    BY DEF NoiseInv, DecodedAsSent
  <2>1. /\ IsFiniteSet(Whole) /\ IsFiniteSet(Passed) /\ Passed \subseteq Whole
        /\ Cardinality(Whole) \in Nat /\ Cardinality(Passed) \in Nat
    BY PassedFinite
  <2>2. Len(decoded) = Cardinality(Passed) /\ Cardinality(Passed) <= Cardinality(Whole)
    BY <2>1, FS_Subset DEF Decoded
  <2>3. \A i \in Passed, j \in Whole \ Passed : i \in Nat /\ j \in Nat /\ i < j
    BY GoneFirst
  <2>4. Whole \subseteq Nat
    BY FrameIs DEF Whole
  <2>5. ASSUME NEW i \in Whole, Rank(i) <= Len(decoded) PROVE decoded[Rank(i)] = frames[i].payload
    <3>1. i \in Passed
      <4> SUFFICES ASSUME i \notin Passed PROVE FALSE
        OBVIOUS
      <4> DEFINE S == {j \in Whole : j <= i}
      <4>1. Passed \cup {i} \subseteq S /\ S \subseteq Whole
        BY <2>1, <2>3, <2>4
      <4>2. IsFiniteSet(Passed \cup {i}) /\ Cardinality(Passed \cup {i}) = Cardinality(Passed) + 1
        BY <2>1, FS_AddElement
      <4> HIDE DEF S
      <4>3. IsFiniteSet(S) /\ Cardinality(Passed \cup {i}) <= Cardinality(S) /\ Cardinality(S) \in Nat
        BY <2>1, <4>1, FS_Subset, FS_CardinalityType
      <4>4. Rank(i) = Cardinality(S)
        BY DEF Rank, S
      <4> QED BY <2>1, <2>2, <2>5, <4>2, <4>3, <4>4
    <3>2. {j \in Whole : j <= i} = {j \in Passed : j <= i}
      <4>1. \A j \in Whole \ Passed : ~(j <= i)
        BY <2>3, <3>1
      <4> QED BY <2>1, <4>1
    <3> QED BY <3>1, <3>2 DEF Decoded, Rank
  <2>6. ASSUME ~scanning, ~skipped, read = Len(stream) PROVE Len(decoded) = Cardinality(Whole)
    <3>1. ASSUME NEW j \in Whole \ Passed PROVE FALSE
      <4>1. read < Last(j)
        BY <2>6 DEF Decoded
      <4>2. j \in DOMAIN frames
        BY DEF Whole
      <4>3. Last(j) \in Nat /\ Last(j) <= Len(stream) /\ Len(stream) \in Nat
        BY <4>2, FrameIs DEF Layout, FramingTypeOK
      <4> QED BY <2>6, <4>1, <4>3
    <3>2. Passed = Whole
      BY <2>1, <3>1
    <3> QED BY <2>2, <3>2
  <2> QED BY <2>2, <2>5, <2>6
<1>2. NoiseInv /\ [FramingNext]_framingVars => NoiseInv'
  <2> SUFFICES ASSUME NoiseInv, [FramingNext]_framingVars PROVE NoiseInv'
    OBVIOUS
  <2>1. FramingTypeOK /\ FramingTypeOK' /\ Layout /\ Between
    BY FramingTypeStep DEF NoiseInv
  <2>2. Layout' /\ Between'
    BY <2>1, LayoutStep
  <2>3. ASSUME PlainCuts' PROVE Rest' /\ Decoded'
    <3>1. PlainCuts
      BY <2>1, <2>3, PlainCutsBack
    <3>2. Rest /\ Decoded
      BY <3>1 DEF NoiseInv
    <3> QED BY <2>1, <3>1, <3>2, DecodedStep
  <2> QED BY <2>1, <2>2, <2>3 DEF NoiseInv
<1> QED BY <1>1, <1>2, NoiseInit, PTL DEF FramingSpec
==============================================================================
