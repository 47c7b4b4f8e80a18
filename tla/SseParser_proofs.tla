--------------------------- MODULE SseParser_proofs ---------------------------
(***************************************************************************)
(* Theorems about SseParser: for every set of bytes and every stream, of   *)
(* any length and cut anywhere, the parser keeps nothing that it has       *)
(* answered and implements EventStream.                                    *)
(***************************************************************************)
EXTENDS SseParser, SequenceTheorems, TLAPS

-----------------------------------------------------------------------------
(* The parts of a sequence *)

\* A part of a sequence has the elements of the sequence from there on.
LEMMA PartOf ==
    ASSUME NEW S, NEW s \in Seq(S),
           NEW m \in 1 .. Len(s) + 1, NEW n \in m - 1 .. Len(s)
    PROVE  /\ SubSeq(s, m, n) \in Seq(S)
           /\ Len(SubSeq(s, m, n)) = n - m + 1
           /\ \A i \in 1 .. n - m + 1 : SubSeq(s, m, n)[i] = s[m + i - 1]
<1>1. Len(s) \in Nat /\ m \in Int /\ n \in Int
  BY LenProperties
<1>2. \A i \in m .. n : s[i] \in S
  BY <1>1, ElementOfSeq
<1> QED BY <1>1, <1>2, SubSeqProperties

\* Two parts of two sequences are the same if their elements are.
LEMMA SameParts ==
    ASSUME NEW S, NEW s \in Seq(S), NEW u \in Seq(S),
           NEW m \in 1 .. Len(s) + 1, NEW n \in m - 1 .. Len(s),
           NEW d \in Nat, n + d <= Len(u),
           \A i \in m .. n : u[d + i] = s[i]
    PROVE  SubSeq(s, m, n) = SubSeq(u, d + m, d + n)
<1> DEFINE a == SubSeq(s, m, n)
           b == SubSeq(u, d + m, d + n)
<1>1. Len(s) \in Nat /\ Len(u) \in Nat
  BY LenProperties
<1>2. /\ a \in Seq(S) /\ Len(a) = n - m + 1
      /\ \A i \in 1 .. n - m + 1 : a[i] = s[m + i - 1]
  BY PartOf
<1>3. d + m \in 1 .. Len(u) + 1 /\ d + n \in d + m - 1 .. Len(u)
  BY <1>1
<1>4. /\ b \in Seq(S) /\ Len(b) = (d + n) - (d + m) + 1
      /\ \A i \in 1 .. (d + n) - (d + m) + 1 : b[i] = u[(d + m) + i - 1]
  BY <1>3, PartOf
<1>5. Len(b) = n - m + 1
  BY <1>1, <1>4
<1>6. ASSUME NEW i \in 1 .. n - m + 1
      PROVE  a[i] = b[i]
  <2>1. m + i - 1 \in m .. n /\ (d + m) + i - 1 = d + (m + i - 1)
    BY <1>1
  <2>2. i \in 1 .. (d + n) - (d + m) + 1
    BY <1>1
  <2>3. a[i] = s[m + i - 1] /\ b[i] = u[(d + m) + i - 1]
    BY <1>2, <1>4, <2>2
  <2> QED BY <2>1, <2>3
<1> HIDE DEF a, b
<1>7. Len(a) = Len(b) /\ \A i \in 1 .. Len(a) : a[i] = b[i]
  BY <1>2, <1>5, <1>6
<1>8. a = b
  BY <1>2, <1>4, <1>7, SeqEqual
<1> QED BY <1>8 DEF a, b

-----------------------------------------------------------------------------
(* Cutting the first frame off the buffer *)

\* The first blank line has no blank line before it.
LEMMA FirstIsFirst ==
    ASSUME TypeOK, NEW t, FirstTerminator(t)
    PROVE  /\ Len(buffer) \in Nat /\ t \in Int /\ 1 <= t /\ t < Len(buffer)
           /\ buffer[t] = LF /\ buffer[t + 1] = LF
           /\ \A i \in 1 .. t - 1 : buffer[i] # LF \/ buffer[i + 1] # LF
<1>1. buffer \in Seq(Byte)
  BY DEF TypeOK
<1>2. Len(buffer) \in Nat
  BY <1>1, LenProperties
<1>3. t \in 1 .. Len(buffer) - 1 /\ buffer[t] = LF /\ buffer[t + 1] = LF
  BY DEF FirstTerminator, Terminators
<1>4. ASSUME NEW i \in 1 .. t - 1, buffer[i] = LF, buffer[i + 1] = LF
      PROVE  FALSE
  <2>1. i \in Terminators
    BY <1>2, <1>3, <1>4 DEF Terminators
  <2>2. t <= i
    BY <2>1 DEF FirstTerminator
  <2> QED BY <1>3, <2>2
<1> QED BY <1>2, <1>3, <1>4

\* What is left of the buffer, and what was cut off.
LEMMA CutOff ==
    ASSUME TypeOK, NEW t, FirstTerminator(t)
    PROVE  /\ Drained(t) \in Seq(Byte)
           /\ Len(Drained(t)) = Len(buffer) - (t + 1)
           /\ \A i \in 1 .. Len(buffer) - (t + 1) : Drained(t)[i] = buffer[(t + 1) + i]
           /\ SubSeq(buffer, 1, t + 1) \in Seq(Byte)
           /\ Len(SubSeq(buffer, 1, t + 1)) = t + 1
           /\ \A i \in 1 .. t + 1 : SubSeq(buffer, 1, t + 1)[i] = buffer[i]
<1>1. buffer \in Seq(Byte)
  BY DEF TypeOK
<1>2. Len(buffer) \in Nat /\ t \in Int /\ 1 <= t /\ t < Len(buffer)
  BY FirstIsFirst
<1>3. /\ t + 2 \in 1 .. Len(buffer) + 1 /\ Len(buffer) \in (t + 2) - 1 .. Len(buffer)
      /\ 1 \in 1 .. Len(buffer) + 1 /\ t + 1 \in 1 - 1 .. Len(buffer)
  BY <1>2
<1>4. /\ Drained(t) \in Seq(Byte)
      /\ Len(Drained(t)) = Len(buffer) - (t + 2) + 1
      /\ \A i \in 1 .. Len(buffer) - (t + 2) + 1 : Drained(t)[i] = buffer[(t + 2) + i - 1]
  BY <1>1, <1>3, PartOf DEF Drained
<1>5. /\ SubSeq(buffer, 1, t + 1) \in Seq(Byte)
      /\ Len(SubSeq(buffer, 1, t + 1)) = (t + 1) - 1 + 1
      /\ \A i \in 1 .. (t + 1) - 1 + 1 : SubSeq(buffer, 1, t + 1)[i] = buffer[1 + i - 1]
  BY <1>1, <1>3, PartOf
<1>6. Len(Drained(t)) = Len(buffer) - (t + 1) /\ Len(SubSeq(buffer, 1, t + 1)) = t + 1
  BY <1>2, <1>4, <1>5
<1>7. ASSUME NEW i \in 1 .. Len(buffer) - (t + 1)
      PROVE  Drained(t)[i] = buffer[(t + 1) + i]
  <2>1. i \in 1 .. Len(buffer) - (t + 2) + 1 /\ (t + 2) + i - 1 = (t + 1) + i
    BY <1>2
  <2> QED BY <1>4, <2>1
<1>8. ASSUME NEW i \in 1 .. t + 1
      PROVE  SubSeq(buffer, 1, t + 1)[i] = buffer[i]
  <2>1. i \in 1 .. (t + 1) - 1 + 1 /\ 1 + i - 1 = i
    BY <1>2
  <2> QED BY <1>5, <2>1
<1> QED BY <1>4, <1>5, <1>6, <1>7, <1>8

-----------------------------------------------------------------------------
(* The invariant, action by action *)

Lengths ==
    /\ Len(text) \in Nat /\ Len(buffer) \in Nat /\ Len(frame) \in Nat

LEMMA LengthsAreNumbers == TypeOK => Lengths
  BY LenProperties DEF TypeOK, Lengths

LEMMA InitHolds == Init => ParserInv
<1> SUFFICES ASSUME Init PROVE ParserInv
  OBVIOUS
<1>1. TypeOK
  <2>1. stream \in Seq(Byte)
    BY SseAssumption DEF Init
  <2>2. <<>> \in Seq(Byte) /\ <<>> \in Seq(Byte \ {CR}) /\ <<>> \in Seq(Seq(Byte))
    OBVIOUS
  <2>3. NoLines \in [any : BOOLEAN, joined : Seq(Byte)]
    BY <2>2 DEF NoLines
  <2> QED BY <2>1, <2>2, <2>3 DEF Init, TypeOK, PumpPC
<1>2. Base = 0 /\ Len(frame) = 0 /\ Len(buffer) = 0
  <2>1. Len(text) = 0 /\ Len(frame) = 0 /\ Len(buffer) = 0
    BY DEF Init
  <2> QED BY <2>1 DEF Base
<1>3. Tiling
  BY <1>2 DEF Tiling
<1>4. FrameOK
  BY DEF Init, FrameOK
<1>5. Terminators = {}
  BY <1>2 DEF Terminators
<1> QED BY <1>1, <1>3, <1>4, <1>5 DEF ParserInv

LEMMA FeedKeeps == ParserInv /\ feed => ParserInv'
<1> SUFFICES ASSUME ParserInv, feed PROVE ParserInv'
  OBVIOUS
<1> DEFINE b == stream[at + 1]
<1>1. TypeOK /\ Tiling /\ FrameOK
  BY DEF ParserInv
<1>2. frame = <<>> /\ scan = 0 /\ data_lines = NoLines
  BY <1>1 DEF FrameOK, feed
<1>3. b \in Byte
  <2>1. stream \in Seq(Byte) /\ at \in Nat /\ Len(stream) \in Nat
    BY <1>1, LenProperties DEF TypeOK
  <2>2. at + 1 \in 1 .. Len(stream)
    BY <2>1 DEF feed
  <2> QED BY <2>1, <2>2, ElementOfSeq
<1>4. FrameOK' /\ pc' = "feed"
  BY <1>2 DEF FrameOK, feed
<1>5. CASE b = CR
  <2>1. text' = text /\ buffer' = buffer /\ frame' = frame
    BY <1>5 DEF feed, push
  <2>2. TypeOK'
    BY <1>1, <2>1 DEF TypeOK, feed, PumpPC
  <2>3. Tiling'
    BY <1>1, <2>1 DEF Tiling, Base
  <2> QED BY <1>4, <2>2, <2>3 DEF ParserInv
<1>6. CASE b # CR
  <2>1. text' = Append(text, b) /\ buffer' = Append(buffer, b) /\ frame' = frame
    BY <1>6 DEF feed, push
  <2>2. /\ text \in Seq(Byte \ {CR}) /\ buffer \in Seq(Byte) /\ b \in Byte \ {CR}
    BY <1>1, <1>3, <1>6 DEF TypeOK
  <2> HIDE DEF b
  <2>3. /\ text' \in Seq(Byte \ {CR}) /\ Len(text') = Len(text) + 1
        /\ \A i \in 1 .. Len(text) : text'[i] = text[i]
        /\ text'[Len(text) + 1] = b
    BY <2>1, <2>2, AppendProperties
  <2>4. /\ buffer' \in Seq(Byte) /\ Len(buffer') = Len(buffer) + 1
        /\ \A i \in 1 .. Len(buffer) : buffer'[i] = buffer[i]
        /\ buffer'[Len(buffer) + 1] = b
    BY <1>3, <2>1, <2>2, AppendProperties
  <2>5. TypeOK'
    BY <1>1, <2>3, <2>4 DEF TypeOK, feed, PumpPC
  <2>6. /\ Len(text) \in Nat /\ Len(buffer) \in Nat /\ Len(frame) = 0 /\ Len(frame') = 0
    BY <1>1, <1>2, <2>1, LengthsAreNumbers DEF Lengths
  <2>7. Base = Len(text) - Len(buffer) /\ Base >= 0 /\ Base' = Base
    BY <1>1, <2>3, <2>4, <2>6 DEF Base, Tiling
  <2>8. \A i \in 1 .. Len(buffer) : text[Base + i] = buffer[i]
    BY <1>1, <2>6, <2>7 DEF Tiling
  <2>9. ASSUME NEW i \in 1 .. Len(buffer')
        PROVE  text'[Base' + Len(frame') + i] = buffer'[i]
    <3>1. Base' + Len(frame') + i = Base + i
      BY <2>6, <2>7
    <3>2. CASE i = Len(buffer) + 1
      <4>1. Base + i = Len(text) + 1
        BY <2>6, <2>7, <3>2
      <4> QED BY <2>3, <2>4, <3>1, <3>2, <4>1
    <3>3. CASE i \in 1 .. Len(buffer)
      <4>1. Base + i \in 1 .. Len(text)
        BY <2>6, <2>7, <3>3
      <4>2. text'[Base + i] = text[Base + i] /\ buffer'[i] = buffer[i]
        BY <2>3, <2>4, <3>3, <4>1
      <4> QED BY <2>8, <3>1, <3>3, <4>2
    <3> QED BY <2>4, <2>6, <3>2, <3>3
  <2>10. Base' # 0 => Base' > 1 /\ text'[Base' - 1] = LF /\ text'[Base'] = LF
    <3> SUFFICES ASSUME Base # 0
                 PROVE  Base > 1 /\ text'[Base - 1] = LF /\ text'[Base] = LF
      BY <2>7
    <3>1. Base > 1 /\ text[Base - 1] = LF /\ text[Base] = LF
      BY <1>1 DEF Tiling
    <3>2. Base - 1 \in 1 .. Len(text) /\ Base \in 1 .. Len(text)
      BY <2>6, <2>7, <3>1
    <3> QED BY <2>3, <3>1, <3>2
  <2>11. \A i \in 1 .. Len(frame') : text'[Base' + i] = frame'[i]
    BY <2>6
  <2>12. Base' >= 0
    BY <2>7
  <2>13. Tiling'
    BY <2>9, <2>10, <2>11, <2>12 DEF Tiling
  <2> QED BY <1>4, <2>5, <2>13 DEF ParserInv
<1> QED BY <1>5, <1>6

LEMMA IdleStepsKeep == ParserInv /\ (ChunkEnds \/ NextNone \/ Sent) => ParserInv'
<1> SUFFICES ASSUME ParserInv, ChunkEnds \/ NextNone \/ Sent PROVE ParserInv'
  OBVIOUS
<1>1. /\ stream' = stream /\ at' = at /\ text' = text /\ buffer' = buffer
      /\ frame' = frame /\ scan' = scan /\ data_lines' = data_lines /\ events' = events
      /\ pc # "lines" /\ pc' \in {"next_event", "chunk"}
      /\ pc' = "chunk" => Terminators = {}
  BY DEF ChunkEnds, NextNone, Sent
<1>2. TypeOK'
  BY <1>1 DEF ParserInv, TypeOK, PumpPC
<1>3. Tiling'
  BY <1>1 DEF ParserInv, Tiling, Base
<1>4. FrameOK'
  BY <1>1 DEF ParserInv, FrameOK
<1>5. pc' = "chunk" => Terminators' = {}
  BY <1>1 DEF Terminators
<1> QED BY <1>2, <1>3, <1>4, <1>5 DEF ParserInv

LEMMA EndKeeps == ParserInv /\ End => ParserInv'
<1> SUFFICES ASSUME End PROVE ParserInv'
  OBVIOUS
<1>1. TypeOK'
  <2>1. <<>> \in Seq(Byte) /\ <<>> \in Seq(Byte \ {CR}) /\ <<>> \in Seq(Seq(Byte))
    OBVIOUS
  <2>2. NoLines \in [any : BOOLEAN, joined : Seq(Byte)]
    BY <2>1 DEF NoLines
  <2> QED BY <2>1, <2>2 DEF End, TypeOK, PumpPC
<1>2. Base' = 0 /\ Len(frame') = 0 /\ Len(buffer') = 0
  <2>1. Len(text') = 0 /\ Len(frame') = 0 /\ Len(buffer') = 0
    BY DEF End
  <2> QED BY <2>1 DEF Base
<1>3. Tiling'
  BY <1>2 DEF Tiling
<1>4. FrameOK'
  BY DEF End, FrameOK
<1>5. Terminators' = {}
  BY <1>2 DEF Terminators
<1> QED BY <1>1, <1>3, <1>4, <1>5 DEF ParserInv

\* Nothing is read while next_event looks for a frame.
LEMMA NothingRead ==
    ASSUME ParserInv, pc # "lines"
    PROVE  /\ frame = <<>> /\ Len(frame) = 0 /\ scan = 0 /\ data_lines = NoLines
           /\ Lengths /\ Base \in Nat /\ Base = Len(text) - Len(buffer)
           /\ \A i \in 1 .. Len(buffer) : text[Base + i] = buffer[i]
<1>1. TypeOK /\ Tiling /\ FrameOK
  BY DEF ParserInv
<1>2. frame = <<>> /\ scan = 0 /\ data_lines = NoLines
  BY <1>1 DEF FrameOK
<1>3. Lengths /\ Len(frame) = 0
  BY <1>1, <1>2, LengthsAreNumbers
<1>4. Base \in Nat /\ Base = Len(text) - Len(buffer)
  BY <1>1, <1>3 DEF Lengths, Base, Tiling
<1>5. ASSUME NEW i \in 1 .. Len(buffer)
      PROVE  text[Base + i] = buffer[i]
  <2>1. Base + Len(frame) + i = Base + i
    BY <1>3, <1>4 DEF Lengths
  <2> QED BY <1>1, <2>1 DEF Tiling
<1> QED BY <1>2, <1>3, <1>4, <1>5

LEMMA SkipFrameKeeps ==
    ASSUME ParserInv, NEW t, SkipFrame(t)
    PROVE  ParserInv'
<1>1. TypeOK /\ FrameOK /\ FirstTerminator(t) /\ pc = "next_event"
  BY DEF ParserInv, SkipFrame
<1>2. /\ Len(frame) = 0 /\ Lengths /\ Base \in Nat /\ Base = Len(text) - Len(buffer)
      /\ \A i \in 1 .. Len(buffer) : text[Base + i] = buffer[i]
  BY <1>1, NothingRead
<1>3. /\ text' = text /\ frame' = frame /\ buffer' = Drained(t) /\ pc' = "next_event"
  BY <1>1 DEF SkipFrame
<1>4. /\ buffer' \in Seq(Byte) /\ Len(buffer') = Len(buffer) - (t + 1)
      /\ \A i \in 1 .. Len(buffer) - (t + 1) : buffer'[i] = buffer[(t + 1) + i]
  BY <1>1, <1>3, CutOff
<1>5. /\ Len(buffer) \in Nat /\ t \in Int /\ 1 <= t /\ t < Len(buffer)
      /\ buffer[t] = LF /\ buffer[t + 1] = LF
  BY <1>1, FirstIsFirst
<1>6. TypeOK'
  BY <1>1, <1>4 DEF TypeOK, SkipFrame, PumpPC
<1>7. FrameOK'
  BY <1>1 DEF FrameOK, SkipFrame
<1>8. Base' = Base + (t + 1) /\ Len(frame') = 0
  BY <1>2, <1>3, <1>4, <1>5 DEF Base, Lengths
<1>9. ASSUME NEW i \in 1 .. Len(buffer')
      PROVE  text'[Base' + Len(frame') + i] = buffer'[i]
  <2>1. i \in 1 .. Len(buffer) - (t + 1) /\ (t + 1) + i \in 1 .. Len(buffer)
    BY <1>4, <1>5
  <2>2. Base' + Len(frame') + i = Base + ((t + 1) + i)
    BY <1>2, <1>5, <1>8
  <2> QED BY <1>2, <1>3, <1>4, <2>1, <2>2
<1>10. Base' > 1 /\ text'[Base' - 1] = LF /\ text'[Base'] = LF
  <2>1. Base' > 1 /\ Base' - 1 = Base + t /\ Base' = Base + (t + 1)
    BY <1>2, <1>5, <1>8
  <2>2. t \in 1 .. Len(buffer) /\ t + 1 \in 1 .. Len(buffer)
    BY <1>5
  <2> QED BY <1>2, <1>3, <1>5, <2>1, <2>2
<1>11. Base' >= 0 /\ \A i \in 1 .. Len(frame') : text'[Base' + i] = frame'[i]
  BY <1>2, <1>5, <1>8
<1>12. Tiling'
  BY <1>9, <1>10, <1>11 DEF Tiling
<1> QED BY <1>3, <1>6, <1>7, <1>12 DEF ParserInv

LEMMA TakeFrameKeeps ==
    ASSUME ParserInv, NEW t, TakeFrame(t)
    PROVE  ParserInv'
<1>1. TypeOK /\ Tiling /\ FrameOK /\ FirstTerminator(t) /\ IsUtf8(t) /\ pc = "next_event"
  BY DEF ParserInv, TakeFrame
<1>2. /\ Len(frame) = 0 /\ Lengths /\ Base \in Nat /\ Base = Len(text) - Len(buffer)
      /\ \A i \in 1 .. Len(buffer) : text[Base + i] = buffer[i]
      /\ scan = 0 /\ data_lines = NoLines
  BY <1>1, NothingRead
<1>3. /\ text' = text /\ frame' = SubSeq(buffer, 1, t + 1) /\ buffer' = Drained(t)
      /\ pc' = "lines" /\ scan' = scan /\ data_lines' = data_lines
  BY <1>1 DEF TakeFrame
<1>4. /\ buffer' \in Seq(Byte) /\ Len(buffer') = Len(buffer) - (t + 1)
      /\ \A i \in 1 .. Len(buffer) - (t + 1) : buffer'[i] = buffer[(t + 1) + i]
      /\ frame' \in Seq(Byte) /\ Len(frame') = t + 1
      /\ \A i \in 1 .. t + 1 : frame'[i] = buffer[i]
  BY <1>1, <1>3, CutOff
<1>5. /\ Len(buffer) \in Nat /\ t \in Int /\ 1 <= t /\ t < Len(buffer)
      /\ buffer[t] = LF /\ buffer[t + 1] = LF
      /\ \A i \in 1 .. t - 1 : buffer[i] # LF \/ buffer[i + 1] # LF
  BY <1>1, FirstIsFirst
<1>6. TypeOK'
  BY <1>1, <1>4 DEF TypeOK, TakeFrame, PumpPC
<1>7. WholeFrame'
  <2>1. Len(frame') >= 2 /\ frame'[Len(frame') - 1] = LF /\ frame'[Len(frame')] = LF
    <3>1. Len(frame') - 1 = t /\ t \in 1 .. t + 1 /\ t + 1 \in 1 .. t + 1
      BY <1>4, <1>5
    <3> QED BY <1>4, <1>5, <3>1
  <2>2. ASSUME NEW i \in 1 .. Len(frame') - 2
        PROVE  frame'[i] # LF \/ frame'[i + 1] # LF
    <3>1. i \in 1 .. t - 1 /\ i \in 1 .. t + 1 /\ i + 1 \in 1 .. t + 1
      BY <1>4, <1>5
    <3> QED BY <1>4, <1>5, <3>1
  <2>3. ASSUME NEW i \in 1 .. Len(frame')
        PROVE  frame'[i] # "?"
    <3>1. i \in 1 .. t - 1 \/ i = t \/ i = t + 1
      BY <1>4, <1>5
    <3>2. i \in 1 .. t - 1 => buffer[i] # "?"
      BY <1>1 DEF IsUtf8
    <3> QED BY <1>4, <1>5, <3>1, <3>2 DEF LF
  <2>4. scan' < Len(frame') /\ scan' = 0 /\ data_lines' = NoLines
    BY <1>2, <1>3, <1>4, <1>5
  <2> QED BY <2>1, <2>2, <2>3, <2>4 DEF WholeFrame, NoLines
<1>8. Base' = Base
  BY <1>2, <1>3, <1>4, <1>5 DEF Base, Lengths
<1>9. ASSUME NEW i \in 1 .. Len(buffer')
      PROVE  text'[Base' + Len(frame') + i] = buffer'[i]
  <2>1. i \in 1 .. Len(buffer) - (t + 1) /\ (t + 1) + i \in 1 .. Len(buffer)
    BY <1>4, <1>5
  <2>2. Base' + Len(frame') + i = Base + ((t + 1) + i)
    BY <1>2, <1>4, <1>5, <1>8
  <2> QED BY <1>2, <1>3, <1>4, <2>1, <2>2
<1>10. ASSUME NEW i \in 1 .. Len(frame')
       PROVE  text'[Base' + i] = frame'[i]
  <2>1. i \in 1 .. t + 1 /\ i \in 1 .. Len(buffer)
    BY <1>4, <1>5
  <2> QED BY <1>2, <1>3, <1>4, <1>8, <2>1
<1>11. Base' >= 0 /\ (Base' # 0 => Base' > 1 /\ text'[Base' - 1] = LF /\ text'[Base'] = LF)
  BY <1>1, <1>3, <1>8 DEF Tiling
<1>12. Tiling'
  BY <1>9, <1>10, <1>11 DEF Tiling
<1>13. FrameOK'
  BY <1>3, <1>7 DEF FrameOK
<1> QED BY <1>3, <1>6, <1>12, <1>13 DEF ParserInv

-----------------------------------------------------------------------------
(* Data fields *)

LEMMA NotEmpty ==
    ASSUME NEW S, NEW s \in Seq(S)
    PROVE  /\ Len(s) \in Nat /\ (s # <<>> <=> Len(s) >= 1)
           /\ s # <<>> => Head(s) = s[1]
<1>1. Len(s) \in Nat /\ (s = <<>> => Len(s) = 0) /\ (Len(s) = 0 => s = <<>>)
  BY LenProperties, EmptySeq
<1>2. s # <<>> => Head(s) = s[1]
  OBVIOUS
<1> QED BY <1>1, <1>2

\* The code strips the prefix and then the space; the format names the first
\* byte that is left. They find the same fields and the same values.
LEMMA SameValue ==
    ASSUME NEW line \in Seq(Byte)
    PROVE  /\ StartsWithData(line) <=> Format!IsData(line)
           /\ StartsWithData(line) =>
                /\ WithoutSpace(Tail(Tail(line))) = Format!Value(line)
                /\ WithoutSpace(Tail(Tail(line))) \in Seq(Byte)
<1>1. Len(line) \in Nat /\ (line # <<>> <=> Len(line) >= 1) /\ (line # <<>> => Head(line) = line[1])
  BY NotEmpty
<1>2. CASE line = <<>>
  <2>1. ~StartsWithData(line)
    BY <1>2 DEF StartsWithData
  <2>2. ~Format!IsData(line)
    BY <1>1, <1>2 DEF Format!IsData
  <2> QED BY <2>1, <2>2
<1>3. CASE line # <<>>
  <2> DEFINE t == Tail(line)
  <2>1. t \in Seq(Byte) /\ Len(t) = Len(line) - 1 /\ \A i \in 1 .. Len(t) : t[i] = line[i + 1]
    BY <1>3, HeadTailProperties
  <2>2. t # <<>> <=> Len(line) >= 2
    <3>1. Len(t) \in Nat /\ (t # <<>> <=> Len(t) >= 1)
      BY <2>1, NotEmpty
    <3> QED BY <1>1, <2>1, <3>1
  <2>3. StartsWithData(line) <=> Format!IsData(line)
    BY <1>1, <1>3, <2>2 DEF StartsWithData, Format!IsData
  <2>4. ASSUME StartsWithData(line)
        PROVE  /\ WithoutSpace(Tail(t)) = Format!Value(line)
               /\ WithoutSpace(Tail(t)) \in Seq(Byte)
    <3> DEFINE v == Tail(t)
    <3>1. t # <<>> /\ Len(line) >= 2
      BY <2>2, <2>4 DEF StartsWithData
    <3> HIDE DEF t
    <3>2. v \in Seq(Byte) /\ Len(v) = Len(t) - 1 /\ \A i \in 1 .. Len(v) : v[i] = t[i + 1]
      BY <2>1, <3>1, HeadTailProperties
    <3> HIDE DEF v
    <3>3. Len(v) = Len(line) - 2
      BY <1>1, <2>1, <3>2
    <3>4. ASSUME NEW i \in 1 .. Len(line) - 2
          PROVE  v[i] = line[i + 2]
      <4>1. i \in 1 .. Len(v) /\ i + 1 \in 1 .. Len(t) /\ (i + 1) + 1 = i + 2
        BY <1>1, <2>1, <3>3
      <4> QED BY <2>1, <3>2, <4>1
    <3>5. Len(v) \in Nat /\ (v # <<>> <=> Len(v) >= 1) /\ (v # <<>> => Head(v) = v[1])
      BY <3>2, NotEmpty
    <3>6. v # <<>> /\ Head(v) = " " <=> Len(line) > 2 /\ line[3] = " "
      <4>1. v # <<>> <=> Len(line) > 2
        BY <1>1, <3>3, <3>5
      <4>2. Len(line) > 2 => v[1] = line[3]
        <5>1. Len(line) > 2 => 1 \in 1 .. Len(line) - 2 /\ 1 + 2 = 3
          BY <1>1
        <5> QED BY <3>4, <5>1
      <4> QED BY <3>5, <4>1, <4>2
    <3>7. CASE v # <<>> /\ Head(v) = " "
      <4> DEFINE w == Tail(v)
      <4>1. w \in Seq(Byte) /\ Len(w) = Len(v) - 1 /\ \A i \in 1 .. Len(w) : w[i] = v[i + 1]
        BY <3>2, <3>7, HeadTailProperties
      <4> HIDE DEF w
      <4>2. Len(line) > 2 /\ Len(w) = Len(line) - 3
        <5>1. Len(line) > 2
          BY <3>6, <3>7
        <5> QED BY <1>1, <3>3, <4>1, <5>1
      <4>3. 4 \in 1 .. Len(line) + 1 /\ Len(line) \in 4 - 1 .. Len(line)
        BY <1>1, <4>2
      <4> DEFINE a == SubSeq(line, 4, Len(line))
      <4>4. /\ a \in Seq(Byte) /\ Len(a) = Len(line) - 4 + 1
            /\ \A i \in 1 .. Len(line) - 4 + 1 : a[i] = line[4 + i - 1]
        BY <4>3, PartOf
      <4> HIDE DEF a
      <4>5. ASSUME NEW i \in 1 .. Len(w)
            PROVE  w[i] = a[i]
        <5>1. /\ i + 1 \in 1 .. Len(line) - 2 /\ (i + 1) + 2 = i + 3
              /\ i \in 1 .. Len(line) - 4 + 1 /\ 4 + i - 1 = i + 3
          BY <1>1, <4>2
        <5>2. w[i] = v[i + 1]
          BY <4>1
        <5>3. v[i + 1] = line[(i + 1) + 2]
          BY <3>4, <5>1
        <5>4. a[i] = line[4 + i - 1]
          BY <4>4, <5>1
        <5> QED BY <5>1, <5>2, <5>3, <5>4
      <4>6. Len(w) = Len(a)
        BY <1>1, <4>2, <4>4
      <4>7. w = a
        BY <4>1, <4>4, <4>5, <4>6, SeqEqual
      <4>8. WithoutSpace(v) = w
        BY <3>7 DEF WithoutSpace, w
      <4>9. Format!Value(line) = a
        BY <3>6, <3>7 DEF Format!Value, a
      <4> QED BY <4>1, <4>7, <4>8, <4>9 DEF v
    <3>8. CASE ~(v # <<>> /\ Head(v) = " ")
      <4>1. 3 \in 1 .. Len(line) + 1 /\ Len(line) \in 3 - 1 .. Len(line)
        BY <1>1, <3>1
      <4> DEFINE a == SubSeq(line, 3, Len(line))
      <4>2. /\ a \in Seq(Byte) /\ Len(a) = Len(line) - 3 + 1
            /\ \A i \in 1 .. Len(line) - 3 + 1 : a[i] = line[3 + i - 1]
        BY <4>1, PartOf
      <4> HIDE DEF a
      <4>3. Len(v) = Len(a)
        BY <1>1, <3>3, <4>2
      <4>4. ASSUME NEW i \in 1 .. Len(v)
            PROVE  v[i] = a[i]
        <5>1. i \in 1 .. Len(line) - 2 /\ i \in 1 .. Len(line) - 3 + 1 /\ 3 + i - 1 = i + 2
          BY <1>1, <3>3
        <5> QED BY <3>4, <4>2, <5>1
      <4>5. v = a
        BY <3>2, <4>2, <4>3, <4>4, SeqEqual
      <4>6. WithoutSpace(v) = v
        BY <3>8 DEF WithoutSpace
      <4>7. Format!Value(line) = a
        BY <3>6, <3>8 DEF Format!Value, a
      <4> QED BY <3>2, <4>5, <4>6, <4>7 DEF v
    <3> QED BY <3>7, <3>8
  <2> QED BY <2>3, <2>4 DEF t
<1> QED BY <1>2, <1>3

\* The lines of a frame that is split: where the next one is, and what it is.
LEMMA LineOfFrame ==
    ASSUME ParserInv, NEW end, SplitLine(end)
    PROVE  /\ Lengths /\ scan \in Nat /\ end \in Int /\ scan < end /\ end < Len(frame)
           /\ frame[end] = LF /\ WholeFrame
           /\ SubSeq(frame, scan + 1, end - 1) \in Seq(Byte)
<1>1. TypeOK /\ WholeFrame
  BY DEF ParserInv, FrameOK, SplitLine
<1>2. Lengths /\ scan \in Nat /\ frame \in Seq(Byte)
  BY <1>1, LengthsAreNumbers DEF TypeOK
<1>3. end \in Int /\ scan < end /\ end < Len(frame) /\ frame[end] = LF
  BY <1>2 DEF SplitLine, Lengths
<1>4. scan + 1 \in 1 .. Len(frame) + 1 /\ end - 1 \in (scan + 1) - 1 .. Len(frame)
  BY <1>2, <1>3 DEF Lengths
<1>5. SubSeq(frame, scan + 1, end - 1) \in Seq(Byte)
  BY <1>2, <1>4, PartOf
<1> QED BY <1>1, <1>2, <1>3, <1>5

LEMMA SplitLineKeeps ==
    ASSUME ParserInv, NEW end, SplitLine(end)
    PROVE  ParserInv'
<1> DEFINE line == SubSeq(frame, scan + 1, end - 1)
<1>1. /\ TypeOK /\ Tiling /\ WholeFrame /\ line \in Seq(Byte)
      /\ end \in Nat /\ end # 0 /\ end < Len(frame) /\ frame[end] = LF
  BY LineOfFrame DEF ParserInv
<1>2. /\ text' = text /\ buffer' = buffer /\ frame' = frame /\ scan' = end
      /\ pc = "lines" /\ pc' = "lines"
      /\ data_lines' = IF StartsWithData(line)
                       THEN Pushed(WithoutSpace(Tail(Tail(line)))) ELSE data_lines
  BY DEF SplitLine
<1>3. data_lines' \in [any : BOOLEAN, joined : Seq(Byte)]
  <2>1. data_lines \in [any : BOOLEAN, joined : Seq(Byte)]
    BY <1>1 DEF TypeOK
  <2>2. CASE StartsWithData(line)
    <3> DEFINE v == WithoutSpace(Tail(Tail(line)))
               j == IF data_lines.any THEN data_lines.joined \o <<LF>> \o v ELSE v
    <3>1. v \in Seq(Byte)
      BY <1>1, <2>2, SameValue
    <3> HIDE DEF v
    <3>2. LF \in Byte
      <4>1. frame \in Seq(Byte) /\ Len(frame) \in Nat
        BY <1>1, LengthsAreNumbers DEF TypeOK, Lengths
      <4>2. end \in 1 .. Len(frame)
        BY <1>1, <4>1
      <4> QED BY <1>1, <4>1, <4>2, ElementOfSeq
    <3>3. j \in Seq(Byte)
      <4>1. data_lines.joined \in Seq(Byte)
        BY <2>1
      <4>2. <<LF>> \in Seq(Byte)
        BY <3>2
      <4>3. data_lines.joined \o <<LF>> \in Seq(Byte)
        BY <4>1, <4>2, ConcatProperties
      <4>4. data_lines.joined \o <<LF>> \o v \in Seq(Byte)
        BY <3>1, <4>3, ConcatProperties
      <4> QED BY <3>1, <4>4
    <3>4. data_lines' = [any |-> TRUE, joined |-> j]
      BY <1>2, <2>2 DEF Pushed, v, j
    <3> HIDE DEF j
    <3> QED BY <3>3, <3>4
  <2> QED BY <1>2, <2>1, <2>2
<1> HIDE DEF line
<1>4. TypeOK'
  BY <1>1, <1>2, <1>3 DEF TypeOK, SplitLine
<1>5. Tiling'
  BY <1>1, <1>2 DEF Tiling, Base
<1>6. WholeFrame'
  BY <1>1, <1>2 DEF WholeFrame
<1>7. FrameOK'
  BY <1>2, <1>6 DEF FrameOK
<1> QED BY <1>2, <1>4, <1>5, <1>7 DEF ParserInv

LEMMA ReturnEventKeeps == ParserInv /\ ReturnEvent => ParserInv'
<1> SUFFICES ASSUME ParserInv, ReturnEvent PROVE ParserInv'
  OBVIOUS
<1>1. TypeOK /\ Tiling /\ WholeFrame
  BY DEF ParserInv, FrameOK, ReturnEvent
<1>2. /\ text' = text /\ buffer' = buffer /\ frame' = <<>> /\ scan' = 0
      /\ data_lines' = NoLines /\ pc' \in {"send", "next_event"}
      /\ events' \in {events, Append(events, data_lines.joined)}
  BY DEF ReturnEvent
<1>3. TypeOK'
  <2>1. NoLines \in [any : BOOLEAN, joined : Seq(Byte)] /\ <<>> \in Seq(Byte)
    <3>1. <<>> \in Seq(Byte)
      OBVIOUS
    <3> QED BY <3>1 DEF NoLines
  <2>2. Append(events, data_lines.joined) \in Seq(Seq(Byte))
    <3>1. data_lines.joined \in Seq(Byte) /\ events \in Seq(Seq(Byte))
      BY <1>1 DEF TypeOK
    <3> QED BY <3>1, AppendProperties
  <2>3. events' \in Seq(Seq(Byte))
    BY <1>1, <1>2, <2>2 DEF TypeOK
  <2>4. /\ stream' \in Seq(Byte) /\ at' \in Nat /\ text' \in Seq(Byte \ {CR})
        /\ buffer' \in Seq(Byte) /\ frame' \in Seq(Byte) /\ scan' \in Nat
    BY <1>1, <1>2, <2>1 DEF TypeOK, ReturnEvent
  <2>5. pc' \in PumpPC
    BY <1>2 DEF PumpPC
  <2> QED BY <1>2, <2>1, <2>3, <2>4, <2>5 DEF TypeOK
<1>4. Lengths /\ Base \in Nat
  BY <1>1, LengthsAreNumbers DEF Tiling, Base, Lengths
<1>5. Len(frame') = 0
  BY <1>2
<1>6. Base' = Base + Len(frame) /\ Len(frame) >= 2
  BY <1>1, <1>2, <1>4, <1>5 DEF Base, Lengths, WholeFrame
<1>7. ASSUME NEW i \in 1 .. Len(buffer')
      PROVE  text'[Base' + Len(frame') + i] = buffer'[i]
  <2>1. Base' + Len(frame') + i = Base + Len(frame) + i
    BY <1>2, <1>4, <1>5, <1>6 DEF Lengths
  <2> QED BY <1>1, <1>2, <2>1 DEF Tiling
<1>8. Base' > 1 /\ text'[Base' - 1] = LF /\ text'[Base'] = LF
  <2>1. /\ Base' > 1 /\ Base' - 1 = Base + (Len(frame) - 1)
        /\ Len(frame) - 1 \in 1 .. Len(frame) /\ Len(frame) \in 1 .. Len(frame)
    BY <1>4, <1>6 DEF Lengths
  <2>2. /\ text[Base + (Len(frame) - 1)] = frame[Len(frame) - 1]
        /\ text[Base + Len(frame)] = frame[Len(frame)]
    BY <1>1, <2>1 DEF Tiling
  <2>3. frame[Len(frame) - 1] = LF /\ frame[Len(frame)] = LF
    BY <1>1 DEF WholeFrame
  <2> QED BY <1>2, <1>6, <2>1, <2>2, <2>3
<1>9. Base' >= 0 /\ \A i \in 1 .. Len(frame') : text'[Base' + i] = frame'[i]
  BY <1>4, <1>5, <1>6 DEF Lengths
<1>10. Tiling'
  BY <1>7, <1>8, <1>9 DEF Tiling
<1>11. FrameOK'
  BY <1>2 DEF FrameOK
<1> QED BY <1>2, <1>3, <1>10, <1>11 DEF ParserInv

\* Every step keeps the invariant.
LEMMA StepKeeps == ParserInv /\ [Next]_vars => ParserInv'
<1> SUFFICES ASSUME ParserInv, [Next]_vars PROVE ParserInv'
  OBVIOUS
<1>1. CASE UNCHANGED vars
  BY <1>1 DEF vars, ParserInv, TypeOK, Tiling, Base, FrameOK, WholeFrame, Terminators
<1>2. ASSUME NEW t \in 1 .. Len(buffer), SkipFrame(t) \/ TakeFrame(t)
      PROVE  ParserInv'
  BY <1>2, SkipFrameKeeps, TakeFrameKeeps
<1>3. ASSUME NEW end \in 1 .. Len(frame), SplitLine(end)
      PROVE  ParserInv'
  BY <1>3, SplitLineKeeps
<1> QED BY <1>1, <1>2, <1>3, FeedKeeps, IdleStepsKeep, ReturnEventKeeps, EndKeeps DEF Next

\* The frame and the buffer tile the end of what has arrived, behind a blank
\* line, and a frame is whole while it is read (feed and next_event).
THEOREM Invariant == Spec => []ParserInv
BY InitHolds, StepKeeps, PTL DEF Spec

-----------------------------------------------------------------------------
(* What the parser keeps *)

LEMMA WaitsForTheRest == ParserInv => BufferIsUnfinished
<1> SUFFICES ASSUME ParserInv, pc = "chunk" PROVE BufferIsUnfinished
  BY DEF BufferIsUnfinished
<1> DEFINE start == Len(text) - Len(buffer)
<1>1. TypeOK /\ Tiling /\ Terminators = {}
  BY DEF ParserInv
<1>2. /\ Lengths /\ Base \in Nat /\ Base = start
      /\ \A i \in 1 .. Len(buffer) : text[Base + i] = buffer[i]
  BY NothingRead
<1>3. start # 0 => start > 1 /\ text[start - 1] = LF /\ text[start] = LF
  BY <1>1, <1>2 DEF Tiling
<1>4. buffer = SubSeq(text, start + 1, Len(text))
  <2>1. text \in Seq(Byte \ {CR}) /\ buffer \in Seq(Byte)
    BY <1>1 DEF TypeOK
  <2>2. start + 1 \in 1 .. Len(text) + 1 /\ Len(text) \in (start + 1) - 1 .. Len(text)
    BY <1>2 DEF Lengths
  <2> DEFINE a == SubSeq(text, start + 1, Len(text))
  <2>3. /\ a \in Seq(Byte \ {CR}) /\ Len(a) = Len(text) - (start + 1) + 1
        /\ \A i \in 1 .. Len(text) - (start + 1) + 1 : a[i] = text[(start + 1) + i - 1]
    BY <2>1, <2>2, PartOf
  <2> HIDE DEF a
  <2>4. Len(a) = Len(buffer)
    BY <1>2, <2>3 DEF Lengths
  <2>5. ASSUME NEW i \in 1 .. Len(buffer)
        PROVE  a[i] = buffer[i]
    <3>1. i \in 1 .. Len(text) - (start + 1) + 1 /\ (start + 1) + i - 1 = Base + i
      BY <1>2 DEF Lengths
    <3> QED BY <1>2, <2>3, <3>1
  <2>6. a \in Seq(Byte)
    <3>1. \A i \in 1 .. Len(a) : a[i] \in Byte
      BY <2>3, ElementOfSeq
    <3> QED BY <2>3, <3>1
  <2>7. a = buffer
    BY <2>1, <2>4, <2>5, <2>6, SeqEqual
  <2> QED BY <2>7 DEF a
<1> QED BY <1>1, <1>2, <1>3, <1>4 DEF BufferIsUnfinished

\* A pump that waits has returned every event that has arrived: the buffer is the
\* unfinished frame at the end of the stream (next_event until it gives None).
THEOREM NothingAnsweredIsKept == Spec => []BufferIsUnfinished
BY Invariant, WaitsForTheRest, PTL

-----------------------------------------------------------------------------
(* The parser implements EventStream *)

Pos == Base + scan
Event == [any |-> data_lines.any, data |-> data_lines.joined]

LEMMA SameViewStutters ==
    ASSUME text' = text, Pos' = Pos, data_lines' = data_lines, events' = events
    PROVE  UNCHANGED Format!vars
BY DEF Format!vars, Pos

LEMMA InitRefines == Init => Format!Init
<1> SUFFICES ASSUME Init PROVE Format!Init
  OBVIOUS
<1>1. Len(text) = 0 /\ Len(frame) = 0 /\ Len(buffer) = 0 /\ scan = 0
  BY DEF Init
<1>2. Base + scan = 0
  BY <1>1 DEF Base
<1> QED BY <1>2 DEF Init, Format!Init, Format!NoEvent, NoLines

LEMMA FeedRefines == ParserInv /\ feed => [Format!Next]_Format!vars
<1> SUFFICES ASSUME ParserInv, feed PROVE [Format!Next]_Format!vars
  OBVIOUS
<1> DEFINE b == stream[at + 1]
<1>1. TypeOK
  BY DEF ParserInv
<1>2. /\ frame' = frame /\ scan' = scan /\ data_lines' = data_lines /\ events' = events
  BY DEF feed
<1>3. CASE b = CR
  <2>1. text' = text /\ buffer' = buffer
    BY <1>3 DEF feed, push
  <2>2. Pos' = Pos
    BY <1>2, <2>1 DEF Pos, Base
  <2> QED BY <1>2, <2>1, <2>2, SameViewStutters
<1>4. CASE b # CR
  <2>1. text' = Append(text, b) /\ buffer' = Append(buffer, b)
    BY <1>4 DEF feed, push
  <2>2. b \in Byte
    <3>1. stream \in Seq(Byte) /\ at \in Nat /\ Len(stream) \in Nat
      BY <1>1, LenProperties DEF TypeOK
    <3>2. at + 1 \in 1 .. Len(stream)
      BY <3>1 DEF feed
    <3> QED BY <3>1, <3>2, ElementOfSeq
  <2>3. b \in Byte \ {CR} /\ text \in Seq(Byte \ {CR}) /\ buffer \in Seq(Byte)
    BY <1>1, <1>4, <2>2 DEF TypeOK
  <2> HIDE DEF b
  <2>4. Len(text') = Len(text) + 1 /\ Len(buffer') = Len(buffer) + 1
    BY <2>1, <2>2, <2>3, AppendProperties
  <2>5. Pos' = Pos
    <3>1. Lengths
      BY <1>1, LengthsAreNumbers
    <3>2. Base' = Base
      BY <1>2, <2>4, <3>1 DEF Base, Lengths
    <3> QED BY <1>2, <3>2 DEF Pos
  <2>6. Format!Arrive
    BY <1>2, <2>1, <2>3, <2>5 DEF Format!Arrive, Pos
  <2> QED BY <2>6 DEF Format!Next
<1> QED BY <1>3, <1>4

LEMMA SkipFrameRefines ==
    ASSUME ParserInv, NEW t, SkipFrame(t)
    PROVE  Format!Next
<1>1. TypeOK /\ FirstTerminator(t) /\ pc # "lines" /\ ~IsUtf8(t)
  BY DEF ParserInv, SkipFrame
<1>2. /\ Len(frame) = 0 /\ scan = 0 /\ data_lines = NoLines
      /\ Lengths /\ Base \in Nat /\ Base = Len(text) - Len(buffer)
      /\ \A i \in 1 .. Len(buffer) : text[Base + i] = buffer[i]
  BY <1>1, NothingRead
<1>3. /\ Len(buffer) \in Nat /\ t \in Int /\ 1 <= t /\ t < Len(buffer)
      /\ buffer[t] = LF /\ buffer[t + 1] = LF
      /\ \A i \in 1 .. t - 1 : buffer[i] # LF \/ buffer[i + 1] # LF
  BY <1>1, FirstIsFirst
<1>4. /\ text' = text /\ frame' = frame /\ scan' = scan /\ buffer' = Drained(t)
      /\ data_lines' = data_lines /\ events' = events
      /\ Len(Drained(t)) = Len(buffer) - (t + 1)
  BY <1>1, CutOff DEF SkipFrame
<1> DEFINE end == Base + (t + 1)
<1>5. /\ Base + scan = Base /\ (Base + scan)' = end /\ Len(text) \in Nat
      /\ end \in Base + 2 .. Len(text) /\ end \in 1 .. Len(text)
      /\ end - 1 = Base + t /\ end = Base + (t + 1)
  BY <1>2, <1>3, <1>4 DEF Base, Lengths
<1>6. text[end - 1] = LF /\ text[end] = LF
  <2>1. t \in 1 .. Len(buffer) /\ t + 1 \in 1 .. Len(buffer)
    BY <1>3
  <2> QED BY <1>2, <1>3, <1>5, <2>1
<1>7. ASSUME NEW i \in Base + 1 .. end - 2
      PROVE  text[i] # LF \/ text[i + 1] # LF
  <2>1. /\ i - Base \in 1 .. t - 1 /\ i - Base \in 1 .. Len(buffer)
        /\ (i - Base) + 1 \in 1 .. Len(buffer)
        /\ Base + (i - Base) = i /\ Base + ((i - Base) + 1) = i + 1
    BY <1>2, <1>3, <1>5
  <2>2. text[i] = buffer[i - Base] /\ text[i + 1] = buffer[(i - Base) + 1]
    BY <1>2, <2>1
  <2> QED BY <1>3, <2>1, <2>2
<1>8. \E i \in Base + 1 .. end : text[i] = "?"
  <2>1. PICK j \in 1 .. t - 1 : buffer[j] = "?"
    BY <1>1 DEF IsUtf8
  <2>2. j \in 1 .. Len(buffer) /\ Base + j \in Base + 1 .. end
    BY <1>2, <1>3, <1>5
  <2>3. text[Base + j] = "?"
    BY <1>2, <2>1, <2>2
  <2> QED BY <2>2, <2>3
<1> HIDE DEF end
<1>9. ~Format!Utf8(Base + 1, end)
  BY <1>8 DEF Format!Utf8
<1>10. data_lines.any = FALSE
  BY <1>2 DEF NoLines
<1>11. Format!Skip(end)
  BY <1>4, <1>5, <1>6, <1>7, <1>9, <1>10 DEF Format!Skip, LF
<1> QED BY <1>5, <1>11 DEF Format!Next

LEMMA TakeFrameStutters ==
    ASSUME ParserInv, NEW t, TakeFrame(t)
    PROVE  UNCHANGED Format!vars
<1>1. TypeOK /\ FirstTerminator(t) /\ pc # "lines"
  BY DEF ParserInv, TakeFrame
<1>2. Len(frame) = 0 /\ Lengths
  BY <1>1, NothingRead
<1>3. Len(buffer) \in Nat /\ t \in Int
  BY <1>1, FirstIsFirst
<1>4. /\ text' = text /\ scan' = scan /\ data_lines' = data_lines /\ events' = events
      /\ Len(buffer') = Len(buffer) - (t + 1) /\ Len(frame') = t + 1
  BY <1>1, CutOff DEF TakeFrame
<1>5. Base' = Base
  BY <1>2, <1>3, <1>4 DEF Base, Lengths
<1> QED BY <1>4, <1>5, SameViewStutters DEF Pos

\* Where the reading position is while a frame is split, and that the text from
\* there on is the rest of the frame.
LEMMA ReadingTheFrame ==
    ASSUME ParserInv, pc = "lines"
    PROVE  /\ WholeFrame /\ Lengths /\ Base \in Nat /\ scan \in Nat
           /\ Base + Len(frame) <= Len(text)
           /\ \A i \in 1 .. Len(frame) : text[Base + i] = frame[i]
<1>1. TypeOK /\ Tiling /\ WholeFrame
  BY DEF ParserInv, FrameOK
<1>2. Lengths /\ Base \in Nat /\ Base + Len(frame) <= Len(text)
  BY <1>1, LengthsAreNumbers DEF Lengths, Tiling, Base
<1>3. scan \in Nat
  BY <1>1 DEF TypeOK
<1> QED BY <1>1, <1>2, <1>3 DEF Tiling

\* A line of the frame is the next line of the text.
LEMMA SameLine ==
    ASSUME ParserInv, NEW e, SplitLine(e)
    PROVE  /\ Pos \in Nat /\ Base + e \in Pos + 1 .. Len(text)
           /\ Format!LineEnds(Base + e)
           /\ Format!Utf8(Pos + 1, (Base + e) - 1)
           /\ SubSeq(text, Pos + 1, (Base + e) - 1) = SubSeq(frame, scan + 1, e - 1)
<1>1. /\ WholeFrame /\ Lengths /\ Base \in Nat /\ scan \in Nat
      /\ Base + Len(frame) <= Len(text)
      /\ \A i \in 1 .. Len(frame) : text[Base + i] = frame[i]
  BY ReadingTheFrame DEF SplitLine
<1>2. e \in Int /\ scan < e /\ e < Len(frame) /\ frame[e] = LF
  BY LineOfFrame
<1>3. Pos \in Nat /\ Base + e \in Pos + 1 .. Len(text) /\ Pos = Base + scan
  BY <1>1, <1>2 DEF Pos, Lengths
<1>4. ASSUME NEW i \in Pos + 1 .. (Base + e) - 1
      PROVE  text[i] # LF /\ text[i] # "?"
  <2>1. /\ i - Base \in scan + 1 .. e - 1 /\ i - Base \in 1 .. Len(frame)
        /\ Base + (i - Base) = i
    BY <1>1, <1>2, <1>3 DEF Lengths
  <2>2. text[i] = frame[i - Base]
    BY <1>1, <2>1
  <2>3. frame[i - Base] # LF
    BY <2>1 DEF SplitLine
  <2>4. frame[i - Base] # "?"
    BY <1>1, <2>1 DEF WholeFrame
  <2> QED BY <2>2, <2>3, <2>4
<1>5. text[Base + e] = LF
  <2>1. e \in 1 .. Len(frame)
    BY <1>1, <1>2 DEF Lengths
  <2> QED BY <1>1, <1>2, <2>1
<1>6. Format!LineEnds(Base + e)
  <2>1. /\ Base + e \in Base + scan + 1 .. Len(text) /\ text[Base + e] = "n"
        /\ \A i \in Base + scan + 1 .. (Base + e) - 1 : text[i] # "n"
    BY <1>3, <1>4, <1>5 DEF LF
  <2> QED BY <2>1 DEF Format!LineEnds
<1>7. Format!Utf8(Pos + 1, (Base + e) - 1)
  BY <1>4 DEF Format!Utf8
<1>8. SubSeq(text, Pos + 1, (Base + e) - 1) = SubSeq(frame, scan + 1, e - 1)
  <2>1. frame \in Seq(Byte) /\ text \in Seq(Byte)
    <3>1. TypeOK
      BY DEF ParserInv
    <3>2. text \in Seq(Byte \ {CR}) /\ frame \in Seq(Byte)
      BY <3>1 DEF TypeOK
    <3>3. \A i \in 1 .. Len(text) : text[i] \in Byte
      BY <3>2, ElementOfSeq
    <3> QED BY <3>2, <3>3
  <2>2. /\ scan + 1 \in 1 .. Len(frame) + 1 /\ e - 1 \in (scan + 1) - 1 .. Len(frame)
        /\ e - 1 + Base <= Len(text)
    BY <1>1, <1>2 DEF Lengths
  <2>3. \A i \in scan + 1 .. e - 1 : text[Base + i] = frame[i]
    <3>1. \A i \in scan + 1 .. e - 1 : i \in 1 .. Len(frame)
      BY <1>1, <1>2 DEF Lengths
    <3> QED BY <1>1, <3>1
  <2>4. SubSeq(frame, scan + 1, e - 1) = SubSeq(text, Base + (scan + 1), Base + (e - 1))
    <3>1. (e - 1) + Base <= Len(text) => Base + (e - 1) <= Len(text)
      BY <1>1, <1>2
    <3>2. e - 1 + Base = Base + (e - 1)
      BY <1>1, <1>2
    <3>3. e - 1 + Base <= Len(text) /\ e - 1 + Base = (e - 1) + Base
      BY <2>2
    <3> HIDE DEF Pos
    <3> QED BY <1>1, <2>1, <2>2, <2>3, <3>3, SameParts
  <2>5. Base + (scan + 1) = Pos + 1 /\ Base + (e - 1) = (Base + e) - 1
    BY <1>1, <1>2, <1>3
  <2> QED BY <2>4, <2>5
<1> QED BY <1>3, <1>6, <1>7, <1>8

LEMMA SplitLineRefines ==
    ASSUME ParserInv, NEW end, SplitLine(end)
    PROVE  Format!Next
<1> DEFINE line == SubSeq(frame, scan + 1, end - 1)
           last == Base + end
<1>1. /\ WholeFrame /\ Lengths /\ Base \in Nat /\ scan \in Nat
      /\ \A i \in 1 .. Len(frame) : text[Base + i] = frame[i]
  BY ReadingTheFrame DEF SplitLine
<1>2. /\ end \in Int /\ scan < end /\ end < Len(frame) /\ frame[end] = LF
      /\ line \in Seq(Byte)
  BY LineOfFrame
<1>3. /\ Pos \in Nat /\ Pos = Base + scan /\ last \in Pos + 1 .. Len(text)
      /\ Format!LineEnds(last) /\ Format!Utf8(Pos + 1, last - 1)
      /\ SubSeq(text, Pos + 1, last - 1) = line
  <2>1. Pos = Base + scan
    BY DEF Pos
  <2> QED BY <2>1, SameLine
<1>4. /\ text' = text /\ frame' = frame /\ buffer' = buffer /\ scan' = end
      /\ events' = events
      /\ data_lines' = IF StartsWithData(line)
                       THEN Pushed(WithoutSpace(Tail(Tail(line)))) ELSE data_lines
  BY DEF SplitLine
<1>5. Pos' = last
  BY <1>4 DEF Pos, Base
<1>6. CASE end = scan + 1
  <2>1. line = <<>>
    BY <1>1, <1>2, <1>6, SubSeqEmpty
  <2>2. data_lines' = data_lines
    BY <1>4, <2>1 DEF StartsWithData
  <2>3. data_lines = NoLines
    <3>1. CASE scan = 0
      BY <1>1, <3>1 DEF WholeFrame
    <3>2. CASE scan # 0
      <4>1. scan \in 1 .. Len(frame) - 2
        BY <1>1, <1>2, <1>6, <3>2 DEF Lengths
      <4>2. frame[scan] = LF /\ frame[scan + 1] = LF
        BY <1>1, <1>2, <1>6, <3>2 DEF WholeFrame
      <4> QED BY <1>1, <4>1, <4>2 DEF WholeFrame
    <3> QED BY <3>1, <3>2
  <2>4. last = Pos + 1
    BY <1>1, <1>2, <1>3, <1>6
  <2>5. Format!Dispatch
    <3>1. (Base + scan)' = Base + scan + 1 /\ Format!LineEnds(Base + scan + 1)
      BY <1>3, <1>5, <2>4 DEF Pos
    <3>2. data_lines.any = FALSE /\ [any |-> data_lines.any, data |-> data_lines.joined]
                                     = Format!NoEvent
      BY <2>3 DEF NoLines, Format!NoEvent
    <3>3. [any |-> data_lines.any, data |-> data_lines.joined]' = Format!NoEvent
      BY <2>2, <3>2
    <3> QED BY <1>4, <3>1, <3>2, <3>3 DEF Format!Dispatch
  <2> QED BY <2>5 DEF Format!Next
<1>7. CASE end # scan + 1
  <2>1. last > Pos + 1 /\ last \in 1 .. Len(text)
    <3>1. last # Pos + 1
      BY <1>1, <1>2, <1>3, <1>7
    <3> HIDE DEF last
    <3> QED BY <1>1, <1>3, <3>1 DEF Lengths
  <2>2. Event' = IF Format!IsData(line) THEN Format!With(line) ELSE Event
    <3>1. CASE StartsWithData(line)
      <4>1. Format!IsData(line) /\ WithoutSpace(Tail(Tail(line))) = Format!Value(line)
        BY <1>2, <3>1, SameValue
      <4>2. data_lines' = Pushed(Format!Value(line))
        BY <1>4, <3>1, <4>1
      <4> DEFINE v == Format!Value(line)
      <4> HIDE DEF v, line
      <4>3. Event' = [any |-> TRUE,
                      data |-> IF data_lines.any THEN data_lines.joined \o <<LF>> \o v ELSE v]
        BY <4>2 DEF Event, Pushed, v
      <4> QED BY <4>1, <4>3 DEF Format!With, LF, v
    <3>2. CASE ~StartsWithData(line)
      BY <1>2, <1>4, <3>2, SameValue DEF Event
    <3> QED BY <3>1, <3>2
  <2> HIDE DEF last
  <2>3. Format!Field(last)
    BY <1>3, <1>4, <1>5, <2>1, <2>2 DEF Format!Field, Pos, Event
  <2> QED BY <2>1, <2>3 DEF Format!Next
<1> QED BY <1>6, <1>7

LEMMA ReturnEventRefines == ParserInv /\ ReturnEvent => Format!Next
<1> SUFFICES ASSUME ParserInv, ReturnEvent PROVE Format!Next
  OBVIOUS
<1>1. /\ WholeFrame /\ Lengths /\ Base \in Nat /\ scan \in Nat
      /\ Base + Len(frame) <= Len(text)
      /\ \A i \in 1 .. Len(frame) : text[Base + i] = frame[i]
  BY ReadingTheFrame DEF ReturnEvent
<1>2. /\ text' = text /\ buffer' = buffer /\ frame' = <<>> /\ scan' = 0
      /\ data_lines' = NoLines /\ scan = Len(frame) - 1
      /\ events' = IF data_lines.any THEN Append(events, data_lines.joined) ELSE events
  BY DEF ReturnEvent
<1>3. Pos = Base + scan /\ Pos + 1 = Base + Len(frame) /\ Pos \in Nat
  BY <1>1, <1>2 DEF Pos, Lengths
<1>4. Pos' = Pos + 1
  <2>1. Len(frame') = 0
    BY <1>2
  <2> QED BY <1>1, <1>2, <1>3, <2>1 DEF Pos, Base, Lengths
<1>5. Format!LineEnds(Pos + 1)
  <2>1. Len(frame) \in 1 .. Len(frame) /\ Pos + 1 \in Pos + 1 .. Len(text)
    BY <1>1, <1>3 DEF Lengths, WholeFrame
  <2>2. text[Pos + 1] = LF
    BY <1>1, <1>3, <2>1 DEF WholeFrame
  <2>3. \A i \in Pos + 1 .. (Pos + 1) - 1 : text[i] # LF
    BY <1>3
  <2> QED BY <2>1, <2>2, <2>3 DEF Format!LineEnds, Pos, LF
<1>6. Format!Dispatch
  BY <1>2, <1>4, <1>5 DEF Format!Dispatch, Format!NoEvent, NoLines, Pos
<1> QED BY <1>6 DEF Format!Next

LEMMA EndRefines == End => Format!Next
<1> SUFFICES ASSUME End PROVE Format!Next
  OBVIOUS
<1>1. Len(text') = 0 /\ Len(frame') = 0 /\ Len(buffer') = 0 /\ scan' = 0
  BY DEF End
<1>2. (Base + scan)' = 0
  BY <1>1 DEF Base
<1>3. Format!End
  BY <1>2 DEF End, Format!End, Format!NoEvent, NoLines
<1> QED BY <1>3 DEF Format!Next

LEMMA StepRefines == ParserInv /\ [Next]_vars => [Format!Next]_Format!vars
<1> SUFFICES ASSUME ParserInv, [Next]_vars PROVE [Format!Next]_Format!vars
  OBVIOUS
<1>1. CASE UNCHANGED vars \/ ChunkEnds \/ NextNone \/ Sent
  <2>1. /\ text' = text /\ buffer' = buffer /\ frame' = frame /\ scan' = scan
        /\ data_lines' = data_lines /\ events' = events
    BY <1>1 DEF vars, ChunkEnds, NextNone, Sent
  <2>2. Pos' = Pos
    BY <2>1 DEF Pos, Base
  <2> QED BY <2>1, <2>2, SameViewStutters
<1>2. ASSUME NEW t \in 1 .. Len(buffer), SkipFrame(t) \/ TakeFrame(t)
      PROVE  [Format!Next]_Format!vars
  BY <1>2, SkipFrameRefines, TakeFrameStutters
<1>3. ASSUME NEW end \in 1 .. Len(frame), SplitLine(end)
      PROVE  Format!Next
  BY <1>3, SplitLineRefines
<1> QED BY <1>1, <1>2, <1>3, FeedRefines, ReturnEventRefines, EndRefines DEF Next

\* The parser implements the format: whatever the chunks, each step of it reads a
\* line, ends an event, loses one that is not UTF-8, or changes nothing of what
\* the stream means (feed, next_event).
THEOREM Refinement == Spec => FindsEvents
BY Invariant, InitRefines, StepRefines, PTL DEF Spec, FindsEvents, Format!Spec
=============================================================================
