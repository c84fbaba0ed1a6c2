-------------------------- MODULE AudioPipelineProofs --------------------------
(***************************************************************************)
(* Audio frames keep their order, and their time lags behind their place   *)
(* in the stream by the frames lost before them, for a stream of any       *)
(* length, samples of any size and queues of any bound.                    *)
(*                                                                         *)
(* What a frame has lost before it can only be counted when every other    *)
(* frame is known to be somewhere.  Placed says where: each frame that was *)
(* given to the decryptor is in one place of the chain or lost, and the    *)
(* places hold earlier frames the nearer they are to the speaker.          *)
(***************************************************************************)
EXTENDS AudioPipeline, SequenceTheorems, FiniteSetTheorems, TLAPS

DemuxPlaces == {"loop", "parse", "push", "ended"}
DecryptPlaces == {"loop", "pop", "frame", "push", "ended", "undefined"}
DecodePlaces == {"loop", "pop", "send", "receive", "ended", "undefined"}
RenderPlaces == {"loop", "pop", "ended", "undefined"}
Played == [frame : Nat, timestamp : Nat]

TypeOK ==
  /\ fetched \in Nat /\ parsed \in Nat /\ timestamp \in Nat /\ control \in 0 .. 9
  /\ paused \in BOOLEAN /\ failed \in {"no", "thread", "process"}
  /\ demux \in DemuxPlaces /\ render \in RenderPlaces
  /\ demuxed \in Seq(Nat)
  /\ decrypt \in [at : DecryptPlaces, sample : Nat, pos : Nat, packet : Seq(Nat)]
  /\ decrypted \in Seq(Seq(Nat))
  /\ decode \in [at : DecodePlaces, packet : Seq(Nat)]
  /\ codec \in Seq(Nat)
  /\ frames \in Seq(Played) /\ rendered \in Seq(Played)
  /\ lost \in SUBSET Nat

\* The demuxed queue goes on where the decrypt thread is, the demux thread where the
\* queue ends.
DemuxedNext ==
  /\ \A i \in 1 .. Len(demuxed) : demuxed[i] = decrypt.sample + i
  /\ demux \in {"loop", "parse"} => parsed = decrypt.sample + Len(demuxed)
  /\ demux = "push" => parsed = decrypt.sample + Len(demuxed) + 1

\* A thread has a packet in its hands only where it works on one.
PacketsInHand ==
  /\ decrypt.at = "frame" => decrypt.sample > 0 /\ decrypt.pos \in 1 .. FramesPerSample
  /\ decrypt.at \notin {"frame", "push"} => decrypt.packet = <<>>
  /\ decode.at \notin {"send", "undefined"} => decode.packet = <<>>

\* The frames that have been given to the CDM.
Handed == IF decrypt.at = "frame" THEN Frame - 1 ELSE decrypt.sample * FramesPerSample

Below(S, T) == \A s \in S, t \in T : s < t

\* Frames 1 to h are in one of five places, the first of them in the first, or lost.
Placed(first, second, third, fourth, fifth, gone, h) ==
  /\ first \union second \union third \union fourth \union fifth \union gone = 1 .. h
  /\ gone \intersect (first \union second \union third \union fourth \union fifth) = {}
  /\ Below(first, second \union third \union fourth \union fifth)
  /\ Below(second, third \union fourth \union fifth)
  /\ Below(third, fourth \union fifth)
  /\ Below(fourth, fifth)

Out == rendered \o frames
OutFrames(out) == {out[i].frame : i \in 1 .. Len(out)}
Queued(packets) == UNION {Members(packets[i]) : i \in 1 .. Len(packets)}

EachFrameOnce ==
  Placed(OutFrames(Out), Members(codec), Members(decode.packet), Queued(decrypted),
         Members(decrypt.packet), lost, Handed)

Increasing(packet) == \A i, j \in 1 .. Len(packet) : i < j => packet[i] < packet[j]

\* Packets one after the other.
InLine(packets) ==
  /\ \A i \in 1 .. Len(packets) : Increasing(packets[i])
  /\ \A i, j \in 1 .. Len(packets) : i < j => Below(Members(packets[i]), Members(packets[j]))

PlacesInOrder ==
  /\ Increasing(codec) /\ Increasing(decode.packet) /\ Increasing(decrypt.packet)
  /\ InLine(decrypted)
  /\ \A i, j \in 1 .. Len(Out) : i < j => Out[i].frame < Out[j].frame

\* The decode thread counts what it has pushed, until its time is reset.
Counted ==
  /\ IsFiniteSet(OutFrames(Out)) /\ Cardinality(OutFrames(Out)) = Len(Out)
  /\ ContextOpen => timestamp = Len(Out)

Earlier(gone, f) == {l \in gone : l < f}
Lag == \A i \in 1 .. Len(Out) :
         Out[i].timestamp = Out[i].frame - 1 - Cardinality(Earlier(lost, Out[i].frame))

IInv == /\ TypeOK /\ DemuxedNext /\ PacketsInHand /\ EachFrameOnce
        /\ PlacesInOrder /\ Counted /\ Lag

-----------------------------------------------------------------------------
(* How a frame moves from one place to the next.                           *)

\* The next frame of the stream is decrypted, or the CDM keeps nothing of it.
LEMMA GivenToCdm ==
  ASSUME NEW a, NEW b, NEW c, NEW d, NEW e, NEW gone, NEW h \in Nat,
         Placed(a, b, c, d, e, gone, h)
  PROVE  /\ Placed(a, b, c, d, e \union {h + 1}, gone, h + 1)
         /\ Placed(a, b, c, d, e, gone \union {h + 1}, h + 1)
<1>1. 1 .. h + 1 = (1 .. h) \union {h + 1} /\ h + 1 \notin 1 .. h
  OBVIOUS
<1>2. \A x \in 1 .. h : x < h + 1
  OBVIOUS
<1>3. a \subseteq 1 .. h /\ b \subseteq 1 .. h /\ c \subseteq 1 .. h /\ d \subseteq 1 .. h
  BY DEF Placed
<1>4. e \subseteq 1 .. h /\ gone \subseteq 1 .. h
  BY DEF Placed
<1>5. Placed(a, b, c, d, e \union {h + 1}, gone, h + 1)
  <2>1. /\ a \union b \union c \union d \union (e \union {h + 1}) \union gone = 1 .. h + 1
        /\ gone \intersect (a \union b \union c \union d \union (e \union {h + 1})) = {}
    BY <1>1, <1>4 DEF Placed
  <2>2. /\ Below(a, b \union c \union d \union (e \union {h + 1}))
        /\ Below(b, c \union d \union (e \union {h + 1}))
        /\ Below(c, d \union (e \union {h + 1})) /\ Below(d, e \union {h + 1})
    BY <1>2, <1>3 DEF Placed, Below
  <2>3. QED
    BY <2>1, <2>2 DEF Placed
<1>6. Placed(a, b, c, d, e, gone \union {h + 1}, h + 1)
  BY <1>1, <1>3, <1>4 DEF Placed
<1>7. QED
  BY <1>5, <1>6

\* What is in the last place goes to the end of the one before it.
LEMMA JoinedToQueue ==
  ASSUME NEW a, NEW b, NEW c, NEW d, NEW e, NEW gone, NEW h, Placed(a, b, c, d, e, gone, h)
  PROVE  Placed(a, b, c, d \union e, {}, gone, h)
BY DEF Placed, Below

\* The front part of a place goes to the empty place before it.
LEMMA TakenFromQueue ==
  ASSUME NEW a, NEW b, NEW front, NEW d, NEW e, NEW gone, NEW h, Below(front, d),
         Placed(a, b, {}, front \union d, e, gone, h)
  PROVE  Placed(a, b, front, d, e, gone, h)
BY DEF Placed, Below

\* A packet is sent to the decoder, or skipped.
LEMMA SentOrSkipped ==
  ASSUME NEW a, NEW b, NEW c, NEW d, NEW e, NEW gone, NEW h \in Nat,
         Placed(a, b, c, d, e, gone, h)
  PROVE  /\ Placed(a, b \union c, {}, d, e, gone, h)
         /\ Placed(a, b, {}, d, e, gone \union c, h)
<1>1. Placed(a, b \union c, {}, d, e, gone, h)
  BY DEF Placed, Below
<1>2. \A x \in c : x \notin a /\ x \notin b /\ x \notin d /\ x \notin e
  <2>1. \A x \in c : x \in Nat /\ ~(x < x)
    BY DEF Placed
  <2>2. QED
    BY <2>1 DEF Placed, Below
<1>3. Placed(a, b, {}, d, e, gone \union c, h)
  BY <1>2 DEF Placed, Below
<1>4. QED
  BY <1>1, <1>3

\* The first frame in the decoder comes out, or it cannot be decoded.
LEMMA DecodedOrLost ==
  ASSUME NEW a, NEW x, NEW b, NEW c, NEW d, NEW e, NEW gone, NEW h \in Nat, Below({x}, b),
         Placed(a, {x} \union b, c, d, e, gone, h)
  PROVE  /\ Placed(a \union {x}, b, c, d, e, gone, h)
         /\ Placed(a, b, c, d, e, gone \union {x}, h)
         /\ x \notin a
<1>1. Placed(a \union {x}, b, c, d, e, gone, h)
  BY DEF Placed, Below
<1>2. x \in Nat /\ ~(x < x)
  BY DEF Placed
<1>3. x \notin a /\ x \notin b /\ x \notin c /\ x \notin d /\ x \notin e
  BY <1>2 DEF Placed, Below
<1>4. Placed(a, b, c, d, e, gone \union {x}, h)
  BY <1>3 DEF Placed, Below
<1>5. QED
  BY <1>1, <1>3, <1>4

\* How many frames come before one that is neither played nor lost yet.
LEMMA CountBefore ==
  ASSUME NEW a, NEW x, NEW b, NEW c, NEW d, NEW e, NEW gone, NEW h \in Nat, Below({x}, b),
         Placed(a, {x} \union b, c, d, e, gone, h), IsFiniteSet(a)
  PROVE  /\ x \in Nat /\ Cardinality(a) \in Nat /\ Cardinality(Earlier(gone, x)) \in Nat
         /\ Cardinality(a) = x - 1 - Cardinality(Earlier(gone, x))
<1> DEFINE before == Earlier(gone, x)
<1>0. before = {l \in gone : l < x}
  BY DEF Earlier
<1> HIDE DEF before
<1>1. x \in 1 .. h /\ x \in Nat /\ x - 1 \in Nat
  BY DEF Placed
<1>2. \A y \in a : y \in 1 .. h /\ y < x
  BY DEF Placed, Below
<1>3. \A y \in b \union c \union d \union e : y \in 1 .. h /\ x < y
  BY DEF Placed, Below
<1>4. a \union before = 1 .. x - 1
  <2>1. ASSUME NEW y \in a \union before
        PROVE  y \in 1 .. x - 1
    <3>1. y \in 1 .. h /\ y < x
      BY <1>0, <1>2 DEF Placed
    <3>2. QED
      BY <1>1, <3>1
  <2>2. ASSUME NEW y \in 1 .. x - 1
        PROVE  y \in a \union before
    <3>1. y \in 1 .. h /\ y < x /\ y # x /\ ~(x < y)
      BY <1>1
    <3>2. y \in a \/ y \in gone
      BY <1>3, <3>1 DEF Placed
    <3>3. QED
      BY <1>0, <3>1, <3>2
  <2>3. QED
    BY <2>1, <2>2
<1>5. a \intersect before = {}
  BY <1>0 DEF Placed
<1>6. IsFiniteSet(1 .. x - 1) /\ Cardinality(1 .. x - 1) = x - 1
  <2>1. 1 \in Int /\ x - 1 \in Int
    BY <1>1
  <2>2. Cardinality(1 .. x - 1) = IF 1 > x - 1 THEN 0 ELSE (x - 1) - 1 + 1
    BY <2>1, FS_Interval
  <2>3. QED
    BY <1>1, <2>1, <2>2, FS_Interval
<1>7. IsFiniteSet(before)
  BY <1>4, <1>6, FS_Subset
<1>8. Cardinality(a) \in Nat /\ Cardinality(before) \in Nat
  BY <1>7, FS_CardinalityType
<1>9. Cardinality(a \union before) = Cardinality(a) + Cardinality(before) - Cardinality({})
  BY <1>5, <1>7, FS_Union
<1>10. x - 1 = Cardinality(a) + Cardinality(before)
  <2>1. Cardinality({}) = 0
    BY FS_EmptySet
  <2>2. Cardinality(a \union before) = x - 1
    BY <1>4, <1>6
  <2>3. QED
    BY <1>8, <1>9, <2>1, <2>2
<1>11. QED
  BY <1>1, <1>8, <1>10 DEF before

-----------------------------------------------------------------------------
(* Packets and queues of packets.                                          *)

\* push() of a queue.
LEMMA PushFacts ==
  ASSUME NEW S, NEW s \in Seq(S), NEW e \in S
  PROVE  /\ Append(s, e) \in Seq(S)
         /\ Len(s) \in Nat /\ Len(Append(s, e)) = Len(s) + 1
         /\ \A i \in 1 .. Len(s) : Append(s, e)[i] = s[i]
         /\ Append(s, e)[Len(s) + 1] = e
         /\ \A i \in 1 .. Len(Append(s, e)) : i \in 1 .. Len(s) \/ i = Len(s) + 1
<1>1. /\ Append(s, e) \in Seq(S)
      /\ Len(s) \in Nat /\ Len(Append(s, e)) = Len(s) + 1
      /\ \A i \in 1 .. Len(s) : Append(s, e)[i] = s[i]
      /\ Append(s, e)[Len(s) + 1] = e
  BY AppendProperties, LenProperties
<1>2. \A i \in 1 .. Len(Append(s, e)) : i \in 1 .. Len(s) \/ i = Len(s) + 1
  BY <1>1
<1>3. QED
  BY <1>1, <1>2

\* pop() of a queue that is not empty.
LEMMA PopFacts ==
  ASSUME NEW S, NEW s \in Seq(S), s # <<>>
  PROVE  /\ Len(s) \in Nat \ {0} /\ Head(s) = s[1] /\ Head(s) \in S
         /\ Tail(s) \in Seq(S)
         /\ Len(Tail(s)) = Len(s) - 1
         /\ \A i \in 1 .. Len(Tail(s)) : i + 1 \in 1 .. Len(s) /\ Tail(s)[i] = s[i + 1]
         /\ \A i \in 1 .. Len(s) : i = 1 \/ (i - 1 \in 1 .. Len(Tail(s)) /\ s[i] = Tail(s)[i - 1])
<1>1. Len(s) \in Nat \ {0}
  BY EmptySeq
<1>2. Head(s) = s[1] /\ s[1] \in S
  BY <1>1, ElementOfSeq
<1>3. /\ Tail(s) \in Seq(S) /\ Len(Tail(s)) = Len(s) - 1
      /\ \A i \in 1 .. Len(Tail(s)) : Tail(s)[i] = s[i + 1]
  BY <1>1, HeadTailProperties
<1>4. \A i \in 1 .. Len(Tail(s)) : i + 1 \in 1 .. Len(s) /\ Tail(s)[i] = s[i + 1]
  BY <1>1, <1>3
<1>5. ASSUME NEW i \in 1 .. Len(s)
      PROVE  i = 1 \/ (i - 1 \in 1 .. Len(Tail(s)) /\ s[i] = Tail(s)[i - 1])
  <2>1. CASE i = 1
    BY <2>1
  <2>2. CASE i # 1
    <3>1. i - 1 \in 1 .. Len(Tail(s)) /\ (i - 1) + 1 = i
      BY <1>1, <1>3, <2>2
    <3>2. QED
      BY <1>3, <3>1
  <2>3. QED
    BY <2>1, <2>2
<1>6. QED
  BY <1>1, <1>2, <1>3, <1>4, <1>5

\* A frame is put at the end of a packet.
LEMMA JoinFacts ==
  ASSUME NEW s \in Seq(Nat), NEW e \in Nat, Increasing(s), Below(Members(s), {e})
  PROVE  /\ Members(Append(s, e)) = Members(s) \union {e}
         /\ Increasing(Append(s, e))
<1> DEFINE t == Append(s, e)
<1>1. /\ Len(s) \in Nat /\ Len(t) = Len(s) + 1 /\ t \in Seq(Nat)
      /\ \A i \in 1 .. Len(s) : t[i] = s[i]
      /\ t[Len(s) + 1] = e
      /\ \A i \in 1 .. Len(t) : i \in 1 .. Len(s) \/ i = Len(s) + 1
  BY PushFacts
<1>2. DOMAIN s = 1 .. Len(s) /\ DOMAIN t = 1 .. Len(t)
  BY <1>1, LenProperties
<1> HIDE DEF t
<1>3. Members(t) = Members(s) \union {e}
  <2>1. ASSUME NEW i \in 1 .. Len(t)
        PROVE  t[i] \in Members(s) \union {e}
    <3>1. CASE i \in 1 .. Len(s)
      <4>1. t[i] = s[i] /\ i \in DOMAIN s
        BY <1>1, <1>2, <3>1
      <4>2. QED
        BY <4>1 DEF Members
    <3>2. CASE i = Len(s) + 1
      BY <1>1, <3>2
    <3>3. QED
      BY <1>1, <3>1, <3>2
  <2>2. ASSUME NEW i \in 1 .. Len(s)
        PROVE  s[i] \in Members(t)
    <3>1. s[i] = t[i] /\ i \in DOMAIN t
      BY <1>1, <1>2
    <3>2. QED
      BY <3>1 DEF Members
  <2>3. e \in Members(t)
    BY <1>1, <1>2 DEF Members
  <2>4. QED
    BY <1>2, <2>1, <2>2, <2>3 DEF Members
<1>4. ASSUME NEW i \in 1 .. Len(t), NEW j \in 1 .. Len(t), i < j
      PROVE  t[i] < t[j]
  <2>1. i \in 1 .. Len(s) /\ t[i] = s[i]
    BY <1>1, <1>4
  <2>2. CASE j \in 1 .. Len(s)
    BY <1>1, <1>4, <2>1, <2>2 DEF Increasing
  <2>3. CASE j = Len(s) + 1
    BY <1>1, <1>2, <2>1, <2>3 DEF Below, Members
  <2>4. QED
    BY <1>1, <2>2, <2>3
<1>5. QED
  BY <1>3, <1>4 DEF Increasing, t

\* The first frame of a packet is the smallest.
LEMMA FirstFacts ==
  ASSUME NEW s \in Seq(Nat), s # <<>>, Increasing(s)
  PROVE  /\ Members(s) = {Head(s)} \union Members(Tail(s))
         /\ Increasing(Tail(s))
         /\ Below({Head(s)}, Members(Tail(s)))
<1> DEFINE t == Tail(s)
<1>1. /\ Len(s) \in Nat \ {0} /\ Head(s) = s[1] /\ t \in Seq(Nat) /\ Len(t) = Len(s) - 1
      /\ \A i \in 1 .. Len(t) : i + 1 \in 1 .. Len(s) /\ t[i] = s[i + 1]
      /\ \A i \in 1 .. Len(s) : i = 1 \/ (i - 1 \in 1 .. Len(t) /\ s[i] = t[i - 1])
  BY PopFacts
<1>2. DOMAIN s = 1 .. Len(s) /\ DOMAIN t = 1 .. Len(t)
  BY <1>1, LenProperties
<1> HIDE DEF t
<1>3. 1 \in 1 .. Len(s)
  BY <1>1
<1>4. Members(s) = {s[1]} \union Members(t)
  <2>1. ASSUME NEW x \in Members(s)
        PROVE  x \in {s[1]} \union Members(t)
    <3>1. PICK i \in 1 .. Len(s) : x = s[i]
      BY <1>2 DEF Members
    <3>2. i = 1 \/ (i - 1 \in 1 .. Len(t) /\ s[i] = t[i - 1])
      BY <1>1
    <3>3. QED
      BY <1>2, <3>1, <3>2 DEF Members
  <2>2. ASSUME NEW x \in {s[1]} \union Members(t)
        PROVE  x \in Members(s)
    <3>1. CASE x = s[1]
      BY <1>2, <1>3, <3>1 DEF Members
    <3>2. CASE x \in Members(t)
      <4>1. PICK i \in 1 .. Len(t) : x = t[i]
        BY <1>2, <3>2 DEF Members
      <4>2. i + 1 \in 1 .. Len(s) /\ x = s[i + 1]
        BY <1>1, <4>1
      <4>3. QED
        BY <1>2, <4>2 DEF Members
    <3>3. QED
      BY <3>1, <3>2
  <2>3. QED
    BY <2>1, <2>2
<1>5. ASSUME NEW i \in 1 .. Len(t), NEW j \in 1 .. Len(t), i < j
      PROVE  t[i] < t[j]
  <2>1. i + 1 \in 1 .. Len(s) /\ j + 1 \in 1 .. Len(s) /\ i + 1 < j + 1
    BY <1>1, <1>5
  <2>2. QED
    BY <1>1, <2>1 DEF Increasing
<1>6. ASSUME NEW i \in 1 .. Len(t)
      PROVE  s[1] < t[i]
  <2>1. i + 1 \in 1 .. Len(s) /\ 1 < i + 1
    BY <1>1
  <2>2. QED
    BY <1>1, <1>3, <2>1 DEF Increasing
<1>7. Below({s[1]}, Members(t))
  BY <1>2, <1>6 DEF Below, Members
<1>8. QED
  BY <1>1, <1>4, <1>5, <1>7 DEF Increasing, t

\* A packet is sent to a decoder with earlier frames.
LEMMA SendFacts ==
  ASSUME NEW s \in Seq(Nat), NEW t \in Seq(Nat), Increasing(s), Increasing(t),
         Below(Members(s), Members(t))
  PROVE  /\ s \o t \in Seq(Nat)
         /\ Members(s \o t) = Members(s) \union Members(t)
         /\ Increasing(s \o t)
<1> DEFINE u == s \o t
<1>1. /\ u \in Seq(Nat) /\ Len(u) = Len(s) + Len(t) /\ Len(s) \in Nat /\ Len(t) \in Nat
      /\ \A i \in 1 .. Len(s) + Len(t) : u[i] = IF i <= Len(s) THEN s[i] ELSE t[i - Len(s)]
  BY ConcatProperties, LenProperties
<1>2. DOMAIN s = 1 .. Len(s) /\ DOMAIN t = 1 .. Len(t) /\ DOMAIN u = 1 .. Len(u)
  BY <1>1, LenProperties
<1> HIDE DEF u
<1>3. ASSUME NEW i \in 1 .. Len(s)
      PROVE  i \in 1 .. Len(u) /\ u[i] = s[i]
  BY <1>1
<1>4. ASSUME NEW i \in 1 .. Len(t)
      PROVE  Len(s) + i \in 1 .. Len(u) /\ u[Len(s) + i] = t[i]
  <2>1. Len(s) + i \in 1 .. Len(s) + Len(t) /\ ~(Len(s) + i <= Len(s)) /\ (Len(s) + i) - Len(s) = i
    BY <1>1
  <2>2. QED
    BY <1>1, <2>1
<1>5. ASSUME NEW i \in 1 .. Len(u), i \notin 1 .. Len(s)
      PROVE  i - Len(s) \in 1 .. Len(t) /\ u[i] = t[i - Len(s)]
  <2>1. i \in 1 .. Len(s) + Len(t) /\ ~(i <= Len(s))
    BY <1>1, <1>5
  <2>2. QED
    BY <1>1, <2>1
<1>6. Members(u) = Members(s) \union Members(t)
  <2>1. ASSUME NEW x \in Members(u)
        PROVE  x \in Members(s) \union Members(t)
    <3>1. PICK i \in 1 .. Len(u) : x = u[i]
      BY <1>2 DEF Members
    <3>2. QED
      BY <1>2, <1>3, <1>5, <3>1 DEF Members
  <2>2. ASSUME NEW x \in Members(s) \union Members(t)
        PROVE  x \in Members(u)
    BY <1>2, <1>3, <1>4 DEF Members
  <2>3. QED
    BY <2>1, <2>2
<1>7. ASSUME NEW i \in 1 .. Len(u), NEW j \in 1 .. Len(u), i < j
      PROVE  u[i] < u[j]
  <2>1. CASE i \in 1 .. Len(s) /\ j \in 1 .. Len(s)
    BY <1>3, <1>7, <2>1 DEF Increasing
  <2>2. CASE i \in 1 .. Len(s) /\ j \notin 1 .. Len(s)
    <3>1. u[i] = s[i] /\ j - Len(s) \in 1 .. Len(t) /\ u[j] = t[j - Len(s)]
      BY <1>3, <1>5, <2>2
    <3>2. QED
      BY <1>2, <2>2, <3>1 DEF Below, Members
  <2>3. CASE i \notin 1 .. Len(s)
    <3>1. j \notin 1 .. Len(s)
      BY <1>1, <1>7, <2>3
    <3>2. /\ i - Len(s) \in 1 .. Len(t) /\ u[i] = t[i - Len(s)]
          /\ j - Len(s) \in 1 .. Len(t) /\ u[j] = t[j - Len(s)]
          /\ i - Len(s) < j - Len(s)
      BY <1>1, <1>5, <1>7, <2>3, <3>1
    <3>3. QED
      BY <3>2 DEF Increasing
  <2>4. QED
    BY <2>1, <2>2, <2>3
<1>8. QED
  BY <1>1, <1>6, <1>7 DEF Increasing, u

\* A packet goes to the end of a queue of earlier ones.
LEMMA PacketPushFacts ==
  ASSUME NEW q \in Seq(Seq(Nat)), NEW s \in Seq(Nat), InLine(q), Increasing(s),
         Below(Queued(q), Members(s))
  PROVE  /\ Queued(Append(q, s)) = Queued(q) \union Members(s)
         /\ InLine(Append(q, s))
<1> DEFINE r == Append(q, s)
<1>1. /\ Len(q) \in Nat /\ Len(r) = Len(q) + 1
      /\ \A i \in 1 .. Len(q) : r[i] = q[i]
      /\ r[Len(q) + 1] = s
      /\ \A i \in 1 .. Len(r) : i \in 1 .. Len(q) \/ i = Len(q) + 1
  BY PushFacts
<1> HIDE DEF r
<1>2. /\ \A i \in 1 .. Len(q) : i \in 1 .. Len(r) /\ Members(r[i]) = Members(q[i])
      /\ Len(q) + 1 \in 1 .. Len(r) /\ Members(r[Len(q) + 1]) = Members(s)
  BY <1>1
<1>3. Queued(r) = Queued(q) \union Members(s)
  <2>1. ASSUME NEW x \in Queued(r)
        PROVE  x \in Queued(q) \union Members(s)
    BY <1>1, <1>2 DEF Queued
  <2>2. ASSUME NEW x \in Queued(q) \union Members(s)
        PROVE  x \in Queued(r)
    BY <1>2 DEF Queued
  <2>3. QED
    BY <2>1, <2>2
<1>4. \A i \in 1 .. Len(r) : Increasing(r[i])
  BY <1>1 DEF InLine
<1>5. ASSUME NEW i \in 1 .. Len(r), NEW j \in 1 .. Len(r), i < j
      PROVE  Below(Members(r[i]), Members(r[j]))
  <2>1. i \in 1 .. Len(q)
    BY <1>1, <1>5
  <2>2. CASE j \in 1 .. Len(q)
    BY <1>2, <1>5, <2>1, <2>2 DEF InLine
  <2>3. CASE j = Len(q) + 1
    <3>1. Members(r[i]) \subseteq Queued(q)
      BY <1>2, <2>1 DEF Queued
    <3>2. QED
      BY <1>2, <2>3, <3>1 DEF Below
  <2>4. QED
    BY <1>1, <2>2, <2>3
<1>6. QED
  BY <1>3, <1>4, <1>5 DEF InLine, r

\* The first packet of a queue is taken.
LEMMA PacketPopFacts ==
  ASSUME NEW q \in Seq(Seq(Nat)), q # <<>>, InLine(q)
  PROVE  /\ Queued(q) = Members(Head(q)) \union Queued(Tail(q))
         /\ Increasing(Head(q)) /\ InLine(Tail(q))
         /\ Below(Members(Head(q)), Queued(Tail(q)))
<1> DEFINE r == Tail(q)
<1>1. /\ Len(q) \in Nat \ {0} /\ Head(q) = q[1] /\ Len(r) = Len(q) - 1
      /\ \A i \in 1 .. Len(r) : i + 1 \in 1 .. Len(q) /\ r[i] = q[i + 1]
      /\ \A i \in 1 .. Len(q) : i = 1 \/ (i - 1 \in 1 .. Len(r) /\ q[i] = r[i - 1])
  BY PopFacts
<1> HIDE DEF r
<1>2. 1 \in 1 .. Len(q)
  BY <1>1
<1>3. Queued(q) = Members(q[1]) \union Queued(r)
  <2>1. ASSUME NEW x \in Queued(q)
        PROVE  x \in Members(q[1]) \union Queued(r)
    <3>1. PICK i \in 1 .. Len(q) : x \in Members(q[i])
      BY <2>1 DEF Queued
    <3>2. i = 1 \/ (i - 1 \in 1 .. Len(r) /\ q[i] = r[i - 1])
      BY <1>1
    <3>3. CASE i - 1 \in 1 .. Len(r) /\ q[i] = r[i - 1]
      BY <3>1, <3>3 DEF Queued
    <3>4. QED
      BY <3>1, <3>2, <3>3
  <2>2. ASSUME NEW x \in Members(q[1]) \union Queued(r)
        PROVE  x \in Queued(q)
    BY <1>1, <1>2 DEF Queued
  <2>3. QED
    BY <2>1, <2>2
<1>4. ASSUME NEW i \in 1 .. Len(r)
      PROVE  Increasing(r[i]) /\ Below(Members(q[1]), Members(r[i]))
  <2>1. i + 1 \in 1 .. Len(q) /\ r[i] = q[i + 1] /\ 1 < i + 1
    BY <1>1
  <2>2. QED
    BY <1>2, <2>1 DEF InLine
<1>5. ASSUME NEW i \in 1 .. Len(r), NEW j \in 1 .. Len(r), i < j
      PROVE  Below(Members(r[i]), Members(r[j]))
  <2>1. /\ i + 1 \in 1 .. Len(q) /\ r[i] = q[i + 1] /\ j + 1 \in 1 .. Len(q) /\ r[j] = q[j + 1]
        /\ i + 1 < j + 1
    BY <1>1, <1>5
  <2>2. QED
    BY <2>1 DEF InLine
<1>6. Below(Members(q[1]), Queued(r))
  BY <1>4 DEF Below, Queued
<1>7. QED
  BY <1>1, <1>2, <1>3, <1>4, <1>5, <1>6 DEF InLine, r

-----------------------------------------------------------------------------
(* What is played or waits for it.                                         *)

\* The render thread takes a frame from the queue: the frames that are out stay the same.
LEMMA RenderKeepsOut ==
  ASSUME TypeOK, RenderFrame
  PROVE  Out' = Out /\ frames' \in Seq(Played) /\ rendered' \in Seq(Played)
<1> DEFINE h == Head(frames)
           t == Tail(frames)
<1>1. /\ frames \in Seq(Played) /\ rendered \in Seq(Played) /\ frames # <<>>
      /\ rendered' = Append(rendered, h) /\ frames' = t
  BY DEF TypeOK, RenderFrame
<1>2. /\ h \in Played /\ h = frames[1] /\ t \in Seq(Played) /\ Len(t) = Len(frames) - 1
      /\ Len(frames) \in Nat \ {0}
      /\ \A i \in 1 .. Len(frames) : i = 1 \/ (i - 1 \in 1 .. Len(t) /\ frames[i] = t[i - 1])
  BY <1>1, PopFacts
<1> HIDE DEF h, t
<1>3. <<h>> \in Seq(Played) /\ Len(<<h>>) = 1 /\ <<h>>[1] = h
  BY <1>2
<1>4. <<h>> \o t = frames
  <2>1. /\ <<h>> \o t \in Seq(Played) /\ Len(<<h>> \o t) = 1 + Len(t)
        /\ \A i \in 1 .. 1 + Len(t) : (<<h>> \o t)[i] = IF i <= 1 THEN <<h>>[i] ELSE t[i - 1]
    BY <1>2, <1>3, ConcatProperties
  <2>2. ASSUME NEW i \in 1 .. Len(frames)
        PROVE  (<<h>> \o t)[i] = frames[i]
    <3>1. CASE i = 1
      BY <1>2, <1>3, <2>1, <3>1
    <3>2. CASE i # 1
      BY <1>2, <2>1, <3>2
    <3>3. QED
      BY <3>1, <3>2
  <2>3. Len(<<h>> \o t) = Len(frames)
    BY <1>2, <2>1
  <2>4. \A i \in 1 .. Len(<<h>> \o t) : (<<h>> \o t)[i] = frames[i]
    BY <2>2, <2>3
  <2>5. QED
    BY <1>1, <2>1, <2>3, <2>4, SeqEqual
<1>5. Append(rendered, h) = rendered \o <<h>> /\ Append(rendered, h) \in Seq(Played)
  BY <1>1, <1>2, AppendIsConcat, AppendProperties
<1>6. (rendered \o <<h>>) \o t = rendered \o (<<h>> \o t)
  BY <1>1, <1>2, <1>3, ConcatAssociative
<1>7. QED
  BY <1>1, <1>2, <1>4, <1>5, <1>6 DEF Out

\* The decode thread pushes a frame.
LEMMA PushAddsToOut ==
  ASSUME TypeOK, NEW e \in Played, frames' = Append(frames, e), rendered' = rendered
  PROVE  Out' = Append(Out, e) /\ Out \in Seq(Played)
<1>1. frames \in Seq(Played) /\ rendered \in Seq(Played) /\ <<e>> \in Seq(Played)
  BY DEF TypeOK
<1>2. rendered \o frames \in Seq(Played)
  BY <1>1, ConcatProperties
<1>3. Append(frames, e) = frames \o <<e>>
  BY <1>1, AppendIsConcat
<1>4. Append(rendered \o frames, e) = (rendered \o frames) \o <<e>>
  BY <1>2, AppendIsConcat
<1>5. (rendered \o frames) \o <<e>> = rendered \o (frames \o <<e>>)
  BY <1>1, ConcatAssociative
<1>6. QED
  BY <1>2, <1>3, <1>4, <1>5 DEF Out

\* What is out is a queue of frames with their times.
LEMMA OutFacts ==
  ASSUME TypeOK
  PROVE  /\ Out \in Seq(Played) /\ Len(Out) \in Nat
         /\ \A i \in 1 .. Len(Out) : Out[i].frame \in Nat /\ Out[i].timestamp \in Nat
<1>1. Out \in Seq(Played)
  BY ConcatProperties DEF TypeOK, Out
<1>2. Len(Out) \in Nat /\ \A i \in 1 .. Len(Out) : Out[i] \in Played
  BY <1>1, LenProperties, ElementOfSeq
<1>3. QED
  BY <1>1, <1>2 DEF Played

-----------------------------------------------------------------------------
(* How many frames the CDM has been given.                                 *)

\* A sample has FramesPerSample frames.
LEMMA SampleFacts ==
  ASSUME NEW s \in Nat
  PROVE  /\ s * FramesPerSample \in Nat
         /\ (s + 1) * FramesPerSample = s * FramesPerSample + FramesPerSample
         /\ FramesPerSample \in Nat \ {0}
BY BoundsAssumption

\* The next frame to decrypt is the one after all that were given to the CDM.
LEMMA HandedFacts ==
  ASSUME TypeOK, PacketsInHand
  PROVE  /\ Handed \in Nat
         /\ decrypt.at = "frame" =>
              /\ Frame = Handed + 1 /\ Frame \in Nat
              /\ (decrypt.pos = FramesPerSample => Frame = decrypt.sample * FramesPerSample)
<1>1. decrypt.sample \in Nat /\ decrypt.pos \in Nat /\ FramesPerSample \in Nat \ {0}
  BY SampleFacts DEF TypeOK
<1>2. CASE decrypt.at = "frame"
  <2>1. /\ decrypt.sample - 1 \in Nat /\ (decrypt.sample - 1) + 1 = decrypt.sample
        /\ decrypt.pos \in 1 .. FramesPerSample
    BY <1>1, <1>2 DEF PacketsInHand
  <2> DEFINE before == (decrypt.sample - 1) * FramesPerSample
  <2>2. before \in Nat /\ decrypt.sample * FramesPerSample = before + FramesPerSample
    BY <2>1, SampleFacts
  <2>3. Frame = before + decrypt.pos
    BY DEF Frame
  <2> HIDE DEF before
  <2>4. QED
    BY <1>1, <1>2, <2>1, <2>2, <2>3 DEF Handed
<1>3. CASE decrypt.at # "frame"
  BY <1>1, <1>3, SampleFacts DEF Handed
<1>4. QED
  BY <1>2, <1>3

\* The loop over the frames of a sample counts one on.
LEMMA NextFrameFacts ==
  ASSUME TypeOK, PacketsInHand, decrypt.at = "frame", NEW p \in Seq(Nat), decrypt' = NextFrame(p)
  PROVE  /\ decrypt' \in [at : DecryptPlaces, sample : Nat, pos : Nat, packet : Seq(Nat)]
         /\ decrypt'.packet = p /\ decrypt'.sample = decrypt.sample
         /\ \/ decrypt'.at = "frame" /\ decrypt'.pos \in 1 .. FramesPerSample
            \/ decrypt'.at = "push"
         /\ Handed' = Handed + 1
<1>1. /\ decrypt \in [at : DecryptPlaces, sample : Nat, pos : Nat, packet : Seq(Nat)]
      /\ decrypt.sample \in Nat \ {0} /\ decrypt.pos \in Nat
      /\ decrypt.pos \in 1 .. FramesPerSample /\ FramesPerSample \in Nat \ {0}
  BY SampleFacts DEF TypeOK, PacketsInHand
<1>2. Handed \in Nat /\ Frame = Handed + 1 /\ Frame = (decrypt.sample - 1) * FramesPerSample + decrypt.pos
  BY HandedFacts DEF Frame
<1>3. CASE decrypt.pos < FramesPerSample
  <2>1. decrypt' = [decrypt EXCEPT !.pos = decrypt.pos + 1, !.packet = p]
    BY <1>3 DEF NextFrame
  <2>2. /\ decrypt'.at = "frame" /\ decrypt'.sample = decrypt.sample /\ decrypt'.pos = decrypt.pos + 1
        /\ decrypt'.packet = p
    BY <1>1, <2>1
  <2>3. decrypt' \in [at : DecryptPlaces, sample : Nat, pos : Nat, packet : Seq(Nat)]
    <3>1. decrypt.pos + 1 \in Nat
      BY <1>1
    <3>2. QED
      BY <1>1, <2>1, <3>1
  <2>4. decrypt.pos + 1 \in 1 .. FramesPerSample
    BY <1>1, <1>3
  <2> DEFINE before == (decrypt.sample - 1) * FramesPerSample
  <2>5. before \in Nat
    <3>1. decrypt.sample - 1 \in Nat
      BY <1>1
    <3>2. QED
      BY <3>1, SampleFacts
  <2>6. Frame' = before + (decrypt.pos + 1) /\ Frame = before + decrypt.pos
    <3>1. Frame' = (decrypt'.sample - 1) * FramesPerSample + decrypt'.pos
      BY DEF Frame
    <3>2. QED
      BY <2>2, <3>1 DEF Frame
  <2> HIDE DEF before
  <2>7. Handed' = Handed + 1
    <3>1. Handed' = Frame' - 1
      BY <2>2 DEF Handed
    <3>2. QED
      BY <1>1, <1>2, <2>5, <2>6, <3>1
  <2>8. QED
    BY <2>2, <2>3, <2>4, <2>7
<1>4. CASE ~(decrypt.pos < FramesPerSample)
  <2>1. decrypt' = [decrypt EXCEPT !.at = "push", !.packet = p] /\ decrypt.pos = FramesPerSample
    BY <1>1, <1>4 DEF NextFrame
  <2>2. decrypt'.at = "push" /\ decrypt'.sample = decrypt.sample /\ decrypt'.packet = p
    BY <1>1, <2>1
  <2>3. decrypt' \in [at : DecryptPlaces, sample : Nat, pos : Nat, packet : Seq(Nat)]
    BY <1>1, <2>1 DEF DecryptPlaces
  <2>4. Handed' = decrypt.sample * FramesPerSample
    BY <2>2 DEF Handed
  <2>5. QED
    BY <1>2, <2>1, <2>2, <2>3, <2>4, HandedFacts
<1>5. QED
  BY <1>3, <1>4

-----------------------------------------------------------------------------
(* One lemma for each way a frame changes its place.                       *)

\* Where frames can be.
LEMMA PlacesFacts ==
  ASSUME TypeOK, EachFrameOnce, PacketsInHand
  PROVE  /\ Handed \in Nat
         /\ OutFrames(Out) \subseteq 1 .. Handed /\ Members(decrypt.packet) \subseteq 1 .. Handed
         /\ Below(OutFrames(Out), Members(codec)) /\ Below(OutFrames(Out), Members(decode.packet))
         /\ Below(Members(codec), Members(decode.packet))
         /\ Below(Queued(decrypted), Members(decrypt.packet))
BY HandedFacts DEF EachFrameOnce, Placed, Below

\* The empty packet.
LEMMA NoFrames == Members(<<>>) = {} /\ Increasing(<<>>) /\ <<>> \in Seq(Nat)
<1>1. Len(<<>>) = 0 /\ DOMAIN <<>> = {} /\ <<>> \in Seq(Nat)
  BY EmptySeq
<1>2. QED
  BY <1>1 DEF Members, Increasing

\* The CDM decrypts the frame.
LEMMA DecryptedStep ==
  ASSUME IInv, DecryptSucceeds, UNCHANGED <<Out, codec, decode>>
  PROVE  EachFrameOnce' /\ PlacesInOrder'
<1> DEFINE p == decrypt.packet
           q == Append(decrypt.packet, Frame)
<1>1. /\ p \in Seq(Nat) /\ Frame \in Nat /\ Frame = Handed + 1 /\ Handed \in Nat
      /\ decrypt.at = "frame" /\ decrypt' = NextFrame(q)
      /\ lost' = lost /\ decrypted' = decrypted
  BY HandedFacts DEF IInv, TypeOK, DecryptSucceeds
<1>2. Below(Members(p), {Frame})
  BY <1>1, PlacesFacts DEF IInv, Below
<1>3. Members(q) = Members(p) \union {Frame} /\ Increasing(q)
  BY <1>1, <1>2, JoinFacts DEF IInv, PlacesInOrder
<1>4. q \in Seq(Nat)
  BY <1>1, AppendProperties
<1> HIDE DEF q
<1>5. decrypt'.packet = q /\ Handed' = Handed + 1
  BY <1>1, <1>4, NextFrameFacts DEF IInv
<1>6. Placed(OutFrames(Out), Members(codec), Members(decode.packet), Queued(decrypted),
             Members(p) \union {Frame}, lost, Handed + 1)
  BY <1>1, GivenToCdm DEF IInv, EachFrameOnce
<1>7. EachFrameOnce'
  BY <1>1, <1>3, <1>5, <1>6 DEF EachFrameOnce
<1>8. PlacesInOrder'
  BY <1>1, <1>3, <1>5 DEF IInv, PlacesInOrder
<1>9. QED
  BY <1>7, <1>8

\* The CDM needs more data and gives nothing back.
LEMMA NothingKeptStep ==
  ASSUME IInv, DecryptNeedsMore, UNCHANGED <<Out, codec, decode>>
  PROVE  EachFrameOnce' /\ PlacesInOrder'
<1>1. /\ decrypt.packet \in Seq(Nat) /\ Frame = Handed + 1 /\ Handed \in Nat
      /\ decrypt.at = "frame" /\ decrypt' = NextFrame(decrypt.packet)
      /\ lost' = lost \union {Frame} /\ decrypted' = decrypted
  BY HandedFacts DEF IInv, TypeOK, DecryptNeedsMore
<1>2. decrypt'.packet = decrypt.packet /\ Handed' = Handed + 1
  BY <1>1, NextFrameFacts DEF IInv
<1>3. Placed(OutFrames(Out), Members(codec), Members(decode.packet), Queued(decrypted),
             Members(decrypt.packet), lost \union {Frame}, Handed + 1)
  BY <1>1, GivenToCdm DEF IInv, EachFrameOnce
<1>4. EachFrameOnce'
  BY <1>1, <1>2, <1>3 DEF EachFrameOnce
<1>5. PlacesInOrder'
  BY <1>1, <1>2 DEF IInv, PlacesInOrder
<1>6. QED
  BY <1>4, <1>5

\* The packet of a sample is complete.
LEMMA PacketStep ==
  ASSUME IInv, DecryptPush, UNCHANGED <<Out, codec, decode>>
  PROVE  EachFrameOnce' /\ PlacesInOrder' /\ decrypted' \in Seq(Seq(Nat))
<1> DEFINE p == decrypt.packet
           q == Append(decrypted, decrypt.packet)
<1>1. /\ p \in Seq(Nat) /\ decrypted \in Seq(Seq(Nat)) /\ decrypted' = q /\ lost' = lost
      /\ decrypt.at = "push" /\ decrypt' = [decrypt EXCEPT !.at = "loop", !.packet = <<>>]
      /\ decrypt \in [at : DecryptPlaces, sample : Nat, pos : Nat, packet : Seq(Nat)]
  BY DEF IInv, TypeOK, DecryptPush
<1>2. decrypt'.at = "loop" /\ decrypt'.sample = decrypt.sample /\ decrypt'.packet = <<>>
  BY <1>1
<1>3. Handed' = Handed
  BY <1>1, <1>2 DEF Handed
<1>4. Queued(q) = Queued(decrypted) \union Members(p) /\ InLine(q)
  BY <1>1, PacketPushFacts, PlacesFacts DEF IInv, PlacesInOrder
<1>5. q \in Seq(Seq(Nat))
  BY <1>1, AppendProperties
<1> HIDE DEF q
<1>6. Placed(OutFrames(Out), Members(codec), Members(decode.packet), Queued(decrypted) \union Members(p),
             {}, lost, Handed)
  BY JoinedToQueue DEF IInv, EachFrameOnce
<1>7. EachFrameOnce'
  BY <1>1, <1>2, <1>3, <1>4, <1>6, NoFrames DEF EachFrameOnce
<1>8. PlacesInOrder'
  BY <1>1, <1>2, <1>4, NoFrames DEF IInv, PlacesInOrder
<1>9. QED
  BY <1>1, <1>5, <1>7, <1>8

\* The decrypt thread takes a sample, the one after the last.
LEMMA SampleStep ==
  ASSUME IInv, DecryptPop, UNCHANGED <<Out, codec, decode>>
  PROVE  /\ EachFrameOnce' /\ PlacesInOrder'
         /\ demuxed' \in Seq(Nat) /\ Len(demuxed') = Len(demuxed) - 1 /\ Len(demuxed) \in Nat
         /\ decrypt' = [at |-> "frame", sample |-> decrypt.sample + 1, pos |-> 1, packet |-> <<>>]
         /\ \A i \in 1 .. Len(demuxed') : demuxed'[i] = decrypt'.sample + i
<1>1. /\ demuxed \in Seq(Nat) /\ demuxed # <<>> /\ decrypt.sample \in Nat
      /\ demuxed' = Tail(demuxed)
      /\ decrypt.at = "pop" /\ decrypt.packet = <<>>
      /\ decrypt' = [at |-> "frame", sample |-> Head(demuxed), pos |-> 1, packet |-> <<>>]
      /\ lost' = lost /\ decrypted' = decrypted
  BY DEF IInv, TypeOK, PacketsInHand, DecryptPop
<1>2. /\ Len(demuxed) \in Nat \ {0} /\ Head(demuxed) = demuxed[1]
      /\ demuxed' \in Seq(Nat) /\ Len(demuxed') = Len(demuxed) - 1
      /\ \A i \in 1 .. Len(demuxed') : i + 1 \in 1 .. Len(demuxed) /\ demuxed'[i] = demuxed[i + 1]
  BY <1>1, PopFacts
<1>3. demuxed[1] = decrypt.sample + 1
  BY <1>2 DEF IInv, DemuxedNext
<1>4. decrypt' = [at |-> "frame", sample |-> decrypt.sample + 1, pos |-> 1, packet |-> <<>>]
  BY <1>1, <1>2, <1>3
<1>5. decrypt'.at = "frame" /\ decrypt'.sample = decrypt.sample + 1 /\ decrypt'.pos = 1
      /\ decrypt'.packet = decrypt.packet
  BY <1>1, <1>4
<1>6. ASSUME NEW i \in 1 .. Len(demuxed')
      PROVE  demuxed'[i] = decrypt'.sample + i
  <2>1. i \in Nat /\ demuxed'[i] = decrypt.sample + (i + 1)
    BY <1>2 DEF IInv, DemuxedNext
  <2>2. decrypt.sample + (i + 1) = (decrypt.sample + 1) + i
    <3>1. decrypt.sample \in Nat
      BY <1>1
    <3>2. QED
      BY <2>1, <3>1
  <2>3. QED
    BY <1>5, <2>1, <2>2
<1>7. Handed' = Handed
  <2>1. Handed = decrypt.sample * FramesPerSample /\ Handed \in Nat
    BY <1>1, SampleFacts DEF Handed
  <2>2. Handed' = Frame' - 1
    BY <1>5 DEF Handed
  <2>3. Frame' = (decrypt'.sample - 1) * FramesPerSample + decrypt'.pos
    BY DEF Frame
  <2>4. decrypt'.sample - 1 = decrypt.sample
    BY <1>1, <1>5
  <2>5. Frame' = Handed + 1
    BY <1>5, <2>1, <2>3, <2>4
  <2>6. QED
    BY <2>1, <2>2, <2>5
<1>8. EachFrameOnce' /\ PlacesInOrder'
  BY <1>1, <1>5, <1>7 DEF IInv, EachFrameOnce, PlacesInOrder
<1>9. QED
  BY <1>2, <1>4, <1>6, <1>8

\* The decode thread takes a packet, the oldest.
LEMMA PacketTakenStep ==
  ASSUME IInv, DecodePop, UNCHANGED <<Out, decrypt>>
  PROVE  /\ EachFrameOnce' /\ PlacesInOrder' /\ decrypted' \in Seq(Seq(Nat))
         /\ decode' \in [at : DecodePlaces, packet : Seq(Nat)] /\ decode'.at = "send"
<1> DEFINE p == Head(decrypted)
           q == Tail(decrypted)
<1>1. /\ decrypted \in Seq(Seq(Nat)) /\ decrypted # <<>> /\ decrypted' = q /\ lost' = lost
      /\ codec' = codec /\ decode.packet = <<>> /\ decode' = [at |-> "send", packet |-> p]
      /\ InLine(decrypted)
  BY DEF IInv, TypeOK, PacketsInHand, PlacesInOrder, DecodePop
<1>2. /\ Queued(decrypted) = Members(p) \union Queued(q) /\ Increasing(p) /\ InLine(q)
      /\ Below(Members(p), Queued(q))
  BY <1>1, PacketPopFacts
<1>3. p \in Seq(Nat) /\ q \in Seq(Seq(Nat))
  BY <1>1, PopFacts
<1> HIDE DEF p, q
<1>4. Handed' = Handed
  BY DEF Handed, Frame
<1>5. Placed(OutFrames(Out), Members(codec), {}, Members(p) \union Queued(q), Members(decrypt.packet),
             lost, Handed)
  BY <1>1, <1>2, NoFrames DEF IInv, EachFrameOnce
<1>6. Placed(OutFrames(Out), Members(codec), Members(p), Queued(q), Members(decrypt.packet), lost, Handed)
  BY <1>2, <1>5, TakenFromQueue
<1>7. decode'.packet = p /\ decode'.at = "send" /\ decode' \in [at : DecodePlaces, packet : Seq(Nat)]
  BY <1>1, <1>3 DEF DecodePlaces
<1>8. EachFrameOnce'
  BY <1>1, <1>4, <1>6, <1>7 DEF EachFrameOnce
<1>9. PlacesInOrder'
  BY <1>1, <1>2, <1>7 DEF IInv, PlacesInOrder
<1>10. QED
  BY <1>1, <1>3, <1>7, <1>8, <1>9

\* avcodec takes the packet.
LEMMA SentStep ==
  ASSUME IInv, Send, UNCHANGED <<Out, decrypt>>
  PROVE  EachFrameOnce' /\ PlacesInOrder' /\ codec' \in Seq(Nat)
<1> DEFINE s == codec \o decode.packet
<1>1. /\ codec \in Seq(Nat) /\ decode.packet \in Seq(Nat) /\ codec' = s /\ lost' = lost
      /\ decrypted' = decrypted /\ decode' = [at |-> "receive", packet |-> <<>>]
      /\ Increasing(codec) /\ Increasing(decode.packet)
  BY DEF IInv, TypeOK, PlacesInOrder, Send
<1>2. Handed \in Nat /\ Below(Members(codec), Members(decode.packet))
  BY PlacesFacts DEF IInv
<1>3. s \in Seq(Nat) /\ Members(s) = Members(codec) \union Members(decode.packet) /\ Increasing(s)
  BY <1>1, <1>2, SendFacts
<1> HIDE DEF s
<1>4. Placed(OutFrames(Out), Members(codec) \union Members(decode.packet), {}, Queued(decrypted),
             Members(decrypt.packet), lost, Handed)
  BY <1>2, SentOrSkipped DEF IInv, EachFrameOnce
<1>5. Handed' = Handed /\ decode'.packet = <<>>
  BY <1>1 DEF Handed, Frame
<1>6. EachFrameOnce'
  BY <1>1, <1>3, <1>4, <1>5, NoFrames DEF EachFrameOnce
<1>7. PlacesInOrder'
  BY <1>1, <1>3, <1>5, NoFrames DEF IInv, PlacesInOrder
<1>8. QED
  BY <1>1, <1>3, <1>6, <1>7

\* A packet is skipped.
LEMMA SkippedStep ==
  ASSUME IInv, SendAgain, UNCHANGED <<Out, decrypt>>
  PROVE  EachFrameOnce' /\ PlacesInOrder'
<1>1. /\ codec' = codec /\ lost' = lost \union Members(decode.packet)
      /\ decrypted' = decrypted /\ decode' = [at |-> "loop", packet |-> <<>>]
  BY DEF SendAgain
<1>2. Handed \in Nat
  BY PlacesFacts DEF IInv
<1>3. Placed(OutFrames(Out), Members(codec), {}, Queued(decrypted),
             Members(decrypt.packet), lost \union Members(decode.packet), Handed)
  BY <1>2, SentOrSkipped DEF IInv, EachFrameOnce
<1>4. Handed' = Handed /\ decode'.packet = <<>>
  BY <1>1 DEF Handed, Frame
<1>5. EachFrameOnce'
  BY <1>1, <1>3, <1>4, NoFrames DEF EachFrameOnce
<1>6. PlacesInOrder'
  BY <1>1, <1>4, NoFrames DEF IInv, PlacesInOrder
<1>7. QED
  BY <1>5, <1>6

\* avcodec returns a frame, which gets the time and goes to the render thread.
LEMMA ReceivedStep ==
  ASSUME IInv, Receive, UNCHANGED <<rendered, decrypt, control>>
  PROVE  /\ EachFrameOnce' /\ PlacesInOrder' /\ Counted' /\ Lag'
         /\ codec' \in Seq(Nat) /\ frames' \in Seq(Played)
<1> DEFINE x == Head(codec)
           t == Tail(codec)
           e == [frame |-> Head(codec), timestamp |-> timestamp]
           out == Append(Out, e)
           n == Len(Out)
<1>1. /\ codec \in Seq(Nat) /\ codec # <<>> /\ codec' = t /\ Increasing(codec)
      /\ decode' = decode /\ lost' = lost /\ decrypted' = decrypted
      /\ frames' = Append(frames, e) /\ frames \in Seq(Played)
      /\ timestamp \in Nat /\ timestamp' = timestamp + 1 /\ timestamp = n
      /\ IsFiniteSet(OutFrames(Out)) /\ Cardinality(OutFrames(Out)) = n
  BY DEF IInv, TypeOK, PlacesInOrder, Receive, Counted
<1>2. x \in Nat /\ t \in Seq(Nat)
  BY <1>1, PopFacts
<1>3. /\ Members(codec) = {x} \union Members(t) /\ Increasing(t) /\ Below({x}, Members(t))
  BY <1>1, FirstFacts
<1>4. e \in Played /\ e.frame = x /\ e.timestamp = timestamp
  BY <1>1, <1>2 DEF Played
<1> HIDE DEF t, e
<1>5. Out' = out /\ Out \in Seq(Played) /\ frames' \in Seq(Played)
  BY <1>1, <1>4, PushAddsToOut, AppendProperties DEF IInv
<1>6. /\ Len(Out) \in Nat /\ Len(out) = Len(Out) + 1
      /\ \A i \in 1 .. Len(Out) : out[i] = Out[i]
      /\ out[Len(Out) + 1] = e
      /\ \A i \in 1 .. Len(out) : i \in 1 .. Len(Out) \/ i = Len(Out) + 1
  BY <1>4, <1>5, PushFacts
<1> HIDE DEF out, x
<1>7. OutFrames(out) = OutFrames(Out) \union {x}
  <2>1. ASSUME NEW y \in OutFrames(out)
        PROVE  y \in OutFrames(Out) \union {x}
    <3>1. PICK i \in 1 .. Len(out) : y = out[i].frame
      BY DEF OutFrames
    <3>2. QED
      BY <1>4, <1>6, <3>1 DEF OutFrames
  <2>2. ASSUME NEW y \in OutFrames(Out)
        PROVE  y \in OutFrames(out)
    <3>1. PICK i \in 1 .. Len(Out) : y = Out[i].frame
      BY DEF OutFrames
    <3>2. i \in 1 .. Len(out) /\ out[i] = Out[i]
      BY <1>6, <3>1
    <3>3. QED
      BY <3>1, <3>2 DEF OutFrames
  <2>3. x \in OutFrames(out)
    <3>1. Len(Out) + 1 \in 1 .. Len(out)
      BY <1>6
    <3>2. QED
      BY <1>4, <1>6, <3>1 DEF OutFrames
  <2>4. QED
    BY <2>1, <2>2, <2>3
<1>8. Handed \in Nat
  BY PlacesFacts DEF IInv
<1>9. Placed(OutFrames(Out), {x} \union Members(t), Members(decode.packet), Queued(decrypted),
             Members(decrypt.packet), lost, Handed)
  BY <1>3 DEF IInv, EachFrameOnce
<1>10. /\ Placed(OutFrames(Out) \union {x}, Members(t), Members(decode.packet), Queued(decrypted),
                 Members(decrypt.packet), lost, Handed)
       /\ x \notin OutFrames(Out)
  BY <1>3, <1>8, <1>9, DecodedOrLost
<1>11. Handed' = Handed
  BY DEF Handed, Frame
<1>12. EachFrameOnce'
  BY <1>1, <1>5, <1>7, <1>10, <1>11 DEF EachFrameOnce
<1>13. ASSUME NEW i \in 1 .. Len(out), NEW j \in 1 .. Len(out), i < j
       PROVE  out[i].frame < out[j].frame
  <2>1. i \in 1 .. Len(Out) /\ out[i] = Out[i]
    BY <1>6, <1>13
  <2>2. CASE j \in 1 .. Len(Out)
    BY <1>6, <1>13, <2>1, <2>2 DEF IInv, PlacesInOrder
  <2>3. CASE j = Len(Out) + 1
    <3>1. Out[i].frame \in OutFrames(Out) /\ x \in Members(codec)
      BY <1>3, <2>1 DEF OutFrames
    <3>2. Out[i].frame < x
      BY <3>1, PlacesFacts DEF IInv, Below
    <3>3. QED
      BY <1>4, <1>6, <2>1, <2>3, <3>2
  <2>4. QED
    BY <1>6, <2>2, <2>3
<1>14. PlacesInOrder'
  BY <1>1, <1>3, <1>5, <1>13 DEF IInv, PlacesInOrder
<1>15. IsFiniteSet(OutFrames(out)) /\ Cardinality(OutFrames(out)) = Len(out)
  <2>1. /\ IsFiniteSet(OutFrames(Out) \union {x})
        /\ Cardinality(OutFrames(Out) \union {x}) = Cardinality(OutFrames(Out)) + 1
    BY <1>1, <1>10, FS_AddElement
  <2>2. QED
    BY <1>1, <1>6, <1>7, <2>1
<1>16. Counted'
  BY <1>1, <1>5, <1>6, <1>15 DEF Counted
<1>17. /\ x \in Nat /\ n \in Nat /\ Cardinality(Earlier(lost, x)) \in Nat
       /\ n = x - 1 - Cardinality(Earlier(lost, x))
  <2>1. IsFiniteSet(OutFrames(Out)) /\ Below({x}, Members(t)) /\ n \in Nat
    BY <1>1, <1>3, <1>6
  <2>2. /\ x \in Nat /\ Cardinality(Earlier(lost, x)) \in Nat
        /\ Cardinality(OutFrames(Out)) = x - 1 - Cardinality(Earlier(lost, x))
    BY <1>8, <1>9, <2>1, CountBefore
  <2>3. QED
    BY <1>1, <2>1, <2>2
<1>18. ASSUME NEW i \in 1 .. Len(out)
       PROVE  out[i].timestamp = out[i].frame - 1 - Cardinality(Earlier(lost, out[i].frame))
  <2>1. CASE i \in 1 .. Len(Out)
    BY <1>6, <2>1 DEF IInv, Lag
  <2>2. CASE i = Len(Out) + 1
    BY <1>1, <1>4, <1>6, <1>17, <2>2
  <2>3. QED
    BY <1>6, <2>1, <2>2
<1>19. Lag'
  BY <1>1, <1>5, <1>18 DEF Lag
<1>20. QED
  BY <1>1, <1>2, <1>5, <1>12, <1>14, <1>16, <1>19

\* It cannot decode the frame.
LEMMA NotDecodedStep ==
  ASSUME IInv, ReceiveEnds, codec # <<>>, UNCHANGED <<Out, decrypt>>
  PROVE  EachFrameOnce' /\ PlacesInOrder' /\ codec' \in Seq(Nat)
<1> DEFINE x == Head(codec)
           t == Tail(codec)
<1>1. /\ codec \in Seq(Nat) /\ codec' = t /\ Increasing(codec) /\ lost' = lost \union {x}
      /\ decode' = At("loop") /\ decrypted' = decrypted
      /\ decode \in [at : DecodePlaces, packet : Seq(Nat)]
  BY DEF IInv, TypeOK, PlacesInOrder, ReceiveEnds
<1>2. t \in Seq(Nat)
  BY <1>1, PopFacts
<1>3. /\ Members(codec) = {x} \union Members(t) /\ Increasing(t) /\ Below({x}, Members(t))
  BY <1>1, FirstFacts
<1> HIDE DEF x, t
<1>4. Handed \in Nat
  BY PlacesFacts DEF IInv
<1>5. Placed(OutFrames(Out), {x} \union Members(t), Members(decode.packet), Queued(decrypted),
             Members(decrypt.packet), lost, Handed)
  BY <1>3 DEF IInv, EachFrameOnce
<1>6. Placed(OutFrames(Out), Members(t), Members(decode.packet), Queued(decrypted),
             Members(decrypt.packet), lost \union {x}, Handed)
  BY <1>3, <1>4, <1>5, DecodedOrLost
<1>7. Handed' = Handed /\ decode'.packet = decode.packet
  BY <1>1 DEF Handed, Frame, At
<1>8. EachFrameOnce'
  BY <1>1, <1>6, <1>7 DEF EachFrameOnce
<1>9. PlacesInOrder'
  BY <1>1, <1>3, <1>7 DEF IInv, PlacesInOrder
<1>10. QED
  BY <1>1, <1>2, <1>8, <1>9

\* A frame that is lost after those that are out moves none of them.
LEMMA LaterLosses ==
  ASSUME IInv, UNCHANGED Out, NEW gone, lost' = lost \union gone,
         \A y \in OutFrames(Out), l \in gone : ~(l < y)
  PROVE  Lag'
<1>1. ASSUME NEW i \in 1 .. Len(Out)
      PROVE  Earlier(lost', Out[i].frame) = Earlier(lost, Out[i].frame)
  <2>1. Out[i].frame \in OutFrames(Out)
    BY DEF OutFrames
  <2>2. {l \in lost' : l < Out[i].frame} = {l \in lost : l < Out[i].frame}
    BY <2>1
  <2>3. QED
    BY <2>2 DEF Earlier
<1>2. QED
  BY <1>1 DEF IInv, Lag

\* A single one.
LEMMA LaterLoss ==
  ASSUME IInv, UNCHANGED Out, NEW x, lost' = lost \union {x}, \A y \in OutFrames(Out) : ~(x < y)
  PROVE  Lag'
<1> DEFINE gone == {x}
<1>1. lost' = lost \union gone /\ \A y \in OutFrames(Out), l \in gone : ~(l < y)
  OBVIOUS
<1> HIDE DEF gone
<1>2. QED
  BY <1>1, LaterLosses

-----------------------------------------------------------------------------
(* Samples on their way through the demuxed queue.                         *)

\* What is pushed goes to the end of the queue.
LEMMA PushGoesOn == IInv /\ DemuxThread /\ DemuxPush => DemuxedNext'
<1> SUFFICES ASSUME IInv, DemuxThread, DemuxPush
             PROVE  DemuxedNext'
  OBVIOUS
<1>1. /\ decrypt' = decrypt /\ demux' = "loop" /\ parsed' = parsed /\ demux = "push"
      /\ demuxed' = Append(demuxed, parsed)
  BY DEF DemuxThread, DemuxPush
<1>2. /\ demuxed \in Seq(Nat) /\ parsed \in Nat /\ decrypt.sample \in Nat
      /\ parsed = decrypt.sample + Len(demuxed) + 1
  BY <1>1 DEF IInv, TypeOK, DemuxedNext
<1>3. /\ Len(demuxed') = Len(demuxed) + 1 /\ Len(demuxed) \in Nat
      /\ \A i \in 1 .. Len(demuxed) : demuxed'[i] = demuxed[i]
      /\ demuxed'[Len(demuxed) + 1] = parsed
      /\ \A i \in 1 .. Len(demuxed') : i \in 1 .. Len(demuxed) \/ i = Len(demuxed) + 1
  BY <1>1, <1>2, PushFacts
<1>4. ASSUME NEW i \in 1 .. Len(demuxed')
      PROVE  demuxed'[i] = decrypt'.sample + i
  <2>1. CASE i \in 1 .. Len(demuxed)
    BY <1>1, <1>3, <2>1 DEF IInv, DemuxedNext
  <2>2. CASE i = Len(demuxed) + 1
    BY <1>1, <1>2, <1>3, <2>2
  <2>3. QED
    BY <1>3, <2>1, <2>2
<1>5. parsed' = decrypt'.sample + Len(demuxed')
  BY <1>1, <1>2, <1>3
<1>6. QED
  BY <1>1, <1>4, <1>5 DEF DemuxedNext

\* What is taken is the next sample of the decrypt thread.
LEMMA PopGoesOn == IInv /\ DecryptThread /\ DecryptPop => DemuxedNext'
<1> SUFFICES ASSUME IInv, DecryptThread, DecryptPop
             PROVE  DemuxedNext'
  OBVIOUS
<1>1. demux' = demux /\ parsed' = parsed
  BY DEF DecryptThread, demuxer
<1>2. /\ Len(demuxed') = Len(demuxed) - 1 /\ Len(demuxed) \in Nat
      /\ \A i \in 1 .. Len(demuxed') : demuxed'[i] = decrypt'.sample + i
      /\ decrypt' = [at |-> "frame", sample |-> decrypt.sample + 1, pos |-> 1, packet |-> <<>>]
  BY SampleStep DEF DecryptThread, decoder, renderer, Out
<1>3. decrypt.sample \in Nat /\ decrypt'.sample = decrypt.sample + 1
  BY <1>2 DEF IInv, TypeOK
<1>4. decrypt'.sample + Len(demuxed') = decrypt.sample + Len(demuxed)
  BY <1>2, <1>3
<1>5. ASSUME demux \in {"loop", "parse"}
      PROVE  parsed' = decrypt'.sample + Len(demuxed')
  BY <1>1, <1>4, <1>5 DEF IInv, DemuxedNext
<1>6. ASSUME demux = "push"
      PROVE  parsed' = decrypt'.sample + Len(demuxed') + 1
  BY <1>1, <1>4, <1>6 DEF IInv, DemuxedNext
<1>7. QED
  BY <1>1, <1>2, <1>5, <1>6 DEF DemuxedNext

-----------------------------------------------------------------------------
(* The invariant, one lemma for each part.                                 *)

\* Types, one step per action.
LEMMA TypeStep == IInv /\ [Next]_vars => TypeOK'
<1> SUFFICES ASSUME IInv, [Next]_vars
             PROVE  TypeOK'
  OBVIOUS
<1> USE DEF IInv, TypeOK, DemuxPlaces, DecryptPlaces, DecodePlaces, RenderPlaces
<1>1. CASE UNCHANGED <<vars>>
  BY <1>1 DEF vars, demuxer, decoder, renderer
<1>2. CASE DemuxThread
  <2>1. CASE DemuxLoop
    BY <1>2, <2>1 DEF DemuxThread, DemuxLoop, demuxer, decoder, renderer
  <2>2. CASE Parse
    BY <1>2, <2>2 DEF DemuxThread, Parse, demuxer, decoder, renderer
  <2>3. CASE ParseFails
    BY <1>2, <2>3 DEF DemuxThread, ParseFails, demuxer, decoder, renderer
  <2>4. CASE DemuxPush
    <3>1. demuxed' \in Seq(Nat)
      BY <2>4, AppendProperties DEF DemuxPush
    <3>2. QED
      BY <1>2, <2>4, <3>1 DEF DemuxThread, DemuxPush, demuxer, decoder, renderer
  <2>5. QED
    BY <1>2, <2>1, <2>2, <2>3, <2>4 DEF DemuxThread
<1>3. CASE DecryptThread
  <2>1. CASE DecryptLoop
    <3>1. decrypt' \in [at : DecryptPlaces, sample : Nat, pos : Nat, packet : Seq(Nat)]
      BY <2>1 DEF DecryptLoop
    <3>2. QED
      BY <1>3, <2>1, <3>1 DEF DecryptThread, DecryptLoop, demuxer, decoder, renderer
  <2>2. CASE DecryptPop
    <3>1. demuxed' \in Seq(Nat) /\ decrypt' = [at |-> "frame", sample |-> decrypt.sample + 1, pos |-> 1, packet |-> <<>>]
      BY <1>3, <2>2, SampleStep DEF DecryptThread, decoder, renderer, Out
    <3>2. decrypt' \in [at : DecryptPlaces, sample : Nat, pos : Nat, packet : Seq(Nat)]
      BY <3>1, NoFrames
    <3>3. QED
      BY <1>3, <2>2, <3>1, <3>2 DEF DecryptThread, DecryptPop, demuxer, decoder, renderer
  <2>3. CASE DecryptPopUndefined
    <3>1. decrypt' \in [at : DecryptPlaces, sample : Nat, pos : Nat, packet : Seq(Nat)]
      BY <2>3 DEF DecryptPopUndefined
    <3>2. QED
      BY <1>3, <2>3, <3>1 DEF DecryptThread, DecryptPopUndefined, demuxer, decoder, renderer
  <2>4. CASE DecryptSucceeds
    <3>1. Append(decrypt.packet, Frame) \in Seq(Nat)
      BY <2>4, HandedFacts, AppendProperties DEF DecryptSucceeds
    <3>2. decrypt' \in [at : DecryptPlaces, sample : Nat, pos : Nat, packet : Seq(Nat)]
      BY <2>4, <3>1, NextFrameFacts DEF DecryptSucceeds
    <3>3. QED
      BY <1>3, <2>4, <3>2 DEF DecryptThread, DecryptSucceeds, demuxer, decoder, renderer
  <2>5. CASE DecryptNeedsMore
    <3>1. decrypt' \in [at : DecryptPlaces, sample : Nat, pos : Nat, packet : Seq(Nat)] /\ lost' \in SUBSET Nat
      BY <2>5, HandedFacts, NextFrameFacts DEF DecryptNeedsMore
    <3>2. QED
      BY <1>3, <2>5, <3>1 DEF DecryptThread, DecryptNeedsMore, demuxer, decoder, renderer
  <2>6. CASE DecryptFails
    BY <1>3, <2>6 DEF DecryptThread, DecryptFails, demuxer, decoder, renderer
  <2>7. CASE DecryptPush
    <3>1. decrypted' \in Seq(Seq(Nat))
      BY <1>3, <2>7, PacketStep DEF DecryptThread, decoder, renderer, Out
    <3>2. decrypt' \in [at : DecryptPlaces, sample : Nat, pos : Nat, packet : Seq(Nat)]
      BY <2>7, NoFrames DEF DecryptPush
    <3>3. QED
      BY <1>3, <2>7, <3>1, <3>2 DEF DecryptThread, DecryptPush, demuxer, decoder, renderer
  <2>8. QED
    BY <1>3, <2>1, <2>2, <2>3, <2>4, <2>5, <2>6, <2>7 DEF DecryptThread
<1>4. CASE DecodeThread
  <2>1. CASE DecodeLoop
    <3>1. decode' \in [at : DecodePlaces, packet : Seq(Nat)]
      BY <2>1 DEF DecodeLoop, At
    <3>2. QED
      BY <1>4, <2>1, <3>1 DEF DecodeThread, DecodeLoop, demuxer, decoder, renderer
  <2>2. CASE DecodePop
    <3>1. decrypted' \in Seq(Seq(Nat)) /\ decode' \in [at : DecodePlaces, packet : Seq(Nat)]
      BY <1>4, <2>2, PacketTakenStep DEF DecodeThread, DecodePop, renderer, Out
    <3>2. QED
      BY <1>4, <2>2, <3>1 DEF DecodeThread, DecodePop, demuxer, decoder, renderer
  <2>3. CASE DecodePopUndefined
    <3>1. decode' \in [at : DecodePlaces, packet : Seq(Nat)]
      BY <2>3 DEF DecodePopUndefined, At
    <3>2. QED
      BY <1>4, <2>3, <3>1 DEF DecodeThread, DecodePopUndefined, demuxer, decoder, renderer
  <2>4. CASE Send
    <3>1. codec' \in Seq(Nat)
      BY <1>4, <2>4, SentStep DEF DecodeThread, Send, renderer, Out
    <3>2. decode' \in [at : DecodePlaces, packet : Seq(Nat)]
      BY <2>4, NoFrames DEF Send
    <3>3. QED
      BY <1>4, <2>4, <3>1, <3>2 DEF DecodeThread, Send, demuxer, decoder, renderer
  <2>5. CASE SendAgain
    <3>1. decode' \in [at : DecodePlaces, packet : Seq(Nat)]
      BY <2>5, NoFrames DEF SendAgain
    <3>2. Members(decode.packet) \in SUBSET Nat
      BY ElementOfSeq, LenProperties DEF Members
    <3>3. QED
      BY <1>4, <2>5, <3>1, <3>2 DEF DecodeThread, SendAgain, demuxer, decoder, renderer
  <2>6. CASE SendFails
    BY <1>4, <2>6 DEF DecodeThread, SendFails, demuxer, decoder, renderer
  <2>7. CASE Receive
    <3>1. codec' \in Seq(Nat) /\ frames' \in Seq(Played)
      BY <1>4, <2>7, ReceivedStep DEF DecodeThread, renderer
    <3>2. QED
      BY <1>4, <2>7, <3>1 DEF DecodeThread, Receive, demuxer, decoder, renderer
  <2>8. CASE ReceiveEnds
    <3>1. decode' \in [at : DecodePlaces, packet : Seq(Nat)]
      BY <2>8 DEF ReceiveEnds, At
    <3>2. CASE codec = <<>>
      <4>1. codec' = codec /\ lost' = lost
        BY <2>8, <3>2 DEF ReceiveEnds
      <4>2. QED
        BY <1>4, <2>8, <3>1, <4>1 DEF DecodeThread, ReceiveEnds, demuxer, decoder, renderer
    <3>3. CASE codec /= <<>>
      <4>1. codec' \in Seq(Nat) /\ Head(codec) \in Nat
        BY <1>4, <2>8, <3>3, NotDecodedStep, PopFacts DEF DecodeThread, ReceiveEnds, renderer, Out
      <4>2. lost' = lost \union {Head(codec)}
        BY <2>8, <3>3 DEF ReceiveEnds
      <4>3. lost' \in SUBSET Nat
        BY <4>1, <4>2
      <4>4. QED
        BY <1>4, <2>8, <3>1, <4>1, <4>3 DEF DecodeThread, ReceiveEnds, demuxer, decoder, renderer
    <3>4. QED
      BY <3>2, <3>3
  <2>9. CASE DecodeUndefined
    <3>1. decode' \in [at : DecodePlaces, packet : Seq(Nat)]
      BY <2>9 DEF DecodeUndefined, At
    <3>2. QED
      BY <1>4, <2>9, <3>1 DEF DecodeThread, DecodeUndefined, demuxer, decoder, renderer
  <2>10. QED
    BY <1>4, <2>1, <2>2, <2>3, <2>4, <2>5, <2>6, <2>7, <2>8, <2>9 DEF DecodeThread
<1>5. CASE RenderThread
  <2>1. CASE RenderLoop
    BY <1>5, <2>1 DEF RenderThread, RenderLoop, demuxer, decoder, renderer
  <2>2. CASE RenderFrame
    <3>1. frames' \in Seq(Played) /\ rendered' \in Seq(Played)
      BY <2>2, RenderKeepsOut
    <3>2. QED
      BY <1>5, <2>2, <3>1 DEF RenderThread, RenderFrame, demuxer, decoder, renderer
  <2>3. CASE RenderPopUndefined
    BY <1>5, <2>3 DEF RenderThread, RenderPopUndefined, demuxer, decoder, renderer
  <2>4. QED
    BY <1>5, <2>1, <2>2, <2>3 DEF RenderThread
<1>6. CASE Fetch
  BY <1>6 DEF Fetch, demuxer, decoder, renderer
<1>7. CASE PauseOrResume
  BY <1>7 DEF PauseOrResume, demuxer, decoder, renderer
<1>8. CASE StopStream
  <2>1. control' \in 0 .. 9
    BY <1>8 DEF StopStream, StopSteps
  <2>2. timestamp' \in Nat
    BY <1>8 DEF StopStream
  <2>3. QED
    BY <1>8, <2>1, <2>2 DEF StopStream, demuxer, decoder, renderer
<1>9. QED
  BY <1>1, <1>2, <1>3, <1>4, <1>5, <1>6, <1>7, <1>8
     DEF Next, vars, demuxer, decoder, renderer

\* Samples are parsed, queued and taken one after the other.
LEMMA DemuxedStep == IInv /\ [Next]_vars => DemuxedNext'
<1> SUFFICES ASSUME IInv, [Next]_vars
             PROVE  DemuxedNext'
  OBVIOUS
<1> USE DEF IInv, DemuxedNext
<1>1. CASE UNCHANGED <<parsed, demux, demuxed, decrypt>>
  BY <1>1 DEF TypeOK
<1>2. CASE DemuxThread
  <2>1. CASE DemuxLoop
    BY <1>2, <2>1 DEF DemuxThread, DemuxLoop, demuxer, decoder, renderer, TypeOK
  <2>2. CASE Parse
    BY <1>2, <2>2 DEF DemuxThread, Parse, demuxer, decoder, renderer, TypeOK
  <2>3. CASE ParseFails
    BY <1>2, <2>3 DEF DemuxThread, ParseFails, demuxer, decoder, renderer, TypeOK
  <2>4. CASE DemuxPush
    BY <1>2, <2>4, PushGoesOn
  <2>5. QED
    BY <1>2, <2>1, <2>2, <2>3, <2>4 DEF DemuxThread
<1>3. CASE DecryptThread
  <2>1. CASE DecryptLoop
    <3>1. decrypt'.sample = decrypt.sample
      BY <2>1 DEF DecryptLoop, TypeOK
    <3>2. QED
      BY <1>3, <2>1, <3>1 DEF DecryptThread, DecryptLoop, demuxer
  <2>2. CASE DecryptPop
    BY <1>3, <2>2, PopGoesOn
  <2>3. CASE DecryptPopUndefined
    <3>1. decrypt'.sample = decrypt.sample
      BY <2>3 DEF DecryptPopUndefined, TypeOK
    <3>2. QED
      BY <1>3, <2>3, <3>1 DEF DecryptThread, DecryptPopUndefined, demuxer
  <2>4. CASE DecryptSucceeds
    <3>1. decrypt'.sample = decrypt.sample
      BY <2>4, HandedFacts, AppendProperties, NextFrameFacts DEF DecryptSucceeds, TypeOK
    <3>2. QED
      BY <1>3, <2>4, <3>1 DEF DecryptThread, DecryptSucceeds, demuxer
  <2>5. CASE DecryptNeedsMore
    <3>1. decrypt'.sample = decrypt.sample
      BY <2>5, HandedFacts, AppendProperties, NextFrameFacts DEF DecryptNeedsMore, TypeOK
    <3>2. QED
      BY <1>3, <2>5, <3>1 DEF DecryptThread, DecryptNeedsMore, demuxer
  <2>6. CASE DecryptFails
    BY <1>3, <2>6 DEF DecryptThread, DecryptFails, demuxer, decoder, renderer, TypeOK
  <2>7. CASE DecryptPush
    <3>1. decrypt'.sample = decrypt.sample
      BY <2>7 DEF DecryptPush, TypeOK
    <3>2. QED
      BY <1>3, <2>7, <3>1 DEF DecryptThread, DecryptPush, demuxer
  <2>8. QED
    BY <1>3, <2>1, <2>2, <2>3, <2>4, <2>5, <2>6, <2>7 DEF DecryptThread
<1>4. QED
  BY <1>1, <1>2, <1>3
     DEF Next, vars, demuxer, decoder, renderer,
         DecodeThread, DecodeLoop, DecodePop, DecodePopUndefined, Send, SendAgain, SendFails,
         Receive, ReceiveEnds, DecodeUndefined, RenderThread, RenderLoop, RenderFrame,
         RenderPopUndefined, Fetch, PauseOrResume, StopStream

\* Packets are taken and given away.
LEMMA HandStep == IInv /\ [Next]_vars => PacketsInHand'
<1> SUFFICES ASSUME IInv, [Next]_vars
             PROVE  PacketsInHand'
  OBVIOUS
<1> USE DEF IInv, PacketsInHand
<1>1. CASE UNCHANGED <<decrypt, decode>>
  BY <1>1 DEF TypeOK, At
<1>2. CASE DecryptThread
  <2>1. CASE DecryptLoop
    BY <1>2, <2>1 DEF DecryptThread, DecryptLoop, demuxer, decoder, renderer, TypeOK, At
  <2>2. CASE DecryptPop
    <3>1. decrypt' = [at |-> "frame", sample |-> decrypt.sample + 1, pos |-> 1, packet |-> <<>>]
      BY <1>2, <2>2, SampleStep DEF DecryptThread, decoder, renderer, Out
    <3>2. decrypt.sample \in Nat /\ FramesPerSample \in Nat \ {0}
      BY SampleFacts DEF TypeOK
    <3>3. decrypt.sample + 1 > 0 /\ 1 \in 1 .. FramesPerSample
      BY <3>2
    <3>4. QED
      BY <1>2, <3>1, <3>3 DEF DecryptThread, decoder
  <2>3. CASE DecryptPopUndefined
    BY <1>2, <2>3 DEF DecryptThread, DecryptPopUndefined, demuxer, decoder, renderer, TypeOK, At
  <2>4. CASE DecryptSucceeds
    <3>1. decrypt.at = "frame" /\ decrypt' = NextFrame(Append(decrypt.packet, Frame)) /\ Append(decrypt.packet, Frame) \in Seq(Nat)
      BY <2>4, HandedFacts, AppendProperties DEF DecryptSucceeds, TypeOK
    <3>2. /\ decrypt'.sample = decrypt.sample
          /\ \/ decrypt'.at = "frame" /\ decrypt'.pos \in 1 .. FramesPerSample
             \/ decrypt'.at = "push"
      BY <3>1, NextFrameFacts
    <3>3. QED
      BY <1>2, <3>1, <3>2 DEF DecryptThread, decoder
  <2>5. CASE DecryptNeedsMore
    <3>1. decrypt.at = "frame" /\ decrypt' = NextFrame(decrypt.packet) /\ decrypt.packet \in Seq(Nat)
      BY <2>5, HandedFacts, AppendProperties DEF DecryptNeedsMore, TypeOK
    <3>2. /\ decrypt'.sample = decrypt.sample
          /\ \/ decrypt'.at = "frame" /\ decrypt'.pos \in 1 .. FramesPerSample
             \/ decrypt'.at = "push"
      BY <3>1, NextFrameFacts
    <3>3. QED
      BY <1>2, <3>1, <3>2 DEF DecryptThread, decoder
  <2>6. CASE DecryptFails
    BY <1>2, <2>6 DEF DecryptThread, DecryptFails, demuxer, decoder, renderer, TypeOK, At
  <2>7. CASE DecryptPush
    BY <1>2, <2>7 DEF DecryptThread, DecryptPush, demuxer, decoder, renderer, TypeOK, At
  <2>8. QED
    BY <1>2, <2>1, <2>2, <2>3, <2>4, <2>5, <2>6, <2>7 DEF DecryptThread
<1>3. CASE DecodeThread
  <2>1. CASE DecodeLoop
    BY <1>3, <2>1 DEF DecodeThread, DecodeLoop, demuxer, decoder, renderer, TypeOK, At
  <2>2. CASE DecodePop
    BY <1>3, <2>2 DEF DecodeThread, DecodePop, demuxer, decoder, renderer, TypeOK, At
  <2>3. CASE DecodePopUndefined
    BY <1>3, <2>3 DEF DecodeThread, DecodePopUndefined, demuxer, decoder, renderer, TypeOK, At
  <2>4. CASE Send
    BY <1>3, <2>4 DEF DecodeThread, Send, demuxer, decoder, renderer, TypeOK, At
  <2>5. CASE SendAgain
    BY <1>3, <2>5 DEF DecodeThread, SendAgain, demuxer, decoder, renderer, TypeOK, At
  <2>6. CASE SendFails
    BY <1>3, <2>6 DEF DecodeThread, SendFails, demuxer, decoder, renderer, TypeOK, At
  <2>7. CASE Receive
    BY <1>3, <2>7 DEF DecodeThread, Receive, demuxer, decoder, renderer, TypeOK, At
  <2>8. CASE ReceiveEnds
    BY <1>3, <2>8 DEF DecodeThread, ReceiveEnds, demuxer, decoder, renderer, TypeOK, At
  <2>9. CASE DecodeUndefined
    BY <1>3, <2>9 DEF DecodeThread, DecodeUndefined, demuxer, decoder, renderer, TypeOK, At
  <2>10. QED
    BY <1>3, <2>1, <2>2, <2>3, <2>4, <2>5, <2>6, <2>7, <2>8, <2>9 DEF DecodeThread
<1>4. QED
  BY <1>1, <1>2, <1>3
     DEF Next, vars, demuxer, decoder, renderer,
         DemuxThread, DemuxLoop, Parse, ParseFails, DemuxPush, RenderThread, RenderLoop,
         RenderFrame, RenderPopUndefined, Fetch, PauseOrResume, StopStream

\* Nothing has changed its place.
LEMMA SamePlaces ==
  ASSUME IInv, Out' = Out, codec' = codec, decode'.packet = decode.packet, decrypted' = decrypted,
         decrypt'.packet = decrypt.packet, lost' = lost, Handed' = Handed
  PROVE  EachFrameOnce' /\ PlacesInOrder'
BY DEF IInv, EachFrameOnce, PlacesInOrder

\* Frames change their places in order.
LEMMA ChainStep == IInv /\ [Next]_vars => EachFrameOnce' /\ PlacesInOrder'
<1> SUFFICES ASSUME IInv, [Next]_vars
             PROVE  EachFrameOnce' /\ PlacesInOrder'
  OBVIOUS
<1>1. CASE UNCHANGED <<rendered, frames, codec, decode, decrypted, decrypt, lost>>
  <2>1. Handed' = Handed /\ Out' = Out
    BY <1>1 DEF Handed, Frame, Out
  <2>2. QED
    BY <1>1, <2>1, SamePlaces
<1>2. CASE DecryptThread
  <2>1. UNCHANGED <<Out, codec, decode>>
    BY <1>2 DEF DecryptThread, decoder, renderer, Out
  <2>2. CASE DecryptLoop \/ DecryptPopUndefined
    <3>1. /\ decrypted' = decrypted /\ lost' = lost
          /\ decrypt'.packet = decrypt.packet /\ decrypt'.sample = decrypt.sample
          /\ decrypt.at /= "frame" /\ decrypt'.at /= "frame"
      BY <2>2 DEF DecryptLoop, DecryptPopUndefined, IInv, TypeOK
    <3>2. Handed' = Handed
      BY <3>1 DEF Handed
    <3>3. QED
      BY <2>1, <3>1, <3>2, SamePlaces
  <2>3. CASE DecryptPop
    BY <2>1, <2>3, SampleStep
  <2>4. CASE DecryptSucceeds
    BY <2>1, <2>4, DecryptedStep
  <2>5. CASE DecryptNeedsMore
    BY <2>1, <2>5, NothingKeptStep
  <2>6. CASE DecryptFails
    <3>1. decrypt' = decrypt /\ decrypted' = decrypted /\ lost' = lost
      BY <2>6 DEF DecryptFails
    <3>2. Handed' = Handed
      BY <3>1 DEF Handed, Frame
    <3>3. QED
      BY <2>1, <3>1, <3>2, SamePlaces
  <2>7. CASE DecryptPush
    BY <2>1, <2>7, PacketStep
  <2>8. QED
    BY <1>2, <2>2, <2>3, <2>4, <2>5, <2>6, <2>7 DEF DecryptThread
<1>3. CASE DecodeThread
  <2>1. decrypt' = decrypt /\ rendered' = rendered /\ control' = control /\ Handed' = Handed
    BY <1>3 DEF DecodeThread, renderer, Handed, Frame
  <2>2. CASE DecodeLoop \/ DecodePopUndefined \/ DecodeUndefined
    <3>1. /\ decrypted' = decrypted /\ codec' = codec /\ lost' = lost /\ frames' = frames
          /\ decode'.packet = decode.packet
      BY <2>2 DEF DecodeLoop, DecodePopUndefined, DecodeUndefined, At, IInv, TypeOK
    <3>2. Out' = Out
      BY <2>1, <3>1 DEF Out
    <3>3. QED
      BY <2>1, <3>1, <3>2, SamePlaces
  <2>3. CASE DecodePop
    BY <2>1, <2>3, PacketTakenStep DEF DecodePop, Out
  <2>4. CASE Send
    BY <2>1, <2>4, SentStep DEF Send, Out
  <2>5. CASE SendAgain
    BY <2>1, <2>5, SkippedStep DEF SendAgain, Out
  <2>6. CASE SendFails
    <3>1. Out' = Out
      BY <2>1, <2>6 DEF SendFails, Out
    <3>2. QED
      BY <2>1, <2>6, <3>1, SamePlaces DEF SendFails
  <2>7. CASE Receive
    BY <2>1, <2>7, ReceivedStep
  <2>8. CASE ReceiveEnds
    <3>1. Out' = Out /\ decrypted' = decrypted /\ decode'.packet = decode.packet
      BY <2>1, <2>8 DEF ReceiveEnds, Out, At, IInv, TypeOK
    <3>2. CASE codec = <<>>
      BY <2>1, <2>8, <3>1, <3>2, SamePlaces DEF ReceiveEnds
    <3>3. CASE codec /= <<>>
      BY <2>1, <2>8, <3>1, <3>3, NotDecodedStep
    <3>4. QED
      BY <3>2, <3>3
  <2>9. QED
    BY <1>3, <2>2, <2>3, <2>4, <2>5, <2>6, <2>7, <2>8 DEF DecodeThread
<1>4. CASE RenderThread
  <2>1. /\ decrypt' = decrypt /\ decrypted' = decrypted /\ codec' = codec /\ decode' = decode
        /\ lost' = lost /\ Handed' = Handed
    BY <1>4 DEF RenderThread, decoder, Handed, Frame
  <2>2. Out' = Out
    <3>1. CASE RenderFrame
      BY <3>1, RenderKeepsOut DEF IInv
    <3>2. CASE RenderLoop \/ RenderPopUndefined
      BY <3>2 DEF RenderLoop, RenderPopUndefined, Out
    <3>3. QED
      BY <1>4, <3>1, <3>2 DEF RenderThread
  <2>3. QED
    BY <2>1, <2>2, SamePlaces
<1>5. QED
  BY <1>1, <1>2, <1>3, <1>4
     DEF Next, vars, demuxer, decoder, renderer, Fetch, DemuxThread, PauseOrResume, StopStream

\* The decode thread is stopped by the fourth step of StopStream().
LEMMA StopFacts ==
  /\ control \in 0 .. 9 => (ContextOpen <=> control < 4)
  /\ control' \in 0 .. 9 => (ContextOpen' <=> control' < 4)
BY DEF ContextOpen, Stopped, StopSteps

\* Times are given once, and count what has been pushed.
LEMMA CountStep == IInv /\ [Next]_vars => Counted' /\ Lag'
<1> SUFFICES ASSUME IInv, [Next]_vars
             PROVE  Counted' /\ Lag'
  OBVIOUS
<1>1. ASSUME Out' = Out, timestamp' = timestamp, control' = control
      PROVE  Counted'
  BY <1>1 DEF IInv, Counted, ContextOpen, Stopped
<1>2. ASSUME Out' = Out, lost' = lost
      PROVE  Lag'
  BY <1>2 DEF IInv, Lag
<1>3. CASE UNCHANGED <<rendered, frames, timestamp, control, lost>>
  BY <1>1, <1>2, <1>3 DEF Out
<1>4. CASE DecryptThread
  <2>1. Out' = Out /\ timestamp' = timestamp /\ control' = control
    BY <1>4 DEF DecryptThread, decoder, renderer, Out
  <2>2. CASE DecryptNeedsMore
    <3>1. Handed \in Nat /\ OutFrames(Out) \subseteq 1 .. Handed /\ Frame = Handed + 1
      BY <2>2, PlacesFacts, HandedFacts DEF IInv, DecryptNeedsMore
    <3>2. \A y \in OutFrames(Out) : ~(Frame < y)
      BY <3>1
    <3>3. lost' = lost \union {Frame}
      BY <2>2 DEF DecryptNeedsMore
    <3>4. Lag'
      BY <2>1, <3>2, <3>3, LaterLoss
    <3>5. QED
      BY <1>1, <2>1, <3>4
  <2>3. CASE ~DecryptNeedsMore
    <3>1. lost' = lost
      BY <1>4, <2>3 DEF DecryptThread, DecryptLoop, DecryptPop, DecryptPopUndefined,
           DecryptSucceeds,
         DecryptFails, DecryptPush
    <3>2. QED
      BY <1>1, <1>2, <2>1, <3>1
  <2>4. QED
    BY <2>2, <2>3
<1>5. CASE DecodeThread
  <2>1. rendered' = rendered /\ decrypt' = decrypt /\ control' = control
    BY <1>5 DEF DecodeThread, renderer
  <2>2. CASE Receive
    BY <2>1, <2>2, ReceivedStep
  <2>3. CASE ~Receive
    <3>1. Out' = Out /\ timestamp' = timestamp
      BY <1>5, <2>1, <2>3 DEF DecodeThread, DecodeLoop, DecodePop, DecodePopUndefined, Send,
           SendAgain,
         SendFails, ReceiveEnds, DecodeUndefined, Out
    <3>2. Lag'
      <4>1. /\ Below(OutFrames(Out), Members(codec)) /\ Below(OutFrames(Out), Members(decode.packet))
            /\ OutFrames(Out) \subseteq Nat
        BY PlacesFacts DEF IInv
      <4>2. CASE SendAgain
        <5>1. lost' = lost \union Members(decode.packet)
          BY <4>2 DEF SendAgain
        <5>2. \A y \in OutFrames(Out), l \in Members(decode.packet) : ~(l < y)
          <6>1. Members(decode.packet) \subseteq Nat
            BY ElementOfSeq, LenProperties DEF IInv, TypeOK, Members
          <6>2. QED
            BY <4>1, <6>1 DEF Below
        <5>3. QED
          BY <3>1, <5>1, <5>2, LaterLosses
      <4>3. CASE ReceiveEnds /\ codec /= <<>>
        <5>1. lost' = lost \union {Head(codec)}
          BY <4>3 DEF ReceiveEnds
        <5>2. Head(codec) \in Members(codec) /\ Head(codec) \in Nat
          BY <4>3, FirstFacts, PopFacts DEF IInv, TypeOK, PlacesInOrder
        <5>3. \A y \in OutFrames(Out) : ~(Head(codec) < y)
          BY <4>1, <5>2 DEF Below
        <5>4. QED
          BY <3>1, <5>1, <5>3, LaterLoss
      <4>4. CASE ~SendAgain /\ ~(ReceiveEnds /\ codec /= <<>>)
        <5>1. lost' = lost
          BY <1>5, <2>3, <4>4 DEF DecodeThread, DecodeLoop, DecodePop, DecodePopUndefined, Send,
             SendFails, ReceiveEnds, DecodeUndefined
        <5>2. QED
          BY <1>2, <3>1, <5>1
      <4>5. QED
        BY <4>2, <4>3, <4>4
    <3>3. QED
      BY <1>1, <2>1, <3>1, <3>2
  <2>4. QED
    BY <2>2, <2>3
<1>6. CASE RenderThread
  <2>1. timestamp' = timestamp /\ control' = control /\ lost' = lost
    BY <1>6 DEF RenderThread, decoder
  <2>2. Out' = Out
    <3>1. CASE RenderFrame
      BY <3>1, RenderKeepsOut DEF IInv
    <3>2. CASE RenderLoop \/ RenderPopUndefined
      BY <3>2 DEF RenderLoop, RenderPopUndefined, Out
    <3>3. QED
      BY <1>6, <3>1, <3>2 DEF RenderThread
  <2>3. QED
    BY <1>1, <1>2, <2>1, <2>2
<1>7. CASE StopStream
  <2>1. /\ Out' = Out /\ lost' = lost /\ control' = control + 1 /\ control \in 0 .. 8
        /\ timestamp' = IF StopSteps[control'] = "decodeThread" THEN 0 ELSE timestamp
    BY <1>7 DEF StopStream, renderer, Out, IInv, TypeOK, StopSteps
  <2>2. ContextOpen' => ContextOpen /\ timestamp' = timestamp
    <3>1. ASSUME ContextOpen'
          PROVE  control < 4 /\ control' /= 4
      BY <2>1, <3>1, StopFacts
    <3>2. control' /= 4 => timestamp' = timestamp
      BY <2>1 DEF StopSteps
    <3>3. QED
      BY <2>1, <3>1, <3>2, StopFacts
  <2>3. Counted'
    BY <2>1, <2>2 DEF IInv, Counted
  <2>4. QED
    BY <1>2, <2>1, <2>3
<1>8. QED
  BY <1>3, <1>4, <1>5, <1>6, <1>7
     DEF Next, vars, demuxer, decoder, renderer, Fetch, DemuxThread, PauseOrResume

\* In the first state no frame has been given to the CDM.
LEMMA InitHolds == Init => IInv
<1> SUFFICES ASSUME Init
             PROVE  IInv
  OBVIOUS
<1>1. /\ demuxed = <<>> /\ decrypted = <<>> /\ codec = <<>> /\ frames = <<>> /\ rendered = <<>>
      /\ decrypt.sample = 0 /\ decrypt.at \in {"loop", "ended"} /\ decrypt.packet = <<>>
      /\ decode.at = "loop" /\ decode.packet = <<>> /\ lost = {}
      /\ parsed = 0 /\ demux = "loop" /\ timestamp = 0
  BY DEF Init
<1>2. TypeOK
  <2>1. /\ demuxed \in Seq(Nat) /\ decrypted \in Seq(Seq(Nat)) /\ codec \in Seq(Nat)
        /\ frames \in Seq(Played) /\ rendered \in Seq(Played)
    BY <1>1, EmptySeq
  <2>2. decrypt \in [at : DecryptPlaces, sample : Nat, pos : Nat, packet : Seq(Nat)]
    BY NoFrames DEF Init, DecryptPlaces
  <2>3. decode \in [at : DecodePlaces, packet : Seq(Nat)]
    BY NoFrames DEF Init, DecodePlaces
  <2>4. fetched \in Nat /\ parsed \in Nat /\ timestamp \in Nat /\ control \in 0 .. 9
    BY DEF Init
  <2>5. /\ paused \in BOOLEAN /\ failed \in {"no", "thread", "process"} /\ demux \in DemuxPlaces
        /\ render \in RenderPlaces /\ lost \in SUBSET Nat
    BY DEF Init, DemuxPlaces, RenderPlaces
  <2>6. QED
    BY <2>1, <2>2, <2>3, <2>4, <2>5 DEF TypeOK
<1>3. Len(demuxed) = 0 /\ Len(decrypted) = 0 /\ Len(codec) = 0
  BY <1>1
<1>4. Out = <<>> /\ Len(Out) = 0
  <2>1. <<>> \in Seq(Played)
    BY EmptySeq
  <2>2. Out = <<>>
    BY <1>1, <2>1, ConcatEmptySeq DEF Out
  <2>3. QED
    BY <2>2
<1>5. Handed = 0
  <2>1. Handed = 0 * FramesPerSample
    BY <1>1 DEF Handed
  <2>2. QED
    BY <2>1, SampleFacts
<1>6. OutFrames(Out) = {} /\ Queued(decrypted) = {}
  BY <1>3, <1>4 DEF OutFrames, Queued
<1>7. DemuxedNext
  BY <1>1, <1>3 DEF DemuxedNext
<1>8. PacketsInHand
  BY <1>1 DEF PacketsInHand
<1>9. EachFrameOnce
  <2>1. Placed({}, {}, {}, {}, {}, {}, 0)
    BY DEF Placed, Below
  <2>2. QED
    BY <1>1, <1>5, <1>6, <2>1, NoFrames DEF EachFrameOnce
<1>10. PlacesInOrder
  BY <1>1, <1>3, <1>4, NoFrames DEF PlacesInOrder, InLine
<1>11. Counted
  BY <1>1, <1>4, <1>6, FS_EmptySet DEF Counted
<1>12. Lag
  BY <1>4 DEF Lag
<1>13. QED
  BY <1>2, <1>7, <1>8, <1>9, <1>10, <1>11, <1>12 DEF IInv

\* The invariant holds: InitHolds, the steps, and induction.
THEOREM InvariantHolds == Spec => []IInv
<1>1. IInv /\ [Next]_vars => IInv'
  BY TypeStep, DemuxedStep, HandStep, ChainStep, CountStep DEF IInv
<1>2. QED
  BY InitHolds, <1>1, PTL DEF Spec

\* The variables of the chain have their types.
THEOREM TypeCorrect == Spec => []TypeOK
<1>1. IInv => TypeOK
  BY DEF IInv
<1>2. QED
  BY <1>1, InvariantHolds, PTL

\* No frame the decryptor was given vanishes or comes twice: it is played, waits in one
\* place of the chain, or is lost, and is in front of every later one.
THEOREM FramesAreAccountedFor == Spec => [](EachFrameOnce /\ PlacesInOrder)
<1>1. IInv => EachFrameOnce /\ PlacesInOrder
  BY DEF IInv
<1>2. QED
  BY <1>1, InvariantHolds, PTL

\* Audio is played in order, and behind its place in the stream by the frames lost
\* before it.
THEOREM TimesLagByLosses == Spec => []TimestampsLagByLosses
<1>1. IInv => TimestampsLagByLosses
  <2> SUFFICES ASSUME IInv
               PROVE  TimestampsLagByLosses
    OBVIOUS
  <2> DEFINE out == rendered \o frames
  <2>1. out = Out /\ DOMAIN out = 1 .. Len(Out)
    BY OutFacts, LenProperties DEF IInv, Out
  <2>2. \A i \in 1 .. Len(Out) :
          Out[i].timestamp = Out[i].frame - 1 - Cardinality({l \in lost : l < Out[i].frame})
    BY DEF IInv, Lag, Earlier
  <2>3. \A i, j \in 1 .. Len(Out) : i < j => Out[i].frame < Out[j].frame
    BY DEF IInv, PlacesInOrder
  <2> HIDE DEF out
  <2>4. QED
    BY <2>1, <2>2, <2>3 DEF TimestampsLagByLosses, out
<1>2. QED
  BY <1>1, InvariantHolds, PTL
==============================================================================
