-------------------------- MODULE VideoPipelineProofs --------------------------
(***************************************************************************)
(* Video frames stay in order from the fragments of the stream to the      *)
(* screen, for a stream of any length, samples of any size, queues of any  *)
(* bound and a CDM that holds back any number of frames.                   *)
(*                                                                         *)
(* FramesInOrder says nothing of the moment at which a frame is on its way *)
(* into the CDM or out of it; HandedOver does, place by place, and         *)
(* DemuxedNext does it for a sample on its way into the demuxed queue.     *)
(***************************************************************************)
EXTENDS VideoPipeline, SequenceTheorems, TLAPS

DemuxPlaces == {"loop", "parse", "push", "ended"}
DecryptPlaces == {"loop", "pop", "frame", "push", "ended", "undefined"}
RenderPlaces == {"loop", "start", "pop", "sync", "ended", "undefined"}

TypeOK ==
  /\ fetched \in Nat /\ parsed \in Nat /\ control \in 0 .. 8
  /\ netAlive \in BOOLEAN /\ paused \in BOOLEAN /\ failed \in {"no", "thread", "process"}
  /\ demux \in DemuxPlaces /\ render \in RenderPlaces
  /\ demuxed \in Seq(Nat) /\ held \in Seq(Nat) /\ frames \in Seq(Nat) /\ rendered \in Seq(Nat)
  /\ decrypt \in [at : DecryptPlaces, sample : Nat, pos : Nat]

\* The frames before sample s + 1.
Before(s) == s * FramesPerSample

\* On the screen, in the frame queue and inside the CDM: one frame after the other.
InOrder ==
  /\ \A i \in 1 .. Len(rendered) : rendered[i] = i
  /\ \A i \in 1 .. Len(frames) : frames[i] = Len(rendered) + i
  /\ \A i \in 1 .. Len(held) : held[i] = Len(rendered) + Len(frames) + i

Submitted == Len(rendered) + Len(frames) + Len(held)

\* What the CDM has been given when the decrypt thread is where it is.
HandedOver ==
  /\ decrypt.at \in {"loop", "pop"} => Submitted = Before(decrypt.sample)
  /\ decrypt.at \in {"frame", "push"} =>
       decrypt.sample > 0 /\ decrypt.pos \in 1 .. FramesPerSample
  /\ decrypt.at = "frame" => Submitted = Before(decrypt.sample - 1) + decrypt.pos - 1
  /\ decrypt.at = "push" => /\ Submitted = Before(decrypt.sample - 1) + decrypt.pos
                            /\ Len(held) > 0

\* The demuxed queue goes on where the decrypt thread is, the demux thread where the
\* queue ends.
DemuxedNext ==
  /\ \A i \in 1 .. Len(demuxed) : demuxed[i] = decrypt.sample + i
  /\ demux \in {"loop", "parse"} => parsed = decrypt.sample + Len(demuxed)
  /\ demux = "push" => parsed = decrypt.sample + Len(demuxed) + 1

\* A queue that is shut down takes what its writer still has: one sample of the demux
\* thread, the frames of one sample of the decrypt thread.
DemuxedLimit ==
  \/ Len(demuxed) <= DemuxedBound
  \/ /\ Stopped("demuxedQueue") /\ demux \notin {"parse", "push"}
     /\ Len(demuxed) <= DemuxedBound + 1
FramesLimit ==
  \/ Len(frames) <= FrameBound
  \/ /\ Stopped("frameQueue")
     /\ \/ decrypt.at \in {"frame", "push"} /\ Len(frames) <= FrameBound + decrypt.pos - 1
        \/ decrypt.at \in {"loop", "ended", "undefined"} /\ Len(frames) <= FrameBound + FramesPerSample

\* DecryptAndDecodeFrame() returns a frame with every one it does not hold back.
HeldLimit ==
  /\ decrypt.at # "push" => Len(held) <= DecoderDelay
  /\ decrypt.at = "push" => Len(held) <= DecoderDelay + 1

IInv == /\ TypeOK /\ InOrder /\ HandedOver /\ DemuxedNext
        /\ DemuxedLimit /\ FramesLimit /\ HeldLimit

-----------------------------------------------------------------------------
(* Queues of numbers, numbers of samples, and the steps of StopStream().   *)

\* A queue has a length, and numbers in it.
LEMMA QueueFacts ==
  ASSUME NEW s \in Seq(Nat)
  PROVE  Len(s) \in Nat /\ \A i \in 1 .. Len(s) : s[i] \in Nat
BY LenProperties, ElementOfSeq

\* push() of a queue.
LEMMA PushFacts ==
  ASSUME NEW s \in Seq(Nat), NEW e \in Nat
  PROVE  /\ Append(s, e) \in Seq(Nat)
         /\ Len(Append(s, e)) = Len(s) + 1
         /\ \A i \in 1 .. Len(Append(s, e)) : \/ i \in 1 .. Len(s) /\ Append(s, e)[i] = s[i]
                                              \/ i = Len(s) + 1 /\ Append(s, e)[i] = e
BY AppendProperties, QueueFacts

\* pop() of a queue that is not empty.
LEMMA PopFacts ==
  ASSUME NEW s \in Seq(Nat), s # <<>>
  PROVE  /\ Len(s) > 0 /\ Head(s) = s[1] /\ Head(s) \in Nat
         /\ Tail(s) \in Seq(Nat)
         /\ Len(Tail(s)) = Len(s) - 1
         /\ \A i \in 1 .. Len(Tail(s)) : i + 1 \in 1 .. Len(s) /\ Tail(s)[i] = s[i + 1]
<1>1. Len(s) \in Nat \ {0}
  BY EmptySeq
<1>2. Head(s) = s[1] /\ s[1] \in Nat
  BY <1>1, HeadTailProperties, ElementOfSeq
<1>3. /\ Tail(s) \in Seq(Nat) /\ Len(Tail(s)) = Len(s) - 1
      /\ \A i \in 1 .. Len(Tail(s)) : Tail(s)[i] = s[i + 1]
  BY <1>1, HeadTailProperties
<1>4. QED
  BY <1>1, <1>2, <1>3

\* A sample has FramesPerSample frames.
LEMMA BeforeFacts ==
  /\ FramesPerSample \in Nat \ {0} /\ Before(0) = 0
  /\ \A s \in Nat : Before(s) \in Nat /\ Before(s + 1) = Before(s) + FramesPerSample
BY BoundsAssumption DEF Before

\* The number of the frame that goes to the CDM.
LEMMA FrameFacts ==
  ASSUME decrypt.sample \in Nat \ {0}, decrypt.pos \in Nat
  PROVE  /\ Frame = Before(decrypt.sample - 1) + decrypt.pos
         /\ Before(decrypt.sample - 1) \in Nat
         /\ Before(decrypt.sample) = Before(decrypt.sample - 1) + FramesPerSample
<1>1. decrypt.sample - 1 \in Nat /\ (decrypt.sample - 1) + 1 = decrypt.sample
  OBVIOUS
<1>2. Frame = Before(decrypt.sample - 1) + decrypt.pos
  BY DEF Frame, Before
<1>3. QED
  BY <1>1, <1>2, BeforeFacts

\* Room for the next frame of a sample in a queue that is shut down.
LEMMA RoomFacts ==
  ASSUME NEW bound \in Nat, NEW p \in Nat \ {0}, NEW m \in Nat,
         m <= bound \/ m <= bound + p - 1
  PROVE  m <= bound + p /\ m + 1 <= bound + p /\ bound + (p + 1) - 1 = bound + p
OBVIOUS

\* Which of the steps of StopStream() that the queues depend on have been taken.
LEMMA StopFacts ==
  ASSUME control \in 0 .. 8
  PROVE  /\ Stopped("demuxThread") <=> control >= 2
         /\ Stopped("decryptThread") <=> control >= 3
         /\ Stopped("demuxedQueue") <=> control >= 6
         /\ Stopped("frameQueue") <=> control >= 7
BY DEF Stopped, StopSteps

\* The same of the next state.
LEMMA NextStopFacts ==
  ASSUME control' \in 0 .. 8
  PROVE  /\ Stopped("demuxThread")' <=> control' >= 2
         /\ Stopped("decryptThread")' <=> control' >= 3
         /\ Stopped("demuxedQueue")' <=> control' >= 6
         /\ Stopped("frameQueue")' <=> control' >= 7
BY DEF Stopped, StopSteps

-----------------------------------------------------------------------------
(* What the operations on the queues do.                                   *)

\* The decrypt thread goes on with the next frame of its sample, or is done with it.
LEMMA NextFrameFacts ==
  ASSUME TypeOK, decrypt.pos \in 1 .. FramesPerSample
  PROVE  /\ NextFrame \in [at : DecryptPlaces, sample : Nat, pos : Nat]
         /\ NextFrame.sample = decrypt.sample
         /\ \/ NextFrame.at = "frame" /\ NextFrame.pos = decrypt.pos + 1
               /\ NextFrame.pos \in 1 .. FramesPerSample
            \/ NextFrame.at = "loop" /\ decrypt.pos = FramesPerSample
<1> USE DEF TypeOK, DecryptPlaces
<1>0. FramesPerSample \in Nat \ {0} /\ decrypt.pos \in Nat
  BY BeforeFacts
<1>1. CASE decrypt.pos < FramesPerSample
  <2>1. NextFrame = [decrypt EXCEPT !.at = "frame", !.pos = decrypt.pos + 1]
    BY <1>1 DEF NextFrame
  <2>2. decrypt.pos + 1 \in Nat /\ decrypt.pos + 1 \in 1 .. FramesPerSample
    BY <1>0, <1>1
  <2>3. QED
    BY <2>1, <2>2
<1>2. CASE ~(decrypt.pos < FramesPerSample)
  <2>1. NextFrame = [decrypt EXCEPT !.at = "loop"] /\ decrypt.pos = FramesPerSample
    BY <1>0, <1>2 DEF NextFrame
  <2>2. QED
    BY <2>1
<1>3. QED
  BY <1>1, <1>2

\* The frame that goes into the CDM is the one after all that were handed over.
LEMMA DecodeFacts ==
  ASSUME IInv, decrypt.at = "frame", held' = Append(held, Frame), UNCHANGED <<rendered, frames>>
  PROVE  /\ held' \in Seq(Nat) /\ Len(held') = Len(held) + 1 /\ Len(held) \in Nat
         /\ InOrder'
         /\ Submitted' = Submitted + 1 /\ Submitted + 1 = Frame
<1>1. /\ Len(rendered) \in Nat /\ Len(frames) \in Nat /\ Len(held) \in Nat
  BY QueueFacts DEF IInv, TypeOK
<1>2. Frame = Submitted + 1 /\ Frame \in Nat
  <2>1. decrypt.sample \in Nat \ {0} /\ decrypt.pos \in Nat
    BY DEF IInv, TypeOK, HandedOver
  <2>2. Submitted = Before(decrypt.sample - 1) + decrypt.pos - 1
    BY DEF IInv, HandedOver
  <2>3. QED
    BY <2>1, <2>2, FrameFacts
<1>3. /\ held' \in Seq(Nat) /\ Len(held') = Len(held) + 1
      /\ \A i \in 1 .. Len(held') : \/ i \in 1 .. Len(held) /\ held'[i] = held[i]
                                    \/ i = Len(held) + 1 /\ held'[i] = Frame
  BY <1>2, PushFacts DEF IInv, TypeOK
<1>4. ASSUME NEW i \in 1 .. Len(held')
      PROVE  held'[i] = Len(rendered) + Len(frames) + i
  <2>1. CASE i \in 1 .. Len(held) /\ held'[i] = held[i]
    BY <2>1 DEF IInv, InOrder
  <2>2. CASE i = Len(held) + 1 /\ held'[i] = Frame
    BY <1>1, <1>2, <2>2 DEF Submitted
  <2>3. QED
    BY <1>3, <2>1, <2>2
<1>5. InOrder'
  BY <1>4 DEF IInv, InOrder
<1>6. QED
  BY <1>1, <1>2, <1>3, <1>5 DEF Submitted

\* The oldest frame in the CDM is the one after the newest in the frame queue.
LEMMA DecryptPushFacts ==
  ASSUME IInv, DecryptPush, UNCHANGED rendered
  PROVE  /\ held' \in Seq(Nat) /\ Len(held') = Len(held) - 1 /\ Len(held) \in Nat
         /\ frames' \in Seq(Nat) /\ Len(frames') = Len(frames) + 1 /\ Len(frames) \in Nat
         /\ InOrder'
         /\ Submitted' = Submitted
<1>1. /\ Len(rendered) \in Nat /\ Len(frames) \in Nat /\ Len(held) \in Nat
  BY QueueFacts DEF IInv, TypeOK
<1>2. held # <<>> /\ held \in Seq(Nat) /\ frames \in Seq(Nat)
  BY EmptySeq DEF IInv, TypeOK, HandedOver, DecryptPush
<1>3. /\ 1 \in 1 .. Len(held) /\ Head(held) = held[1] /\ Head(held) \in Nat
      /\ held' \in Seq(Nat) /\ Len(held') = Len(held) - 1
      /\ \A i \in 1 .. Len(held') : i + 1 \in 1 .. Len(held) /\ held'[i] = held[i + 1]
  BY <1>1, <1>2, PopFacts DEF DecryptPush
<1>4. /\ frames' \in Seq(Nat) /\ Len(frames') = Len(frames) + 1
      /\ \A i \in 1 .. Len(frames') : \/ i \in 1 .. Len(frames) /\ frames'[i] = frames[i]
                                      \/ i = Len(frames) + 1 /\ frames'[i] = held[1]
  BY <1>2, <1>3, PushFacts DEF DecryptPush
<1>5. held[1] = Len(rendered) + Len(frames) + 1
  BY <1>3 DEF IInv, InOrder
<1>6. ASSUME NEW i \in 1 .. Len(frames')
      PROVE  frames'[i] = Len(rendered) + i
  <2>1. CASE i \in 1 .. Len(frames) /\ frames'[i] = frames[i]
    BY <2>1 DEF IInv, InOrder
  <2>2. CASE i = Len(frames) + 1 /\ frames'[i] = held[1]
    BY <1>1, <1>5, <2>2
  <2>3. QED
    BY <1>4, <2>1, <2>2
<1>7. ASSUME NEW i \in 1 .. Len(held')
      PROVE  held'[i] = Len(rendered) + Len(frames') + i
  <2>1. i + 1 \in 1 .. Len(held) /\ held'[i] = held[i + 1]
    BY <1>3
  <2>2. held[i + 1] = Len(rendered) + Len(frames) + (i + 1)
    BY <2>1 DEF IInv, InOrder
  <2>3. QED
    BY <1>1, <1>4, <2>1, <2>2
<1>8. InOrder'
  BY <1>6, <1>7 DEF IInv, InOrder
<1>9. QED
  BY <1>1, <1>3, <1>4, <1>8 DEF Submitted

\* The oldest frame in the queue is the one after the last on the screen.
LEMMA RenderFacts ==
  ASSUME IInv, RenderFrame, UNCHANGED held
  PROVE  /\ rendered' \in Seq(Nat) /\ Len(rendered') = Len(rendered) + 1 /\ Len(rendered) \in Nat
         /\ frames' \in Seq(Nat) /\ Len(frames') = Len(frames) - 1 /\ Len(frames) \in Nat
         /\ InOrder'
         /\ Submitted' = Submitted
<1>1. /\ Len(rendered) \in Nat /\ Len(frames) \in Nat /\ Len(held) \in Nat
  BY QueueFacts DEF IInv, TypeOK
<1>2. frames # <<>> /\ frames \in Seq(Nat) /\ rendered \in Seq(Nat)
  BY DEF IInv, TypeOK, RenderFrame
<1>3. /\ Len(frames) > 0 /\ Head(frames) = frames[1] /\ Head(frames) \in Nat
      /\ frames' \in Seq(Nat) /\ Len(frames') = Len(frames) - 1
      /\ \A i \in 1 .. Len(frames') : i + 1 \in 1 .. Len(frames) /\ frames'[i] = frames[i + 1]
  BY <1>2, PopFacts DEF RenderFrame
<1>4. /\ rendered' \in Seq(Nat) /\ Len(rendered') = Len(rendered) + 1
      /\ \A i \in 1 .. Len(rendered') : \/ i \in 1 .. Len(rendered) /\ rendered'[i] = rendered[i]
                                        \/ i = Len(rendered) + 1 /\ rendered'[i] = frames[1]
  BY <1>2, <1>3, PushFacts DEF RenderFrame
<1>5. frames[1] = Len(rendered) + 1
  BY <1>1, <1>3 DEF IInv, InOrder
<1>6. ASSUME NEW i \in 1 .. Len(rendered')
      PROVE  rendered'[i] = i
  <2>1. CASE i \in 1 .. Len(rendered) /\ rendered'[i] = rendered[i]
    BY <2>1 DEF IInv, InOrder
  <2>2. CASE i = Len(rendered) + 1 /\ rendered'[i] = frames[1]
    BY <1>5, <2>2
  <2>3. QED
    BY <1>4, <2>1, <2>2
<1>7. ASSUME NEW i \in 1 .. Len(frames')
      PROVE  frames'[i] = Len(rendered') + i
  <2>1. i + 1 \in 1 .. Len(frames) /\ frames'[i] = frames[i + 1]
    BY <1>3
  <2>2. frames[i + 1] = Len(rendered) + (i + 1)
    BY <2>1 DEF IInv, InOrder
  <2>3. QED
    BY <1>1, <1>4, <2>1, <2>2
<1>8. \A i \in 1 .. Len(held) : held[i] = Len(rendered') + Len(frames') + i
  BY <1>1, <1>3, <1>4 DEF IInv, InOrder
<1>9. InOrder'
  BY <1>6, <1>7, <1>8 DEF InOrder
<1>10. QED
  BY <1>1, <1>3, <1>4, <1>9 DEF Submitted

\* The sample that is taken is the one after the last that was decrypted.
LEMMA DecryptPopFacts ==
  ASSUME IInv, DecryptPop
  PROVE  /\ demuxed' \in Seq(Nat) /\ Len(demuxed') = Len(demuxed) - 1 /\ Len(demuxed) \in Nat
         /\ decrypt' = [at |-> "frame", sample |-> decrypt.sample + 1, pos |-> 1]
         /\ \A i \in 1 .. Len(demuxed') : demuxed'[i] = decrypt'.sample + i
<1>1. /\ Len(demuxed) \in Nat /\ demuxed \in Seq(Nat) /\ demuxed # <<>> /\ decrypt.sample \in Nat
  BY QueueFacts DEF IInv, TypeOK, DecryptPop
<1>2. /\ 1 \in 1 .. Len(demuxed) /\ Head(demuxed) = demuxed[1]
      /\ demuxed' \in Seq(Nat) /\ Len(demuxed') = Len(demuxed) - 1
      /\ \A i \in 1 .. Len(demuxed') : i + 1 \in 1 .. Len(demuxed) /\ demuxed'[i] = demuxed[i + 1]
  BY <1>1, PopFacts DEF DecryptPop
<1>3. demuxed[1] = decrypt.sample + 1
  BY <1>2 DEF IInv, DemuxedNext
<1>4. decrypt' = [at |-> "frame", sample |-> decrypt.sample + 1, pos |-> 1]
  BY <1>2, <1>3 DEF DecryptPop
<1>5. ASSUME NEW i \in 1 .. Len(demuxed')
      PROVE  demuxed'[i] = decrypt'.sample + i
  <2>1. i + 1 \in 1 .. Len(demuxed) /\ demuxed'[i] = demuxed[i + 1]
    BY <1>2
  <2>2. demuxed[i + 1] = decrypt.sample + (i + 1)
    BY <2>1 DEF IInv, DemuxedNext
  <2>3. decrypt'.sample = decrypt.sample + 1
    BY <1>4
  <2>4. i \in Nat /\ decrypt.sample \in Nat
    BY <1>1, <1>2
  <2>5. decrypt.sample + (i + 1) = (decrypt.sample + 1) + i
    BY <2>4
  <2>6. QED
    BY <2>1, <2>2, <2>3, <2>5
<1>6. QED
  BY <1>1, <1>2, <1>4, <1>5

\* The sample that is pushed is the one after the last in the queue.
LEMMA DemuxPushFacts ==
  ASSUME IInv, DemuxPush, UNCHANGED decrypt
  PROVE  /\ demuxed' \in Seq(Nat) /\ Len(demuxed') = Len(demuxed) + 1 /\ Len(demuxed) \in Nat
         /\ \A i \in 1 .. Len(demuxed') : demuxed'[i] = decrypt'.sample + i
<1>1. /\ Len(demuxed) \in Nat /\ demuxed \in Seq(Nat) /\ parsed \in Nat
      /\ decrypt.sample \in Nat
  BY QueueFacts DEF IInv, TypeOK
<1>2. parsed = decrypt.sample + Len(demuxed) + 1
  BY DEF IInv, DemuxedNext, DemuxPush
<1>3. /\ demuxed' \in Seq(Nat) /\ Len(demuxed') = Len(demuxed) + 1
      /\ \A i \in 1 .. Len(demuxed') : \/ i \in 1 .. Len(demuxed) /\ demuxed'[i] = demuxed[i]
                                       \/ i = Len(demuxed) + 1 /\ demuxed'[i] = parsed
  BY <1>1, PushFacts DEF DemuxPush
<1>4. ASSUME NEW i \in 1 .. Len(demuxed')
      PROVE  demuxed'[i] = decrypt'.sample + i
  <2>1. CASE i \in 1 .. Len(demuxed) /\ demuxed'[i] = demuxed[i]
    BY <2>1 DEF IInv, DemuxedNext
  <2>2. CASE i = Len(demuxed) + 1 /\ demuxed'[i] = parsed
    BY <1>1, <1>2, <2>2
  <2>3. QED
    BY <1>3, <2>1, <2>2
<1>5. QED
  BY <1>1, <1>3, <1>4

-----------------------------------------------------------------------------
(* Steps of the decrypt thread and what they hand over.                    *)

\* A new sample: what was handed over is all that comes before it.
LEMMA PopHandsOver == IInv /\ DecryptThread /\ DecryptPop => HandedOver'
<1> SUFFICES ASSUME IInv, DecryptThread, DecryptPop
             PROVE  HandedOver'
  OBVIOUS
<1>1. Submitted' = Submitted /\ Submitted = Before(decrypt.sample)
  BY DEF IInv, HandedOver, DecryptThread, DecryptPop, renderer, Submitted
<1>2. decrypt.sample \in Nat
  BY DEF IInv, TypeOK
<1>3. decrypt' = [at |-> "frame", sample |-> decrypt.sample + 1, pos |-> 1]
  BY DecryptPopFacts
<1>4. /\ decrypt'.at = "frame" /\ decrypt'.sample > 0 /\ decrypt'.pos = 1
      /\ decrypt'.sample - 1 = decrypt.sample
  BY <1>2, <1>3
<1>5. FramesPerSample \in Nat \ {0} /\ Before(decrypt.sample) \in Nat
  BY <1>2, BeforeFacts
<1>6. Before(decrypt'.sample - 1) = Before(decrypt.sample)
  BY <1>4
<1>7. Submitted' = Before(decrypt'.sample - 1) + decrypt'.pos - 1
  BY <1>1, <1>4, <1>5, <1>6
<1>8. QED
  BY <1>4, <1>5, <1>7 DEF HandedOver

\* The frame at pos goes into the CDM, whether one comes out or not.
LEMMA DecodeHandsOver ==
  IInv /\ DecryptThread /\ (DecodeSucceeds \/ DecodeNeedsMore) => HandedOver'
<1> SUFFICES ASSUME IInv, DecryptThread, DecodeSucceeds \/ DecodeNeedsMore
             PROVE  HandedOver'
  OBVIOUS
<1>1. /\ decrypt.at = "frame" /\ decrypt.sample \in Nat \ {0}
      /\ decrypt.pos \in Nat /\ decrypt.pos \in 1 .. FramesPerSample
      /\ Submitted = Before(decrypt.sample - 1) + decrypt.pos - 1
  BY DEF IInv, TypeOK, HandedOver, DecodeSucceeds, DecodeNeedsMore
<1>2. Submitted' = Submitted + 1 /\ Len(held') = Len(held) + 1 /\ Len(held) \in Nat
  BY <1>1, DecodeFacts DEF DecodeSucceeds, DecodeNeedsMore, DecryptThread, renderer
<1>3. /\ Before(decrypt.sample - 1) \in Nat
      /\ Before(decrypt.sample) = Before(decrypt.sample - 1) + FramesPerSample
      /\ FramesPerSample \in Nat
  BY <1>1, FrameFacts, BeforeFacts
<1>4. Submitted' = Before(decrypt.sample - 1) + decrypt.pos
  BY <1>1, <1>2, <1>3
<1>5. CASE DecodeSucceeds
  <2>1. decrypt'.at = "push" /\ decrypt'.sample = decrypt.sample /\ decrypt'.pos = decrypt.pos
    BY <1>5 DEF DecodeSucceeds, IInv, TypeOK
  <2>2. QED
    BY <1>1, <1>2, <1>4, <2>1 DEF HandedOver
<1>6. CASE DecodeNeedsMore
  <2>1. decrypt' = NextFrame
    BY <1>6 DEF DecodeNeedsMore
  <2>2. /\ decrypt'.sample = decrypt.sample
        /\ \/ /\ decrypt'.at = "frame" /\ decrypt'.pos = decrypt.pos + 1
              /\ decrypt'.pos \in 1 .. FramesPerSample
           \/ decrypt'.at = "loop" /\ decrypt.pos = FramesPerSample
    BY <1>1, <2>1, NextFrameFacts DEF IInv
  <2>3. CASE decrypt'.at = "frame"
    <3>1. decrypt'.pos = decrypt.pos + 1 /\ decrypt'.pos \in 1 .. FramesPerSample
      BY <2>2, <2>3
    <3>2. Submitted' = Before(decrypt'.sample - 1) + decrypt'.pos - 1
      BY <1>1, <1>3, <1>4, <2>2, <3>1
    <3>3. QED
      BY <1>1, <2>2, <2>3, <3>1, <3>2 DEF HandedOver
  <2>4. CASE decrypt'.at = "loop"
    <3>1. Submitted' = Before(decrypt'.sample)
      BY <1>1, <1>3, <1>4, <2>2, <2>4
    <3>2. QED
      BY <2>4, <3>1 DEF HandedOver
  <2>5. QED
    BY <2>2, <2>3, <2>4
<1>7. QED
  BY <1>5, <1>6

\* The frame that comes out changes place, then the next one is due.
LEMMA PushHandsOver == IInv /\ DecryptThread /\ DecryptPush => HandedOver'
<1> SUFFICES ASSUME IInv, DecryptThread, DecryptPush
             PROVE  HandedOver'
  OBVIOUS
<1>1. /\ decrypt.sample \in Nat \ {0}
      /\ decrypt.pos \in Nat /\ decrypt.pos \in 1 .. FramesPerSample
      /\ Submitted = Before(decrypt.sample - 1) + decrypt.pos
  BY DEF IInv, TypeOK, HandedOver, DecryptPush
<1>2. Submitted' = Submitted /\ decrypt' = NextFrame
  BY DecryptPushFacts DEF DecryptPush, DecryptThread, renderer
<1>3. /\ Before(decrypt.sample - 1) \in Nat
      /\ Before(decrypt.sample) = Before(decrypt.sample - 1) + FramesPerSample
      /\ FramesPerSample \in Nat
  BY <1>1, FrameFacts, BeforeFacts
<1>4. /\ decrypt'.sample = decrypt.sample
      /\ \/ /\ decrypt'.at = "frame" /\ decrypt'.pos = decrypt.pos + 1
            /\ decrypt'.pos \in 1 .. FramesPerSample
         \/ decrypt'.at = "loop" /\ decrypt.pos = FramesPerSample
  BY <1>1, <1>2, NextFrameFacts DEF IInv
<1>5. CASE decrypt'.at = "frame"
  <2>1. decrypt'.pos = decrypt.pos + 1 /\ decrypt'.pos \in 1 .. FramesPerSample
    BY <1>4, <1>5
  <2>2. Submitted' = Before(decrypt'.sample - 1) + decrypt'.pos - 1
    BY <1>1, <1>2, <1>3, <1>4, <2>1
  <2>3. QED
    BY <1>1, <1>4, <1>5, <2>1, <2>2 DEF HandedOver
<1>6. CASE decrypt'.at = "loop"
  <2>1. Submitted' = Before(decrypt'.sample)
    BY <1>1, <1>2, <1>3, <1>4, <1>6
  <2>2. QED
    BY <1>6, <2>1 DEF HandedOver
<1>7. QED
  BY <1>4, <1>5, <1>6

-----------------------------------------------------------------------------
(* Samples on their way through the demuxed queue.                         *)

\* What is pushed goes to the end of the queue.
LEMMA PushGoesOn == IInv /\ DemuxThread /\ DemuxPush => DemuxedNext'
<1> SUFFICES ASSUME IInv, DemuxThread, DemuxPush
             PROVE  DemuxedNext'
  OBVIOUS
<1>1. decrypt' = decrypt /\ demux' = "loop" /\ parsed' = parsed /\ demux = "push"
  BY DEF DemuxThread, DemuxPush, decrypter
<1>2. /\ Len(demuxed') = Len(demuxed) + 1 /\ Len(demuxed) \in Nat
      /\ \A i \in 1 .. Len(demuxed') : demuxed'[i] = decrypt'.sample + i
  BY <1>1, DemuxPushFacts
<1>3. decrypt.sample \in Nat /\ parsed = decrypt.sample + Len(demuxed) + 1
  BY <1>1 DEF IInv, TypeOK, DemuxedNext
<1>4. parsed' = decrypt'.sample + Len(demuxed')
  BY <1>1, <1>2, <1>3
<1>5. QED
  BY <1>1, <1>2, <1>4 DEF DemuxedNext

\* What is taken is the next sample of the decrypt thread.
LEMMA PopGoesOn == IInv /\ DecryptThread /\ DecryptPop => DemuxedNext'
<1> SUFFICES ASSUME IInv, DecryptThread, DecryptPop
             PROVE  DemuxedNext'
  OBVIOUS
<1>1. demux' = demux /\ parsed' = parsed
  BY DEF DecryptThread, demuxer
<1>2. /\ Len(demuxed') = Len(demuxed) - 1 /\ Len(demuxed) \in Nat
      /\ \A i \in 1 .. Len(demuxed') : demuxed'[i] = decrypt'.sample + i
      /\ decrypt' = [at |-> "frame", sample |-> decrypt.sample + 1, pos |-> 1]
  BY DecryptPopFacts
<1>3. decrypt.sample \in Nat /\ decrypt'.sample = decrypt.sample + 1
  BY <1>2 DEF IInv, TypeOK
<1>4. decrypt'.sample + Len(demuxed') = decrypt.sample + Len(demuxed)
  BY <1>2, <1>3
<1>5. ASSUME demux \in {"loop", "parse"}
      PROVE  parsed' = decrypt'.sample + Len(demuxed')
  BY <1>1, <1>4, <1>5 DEF IInv, DemuxedNext
<1>6. ASSUME demux = "push"
      PROVE  parsed' = decrypt'.sample + Len(demuxed') + 1
  BY <1>1, <1>4, <1>6 DEF IInv, DemuxedNext
<1>7. QED
  BY <1>1, <1>2, <1>5, <1>6 DEF DemuxedNext

-----------------------------------------------------------------------------
\* Types, one step per action.
LEMMA TypeStep == IInv /\ [Next]_vars => TypeOK'
<1> SUFFICES ASSUME IInv, [Next]_vars
             PROVE  TypeOK'
  OBVIOUS
<1> USE DEF IInv, TypeOK, DemuxPlaces, DecryptPlaces, RenderPlaces
<1>1. CASE UNCHANGED <<fetched, parsed, control, netAlive, paused, failed, demux, render, demuxed, held, frames, rendered, decrypt>>
  BY <1>1
<1>2. CASE Network
  <2>1. CASE Fetch
    BY <1>2, <2>1 DEF Network, Fetch, network, demuxer, decrypter, renderer
  <2>2. CASE TransferFails
    BY <1>2, <2>2 DEF Network, TransferFails, network, demuxer, decrypter, renderer
  <2>3. QED
    BY <1>2, <2>1, <2>2 DEF Network
<1>3. CASE DemuxThread
  <2>1. CASE DemuxLoop
    BY <1>3, <2>1 DEF DemuxThread, DemuxLoop, network, demuxer, decrypter, renderer
  <2>2. CASE Parse
    BY <1>3, <2>2 DEF DemuxThread, Parse, network, demuxer, decrypter, renderer
  <2>3. CASE ParseFails
    BY <1>3, <2>3 DEF DemuxThread, ParseFails, network, demuxer, decrypter, renderer
  <2>4. CASE ConversionFails
    BY <1>3, <2>4 DEF DemuxThread, ConversionFails, network, demuxer, decrypter, renderer
  <2>5. CASE DemuxPush
    BY <1>3, <2>5, DemuxPushFacts DEF DemuxThread, DemuxPush, network, decrypter, renderer
  <2>6. QED
    BY <1>3, <2>1, <2>2, <2>3, <2>4, <2>5 DEF DemuxThread
<1>4. CASE DecryptThread
  <2>1. CASE DecryptLoop
    BY <1>4, <2>1 DEF DecryptThread, DecryptLoop, network, demuxer, decrypter, renderer
  <2>2. CASE DecryptPop
    BY <1>4, <2>2, DecryptPopFacts DEF DecryptThread, DecryptPop, network, demuxer, renderer
  <2>3. CASE DecryptPopUndefined
    BY <1>4, <2>3 DEF DecryptThread, DecryptPopUndefined, network, demuxer, decrypter, renderer
  <2>4. CASE DecodeSucceeds
    <3>1. held' \in Seq(Nat)
      BY <1>4, <2>4, DecodeFacts DEF DecryptThread, DecodeSucceeds, renderer
    <3>2. QED
      BY <1>4, <2>4, <3>1 DEF DecryptThread, DecodeSucceeds, network, demuxer, renderer
  <2>5. CASE DecodeNeedsMore
    <3>1. held' \in Seq(Nat)
      BY <1>4, <2>5, DecodeFacts DEF DecryptThread, DecodeNeedsMore, renderer
    <3>2. decrypt' \in [at : DecryptPlaces, sample : Nat, pos : Nat]
      BY <2>5, NextFrameFacts DEF DecodeNeedsMore, HandedOver
    <3>3. QED
      BY <1>4, <2>5, <3>1, <3>2 DEF DecryptThread, DecodeNeedsMore, network, demuxer, renderer
  <2>6. CASE DecodeFails
    BY <1>4, <2>6 DEF DecryptThread, DecodeFails, network, demuxer, decrypter, renderer
  <2>7. CASE DecryptPush
    <3>1. held' \in Seq(Nat) /\ frames' \in Seq(Nat)
      BY <1>4, <2>7, DecryptPushFacts DEF DecryptThread, renderer
    <3>2. decrypt' \in [at : DecryptPlaces, sample : Nat, pos : Nat]
      BY <2>7, NextFrameFacts DEF DecryptPush, HandedOver
    <3>3. QED
      BY <1>4, <2>7, <3>1, <3>2 DEF DecryptThread, DecryptPush, network, demuxer, renderer
  <2>8. QED
    BY <1>4, <2>1, <2>2, <2>3, <2>4, <2>5, <2>6, <2>7 DEF DecryptThread
<1>5. CASE RenderThread
  <2>1. CASE RenderLoop
    BY <1>5, <2>1 DEF RenderThread, RenderLoop, network, demuxer, decrypter, renderer
  <2>2. CASE StartTimeSet
    BY <1>5, <2>2 DEF RenderThread, StartTimeSet, network, demuxer, decrypter, renderer
  <2>3. CASE RenderFrame
    BY <1>5, <2>3, RenderFacts DEF RenderThread, RenderFrame, network, demuxer, decrypter
  <2>4. CASE RenderPopUndefined
    BY <1>5, <2>4 DEF RenderThread, RenderPopUndefined, network, demuxer, decrypter, renderer
  <2>5. CASE Synced
    BY <1>5, <2>5 DEF RenderThread, Synced, network, demuxer, decrypter, renderer
  <2>6. QED
    BY <1>5, <2>1, <2>2, <2>3, <2>4, <2>5 DEF RenderThread
<1>6. CASE PauseOrResume
  BY <1>6 DEF PauseOrResume, network, demuxer, decrypter, renderer
<1>7. CASE StopStream
  <2>1. control' \in 0 .. 8
    BY <1>7 DEF StopStream, StopSteps
  <2>2. QED
    BY <1>7, <2>1 DEF StopStream, network, demuxer, decrypter, renderer
<1>8. QED
  BY <1>1, <1>2, <1>3, <1>4, <1>5, <1>6, <1>7
     DEF Next, vars, network, demuxer, decrypter, renderer

\* Every move from one place to the next takes the oldest and makes it the newest.
LEMMA OrderStep == IInv /\ [Next]_vars => InOrder'
<1> SUFFICES ASSUME IInv, [Next]_vars
             PROVE  InOrder'
  OBVIOUS
<1> USE DEF IInv, InOrder
<1>1. CASE UNCHANGED <<rendered, frames, held>>
  BY <1>1
<1>2. CASE DecryptThread
  <2>1. CASE DecryptLoop
    BY <1>2, <2>1 DEF DecryptThread, DecryptLoop, network, demuxer, decrypter, renderer
  <2>2. CASE DecryptPop
    BY <1>2, <2>2 DEF DecryptThread, DecryptPop, network, demuxer, decrypter, renderer
  <2>3. CASE DecryptPopUndefined
    BY <1>2, <2>3 DEF DecryptThread, DecryptPopUndefined, network, demuxer, decrypter, renderer
  <2>4. CASE DecodeSucceeds
    BY <1>2, <2>4, DecodeFacts DEF DecryptThread, DecodeSucceeds, renderer
  <2>5. CASE DecodeNeedsMore
    BY <1>2, <2>5, DecodeFacts DEF DecryptThread, DecodeNeedsMore, renderer
  <2>6. CASE DecodeFails
    BY <1>2, <2>6 DEF DecryptThread, DecodeFails, network, demuxer, decrypter, renderer
  <2>7. CASE DecryptPush
    BY <1>2, <2>7, DecryptPushFacts DEF DecryptThread, renderer
  <2>8. QED
    BY <1>2, <2>1, <2>2, <2>3, <2>4, <2>5, <2>6, <2>7 DEF DecryptThread
<1>3. CASE RenderThread
  <2>1. CASE RenderLoop
    BY <1>3, <2>1 DEF RenderThread, RenderLoop, network, demuxer, decrypter, renderer
  <2>2. CASE StartTimeSet
    BY <1>3, <2>2 DEF RenderThread, StartTimeSet, network, demuxer, decrypter, renderer
  <2>3. CASE RenderFrame
    BY <1>3, <2>3, RenderFacts DEF RenderThread, decrypter
  <2>4. CASE RenderPopUndefined
    BY <1>3, <2>4 DEF RenderThread, RenderPopUndefined, network, demuxer, decrypter, renderer
  <2>5. CASE Synced
    BY <1>3, <2>5 DEF RenderThread, Synced, network, demuxer, decrypter, renderer
  <2>6. QED
    BY <1>3, <2>1, <2>2, <2>3, <2>4, <2>5 DEF RenderThread
<1>4. QED
  BY <1>1, <1>2, <1>3
     DEF Next, vars, network, demuxer, decrypter, renderer,
         Network, Fetch, TransferFails, DemuxThread, DemuxLoop, Parse, ParseFails,
         ConversionFails, DemuxPush, PauseOrResume, StopStream

\* Each frame of a sample is handed over once, then the sample is done.
LEMMA HandedOverStep == IInv /\ [Next]_vars => HandedOver'
<1> SUFFICES ASSUME IInv, [Next]_vars
             PROVE  HandedOver'
  OBVIOUS
<1> USE DEF IInv, HandedOver, DecryptPlaces
<1>1. CASE UNCHANGED <<rendered, frames, held, decrypt>>
  BY <1>1 DEF Submitted, TypeOK
<1>2. CASE DecryptThread
  <2>1. CASE DecryptLoop
    BY <1>2, <2>1 DEF DecryptThread, DecryptLoop, network, demuxer, decrypter, renderer,
         Submitted, TypeOK
  <2>2. CASE DecryptPop
    BY <1>2, <2>2, PopHandsOver
  <2>3. CASE DecryptPopUndefined
    BY <1>2, <2>3 DEF DecryptThread, DecryptPopUndefined, network, demuxer, decrypter, renderer,
         Submitted, TypeOK
  <2>4. CASE DecodeSucceeds
    BY <1>2, <2>4, DecodeHandsOver
  <2>5. CASE DecodeNeedsMore
    BY <1>2, <2>5, DecodeHandsOver
  <2>6. CASE DecodeFails
    BY <1>2, <2>6 DEF DecryptThread, DecodeFails, network, demuxer, decrypter, renderer,
         Submitted, TypeOK
  <2>7. CASE DecryptPush
    BY <1>2, <2>7, PushHandsOver
  <2>8. QED
    BY <1>2, <2>1, <2>2, <2>3, <2>4, <2>5, <2>6, <2>7 DEF DecryptThread
<1>3. CASE RenderThread
  <2>1. CASE RenderLoop
    BY <1>3, <2>1 DEF RenderThread, RenderLoop, network, demuxer, decrypter, renderer,
         Submitted, TypeOK
  <2>2. CASE StartTimeSet
    BY <1>3, <2>2 DEF RenderThread, StartTimeSet, network, demuxer, decrypter, renderer,
         Submitted, TypeOK
  <2>3. CASE RenderFrame
    <3>1. Submitted' = Submitted /\ decrypt' = decrypt /\ held' = held
      BY <1>3, <2>3, RenderFacts DEF RenderThread, decrypter
    <3>2. QED
      BY <3>1
  <2>4. CASE RenderPopUndefined
    BY <1>3, <2>4 DEF RenderThread, RenderPopUndefined, network, demuxer, decrypter, renderer,
         Submitted, TypeOK
  <2>5. CASE Synced
    BY <1>3, <2>5 DEF RenderThread, Synced, network, demuxer, decrypter, renderer, Submitted, TypeOK
  <2>6. QED
    BY <1>3, <2>1, <2>2, <2>3, <2>4, <2>5 DEF RenderThread
<1>4. QED
  BY <1>1, <1>2, <1>3
     DEF Next, vars, network, demuxer, decrypter, renderer,
         Network, Fetch, TransferFails, DemuxThread, DemuxLoop, Parse, ParseFails,
         ConversionFails, DemuxPush, PauseOrResume, StopStream

\* Samples are parsed, queued and taken one after the other.
LEMMA DemuxedStep == IInv /\ [Next]_vars => DemuxedNext'
<1> SUFFICES ASSUME IInv, [Next]_vars
             PROVE  DemuxedNext'
  OBVIOUS
<1> USE DEF IInv, TypeOK, DemuxedNext, DemuxPlaces
<1>1. CASE UNCHANGED <<parsed, demux, demuxed, decrypt>>
  BY <1>1, QueueFacts
<1>2. CASE DemuxThread
  <2>1. CASE DemuxLoop
    BY <1>2, <2>1, QueueFacts DEF DemuxThread, DemuxLoop, network, demuxer, decrypter, renderer
  <2>2. CASE Parse
    BY <1>2, <2>2, QueueFacts DEF DemuxThread, Parse, network, demuxer, decrypter, renderer
  <2>3. CASE ParseFails
    BY <1>2, <2>3, QueueFacts DEF DemuxThread, ParseFails, network, demuxer, decrypter, renderer
  <2>4. CASE ConversionFails
    BY <1>2, <2>4, QueueFacts DEF DemuxThread, ConversionFails, network, demuxer, decrypter,
         renderer
  <2>5. CASE DemuxPush
    BY <1>2, <2>5, PushGoesOn
  <2>6. QED
    BY <1>2, <2>1, <2>2, <2>3, <2>4, <2>5 DEF DemuxThread
<1>3. CASE DecryptThread
  <2>1. CASE DecryptLoop
    BY <1>3, <2>1, QueueFacts DEF DecryptThread, DecryptLoop, network, demuxer, decrypter, renderer
  <2>2. CASE DecryptPop
    BY <1>3, <2>2, PopGoesOn
  <2>3. CASE DecryptPopUndefined
    BY <1>3, <2>3, QueueFacts DEF DecryptThread, DecryptPopUndefined, network, demuxer,
         decrypter, renderer
  <2>4. CASE DecodeSucceeds
    BY <1>3, <2>4, QueueFacts DEF DecryptThread, DecodeSucceeds, network, demuxer, decrypter,
         renderer
  <2>5. CASE DecodeNeedsMore
    <3>1. decrypt'.sample = decrypt.sample
      BY <2>5, NextFrameFacts DEF DecodeNeedsMore, HandedOver
    <3>2. QED
      BY <1>3, <2>5, <3>1 DEF DecryptThread, DecodeNeedsMore, demuxer
  <2>6. CASE DecodeFails
    BY <1>3, <2>6, QueueFacts DEF DecryptThread, DecodeFails, network, demuxer, decrypter, renderer
  <2>7. CASE DecryptPush
    <3>1. decrypt'.sample = decrypt.sample
      BY <2>7, NextFrameFacts DEF DecryptPush, HandedOver
    <3>2. QED
      BY <1>3, <2>7, <3>1 DEF DecryptThread, DecryptPush, demuxer
  <2>8. QED
    BY <1>3, <2>1, <2>2, <2>3, <2>4, <2>5, <2>6, <2>7 DEF DecryptThread
<1>4. QED
  BY <1>1, <1>2, <1>3
     DEF Next, vars, network, demuxer, decrypter, renderer,
         Network, Fetch, TransferFails, RenderThread, RenderLoop, StartTimeSet, RenderFrame,
         RenderPopUndefined, Synced, PauseOrResume, StopStream

\* The flag of the demux thread is down before its queue is shut down.
LEMMA DemuxedLimitStep == IInv /\ [Next]_vars => DemuxedLimit'
<1> SUFFICES ASSUME IInv, [Next]_vars
             PROVE  DemuxedLimit'
  OBVIOUS
<1> USE DEF IInv, TypeOK, DemuxedLimit
<1> TypeOK'
  BY TypeStep
<1> /\ Stopped("demuxThread") <=> control >= 2
    /\ Stopped("decryptThread") <=> control >= 3
    /\ Stopped("demuxedQueue") <=> control >= 6
    /\ Stopped("frameQueue") <=> control >= 7
  BY StopFacts
<1> /\ Stopped("demuxThread")' <=> control' >= 2
    /\ Stopped("decryptThread")' <=> control' >= 3
    /\ Stopped("demuxedQueue")' <=> control' >= 6
    /\ Stopped("frameQueue")' <=> control' >= 7
  BY NextStopFacts
<1> control \in 0 .. 8 /\ control' \in 0 .. 8
  OBVIOUS
<1> DemuxedBound \in Nat /\ FrameBound \in Nat /\ FramesPerSample \in Nat \ {0} /\ DecoderDelay \in Nat
  BY BoundsAssumption
<1>1. CASE UNCHANGED <<demuxed, demux, control>>
  BY <1>1
<1>2. CASE DemuxThread
  <2>1. CASE DemuxLoop
    BY <1>2, <2>1 DEF DemuxThread, DemuxLoop, network, demuxer, decrypter, renderer
  <2>2. CASE Parse
    BY <1>2, <2>2 DEF DemuxThread, Parse, network, demuxer, decrypter, renderer
  <2>3. CASE ParseFails
    BY <1>2, <2>3 DEF DemuxThread, ParseFails, network, demuxer, decrypter, renderer
  <2>4. CASE ConversionFails
    BY <1>2, <2>4 DEF DemuxThread, ConversionFails, network, demuxer, decrypter, renderer
  <2>5. CASE DemuxPush
    <3>1. Len(demuxed') = Len(demuxed) + 1 /\ Len(demuxed) \in Nat
      BY <1>2, <2>5, DemuxPushFacts DEF DemuxThread, decrypter
    <3>2. QED
      BY <1>2, <2>5, <3>1 DEF DemuxThread, DemuxPush
  <2>6. QED
    BY <1>2, <2>1, <2>2, <2>3, <2>4, <2>5 DEF DemuxThread
<1>3. CASE DecryptThread
  <2>1. CASE DecryptLoop
    BY <1>3, <2>1 DEF DecryptThread, DecryptLoop, network, demuxer, decrypter, renderer
  <2>2. CASE DecryptPop
    <3>1. Len(demuxed') = Len(demuxed) - 1 /\ Len(demuxed) \in Nat
      BY <2>2, DecryptPopFacts
    <3>2. QED
      BY <1>3, <2>2, <3>1 DEF DecryptThread, DecryptPop, demuxer
  <2>3. CASE DecryptPopUndefined
    BY <1>3, <2>3 DEF DecryptThread, DecryptPopUndefined, network, demuxer, decrypter, renderer
  <2>4. CASE DecodeSucceeds
    BY <1>3, <2>4 DEF DecryptThread, DecodeSucceeds, network, demuxer, decrypter, renderer
  <2>5. CASE DecodeNeedsMore
    BY <1>3, <2>5 DEF DecryptThread, DecodeNeedsMore, network, demuxer, decrypter, renderer
  <2>6. CASE DecodeFails
    BY <1>3, <2>6 DEF DecryptThread, DecodeFails, network, demuxer, decrypter, renderer
  <2>7. CASE DecryptPush
    BY <1>3, <2>7 DEF DecryptThread, DecryptPush, network, demuxer, decrypter, renderer
  <2>8. QED
    BY <1>3, <2>1, <2>2, <2>3, <2>4, <2>5, <2>6, <2>7 DEF DecryptThread
<1>4. CASE StopStream
  BY <1>4 DEF StopStream, network, demuxer, decrypter, renderer
<1>5. QED
  BY <1>1, <1>2, <1>3, <1>4
     DEF Next, vars, network, demuxer, decrypter, renderer,
         Network, Fetch, TransferFails, RenderThread, RenderLoop, StartTimeSet, RenderFrame,
         RenderPopUndefined, Synced, PauseOrResume

\* There is room for what the decrypt thread has pushed when it goes on to the next frame.
LEMMA NextFrameRoom ==
  ASSUME TypeOK, decrypt.pos \in 1 .. FramesPerSample, decrypt' = NextFrame, frames' \in Seq(Nat),
         \/ Len(frames') <= FrameBound
         \/ Stopped("frameQueue")' /\ Len(frames') <= FrameBound + decrypt.pos
  PROVE  FramesLimit'
<1>1. /\ FrameBound \in Nat /\ FramesPerSample \in Nat
      /\ Len(frames') \in Nat /\ decrypt.pos \in Nat
  BY BoundsAssumption, QueueFacts
<1>2. CASE decrypt'.at = "frame" /\ decrypt'.pos = decrypt.pos + 1
  <2>1. FrameBound + decrypt'.pos - 1 = FrameBound + decrypt.pos
    BY <1>1, <1>2
  <2>2. QED
    BY <1>2, <2>1 DEF FramesLimit
<1>3. CASE decrypt'.at = "loop" /\ decrypt.pos = FramesPerSample
  BY <1>3 DEF FramesLimit
<1>4. QED
  BY <1>2, <1>3, NextFrameFacts

\* No frame comes in, and the decrypt thread is where it was or has ended.
LEMMA SameRoom ==
  ASSUME IInv, TypeOK', frames' = frames \/ Len(frames') = Len(frames) - 1,
         Stopped("frameQueue") => Stopped("frameQueue")',
         \/ decrypt' = decrypt
         \/ decrypt.at = "frame" /\ decrypt'.at = "push" /\ decrypt'.pos = decrypt.pos
         \/ decrypt.at = "frame" /\ decrypt'.at = "ended"
         \/ decrypt.at = "loop" /\ decrypt'.at = "ended"
         \/ Len(frames) <= FrameBound
  PROVE  FramesLimit'
<1>1. /\ FrameBound \in Nat /\ FramesPerSample \in Nat
      /\ Len(frames) \in Nat /\ Len(frames') \in Nat /\ decrypt.pos \in Nat
  BY BoundsAssumption, QueueFacts DEF IInv, TypeOK
<1>2. Len(frames') <= Len(frames)
  BY <1>1
<1>3. CASE Len(frames) <= FrameBound
  <2>1. Len(frames') <= FrameBound
    BY <1>1, <1>2, <1>3
  <2>2. QED
    BY <2>1 DEF FramesLimit
<1>4. CASE /\ Stopped("frameQueue") /\ decrypt.at \in {"frame", "push"}
           /\ Len(frames) <= FrameBound + decrypt.pos - 1
  <2>1. Len(frames') <= FrameBound + decrypt.pos - 1
    BY <1>1, <1>2, <1>4
  <2>2. CASE decrypt'.at = "ended" /\ decrypt.at = "frame"
    <3>1. decrypt.pos <= FramesPerSample
      BY <1>1, <2>2 DEF IInv, HandedOver
    <3>2. Len(frames') <= FrameBound + FramesPerSample
      BY <1>1, <2>1, <3>1
    <3>3. QED
      BY <1>4, <2>2, <3>2 DEF FramesLimit
  <2>3. CASE decrypt'.at \in {"frame", "push"} /\ decrypt'.pos = decrypt.pos
    BY <1>4, <2>1, <2>3 DEF FramesLimit
  <2>4. CASE Len(frames) <= FrameBound
    BY <1>3, <2>4
  <2>5. QED
    BY <1>4, <2>2, <2>3, <2>4
<1>5. CASE /\ Stopped("frameQueue") /\ decrypt.at \in {"loop", "ended", "undefined"}
           /\ Len(frames) <= FrameBound + FramesPerSample
  <2>1. Len(frames') <= FrameBound + FramesPerSample
    BY <1>1, <1>2, <1>5
  <2>2. CASE decrypt'.at \in {"loop", "ended", "undefined"}
    BY <1>5, <2>1, <2>2 DEF FramesLimit
  <2>3. CASE Len(frames) <= FrameBound
    BY <1>3, <2>3
  <2>4. QED
    BY <1>5, <2>2, <2>3
<1>6. QED
  BY <1>3, <1>4, <1>5 DEF IInv, FramesLimit

\* The flag of the decrypt thread is down before its queue is shut down.
LEMMA FramesLimitStep == IInv /\ [Next]_vars => FramesLimit'
<1> SUFFICES ASSUME IInv, [Next]_vars
             PROVE  FramesLimit'
  OBVIOUS
<1>1. TypeOK'
  BY TypeStep
<1>2. control \in 0 .. 8 /\ control' \in 0 .. 8
  BY <1>1 DEF IInv, TypeOK
<1>3. Stopped("frameQueue") => Stopped("decryptThread")
  BY <1>2, StopFacts
<1>4. Stopped("frameQueue") => Stopped("frameQueue")'
  <2>1. control' >= control
    BY <1>2 DEF Next, vars, network, demuxer, decrypter, renderer, Network, DemuxThread,
                DecryptThread, RenderThread, PauseOrResume, StopStream
  <2>2. QED
    BY <1>2, <2>1, StopFacts, NextStopFacts
<1>5. CASE UNCHANGED <<frames, decrypt>>
  BY <1>1, <1>4, <1>5, SameRoom
<1>6. CASE DecryptThread
  <2>1. control' = control /\ rendered' = rendered
    BY <1>6 DEF DecryptThread, renderer
  <2>2. CASE DecryptLoop
    <3>1. frames' = frames /\ decrypt.at = "loop"
      BY <2>2 DEF DecryptLoop
    <3>2. CASE Stopped("decryptThread")
      <4>1. decrypt'.at = "ended"
        BY <2>2, <3>2 DEF DecryptLoop, IInv, TypeOK
      <4>2. QED
        BY <1>1, <1>4, <3>1, <4>1, SameRoom
    <3>3. CASE ~Stopped("decryptThread")
      <4>1. Len(frames) <= FrameBound
        BY <1>3, <3>3 DEF IInv, FramesLimit
      <4>2. QED
        BY <1>1, <1>4, <3>1, <4>1, SameRoom
    <3>4. QED
      BY <3>2, <3>3
  <2>3. CASE DecryptPop \/ DecryptPopUndefined
    <3>1. frames' = frames /\ decrypt.at = "pop"
      BY <2>3 DEF DecryptPop, DecryptPopUndefined
    <3>2. Len(frames) <= FrameBound
      BY <3>1 DEF IInv, FramesLimit
    <3>3. QED
      BY <1>1, <1>4, <3>1, <3>2, SameRoom
  <2>4. CASE DecodeSucceeds
    <3>1. frames' = frames /\ decrypt.at = "frame"
      BY <2>4 DEF DecodeSucceeds
    <3>2. decrypt'.at = "push" /\ decrypt'.pos = decrypt.pos
      BY <2>4 DEF DecodeSucceeds, IInv, TypeOK
    <3>3. QED
      BY <1>1, <1>4, <3>1, <3>2, SameRoom
  <2>5. CASE DecodeNeedsMore
    <3>1. frames' = frames /\ decrypt' = NextFrame /\ decrypt.at = "frame"
      BY <2>5 DEF DecodeNeedsMore
    <3>2. decrypt.pos \in 1 .. FramesPerSample
      BY <3>1 DEF IInv, HandedOver
    <3>3. \/ Len(frames) <= FrameBound
          \/ Stopped("frameQueue") /\ Len(frames) <= FrameBound + decrypt.pos - 1
      BY <3>1 DEF IInv, FramesLimit
    <3>4. \/ Len(frames) <= FrameBound
          \/ Stopped("frameQueue") /\ Len(frames) <= FrameBound + decrypt.pos
      <4>1. FrameBound \in Nat /\ Len(frames) \in Nat /\ decrypt.pos \in Nat
        BY BoundsAssumption, QueueFacts DEF IInv, TypeOK
      <4>2. QED
        BY <3>3, <4>1
    <3>5. QED
      BY <1>1, <1>4, <3>1, <3>2, <3>4, NextFrameRoom DEF IInv, TypeOK
  <2>6. CASE DecodeFails
    <3>1. frames' = frames /\ decrypt.at = "frame"
      BY <2>6 DEF DecodeFails
    <3>2. decrypt'.at = "ended"
      BY <2>6 DEF DecodeFails, IInv, TypeOK
    <3>3. QED
      BY <1>1, <1>4, <3>1, <3>2, SameRoom
  <2>7. CASE DecryptPush
    <3>1. /\ decrypt' = NextFrame /\ decrypt.at = "push"
          /\ Len(frames) < FrameBound \/ Stopped("frameQueue")
      BY <2>7 DEF DecryptPush
    <3>2. decrypt.pos \in 1 .. FramesPerSample
      BY <3>1 DEF IInv, HandedOver
    <3>3. frames' \in Seq(Nat) /\ Len(frames') = Len(frames) + 1 /\ Len(frames) \in Nat
      BY <2>1, <2>7, DecryptPushFacts
    <3>4. \/ Len(frames) <= FrameBound
          \/ Stopped("frameQueue") /\ Len(frames) <= FrameBound + decrypt.pos - 1
      BY <3>1 DEF IInv, FramesLimit
    <3>5. \/ Len(frames') <= FrameBound
          \/ Stopped("frameQueue") /\ Len(frames') <= FrameBound + decrypt.pos
      <4>1. FrameBound \in Nat /\ decrypt.pos \in Nat \ {0}
        BY <3>2, BoundsAssumption
      <4>2. CASE Len(frames) < FrameBound
        BY <3>3, <4>1, <4>2
      <4>3. CASE Stopped("frameQueue")
        BY <3>3, <3>4, <4>1, <4>3
      <4>4. QED
        BY <3>1, <4>2, <4>3
    <3>6. QED
      BY <1>4, <3>1, <3>2, <3>3, <3>5, NextFrameRoom DEF IInv
  <2>8. QED
    BY <1>6, <2>2, <2>3, <2>4, <2>5, <2>6, <2>7 DEF DecryptThread
<1>7. CASE RenderThread /\ RenderFrame
  <2>1. decrypt' = decrypt /\ held' = held
    BY <1>7 DEF RenderThread, decrypter
  <2>2. Len(frames') = Len(frames) - 1
    BY <1>7, <2>1, RenderFacts
  <2>3. QED
    BY <1>1, <1>4, <2>1, <2>2, SameRoom
<1>8. QED
  BY <1>5, <1>6, <1>7
     DEF Next, vars, network, demuxer, decrypter, renderer, Network, Fetch, TransferFails,
         DemuxThread, DemuxLoop, Parse, ParseFails, ConversionFails, DemuxPush, PauseOrResume,
         RenderThread, RenderLoop, StartTimeSet, RenderPopUndefined, Synced, StopStream

\* A frame goes in, and one comes out when the decoder is full.
LEMMA HeldLimitStep == IInv /\ [Next]_vars => HeldLimit'
<1> SUFFICES ASSUME IInv, [Next]_vars
             PROVE  HeldLimit'
  OBVIOUS
<1> USE DEF IInv, TypeOK, HeldLimit
<1> DecoderDelay \in Nat
  BY BoundsAssumption
<1>1. CASE UNCHANGED <<held, decrypt>>
  BY <1>1
<1>2. CASE DecryptThread
  <2>1. CASE DecryptLoop
    BY <1>2, <2>1 DEF DecryptThread, DecryptLoop, network, demuxer, decrypter, renderer
  <2>2. CASE DecryptPop
    <3>1. decrypt'.at = "frame"
      BY <2>2, DecryptPopFacts
    <3>2. QED
      BY <2>2, <3>1 DEF DecryptPop
  <2>3. CASE DecryptPopUndefined
    BY <1>2, <2>3 DEF DecryptThread, DecryptPopUndefined, network, demuxer, decrypter, renderer
  <2>4. CASE DecodeSucceeds
    <3>1. Len(held') = Len(held) + 1 /\ Len(held) \in Nat
      BY <1>2, <2>4, DecodeFacts DEF DecryptThread, DecodeSucceeds, renderer
    <3>2. decrypt'.at = "push"
      BY <2>4 DEF DecodeSucceeds
    <3>3. QED
      BY <2>4, <3>1, <3>2 DEF DecodeSucceeds
  <2>5. CASE DecodeNeedsMore
    <3>1. Len(held') = Len(held) + 1 /\ Len(held) \in Nat
      BY <1>2, <2>5, DecodeFacts DEF DecryptThread, DecodeNeedsMore, renderer
    <3>2. decrypt'.at /= "push"
      BY <2>5, NextFrameFacts DEF DecodeNeedsMore, HandedOver
    <3>3. QED
      BY <2>5, <3>1, <3>2 DEF DecodeNeedsMore
  <2>6. CASE DecodeFails
    BY <1>2, <2>6 DEF DecryptThread, DecodeFails, network, demuxer, decrypter, renderer
  <2>7. CASE DecryptPush
    <3>1. Len(held') = Len(held) - 1 /\ Len(held) \in Nat
      BY <1>2, <2>7, DecryptPushFacts DEF DecryptThread, renderer
    <3>2. decrypt'.at /= "push"
      BY <2>7, NextFrameFacts DEF DecryptPush, HandedOver
    <3>3. QED
      BY <2>7, <3>1, <3>2 DEF DecryptPush
  <2>8. QED
    BY <1>2, <2>1, <2>2, <2>3, <2>4, <2>5, <2>6, <2>7 DEF DecryptThread
<1>3. QED
  BY <1>1, <1>2
     DEF Next, vars, network, demuxer, decrypter, renderer,
         Network, Fetch, TransferFails, DemuxThread, DemuxLoop, Parse, ParseFails,
         ConversionFails, DemuxPush, RenderThread, RenderLoop, StartTimeSet, RenderFrame,
         RenderPopUndefined, Synced, PauseOrResume, StopStream

-----------------------------------------------------------------------------

\* Nothing is fetched, parsed or queued in the first state.
LEMMA InitHolds == Init => IInv
<1> SUFFICES ASSUME Init
             PROVE  IInv
  OBVIOUS
<1>1. /\ demuxed \in Seq(Nat) /\ held \in Seq(Nat) /\ frames \in Seq(Nat) /\ rendered \in Seq(Nat)
      /\ Len(demuxed) = 0 /\ Len(held) = 0 /\ Len(frames) = 0 /\ Len(rendered) = 0
  BY EmptySeq DEF Init
<1>2. /\ decrypt.at = "loop" /\ decrypt.sample = 0 /\ decrypt.pos = 0
      /\ decrypt \in [at : DecryptPlaces, sample : Nat, pos : Nat]
  BY DEF Init, DecryptPlaces
<1>3. TypeOK
  <2>1. fetched \in Nat /\ parsed \in Nat /\ control \in 0 .. 8
    BY DEF Init
  <2>2. /\ netAlive \in BOOLEAN /\ paused \in BOOLEAN /\ failed \in {"no", "thread", "process"}
        /\ demux \in DemuxPlaces /\ render \in RenderPlaces
    BY DEF Init, DemuxPlaces, RenderPlaces
  <2>3. QED
    BY <1>1, <1>2, <2>1, <2>2 DEF TypeOK
<1>4. InOrder /\ Submitted = 0
  BY <1>1 DEF InOrder, Submitted
<1>5. HandedOver
  BY <1>2, <1>4, BeforeFacts DEF HandedOver
<1>6. DemuxedNext
  BY <1>1, <1>2 DEF Init, DemuxedNext
<1>7. DemuxedLimit /\ FramesLimit /\ HeldLimit
  BY <1>1, <1>2, BoundsAssumption DEF DemuxedLimit, FramesLimit, HeldLimit
<1>8. QED
  BY <1>3, <1>4, <1>5, <1>6, <1>7 DEF IInv

\* The invariant holds: InitHolds, the steps, and induction.
THEOREM InvariantHolds == Spec => []IInv
<1>1. IInv /\ [Next]_vars => IInv'
  BY TypeStep, OrderStep, HandedOverStep, DemuxedStep, DemuxedLimitStep, FramesLimitStep,
       HeldLimitStep
     DEF IInv
<1>2. QED
  BY InitHolds, <1>1, PTL DEF Spec

\* The variables of the chain have their types.
THEOREM TypeCorrect == Spec => []TypeOK
<1>1. IInv => TypeOK
  BY DEF IInv
<1>2. QED
  BY <1>1, InvariantHolds, PTL

\* The frames of the three places put one after the other are the first of the stream.
LEMMA SubmittedFrames ==
  ASSUME IInv
  PROVE  LET submitted == rendered \o frames \o held
         IN  submitted = FirstFrames(Len(submitted)) /\ Len(submitted) = Submitted
<1> DEFINE shown == rendered \o frames
           submitted == shown \o held
<1>1. /\ rendered \in Seq(Nat) /\ frames \in Seq(Nat) /\ held \in Seq(Nat)
      /\ Len(rendered) \in Nat /\ Len(frames) \in Nat /\ Len(held) \in Nat
  BY QueueFacts DEF IInv, TypeOK
<1>2. /\ shown \in Seq(Nat) /\ Len(shown) = Len(rendered) + Len(frames)
      /\ \A i \in 1 .. Len(rendered) + Len(frames) :
           shown[i] = IF i <= Len(rendered) THEN rendered[i] ELSE frames[i - Len(rendered)]
  BY <1>1, ConcatProperties
<1>3. ASSUME NEW i \in 1 .. Len(shown)
      PROVE  shown[i] = i
  <2>1. CASE i <= Len(rendered)
    BY <1>1, <1>2, <2>1 DEF IInv, InOrder
  <2>2. CASE ~(i <= Len(rendered))
    <3>1. i - Len(rendered) \in 1 .. Len(frames) /\ shown[i] = frames[i - Len(rendered)]
      BY <1>1, <1>2, <2>2
    <3>2. frames[i - Len(rendered)] = Len(rendered) + (i - Len(rendered))
      BY <3>1 DEF IInv, InOrder
    <3>3. QED
      BY <1>1, <1>2, <3>1, <3>2
  <2>3. QED
    BY <2>1, <2>2
<1> HIDE DEF shown
<1>4. /\ submitted \in Seq(Nat) /\ Len(submitted) = Len(shown) + Len(held)
      /\ \A i \in 1 .. Len(shown) + Len(held) :
           submitted[i] = IF i <= Len(shown) THEN shown[i] ELSE held[i - Len(shown)]
  <2>1. shown \in Seq(Nat) /\ held \in Seq(Nat)
    BY <1>1, <1>2
  <2>2. QED
    BY <2>1, ConcatProperties
<1>5. ASSUME NEW i \in 1 .. Len(submitted)
      PROVE  submitted[i] = i
  <2>1. CASE i <= Len(shown)
    BY <1>1, <1>2, <1>3, <1>4, <2>1
  <2>2. CASE ~(i <= Len(shown))
    <3>1. i - Len(shown) \in 1 .. Len(held) /\ submitted[i] = held[i - Len(shown)]
      BY <1>1, <1>2, <1>4, <2>2
    <3>2. held[i - Len(shown)] = Len(rendered) + Len(frames) + (i - Len(shown))
      BY <3>1 DEF IInv, InOrder
    <3>3. QED
      BY <1>1, <1>2, <3>1, <3>2
  <2>3. QED
    BY <2>1, <2>2
<1> HIDE DEF submitted
<1>6. DOMAIN submitted = 1 .. Len(submitted) /\ submitted = [i \in 1 .. Len(submitted) |-> submitted[i]]
  BY <1>4, LenProperties
<1>7. submitted = FirstFrames(Len(submitted))
  BY <1>5, <1>6 DEF FirstFrames
<1>8. Len(submitted) = Submitted
  BY <1>1, <1>2, <1>4 DEF Submitted
<1>9. QED
  BY <1>7, <1>8 DEF submitted, shown

\* Whatever the three threads meet, the frames that were shown, wait and are inside the
\* CDM are the frames of the stream in order, none lost and none twice.
THEOREM FramesArriveInOrder == Spec => []FramesInOrder
<1>1. IInv => FramesInOrder
  <2> SUFFICES ASSUME IInv
               PROVE  FramesInOrder
    OBVIOUS
  <2> DEFINE submitted == rendered \o frames \o held
  <2>1. submitted = FirstFrames(Len(submitted)) /\ Len(submitted) = Submitted
    BY SubmittedFrames
  <2>2. decrypt.at = "frame" => Submitted = Frame - 1
    <3> SUFFICES ASSUME decrypt.at = "frame"
                 PROVE  Submitted = Frame - 1
      OBVIOUS
    <3>1. decrypt.sample \in Nat \ {0} /\ decrypt.pos \in Nat
      BY DEF IInv, TypeOK, HandedOver
    <3>2. Submitted = Before(decrypt.sample - 1) + decrypt.pos - 1
      BY DEF IInv, HandedOver
    <3>3. QED
      BY <3>1, <3>2, FrameFacts
  <2>3. decrypt.at = "loop" => Submitted = decrypt.sample * FramesPerSample
    BY DEF IInv, HandedOver, Before
  <2>4. demuxed = [i \in 1 .. Len(demuxed) |-> decrypt.sample + i]
    <3>1. DOMAIN demuxed = 1 .. Len(demuxed) /\ demuxed = [i \in 1 .. Len(demuxed) |-> demuxed[i]]
      BY LenProperties DEF IInv, TypeOK
    <3>2. \A i \in 1 .. Len(demuxed) : demuxed[i] = decrypt.sample + i
      BY DEF IInv, DemuxedNext
    <3>3. QED
      BY <3>1, <3>2
  <2> HIDE DEF submitted
  <2>5. QED
    BY <2>1, <2>2, <2>3, <2>4 DEF FramesInOrder, submitted
<1>2. QED
  BY <1>1, InvariantHolds, PTL

\* A queue is full at its bound until StopStream() shuts it down, and takes no more than
\* its writer has in hand after that; the CDM keeps DecoderDelay frames and the one it
\* returns.
QueuesBounded ==
  /\ \/ Len(demuxed) <= DemuxedBound
     \/ Stopped("demuxedQueue") /\ Len(demuxed) <= DemuxedBound + 1
  /\ \/ Len(frames) <= FrameBound
     \/ Stopped("frameQueue") /\ Len(frames) <= FrameBound + FramesPerSample
  /\ Len(held) <= DecoderDelay + 1

\* So the memory of the chain is bounded, with and without a stop.
THEOREM QueuesStayBounded == Spec => []QueuesBounded
<1>1. IInv => QueuesBounded
  <2> SUFFICES ASSUME IInv
               PROVE  QueuesBounded
    OBVIOUS
  <2>1. /\ Len(frames) \in Nat /\ Len(held) \in Nat /\ decrypt.pos \in Nat
    BY QueueFacts DEF IInv, TypeOK
  <2>2. FrameBound \in Nat /\ FramesPerSample \in Nat \ {0} /\ DecoderDelay \in Nat
    BY BoundsAssumption
  <2>3. \/ Len(frames) <= FrameBound
        \/ Stopped("frameQueue") /\ Len(frames) <= FrameBound + FramesPerSample
    <3>1. CASE decrypt.at \in {"frame", "push"}
      <4>1. decrypt.pos \in 1 .. FramesPerSample
        BY <3>1 DEF IInv, HandedOver
      <4>2. FrameBound + decrypt.pos - 1 <= FrameBound + FramesPerSample
        BY <2>1, <2>2, <4>1
      <4>3. QED
        BY <2>1, <2>2, <3>1, <4>2, <4>1 DEF IInv, FramesLimit
    <3>2. CASE decrypt.at \notin {"frame", "push"}
      BY <3>2, Zenon DEF IInv, FramesLimit
    <3>3. QED
      BY <3>1, <3>2
  <2>4. Len(held) <= DecoderDelay + 1
    BY <2>1, <2>2 DEF IInv, HeldLimit
  <2>5. QED
    BY <2>3, <2>4 DEF IInv, DemuxedLimit, QueuesBounded
<1>2. QED
  BY <1>1, InvariantHolds, PTL
==============================================================================
