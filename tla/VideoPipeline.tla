---------------------------- MODULE VideoPipeline ----------------------------
(***************************************************************************)
(* The video chain of the player, src/core/video.cc: the demux thread cuts *)
(* the network stream into samples (one moof and mdat each), the decrypt   *)
(* thread hands the frames of a sample to the CDM one by one, the render   *)
(* thread shows what comes back.  Between them stand two blocking queues;  *)
(* AdapterInterface::StopStream() takes the chain down from outside.       *)
(*                                                                         *)
(* A queue is a bounded channel here: waiting is a disabled action.  How   *)
(* its mutex and condition variables do that is the subject of             *)
(* BlockingQueue, how fragments arrive that of BlockingStream.  A frame is *)
(* its number in the stream, a sample the number of its fragment.          *)
(***************************************************************************)
EXTENDS Naturals, Sequences

CONSTANTS NumSamples,       \* bound: fragments of the stream
          FramesPerSample,  \* bound: frames in each of them
          DemuxedBound,     \* upper bound of the demuxed sample queue
          FrameBound,       \* upper bound of the video frame queue
          DecoderDelay      \* how many frames the CDM may hold back

ASSUME BoundsAssumption ==
  /\ {NumSamples, DecoderDelay} \subseteq Nat
  /\ {FramesPerSample, DemuxedBound, FrameBound} \subseteq Nat \ {0}

VARIABLES
  fetched,   \* fragments the networking thread has completed
  netAlive,  \* the networking thread has met no transfer error
  parsed,    \* the last sample the demux thread has parsed
  demux,     \* the demux thread: where it is
  demuxed,   \* GetDemuxedVideoSampleQueue(), oldest first
  decrypt,   \* the decrypt thread: where it is, its sample, its position there
  held,      \* frames inside the CDM, and the one DecryptAndDecodeFrame() returned
  frames,    \* GetVideoFrameQueue(), oldest first
  render,    \* the render thread: where it is
  rendered,  \* frames it has taken from the queue, the last one in its hands
  paused,    \* isStopped_ of the video frame queue
  control,   \* how many steps of StopStream() have been taken
  failed     \* an error has ended a thread, or an assertion the process

network == <<fetched, netAlive>>
demuxer == <<parsed, demux>>
decrypter == <<decrypt, held>>
renderer == <<render, rendered>>
vars == <<network, demuxer, demuxed, decrypter, frames, renderer, paused, control, failed>>

NumFrames == NumSamples * FramesPerSample

\* mutant: the stream is not shut down
StopStepsNoStream == <<"videoNetThread", "demuxThread", "decryptThread", "renderThread",
                       "demuxedQueue", "frameQueue", "mp4Stream">>

\* What StopStream() does to the video chain, in its order.
StopSteps == <<"videoNetThread", "demuxThread", "decryptThread", "renderThread",
               "netStream", "demuxedQueue", "frameQueue", "mp4Stream">>

\* The flag of a thread is down, a queue or the stream is shut down, or closed.
Stopped(part) == \E i \in 1 .. control : StopSteps[i] = part

Init == /\ fetched = 0 /\ netAlive = TRUE
        /\ parsed = 0 /\ demux = "loop"
        /\ demuxed = <<>>
        /\ decrypt = [at |-> "loop", sample |-> 0, pos |-> 0]
        /\ held = <<>>
        /\ frames = <<>>
        /\ render = "loop" /\ rendered = <<>>
        /\ paused = FALSE
        /\ control = 0
        /\ failed = "no"

Alive == failed # "process"   \* a failed ASSERT throws in a thread: std::terminate()

-----------------------------------------------------------------------------
(* The networking thread, as far as the demux thread sees it.              *)

Fetch ==
  /\ fetched < NumSamples /\ netAlive /\ ~Stopped("videoNetThread")
  /\ fetched' = fetched + 1
  /\ UNCHANGED <<netAlive, failed>>

TransferFails ==
  /\ netAlive /\ fetched < NumSamples
  /\ netAlive' = FALSE
  /\ failed' = "thread"
  /\ UNCHANGED fetched

Network == /\ Alive
           /\ Fetch \/ TransferFails
           /\ UNCHANGED <<demuxer, demuxed, decrypter, frames, renderer, paused, control>>

-----------------------------------------------------------------------------
(* DemuxVideoThread::Impl::Run()                                           *)

DemuxLoop ==
  /\ demux = "loop"
  /\ demux' = IF Stopped("demuxThread") THEN "ended" ELSE "parse"
  /\ UNCHANGED <<parsed, demuxed, failed>>

\* ParseMoofMdat() has read a moof and an mdat, the NAL units are converted.
Parse ==
  /\ demux = "parse" /\ parsed < fetched
  /\ parsed' = parsed + 1
  /\ demux' = "push"
  /\ UNCHANGED <<demuxed, failed>>

\* ParseMoofMdat() returns false: bad data, or the stream has been shut down.
ParseFails ==
  /\ demux = "parse"
  /\ \/ Stopped("netStream") /\ UNCHANGED failed
     \/ parsed < fetched /\ failed' = "thread"
  /\ demux' = "ended"
  /\ UNCHANGED <<parsed, demuxed>>

\* ProcessSampleDataInPlace() meets an incomplete NAL unit: ASSERT(false).
ConversionFails ==
  /\ demux = "parse" /\ parsed < fetched
  /\ failed' = "process"
  /\ demux' = "ended"
  /\ UNCHANGED <<parsed, demuxed>>

DemuxPush ==
  /\ demux = "push"
  /\ Len(demuxed) < DemuxedBound \/ Stopped("demuxedQueue")
  /\ demuxed' = Append(demuxed, parsed)
  /\ demux' = "loop"
  /\ UNCHANGED <<parsed, failed>>

DemuxThread == /\ Alive
               /\ DemuxLoop \/ Parse \/ ParseFails \/ ConversionFails \/ DemuxPush
               /\ UNCHANGED <<network, decrypter, frames, renderer, paused, control>>

-----------------------------------------------------------------------------
(* DecryptVideoThread::Impl::Run() and ProcessFrame()                      *)

DecryptLoop ==
  /\ decrypt.at = "loop"
  /\ decrypt' = [decrypt EXCEPT !.at = IF Stopped("decryptThread") THEN "ended" ELSE "pop"]
  /\ UNCHANGED <<demuxed, held, frames, failed>>

DecryptPopSkipsFirst ==   \* mutant: no special first frame, the loop from 1
  /\ decrypt.at = "pop" /\ demuxed # <<>>
  /\ decrypt' = [at |-> "frame", sample |-> Head(demuxed), pos |-> 2]
  /\ demuxed' = Tail(demuxed)
  /\ UNCHANGED <<held, frames, failed>>

DecryptPop ==
  /\ decrypt.at = "pop" /\ demuxed # <<>>
  /\ decrypt' = [at |-> "frame", sample |-> Head(demuxed), pos |-> 1]
  /\ demuxed' = Tail(demuxed)
  /\ UNCHANGED <<held, frames, failed>>

\* pop() of an empty queue that is shut down returns deque_.back() of nothing.
DecryptPopUndefined ==
  /\ decrypt.at = "pop" /\ demuxed = <<>> /\ Stopped("demuxedQueue")
  /\ decrypt' = [decrypt EXCEPT !.at = "undefined"]
  /\ UNCHANGED <<demuxed, held, frames, failed>>

\* The loop over the frames of a sample, after the one at pos.
NextFrame ==
  IF decrypt.pos < FramesPerSample
  THEN [decrypt EXCEPT !.at = "frame", !.pos = @ + 1]
  ELSE [decrypt EXCEPT !.at = "loop"]

Frame == (decrypt.sample - 1) * FramesPerSample + decrypt.pos

\* DecryptAndDecodeFrame() returns kSuccess and a frame, the oldest it has.
DecodeSucceeds ==
  /\ decrypt.at = "frame"
  /\ held' = Append(held, Frame)
  /\ decrypt' = [decrypt EXCEPT !.at = "push"]
  /\ UNCHANGED <<demuxed, frames, failed>>

DecodeNeedsMoreEnds ==   \* mutant: taken for an error
  /\ decrypt.at = "frame" /\ Len(held) < DecoderDelay
  /\ held' = Append(held, Frame)
  /\ decrypt' = [decrypt EXCEPT !.at = "ended"]
  /\ UNCHANGED <<demuxed, frames, failed>>

\* It returns kNeedMoreData: it keeps the frame, nothing is pushed.
DecodeNeedsMore ==
  /\ decrypt.at = "frame" /\ Len(held) < DecoderDelay
  /\ held' = Append(held, Frame)
  /\ decrypt' = NextFrame
  /\ UNCHANGED <<demuxed, frames, failed>>

\* Any other status: ProcessFrame() returns -1 and the thread ends, alone.
DecodeFails ==
  /\ decrypt.at = "frame"
  /\ failed' = "thread"
  /\ decrypt' = [decrypt EXCEPT !.at = "ended"]
  /\ UNCHANGED <<demuxed, held, frames>>

DecryptPush ==
  /\ decrypt.at = "push"
  /\ Len(frames) < FrameBound \/ Stopped("frameQueue")
  /\ frames' = Append(frames, Head(held))
  /\ held' = Tail(held)
  /\ decrypt' = NextFrame
  /\ UNCHANGED <<demuxed, failed>>

DecryptThread ==
  /\ Alive
  /\ \/ DecryptLoop \/ DecryptPop \/ DecryptPopUndefined
     \/ DecodeSucceeds \/ DecodeNeedsMore \/ DecodeFails \/ DecryptPush
  /\ UNCHANGED <<network, demuxer, renderer, paused, control>>

-----------------------------------------------------------------------------
(* VideoThread::Impl::Run()                                                *)

RenderLoop ==
  /\ render = "loop"
  /\ render' = IF Stopped("renderThread") THEN "ended" ELSE "start"
  /\ UNCHANGED <<rendered, frames>>

StartTimeSet ==
  /\ render = "start"
  /\ render' = "pop"
  /\ UNCHANGED <<rendered, frames>>

\* pop() and Render()
RenderFrame ==
  /\ render = "pop" /\ frames # <<>>
  /\ ~paused \/ Stopped("frameQueue")
  /\ rendered' = Append(rendered, Head(frames))
  /\ frames' = Tail(frames)
  /\ render' = "sync"

RenderPopUndefined ==
  /\ render = "pop" /\ frames = <<>> /\ Stopped("frameQueue")
  /\ render' = "undefined"
  /\ UNCHANGED <<rendered, frames>>

Synced ==
  /\ render = "sync"
  /\ render' = "loop"
  /\ UNCHANGED <<rendered, frames>>

RenderThread ==
  /\ Alive
  /\ RenderLoop \/ StartTimeSet \/ RenderFrame \/ RenderPopUndefined \/ Synced
  /\ UNCHANGED <<network, demuxer, demuxed, decrypter, paused, control, failed>>

-----------------------------------------------------------------------------
(* The control thread                                                      *)

PauseOrResume ==
  /\ Alive /\ control = 0
  /\ paused' = ~paused
  /\ UNCHANGED <<network, demuxer, demuxed, decrypter, frames, renderer, control, failed>>

StopStream ==
  /\ Alive /\ control < Len(StopSteps)
  /\ control' = control + 1
  /\ UNCHANGED <<network, demuxer, demuxed, decrypter, frames, renderer, paused, failed>>

Next == Network \/ DemuxThread \/ DecryptThread \/ RenderThread \/ PauseOrResume \/ StopStream

\* Every thread goes on when it can, and a begun StopStream() is finished.
Fairness == /\ WF_vars(Network /\ Fetch)
            /\ WF_vars(DemuxThread)
            /\ WF_vars(DecryptThread)
            /\ WF_vars(RenderThread)
            /\ WF_vars(StopStream /\ control > 0)

Spec == Init /\ [][Next]_vars /\ Fairness

-----------------------------------------------------------------------------
FirstFrames(n) == [i \in 1 .. n |-> i]

(* What has been rendered, waits in the frame queue and is inside the CDM  *)
(* are the frames of the stream from the first one on, in order, without a *)
(* gap and as many as the decrypt thread has handed over, whatever         *)
(* kNeedMoreData, full queues, pauses or the stop do to the three threads; *)
(* the demuxed queue goes on where the decrypt thread is.                  *)
FramesInOrder ==
  LET submitted == rendered \o frames \o held IN
  /\ submitted = FirstFrames(Len(submitted))
  /\ decrypt.at = "frame" => Len(submitted) = Frame - 1
  /\ decrypt.at = "loop" => Len(submitted) = decrypt.sample * FramesPerSample
  /\ demuxed = [i \in 1 .. Len(demuxed) |-> decrypt.sample + i]

(* StopStream() takes the chain down from wherever it is: a demux thread   *)
(* that waits for data at the end of the stream, a thread in front of a    *)
(* full or paused queue, a chain one of whose threads has ended on an      *)
(* error.  "undefined" is the pop of an empty queue.                       *)
Over == {"ended", "undefined"}
StopEndsThreads ==
  control > 0 ~> \/ ~Alive
                 \/ demux = "ended" /\ decrypt.at \in Over /\ render \in Over

(* Without errors, stops and an endless pause every frame is rendered but  *)
(* those the CDM still holds back: nobody asks it for them at the end.     *)
PlaybackCompletes ==
  <>[](~paused /\ failed = "no" /\ control = 0)
    => <>(Len(rendered) + DecoderDelay >= NumFrames)
==============================================================================
