---------------------------- MODULE AudioPipeline ----------------------------
(***************************************************************************)
(* The audio chain, src/core/audio.cc and src/core/widevineDecryptor.cc.   *)
(* The demux thread puts an ADTS header before each frame of a sample, the *)
(* decryptor lets the CDM decrypt them one by one and joins what it gets   *)
(* to one packet, the decode thread takes the frames of a packet out of    *)
(* avcodec and stamps them with a time of its own, the render thread plays *)
(* them.  Queues and fragments as in VideoPipeline.                        *)
(***************************************************************************)
EXTENDS Naturals, Sequences, FiniteSets

CONSTANTS NumSamples,       \* bound: fragments of the stream
          FramesPerSample,  \* bound: frames in each of them
          DemuxedBound,     \* upper bound of the demuxed and the decrypted queue
          FrameBound,       \* upper bound of the audio frame queue
          Protected         \* MP4AudioStream::isProtected()

ASSUME BoundsAssumption ==
  /\ NumSamples \in Nat
  /\ {FramesPerSample, DemuxedBound, FrameBound} \subseteq Nat \ {0}
  /\ Protected \in BOOLEAN

VARIABLES
  fetched,    \* fragments the networking thread has completed
  parsed,     \* the last sample the demux thread has parsed
  demux,      \* the demux thread: where it is
  demuxed,    \* GetDemuxedAudioSampleQueue(), oldest first
  decrypt,    \* the decryptor thread: where, its sample, position, frames decrypted
  decrypted,  \* GetDecryptedAudioSampleQueue(): packets, each a sequence of frames
  decode,     \* the decode thread: where it is, and its packet
  codec,      \* frames avcodec has been sent and not been asked for
  timestamp,  \* globalTimestamp_ of the decode thread, in frames
  frames,     \* GetAudioFrameQueue(): records of frame and timestamp
  render,     \* the render thread: where it is
  rendered,   \* what it has taken from the queue
  lost,       \* frames the CDM, the decoder or a skipped packet has swallowed
  paused,     \* isStopped_ of the audio frame queue
  control,    \* how many steps of StopStream() have been taken
  failed      \* an error has ended a thread, or an assertion the process

demuxer == <<parsed, demux>>
decoder == <<decode, codec, timestamp>>
renderer == <<render, rendered>>
vars == <<fetched, demuxer, demuxed, decrypt, decrypted, decoder, frames, renderer,
          lost, paused, control, failed>>

NumFrames == NumSamples * FramesPerSample

\* mutant: one queue forgotten
StopStepsNoDecrypted ==
  <<"audioNetThread", "demuxThread", "decryptThread", "decodeThread",
    "renderThread", "netStream", "demuxedQueue", "frameQueue">>

\* What StopStream() does to the audio chain; Shutdown() of the decode thread
\* also closes and frees avCtx_ and resets its time.
StopSteps == <<"audioNetThread", "demuxThread", "decryptThread", "decodeThread",
               "renderThread", "netStream", "demuxedQueue", "decryptedQueue", "frameQueue">>

Stopped(part) == \E i \in 1 .. control : StopSteps[i] = part

Init == /\ fetched = 0
        /\ parsed = 0 /\ demux = "loop"
        /\ demuxed = <<>>
        /\ decrypt = [at |-> IF Protected THEN "loop" ELSE "ended",
                      sample |-> 0, pos |-> 0, packet |-> <<>>]
        /\ decrypted = <<>>
        /\ decode = [at |-> "loop", packet |-> <<>>]
        /\ codec = <<>>
        /\ timestamp = 0
        /\ frames = <<>>
        /\ render = "loop" /\ rendered = <<>>
        /\ lost = {}
        /\ paused = FALSE
        /\ control = 0
        /\ failed = "no"

Alive == failed # "process"   \* a failed ASSERT throws in a thread: std::terminate()

Members(s) == {s[i] : i \in DOMAIN s}

Fetch == /\ Alive /\ fetched < NumSamples /\ ~Stopped("audioNetThread")
         /\ fetched' = fetched + 1
         /\ UNCHANGED <<demuxer, demuxed, decrypt, decrypted, decoder, frames, renderer,
                        lost, paused, control, failed>>

-----------------------------------------------------------------------------
(* DemuxAudioThread::Impl::Run()                                           *)

DemuxLoop ==
  /\ demux = "loop"
  /\ demux' = IF Stopped("demuxThread") THEN "ended" ELSE "parse"
  /\ UNCHANGED <<parsed, demuxed, failed>>

\* ParseMoofMdat(), and the headers of a protected sample without subsamples.
Parse ==
  /\ demux = "parse" /\ parsed < fetched
  /\ parsed' = parsed + 1
  /\ demux' = "push"
  /\ UNCHANGED <<demuxed, failed>>

ParseFails ==
  /\ demux = "parse"
  /\ \/ Stopped("netStream") /\ UNCHANGED failed
     \/ parsed < fetched /\ failed' = "thread"
  /\ demux' = "ended"
  /\ UNCHANGED <<parsed, demuxed>>

DemuxPush ==
  /\ demux = "push"
  /\ Len(demuxed) < DemuxedBound \/ Stopped("demuxedQueue")
  /\ demuxed' = Append(demuxed, parsed)
  /\ demux' = "loop"
  /\ UNCHANGED <<parsed, failed>>

DemuxThread ==
  /\ Alive
  /\ DemuxLoop \/ Parse \/ ParseFails \/ DemuxPush
  /\ UNCHANGED <<fetched, decrypt, decrypted, decoder, frames, renderer, lost, paused, control>>

-----------------------------------------------------------------------------
(* WidevineDecryptorThread::Impl::Run()                                    *)

DecryptLoop ==
  /\ decrypt.at = "loop"
  /\ decrypt' = [decrypt EXCEPT !.at = IF Stopped("decryptThread") THEN "ended" ELSE "pop"]
  /\ UNCHANGED <<demuxed, decrypted, lost, failed>>

DecryptPop ==
  /\ decrypt.at = "pop" /\ demuxed # <<>>
  /\ decrypt' = [at |-> "frame", sample |-> Head(demuxed), pos |-> 1, packet |-> <<>>]
  /\ demuxed' = Tail(demuxed)
  /\ UNCHANGED <<decrypted, lost, failed>>

DecryptPopUndefined ==
  /\ decrypt.at = "pop" /\ demuxed = <<>> /\ Stopped("demuxedQueue")
  /\ decrypt' = [decrypt EXCEPT !.at = "undefined"]
  /\ UNCHANGED <<demuxed, decrypted, lost, failed>>

Frame == (decrypt.sample - 1) * FramesPerSample + decrypt.pos

\* The loop over the samples of a fragment, with what has been decrypted of it.
NextFrame(packet) ==
  IF decrypt.pos < FramesPerSample
  THEN [decrypt EXCEPT !.pos = @ + 1, !.packet = packet]
  ELSE [decrypt EXCEPT !.at = "push", !.packet = packet]

DecryptSucceedsInFront ==   \* mutant: joined in the wrong order
  /\ decrypt.at = "frame"
  /\ decrypt' = NextFrame(<<Frame>> \o decrypt.packet)
  /\ UNCHANGED <<demuxed, decrypted, lost, failed>>

DecryptSucceeds ==
  /\ decrypt.at = "frame"
  /\ decrypt' = NextFrame(Append(decrypt.packet, Frame))
  /\ UNCHANGED <<demuxed, decrypted, lost, failed>>

\* kNeedMoreData: counted, and nothing is kept of this frame.
DecryptNeedsMore ==
  /\ decrypt.at = "frame"
  /\ decrypt' = NextFrame(decrypt.packet)
  /\ lost' = lost \union {Frame}
  /\ UNCHANGED <<demuxed, decrypted, failed>>

DecryptFails ==
  /\ decrypt.at = "frame"
  /\ failed' = "process"
  /\ UNCHANGED <<decrypt, demuxed, decrypted, lost>>

DecryptPush ==
  /\ decrypt.at = "push"
  /\ Len(decrypted) < DemuxedBound \/ Stopped("decryptedQueue")
  /\ decrypted' = Append(decrypted, decrypt.packet)
  /\ decrypt' = [decrypt EXCEPT !.at = "loop", !.packet = <<>>]
  /\ UNCHANGED <<demuxed, lost, failed>>

DecryptThread ==
  /\ Alive
  /\ \/ DecryptLoop \/ DecryptPop \/ DecryptPopUndefined
     \/ DecryptSucceeds \/ DecryptNeedsMore \/ DecryptFails \/ DecryptPush
  /\ UNCHANGED <<fetched, demuxer, decoder, frames, renderer, paused, control>>

-----------------------------------------------------------------------------
(* DecodeAudioThread::Impl::Run()                                          *)

At(where) == [decode EXCEPT !.at = where]

DecodeLoop ==
  /\ decode.at = "loop"
  /\ decode' = At(IF Stopped("decodeThread") THEN "ended" ELSE "pop")
  /\ UNCHANGED <<decrypted, codec, timestamp, frames, lost, failed>>

DecodePop ==
  /\ decode.at = "pop" /\ decrypted # <<>>
  /\ decode' = [at |-> "send", packet |-> Head(decrypted)]
  /\ decrypted' = Tail(decrypted)
  /\ UNCHANGED <<codec, timestamp, frames, lost, failed>>

DecodePopUndefined ==
  /\ decode.at = "pop" /\ decrypted = <<>> /\ Stopped("decryptedQueue")
  /\ decode' = At("undefined")
  /\ UNCHANGED <<decrypted, codec, timestamp, frames, lost, failed>>

ContextOpen == ~Stopped("decodeThread")

\* avcodec_send_packet() takes the packet.
Send ==
  /\ decode.at = "send" /\ ContextOpen /\ decode.packet # <<>>
  /\ codec' = codec \o decode.packet
  /\ decode' = [at |-> "receive", packet |-> <<>>]
  /\ UNCHANGED <<decrypted, timestamp, frames, lost, failed>>

\* EAGAIN: the decoder has not been emptied; the packet is skipped.
SendAgain ==
  /\ decode.at = "send" /\ ContextOpen /\ codec # <<>>
  /\ lost' = lost \union Members(decode.packet)
  /\ decode' = [at |-> "loop", packet |-> <<>>]
  /\ UNCHANGED <<decrypted, codec, timestamp, frames, failed>>

\* Any other error, as for a packet without data: ASSERT(false).
SendFails ==
  /\ decode.at = "send" /\ ContextOpen
  /\ failed' = "process"
  /\ UNCHANGED <<decode, decrypted, codec, timestamp, frames, lost>>

ReceiveOnce ==   \* mutant: if (!ret) instead of while (!ret)
  /\ decode.at = "receive" /\ ContextOpen /\ codec # <<>>
  /\ Len(frames) < FrameBound \/ Stopped("frameQueue")
  /\ frames' = Append(frames, [frame |-> Head(codec), timestamp |-> timestamp])
  /\ codec' = Tail(codec)
  /\ timestamp' = timestamp + 1
  /\ decode' = At("loop")
  /\ UNCHANGED <<decrypted, lost, failed>>

\* avcodec_receive_frame() returns a frame; it gets its time and is pushed.  A
\* frame that waits in front of the full queue counts as still inside avcodec.
Receive ==
  /\ decode.at = "receive" /\ ContextOpen /\ codec # <<>>
  /\ Len(frames) < FrameBound \/ Stopped("frameQueue")
  /\ frames' = Append(frames, [frame |-> Head(codec), timestamp |-> timestamp])
  /\ codec' = Tail(codec)
  /\ timestamp' = timestamp + 1
  /\ UNCHANGED <<decode, decrypted, lost, failed>>

\* It returns EAGAIN, the decoder is empty; or an error, a frame is gone and
\* the others stay inside.  Either ends the inner loop.
ReceiveEnds ==
  /\ decode.at = "receive" /\ ContextOpen
  /\ \/ codec = <<>> /\ UNCHANGED <<codec, lost>>
     \/ codec # <<>> /\ codec' = Tail(codec) /\ lost' = lost \union {Head(codec)}
  /\ decode' = At("loop")
  /\ UNCHANGED <<decrypted, timestamp, frames, failed>>

\* avCtx_ has been freed under the thread.
DecodeUndefined ==
  /\ decode.at \in {"send", "receive"} /\ ~ContextOpen
  /\ decode' = At("undefined")
  /\ UNCHANGED <<decrypted, codec, timestamp, frames, lost, failed>>

DecodeThread ==
  /\ Alive
  /\ \/ DecodeLoop \/ DecodePop \/ DecodePopUndefined \/ Send \/ SendAgain \/ SendFails
     \/ Receive \/ ReceiveEnds \/ DecodeUndefined
  /\ UNCHANGED <<fetched, demuxer, demuxed, decrypt, renderer, paused, control>>

-----------------------------------------------------------------------------
(* AudioThread::Impl::Run()                                                *)

RenderLoop ==
  /\ render = "loop"
  /\ render' = IF Stopped("renderThread") THEN "ended" ELSE "pop"
  /\ UNCHANGED <<rendered, frames>>

\* SetStartTime(), pop() and Render(), then Sync() or the sleep.
RenderFrame ==
  /\ render = "pop" /\ frames # <<>>
  /\ ~paused \/ Stopped("frameQueue")
  /\ rendered' = Append(rendered, Head(frames))
  /\ frames' = Tail(frames)
  /\ render' = "loop"

RenderPopUndefined ==
  /\ render = "pop" /\ frames = <<>> /\ Stopped("frameQueue")
  /\ render' = "undefined"
  /\ UNCHANGED <<rendered, frames>>

RenderThread ==
  /\ Alive
  /\ RenderLoop \/ RenderFrame \/ RenderPopUndefined
  /\ UNCHANGED <<fetched, demuxer, demuxed, decrypt, decrypted, decoder, lost, paused,
                 control, failed>>

-----------------------------------------------------------------------------
(* The control thread                                                      *)

PauseOrResume ==
  /\ Alive /\ control = 0
  /\ paused' = ~paused
  /\ UNCHANGED <<fetched, demuxer, demuxed, decrypt, decrypted, decoder, frames, renderer,
                 lost, control, failed>>

StopStream ==
  /\ Alive /\ control < Len(StopSteps)
  /\ control' = control + 1
  /\ timestamp' = IF StopSteps[control'] = "decodeThread" THEN 0 ELSE timestamp
  /\ UNCHANGED <<fetched, demuxer, demuxed, decrypt, decrypted, decode, codec, frames,
                 renderer, lost, paused, failed>>

Next == \/ Fetch \/ DemuxThread \/ DecryptThread \/ DecodeThread \/ RenderThread
        \/ PauseOrResume \/ StopStream

Fairness == /\ WF_vars(Fetch)
            /\ WF_vars(DemuxThread)
            /\ WF_vars(DecryptThread)
            /\ WF_vars(DecodeThread)
            /\ WF_vars(RenderThread)
            /\ WF_vars(StopStream /\ control > 0)

Spec == Init /\ [][Next]_vars /\ Fairness

-----------------------------------------------------------------------------
(* Audio frames are played in the order of the stream, none twice, and the *)
(* time the decode thread stamps on a frame lags behind the frame's place  *)
(* in the stream by exactly the frames lost before it: every loss moves    *)
(* all later audio against the video, and nothing else does.               *)
TimestampsLagByLosses ==
  LET out == rendered \o frames IN
  ContextOpen =>
    /\ \A i \in DOMAIN out :
         out[i].timestamp = out[i].frame - 1 - Cardinality({l \in lost : l < out[i].frame})
    /\ \A i, j \in DOMAIN out : i < j => out[i].frame < out[j].frame

(* StopStream() takes the chain down from wherever it is: a demux thread   *)
(* at the end of the stream, a thread in front of a full, an empty or a    *)
(* paused queue, a decoder whose context it frees.  "undefined" is the pop *)
(* of an empty queue or the use of that context.                           *)
Over == {"ended", "undefined"}
StopEndsThreads ==
  control > 0 ~> \/ ~Alive
                 \/ /\ demux = "ended" /\ decrypt.at \in Over
                    /\ decode.at \in Over /\ render \in Over

(* Without errors, stops and an endless pause every frame is played, lost, *)
(* or left inside the decoder after a frame it could not decode: nobody    *)
(* asks for the rest at the end.  It needs a protected stream: of another  *)
(* no frame is played, its decode thread is started (adapterInterface.cc:  *)
(* 314) without the thread that feeds its queue.                           *)
AudioIsPlayed ==
  <>[](~paused /\ failed = "no" /\ control = 0)
    => <>(/\ Len(rendered) + Cardinality(lost) + Len(codec) = NumFrames
          /\ lost = {} => codec = <<>>)
==============================================================================
