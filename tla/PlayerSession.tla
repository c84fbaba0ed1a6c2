---------------------------- MODULE PlayerSession ----------------------------
(***************************************************************************)
(* One run of the player: the command line program (prime_video_cli.py)    *)
(* calls the adapter (adapterInterface.cc) through the Python extension,   *)
(* the adapter starts, stops and joins up to nine threads.                 *)
(*                                                                         *)
(* The program has one Python thread.  It runs the handler of SIGINT, too, *)
(* between two of its steps: a call of the extension keeps the interpreter *)
(* and a signal that comes meanwhile waits for its return.                 *)
(*                                                                         *)
(* A thread of the adapter is running or has ended here; VideoPipeline and *)
(* AudioPipeline show that it ends when its flag is down and everything it *)
(* may wait for is shut down, which is what this module assumes.           *)
(***************************************************************************)
EXTENDS Naturals, SequencesExt

CONSTANT MaxSignals  \* bound: how often CTRL+C is pressed

ASSUME MaxSignalsAssumption == MaxSignals \in Nat

VideoThreads == <<"videoNet", "demuxVideo", "decryptVideo", "renderVideo">>
AudioThreads(protected) ==
  <<"audioNet", "demuxAudio">> \o (IF protected THEN <<"decryptAudio">> ELSE <<>>)
    \o <<"decodeAudio", "renderAudio">>
Threads == Range(VideoThreads \o AudioThreads(TRUE))

VARIABLES
  main,       \* the Python program: its next step
  resume,     \* where it was when the handler interrupted it
  signals,    \* [pressed: how often, pending: not yet handled]
  cdm,        \* media whose CDM is initialised
  keys,       \* media with a license
  stream,     \* [initialized: streamInitialized_, protected: of the audio stream]
  thread,     \* "none", "running", "ended" or "joined"
  steps,      \* steps the present call of StopStream() or WaitForStream() has taken
  stopped,    \* what StopStream() has stopped, shut down or freed so far
  crashed     \* the process is gone

adapter == <<cdm, keys, stream>>
vars == <<main, resume, signals, adapter, thread, steps, stopped, crashed>>

Init == /\ main = "requestLicense" /\ resume = "none"
        /\ signals = [pressed |-> 0, pending |-> 0]
        /\ cdm = {} /\ keys = {}
        /\ stream = [initialized |-> FALSE, protected |-> FALSE]
        /\ thread = [t \in Threads |-> "none"]
        /\ steps = 0 /\ stopped = {} /\ crashed = FALSE

Alive == ~crashed /\ main # "exited"

IsInitialized == cdm = {"video", "audio"}

StreamThreads == VideoThreads \o AudioThreads(stream.protected)

-----------------------------------------------------------------------------
(* The program up to the command loop.                                     *)

\* ContentProvider.requestLicense(): Init(), session, challenge, the license server,
\* UpdateCurrentSession() and a valid key, or an exception, which ends the program.
\* Init() initialises one CDM after the other.
RequestLicense ==
  /\ main = "requestLicense"
  /\ \/ cdm' = {"video", "audio"} /\ keys' = {"video"} /\ main' = "requestAudioLicense"
     \/ cdm' \in {{}, {"video"}, {"video", "audio"}} /\ UNCHANGED keys /\ main' = "exited"
  /\ UNCHANGED <<stream, thread, steps>>

\* Init() does nothing the second time; an exception is a warning here.
RequestAudioLicense ==
  /\ main = "requestAudioLicense"
  /\ keys' \in {keys, keys \cup {"audio"}}
  /\ main' = "initStream"
  /\ UNCHANGED <<cdm, stream, thread, steps>>

\* The video stream, its decoder and its renderer, the audio stream and its renderer:
\* the first that fails ends InitStream(), and the program.
InitStream ==
  /\ main = "initStream" /\ IsInitialized
  /\ \/ \E p \in BOOLEAN : stream' = [initialized |-> TRUE, protected |-> p] /\ main' = "startStream"
     \/ main' = "exited" /\ UNCHANGED stream
  /\ UNCHANGED <<cdm, keys, thread, steps>>

StartStream ==
  /\ main = "startStream" /\ IsInitialized /\ stream.initialized
  /\ thread' = [t \in Threads |-> IF Contains(StreamThreads, t) THEN "running" ELSE "none"]
  /\ main' = "installHandler"
  /\ UNCHANGED <<adapter, steps>>

InstallHandler ==
  /\ main = "installHandler"
  /\ main' = "loop"
  /\ UNCHANGED <<adapter, thread, steps>>

-----------------------------------------------------------------------------
(* The command loop and what stands behind it.                             *)

LeaveLoopToWait ==   \* mutant: no signal.pause()
  /\ main = "loop"
  /\ main' \in {"wait", "exited"}
  /\ UNCHANGED <<adapter, thread, steps>>

\* while running: the commands do not change what is modelled here.  The handler sets
\* a "running" of its own, so the loop never ends as it is written, except by an
\* EOFError; the model lets it end, what follows would be out of reach otherwise.
LeaveLoop ==
  /\ main = "loop"
  /\ main' \in {"pause", "exited"}
  /\ UNCHANGED <<adapter, thread, steps>>

JoinedThreadsUnprotected == VideoThreads \o AudioThreads(FALSE)   \* mutant

\* The order of the joins.
JoinedThreads == StreamThreads

WaitForStream ==
  /\ main = "wait"
  /\ IF steps < Len(JoinedThreads)
     THEN LET t == JoinedThreads[steps + 1]
          IN /\ thread[t] = "ended"
             /\ thread' = [thread EXCEPT ![t] = "joined"]
             /\ steps' = steps + 1 /\ UNCHANGED main
     ELSE main' = "close" /\ steps' = 0 /\ UNCHANGED thread
  /\ UNCHANGED adapter

\* Close() takes the CDMs and the renderers away; provider.close() calls it again.
Close ==
  /\ main = "close"
  /\ cdm' = {} /\ keys' = {} /\ stream' = [stream EXCEPT !.initialized = FALSE]
  /\ main' = "closeProvider"
  /\ UNCHANGED <<thread, steps>>

CloseProvider ==
  /\ main = "closeProvider"
  /\ main' = "exited"
  /\ UNCHANGED <<adapter, thread, steps>>

Program == /\ Alive /\ (signals.pending = 0 \/ main = "wait")
           /\ \/ RequestLicense \/ RequestAudioLicense \/ InitStream \/ StartStream \/ InstallHandler
              \/ LeaveLoop \/ WaitForStream \/ Close \/ CloseProvider
           /\ UNCHANGED <<resume, signals, stopped, crashed>>

-----------------------------------------------------------------------------
(* CTRL+C                                                                  *)

Press == /\ Alive /\ signals.pressed < MaxSignals
         /\ signals' = [pressed |-> signals.pressed + 1, pending |-> signals.pending + 1]
         /\ UNCHANGED <<main, resume, adapter, thread, steps, stopped, crashed>>

\* Before signal.signal() it is a KeyboardInterrupt.
BeforeHandler == {"requestLicense", "requestAudioLicense", "initStream", "startStream", "installHandler"}
KeyboardInterrupt ==
  /\ main \in BeforeHandler
  /\ main' = "exited"
  /\ UNCHANGED <<resume, steps>>

\* StopStream() returns at once when the stream is no longer there.
Handler ==
  /\ main \in {"loop", "pause", "close", "closeProvider"}
  /\ IF stream.initialized THEN main' = "stopStream" /\ resume' = main /\ steps' = 0
                           ELSE UNCHANGED <<main, resume, steps>>

Handle == /\ Alive /\ signals.pending > 0
          /\ KeyboardInterrupt \/ Handler
          /\ signals' = [signals EXCEPT !.pending = @ - 1]
          /\ UNCHANGED <<adapter, thread, stopped, crashed>>

StopSteps ==
  <<"clock">> \o VideoThreads \o <<"videoNetStream", "demuxedVideo", "videoFrames", "videoStream">>
    \o AudioThreads(stream.protected)
    \o <<"audioNetStream", "demuxedAudio", "decryptedAudio", "audioFrames", "audioStream">>

\* The codec private data and the codec context are freed without a look at the
\* threads that use them, and freed again the second time: undefined behaviour.
Undefined(part) ==
  \/ part = "videoStream" /\ (part \in stopped \/ thread["decryptVideo"] = "running")
  \/ part = "decodeAudio" /\ (part \in stopped \/ thread[part] = "running")

StopStream ==
  /\ Alive /\ main = "stopStream"
  /\ IF steps < Len(StopSteps)
     THEN LET part == StopSteps[steps + 1]
          IN /\ stopped' = stopped \cup {part}
             /\ crashed' \in IF Undefined(part) THEN BOOLEAN ELSE {FALSE}
             /\ steps' = steps + 1 /\ UNCHANGED main
     ELSE \* signal.pause() is over when a handler has run
          /\ main' = (IF resume = "pause" THEN "wait" ELSE resume)
          /\ steps' = 0
          /\ UNCHANGED <<stopped, crashed>>
  /\ UNCHANGED <<resume, signals, adapter, thread>>

-----------------------------------------------------------------------------
(* The threads.                                                            *)

\* What must be down before the thread ends for certain.
WaitsFor(t) ==
  {t} \cup CASE t = "videoNet"     -> {"videoNetStream"}
             [] t = "demuxVideo"   -> {"videoNetStream", "demuxedVideo"}
             [] t = "decryptVideo" -> {"demuxedVideo", "videoFrames"}
             [] t = "renderVideo"  -> {"videoFrames", "clock"}
             [] t = "audioNet"     -> {"audioNetStream"}
             [] t = "demuxAudio"   -> {"audioNetStream", "demuxedAudio"}
             [] t = "decryptAudio" -> {"demuxedAudio", "decryptedAudio"}
             [] t = "decodeAudio"  -> {"decryptedAudio", "audioFrames"}
             [] t = "renderAudio"  -> {"audioFrames", "clock"}

\* A transfer, a parse or a decoding that fails, and the last byte of a file, end a
\* thread alone.
EndsAlone == {"videoNet", "audioNet", "demuxVideo", "demuxAudio", "decryptVideo", "decodeAudio"}

Ends(t) ==
  /\ Alive /\ thread[t] = "running"
  /\ WaitsFor(t) \subseteq stopped \/ t \in EndsAlone
  /\ thread' = [thread EXCEPT ![t] = "ended"]
  /\ UNCHANGED <<main, resume, signals, adapter, steps, stopped, crashed>>

\* ASSERT(false) in a thread: without a key Decrypt() fails at the first sample.
Asserts(t) ==
  /\ Alive /\ thread[t] = "running"
  /\ \/ t \in {"demuxVideo", "demuxAudio", "decodeAudio"}
     \/ t = "decryptAudio" /\ "audio" \notin keys
  /\ crashed' = TRUE
  /\ UNCHANGED <<main, resume, signals, adapter, thread, steps, stopped>>

-----------------------------------------------------------------------------
Next == \/ Program \/ Press \/ Handle \/ StopStream
        \/ \E t \in Threads : Ends(t) \/ Asserts(t)

\* The program goes on, a thread that has to end does so; nobody has to press CTRL+C,
\* leave the loop or send a signal.
Fairness == /\ WF_vars(Program /\ main = "wait") /\ WF_vars(StopStream)
            /\ \A t \in Threads : WF_vars(WaitsFor(t) \subseteq stopped /\ Ends(t))

Spec == Init /\ [][Next]_vars /\ Fairness

-----------------------------------------------------------------------------
(* Properties.                                                             *)

(* Close() destroys the CDMs and closes the renderers without a look at    *)
(* the threads: by then not one of them runs, whatever the stream was and  *)
(* however often and whenever CTRL+C was pressed.                          *)
NoThreadOutlivesTheCdm ==
  crashed \/ \A t \in Threads : thread[t] = "running" => cdm = {"video", "audio"}

(* At the end of the stream the threads wait for ever, and in the call of  *)
(* WaitForStream() no signal is handled any more; it returns all the same, *)
(* since the program calls it only after a StopStream().                   *)
WaitReturns == main = "wait" ~> main # "wait" \/ crashed
==============================================================================
