----------------------------- MODULE PlayerProofs ----------------------------
(***************************************************************************)
(* What is proved of a run of the player (PlayerSession) and of the clock  *)
(* that its StopStream() shuts down first (Clock).                         *)
(***************************************************************************)
EXTENDS PlayerSession, Clock, TLAPS

-----------------------------------------------------------------------------
(***************************************************************************)
(* Close() finds no thread, however often and whenever CTRL+C is pressed.  *)
(*                                                                         *)
(* WaitForStream() joins the threads of the stream in their order, so what *)
(* it has joined is a prefix of StreamThreads (JoinedSoFar), and at its    *)
(* end all that was started, since nothing is started outside of           *)
(* StreamThreads (StartedThreads).  The handler may run again between      *)
(* WaitForStream() and the end of the program, and comes back to where it  *)
(* was (Returns): AllJoined holds across it.                               *)
(***************************************************************************)

States == {"none", "running", "ended", "joined"}
BeforeStart == {"requestLicense", "requestAudioLicense", "initStream", "startStream"}
Places == BeforeStart \cup
  {"installHandler", "loop", "pause", "stopStream", "wait", "close", "closeProvider", "exited"}

TypeOK ==
  /\ main \in Places /\ resume \in Places \cup {"none"}
  /\ signals \in [pressed : Nat, pending : Nat]
  /\ cdm \subseteq {"video", "audio"} /\ keys \subseteq {"video", "audio"}
  /\ stream \in [initialized : BOOLEAN, protected : BOOLEAN]
  /\ thread \in [Threads -> States]
  /\ steps \in Nat
  /\ crashed \in BOOLEAN

\* Nothing runs before StartStream(), then only the threads of the stream.
StartedThreads ==
  /\ main \in BeforeStart => \A t \in Threads : thread[t] = "none"
  /\ \A t \in Threads : thread[t] # "none" => Contains(StreamThreads, t)

\* The joins of WaitForStream() so far.
JoinedSoFar ==
  main = "wait" =>
    \A i \in 1 .. Len(StreamThreads) : i <= steps => thread[StreamThreads[i]] = "joined"

\* The handler of SIGINT comes back to where the program was; between the two calls of
\* Close() it finds no stream to stop.
Returns ==
  /\ main = "stopStream" => resume \in {"loop", "pause", "close"}
  /\ main = "closeProvider" => ~stream.initialized

\* From the return of WaitForStream() on, through every handler that runs then.
AllJoined ==
  \/ main \in {"close", "closeProvider"}
  \/ main = "stopStream" /\ resume = "close"
  => \A t \in Threads : thread[t] \in {"none", "joined"}

\* NoThreadOutlivesTheCdm, of a process that is gone as well.
CdmsInUse == \A t \in Threads : thread[t] \in {"running", "ended"} => IsInitialized

IInv == TypeOK /\ StartedThreads /\ JoinedSoFar /\ Returns /\ AllJoined /\ CdmsInUse

\* The order of the joins is a sequence of threads, whether the audio is protected or not.
LEMMA StreamThreadsFacts ==
  /\ Len(StreamThreads) \in Nat
  /\ \A i \in 1 .. Len(StreamThreads) : StreamThreads[i] \in Threads
<1>1. \A p \in BOOLEAN :
        /\ Len(VideoThreads \o AudioThreads(p)) \in Nat
        /\ \A i \in 1 .. Len(VideoThreads \o AudioThreads(p)) :
             (VideoThreads \o AudioThreads(p))[i] \in Threads
  BY DEF VideoThreads, AudioThreads, Threads, Range
<1>2. \A p : AudioThreads(p) = IF p THEN AudioThreads(TRUE) ELSE AudioThreads(FALSE)
  BY DEF AudioThreads
<1>3. QED
  BY <1>1, <1>2 DEF StreamThreads

\* The threads of the stream change with the stream only.
LEMMA SameThreads == stream' = stream => StreamThreads' = StreamThreads
BY DEF StreamThreads

\* Types, one step per action.
LEMMA TypeStep == IInv /\ [Next]_vars => TypeOK'
<1> SUFFICES ASSUME IInv, [Next]_vars
             PROVE  TypeOK'
  OBVIOUS
<1> USE DEF IInv, TypeOK, Returns, States, Places, BeforeStart
<1>1. CASE UNCHANGED <<main, resume, signals, cdm, keys, stream, thread, steps, crashed>>
  BY <1>1
<1>2. CASE Program
  <2>1. CASE RequestLicense
    BY <1>2, <2>1 DEF Program, RequestLicense, adapter
  <2>2. CASE RequestAudioLicense
    BY <1>2, <2>2 DEF Program, RequestAudioLicense, adapter
  <2>3. CASE InitStream
    <3>1. stream' \in [initialized : BOOLEAN, protected : BOOLEAN]
      <4>1. CASE \E p \in BOOLEAN : stream' = [initialized |-> TRUE, protected |-> p]
        BY <4>1
      <4>2. CASE stream' = stream
        BY <4>2
      <4>3. QED
        BY <2>3, <4>1, <4>2 DEF InitStream
    <3>2. main' \in Places
      BY <1>2, <2>3 DEF Program, InitStream
    <3>3. QED
      BY <1>2, <2>3, <3>1, <3>2 DEF Program, InitStream
  <2>4. CASE StartStream
    BY <1>2, <2>4 DEF Program, StartStream, adapter
  <2>5. CASE InstallHandler
    BY <1>2, <2>5 DEF Program, InstallHandler, adapter
  <2>6. CASE LeaveLoop
    BY <1>2, <2>6 DEF Program, LeaveLoop, adapter
  <2>7. CASE WaitForStream
    BY <1>2, <2>7 DEF Program, WaitForStream, JoinedThreads, adapter
  <2>8. CASE Close
    BY <1>2, <2>8 DEF Program, Close, adapter
  <2>9. CASE CloseProvider
    BY <1>2, <2>9 DEF Program, CloseProvider, adapter
  <2>10. QED
    BY <1>2, <2>1, <2>2, <2>3, <2>4, <2>5, <2>6, <2>7, <2>8, <2>9 DEF Program
<1>3. CASE Press
  BY <1>3 DEF Press, adapter
<1>4. CASE Handle
  BY <1>4 DEF Handle, KeyboardInterrupt, BeforeHandler, Handler, adapter
<1>5. CASE StopStream
  <2>1. main' \in Places
    <3>1. CASE steps < Len(StopSteps)
      BY <1>5, <3>1 DEF StopStream
    <3>2. CASE ~(steps < Len(StopSteps))
      BY <1>5, <3>2 DEF StopStream
    <3>3. QED
      BY <3>1, <3>2
  <2>2. steps' \in Nat
    <3>1. steps' = steps + 1 \/ steps' = 0
      BY <1>5 DEF StopStream
    <3>2. QED
      BY <3>1
  <2>3. crashed' \in BOOLEAN
    <3>1. CASE steps < Len(StopSteps)
      <4>1. crashed' \in BOOLEAN \/ crashed' \in {FALSE}
        BY <1>5, <3>1 DEF StopStream
      <4>2. QED
        BY <4>1
    <3>2. CASE ~(steps < Len(StopSteps))
      BY <1>5, <3>2 DEF StopStream
    <3>3. QED
      BY <3>1, <3>2
  <2>4. QED
    BY <1>5, <2>1, <2>2, <2>3 DEF StopStream, adapter
<1>6. CASE \E t \in Threads : Ends(t)
  BY <1>6 DEF Ends, adapter
<1>7. CASE \E t \in Threads : Asserts(t)
  BY <1>7 DEF Asserts, adapter
<1>8. QED
  BY <1>1, <1>2, <1>3, <1>4, <1>5, <1>6, <1>7 DEF Next, vars, adapter

\* Only StartStream starts threads, those of the stream.
LEMMA StartedStep == IInv /\ [Next]_vars => StartedThreads'
<1> SUFFICES ASSUME IInv, [Next]_vars
             PROVE  StartedThreads'
  OBVIOUS
<1> USE DEF IInv, TypeOK, StartedThreads, Returns, BeforeStart, States, Places, StreamThreads
<1>1. CASE UNCHANGED <<main, resume, stream, thread>>
  BY <1>1
<1>2. CASE Program
  <2>1. CASE RequestLicense
    BY <1>2, <2>1 DEF Program, RequestLicense, adapter
  <2>2. CASE RequestAudioLicense
    BY <1>2, <2>2 DEF Program, RequestAudioLicense, adapter
  <2>3. CASE InitStream
    BY <1>2, <2>3 DEF Program, InitStream, adapter
  <2>4. CASE StartStream
    BY <1>2, <2>4 DEF Program, StartStream, adapter
  <2>5. CASE InstallHandler
    BY <1>2, <2>5 DEF Program, InstallHandler, adapter
  <2>6. CASE LeaveLoop
    BY <1>2, <2>6 DEF Program, LeaveLoop, adapter
  <2>7. CASE WaitForStream
    BY <1>2, <2>7 DEF Program, WaitForStream, JoinedThreads, adapter
  <2>8. CASE Close
    BY <1>2, <2>8 DEF Program, Close, adapter
  <2>9. CASE CloseProvider
    BY <1>2, <2>9 DEF Program, CloseProvider, adapter
  <2>10. QED
    BY <1>2, <2>1, <2>2, <2>3, <2>4, <2>5, <2>6, <2>7, <2>8, <2>9 DEF Program
<1>3. CASE Press
  BY <1>3 DEF Press, adapter
<1>4. CASE Handle
  BY <1>4 DEF Handle, KeyboardInterrupt, BeforeHandler, Handler, adapter
<1>5. CASE StopStream
  BY <1>5 DEF StopStream, adapter
<1>6. CASE \E t \in Threads : Ends(t)
  BY <1>6 DEF Ends, adapter
<1>7. CASE \E t \in Threads : Asserts(t)
  BY <1>7 DEF Asserts, adapter
<1>8. QED
  BY <1>1, <1>2, <1>3, <1>4, <1>5, <1>6, <1>7 DEF Next, vars, adapter

\* A join adds the next thread; a thread that was joined stays so.
LEMMA JoinedStep == IInv /\ [Next]_vars => JoinedSoFar'
<1> SUFFICES ASSUME IInv, [Next]_vars
             PROVE  JoinedSoFar'
  OBVIOUS
<1> USE DEF IInv, TypeOK, JoinedSoFar, States, Places
<1>1. CASE UNCHANGED <<main, stream, thread, steps>>
  BY <1>1, StreamThreadsFacts, SameThreads
<1>2. CASE Program
  <2>1. CASE RequestLicense
    BY <1>2, <2>1, StreamThreadsFacts, SameThreads DEF Program, RequestLicense, adapter
  <2>2. CASE RequestAudioLicense
    BY <1>2, <2>2, StreamThreadsFacts, SameThreads DEF Program, RequestAudioLicense, adapter
  <2>3. CASE InitStream
    BY <1>2, <2>3, StreamThreadsFacts, SameThreads DEF Program, InitStream, adapter
  <2>4. CASE StartStream
    BY <1>2, <2>4, StreamThreadsFacts, SameThreads DEF Program, StartStream, adapter
  <2>5. CASE InstallHandler
    BY <1>2, <2>5, StreamThreadsFacts, SameThreads DEF Program, InstallHandler, adapter
  <2>6. CASE LeaveLoop
    BY <1>2, <2>6, StreamThreadsFacts, SameThreads DEF Program, LeaveLoop, adapter
  <2>7. CASE WaitForStream
    BY <1>2, <2>7, StreamThreadsFacts, SameThreads DEF Program, WaitForStream, JoinedThreads,
         adapter
  <2>8. CASE Close
    BY <1>2, <2>8, StreamThreadsFacts, SameThreads DEF Program, Close, adapter
  <2>9. CASE CloseProvider
    BY <1>2, <2>9, StreamThreadsFacts, SameThreads DEF Program, CloseProvider, adapter
  <2>10. QED
    BY <1>2, <2>1, <2>2, <2>3, <2>4, <2>5, <2>6, <2>7, <2>8, <2>9 DEF Program
<1>3. CASE Press
  BY <1>3, StreamThreadsFacts, SameThreads DEF Press, adapter
<1>4. CASE Handle
  BY <1>4, StreamThreadsFacts, SameThreads DEF Handle, KeyboardInterrupt, BeforeHandler,
       Handler, adapter
<1>5. CASE StopStream
  BY <1>5, StreamThreadsFacts, SameThreads DEF StopStream, adapter
<1>6. CASE \E t \in Threads : Ends(t)
  BY <1>6, StreamThreadsFacts, SameThreads DEF Ends, adapter
<1>7. CASE \E t \in Threads : Asserts(t)
  BY <1>7, StreamThreadsFacts, SameThreads DEF Asserts, adapter
<1>8. QED
  BY <1>1, <1>2, <1>3, <1>4, <1>5, <1>6, <1>7 DEF Next, vars, adapter

\* The handler is entered from the loop, from pause() and from close().
LEMMA ReturnsStep == IInv /\ [Next]_vars => Returns'
<1> SUFFICES ASSUME IInv, [Next]_vars
             PROVE  Returns'
  OBVIOUS
<1> USE DEF IInv, TypeOK, Returns, Places, BeforeStart
<1>1. CASE UNCHANGED <<main, resume, stream>>
  BY <1>1
<1>2. CASE Program
  <2>1. CASE RequestLicense
    BY <1>2, <2>1 DEF Program, RequestLicense, adapter
  <2>2. CASE RequestAudioLicense
    BY <1>2, <2>2 DEF Program, RequestAudioLicense, adapter
  <2>3. CASE InitStream
    BY <1>2, <2>3 DEF Program, InitStream, adapter
  <2>4. CASE StartStream
    BY <1>2, <2>4 DEF Program, StartStream, adapter
  <2>5. CASE InstallHandler
    BY <1>2, <2>5 DEF Program, InstallHandler, adapter
  <2>6. CASE LeaveLoop
    BY <1>2, <2>6 DEF Program, LeaveLoop, adapter
  <2>7. CASE WaitForStream
    BY <1>2, <2>7 DEF Program, WaitForStream, JoinedThreads, adapter
  <2>8. CASE Close
    BY <1>2, <2>8 DEF Program, Close, adapter
  <2>9. CASE CloseProvider
    BY <1>2, <2>9 DEF Program, CloseProvider, adapter
  <2>10. QED
    BY <1>2, <2>1, <2>2, <2>3, <2>4, <2>5, <2>6, <2>7, <2>8, <2>9 DEF Program
<1>3. CASE Press
  BY <1>3 DEF Press, adapter
<1>4. CASE Handle
  BY <1>4 DEF Handle, KeyboardInterrupt, BeforeHandler, Handler, adapter
<1>5. CASE StopStream
  BY <1>5 DEF StopStream, adapter
<1>6. CASE \E t \in Threads : Ends(t)
  BY <1>6 DEF Ends, adapter
<1>7. CASE \E t \in Threads : Asserts(t)
  BY <1>7 DEF Asserts, adapter
<1>8. QED
  BY <1>1, <1>2, <1>3, <1>4, <1>5, <1>6, <1>7 DEF Next, vars, adapter

\* WaitForStream() returns when all that was started is joined.
LEMMA AllJoinedStep == IInv /\ [Next]_vars => AllJoined'
<1> SUFFICES ASSUME IInv, [Next]_vars
             PROVE  AllJoined'
  OBVIOUS
<1> USE DEF IInv, TypeOK, StartedThreads, JoinedSoFar, Returns, AllJoined, BeforeStart, Places
<1>1. CASE UNCHANGED <<main, resume, thread, stream>>
  BY <1>1, StreamThreadsFacts, SameThreads
<1>2. CASE Program
  <2>1. CASE RequestLicense
    BY <1>2, <2>1, StreamThreadsFacts, SameThreads DEF Program, RequestLicense, adapter
  <2>2. CASE RequestAudioLicense
    BY <1>2, <2>2, StreamThreadsFacts, SameThreads DEF Program, RequestAudioLicense, adapter
  <2>3. CASE InitStream
    BY <1>2, <2>3, StreamThreadsFacts, SameThreads DEF Program, InitStream, adapter
  <2>4. CASE StartStream
    BY <1>2, <2>4, StreamThreadsFacts, SameThreads DEF Program, StartStream, adapter
  <2>5. CASE InstallHandler
    BY <1>2, <2>5, StreamThreadsFacts, SameThreads DEF Program, InstallHandler, adapter
  <2>6. CASE LeaveLoop
    BY <1>2, <2>6, StreamThreadsFacts, SameThreads DEF Program, LeaveLoop, adapter
  <2>7. CASE WaitForStream
    <3>1. CASE steps < Len(StreamThreads)
      BY <1>2, <2>7, <3>1 DEF Program, WaitForStream, JoinedThreads
    <3>2. CASE ~(steps < Len(StreamThreads))
      <4>1. thread' = thread /\ main = "wait" /\ main' = "close"
        BY <1>2, <2>7, <3>2 DEF Program, WaitForStream, JoinedThreads
      <4>2. \A t \in Threads : thread[t] # "none" => \E i \in 1 .. Len(StreamThreads) : StreamThreads[i] = t
        BY DEF Contains
      <4>3. \A i \in 1 .. Len(StreamThreads) : thread[StreamThreads[i]] = "joined"
        BY <4>1, <3>2, StreamThreadsFacts
      <4>4. QED
        BY <4>1, <4>2, <4>3
    <3>3. QED
      BY <3>1, <3>2
  <2>8. CASE Close
    BY <1>2, <2>8, StreamThreadsFacts, SameThreads DEF Program, Close, adapter
  <2>9. CASE CloseProvider
    BY <1>2, <2>9, StreamThreadsFacts, SameThreads DEF Program, CloseProvider, adapter
  <2>10. QED
    BY <1>2, <2>1, <2>2, <2>3, <2>4, <2>5, <2>6, <2>7, <2>8, <2>9 DEF Program
<1>3. CASE Press
  BY <1>3, StreamThreadsFacts, SameThreads DEF Press, adapter
<1>4. CASE Handle
  BY <1>4, StreamThreadsFacts, SameThreads DEF Handle, KeyboardInterrupt, BeforeHandler,
       Handler, adapter
<1>5. CASE StopStream
  BY <1>5, StreamThreadsFacts, SameThreads DEF StopStream, adapter
<1>6. CASE \E t \in Threads : Ends(t)
  BY <1>6, StreamThreadsFacts, SameThreads DEF Ends, adapter
<1>7. CASE \E t \in Threads : Asserts(t)
  BY <1>7, StreamThreadsFacts, SameThreads DEF Asserts, adapter
<1>8. QED
  BY <1>1, <1>2, <1>3, <1>4, <1>5, <1>6, <1>7 DEF Next, vars, adapter

\* The CDMs are initialised before StartStream() and go when AllJoined.
LEMMA CdmsStep == IInv /\ [Next]_vars => CdmsInUse'
<1> SUFFICES ASSUME IInv, [Next]_vars
             PROVE  CdmsInUse'
  OBVIOUS
<1> USE DEF IInv, TypeOK, StartedThreads, AllJoined, CdmsInUse, IsInitialized, BeforeStart, States
<1>1. CASE UNCHANGED <<cdm, thread>>
  BY <1>1
<1>2. CASE Program
  <2>1. CASE RequestLicense
    BY <1>2, <2>1 DEF Program, RequestLicense, adapter
  <2>2. CASE RequestAudioLicense
    BY <1>2, <2>2 DEF Program, RequestAudioLicense, adapter
  <2>3. CASE InitStream
    BY <1>2, <2>3 DEF Program, InitStream, adapter
  <2>4. CASE StartStream
    BY <1>2, <2>4 DEF Program, StartStream, adapter
  <2>5. CASE InstallHandler
    BY <1>2, <2>5 DEF Program, InstallHandler, adapter
  <2>6. CASE LeaveLoop
    BY <1>2, <2>6 DEF Program, LeaveLoop, adapter
  <2>7. CASE WaitForStream
    BY <1>2, <2>7 DEF Program, WaitForStream, JoinedThreads, adapter
  <2>8. CASE Close
    BY <1>2, <2>8 DEF Program, Close, adapter
  <2>9. CASE CloseProvider
    BY <1>2, <2>9 DEF Program, CloseProvider, adapter
  <2>10. QED
    BY <1>2, <2>1, <2>2, <2>3, <2>4, <2>5, <2>6, <2>7, <2>8, <2>9 DEF Program
<1>3. CASE Press
  BY <1>3 DEF Press, adapter
<1>4. CASE Handle
  BY <1>4 DEF Handle, KeyboardInterrupt, BeforeHandler, Handler, adapter
<1>5. CASE StopStream
  BY <1>5 DEF StopStream, adapter
<1>6. CASE \E t \in Threads : Ends(t)
  BY <1>6 DEF Ends, adapter
<1>7. CASE \E t \in Threads : Asserts(t)
  BY <1>7 DEF Asserts, adapter
<1>8. QED
  BY <1>1, <1>2, <1>3, <1>4, <1>5, <1>6, <1>7 DEF Next, vars, adapter

\* The program as it starts.
LEMMA InitHolds == Init => IInv
<1> SUFFICES ASSUME Init
             PROVE  IInv
  OBVIOUS
<1>1. main \in Places /\ resume \in Places \cup {"none"}
  BY DEF Init, Places, BeforeStart
<1>2. /\ signals \in [pressed : Nat, pending : Nat]
      /\ stream \in [initialized : BOOLEAN, protected : BOOLEAN]
      /\ steps \in Nat /\ crashed \in BOOLEAN
      /\ cdm \subseteq {"video", "audio"} /\ keys \subseteq {"video", "audio"}
  BY DEF Init
<1>3. thread \in [Threads -> States] /\ \A t \in Threads : thread[t] = "none"
  BY DEF Init, States
<1>4. TypeOK
  BY <1>1, <1>2, <1>3 DEF TypeOK
<1>5. StartedThreads /\ JoinedSoFar /\ Returns /\ AllJoined /\ CdmsInUse
  BY <1>3 DEF Init, StartedThreads, JoinedSoFar, Returns, AllJoined, CdmsInUse
<1>6. QED
  BY <1>4, <1>5 DEF IInv

\* The invariant holds: InitHolds, the steps, and induction.
THEOREM InvariantHolds == Spec => []IInv
<1>1. IInv /\ [Next]_vars => IInv'
  BY TypeStep, StartedStep, JoinedStep, ReturnsStep, AllJoinedStep, CdmsStep DEF IInv
<1>2. QED
  BY InitHolds, <1>1, PTL DEF Spec

\* The variables of the session have their types.
THEOREM TypeCorrect == Spec => []TypeOK
<1>1. IInv => TypeOK
  BY DEF IInv
<1>2. QED
  BY <1>1, InvariantHolds, PTL

\* Close() never destroys a CDM under a running thread, for any number of signals.
THEOREM CdmOutlivesTheThreads == Spec => []NoThreadOutlivesTheCdm
<1>1. IInv => NoThreadOutlivesTheCdm
  BY DEF IInv, CdmsInUse, IsInitialized, NoThreadOutlivesTheCdm
<1>2. QED
  BY <1>1, InvariantHolds, PTL

\* Close() finds every thread that was started joined, the handler of SIGINT before it
\* or between its two calls notwithstanding.
THEOREM CloseFindsThemJoined == Spec => []AllJoined
<1>1. IInv => AllJoined
  BY DEF IInv
<1>2. QED
  BY <1>1, InvariantHolds, PTL

-----------------------------------------------------------------------------
(***************************************************************************)
(* The clock for every MAX_DELTA, all frame durations and both builds.     *)
(*                                                                         *)
(* The lead of a medium is inductive by itself.  The rest needs to know    *)
(* how many threads have come to the barrier, who is behind it             *)
(* (BarrierInv), and for what reason a thread sleeps in Sync() or is on    *)
(* its way to sleep (SyncInv): what it saw still holds, because the mutex  *)
(* is kept from the predicate to the wait.                                 *)
(***************************************************************************)

AtBarrier == {"startBlocking", "startWaiting", "startWoken"}
BehindBarrier == {"frame", "sync", "syncBlocking", "syncWaiting", "syncWoken",
                  "syncNotify", "update"}

\* m has counted itself in startedThreads_.
Arrived(m) == IF m \in registered \/ pc[m] \in AtBarrier THEN 1 ELSE 0

BarrierInv ==
  \A m \in Media :
    /\ startedThreads = Arrived(m) + Arrived(Other(m))
    /\ pc[m] \in BehindBarrier => m \in registered
    /\ pc[m] \in AtBarrier \cup {"start"} => m \notin registered
    /\ frames[m] # 0 => m \in registered
    /\ m \in registered => startedThreads = 2 \/ isShutdown
    /\ pc[m] \in {"startBlocking", "startWaiting"} => startedThreads < 2

SyncInv ==
  \A m \in Media :
    /\ pc[m] = "syncBlocking" => time[m] - time[Other(m)] >= MaxDelta
    /\ pc[m] = "syncWaiting" => \/ time[m] - time[Other(m)] >= MaxDelta
                                \/ pc[Other(m)] = "syncNotify"

\* A medium that goes through Sync() does not call UpdateAudioTime().
OnlySelfTimedUpdate == \A m \in Media : pc[m] = "update" => m \in selfTimed

ClockInv == ClockTypeOK /\ OnlySelfTimedUpdate /\ BarrierInv /\ SyncInv /\ LeadIsBounded

USE MaxDeltaAssumption, DurationsAssumption, NumFramesAssumption, BuildsAssumption

\* There are two media, and each is the other of the other.
LEMMA TwoMedia ==
  /\ Media = {"audio", "video"}
  /\ \A m \in Media : Other(m) \in Media /\ Other(m) # m /\ Other(Other(m)) = m
  /\ \A m \in Media, n \in Media : n = m \/ n = Other(m)
  /\ "control" \in ClockThreads
  /\ \A m \in Media : m \in ClockThreads /\ m # "control"
BY DEF Media, Other, ClockThreads

\* Both media stand at 0 and both threads before the barrier.
LEMMA ClockInitHolds == ClockInit => ClockInv
<1> SUFFICES ASSUME ClockInit
             PROVE  ClockInv
  OBVIOUS
<1>1. ClockTypeOK
  <2>1. /\ DOMAIN pc = ClockThreads /\ pc["control"] = "idle"
        /\ \A m \in Media : pc[m] = "loop"
    BY TwoMedia DEF ClockInit, ClockThreads
  <2>2. time \in [Media -> Nat] /\ frames \in [Media -> Nat]
    BY DEF ClockInit
  <2>3. /\ selfTimed \subseteq {"audio"}
        /\ startedThreads = 0 /\ registered = {} /\ isShutdown \in BOOLEAN /\ running = Media
    BY DEF ClockInit
  <2>4. QED
    BY <2>1, <2>2, <2>3 DEF ClockTypeOK, RenderLocations, ControlLocations
<1>2. BarrierInv
  BY TwoMedia DEF ClockInit, BarrierInv, Arrived, AtBarrier, BehindBarrier, ClockThreads
<1>3. SyncInv
  BY TwoMedia DEF ClockInit, SyncInv, ClockThreads
<1>4. OnlySelfTimedUpdate /\ LeadIsBounded
  BY TwoMedia DEF ClockInit, OnlySelfTimedUpdate, LeadIsBounded, ClockThreads
<1>5. QED
  BY <1>1, <1>2, <1>3, <1>4 DEF ClockInv

\* A build is a build.
LEMMA BuildStays == ASSUME [ClockNext]_clockVars PROVE UNCHANGED selfTimed
BY DEF ClockNext, RenderStep, RenderLoop, SetStartTime, StartWoken, NextFrame, Sync,
   SyncNotify, UpdateAudioTime, Wait, SpuriousWakeup, ShutdownFlag, StopStep,
   ShutdownNotifyStart, ShutdownNotifySync, StopVideo, StopAudio, clockVars

\* How the times change: not at all, or those of one medium by one of its frames,
\* the medium being in sync unless it times itself.
LEMMA TimeStep ==
  ASSUME ClockTypeOK, [ClockNext]_clockVars
  PROVE  \/ UNCHANGED time
         \/ \E m \in Media : \E d \in Durations[m] :
              /\ time' = [time EXCEPT ![m] = @ + d]
              /\ LockFree
              /\ \/ pc[m] \in {"sync", "syncWoken"} /\ InSync(m) /\ Goto(m, "syncNotify")
                 \/ pc[m] = "update" /\ GotoAndNotify(m, "loop", "syncWaiting", "syncWoken")
<1>1. ASSUME NEW m \in Media, Sync(m)
      PROVE  \/ UNCHANGED time
             \/ /\ pc[m] \in {"sync", "syncWoken"} /\ LockFree
                /\ InSync(m) /\ Advance(m) /\ Goto(m, "syncNotify")
  BY <1>1 DEF Sync
<1>2. ASSUME NEW m \in Media, UpdateAudioTime(m)
      PROVE  /\ pc[m] = "update" /\ LockFree /\ Advance(m)
             /\ GotoAndNotify(m, "loop", "syncWaiting", "syncWoken")
  BY <1>2 DEF UpdateAudioTime
<1>3. QED
  BY <1>1, <1>2 DEF ClockNext, RenderStep, RenderLoop, SetStartTime, StartWoken, NextFrame,
     SyncNotify, Wait, SpuriousWakeup, ShutdownFlag, StopStep, ShutdownNotifyStart,
     ShutdownNotifySync, StopVideo, StopAudio, clockVars, Advance

\* Where the threads are after Goto, after GotoAndNotify and after NotifyAll.
LEMMA GotoMoves ==
  ASSUME DOMAIN pc = ClockThreads, NEW t \in ClockThreads, NEW l, Goto(t, l)
  PROVE  /\ DOMAIN pc' = ClockThreads /\ pc'[t] = l
         /\ \A u \in ClockThreads \ {t} : pc'[u] = pc[u]
BY DEF Goto

LEMMA NotifyMoves ==
  ASSUME DOMAIN pc = ClockThreads, NEW m \in Media, NEW l, NEW waiting, NEW woken,
         GotoAndNotify(m, l, waiting, woken)
  PROVE  /\ DOMAIN pc' = ClockThreads /\ pc'[m] = l
         /\ pc'[Other(m)] = IF pc[Other(m)] = waiting THEN woken ELSE pc[Other(m)]
         /\ pc'["control"] = pc["control"]
<1>1. /\ m \in ClockThreads /\ Other(m) \in ClockThreads /\ "control" \in ClockThreads
      /\ m # Other(m) /\ m # "control" /\ Other(m) # "control"
  BY TwoMedia DEF ClockThreads
<1>2. DOMAIN pc' = ClockThreads
  BY DEF GotoAndNotify
<1>3. QED
  BY <1>1, <1>2 DEF GotoAndNotify

LEMMA NotifyAllMoves ==
  ASSUME DOMAIN pc = ClockThreads, NEW l, NEW waiting, NEW woken, NotifyAll(waiting, woken, l)
  PROVE  /\ DOMAIN pc' = ClockThreads /\ pc'["control"] = l
         /\ \A m \in Media : pc'[m] = IF pc[m] = waiting THEN woken ELSE pc[m]
BY TwoMedia DEF NotifyAll, ClockThreads

\* The control thread wakes rendering threads and does nothing else to them.
LEMMA ControlMoves ==
  ASSUME DOMAIN pc = ClockThreads, ShutdownFlag \/ StopStep, NEW m \in Media
  PROVE  \/ pc'[m] = pc[m]
         \/ pc[m] = "startWaiting" /\ pc'[m] = "startWoken"
         \/ pc[m] = "syncWaiting" /\ pc'[m] = "syncWoken"
<1>1. CASE \E l : Goto("control", l)
  BY <1>1, TwoMedia, GotoMoves
<1>2. CASE \E l : NotifyAll("startWaiting", "startWoken", l)
  BY <1>2, NotifyAllMoves
<1>3. CASE \E l : NotifyAll("syncWaiting", "syncWoken", l)
  BY <1>3, NotifyAllMoves
<1>4. QED
  BY <1>1, <1>2, <1>3 DEF ShutdownFlag, StopStep, ShutdownNotifyStart,
     ShutdownNotifySync, StopVideo, StopAudio

\* A rendering thread moves on, and may wake the other one.
LEMMA LocationsStep ==
  ASSUME ClockTypeOK, NEW m \in Media, NEW l \in RenderLocations,
         \/ Goto(m, l)
         \/ \E waiting, woken \in RenderLocations : GotoAndNotify(m, l, waiting, woken)
  PROVE  /\ DOMAIN pc' = ClockThreads
         /\ \A n \in Media : pc'[n] \in RenderLocations
         /\ pc'["control"] \in ControlLocations
<1>1. /\ DOMAIN pc = ClockThreads /\ pc["control"] \in ControlLocations
      /\ \A n \in Media : pc[n] \in RenderLocations
  BY DEF ClockTypeOK
<1>2. Other(m) \in Media /\ Other(m) # m /\ \A n \in Media : n = m \/ n = Other(m)
  BY TwoMedia
<1>3. CASE Goto(m, l)
  <2>1. "control" \in ClockThreads \ {m} /\ Other(m) \in ClockThreads \ {m}
    BY <1>2, TwoMedia DEF ClockThreads
  <2>2. DOMAIN pc' = ClockThreads /\ pc'[m] = l /\ \A t \in ClockThreads \ {m} : pc'[t] = pc[t]
    BY <1>1, <1>3, TwoMedia, GotoMoves
  <2>3. QED
    BY <1>1, <1>2, <2>1, <2>2
<1>4. ASSUME NEW waiting \in RenderLocations, NEW woken \in RenderLocations,
             GotoAndNotify(m, l, waiting, woken)
      PROVE  /\ DOMAIN pc' = ClockThreads
             /\ \A n \in Media : pc'[n] \in RenderLocations
             /\ pc'["control"] \in ControlLocations
  <2>1. /\ DOMAIN pc' = ClockThreads /\ pc'[m] = l /\ pc'["control"] = pc["control"]
        /\ pc'[Other(m)] = IF pc[Other(m)] = waiting THEN woken ELSE pc[Other(m)]
    BY <1>1, <1>4, NotifyMoves
  <2>2. QED
    BY <1>1, <1>2, <2>1
<1>5. QED
  BY <1>3, <1>4

\* Types, one step per action; startedThreads_ is bounded by what BarrierInv counts.
LEMMA ClockTypeStep == ClockTypeOK /\ BarrierInv /\ [ClockNext]_clockVars => ClockTypeOK'
<1> SUFFICES ASSUME ClockTypeOK, BarrierInv, [ClockNext]_clockVars
             PROVE  ClockTypeOK'
  OBVIOUS
<1> DEFINE Flags == startedThreads \in 0 .. 2 /\ registered \subseteq Media /\ isShutdown \in BOOLEAN
<1> DEFINE Loops == frames \in [Media -> Nat] /\ running \subseteq Media
<1> DEFINE Locations == /\ DOMAIN pc = ClockThreads
                        /\ \A m \in Media : pc[m] \in RenderLocations
                        /\ pc["control"] \in ControlLocations
<1>1. time' \in [Media -> Nat]
  BY TimeStep, TwoMedia DEF ClockTypeOK
<1>2. Flags /\ Loops /\ Locations
  BY DEF ClockTypeOK
<1> HIDE DEF Flags, Loops, Locations
<1>3. ASSUME NEW m \in Media, RenderLoop(m)
      PROVE  Flags' /\ Loops' /\ Locations'
  <2>1. Flags' /\ Loops'
    BY <1>2, <1>3 DEF Flags, Loops, RenderLoop, barrier
  <2>2. \E l \in RenderLocations : Goto(m, l)
    BY <1>3 DEF RenderLoop, RenderLocations
  <2>3. QED
    BY <2>1, <2>2, LocationsStep DEF Locations
<1>4. ASSUME NEW m \in Media, SetStartTime(m) \/ StartWoken(m)
      PROVE  Flags' /\ Loops' /\ Locations'
  <2>1. startedThreads' \in 0 .. 2
    BY <1>2, <1>4, TwoMedia DEF Flags, SetStartTime, StartWoken, BarrierInv, Arrived, AtBarrier
  <2>2. Loops' /\ registered' \subseteq Media /\ isShutdown' \in BOOLEAN
    BY <1>2, <1>4 DEF Flags, Loops, SetStartTime, StartWoken, PassBarrier
  <2>3. \/ Goto(m, "startBlocking")
        \/ GotoAndNotify(m, "frame", "startWaiting", "startWoken")
    BY <1>4 DEF SetStartTime, StartWoken, PassBarrier
  <2>4. {"startBlocking", "frame", "startWaiting", "startWoken"} \subseteq RenderLocations
    BY DEF RenderLocations
  <2>5. Locations'
    BY <2>3, <2>4, LocationsStep DEF Locations
  <2>6. QED
    BY <2>1, <2>2, <2>5 DEF Flags, Loops
<1>5. ASSUME NEW m \in Media, NextFrame(m)
      PROVE  Flags' /\ Loops' /\ Locations'
  <2>1. Flags' /\ Loops'
    BY <1>2, <1>5 DEF Flags, Loops, NextFrame, barrier
  <2>2. \E l \in RenderLocations : Goto(m, l)
    BY <1>5 DEF NextFrame, RenderLocations
  <2>3. QED
    BY <2>1, <2>2, LocationsStep DEF Locations
<1>6. ASSUME NEW m \in Media,
             Sync(m) \/ SyncNotify(m) \/ UpdateAudioTime(m) \/ Wait(m) \/ SpuriousWakeup(m)
      PROVE  Flags' /\ Loops' /\ Locations'
  <2>1. Flags' /\ Loops'
    BY <1>2, <1>6 DEF Flags, Loops, Sync, SyncNotify, UpdateAudioTime, Wait, SpuriousWakeup, barrier
  <2>2. \/ \E l \in {"syncNotify", "syncBlocking", "startWaiting", "syncWaiting",
                     "startWoken", "syncWoken"} : Goto(m, l)
        \/ GotoAndNotify(m, "loop", "syncWaiting", "syncWoken")
    BY <1>6 DEF Sync, SyncNotify, UpdateAudioTime, Wait, SpuriousWakeup
  <2>3. {"syncNotify", "syncBlocking", "startWaiting", "syncWaiting", "startWoken",
         "syncWoken", "loop"} \subseteq RenderLocations
    BY DEF RenderLocations
  <2>4. QED
    BY <2>1, <2>2, <2>3, LocationsStep DEF Locations
<1>7. ASSUME ShutdownFlag \/ StopStep
      PROVE  Flags' /\ Loops' /\ Locations'
  <2>1. Flags' /\ Loops'
    BY <1>2, <1>7 DEF Flags, Loops, ShutdownFlag, StopStep, ShutdownNotifyStart, ShutdownNotifySync,
       StopVideo, StopAudio, barrier
  <2>2. \/ \E l \in ControlLocations : Goto("control", l)
        \/ \E l \in ControlLocations, waiting, woken \in RenderLocations :
             NotifyAll(waiting, woken, l)
    BY <1>7 DEF ShutdownFlag, StopStep, ShutdownNotifyStart, ShutdownNotifySync,
       StopVideo, StopAudio, ControlLocations, RenderLocations
  <2>3. Locations'
    <3>1. ASSUME NEW l \in ControlLocations, Goto("control", l)
          PROVE  Locations'
      BY <1>2, <3>1, TwoMedia, GotoMoves DEF Locations
    <3>2. ASSUME NEW l \in ControlLocations, NEW waiting \in RenderLocations,
                 NEW woken \in RenderLocations, NotifyAll(waiting, woken, l)
          PROVE  Locations'
      <4>1. \A m \in Media :
              /\ DOMAIN pc' = ClockThreads /\ pc'["control"] = l
              /\ pc'[m] = IF pc[m] = waiting THEN woken ELSE pc[m]
        BY <1>2, <3>2, NotifyAllMoves DEF Locations
      <4>2. QED
        BY <1>2, <4>1, TwoMedia DEF Locations
    <3>3. QED
      BY <2>2, <3>1, <3>2
  <2>4. QED
    BY <2>1, <2>3
<1>8. ASSUME UNCHANGED clockVars
      PROVE  Flags' /\ Loops' /\ Locations'
  <2>1. Flags' /\ Loops'
    BY <1>2, <1>8 DEF Flags, Loops, clockVars
  <2>2. Locations'
    BY <1>2, <1>8 DEF Locations, clockVars
  <2>3. QED
    BY <2>1, <2>2
<1>9. Flags' /\ Loops' /\ Locations'
  BY <1>3, <1>4, <1>5, <1>6, <1>7, <1>8 DEF ClockNext, RenderStep
<1>10. QED
  BY <1>1, <1>9, BuildStays DEF Flags, Loops, Locations, ClockTypeOK

\* A medium gets ahead by its own frames only, and by each only while it is in sync.
LEMMA LeadStep ==
  ClockTypeOK /\ OnlySelfTimedUpdate /\ LeadIsBounded /\ [ClockNext]_clockVars => LeadIsBounded'
<1> SUFFICES ASSUME ClockTypeOK, OnlySelfTimedUpdate, LeadIsBounded, [ClockNext]_clockVars,
                    NEW m \in Media \ selfTimed, ~isShutdown'
             PROVE  \E d \in Durations[m] \cup {0} : (time[m] - time[Other(m)] < MaxDelta + d)'
  BY BuildStays DEF LeadIsBounded
<1>0. ~isShutdown
  BY DEF ClockNext, RenderStep, RenderLoop, SetStartTime, StartWoken, NextFrame, Sync,
     SyncNotify, UpdateAudioTime, Wait, SpuriousWakeup, ShutdownFlag, StopStep,
     ShutdownNotifyStart, ShutdownNotifySync, StopVideo, StopAudio, clockVars
<1>1. PICK d \in Durations[m] \cup {0} : time[m] - time[Other(m)] < MaxDelta + d
  BY <1>0 DEF LeadIsBounded
<1>2. CASE UNCHANGED time
  BY <1>1, <1>2
<1>3. ASSUME NEW n \in Media, NEW e \in Durations[n],
             time' = [time EXCEPT ![n] = @ + e],
             \/ pc[n] \in {"sync", "syncWoken"} /\ InSync(n)
             \/ pc[n] = "update"
      PROVE  \E f \in Durations[m] \cup {0} : (time[m] - time[Other(m)] < MaxDelta + f)'
  <2>1. /\ time \in [Media -> Nat] /\ e \in Nat /\ d \in Nat
        /\ m \in Media /\ Other(m) \in Media /\ Other(m) # m
    BY TwoMedia DEF ClockTypeOK
  <2>2. CASE n = Other(m)
    <3>1. time'[m] = time[m] /\ time'[n] = time[n] + e
      BY <1>3, <2>1, <2>2
    <3>2. QED
      BY <1>1, <2>1, <2>2, <3>1
  <2>3. CASE n = m /\ InSync(m)
    <3>1. time'[Other(m)] = time[Other(m)] /\ time'[m] = time[m] + e
      BY <1>3, <2>1, <2>3
    <3>2. time[m] - time[Other(m)] < MaxDelta
      BY <1>0, <2>3 DEF InSync
    <3>3. QED
      BY <2>1, <2>3, <3>1, <3>2
  <2>4. CASE n = m /\ pc[m] = "update"
    BY <2>4 DEF OnlySelfTimedUpdate
  <2>5. QED
    BY <1>3, <2>1, <2>2, <2>3, <2>4, TwoMedia
<1>4. QED
  BY <1>2, <1>3, TimeStep
\* Who is where at the barrier.  Only SetStartTime() and what follows it counts; the
\* shutdown lets threads through and is never taken back.
LEMMA BarrierStep == ClockTypeOK /\ BarrierInv /\ [ClockNext]_clockVars => BarrierInv'
<1> SUFFICES ASSUME ClockTypeOK, BarrierInv, [ClockNext]_clockVars
             PROVE  BarrierInv'
  OBVIOUS
<1>0. /\ DOMAIN pc = ClockThreads /\ startedThreads \in 0 .. 2
      /\ frames \in [Media -> Nat] /\ registered \subseteq Media
  BY DEF ClockTypeOK
<1>1. ASSUME NEW m \in Media, RenderLoop(m)
      PROVE  BarrierInv'
  <2>1. /\ pc[m] = "loop" /\ UNCHANGED <<barrier, frames, isShutdown>>
        /\ pc'[m] \in {"exited", "frame", "start"}
        /\ pc'[m] = "frame" => m \in registered
        /\ pc'[m] = "start" => m \notin registered
        /\ pc'[Other(m)] = pc[Other(m)]
    BY <1>0, <1>1, TwoMedia, GotoMoves DEF RenderLoop
  <2>2. QED
    BY <2>1, TwoMedia DEF BarrierInv, Arrived, AtBarrier, BehindBarrier, barrier
<1>2. ASSUME NEW m \in Media, SetStartTime(m) \/ StartWoken(m)
      PROVE  BarrierInv'
  <2>1. /\ pc[m] \in {"start", "startWoken"}
        /\ startedThreads' = IF pc[m] = "start" THEN startedThreads + 1 ELSE startedThreads
        /\ UNCHANGED <<frames, isShutdown>>
        /\ pc[Other(m)] # "startBlocking"
    BY <1>2, TwoMedia DEF SetStartTime, StartWoken, LockFree
  <2>2. m \notin registered /\ startedThreads' = 1 + Arrived(Other(m))
    BY <2>1, TwoMedia DEF BarrierInv, Arrived, AtBarrier
  <2>3. CASE HasStarted(startedThreads') /\ PassBarrier(m)
    <3>1. /\ registered' = registered \cup {m} /\ pc'[m] = "frame"
          /\ pc'[Other(m)] = IF pc[Other(m)] = "startWaiting" THEN "startWoken"
                                                            ELSE pc[Other(m)]
      BY <1>0, <2>3, NotifyMoves DEF PassBarrier
    <3>2. startedThreads' = 2 \/ isShutdown'
      BY <2>1, <2>3 DEF HasStarted
    <3>3. QED
      BY <1>0, <2>1, <2>2, <3>1, <3>2, TwoMedia
         DEF BarrierInv, Arrived, AtBarrier, BehindBarrier
  <2>4. CASE /\ ~HasStarted(startedThreads')
             /\ Goto(m, "startBlocking") /\ UNCHANGED registered
    <3>1. pc'[m] = "startBlocking" /\ pc'[Other(m)] = pc[Other(m)]
      BY <1>0, <2>4, TwoMedia, GotoMoves
    <3>2. startedThreads' < 2
      BY <1>0, <2>2, <2>4 DEF HasStarted, Arrived
    <3>3. QED
      BY <1>0, <2>1, <2>2, <2>4, <3>1, <3>2, TwoMedia
         DEF BarrierInv, Arrived, AtBarrier, BehindBarrier
  <2>5. QED
    BY <1>2, <2>3, <2>4 DEF SetStartTime, StartWoken
<1>3. ASSUME NEW m \in Media, NextFrame(m)
      PROVE  BarrierInv'
  <2>1. /\ pc[m] = "frame" /\ UNCHANGED <<barrier, isShutdown>>
        /\ pc'[m] \in {"sync", "update"} /\ pc'[Other(m)] = pc[Other(m)]
        /\ frames'[Other(m)] = frames[Other(m)]
    BY <1>0, <1>3, TwoMedia, GotoMoves DEF NextFrame
  <2>2. QED
    BY <2>1, TwoMedia DEF BarrierInv, Arrived, AtBarrier, BehindBarrier, barrier
<1>4. ASSUME NEW m \in Media, Sync(m) \/ SyncNotify(m) \/ UpdateAudioTime(m)
      PROVE  BarrierInv'
  <2>1. /\ pc[m] \in {"sync", "syncWoken", "syncNotify", "update"}
        /\ UNCHANGED <<barrier, frames, isShutdown>>
        /\ pc'[m] \in {"syncBlocking", "syncNotify", "loop"}
        /\ \/ pc'[Other(m)] = pc[Other(m)]
           \/ pc[Other(m)] = "syncWaiting" /\ pc'[Other(m)] = "syncWoken"
    <3>1. CASE Sync(m)
      BY <1>0, <3>1, TwoMedia, GotoMoves DEF Sync
    <3>2. CASE SyncNotify(m) \/ UpdateAudioTime(m)
      <4>1. GotoAndNotify(m, "loop", "syncWaiting", "syncWoken")
        BY <3>2 DEF SyncNotify, UpdateAudioTime
      <4>2. /\ pc'[m] = "loop"
            /\ pc'[Other(m)] = IF pc[Other(m)] = "syncWaiting" THEN "syncWoken"
                                                             ELSE pc[Other(m)]
        BY <1>0, <4>1, NotifyMoves
      <4>3. /\ pc[m] \in {"syncNotify", "update"}
            /\ UNCHANGED <<barrier, frames, isShutdown>>
        BY <3>2 DEF SyncNotify, UpdateAudioTime
      <4>4. QED
        BY <4>2, <4>3
    <3>3. QED
      BY <1>4, <3>1, <3>2
  <2>2. QED
    BY <2>1, TwoMedia DEF BarrierInv, Arrived, AtBarrier, BehindBarrier, barrier
<1>5. ASSUME NEW m \in Media, Wait(m) \/ SpuriousWakeup(m)
      PROVE  BarrierInv'
  <2>1. /\ UNCHANGED <<barrier, frames, isShutdown>>
        /\ pc'[Other(m)] = pc[Other(m)]
        /\ \/ pc[m] = "startBlocking" /\ pc'[m] = "startWaiting"
           \/ pc[m] = "startWaiting" /\ pc'[m] = "startWoken"
           \/ pc[m] \in BehindBarrier /\ pc'[m] \in {"syncWaiting", "syncWoken"}
    BY <1>0, <1>5, TwoMedia, GotoMoves DEF Wait, SpuriousWakeup, BehindBarrier
  <2>2. QED
    BY <2>1, TwoMedia DEF BarrierInv, Arrived, AtBarrier, BehindBarrier, barrier
<1>6. CASE ShutdownFlag \/ StopStep
  <2>1. UNCHANGED <<barrier, frames>> /\ (isShutdown => isShutdown')
    BY <1>6 DEF ShutdownFlag, StopStep, ShutdownNotifyStart, ShutdownNotifySync,
       StopVideo, StopAudio
  <2>2. QED
    BY <1>0, <1>6, <2>1, TwoMedia, ControlMoves
       DEF BarrierInv, Arrived, AtBarrier, BehindBarrier, barrier
<1>7. CASE UNCHANGED clockVars
  BY <1>7 DEF clockVars, barrier, BarrierInv, Arrived
<1>8. QED
  BY <1>1, <1>2, <1>3, <1>4, <1>5, <1>6, <1>7 DEF ClockNext, RenderStep
\* UpdateAudioTime() is called behind pop() by the medium that times itself.
LEMMA UpdateStep ==
  ClockTypeOK /\ OnlySelfTimedUpdate /\ [ClockNext]_clockVars => OnlySelfTimedUpdate'
<1> SUFFICES ASSUME ClockTypeOK, OnlySelfTimedUpdate, [ClockNext]_clockVars, NEW m \in Media,
                    pc'[m] = "update"
             PROVE  m \in selfTimed
  BY BuildStays DEF OnlySelfTimedUpdate
<1>1. DOMAIN pc = ClockThreads
  BY DEF ClockTypeOK
<1>2. CASE pc[m] = "update"
  BY <1>2 DEF OnlySelfTimedUpdate
<1>3. CASE NextFrame(m)
  BY <1>1, <1>3, TwoMedia, GotoMoves DEF NextFrame
<1>4. ASSUME NEW n \in Media, RenderStep(n) \/ SpuriousWakeup(n), ~NextFrame(n) \/ n # m
      PROVE  pc[m] = "update"
  <2>1. CASE /\ n # m
             /\ \/ \E l : Goto(n, l)
                \/ \E l : GotoAndNotify(n, l, "startWaiting", "startWoken")
                \/ \E l : GotoAndNotify(n, l, "syncWaiting", "syncWoken")
    BY <1>1, <2>1, TwoMedia, GotoMoves, NotifyMoves
  <2>2. CASE \/ \E l \in RenderLocations \ {"update"} : Goto(n, l)
             \/ GotoAndNotify(n, "frame", "startWaiting", "startWoken")
             \/ GotoAndNotify(n, "loop", "syncWaiting", "syncWoken")
    BY <1>1, <2>2, TwoMedia, GotoMoves, NotifyMoves
  <2>3. QED
    BY <1>4, <2>1, <2>2, TwoMedia DEF RenderStep, RenderLoop, SetStartTime, StartWoken,
       NextFrame, PassBarrier, Sync, SyncNotify, UpdateAudioTime, Wait, SpuriousWakeup,
       RenderLocations
<1>5. CASE ShutdownFlag \/ StopStep
  BY <1>1, <1>5, ControlMoves, <1>2
<1>6. CASE UNCHANGED clockVars
  BY <1>2, <1>6 DEF clockVars
<1>7. QED
  BY <1>2, <1>3, <1>4, <1>5, <1>6 DEF ClockNext, RenderStep
\* The reason for which a thread sleeps in Sync() stays until the other one is about
\* to notify it: times change with the mutex only, which a thread that is about to
\* sleep has, and whoever changes one notifies before anything else.
LEMMA SyncStep == ClockTypeOK /\ SyncInv /\ [ClockNext]_clockVars => SyncInv'
<1> SUFFICES ASSUME ClockTypeOK, SyncInv, [ClockNext]_clockVars
             PROVE  SyncInv'
  OBVIOUS
<1>0. DOMAIN pc = ClockThreads /\ time \in [Media -> Nat]
  BY DEF ClockTypeOK
<1>1. ASSUME NEW m \in Media, Sync(m)
      PROVE  SyncInv'
  <2>1. /\ pc[m] \in {"sync", "syncWoken"} /\ pc[Other(m)] # "syncBlocking"
        /\ pc'[Other(m)] = pc[Other(m)]
    BY <1>0, <1>1, TwoMedia, GotoMoves DEF Sync, LockFree
  <2>2. CASE pc'[m] = "syncNotify"
    BY <2>1, <2>2, TwoMedia DEF SyncInv
  <2>3. CASE pc'[m] = "syncBlocking" /\ UNCHANGED time /\ ~InSync(m)
    BY <1>0, <2>1, <2>3, TwoMedia DEF SyncInv, InSync
  <2>4. QED
    BY <1>0, <1>1, <2>2, <2>3, TwoMedia, GotoMoves DEF Sync
<1>2. ASSUME NEW m \in Media, UpdateAudioTime(m)
      PROVE  SyncInv'
  <2>1. /\ pc'[m] = "loop"
        /\ pc'[Other(m)] = IF pc[Other(m)] = "syncWaiting" THEN "syncWoken"
                                                         ELSE pc[Other(m)]
    BY <1>0, <1>2, NotifyMoves DEF UpdateAudioTime
  <2>2. pc'[Other(m)] \notin {"syncBlocking", "syncWaiting"}
    BY <1>2, <2>1, TwoMedia DEF UpdateAudioTime, LockFree
  <2>3. QED
    BY <2>1, <2>2, TwoMedia DEF SyncInv
<1>3. ASSUME NEW m \in Media, SyncNotify(m)
      PROVE  SyncInv'
  <2>1. /\ pc'[m] = "loop" /\ UNCHANGED time
        /\ pc'[Other(m)] = IF pc[Other(m)] = "syncWaiting" THEN "syncWoken"
                                                         ELSE pc[Other(m)]
    BY <1>0, <1>3, NotifyMoves DEF SyncNotify
  <2>2. QED
    BY <2>1, TwoMedia DEF SyncInv
<1>4. ASSUME NEW m \in Media, SetStartTime(m) \/ StartWoken(m)
      PROVE  SyncInv'
  <2>1. /\ pc[m] \in {"start", "startWoken"} /\ UNCHANGED time
        /\ pc'[m] \in {"frame", "startBlocking"}
        /\ \/ pc'[Other(m)] = pc[Other(m)]
           \/ pc[Other(m)] = "startWaiting" /\ pc'[Other(m)] = "startWoken"
    <3>1. CASE PassBarrier(m)
      BY <1>0, <1>4, <3>1, NotifyMoves DEF SetStartTime, StartWoken, PassBarrier
    <3>2. CASE Goto(m, "startBlocking")
      BY <1>0, <1>4, <3>2, TwoMedia, GotoMoves DEF SetStartTime, StartWoken
    <3>3. QED
      BY <1>4, <3>1, <3>2 DEF SetStartTime, StartWoken
  <2>2. QED
    BY <2>1, TwoMedia DEF SyncInv
<1>5. ASSUME NEW m \in Media,
             RenderLoop(m) \/ NextFrame(m) \/ Wait(m) \/ SpuriousWakeup(m)
      PROVE  SyncInv'
  <2>1. /\ UNCHANGED time /\ pc'[Other(m)] = pc[Other(m)]
        /\ pc[m] # "syncNotify" /\ pc'[m] # "syncBlocking"
        /\ pc'[m] = "syncWaiting" => pc[m] = "syncBlocking"
    BY <1>0, <1>5, TwoMedia, GotoMoves DEF RenderLoop, NextFrame, Wait, SpuriousWakeup
  <2>2. QED
    BY <2>1, TwoMedia DEF SyncInv
<1>6. CASE ShutdownFlag \/ StopStep
  <2>1. UNCHANGED time
    BY <1>6 DEF ShutdownFlag, StopStep, ShutdownNotifyStart, ShutdownNotifySync,
       StopVideo, StopAudio
  <2>2. QED
    BY <1>0, <1>6, <2>1, TwoMedia, ControlMoves DEF SyncInv
<1>7. CASE UNCHANGED clockVars
  BY <1>7 DEF clockVars, SyncInv
<1>8. QED
  BY <1>1, <1>2, <1>3, <1>4, <1>5, <1>6, <1>7 DEF ClockNext, RenderStep

-----------------------------------------------------------------------------
\* The inductive invariant holds in every reachable state of the clock.
THEOREM ClockInvariantHolds == ClockSpec => []ClockInv
<1>1. ClockInit => ClockInv
  BY ClockInitHolds
<1>2. ClockInv /\ [ClockNext]_clockVars => ClockInv'
  BY ClockTypeStep, LeadStep, UpdateStep, BarrierStep, SyncStep DEF ClockInv
<1>3. QED
  BY <1>1, <1>2, PTL DEF ClockSpec

\* The variables of the clock keep their types; startedThreads_, which is incremented
\* by every new thread, never passes startedThreadsToWait_.
THEOREM ClockTypeCorrect == ClockSpec => []ClockTypeOK
<1>1. ClockInv => ClockTypeOK
  BY DEF ClockInv
<1>2. QED
  BY <1>1, ClockInvariantHolds, PTL

\* For every MAX_DELTA and all frame durations, the medium that goes through Sync()
\* is ahead by less than MAX_DELTA and one of its frames.
THEOREM LeadStaysBounded == ClockSpec => []LeadIsBounded
<1>1. ClockInv => LeadIsBounded
  BY DEF ClockInv
<1>2. QED
  BY <1>1, ClockInvariantHolds, PTL

\* The barrier: no frame is taken before both rendering threads are there.
THEOREM PlaybackStartsTogether == ClockSpec => []StartTogether
<1>1. ClockInv => StartTogether
  <2> SUFFICES ASSUME ClockInv, ~isShutdown, NEW m \in Media, frames[m] # 0
               PROVE  startedThreads = 2
    BY DEF StartTogether
  <2>1. QED
    BY DEF ClockInv, BarrierInv
<1>2. QED
  BY <1>1, ClockInvariantHolds, PTL

\* The rendering threads never sleep both, at the barrier, in Sync() or one here and
\* one there.
THEOREM ThreadsDoNotWaitForEachOther == ClockSpec => []NoMutualWait
<1>1. ClockInv => NoMutualWait
  <2> SUFFICES ASSUME ClockInv,
                      \A m \in Media : pc[m] \in {"startBlocking", "startWaiting",
                                                "syncBlocking", "syncWaiting"}
               PROVE  FALSE
    BY DEF NoMutualWait
  <2>1. \A m \in Media : pc[m] \notin {"startBlocking", "startWaiting"}
    <3> SUFFICES ASSUME NEW m \in Media, pc[m] \in {"startBlocking", "startWaiting"}
                 PROVE  FALSE
      OBVIOUS
    <3>1. Arrived(m) = 1 /\ Arrived(Other(m)) = 1
      BY TwoMedia DEF ClockInv, BarrierInv, Arrived, AtBarrier, BehindBarrier
    <3>2. QED
      BY <3>1 DEF ClockInv, BarrierInv
  <2>2. \A m \in Media : time[m] - time[Other(m)] >= MaxDelta
    BY <2>1, TwoMedia DEF ClockInv, SyncInv
  <2>3. /\ time["audio"] \in Nat /\ time["video"] \in Nat
        /\ time["audio"] - time["video"] >= MaxDelta
        /\ time["video"] - time["audio"] >= MaxDelta
    BY <2>2 DEF ClockInv, ClockTypeOK, Media, Other
  <2>4. QED
    BY <2>3
<1>2. QED
  BY <1>1, ClockInvariantHolds, PTL
==============================================================================
