-------------------------------- MODULE Clock --------------------------------
(***************************************************************************)
(* The Clock of src/core/clock.cc, which keeps the two rendering threads   *)
(* together: they start playing at the same moment (SetStartTime) and the  *)
(* one that is ahead waits for the other (Sync).  As in BlockingQueue,     *)
(* Shutdown() takes no lock, so a thread whose predicate is false holds    *)
(* the mutex until its wait has begun.  Times are in some unit in which    *)
(* MAX_DELTA and the frame durations are whole numbers.                    *)
(***************************************************************************)
EXTENDS Integers, FiniteSets

CONSTANTS MaxDelta,    \* MAX_DELTA
          Durations,   \* the frame durations of each medium
          NumFrames,   \* bound: the frames of each medium
          Builds       \* for each build the media that call UpdateAudioTime()

Media == {"audio", "video"}
ClockThreads == Media \cup {"control"}

ASSUME MaxDeltaAssumption == MaxDelta \in Nat \ {0}
ASSUME DurationsAssumption == Durations \in [Media -> SUBSET Nat]
ASSUME NumFramesAssumption == NumFrames \in [Media -> Nat]
ASSUME BuildsAssumption == Builds \subseteq SUBSET {"audio"}

VARIABLES
  selfTimed,       \* of this build: {"audio"} with RASPBERRY_PI defined, otherwise {}
  time,            \* audioTime_ and videoTime_
  startedThreads,  \* startedThreads_
  registered,      \* the threads that have an entry in threadIdStartTimeMapping_
  isShutdown,      \* isShutdown_
  frames,          \* frames each rendering thread has popped
  running,         \* the rendering threads whose own isRunning_ is still true
  pc

clockVars == <<selfTimed, time, startedThreads, registered, isShutdown, frames, running, pc>>
barrier == <<startedThreads, registered>>

ClockInit == /\ selfTimed \in Builds
             /\ time = [m \in Media |-> 0]
             /\ startedThreads = 0
             /\ registered = {}
             /\ isShutdown = FALSE
             /\ frames = [m \in Media |-> 0]
             /\ running = Media
             /\ pc = [t \in ClockThreads |-> IF t = "control" THEN "idle" ELSE "loop"]

-----------------------------------------------------------------------------
Other(m) == IF m = "audio" THEN "video" ELSE "audio"

Goto(t, l) == pc' = [pc EXCEPT ![t] = l]

LockFree == \A m \in Media : pc[m] \notin {"startBlocking", "syncBlocking"}

NotificationDropped(m, l, waiting, woken) == Goto(m, l)   \* mutant

\* m moves on to l and notifies the other thread on the condition variable whose
\* waiters are at the location waiting.
GotoAndNotify(m, l, waiting, woken) ==
  pc' = [pc EXCEPT ![m] = l,
                   ![Other(m)] = IF @ = waiting THEN woken ELSE @]

HasStartedOne(n) == n >= 1 \/ isShutdown   \* mutant: the first one goes ahead

\* The predicate of waitTillStarted_, startedThreadsToWait_ being 2.
HasStarted(n) == n = 2 \/ isShutdown

\* mutant: the medium that is behind waits
InSyncSwapped(m) == time[Other(m)] - time[m] < MaxDelta \/ isShutdown

\* The predicate of syncCond_.
InSync(m) == time[m] - time[Other(m)] < MaxDelta \/ isShutdown

-----------------------------------------------------------------------------
(* The rendering threads: while (isRunning_) { SetStartTime(); pop();      *)
(* Render(); Sync() or UpdateAudioTime(); }                                *)

RenderLoop(m) ==
  /\ pc[m] = "loop"
  /\ Goto(m, IF m \notin running THEN "exited"
             ELSE IF m \in registered THEN "frame" ELSE "start")
  /\ UNCHANGED <<selfTimed, time, barrier, isShutdown, frames, running>>

\* SetStartTime() of a thread not seen before, and its wakeup later: through the
\* barrier, or wait.  The one who gets through notifies with the lock held.
PassBarrier(m) ==
  /\ registered' = registered \cup {m}
  /\ GotoAndNotify(m, "frame", "startWaiting", "startWoken")

SetStartTime(m) ==
  /\ pc[m] = "start"
  /\ LockFree
  /\ startedThreads' = startedThreads + 1
  /\ \/ HasStarted(startedThreads + 1) /\ PassBarrier(m)
     \/ ~HasStarted(startedThreads + 1) /\ Goto(m, "startBlocking") /\ UNCHANGED registered
  /\ UNCHANGED <<selfTimed, time, isShutdown, frames, running>>

StartWoken(m) ==
  /\ pc[m] = "startWoken"
  /\ LockFree
  /\ \/ HasStarted(startedThreads) /\ PassBarrier(m)
     \/ ~HasStarted(startedThreads) /\ Goto(m, "startBlocking") /\ UNCHANGED registered
  /\ UNCHANGED <<selfTimed, time, startedThreads, isShutdown, frames, running>>

\* pop() and Render(); behind the last frame the thread stays in pop().
NextFrame(m) ==
  /\ pc[m] = "frame"
  /\ frames[m] < NumFrames[m]
  /\ frames' = [frames EXCEPT ![m] = @ + 1]
  /\ Goto(m, IF m \in selfTimed THEN "update" ELSE "sync")
  /\ UNCHANGED <<selfTimed, time, barrier, isShutdown, running>>

Advance(m) == \E d \in Durations[m] : time' = [time EXCEPT ![m] = @ + d]

\* Sync(): advance the own time and unlock, or wait for the other medium.
Sync(m) ==
  /\ pc[m] \in {"sync", "syncWoken"}
  /\ LockFree
  /\ \/ InSync(m) /\ Advance(m) /\ Goto(m, "syncNotify")
     \/ ~InSync(m) /\ Goto(m, "syncBlocking") /\ UNCHANGED time
  /\ UNCHANGED <<selfTimed, barrier, isShutdown, frames, running>>

\* The notification after the unlock, then the sleep to the end of the frame.
SyncNotify(m) ==
  /\ pc[m] = "syncNotify"
  /\ GotoAndNotify(m, "loop", "syncWaiting", "syncWoken")
  /\ UNCHANGED <<selfTimed, time, barrier, isShutdown, frames, running>>

\* UpdateAudioTime(): no waiting, and the notification under the lock.
UpdateAudioTime(m) ==
  /\ pc[m] = "update"
  /\ LockFree
  /\ Advance(m)
  /\ GotoAndNotify(m, "loop", "syncWaiting", "syncWoken")
  /\ UNCHANGED <<selfTimed, barrier, isShutdown, frames, running>>

\* condition_variable::wait: give the mutex back and sleep, or wake up for nothing.
Wait(m) ==
  /\ \/ pc[m] = "startBlocking" /\ Goto(m, "startWaiting")
     \/ pc[m] = "syncBlocking" /\ Goto(m, "syncWaiting")
  /\ UNCHANGED <<selfTimed, time, barrier, isShutdown, frames, running>>

SpuriousWakeup(m) ==
  /\ \/ pc[m] = "startWaiting" /\ Goto(m, "startWoken")
     \/ pc[m] = "syncWaiting" /\ Goto(m, "syncWoken")
  /\ UNCHANGED <<selfTimed, time, barrier, isShutdown, frames, running>>

-----------------------------------------------------------------------------
(* AdapterInterface::StopStream shuts the clock down before anything else. *)

ShutdownFlag ==
  /\ pc["control"] = "idle"
  /\ isShutdown' = TRUE
  /\ Goto("control", "notifyStart")
  /\ UNCHANGED <<selfTimed, time, barrier, frames, running>>

NotifyAll(waiting, woken, l) ==
  pc' = [t \in ClockThreads |-> IF t = "control" THEN l
                                ELSE IF pc[t] = waiting THEN woken ELSE pc[t]]

ShutdownNotifyStart ==
  /\ pc["control"] = "notifyStart"
  /\ NotifyAll("startWaiting", "startWoken", "notifySync")
  /\ UNCHANGED <<selfTimed, time, barrier, isShutdown, frames, running>>

ShutdownNotifySync ==
  /\ pc["control"] = "notifySync"
  /\ NotifyAll("syncWaiting", "syncWoken", "stopVideo")
  /\ UNCHANGED <<selfTimed, time, barrier, isShutdown, frames, running>>

StopVideo ==
  /\ pc["control"] = "stopVideo"
  /\ running' = running \ {"video"}
  /\ Goto("control", "stopAudio")
  /\ UNCHANGED <<selfTimed, time, barrier, isShutdown, frames>>

StopAudio ==
  /\ pc["control"] = "stopAudio"
  /\ running' = running \ {"audio"}
  /\ Goto("control", "idle")
  /\ UNCHANGED <<selfTimed, time, barrier, isShutdown, frames>>

-----------------------------------------------------------------------------
RenderStep(m) == \/ RenderLoop(m) \/ SetStartTime(m) \/ StartWoken(m) \/ NextFrame(m)
                 \/ Sync(m) \/ SyncNotify(m) \/ UpdateAudioTime(m) \/ Wait(m)
StopStep == ShutdownNotifyStart \/ ShutdownNotifySync \/ StopVideo \/ StopAudio

ClockNext == \/ \E m \in Media : RenderStep(m) \/ SpuriousWakeup(m)
             \/ ShutdownFlag \/ StopStep

\* Both rendering threads are scheduled, frames arrive up to the last one, the
\* mutex starves nobody, and a StopStream once begun is finished.
ClockFairness == /\ \A m \in Media : SF_clockVars(RenderStep(m))
                 /\ WF_clockVars(StopStep)

ClockSpec == ClockInit /\ [][ClockNext]_clockVars /\ ClockFairness

-----------------------------------------------------------------------------
(* Properties.                                                             *)

RenderLocations ==
  {"loop", "start", "startBlocking", "startWaiting", "startWoken", "frame", "sync",
   "syncBlocking", "syncWaiting", "syncWoken", "syncNotify", "update", "exited"}
ControlLocations == {"idle", "notifyStart", "notifySync", "stopVideo", "stopAudio"}

ClockTypeOK ==
  /\ selfTimed \subseteq {"audio"}
  /\ time \in [Media -> Nat]
  /\ startedThreads \in 0 .. 2
  /\ registered \subseteq Media
  /\ isShutdown \in BOOLEAN
  /\ frames \in [Media -> Nat]
  /\ running \subseteq Media
  /\ DOMAIN pc = ClockThreads
  /\ \A m \in Media : pc[m] \in RenderLocations
  /\ pc["control"] \in ControlLocations

\* Until the shutdown a medium that goes through Sync() is never ahead of the
\* other by MAX_DELTA and one of its frames.
LeadIsBounded ==
  \A m \in Media \ selfTimed :
    \/ isShutdown
    \/ \E d \in Durations[m] \cup {0} : time[m] - time[Other(m)] < MaxDelta + d

\* Nothing is rendered before both rendering threads have arrived.
StartTogether ==
  isShutdown \/ (\A m \in Media : frames[m] = 0) \/ startedThreads = 2

\* The two threads never wait for each other.
NoMutualWait ==
  ~ \A m \in Media : pc[m] \in {"startBlocking", "startWaiting", "syncBlocking", "syncWaiting"}

\* Two media of the same length are played to their ends unless the clock is
\* shut down.
PlaybackCompletes == <>(isShutdown \/ frames = NumFrames)
==============================================================================
