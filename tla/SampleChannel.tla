---------------------------- MODULE SampleChannel ----------------------------
(***************************************************************************)
(* What a BlockingQueue promises to the two threads of the player that     *)
(* share it, without its mutex and its condition variables: samples, named *)
(* 1, 2, 3 ... in the order of the push calls, come out in that order, no  *)
(* sample is lost or delivered twice, at most UpperBound samples are held  *)
(* until the queue is shut down, and while the queue is neither stopped    *)
(* nor shut down a sample that can be moved is moved eventually.           *)
(***************************************************************************)
EXTENDS Naturals

CONSTANTS UpperBound,   \* BlockingQueue::upperBound_
          NumItems      \* bound: samples the producing thread has to push

VARIABLES sent,         \* the number of the last sample accepted
          received,     \* the number of the last sample delivered
          isStopped,    \* playback is paused (BlockingQueue::isStopped_)
          isShutdown    \* the queue is shut down (BlockingQueue::isShutdown_)

vars == <<sent, received, isStopped, isShutdown>>

Init == /\ sent = 0
        /\ received = 0
        /\ isStopped = FALSE
        /\ isShutdown = FALSE

Send == /\ sent < NumItems
        /\ sent - received < UpperBound \/ isShutdown
        /\ sent' = sent + 1
        /\ UNCHANGED <<received, isStopped, isShutdown>>

Receive == /\ received < sent
           /\ ~isStopped \/ isShutdown
           /\ received' = received + 1
           /\ UNCHANGED <<sent, isStopped, isShutdown>>

Pause == /\ isStopped' \in BOOLEAN
         /\ UNCHANGED <<sent, received, isShutdown>>

Shutdown == /\ isShutdown' = TRUE
            /\ UNCHANGED <<sent, received, isStopped>>

Next == Send \/ Receive \/ Pause \/ Shutdown

\* The promise of progress ends with the shutdown: from then on threads leave.
Fairness == /\ WF_vars(Send /\ ~isShutdown)
            /\ WF_vars(Receive /\ ~isShutdown)

Spec == Init /\ [][Next]_vars /\ Fairness
==============================================================================
