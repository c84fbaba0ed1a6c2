---------------------------- MODULE WidevineTimers ----------------------------
(***************************************************************************)
(* The timers of src/core/widevineAdapter.cc: SetTimer() of the CDM, which *)
(* may come from any of its threads, the timer thread that hands each      *)
(* context back when its time has come, and Init() and Shutdown() of the   *)
(* adapter around them.                                                    *)
(*                                                                         *)
(* timerMutex_ is kept from a predicate to the wait and every change is    *)
(* made with it, so a critical section that ends in a wait is one step.    *)
(* A CDM sets timers from its Initialize() on and until its Destroy()      *)
(* returns.  Contexts are numbered in the order in which they are set.     *)
(***************************************************************************)
EXTENDS Integers, FiniteSets

CONSTANTS MaxTimers,     \* bound: calls of SetTimer()
          MaxTime,       \* bound: time
          MaxInstances   \* bound: CDM instances created

ASSUME BoundsAssumption ==
  MaxTimers \in Nat /\ MaxTime \in Nat /\ MaxInstances \in Nat

VARIABLES
  cdmInstance, \* cdm_: the instance the adapter points to, 0 for nullptr
  alive,       \* the instances created and not yet destroyed
  created,     \* how many instances have been created
  stopTimers,  \* stopTimers_
  timers,      \* timers_: records of deadline, context and the instance that set it
  lastContext, \* contexts handed to SetTimer() so far
  now,         \* std::chrono::steady_clock
  thread,      \* the timer thread: where it is
  deadline,    \* the deadline it waits for
  expiring,    \* the timer it takes out and the cdm_ it read with it
  pc           \* the control thread

adapter == <<cdmInstance, alive, created, pc>>
clock == <<now, lastContext>>
timersVars == <<adapter, stopTimers, timers, clock, thread, deadline, expiring>>

NoTimer == [deadline |-> 0, context |-> 0, owner |-> 0]
NotExpiring == [timer |-> NoTimer, cdm |-> 0]

TimersInit == /\ cdmInstance = 0
              /\ alive = {}
              /\ created = 0
              /\ stopTimers = FALSE
              /\ timers = {}
              /\ lastContext = 0
              /\ now = 0
              /\ thread = "none"
              /\ deadline = 0
              /\ expiring = NotExpiring
              /\ pc = "idle"

-----------------------------------------------------------------------------
\* The order of the multimap: by deadline, then by insertion.
IsFirst(t) == \A u \in timers \ {t} :
                \/ t.deadline < u.deadline
                \/ t.deadline = u.deadline /\ t.context < u.context

NotifyNobody == UNCHANGED thread   \* mutant: no notification

\* Out of wait() the predicate is looked at again, out of wait_until() the time.
Woken == CASE thread = "emptyWaiting" -> "check"
           [] thread = "untilWaiting" -> "awake"
           [] OTHER -> thread

\* timerChanged_.notify_all(), whichever of its two waits the thread is in.
NotifyTimerThread == thread' = Woken

-----------------------------------------------------------------------------
(* The timer thread: TimerLoop().                                          *)

\* With the mutex: the loop condition, then one of the two waits.
TimerCheck ==
  /\ thread = "check"
  /\ \/ stopTimers /\ thread' = "exited" /\ UNCHANGED deadline
     \/ ~stopTimers /\ timers = {} /\ thread' = "emptyWaiting" /\ UNCHANGED deadline
     \/ ~stopTimers /\ \E t \in timers : /\ IsFirst(t)
                                         /\ deadline' = t.deadline
                                         /\ thread' = "untilWaiting"
  /\ UNCHANGED <<adapter, stopTimers, timers, clock, expiring>>

\* wait_until() gives up; the mutex may go to somebody else first.
WaitTimesOut ==
  /\ thread = "untilWaiting"
  /\ now >= deadline
  /\ thread' = Woken
  /\ UNCHANGED <<adapter, stopTimers, timers, clock, deadline, expiring>>

SpuriousWakeup ==
  /\ thread \in {"emptyWaiting", "untilWaiting"}
  /\ thread' = Woken
  /\ UNCHANGED <<adapter, stopTimers, timers, clock, deadline, expiring>>

IsDueUnchecked(t) == ~stopTimers /\ IsFirst(t)   \* mutant: the map is as it was before
IsDue(t) == ~stopTimers /\ IsFirst(t) /\ t.deadline <= now

\* With the mutex again, whatever the wait ended for: past the deadline the first
\* timer is taken out, unless nothing is due after all.
TakeTimer ==
  /\ thread = "awake"
  /\ \/ \E t \in timers : /\ now >= deadline
                          /\ IsDue(t)
                          /\ timers' = timers \ {t}
                          /\ expiring' = [timer |-> t, cdm |-> cdmInstance]
                          /\ thread' = "calling"
     \/ /\ now < deadline \/ \A t \in timers : ~IsDue(t)
        /\ thread' = "check"
        /\ UNCHANGED <<timers, expiring>>
  /\ UNCHANGED <<adapter, stopTimers, clock, deadline>>

\* TimerExpired(), without the mutex, returns; nullptr is not called.
TimerExpired ==
  /\ thread = "calling"
  /\ expiring' = NotExpiring
  /\ thread' = "check"
  /\ UNCHANGED <<adapter, stopTimers, timers, clock, deadline>>

-----------------------------------------------------------------------------
(* The CDM, on any thread.                                                 *)

DeadlineOf(delay) == now + delay

SetTimer ==
  /\ lastContext < MaxTimers
  /\ \E instance \in alive, delay \in 0 .. MaxTime :
       /\ now + delay <= MaxTime
       /\ timers' = IF stopTimers THEN timers ELSE timers \cup
            {[deadline |-> DeadlineOf(delay), context |-> lastContext + 1, owner |-> instance]}
  /\ lastContext' = lastContext + 1
  /\ IF stopTimers THEN UNCHANGED thread ELSE NotifyTimerThread
  /\ UNCHANGED <<adapter, stopTimers, now, deadline, expiring>>

Tick ==
  /\ now < MaxTime
  /\ now' = now + 1
  /\ UNCHANGED <<adapter, stopTimers, timers, lastContext, thread, deadline, expiring>>

-----------------------------------------------------------------------------
(* Init() and Shutdown().  AdapterInterface::Init is tried again when the   *)
(* second of the two adapters has failed, the first one's cdm_ being set.   *)

StartTimers ==
  /\ pc = "idle"
  /\ created < MaxInstances
  /\ stopTimers' = FALSE
  /\ timers' = {}
  /\ thread' = IF thread = "none" THEN "check" ELSE thread
  /\ pc' = "create"
  /\ UNCHANGED <<cdmInstance, alive, created, clock, deadline, expiring>>

CreateCdm ==
  /\ pc = "create"
  /\ \/ /\ created' = created + 1
        /\ alive' = alive \cup {created + 1}
        /\ cdmInstance' = created + 1
        /\ pc' \in {"idle", "stop"}    \* Initialize() succeeds or fails
     \/ /\ pc' = "stop"                \* dlopen fails, or CreateCdmInstance
        /\ cdmInstance' \in {cdmInstance, 0}
        /\ UNCHANGED <<created, alive>>
  /\ UNCHANGED <<stopTimers, timers, clock, thread, deadline, expiring>>

BeginTimerShutdown ==
  /\ pc = "idle"
  /\ pc' = "stop"
  /\ UNCHANGED <<cdmInstance, alive, created, stopTimers, timers, clock, thread, deadline, expiring>>

StopTimers ==
  /\ pc = "stop"
  /\ stopTimers' = TRUE
  /\ timers' = {}
  /\ pc' = "notify"
  /\ UNCHANGED <<cdmInstance, alive, created, clock, thread, deadline, expiring>>

NotifyStop ==
  /\ pc = "notify"
  /\ NotifyTimerThread
  /\ pc' = "join"
  /\ UNCHANGED <<cdmInstance, alive, created, stopTimers, timers, clock, deadline, expiring>>

JoinedAnyway == TRUE   \* mutant: detach() for join()
Joined == thread \in {"exited", "none"}

JoinTimerThread ==
  /\ pc = "join"
  /\ Joined
  /\ thread' = IF thread = "exited" THEN "none" ELSE thread
  /\ pc' = "destroy"
  /\ UNCHANGED <<cdmInstance, alive, created, stopTimers, timers, clock, deadline, expiring>>

DestroyCdm ==
  /\ pc = "destroy"
  /\ alive' = alive \ {cdmInstance}
  /\ cdmInstance' = 0
  /\ pc' = "idle"
  /\ UNCHANGED <<created, stopTimers, timers, clock, thread, deadline, expiring>>

-----------------------------------------------------------------------------
TimerThread == TimerCheck \/ WaitTimesOut \/ TakeTimer \/ TimerExpired
Control == CreateCdm \/ StopTimers \/ NotifyStop \/ JoinTimerThread \/ DestroyCdm

TimersNext == \/ TimerThread \/ SpuriousWakeup
              \/ SetTimer \/ Tick
              \/ StartTimers \/ BeginTimerShutdown \/ Control

\* The thread is scheduled and TimerExpired() returns, time passes, Init() and
\* Shutdown() are finished once begun.
Fairness == WF_timersVars(TimerThread) /\ WF_timersVars(Tick) /\ WF_timersVars(Control)

TimersSpec == TimersInit /\ [][TimersNext]_timersVars /\ Fairness

-----------------------------------------------------------------------------
(* Properties.                                                             *)

\* TimerExpired() is never called on a CDM that is gone: Shutdown() joins the timer
\* thread before it destroys what the thread has read from cdm_.
ExpiresOnLiveCdm == thread = "calling" /\ expiring.cdm # 0 => expiring.cdm \in alive

\* A context comes back no earlier than the CDM asked for, although the map may have
\* been emptied and filled again between the timeout and the mutex.
NeverEarly == thread = "calling" => expiring.timer.deadline <= now

\* A timer is handed back, or dropped by Init() or Shutdown(); the thread sleeps
\* through none, not through one set while it waits for a later one either.
TimersExpire == \A c \in 1 .. MaxTimers :
  (\E t \in timers : t.context = c) ~> (\A t \in timers : t.context # c)

\* Shutdown() and Init() return: the join does not wait for a thread that waits.
ShutdownReturns == pc # "idle" ~> pc = "idle"

\* "prevent double initialization": the adapter drives one CDM at a time, and a
\* context goes back to the instance that set it.
NoDoubleInitialization == Cardinality(alive) <= 1
==============================================================================
