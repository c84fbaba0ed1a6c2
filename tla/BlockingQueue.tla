---------------------------- MODULE BlockingQueue ----------------------------
(***************************************************************************)
(* The queue template of include/common/blocking_queue.h, as every stage   *)
(* of the player uses it: one thread pushes, one thread pops, and the      *)
(* control thread (the Python main program) pauses, resumes and shuts the  *)
(* queue down.                                                             *)
(*                                                                         *)
(* A critical section of lock_ is one step, except that a thread whose     *)
(* predicate is false keeps the mutex until condition_variable::wait has   *)
(* put it among the waiters: Shutdown() takes no lock and may run in that  *)
(* window.  pc says which condition variable a thread waits on, so         *)
(* "popWaiting" is membership in the wait set of queueEmpty_ and           *)
(* "pushWaiting" in that of queueFull_.                                    *)
(***************************************************************************)
EXTENDS Naturals, Sequences

CONSTANTS UpperBound,   \* upperBound_
          NumItems      \* bound: samples the producing thread has to push

ASSUME UpperBoundAssumption == UpperBound \in Nat \ {0}
ASSUME NumItemsAssumption == NumItems \in Nat

VARIABLES deque,        \* deque_, oldest sample first: deque[1] is back()
          pushed,       \* samples pushed so far; they are numbered 1, 2, 3, ...
          result,       \* the sample the last pop() returned, 0 before that
          counter,      \* counterVal of this queue in the QueueCounter
          isShutdown,   \* isShutdown_
          isStopped,    \* isStopped_
          running,      \* the threads whose isRunning_ is still true
          pc            \* where each thread is

vars == <<deque, pushed, result, counter, isShutdown, isStopped, running, pc>>

Workers == {"producer", "consumer"}
Threads == Workers \cup {"control"}

ProducerLocations == {"loop", "pushing", "pushBlocking", "pushWaiting",
                      "pushWoken", "pushNotify", "exited"}
ConsumerLocations == {"loop", "popping", "popBlocking", "popWaiting",
                      "popWoken", "popNotify", "undefined", "exited"}
ControlLocations  == {"idle", "stopConsumer", "setShutdown",
                      "notifyEmpty", "notifyFull"}

Init == /\ deque = <<>>
        /\ pushed = 0
        /\ result = 0
        /\ counter = 0
        /\ isShutdown = FALSE
        /\ isStopped = FALSE
        /\ running = Workers
        /\ pc = [t \in Threads |-> IF t = "control" THEN "idle" ELSE "loop"]

-----------------------------------------------------------------------------
contents == <<deque, pushed, result, counter>>
flags == <<isShutdown, isStopped, running>>

Goto(t, l) == pc' = [pc EXCEPT ![t] = l]

\* The mutex lock_ outlives a step only in the hands of a thread that is about
\* to block.
LockFree == /\ pc["producer"] # "pushBlocking"
            /\ pc["consumer"] # "popBlocking"

SavePushBack(q, x) == <<x>> \o q   \* mutant: the wrong end of the deque

\* save(): push_front, the end opposite to the back() that pop() takes.
Save(q, x) == Append(q, x)

\* QueueCounter::IncQueue, called by every overload of save().
IncQueue(n) == n + 1

NotifyDropped(t, waiting, woken) == pc[t]   \* mutant: no notification

\* notify_one or notify_all on a condition variable with a single user t.
Notify(t, waiting, woken) == IF pc[t] = waiting THEN woken ELSE pc[t]

CanPopStopped == deque # <<>> \/ isShutdown   \* mutant: pops while paused

\* The predicate of queueEmpty_.
CanPop == (deque # <<>> /\ ~isStopped) \/ isShutdown

CanPushOneMore == Len(deque) <= UpperBound \/ isShutdown   \* mutant: off by one

\* The predicate of queueFull_.
CanPush == Len(deque) < UpperBound \/ isShutdown

-----------------------------------------------------------------------------
(* The producing thread: while (isRunning_) { ... push(x); ... }           *)

ProducerLoop ==
  /\ pc["producer"] = "loop"
  /\ \/ "producer" \in running /\ pushed < NumItems /\ Goto("producer", "pushing")
     \/ "producer" \notin running /\ Goto("producer", "exited")
  /\ UNCHANGED <<contents, flags>>

\* saveImpl(), predicate true: save and unlock.
Push ==
  /\ pc["producer"] \in {"pushing", "pushWoken"}
  /\ LockFree
  /\ CanPush
  /\ deque' = Save(deque, pushed + 1)
  /\ pushed' = pushed + 1
  /\ counter' = IncQueue(counter)
  /\ Goto("producer", "pushNotify")
  /\ UNCHANGED <<result, flags>>

\* saveImpl(), predicate false: the mutex is still held.
PushFull ==
  /\ pc["producer"] \in {"pushing", "pushWoken"}
  /\ LockFree
  /\ ~CanPush
  /\ Goto("producer", "pushBlocking")
  /\ UNCHANGED <<contents, flags>>

PushWait ==
  /\ pc["producer"] = "pushBlocking"
  /\ Goto("producer", "pushWaiting")
  /\ UNCHANGED <<contents, flags>>

\* queueEmpty_.notify_one() after the unlock; a thread that pushes all frames
\* of a fragment comes back without testing isRunning_ in between.
PushNotify ==
  /\ pc["producer"] = "pushNotify"
  /\ \E next \in {"loop"} \cup (IF pushed < NumItems THEN {"pushing"} ELSE {}) :
       pc' = [pc EXCEPT !["producer"] = next,
                        !["consumer"] = Notify("consumer", "popWaiting", "popWoken")]
  /\ UNCHANGED <<contents, flags>>

-----------------------------------------------------------------------------
(* The consuming thread: while (isRunning_) { x = pop(); ... }             *)

ConsumerLoop ==
  /\ pc["consumer"] = "loop"
  /\ Goto("consumer", IF "consumer" \in running THEN "popping" ELSE "exited")
  /\ UNCHANGED <<contents, flags>>

\* pop(), predicate true and something to take: take it and unlock.
Pop ==
  /\ pc["consumer"] \in {"popping", "popWoken"}
  /\ LockFree
  /\ CanPop
  /\ deque # <<>>
  /\ result' = Head(deque)
  /\ deque' = Tail(deque)
  /\ counter' = counter - 1
  /\ Goto("consumer", "popNotify")
  /\ UNCHANGED <<pushed, flags>>

\* pop(), predicate true by isShutdown_ alone: back() and pop_back() of an empty
\* deque are undefined, and nothing is said of the thread or the queue after it.
PopUndefined ==
  /\ pc["consumer"] \in {"popping", "popWoken"}
  /\ LockFree
  /\ CanPop
  /\ deque = <<>>
  /\ Goto("consumer", "undefined")
  /\ UNCHANGED <<contents, flags>>

PopEmpty ==
  /\ pc["consumer"] \in {"popping", "popWoken"}
  /\ LockFree
  /\ ~CanPop
  /\ Goto("consumer", "popBlocking")
  /\ UNCHANGED <<contents, flags>>

PopWait ==
  /\ pc["consumer"] = "popBlocking"
  /\ Goto("consumer", "popWaiting")
  /\ UNCHANGED <<contents, flags>>

PopNotify ==
  /\ pc["consumer"] = "popNotify"
  /\ pc' = [pc EXCEPT !["consumer"] = "loop",
                      !["producer"] = Notify("producer", "pushWaiting", "pushWoken")]
  /\ UNCHANGED <<contents, flags>>

\* std::condition_variable may wake a waiter that nobody notified.
SpuriousWakeup ==
  /\ \/ pc["producer"] = "pushWaiting" /\ Goto("producer", "pushWoken")
     \/ pc["consumer"] = "popWaiting" /\ Goto("consumer", "popWoken")
  /\ UNCHANGED <<contents, flags>>

-----------------------------------------------------------------------------
(* The control thread.                                                     *)

Stop ==
  /\ pc["control"] = "idle"
  /\ LockFree
  /\ isStopped' = TRUE
  /\ UNCHANGED <<contents, isShutdown, running, pc>>

Resume ==
  /\ pc["control"] = "idle"
  /\ LockFree
  /\ isStopped' = FALSE
  /\ Goto("consumer", Notify("consumer", "popWaiting", "popWoken"))
  /\ UNCHANGED <<contents, isShutdown, running>>

\* AdapterInterface::StopStream clears isRunning_ of the threads from the source
\* to the renderer, then shuts the queues down.
StopProducer ==
  /\ pc["control"] = "idle"
  /\ running' = running \ {"producer"}
  /\ Goto("control", "stopConsumer")
  /\ UNCHANGED <<contents, isShutdown, isStopped>>

StopConsumer ==
  /\ pc["control"] = "stopConsumer"
  /\ running' = running \ {"consumer"}
  /\ Goto("control", "setShutdown")
  /\ UNCHANGED <<contents, isShutdown, isStopped>>

\* Shutdown(): three statements, none of them under lock_.
ShutdownFlag ==
  /\ pc["control"] = "setShutdown"
  /\ isShutdown' = TRUE
  /\ Goto("control", "notifyEmpty")
  /\ UNCHANGED <<contents, isStopped, running>>

ShutdownNotifyEmpty ==
  /\ pc["control"] = "notifyEmpty"
  /\ pc' = [pc EXCEPT !["control"] = "notifyFull",
                      !["consumer"] = Notify("consumer", "popWaiting", "popWoken")]
  /\ UNCHANGED <<contents, flags>>

ShutdownNotifyFull ==
  /\ pc["control"] = "notifyFull"
  /\ pc' = [pc EXCEPT !["control"] = "idle",
                      !["producer"] = Notify("producer", "pushWaiting", "pushWoken")]
  /\ UNCHANGED <<contents, flags>>

-----------------------------------------------------------------------------
ProducerStep == ProducerLoop \/ Push \/ PushFull \/ PushWait \/ PushNotify
ConsumerStep == \/ ConsumerLoop \/ Pop \/ PopUndefined
                \/ PopEmpty \/ PopWait \/ PopNotify
PauseStep == Stop \/ Resume
StopStreamStep == \/ StopConsumer \/ ShutdownFlag
                  \/ ShutdownNotifyEmpty \/ ShutdownNotifyFull

Next == \/ ProducerStep
        \/ ConsumerStep
        \/ SpuriousWakeup
        \/ PauseStep
        \/ StopProducer
        \/ StopStreamStep

\* Threads are scheduled and lock_ does not starve a thread that keeps asking for
\* it (hence SF: it is held for a moment at a time); StopStream, once entered,
\* runs to its end.  Nobody has to pause, to resume or to stop.
Fairness == /\ SF_vars(ProducerStep)
            /\ SF_vars(ConsumerStep)
            /\ WF_vars(StopStreamStep)

Spec == Init /\ [][Next]_vars /\ Fairness

-----------------------------------------------------------------------------
(* Properties.                                                             *)

TypeOK ==
  /\ deque \in Seq(Nat)
  /\ pushed \in Nat
  /\ result \in Nat
  /\ counter \in Nat
  /\ isShutdown \in BOOLEAN
  /\ isStopped \in BOOLEAN
  /\ running \subseteq Workers
  /\ DOMAIN pc = Threads
  /\ pc["producer"] \in ProducerLocations
  /\ pc["consumer"] \in ConsumerLocations
  /\ pc["control"] \in ControlLocations

\* The deque holds exactly the samples between the last one popped and the last
\* one pushed, in push order, and the QueueCounter shows their number whatever
\* pop, push, pause and shutdown interleave.
ContentsInOrder ==
  /\ pushed = result + Len(deque)
  /\ \A i \in 1 .. Len(deque) : deque[i] = result + i
  /\ counter = Len(deque)

\* upperBound_ is respected until the queue is shut down; afterwards saveImpl()
\* does not look at the size any more.
BoundedUntilShutdown == Len(deque) <= UpperBound \/ isShutdown

\* No wakeup of push and pop is lost although both notify after the unlock: a
\* thread sleeps on a condition that has become true only as long as the thread
\* that made it true has its notify_one() still to do.
NoLostWakeup ==
  /\ pc["consumer"] = "popWaiting" /\ deque # <<>> /\ ~isStopped
       => pc["producer"] = "pushNotify"
  /\ pc["producer"] = "pushWaiting" /\ Len(deque) < UpperBound
       => pc["consumer"] = "popNotify"

\* What the mutex gives to NoLostWakeup: one thread at a time is between its
\* predicate and its wait, and nobody changes what it saw.
BlocksForAReason ==
  /\ pc["consumer"] = "popBlocking" => deque = <<>> \/ isStopped
  /\ pc["producer"] = "pushBlocking" => Len(deque) >= UpperBound
  /\ ~ (pc["consumer"] = "popBlocking" /\ pc["producer"] = "pushBlocking")

\* The two threads of a queue never wait for each other, unless it is paused.
NoMutualBlock ==
  ~ (pc["producer"] = "pushWaiting" /\ pc["consumer"] = "popWaiting" /\ ~isStopped)

\* The queue implements the channel, its promise of progress included.
Channel == INSTANCE SampleChannel WITH sent <- pushed, received <- result
ImplementsChannel == Channel!Spec

\* "stop reader and all threads": StopStream's Shutdown() wakes whoever waits on
\* the queue.  It fails when the flag and the notification fall between the
\* evaluation of the predicate and the wait.
ShutdownReleasesConsumer ==
  isShutdown ~> pc["consumer"] \notin {"popBlocking", "popWaiting"}
==============================================================================
