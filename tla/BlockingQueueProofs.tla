------------------------- MODULE BlockingQueueProofs -------------------------
(***************************************************************************)
(* What TLC finds on a queue of two slots, for every bound and every       *)
(* number of samples.                                                      *)
(***************************************************************************)
EXTENDS BlockingQueue, SequenceTheorems, TLAPS

\* A thread inside push() still holds one of its samples.
PushesOneOfItems ==
  pc["producer"] \in {"pushing", "pushBlocking", "pushWaiting", "pushWoken"}
    => pushed < NumItems

\* The bookkeeping alone is not inductive: what a thread saw before it blocked
\* has to be carried along (BlocksForAReason).
IInv == /\ TypeOK
        /\ ContentsInOrder
        /\ BoundedUntilShutdown
        /\ BlocksForAReason
        /\ NoLostWakeup
        /\ PushesOneOfItems

USE UpperBoundAssumption, NumItemsAssumption

\* What push does to a sequence of samples.
LEMMA PushedDeque ==
  ASSUME NEW q \in Seq(Nat), NEW e \in Nat
  PROVE  /\ Append(q, e) \in Seq(Nat)
         /\ Append(q, e) # <<>>
         /\ Len(Append(q, e)) = Len(q) + 1
         /\ \A i \in 1 .. Len(q) : Append(q, e)[i] = q[i]
         /\ Append(q, e)[Len(q) + 1] = e
<1>1. Len(q) \in Nat
  BY LenProperties
<1>2. QED
  BY <1>1, AppendProperties

\* What pop does to a sequence of samples.
LEMMA PoppedDeque ==
  ASSUME NEW q \in Seq(Nat), q # <<>>
  PROVE  /\ Len(q) \in Nat \ {0}
         /\ Head(q) = q[1]
         /\ Head(q) \in Nat
         /\ Tail(q) \in Seq(Nat)
         /\ Len(Tail(q)) = Len(q) - 1
         /\ \A i \in 1 .. Len(Tail(q)) : Tail(q)[i] = q[i + 1]
BY HeadTailProperties, EmptySeq

\* An empty queue with both threads at the head of their loops.
LEMMA InitHolds == Init => IInv
<1> SUFFICES ASSUME Init
             PROVE  IInv
  OBVIOUS
<1>1. TypeOK
  BY EmptySeq DEF Init, TypeOK, Threads, Workers, ProducerLocations,
     ConsumerLocations, ControlLocations
<1>2. ContentsInOrder /\ BoundedUntilShutdown
  BY EmptySeq DEF Init, ContentsInOrder, BoundedUntilShutdown
<1>3. BlocksForAReason /\ NoLostWakeup /\ PushesOneOfItems
  BY DEF Init, BlocksForAReason, NoLostWakeup, PushesOneOfItems, Threads, Workers
<1>4. QED
  BY <1>1, <1>2, <1>3 DEF IInv

\* Only the steps that touch the deque change the numbering of the samples.
LEMMA ContentsStep == TypeOK /\ ContentsInOrder /\ [Next]_vars => ContentsInOrder'
<1> SUFFICES ASSUME TypeOK, ContentsInOrder, [Next]_vars
             PROVE  ContentsInOrder'
  OBVIOUS
<1>0. /\ deque \in Seq(Nat) /\ pushed \in Nat /\ result \in Nat
      /\ counter \in Nat /\ Len(deque) \in Nat
  BY LenProperties DEF TypeOK
<1>1. CASE UNCHANGED contents
  BY <1>1 DEF contents, ContentsInOrder
<1>2. CASE Push
  <2>1. /\ Len(deque') = Len(deque) + 1
        /\ \A i \in 1 .. Len(deque) : deque'[i] = deque[i]
        /\ deque'[Len(deque) + 1] = pushed + 1
    BY <1>0, <1>2, PushedDeque DEF Push, Save, IncQueue
  <2>2. \A i \in 1 .. Len(deque') : deque'[i] = result + i
    BY <1>0, <2>1 DEF ContentsInOrder
  <2>3. QED
    BY <1>0, <1>2, <2>1, <2>2 DEF Push, IncQueue, ContentsInOrder
<1>3. CASE Pop
  <2>1. /\ result' = deque[1] /\ Len(deque) \in Nat \ {0}
        /\ Len(deque') = Len(deque) - 1
        /\ \A i \in 1 .. Len(deque') : deque'[i] = deque[i + 1]
    BY <1>0, <1>3, PoppedDeque DEF Pop
  <2>2. result' = result + 1
    BY <1>0, <2>1 DEF ContentsInOrder
  <2>3. \A i \in 1 .. Len(deque') : deque'[i] = result' + i
    BY <1>0, <2>1, <2>2 DEF ContentsInOrder
  <2>4. QED
    BY <1>0, <1>3, <2>1, <2>2, <2>3 DEF Pop, ContentsInOrder
<1>4. QED
  BY <1>1, <1>2, <1>3 DEF Next, ProducerStep, ConsumerStep, PauseStep, StopStreamStep,
     ProducerLoop, PushFull, PushWait, PushNotify, ConsumerLoop, PopUndefined,
     PopEmpty, PopWait, PopNotify, SpuriousWakeup, Stop, Resume, StopProducer,
     StopConsumer, ShutdownFlag, ShutdownNotifyEmpty, ShutdownNotifyFull,
     contents, vars

\* Types, one step per action.
LEMMA TypeStep == TypeOK /\ ContentsInOrder /\ [Next]_vars => TypeOK'
<1> SUFFICES ASSUME TypeOK, ContentsInOrder, [Next]_vars
             PROVE  TypeOK'
  OBVIOUS
<1> USE DEF TypeOK, Threads, Workers, ProducerLocations, ConsumerLocations, ControlLocations, contents, flags, Goto, Notify
<1>1. CASE ProducerLoop
  BY <1>1 DEF ProducerLoop
<1>2. CASE Push
  BY <1>2, PushedDeque DEF Push, Save, IncQueue
<1>3. CASE PushFull
  BY <1>3 DEF PushFull
<1>4. CASE PushWait
  BY <1>4 DEF PushWait
<1>5. CASE PushNotify
  BY <1>5 DEF PushNotify
<1>6. CASE ConsumerLoop
  BY <1>6 DEF ConsumerLoop
<1>7. CASE Pop
  BY <1>7, PoppedDeque DEF Pop, ContentsInOrder
<1>8. CASE PopUndefined
  BY <1>8 DEF PopUndefined
<1>9. CASE PopEmpty
  BY <1>9 DEF PopEmpty
<1>10. CASE PopWait
  BY <1>10 DEF PopWait
<1>11. CASE PopNotify
  BY <1>11 DEF PopNotify
<1>12. CASE SpuriousWakeup
  BY <1>12 DEF SpuriousWakeup
<1>13. CASE PauseStep
  BY <1>13 DEF PauseStep, Stop, Resume
<1>14. CASE StopProducer \/ StopStreamStep
  BY <1>14 DEF StopProducer, StopStreamStep, StopConsumer, ShutdownFlag,
     ShutdownNotifyEmpty, ShutdownNotifyFull
<1>15. CASE UNCHANGED vars
  BY <1>15 DEF vars
<1>16. QED
  BY <1>1, <1>2, <1>3, <1>4, <1>5, <1>6, <1>7, <1>8, <1>9, <1>10, <1>11, <1>12,
     <1>13, <1>14, <1>15 DEF Next, ProducerStep, ConsumerStep

\* Before the shutdown a push finds a free slot, and nothing else adds samples.
LEMMA BoundStep ==
  TypeOK /\ BoundedUntilShutdown /\ [Next]_vars => BoundedUntilShutdown'
<1> SUFFICES ASSUME TypeOK, BoundedUntilShutdown, [Next]_vars
             PROVE  BoundedUntilShutdown'
  OBVIOUS
<1>0. deque \in Seq(Nat) /\ Len(deque) \in Nat /\ pushed \in Nat
  BY LenProperties DEF TypeOK
<1>1. CASE UNCHANGED <<deque, isShutdown>>
  BY <1>1 DEF BoundedUntilShutdown
<1>2. CASE Push
  BY <1>0, <1>2, PushedDeque DEF Push, Save, CanPush, BoundedUntilShutdown, flags
<1>3. CASE Pop
  BY <1>0, <1>3, PoppedDeque DEF Pop, BoundedUntilShutdown, flags
<1>4. CASE ShutdownFlag
  BY <1>4 DEF ShutdownFlag, BoundedUntilShutdown
<1>5. QED
  BY <1>1, <1>2, <1>3, <1>4 DEF Next, ProducerStep, ConsumerStep, PauseStep,
     StopStreamStep, ProducerLoop, PushFull, PushWait, PushNotify, ConsumerLoop,
     PopUndefined, PopEmpty, PopWait, PopNotify, SpuriousWakeup, Stop, Resume,
     StopProducer, StopConsumer, ShutdownNotifyEmpty, ShutdownNotifyFull,
     contents, flags, vars

\* While a thread is about to block nobody else gets the mutex, so what its
\* predicate saw stays true.
LEMMA BlocksStep ==
  TypeOK /\ BlocksForAReason /\ [Next]_vars => BlocksForAReason'
<1> SUFFICES ASSUME TypeOK, BlocksForAReason, [Next]_vars
             PROVE  BlocksForAReason'
  OBVIOUS
<1>0. Len(deque) \in Nat
  BY LenProperties DEF TypeOK
<1> USE DEF TypeOK, Threads, Workers, contents, flags, Goto, Notify, BlocksForAReason
<1>1. CASE ProducerLoop \/ PushWait \/ PushNotify
  BY <1>1 DEF ProducerLoop, PushWait, PushNotify
<1>2. CASE Push
  BY <1>2 DEF Push, LockFree
<1>3. CASE PushFull
  BY <1>0, <1>3 DEF PushFull, LockFree, CanPush
<1>4. CASE ConsumerLoop \/ PopUndefined \/ PopWait \/ PopNotify
  BY <1>4 DEF ConsumerLoop, PopUndefined, PopWait, PopNotify
<1>5. CASE Pop
  BY <1>5 DEF Pop, LockFree
<1>6. CASE PopEmpty
  BY <1>6 DEF PopEmpty, LockFree, CanPop
<1>7. CASE SpuriousWakeup
  BY <1>7 DEF SpuriousWakeup
<1>8. CASE PauseStep
  BY <1>8 DEF PauseStep, Stop, Resume, LockFree
<1>9. CASE StopProducer \/ StopStreamStep
  BY <1>9 DEF StopProducer, StopStreamStep, StopConsumer, ShutdownFlag,
     ShutdownNotifyEmpty, ShutdownNotifyFull
<1>10. CASE UNCHANGED vars
  BY <1>10 DEF vars
<1>11. QED
  BY <1>1, <1>2, <1>3, <1>4, <1>5, <1>6, <1>7, <1>8, <1>9, <1>10
     DEF Next, ProducerStep, ConsumerStep

\* A condition becomes true only by a step whose thread has its notification
\* still to do, and a thread goes to sleep only on a false condition.
LEMMA WakeupStep ==
  TypeOK /\ BlocksForAReason /\ NoLostWakeup /\ [Next]_vars => NoLostWakeup'
<1> SUFFICES ASSUME TypeOK, BlocksForAReason, NoLostWakeup, [Next]_vars
             PROVE  NoLostWakeup'
  OBVIOUS
<1>0. Len(deque) \in Nat
  BY LenProperties DEF TypeOK
<1> USE DEF TypeOK, Threads, Workers, contents, flags, Goto, Notify, NoLostWakeup
<1>1. CASE ProducerLoop \/ PushFull \/ PushNotify
  BY <1>1 DEF ProducerLoop, PushFull, PushNotify
<1>2. CASE Push
  BY <1>2 DEF Push
<1>3. CASE PushWait
  BY <1>0, <1>3 DEF PushWait, BlocksForAReason
<1>4. CASE ConsumerLoop \/ PopUndefined \/ PopEmpty \/ PopNotify
  BY <1>4 DEF ConsumerLoop, PopUndefined, PopEmpty, PopNotify
<1>5. CASE Pop
  BY <1>5 DEF Pop
<1>6. CASE PopWait
  BY <1>6 DEF PopWait, BlocksForAReason
<1>7. CASE SpuriousWakeup
  BY <1>7 DEF SpuriousWakeup
<1>8. CASE PauseStep
  BY <1>8 DEF PauseStep, Stop, Resume
<1>9. CASE StopProducer \/ StopStreamStep
  BY <1>9 DEF StopProducer, StopStreamStep, StopConsumer, ShutdownFlag,
     ShutdownNotifyEmpty, ShutdownNotifyFull
<1>10. CASE UNCHANGED vars
  BY <1>10 DEF vars
<1>11. QED
  BY <1>1, <1>2, <1>3, <1>4, <1>5, <1>6, <1>7, <1>8, <1>9, <1>10
     DEF Next, ProducerStep, ConsumerStep

\* push() is called with one of the samples and only Push uses one up.
LEMMA ItemsStep ==
  TypeOK /\ PushesOneOfItems /\ [Next]_vars => PushesOneOfItems'
<1> SUFFICES ASSUME TypeOK, PushesOneOfItems, [Next]_vars
             PROVE  PushesOneOfItems'
  OBVIOUS
<1> USE DEF TypeOK, Threads, Workers, contents, flags, Goto, Notify, PushesOneOfItems
<1>1. CASE ProducerLoop \/ PushFull \/ PushWait
  BY <1>1 DEF ProducerLoop, PushFull, PushWait
<1>2. CASE Push
  BY <1>2 DEF Push
<1>3. CASE PushNotify
  BY <1>3 DEF PushNotify
<1>4. CASE ConsumerStep
  BY <1>4 DEF ConsumerStep, ConsumerLoop, Pop, PopUndefined, PopEmpty, PopWait,
     PopNotify
<1>5. CASE SpuriousWakeup
  BY <1>5 DEF SpuriousWakeup
<1>6. CASE PauseStep
  BY <1>6 DEF PauseStep, Stop, Resume
<1>7. CASE StopProducer \/ StopStreamStep
  BY <1>7 DEF StopProducer, StopStreamStep, StopConsumer, ShutdownFlag,
     ShutdownNotifyEmpty, ShutdownNotifyFull
<1>8. CASE UNCHANGED vars
  BY <1>8 DEF vars
<1>9. QED
  BY <1>1, <1>2, <1>3, <1>4, <1>5, <1>6, <1>7, <1>8 DEF Next, ProducerStep

-----------------------------------------------------------------------------
\* The inductive invariant holds in every state of every behaviour.
THEOREM InvariantHolds == Spec => []IInv
<1>1. IInv /\ [Next]_vars => IInv'
  BY TypeStep, ContentsStep, BoundStep, BlocksStep, WakeupStep,
     ItemsStep DEF IInv
<1>2. QED
  BY InitHolds, <1>1, PTL DEF Spec

\* Every variable of the queue stays in its type, whatever its threads do.
THEOREM TypeCorrect == Spec => []TypeOK
<1>1. IInv => TypeOK
  BY DEF IInv
<1>2. QED
  BY <1>1, InvariantHolds, PTL

\* Samples are popped in push order, none lost and none twice, for queues of any
\* size and across pauses and shutdown.
THEOREM FirstInFirstOut == Spec => []ContentsInOrder
<1>1. IInv => ContentsInOrder
  BY DEF IInv
<1>2. QED
  BY <1>1, InvariantHolds, PTL

\* upperBound_ holds until the shutdown.
THEOREM Bounded == Spec => []BoundedUntilShutdown
<1>1. IInv => BoundedUntilShutdown
  BY DEF IInv
<1>2. QED
  BY <1>1, InvariantHolds, PTL

\* No notification between push and pop is lost.
THEOREM WakeupsArrive == Spec => []NoLostWakeup
<1>1. IInv => NoLostWakeup
  BY DEF IInv
<1>2. QED
  BY <1>1, InvariantHolds, PTL

\* A full queue and an empty queue exclude each other, so the two threads of a
\* queue that is not paused never sleep together.
THEOREM ThreadsDoNotBlockEachOther == Spec => []NoMutualBlock
<1>1. IInv => NoMutualBlock
  <2> SUFFICES ASSUME IInv, pc["producer"] = "pushWaiting",
                      pc["consumer"] = "popWaiting", ~isStopped
               PROVE  FALSE
    BY DEF NoMutualBlock
  <2>1. deque = <<>>
    BY DEF IInv, NoLostWakeup
  <2>2. Len(deque) < UpperBound
    BY <2>1, EmptySeq
  <2>3. QED
    BY <2>2 DEF IInv, NoLostWakeup
<1>2. QED
  BY <1>1, InvariantHolds, PTL

-----------------------------------------------------------------------------
\* Without their promises of progress: every behaviour of the queue is one of
\* the channel, each step a channel step or a stutter.
ChannelSafety == Channel!Init /\ [][Channel!Next]_Channel!vars

\* The queue implements the safety part of the channel for every bound.
THEOREM QueueImplementsChannel == Spec => ChannelSafety
<1>1. Init => Channel!Init
  BY DEF Init, Channel!Init
<1>2. IInv /\ [Next]_vars => [Channel!Next]_Channel!vars
  <2> SUFFICES ASSUME IInv, [Next]_vars
               PROVE  [Channel!Next]_Channel!vars
    OBVIOUS
  <2>0. /\ deque \in Seq(Nat) /\ Len(deque) \in Nat
        /\ pushed \in Nat /\ result \in Nat
    BY LenProperties DEF IInv, TypeOK
  <2>1. CASE UNCHANGED <<contents, isShutdown, isStopped>>
    BY <2>1 DEF contents, Channel!vars
  <2>2. CASE Push
    <3>1. pushed < NumItems
      BY <2>2 DEF Push, IInv, PushesOneOfItems
    <3>2. pushed - result < UpperBound \/ isShutdown
      BY <2>0, <2>2 DEF Push, CanPush, IInv, ContentsInOrder
    <3>3. QED
      BY <2>2, <3>1, <3>2 DEF Push, flags, Channel!Next, Channel!Send
  <2>3. CASE Pop
    <3>1. result' = result + 1 /\ result < pushed
      BY <2>0, <2>3, PoppedDeque DEF Pop, IInv, ContentsInOrder
    <3>2. QED
      BY <2>3, <3>1 DEF Pop, CanPop, flags, Channel!Next, Channel!Receive
  <2>4. CASE PauseStep
    BY <2>4 DEF PauseStep, Stop, Resume, contents, Channel!Next, Channel!Pause
  <2>5. CASE ShutdownFlag
    BY <2>5 DEF ShutdownFlag, contents, Channel!Next, Channel!Shutdown
  <2>6. QED
    BY <2>1, <2>2, <2>3, <2>4, <2>5 DEF Next, ProducerStep, ConsumerStep,
       StopStreamStep, ProducerLoop, PushFull, PushWait, PushNotify, ConsumerLoop,
       PopUndefined, PopEmpty, PopWait, PopNotify, SpuriousWakeup, StopProducer,
       StopConsumer, ShutdownNotifyEmpty, ShutdownNotifyFull, contents, flags, vars
<1>3. QED
  BY <1>1, <1>2, InvariantHolds, PTL DEF Spec, ChannelSafety
==============================================================================
