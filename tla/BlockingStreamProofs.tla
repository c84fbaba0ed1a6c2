-------------------------- MODULE BlockingStreamProofs --------------------------
(***************************************************************************)
(* The stream for any range list, any number of fragments and any answers  *)
(* of the server.                                                          *)
(*                                                                         *)
(* CHECK_INVARIANT alone says where the indices are, not what they mean.   *)
(* WrittenUpTo says it: behind the write index every fragment is full, at  *)
(* it the fragment holds what writePosition_ says, before it nothing; and  *)
(* ExactResponses, that a response of the right length goes into the       *)
(* newest fragment and ends with it.  RangesEndWithMdat says what the      *)
(* reader has used up when it calls PopFragment().                         *)
(***************************************************************************)
EXTENDS BlockingStream, SequenceTheorems, TLAPS

AddPlaces == {"add", "addWaiting", "addWoken"}
WritePlaces == {"write", "writeWaiting", "writeWoken", "writeNotify"}
WriterPlaces == {"loop", "exited"} \cup AddPlaces \cup WritePlaces
PopPlaces == {"pop", "popWaiting", "popWoken"}
ReaderPlaces == {"loop", "tell", "tellWaiting", "tellWoken", "getSize", "header", "parse",
                 "popNotify", "exited", "undefined"} \cup PopPlaces
ControlPlaces == {"idle", "stopReader", "shutdown", "notifyReader", "notifyAdder"}

FragmentType == [range : Nat, size : Nat, filled : Nat, from : SUBSET Nat]

TypeOK ==
  /\ fragments \in Seq(FragmentType)
  /\ result \in FragmentType
  /\ readIdx \in Int /\ writeIdx \in Int
  /\ readPosition \in Nat /\ writePosition \in Nat /\ toSend \in Nat
  /\ isRunning \in BOOLEAN /\ exact \in BOOLEAN /\ mdatLast \in BOOLEAN /\ parsed \in Nat
  /\ running \subseteq Workers
  /\ DOMAIN pc = Threads
  /\ pc["writer"] \in WriterPlaces /\ pc["reader"] \in ReaderPlaces /\ pc["control"] \in ControlPlaces

\* StopStream() takes the threads' own flags down before the stream's.
StopOrder ==
  /\ ~isRunning \/ pc["control"] \in {"stopReader", "shutdown"} => "writer" \notin running
  /\ ~isRunning \/ pc["control"] = "shutdown" => "reader" \notin running

\* A writer that is about to add has seen its flag up, and a range that is left.
RoomToAdd ==
  /\ pc["writer"] \in AddPlaces => LastRange < Len(RangeSizes) /\ Len(fragments) <= MaxFragments
  /\ pc["writer"] \in AddPlaces \cup {"loop"} => toSend = 0

\* Where the reader is with respect to the two indices.
IndicesInOrder ==
  /\ -1 <= writeIdx /\ writeIdx <= readIdx /\ writeIdx < Len(fragments)
  /\ \/ readIdx < Len(fragments)
     \/ ~isRunning /\ ~mdatLast /\ pc["reader"] \in {"popNotify", "loop", "exited"}
  /\ pc["reader"] = "parse" \/ (pc["reader"] \in {"getSize", "header"} /\ isRunning)
       => readIdx > writeIdx /\ readIdx < Len(fragments)
  /\ pc["reader"] \in PopPlaces => writeIdx < Len(fragments) - 1

\* As long as every range ended with its mdat, the reader keeps no fragment that it
\* has used up but the one it is about to pop.
RangesEndWithMdat ==
  mdatLast =>
    /\ Len(fragments) - 1 - readIdx = IF pc["reader"] = "pop" THEN 1 ELSE 0
    /\ pc["reader"] \notin {"popWaiting", "popWoken"}
    /\ pc["reader"] = "pop" => parsed = result.range + 1
    /\ pc["reader"] = "popNotify" => parsed = result.range

\* The code numbers its fragments from the newest one, this from the oldest.
FilledTo(k) ==
  /\ k < Len(fragments) - writeIdx => fragments[k].filled = fragments[k].size
  /\ k = Len(fragments) - writeIdx =>
       /\ fragments[k].filled = writePosition
       /\ pc["writer"] # "exited" => writePosition < fragments[k].size
  /\ k > Len(fragments) - writeIdx => fragments[k].filled = 0 /\ fragments[k].from = {}

WrittenUpTo ==
  /\ \A k \in 1 .. Len(fragments) : FilledTo(k)
  /\ writeIdx = -1 => writePosition = 0
  /\ result.filled = result.size

\* One fragment per range, in the order of the list.
InRangeOrder ==
  /\ \A k \in 1 .. Len(fragments) : fragments[k].range = result.range + k /\ fragments[k].size > 0

\* As long as every response had the length of its range.
ExactResponses ==
  exact =>
    /\ toSend > 0 => /\ writeIdx = 0
                     /\ toSend = fragments[Len(fragments)].size - writePosition
    /\ toSend = 0 => writeIdx = -1
    /\ \A k \in 1 .. Len(fragments) : fragments[k].from \subseteq {fragments[k].range}
    /\ result.from \subseteq {result.range}

\* fragmentDeque_[-1] is looked at after Shutdown() only.
UndefinedAfterShutdown == pc["reader"] = "undefined" => ~isRunning

\* WritePartial() has nothing to write to only for bytes too many.
WriterSleepsOnWrongLength == pc["writer"] \in {"writeWaiting", "writeWoken"} => ~exact

IInv == /\ TypeOK /\ StopOrder /\ RoomToAdd
        /\ IndicesInOrder
        /\ RangesEndWithMdat
        /\ WrittenUpTo
        /\ InRangeOrder
        /\ ExactResponses
        /\ DownloadLimit
        /\ UndefinedAfterShutdown
        /\ WriterSleepsOnWrongLength

-----------------------------------------------------------------------------
(* What the operations do to fragmentDeque_.                               *)

\* Fragments have the fields they should have.
LEMMA FragmentFacts ==
  ASSUME NEW s \in Seq(FragmentType)
  PROVE  /\ Len(s) \in Nat
         /\ \A k \in 1 .. Len(s) : /\ s[k] \in FragmentType
                                   /\ s[k].range \in Nat /\ s[k].size \in Nat /\ s[k].filled \in Nat
<1>1. \A k \in 1 .. Len(s) : s[k] \in FragmentType
  BY ElementOfSeq
<1>2. QED
  BY <1>1, LenProperties DEF FragmentType

\* AddFragment(): the ranges come one by one, and the new fragment is the newest.
Added ==
  /\ Len(fragments) \in Nat /\ LastRange \in Nat
  /\ fragments' \in Seq(FragmentType)
  /\ Len(fragments') = Len(fragments) + 1
  /\ \A k \in 1 .. Len(fragments') :
       \/ k \in 1 .. Len(fragments) /\ fragments'[k] = fragments[k]
       \/ /\ k = Len(fragments) + 1
          /\ fragments'[k].range = LastRange + 1
          /\ fragments'[k].size = RangeSizes[LastRange + 1]
          /\ fragments'[k].filled = 0 /\ fragments'[k].from = {}
  /\ RangeSizes[LastRange + 1] \in Nat \ {0}
  /\ toSend' \in Nat /\ exact' \in BOOLEAN
  /\ exact' => exact /\ toSend' = RangeSizes[LastRange + 1]

\* A step of AddFragment() does all that.
LEMMA AddFacts == TypeOK /\ RoomToAdd /\ AddFragment => Added
<1> SUFFICES ASSUME TypeOK, RoomToAdd, AddFragment
             PROVE  Added
  OBVIOUS
<1> DEFINE f == Fragment(LastRange + 1)
<1>1. Len(fragments) \in Nat /\ LastRange \in Nat
  BY FragmentFacts DEF TypeOK, LastRange, FragmentType
<1>2. LastRange < Len(RangeSizes) /\ Len(RangeSizes) \in Nat
  BY RangeSizesAssumption, LenProperties DEF AddFragment, RoomToAdd, AddPlaces
<1>3. LastRange + 1 \in 1 .. Len(RangeSizes)
  BY <1>1, <1>2
<1>4. RangeSizes[LastRange + 1] \in Nat \ {0}
  BY <1>3, RangeSizesAssumption, ElementOfSeq
<1>5. /\ f \in FragmentType
      /\ f.range = LastRange + 1 /\ f.size = RangeSizes[LastRange + 1] /\ f.filled = 0 /\ f.from = {}
  BY <1>1, <1>4 DEF Fragment, FragmentType
<1>6. fragments' = Append(fragments, f)
  BY DEF AddFragment
<1> HIDE DEF f
<1>7. /\ fragments' \in Seq(FragmentType)
      /\ Len(fragments') = Len(fragments) + 1
      /\ \A k \in 1 .. Len(fragments) : fragments'[k] = fragments[k]
      /\ fragments'[Len(fragments) + 1] = f
  BY <1>5, <1>6, AppendProperties DEF TypeOK
<1>8. \A k \in 1 .. Len(fragments') : \/ k \in 1 .. Len(fragments) /\ fragments'[k] = fragments[k]
                                      \/ k = Len(fragments) + 1 /\ fragments'[k] = f
  BY <1>1, <1>7
<1>9. toSend' \in Nat /\ exact' \in BOOLEAN /\ (exact' => exact /\ toSend' = RangeSizes[LastRange + 1])
  <2>1. PICK d \in Deviations : /\ RangeSizes[LastRange + 1] + d >= 0
                                /\ toSend' = RangeSizes[LastRange + 1] + d
                                /\ exact' = (exact /\ d = 0)
    BY DEF AddFragment
  <2>2. d \in Int
    BY DeviationsAssumption
  <2> DEFINE size == RangeSizes[LastRange + 1]
  <2>3. size \in Nat /\ size + d >= 0 /\ toSend' = size + d
    BY <1>4, <2>1
  <2> HIDE DEF size
  <2>4. toSend' \in Nat /\ (d = 0 => toSend' = size)
    BY <2>2, <2>3
  <2>5. exact' \in BOOLEAN /\ (exact' => exact /\ d = 0)
    BY <2>1
  <2>6. QED
    BY <2>4, <2>5 DEF size
<1>10. QED
  BY <1>1, <1>4, <1>5, <1>7, <1>8, <1>9 DEF Added

\* PopFragment(): all move up by one.
Popped ==
  /\ Len(fragments) \in Nat \ {0}
  /\ fragments' \in Seq(FragmentType)
  /\ Len(fragments') = Len(fragments) - 1
  /\ \A k \in 1 .. Len(fragments') : k + 1 \in 1 .. Len(fragments) /\ fragments'[k] = fragments[k + 1]
  /\ result' = fragments[1] /\ result' \in FragmentType
  /\ result.range \in Nat /\ result'.range = result.range + 1
  /\ LastRange' = LastRange

\* A step of PopFragment() does all that; it takes out the next range of the list.
LEMMA PopFacts == TypeOK /\ IndicesInOrder /\ InRangeOrder /\ PopFragment => Popped
<1> SUFFICES ASSUME TypeOK, IndicesInOrder, InRangeOrder, PopFragment
             PROVE  Popped
  OBVIOUS
<1>1. fragments # <<>> /\ Len(fragments) \in Nat \ {0}
  BY FragmentFacts, EmptySeq DEF TypeOK, IndicesInOrder, PopFragment, PopPlaces
<1>2. fragments' = Tail(fragments) /\ result' = Head(fragments)
  BY DEF PopFragment, TakeOldest
<1>3. Head(fragments) = fragments[1] /\ fragments[1] \in FragmentType /\ fragments[1].range \in Nat
  BY <1>1, HeadTailProperties, FragmentFacts DEF TypeOK
<1>4. /\ fragments' \in Seq(FragmentType)
      /\ Len(fragments') = Len(fragments) - 1
      /\ \A k \in 1 .. Len(fragments') : fragments'[k] = fragments[k + 1]
  BY <1>1, <1>2, HeadTailProperties DEF TypeOK
<1>5. result.range \in Nat /\ fragments[1].range = result.range + 1
  <2>1. result.range \in Nat
    BY DEF TypeOK, FragmentType
  <2>2. QED
    BY <1>1, <2>1 DEF InRangeOrder
<1>6. LastRange' = LastRange
  BY <1>1, <1>2, <1>3, <1>4, <1>5 DEF LastRange
<1>7. QED
  BY <1>1, <1>2, <1>3, <1>4, <1>5, <1>6 DEF Popped

\* Write(): only the fragment at the write index, and of it only what was written.
Stored(n) ==
  /\ fragments' \in Seq(FragmentType)
  /\ Len(fragments') = Len(fragments)
  /\ \A k \in 1 .. Len(fragments) :
       /\ fragments'[k].range = fragments[k].range
       /\ fragments'[k].size = fragments[k].size
       /\ k # Len(fragments) - writeIdx => fragments'[k] = fragments[k]
       /\ k = Len(fragments) - writeIdx =>
            /\ fragments'[k].filled = fragments[k].filled + n
            /\ fragments'[k].from = fragments[k].from \cup {LastRange}

\* Store(n) does all that.
LEMMA StoreFacts ==
  ASSUME TypeOK, Len(fragments) - writeIdx \in 1 .. Len(fragments), NEW n \in Nat, Store(n)
  PROVE  Stored(n)
<1> DEFINE w == Len(fragments) - writeIdx
           f == [fragments[w] EXCEPT !.filled = @ + n, !.from = @ \cup {LastRange}]
<1>1. Len(fragments) \in Nat /\ w \in 1 .. Len(fragments)
  BY FragmentFacts DEF TypeOK
<1>2. fragments[w] \in FragmentType /\ LastRange \in Nat
  <2>1. fragments[w] \in FragmentType
    BY <1>1, FragmentFacts DEF TypeOK
  <2>2. result.range \in Nat
    BY DEF TypeOK, FragmentType
  <2>3. QED
    BY <1>1, <2>1, <2>2 DEF LastRange
<1>3. /\ f \in FragmentType /\ f.range = fragments[w].range /\ f.size = fragments[w].size
      /\ f.filled = fragments[w].filled + n /\ f.from = fragments[w].from \cup {LastRange}
  <2> DEFINE a == fragments[w].filled + n
             b == fragments[w].from \cup {LastRange}
  <2>1. a \in Nat /\ b \in SUBSET Nat
    BY <1>2 DEF FragmentType
  <2>2. f = [fragments[w] EXCEPT !.filled = a, !.from = b]
    OBVIOUS
  <2> HIDE DEF a, b, f
  <2>3. f \in FragmentType /\ f.range = fragments[w].range /\ f.size = fragments[w].size /\ f.filled = a /\ f.from = b
    BY <1>2, <2>1, <2>2 DEF FragmentType
  <2>4. QED
    BY <2>3 DEF a, b
<1>4. fragments' = [fragments EXCEPT ![w] = f]
  BY <1>1 DEF Store, TypeOK
<1> HIDE DEF f
<1>5. /\ fragments' \in Seq(FragmentType) /\ Len(fragments') = Len(fragments)
      /\ \A k \in 1 .. Len(fragments) : fragments'[k] = IF k = w THEN f ELSE fragments[k]
  BY <1>1, <1>3, <1>4, ExceptSeq DEF TypeOK
<1>6. QED
  BY <1>1, <1>3, <1>5 DEF Stored

\* WritePartial() with a chunk of which n bytes are stored: all of it inside the
\* fragment, all of it up to its end, or as much as there is room for.
WrittenInside(n) == /\ writePosition' = writePosition + n
                    /\ \A k \in 1 .. Len(fragments) : k = Len(fragments) - writeIdx =>
                         writePosition + n < fragments[k].size
                    /\ toSend' = toSend - n
                    /\ UNCHANGED <<writeIdx, pc>>
WrittenToEnd(n) == /\ writePosition' = 0
                   /\ \A k \in 1 .. Len(fragments) : k = Len(fragments) - writeIdx =>
                        writePosition + n = fragments[k].size
                   /\ toSend' = toSend - n
                   /\ writeIdx' = writeIdx - 1
                   /\ pc' = [pc EXCEPT !["writer"] = "writeNotify"]
WrittenTruncated(n) == /\ writePosition' = writePosition + n
                       /\ \A k \in 1 .. Len(fragments) : k = Len(fragments) - writeIdx =>
                            writePosition + n = fragments[k].size
                       /\ n < toSend /\ toSend' = 0
                       /\ UNCHANGED writeIdx
                       /\ pc' = [pc EXCEPT !["writer"] = "exited"]
BytesWritten(n) ==
  /\ n \in 1 .. toSend
  /\ Len(fragments) \in Nat /\ writeIdx \in Nat
  /\ Len(fragments) - writeIdx \in 1 .. Len(fragments)
  /\ Stored(n)
  /\ pc["writer"] \in {"write", "writeWoken"}
  /\ WrittenInside(n) \/ WrittenToEnd(n) \/ WrittenTruncated(n)
  /\ UNCHANGED <<readIdx, readPosition, result, isRunning, exact, mdatLast, parsed, running>>

\* A step of WritePartial() is one of the three, and stores at least one byte.
LEMMA WriteFacts ==
  TypeOK /\ IndicesInOrder /\ WrittenUpTo /\ WritePartial => \E n \in Nat : BytesWritten(n)
<1> SUFFICES ASSUME TypeOK, IndicesInOrder, WrittenUpTo, WritePartial
             PROVE  \E n \in Nat : BytesWritten(n)
  OBVIOUS
<1> DEFINE w == Len(fragments) - writeIdx
<1>1. PICK n \in 1 .. toSend : WriteInside(n) \/ WriteToEnd(n) \/ WriteTruncated(n)
  BY DEF WritePartial
<1>2. /\ Len(fragments) \in Nat /\ writeIdx \in Nat
      /\ w \in 1 .. Len(fragments)
  BY FragmentFacts DEF TypeOK, IndicesInOrder, WritePartial, CanWrite
<1>3. At(writeIdx) = fragments[w] /\ fragments[w].size \in Nat /\ fragments[w].filled \in Nat
  BY <1>2, FragmentFacts DEF At, TypeOK
<1>4. writePosition < fragments[w].size /\ writePosition \in Nat /\ toSend \in Nat
  BY <1>2 DEF WrittenUpTo, FilledTo, WritePartial, TypeOK
<1>5. /\ pc["writer"] \in {"write", "writeWoken"}
      /\ UNCHANGED <<readIdx, readPosition, result, isRunning, exact, mdatLast, parsed, running>>
  BY DEF WritePartial, history
<1>6. CASE WriteInside(n)
  <2>1. Stored(n)
    BY <1>2, <1>6, StoreFacts DEF WriteInside
  <2>2. WrittenInside(n)
    BY <1>2, <1>3, <1>6 DEF WriteInside, WrittenInside
  <2>3. QED
    BY <1>2, <1>5, <2>1, <2>2 DEF BytesWritten
<1>7. CASE WriteToEnd(n)
  <2>1. Stored(n)
    BY <1>2, <1>7, StoreFacts DEF WriteToEnd
  <2>2. WrittenToEnd(n)
    BY <1>2, <1>3, <1>7 DEF WriteToEnd, WrittenToEnd, Goto
  <2>3. QED
    BY <1>2, <1>5, <2>1, <2>2 DEF BytesWritten
<1>8. CASE WriteTruncated(n)
  <2> DEFINE m == fragments[w].size - writePosition
  <2>1. m \in 1 .. toSend /\ m < toSend /\ m \in Nat
    BY <1>3, <1>4, <1>8 DEF WriteTruncated
  <2>2. Stored(m)
    <3>1. Store(m)
      BY <1>3, <1>8 DEF WriteTruncated
    <3>2. QED
      BY <1>2, <2>1, <3>1, StoreFacts
  <2>3. WrittenTruncated(m)
    <3>1. writePosition' = writePosition + m /\ writePosition + m = fragments[w].size
      BY <1>3, <1>4, <1>8 DEF WriteTruncated
    <3>2. /\ toSend' = 0 /\ UNCHANGED writeIdx
          /\ pc' = [pc EXCEPT !["writer"] = "exited"]
      BY <1>8 DEF WriteTruncated, Goto
    <3>3. QED
      BY <2>1, <3>1, <3>2 DEF WrittenTruncated
  <2>4. QED
    BY <1>2, <1>5, <2>1, <2>2, <2>3 DEF BytesWritten
<1>9. QED
  BY <1>1, <1>6, <1>7, <1>8

\* Where the reader is in an atom, there is a fragment, written and not yet popped.
LEMMA ReaderFacts ==
  TypeOK /\ IndicesInOrder /\ InRangeOrder /\ (ReadPartial \/ Seek \/ AtomEndsInside)
    => /\ readIdx \in Nat /\ writeIdx < readIdx /\ readIdx < Len(fragments)
       /\ At(readIdx).size \in Nat /\ At(readIdx).range \in Nat
       /\ At(readIdx).range = result.range + Len(fragments) - readIdx
       /\ pc["reader"] \in {"header", "parse"}
<1> SUFFICES ASSUME TypeOK, IndicesInOrder, InRangeOrder, ReadPartial \/ Seek \/ AtomEndsInside
             PROVE  /\ readIdx \in Nat /\ writeIdx < readIdx /\ readIdx < Len(fragments)
                    /\ At(readIdx).size \in Nat /\ At(readIdx).range \in Nat
                    /\ At(readIdx).range = result.range + Len(fragments) - readIdx
                    /\ pc["reader"] \in {"header", "parse"}
  OBVIOUS
<1>1. pc["reader"] = "parse" \/ (pc["reader"] = "header" /\ isRunning)
  BY DEF ReadPartial, Seek, AtomEndsInside
<1>2. /\ readIdx \in Nat /\ writeIdx < readIdx /\ readIdx < Len(fragments)
      /\ Len(fragments) \in Nat /\ Len(fragments) - readIdx \in 1 .. Len(fragments)
  BY <1>1, FragmentFacts DEF TypeOK, IndicesInOrder
<1>3. /\ At(readIdx).size \in Nat /\ At(readIdx).range \in Nat
      /\ At(readIdx).range = result.range + (Len(fragments) - readIdx)
  BY <1>2, FragmentFacts DEF At, TypeOK, InRangeOrder
<1>4. result.range \in Nat
  BY DEF TypeOK, FragmentType
<1>5. QED
  BY <1>1, <1>2, <1>3, <1>4

\* What the end of an atom changes.
LEMMA AtomTypes ==
  ASSUME TypeOK, At(readIdx).range \in Nat, NEW last \in BOOLEAN, AtomDone(last)
  PROVE  /\ mdatLast' \in BOOLEAN /\ parsed' \in Nat
         /\ pc'["writer"] = pc["writer"] /\ pc'["control"] = pc["control"]
         /\ DOMAIN pc' = Threads
         /\ \/ /\ pc'["reader"] = "pop" /\ parsed' = At(readIdx).range
               /\ mdatLast' => mdatLast /\ last
            \/ /\ pc'["reader"] = "tell" /\ parsed' = parsed
               /\ mdatLast' => mdatLast /\ ~last
<1>1. DOMAIN pc = Threads /\ "reader" \in Threads /\ parsed \in Nat /\ mdatLast \in BOOLEAN
  BY DEF TypeOK, Threads, Workers
<1>2. CASE Goto("reader", "pop") /\ parsed' = At(readIdx).range /\ mdatLast' = (mdatLast /\ last)
  BY <1>1, <1>2 DEF Goto
<1>3. CASE Goto("reader", "tell") /\ parsed' = parsed /\ mdatLast' = (mdatLast /\ ~last)
  <2>1. /\ mdatLast' \in BOOLEAN
        /\ mdatLast' => mdatLast /\ ~last
    BY <1>3
  <2>2. /\ DOMAIN pc' = Threads /\ pc'["reader"] = "tell"
        /\ pc'["writer"] = pc["writer"] /\ pc'["control"] = pc["control"]
    BY <1>1, <1>3 DEF Goto
  <2>3. QED
    BY <1>1, <1>3, <2>1, <2>2
<1>4. QED
  BY <1>2, <1>3 DEF AtomDone

-----------------------------------------------------------------------------
(* The operations on fragmentDeque_ and what is said of the fragments.     *)

\* A new fragment is empty and shifts the write index off the older ones.
LEMMA AddKeepsWritten == IInv /\ AddFragment => WrittenUpTo'
<1> SUFFICES ASSUME IInv, AddFragment
             PROVE  WrittenUpTo'
  OBVIOUS
<1>1. Added
  BY AddFacts DEF IInv
<1>2. /\ result' = result /\ writePosition' = writePosition /\ writeIdx' = writeIdx + 1
      /\ pc["writer"] # "exited"
  BY DEF AddFragment, ShiftIndices
<1>3. writeIdx \in Int /\ writeIdx >= -1 /\ Len(fragments) \in Nat
  BY <1>1 DEF IInv, TypeOK, IndicesInOrder, Added
<1>4. Len(fragments') - writeIdx' = Len(fragments) - writeIdx
  BY <1>1, <1>2, <1>3 DEF Added
<1>5. ASSUME NEW k \in 1 .. Len(fragments')
      PROVE  FilledTo(k)'
  <2>1. CASE k \in 1 .. Len(fragments) /\ fragments'[k] = fragments[k]
    <3>1. FilledTo(k)
      BY <2>1 DEF IInv, WrittenUpTo
    <3>2. QED
      BY <1>2, <1>4, <2>1, <3>1 DEF FilledTo
  <2>2. CASE /\ k = Len(fragments) + 1
             /\ fragments'[k].size = RangeSizes[LastRange + 1]
             /\ fragments'[k].filled = 0 /\ fragments'[k].from = {}
    <3>1. k = Len(fragments') - writeIdx' => writePosition' = 0
      BY <1>2, <1>3, <1>4, <2>2 DEF IInv, WrittenUpTo
    <3>2. RangeSizes[LastRange + 1] > 0
      BY <1>1 DEF Added
    <3>3. ~(k < Len(fragments') - writeIdx')
      BY <1>3, <1>4, <2>2
    <3>4. QED
      BY <2>2, <3>1, <3>2, <3>3 DEF FilledTo
  <2>3. QED
    BY <1>1, <2>1, <2>2 DEF Added
<1>6. writeIdx' # -1 /\ result'.filled = result'.size
  BY <1>2, <1>3 DEF IInv, WrittenUpTo
<1>7. QED
  BY <1>5, <1>6 DEF WrittenUpTo

\* The write index leaves a fragment when its last byte is there.
LEMMA WriteKeepsWritten == IInv /\ WritePartial => WrittenUpTo'
<1> SUFFICES ASSUME IInv, WritePartial
             PROVE  WrittenUpTo'
  OBVIOUS
<1>1. PICK n \in Nat : BytesWritten(n)
  BY WriteFacts DEF IInv
<1>2. /\ Len(fragments') = Len(fragments) /\ Len(fragments) \in Nat /\ writeIdx \in Nat
      /\ result' = result /\ pc["writer"] # "exited" /\ writePosition \in Nat
  BY <1>1 DEF BytesWritten, Stored, IInv, TypeOK
<1>3. ASSUME NEW k \in 1 .. Len(fragments')
      PROVE  FilledTo(k)'
  <2>1. /\ k \in 1 .. Len(fragments) /\ FilledTo(k) /\ fragments[k].size > 0
        /\ fragments[k].size \in Nat /\ fragments[k].filled \in Nat
    BY <1>2, FragmentFacts DEF IInv, TypeOK, WrittenUpTo, InRangeOrder
  <2>2. /\ fragments'[k].size = fragments[k].size
        /\ k # Len(fragments) - writeIdx => fragments'[k] = fragments[k]
        /\ k = Len(fragments) - writeIdx => fragments'[k].filled = fragments[k].filled + n
    BY <1>1, <2>1 DEF BytesWritten, Stored
  <2>3. CASE WrittenInside(n)
    <3>1. /\ Len(fragments') - writeIdx' = Len(fragments) - writeIdx /\ writePosition' = writePosition + n
          /\ pc' = pc /\ (k = Len(fragments) - writeIdx => writePosition + n < fragments[k].size)
      BY <1>2, <2>1, <2>3 DEF WrittenInside
    <3>2. CASE k = Len(fragments) - writeIdx
      BY <1>2, <2>1, <2>2, <3>1, <3>2 DEF FilledTo
    <3>3. CASE k # Len(fragments) - writeIdx
      BY <2>1, <2>2, <3>1, <3>3 DEF FilledTo
    <3>4. QED
      BY <3>2, <3>3
  <2>4. CASE WrittenToEnd(n)
    <3>1. /\ Len(fragments') - writeIdx' = Len(fragments) - writeIdx + 1 /\ writePosition' = 0
          /\ k = Len(fragments) - writeIdx => writePosition + n = fragments[k].size
      BY <1>2, <2>1, <2>4 DEF WrittenToEnd
    <3>2. CASE k < Len(fragments) - writeIdx
      BY <1>2, <2>1, <2>2, <3>1, <3>2 DEF FilledTo
    <3>3. CASE k = Len(fragments) - writeIdx
      BY <1>2, <2>1, <2>2, <3>1, <3>3 DEF FilledTo
    <3>4. CASE k > Len(fragments) - writeIdx
      BY <1>2, <2>1, <2>2, <3>1, <3>4 DEF FilledTo
    <3>5. QED
      BY <1>2, <3>2, <3>3, <3>4
  <2>5. CASE WrittenTruncated(n)
    <3>1. /\ Len(fragments') - writeIdx' = Len(fragments) - writeIdx /\ writePosition' = writePosition + n
          /\ pc'["writer"] = "exited"
      BY <1>2, <2>5 DEF WrittenTruncated, IInv, TypeOK, Threads, Workers
    <3>2. CASE k = Len(fragments) - writeIdx
      BY <1>2, <2>1, <2>2, <3>1, <3>2 DEF FilledTo
    <3>3. CASE k # Len(fragments) - writeIdx
      BY <2>1, <2>2, <3>1, <3>3 DEF FilledTo
    <3>4. QED
      BY <3>2, <3>3
  <2>6. QED
    BY <1>1, <2>3, <2>4, <2>5 DEF BytesWritten
<1>4. writeIdx' = -1 => writePosition' = 0
  BY <1>1, <1>2 DEF BytesWritten, WrittenInside, WrittenToEnd, WrittenTruncated
<1>5. result'.filled = result'.size
  BY <1>2 DEF IInv, WrittenUpTo
<1>6. QED
  BY <1>3, <1>4, <1>5 DEF WrittenUpTo

\* What is popped is behind the reader, and so behind the writer.
LEMMA PopKeepsWritten == IInv /\ PopFragment => WrittenUpTo'
<1> SUFFICES ASSUME IInv, PopFragment
             PROVE  WrittenUpTo'
  OBVIOUS
<1>1. Popped
  BY PopFacts DEF IInv
<1>2. /\ UNCHANGED <<writeIdx, writePosition>> /\ pc'["writer"] = pc["writer"]
      /\ writeIdx \in Int /\ 1 < Len(fragments) - writeIdx
  BY <1>1 DEF PopFragment, Goto, Popped, IInv, TypeOK, IndicesInOrder, PopPlaces
<1>3. ASSUME NEW k \in 1 .. Len(fragments')
      PROVE  FilledTo(k)'
  <2>1. /\ k + 1 \in 1 .. Len(fragments) /\ fragments'[k] = fragments[k + 1]
        /\ Len(fragments') = Len(fragments) - 1 /\ Len(fragments) \in Nat
    BY <1>1 DEF Popped
  <2>2. FilledTo(k + 1)
    BY <2>1 DEF IInv, WrittenUpTo
  <2>3. QED
    BY <1>2, <2>1, <2>2 DEF FilledTo
<1>4. result'.filled = result'.size
  <2>1. result' = fragments[1] /\ 1 \in 1 .. Len(fragments)
    BY <1>1 DEF Popped
  <2>2. FilledTo(1)
    BY <2>1 DEF IInv, WrittenUpTo
  <2>3. QED
    BY <1>2, <2>1, <2>2 DEF FilledTo
<1>5. QED
  BY <1>2, <1>3, <1>4 DEF WrittenUpTo, IInv

\* The fragment that is added is for the next range of the list.
LEMMA AddKeepsRanges == IInv /\ AddFragment => InRangeOrder'
<1> SUFFICES ASSUME IInv, AddFragment
             PROVE  InRangeOrder'
  OBVIOUS
<1>1. Added /\ result' = result
  BY AddFacts DEF IInv, AddFragment
<1>2. result.range \in Nat
  BY DEF IInv, TypeOK, FragmentType
<1>3. ASSUME NEW k \in 1 .. Len(fragments')
      PROVE  fragments'[k].range = result'.range + k /\ fragments'[k].size > 0
  <2>1. CASE k \in 1 .. Len(fragments) /\ fragments'[k] = fragments[k]
    BY <1>1, <2>1 DEF IInv, InRangeOrder
  <2>2. CASE /\ k = Len(fragments) + 1
             /\ fragments'[k].range = LastRange + 1
             /\ fragments'[k].size = RangeSizes[LastRange + 1]
    <3>1. fragments'[k].size > 0 /\ Len(fragments) \in Nat
      BY <1>1, <2>2 DEF Added
    <3>2. fragments'[k].range = result'.range + k
      BY <1>1, <1>2, <2>2, <3>1 DEF LastRange
    <3>3. QED
      BY <3>1, <3>2
  <2>3. QED
    BY <1>1, <2>1, <2>2 DEF Added
<1>4. QED
  BY <1>3 DEF InRangeOrder

\* All numbers go down by one with the range that was popped.
LEMMA PopKeepsRanges == IInv /\ PopFragment => InRangeOrder'
<1> SUFFICES ASSUME IInv, PopFragment
             PROVE  InRangeOrder'
  OBVIOUS
<1>1. Popped
  BY PopFacts DEF IInv
<1>2. ASSUME NEW k \in 1 .. Len(fragments')
      PROVE  fragments'[k].range = result'.range + k /\ fragments'[k].size > 0
  <2>1. /\ k + 1 \in 1 .. Len(fragments) /\ fragments'[k] = fragments[k + 1]
        /\ result'.range = result.range + 1 /\ result.range \in Nat
    BY <1>1 DEF Popped
  <2>2. fragments[k + 1].range = result.range + (k + 1) /\ fragments[k + 1].size > 0
    BY <2>1 DEF IInv, InRangeOrder
  <2>3. QED
    BY <2>1, <2>2
<1>3. QED
  BY <1>2 DEF InRangeOrder

\* The response is as long as the fragment that was added for it.
LEMMA AddKeepsExact == IInv /\ AddFragment => ExactResponses'
<1> SUFFICES ASSUME IInv, AddFragment, exact'
             PROVE  ExactResponses'
  BY DEF ExactResponses
<1>1. Added /\ result' = result /\ writePosition' = writePosition /\ writeIdx' = writeIdx + 1
  BY AddFacts DEF IInv, AddFragment, ShiftIndices
<1>2. exact /\ toSend' = RangeSizes[LastRange + 1] /\ toSend' > 0 /\ Len(fragments) \in Nat
      /\ Len(fragments') = Len(fragments) + 1
  BY <1>1 DEF Added
<1>3. toSend = 0
  BY DEF IInv, RoomToAdd, AddFragment, AddPlaces
<1>4. writeIdx = -1 /\ writePosition = 0
  BY <1>2, <1>3 DEF IInv, ExactResponses, WrittenUpTo
<1>5. fragments'[Len(fragments')].size = RangeSizes[LastRange + 1] /\ RangeSizes[LastRange + 1] \in Nat
  <2>1. Len(fragments') \in 1 .. Len(fragments') /\ Len(fragments') \notin 1 .. Len(fragments)
    BY <1>2
  <2>2. QED
    BY <1>1, <2>1 DEF Added
<1>6. ASSUME NEW k \in 1 .. Len(fragments')
      PROVE  fragments'[k].from \subseteq {fragments'[k].range}
  <2>1. CASE k \in 1 .. Len(fragments) /\ fragments'[k] = fragments[k]
    BY <1>2, <2>1 DEF IInv, ExactResponses
  <2>2. CASE fragments'[k].from = {}
    BY <2>2
  <2>3. QED
    BY <1>1, <2>1, <2>2 DEF Added
<1>7. result'.from \subseteq {result'.range}
  BY <1>1, <1>2 DEF IInv, ExactResponses
<1>8. toSend' = fragments'[Len(fragments')].size - writePosition' /\ writeIdx' = 0
  BY <1>1, <1>2, <1>4, <1>5
<1>9. QED
  BY <1>2, <1>6, <1>7, <1>8 DEF ExactResponses

\* The bytes of the last range go into the newest fragment, which is of that range.
LEMMA WriteKeepsExact == IInv /\ WritePartial => ExactResponses'
<1> SUFFICES ASSUME IInv, WritePartial, exact'
             PROVE  ExactResponses'
  BY DEF ExactResponses
<1>1. PICK n \in Nat : BytesWritten(n)
  BY WriteFacts DEF IInv
<1>2. /\ exact /\ n \in 1 .. toSend /\ toSend \in Nat /\ result' = result /\ Len(fragments) \in Nat
      /\ Len(fragments') = Len(fragments) /\ writePosition \in Nat
  BY <1>1 DEF BytesWritten, Stored, IInv, TypeOK
<1>3. /\ writeIdx = 0 /\ toSend = fragments[Len(fragments)].size - writePosition
      /\ Len(fragments) \in 1 .. Len(fragments)
      /\ Len(fragments) - writeIdx = Len(fragments)
  BY <1>1, <1>2 DEF IInv, ExactResponses, BytesWritten
<1>4. /\ fragments'[Len(fragments)].size = fragments[Len(fragments)].size
      /\ fragments[Len(fragments)].size \in Nat
  BY <1>1, <1>3, FragmentFacts DEF BytesWritten, Stored, IInv, TypeOK
<1>5. ASSUME NEW k \in 1 .. Len(fragments')
      PROVE  fragments'[k].from \subseteq {fragments'[k].range}
  <2>1. /\ fragments[k].from \subseteq {fragments[k].range}
        /\ fragments[k].range = result.range + k
        /\ fragments'[k].range = fragments[k].range
    BY <1>1, <1>2 DEF IInv, ExactResponses, InRangeOrder, BytesWritten, Stored
  <2>2. CASE k # Len(fragments)
    BY <1>1, <1>2, <1>3, <2>1, <2>2 DEF BytesWritten, Stored
  <2>3. CASE k = Len(fragments)
    <3>1. fragments'[k].from = fragments[k].from \cup {LastRange}
      BY <1>1, <1>2, <1>3, <2>3 DEF BytesWritten, Stored
    <3>2. LastRange = fragments[k].range
      BY <2>1, <2>3 DEF LastRange
    <3>3. QED
      BY <2>1, <3>1, <3>2
  <2>4. QED
    BY <2>2, <2>3
<1>6. result'.from \subseteq {result'.range}
  BY <1>2 DEF IInv, ExactResponses
<1>7. CASE WrittenInside(n)
  <2>1. /\ writePosition' = writePosition + n /\ toSend' = toSend - n /\ writeIdx' = writeIdx
        /\ writePosition + n < fragments[Len(fragments)].size
    BY <1>3, <1>7 DEF WrittenInside
  <2>2. toSend' > 0 /\ toSend' = fragments'[Len(fragments')].size - writePosition'
    BY <1>2, <1>3, <1>4, <2>1
  <2>3. QED
    BY <1>3, <1>5, <1>6, <2>1, <2>2 DEF ExactResponses
<1>8. CASE WrittenToEnd(n)
  <2>1. toSend' = 0 /\ writeIdx' = -1
    BY <1>2, <1>3, <1>4, <1>8 DEF WrittenToEnd
  <2>2. QED
    BY <1>5, <1>6, <2>1 DEF ExactResponses
<1>9. CASE WrittenTruncated(n)
  BY <1>2, <1>3, <1>4, <1>9 DEF WrittenTruncated
<1>10. QED
  BY <1>1, <1>7, <1>8, <1>9 DEF BytesWritten

\* The newest fragment stays, unless it is the one that is popped.
LEMMA PopKeepsExact == IInv /\ PopFragment => ExactResponses'
<1> SUFFICES ASSUME IInv, PopFragment, exact'
             PROVE  ExactResponses'
  BY DEF ExactResponses
<1>1. Popped
  BY PopFacts DEF IInv
<1>2. exact /\ UNCHANGED <<writeIdx, writePosition, toSend>>
  BY DEF PopFragment, history
<1>3. ASSUME NEW k \in 1 .. Len(fragments')
      PROVE  fragments'[k].from \subseteq {fragments'[k].range}
  <2>1. k + 1 \in 1 .. Len(fragments) /\ fragments'[k] = fragments[k + 1]
    BY <1>1 DEF Popped
  <2>2. QED
    BY <1>2, <2>1 DEF IInv, ExactResponses
<1>4. result'.from \subseteq {result'.range}
  <2>1. result' = fragments[1] /\ 1 \in 1 .. Len(fragments)
    BY <1>1 DEF Popped
  <2>2. QED
    BY <1>2, <2>1 DEF IInv, ExactResponses
<1>5. writeIdx = 0 => fragments'[Len(fragments')] = fragments[Len(fragments)]
  <2> SUFFICES ASSUME writeIdx = 0
               PROVE  fragments'[Len(fragments')] = fragments[Len(fragments)]
    OBVIOUS
  <2>1. Len(fragments) >= 2 /\ Len(fragments) \in Nat /\ Len(fragments') = Len(fragments) - 1
    BY <1>1 DEF Popped, PopFragment, IInv, TypeOK, IndicesInOrder, PopPlaces
  <2>2. Len(fragments') \in 1 .. Len(fragments') /\ Len(fragments') + 1 = Len(fragments)
    BY <2>1
  <2>3. QED
    BY <1>1, <2>2 DEF Popped
<1>6. QED
  BY <1>2, <1>3, <1>4, <1>5 DEF IInv, ExactResponses

-----------------------------------------------------------------------------
\* Types, one step per action.
LEMMA TypeStep == IInv /\ [Next]_vars => TypeOK'
<1> SUFFICES ASSUME IInv, [Next]_vars
             PROVE  TypeOK'
  OBVIOUS
<1> USE FragmentFacts DEF IInv, Goto, TypeOK, Threads, Workers, WriterPlaces, ReaderPlaces,
     ControlPlaces, AddPlaces, WritePlaces, PopPlaces
<1>1. CASE UNCHANGED <<fragments, result, readIdx, writeIdx, readPosition, writePosition, toSend, isRunning, exact, mdatLast, parsed, running, pc>>
  BY <1>1
<1>2. CASE NextRange
  BY <1>2 DEF NextRange, buffers, history
<1>3. CASE AddFragment
  BY <1>3, AddFacts DEF AddFragment, Added, ShiftIndices
<1>4. CASE AddWait
  BY <1>4 DEF AddWait, buffers, history
<1>5. CASE WritePartial
  <2>1. PICK n \in Nat : BytesWritten(n)
    BY <1>5, WriteFacts
  <2>2. CASE WrittenInside(n)
    BY <2>1, <2>2 DEF BytesWritten, Stored, WrittenInside
  <2>3. CASE WrittenToEnd(n)
    BY <2>1, <2>3 DEF BytesWritten, Stored, WrittenToEnd
  <2>4. CASE WrittenTruncated(n)
    BY <2>1, <2>4 DEF BytesWritten, Stored, WrittenTruncated
  <2>5. QED
    BY <2>1, <2>2, <2>3, <2>4 DEF BytesWritten
<1>6. CASE WriteRefused
  BY <1>6 DEF WriteRefused, buffers, history
<1>7. CASE WriteWait
  BY <1>7 DEF WriteWait, buffers, history
<1>8. CASE WriteNotify
  BY <1>8 DEF WriteNotify, Notify, buffers, history
<1>9. CASE CurlDone
  BY <1>9 DEF CurlDone, buffers, history
<1>10. CASE CurlError
  BY <1>10 DEF CurlError, buffers, history
<1>11. CASE DemuxLoop
  BY <1>11 DEF DemuxLoop, buffers, history
<1>12. CASE Tell
  BY <1>12 DEF Tell, CanRead, buffers, history
<1>13. CASE GetSize
  BY <1>13 DEF GetSize, buffers, history
<1>14. CASE ReadPartial
  <2>1. readIdx \in Nat /\ At(readIdx).size \in Nat /\ At(readIdx).range \in Nat
    BY <1>14, ReaderFacts
  <2>2. PICK n \in 1 .. At(readIdx).size + 1 : ReadInside(n) \/ ReadToEnd(n) \/ ReadTruncated(n)
    BY <1>14 DEF ReadPartial
  <2>3. /\ readPosition' \in Nat /\ readIdx' \in Int
        /\ mdatLast' \in BOOLEAN /\ parsed' \in Nat
    <3>1. CASE ReadInside(n)
      BY <2>1, <3>1 DEF ReadInside
    <3>2. CASE ReadToEnd(n)
      <4>1. mdatLast' \in BOOLEAN /\ parsed' \in Nat
        BY <2>1, <3>2, AtomTypes DEF ReadToEnd
      <4>2. QED
        BY <2>1, <3>2, <4>1 DEF ReadToEnd, AdvanceRead
    <3>3. CASE ReadTruncated(n)
      BY <2>1, <3>3 DEF ReadTruncated
    <3>4. QED
      BY <2>2, <3>1, <3>2, <3>3
  <2>4. DOMAIN pc' = Threads /\ pc'["writer"] = pc["writer"] /\ pc'["control"] = pc["control"] /\ pc'["reader"] \in ReaderPlaces
    BY <2>2 DEF ReadInside, ReadToEnd, ReadTruncated, AtomDone
  <2>5. QED
    BY <1>14, <2>3, <2>4 DEF ReadPartial
<1>15. CASE ReadNothing
  BY <1>15 DEF ReadNothing, buffers, history
<1>16. CASE Seek
  <2>1. readIdx \in Nat /\ At(readIdx).size \in Nat /\ At(readIdx).range \in Nat
    BY <1>16, ReaderFacts
  <2>2. CASE \E position \in readPosition + 1 .. At(readIdx).size - 1 :
               /\ readPosition' = position
               /\ UNCHANGED <<readIdx, mdatLast, parsed, pc>>
    BY <1>16, <2>1, <2>2 DEF Seek
  <2>3. CASE AdvanceRead /\ AtomDone(TRUE)
    <3>1. readPosition' \in Nat /\ readIdx' \in Int
      BY <2>1, <2>3 DEF AdvanceRead
    <3>2. /\ mdatLast' \in BOOLEAN /\ parsed' \in Nat /\ DOMAIN pc' = Threads
          /\ pc'["writer"] = pc["writer"] /\ pc'["control"] = pc["control"]
          /\ pc'["reader"] \in {"pop", "tell"}
      BY <2>1, <2>3, AtomTypes
    <3>3. QED
      BY <1>16, <3>1, <3>2 DEF Seek
  <2>4. CASE Goto("reader", "exited") /\ UNCHANGED <<readIdx, readPosition, mdatLast, parsed>>
    BY <1>16, <2>4 DEF Seek
  <2>5. QED
    BY <1>16, <2>2, <2>3, <2>4 DEF Seek
<1>17. CASE PopFragment
  BY <1>17, PopFacts DEF PopFragment, Popped, history
<1>18. CASE PopNotify
  BY <1>18 DEF PopNotify, Notify, buffers, history
<1>19. CASE SpuriousWakeup
  BY <1>19 DEF SpuriousWakeup, buffers, history
<1>20. CASE StopWriter
  BY <1>20 DEF StopWriter, buffers, history
<1>21. CASE StopReader
  BY <1>21 DEF StopReader, buffers, history
<1>22. CASE ShutdownFlag
  BY <1>22 DEF ShutdownFlag, buffers, history
<1>23. CASE ShutdownNotifyReader
  BY <1>23 DEF ShutdownNotifyReader, Notify, buffers, history
<1>24. CASE ShutdownNotifyAdder
  BY <1>24 DEF ShutdownNotifyAdder, Notify, buffers, history
<1>25. CASE AtomEndsInside
  BY <1>25, ReaderFacts DEF AtomEndsInside, AtomDone, buffers, history
<1>26. CASE PopWait
  BY <1>26 DEF PopWait, CanPopFragment, buffers, history
<1>27. QED
  BY <1>1, <1>2, <1>3, <1>4, <1>5, <1>6, <1>7, <1>8, <1>9, <1>10, <1>11, <1>12, <1>13, <1>14,
       <1>15, <1>16, <1>17, <1>18, <1>19, <1>20, <1>21, <1>22, <1>23, <1>24, <1>25, <1>26
     DEF Next, WriterStep, ReaderStep, StopStreamStep, vars, buffers, history

\* The flags go down one after the other and stay down.
LEMMA StopStep == IInv /\ [Next]_vars => StopOrder'
<1> SUFFICES ASSUME IInv, [Next]_vars
             PROVE  StopOrder'
  OBVIOUS
<1> USE FragmentFacts DEF IInv, Goto, TypeOK, StopOrder, Threads, Workers, WriterPlaces,
     ReaderPlaces, ControlPlaces, AddPlaces, WritePlaces, PopPlaces
<1>1. CASE UNCHANGED <<isRunning, running, pc>>
  BY <1>1
<1>2. CASE NextRange
  BY <1>2 DEF NextRange, buffers, history
<1>3. CASE AddFragment
  BY <1>3, AddFacts DEF AddFragment, Added, ShiftIndices
<1>4. CASE AddWait
  BY <1>4 DEF AddWait, buffers, history
<1>5. CASE WritePartial
  <2>1. PICK n \in Nat : BytesWritten(n)
    BY <1>5, WriteFacts
  <2>2. CASE WrittenInside(n)
    BY <2>1, <2>2 DEF BytesWritten, Stored, WrittenInside
  <2>3. CASE WrittenToEnd(n)
    BY <2>1, <2>3 DEF BytesWritten, Stored, WrittenToEnd
  <2>4. CASE WrittenTruncated(n)
    BY <2>1, <2>4 DEF BytesWritten, Stored, WrittenTruncated
  <2>5. QED
    BY <2>1, <2>2, <2>3, <2>4 DEF BytesWritten
<1>6. CASE WriteRefused
  BY <1>6 DEF WriteRefused, buffers, history
<1>7. CASE WriteWait
  BY <1>7 DEF WriteWait, buffers, history
<1>8. CASE WriteNotify
  BY <1>8 DEF WriteNotify, Notify, buffers, history
<1>9. CASE CurlDone
  BY <1>9 DEF CurlDone, buffers, history
<1>10. CASE CurlError
  BY <1>10 DEF CurlError, buffers, history
<1>11. CASE DemuxLoop
  BY <1>11 DEF DemuxLoop, buffers, history
<1>12. CASE Tell
  BY <1>12 DEF Tell, CanRead, buffers, history
<1>13. CASE GetSize
  BY <1>13 DEF GetSize, buffers, history
<1>14. CASE ReadPartial
  BY <1>14 DEF ReadPartial, ReadInside, ReadToEnd, ReadTruncated, AtomDone, AdvanceRead, CanRead, buffers, history
<1>15. CASE ReadNothing
  BY <1>15 DEF ReadNothing, buffers, history
<1>16. CASE Seek
  BY <1>16 DEF Seek, AdvanceRead, AtomDone, buffers, history
<1>17. CASE PopFragment
  BY <1>17, PopFacts DEF PopFragment, Popped
<1>18. CASE PopNotify
  BY <1>18 DEF PopNotify, Notify, buffers, history
<1>19. CASE SpuriousWakeup
  BY <1>19 DEF SpuriousWakeup, buffers, history
<1>20. CASE StopWriter
  BY <1>20 DEF StopWriter, buffers, history
<1>21. CASE StopReader
  BY <1>21 DEF StopReader, buffers, history
<1>22. CASE ShutdownFlag
  BY <1>22 DEF ShutdownFlag, buffers, history
<1>23. CASE ShutdownNotifyReader
  BY <1>23 DEF ShutdownNotifyReader, Notify, buffers, history
<1>24. CASE ShutdownNotifyAdder
  BY <1>24 DEF ShutdownNotifyAdder, Notify, buffers, history
<1>25. CASE AtomEndsInside
  BY <1>25 DEF AtomEndsInside, AtomDone, buffers, history
<1>26. CASE PopWait
  BY <1>26 DEF PopWait, CanPopFragment, buffers, history
<1>27. QED
  BY <1>1, <1>2, <1>3, <1>4, <1>5, <1>6, <1>7, <1>8, <1>9, <1>10, <1>11, <1>12, <1>13, <1>14,
       <1>15, <1>16, <1>17, <1>18, <1>19, <1>20, <1>21, <1>22, <1>23, <1>24, <1>25, <1>26
     DEF Next, WriterStep, ReaderStep, StopStreamStep, vars, buffers, history

\* Only the writer adds, and only NextRange lets it.
LEMMA RoomStep == IInv /\ [Next]_vars => RoomToAdd'
<1> SUFFICES ASSUME IInv, [Next]_vars
             PROVE  RoomToAdd'
  OBVIOUS
<1> USE FragmentFacts DEF IInv, Goto, TypeOK, RoomToAdd, StopOrder, DownloadLimit, InRangeOrder,
     IndicesInOrder, LastRange, Threads, Workers, WriterPlaces, ReaderPlaces,
     ControlPlaces, AddPlaces, WritePlaces, PopPlaces
<1>1. CASE UNCHANGED <<fragments, result, toSend, pc>>
  BY <1>1, MaxFragmentsAssumption
<1>2. CASE NextRange
  BY <1>2, MaxFragmentsAssumption DEF NextRange, buffers, history
<1>3. CASE AddFragment
  BY <1>3, AddFacts, MaxFragmentsAssumption DEF AddFragment, Added, ShiftIndices
<1>4. CASE AddWait
  BY <1>4, MaxFragmentsAssumption DEF AddWait, buffers, history
<1>5. CASE WritePartial
  <2>1. PICK n \in Nat : BytesWritten(n)
    BY <1>5, WriteFacts
  <2>2. CASE WrittenInside(n)
    BY <2>1, <2>2, MaxFragmentsAssumption DEF BytesWritten, Stored, WrittenInside
  <2>3. CASE WrittenToEnd(n)
    BY <2>1, <2>3, MaxFragmentsAssumption DEF BytesWritten, Stored, WrittenToEnd
  <2>4. CASE WrittenTruncated(n)
    BY <2>1, <2>4, MaxFragmentsAssumption DEF BytesWritten, Stored, WrittenTruncated
  <2>5. QED
    BY <2>1, <2>2, <2>3, <2>4 DEF BytesWritten
<1>6. CASE WriteRefused
  BY <1>6, MaxFragmentsAssumption DEF WriteRefused, buffers, history
<1>7. CASE WriteWait
  BY <1>7, MaxFragmentsAssumption DEF WriteWait, buffers, history
<1>8. CASE WriteNotify
  BY <1>8, MaxFragmentsAssumption DEF WriteNotify, Notify, buffers, history
<1>9. CASE CurlDone
  BY <1>9, MaxFragmentsAssumption DEF CurlDone, buffers, history
<1>10. CASE CurlError
  BY <1>10, MaxFragmentsAssumption DEF CurlError, buffers, history
<1>11. CASE DemuxLoop
  BY <1>11, MaxFragmentsAssumption DEF DemuxLoop, buffers, history
<1>12. CASE Tell
  BY <1>12, MaxFragmentsAssumption DEF Tell, CanRead, buffers, history
<1>13. CASE GetSize
  BY <1>13, MaxFragmentsAssumption DEF GetSize, buffers, history
<1>14. CASE ReadPartial
  BY <1>14, MaxFragmentsAssumption DEF ReadPartial, ReadInside, ReadToEnd, ReadTruncated, AtomDone,
       AdvanceRead, CanRead, buffers, history
<1>15. CASE ReadNothing
  BY <1>15, MaxFragmentsAssumption DEF ReadNothing, buffers, history
<1>16. CASE Seek
  BY <1>16, MaxFragmentsAssumption DEF Seek, AdvanceRead, AtomDone, buffers, history
<1>17. CASE PopFragment
  BY <1>17, PopFacts, MaxFragmentsAssumption DEF PopFragment, Popped
<1>18. CASE PopNotify
  BY <1>18, MaxFragmentsAssumption DEF PopNotify, Notify, buffers, history
<1>19. CASE SpuriousWakeup
  BY <1>19, MaxFragmentsAssumption DEF SpuriousWakeup, buffers, history
<1>20. CASE StopWriter
  BY <1>20, MaxFragmentsAssumption DEF StopWriter, buffers, history
<1>21. CASE StopReader
  BY <1>21, MaxFragmentsAssumption DEF StopReader, buffers, history
<1>22. CASE ShutdownFlag
  BY <1>22, MaxFragmentsAssumption DEF ShutdownFlag, buffers, history
<1>23. CASE ShutdownNotifyReader
  BY <1>23, MaxFragmentsAssumption DEF ShutdownNotifyReader, Notify, buffers, history
<1>24. CASE ShutdownNotifyAdder
  BY <1>24, MaxFragmentsAssumption DEF ShutdownNotifyAdder, Notify, buffers, history
<1>25. CASE AtomEndsInside
  BY <1>25, MaxFragmentsAssumption DEF AtomEndsInside, AtomDone, buffers, history
<1>26. CASE PopWait
  BY <1>26, MaxFragmentsAssumption DEF PopWait, CanPopFragment, buffers, history
<1>27. QED
  BY <1>1, <1>2, <1>3, <1>4, <1>5, <1>6, <1>7, <1>8, <1>9, <1>10, <1>11, <1>12, <1>13, <1>14,
       <1>15, <1>16, <1>17, <1>18, <1>19, <1>20, <1>21, <1>22, <1>23, <1>24, <1>25, <1>26
     DEF Next, WriterStep, ReaderStep, StopStreamStep, vars, buffers, history

\* The writer takes its index down, the reader its own, and a new fragment both up.
LEMMA IndicesStep == IInv /\ [Next]_vars => IndicesInOrder'
<1> SUFFICES ASSUME IInv, [Next]_vars
             PROVE  IndicesInOrder'
  OBVIOUS
<1> USE FragmentFacts DEF IInv, Goto, TypeOK, IndicesInOrder, RoomToAdd, StopOrder,
     Threads, Workers, WriterPlaces, ReaderPlaces, ControlPlaces, AddPlaces, WritePlaces, PopPlaces
<1>1. CASE UNCHANGED <<fragments, readIdx, writeIdx, isRunning, mdatLast, pc>>
  BY <1>1
<1>2. CASE NextRange
  BY <1>2 DEF NextRange, buffers, history
<1>3. CASE AddFragment
  <2>1. Len(fragments) \in Nat /\ Len(fragments') = Len(fragments) + 1
    BY <1>3, AddFacts DEF Added
  <2>2. /\ writeIdx' = writeIdx + 1 /\ readIdx' = readIdx + 1
        /\ isRunning' = isRunning /\ mdatLast' = mdatLast
        /\ pc'["reader"] = pc["reader"]
    BY <1>3 DEF AddFragment, ShiftIndices
  <2>3. QED
    BY <2>1, <2>2
<1>4. CASE AddWait
  BY <1>4 DEF AddWait, buffers, history
<1>5. CASE WritePartial
  <2>1. PICK n \in Nat : BytesWritten(n)
    BY <1>5, WriteFacts
  <2>2. CASE WrittenInside(n)
    BY <2>1, <2>2 DEF BytesWritten, Stored, WrittenInside
  <2>3. CASE WrittenToEnd(n)
    BY <2>1, <2>3 DEF BytesWritten, Stored, WrittenToEnd
  <2>4. CASE WrittenTruncated(n)
    BY <2>1, <2>4 DEF BytesWritten, Stored, WrittenTruncated
  <2>5. QED
    BY <2>1, <2>2, <2>3, <2>4 DEF BytesWritten
<1>6. CASE WriteRefused
  BY <1>6 DEF WriteRefused, buffers, history
<1>7. CASE WriteWait
  BY <1>7 DEF WriteWait, buffers, history
<1>8. CASE WriteNotify
  BY <1>8 DEF WriteNotify, Notify, buffers, history
<1>9. CASE CurlDone
  BY <1>9 DEF CurlDone, buffers, history
<1>10. CASE CurlError
  BY <1>10 DEF CurlError, buffers, history
<1>11. CASE DemuxLoop
  BY <1>11 DEF DemuxLoop, buffers, history
<1>12. CASE Tell
  BY <1>12 DEF Tell, CanRead, buffers, history
<1>13. CASE GetSize
  BY <1>13 DEF GetSize, buffers, history
<1>14. CASE ReadPartial
  BY <1>14, ReaderFacts DEF ReadPartial, ReadInside, ReadToEnd, ReadTruncated, AtomDone, AdvanceRead, CanRead, buffers, history
<1>15. CASE ReadNothing
  BY <1>15 DEF ReadNothing, buffers, history
<1>16. CASE Seek
  BY <1>16, ReaderFacts DEF Seek, AdvanceRead, AtomDone, buffers, history
<1>17. CASE PopFragment
  <2>1. Len(fragments) \in Nat \ {0} /\ Len(fragments') = Len(fragments) - 1
    BY <1>17, PopFacts DEF Popped
  <2>2. /\ writeIdx < Len(fragments) - 1 /\ pc["reader"] \in {"pop", "popWoken"}
        /\ UNCHANGED <<readIdx, writeIdx, isRunning, mdatLast>>
        /\ pc'["reader"] = "popNotify"
    BY <1>17 DEF PopFragment, history
  <2>3. readIdx < Len(fragments) - 1 \/ (~isRunning /\ readIdx < Len(fragments))
    BY <1>17, <2>1, <2>2 DEF PopFragment, CanPopFragment
  <2>4. ~(readIdx < Len(fragments) - 1) => ~mdatLast
    BY <2>1, <2>2 DEF RangesEndWithMdat
  <2>5. QED
    BY <2>1, <2>2, <2>3, <2>4
<1>18. CASE PopNotify
  BY <1>18 DEF PopNotify, Notify, buffers, history
<1>19. CASE SpuriousWakeup
  BY <1>19 DEF SpuriousWakeup, buffers, history
<1>20. CASE StopWriter
  BY <1>20 DEF StopWriter, buffers, history
<1>21. CASE StopReader
  BY <1>21 DEF StopReader, buffers, history
<1>22. CASE ShutdownFlag
  BY <1>22 DEF ShutdownFlag, buffers, history
<1>23. CASE ShutdownNotifyReader
  BY <1>23 DEF ShutdownNotifyReader, Notify, buffers, history
<1>24. CASE ShutdownNotifyAdder
  BY <1>24 DEF ShutdownNotifyAdder, Notify, buffers, history
<1>25. CASE AtomEndsInside
  BY <1>25, ReaderFacts DEF AtomEndsInside, AtomDone, buffers, history
<1>26. CASE PopWait
  BY <1>26 DEF PopWait, CanPopFragment, buffers, history
<1>27. QED
  BY <1>1, <1>2, <1>3, <1>4, <1>5, <1>6, <1>7, <1>8, <1>9, <1>10, <1>11, <1>12, <1>13, <1>14,
       <1>15, <1>16, <1>17, <1>18, <1>19, <1>20, <1>21, <1>22, <1>23, <1>24, <1>25, <1>26
     DEF Next, WriterStep, ReaderStep, StopStreamStep, vars, buffers, history

\* An mdat at the end of its range leaves that range alone behind the reader.
LEMMA EndOfRange ==
  ASSUME IInv, UNCHANGED <<fragments, result>>, readIdx \in Nat, At(readIdx).range \in Nat,
         At(readIdx).range = result.range + Len(fragments) - readIdx,
         pc["reader"] \in {"header", "parse"}, AdvanceRead, AtomDone(TRUE)
  PROVE  RangesEndWithMdat'
<1> SUFFICES ASSUME mdatLast'
             PROVE  /\ Len(fragments) - 1 - readIdx' = IF pc'["reader"] = "pop" THEN 1 ELSE 0
                    /\ pc'["reader"] \notin {"popWaiting", "popWoken"}
                    /\ pc'["reader"] = "pop" => parsed' = result.range + 1
                    /\ pc'["reader"] = "popNotify" => parsed' = result.range
  BY DEF RangesEndWithMdat
<1>1. mdatLast /\ pc'["reader"] = "pop" /\ parsed' = At(readIdx).range
  BY AtomTypes DEF IInv
<1>2. Len(fragments) - 1 - readIdx = 0
  BY <1>1 DEF IInv, RangesEndWithMdat
<1>3. Len(fragments) \in Nat /\ result.range \in Nat
  BY FragmentFacts DEF IInv, TypeOK, FragmentType
<1>4. readIdx' = readIdx - 1
  BY DEF AdvanceRead
<1>5. QED
  BY <1>1, <1>2, <1>3, <1>4

\* Only an atom's end and a PopFragment() use up or take a fragment.
LEMMA MdatStep == IInv /\ [Next]_vars => RangesEndWithMdat'
<1> SUFFICES ASSUME IInv, [Next]_vars
             PROVE  RangesEndWithMdat'
  OBVIOUS
<1> USE FragmentFacts DEF IInv, Goto, TypeOK, IndicesInOrder, RoomToAdd, InRangeOrder,
     RangesEndWithMdat, Threads, Workers, WriterPlaces, ReaderPlaces, ControlPlaces,
     AddPlaces, WritePlaces, PopPlaces
<1>1. CASE UNCHANGED <<fragments, result, readIdx, mdatLast, parsed, pc>>
  BY <1>1
<1>2. CASE NextRange
  BY <1>2 DEF NextRange, buffers, history
<1>3. CASE AddFragment
  <2>1. Len(fragments) \in Nat /\ Len(fragments') = Len(fragments) + 1
    BY <1>3, AddFacts DEF Added
  <2>2. /\ readIdx' = readIdx + 1 /\ pc'["reader"] = pc["reader"]
        /\ UNCHANGED <<mdatLast, parsed, result>>
    BY <1>3 DEF AddFragment, ShiftIndices
  <2>3. QED
    BY <2>1, <2>2
<1>4. CASE AddWait
  BY <1>4 DEF AddWait, buffers, history
<1>5. CASE WritePartial
  <2>1. PICK n \in Nat : BytesWritten(n)
    BY <1>5, WriteFacts
  <2>2. CASE WrittenInside(n)
    BY <2>1, <2>2 DEF BytesWritten, Stored, WrittenInside
  <2>3. CASE WrittenToEnd(n)
    BY <2>1, <2>3 DEF BytesWritten, Stored, WrittenToEnd
  <2>4. CASE WrittenTruncated(n)
    BY <2>1, <2>4 DEF BytesWritten, Stored, WrittenTruncated
  <2>5. QED
    BY <2>1, <2>2, <2>3, <2>4 DEF BytesWritten
<1>6. CASE WriteRefused
  BY <1>6 DEF WriteRefused, buffers, history
<1>7. CASE WriteWait
  BY <1>7 DEF WriteWait, buffers, history
<1>8. CASE WriteNotify
  BY <1>8 DEF WriteNotify, Notify, buffers, history
<1>9. CASE CurlDone
  BY <1>9 DEF CurlDone, buffers, history
<1>10. CASE CurlError
  BY <1>10 DEF CurlError, buffers, history
<1>11. CASE DemuxLoop
  BY <1>11 DEF DemuxLoop, buffers, history
<1>12. CASE Tell
  BY <1>12 DEF Tell, CanRead, buffers, history
<1>13. CASE GetSize
  BY <1>13 DEF GetSize, buffers, history
<1>14. CASE ReadPartial
  <2>1. /\ readIdx \in Nat /\ At(readIdx).range \in Nat /\ pc["reader"] \in {"header", "parse"}
        /\ At(readIdx).range = result.range + Len(fragments) - readIdx
    BY <1>14, ReaderFacts
  <2>2. UNCHANGED <<fragments, result>>
    BY <1>14 DEF ReadPartial
  <2>3. PICK n \in 1 .. At(readIdx).size + 1 : ReadInside(n) \/ ReadToEnd(n) \/ ReadTruncated(n)
    BY <1>14 DEF ReadPartial
  <2>4. CASE ReadInside(n)
    BY <2>1, <2>2, <2>4 DEF ReadInside
  <2>5. CASE ReadToEnd(n)
    BY <2>1, <2>2, <2>5, EndOfRange DEF ReadToEnd
  <2>6. CASE ReadTruncated(n)
    BY <2>1, <2>2, <2>6 DEF ReadTruncated
  <2>7. QED
    BY <2>3, <2>4, <2>5, <2>6
<1>15. CASE ReadNothing
  BY <1>15 DEF ReadNothing, buffers, history
<1>16. CASE Seek
  <2>1. /\ readIdx \in Nat /\ At(readIdx).range \in Nat /\ pc["reader"] \in {"header", "parse"}
        /\ At(readIdx).range = result.range + Len(fragments) - readIdx
    BY <1>16, ReaderFacts
  <2>2. UNCHANGED <<fragments, result>>
    BY <1>16 DEF Seek
  <2>3. CASE UNCHANGED <<readIdx, mdatLast, parsed, pc>>
    BY <2>2, <2>3
  <2>4. CASE AdvanceRead /\ AtomDone(TRUE)
    BY <2>1, <2>2, <2>4, EndOfRange
  <2>5. CASE Goto("reader", "exited") /\ UNCHANGED <<readIdx, readPosition, mdatLast, parsed>>
    BY <2>1, <2>2, <2>5
  <2>6. QED
    BY <1>16, <2>3, <2>4, <2>5 DEF Seek
<1>17. CASE PopFragment
  <2>1. /\ Len(fragments) \in Nat \ {0} /\ Len(fragments') = Len(fragments) - 1
        /\ result'.range = result.range + 1
    BY <1>17, PopFacts DEF Popped
  <2>2. /\ UNCHANGED <<readIdx, mdatLast, parsed>> /\ pc'["reader"] = "popNotify"
        /\ pc["reader"] \in {"pop", "popWoken"}
    BY <1>17 DEF PopFragment, history
  <2>3. QED
    BY <2>1, <2>2
<1>18. CASE PopNotify
  BY <1>18 DEF PopNotify, Notify, buffers, history
<1>19. CASE SpuriousWakeup
  BY <1>19 DEF SpuriousWakeup, buffers, history
<1>20. CASE StopWriter
  BY <1>20 DEF StopWriter, buffers, history
<1>21. CASE StopReader
  BY <1>21 DEF StopReader, buffers, history
<1>22. CASE ShutdownFlag
  BY <1>22 DEF ShutdownFlag, buffers, history
<1>23. CASE ShutdownNotifyReader
  BY <1>23 DEF ShutdownNotifyReader, Notify, buffers, history
<1>24. CASE ShutdownNotifyAdder
  BY <1>24 DEF ShutdownNotifyAdder, Notify, buffers, history
<1>25. CASE AtomEndsInside
  BY <1>25, ReaderFacts DEF AtomEndsInside, AtomDone, buffers, history
<1>26. CASE PopWait
  BY <1>26 DEF PopWait, CanPopFragment, buffers, history
<1>27. QED
  BY <1>1, <1>2, <1>3, <1>4, <1>5, <1>6, <1>7, <1>8, <1>9, <1>10, <1>11, <1>12, <1>13, <1>14,
       <1>15, <1>16, <1>17, <1>18, <1>19, <1>20, <1>21, <1>22, <1>23, <1>24, <1>25, <1>26
     DEF Next, WriterStep, ReaderStep, StopStreamStep, vars, buffers, history

\* A fragment is left at its last byte.
LEMMA WrittenStep == IInv /\ [Next]_vars => WrittenUpTo'
<1> SUFFICES ASSUME IInv, [Next]_vars
             PROVE  WrittenUpTo'
  OBVIOUS
<1> USE FragmentFacts DEF IInv, Goto, TypeOK, IndicesInOrder, RoomToAdd,
     WrittenUpTo, InRangeOrder, FilledTo, Threads, Workers, WriterPlaces, ReaderPlaces,
     ControlPlaces, AddPlaces, WritePlaces, PopPlaces
<1>1. CASE UNCHANGED <<fragments, result, writeIdx, writePosition, pc>>
  BY <1>1
<1>2. CASE NextRange
  BY <1>2 DEF NextRange, buffers, history
<1>3. CASE AddFragment
  BY <1>3, AddKeepsWritten
<1>4. CASE AddWait
  BY <1>4 DEF AddWait, buffers, history
<1>5. CASE WritePartial
  BY <1>5, WriteKeepsWritten
<1>6. CASE WriteRefused
  BY <1>6 DEF WriteRefused, buffers, history
<1>7. CASE WriteWait
  BY <1>7 DEF WriteWait, buffers, history
<1>8. CASE WriteNotify
  BY <1>8 DEF WriteNotify, Notify, buffers, history
<1>9. CASE CurlDone
  BY <1>9 DEF CurlDone, buffers, history
<1>10. CASE CurlError
  BY <1>10 DEF CurlError, buffers, history
<1>11. CASE DemuxLoop
  BY <1>11 DEF DemuxLoop, buffers, history
<1>12. CASE Tell
  BY <1>12 DEF Tell, CanRead, buffers, history
<1>13. CASE GetSize
  BY <1>13 DEF GetSize, buffers, history
<1>14. CASE ReadPartial
  BY <1>14 DEF ReadPartial, ReadInside, ReadToEnd, ReadTruncated, AtomDone, AdvanceRead, CanRead, buffers, history
<1>15. CASE ReadNothing
  BY <1>15 DEF ReadNothing, buffers, history
<1>16. CASE Seek
  BY <1>16 DEF Seek, AdvanceRead, AtomDone, buffers, history
<1>17. CASE PopFragment
  BY <1>17, PopKeepsWritten
<1>18. CASE PopNotify
  BY <1>18 DEF PopNotify, Notify, buffers, history
<1>19. CASE SpuriousWakeup
  BY <1>19 DEF SpuriousWakeup, buffers, history
<1>20. CASE StopWriter
  BY <1>20 DEF StopWriter, buffers, history
<1>21. CASE StopReader
  BY <1>21 DEF StopReader, buffers, history
<1>22. CASE ShutdownFlag
  BY <1>22 DEF ShutdownFlag, buffers, history
<1>23. CASE ShutdownNotifyReader
  BY <1>23 DEF ShutdownNotifyReader, Notify, buffers, history
<1>24. CASE ShutdownNotifyAdder
  BY <1>24 DEF ShutdownNotifyAdder, Notify, buffers, history
<1>25. CASE AtomEndsInside
  BY <1>25 DEF AtomEndsInside, AtomDone, buffers, history
<1>26. CASE PopWait
  BY <1>26 DEF PopWait, CanPopFragment, buffers, history
<1>27. QED
  BY <1>1, <1>2, <1>3, <1>4, <1>5, <1>6, <1>7, <1>8, <1>9, <1>10, <1>11, <1>12, <1>13, <1>14,
       <1>15, <1>16, <1>17, <1>18, <1>19, <1>20, <1>21, <1>22, <1>23, <1>24, <1>25, <1>26
     DEF Next, WriterStep, ReaderStep, StopStreamStep, vars, buffers, history

\* The oldest is the next to be popped, the newest the last one reserved.
LEMMA RangeStep == IInv /\ [Next]_vars => InRangeOrder'
<1> SUFFICES ASSUME IInv, [Next]_vars
             PROVE  InRangeOrder'
  OBVIOUS
<1> USE FragmentFacts DEF IInv, Goto, TypeOK, IndicesInOrder, RoomToAdd,
     InRangeOrder, LastRange
<1>1. CASE UNCHANGED <<fragments, result>>
  BY <1>1
<1>2. CASE AddFragment
  BY <1>2, AddKeepsRanges
<1>3. CASE WritePartial
  <2>1. PICK n \in Nat : BytesWritten(n)
    BY <1>3, WriteFacts
  <2>2. CASE WrittenInside(n)
    BY <2>1, <2>2 DEF BytesWritten, Stored, WrittenInside
  <2>3. CASE WrittenToEnd(n)
    BY <2>1, <2>3 DEF BytesWritten, Stored, WrittenToEnd
  <2>4. CASE WrittenTruncated(n)
    BY <2>1, <2>4 DEF BytesWritten, Stored, WrittenTruncated
  <2>5. QED
    BY <2>1, <2>2, <2>3, <2>4 DEF BytesWritten
<1>4. CASE PopFragment
  BY <1>4, PopKeepsRanges
<1>5. QED
  BY <1>1, <1>2, <1>3, <1>4
     DEF Next, WriterStep, ReaderStep, StopStreamStep, vars, buffers, history,
         NextRange, AddWait, WriteRefused, WriteWait, WriteNotify, CurlDone, CurlError,
         DemuxLoop, Tell, GetSize, ReadPartial, ReadNothing, Seek, AtomEndsInside, PopWait, PopNotify, SpuriousWakeup,
         StopWriter, StopReader, ShutdownFlag, ShutdownNotifyReader, ShutdownNotifyAdder

\* A response of the right length fills the newest fragment, of which it is.
LEMMA ExactStep == IInv /\ [Next]_vars => ExactResponses'
<1> SUFFICES ASSUME IInv, [Next]_vars
             PROVE  ExactResponses'
  OBVIOUS
<1> USE FragmentFacts DEF IInv, Goto, TypeOK, IndicesInOrder, RoomToAdd,
     WrittenUpTo, FilledTo, InRangeOrder, ExactResponses, LastRange, Threads, Workers,
     WriterPlaces, ReaderPlaces, ControlPlaces, AddPlaces, WritePlaces, PopPlaces
<1>1. CASE UNCHANGED <<fragments, result, writeIdx, writePosition, toSend, exact>>
  BY <1>1
<1>2. CASE AddFragment
  BY <1>2, AddKeepsExact
<1>3. CASE WritePartial
  BY <1>3, WriteKeepsExact
<1>4. CASE PopFragment
  BY <1>4, PopKeepsExact
<1>5. QED
  BY <1>1, <1>2, <1>3, <1>4
     DEF Next, WriterStep, ReaderStep, StopStreamStep, vars, buffers, history,
         NextRange, AddWait, WriteRefused, WriteWait, WriteNotify, CurlDone, CurlError,
         DemuxLoop, Tell, GetSize, ReadPartial, ReadNothing, Seek, AtomEndsInside, PopWait, PopNotify, SpuriousWakeup,
         StopWriter, StopReader, ShutdownFlag, ShutdownNotifyReader, ShutdownNotifyAdder

\* After Shutdown() a waiting writer adds its fragment, and never comes back for another.
LEMMA LimitStep == IInv /\ [Next]_vars => DownloadLimit'
<1> SUFFICES ASSUME IInv, [Next]_vars
             PROVE  DownloadLimit'
  OBVIOUS
<1> USE FragmentFacts DEF IInv, Goto, TypeOK, StopOrder, RoomToAdd, IndicesInOrder,
     DownloadLimit, CanAdd, Threads, Workers, WriterPlaces, ReaderPlaces,
     ControlPlaces, AddPlaces, WritePlaces, PopPlaces
<1>1. CASE UNCHANGED <<fragments, isRunning>>
  BY <1>1, MaxFragmentsAssumption
<1>2. CASE AddFragment
  <2>1. Len(fragments') = Len(fragments) + 1 /\ Len(fragments) \in Nat
    BY <1>2, AddFacts DEF Added
  <2>2. isRunning' = isRunning /\ (Len(fragments) < MaxFragments \/ ~isRunning)
    BY <1>2 DEF AddFragment
  <2>3. ~isRunning => Len(fragments) <= MaxFragments
    BY <1>2 DEF AddFragment
  <2>4. QED
    BY <2>1, <2>2, <2>3, MaxFragmentsAssumption
<1>3. CASE WritePartial
  <2>1. PICK n \in Nat : BytesWritten(n)
    BY <1>3, WriteFacts
  <2>2. CASE WrittenInside(n)
    BY <2>1, <2>2, MaxFragmentsAssumption DEF BytesWritten, Stored, WrittenInside
  <2>3. CASE WrittenToEnd(n)
    BY <2>1, <2>3, MaxFragmentsAssumption DEF BytesWritten, Stored, WrittenToEnd
  <2>4. CASE WrittenTruncated(n)
    BY <2>1, <2>4, MaxFragmentsAssumption DEF BytesWritten, Stored, WrittenTruncated
  <2>5. QED
    BY <2>1, <2>2, <2>3, <2>4 DEF BytesWritten
<1>4. CASE PopFragment
  BY <1>4, PopFacts, MaxFragmentsAssumption DEF PopFragment, Popped
<1>5. CASE ShutdownFlag
  BY <1>5, MaxFragmentsAssumption DEF ShutdownFlag, buffers, history
<1>6. QED
  BY <1>1, <1>2, <1>3, <1>4, <1>5
     DEF Next, WriterStep, ReaderStep, StopStreamStep, vars, buffers, history,
         NextRange, AddWait, WriteRefused, WriteWait, WriteNotify, CurlDone, CurlError,
         DemuxLoop, Tell, GetSize, ReadPartial, ReadNothing, Seek, AtomEndsInside, PopWait, PopNotify, SpuriousWakeup,
         StopWriter, StopReader, ShutdownNotifyReader, ShutdownNotifyAdder

\* While the stream runs, GetSize() has a fragment.
LEMMA UndefinedStep == IInv /\ [Next]_vars => UndefinedAfterShutdown'
<1> SUFFICES ASSUME IInv, [Next]_vars
             PROVE  UndefinedAfterShutdown'
  OBVIOUS
<1> USE FragmentFacts DEF IInv, Goto, TypeOK, IndicesInOrder,
     UndefinedAfterShutdown, Threads, Workers, WriterPlaces, ReaderPlaces, ControlPlaces,
     AddPlaces, WritePlaces, PopPlaces
<1>1. CASE UNCHANGED <<isRunning, pc>>
  BY <1>1
<1>2. CASE NextRange
  BY <1>2 DEF NextRange, buffers, history
<1>3. CASE AddFragment
  BY <1>3, AddFacts DEF AddFragment, Added, ShiftIndices
<1>4. CASE AddWait
  BY <1>4 DEF AddWait, buffers, history
<1>5. CASE WritePartial
  <2>1. PICK n \in Nat : BytesWritten(n)
    BY <1>5, WriteFacts
  <2>2. CASE WrittenInside(n)
    BY <2>1, <2>2 DEF BytesWritten, Stored, WrittenInside
  <2>3. CASE WrittenToEnd(n)
    BY <2>1, <2>3 DEF BytesWritten, Stored, WrittenToEnd
  <2>4. CASE WrittenTruncated(n)
    BY <2>1, <2>4 DEF BytesWritten, Stored, WrittenTruncated
  <2>5. QED
    BY <2>1, <2>2, <2>3, <2>4 DEF BytesWritten
<1>6. CASE WriteRefused
  BY <1>6 DEF WriteRefused, buffers, history
<1>7. CASE WriteWait
  BY <1>7 DEF WriteWait, buffers, history
<1>8. CASE WriteNotify
  BY <1>8 DEF WriteNotify, Notify, buffers, history
<1>9. CASE CurlDone
  BY <1>9 DEF CurlDone, buffers, history
<1>10. CASE CurlError
  BY <1>10 DEF CurlError, buffers, history
<1>11. CASE DemuxLoop
  BY <1>11 DEF DemuxLoop, buffers, history
<1>12. CASE Tell
  BY <1>12 DEF Tell, CanRead, buffers, history
<1>13. CASE GetSize
  BY <1>13 DEF GetSize, buffers, history
<1>14. CASE ReadPartial
  BY <1>14 DEF ReadPartial, ReadInside, ReadToEnd, ReadTruncated, AtomDone, AdvanceRead, CanRead, buffers, history
<1>15. CASE ReadNothing
  BY <1>15 DEF ReadNothing, buffers, history
<1>16. CASE Seek
  BY <1>16 DEF Seek, AdvanceRead, AtomDone, buffers, history
<1>17. CASE PopFragment
  BY <1>17, PopFacts DEF PopFragment, Popped
<1>18. CASE PopNotify
  BY <1>18 DEF PopNotify, Notify, buffers, history
<1>19. CASE SpuriousWakeup
  BY <1>19 DEF SpuriousWakeup, buffers, history
<1>20. CASE StopWriter
  BY <1>20 DEF StopWriter, buffers, history
<1>21. CASE StopReader
  BY <1>21 DEF StopReader, buffers, history
<1>22. CASE ShutdownFlag
  BY <1>22 DEF ShutdownFlag, buffers, history
<1>23. CASE ShutdownNotifyReader
  BY <1>23 DEF ShutdownNotifyReader, Notify, buffers, history
<1>24. CASE ShutdownNotifyAdder
  BY <1>24 DEF ShutdownNotifyAdder, Notify, buffers, history
<1>25. CASE AtomEndsInside
  BY <1>25 DEF AtomEndsInside, AtomDone, buffers, history
<1>26. CASE PopWait
  BY <1>26 DEF PopWait, CanPopFragment, buffers, history
<1>27. QED
  BY <1>1, <1>2, <1>3, <1>4, <1>5, <1>6, <1>7, <1>8, <1>9, <1>10, <1>11, <1>12, <1>13, <1>14,
       <1>15, <1>16, <1>17, <1>18, <1>19, <1>20, <1>21, <1>22, <1>23, <1>24, <1>25, <1>26
     DEF Next, WriterStep, ReaderStep, StopStreamStep, vars, buffers, history

\* With a response of the right length there is a fragment for the rest of it.
LEMMA SleepStep == IInv /\ [Next]_vars => WriterSleepsOnWrongLength'
<1> SUFFICES ASSUME IInv, [Next]_vars
             PROVE  WriterSleepsOnWrongLength'
  OBVIOUS
<1> USE FragmentFacts DEF IInv, Goto, TypeOK, IndicesInOrder, ExactResponses,
     WriterSleepsOnWrongLength, Threads, Workers, WriterPlaces, ReaderPlaces, ControlPlaces,
     AddPlaces, WritePlaces, PopPlaces
<1>1. CASE UNCHANGED <<exact, pc>>
  BY <1>1
<1>2. CASE NextRange
  BY <1>2 DEF NextRange, buffers, history
<1>3. CASE AddFragment
  BY <1>3, AddFacts DEF AddFragment, Added, ShiftIndices
<1>4. CASE AddWait
  BY <1>4 DEF AddWait, buffers, history
<1>5. CASE WritePartial
  <2>1. PICK n \in Nat : BytesWritten(n)
    BY <1>5, WriteFacts
  <2>2. CASE WrittenInside(n)
    BY <2>1, <2>2 DEF BytesWritten, Stored, WrittenInside
  <2>3. CASE WrittenToEnd(n)
    BY <2>1, <2>3 DEF BytesWritten, Stored, WrittenToEnd
  <2>4. CASE WrittenTruncated(n)
    BY <2>1, <2>4 DEF BytesWritten, Stored, WrittenTruncated
  <2>5. QED
    BY <2>1, <2>2, <2>3, <2>4 DEF BytesWritten
<1>6. CASE WriteRefused
  BY <1>6 DEF WriteRefused, buffers, history
<1>7. CASE WriteWait
  BY <1>7 DEF WriteWait, CanWrite, buffers, history
<1>8. CASE WriteNotify
  BY <1>8 DEF WriteNotify, Notify, buffers, history
<1>9. CASE CurlDone
  BY <1>9 DEF CurlDone, buffers, history
<1>10. CASE CurlError
  BY <1>10 DEF CurlError, buffers, history
<1>11. CASE DemuxLoop
  BY <1>11 DEF DemuxLoop, buffers, history
<1>12. CASE Tell
  BY <1>12 DEF Tell, CanRead, buffers, history
<1>13. CASE GetSize
  BY <1>13 DEF GetSize, buffers, history
<1>14. CASE ReadPartial
  BY <1>14 DEF ReadPartial, ReadInside, ReadToEnd, ReadTruncated, AtomDone, AdvanceRead, CanRead, buffers, history
<1>15. CASE ReadNothing
  BY <1>15 DEF ReadNothing, buffers, history
<1>16. CASE Seek
  BY <1>16 DEF Seek, AdvanceRead, AtomDone, buffers, history
<1>17. CASE PopFragment
  BY <1>17, PopFacts DEF PopFragment, Popped, history
<1>18. CASE PopNotify
  BY <1>18 DEF PopNotify, Notify, buffers, history
<1>19. CASE SpuriousWakeup
  BY <1>19 DEF SpuriousWakeup, buffers, history
<1>20. CASE StopWriter
  BY <1>20 DEF StopWriter, buffers, history
<1>21. CASE StopReader
  BY <1>21 DEF StopReader, buffers, history
<1>22. CASE ShutdownFlag
  BY <1>22 DEF ShutdownFlag, buffers, history
<1>23. CASE ShutdownNotifyReader
  BY <1>23 DEF ShutdownNotifyReader, Notify, buffers, history
<1>24. CASE ShutdownNotifyAdder
  BY <1>24 DEF ShutdownNotifyAdder, Notify, buffers, history
<1>25. CASE AtomEndsInside
  BY <1>25 DEF AtomEndsInside, AtomDone, buffers, history
<1>26. CASE PopWait
  BY <1>26 DEF PopWait, CanPopFragment, buffers, history
<1>27. QED
  BY <1>1, <1>2, <1>3, <1>4, <1>5, <1>6, <1>7, <1>8, <1>9, <1>10, <1>11, <1>12, <1>13, <1>14,
       <1>15, <1>16, <1>17, <1>18, <1>19, <1>20, <1>21, <1>22, <1>23, <1>24, <1>25, <1>26
     DEF Next, WriterStep, ReaderStep, StopStreamStep, vars, buffers, history

-----------------------------------------------------------------------------
\* The stream before the first fragment.
LEMMA InitHolds == Init => IInv
<1> SUFFICES ASSUME Init
             PROVE  IInv
  OBVIOUS
<1>1. fragments \in Seq(FragmentType) /\ Len(fragments) = 0
  BY EmptySeq DEF Init
<1>2. result \in FragmentType /\ result.range = 0 /\ result.filled = result.size /\ result.from = {}
  BY DEF Init, NoFragment, FragmentType
<1>3. /\ DOMAIN pc = Threads /\ pc["writer"] = "loop" /\ pc["reader"] = "loop" /\ pc["control"] = "idle"
  BY DEF Init, Threads, Workers
<1>4. TypeOK
  <2>1. /\ readIdx \in Int /\ writeIdx \in Int /\ readPosition \in Nat /\ writePosition \in Nat
        /\ toSend \in Nat /\ isRunning \in BOOLEAN /\ exact \in BOOLEAN
        /\ mdatLast \in BOOLEAN /\ parsed \in Nat /\ running \subseteq Workers
    BY DEF Init
  <2>2. pc["writer"] \in WriterPlaces /\ pc["reader"] \in ReaderPlaces /\ pc["control"] \in ControlPlaces
    BY <1>3 DEF WriterPlaces, ReaderPlaces, ControlPlaces
  <2>3. QED
    BY <1>1, <1>2, <1>3, <2>1, <2>2 DEF TypeOK
<1>5. StopOrder /\ RoomToAdd /\ UndefinedAfterShutdown /\ WriterSleepsOnWrongLength
  BY <1>3 DEF Init, StopOrder, RoomToAdd, AddPlaces, UndefinedAfterShutdown, WriterSleepsOnWrongLength
<1>6. IndicesInOrder /\ RangesEndWithMdat /\ DownloadLimit
  BY <1>1, <1>3, MaxFragmentsAssumption
     DEF Init, IndicesInOrder, RangesEndWithMdat, DownloadLimit, PopPlaces
<1>7. WrittenUpTo /\ InRangeOrder /\ ExactResponses
  BY <1>1, <1>2 DEF Init, WrittenUpTo, FilledTo, InRangeOrder, ExactResponses
<1>8. QED
  BY <1>4, <1>5, <1>6, <1>7 DEF IInv

\* The invariant holds: InitHolds, the steps, and induction.
THEOREM InvariantHolds == Spec => []IInv
<1>1. IInv /\ [Next]_vars => IInv'
  BY TypeStep, StopStep, RoomStep, IndicesStep, MdatStep, WrittenStep, RangeStep, ExactStep, LimitStep,
     UndefinedStep, SleepStep DEF IInv
<1>2. QED
  BY InitHolds, <1>1, PTL DEF Spec

\* The variables of the stream have their types.
THEOREM TypeCorrect == Spec => []TypeOK
<1>1. IInv => TypeOK
  BY DEF IInv
<1>2. QED
  BY <1>1, InvariantHolds, PTL

\* CHECK_INVARIANT holds until Shutdown(), and after it as long as ranges end with their
\* mdat; no byte is parsed before it is written; and then ParseMoofMdat() gets the
\* fragment whose mdat it parsed, and never sleeps for it.
THEOREM ReaderBehindWriter == Spec => []ReaderStaysBehindWriter
<1>1. IInv => ReaderStaysBehindWriter
  <2> SUFFICES ASSUME IInv
               PROVE  ReaderStaysBehindWriter
    OBVIOUS
  <2>1. Len(fragments) \in Nat
    BY LenProperties DEF IInv, TypeOK
  <2>2. \A idx \in writeIdx + 1 .. Len(fragments) - 1 : At(idx).filled = At(idx).size
    <3> TAKE idx \in writeIdx + 1 .. Len(fragments) - 1
    <3>1. /\ Len(fragments) - idx \in 1 .. Len(fragments)
          /\ Len(fragments) - idx < Len(fragments) - writeIdx
      BY <2>1 DEF IInv, TypeOK, IndicesInOrder
    <3>2. QED
      BY <3>1 DEF At, IInv, WrittenUpTo, FilledTo
  <2>3. isRunning \/ mdatLast => CheckInvariant
    BY <2>1 DEF IInv, TypeOK, IndicesInOrder, CheckInvariant
  <2>4. /\ pc["reader"] = "parse" \/ (pc["reader"] \in {"getSize", "header"} /\ isRunning)
             => readIdx > writeIdx /\ readIdx < Len(fragments)
        /\ mdatLast => /\ pc["reader"] = "popNotify" => result.range = parsed
                       /\ pc["reader"] # "popWaiting"
    BY DEF IInv, IndicesInOrder, RangesEndWithMdat
  <2>5. QED
    BY <2>2, <2>3, <2>4 DEF ReaderStaysBehindWriter
<1>2. QED
  BY <1>1, InvariantHolds, PTL

\* Fragments come out whole and in the order of the range list, each with the bytes
\* of its own range as long as the server answers with what it was asked for.
THEOREM FragmentsStayIntact == Spec => []FragmentsIntact
<1>1. IInv => FragmentsIntact
  BY DEF IInv, WrittenUpTo, InRangeOrder, ExactResponses, FragmentsIntact
<1>2. QED
  BY <1>1, InvariantHolds, PTL

\* MaxFragments, and one more for a writer that Shutdown() releases.
THEOREM DownloadStaysBounded == Spec => []DownloadLimit
<1>1. IInv => DownloadLimit
  BY DEF IInv
<1>2. QED
  BY <1>1, InvariantHolds, PTL

\* GetSize() looks at a fragment that is not there only after Shutdown().
THEOREM GetSizeIsDefined == Spec => []UndefinedAfterShutdown
<1>1. IInv => UndefinedAfterShutdown
  BY DEF IInv
<1>2. QED
  BY <1>1, InvariantHolds, PTL

\* The two waits that Shutdown() does not notify: a thread sleeps in one only after an
\* mdat that is not the last of its range, or after a response of a wrong length.
SleepsOnWrongInput ==
  /\ pc["reader"] = "popWaiting" => ~mdatLast
  /\ pc["writer"] = "writeWaiting" => ~exact

\* A stream of exact responses, each ending with its mdat, has no thread in a sleep that
\* StopStream() cannot end.
THEOREM NoSleepOnRightInput == Spec => []SleepsOnWrongInput
<1>1. IInv => SleepsOnWrongInput
  BY DEF IInv, RangesEndWithMdat, WriterSleepsOnWrongLength, SleepsOnWrongInput
<1>2. QED
  BY <1>1, InvariantHolds, PTL

\* PopFragment() hands out the next range of the list, and nothing else hands out one.
NextRangeOnly == [][result'.range = result.range + 1]_result

\* The demux thread gets every range once and in order, whatever the responses were.
THEOREM RangesAreConsecutive == Spec => NextRangeOnly
<1>1. IInv /\ [Next]_vars => [result'.range = result.range + 1]_result
  <2> SUFFICES ASSUME IInv, [Next]_vars
               PROVE  result' = result \/ result'.range = result.range + 1
    OBVIOUS
  <2>1. CASE PopFragment
    <3>1. Popped
      BY <2>1, PopFacts DEF IInv
    <3>2. result' = fragments[1] /\ 1 \in 1 .. Len(fragments)
      BY <3>1 DEF Popped
    <3>3. QED
      BY <3>1 DEF Popped
  <2>2. CASE ~PopFragment
    BY <2>2 DEF Next, WriterStep, ReaderStep, StopStreamStep, vars, buffers, history, NextRange, AddFragment,
       AddWait, WritePartial, WriteRefused, WriteWait, WriteNotify, CurlDone, CurlError,
       DemuxLoop, Tell,
       GetSize, ReadPartial, ReadNothing, Seek, AtomEndsInside, PopWait, PopNotify, SpuriousWakeup,
       StopWriter, StopReader, ShutdownFlag, ShutdownNotifyReader, ShutdownNotifyAdder
  <2>3. QED
    BY <2>1, <2>2
<1>2. QED
  BY <1>1, InvariantHolds, PTL DEF Spec, NextRangeOnly
==============================================================================
