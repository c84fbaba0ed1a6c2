---------------------------- MODULE BlockingStream ----------------------------
(***************************************************************************)
(* The stream of src/demux/blocking_stream.cc between a NetworkingThread,  *)
(* which reserves a fragment per byte range and writes the response into   *)
(* it, and a demux thread, which parses it through Bento4 atom by atom and *)
(* takes a fragment out after every mdat.  Every flag is read and written  *)
(* under lock_, so a critical section, its wait included, is one step; a   *)
(* notification comes after the unlock and is a step of its own.           *)
(***************************************************************************)
EXTENDS Integers, Sequences

CONSTANTS MaxFragments,  \* BLOCKING_STREAM_MAX_NETWORK_FRAGMENTS
          RangeSizes,    \* the bytes of each range of the range list
          Deviations     \* response length minus range length, as servers answer

ASSUME MaxFragmentsAssumption == MaxFragments \in Nat \ {0}
ASSUME RangeSizesAssumption == RangeSizes \in Seq(Nat \ {0})
ASSUME DeviationsAssumption == Deviations \subseteq Int

VARIABLES
  fragments,      \* fragmentDeque_, oldest first: fragments[1] is back()
  readIdx,        \* currentReadIdx_, counted from the newest fragment, as in the code
  readPosition,   \* readPosition_
  writeIdx,       \* currentWriteIdx_, -1 when there is nothing to write
  writePosition,  \* writePosition_
  isRunning,      \* isRunning_
  toSend,         \* bytes of the current HTTP response not yet written
  exact,          \* every response so far had the length of its range
  mdatLast,       \* every range so far ended with its mdat, and no mdat before
  parsed,         \* pos of ParseMoofMdat() lies in this range, 0 without an mdat
  result,         \* the fragment the last PopFragment() returned
  running,        \* the threads whose own isRunning_ is still true
  pc

buffers == <<fragments, readIdx, readPosition, writeIdx, writePosition, result>>
history == <<exact, mdatLast, parsed>>
vars == <<buffers, isRunning, toSend, history, running, pc>>

Workers == {"writer", "reader"}
Threads == Workers \cup {"control"}

\* A NETWORK_FRAGMENT: its range, its size, how many of its bytes are written,
\* and the ranges whose responses they came from.
Fragment(r) == [range |-> r, size |-> RangeSizes[r], filled |-> 0, from |-> {}]
NoFragment == [range |-> 0, size |-> 0, filled |-> 0, from |-> {}]

Init == /\ fragments = <<>>
        /\ readIdx = -1
        /\ readPosition = 0
        /\ writeIdx = -1
        /\ writePosition = 0
        /\ isRunning = TRUE
        /\ toSend = 0
        /\ exact = TRUE
        /\ mdatLast = TRUE
        /\ parsed = 0
        /\ result = NoFragment
        /\ running = Workers
        /\ pc = [t \in Threads |-> IF t = "control" THEN "idle" ELSE "loop"]

-----------------------------------------------------------------------------
Goto(t, l) == pc' = [pc EXCEPT ![t] = l]

NotifyDropped(t, waiting, woken) == pc[t]   \* mutant: no notification

\* notify_one on a condition variable that only t waits on.
Notify(t, waiting, woken) == IF pc[t] = waiting THEN woken ELSE pc[t]

\* fragmentDeque_[idx]: index 0 is the newest fragment.
At(idx) == fragments[Len(fragments) - idx]

\* The last range of the list that was reserved.
LastRange == result.range + Len(fragments)

\* The predicates of the four condition variables.
CanAddOneMore == Len(fragments) <= MaxFragments \/ ~isRunning   \* mutant: off by one
CanAdd == Len(fragments) < MaxFragments \/ ~isRunning
CanReadUnwritten == readIdx >= writeIdx \/ ~isRunning   \* mutant: off by one
CanRead == readIdx > writeIdx \/ ~isRunning
CanWrite == writeIdx # -1 \/ ~isRunning
CanPopFragment == readIdx < Len(fragments) - 1 \/ ~isRunning

\* Both indices keep pointing to the same fragments when a newer one is added.
ShiftIndices == /\ writeIdx' = writeIdx + 1
                /\ readIdx' = readIdx + 1

TakeNewest == /\ result' = fragments[Len(fragments)]   \* mutant: front() for back()
              /\ fragments' = SubSeq(fragments, 1, Len(fragments) - 1)

\* back() and pop_back().
TakeOldest == /\ result' = Head(fragments)
              /\ fragments' = Tail(fragments)

\* The reader is done with its fragment: on to the next newer one.
AdvanceRead == /\ readIdx' = readIdx - 1
               /\ readPosition' = 0

-----------------------------------------------------------------------------
(* NetworkingThread::Run and its curl write callback.                      *)

NextRange ==
  /\ pc["writer"] = "loop"
  /\ Goto("writer", IF "writer" \in running /\ LastRange < Len(RangeSizes)
                      THEN "add" ELSE "exited")
  /\ UNCHANGED <<buffers, isRunning, toSend, history, running>>

\* AddFragment().  The server may answer with fewer or more bytes than asked for.
AddFragment ==
  /\ pc["writer"] \in {"add", "addWoken"}
  /\ CanAdd
  /\ fragments' = Append(fragments, Fragment(LastRange + 1))
  /\ ShiftIndices
  /\ \E d \in Deviations :
       /\ RangeSizes[LastRange + 1] + d >= 0
       /\ toSend' = RangeSizes[LastRange + 1] + d
       /\ exact' = (exact /\ d = 0)
  /\ Goto("writer", "write")
  /\ UNCHANGED <<readPosition, writePosition, result, isRunning, mdatLast, parsed, running>>

AddWait ==
  /\ pc["writer"] \in {"add", "addWoken"}
  /\ ~CanAdd
  /\ Goto("writer", "addWaiting")
  /\ UNCHANGED <<buffers, isRunning, toSend, history, running>>

\* The next n bytes of the response go into the fragment at writeIdx.
Store(n) ==
  LET k == Len(fragments) - writeIdx
  IN  fragments' = [fragments EXCEPT ![k].filled = @ + n,
                                     ![k].from = @ \cup {LastRange}]

\* WritePartial(), chunk inside the fragment or exactly up to its end.
WriteInside(n) ==
  /\ writePosition + n < At(writeIdx).size
  /\ Store(n)
  /\ writePosition' = writePosition + n
  /\ toSend' = toSend - n
  /\ UNCHANGED <<writeIdx, pc>>

WriteToEnd(n) ==
  /\ writePosition + n = At(writeIdx).size
  /\ Store(n)
  /\ writePosition' = 0
  /\ writeIdx' = writeIdx - 1
  /\ toSend' = toSend - n
  /\ Goto("writer", "writeNotify")

\* A chunk that does not fit is truncated, without the advance; curl sees a short
\* write, fails the transfer, and the thread ends.
WriteTruncated(n) ==
  /\ writePosition + n > At(writeIdx).size
  /\ Store(At(writeIdx).size - writePosition)
  /\ writePosition' = At(writeIdx).size
  /\ toSend' = 0
  /\ Goto("writer", "exited")
  /\ UNCHANGED writeIdx

WritePartial ==
  /\ pc["writer"] \in {"write", "writeWoken"}
  /\ toSend > 0
  /\ isRunning /\ CanWrite
  /\ \E n \in 1 .. toSend : WriteInside(n) \/ WriteToEnd(n) \/ WriteTruncated(n)
  /\ UNCHANGED <<readIdx, readPosition, result, isRunning, history, running>>

\* After Shutdown() nothing is written: a short write again.
WriteRefused ==
  /\ pc["writer"] \in {"write", "writeWoken"}
  /\ toSend > 0
  /\ ~isRunning
  /\ Goto("writer", "exited")
  /\ UNCHANGED <<buffers, isRunning, toSend, history, running>>

WriteWait ==
  /\ pc["writer"] \in {"write", "writeWoken"}
  /\ toSend > 0
  /\ ~CanWrite
  /\ Goto("writer", "writeWaiting")
  /\ UNCHANGED <<buffers, isRunning, toSend, history, running>>

WriteNotify ==
  /\ pc["writer"] = "writeNotify"
  /\ pc' = [pc EXCEPT !["writer"] = "write",
                      !["reader"] = Notify("reader", "tellWaiting", "tellWoken")]
  /\ UNCHANGED <<buffers, isRunning, toSend, history, running>>

\* curl_easy_perform() returns: with success once the response is consumed, with
\* an error at any time.
CurlDone ==
  /\ pc["writer"] = "write"
  /\ toSend = 0
  /\ Goto("writer", "loop")
  /\ UNCHANGED <<buffers, isRunning, toSend, history, running>>

CurlError ==
  /\ pc["writer"] = "write"
  /\ Goto("writer", "exited")
  /\ UNCHANGED <<buffers, isRunning, toSend, history, running>>

-----------------------------------------------------------------------------
(* The demux thread: ParseMoofMdat() reads atoms front to back through      *)
(* Bento4, which reads in an atom or seeks over it, and pops after an mdat. *)

DemuxLoop ==
  /\ pc["reader"] = "loop"
  /\ Goto("reader", IF "reader" \in running THEN "tell" ELSE "exited")
  /\ UNCHANGED <<buffers, isRunning, toSend, history, running>>

Tell ==
  /\ pc["reader"] \in {"tell", "tellWoken"}
  /\ Goto("reader", IF CanRead THEN "getSize" ELSE "tellWaiting")
  /\ UNCHANGED <<buffers, isRunning, toSend, history, running>>

\* GetSize() neither waits nor tests isRunning_: with no fragment left to read it
\* looks at fragmentDeque_[-1], and the thread may crash or go on.
GetSize ==
  /\ pc["reader"] = "getSize"
  /\ \/ Goto("reader", "header")
     \/ readIdx = -1 /\ Goto("reader", "undefined")
  /\ UNCHANGED <<buffers, isRunning, toSend, history, running>>

\* CreateAtomFromStream() returns an atom that ends inside its fragment or with it.
\* An mdat is followed by PopFragment(), wherever it ends; any other atom by the next
\* one, in the same fragment or in the one that comes after it.
AtomDone(last) ==
  \/ /\ Goto("reader", "pop")
     /\ parsed' = At(readIdx).range
     /\ mdatLast' = (mdatLast /\ last)
  \/ /\ Goto("reader", "tell")
     /\ mdatLast' = (mdatLast /\ ~last)
     /\ UNCHANGED parsed

AtomEndsInside ==
  /\ pc["reader"] = "parse"
  /\ readPosition < At(readIdx).size
  /\ AtomDone(FALSE)
  /\ UNCHANGED <<buffers, isRunning, toSend, exact, running>>

\* ReadPartial(): inside the fragment, up to its end, or truncated at the end.
ReadInside(n) ==
  /\ readPosition + n < At(readIdx).size
  /\ readPosition' = readPosition + n
  /\ Goto("reader", "parse")
  /\ UNCHANGED <<readIdx, mdatLast, parsed>>

ReadToEnd(n) ==
  /\ readPosition + n = At(readIdx).size
  /\ AdvanceRead
  /\ AtomDone(TRUE)

ReadTruncated(n) ==
  /\ readPosition + n > At(readIdx).size
  /\ readPosition < At(readIdx).size
  /\ readPosition' = At(readIdx).size
  /\ Goto("reader", "parse")
  /\ UNCHANGED <<readIdx, mdatLast, parsed>>

\* noBufferToReturn_ is notified here, but only this same thread ever waits on it.
ReadPartial ==
  /\ pc["reader"] \in {"header", "parse"}
  /\ isRunning /\ CanRead
  /\ \E n \in 1 .. At(readIdx).size + 1 : \* an atom may claim more than there is
       ReadInside(n) \/ ReadToEnd(n) \/ ReadTruncated(n)
  /\ UNCHANGED <<fragments, writeIdx, writePosition, result, isRunning, toSend, exact, running>>

\* No byte to be had, at the end or after Shutdown(): the atom cannot be created,
\* ParseMoofMdat() fails and the thread ends.
ReadNothing ==
  /\ pc["reader"] \in {"header", "parse"}
  /\ \/ ~isRunning
     \/ isRunning /\ CanRead /\ readPosition = At(readIdx).size
  /\ Goto("reader", "exited")
  /\ UNCHANGED <<buffers, isRunning, toSend, history, running>>

\* Seek() over the rest of an atom; a seek behind the end fails, and with it the
\* parse.
Seek ==
  /\ pc["reader"] = "parse"
  /\ \/ \E position \in readPosition + 1 .. At(readIdx).size - 1 :
          /\ readPosition' = position
          /\ UNCHANGED <<readIdx, mdatLast, parsed, pc>>
     \/ /\ AdvanceRead
        /\ AtomDone(TRUE)
     \/ /\ Goto("reader", "exited")
        /\ UNCHANGED <<readIdx, readPosition, mdatLast, parsed>>
  /\ UNCHANGED <<fragments, writeIdx, writePosition, result, isRunning, toSend, exact, running>>

\* PopFragment() hands out the oldest fragment, which ParseMoofMdat() takes for the
\* one whose mdat it has just parsed.
PopFragment ==
  /\ pc["reader"] \in {"pop", "popWoken"}
  /\ CanPopFragment
  /\ TakeOldest
  /\ Goto("reader", "popNotify")
  /\ UNCHANGED <<readIdx, readPosition, writeIdx, writePosition, isRunning, toSend, history, running>>

\* An mdat that ends before its fragment: the thread waits for its own next advance.
PopWait ==
  /\ pc["reader"] \in {"pop", "popWoken"}
  /\ ~CanPopFragment
  /\ Goto("reader", "popWaiting")
  /\ UNCHANGED <<buffers, isRunning, toSend, history, running>>

\* With the moof missing ParseMoofMdat() fails, and the thread ends.
PopNotify ==
  /\ pc["reader"] = "popNotify"
  /\ \E l \in {"loop", "exited"} :
       pc' = [pc EXCEPT !["reader"] = l,
                        !["writer"] = Notify("writer", "addWaiting", "addWoken")]
  /\ parsed' = 0
  /\ UNCHANGED <<buffers, isRunning, toSend, exact, mdatLast, running>>

\* std::condition_variable may wake a waiter that nobody notified.
SpuriousWakeup ==
  /\ \/ pc["reader"] = "tellWaiting" /\ Goto("reader", "tellWoken")
     \/ pc["reader"] = "popWaiting" /\ Goto("reader", "popWoken")
     \/ pc["writer"] = "addWaiting" /\ Goto("writer", "addWoken")
     \/ pc["writer"] = "writeWaiting" /\ Goto("writer", "writeWoken")
  /\ UNCHANGED <<buffers, isRunning, toSend, history, running>>

-----------------------------------------------------------------------------
(* AdapterInterface::StopStream: the threads' flags, then Shutdown().      *)

StopWriter ==
  /\ pc["control"] = "idle"
  /\ running' = running \ {"writer"}
  /\ Goto("control", "stopReader")
  /\ UNCHANGED <<buffers, isRunning, toSend, history>>

StopReader ==
  /\ pc["control"] = "stopReader"
  /\ running' = running \ {"reader"}
  /\ Goto("control", "shutdown")
  /\ UNCHANGED <<buffers, isRunning, toSend, history>>

ShutdownFlag ==
  /\ pc["control"] = "shutdown"
  /\ isRunning' = FALSE
  /\ Goto("control", "notifyReader")
  /\ UNCHANGED <<buffers, toSend, history, running>>

ShutdownNotifyReader ==
  /\ pc["control"] = "notifyReader"
  /\ pc' = [pc EXCEPT !["control"] = "notifyAdder",
                      !["reader"] = Notify("reader", "tellWaiting", "tellWoken")]
  /\ UNCHANGED <<buffers, isRunning, toSend, history, running>>

ShutdownNotifyAdder ==
  /\ pc["control"] = "notifyAdder"
  /\ pc' = [pc EXCEPT !["control"] = "idle",
                      !["writer"] = Notify("writer", "addWaiting", "addWoken")]
  /\ UNCHANGED <<buffers, isRunning, toSend, history, running>>

-----------------------------------------------------------------------------
WriterStep == \/ NextRange \/ AddFragment \/ AddWait \/ WritePartial
              \/ WriteRefused \/ WriteWait \/ WriteNotify \/ CurlDone
ReaderStep == \/ DemuxLoop \/ Tell \/ GetSize \/ ReadPartial \/ ReadNothing
              \/ Seek \/ AtomEndsInside \/ PopFragment \/ PopWait \/ PopNotify
StopStreamStep == \/ StopReader \/ ShutdownFlag
                  \/ ShutdownNotifyReader \/ ShutdownNotifyAdder

Next == \/ WriterStep \/ CurlError
        \/ ReaderStep
        \/ SpuriousWakeup
        \/ StopWriter \/ StopStreamStep

\* Threads are scheduled and a StopStream() once entered is finished; nobody has to
\* stop the stream and no transfer has to fail.
Fairness == WF_vars(WriterStep) /\ WF_vars(ReaderStep) /\ WF_vars(StopStreamStep)

Spec == Init /\ [][Next]_vars /\ Fairness

-----------------------------------------------------------------------------
(* Properties.                                                             *)

\* The code's CHECK_INVARIANT, evaluated at the end of every operation.
CheckInvariant == -1 <= writeIdx /\ writeIdx <= readIdx /\ readIdx < Len(fragments)

\* The assertion holds whatever the server sends until Shutdown(), and after it unless
\* PopFragment(), which Shutdown() lets through, comes after an mdat that is not the
\* last of its range.  Before and after, the reader only ever touches a fragment that
\* is written to its last byte.  What PopFragment() returns is the fragment whose mdat
\* was parsed, and the thread never sleeps in it, as long as every range ends with its
\* mdat; ParseMoofMdat() applies its offset to that fragment without a look at it.
ReaderStaysBehindWriter ==
  /\ isRunning \/ mdatLast => CheckInvariant
  /\ pc["reader"] = "parse" \/ (pc["reader"] \in {"getSize", "header"} /\ isRunning)
       => readIdx > writeIdx /\ readIdx < Len(fragments)
  /\ \A idx \in writeIdx + 1 .. Len(fragments) - 1 : At(idx).filled = At(idx).size
  /\ mdatLast => /\ pc["reader"] = "popNotify" => result.range = parsed
                 /\ pc["reader"] # "popWaiting"

\* Fragments are taken out whole and in the order of the range list, each with the
\* bytes of its own range as long as the server sends what it was asked for.
FragmentsIntact ==
  /\ exact => result.filled = result.size /\ result.from \subseteq {result.range}
  /\ \A k \in 1 .. Len(fragments) : fragments[k].range = result.range + k

\* "limitation for max downloaded data": MaxFragments, and one more than that when
\* a writer blocked on a full stream is released by Shutdown().
DownloadLimit == Len(fragments) <= MaxFragments + (IF isRunning THEN 0 ELSE 1)

\* Every fragment that is completely written is handed to the demux thread, unless
\* that thread has ended, the stream is shut down, or a range did not end with its
\* mdat: without one at its end nothing pops it, with one before its end the thread
\* sleeps in PopFragment().
Written == LastRange - (writeIdx + 1)
FragmentsAreDelivered ==
  \A r \in 1 .. Len(RangeSizes) :
    Written >= r ~> \/ result.range >= r
                    \/ pc["reader"] \in {"exited", "undefined"}
                    \/ ~mdatLast

\* StopStream ends each thread of the stream wherever it is, but for two places:
\* Shutdown() notifies neither the condition variable of PopFragment(), where the demux
\* thread can sleep only after an mdat that is not the last of its range, nor that of
\* WritePartial(), where the network thread can sleep only with a wrong response.
WriterEnds == pc["writer"] = "exited" \/ (pc["writer"] = "writeWaiting" /\ ~exact)
ReaderEnds == \/ pc["reader"] \in {"exited", "undefined"}
              \/ pc["reader"] = "popWaiting" /\ ~mdatLast
ShutdownEndsThreads == ~isRunning ~> WriterEnds /\ ReaderEnds
==============================================================================
