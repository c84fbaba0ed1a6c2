---------------------------- MODULE WidevineProofs ---------------------------
(***************************************************************************)
(* What is proved of the CDM host (WidevineAdapter) and of its timers      *)
(* (WidevineTimers), two parts of one class that share no state but cdm_.  *)
(***************************************************************************)
EXTENDS WidevineAdapter, WidevineTimers, TLAPS

-----------------------------------------------------------------------------
(***************************************************************************)
(* The promises, the session and the challenge of the CDM host, for any    *)
(* number of promises: what the session run checks on four.                *)
(*                                                                         *)
(* That a call gets its own answer needs the life of a promise             *)
(* (PromiseLife): it is asked for once, answered once, and its entry in    *)
(* promiseResults_ says what the CDM has said.  That nothing survives      *)
(* Shutdown() needs to know where the control thread is while the CDM      *)
(* comes and goes (CdmLife).                                               *)
(***************************************************************************)

WithoutPromise == {"idle", "resetState", "initWait", "readSession"}
BeforeRequest == {"clearMessage", "callCdm", "callClose"}
InShutdown == {"destroy", "destroying", "clearState"}
Locations == WithoutPromise \cup BeforeRequest \cup {"promiseWait"} \cup InShutdown

Kinds == {"create", "certificate", "update", "close"}

\* The promises begun so far.
Begun == 1 .. nextPromiseId - 1

TypeOK ==
  /\ cdm \in {"none", "alive", "destroying"}
  /\ initialized \in {"no", "yes", "failed"}
  /\ nextPromiseId \in Nat \ {0}
  /\ promiseResults \in [DOMAIN promiseResults -> {-1, 0, 1}]
  /\ cdmSessionId \in Nat /\ messageValid \in Nat /\ validKeyIds \in Nat
  /\ callbackError \in BOOLEAN
  /\ requests \subseteq [kind : {"init"}, id : {0}] \cup [kind : Kinds, id : Begun]
  /\ sessions \subseteq Nat
  /\ answers \in [DOMAIN answers -> {0, 1}]
  /\ DOMAIN answers \subseteq Begun
  /\ lastCreate \in Nat /\ lastCreate < nextPromiseId
  /\ call \in [at : Locations, kind : Kinds \cup {"none"}, id : Nat]
  /\ returned \in [id : Nat, ok : BOOLEAN, timedOut : BOOLEAN]

\* Which calls have a promise where.
CallShape ==
  /\ At("idle") => call = Idle
  /\ call.at \in WithoutPromise => call.kind = "none"
  /\ call.at \in BeforeRequest \cup {"promiseWait"} => call.kind # "none"
  /\ call.kind # "none" => call.id \in Begun

\* A promise is asked for once and answered once, and what its entry in
\* promiseResults_ says is that answer.
PromiseLife ==
  /\ \A r \in requests : r.kind # "init" => r.id \notin DOMAIN answers
  /\ \A r, s \in requests : r.id = s.id => r = s
  /\ call.at \in BeforeRequest =>
       call.id \notin DOMAIN answers /\ \A r \in requests : r.id # call.id
  /\ call.kind # "none" /\ promiseResults[call.id] # -1 =>
       call.id \in DOMAIN answers /\ promiseResults[call.id] = answers[call.id]

\* The CDM is there from LoadCdm to Destroyed and owes nothing outside of that.
CdmLife ==
  /\ cdm = "none" => call.at \in {"idle", "clearState"} /\ requests = {} /\ sessions = {}
  /\ At("clearState") => cdm = "none"

IInv == /\ TypeOK /\ CallShape /\ PromiseLife /\ CdmLife
        /\ CallsReportTheirOwnAnswer
        /\ NoPromiseIsLeftBehind
        /\ SessionIsOpen
        /\ NoStaleChallenge
        /\ CleanAfterShutdown

\* What BeginPromise() and Settle() do to promiseResults_, and what erase() does.
LEMMA EntryFacts ==
  ASSUME promiseResults \in [DOMAIN promiseResults -> {-1, 0, 1}],
         NEW id, NEW r \in {-1, 0, 1}
  PROVE  /\ DOMAIN WithEntry(id, r) = DOMAIN promiseResults \cup {id}
         /\ WithEntry(id, r) \in [DOMAIN WithEntry(id, r) -> {-1, 0, 1}]
         /\ WithEntry(id, r)[id] = r
         /\ DOMAIN WithoutEntry(id) = DOMAIN promiseResults \ {id}
         /\ WithoutEntry(id) \in [DOMAIN WithoutEntry(id) -> {-1, 0, 1}]
BY DEF WithEntry, WithoutEntry

\* What clear() leaves of promiseResults_, and what is answered before the first call.
LEMMA EmptyFacts ==
  /\ DOMAIN EmptyResults = {}
  /\ EmptyResults \in [DOMAIN EmptyResults -> {-1, 0, 1}]
  /\ EmptyResults \in [DOMAIN EmptyResults -> {0, 1}]
BY DEF EmptyResults

\* Types, one step per action.
LEMMA TypeStep == IInv /\ [Next]_vars => TypeOK'
<1> SUFFICES ASSUME IInv, [Next]_vars
             PROVE  TypeOK'
  OBVIOUS
<1> USE DEF IInv, TypeOK, CallShape, NoPromiseIsLeftBehind, At, Goto, Begun,
    Locations, WithoutPromise, BeforeRequest, InShutdown, Kinds, Idle
<1>1. CASE UNCHANGED vars
  BY <1>1 DEF host, external, caller, vars
<1>2. CASE LoadCdm
  BY <1>2 DEF LoadCdm, host
<1>3. CASE ResetState
  <2>1. promiseResults' \in [DOMAIN promiseResults' -> {-1, 0, 1}]
    BY <1>3, EmptyFacts DEF ResetState
  <2>2. requests' \subseteq [kind : {"init"}, id : {0}] \cup [kind : Kinds, id : Begun]
    BY <1>3 DEF ResetState
  <2>3. call' \in [at : Locations, kind : Kinds \cup {"none"}, id : Nat]
    BY <1>3 DEF ResetState
  <2>4. /\ cdm' \in {"none", "alive", "destroying"}
        /\ UNCHANGED <<nextPromiseId, answers, lastCreate, returned, sessions>>
    BY <1>3 DEF ResetState
  <2>5. QED
    BY <1>3, <2>1, <2>2, <2>3, <2>4 DEF ResetState
<1>4. CASE InitReturns
  BY <1>4 DEF InitReturns, host, external
<1>5. CASE BeginCreateSession
  BY <1>5 DEF BeginCreateSession, WithEntry, BeginPromise, NextId, external
<1>6. CASE ClearMessage
  BY <1>6 DEF ClearMessage, DropMessage, external
<1>7. CASE BeginSetServerCertificate
  BY <1>7 DEF BeginSetServerCertificate, WithEntry, BeginPromise, NextId, external
<1>8. CASE BeginUpdateSession
  BY <1>8 DEF BeginUpdateSession, WithEntry, BeginPromise, NextId, external
<1>9. CASE CallCdm
  BY <1>9 DEF CallCdm, Request, host
<1>10. CASE PromiseDone
  BY <1>10 DEF PromiseDone, WithoutEntry, external
<1>11. CASE PromiseTimeout
  BY <1>11 DEF PromiseTimeout, WithoutEntry, external
<1>12. CASE WaitForMessage
  BY <1>12 DEF WaitForMessage, external, caller
<1>13. CASE BeginShutdown
  BY <1>13 DEF BeginShutdown, host, external
<1>14. CASE CloseSession
  <2>1. CASE cdmSessionId = 0
    BY <1>14, <2>1 DEF CloseSession, external
  <2>2. CASE cdmSessionId # 0
    <3>1. BeginPromise("close", "callClose")
      BY <1>14, <2>2 DEF CloseSession
    <3>2. promiseResults' \in [DOMAIN promiseResults' -> {-1, 0, 1}]
      BY <3>1, EntryFacts DEF BeginPromise
    <3>3. QED
      BY <1>14, <3>1, <3>2 DEF CloseSession, BeginPromise, NextId, external
  <2>3. QED
    BY <2>1, <2>2
<1>15. CASE CallClose
  BY <1>15 DEF CallClose, Request, host
<1>16. CASE Destroy
  BY <1>16 DEF Destroy, host
<1>17. CASE Destroyed
  BY <1>17 DEF Destroyed, host
<1>18. CASE ClearState
  BY <1>18, EmptyFacts DEF ClearState, ClearAll, external
<1>19. CASE \E success \in BOOLEAN : OnInitialized(success)
  BY <1>19 DEF OnInitialized, caller
<1>20. CASE OnResolvePromise
  BY <1>20 DEF OnResolvePromise, WithEntry, Answer, Settle, caller
<1>21. CASE OnResolveNewSessionPromise
  <2>1. PICK r \in requests :
               /\ r.kind = "create"
               /\ \/ Answer(r, 1) /\ cdmSessionId' = r.id /\ sessions' = sessions \cup {r.id}
                  \/ Answer(r, 0) /\ UNCHANGED <<cdmSessionId, sessions>>
    BY <1>21 DEF OnResolveNewSessionPromise
  <2>2. PICK ok \in {0, 1} : Answer(r, ok)
    BY <2>1
  <2>3. r.id \in Begun
    BY <2>1
  <2>4. /\ promiseResults' \in [DOMAIN promiseResults' -> {-1, 0, 1}]
        /\ answers' \in [DOMAIN answers' -> {0, 1}] /\ DOMAIN answers' \subseteq Begun
        /\ requests' \subseteq requests
    BY <2>2, <2>3, EntryFacts DEF Answer, Settle
  <2>5. cdmSessionId' \in Nat /\ sessions' \subseteq Nat
    BY <2>1, <2>3
  <2>6. callbackError' \in BOOLEAN
    BY <1>21 DEF OnResolveNewSessionPromise
  <2>7. QED
    BY <1>21, <2>4, <2>5, <2>6 DEF OnResolveNewSessionPromise, caller
<1>22. CASE OnRejectPromise
  BY <1>22 DEF OnRejectPromise, WithEntry, Answer, Settle, caller
<1>23. CASE OnSessionMessage
  BY <1>23 DEF OnSessionMessage, external, caller
<1>24. CASE OnSessionKeysChange
  BY <1>24 DEF OnSessionKeysChange, NewKeys, external, caller
<1>25. CASE OnSessionClosed
  BY <1>25 DEF OnSessionClosed, Forget, caller
<1>26. QED
  BY <1>1, <1>2, <1>3, <1>4, <1>5, <1>6, <1>7, <1>8, <1>9, <1>10, <1>11, <1>12, <1>13,
     <1>14, <1>15, <1>16, <1>17, <1>18, <1>19, <1>20, <1>21, <1>22, <1>23, <1>24, <1>25
     DEF Next, NewCall, CallStep, Callback

\* A promise begins with a call and is over when the call is.
LEMMA ShapeStep == IInv /\ [Next]_vars => CallShape'
<1> SUFFICES ASSUME IInv, [Next]_vars
             PROVE  CallShape'
  OBVIOUS
<1> USE DEF IInv, CallShape, TypeOK, At, Goto, Begun, WithoutPromise, BeforeRequest,
    Kinds, Locations, InShutdown, Idle
<1>1. CASE UNCHANGED <<call, nextPromiseId>>
  BY <1>1
<1>2. CASE LoadCdm
  BY <1>2 DEF LoadCdm, host
<1>3. CASE ResetState
  BY <1>3 DEF ResetState, EmptyResults
<1>4. CASE InitReturns
  BY <1>4 DEF InitReturns, host, external
<1>5. CASE BeginCreateSession
  BY <1>5 DEF BeginCreateSession, WithEntry, BeginPromise, NextId, external
<1>6. CASE ClearMessage
  BY <1>6 DEF ClearMessage, DropMessage, external
<1>7. CASE BeginSetServerCertificate
  BY <1>7 DEF BeginSetServerCertificate, WithEntry, BeginPromise, NextId, external
<1>8. CASE BeginUpdateSession
  BY <1>8 DEF BeginUpdateSession, WithEntry, BeginPromise, NextId, external
<1>9. CASE CallCdm
  BY <1>9 DEF CallCdm, Request, host
<1>10. CASE PromiseDone
  BY <1>10 DEF PromiseDone, WithoutEntry, external
<1>11. CASE PromiseTimeout
  BY <1>11 DEF PromiseTimeout, WithoutEntry, external
<1>12. CASE BeginShutdown
  BY <1>12 DEF BeginShutdown, host, external
<1>13. CASE CloseSession
  BY <1>13 DEF CloseSession, WithEntry, BeginPromise, NextId, external
<1>14. CASE CallClose
  BY <1>14 DEF CallClose, Request, host
<1>15. CASE Destroy
  BY <1>15 DEF Destroy, host
<1>16. CASE Destroyed
  BY <1>16 DEF Destroyed, host
<1>17. CASE ClearState
  BY <1>17 DEF ClearState, ClearAll, EmptyResults, external
<1>18. QED
  BY <1>1, <1>2, <1>3, <1>4, <1>5, <1>6, <1>7, <1>8, <1>9, <1>10, <1>11, <1>12, <1>13,
     <1>14, <1>15, <1>16, <1>17
     DEF Next, NewCall, CallStep, Callback, vars, host, external, caller,
     WaitForMessage, OnInitialized, OnResolvePromise, OnResolveNewSessionPromise,
     OnRejectPromise, OnSessionMessage, OnSessionKeysChange, OnSessionClosed

\* Only callCdm and callClose ask, and only once; an answer takes the request away.
LEMMA PromiseLifeStep == IInv /\ [Next]_vars => PromiseLife'
<1> SUFFICES ASSUME IInv, [Next]_vars
             PROVE  PromiseLife'
  OBVIOUS
<1> USE DEF IInv, PromiseLife, TypeOK, CallShape, NoPromiseIsLeftBehind, At, Goto,
    Begun, WithoutPromise, BeforeRequest, Kinds, Idle
<1>1. CASE UNCHANGED <<requests, answers, call, promiseResults>>
  BY <1>1
<1>2. CASE LoadCdm
  BY <1>2 DEF LoadCdm, host
<1>3. CASE ResetState
  BY <1>3 DEF ResetState, EmptyResults
<1>4. CASE InitReturns
  BY <1>4 DEF InitReturns, host, external
<1>5. CASE BeginCreateSession
  BY <1>5 DEF BeginCreateSession, WithEntry, BeginPromise, NextId, external
<1>6. CASE ClearMessage
  BY <1>6 DEF ClearMessage, DropMessage, external
<1>7. CASE BeginSetServerCertificate
  BY <1>7 DEF BeginSetServerCertificate, WithEntry, BeginPromise, NextId, external
<1>8. CASE BeginUpdateSession
  BY <1>8 DEF BeginUpdateSession, WithEntry, BeginPromise, NextId, external
<1>9. CASE CallCdm
  BY <1>9 DEF CallCdm, Request, host
<1>10. CASE PromiseDone
  BY <1>10 DEF PromiseDone, WithoutEntry, external
<1>11. CASE PromiseTimeout
  BY <1>11 DEF PromiseTimeout, WithoutEntry, external
<1>12. CASE BeginShutdown
  BY <1>12 DEF BeginShutdown, host, external
<1>13. CASE CloseSession
  BY <1>13 DEF CloseSession, WithEntry, BeginPromise, NextId, external
<1>14. CASE CallClose
  BY <1>14 DEF CallClose, Request, host
<1>15. CASE Destroy
  BY <1>15 DEF Destroy, host
<1>16. CASE Destroyed
  BY <1>16 DEF Destroyed, host
<1>17. CASE ClearState
  BY <1>17 DEF ClearState, ClearAll, EmptyResults, external
<1>18. CASE \E success \in BOOLEAN : OnInitialized(success)
  BY <1>18 DEF OnInitialized, caller
<1>19. CASE OnResolvePromise
  BY <1>19 DEF OnResolvePromise, WithEntry, Answer, Settle, caller
<1>20. CASE OnResolveNewSessionPromise
  BY <1>20 DEF OnResolveNewSessionPromise, WithEntry, Answer, Settle, caller
<1>21. CASE OnRejectPromise
  BY <1>21 DEF OnRejectPromise, WithEntry, Answer, Settle, caller
<1>22. QED
  BY <1>1, <1>2, <1>3, <1>4, <1>5, <1>6, <1>7, <1>8, <1>9, <1>10, <1>11, <1>12, <1>13,
     <1>14, <1>15, <1>16, <1>17, <1>18, <1>19, <1>20, <1>21
     DEF Next, NewCall, CallStep, Callback, vars, host, external, caller,
     WaitForMessage, OnSessionMessage, OnSessionKeysChange, OnSessionClosed

\* The CDM goes in Destroyed, with all it owes.
LEMMA CdmLifeStep == IInv /\ [Next]_vars => CdmLife'
<1> SUFFICES ASSUME IInv, [Next]_vars
             PROVE  CdmLife'
  OBVIOUS
<1> USE DEF IInv, CdmLife, TypeOK, CallShape, At, Goto, WithoutPromise,
    BeforeRequest, Idle
<1>1. CASE UNCHANGED <<cdm, call, requests, sessions>>
  BY <1>1
<1>2. CASE LoadCdm
  BY <1>2 DEF LoadCdm, host
<1>3. CASE ResetState
  BY <1>3 DEF ResetState, EmptyResults
<1>4. CASE InitReturns
  BY <1>4 DEF InitReturns, host, external
<1>5. CASE BeginCreateSession
  BY <1>5 DEF BeginCreateSession, WithEntry, BeginPromise, NextId, external
<1>6. CASE ClearMessage
  BY <1>6 DEF ClearMessage, DropMessage, external
<1>7. CASE BeginSetServerCertificate
  BY <1>7 DEF BeginSetServerCertificate, WithEntry, BeginPromise, NextId, external
<1>8. CASE BeginUpdateSession
  BY <1>8 DEF BeginUpdateSession, WithEntry, BeginPromise, NextId, external
<1>9. CASE CallCdm
  BY <1>9 DEF CallCdm, Request, host
<1>10. CASE PromiseDone
  BY <1>10 DEF PromiseDone, WithoutEntry, external
<1>11. CASE PromiseTimeout
  BY <1>11 DEF PromiseTimeout, WithoutEntry, external
<1>12. CASE BeginShutdown
  BY <1>12 DEF BeginShutdown, host, external
<1>13. CASE CloseSession
  BY <1>13 DEF CloseSession, WithEntry, BeginPromise, NextId, external
<1>14. CASE CallClose
  BY <1>14 DEF CallClose, Request, host
<1>15. CASE Destroy
  BY <1>15 DEF Destroy, host
<1>16. CASE Destroyed
  BY <1>16 DEF Destroyed, host
<1>17. CASE ClearState
  BY <1>17 DEF ClearState, ClearAll, EmptyResults, external
<1>18. CASE \E success \in BOOLEAN : OnInitialized(success)
  BY <1>18 DEF OnInitialized, caller
<1>19. CASE OnResolvePromise
  BY <1>19 DEF OnResolvePromise, WithEntry, Answer, Settle, caller
<1>20. CASE OnResolveNewSessionPromise
  BY <1>20 DEF OnResolveNewSessionPromise, WithEntry, Answer, Settle, caller
<1>21. CASE OnRejectPromise
  BY <1>21 DEF OnRejectPromise, WithEntry, Answer, Settle, caller
<1>22. CASE OnSessionClosed
  BY <1>22 DEF OnSessionClosed, Forget, caller
<1>23. QED
  BY <1>1, <1>2, <1>3, <1>4, <1>5, <1>6, <1>7, <1>8, <1>9, <1>10, <1>11, <1>12, <1>13,
     <1>14, <1>15, <1>16, <1>17, <1>18, <1>19, <1>20, <1>21, <1>22
     DEF Next, NewCall, CallStep, Callback, vars, host, external, caller,
     WaitForMessage, OnSessionMessage, OnSessionKeysChange

\* The answer that was reported is final: no request for its promise is left.
LEMMA OwnAnswerStep == IInv /\ [Next]_vars => CallsReportTheirOwnAnswer'
<1> SUFFICES ASSUME IInv, [Next]_vars
             PROVE  CallsReportTheirOwnAnswer'
  OBVIOUS
<1> USE DEF IInv, CallsReportTheirOwnAnswer, TypeOK, CallShape, PromiseLife, At,
    Goto, BeforeRequest, Begun, Kinds
<1>1. CASE UNCHANGED <<returned, answers>>
  BY <1>1
<1>2. CASE PromiseDone
  BY <1>2 DEF PromiseDone, WithoutEntry, external
<1>3. CASE PromiseTimeout
  BY <1>3 DEF PromiseTimeout, WithoutEntry, external
<1>4. CASE OnResolvePromise
  BY <1>4 DEF OnResolvePromise, WithEntry, Answer, Settle, caller
<1>5. CASE OnResolveNewSessionPromise
  BY <1>5 DEF OnResolveNewSessionPromise, WithEntry, Answer, Settle, caller
<1>6. CASE OnRejectPromise
  BY <1>6 DEF OnRejectPromise, WithEntry, Answer, Settle, caller
<1>7. QED
  BY <1>1, <1>2, <1>3, <1>4, <1>5, <1>6
     DEF Next, NewCall, CallStep, Callback, vars, host, external, caller, LoadCdm,
     ResetState, InitReturns, BeginCreateSession, ClearMessage,
     BeginSetServerCertificate, BeginUpdateSession, CallCdm, WaitForMessage,
     BeginShutdown, CloseSession, CallClose, Destroy, Destroyed, ClearState,
     OnInitialized, OnSessionMessage, OnSessionKeysChange, OnSessionClosed

\* Entries come and go with the call; an answer finds its entry or is dropped.
LEMMA PromisesStep == IInv /\ [Next]_vars => NoPromiseIsLeftBehind'
<1> SUFFICES ASSUME IInv, [Next]_vars
             PROVE  NoPromiseIsLeftBehind'
  OBVIOUS
<1> USE DEF IInv, NoPromiseIsLeftBehind, TypeOK, CallShape, At, Goto,
    WithoutPromise, BeforeRequest, Kinds, Idle
<1>1. CASE UNCHANGED <<promiseResults, call>>
  BY <1>1
<1>2. CASE LoadCdm
  BY <1>2 DEF LoadCdm, host
<1>3. CASE ResetState
  BY <1>3 DEF ResetState, EmptyResults
<1>4. CASE InitReturns
  BY <1>4 DEF InitReturns, host, external
<1>5. CASE BeginCreateSession
  BY <1>5 DEF BeginCreateSession, WithEntry, BeginPromise, NextId, external
<1>6. CASE ClearMessage
  BY <1>6 DEF ClearMessage, DropMessage, external
<1>7. CASE BeginSetServerCertificate
  BY <1>7 DEF BeginSetServerCertificate, WithEntry, BeginPromise, NextId, external
<1>8. CASE BeginUpdateSession
  BY <1>8 DEF BeginUpdateSession, WithEntry, BeginPromise, NextId, external
<1>9. CASE CallCdm
  BY <1>9 DEF CallCdm, Request, host
<1>10. CASE PromiseDone
  BY <1>10 DEF PromiseDone, WithoutEntry, external
<1>11. CASE PromiseTimeout
  BY <1>11 DEF PromiseTimeout, WithoutEntry, external
<1>12. CASE BeginShutdown
  BY <1>12 DEF BeginShutdown, host, external
<1>13. CASE CloseSession
  <2>1. CASE cdmSessionId = 0
    BY <1>13, <2>1 DEF CloseSession
  <2>2. CASE cdmSessionId # 0
    <3>1. BeginPromise("close", "callClose")
      BY <1>13, <2>2 DEF CloseSession
    <3>2. DOMAIN promiseResults = {}
      BY <1>13 DEF CloseSession
    <3>3. DOMAIN promiseResults' = {nextPromiseId}
      BY <3>1, <3>2, EntryFacts DEF BeginPromise
    <3>4. QED
      BY <3>1, <3>3 DEF BeginPromise
  <2>3. QED
    BY <2>1, <2>2
<1>14. CASE CallClose
  BY <1>14 DEF CallClose, Request, host
<1>15. CASE Destroy
  BY <1>15 DEF Destroy, host
<1>16. CASE Destroyed
  BY <1>16 DEF Destroyed, host
<1>17. CASE ClearState
  BY <1>17 DEF ClearState, ClearAll, EmptyResults, external
<1>18. CASE OnResolvePromise
  BY <1>18 DEF OnResolvePromise, WithEntry, Answer, Settle, caller
<1>19. CASE OnResolveNewSessionPromise
  BY <1>19 DEF OnResolveNewSessionPromise, WithEntry, Answer, Settle, caller
<1>20. CASE OnRejectPromise
  BY <1>20 DEF OnRejectPromise, WithEntry, Answer, Settle, caller
<1>21. QED
  BY <1>1, <1>2, <1>3, <1>4, <1>5, <1>6, <1>7, <1>8, <1>9, <1>10, <1>11, <1>12, <1>13,
     <1>14, <1>15, <1>16, <1>17, <1>18, <1>19, <1>20
     DEF Next, NewCall, CallStep, Callback, vars, host, external, caller,
     WaitForMessage, OnInitialized, OnSessionMessage, OnSessionKeysChange,
     OnSessionClosed

\* A CDM that is loaded finds no session in the adapter.
LEMMA SessionStep == IInv /\ [Next]_vars => SessionIsOpen'
<1> SUFFICES ASSUME IInv, [Next]_vars
             PROVE  SessionIsOpen'
  OBVIOUS
<1> USE DEF IInv, SessionIsOpen, TypeOK, CdmLife, CleanAfterShutdown, At, Goto
<1>1. CASE UNCHANGED <<cdmSessionId, cdm, sessions>>
  BY <1>1
<1>2. CASE LoadCdm
  BY <1>2 DEF LoadCdm, host
<1>3. CASE ResetState
  BY <1>3 DEF ResetState, EmptyResults
<1>4. CASE Destroy
  BY <1>4 DEF Destroy, host
<1>5. CASE Destroyed
  BY <1>5 DEF Destroyed, host
<1>6. CASE ClearState
  BY <1>6 DEF ClearState, ClearAll, EmptyResults, external
<1>7. CASE OnResolveNewSessionPromise
  BY <1>7 DEF OnResolveNewSessionPromise, WithEntry, Answer, Settle, caller
<1>8. CASE OnSessionClosed
  BY <1>8 DEF OnSessionClosed, Forget, caller
<1>9. QED
  BY <1>1, <1>2, <1>3, <1>4, <1>5, <1>6, <1>7, <1>8
     DEF Next, NewCall, CallStep, Callback, vars, host, external, caller, InitReturns,
     BeginCreateSession, ClearMessage, BeginSetServerCertificate, BeginUpdateSession,
     CallCdm, PromiseDone, PromiseTimeout, WaitForMessage, BeginShutdown, CloseSession,
     CallClose, OnInitialized, OnResolvePromise, OnRejectPromise, OnSessionMessage,
     OnSessionKeysChange

\* Messages are newer than every promise begun before them.
LEMMA ChallengeStep == IInv /\ [Next]_vars => NoStaleChallenge'
<1> SUFFICES ASSUME IInv, [Next]_vars
             PROVE  NoStaleChallenge'
  OBVIOUS
<1> USE DEF IInv, NoStaleChallenge, TypeOK, CallShape, At, Goto, Idle,
    BeforeRequest, WithoutPromise
<1>1. CASE UNCHANGED <<messageValid, call, lastCreate>>
  BY <1>1
<1>2. CASE LoadCdm
  BY <1>2 DEF LoadCdm, host
<1>3. CASE ResetState
  BY <1>3 DEF ResetState, EmptyResults
<1>4. CASE InitReturns
  BY <1>4 DEF InitReturns, host, external
<1>5. CASE BeginCreateSession
  BY <1>5 DEF BeginCreateSession, WithEntry, BeginPromise, NextId, external
<1>6. CASE ClearMessage
  BY <1>6 DEF ClearMessage, DropMessage, external
<1>7. CASE BeginSetServerCertificate
  BY <1>7 DEF BeginSetServerCertificate, WithEntry, BeginPromise, NextId, external
<1>8. CASE BeginUpdateSession
  BY <1>8 DEF BeginUpdateSession, WithEntry, BeginPromise, NextId, external
<1>9. CASE CallCdm
  BY <1>9 DEF CallCdm, Request, host
<1>10. CASE PromiseDone
  BY <1>10 DEF PromiseDone, WithoutEntry, external
<1>11. CASE PromiseTimeout
  BY <1>11 DEF PromiseTimeout, WithoutEntry, external
<1>12. CASE WaitForMessage
  BY <1>12 DEF WaitForMessage, external, caller
<1>13. CASE BeginShutdown
  BY <1>13 DEF BeginShutdown, host, external
<1>14. CASE CloseSession
  BY <1>14 DEF CloseSession, WithEntry, BeginPromise, NextId, external
<1>15. CASE CallClose
  BY <1>15 DEF CallClose, Request, host
<1>16. CASE Destroy
  BY <1>16 DEF Destroy, host
<1>17. CASE Destroyed
  BY <1>17 DEF Destroyed, host
<1>18. CASE ClearState
  BY <1>18 DEF ClearState, ClearAll, EmptyResults, external
<1>19. CASE OnSessionMessage
  BY <1>19 DEF OnSessionMessage, external, caller
<1>20. QED
  BY <1>1, <1>2, <1>3, <1>4, <1>5, <1>6, <1>7, <1>8, <1>9, <1>10, <1>11, <1>12, <1>13,
     <1>14, <1>15, <1>16, <1>17, <1>18, <1>19
     DEF Next, NewCall, CallStep, Callback, vars, host, external, caller,
     OnInitialized, OnResolvePromise, OnResolveNewSessionPromise, OnRejectPromise,
     OnSessionKeysChange, OnSessionClosed

\* Without a CDM nobody calls back, and ClearState has the last word.
LEMMA CleanStep == IInv /\ [Next]_vars => CleanAfterShutdown'
<1> SUFFICES ASSUME IInv, [Next]_vars
             PROVE  CleanAfterShutdown'
  OBVIOUS
<1> USE DEF IInv, CleanAfterShutdown, TypeOK, CdmLife, At, Goto, Idle
<1>1. CASE UNCHANGED <<cdm, call, cdmSessionId, messageValid, validKeyIds, requests>>
  BY <1>1
<1>2. CASE LoadCdm
  BY <1>2 DEF LoadCdm, host
<1>3. CASE ResetState
  BY <1>3 DEF ResetState, EmptyResults
<1>4. CASE InitReturns
  BY <1>4 DEF InitReturns, host, external
<1>5. CASE BeginCreateSession
  BY <1>5 DEF BeginCreateSession, WithEntry, BeginPromise, NextId, external
<1>6. CASE ClearMessage
  BY <1>6 DEF ClearMessage, DropMessage, external
<1>7. CASE BeginSetServerCertificate
  BY <1>7 DEF BeginSetServerCertificate, WithEntry, BeginPromise, NextId, external
<1>8. CASE BeginUpdateSession
  BY <1>8 DEF BeginUpdateSession, WithEntry, BeginPromise, NextId, external
<1>9. CASE CallCdm
  BY <1>9 DEF CallCdm, Request, host
<1>10. CASE PromiseDone
  BY <1>10 DEF PromiseDone, WithoutEntry, external
<1>11. CASE PromiseTimeout
  BY <1>11 DEF PromiseTimeout, WithoutEntry, external
<1>12. CASE WaitForMessage
  BY <1>12 DEF WaitForMessage, external, caller
<1>13. CASE BeginShutdown
  BY <1>13 DEF BeginShutdown, host, external
<1>14. CASE CloseSession
  BY <1>14 DEF CloseSession, WithEntry, BeginPromise, NextId, external
<1>15. CASE CallClose
  BY <1>15 DEF CallClose, Request, host
<1>16. CASE Destroy
  BY <1>16 DEF Destroy, host
<1>17. CASE Destroyed
  BY <1>17 DEF Destroyed, host
<1>18. CASE ClearState
  BY <1>18 DEF ClearState, ClearAll, EmptyResults, external
<1>19. CASE \E success \in BOOLEAN : OnInitialized(success)
  BY <1>19 DEF OnInitialized, caller
<1>20. CASE OnResolvePromise
  BY <1>20 DEF OnResolvePromise, WithEntry, Answer, Settle, caller
<1>21. CASE OnResolveNewSessionPromise
  BY <1>21 DEF OnResolveNewSessionPromise, WithEntry, Answer, Settle, caller
<1>22. CASE OnRejectPromise
  BY <1>22 DEF OnRejectPromise, WithEntry, Answer, Settle, caller
<1>23. CASE OnSessionMessage
  BY <1>23 DEF OnSessionMessage, external, caller
<1>24. CASE OnSessionKeysChange
  BY <1>24 DEF OnSessionKeysChange, NewKeys, external, caller
<1>25. CASE OnSessionClosed
  BY <1>25 DEF OnSessionClosed, Forget, caller
<1>26. QED
  BY <1>1, <1>2, <1>3, <1>4, <1>5, <1>6, <1>7, <1>8, <1>9, <1>10, <1>11, <1>12, <1>13,
     <1>14, <1>15, <1>16, <1>17, <1>18, <1>19, <1>20, <1>21, <1>22, <1>23, <1>24, <1>25
     DEF Next, NewCall, CallStep, Callback, vars, host, external, caller

\* The adapter before its first Init().
LEMMA InitHolds == Init => IInv
<1> SUFFICES ASSUME Init
             PROVE  IInv
  OBVIOUS
<1>1. DOMAIN promiseResults = {} /\ DOMAIN answers = {}
  BY EmptyFacts DEF Init
<1>2. TypeOK
  <2>1. /\ promiseResults \in [DOMAIN promiseResults -> {-1, 0, 1}]
        /\ answers \in [DOMAIN answers -> {0, 1}] /\ DOMAIN answers \subseteq Begun
    BY <1>1, EmptyFacts DEF Init
  <2>2. call \in [at : Locations, kind : Kinds \cup {"none"}, id : Nat]
    BY DEF Init, Idle, Locations, WithoutPromise
  <2>3. returned \in [id : Nat, ok : BOOLEAN, timedOut : BOOLEAN]
    BY DEF Init, Nothing
  <2>4. /\ requests \subseteq [kind : {"init"}, id : {0}] \cup [kind : Kinds, id : Begun]
        /\ sessions \subseteq Nat
    BY DEF Init
  <2>5. cdm \in {"none", "alive", "destroying"} /\ initialized \in {"no", "yes", "failed"}
    BY DEF Init
  <2>6. /\ nextPromiseId \in Nat \ {0} /\ lastCreate \in Nat /\ lastCreate < nextPromiseId
        /\ cdmSessionId \in Nat /\ messageValid \in Nat /\ validKeyIds \in Nat
    BY DEF Init
  <2>7. callbackError \in BOOLEAN
    BY DEF Init
  <2>8. QED
    BY <2>1, <2>2, <2>3, <2>4, <2>5, <2>6, <2>7 DEF TypeOK
<1>3. CallShape /\ PromiseLife /\ CdmLife
  BY DEF Init, CallShape, PromiseLife, CdmLife, At, Idle, WithoutPromise, BeforeRequest
<1>4. CallsReportTheirOwnAnswer /\ NoPromiseIsLeftBehind
  BY <1>1 DEF Init, CallsReportTheirOwnAnswer, NoPromiseIsLeftBehind, Idle, Nothing
<1>5. SessionIsOpen /\ NoStaleChallenge /\ CleanAfterShutdown
  BY DEF Init, SessionIsOpen, NoStaleChallenge, CleanAfterShutdown
<1>6. QED
  BY <1>2, <1>3, <1>4, <1>5 DEF IInv

\* The invariant holds: InitHolds, the steps, and induction.
THEOREM InvariantHolds == Spec => []IInv
<1>1. IInv /\ [Next]_vars => IInv'
  BY TypeStep, ShapeStep, PromiseLifeStep, CdmLifeStep, OwnAnswerStep, PromisesStep,
     SessionStep, ChallengeStep, CleanStep DEF IInv
<1>2. QED
  BY InitHolds, <1>1, PTL DEF Spec

\* The variables of the adapter have their types.
THEOREM TypeCorrect == Spec => []TypeOK
<1>1. IInv => TypeOK
  BY DEF IInv
<1>2. QED
  BY <1>1, InvariantHolds, PTL

\* SetServerCertificate, CreateSessionAndGenerateRequest and UpdateCurrentSession report
\* what the CDM said of their own promise, whatever comes late.
THEOREM EachCallGetsItsOwnAnswer == Spec => []CallsReportTheirOwnAnswer
<1>1. IInv => CallsReportTheirOwnAnswer
  BY DEF IInv
<1>2. QED
  BY <1>1, InvariantHolds, PTL

\* promiseResults_ never holds a promise but that of the call in progress.
THEOREM GivenUpPromisesStayGivenUp == Spec => []NoPromiseIsLeftBehind
<1>1. IInv => NoPromiseIsLeftBehind
  BY DEF IInv
<1>2. QED
  BY <1>1, InvariantHolds, PTL

\* cdmSessionId_ names a session that the CDM has open.
THEOREM SessionsAreOpen == Spec => []SessionIsOpen
<1>1. IInv => SessionIsOpen
  BY DEF IInv
<1>2. QED
  BY <1>1, InvariantHolds, PTL

\* message_ never holds a challenge of an earlier license exchange.
THEOREM ChallengesAreFresh == Spec => []NoStaleChallenge
<1>1. IInv => NoStaleChallenge
  BY DEF IInv
<1>2. QED
  BY <1>1, InvariantHolds, PTL

\* Shutdown() leaves neither session nor message, keys or requests.
THEOREM ShutdownLeavesNothing == Spec => []CleanAfterShutdown
<1>1. IInv => CleanAfterShutdown
  BY DEF IInv
<1>2. QED
  BY <1>1, InvariantHolds, PTL

-----------------------------------------------------------------------------
(***************************************************************************)
(* The timers of the CDM, for any number of timers, instances and delays.  *)
(*                                                                         *)
(* What the thread has read from cdm_ stays alive because an instance is   *)
(* destroyed only at a place of Shutdown() where there is no timer thread  *)
(* (ThreadIsJoined), and because cdm_ itself is never left dangling        *)
(* (CdmIsAlive).  The thread sleeps through nothing because every change   *)
(* of timers_ and of stopTimers_ that it would miss is notified before the *)
(* mutex, or the place of Shutdown(), is left (NoWakeupIsLost).            *)
(***************************************************************************)

TimerLocations ==
  {"none", "check", "emptyWaiting", "untilWaiting", "awake", "calling", "exited"}
ControlLocations == {"idle", "create", "stop", "notify", "join", "destroy"}
Timer == [deadline : Nat, context : Nat, owner : Nat]

TimersTypeOK ==
  /\ created \in Nat /\ cdmInstance \in 0 .. created /\ alive \subseteq 1 .. created
  /\ stopTimers \in BOOLEAN
  /\ timers \subseteq Timer
  /\ lastContext \in Nat /\ now \in Nat /\ deadline \in Nat
  /\ thread \in TimerLocations
  /\ expiring \in [timer : Timer, cdm : Nat]
  /\ pc \in ControlLocations

\* cdm_ is nullptr or an instance that has not been destroyed.
CdmIsAlive == cdmInstance # 0 => cdmInstance \in alive

\* Shutdown() destroys when there is no timer thread.
ThreadIsJoined == pc = "destroy" => thread = "none"

\* stopTimers_ is set from the first step of Shutdown() to the next Init().
StoppedForShutdown == pc \in {"notify", "join", "destroy"} => stopTimers

\* No timer is in the map twice or still in it when it is handed back.
ContextsAreUnique ==
  /\ \A t \in timers : t.context <= lastContext
  /\ \A t, u \in timers : t.context = u.context => t = u
  /\ thread = "calling" =>
       /\ expiring.timer.context <= lastContext
       /\ \A t \in timers : t.context # expiring.timer.context

\* The thread waits for a timer only when there is none, waits until a deadline only
\* when none comes before it, and is not asleep when Shutdown() joins it.
NoWakeupIsLost ==
  /\ thread = "emptyWaiting" => timers = {}
  /\ thread = "untilWaiting" => \A t \in timers : deadline <= t.deadline
  /\ pc = "join" => thread \notin {"emptyWaiting", "untilWaiting"}

TimersInv == /\ TimersTypeOK /\ CdmIsAlive /\ ThreadIsJoined /\ StoppedForShutdown
             /\ ContextsAreUnique
             /\ NoWakeupIsLost
             /\ ExpiresOnLiveCdm
             /\ NeverEarly

\* Types, one step per action.
LEMMA TimersTypeStep == TimersInv /\ [TimersNext]_timersVars => TimersTypeOK'
<1> SUFFICES ASSUME TimersInv, [TimersNext]_timersVars
             PROVE  TimersTypeOK'
  OBVIOUS
<1> USE DEF TimersInv, TimersTypeOK, Timer, TimerLocations, ControlLocations
<1>1. CASE UNCHANGED <<created, cdmInstance, alive, stopTimers, timers, lastContext, now, deadline, thread, expiring, pc>>
  BY <1>1
<1>2. CASE TimerCheck
  BY <1>2 DEF TimerCheck, adapter, clock, IsFirst
<1>3. CASE WaitTimesOut
  BY <1>3 DEF WaitTimesOut, Woken, adapter, clock
<1>4. CASE TakeTimer
  BY <1>4 DEF TakeTimer, IsDue, adapter, clock
<1>5. CASE TimerExpired
  BY <1>5 DEF TimerExpired, NotExpiring, NoTimer, adapter, clock
<1>6. CASE SpuriousWakeup
  BY <1>6 DEF SpuriousWakeup, Woken, adapter, clock
<1>7. CASE SetTimer
  BY <1>7 DEF SetTimer, DeadlineOf, NotifyTimerThread, Woken, adapter
<1>8. CASE Tick
  BY <1>8 DEF Tick, adapter
<1>9. CASE StartTimers
  BY <1>9 DEF StartTimers, clock
<1>10. CASE CreateCdm
  <2>1. /\ created' \in Nat /\ cdmInstance' \in 0 .. created' /\ alive' \subseteq 1 .. created'
    <3>1. CASE created' = created + 1 /\ cdmInstance' = created + 1 /\ alive' = alive \cup {created + 1}
      <4>1. created + 1 \in 1 .. created + 1 /\ \A i \in 1 .. created : i \in 1 .. created + 1
        OBVIOUS
      <4>2. QED
        BY <3>1, <4>1
    <3>2. CASE UNCHANGED <<created, alive>>
      BY <1>10, <3>2 DEF CreateCdm
    <3>3. QED
      BY <1>10, <3>1, <3>2 DEF CreateCdm
  <2>2. pc' \in ControlLocations
    BY <1>10 DEF CreateCdm
  <2>3. QED
    BY <1>10, <2>1, <2>2 DEF CreateCdm, clock
<1>11. CASE BeginTimerShutdown
  BY <1>11 DEF BeginTimerShutdown, clock
<1>12. CASE StopTimers
  BY <1>12 DEF StopTimers, clock
<1>13. CASE NotifyStop
  BY <1>13 DEF NotifyStop, NotifyTimerThread, Woken, clock
<1>14. CASE JoinTimerThread
  BY <1>14 DEF JoinTimerThread, Joined, clock
<1>15. CASE DestroyCdm
  BY <1>15 DEF DestroyCdm, clock
<1>16. QED
  BY <1>1, <1>2, <1>3, <1>4, <1>5, <1>6, <1>7, <1>8, <1>9, <1>10, <1>11, <1>12, <1>13, <1>14, <1>15
     DEF TimersNext, TimerThread, Control, timersVars, adapter, clock

\* Only CreateCdm and DestroyCdm change cdm_, and they leave it alive or nullptr.
LEMMA CdmStep == TimersInv /\ [TimersNext]_timersVars => CdmIsAlive'
<1> SUFFICES ASSUME TimersInv, [TimersNext]_timersVars
             PROVE  CdmIsAlive'
  OBVIOUS
<1> USE DEF TimersInv, TimersTypeOK, CdmIsAlive
<1>1. CASE UNCHANGED <<cdmInstance, alive>>
  BY <1>1
<1>2. CASE CreateCdm
  BY <1>2 DEF CreateCdm, clock
<1>3. CASE DestroyCdm
  BY <1>3 DEF DestroyCdm, clock
<1>4. QED
  BY <1>1, <1>2, <1>3
     DEF TimersNext, TimerThread, Control, timersVars, adapter, clock,
         TimerCheck, WaitTimesOut, TakeTimer, TimerExpired, SpuriousWakeup, SetTimer, Tick,
         StartTimers, BeginTimerShutdown, StopTimers, NotifyStop, JoinTimerThread

\* After the join nobody starts or wakes a thread before the CDM is destroyed.
LEMMA JoinStep == TimersInv /\ [TimersNext]_timersVars => ThreadIsJoined'
<1> SUFFICES ASSUME TimersInv, [TimersNext]_timersVars
             PROVE  ThreadIsJoined'
  OBVIOUS
<1> USE DEF TimersInv, TimersTypeOK, ThreadIsJoined, TimerLocations
<1>1. CASE UNCHANGED <<pc, thread>>
  BY <1>1
<1>2. CASE TimerCheck
  BY <1>2 DEF TimerCheck, adapter, clock, IsFirst
<1>3. CASE WaitTimesOut
  BY <1>3 DEF WaitTimesOut, Woken, adapter, clock
<1>4. CASE TakeTimer
  BY <1>4 DEF TakeTimer, IsDue, adapter, clock
<1>5. CASE TimerExpired
  BY <1>5 DEF TimerExpired, NotExpiring, NoTimer, adapter, clock
<1>6. CASE SpuriousWakeup
  BY <1>6 DEF SpuriousWakeup, Woken, adapter, clock
<1>7. CASE SetTimer
  BY <1>7 DEF SetTimer, DeadlineOf, NotifyTimerThread, Woken, adapter
<1>8. CASE Tick
  BY <1>8 DEF Tick, adapter
<1>9. CASE StartTimers
  BY <1>9 DEF StartTimers, clock
<1>10. CASE CreateCdm
  BY <1>10 DEF CreateCdm, clock
<1>11. CASE BeginTimerShutdown
  BY <1>11 DEF BeginTimerShutdown, clock
<1>12. CASE StopTimers
  BY <1>12 DEF StopTimers, clock
<1>13. CASE NotifyStop
  BY <1>13 DEF NotifyStop, NotifyTimerThread, Woken, clock
<1>14. CASE JoinTimerThread
  BY <1>14 DEF JoinTimerThread, Joined, clock
<1>15. CASE DestroyCdm
  BY <1>15 DEF DestroyCdm, clock
<1>16. QED
  BY <1>1, <1>2, <1>3, <1>4, <1>5, <1>6, <1>7, <1>8, <1>9, <1>10, <1>11, <1>12, <1>13, <1>14, <1>15
     DEF TimersNext, TimerThread, Control, timersVars, adapter, clock

\* StopTimers sets stopTimers_, StartTimers clears it when Shutdown() is over.
LEMMA StopStep == TimersInv /\ [TimersNext]_timersVars => StoppedForShutdown'
<1> SUFFICES ASSUME TimersInv, [TimersNext]_timersVars
             PROVE  StoppedForShutdown'
  OBVIOUS
<1> USE DEF TimersInv, TimersTypeOK, StoppedForShutdown
<1>1. CASE UNCHANGED <<pc, stopTimers>>
  BY <1>1
<1>2. CASE StartTimers
  BY <1>2 DEF StartTimers, clock
<1>3. CASE CreateCdm
  BY <1>3 DEF CreateCdm, clock
<1>4. CASE BeginTimerShutdown
  BY <1>4 DEF BeginTimerShutdown, clock
<1>5. CASE StopTimers
  BY <1>5 DEF StopTimers, clock
<1>6. CASE NotifyStop
  BY <1>6 DEF NotifyStop, NotifyTimerThread, Woken, clock
<1>7. CASE JoinTimerThread
  BY <1>7 DEF JoinTimerThread, Joined, clock
<1>8. CASE DestroyCdm
  BY <1>8 DEF DestroyCdm, clock
<1>9. QED
  BY <1>1, <1>2, <1>3, <1>4, <1>5, <1>6, <1>7, <1>8
     DEF TimersNext, TimerThread, Control, timersVars, adapter, clock,
         TimerCheck, WaitTimesOut, TakeTimer, TimerExpired, SpuriousWakeup, SetTimer, Tick

\* SetTimer has a context of its own; TakeTimer takes out what it hands back.
LEMMA ContextStep == TimersInv /\ [TimersNext]_timersVars => ContextsAreUnique'
<1> SUFFICES ASSUME TimersInv, [TimersNext]_timersVars
             PROVE  ContextsAreUnique'
  OBVIOUS
<1> USE DEF TimersInv, TimersTypeOK, ContextsAreUnique, Timer, TimerLocations
<1>1. CASE UNCHANGED <<timers, lastContext, thread, expiring>>
  BY <1>1
<1>2. CASE TimerCheck
  BY <1>2 DEF TimerCheck, adapter, clock, IsFirst
<1>3. CASE WaitTimesOut
  BY <1>3 DEF WaitTimesOut, Woken, adapter, clock
<1>4. CASE TakeTimer
  BY <1>4 DEF TakeTimer, IsDue, adapter, clock
<1>5. CASE TimerExpired
  BY <1>5 DEF TimerExpired, NotExpiring, NoTimer, adapter, clock
<1>6. CASE SpuriousWakeup
  BY <1>6 DEF SpuriousWakeup, Woken, adapter, clock
<1>7. CASE SetTimer
  BY <1>7 DEF SetTimer, DeadlineOf, NotifyTimerThread, Woken, adapter
<1>8. CASE Tick
  BY <1>8 DEF Tick, adapter
<1>9. CASE StartTimers
  BY <1>9 DEF StartTimers, clock
<1>10. CASE CreateCdm
  BY <1>10 DEF CreateCdm, clock
<1>11. CASE BeginTimerShutdown
  BY <1>11 DEF BeginTimerShutdown, clock
<1>12. CASE StopTimers
  BY <1>12 DEF StopTimers, clock
<1>13. CASE NotifyStop
  BY <1>13 DEF NotifyStop, NotifyTimerThread, Woken, clock
<1>14. CASE JoinTimerThread
  BY <1>14 DEF JoinTimerThread, Joined, clock
<1>15. CASE DestroyCdm
  BY <1>15 DEF DestroyCdm, clock
<1>16. QED
  BY <1>1, <1>2, <1>3, <1>4, <1>5, <1>6, <1>7, <1>8, <1>9, <1>10, <1>11, <1>12, <1>13, <1>14, <1>15
     DEF TimersNext, TimerThread, Control, timersVars, adapter, clock

\* Every change that a sleeping thread would miss wakes it.
LEMMA WakeupStep == TimersInv /\ [TimersNext]_timersVars => NoWakeupIsLost'
<1> SUFFICES ASSUME TimersInv, [TimersNext]_timersVars
             PROVE  NoWakeupIsLost'
  OBVIOUS
<1> USE DEF TimersInv, TimersTypeOK, NoWakeupIsLost, StoppedForShutdown, Timer, TimerLocations
<1>1. CASE UNCHANGED <<pc, stopTimers, timers, thread, deadline>>
  BY <1>1
<1>2. CASE TimerCheck
  BY <1>2 DEF TimerCheck, adapter, clock, IsFirst
<1>3. CASE WaitTimesOut
  BY <1>3 DEF WaitTimesOut, Woken, adapter, clock
<1>4. CASE TakeTimer
  BY <1>4 DEF TakeTimer, IsDue, adapter, clock
<1>5. CASE TimerExpired
  BY <1>5 DEF TimerExpired, NotExpiring, NoTimer, adapter, clock
<1>6. CASE SpuriousWakeup
  BY <1>6 DEF SpuriousWakeup, Woken, adapter, clock
<1>7. CASE SetTimer
  BY <1>7 DEF SetTimer, DeadlineOf, NotifyTimerThread, Woken, adapter
<1>8. CASE Tick
  BY <1>8 DEF Tick, adapter
<1>9. CASE StartTimers
  BY <1>9 DEF StartTimers, clock
<1>10. CASE CreateCdm
  BY <1>10 DEF CreateCdm, clock
<1>11. CASE BeginTimerShutdown
  BY <1>11 DEF BeginTimerShutdown, clock
<1>12. CASE StopTimers
  BY <1>12 DEF StopTimers, clock
<1>13. CASE NotifyStop
  BY <1>13 DEF NotifyStop, NotifyTimerThread, Woken, clock
<1>14. CASE JoinTimerThread
  BY <1>14 DEF JoinTimerThread, Joined, clock
<1>15. CASE DestroyCdm
  BY <1>15 DEF DestroyCdm, clock
<1>16. QED
  BY <1>1, <1>2, <1>3, <1>4, <1>5, <1>6, <1>7, <1>8, <1>9, <1>10, <1>11, <1>12, <1>13, <1>14, <1>15
     DEF TimersNext, TimerThread, Control, timersVars, adapter, clock

\* The thread reads cdm_ when it is alive; nothing is destroyed while the thread exists.
LEMMA LiveStep == TimersInv /\ [TimersNext]_timersVars => ExpiresOnLiveCdm'
<1> SUFFICES ASSUME TimersInv, [TimersNext]_timersVars
             PROVE  ExpiresOnLiveCdm'
  OBVIOUS
<1> USE DEF TimersInv, TimersTypeOK, CdmIsAlive, ThreadIsJoined, ExpiresOnLiveCdm, TimerLocations
<1>1. CASE UNCHANGED <<thread, expiring, alive>>
  BY <1>1
<1>2. CASE TimerCheck
  BY <1>2 DEF TimerCheck, adapter, clock, IsFirst
<1>3. CASE WaitTimesOut
  BY <1>3 DEF WaitTimesOut, Woken, adapter, clock
<1>4. CASE TakeTimer
  BY <1>4 DEF TakeTimer, IsDue, adapter, clock
<1>5. CASE TimerExpired
  BY <1>5 DEF TimerExpired, NotExpiring, NoTimer, adapter, clock
<1>6. CASE SpuriousWakeup
  BY <1>6 DEF SpuriousWakeup, Woken, adapter, clock
<1>7. CASE SetTimer
  BY <1>7 DEF SetTimer, DeadlineOf, NotifyTimerThread, Woken, adapter
<1>8. CASE Tick
  BY <1>8 DEF Tick, adapter
<1>9. CASE StartTimers
  BY <1>9 DEF StartTimers, clock
<1>10. CASE CreateCdm
  BY <1>10 DEF CreateCdm, clock
<1>11. CASE BeginTimerShutdown
  BY <1>11 DEF BeginTimerShutdown, clock
<1>12. CASE StopTimers
  BY <1>12 DEF StopTimers, clock
<1>13. CASE NotifyStop
  BY <1>13 DEF NotifyStop, NotifyTimerThread, Woken, clock
<1>14. CASE JoinTimerThread
  BY <1>14 DEF JoinTimerThread, Joined, clock
<1>15. CASE DestroyCdm
  BY <1>15 DEF DestroyCdm, clock
<1>16. QED
  BY <1>1, <1>2, <1>3, <1>4, <1>5, <1>6, <1>7, <1>8, <1>9, <1>10, <1>11, <1>12, <1>13, <1>14, <1>15
     DEF TimersNext, TimerThread, Control, timersVars, adapter, clock

\* TakeTimer looks at the time after the mutex; the time only grows.
LEMMA EarlyStep == TimersInv /\ [TimersNext]_timersVars => NeverEarly'
<1> SUFFICES ASSUME TimersInv, [TimersNext]_timersVars
             PROVE  NeverEarly'
  OBVIOUS
<1> USE DEF TimersInv, TimersTypeOK, NeverEarly, Timer, TimerLocations
<1>1. CASE UNCHANGED <<thread, expiring, now>>
  BY <1>1
<1>2. CASE TimerCheck
  BY <1>2 DEF TimerCheck, adapter, clock, IsFirst
<1>3. CASE WaitTimesOut
  BY <1>3 DEF WaitTimesOut, Woken, adapter, clock
<1>4. CASE TakeTimer
  BY <1>4 DEF TakeTimer, IsDue, adapter, clock
<1>5. CASE TimerExpired
  BY <1>5 DEF TimerExpired, NotExpiring, NoTimer, adapter, clock
<1>6. CASE SpuriousWakeup
  BY <1>6 DEF SpuriousWakeup, Woken, adapter, clock
<1>7. CASE SetTimer
  BY <1>7 DEF SetTimer, DeadlineOf, NotifyTimerThread, Woken, adapter
<1>8. CASE Tick
  BY <1>8 DEF Tick, adapter
<1>9. CASE StartTimers
  BY <1>9 DEF StartTimers, clock
<1>10. CASE CreateCdm
  BY <1>10 DEF CreateCdm, clock
<1>11. CASE BeginTimerShutdown
  BY <1>11 DEF BeginTimerShutdown, clock
<1>12. CASE StopTimers
  BY <1>12 DEF StopTimers, clock
<1>13. CASE NotifyStop
  BY <1>13 DEF NotifyStop, NotifyTimerThread, Woken, clock
<1>14. CASE JoinTimerThread
  BY <1>14 DEF JoinTimerThread, Joined, clock
<1>15. CASE DestroyCdm
  BY <1>15 DEF DestroyCdm, clock
<1>16. QED
  BY <1>1, <1>2, <1>3, <1>4, <1>5, <1>6, <1>7, <1>8, <1>9, <1>10, <1>11, <1>12, <1>13, <1>14, <1>15
     DEF TimersNext, TimerThread, Control, timersVars, adapter, clock

\* The adapter before its first Init().
LEMMA TimersInitHolds == TimersInit => TimersInv
<1>1. TimersInit => TimersTypeOK
  <2> SUFFICES ASSUME TimersInit
               PROVE  TimersTypeOK
    OBVIOUS
  <2>1. expiring \in [timer : Timer, cdm : Nat]
    BY DEF TimersInit, Timer, NotExpiring, NoTimer
  <2>2. thread \in TimerLocations /\ pc \in ControlLocations /\ stopTimers \in BOOLEAN
    BY DEF TimersInit, TimerLocations, ControlLocations
  <2>3. /\ created \in Nat /\ cdmInstance \in 0 .. created /\ alive \subseteq 1 .. created
        /\ timers \subseteq Timer /\ lastContext \in Nat /\ now \in Nat /\ deadline \in Nat
    BY DEF TimersInit
  <2>4. QED
    BY <2>1, <2>2, <2>3 DEF TimersTypeOK
<1>2. TimersInit => CdmIsAlive /\ ThreadIsJoined /\ StoppedForShutdown
  BY DEF TimersInit, CdmIsAlive, ThreadIsJoined, StoppedForShutdown
<1>3. TimersInit => ContextsAreUnique /\ NoWakeupIsLost /\ ExpiresOnLiveCdm /\ NeverEarly
  BY DEF TimersInit, ContextsAreUnique, NoWakeupIsLost, ExpiresOnLiveCdm, NeverEarly
<1>4. QED
  BY <1>1, <1>2, <1>3 DEF TimersInv

\* The invariant holds: TimersInitHolds, the steps, and induction.
THEOREM TimersInvariantHolds == TimersSpec => []TimersInv
<1>1. TimersInv /\ [TimersNext]_timersVars => TimersInv'
  BY TimersTypeStep, CdmStep, JoinStep, StopStep, ContextStep, WakeupStep, LiveStep, EarlyStep DEF TimersInv
<1>2. QED
  BY TimersInitHolds, <1>1, PTL DEF TimersSpec

\* The variables of the timers have their types.
THEOREM TimersTypeCorrect == TimersSpec => []TimersTypeOK
<1>1. TimersInv => TimersTypeOK
  BY DEF TimersInv
<1>2. QED
  BY <1>1, TimersInvariantHolds, PTL

\* TimerExpired() is never called on a CDM that is gone, for any number of instances,
\* failed Init()s included.
THEOREM TimersExpireOnLiveCdm == TimersSpec => []ExpiresOnLiveCdm
<1>1. TimersInv => ExpiresOnLiveCdm
  BY DEF TimersInv
<1>2. QED
  BY <1>1, TimersInvariantHolds, PTL

\* No context comes back before its deadline, whatever wakes the thread.
THEOREM TimersExpireInTime == TimersSpec => []NeverEarly
<1>1. TimersInv => NeverEarly
  BY DEF TimersInv
<1>2. QED
  BY <1>1, TimersInvariantHolds, PTL

\* A context is handed back at most once: it is out of timers_ when it is.
THEOREM EachContextOnce == TimersSpec => []ContextsAreUnique
<1>1. TimersInv => ContextsAreUnique
  BY DEF TimersInv
<1>2. QED
  BY <1>1, TimersInvariantHolds, PTL

\* The notifications of SetTimer() and Shutdown() are enough: the thread never sleeps
\* longer than its first timer allows, nor while Shutdown() joins it.
THEOREM NotificationsSuffice == TimersSpec => []NoWakeupIsLost
<1>1. TimersInv => NoWakeupIsLost
  BY DEF TimersInv
<1>2. QED
  BY <1>1, TimersInvariantHolds, PTL
==============================================================================
