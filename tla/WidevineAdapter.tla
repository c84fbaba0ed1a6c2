--------------------------- MODULE WidevineAdapter ---------------------------
(***************************************************************************)
(* The session half of src/core/widevineAdapter.cc: the control thread     *)
(* calls into the Widevine CDM, which answers by callbacks from threads of *)
(* its own, late or never; the adapter turns them into synchronous calls   *)
(* that give up after kCallbackTimeout.                                    *)
(*                                                                         *)
(* Every critical section of stateMutex_ is one step.  A callback changes  *)
(* the state and notifies with the mutex held, and the waits test their    *)
(* predicates with it, so no wakeup can be lost and a wait is simply       *)
(* enabled when its predicate holds.                                       *)
(***************************************************************************)
EXTENDS Integers

CONSTANT MaxPromises   \* bound: promises begun over the life of the adapter

ASSUME MaxPromisesAssumption == MaxPromises \in Nat \ {0}

VARIABLES
  cdm,             \* cdm_: "none", "alive", or "destroying" while in Destroy()
  initialized,     \* initialized_: "no", or how OnInitialized() reported
  nextPromiseId,   \* nextPromiseId_
  promiseResults,  \* promiseResults_: -1 pending, 0 failed, 1 succeeded
  cdmSessionId,    \* cdmSessionId_, 0 when empty
  messageValid,    \* messageValid_ and message_: when it arrived, 0 when invalid
  callbackError,   \* callbackError_ is not empty
  validKeyIds,     \* size of validKeyIds_
  requests,        \* in the CDM: what it has not answered yet
  sessions,        \* in the CDM: the sessions it has open, by creating promise
  answers,         \* history: how the CDM answered each promise
  lastCreate,      \* history: promise of the last CreateSessionAndGenerateRequest
  call,            \* the control thread's call: where it is, its promise
  returned         \* what the last call on a promise returned

host == <<initialized, nextPromiseId, promiseResults, cdmSessionId, messageValid,
          callbackError, validKeyIds>>
external == <<cdm, requests, sessions, answers>>
caller == <<lastCreate, call, returned>>
vars == <<host, external, caller>>

Idle == [at |-> "idle", kind |-> "none", id |-> 0]
Nothing == [id |-> 0, ok |-> FALSE, timedOut |-> FALSE]

EmptyResults == [id \in {} |-> -1]

Init == /\ cdm = "none"
        /\ initialized = "no"
        /\ nextPromiseId = 1
        /\ promiseResults = EmptyResults
        /\ cdmSessionId = 0
        /\ messageValid = 0
        /\ callbackError = FALSE
        /\ validKeyIds = 0
        /\ requests = {}
        /\ sessions = {}
        /\ answers = EmptyResults
        /\ lastCreate = 0
        /\ call = Idle
        /\ returned = Nothing

-----------------------------------------------------------------------------
At(l) == call.at = l
Goto(l) == call' = [call EXCEPT !.at = l]

NextIdReused(id) == id   \* mutant: load() for fetch_add(1)
NextId(id) == id + 1

WithEntry(id, r) == [i \in DOMAIN promiseResults \cup {id} |->
                       IF i = id THEN r ELSE promiseResults[i]]
WithoutEntry(id) == [i \in DOMAIN promiseResults \ {id} |-> promiseResults[i]]

\* Bound: new calls leave one promise for the CloseSession() of the shutdown.
PromiseLeft == nextPromiseId < MaxPromises

\* BeginPromise() for a call of the given kind, which goes on at l.
BeginPromise(kind, l) ==
  /\ nextPromiseId' = NextId(nextPromiseId)
  /\ promiseResults' = WithEntry(nextPromiseId, -1)
  /\ call' = [at |-> l, kind |-> kind, id |-> nextPromiseId]

\* The call into the CDM: it will answer the promise some time, or never.
Request == requests' = requests \cup {[kind |-> call.kind, id |-> call.id]}

-----------------------------------------------------------------------------
(* WidevineAdapter::Init()                                                 *)

LoadCdm ==
  /\ At("idle")
  /\ cdm = "none"
  /\ \/ cdm' = "alive" /\ Goto("resetState")
     \/ UNCHANGED <<cdm, call>>        \* dlopen or CreateCdmInstance failed
  /\ UNCHANGED <<host, requests, sessions, answers, lastCreate, returned>>

ResetState ==
  /\ At("resetState")
  /\ initialized' = "no"
  /\ messageValid' = 0
  /\ callbackError' = FALSE
  /\ cdmSessionId' = 0
  /\ validKeyIds' = 0
  /\ promiseResults' = EmptyResults
  /\ requests' = requests \cup {[kind |-> "init", id |-> 0]}
  /\ Goto("initWait")
  /\ UNCHANGED <<nextPromiseId, cdm, sessions, answers, lastCreate, returned>>

\* Initialised in time and successfully, or Shutdown().
InitReturns ==
  /\ At("initWait")
  /\ \/ initialized = "yes" /\ call' = Idle
     \/ initialized # "yes" /\ Goto("readSession")
  /\ UNCHANGED <<host, external, lastCreate, returned>>

-----------------------------------------------------------------------------
(* The calls on a promise.                                                 *)

BeginCreateSession ==
  /\ At("idle") /\ cdm = "alive" /\ PromiseLeft
  /\ BeginPromise("create", "clearMessage")
  /\ lastCreate' = nextPromiseId
  /\ UNCHANGED <<initialized, cdmSessionId, messageValid, callbackError, validKeyIds,
                 external, returned>>

KeepMessage == UNCHANGED messageValid   \* mutant: messageValid_ is left alone
DropMessage == messageValid' = 0

ClearMessage ==
  /\ At("clearMessage")
  /\ DropMessage
  /\ callbackError' = FALSE
  /\ Goto("callCdm")
  /\ UNCHANGED <<initialized, nextPromiseId, promiseResults, cdmSessionId, validKeyIds,
                 external, lastCreate, returned>>

BeginSetServerCertificate ==
  /\ At("idle") /\ cdm = "alive" /\ PromiseLeft
  /\ BeginPromise("certificate", "callCdm")
  /\ UNCHANGED <<initialized, cdmSessionId, messageValid, callbackError, validKeyIds,
                 external, lastCreate, returned>>

\* UpdateSession() gives up at once when there is no session.
BeginUpdateSession ==
  /\ At("idle") /\ cdm = "alive" /\ PromiseLeft
  /\ cdmSessionId # 0
  /\ BeginPromise("update", "callCdm")
  /\ UNCHANGED <<initialized, cdmSessionId, messageValid, callbackError, validKeyIds,
                 external, lastCreate, returned>>

CallCdm ==
  /\ At("callCdm")
  /\ Request
  /\ Goto("promiseWait")
  /\ UNCHANGED <<host, cdm, sessions, answers, lastCreate, returned>>

\* WaitForPromise(): the answer is there.
PromiseDone ==
  /\ At("promiseWait")
  /\ promiseResults[call.id] # -1
  /\ returned' = [id |-> call.id, ok |-> promiseResults[call.id] = 1, timedOut |-> FALSE]
  /\ promiseResults' = WithoutEntry(call.id)
  /\ call' = Idle
  /\ UNCHANGED <<initialized, nextPromiseId, cdmSessionId, messageValid, callbackError,
                 validKeyIds, external, lastCreate>>

GivesUpNever == FALSE   \* mutant: wait() for wait_for()
GivesUp == TRUE

\* kCallbackTimeout has passed without an answer.
PromiseTimeout ==
  /\ At("promiseWait")
  /\ GivesUp
  /\ promiseResults[call.id] = -1
  /\ returned' = [id |-> call.id, ok |-> FALSE, timedOut |-> TRUE]
  /\ promiseResults' = WithoutEntry(call.id)
  /\ callbackError' = TRUE
  /\ call' = Idle
  /\ UNCHANGED <<initialized, nextPromiseId, cdmSessionId, messageValid, validKeyIds,
                 external, lastCreate>>

\* WaitForMessage(): a message, an error that is already there, or the timeout.
WaitForMessage ==
  /\ At("idle") /\ cdm = "alive"
  /\ messageValid' = 0
  /\ callbackError' = (callbackError \/ messageValid = 0)
  /\ UNCHANGED <<initialized, nextPromiseId, promiseResults, cdmSessionId, validKeyIds,
                 external, caller>>

-----------------------------------------------------------------------------
(* WidevineAdapter::Shutdown(); the timer thread is in WidevineTimers.      *)

BeginShutdown ==
  /\ At("idle") /\ cdm = "alive"
  /\ Goto("readSession")
  /\ UNCHANGED <<host, external, lastCreate, returned>>

\* With a session: CloseSession() on a promise that nobody waits for.
CloseSession ==
  /\ At("readSession")
  /\ \/ cdmSessionId = 0 /\ Goto("destroy") /\ UNCHANGED <<nextPromiseId, promiseResults>>
     \/ cdmSessionId # 0 /\ BeginPromise("close", "callClose")
  /\ UNCHANGED <<initialized, cdmSessionId, messageValid, callbackError, validKeyIds,
                 external, lastCreate, returned>>

CallClose ==
  /\ At("callClose")
  /\ Request
  /\ Goto("destroy")
  /\ UNCHANGED <<host, cdm, sessions, answers, lastCreate, returned>>

\* Destroy() lets the CDM's threads finish what they are about to call back.
Destroy ==
  /\ At("destroy")
  /\ cdm' = "destroying"
  /\ Goto("destroying")
  /\ UNCHANGED <<host, requests, sessions, answers, lastCreate, returned>>

Destroyed ==
  /\ At("destroying")
  /\ cdm' = "none"
  /\ requests' = {}
  /\ sessions' = {}
  /\ Goto("clearState")
  /\ UNCHANGED <<host, answers, lastCreate, returned>>

ClearPromisesOnly == /\ promiseResults' = EmptyResults   \* mutant: the session is kept
                     /\ UNCHANGED <<cdmSessionId, messageValid, validKeyIds>>
ClearAll == /\ promiseResults' = EmptyResults
            /\ cdmSessionId' = 0
            /\ messageValid' = 0
            /\ validKeyIds' = 0

ClearState ==
  /\ At("clearState")
  /\ ClearAll
  /\ call' = Idle
  /\ UNCHANGED <<initialized, nextPromiseId, callbackError, external, lastCreate, returned>>

-----------------------------------------------------------------------------
(* The callbacks, from threads of the CDM, until Destroy() has returned.   *)

OnInitialized(success) ==
  \E r \in requests :
    /\ r.kind = "init"
    /\ requests' = requests \ {r}
    /\ initialized' = IF success THEN "yes" ELSE "failed"
    /\ UNCHANGED <<nextPromiseId, promiseResults, cdmSessionId, messageValid,
                   callbackError, validKeyIds, cdm, sessions, answers, caller>>

SettleAnyway(id, ok) == promiseResults' = WithEntry(id, ok)   \* mutant: without find()

\* A promise that is not in the map any more has been given up: its answer is dropped.
Settle(id, ok) == promiseResults' = IF id \in DOMAIN promiseResults
                                    THEN WithEntry(id, ok) ELSE promiseResults

\* The CDM answers the request r.
Answer(r, ok) ==
  /\ r \in requests /\ r.kind # "init"
  /\ requests' = requests \ {r}
  /\ answers' = [i \in DOMAIN answers \cup {r.id} |-> IF i = r.id THEN ok ELSE answers[i]]
  /\ Settle(r.id, ok)

OnResolvePromise ==
  \E r \in requests :
    /\ r.kind \in {"certificate", "update", "close"}
    /\ Answer(r, 1)
    /\ UNCHANGED <<initialized, nextPromiseId, cdmSessionId, messageValid, callbackError,
                   validKeyIds, cdm, sessions, caller>>

\* A session, or none: then the promise fails.
OnResolveNewSessionPromise ==
  \E r \in requests :
    /\ r.kind = "create"
    /\ \/ /\ Answer(r, 1)
          /\ cdmSessionId' = r.id
          /\ sessions' = sessions \cup {r.id}
          /\ UNCHANGED callbackError
       \/ /\ Answer(r, 0)
          /\ callbackError' = TRUE
          /\ UNCHANGED <<cdmSessionId, sessions>>
    /\ UNCHANGED <<initialized, nextPromiseId, messageValid, validKeyIds, cdm, caller>>

OnRejectPromise ==
  \E r \in requests :
    /\ Answer(r, 0)
    /\ callbackError' = TRUE
    /\ UNCHANGED <<initialized, nextPromiseId, cdmSessionId, messageValid, validKeyIds,
                   cdm, sessions, caller>>

\* A challenge of any open session; it counts as arrived with the last promise begun.
OnSessionMessage ==
  /\ sessions # {}
  /\ messageValid' = nextPromiseId - 1
  /\ UNCHANGED <<initialized, nextPromiseId, promiseResults, cdmSessionId, callbackError,
                 validKeyIds, external, caller>>

NewKeys(n) == n

\* The keys of any open session replace those known so far.
OnSessionKeysChange ==
  /\ sessions # {}
  /\ \E n \in 0 .. 1 : validKeyIds' = NewKeys(n)
  /\ UNCHANGED <<initialized, nextPromiseId, promiseResults, cdmSessionId, messageValid,
                 callbackError, external, caller>>

ForgetNothing(s) == UNCHANGED <<cdmSessionId, validKeyIds>>   \* mutant: OnSessionClosed() {}
Forget(s) == /\ cdmSessionId' = IF cdmSessionId = s THEN 0 ELSE cdmSessionId
             /\ validKeyIds' = IF cdmSessionId = s THEN 0 ELSE validKeyIds

OnSessionClosed ==
  \E s \in sessions :
    /\ sessions' = sessions \ {s}
    /\ Forget(s)
    /\ UNCHANGED <<initialized, nextPromiseId, promiseResults, messageValid,
                   callbackError, cdm, requests, answers, caller>>

-----------------------------------------------------------------------------
Callback == \/ \E success \in BOOLEAN : OnInitialized(success)
            \/ OnResolvePromise \/ OnResolveNewSessionPromise \/ OnRejectPromise
            \/ OnSessionMessage \/ OnSessionKeysChange \/ OnSessionClosed

NewCall == \/ LoadCdm \/ BeginCreateSession \/ BeginSetServerCertificate
           \/ BeginUpdateSession \/ WaitForMessage \/ BeginShutdown

CallStep == \/ ResetState \/ InitReturns \/ ClearMessage \/ CallCdm
            \/ PromiseDone \/ PromiseTimeout
            \/ CloseSession \/ CallClose \/ Destroy \/ Destroyed \/ ClearState

Next == NewCall \/ CallStep \/ Callback

\* A call that is begun goes on, its timeout included, and Destroy() returns;
\* the CDM owes no callback and nobody has to make a call.
Spec == Init /\ [][Next]_vars /\ WF_vars(CallStep)

-----------------------------------------------------------------------------
(* Properties.                                                             *)

\* A call reports what the CDM said of its own promise, whatever answers to
\* earlier calls that had timed out come in meanwhile.
CallsReportTheirOwnAnswer ==
  returned.id # 0 /\ ~returned.timedOut =>
    /\ returned.id \in DOMAIN answers
    /\ returned.ok = (answers[returned.id] = 1)

\* promiseResults_ holds the promise of the call in progress and no other: an answer
\* to a promise that was given up does not bring it back.
NoPromiseIsLeftBehind ==
  DOMAIN promiseResults =
    IF call.kind = "none" THEN {} ELSE {call.id}

\* The adapter's session is one that the CDM has open, also when it closes one
\* itself or opens one after the call for it has timed out.
SessionIsOpen == cdmSessionId # 0 /\ cdm # "none"
                   => cdmSessionId \in sessions

\* A challenge that is waiting to be fetched came in since the last
\* CreateSessionAndGenerateRequest() began: none that an earlier exchange left
\* unfetched is sent to the license server.
NoStaleChallenge == messageValid # 0 /\ ~At("clearMessage") => messageValid >= lastCreate

\* When Shutdown() has returned nothing of the session is left, although callbacks
\* go on until Destroy() returns.
CleanAfterShutdown ==
  cdm = "none" /\ At("idle") =>
    cdmSessionId = 0 /\ messageValid = 0 /\ validKeyIds = 0 /\ requests = {}

\* Every call returns, with a CDM that never answers too.
CallsReturn == ~At("idle") ~> At("idle")
==============================================================================
